---------------------------- MODULE MqttSpoolProofs ----------------------------
(***************************************************************************)
(* What the disk spool promises, for any number of messages, publishers    *)
(* and connections and any sizes of the records and of the spool.          *)
(***************************************************************************)
EXTENDS MqttSpool, FiniteSetTheorems, SequenceTheorems, WellFoundedInduction, TLAPS

--------------------------------------------------------------------------------
(* Induction over sets of numbers. *)

LEMMA LeastNumber ==
  ASSUME NEW T, T \subseteq Nat, T # {}
  PROVE  \E x \in T : \A y \in T : x <= y
<1> DEFINE R == {ss \in Nat \X Nat : ss[1] < ss[2]}
<1>1. IsWellFoundedOn(R, Nat)
  <2>1. OpToRel(<, Nat) = R
    BY DEF OpToRel
  <2> QED BY <2>1, NatLessThanWellFounded
<1>2. \A x, y \in Nat : y < x => <<y, x>> \in R
  OBVIOUS
<1> HIDE DEF R
<1>3. PICK x \in T : \A y \in T : ~ (<<y, x>> \in R)
  BY <1>1, WFMin
<1>4. \A y \in T : ~(y < x)
  BY <1>2, <1>3
<1>5. \A y \in T : y \in Nat /\ x \in Nat
  OBVIOUS
<1>6. \A y \in T : x <= y
  BY <1>4, <1>5
<1> QED BY <1>6

LEMMA NumberInduction ==
  ASSUME NEW T, NEW n \in Nat, 0 \in T, \A k \in 0..(n - 1) : k \in T => k + 1 \in T
  PROVE  \A k \in 0..n : k \in T
<1> DEFINE U == {k \in Nat : k <= n /\ k \notin T}
<1> SUFFICES ASSUME U # {} PROVE FALSE
  OBVIOUS
<1>1. U \subseteq Nat
  OBVIOUS
<1> HIDE DEF U
<1>2. PICK x \in U : \A y \in U : x <= y
  BY <1>1, LeastNumber
<1>3. x \in 0..n /\ x \notin T
  BY DEF U
<1>4. x - 1 \in 0..(n - 1)
  BY <1>3
<1>5. x - 1 \notin U
  BY <1>2, <1>3, <1>4
<1>6. x - 1 \in T
  BY <1>4, <1>5 DEF U
<1> QED BY <1>3, <1>4, <1>6

--------------------------------------------------------------------------------
(* The length of a file. *)

\* The partial sums that Bytes is defined by, and that there are some.
Partial(lines, n, f) == f = [k \in 0..n |-> IF k = 0 THEN 0 ELSE f[k - 1] + lines[k].bytes]

LEMMA PartialExists ==
  ASSUME NEW lines \in Seq(Line), NEW n \in 0..Len(lines)
  PROVE  \E f : Partial(lines, n, f)
<1> DEFINE T == {k \in Nat : \E f : Partial(lines, k, f)}
<1>1. 0 \in T
  <2>1. Partial(lines, 0, [k \in 0..0 |-> 0])
    BY DEF Partial
  <2> QED BY <2>1
<1>2. ASSUME NEW k \in 0..(Len(lines) - 1), k \in T PROVE k + 1 \in T
  <2>1. PICK f : Partial(lines, k, f)
    BY <1>2
  <2> DEFINE g == [j \in 0..(k + 1) |-> IF j = k + 1 THEN f[k] + lines[k + 1].bytes ELSE f[j]]
  <2>2. Partial(lines, k + 1, g)
    BY <2>1 DEF Partial
  <2> QED BY <2>2
<1> HIDE DEF T
<1>3. Len(lines) \in Nat
  OBVIOUS
<1>4. n \in T
  BY <1>1, <1>2, <1>3, NumberInduction
<1> QED BY <1>4 DEF T

LEMMA BytesPartial ==
  ASSUME NEW lines \in Seq(Line)
  PROVE  \E f : Partial(lines, Len(lines), f) /\ Bytes(lines) = f[Len(lines)]
<1> DEFINE f == CHOOSE f : Partial(lines, Len(lines), f)
<1>1. Partial(lines, Len(lines), f)
  BY PartialExists
<1>2. Bytes(lines) = f[Len(lines)]
  BY DEF Bytes, Partial
<1> QED BY <1>1, <1>2

LEMMA BytesEmpty == Bytes(<<>>) = 0
<1>1. <<>> \in Seq(Line) /\ Len(<<>>) = 0
  OBVIOUS
<1>2. PICK f : Partial(<<>>, 0, f) /\ Bytes(<<>>) = f[0]
  BY <1>1, BytesPartial
<1> QED BY <1>2 DEF Partial

LEMMA BytesType ==
  ASSUME NEW lines \in Seq(Line)
  PROVE  Bytes(lines) \in Nat
<1> DEFINE n == Len(lines)
<1>0. n \in Nat /\ \A k \in 1..n : lines[k] \in Line
  OBVIOUS
<1>1. \A k \in 1..n : lines[k].bytes \in Nat
  BY <1>0 DEF Line
<1>2. PICK f : Partial(lines, n, f) /\ Bytes(lines) = f[n]
  BY BytesPartial
<1> HIDE DEF n
<1> DEFINE T == {k \in Nat : f[k] \in Nat}
<1>3. 0 \in T
  BY <1>0, <1>2 DEF Partial
<1>4. \A k \in 0..(n - 1) : k \in T => k + 1 \in T
  <2> SUFFICES ASSUME NEW k \in 0..(n - 1), k \in T PROVE k + 1 \in T
    OBVIOUS
  <2>1. f[k + 1] = f[k] + lines[k + 1].bytes
    BY <1>0, <1>2 DEF Partial
  <2>2. lines[k + 1].bytes \in Nat /\ f[k] \in Nat /\ k + 1 \in Nat
    BY <1>0, <1>1
  <2> QED BY <2>1, <2>2
<1> HIDE DEF T
<1>5. n \in T
  <2>1. \A k \in 0..n : k \in T
    BY <1>0, <1>3, <1>4, NumberInduction
  <2> QED BY <1>0, <2>1
<1> QED BY <1>2, <1>5 DEF T

LEMMA BytesAppend ==
  ASSUME NEW lines \in Seq(Line), NEW l \in Line
  PROVE  Bytes(Append(lines, l)) = Bytes(lines) + l.bytes
<1> DEFINE n == Len(lines)
           s == Append(lines, l)
<1>1. n \in Nat /\ s \in Seq(Line) /\ Len(s) = n + 1 /\ s[n + 1] = l /\ \A k \in 1..n : s[k] = lines[k]
  OBVIOUS
<1>2. PICK f : Partial(lines, n, f) /\ Bytes(lines) = f[n]
  BY BytesPartial
<1>3. PICK g : Partial(s, n + 1, g) /\ Bytes(s) = g[n + 1]
  BY <1>1, BytesPartial
<1> HIDE DEF n, s
<1> DEFINE T == {k \in Nat : f[k] = g[k]}
<1>4. 0 \in T
  BY <1>1, <1>2, <1>3 DEF Partial
<1>5. \A k \in 0..(n - 1) : k \in T => k + 1 \in T
  <2> SUFFICES ASSUME NEW k \in 0..(n - 1), k \in T PROVE k + 1 \in T
    OBVIOUS
  <2>1. f[k + 1] = f[k] + lines[k + 1].bytes
    BY <1>1, <1>2 DEF Partial
  <2>2. g[k + 1] = g[k] + s[k + 1].bytes
    BY <1>1, <1>3 DEF Partial
  <2>3. s[k + 1] = lines[k + 1] /\ f[k] = g[k] /\ k + 1 \in Nat
    BY <1>1
  <2> QED BY <2>1, <2>2, <2>3
<1> HIDE DEF T
<1>6. n \in T
  <2>1. n \in Nat
    BY <1>1
  <2>2. \A k \in 0..n : k \in T
    BY <1>4, <1>5, <2>1, NumberInduction
  <2> QED BY <2>1, <2>2
<1>7. f[n] = g[n]
  BY <1>6 DEF T
<1>8. g[n + 1] = g[n] + s[n + 1].bytes
  BY <1>1, <1>3 DEF Partial
<1> QED BY <1>1, <1>2, <1>3, <1>7, <1>8 DEF s

LEMMA BytesConcat ==
  ASSUME NEW s \in Seq(Line), NEW t \in Seq(Line)
  PROVE  Bytes(s \o t) = Bytes(s) + Bytes(t)
<1> DEFINE T == {k \in Nat : \A u \in Seq(Line) : Len(u) = k => Bytes(s \o u) = Bytes(s) + Bytes(u)}
<1>1. 0 \in T
  <2> SUFFICES ASSUME NEW u \in Seq(Line), Len(u) = 0 PROVE Bytes(s \o u) = Bytes(s) + Bytes(u)
    OBVIOUS
  <2>1. u = <<>>
    OBVIOUS
  <2>2. s \o u = s /\ Bytes(u) = 0
    BY <2>1, BytesEmpty
  <2> QED BY <2>2, BytesType
<1>2. ASSUME NEW k \in Nat, k \in T PROVE k + 1 \in T
  <2> SUFFICES ASSUME NEW u \in Seq(Line), Len(u) = k + 1 PROVE Bytes(s \o u) = Bytes(s) + Bytes(u)
    OBVIOUS
  <2> DEFINE v == SubSeq(u, 1, k)
             l == u[k + 1]
  <2>1. v \in Seq(Line) /\ Len(v) = k /\ l \in Line
    OBVIOUS
  <2>2. u = Append(v, l)
    OBVIOUS
  <2>3. s \o u = Append(s \o v, l) /\ s \o v \in Seq(Line)
    <3> HIDE DEF v, l
    <3> QED BY <2>1, <2>2
  <2>4. Bytes(s \o v) = Bytes(s) + Bytes(v)
    BY <1>2, <2>1
  <2> HIDE DEF v, l
  <2>5. Bytes(u) = Bytes(v) + l.bytes /\ Bytes(s \o u) = Bytes(s \o v) + l.bytes
    BY <2>1, <2>2, <2>3, BytesAppend
  <2>6. Bytes(s) \in Nat /\ Bytes(v) \in Nat /\ l.bytes \in Nat
    BY <2>1, BytesType DEF Line
  <2> QED BY <2>4, <2>5, <2>6
<1> HIDE DEF T
<1>3. Len(t) \in T
  <2>1. Len(t) \in Nat
    OBVIOUS
  <2>1a. \A k \in 0..(Len(t) - 1) : k \in T => k + 1 \in T
    BY <1>2, <2>1
  <2>2. \A k \in 0..Len(t) : k \in T
    BY <1>1, <2>1, <2>1a, NumberInduction
  <2> QED BY <2>1, <2>2
<1> QED BY <1>3 DEF T

LEMMA BytesSplit ==
  ASSUME NEW lines \in Seq(Line), NEW k \in 0..Len(lines)
  PROVE  /\ Bytes(lines) = Bytes(SubSeq(lines, 1, k)) + Bytes(SubSeq(lines, k + 1, Len(lines)))
         /\ Bytes(SubSeq(lines, 1, k)) \in Nat /\ Bytes(SubSeq(lines, k + 1, Len(lines))) \in Nat
<1>1. SubSeq(lines, 1, k) \in Seq(Line) /\ SubSeq(lines, k + 1, Len(lines)) \in Seq(Line)
  OBVIOUS
<1>2. lines = SubSeq(lines, 1, k) \o SubSeq(lines, k + 1, Len(lines))
  <2>1. /\ Len(SubSeq(lines, 1, k)) = k /\ Len(SubSeq(lines, k + 1, Len(lines))) = Len(lines) - k
        /\ \A i \in 1..k : SubSeq(lines, 1, k)[i] = lines[i]
        /\ \A i \in 1..(Len(lines) - k) : SubSeq(lines, k + 1, Len(lines))[i] = lines[k + i]
    OBVIOUS
  <2> DEFINE s == SubSeq(lines, 1, k)
             t == SubSeq(lines, k + 1, Len(lines))
  <2>2. s \in Seq(Line) /\ t \in Seq(Line)
    BY <1>1
  <2>3. Len(s) = k /\ Len(t) = Len(lines) - k
    BY <2>1
  <2> HIDE DEF s, t
  <2>4. /\ Len(s \o t) = Len(lines)
        /\ s \o t \in Seq(Line)
        /\ \A i \in 1..k : (s \o t)[i] = s[i]
        /\ \A i \in (k + 1)..Len(lines) : (s \o t)[i] = t[i - k]
    BY <2>2, <2>3
  <2>5. \A i \in 1..Len(lines) : (s \o t)[i] = lines[i]
    <3>1. ASSUME NEW i \in 1..k PROVE (s \o t)[i] = lines[i]
      BY <2>1, <2>4 DEF s
    <3>2. ASSUME NEW i \in (k + 1)..Len(lines) PROVE (s \o t)[i] = lines[i]
      <4>1. i - k \in 1..(Len(lines) - k) /\ k + (i - k) = i
        OBVIOUS
      <4>2. t[i - k] = lines[k + (i - k)]
        BY <2>1, <4>1 DEF t
      <4> QED BY <2>4, <4>1, <4>2
    <3>3. \A i \in 1..Len(lines) : i \in 1..k \/ i \in (k + 1)..Len(lines)
      OBVIOUS
    <3> QED BY <3>1, <3>2, <3>3
  <2>6. lines = s \o t
    BY <2>4, <2>5, SeqEqual
  <2> QED BY <2>6 DEF s, t
<1> QED BY <1>1, <1>2, BytesConcat, BytesType

LEMMA BytesPart ==
  ASSUME NEW lines \in Seq(Line), NEW a \in 1..(Len(lines) + 1), NEW b \in (a - 1)..Len(lines)
  PROVE  SubSeq(lines, a, b) \in Seq(Line) /\ Bytes(SubSeq(lines, a, b)) <= Bytes(lines)
<1> DEFINE s == SubSeq(lines, 1, b)
           t == SubSeq(s, a, Len(s))
<1>1. s \in Seq(Line) /\ Len(s) = b /\ a - 1 \in 0..Len(s) /\ b \in 0..Len(lines)
  OBVIOUS
<1>2. Bytes(s) <= Bytes(lines)
  BY <1>1, BytesSplit
<1>3. SubSeq(lines, a, b) \in Seq(Line) /\ Len(SubSeq(lines, a, b)) = b - a + 1
      /\ \A i \in 1..(b - a + 1) : SubSeq(lines, a, b)[i] = lines[a + i - 1]
  OBVIOUS
<1>4. \A i \in 1..b : s[i] = lines[i]
  OBVIOUS
<1> HIDE DEF s
<1>5. t \in Seq(Line) /\ Len(t) = b - a + 1 /\ \A i \in 1..(b - a + 1) : t[i] = s[a + i - 1]
  BY <1>1
<1>6. \A i \in 1..(b - a + 1) : a + i - 1 \in 1..b
  OBVIOUS
<1> HIDE DEF t
<1>7. \A i \in 1..(b - a + 1) : t[i] = SubSeq(lines, a, b)[i]
  BY <1>3, <1>4, <1>5, <1>6
<1>8. t = SubSeq(lines, a, b)
  BY <1>3, <1>5, <1>7, SeqEqual
<1>9. Bytes(t) <= Bytes(s)
  <2>1. /\ Bytes(s) = Bytes(SubSeq(s, 1, a - 1)) + Bytes(SubSeq(s, (a - 1) + 1, Len(s)))
        /\ Bytes(SubSeq(s, 1, a - 1)) \in Nat /\ Bytes(SubSeq(s, (a - 1) + 1, Len(s))) \in Nat
    BY <1>1, BytesSplit
  <2>2. (a - 1) + 1 = a
    OBVIOUS
  <2> QED BY <2>1, <2>2 DEF t
<1>10. Bytes(t) \in Nat /\ Bytes(s) \in Nat /\ Bytes(lines) \in Nat
  BY <1>1, <1>5, BytesType
<1>11. Bytes(t) <= Bytes(lines)
  BY <1>2, <1>9, <1>10
<1> QED BY <1>3, <1>8, <1>11

--------------------------------------------------------------------------------
(* What the writes do to the file. *)

\* The rest that dropOldestLocked keeps: the longest suffix of the file under the target.
LEMMA FirstKeptForm ==
  ASSUME NEW lines \in Seq(Line), NEW target \in Nat
  PROVE  /\ FirstKept(lines, target) \in 0..Len(lines)
         /\ Bytes(SubSeq(lines, FirstKept(lines, target) + 1, Len(lines))) <= target
         /\ \A j \in 0..(FirstKept(lines, target) - 1) : Bytes(SubSeq(lines, j + 1, Len(lines))) > target
<1> DEFINE n == Len(lines)
           T == {k \in Nat : k <= n /\ Bytes(SubSeq(lines, k + 1, n)) <= target}
<1>0. n \in Nat
  OBVIOUS
<1>1. n \in T
  <2>1. SubSeq(lines, n + 1, n) = <<>>
    OBVIOUS
  <2>2. Bytes(SubSeq(lines, n + 1, n)) = 0
    BY <2>1, BytesEmpty
  <2> HIDE DEF n
  <2> QED BY <1>0, <2>2
<1>2. T \subseteq Nat
  OBVIOUS
<1> HIDE DEF T
<1>3. PICK x \in T : \A y \in T : x <= y
  BY <1>1, <1>2, LeastNumber
<1>4. x \in 0..n /\ Bytes(SubSeq(lines, x + 1, n)) <= target
  BY <1>3 DEF T
<1>5. \A j \in 0..(x - 1) : Bytes(SubSeq(lines, j + 1, n)) > target
  <2> SUFFICES ASSUME NEW j \in 0..(x - 1) PROVE Bytes(SubSeq(lines, j + 1, n)) > target
    OBVIOUS
  <2>1. j \notin T /\ j \in 0..n
    BY <1>0, <1>3, <1>4
  <2>2. Bytes(SubSeq(lines, j + 1, n)) \in Nat
    BY <2>1, BytesSplit
  <2> QED BY <2>1, <2>2 DEF T
<1> DEFINE P(k) == /\ Bytes(SubSeq(lines, k + 1, n)) <= target
                   /\ \A j \in 0..(k - 1) : Bytes(SubSeq(lines, j + 1, n)) > target
<1>6. P(x)
  BY <1>4, <1>5
<1>7. FirstKept(lines, target) = CHOOSE k \in 0..n : P(k)
  BY DEF FirstKept
<1> HIDE DEF P
<1>8. FirstKept(lines, target) \in 0..n /\ P(FirstKept(lines, target))
  BY <1>4, <1>6, <1>7
<1> QED BY <1>8 DEF P

LEMMA FirstKeptFits ==
  ASSUME NEW lines \in Seq(Line), NEW target \in Nat
  PROVE  /\ FirstKept(lines, target) \in 0..Len(lines)
         /\ Bytes(SubSeq(lines, FirstKept(lines, target) + 1, Len(lines))) <= target
BY FirstKeptForm

\* A file whose lines, but for the last one, end in a newline.
Lines(lines) ==
  /\ \A i \in 1..Len(lines) : lines[i].bytes >= 1
  /\ \A i \in 1..(Len(lines) - 1) : lines[i].ended

\* ... and whose last one does, too.
Closed(lines) == lines = <<>> \/ lines[Len(lines)].ended

LEMMA Beginning ==
  ASSUME NEW lines \in Seq(Line), NEW k \in 0..Len(lines)
  PROVE  /\ SubSeq(lines, 1, k) \in Seq(Line) /\ Len(SubSeq(lines, 1, k)) = k
         /\ \A i \in 1..k : SubSeq(lines, 1, k)[i] = lines[i]
OBVIOUS

LEMMA Ending ==
  ASSUME NEW lines \in Seq(Line), NEW k \in 0..Len(lines)
  PROVE  LET s == SubSeq(lines, k + 1, Len(lines))
         IN s \in Seq(Line) /\ Len(s) = Len(lines) - k /\ \A i \in 1..Len(s) : s[i] = lines[k + i]
<1> DEFINE s == SubSeq(lines, k + 1, Len(lines))
<1>1. s \in Seq(Line)
  OBVIOUS
<1>2. Len(s) = Len(lines) - k
  OBVIOUS
<1>3. \A i \in 1..(Len(lines) - k) : s[i] = lines[k + i]
  OBVIOUS
<1> HIDE DEF s
<1>4. \A i \in 1..Len(s) : s[i] = lines[k + i]
  BY <1>2, <1>3
<1> QED BY <1>1, <1>2, <1>4 DEF s

LEMMA LastApart ==
  ASSUME NEW lines \in Seq(Line), lines # <<>>
  PROVE  LET k == Len(lines)
             s == SubSeq(lines, 1, k - 1)
         IN /\ k >= 1 /\ s \in Seq(Line) /\ Len(s) = k - 1 /\ lines = Append(s, lines[k])
            /\ \A i \in 1..(k - 1) : s[i] = lines[i]
            /\ lines[k] \in Line /\ Bytes(lines) = Bytes(s) + lines[k].bytes /\ Bytes(s) \in Nat
<1> DEFINE k == Len(lines)
           s == SubSeq(lines, 1, k - 1)
<1>1. k \in Nat /\ k >= 1 /\ lines[k] \in Line
  OBVIOUS
<1>2. s \in Seq(Line) /\ Len(s) = k - 1 /\ \A i \in 1..(k - 1) : s[i] = lines[i]
  <2>1. ASSUME NEW j \in 0..Len(lines)
        PROVE  LET p == SubSeq(lines, 1, j)
               IN p \in Seq(Line) /\ Len(p) = j /\ \A i \in 1..j : p[i] = lines[i]
    OBVIOUS
  <2>2. k - 1 \in 0..Len(lines)
    BY <1>1
  <2> QED BY <2>1, <2>2
<1>3. lines = Append(s, lines[k])
  <2> HIDE DEF s
  <2>1. Append(s, lines[k]) \in Seq(Line) /\ Len(Append(s, lines[k])) = Len(lines)
    BY <1>1, <1>2
  <2>2. \A i \in 1..Len(lines) : Append(s, lines[k])[i] = lines[i]
    BY <1>1, <1>2
  <2> QED BY <2>1, <2>2, SeqEqual
<1> HIDE DEF s, k
<1>4. Bytes(lines) = Bytes(s) + lines[k].bytes /\ Bytes(s) \in Nat
  BY <1>1, <1>2, <1>3, BytesAppend, BytesType
<1> QED BY <1>1, <1>2, <1>3, <1>4 DEF s, k

\* The append: the bytes are there, on the last line or on a new one; nothing else
\* has moved.
\* What a file is after n bytes of m's line.
WrittenTo(w, lines, m, n) ==
  /\ w \in Seq(Line) /\ Lines(w) /\ Bytes(w) = Bytes(lines) + n
  /\ Len(w) >= Len(lines)
  /\ \A i \in 1..Len(w) :
       \/ i \in 1..Len(lines) /\ w[i].msgs = lines[i].msgs
       \/ i \in 1..Len(lines) /\ i = Len(w) /\ w[i].msgs = Append(lines[i].msgs, m)
       \/ i = Len(w) /\ w[i].msgs = <<m>>
  /\ n = 0 => w = lines
  /\ n = SizeOf[m] => Closed(w)
  /\ Closed(lines) /\ n > 0 => w = Append(lines, [msgs |-> <<m>>, bytes |-> n, ended |-> n = SizeOf[m]])

LEMMA WrittenForm ==
  ASSUME NEW lines \in Seq(Line), Lines(lines), NEW m \in Msgs, NEW n \in 0..SizeOf[m]
  PROVE  WrittenTo(Written(lines, m, n), lines, m, n)
<1> DEFINE k == Len(lines)
           w == Written(lines, m, n)
           e == n = SizeOf[m]
<1> SUFFICES /\ w \in Seq(Line) /\ Lines(w) /\ Bytes(w) = Bytes(lines) + n
             /\ Len(w) >= Len(lines)
             /\ \A i \in 1..Len(w) :
                  \/ i \in 1..Len(lines) /\ w[i].msgs = lines[i].msgs
                  \/ i \in 1..Len(lines) /\ i = Len(w) /\ w[i].msgs = Append(lines[i].msgs, m)
                  \/ i = Len(w) /\ w[i].msgs = <<m>>
             /\ n = 0 => w = lines
             /\ n = SizeOf[m] => Closed(w)
             /\ Closed(lines) /\ n > 0 => w = Append(lines, [msgs |-> <<m>>, bytes |-> n, ended |-> n = SizeOf[m]])
  BY DEF WrittenTo
<1>0. k \in Nat /\ SizeOf[m] \in Nat \ {0, 1} /\ n \in Nat /\ Bytes(lines) \in Nat /\ e \in BOOLEAN
  BY SpoolConstants, BytesType
<1>1. CASE n = 0
  <2>1. w = lines
    BY <1>1 DEF Written
  <2>2. n # SizeOf[m]
    BY <1>0, <1>1
  <2> QED BY <1>0, <1>1, <2>1, <2>2
<1>2. CASE n # 0 /\ k > 0 /\ ~lines[k].ended
  <2> DEFINE l == [msgs |-> Append(lines[k].msgs, m), bytes |-> lines[k].bytes + n, ended |-> e]
             s == SubSeq(lines, 1, k - 1)
  <2>1. /\ s \in Seq(Line) /\ Len(s) = k - 1 /\ lines = Append(s, lines[k])
        /\ \A i \in 1..(k - 1) : s[i] = lines[i]
        /\ lines[k] \in Line /\ Bytes(lines) = Bytes(s) + lines[k].bytes /\ Bytes(s) \in Nat
    BY <1>2, LastApart
  <2>2. l \in Line /\ l.bytes = lines[k].bytes + n /\ l.bytes >= 1 /\ (l.ended <=> e) /\ lines[k].bytes \in Nat
        /\ l.msgs = Append(lines[k].msgs, m)
    <3>1. lines[k].msgs \in Seq(Msgs) /\ lines[k].bytes \in Nat
      BY <2>1 DEF Line
    <3>2. Append(lines[k].msgs, m) \in Seq(Msgs) /\ lines[k].bytes + n \in Nat /\ lines[k].bytes + n >= 1
      BY <1>0, <1>2, <3>1
    <3> HIDE DEF e
    <3> QED BY <1>0, <3>1, <3>2 DEF Line
  <2>3. w = [lines EXCEPT ![k] = l]
    BY <1>0, <1>2 DEF Written
  <2> HIDE DEF l, e
  <2>4. w \in Seq(Line) /\ Len(w) = k /\ w[k] = l /\ \A i \in 1..(k - 1) : w[i] = lines[i]
    BY <1>0, <1>2, <2>2, <2>3
  <2> HIDE DEF w, s
  <2>5. w = Append(s, l)
    <3>1. Append(s, l) \in Seq(Line) /\ Len(Append(s, l)) = k
      BY <1>0, <2>1, <2>2
    <3>2. \A i \in 1..k : Append(s, l)[i] = w[i]
      <4>1. Append(s, l)[k] = l /\ \A i \in 1..(k - 1) : Append(s, l)[i] = s[i]
        BY <1>0, <2>1, <2>2
      <4>2. \A i \in 1..k : i = k \/ i \in 1..(k - 1)
        BY <1>0
      <4> QED BY <2>1, <2>4, <4>1, <4>2
    <3> QED BY <2>4, <3>1, <3>2, SeqEqual
  <2>6. Bytes(w) = Bytes(lines) + n
    <3>1. Bytes(w) = Bytes(s) + l.bytes
      BY <2>1, <2>2, <2>5, BytesAppend
    <3> QED BY <1>0, <2>1, <2>2, <3>1
  <2>7. Lines(w)
    <3>1. \A i \in 1..Len(w) : w[i].bytes >= 1
      BY <1>0, <2>2, <2>4 DEF Lines
    <3>2. \A i \in 1..(Len(w) - 1) : w[i].ended
      BY <1>0, <2>4 DEF Lines
    <3> QED BY <3>1, <3>2 DEF Lines
  <2>8. w # <<>> /\ (e => Closed(w))
    BY <1>0, <1>2, <2>2, <2>4 DEF Closed
  <2>9. ~Closed(lines)
    BY <1>0, <1>2 DEF Closed
  <2>10. \A i \in 1..Len(w) :
                 \/ i \in 1..Len(lines) /\ w[i].msgs = lines[i].msgs
                 \/ i \in 1..Len(lines) /\ i = Len(w) /\ w[i].msgs = Append(lines[i].msgs, m)
                 \/ i = Len(w) /\ w[i].msgs = <<m>>
    <3>1. w[k].msgs = Append(lines[k].msgs, m)
      BY <2>2, <2>4
    <3>2. \A i \in 1..(k - 1) : w[i].msgs = lines[i].msgs
      BY <2>4
    <3>3. \A i \in 1..k : i = k \/ i \in 1..(k - 1)
      BY <1>0
    <3>4. 1..Len(w) = 1..k /\ Len(w) = k /\ Len(lines) = k
      BY <2>4
    <3> HIDE DEF k
    <3> QED BY <3>1, <3>2, <3>3, <3>4
  <2>11. Len(w) >= Len(lines)
    BY <1>0, <2>4
  <2> QED BY <1>2, <2>4, <2>6, <2>7, <2>8, <2>9, <2>10, <2>11 DEF w, e
<1>3. CASE n # 0 /\ ~(k > 0 /\ ~lines[k].ended)
  <2> DEFINE l == [msgs |-> <<m>>, bytes |-> n, ended |-> e]
  <2>2. l \in Line /\ l.bytes = n /\ l.bytes >= 1 /\ (l.ended <=> e) /\ l.msgs = <<m>>
    <3> HIDE DEF e
    <3> QED BY <1>0, <1>3 DEF Line
  <2>3. w = Append(lines, l)
    BY <1>3 DEF Written
  <2> HIDE DEF l, e
  <2>4. w \in Seq(Line) /\ Len(w) = k + 1 /\ w[k + 1] = l /\ \A i \in 1..k : w[i] = lines[i]
    BY <1>0, <2>2, <2>3
  <2> HIDE DEF w
  <2>6. Bytes(w) = Bytes(lines) + n
    BY <2>2, <2>3, BytesAppend
  <2>7. Lines(w)
    <3>1. \A i \in 1..Len(w) : w[i].bytes >= 1
      BY <1>0, <2>2, <2>4 DEF Lines
    <3>2. \A i \in 1..(Len(w) - 1) : w[i].ended
      BY <1>0, <1>3, <2>4 DEF Lines
    <3> QED BY <3>1, <3>2 DEF Lines
  <2>8. w # <<>> /\ (e => Closed(w))
    BY <1>0, <2>2, <2>4 DEF Closed
  <2>10. \A i \in 1..Len(w) :
                 \/ i \in 1..Len(lines) /\ w[i].msgs = lines[i].msgs
                 \/ i \in 1..Len(lines) /\ i = Len(w) /\ w[i].msgs = Append(lines[i].msgs, m)
                 \/ i = Len(w) /\ w[i].msgs = <<m>>
    BY <1>0, <2>2, <2>4
  <2>11. Len(w) >= Len(lines)
    BY <1>0, <2>4
  <2> QED BY <1>3, <2>3, <2>4, <2>6, <2>7, <2>8, <2>10, <2>11 DEF w, e, l
<1> QED BY <1>0, <1>1, <1>2, <1>3

LEMMA WrittenLines ==
  ASSUME NEW lines \in Seq(Line), Lines(lines), NEW m \in Msgs, NEW n \in 0..SizeOf[m]
  PROVE  /\ Written(lines, m, n) \in Seq(Line) /\ Len(Written(lines, m, n)) >= Len(lines)
         /\ \A i \in 1..Len(Written(lines, m, n)) :
              \/ i \in 1..Len(lines) /\ Written(lines, m, n)[i].msgs = lines[i].msgs
              \/ i \in 1..Len(lines) /\ i = Len(Written(lines, m, n))
                   /\ Written(lines, m, n)[i].msgs = Append(lines[i].msgs, m)
              \/ i = Len(Written(lines, m, n)) /\ Written(lines, m, n)[i].msgs = <<m>>
<1>1. WrittenTo(Written(lines, m, n), lines, m, n)
  BY WrittenForm
<1> QED BY <1>1 DEF WrittenTo

LEMMA WrittenBytes ==
  ASSUME NEW lines \in Seq(Line), Lines(lines), NEW m \in Msgs, NEW n \in 0..SizeOf[m]
  PROVE  /\ Written(lines, m, n) \in Seq(Line) /\ Lines(Written(lines, m, n))
         /\ Bytes(Written(lines, m, n)) = Bytes(lines) + n
         /\ n = 0 => Written(lines, m, n) = lines
         /\ n = SizeOf[m] => Closed(Written(lines, m, n))
<1>1. WrittenTo(Written(lines, m, n), lines, m, n)
  BY WrittenForm
<1> QED BY <1>1 DEF WrittenTo

LEMMA WrittenWhole ==
  ASSUME NEW lines \in Seq(Line), Lines(lines), Closed(lines), NEW m \in Msgs
  PROVE  Written(lines, m, SizeOf[m]) = Append(lines, [msgs |-> <<m>>, bytes |-> SizeOf[m], ended |-> TRUE])
<1>1. SizeOf[m] \in 0..SizeOf[m] /\ SizeOf[m] > 0
  BY SpoolConstants
<1>2. WrittenTo(Written(lines, m, SizeOf[m]), lines, m, SizeOf[m])
  BY <1>1, WrittenForm
<1>3. Written(lines, m, SizeOf[m]) = Append(lines, [msgs |-> <<m>>, bytes |-> SizeOf[m], ended |-> SizeOf[m] = SizeOf[m]])
  BY <1>1, <1>2 DEF WrittenTo
<1> QED BY <1>3

\* What an os.WriteFile that did not finish leaves: a beginning, shorter than what
\* it was to write.
LEMMA CutForm ==
  ASSUME NEW lines \in Seq(Line), Lines(lines), NEW f \in CutShort(lines)
  PROVE  /\ f \in Seq(Line) /\ Lines(f) /\ Bytes(f) < Bytes(lines)
         /\ Len(f) <= Len(lines) /\ \A i \in 1..Len(f) : f[i].msgs = lines[i].msgs
<1>0. Len(lines) \in Nat /\ Bytes(lines) \in Nat
  BY BytesType
<1>1. ASSUME NEW k \in 0..(Len(lines) - 1), f = SubSeq(lines, 1, k)
      PROVE  /\ f \in Seq(Line) /\ Lines(f) /\ Bytes(f) < Bytes(lines)
             /\ Len(f) <= Len(lines) /\ \A i \in 1..Len(f) : f[i].msgs = lines[i].msgs
  <2>1. f \in Seq(Line) /\ Len(f) = k /\ \A i \in 1..k : f[i] = lines[i]
    BY <1>1
  <2>2. Lines(f)
    <3>1. \A i \in 1..Len(f) : f[i].bytes >= 1
      BY <1>0, <2>1 DEF Lines
    <3>2. \A i \in 1..(Len(f) - 1) : f[i].ended
      BY <1>0, <2>1 DEF Lines
    <3> QED BY <3>1, <3>2 DEF Lines
  <2> DEFINE r == SubSeq(lines, k + 1, Len(lines))
  <2>3. Bytes(lines) = Bytes(f) + Bytes(r) /\ Bytes(f) \in Nat /\ Bytes(r) \in Nat
    BY <1>0, <1>1, BytesSplit
  <2>4. r \in Seq(Line) /\ Len(r) = Len(lines) - k /\ \A i \in 1..(Len(lines) - k) : r[i] = lines[k + i]
    BY <1>0
  <2> HIDE DEF r
  <2>5. r # <<>> /\ r[Len(r)].bytes >= 1
    <3>1. Len(r) \in 1..(Len(lines) - k) /\ k + Len(r) = Len(lines) /\ Len(lines) \in 1..Len(lines)
      BY <1>0, <2>4
    <3>2. r[Len(r)] = lines[Len(lines)]
      BY <2>4, <3>1
    <3> QED BY <3>1, <3>2 DEF Lines
  <2>6. /\ Bytes(r) = Bytes(SubSeq(r, 1, Len(r) - 1)) + r[Len(r)].bytes
        /\ Bytes(SubSeq(r, 1, Len(r) - 1)) \in Nat /\ r[Len(r)] \in Line
    BY <2>4, <2>5, LastApart
  <2>7. r[Len(r)].bytes \in Nat
    BY <2>6 DEF Line
  <2>8. Bytes(r) >= 1
    BY <2>5, <2>6, <2>7
  <2>9. Bytes(f) < Bytes(lines)
    BY <2>3, <2>8
  <2> QED BY <1>0, <2>1, <2>2, <2>9
<1>2. ASSUME NEW k \in 1..Len(lines), NEW b \in 1..(lines[k].bytes - 1),
             f = Append(SubSeq(lines, 1, k - 1), [lines[k] EXCEPT !.bytes = b, !.ended = FALSE])
      PROVE  /\ f \in Seq(Line) /\ Lines(f) /\ Bytes(f) < Bytes(lines)
             /\ Len(f) <= Len(lines) /\ \A i \in 1..Len(f) : f[i].msgs = lines[i].msgs
  <2> DEFINE u == SubSeq(lines, 1, k)
             s == SubSeq(lines, 1, k - 1)
             l == [lines[k] EXCEPT !.bytes = b, !.ended = FALSE]
  <2>1. lines[k] \in Line
    OBVIOUS
  <2>2. lines[k].bytes \in Nat /\ b \in Nat /\ b < lines[k].bytes /\ b >= 1
    BY <2>1 DEF Line
  <2>3. l \in Line /\ l.bytes = b /\ l.msgs = lines[k].msgs
    BY <2>1, <2>2 DEF Line
  <2>4. u \in Seq(Line) /\ Len(u) = k /\ \A i \in 1..k : u[i] = lines[i]
    OBVIOUS
  <2>5. k - 1 \in 0..Len(lines)
    OBVIOUS
  <2>6. s \in Seq(Line) /\ Len(s) = k - 1 /\ \A i \in 1..(k - 1) : s[i] = lines[i]
    <3>1. ASSUME NEW j \in 0..Len(lines)
          PROVE  LET p == SubSeq(lines, 1, j)
                 IN p \in Seq(Line) /\ Len(p) = j /\ \A i \in 1..j : p[i] = lines[i]
      OBVIOUS
    <3> QED BY <2>5, <3>1
  <2>7. f = Append(s, l)
    BY <1>2
  <2> HIDE DEF u, s, l
  <2>8. u = Append(s, lines[k])
    <3>1. Append(s, lines[k]) \in Seq(Line) /\ Len(Append(s, lines[k])) = k
      BY <2>1, <2>6
    <3>2. \A i \in 1..k : Append(s, lines[k])[i] = u[i]
      BY <2>1, <2>4, <2>6
    <3> QED BY <2>4, <3>1, <3>2, SeqEqual
  <2>9. Bytes(u) = Bytes(s) + lines[k].bytes /\ Bytes(f) = Bytes(s) + b
    BY <2>1, <2>3, <2>6, <2>7, <2>8, BytesAppend
  <2>10. Bytes(u) <= Bytes(lines) /\ Bytes(s) \in Nat /\ Bytes(u) \in Nat
    <3>1. 1 \in 1..(Len(lines) + 1) /\ k \in (1 - 1)..Len(lines)
      BY <1>0
    <3>2. Bytes(SubSeq(lines, 1, k)) <= Bytes(lines)
      BY <3>1, BytesPart
    <3> QED BY <2>4, <2>6, <3>2, BytesType DEF u
  <2>11. Bytes(f) < Bytes(lines)
    BY <1>0, <2>2, <2>9, <2>10
  <2>12. f \in Seq(Line) /\ Len(f) = k /\ f[k] = l /\ \A i \in 1..(k - 1) : f[i] = lines[i]
    BY <2>3, <2>6, <2>7
  <2>13. Lines(f)
    <3>1. \A i \in 1..Len(f) : f[i].bytes >= 1
      BY <1>0, <2>2, <2>3, <2>12 DEF Lines
    <3>2. \A i \in 1..(Len(f) - 1) : f[i].ended
      BY <1>0, <2>12 DEF Lines
    <3> QED BY <3>1, <3>2 DEF Lines
  <2>14. \A i \in 1..Len(f) : f[i].msgs = lines[i].msgs
    BY <2>3, <2>12
  <2> QED BY <1>0, <2>11, <2>12, <2>13, <2>14
<1>3. \/ \E k \in 0..(Len(lines) - 1) : f = SubSeq(lines, 1, k)
      \/ \E k \in 1..Len(lines) : \E b \in 1..(lines[k].bytes - 1) :
           f = Append(SubSeq(lines, 1, k - 1), [lines[k] EXCEPT !.bytes = b, !.ended = FALSE])
  BY Zenon DEF CutShort
<1> QED BY <1>1, <1>2, <1>3

\* rewriteLocked: one byte more at most, and all lines end.
LEMMA EndedForm ==
  ASSUME NEW lines \in Seq(Line), Lines(lines)
  PROVE  LET e == Ended(lines)
         IN /\ e \in Seq(Line) /\ Lines(e) /\ Closed(e) /\ Len(e) = Len(lines)
            /\ Bytes(e) <= Bytes(lines) + 1 /\ (Closed(lines) => e = lines)
            /\ \A i \in 1..Len(lines) : e[i].msgs = lines[i].msgs
<1> DEFINE e == Ended(lines)
           k == Len(lines)
           F(l) == IF l.ended THEN l ELSE [l EXCEPT !.bytes = @ + 1, !.ended = TRUE]
<1>0. k \in Nat /\ Bytes(lines) \in Nat /\ DOMAIN lines = 1..k
  BY BytesType
<1>1. \A l \in Line : /\ F(l) \in Line /\ F(l).ended /\ (l.ended => F(l) = l)
                      /\ F(l).msgs = l.msgs /\ F(l).bytes \in {l.bytes, l.bytes + 1} /\ l.bytes \in Nat
  <2> SUFFICES ASSUME NEW l \in Line
               PROVE  /\ F(l) \in Line /\ F(l).ended /\ (l.ended => F(l) = l)
                      /\ F(l).msgs = l.msgs /\ F(l).bytes \in {l.bytes, l.bytes + 1} /\ l.bytes \in Nat
    OBVIOUS
  <2>0. l.bytes \in Nat /\ l.bytes + 1 \in Nat
    BY DEF Line
  <2>1. CASE l.ended
    BY <2>0, <2>1
  <2>2. CASE ~l.ended
    <3>1. F(l) = [l EXCEPT !.bytes = l.bytes + 1, !.ended = TRUE]
      BY <2>2 DEF Line
    <3>2. F(l) \in Line
      BY <2>0, <3>1 DEF Line
    <3>3. F(l).ended
      BY <3>1 DEF Line
    <3>4. F(l).msgs = l.msgs /\ F(l).bytes = l.bytes + 1
      BY <3>1 DEF Line
    <3> QED BY <2>0, <2>2, <3>2, <3>3, <3>4
  <2> QED BY <2>1, <2>2
<1>2. e = [i \in 1..k |-> F(lines[i])]
  BY <1>0 DEF Ended
<1> HIDE DEF F
<1>3. \A i \in 1..k : lines[i] \in Line
  OBVIOUS
<1>4. e \in Seq(Line) /\ Len(e) = k /\ \A i \in 1..k : e[i] = F(lines[i])
  <2>1. \A i \in 1..k : F(lines[i]) \in Line
    BY <1>1, <1>3
  <2>2. e \in [1..k -> Line]
    BY <1>2, <2>1
  <2> QED BY <1>0, <1>2, <2>2
<1> HIDE DEF e
<1>5. \A i \in 1..(k - 1) : e[i] = lines[i]
  BY <1>0, <1>1, <1>3, <1>4 DEF Lines
<1>6. Lines(e)
  <2>1. \A i \in 1..k : e[i].bytes >= 1
    BY <1>1, <1>3, <1>4 DEF Lines
  <2>2. \A i \in 1..(k - 1) : e[i].ended
    BY <1>0, <1>1, <1>3, <1>4
  <2> QED BY <1>4, <2>1, <2>2 DEF Lines
<1>7. Closed(e)
  <2>1. CASE k = 0
    BY <1>4, <2>1 DEF Closed
  <2>2. CASE k # 0
    BY <1>0, <1>1, <1>3, <1>4, <2>2 DEF Closed
  <2> QED BY <2>1, <2>2
<1>8. ASSUME Closed(lines) PROVE e = lines
  <2>1. \A i \in 1..k : lines[i].ended
    BY <1>0, <1>8 DEF Closed, Lines
  <2>2. \A i \in 1..k : e[i] = lines[i]
    BY <1>1, <1>3, <1>4, <2>1
  <2> QED BY <1>4, <2>2, SeqEqual
<1>9. Bytes(e) <= Bytes(lines) + 1
  <2>1. CASE k = 0
    BY <1>0, <1>8, <2>1 DEF Closed
  <2>2. CASE k # 0
    <3> DEFINE s == SubSeq(lines, 1, k - 1)
               t == SubSeq(e, 1, k - 1)
    <3>1. lines # <<>> /\ e # <<>>
      BY <1>0, <1>4, <2>2
    <3>2. /\ s \in Seq(Line) /\ Len(s) = k - 1 /\ Bytes(s) \in Nat /\ \A i \in 1..(k - 1) : s[i] = lines[i]
          /\ Bytes(lines) = Bytes(s) + lines[k].bytes
      BY <3>1, LastApart
    <3>3. /\ t \in Seq(Line) /\ Len(t) = k - 1 /\ Bytes(t) \in Nat /\ \A i \in 1..(k - 1) : t[i] = e[i]
          /\ Bytes(e) = Bytes(t) + e[k].bytes
      BY <1>4, <3>1, LastApart
    <3> HIDE DEF s, t
    <3>4. s = t
      BY <1>5, <3>2, <3>3, SeqEqual
    <3>5. k \in 1..k
      BY <1>0, <2>2
    <3>6. e[k].bytes \in {lines[k].bytes, lines[k].bytes + 1} /\ lines[k].bytes \in Nat
      BY <1>1, <1>3, <1>4, <3>5
    <3> QED BY <3>2, <3>3, <3>4, <3>6
  <2> QED BY <2>1, <2>2
<1>10. \A i \in 1..k : e[i].msgs = lines[i].msgs
  BY <1>1, <1>3, <1>4
<1> HIDE DEF k
<1> QED BY <1>4, <1>6, <1>7, <1>8, <1>9, <1>10 DEF e, k

--------------------------------------------------------------------------------
(* Who is where, and the lock. *)

\* The places inside Spool.mu.
Inside == {"trim", "append", "scan", "rewrite"}

\* A publisher's and the Drainer's places; those inside Spool.mu; what a goroutine
\* that publishes and writes is about; a process that is down.
LockInv ==
  /\ TypeOK /\ spawned <= connects
  /\ \A p \in Publishers : pc[p] \in {"idle", "add", "trim", "append"}
  /\ pc[Drainer] \in {"idle", "stats", "scan", "rewrite"}
  /\ \A g \in Goroutines : pc[g] \in Inside => mu = g
  /\ \A p \in Publishers : pc[p] # "idle" => msg[p] \in Msgs
  /\ pc[Drainer] = "scan" => next >= 1
  /\ \A g \in Goroutines : pc[g] \in {"trim", "rewrite"} => file = <<>>
  /\ work # <<>> => \E g \in Goroutines : pc[g] \in {"trim", "rewrite"}
  /\ ~running => spawned = 0 /\ \A g \in Goroutines : pc[g] = "idle"

\* What the file and the lines about to be written take, and what size says of it.
CeilInv ==
  /\ Lines(file) /\ Lines(work)
  /\ Bytes(file) <= MaxBytes
  /\ ~Closed(file) => Bytes(file) < MaxBytes
  /\ running => Bytes(file) <= size
  /\ \A p \in Publishers : pc[p] = "trim" => Bytes(work) + SizeOf[msg[p]] <= MaxBytes /\ Bytes(work) <= size
  /\ \A p \in Publishers : pc[p] = "append" => size + SizeOf[msg[p]] <= MaxBytes
  /\ pc[Drainer] = "rewrite" => Bytes(work) <= MaxBytes /\ Bytes(work) <= size + 1 /\ Closed(work)

LEMMA SpoolInit == Init => LockInv /\ CeilInv
<1> SUFFICES ASSUME Init PROVE LockInv /\ CeilInv
  OBVIOUS
<1> USE DEF Init
<1>1. TypeOK
  <2>1. /\ pc \in [Goroutines -> {"idle", "add", "trim", "append", "stats", "scan", "rewrite"}]
        /\ msg \in [Publishers -> Msgs \cup {Nobody}]
    OBVIOUS
  <2>2. file \in Seq(Line) /\ work \in Seq(Line) /\ accepted \in Seq(Msgs) /\ delivered \in Seq(Msgs)
    OBVIOUS
  <2>3. connects \in 0..MaxConnects /\ spawned \in 0..MaxConnects
    BY SpoolConstants
  <2> QED BY <2>1, <2>2, <2>3 DEF TypeOK
<1>2. LockInv
  BY <1>1, SpoolConstants DEF LockInv, Inside, Goroutines
<1>3. Lines(<<>>) /\ Closed(<<>>)
  BY DEF Lines, Closed
<1>4. CeilInv
  BY <1>3, BytesEmpty, SpoolConstants DEF CeilInv, Goroutines
<1> QED BY <1>2, <1>4

\* The steps that touch neither the file nor the lines about to be written.
Quiet ==
  \/ \E p \in Publishers : (\E m \in Msgs : PublishWithQoS(p, m)) \/ AddTooLarge(p)
  \/ \E m \in Msgs : SendLate(m)
  \/ onConnect \/ onConnectionLost \/ DrainTry \/ DrainOpen \/ NewSpool \/ UNCHANGED vars

LEMMA LockOpen ==
  ASSUME LockInv, DrainOpen
  PROVE  LockInv'
<1>1. pc[Drainer] = "stats" /\ mu = Nobody /\ UNCHANGED <<fileVars, work, msg, clientVars, msgVars, wireVars>>
  BY DEF DrainOpen
<1>2. /\ pc \in [Goroutines -> {"idle", "add", "trim", "append", "stats", "scan", "rewrite"}]
      /\ Drainer \in Goroutines /\ Nobody \notin Goroutines
      /\ \A p \in Publishers : p # Drainer /\ p \in Goroutines
  BY SpoolConstants DEF LockInv, TypeOK, Goroutines
<1>3. \A g \in Goroutines : pc[g] \notin Inside
  BY <1>1, <1>2 DEF LockInv
<1>4. running /\ work = <<>> /\ UNCHANGED <<file, work, msg, spawned, connects, running>>
  BY <1>1, <1>2, <1>3 DEF LockInv, Inside, fileVars, clientVars
<1>5. CASE size # 0
  <2>1. pc' = [pc EXCEPT ![Drainer] = "scan"] /\ mu' = Drainer /\ next' = 1
    BY <1>5 DEF DrainOpen, Goto
  <2>2. TypeOK'
    BY <1>1, <1>2, <2>1 DEF LockInv, TypeOK, fileVars, clientVars, msgVars, wireVars
  <2>3. pc'[Drainer] = "scan" /\ \A g \in Goroutines : g # Drainer => pc'[g] = pc[g]
    BY <1>2, <2>1
  <2>4. \A g \in Goroutines : (pc'[g] \in Inside => mu' = g) /\ pc'[g] \notin {"trim", "rewrite"}
    BY <1>3, <2>1, <2>3 DEF Inside
  <2>5. \A p \in Publishers : pc'[p] = pc[p]
    BY <1>2, <2>3
  <2> QED BY <1>4, <2>1, <2>2, <2>3, <2>4, <2>5 DEF LockInv
<1>6. CASE size = 0
  <2>1. pc' = [pc EXCEPT ![Drainer] = "idle"] /\ UNCHANGED <<mu, next>>
    BY <1>6 DEF DrainOpen, Goto
  <2>2. TypeOK'
    BY <1>1, <1>2, <2>1 DEF LockInv, TypeOK, fileVars, clientVars, msgVars, wireVars
  <2>3. pc'[Drainer] = "idle" /\ \A g \in Goroutines : g # Drainer => pc'[g] = pc[g]
    BY <1>2, <2>1
  <2>4. \A g \in Goroutines : pc'[g] \notin Inside
    BY <1>3, <2>3 DEF Inside
  <2>5. \A p \in Publishers : pc'[p] = pc[p]
    BY <1>2, <2>3
  <2> QED BY <1>4, <2>2, <2>3, <2>4, <2>5 DEF LockInv, Inside
<1> QED BY <1>5, <1>6

LEMMA LockQuiet ==
  ASSUME LockInv, Quiet
  PROVE  LockInv'
<1> USE SpoolConstants DEF LockInv, Inside, TypeOK, Goto, Goroutines, fileVars, lockVars, clientVars, msgVars, wireVars
<1>1. ASSUME NEW p \in Publishers, NEW m \in Msgs, PublishWithQoS(p, m) PROVE LockInv'
  <2>1. /\ delivered' \in Seq(Msgs) /\ inflight' \in SUBSET Msgs /\ fresh' \in SUBSET Msgs
        /\ UNCHANGED <<fileVars, lockVars, clientVars, accepted, discarded, hole>> /\ running /\ pc[p] = "idle"
    <3>1. CASE Sent(m)
      BY <1>1, <3>1 DEF PublishWithQoS, Sent
    <3>2. CASE SendError(m)
      BY <1>1, <3>2 DEF PublishWithQoS, SendError
    <3> QED BY <1>1, <3>1, <3>2 DEF PublishWithQoS
  <2>2. CASE UNCHANGED <<pc, msg>>
    BY <2>1, <2>2
  <2>3. CASE Goto(p, "add") /\ msg' = [msg EXCEPT ![p] = m]
    BY <2>1, <2>3
  <2> QED BY <1>1, <2>2, <2>3 DEF PublishWithQoS
<1>2. ASSUME NEW p \in Publishers, AddTooLarge(p) PROVE LockInv'
  BY <1>2 DEF AddTooLarge
<1>3. ASSUME NEW m \in Msgs, SendLate(m) PROVE LockInv'
  BY <1>3 DEF SendLate
<1>4. CASE onConnect
  BY <1>4 DEF onConnect
<1>5. CASE onConnectionLost
  BY <1>5 DEF onConnectionLost
<1>6. CASE DrainTry
  <2>1. CASE pc[Drainer] = "idle"
    BY <1>6, <2>1 DEF DrainTry
  <2>2. CASE pc[Drainer] # "idle"
    BY <1>6, <2>2 DEF DrainTry
  <2> QED BY <2>1, <2>2
<1>7. CASE DrainOpen
  <2> HIDE DEF LockInv, Inside, TypeOK, Goto, Goroutines, fileVars, lockVars, clientVars, msgVars, wireVars
  <2> QED BY <1>7, LockOpen
<1>8. CASE NewSpool
  BY <1>8, BytesType DEF NewSpool, ExistingSize
<1>9. CASE UNCHANGED vars
  BY <1>9 DEF vars
<1> QED BY <1>1, <1>2, <1>3, <1>4, <1>5, <1>6, <1>7, <1>8, <1>9 DEF Quiet

LEMMA ScanEndForm ==
  ASSUME file \in Seq(Line)
  PROVE  ScanEnd \in 0..Len(file) /\ ((\A i \in 1..Len(file) : ~TooLong(file[i])) => ScanEnd = Len(file))
<1>0. Len(file) \in Nat /\ DOMAIN file = 1..Len(file)
  OBVIOUS
<1>1. CASE \E i \in DOMAIN file : TooLong(file[i])
  <2> DEFINE T == {i \in Nat : i \in DOMAIN file /\ TooLong(file[i])}
             P(i) == TooLong(file[i]) /\ \A j \in 1..(i - 1) : ~TooLong(file[j])
  <2>1. T \subseteq Nat /\ T # {}
    BY <1>0, <1>1
  <2> HIDE DEF T
  <2>2. PICK x \in T : \A y \in T : x <= y
    BY <2>1, LeastNumber
  <2>3. x \in DOMAIN file /\ TooLong(file[x])
    BY <2>2 DEF T
  <2>4. \A j \in 1..(x - 1) : ~TooLong(file[j])
    <3> SUFFICES ASSUME NEW j \in 1..(x - 1), TooLong(file[j]) PROVE FALSE
      OBVIOUS
    <3>1. j \in DOMAIN file /\ j \in Nat /\ ~(x <= j)
      BY <1>0, <2>3
    <3>2. j \in T
      BY <3>1 DEF T
    <3> QED BY <2>2, <3>1, <3>2
  <2>5. P(x)
    BY <2>3, <2>4
  <2>6. ScanEnd = (CHOOSE i \in DOMAIN file : P(i)) - 1
    BY <1>1 DEF ScanEnd
  <2> HIDE DEF P
  <2>7. (CHOOSE i \in DOMAIN file : P(i)) \in DOMAIN file
    BY <2>3, <2>5
  <2> QED BY <1>0, <1>1, <2>6, <2>7
<1>2. CASE ~ \E i \in DOMAIN file : TooLong(file[i])
  BY <1>0, <1>2 DEF ScanEnd
<1> QED BY <1>1, <1>2

\* Whoever holds the lock, or takes it while it is free, is alone inside.
LEMMA AloneInside ==
  ASSUME LockInv, NEW g \in Goroutines, mu = g \/ mu = Nobody
  PROVE  \A h \in Goroutines : h # g => pc[h] \notin Inside
BY SpoolConstants DEF LockInv, Goroutines

\* An append has its place under the ceiling.
LEMMA AppendFits ==
  ASSUME LockInv, CeilInv, NEW p \in Publishers, Appending(p)
  PROVE  /\ msg[p] \in Msgs /\ size + SizeOf[msg[p]] <= MaxBytes /\ running
         /\ \A h \in Goroutines : pc[h] \notin {"trim", "scan", "rewrite"}
         /\ \A h \in Goroutines : h # p => pc[h] \notin Inside
<1>0. p \in Goroutines /\ pc[p] \in {"add", "append"} /\ (pc[p] = "add" => mu = Nobody)
  BY DEF Goroutines, Appending
<1>1. msg[p] \in Msgs /\ running
  BY <1>0 DEF LockInv
<1>2. size + SizeOf[msg[p]] <= MaxBytes
  BY <1>0 DEF CeilInv, Appending, Fits
<1>3. \A h \in Goroutines : h # p => pc[h] \notin Inside
  <2>1. mu = p \/ mu = Nobody
    BY <1>0 DEF LockInv, Inside
  <2> QED BY <1>0, <2>1, AloneInside
<1>4. \A h \in Goroutines : pc[h] \notin {"trim", "scan", "rewrite"}
  BY <1>0, <1>3 DEF Inside
<1> QED BY <1>1, <1>2, <1>3, <1>4

\* Nobody writes, so nothing is about to be written.
LEMMA NoWork ==
  ASSUME LockInv, \A h \in Goroutines : pc[h] \notin {"trim", "rewrite"}
  PROVE  work = <<>>
BY DEF LockInv

LEMMA LockAdd ==
  ASSUME LockInv, CeilInv, NEW p \in Publishers,
         dropOldestLocked(p) \/ WriteTrimmed(p) \/ AddAppend(p)
  PROVE  LockInv'
<1>0. p \in Goroutines /\ p # Drainer /\ p # Nobody /\ file \in Seq(Line) /\ work \in Seq(Line) /\ Lines(file) /\ Lines(work)
  BY SpoolConstants DEF Goroutines, LockInv, TypeOK, CeilInv
<1>1. CASE dropOldestLocked(p)
  <2> DEFINE target == MaxBytes - SizeOf[msg[p]]
             cut == FirstKept(file, target)
  <2>1. /\ pc[p] = "add" /\ mu = Nobody /\ SizeOf[msg[p]] <= MaxBytes /\ mu' = p /\ file' = <<>>
        /\ work' = KeptLines(cut) /\ dropped' = dropped + CutRecords(cut)
        /\ discarded' = discarded \cup ReadableMsgs(SubSeq(file, 1, cut))
        /\ hole' = hole \cup ReadableMsgs(SubSeq(file, 1, cut))
        /\ pc' = [pc EXCEPT ![p] = "trim"]
        /\ UNCHANGED <<size, corrupt, next, msg, clientVars, fresh, accepted, wireVars>>
    BY <1>1 DEF dropOldestLocked, Goto
  <2>2. msg[p] \in Msgs
    BY <2>1 DEF LockInv
  <2>3. target \in Nat
    BY <2>1, <2>2, SpoolConstants
  <2> HIDE DEF target
  <2>4. cut \in 0..Len(file)
    BY <1>0, <2>3, FirstKeptFits
  <2> HIDE DEF cut
  <2>5. work' \in Seq(Line)
    BY <1>0, <2>1, <2>4 DEF KeptLines
  <2>6. CutRecords(cut) \in Nat
    <3>1. IsFiniteSet(1..cut)
      BY <2>4, FS_Interval
    <3>2. {i \in 1..cut : file[i].ended} \subseteq 1..cut
      OBVIOUS
    <3>3. IsFiniteSet({i \in 1..cut : file[i].ended})
      BY <3>1, <3>2, FS_Subset
    <3> QED BY <3>3, FS_CardinalityType DEF CutRecords
  <2>7. ReadableMsgs(SubSeq(file, 1, cut)) \subseteq Msgs
    <3> DEFINE s == SubSeq(file, 1, cut)
    <3>1. s \in Seq(Line)
      BY <1>0, <2>4
    <3> HIDE DEF s
    <3>2. ASSUME NEW i \in DOMAIN s, Readable(s[i]) PROVE s[i].msgs[1] \in Msgs
      <4>1. s[i] \in Line
        BY <3>1, <3>2
      <4>2. s[i].msgs \in Seq(Msgs) /\ Len(s[i].msgs) = 1
        BY <3>2, <4>1 DEF Line, Readable
      <4> QED BY <4>2
    <3>3. ReadableMsgs(s) \subseteq Msgs
      BY <3>2 DEF ReadableMsgs
    <3> QED BY <3>3 DEF s
  <2>8. TypeOK'
    BY <1>0, <2>1, <2>5, <2>6, <2>7 DEF LockInv, TypeOK, clientVars, wireVars
  <2>9. \A h \in Goroutines : h # p => pc[h] \notin Inside /\ pc'[h] = pc[h]
    <3>1. pc \in [Goroutines -> {"idle", "add", "trim", "append", "stats", "scan", "rewrite"}]
      BY DEF LockInv, TypeOK
    <3> QED BY <1>0, <2>1, <3>1, AloneInside
  <2>10. pc'[p] = "trim"
    BY <1>0, <2>1 DEF LockInv, TypeOK
  <2> QED BY <1>0, <2>1, <2>8, <2>9, <2>10 DEF LockInv, Inside, clientVars, Goroutines
<1>2. CASE WriteTrimmed(p)
  <2>1. /\ pc[p] = "trim" /\ work' = <<>> /\ UNCHANGED <<dropped, corrupt, next, clientVars, msgVars, wireVars>>
        /\ mu = p /\ running
    BY <1>0, <1>2 DEF WriteTrimmed, LockInv, Inside
  <2>2. file' \in Seq(Line) /\ size' \in Nat
    <3>1. \A f \in CutShort(work) : f \in Seq(Line)
      BY <1>0, CutForm
    <3> QED BY <1>0, <1>2, <3>1, BytesType DEF WriteTrimmed, TrimmedSize, LockInv, TypeOK
  <2>3. \A h \in Goroutines : h # p => pc[h] \notin Inside
    BY <1>0, <2>1, AloneInside
  <2>4. CASE Goto(p, "append") /\ UNCHANGED <<mu, msg>>
    <3>1. TypeOK'
      BY <1>0, <2>1, <2>2, <2>4 DEF LockInv, TypeOK, Goto, clientVars, msgVars, wireVars
    <3>2. pc'[p] = "append" /\ \A h \in Goroutines : h # p => pc[h] \notin Inside /\ pc'[h] = pc[h]
      BY <1>0, <2>3, <2>4 DEF Goto, LockInv, TypeOK
    <3> QED BY <1>0, <2>1, <2>4, <3>1, <3>2 DEF LockInv, Inside, clientVars, Goroutines
  <2>5. CASE Goto(p, "idle") /\ mu' = Nobody /\ msg' = [msg EXCEPT ![p] = Nobody]
    <3>1. TypeOK'
      BY <1>0, <2>1, <2>2, <2>5 DEF LockInv, TypeOK, Goto, clientVars, msgVars, wireVars
    <3>2. pc'[p] = "idle" /\ \A h \in Goroutines : h # p => pc[h] \notin Inside /\ pc'[h] = pc[h]
      BY <1>0, <2>3, <2>5 DEF Goto, LockInv, TypeOK
    <3>3. \A q \in Publishers : q # p => msg'[q] = msg[q]
      BY <2>5 DEF LockInv, TypeOK
    <3> QED BY <1>0, <2>1, <2>5, <3>1, <3>2, <3>3 DEF LockInv, Inside, clientVars, Goroutines
  <2> QED BY <1>2, <2>4, <2>5 DEF WriteTrimmed
<1>3. CASE AddAppend(p)
  <2> DEFINE m == msg[p]
  <2>0. Appending(p)
    BY <1>3 DEF AddAppend
  <2>1. m \in Msgs /\ running /\ \A h \in Goroutines : h # p => pc[h] \notin Inside
    BY <2>0, AppendFits
  <2>1a. work = <<>>
    BY <2>0, AppendFits, NoWork
  <2>2. PICK n \in 0..SizeOf[m] : /\ file' = Written(file, m, n) /\ size' = size + n
                                  /\ accepted' = IF n = SizeOf[m] THEN Append(accepted, m) ELSE accepted
    BY <1>3, <2>1, SpoolConstants DEF AddAppend
  <2>3. file' \in Seq(Line)
    BY <1>0, <2>1, <2>2, WrittenBytes
  <2>4. size' \in Nat /\ accepted' \in Seq(Msgs)
    BY <2>1, <2>2, SpoolConstants DEF LockInv, TypeOK
  <2>5. /\ mu' = Nobody /\ pc' = [pc EXCEPT ![p] = "idle"] /\ msg' = [msg EXCEPT ![p] = Nobody]
        /\ UNCHANGED <<dropped, corrupt, work, next, clientVars, fresh, discarded, hole, wireVars>>
    BY <1>3 DEF AddAppend, Goto
  <2> HIDE DEF m
  <2>6. TypeOK'
    BY <1>0, <2>3, <2>4, <2>5 DEF LockInv, TypeOK, clientVars, wireVars
  <2>7. pc'[p] = "idle" /\ \A h \in Goroutines : h # p => pc[h] \notin Inside /\ pc'[h] = pc[h]
    BY <1>0, <2>1, <2>5 DEF LockInv, TypeOK
  <2>8. \A q \in Publishers : q # p => msg'[q] = msg[q]
    BY <2>5 DEF LockInv, TypeOK
  <2> QED BY <1>0, <2>1, <2>1a, <2>5, <2>6, <2>7, <2>8 DEF LockInv, Inside, clientVars, Goroutines
<1> QED BY <1>1, <1>2, <1>3

\* The lines a replay that failed keeps.
LEMMA NotYetSentForm ==
  ASSUME file \in Seq(Line), Lines(file), next \in Nat \ {0}, next <= ScanEnd
  PROVE  /\ NotYetSent \in Seq(Line) /\ Lines(NotYetSent)
         /\ Bytes(NotYetSent) <= Bytes(file) /\ Len(NotYetSent) = ScanEnd - next + 1
         /\ \A i \in 1..Len(NotYetSent) : NotYetSent[i] = file[i + next - 1]
         /\ Closed(file) => Closed(NotYetSent)
<1>0. ScanEnd \in 0..Len(file) /\ Len(file) \in Nat
  BY ScanEndForm
<1> DEFINE e == ScanEnd
           s == SubSeq(file, next, e)
<1> HIDE DEF e
<1>1. next \in 1..(Len(file) + 1) /\ e \in (next - 1)..Len(file)
  BY <1>0 DEF e
<1>2. s \in Seq(Line) /\ Bytes(s) <= Bytes(file)
  BY <1>1, BytesPart
<1>3. Len(s) = e - next + 1 /\ \A i \in 1..Len(s) : s[i] = file[i + next - 1]
  BY <1>1
<1>4. NotYetSent = s
  BY DEF NotYetSent, e
<1> HIDE DEF s
<1>5. \A i \in 1..Len(s) : i + next - 1 \in 1..e /\ e <= Len(file)
  BY <1>0, <1>1, <1>3
<1>6. Lines(s)
  <2>1. \A i \in 1..Len(s) : s[i].bytes >= 1
    <3>1. \A i \in 1..Len(s) : i + next - 1 \in 1..Len(file)
      BY <1>0, <1>1, <1>5
    <3>2. \A j \in 1..Len(file) : file[j].bytes >= 1
      BY DEF Lines
    <3> QED BY <1>3, <3>1, <3>2
  <2>2. \A i \in 1..(Len(s) - 1) : s[i].ended
    <3> SUFFICES ASSUME NEW i \in 1..(Len(s) - 1) PROVE s[i].ended
      OBVIOUS
    <3>1. i \in 1..Len(s) /\ i + next - 1 \in 1..(Len(file) - 1)
      BY <1>0, <1>1, <1>3
    <3> QED BY <1>3, <3>1 DEF Lines
  <2> QED BY <2>1, <2>2 DEF Lines
<1>7. ASSUME Closed(file) PROVE Closed(s)
  <2>1. \A i \in 1..Len(file) : file[i].ended
    BY <1>0, <1>7 DEF Closed, Lines
  <2>2. CASE s = <<>>
    BY <2>2 DEF Closed
  <2>3. CASE s # <<>>
    <3>1. Len(s) \in 1..Len(s)
      BY <1>2, <2>3
    <3>2. s[Len(s)] = file[Len(s) + next - 1]
      BY <1>3, <3>1
    <3>3. Len(s) + next - 1 = e /\ e \in 1..Len(file)
      BY <1>0, <1>1, <1>3, <1>5, <3>1
    <3> QED BY <2>1, <3>2, <3>3 DEF Closed
  <2> QED BY <2>2, <2>3
<1> QED BY <1>2, <1>3, <1>4, <1>6, <1>7 DEF e

LEMMA LockDrain ==
  ASSUME LockInv, CeilInv, DrainLine \/ DrainRemove \/ DrainRewrite
  PROVE  LockInv'
<1>0. /\ Drainer \in Goroutines /\ Drainer \notin Publishers /\ Nobody \notin Goroutines
      /\ file \in Seq(Line) /\ work \in Seq(Line) /\ Lines(file) /\ Lines(work)
      /\ next \in Nat /\ pc[Drainer] \in Inside
      /\ pc \in [Goroutines -> {"idle", "add", "trim", "append", "stats", "scan", "rewrite"}]
  BY SpoolConstants DEF Goroutines, LockInv, TypeOK, CeilInv, Inside, DrainLine, DrainRemove, DrainRewrite
<1>1. mu = Drainer /\ running
  BY <1>0 DEF LockInv, Inside
<1>2. \A h \in Goroutines : h # Drainer => pc[h] \notin Inside
  BY <1>0, <1>1, AloneInside
<1>3. pc[Drainer] = "scan" => work = <<>> /\ next \in Nat \ {0}
  <2> SUFFICES ASSUME pc[Drainer] = "scan" PROVE work = <<>> /\ next >= 1
    BY <1>0
  <2>1. \A h \in Goroutines : pc[h] \notin {"trim", "rewrite"}
    BY <1>2 DEF Inside
  <2> QED BY <2>1, NoWork DEF LockInv
<1>4. CASE DrainLine
  <2> DEFINE line == file[next]
  <2>1. pc[Drainer] = "scan" /\ next <= ScanEnd /\ UNCHANGED <<size, dropped, mu, msg, clientVars, msgVars>>
    BY <1>4 DEF DrainLine
  <2>2. Readable(line) => line.msgs[1] \in Msgs
    <3>1. next \in 1..Len(file)
      BY <1>0, <1>3, <2>1, ScanEndForm
    <3>2. line \in Line
      BY <1>0, <3>1
    <3>3. line.msgs \in Seq(Msgs)
      BY <3>2 DEF Line
    <3> HIDE DEF line
    <3> QED BY <3>3 DEF Readable
  <2>3. CASE /\ UNCHANGED <<file, work, pc>> /\ next' = next + 1 /\ corrupt' \in Nat
             /\ delivered' \in Seq(Msgs) /\ inflight' \in SUBSET Msgs
    BY <1>0, <1>3, <2>1, <2>3 DEF LockInv, TypeOK, clientVars, msgVars
  <2>4. CASE Readable(line) /\ SendError(line.msgs[1]) /\ work' = Ended(NotYetSent) /\ file' = <<>>
             /\ Goto(Drainer, "rewrite") /\ UNCHANGED <<corrupt, next>>
    <3>1. work' \in Seq(Line)
      BY <1>0, <1>3, <2>1, <2>4, NotYetSentForm, EndedForm
    <3>2. delivered' \in Seq(Msgs) /\ inflight' \in SUBSET Msgs
      BY <2>2, <2>4 DEF SendError, wireVars, LockInv, TypeOK
    <3>3. pc'[Drainer] = "rewrite" /\ \A h \in Goroutines : h # Drainer => pc'[h] = pc[h]
      BY <1>0, <2>4 DEF Goto
    <3>4. TypeOK'
      BY <1>0, <2>1, <2>4, <3>1, <3>2 DEF LockInv, TypeOK, clientVars, msgVars, Goto
    <3> QED BY <1>0, <1>1, <1>2, <2>1, <2>4, <3>3, <3>4 DEF LockInv, Inside, Goroutines, clientVars
  <2>5. \/ ~Readable(line) /\ corrupt' = corrupt + 1 /\ next' = next + 1 /\ UNCHANGED <<file, work, pc, wireVars>>
        \/ Readable(line) /\ Sent(line.msgs[1]) /\ next' = next + 1 /\ UNCHANGED <<file, corrupt, work, pc>>
        \/ Readable(line) /\ SendError(line.msgs[1]) /\ work' = Ended(NotYetSent) /\ file' = <<>>
             /\ Goto(Drainer, "rewrite") /\ UNCHANGED <<corrupt, next>>
    BY <1>4 DEF DrainLine
  <2>6. corrupt \in Nat /\ delivered \in Seq(Msgs) /\ inflight \in SUBSET Msgs
    BY DEF LockInv, TypeOK
  <2> HIDE DEF line
  <2>7. CASE ~Readable(line) /\ corrupt' = corrupt + 1 /\ next' = next + 1 /\ UNCHANGED <<file, work, pc, wireVars>>
    BY <2>3, <2>6, <2>7 DEF wireVars
  <2>8. CASE Readable(line) /\ Sent(line.msgs[1]) /\ next' = next + 1 /\ UNCHANGED <<file, corrupt, work, pc>>
    BY <2>2, <2>3, <2>6, <2>8 DEF Sent
  <2> QED BY <2>4, <2>5, <2>7, <2>8
<1>5. CASE DrainRemove \/ DrainRewrite
  <2>1. /\ mu' = Nobody /\ next' = 0 /\ pc' = [pc EXCEPT ![Drainer] = "idle"]
        /\ UNCHANGED <<dropped, corrupt, msg, clientVars, msgVars, wireVars>>
    BY <1>5 DEF DrainRemove, DrainRewrite, Goto
  <2>2. work' = <<>>
    BY <1>3, <1>5 DEF DrainRemove, DrainRewrite
  <2>3. file' \in Seq(Line) /\ size' \in Nat
    <3>1. \A f \in CutShort(work) : f \in Seq(Line)
      BY <1>0, CutForm
    <3> QED BY <1>0, <1>5, <3>1, BytesType DEF DrainRemove, DrainRewrite, LockInv, TypeOK
  <2>4. pc'[Drainer] = "idle" /\ \A h \in Goroutines : h # Drainer => pc'[h] = pc[h]
    BY <1>0, <2>1
  <2>5. TypeOK'
    BY <1>0, <2>1, <2>2, <2>3 DEF LockInv, TypeOK, clientVars, msgVars, wireVars
  <2> QED BY <1>0, <1>1, <1>2, <2>1, <2>2, <2>4, <2>5 DEF LockInv, Inside, Goroutines, clientVars
<1> QED BY <1>4, <1>5

\* What a crash leaves of the file.
LEMMA CrashForm ==
  ASSUME LockInv, CeilInv, Crash
  PROVE  \/ file' = file
         \/ \E p \in Publishers : Appending(p) /\ \E n \in 1..(SizeOf[msg[p]] - 1) : file' = Written(file, msg[p], n)
         \/ file' \in CutShort(work)
BY DEF Crash

LEMMA LockCrash ==
  ASSUME LockInv, CeilInv, Crash
  PROVE  LockInv'
<1>0. file \in Seq(Line) /\ work \in Seq(Line) /\ Lines(file) /\ Lines(work)
  BY DEF LockInv, TypeOK, CeilInv
<1>1. file' \in Seq(Line)
  <2>1. ASSUME NEW p \in Publishers, Appending(p), NEW n \in 1..(SizeOf[msg[p]] - 1), file' = Written(file, msg[p], n)
        PROVE  file' \in Seq(Line)
    <3>1. msg[p] \in Msgs
      BY <2>1, AppendFits
    <3>2. n \in 0..SizeOf[msg[p]]
      BY <3>1, SpoolConstants
    <3> QED BY <1>0, <2>1, <3>1, <3>2, WrittenBytes
  <2>2. \A f \in CutShort(work) : f \in Seq(Line)
    BY <1>0, CutForm
  <2> QED BY <1>0, <2>1, <2>2, CrashForm
<1>2. /\ running' = FALSE /\ size' = 0 /\ dropped' = 0 /\ corrupt' = 0 /\ mu' = Nobody /\ work' = <<>> /\ next' = 0
      /\ pc' = [g \in Goroutines |-> "idle"] /\ msg' = [p \in Publishers |-> Nobody]
      /\ link' = FALSE /\ spawned' = 0 /\ inflight' = {} /\ hole' = {}
      /\ UNCHANGED <<connects, fresh, accepted, discarded, delivered>>
  BY DEF Crash
<1>3. pc' \in [Goroutines -> {"idle", "add", "trim", "append", "stats", "scan", "rewrite"}]
      /\ msg' \in [Publishers -> Msgs \cup {Nobody}] /\ spawned' \in 0..MaxConnects /\ spawned' <= connects'
  BY <1>2, SpoolConstants DEF LockInv, TypeOK
<1>4. TypeOK'
  BY <1>1, <1>2, <1>3 DEF LockInv, TypeOK
<1>5. \A g \in Goroutines : pc'[g] = "idle"
  BY <1>2
<1> QED BY <1>2, <1>3, <1>4, <1>5 DEF LockInv, Inside, Goroutines

\* The steps that write.
LEMMA NextCases ==
  ASSUME [Next]_vars
  PROVE  \/ Quiet
         \/ \E p \in Publishers : dropOldestLocked(p) \/ WriteTrimmed(p) \/ AddAppend(p)
         \/ DrainLine \/ DrainRemove \/ DrainRewrite \/ Crash
BY DEF Next, AddStep, DrainStep, Quiet

LEMMA LockStep ==
  ASSUME LockInv, CeilInv, [Next]_vars
  PROVE  LockInv'
BY NextCases, LockQuiet, LockAdd, LockDrain, LockCrash

--------------------------------------------------------------------------------
(* The ceiling. *)

LEMMA CeilQuiet ==
  ASSUME LockInv, CeilInv, Quiet
  PROVE  CeilInv'
<1>1. UNCHANGED <<file, work>> /\ (running' => running \/ size' = Bytes(file)) /\ (running => size' = size)
      /\ (~running => \A g \in Goroutines : pc'[g] = "idle")
  <2> USE SpoolConstants DEF LockInv, fileVars, lockVars, clientVars, Goroutines
  <2>1. ASSUME NEW p \in Publishers, NEW m \in Msgs, PublishWithQoS(p, m) PROVE <1>1!:
    BY <2>1 DEF PublishWithQoS
  <2>2. ASSUME NEW p \in Publishers, AddTooLarge(p) PROVE <1>1!:
    BY <2>2 DEF AddTooLarge
  <2>3. ASSUME NEW m \in Msgs, SendLate(m) PROVE <1>1!:
    BY <2>3 DEF SendLate
  <2>4. CASE onConnect \/ onConnectionLost
    BY <2>4 DEF onConnect, onConnectionLost
  <2>5. CASE DrainTry
    BY <2>5 DEF DrainTry, TypeOK
  <2>6. CASE DrainOpen
    BY <2>6 DEF DrainOpen
  <2>7. CASE NewSpool
    BY <2>7 DEF NewSpool, ExistingSize
  <2>8. CASE UNCHANGED vars
    BY <2>8 DEF vars
  <2> QED BY <2>1, <2>2, <2>3, <2>4, <2>5, <2>6, <2>7, <2>8 DEF Quiet
<1>2. \A p \in Publishers : pc'[p] \in {"trim", "append"} => pc'[p] = pc[p] /\ msg'[p] = msg[p]
  <2> USE SpoolConstants DEF LockInv, TypeOK, Goto, Goroutines
  <2>1. ASSUME NEW p \in Publishers, NEW m \in Msgs, PublishWithQoS(p, m) PROVE <1>2!:
    BY <2>1 DEF PublishWithQoS
  <2>2. ASSUME NEW p \in Publishers, AddTooLarge(p) PROVE <1>2!:
    BY <2>2 DEF AddTooLarge
  <2>3. CASE (\E m \in Msgs : SendLate(m)) \/ onConnect \/ onConnectionLost \/ NewSpool \/ UNCHANGED vars
    BY <2>3 DEF SendLate, onConnect, onConnectionLost, NewSpool, vars
  <2>4. CASE DrainTry
    BY <2>4 DEF DrainTry
  <2>5. CASE DrainOpen
    BY <2>5 DEF DrainOpen
  <2> QED BY <2>1, <2>2, <2>3, <2>4, <2>5 DEF Quiet
<1>3. pc'[Drainer] = "rewrite" => pc[Drainer] = "rewrite"
  <2> USE SpoolConstants DEF LockInv, TypeOK, Goto, Goroutines
  <2>1. ASSUME NEW p \in Publishers, NEW m \in Msgs, PublishWithQoS(p, m) PROVE <1>3!:
    BY <2>1 DEF PublishWithQoS
  <2>2. ASSUME NEW p \in Publishers, AddTooLarge(p) PROVE <1>3!:
    BY <2>2 DEF AddTooLarge
  <2>3. CASE (\E m \in Msgs : SendLate(m)) \/ onConnect \/ onConnectionLost \/ NewSpool \/ UNCHANGED vars
    BY <2>3 DEF SendLate, onConnect, onConnectionLost, NewSpool, vars
  <2>4. CASE DrainTry
    BY <2>4 DEF DrainTry
  <2>5. CASE DrainOpen
    BY <2>5 DEF DrainOpen
  <2> QED BY <2>1, <2>2, <2>3, <2>4, <2>5 DEF Quiet
<1>4. Bytes(file) \in Nat
  BY BytesType DEF LockInv, TypeOK
<1>5. Drainer \in Goroutines /\ Publishers \subseteq Goroutines
  BY DEF Goroutines
<1>6. CASE running
  BY <1>1, <1>2, <1>3, <1>4, <1>6 DEF CeilInv
<1>7. CASE ~running
  <2>1. pc'[Drainer] = "idle" /\ \A p \in Publishers : pc'[p] = "idle"
    BY <1>1, <1>5, <1>7
  <2>2. running' => Bytes(file) <= size'
    BY <1>1, <1>4, <1>7
  <2> QED BY <1>1, <2>1, <2>2 DEF CeilInv
<1> QED BY <1>6, <1>7

LEMMA CeilAdd ==
  ASSUME LockInv, CeilInv, NEW p \in Publishers,
         dropOldestLocked(p) \/ WriteTrimmed(p) \/ AddAppend(p)
  PROVE  CeilInv'
<1>0. /\ p \in Goroutines /\ Drainer \in Goroutines /\ p # Drainer /\ p # Nobody
      /\ file \in Seq(Line) /\ work \in Seq(Line) /\ Lines(file) /\ Lines(work)
      /\ Bytes(file) \in Nat /\ Bytes(work) \in Nat /\ size \in Nat /\ MaxBytes \in Nat
      /\ pc[p] # "idle" /\ msg[p] \in Msgs /\ running
      /\ pc \in [Goroutines -> {"idle", "add", "trim", "append", "stats", "scan", "rewrite"}]
      /\ Publishers \subseteq Goroutines
  BY SpoolConstants, BytesType
     DEF Goroutines, LockInv, TypeOK, CeilInv, dropOldestLocked, WriteTrimmed, AddAppend, Appending
<1>1. SizeOf[msg[p]] \in Nat \ {0, 1}
  BY <1>0, SpoolConstants
<1>2. Lines(<<>>) /\ Closed(<<>>) /\ Bytes(<<>>) = 0
  BY BytesEmpty DEF Lines, Closed
<1>3. CASE dropOldestLocked(p)
  <2> DEFINE target == MaxBytes - SizeOf[msg[p]]
             cut == FirstKept(file, target)
             s == SubSeq(file, cut + 1, Len(file))
  <2>1. /\ SizeOf[msg[p]] <= MaxBytes /\ file' = <<>> /\ work' = s /\ mu = Nobody
        /\ pc' = [pc EXCEPT ![p] = "trim"] /\ UNCHANGED <<size, msg, running>>
    BY <1>3 DEF dropOldestLocked, Goto, KeptLines, clientVars
  <2>2. target \in Nat
    BY <1>0, <1>1, <2>1
  <2>3. cut \in 0..Len(file) /\ Bytes(s) <= target
    BY <1>0, <2>2, FirstKeptFits
  <2> HIDE DEF cut
  <2>4. Bytes(s) <= Bytes(file) /\ Bytes(s) \in Nat
    BY <1>0, <2>3, BytesSplit
  <2>5. Lines(s)
    <3>1. Len(s) = Len(file) - cut /\ \A i \in 1..Len(s) : s[i] = file[cut + i]
      BY <1>0, <2>3
    <3> HIDE DEF s
    <3>2. Len(file) \in Nat /\ \A i \in 1..Len(s) : cut + i \in 1..Len(file)
      BY <1>0, <2>3, <3>1
    <3>3. \A i \in 1..Len(s) : s[i].bytes >= 1
      BY <1>0, <3>1, <3>2 DEF Lines
    <3>4. ASSUME NEW i \in 1..(Len(s) - 1) PROVE s[i].ended
      <4>1. i \in 1..Len(s) /\ cut + i \in 1..(Len(file) - 1)
        BY <2>3, <3>1, <3>2
      <4> QED BY <1>0, <3>1, <4>1 DEF Lines
    <3> QED BY <3>3, <3>4 DEF Lines
  <2> HIDE DEF s
  <2>6. Bytes(s) + SizeOf[msg[p]] <= MaxBytes /\ Bytes(s) <= size
    <3>1. Bytes(file) <= size
      BY <1>0 DEF CeilInv
    <3>2. Bytes(s) <= size
      BY <1>0, <2>4, <3>1
    <3> DEFINE b == Bytes(s)
               c == SizeOf[msg[p]]
    <3>3. b <= MaxBytes - c /\ b \in Nat /\ c \in Nat
      BY <1>1, <2>3, <2>4
    <3> HIDE DEF b, c
    <3>4. b + c <= MaxBytes
      BY <1>0, <3>3
    <3> QED BY <3>2, <3>4 DEF b, c
  <2> HIDE DEF target
  <2>7. \A h \in Goroutines : h # p => pc[h] \notin Inside /\ pc'[h] = pc[h]
    BY <1>0, <2>1, AloneInside
  <2>8. pc'[p] = "trim" /\ pc'[Drainer] # "rewrite" /\ \A q \in Publishers : q # p => pc'[q] \notin {"trim", "append"}
    BY <1>0, <2>1, <2>7 DEF Inside
  <2>9. Lines(file') /\ Lines(work') /\ Bytes(file') <= MaxBytes /\ Closed(file') /\ Bytes(file') <= size'
    BY <1>0, <1>2, <2>1, <2>5
  <2>10. Bytes(work') + SizeOf[msg'[p]] <= MaxBytes /\ Bytes(work') <= size'
    BY <2>1, <2>6
  <2> QED BY <2>8, <2>9, <2>10 DEF CeilInv
<1>4. CASE WriteTrimmed(p)
  <2>1. pc[p] = "trim" /\ mu = p /\ work' = <<>> /\ running' = running
    BY <1>0, <1>4 DEF WriteTrimmed, LockInv, Inside, clientVars
  <2>2. \A h \in Goroutines : h # p => pc[h] \notin Inside
    BY <1>0, <2>1, AloneInside
  <2>3. Bytes(work) + SizeOf[msg[p]] <= MaxBytes /\ Bytes(work) <= size
    BY <2>1 DEF CeilInv
  <2>4. CASE file' = work /\ size' = TrimmedSize /\ Goto(p, "append") /\ UNCHANGED <<mu, msg>>
    <3>1. pc'[p] = "append" /\ pc'[Drainer] # "rewrite" /\ \A q \in Publishers : q # p => pc'[q] \notin {"trim", "append"}
      BY <1>0, <2>2, <2>4 DEF Goto, Inside
    <3>2. Bytes(file') <= MaxBytes /\ Bytes(file') < MaxBytes /\ Bytes(file') <= size'
          /\ size' + SizeOf[msg'[p]] <= MaxBytes
      BY <1>0, <1>1, <2>3, <2>4 DEF TrimmedSize
    <3>3. Lines(file') /\ Lines(work')
      BY <1>0, <1>2, <2>1, <2>4
    <3> QED BY <3>1, <3>2, <3>3 DEF CeilInv
  <2>5. CASE /\ file' \in CutShort(work) /\ UNCHANGED size
             /\ Goto(p, "idle") /\ mu' = Nobody /\ msg' = [msg EXCEPT ![p] = Nobody]
    <3>1. pc'[p] = "idle" /\ pc'[Drainer] # "rewrite" /\ \A q \in Publishers : pc'[q] \notin {"trim", "append"}
      BY <1>0, <2>2, <2>5 DEF Goto, Inside
    <3>2. file' \in Seq(Line) /\ Lines(file') /\ Bytes(file') < Bytes(work)
      BY <1>0, <2>5, CutForm
    <3>3. Bytes(file') \in Nat
      BY <3>2, BytesType
    <3>4. Bytes(file') <= MaxBytes /\ Bytes(file') < MaxBytes /\ Bytes(file') <= size'
      BY <1>0, <1>1, <2>3, <2>5, <3>2, <3>3
    <3>5. Lines(work')
      BY <1>2, <2>1
    <3> QED BY <3>1, <3>2, <3>4, <3>5 DEF CeilInv
  <2> QED BY <1>4, <2>4, <2>5 DEF WriteTrimmed
<1>5. CASE AddAppend(p)
  <2> DEFINE m == msg[p]
  <2>0. Appending(p)
    BY <1>5 DEF AddAppend
  <2>1. /\ size + SizeOf[m] <= MaxBytes
        /\ \A h \in Goroutines : pc[h] \notin {"trim", "scan", "rewrite"}
        /\ \A h \in Goroutines : h # p => pc[h] \notin Inside
    BY <2>0, AppendFits
  <2>2. PICK n \in 0..SizeOf[m] : file' = Written(file, m, n) /\ size' = size + n
    BY <1>1, <1>5, SpoolConstants DEF AddAppend
  <2>3. /\ file' \in Seq(Line) /\ Lines(file') /\ Bytes(file') = Bytes(file) + n
        /\ (n = 0 => file' = file) /\ (n = SizeOf[m] => Closed(file'))
    <3>1. m \in Msgs
      BY <1>0
    <3> HIDE DEF m
    <3> QED BY <1>0, <2>2, <3>1, WrittenBytes
  <2>4. pc' = [pc EXCEPT ![p] = "idle"] /\ UNCHANGED <<work, running>>
    BY <1>5 DEF AddAppend, Goto, clientVars
  <2>5. pc'[Drainer] # "rewrite" /\ \A q \in Publishers : pc'[q] \notin {"trim", "append"}
    BY <1>0, <2>1, <2>4 DEF Inside
  <2>6. Bytes(file) <= size
    BY <1>0 DEF CeilInv
  <2>7. Bytes(file') <= MaxBytes /\ Bytes(file') <= size' /\ (n < SizeOf[m] => Bytes(file') < MaxBytes)
    BY <1>0, <1>1, <2>1, <2>2, <2>3, <2>6
  <2>8. ~Closed(file') => Bytes(file') < MaxBytes
    BY <1>1, <2>2, <2>3, <2>7
  <2> QED BY <1>0, <2>3, <2>4, <2>5, <2>7, <2>8 DEF CeilInv
<1> QED BY <1>3, <1>4, <1>5

LEMMA CeilDrain ==
  ASSUME LockInv, CeilInv, DrainLine \/ DrainRemove \/ DrainRewrite
  PROVE  CeilInv'
<1>0. /\ Drainer \in Goroutines /\ Drainer \notin Publishers /\ Publishers \subseteq Goroutines
      /\ file \in Seq(Line) /\ work \in Seq(Line) /\ Lines(file) /\ Lines(work)
      /\ Bytes(file) \in Nat /\ Bytes(work) \in Nat /\ size \in Nat /\ MaxBytes \in Nat
      /\ next \in Nat /\ pc[Drainer] \in {"scan", "rewrite"}
      /\ pc \in [Goroutines -> {"idle", "add", "trim", "append", "stats", "scan", "rewrite"}]
  BY SpoolConstants, BytesType DEF Goroutines, LockInv, TypeOK, CeilInv, DrainLine, DrainRemove, DrainRewrite
<1>1. mu = Drainer /\ running
  BY <1>0 DEF LockInv, Inside
<1>2. \A h \in Goroutines : h # Drainer => pc[h] \notin Inside
  BY <1>0, <1>1, AloneInside
<1>3. Lines(<<>>) /\ Closed(<<>>) /\ Bytes(<<>>) = 0
  BY BytesEmpty DEF Lines, Closed
<1>4. Bytes(file) <= size /\ Bytes(file) <= MaxBytes
  BY <1>1 DEF CeilInv
<1>5. CASE DrainLine
  <2>1. pc[Drainer] = "scan" /\ next <= ScanEnd /\ UNCHANGED <<size, running, msg>>
    BY <1>5 DEF DrainLine, clientVars
  <2>2. next \in Nat \ {0}
    BY <1>0, <2>1 DEF LockInv
  <2>3. CASE UNCHANGED <<file, work, pc>>
    BY <2>1, <2>3 DEF CeilInv
  <2>4. CASE work' = Ended(NotYetSent) /\ file' = <<>> /\ Goto(Drainer, "rewrite")
    <3> DEFINE s == NotYetSent
    <3>1. s \in Seq(Line) /\ Lines(s) /\ Bytes(s) <= Bytes(file) /\ (Closed(file) => Closed(s))
      BY <1>0, <2>1, <2>2, NotYetSentForm
    <3> HIDE DEF s
    <3>2. /\ work' \in Seq(Line) /\ Lines(work') /\ Closed(work')
          /\ Bytes(work') <= Bytes(s) + 1 /\ (Closed(s) => work' = s)
      BY <2>4, <3>1, EndedForm DEF s
    <3>3. Bytes(work') \in Nat /\ Bytes(s) \in Nat
      BY <3>1, <3>2, BytesType
    <3>4. Bytes(work') <= MaxBytes
      <4>1. CASE Closed(s)
        BY <1>0, <1>4, <3>1, <3>2, <3>3, <4>1
      <4>2. CASE ~Closed(s)
        <5>1. Bytes(file) < MaxBytes
          BY <3>1, <4>2 DEF CeilInv
        <5> QED BY <1>0, <3>1, <3>2, <3>3, <5>1
      <4> QED BY <4>1, <4>2
    <3>5. Bytes(work') <= size' + 1
      BY <1>0, <1>4, <2>1, <3>1, <3>2, <3>3
    <3>6. \A q \in Publishers : pc'[q] \notin {"trim", "append"}
      BY <1>0, <1>2, <2>4 DEF Goto, Inside
    <3>7. Lines(file') /\ Closed(file') /\ Bytes(file') <= MaxBytes /\ Bytes(file') <= size'
      BY <1>0, <1>3, <2>1, <2>4
    <3> QED BY <3>2, <3>4, <3>5, <3>6, <3>7 DEF CeilInv
  <2> QED BY <1>5, <2>3, <2>4 DEF DrainLine
<1>6. CASE DrainRemove \/ DrainRewrite
  <2>1. pc' = [pc EXCEPT ![Drainer] = "idle"] /\ UNCHANGED running
    BY <1>6 DEF DrainRemove, DrainRewrite, Goto, clientVars
  <2>2. pc'[Drainer] = "idle" /\ \A q \in Publishers : pc'[q] \notin {"trim", "append"}
    BY <1>0, <1>2, <2>1 DEF Inside
  <2>3. CASE DrainRemove
    <3>1. UNCHANGED work /\ ((file' = <<>> /\ size' = 0) \/ UNCHANGED <<file, size>>)
      BY <2>3 DEF DrainRemove
    <3>2. CASE file' = <<>> /\ size' = 0
      BY <1>0, <1>3, <2>2, <3>1, <3>2 DEF CeilInv
    <3>3. CASE UNCHANGED <<file, size>>
      BY <2>1, <2>2, <3>1, <3>3 DEF CeilInv
    <3> QED BY <3>1, <3>2, <3>3
  <2>4. CASE DrainRewrite
    <3>1. work' = <<>> /\ ((file' = work /\ size' = Bytes(work)) \/ (file' \in CutShort(work) /\ UNCHANGED size))
      BY <2>4 DEF DrainRewrite
    <3>2. Bytes(work) <= MaxBytes /\ Bytes(work) <= size + 1 /\ Closed(work)
      BY <2>4 DEF DrainRewrite, CeilInv
    <3>3. Lines(work')
      BY <1>3, <3>1
    <3>4. CASE file' = work /\ size' = Bytes(work)
      BY <1>0, <2>2, <3>2, <3>3, <3>4 DEF CeilInv
    <3>5. CASE file' \in CutShort(work) /\ UNCHANGED size
      <4>1. file' \in Seq(Line) /\ Lines(file') /\ Bytes(file') < Bytes(work)
        BY <1>0, <3>5, CutForm
      <4>2. Bytes(file') \in Nat
        BY <4>1, BytesType
      <4>3. Bytes(file') < MaxBytes /\ Bytes(file') <= MaxBytes /\ Bytes(file') <= size'
        BY <1>0, <3>2, <3>5, <4>1, <4>2
      <4> QED BY <2>2, <3>3, <4>1, <4>3 DEF CeilInv
    <3> QED BY <3>1, <3>4, <3>5
  <2> QED BY <1>6, <2>3, <2>4
<1> QED BY <1>5, <1>6

LEMMA CeilCrash ==
  ASSUME LockInv, CeilInv, Crash
  PROVE  CeilInv'
<1>0. /\ file \in Seq(Line) /\ work \in Seq(Line) /\ Lines(file) /\ Lines(work) /\ MaxBytes \in Nat
      /\ Bytes(file) \in Nat /\ Bytes(work) \in Nat /\ size \in Nat
  BY SpoolConstants, BytesType DEF LockInv, TypeOK, CeilInv
<1>1. running' = FALSE /\ work' = <<>> /\ pc' = [g \in Goroutines |-> "idle"]
  BY DEF Crash
<1>2. pc'[Drainer] = "idle" /\ \A p \in Publishers : pc'[p] = "idle"
  BY <1>1 DEF Goroutines
<1>3. Lines(work')
  BY <1>1 DEF Lines
<1>4. Lines(file') /\ Bytes(file') <= MaxBytes /\ (~Closed(file') => Bytes(file') < MaxBytes)
  <2>1. CASE file' = file
    BY <2>1 DEF CeilInv
  <2>2. ASSUME NEW p \in Publishers, Appending(p), NEW n \in 1..(SizeOf[msg[p]] - 1), file' = Written(file, msg[p], n)
        PROVE  <1>4!:
    <3>1. msg[p] \in Msgs /\ size + SizeOf[msg[p]] <= MaxBytes /\ running
      BY <2>2, AppendFits
    <3>2. SizeOf[msg[p]] \in Nat
      BY <3>1, SpoolConstants
    <3>3. n \in 0..SizeOf[msg[p]] /\ n < SizeOf[msg[p]] /\ n \in Nat
      BY <3>2
    <3>4. Lines(file') /\ Bytes(file') = Bytes(file) + n
      BY <1>0, <2>2, <3>1, <3>3, WrittenBytes
    <3>5. Bytes(file) <= size
      BY <3>1 DEF CeilInv
    <3>6. Bytes(file') < MaxBytes /\ Bytes(file') <= MaxBytes
      BY <1>0, <3>1, <3>2, <3>3, <3>4, <3>5
    <3> QED BY <3>4, <3>6
  <2>3. CASE file' \in CutShort(work)
    <3>1. Lines(file') /\ file' \in Seq(Line) /\ Bytes(file') < Bytes(work)
      BY <1>0, <2>3, CutForm
    <3>2. \E g \in Goroutines : pc[g] \in {"trim", "rewrite"}
      <4>1. work # <<>>
        <5> SUFFICES ASSUME work = <<>> PROVE FALSE
          OBVIOUS
        <5>1. Bytes(file') \in Nat /\ Bytes(work) = 0
          BY <3>1, BytesType, BytesEmpty
        <5> QED BY <3>1, <5>1
      <4> QED BY <4>1 DEF LockInv
    <3>3. Bytes(work) <= MaxBytes
      <4>1. PICK g \in Goroutines : pc[g] \in {"trim", "rewrite"}
        BY <3>2
      <4>2. CASE g \in Publishers
        <5>1. pc[g] = "trim" /\ msg[g] \in Msgs
          BY <4>1, <4>2 DEF LockInv
        <5>2. Bytes(work) + SizeOf[msg[g]] <= MaxBytes
          BY <4>2, <5>1 DEF CeilInv
        <5>3. SizeOf[msg[g]] \in Nat
          BY <5>1, SpoolConstants
        <5> QED BY <1>0, <5>2, <5>3
      <4>3. CASE g = Drainer
        BY <4>1, <4>3 DEF CeilInv, LockInv
      <4> QED BY <4>1, <4>2, <4>3 DEF Goroutines
    <3>4. Bytes(file') \in Nat
      BY <3>1, BytesType
    <3> QED BY <1>0, <3>1, <3>3, <3>4
  <2> QED BY <2>1, <2>2, <2>3, CrashForm
<1> QED BY <1>1, <1>2, <1>3, <1>4 DEF CeilInv

\* The invariant of the lock and the file.
SpoolInv == LockInv /\ CeilInv

\* The lock, the places of the goroutines, the length of the file and what size says of it
\* (Spool.Add, Spool.Drain), in every state of every run.
THEOREM SpoolHolds == Spec => []SpoolInv
<1>1. Init => SpoolInv
  BY SpoolInit DEF SpoolInv
<1>2. SpoolInv /\ [Next]_vars => SpoolInv'
  <2> SUFFICES ASSUME LockInv, CeilInv, [Next]_vars PROVE LockInv' /\ CeilInv'
    BY DEF SpoolInv
  <2>1. LockInv'
    BY LockStep
  <2>2. CeilInv'
    BY NextCases, CeilQuiet, CeilAdd, CeilDrain, CeilCrash
  <2> QED BY <2>1, <2>2
<1> QED BY <1>1, <1>2, PTL DEF Spec

\* TypeOK: the variables keep their types, whatever the disk does.
THEOREM TypeCorrect == Spec => []TypeOK
<1>1. SpoolInv => TypeOK
  BY DEF SpoolInv, LockInv
<1> QED BY <1>1, SpoolHolds, PTL

\* UnderCeiling: the file never outgrows Spool.maxBytes, and size never says less than is
\* there, however writes fail and wherever the process dies.
THEOREM CeilingHolds == Spec => []UnderCeiling
<1>1. SpoolInv => UnderCeiling
  BY DEF SpoolInv, CeilInv, UnderCeiling
<1> QED BY <1>1, SpoolHolds, PTL

--------------------------------------------------------------------------------
(* The order of the messages on disk. *)

\* m is written, whole or in part, on this line.
On(line, m) == \E i \in 1..Len(line.msgs) : line.msgs[i] = m

OnSome(lines, m) == \E i \in 1..Len(lines) : On(lines[i], m)

\* The accepted messages on two lines were accepted in the order of the lines, ...
Ordered(lines, acc) ==
  \A i, j \in 1..Len(lines), u, v \in 1..Len(acc) :
    i < j /\ On(lines[i], acc[u]) /\ On(lines[j], acc[v]) => u < v

\* ... and after all that were cut off.
Younger(lines, acc, disc) ==
  \A i \in 1..Len(lines), u, v \in 1..Len(acc) : acc[u] \in disc /\ On(lines[i], acc[v]) => u < v

\* The spool has not seen m.
Unseen(m) == m \notin ToSet(accepted) /\ m \notin discarded /\ ~OnSome(file, m) /\ ~OnSome(work, m)

OrderInv ==
  /\ Ordered(file, accepted) /\ Ordered(work, accepted)
  /\ Younger(file, accepted, discarded) /\ Younger(work, accepted, discarded)
  /\ \A m \in fresh : Unseen(m)
  /\ \A p \in Publishers : pc[p] # "idle" => msg[p] \notin fresh /\ Unseen(msg[p])
  /\ \A p, q \in Publishers : p # q /\ pc[p] # "idle" /\ pc[q] # "idle" => msg[p] # msg[q]

\* The lines of one file are lines of another, from the k-th on.
Part(new, old, k) == \A i \in 1..Len(new) : i + k \in 1..Len(old) /\ new[i].msgs = old[i + k].msgs

LEMMA PartOrder ==
  ASSUME NEW new, NEW old, NEW k \in Nat, Part(new, old, k), NEW acc, NEW disc,
         Ordered(old, acc), Younger(old, acc, disc)
  PROVE  Ordered(new, acc) /\ Younger(new, acc, disc) /\ \A m : OnSome(new, m) => OnSome(old, m)
<1>1. \A i \in 1..Len(new) : i + k \in 1..Len(old) /\ \A m : On(new[i], m) => On(old[i + k], m)
  BY DEF Part, On
<1>2. \A i, j \in 1..Len(new) : i < j => i + k < j + k
  OBVIOUS
<1>3. Ordered(new, acc)
  BY <1>1, <1>2 DEF Ordered
<1>4. Younger(new, acc, disc)
  BY <1>1 DEF Younger
<1>5. \A m : OnSome(new, m) => OnSome(old, m)
  BY <1>1 DEF OnSome
<1> QED BY <1>3, <1>4, <1>5

\* What a write of m adds to the file, and what Add then counts as accepted.
LEMMA AppendOrder ==
  ASSUME NEW lines \in Seq(Line), Lines(lines), NEW m \in Msgs, NEW n \in 0..SizeOf[m],
         NEW acc \in Seq(Msgs), NEW bcc \in {acc, Append(acc, m)}, NEW disc,
         m \notin ToSet(acc), m \notin disc, ~OnSome(lines, m),
         Ordered(lines, acc), Younger(lines, acc, disc)
  PROVE  /\ Ordered(Written(lines, m, n), bcc) /\ Younger(Written(lines, m, n), bcc, disc)
         /\ \A x : OnSome(Written(lines, m, n), x) => OnSome(lines, x) \/ x = m
         /\ \A x : x \in ToSet(bcc) => x \in ToSet(acc) \/ x = m
<1> DEFINE w == Written(lines, m, n)
           k == Len(lines)
           a == Len(acc)
<1>0. k \in Nat /\ a \in Nat /\ \A i \in 1..k : lines[i] \in Line
  OBVIOUS
<1>1. /\ w \in Seq(Line) /\ Len(w) >= k
      /\ \A i \in 1..Len(w) :
           \/ i \in 1..k /\ w[i].msgs = lines[i].msgs
           \/ i \in 1..k /\ i = Len(w) /\ w[i].msgs = Append(lines[i].msgs, m)
           \/ i = Len(w) /\ w[i].msgs = <<m>>
  BY WrittenLines
<1> HIDE DEF w
<1>2. Len(w) \in Nat
  BY <1>1
<1>3. \A i \in 1..Len(w) : \A x : On(w[i], x) => (i \in 1..k /\ On(lines[i], x)) \/ (i = Len(w) /\ x = m)
  <2> SUFFICES ASSUME NEW i \in 1..Len(w), NEW x, On(w[i], x)
               PROVE  (i \in 1..k /\ On(lines[i], x)) \/ (i = Len(w) /\ x = m)
    OBVIOUS
  <2>1. CASE i \in 1..k /\ w[i].msgs = lines[i].msgs
    BY <2>1 DEF On
  <2>2. CASE i \in 1..k /\ i = Len(w) /\ w[i].msgs = Append(lines[i].msgs, m)
    <3>1. lines[i].msgs \in Seq(Msgs)
      BY <1>0, <2>2 DEF Line
    <3>2. PICK j \in 1..Len(w[i].msgs) : w[i].msgs[j] = x
      BY DEF On
    <3> DEFINE s == lines[i].msgs
    <3> HIDE DEF s
    <3>3. s \in Seq(Msgs) /\ j \in 1..(Len(s) + 1) /\ Append(s, m)[j] = x
      BY <2>2, <3>1, <3>2 DEF s
    <3>4. (j \in 1..Len(s) /\ s[j] = x) \/ x = m
      BY <3>3
    <3> QED BY <2>2, <3>4 DEF s, On
  <2>3. CASE i = Len(w) /\ w[i].msgs = <<m>>
    BY <2>3 DEF On
  <2> QED BY <1>1, <2>1, <2>2, <2>3
<1>4. \A u \in 1..Len(bcc) : (u \in 1..a /\ bcc[u] = acc[u] /\ acc[u] # m) \/ (u = a + 1 /\ bcc[u] = m)
  <2>1. \A u \in 1..a : acc[u] # m
    BY DEF ToSet
  <2>2. CASE bcc = acc
    BY <2>1, <2>2
  <2>3. CASE bcc = Append(acc, m)
    BY <2>1, <2>3
  <2> QED BY <2>2, <2>3
<1>5. \A i \in 1..k : ~On(lines[i], m)
  BY DEF OnSome
<1>6. Ordered(w, bcc)
  <2> SUFFICES ASSUME NEW i \in 1..Len(w), NEW j \in 1..Len(w), NEW u \in 1..Len(bcc), NEW v \in 1..Len(bcc),
                      i < j, On(w[i], bcc[u]), On(w[j], bcc[v])
               PROVE  u < v
    BY DEF Ordered
  <2>0. i # Len(w)
    BY <1>2
  <2>1. i \in 1..k /\ On(lines[i], bcc[u])
    BY <1>3, <2>0
  <2>2. u \in 1..a /\ bcc[u] = acc[u]
    BY <1>4, <1>5, <2>1
  <2>3. CASE v = a + 1
    BY <1>0, <2>2, <2>3
  <2>4. CASE v \in 1..a /\ bcc[v] = acc[v] /\ acc[v] # m
    <3>1. j \in 1..k /\ On(lines[j], acc[v])
      BY <1>3, <2>4
    <3> QED BY <2>1, <2>2, <2>4, <3>1 DEF Ordered
  <2> QED BY <1>4, <2>3, <2>4
<1>7. Younger(w, bcc, disc)
  <2> SUFFICES ASSUME NEW i \in 1..Len(w), NEW u \in 1..Len(bcc), NEW v \in 1..Len(bcc),
                      bcc[u] \in disc, On(w[i], bcc[v])
               PROVE  u < v
    BY DEF Younger
  <2>1. u \in 1..a /\ bcc[u] = acc[u]
    BY <1>4
  <2>2. CASE v = a + 1
    BY <1>0, <2>1, <2>2
  <2>3. CASE v \in 1..a /\ bcc[v] = acc[v] /\ acc[v] # m
    <3>1. i \in 1..k /\ On(lines[i], acc[v])
      BY <1>3, <2>3
    <3> QED BY <2>1, <2>3, <3>1 DEF Younger
  <2> QED BY <1>4, <2>2, <2>3
<1>8. \A x : OnSome(w, x) => OnSome(lines, x) \/ x = m
  BY <1>3 DEF OnSome
<1>9. \A x : x \in ToSet(bcc) => x \in ToSet(acc) \/ x = m
  <2>1. DOMAIN bcc = 1..Len(bcc) /\ DOMAIN acc = 1..a
    OBVIOUS
  <2> QED BY <1>4, <2>1 DEF ToSet
<1> QED BY <1>6, <1>7, <1>8, <1>9 DEF w

\* A step that writes nothing new, or writes again what is there.
LEMMA OrderShrinks ==
  ASSUME OrderInv, UNCHANGED <<accepted, discarded, fresh>>,
         \E k \in Nat : Part(file', file, k) \/ Part(file', work, k),
         \E k \in Nat : Part(work', file, k) \/ Part(work', work, k),
         \A p \in Publishers : pc'[p] # "idle" => pc[p] # "idle" /\ msg'[p] = msg[p]
  PROVE  OrderInv'
<1>1. Ordered(file', accepted) /\ Younger(file', accepted, discarded)
      /\ \A m : OnSome(file', m) => OnSome(file, m) \/ OnSome(work, m)
  BY PartOrder DEF OrderInv
<1>2. Ordered(work', accepted) /\ Younger(work', accepted, discarded)
      /\ \A m : OnSome(work', m) => OnSome(file, m) \/ OnSome(work, m)
  BY PartOrder DEF OrderInv
<1>3. \A m : Unseen(m) => m \notin ToSet(accepted') /\ m \notin discarded' /\ ~OnSome(file', m) /\ ~OnSome(work', m)
  BY <1>1, <1>2 DEF Unseen
<1>4. Ordered(file', accepted') /\ Younger(file', accepted', discarded')
      /\ Ordered(work', accepted') /\ Younger(work', accepted', discarded')
  BY <1>1, <1>2
<1>5. \A m \in fresh' : m \notin ToSet(accepted') /\ m \notin discarded' /\ ~OnSome(file', m) /\ ~OnSome(work', m)
  BY <1>3 DEF OrderInv
<1>6. \A p \in Publishers : pc'[p] # "idle" =>
        /\ msg'[p] \notin fresh' /\ msg'[p] \notin ToSet(accepted') /\ msg'[p] \notin discarded'
        /\ ~OnSome(file', msg'[p]) /\ ~OnSome(work', msg'[p])
  BY <1>3 DEF OrderInv
<1>7. \A p, q \in Publishers : p # q /\ pc'[p] # "idle" /\ pc'[q] # "idle" => msg'[p] # msg'[q]
  BY DEF OrderInv
<1> QED BY <1>4, <1>5, <1>6, <1>7 DEF OrderInv, Unseen

LEMMA PartSame ==
  ASSUME NEW lines \in Seq(Line)
  PROVE  Part(lines, lines, 0) /\ Part(<<>>, lines, 0)
<1>1. \A i \in 1..Len(lines) : i + 0 = i
  OBVIOUS
<1>2. 1..Len(<<>>) = {}
  OBVIOUS
<1> QED BY <1>1, <1>2 DEF Part

LEMMA PartCut ==
  ASSUME NEW lines \in Seq(Line), Lines(lines), NEW f \in CutShort(lines)
  PROVE  Part(f, lines, 0)
<1>1. Len(f) <= Len(lines) /\ f \in Seq(Line) /\ \A i \in 1..Len(f) : f[i].msgs = lines[i].msgs
  BY CutForm
<1>2. \A i \in 1..Len(f) : i + 0 = i /\ i \in 1..Len(lines)
  BY <1>1
<1> QED BY <1>1, <1>2 DEF Part

LEMMA OrderQuiet ==
  ASSUME LockInv, CeilInv, OrderInv, Quiet
  PROVE  OrderInv'
<1>0. file \in Seq(Line) /\ work \in Seq(Line) /\ Lines(file) /\ Lines(work)
      /\ pc \in [Goroutines -> {"idle", "add", "trim", "append", "stats", "scan", "rewrite"}]
      /\ msg \in [Publishers -> Msgs \cup {Nobody}] /\ Publishers \subseteq Goroutines
      /\ Drainer \in Goroutines /\ Drainer \notin Publishers
  BY SpoolConstants DEF LockInv, TypeOK, CeilInv, Goroutines
<1>1. ASSUME NEW p \in Publishers, NEW m \in Msgs, PublishWithQoS(p, m) PROVE OrderInv'
  <2>1. UNCHANGED <<file, work, accepted, discarded>> /\ m \in fresh /\ fresh' = fresh \ {m} /\ pc[p] = "idle"
    BY <1>1 DEF PublishWithQoS, fileVars, lockVars
  <2>2. \A x : Unseen(x) => x \notin ToSet(accepted') /\ x \notin discarded' /\ ~OnSome(file', x) /\ ~OnSome(work', x)
    BY <2>1 DEF Unseen
  <2>3. Ordered(file', accepted') /\ Younger(file', accepted', discarded')
        /\ Ordered(work', accepted') /\ Younger(work', accepted', discarded')
    BY <2>1 DEF OrderInv
  <2>4. \A x \in fresh' : x \notin ToSet(accepted') /\ x \notin discarded' /\ ~OnSome(file', x) /\ ~OnSome(work', x)
    BY <2>1, <2>2 DEF OrderInv
  <2>5. Unseen(m) /\ m \notin fresh' /\ fresh' \subseteq fresh
        /\ \A q \in Publishers : pc[q] # "idle" => msg[q] # m
    BY <2>1 DEF OrderInv
  <2>6. \A q \in Publishers : pc'[q] # "idle" => (pc[q] # "idle" /\ msg'[q] = msg[q]) \/ (q = p /\ msg'[q] = m)
    <3>1. CASE UNCHANGED <<pc, msg>>
      BY <3>1
    <3>2. CASE Goto(p, "add") /\ msg' = [msg EXCEPT ![p] = m]
      BY <1>0, <3>2 DEF Goto
    <3> QED BY <1>1, <3>1, <3>2 DEF PublishWithQoS
  <2>7. \A q \in Publishers : pc'[q] # "idle" =>
          /\ msg'[q] \notin fresh' /\ msg'[q] \notin ToSet(accepted') /\ msg'[q] \notin discarded'
          /\ ~OnSome(file', msg'[q]) /\ ~OnSome(work', msg'[q])
    <3> SUFFICES ASSUME NEW q \in Publishers, pc'[q] # "idle" PROVE msg'[q] \notin fresh' /\ Unseen(msg'[q])
      BY <2>2
    <3>1. CASE pc[q] # "idle" /\ msg'[q] = msg[q]
      <4>1. msg[q] \notin fresh /\ Unseen(msg[q])
        BY <3>1 DEF OrderInv
      <4> QED BY <2>5, <3>1, <4>1
    <3>2. CASE msg'[q] = m
      BY <2>5, <3>2
    <3> QED BY <2>6, <3>1, <3>2
  <2>8. \A q, r \in Publishers : q # r /\ pc'[q] # "idle" /\ pc'[r] # "idle" => msg'[q] # msg'[r]
    BY <2>1, <2>5, <2>6 DEF OrderInv
  <2> QED BY <2>3, <2>4, <2>7, <2>8 DEF OrderInv, Unseen
<1>2. CASE ~ \E p \in Publishers, m \in Msgs : PublishWithQoS(p, m)
  <2>1. UNCHANGED <<file, work, accepted, discarded, fresh>>
    BY <1>2 DEF Quiet, AddTooLarge, SendLate, onConnect, onConnectionLost, DrainTry, DrainOpen, NewSpool, vars,
                fileVars, lockVars, msgVars
  <2>2. \A q \in Publishers : pc'[q] # "idle" => pc[q] # "idle" /\ msg'[q] = msg[q]
    <3>1. ASSUME NEW p \in Publishers, AddTooLarge(p) PROVE <2>2!:
      BY <1>0, <3>1 DEF AddTooLarge, Goto
    <3>2. CASE (\E m \in Msgs : SendLate(m)) \/ onConnect \/ onConnectionLost \/ NewSpool \/ UNCHANGED vars
      BY <3>2 DEF SendLate, onConnect, onConnectionLost, NewSpool, vars
    <3>3. CASE DrainTry
      BY <1>0, <3>3 DEF DrainTry, Goto
    <3>4. CASE DrainOpen
      BY <1>0, <3>4 DEF DrainOpen, Goto
    <3> QED BY <1>2, <3>1, <3>2, <3>3, <3>4 DEF Quiet
  <2>3. \E k \in Nat : Part(file', file, k) \/ Part(file', work, k)
    BY <1>0, <2>1, PartSame
  <2>4. \E k \in Nat : Part(work', file, k) \/ Part(work', work, k)
    BY <1>0, <2>1, PartSame
  <2> QED BY <2>1, <2>2, <2>3, <2>4, OrderShrinks
<1> QED BY <1>1, <1>2

LEMMA OrderAdd ==
  ASSUME LockInv, CeilInv, OrderInv, NEW p \in Publishers,
         dropOldestLocked(p) \/ WriteTrimmed(p) \/ AddAppend(p)
  PROVE  OrderInv'
<1>0. /\ file \in Seq(Line) /\ work \in Seq(Line) /\ Lines(file) /\ Lines(work) /\ accepted \in Seq(Msgs)
      /\ pc \in [Goroutines -> {"idle", "add", "trim", "append", "stats", "scan", "rewrite"}]
      /\ msg \in [Publishers -> Msgs \cup {Nobody}] /\ Publishers \subseteq Goroutines
      /\ pc[p] # "idle" /\ msg[p] \in Msgs /\ MaxBytes \in Nat /\ SizeOf[msg[p]] \in Nat
  BY SpoolConstants
     DEF LockInv, TypeOK, CeilInv, Goroutines, dropOldestLocked, WriteTrimmed, AddAppend, Appending
<1>1. CASE dropOldestLocked(p)
  <2> DEFINE target == MaxBytes - SizeOf[msg[p]]
             cut == FirstKept(file, target)
             gone == SubSeq(file, 1, cut)
             kept == SubSeq(file, cut + 1, Len(file))
  <2>1. /\ SizeOf[msg[p]] <= MaxBytes /\ file' = <<>> /\ work' = kept
        /\ discarded' = discarded \cup ReadableMsgs(gone)
        /\ pc' = [pc EXCEPT ![p] = "trim"] /\ UNCHANGED <<msg, fresh, accepted>>
    BY <1>1 DEF dropOldestLocked, Goto, KeptLines
  <2>2. target \in Nat
    BY <1>0, <2>1
  <2>3. cut \in 0..Len(file)
    BY <1>0, <2>2, FirstKeptFits
  <2> HIDE DEF cut
  <2>4. /\ gone \in Seq(Line) /\ Len(gone) = cut /\ \A i \in 1..cut : gone[i] = file[i] /\ i \in 1..Len(file)
        /\ kept \in Seq(Line) /\ Len(kept) = Len(file) - cut
        /\ \A i \in 1..Len(kept) : kept[i] = file[i + cut] /\ i + cut \in 1..Len(file)
    <3>0. gone \in Seq(Line) /\ Len(gone) = cut /\ \A i \in 1..cut : gone[i] = file[i]
      BY <1>0, <2>3, Beginning
    <3>2. kept \in Seq(Line) /\ Len(kept) = Len(file) - cut /\ \A i \in 1..Len(kept) : kept[i] = file[cut + i]
      BY <1>0, <2>3, Ending
    <3> HIDE DEF kept, gone
    <3>3. Len(file) \in Nat
      BY <1>0
    <3>1. \A i \in 1..cut : i \in 1..Len(file)
      BY <2>3, <3>3
    <3>4. \A i \in 1..Len(kept) : i + cut \in 1..Len(file) /\ i + cut = cut + i
      BY <2>3, <3>2, <3>3
    <3> QED BY <3>0, <3>1, <3>2, <3>4
  <2> HIDE DEF gone, kept
  <2>5. Part(kept, file, cut) /\ cut \in Nat
    <3>1. cut \in Nat
      BY <1>0, <2>3
    <3> QED BY <2>4, <3>1 DEF Part
  <2>6. \A x \in ReadableMsgs(gone) : \E i \in 1..cut : On(file[i], x) /\ i \in 1..Len(file)
    <3> SUFFICES ASSUME NEW x \in ReadableMsgs(gone) PROVE \E i \in 1..cut : On(file[i], x) /\ i \in 1..Len(file)
      OBVIOUS
    <3>1. PICK i \in DOMAIN gone : Readable(gone[i]) /\ x = gone[i].msgs[1]
      BY DEF ReadableMsgs
    <3>2. i \in 1..cut
      BY <2>4, <3>1
    <3>3. On(gone[i], x)
      BY <3>1 DEF On, Readable
    <3> QED BY <2>4, <3>2, <3>3
  <2>7. Ordered(work', accepted') /\ Younger(work', accepted', discarded) /\ \A m : OnSome(work', m) => OnSome(file, m)
    BY <2>1, <2>5, PartOrder DEF OrderInv
  <2>8. Younger(work', accepted', discarded')
    <3> SUFFICES ASSUME NEW i \in 1..Len(kept), NEW u \in 1..Len(accepted), NEW v \in 1..Len(accepted),
                        accepted[u] \in discarded', On(kept[i], accepted[v])
                 PROVE  u < v
      BY <2>1 DEF Younger
    <3>1. CASE accepted[u] \in discarded
      BY <2>1, <2>7, <3>1 DEF Younger
    <3>2. CASE accepted[u] \in ReadableMsgs(gone)
      <4>1. PICK j \in 1..cut : On(file[j], accepted[u]) /\ j \in 1..Len(file)
        BY <2>6, <3>2
      <4>2. i + cut \in 1..Len(file) /\ On(file[i + cut], accepted[v])
        BY <2>4
      <4>3. j < i + cut
        BY <2>3
      <4>4. Ordered(file, accepted)
        BY DEF OrderInv
      <4> QED BY <4>1, <4>2, <4>3, <4>4 DEF Ordered
    <3> QED BY <2>1, <3>1, <3>2
  <2>9. Ordered(file', accepted') /\ Younger(file', accepted', discarded') /\ \A m : ~OnSome(file', m)
    BY <2>1 DEF Ordered, Younger, OnSome
  <2>10. \A m : Unseen(m) => m \notin ToSet(accepted') /\ m \notin discarded' /\ ~OnSome(file', m) /\ ~OnSome(work', m)
    <3>1. \A m \in ReadableMsgs(gone) : OnSome(file, m)
      BY <2>6 DEF OnSome
    <3> QED BY <2>1, <2>7, <2>9, <3>1 DEF Unseen
  <2>11. \A q \in Publishers : pc'[q] # "idle" => pc[q] # "idle" /\ msg'[q] = msg[q]
    BY <1>0, <2>1
  <2>12. \A m \in fresh' : m \notin ToSet(accepted') /\ m \notin discarded' /\ ~OnSome(file', m) /\ ~OnSome(work', m)
    BY <2>1, <2>10 DEF OrderInv
  <2>13. \A q \in Publishers : pc'[q] # "idle" =>
          /\ msg'[q] \notin fresh' /\ msg'[q] \notin ToSet(accepted') /\ msg'[q] \notin discarded'
          /\ ~OnSome(file', msg'[q]) /\ ~OnSome(work', msg'[q])
    BY <2>1, <2>10, <2>11 DEF OrderInv
  <2>14. \A q, r \in Publishers : q # r /\ pc'[q] # "idle" /\ pc'[r] # "idle" => msg'[q] # msg'[r]
    BY <2>11 DEF OrderInv
  <2> QED BY <2>7, <2>8, <2>9, <2>12, <2>13, <2>14 DEF OrderInv, Unseen
<1>2. CASE WriteTrimmed(p)
  <2>1. work' = <<>> /\ UNCHANGED <<accepted, discarded, fresh>> /\ (file' = work \/ file' \in CutShort(work))
    BY <1>2 DEF WriteTrimmed, msgVars
  <2>2. \A q \in Publishers : pc'[q] # "idle" => pc[q] # "idle" /\ msg'[q] = msg[q]
    <3>1. CASE Goto(p, "append") /\ UNCHANGED <<mu, msg>>
      BY <1>0, <3>1 DEF Goto
    <3>2. CASE Goto(p, "idle") /\ mu' = Nobody /\ msg' = [msg EXCEPT ![p] = Nobody]
      BY <1>0, <3>2 DEF Goto
    <3> QED BY <1>2, <3>1, <3>2 DEF WriteTrimmed
  <2>3. \E k \in Nat : Part(file', file, k) \/ Part(file', work, k)
    BY <1>0, <2>1, PartSame, PartCut
  <2>4. \E k \in Nat : Part(work', file, k) \/ Part(work', work, k)
    BY <1>0, <2>1, PartSame
  <2> QED BY <2>1, <2>2, <2>3, <2>4, OrderShrinks
<1>3. CASE AddAppend(p)
  <2> DEFINE m == msg[p]
  <2>0. Appending(p)
    BY <1>3 DEF AddAppend
  <2>1. work = <<>>
    BY <2>0, AppendFits, NoWork
  <2>2. PICK n \in 0..SizeOf[m] : /\ file' = Written(file, m, n)
                                  /\ accepted' = IF n = SizeOf[m] THEN Append(accepted, m) ELSE accepted
    BY <1>0, <1>3, SpoolConstants DEF AddAppend
  <2>3. pc' = [pc EXCEPT ![p] = "idle"] /\ msg' = [msg EXCEPT ![p] = Nobody] /\ UNCHANGED <<work, fresh, discarded>>
    BY <1>3 DEF AddAppend, Goto
  <2>4. accepted' \in {accepted, Append(accepted, m)}
    BY <2>2
  <2>5. m \notin fresh /\ m \notin ToSet(accepted) /\ m \notin discarded /\ ~OnSome(file, m)
    BY <1>0 DEF OrderInv, Unseen
  <2>5a. m \in Msgs
    BY <1>0
  <2> HIDE DEF m
  <2>6. /\ Ordered(file', accepted') /\ Younger(file', accepted', discarded)
        /\ \A x : OnSome(file', x) => OnSome(file, x) \/ x = m
        /\ \A x : x \in ToSet(accepted') => x \in ToSet(accepted) \/ x = m
    <3>1. Ordered(file, accepted) /\ Younger(file, accepted, discarded)
      BY DEF OrderInv
    <3> QED BY <1>0, <2>2, <2>4, <2>5, <2>5a, <3>1, AppendOrder
  <2>7. Ordered(work', accepted') /\ Younger(work', accepted', discarded') /\ \A x : ~OnSome(work', x)
    BY <2>1, <2>3 DEF Ordered, Younger, OnSome
  <2>8. \A x : Unseen(x) /\ x # m => x \notin ToSet(accepted') /\ x \notin discarded' /\ ~OnSome(file', x) /\ ~OnSome(work', x)
    BY <2>3, <2>6, <2>7 DEF Unseen
  <2>9. \A q \in Publishers : pc'[q] # "idle" => pc[q] # "idle" /\ msg'[q] = msg[q] /\ msg[q] # m
    BY <1>0, <2>3 DEF OrderInv, m
  <2>10. \A x \in fresh' : x \notin ToSet(accepted') /\ x \notin discarded' /\ ~OnSome(file', x) /\ ~OnSome(work', x)
    BY <2>3, <2>5, <2>8 DEF OrderInv
  <2>11. \A q \in Publishers : pc'[q] # "idle" =>
          /\ msg'[q] \notin fresh' /\ msg'[q] \notin ToSet(accepted') /\ msg'[q] \notin discarded'
          /\ ~OnSome(file', msg'[q]) /\ ~OnSome(work', msg'[q])
    BY <2>3, <2>8, <2>9 DEF OrderInv
  <2>12. \A q, r \in Publishers : q # r /\ pc'[q] # "idle" /\ pc'[r] # "idle" => msg'[q] # msg'[r]
    BY <2>9 DEF OrderInv
  <2>13. Younger(file', accepted', discarded')
    BY <2>3, <2>6
  <2> QED BY <2>6, <2>7, <2>10, <2>11, <2>12, <2>13 DEF OrderInv, Unseen
<1> QED BY <1>1, <1>2, <1>3

LEMMA OrderDrain ==
  ASSUME LockInv, CeilInv, OrderInv, DrainLine \/ DrainRemove \/ DrainRewrite
  PROVE  OrderInv'
<1>0. /\ file \in Seq(Line) /\ work \in Seq(Line) /\ Lines(file) /\ Lines(work) /\ next \in Nat
      /\ pc \in [Goroutines -> {"idle", "add", "trim", "append", "stats", "scan", "rewrite"}]
      /\ Publishers \subseteq Goroutines /\ Drainer \in Goroutines /\ Drainer \notin Publishers
  BY SpoolConstants DEF LockInv, TypeOK, CeilInv, Goroutines
<1>1. UNCHANGED <<accepted, discarded, fresh, msg>>
  BY DEF DrainLine, DrainRemove, DrainRewrite, msgVars
<1>2. \A q \in Publishers : pc'[q] # "idle" => pc[q] # "idle" /\ msg'[q] = msg[q]
  <2>1. \/ UNCHANGED pc \/ \E place : pc' = [pc EXCEPT ![Drainer] = place]
    BY DEF DrainLine, DrainRemove, DrainRewrite, Goto
  <2>2. \A q \in Publishers : pc'[q] = pc[q]
    BY <1>0, <2>1
  <2> QED BY <1>1, <2>2
<1>3. /\ \E k \in Nat : Part(file', file, k) \/ Part(file', work, k)
      /\ \E k \in Nat : Part(work', file, k) \/ Part(work', work, k)
  <2>1. CASE DrainLine
    <3>1. CASE UNCHANGED <<file, work>>
      BY <1>0, <3>1, PartSame
    <3>2. CASE work' = Ended(NotYetSent) /\ file' = <<>>
      <4> DEFINE s == NotYetSent
      <4>1. next \in Nat \ {0} /\ next <= ScanEnd /\ ScanEnd \in 0..Len(file) /\ Len(file) \in Nat
        BY <1>0, <2>1, ScanEndForm DEF DrainLine, LockInv
      <4>2. /\ s \in Seq(Line) /\ Lines(s) /\ Len(s) = ScanEnd - next + 1
            /\ \A i \in 1..Len(s) : s[i] = file[i + next - 1]
        BY <1>0, <4>1, NotYetSentForm
      <4> HIDE DEF s
      <4>3. Len(work') = Len(s) /\ \A i \in 1..Len(s) : work'[i].msgs = s[i].msgs
        BY <3>2, <4>2, EndedForm DEF s
      <4>4. next - 1 \in Nat /\ \A i \in 1..Len(s) : i + (next - 1) \in 1..Len(file) /\ i + next - 1 = i + (next - 1)
        BY <4>1, <4>2
      <4>5. Part(work', file, next - 1)
        BY <4>2, <4>3, <4>4 DEF Part
      <4> QED BY <1>0, <3>2, <4>4, <4>5, PartSame
    <3> QED BY <2>1, <3>1, <3>2 DEF DrainLine
  <2>2. CASE DrainRemove
    BY <1>0, <2>2, PartSame DEF DrainRemove
  <2>3. CASE DrainRewrite
    BY <1>0, <2>3, PartSame, PartCut DEF DrainRewrite
  <2> QED BY <2>1, <2>2, <2>3
<1> QED BY <1>1, <1>2, <1>3, OrderShrinks

LEMMA OrderCrash ==
  ASSUME LockInv, CeilInv, OrderInv, Crash
  PROVE  OrderInv'
<1>0. /\ file \in Seq(Line) /\ work \in Seq(Line) /\ Lines(file) /\ Lines(work) /\ accepted \in Seq(Msgs)
  BY DEF LockInv, TypeOK, CeilInv
<1>1. work' = <<>> /\ pc' = [g \in Goroutines |-> "idle"] /\ UNCHANGED <<accepted, discarded, fresh>>
  BY DEF Crash
<1>2. \A p \in Publishers : pc'[p] = "idle"
  BY <1>1 DEF Goroutines
<1>3. ASSUME NEW p \in Publishers, Appending(p), NEW n \in 1..(SizeOf[msg[p]] - 1), file' = Written(file, msg[p], n)
      PROVE  OrderInv'
  <2> DEFINE m == msg[p]
  <2>1. m \in Msgs
    BY <1>3, AppendFits
  <2>2. n \in 0..SizeOf[m]
    BY <2>1, SpoolConstants
  <2>3. m \notin fresh /\ m \notin ToSet(accepted) /\ m \notin discarded /\ ~OnSome(file, m)
    BY <1>3 DEF OrderInv, Unseen, Appending
  <2>4. file' = Written(file, m, n)
    BY <1>3
  <2> HIDE DEF m
  <2>5. Ordered(file, accepted) /\ Younger(file, accepted, discarded)
    BY DEF OrderInv
  <2>6. /\ Ordered(file', accepted) /\ Younger(file', accepted, discarded)
        /\ \A x : OnSome(file', x) => OnSome(file, x) \/ x = m
    <3>1. accepted \in {accepted, Append(accepted, m)}
      OBVIOUS
    <3> QED BY <1>0, <2>1, <2>2, <2>3, <2>4, <2>5, <3>1, AppendOrder
  <2>7. Ordered(work', accepted') /\ Younger(work', accepted', discarded') /\ \A x : ~OnSome(work', x)
    BY <1>1 DEF Ordered, Younger, OnSome
  <2>8. \A x \in fresh' : x \notin ToSet(accepted') /\ x \notin discarded' /\ ~OnSome(file', x) /\ ~OnSome(work', x)
    BY <1>1, <2>3, <2>6, <2>7 DEF OrderInv, Unseen
  <2>9. Ordered(file', accepted') /\ Younger(file', accepted', discarded')
    BY <1>1, <2>6
  <2> QED BY <1>2, <2>7, <2>8, <2>9 DEF OrderInv, Unseen
<1>4. CASE file' = file \/ file' \in CutShort(work)
  <2>1. \E k \in Nat : Part(file', file, k) \/ Part(file', work, k)
    BY <1>0, <1>4, PartSame, PartCut
  <2>2. \E k \in Nat : Part(work', file, k) \/ Part(work', work, k)
    BY <1>0, <1>1, PartSame
  <2> QED BY <1>1, <1>2, <2>1, <2>2, OrderShrinks
<1> QED BY <1>3, <1>4, CrashForm

LEMMA OrderKept == Spec => [](LockInv /\ OrderInv)
<1>1. Init => OrderInv
  <2> SUFFICES ASSUME Init PROVE OrderInv
    OBVIOUS
  <2>1. file = <<>> /\ work = <<>> /\ accepted = <<>> /\ discarded = {} /\ \A p \in Publishers : pc[p] = "idle"
    BY DEF Init, Goroutines
  <2> QED BY <2>1 DEF OrderInv, Ordered, Younger, Unseen, OnSome, ToSet
<1>2. LockInv /\ CeilInv /\ OrderInv /\ [Next]_vars => OrderInv'
  BY NextCases, OrderQuiet, OrderAdd, OrderDrain, OrderCrash
<1> QED BY <1>1, <1>2, SpoolHolds, PTL DEF Spec, SpoolInv

\* ReplayInOrder: what is on disk was accepted in the order it will be sent in, and after
\* everything dropOldestLocked has cut off - with any number of publishers, whatever writes
\* leave half a record and wherever the process dies.
THEOREM OrderHolds == Spec => []ReplayInOrder
<1>1. LockInv /\ OrderInv => ReplayInOrder
  <2> SUFFICES ASSUME LockInv, OrderInv PROVE ReplayInOrder
    OBVIOUS
  <2> DEFINE lines == file \o work
             Pos(m) == CHOOSE i \in DOMAIN accepted : accepted[i] = m
             Waiting == {i \in DOMAIN lines : Readable(lines[i]) /\ lines[i].msgs[1] \in ToSet(accepted)}
  <2>0. file \in Seq(Line) /\ work \in Seq(Line) /\ accepted \in Seq(Msgs)
    BY DEF LockInv, TypeOK
  <2>1. lines = file \/ lines = work
    <3>1. CASE work = <<>>
      BY <2>0, <3>1
    <3>2. CASE work # <<>>
      <4>1. file = <<>>
        BY <3>2 DEF LockInv
      <4> QED BY <2>0, <4>1
    <3> QED BY <3>1, <3>2
  <2>2. Ordered(lines, accepted) /\ Younger(lines, accepted, discarded) /\ lines \in Seq(Line)
    BY <2>0, <2>1 DEF OrderInv
  <2>3. \A m \in ToSet(accepted) : Pos(m) \in 1..Len(accepted) /\ accepted[Pos(m)] = m
    <3> SUFFICES ASSUME NEW m \in ToSet(accepted) PROVE Pos(m) \in 1..Len(accepted) /\ accepted[Pos(m)] = m
      OBVIOUS
    <3>1. \E i \in DOMAIN accepted : accepted[i] = m
      BY DEF ToSet
    <3>2. Pos(m) \in DOMAIN accepted /\ accepted[Pos(m)] = m
      BY <3>1
    <3> HIDE DEF Pos
    <3> QED BY <2>0, <3>2
  <2> HIDE DEF lines, Pos
  <2>4. \A i \in Waiting : i \in 1..Len(lines) /\ On(lines[i], lines[i].msgs[1]) /\ lines[i].msgs[1] \in ToSet(accepted)
    <3> SUFFICES ASSUME NEW i \in Waiting
                 PROVE  i \in 1..Len(lines) /\ On(lines[i], lines[i].msgs[1]) /\ lines[i].msgs[1] \in ToSet(accepted)
      OBVIOUS
    <3>1. i \in DOMAIN lines /\ Readable(lines[i]) /\ lines[i].msgs[1] \in ToSet(accepted)
      OBVIOUS
    <3>2. On(lines[i], lines[i].msgs[1])
      BY <3>1 DEF Readable, On
    <3> QED BY <2>2, <3>1, <3>2
  <2> HIDE DEF Waiting
  <2>5. \A i, j \in Waiting : i < j => Pos(lines[i].msgs[1]) < Pos(lines[j].msgs[1])
    BY <2>2, <2>3, <2>4 DEF Ordered
  <2>6. \A i \in Waiting, m \in discarded \cap ToSet(accepted) : Pos(m) < Pos(lines[i].msgs[1])
    BY <2>2, <2>3, <2>4 DEF Younger
  <2> QED BY <2>5, <2>6 DEF ReplayInOrder, Pos, Waiting, lines
<1> QED BY <1>1, OrderKept, PTL

--------------------------------------------------------------------------------
(* Nothing is lost while every write finishes. *)

\* No write ends early, and the scanner's buffer holds every record.
WritesFinish == Env \cap {"fail", "torn", "cut"} = {} /\ \A m \in Msgs : SizeOf[m] <= ScanLimit

\* Every line is one whole record.
Record(m) == [msgs |-> <<m>>, bytes |-> SizeOf[m], ended |-> TRUE]

Whole(lines) == \A i \in 1..Len(lines) : \E m \in Msgs : lines[i] = Record(m)

\* The message m is on one of the lines.
Holds(lines, m) == \E i \in 1..Len(lines) : lines[i].msgs[1] = m

\* Where an accepted message is.
Accounted(m) == Holds(file, m) \/ Holds(work, m) \/ m \in ToSet(delivered) \/ m \in discarded

\* What the scan has passed is with the broker, so that it may go with the file.
KeptInv ==
  /\ Whole(file) /\ Whole(work)
  /\ \A i \in 1..Len(accepted) : Accounted(accepted[i])
  /\ pc[Drainer] = "scan" => /\ next <= Len(file) + 1
                             /\ \A i \in 1..Len(file) : i < next => file[i].msgs[1] \in ToSet(delivered)

HoleInv == IsFiniteSet(hole) /\ Cardinality(hole) <= dropped

LEMMA WholeLine ==
  ASSUME NEW lines \in Seq(Line), Whole(lines), NEW i \in 1..Len(lines)
  PROVE  /\ Readable(lines[i]) /\ lines[i].ended /\ lines[i].msgs[1] \in Msgs
         /\ WritesFinish => ~TooLong(lines[i])
<1>1. PICK m \in Msgs : lines[i] = Record(m)
  BY DEF Whole
<1>2. lines[i].ended
  BY <1>1 DEF Record
<1>3. lines[i].msgs = <<m>> /\ lines[i].bytes = SizeOf[m]
  BY <1>1 DEF Record
<1>4. SizeOf[m] \in Nat /\ ScanLimit \in Nat
  BY SpoolConstants
<1>5. Readable(lines[i])
  BY <1>2, <1>3, <1>4 DEF Readable
<1>6. WritesFinish => ~TooLong(lines[i])
  BY <1>3, <1>4 DEF WritesFinish, TooLong
<1> QED BY <1>2, <1>3, <1>5, <1>6

LEMMA WholeClosed ==
  ASSUME NEW lines \in Seq(Line), Whole(lines)
  PROVE  Closed(lines)
<1>1. CASE lines = <<>>
  BY <1>1 DEF Closed
<1>2. CASE lines # <<>>
  <2>1. Len(lines) \in 1..Len(lines)
    BY <1>2
  <2> QED BY <2>1, WholeLine DEF Closed
<1> QED BY <1>1, <1>2

LEMMA WholeEmpty == Whole(<<>>) /\ \A m : ~Holds(<<>>, m)
BY DEF Whole, Holds

\* The accepted messages stay accounted for.
LEMMA KeepsAccount ==
  ASSUME KeptInv, UNCHANGED accepted,
         \A m : Holds(file, m) \/ Holds(work, m) =>
                  Holds(file', m) \/ Holds(work', m) \/ m \in ToSet(delivered') \/ m \in discarded',
         ToSet(delivered) \subseteq ToSet(delivered'), discarded \subseteq discarded'
  PROVE  \A i \in 1..Len(accepted') : Accounted(accepted[i])'
<1>1. \A m : Accounted(m) => Holds(file', m) \/ Holds(work', m) \/ m \in ToSet(delivered') \/ m \in discarded'
  BY DEF Accounted
<1>2. \A i \in 1..Len(accepted) : Accounted(accepted[i])
  BY DEF KeptInv
<1> QED BY <1>1, <1>2 DEF Accounted

LEMMA Delivered ==
  ASSUME LockInv, NEW m \in Msgs, delivered' = delivered \/ delivered' = Append(delivered, m)
  PROVE  /\ ToSet(delivered) \subseteq ToSet(delivered')
         /\ delivered' = Append(delivered, m) => m \in ToSet(delivered')
<1>1. delivered \in Seq(Msgs)
  BY DEF LockInv, TypeOK
<1>2. CASE delivered' = Append(delivered, m)
  <2> DEFINE d == Append(delivered, m)
  <2>1. DOMAIN delivered = 1..Len(delivered) /\ DOMAIN d = 1..(Len(delivered) + 1) /\ Len(delivered) \in Nat
        /\ d[Len(delivered) + 1] = m /\ \A i \in 1..Len(delivered) : d[i] = delivered[i]
    BY <1>1
  <2>2. \A i \in DOMAIN delivered : i \in DOMAIN d /\ d[i] = delivered[i]
    BY <2>1
  <2>3. Len(delivered) + 1 \in DOMAIN d
    BY <2>1
  <2> HIDE DEF d
  <2>4. ToSet(delivered) \subseteq ToSet(d)
    BY <2>2 DEF ToSet
  <2>5. m \in ToSet(d)
    BY <2>1, <2>3 DEF ToSet
  <2> QED BY <1>2, <2>4, <2>5 DEF d
<1>3. CASE delivered' = delivered
  <2>1. delivered # Append(delivered, m)
    <3>1. Len(delivered) \in Nat /\ Len(Append(delivered, m)) = Len(delivered) + 1
      BY <1>1
    <3> QED BY <3>1
  <2> QED BY <1>3, <2>1
<1> QED BY <1>2, <1>3

LEMMA KeptQuiet ==
  ASSUME LockInv, KeptInv, Quiet
  PROVE  KeptInv'
<1>1. UNCHANGED <<file, work, accepted, discarded>>
  BY DEF Quiet, PublishWithQoS, AddTooLarge, SendLate, onConnect, onConnectionLost, DrainTry, DrainOpen, NewSpool, vars,
         fileVars, lockVars, msgVars
<1>2. UNCHANGED delivered \/ \E m \in Msgs : delivered' = Append(delivered, m)
  BY DEF Quiet, PublishWithQoS, Sent, SendError, AddTooLarge, SendLate, onConnect, onConnectionLost, DrainTry, DrainOpen,
         NewSpool, vars, wireVars
<1>3. ToSet(delivered) \subseteq ToSet(delivered')
  BY <1>2, Delivered
<1>4. pc'[Drainer] = "scan" => (pc[Drainer] = "scan" /\ next' = next) \/ next' = 1
  <2>0. Drainer \in Goroutines /\ Drainer \notin Publishers
        /\ pc \in [Goroutines -> {"idle", "add", "trim", "append", "stats", "scan", "rewrite"}]
    BY SpoolConstants DEF Goroutines, LockInv, TypeOK
  <2>1. ASSUME NEW p \in Publishers, NEW m \in Msgs, PublishWithQoS(p, m) PROVE <1>4!:
    BY <2>0, <2>1 DEF PublishWithQoS, Goto, lockVars
  <2>2. ASSUME NEW p \in Publishers, AddTooLarge(p) PROVE <1>4!:
    BY <2>0, <2>2 DEF AddTooLarge, Goto, lockVars
  <2>3. CASE (\E m \in Msgs : SendLate(m)) \/ onConnect \/ onConnectionLost \/ NewSpool \/ UNCHANGED vars
    BY <2>3 DEF SendLate, onConnect, onConnectionLost, NewSpool, vars, lockVars
  <2>4. CASE DrainTry
    BY <2>0, <2>4 DEF DrainTry, Goto, lockVars
  <2>5. CASE DrainOpen
    BY <2>0, <2>5 DEF DrainOpen, Goto
  <2> QED BY <2>1, <2>2, <2>3, <2>4, <2>5 DEF Quiet
<1>5. \A i \in 1..Len(accepted') : Accounted(accepted[i])'
  BY <1>1, <1>3, KeepsAccount
<1>6. pc'[Drainer] = "scan" => \A i \in 1..Len(file') : i < next' => file'[i].msgs[1] \in ToSet(delivered')
  <2> SUFFICES ASSUME pc'[Drainer] = "scan", NEW i \in 1..Len(file), i < next' PROVE file[i].msgs[1] \in ToSet(delivered')
    BY <1>1
  <2>1. pc[Drainer] = "scan" /\ next' = next
    BY <1>4
  <2> QED BY <1>3, <2>1 DEF KeptInv
<1>7. pc'[Drainer] = "scan" => next' <= Len(file') + 1
  <2>1. Len(file) \in Nat
    BY DEF LockInv, TypeOK
  <2> QED BY <1>1, <1>4, <2>1 DEF KeptInv
<1> QED BY <1>1, <1>5, <1>6, <1>7 DEF KeptInv

LEMMA KeptAdd ==
  ASSUME WritesFinish, LockInv, CeilInv, KeptInv, NEW p \in Publishers,
         dropOldestLocked(p) \/ WriteTrimmed(p) \/ AddAppend(p)
  PROVE  KeptInv'
<1>0. /\ p \in Goroutines /\ Drainer \in Goroutines /\ p # Drainer /\ p # Nobody
      /\ file \in Seq(Line) /\ work \in Seq(Line) /\ Lines(file) /\ Lines(work) /\ accepted \in Seq(Msgs)
      /\ pc \in [Goroutines -> {"idle", "add", "trim", "append", "stats", "scan", "rewrite"}]
      /\ pc[p] # "idle" /\ msg[p] \in Msgs /\ MaxBytes \in Nat /\ SizeOf[msg[p]] \in Nat \ {0, 1}
      /\ (pc[p] = "add" => mu = Nobody)
  BY SpoolConstants
     DEF LockInv, TypeOK, CeilInv, Goroutines, dropOldestLocked, WriteTrimmed, AddAppend, Appending
<1>1. \A h \in Goroutines : h # p => pc[h] \notin Inside
  <2>1. mu = p \/ mu = Nobody
    <3>1. pc[p] = "add" \/ pc[p] \in Inside
      BY <1>0 DEF LockInv, Inside
    <3> QED BY <1>0, <3>1 DEF LockInv
  <2> QED BY <1>0, <2>1, AloneInside
<1>2. UNCHANGED delivered /\ pc'[Drainer] # "scan"
  <2>1. UNCHANGED delivered /\ \E place : pc' = [pc EXCEPT ![p] = place]
    BY DEF dropOldestLocked, WriteTrimmed, AddAppend, Goto, wireVars
  <2>2. pc'[Drainer] = pc[Drainer]
    BY <1>0, <2>1
  <2> QED BY <1>0, <1>1, <2>1, <2>2 DEF Inside
<1>3. CASE dropOldestLocked(p)
  <2> DEFINE target == MaxBytes - SizeOf[msg[p]]
             cut == FirstKept(file, target)
             gone == SubSeq(file, 1, cut)
             kept == SubSeq(file, cut + 1, Len(file))
  <2>1. /\ SizeOf[msg[p]] <= MaxBytes /\ file' = <<>> /\ work' = kept /\ pc[p] = "add"
        /\ discarded' = discarded \cup ReadableMsgs(gone) /\ UNCHANGED accepted
    BY <1>3 DEF dropOldestLocked, KeptLines
  <2>2. target \in Nat
    BY <1>0, <2>1
  <2>3. cut \in 0..Len(file) /\ Len(file) \in Nat
    <3> HIDE DEF target
    <3>1. cut \in 0..Len(file)
      BY <1>0, <2>2, FirstKeptFits
    <3> QED BY <1>0, <3>1
  <2> HIDE DEF cut
  <2>4. gone \in Seq(Line) /\ Len(gone) = cut /\ \A i \in 1..cut : gone[i] = file[i]
    BY <1>0, <2>3, Beginning
  <2>5. kept \in Seq(Line) /\ Len(kept) = Len(file) - cut /\ \A i \in 1..Len(kept) : kept[i] = file[cut + i]
    BY <1>0, <2>3, Ending
  <2> HIDE DEF gone, kept
  <2>6. work = <<>>
    <3>1. \A h \in Goroutines : pc[h] \notin {"trim", "rewrite"}
      BY <1>1, <2>1 DEF Inside
    <3> QED BY <3>1, NoWork
  <2>7. \A i \in 1..Len(file) : (i \in 1..cut) \/ (i - cut \in 1..Len(kept) /\ cut + (i - cut) = i)
    BY <2>3, <2>5
  <2>8. \A i \in 1..Len(kept) : cut + i \in 1..Len(file)
    BY <2>3, <2>5
  <2>9. Whole(kept)
    BY <2>5, <2>8 DEF KeptInv, Whole
  <2>10. ASSUME NEW m, Holds(file, m) PROVE Holds(work', m) \/ m \in discarded'
    <3>1. PICK i \in 1..Len(file) : file[i].msgs[1] = m
      BY <2>10 DEF Holds
    <3>2. CASE i \in 1..cut
      <4>1. Readable(file[i])
        BY <1>0, <3>1, WholeLine DEF KeptInv
      <4>2. i \in DOMAIN gone /\ gone[i] = file[i]
        BY <2>4, <3>2
      <4>3. m \in ReadableMsgs(gone)
        BY <3>1, <4>1, <4>2 DEF ReadableMsgs
      <4> QED BY <2>1, <4>3
    <3>3. CASE i - cut \in 1..Len(kept) /\ cut + (i - cut) = i
      <4>1. kept[i - cut].msgs[1] = m
        BY <2>5, <3>1, <3>3
      <4> QED BY <2>1, <3>3, <4>1 DEF Holds
    <3> QED BY <2>7, <3>2, <3>3
  <2>11. \A i \in 1..Len(accepted') : Accounted(accepted[i])'
    BY <1>2, <2>1, <2>6, <2>10, WholeEmpty, KeepsAccount
  <2> QED BY <1>2, <2>1, <2>9, <2>11, WholeEmpty DEF KeptInv
<1>4. CASE WriteTrimmed(p)
  <2>1. pc[p] = "trim" /\ file' = work /\ work' = <<>> /\ UNCHANGED <<accepted, discarded>>
    BY <1>4 DEF WriteTrimmed, msgVars, WritesFinish
  <2>2. file = <<>>
    BY <1>0, <2>1 DEF LockInv
  <2>3. \A i \in 1..Len(accepted') : Accounted(accepted[i])'
    BY <1>2, <2>1, <2>2, WholeEmpty, KeepsAccount
  <2> QED BY <1>2, <2>1, <2>3, WholeEmpty DEF KeptInv
<1>5. CASE AddAppend(p)
  <2> DEFINE m == msg[p]
  <2>0. Appending(p)
    BY <1>5 DEF AddAppend
  <2>1. work = <<>>
    BY <2>0, AppendFits, NoWork
  <2>2. /\ file' = Written(file, m, SizeOf[m]) /\ accepted' = Append(accepted, m)
        /\ UNCHANGED <<work, discarded>>
    BY <1>5 DEF AddAppend, WritesFinish
  <2>2a. m \in Msgs /\ SizeOf[m] \in 0..SizeOf[m] /\ SizeOf[m] > 0
    BY <1>0
  <2> HIDE DEF m
  <2>4. file' = Append(file, Record(m))
    <3>1. Closed(file)
      BY <1>0, WholeClosed DEF KeptInv
    <3> QED BY <1>0, <2>2, <2>2a, <3>1, WrittenWhole DEF Record
  <2>5. Record(m) \in Line /\ Record(m).msgs[1] = m
    BY <2>2a DEF Record, Line
  <2> DEFINE k == Len(file)
  <2>6. k \in Nat /\ Len(file') = k + 1 /\ file'[k + 1] = Record(m) /\ \A i \in 1..k : file'[i] = file[i]
    BY <1>0, <2>4, <2>5
  <2> HIDE DEF k
  <2>7. Whole(file')
    <3> SUFFICES ASSUME NEW i \in 1..(k + 1) PROVE \E x \in Msgs : file'[i] = Record(x)
      BY <2>6 DEF Whole
    <3>1. CASE i = k + 1
      BY <2>2a, <2>6, <3>1
    <3>2. CASE i \in 1..k
      BY <2>6, <3>2 DEF KeptInv, Whole, k
    <3> QED BY <2>6, <3>1, <3>2
  <2>8. \A x : Holds(file, x) => Holds(file', x)
    <3>1. \A i \in 1..k : i \in 1..(k + 1)
      BY <2>6
    <3> QED BY <2>6, <3>1 DEF Holds, k
  <2>9. Holds(file', m)
    <3>1. k + 1 \in 1..(k + 1)
      BY <2>6
    <3> QED BY <2>5, <2>6, <3>1 DEF Holds
  <2>10. \A x : Accounted(x) => Holds(file', x) \/ Holds(work', x) \/ x \in ToSet(delivered') \/ x \in discarded'
    BY <1>2, <2>2, <2>8 DEF Accounted
  <2>11. \A i \in 1..Len(accepted') : (i \in 1..Len(accepted) /\ accepted'[i] = accepted[i]) \/ accepted'[i] = m
    BY <1>0, <2>2, <2>2a
  <2>12. \A i \in 1..Len(accepted') : Accounted(accepted[i])'
    <3> SUFFICES ASSUME NEW i \in 1..Len(accepted')
                 PROVE  \/ Holds(file', accepted'[i]) \/ Holds(work', accepted'[i])
                        \/ accepted'[i] \in ToSet(delivered') \/ accepted'[i] \in discarded'
      BY DEF Accounted
    <3>1. CASE i \in 1..Len(accepted) /\ accepted'[i] = accepted[i]
      BY <2>10, <3>1 DEF KeptInv
    <3>2. CASE accepted'[i] = m
      BY <2>9, <3>2
    <3> QED BY <2>11, <3>1, <3>2
  <2> QED BY <1>2, <2>1, <2>2, <2>7, <2>12, WholeEmpty DEF KeptInv
<1> QED BY <1>3, <1>4, <1>5

LEMMA KeptDrain ==
  ASSUME WritesFinish, LockInv, CeilInv, KeptInv, DrainLine \/ DrainRemove \/ DrainRewrite
  PROVE  KeptInv'
<1>0. /\ Drainer \in Goroutines /\ file \in Seq(Line) /\ work \in Seq(Line) /\ Lines(file) /\ Lines(work)
      /\ next \in Nat /\ pc[Drainer] \in Inside /\ Len(file) \in Nat
      /\ pc \in [Goroutines -> {"idle", "add", "trim", "append", "stats", "scan", "rewrite"}]
  BY SpoolConstants DEF Goroutines, LockInv, TypeOK, CeilInv, Inside, DrainLine, DrainRemove, DrainRewrite
<1>1. UNCHANGED <<accepted, discarded>>
  BY DEF DrainLine, DrainRemove, DrainRewrite, msgVars
<1>2. pc[Drainer] = "scan" => work = <<>>
  <2> SUFFICES ASSUME pc[Drainer] = "scan" PROVE work = <<>>
    OBVIOUS
  <2>1. mu = Drainer
    BY <1>0 DEF LockInv
  <2>2. \A h \in Goroutines : pc[h] \notin {"trim", "rewrite"}
    BY <1>0, <2>1, AloneInside DEF Inside
  <2> QED BY <2>2, NoWork
<1>3. Whole(file) /\ Whole(work)
  BY DEF KeptInv
<1>4. ScanEnd = Len(file)
  <2>1. \A i \in 1..Len(file) : ~TooLong(file[i])
    BY <1>0, <1>3, WholeLine
  <2> QED BY <1>0, <2>1, ScanEndForm
<1>5. CASE DrainLine
  <2> DEFINE line == file[next]
             m == line.msgs[1]
  <2>1. pc[Drainer] = "scan" /\ next <= ScanEnd
    BY <1>5 DEF DrainLine
  <2>2. next \in 1..Len(file)
    BY <1>0, <1>4, <2>1 DEF LockInv
  <2>3. Readable(line) /\ m \in Msgs
    BY <1>0, <1>3, <2>2, WholeLine
  <2>4. \/ Sent(m) /\ next' = next + 1 /\ UNCHANGED <<file, corrupt, work, pc>>
        \/ SendError(m) /\ work' = Ended(NotYetSent) /\ file' = <<>> /\ Goto(Drainer, "rewrite") /\ UNCHANGED <<corrupt, next>>
    BY <1>5, <2>3 DEF DrainLine
  <2>5. file[next].msgs[1] = m
    OBVIOUS
  <2> HIDE DEF line, m
  <2>6. CASE Sent(m) /\ next' = next + 1 /\ UNCHANGED <<file, corrupt, work, pc>>
    <3>1. ToSet(delivered) \subseteq ToSet(delivered') /\ m \in ToSet(delivered')
      <4>1. delivered' = Append(delivered, m)
        BY <2>6 DEF Sent
      <4> QED BY <2>3, <4>1, Delivered
    <3>2. \A i \in 1..Len(accepted') : Accounted(accepted[i])'
      BY <1>1, <2>6, <3>1, KeepsAccount
    <3>3. ASSUME NEW i \in 1..Len(file), i < next + 1 PROVE file[i].msgs[1] \in ToSet(delivered')
      <4>1. CASE i = next
        BY <2>5, <3>1, <4>1
      <4>2. CASE i < next
        BY <2>1, <3>1, <4>2 DEF KeptInv
      <4> QED BY <1>0, <3>3, <4>1, <4>2
    <3>4. next' <= Len(file') + 1
      BY <1>0, <2>2, <2>6
    <3> QED BY <1>3, <2>6, <3>2, <3>3, <3>4 DEF KeptInv
  <2>7. CASE SendError(m) /\ work' = Ended(NotYetSent) /\ file' = <<>> /\ Goto(Drainer, "rewrite") /\ UNCHANGED <<corrupt, next>>
    <3> DEFINE s == NotYetSent
    <3>1. next \in Nat \ {0} /\ next <= ScanEnd
      BY <1>0, <2>1, <2>2
    <3>2. /\ s \in Seq(Line) /\ Lines(s) /\ Len(s) = Len(file) - next + 1 /\ (Closed(file) => Closed(s))
          /\ \A i \in 1..Len(s) : s[i] = file[i + next - 1]
      BY <1>0, <1>4, <3>1, NotYetSentForm
    <3>3. Closed(file)
      BY <1>0, <1>3, WholeClosed
    <3> HIDE DEF s
    <3>4. work' = s
      BY <2>7, <3>2, <3>3, EndedForm DEF s
    <3>5. \A i \in 1..Len(s) : i + next - 1 \in 1..Len(file)
      BY <1>0, <2>2, <3>2
    <3>6. Whole(s)
      BY <1>3, <3>2, <3>5 DEF Whole
    <3>7. UNCHANGED delivered
      BY <2>7 DEF SendError, wireVars
    <3>8. ASSUME NEW x, Holds(file, x) PROVE Holds(work', x) \/ x \in ToSet(delivered')
      <4>1. PICK i \in 1..Len(file) : file[i].msgs[1] = x
        BY <3>8 DEF Holds
      <4>2. CASE i < next
        BY <2>1, <3>7, <4>1, <4>2 DEF KeptInv
      <4>3. CASE i >= next
        <5>1. i - next + 1 \in 1..Len(s) /\ (i - next + 1) + next - 1 = i
          BY <1>0, <2>2, <3>2, <4>3
        <5>2. s[i - next + 1] = file[i]
          BY <3>2, <5>1
        <5> QED BY <3>4, <4>1, <5>1, <5>2 DEF Holds
      <4> QED BY <1>0, <4>2, <4>3
    <3>9. \A i \in 1..Len(accepted') : Accounted(accepted[i])'
      BY <1>1, <1>2, <2>1, <3>7, <3>8, WholeEmpty, KeepsAccount
    <3>10. pc'[Drainer] # "scan"
      BY <1>0, <2>7 DEF Goto
    <3> QED BY <2>7, <3>4, <3>6, <3>9, <3>10, WholeEmpty DEF KeptInv
  <2> QED BY <2>4, <2>6, <2>7
<1>6. CASE DrainRemove \/ DrainRewrite
  <2>1. pc'[Drainer] # "scan" /\ UNCHANGED delivered
    BY <1>0, <1>6 DEF DrainRemove, DrainRewrite, Goto, wireVars
  <2>2. CASE DrainRemove
    <3>1. pc[Drainer] = "scan" /\ next > Len(file) /\ UNCHANGED work /\ (file' = <<>> \/ UNCHANGED file)
      BY <1>4, <2>2 DEF DrainRemove
    <3>2. \A x : Holds(file, x) => x \in ToSet(delivered)
      BY <1>0, <3>1 DEF KeptInv, Holds
    <3>3. \A i \in 1..Len(accepted') : Accounted(accepted[i])'
      BY <1>1, <2>1, <3>1, <3>2, KeepsAccount
    <3> QED BY <1>3, <2>1, <3>1, <3>3, WholeEmpty DEF KeptInv
  <2>3. CASE DrainRewrite
    <3>1. pc[Drainer] = "rewrite" /\ file' = work /\ work' = <<>>
      BY <2>3 DEF DrainRewrite, WritesFinish
    <3>2. file = <<>>
      BY <1>0, <3>1 DEF LockInv
    <3>3. \A i \in 1..Len(accepted') : Accounted(accepted[i])'
      BY <1>1, <2>1, <3>1, <3>2, WholeEmpty, KeepsAccount
    <3> QED BY <1>3, <2>1, <3>1, <3>3, WholeEmpty DEF KeptInv
  <2> QED BY <1>6, <2>2, <2>3
<1> QED BY <1>5, <1>6

LEMMA KeptCrash ==
  ASSUME WritesFinish, LockInv, KeptInv, Crash
  PROVE  KeptInv'
<1>1. /\ file' = file /\ work' = <<>> /\ ~Rewriting /\ pc' = [g \in Goroutines |-> "idle"]
      /\ UNCHANGED <<accepted, discarded, delivered>>
  BY DEF Crash, WritesFinish
<1>2. work = <<>>
  BY <1>1, NoWork DEF Rewriting
<1>3. pc'[Drainer] # "scan"
  BY <1>1 DEF Goroutines
<1>4. \A i \in 1..Len(accepted') : Accounted(accepted[i])'
  BY <1>1, <1>2, KeepsAccount
<1> QED BY <1>1, <1>3, <1>4, WholeEmpty DEF KeptInv

\* Every line cut off has its newline, and is counted.
LEMMA HoleStep ==
  ASSUME LockInv, CeilInv, KeptInv, HoleInv, [Next]_vars
  PROVE  HoleInv'
<1>0. dropped \in Nat
  BY DEF LockInv, TypeOK
<1>1. ASSUME NEW p \in Publishers, dropOldestLocked(p) PROVE HoleInv'
  <2> DEFINE target == MaxBytes - SizeOf[msg[p]]
             cut == FirstKept(file, target)
             gone == SubSeq(file, 1, cut)
             lost == ReadableMsgs(gone)
  <2>1. /\ pc[p] = "add" /\ SizeOf[msg[p]] <= MaxBytes
        /\ dropped' = dropped + CutRecords(cut) /\ hole' = hole \cup lost
    BY <1>1 DEF dropOldestLocked
  <2>2. file \in Seq(Line) /\ msg[p] \in Msgs /\ Whole(file)
    BY <2>1 DEF LockInv, TypeOK, KeptInv
  <2>3. target \in Nat
    BY <2>1, <2>2, SpoolConstants
  <2> HIDE DEF target
  <2>4. cut \in 0..Len(file)
    BY <2>2, <2>3, FirstKeptFits
  <2> HIDE DEF cut
  <2>4a. cut \in Nat /\ \A i \in 1..cut : i \in 1..Len(file)
    BY <2>2, <2>4
  <2>5. gone \in Seq(Line) /\ Len(gone) = cut
    BY <2>2, <2>4, Beginning
  <2>6. {i \in 1..cut : file[i].ended} = 1..cut
    BY <2>2, <2>4a, WholeLine
  <2>7. IsFiniteSet(1..cut) /\ Cardinality(1..cut) = cut
    BY <2>4a, FS_Interval
  <2>8. CutRecords(cut) = cut
    BY <2>6, <2>7 DEF CutRecords
  <2> HIDE DEF gone
  <2>9. IsFiniteSet(lost) /\ Cardinality(lost) <= cut
    <3> DEFINE D == {j \in DOMAIN gone : Readable(gone[j])}
               f == [i \in D |-> gone[i].msgs[1]]
    <3>1. D \subseteq 1..cut
      BY <2>5
    <3>2. lost = {gone[i].msgs[1] : i \in D}
      BY DEF ReadableMsgs
    <3> HIDE DEF D, lost
    <3>3. IsFiniteSet(D) /\ Cardinality(D) <= cut
      BY <2>7, <3>1, FS_Subset
    <3>4. f \in Surjection(D, lost)
      BY <3>2 DEF Surjection
    <3>5. IsFiniteSet(lost) /\ Cardinality(lost) <= Cardinality(D)
      BY <3>3, <3>4, FS_Surjection
    <3>6. Cardinality(D) \in Nat /\ Cardinality(lost) \in Nat
      BY <3>3, <3>5, FS_CardinalityType
    <3> QED BY <2>4a, <3>3, <3>5, <3>6
  <2> HIDE DEF lost
  <2>10. IsFiniteSet(hole \cup lost) /\ Cardinality(hole \cup lost) <= Cardinality(hole) + Cardinality(lost)
    <3>1. IsFiniteSet(hole)
      BY DEF HoleInv
    <3>2. /\ IsFiniteSet(hole \cup lost) /\ IsFiniteSet(hole \cap lost)
          /\ Cardinality(hole \cup lost) = Cardinality(hole) + Cardinality(lost) - Cardinality(hole \cap lost)
      BY <2>9, <3>1, FS_Union, FS_Intersection
    <3>3. Cardinality(hole \cap lost) \in Nat /\ Cardinality(hole) \in Nat /\ Cardinality(lost) \in Nat
      BY <2>9, <3>1, <3>2, FS_CardinalityType
    <3> QED BY <3>2, <3>3
  <2>11. Cardinality(hole) \in Nat /\ Cardinality(lost) \in Nat /\ Cardinality(hole \cup lost) \in Nat
    BY <2>9, <2>10, FS_CardinalityType DEF HoleInv
  <2>12. Cardinality(hole) <= dropped
    BY DEF HoleInv
  <2>13. Cardinality(hole \cup lost) <= dropped + cut
    BY <1>0, <2>4a, <2>9, <2>10, <2>11, <2>12
  <2> QED BY <2>1, <2>8, <2>10, <2>13 DEF HoleInv
<1>2. CASE Crash
  <2>1. hole' = {} /\ dropped' = 0
    BY <1>2 DEF Crash
  <2> QED BY <2>1, FS_EmptySet DEF HoleInv
<1>3. ASSUME NEW p \in Publishers, AddTooLarge(p) PROVE HoleInv'
  <2>1. hole' = hole /\ dropped' = dropped + 1
    BY <1>3 DEF AddTooLarge, msgVars
  <2>2. Cardinality(hole) \in Nat
    BY FS_CardinalityType DEF HoleInv
  <2> QED BY <1>0, <2>1, <2>2 DEF HoleInv
<1>4. CASE UNCHANGED <<hole, dropped>>
  BY <1>4 DEF HoleInv
<1>5. \/ Crash \/ UNCHANGED <<hole, dropped>>
      \/ \E p \in Publishers : dropOldestLocked(p) \/ AddTooLarge(p)
  BY NextCases DEF Quiet, PublishWithQoS, SendLate, onConnect, onConnectionLost, DrainTry, DrainOpen, NewSpool, vars,
       WriteTrimmed, AddAppend, DrainLine, DrainRemove, DrainRewrite, fileVars, msgVars
<1> QED BY <1>1, <1>2, <1>3, <1>4, <1>5

LEMMA KeptHolds ==
  ASSUME WritesFinish
  PROVE  Spec => [](LockInv /\ KeptInv /\ HoleInv)
<1>1. Init => KeptInv /\ HoleInv
  <2> SUFFICES ASSUME Init PROVE KeptInv /\ HoleInv
    OBVIOUS
  <2>1. file = <<>> /\ work = <<>> /\ accepted = <<>> /\ hole = {} /\ dropped = 0 /\ pc[Drainer] = "idle"
    BY DEF Init, Goroutines
  <2> QED BY <2>1, WholeEmpty, FS_EmptySet DEF KeptInv, HoleInv
<1>2. LockInv /\ CeilInv /\ KeptInv /\ [Next]_vars => KeptInv'
  BY NextCases, KeptQuiet, KeptAdd, KeptDrain, KeptCrash
<1>3. LockInv /\ CeilInv /\ KeptInv /\ HoleInv /\ [Next]_vars => HoleInv'
  BY HoleStep
<1> QED BY <1>1, <1>2, <1>3, SpoolHolds, PTL DEF Spec, SpoolInv

\* NoSilentLoss: as long as no write ends early, a message Add took is on disk, readable, or
\* the broker has it, or dropOldestLocked cut it off - through reconnections, timeouts, files
\* that cannot be removed and crashes between two writes.
THEOREM NoLossHolds ==
  ASSUME WritesFinish
  PROVE  Spec => []NoSilentLoss
<1>1. LockInv /\ KeptInv => NoSilentLoss
  <2> SUFFICES ASSUME LockInv, KeptInv, NEW m \in ToSet(accepted)
               PROVE  m \in OnDisk \/ m \in ToSet(delivered) \/ m \in discarded
    BY DEF NoSilentLoss
  <2>0. file \in Seq(Line) /\ work \in Seq(Line) /\ accepted \in Seq(Msgs) /\ Whole(file) /\ Whole(work)
    BY DEF LockInv, TypeOK, KeptInv
  <2>1. Accounted(m)
    <3>1. PICK i \in DOMAIN accepted : accepted[i] = m
      BY DEF ToSet
    <3>2. i \in 1..Len(accepted)
      BY <2>0
    <3> QED BY <3>1, <3>2 DEF KeptInv
  <2>2. ASSUME NEW lines \in Seq(Line), Whole(lines), Holds(lines, m) PROVE m \in ReadableMsgs(lines)
    <3>1. PICK i \in 1..Len(lines) : lines[i].msgs[1] = m
      BY <2>2 DEF Holds
    <3>2. Readable(lines[i]) /\ i \in DOMAIN lines
      BY <2>2, WholeLine
    <3> QED BY <3>1, <3>2 DEF ReadableMsgs
  <2> QED BY <2>0, <2>1, <2>2 DEF Accounted, OnDisk
<1> QED BY <1>1, KeptHolds, PTL

\* HoleIsDeclared: then dropped counts at least every message that this run of the process
\* has cut off.
THEOREM HoleHolds ==
  ASSUME WritesFinish
  PROVE  Spec => []HoleIsDeclared
<1>1. HoleInv => HoleIsDeclared
  BY DEF HoleInv, HoleIsDeclared
<1> QED BY <1>1, KeptHolds, PTL

--------------------------------------------------------------------------------
(* The spool is the queue of Outbox. *)

\* The lines of a whole file are its messages, and as long.
RoomSums(q, n, f) == f = [k \in 0..n |-> IF k = 0 THEN 0 ELSE f[k - 1] + SizeOf[q[k]]]

LEMMA RoomSum ==
  ASSUME NEW q \in Seq(Msgs), NEW f, RoomSums(q, Len(q), f)
  PROVE  Box!Room(q) = f[Len(q)]
<1> DEFINE n == Len(q)
           g == CHOOSE g : RoomSums(q, n, g)
<1>0. n \in Nat
  OBVIOUS
<1>1. RoomSums(q, n, g)
  OBVIOUS
<1>2. Box!Room(q) = g[n]
  BY DEF Box!Room, RoomSums
<1> HIDE DEF g, n
<1> DEFINE T == {k \in Nat : f[k] = g[k]}
<1>3. RoomSums(q, n, f)
  BY DEF n
<1>4. 0 \in T
  BY <1>0, <1>1, <1>3 DEF RoomSums
<1>5. \A k \in 0..(n - 1) : k \in T => k + 1 \in T
  <2> SUFFICES ASSUME NEW k \in 0..(n - 1), k \in T PROVE k + 1 \in T
    OBVIOUS
  <2>1. f[k + 1] = f[k] + SizeOf[q[k + 1]]
    BY <1>0, <1>3 DEF RoomSums
  <2>2. g[k + 1] = g[k] + SizeOf[q[k + 1]]
    BY <1>0, <1>1 DEF RoomSums
  <2> QED BY <2>1, <2>2
<1> HIDE DEF T
<1>6. n \in T
  <2>1. \A k \in 0..n : k \in T
    BY <1>0, <1>4, <1>5, NumberInduction
  <2> QED BY <1>0, <2>1
<1> QED BY <1>2, <1>6 DEF T, n

LEMMA WholeMsgs ==
  ASSUME NEW lines \in Seq(Line), Whole(lines)
  PROVE  /\ MsgsOf(lines) \in Seq(Msgs) /\ Len(MsgsOf(lines)) = Len(lines)
         /\ \A i \in 1..Len(lines) : MsgsOf(lines)[i] = lines[i].msgs[1] /\ lines[i] = Record(MsgsOf(lines)[i])
<1> DEFINE n == Len(lines)
           q == MsgsOf(lines)
<1>1. n \in Nat /\ q = [i \in 1..n |-> lines[i].msgs[1]]
  BY DEF MsgsOf
<1>2. \A i \in 1..n : lines[i].msgs[1] \in Msgs
  BY WholeLine
<1>3. \A i \in 1..n : lines[i] = Record(lines[i].msgs[1])
  <2> SUFFICES ASSUME NEW i \in 1..n PROVE lines[i] = Record(lines[i].msgs[1])
    OBVIOUS
  <2>1. PICK m \in Msgs : lines[i] = Record(m)
    BY DEF Whole
  <2>2. lines[i].msgs = <<m>>
    BY <2>1 DEF Record
  <2>3. lines[i].msgs[1] = m
    BY <2>2
  <2> QED BY <2>1, <2>3
<1> HIDE DEF n, q
<1>4. q \in Seq(Msgs) /\ Len(q) = n /\ \A i \in 1..n : q[i] = lines[i].msgs[1]
  <2>1. q \in [1..n -> Msgs]
    BY <1>1, <1>2
  <2> QED BY <1>1, <2>1
<1> QED BY <1>3, <1>4 DEF n, q

LEMMA WholeRoom ==
  ASSUME NEW lines \in Seq(Line), Whole(lines)
  PROVE  Box!Room(MsgsOf(lines)) = Bytes(lines)
<1> DEFINE q == MsgsOf(lines)
           n == Len(lines)
<1>1. q \in Seq(Msgs) /\ Len(q) = n /\ \A i \in 1..n : lines[i] = Record(q[i])
  BY WholeMsgs
<1>2. PICK f : Partial(lines, n, f) /\ Bytes(lines) = f[n]
  BY BytesPartial
<1> HIDE DEF q, n
<1>3. \A k \in 1..n : lines[k].bytes = SizeOf[q[k]]
  <2>1. \A m : Record(m).bytes = SizeOf[m]
    BY DEF Record
  <2> QED BY <1>1, <2>1
<1>4. RoomSums(q, n, f)
  <2>1. n \in Nat /\ \A k \in 0..n : k # 0 => k \in 1..n
    BY DEF n
  <2>2. f = [k \in 0..n |-> IF k = 0 THEN 0 ELSE f[k - 1] + lines[k].bytes]
    BY <1>2 DEF Partial
  <2>3. \A k \in 0..n : (IF k = 0 THEN 0 ELSE f[k - 1] + lines[k].bytes) = IF k = 0 THEN 0 ELSE f[k - 1] + SizeOf[q[k]]
    BY <1>3, <2>1
  <2> QED BY <2>2, <2>3 DEF RoomSums
<1>5. Box!Room(q) = f[n]
  BY <1>1, <1>4, RoomSum
<1> QED BY <1>2, <1>5 DEF q

\* The rest of a whole file is the rest of its messages.
LEMMA WholeRest ==
  ASSUME NEW lines \in Seq(Line), Whole(lines), NEW k \in 0..Len(lines)
  PROVE  LET rest == SubSeq(lines, k + 1, Len(lines))
         IN  rest \in Seq(Line) /\ Whole(rest) /\ MsgsOf(rest) = SubSeq(MsgsOf(lines), k + 1, Len(lines))
<1> DEFINE rest == SubSeq(lines, k + 1, Len(lines))
           n == Len(lines)
           q == MsgsOf(lines)
<1>1. rest \in Seq(Line) /\ Len(rest) = n - k /\ \A i \in 1..Len(rest) : rest[i] = lines[k + i]
  BY Ending
<1>2. n \in Nat /\ q \in Seq(Msgs) /\ Len(q) = n /\ \A i \in 1..n : q[i] = lines[i].msgs[1]
  BY WholeMsgs
<1> HIDE DEF rest, n, q
<1>3. k \in 0..n /\ \A i \in 1..(n - k) : k + i \in 1..n
  BY <1>2 DEF n
<1>4. Whole(rest)
  BY <1>1, <1>3 DEF Whole, n
<1>5. /\ MsgsOf(rest) \in Seq(Msgs) /\ Len(MsgsOf(rest)) = n - k
      /\ \A i \in 1..(n - k) : MsgsOf(rest)[i] = lines[k + i].msgs[1]
  BY <1>1, <1>4, WholeMsgs
<1>6. /\ SubSeq(q, k + 1, n) \in Seq(Msgs) /\ Len(SubSeq(q, k + 1, n)) = n - k
      /\ \A i \in 1..(n - k) : SubSeq(q, k + 1, n)[i] = q[k + i]
  BY <1>2, <1>3
<1>7. MsgsOf(rest) = SubSeq(q, k + 1, n)
  <2>1. \A i \in 1..(n - k) : MsgsOf(rest)[i] = SubSeq(q, k + 1, n)[i]
    BY <1>2, <1>3, <1>5, <1>6
  <2> QED BY <1>5, <1>6, <2>1, SeqEqual
<1> QED BY <1>1, <1>4, <1>7 DEF rest, n, q

LEMMA WholeMore ==
  ASSUME NEW lines \in Seq(Line), Whole(lines), NEW m \in Msgs
  PROVE  MsgsOf(Append(lines, Record(m))) = Append(MsgsOf(lines), m)
<1> DEFINE n == Len(lines)
           q == MsgsOf(lines)
           more == Append(lines, Record(m))
<1>1. n \in Nat /\ q \in Seq(Msgs) /\ Len(q) = n /\ \A i \in 1..n : q[i] = lines[i].msgs[1]
  BY WholeMsgs
<1>2. Record(m) \in Line /\ Record(m).msgs[1] = m
  BY SpoolConstants DEF Record, Line
<1>3. more \in Seq(Line) /\ Len(more) = n + 1 /\ more[n + 1] = Record(m) /\ \A i \in 1..n : more[i] = lines[i]
  BY <1>2
<1> HIDE DEF n, q, more
<1>4. Append(q, m) \in Seq(Msgs) /\ Len(Append(q, m)) = n + 1 /\ Append(q, m)[n + 1] = m
      /\ \A i \in 1..n : Append(q, m)[i] = q[i]
  BY <1>1
<1>5. Whole(more)
  <2>1. \A i \in 1..(n + 1) : i = n + 1 \/ i \in 1..n
    BY <1>1
  <2>2. \A i \in 1..n : \E x \in Msgs : lines[i] = Record(x)
    BY DEF Whole, n
  <2> QED BY <1>3, <2>1, <2>2 DEF Whole
<1>6. /\ MsgsOf(more) \in Seq(Msgs) /\ Len(MsgsOf(more)) = n + 1
      /\ \A i \in 1..(n + 1) : MsgsOf(more)[i] = more[i].msgs[1]
  BY <1>3, <1>5, WholeMsgs
<1>7. \A i \in 1..(n + 1) : MsgsOf(more)[i] = Append(q, m)[i]
  <2>1. \A i \in 1..(n + 1) : i = n + 1 \/ i \in 1..n
    BY <1>1
  <2> QED BY <1>1, <1>2, <1>3, <1>4, <1>6, <2>1
<1>8. MsgsOf(more) = Append(q, m)
  BY <1>4, <1>6, <1>7, SeqEqual
<1> QED BY <1>8 DEF more, q

\* Where the lines are decides nothing.
LEMMA QueuedLines ==
  ASSUME NEW lines \in Seq(Line)
  PROVE  lines \o <<>> = lines /\ <<>> \o lines = lines
OBVIOUS

\* The messages that publishers hold come and go with them.
LEMMA HeldMore ==
  ASSUME LockInv, NEW p \in Publishers, pc[p] = "idle", NEW m \in Msgs,
         Goto(p, "add"), msg' = [msg EXCEPT ![p] = m]
  PROVE  Held' = Held \cup {m}
<1>1. \A q \in Publishers : q \in DOMAIN pc /\ q \in DOMAIN msg
  BY DEF LockInv, TypeOK, Goroutines
<1>2. /\ \A q \in Publishers : q # p => pc'[q] = pc[q] /\ msg'[q] = msg[q]
      /\ pc'[p] # "idle" /\ msg'[p] = m
  BY <1>1 DEF Goto
<1> QED BY <1>2 DEF Held

LEMMA HeldLess ==
  ASSUME LockInv, OrderInv, NEW p \in Publishers, pc[p] # "idle",
         Goto(p, "idle"), msg' = [msg EXCEPT ![p] = Nobody]
  PROVE  msg[p] \in Held /\ msg[p] \in Msgs /\ Held' = Held \ {msg[p]}
<1>1. \A q \in Publishers : q \in DOMAIN pc /\ q \in DOMAIN msg
  BY DEF LockInv, TypeOK, Goroutines
<1>2. /\ \A q \in Publishers : q # p => pc'[q] = pc[q] /\ msg'[q] = msg[q]
      /\ pc'[p] = "idle"
  BY <1>1 DEF Goto
<1>3. \A q \in Publishers : q # p /\ pc[q] # "idle" => msg[q] # msg[p]
  BY DEF OrderInv
<1>4. msg[p] \in Held /\ msg[p] \in Msgs
  BY DEF Held, LockInv
<1> QED BY <1>2, <1>3, <1>4 DEF Held

LEMMA HeldSame ==
  ASSUME UNCHANGED msg, \A q \in Publishers : pc'[q] = "idle" <=> pc[q] = "idle"
  PROVE  Held' = Held
BY DEF Held

\* The steps that touch neither the file nor the lines about to be written: Outbox sees
\* a publish and a message refused or sent late, and nothing of the connection.
LEMMA BoxQuiet ==
  ASSUME LockInv, OrderInv, Quiet
  PROVE  Box!Next \/ UNCHANGED Box!vars
<1>0. /\ Drainer \in Goroutines /\ Drainer \notin Publishers /\ MaxBytes \in Nat
      /\ pc \in [Goroutines -> {"idle", "add", "trim", "append", "stats", "scan", "rewrite"}]
  BY SpoolConstants DEF Goroutines, LockInv, TypeOK
<1>1. UNCHANGED Queued
  <2>1. UNCHANGED <<file, work>>
    BY DEF Quiet, PublishWithQoS, AddTooLarge, SendLate, onConnect, onConnectionLost, DrainTry, DrainOpen, NewSpool, vars,
           fileVars, lockVars
  <2> QED BY <2>1 DEF Queued
<1>2. ASSUME NEW p \in Publishers, NEW m \in Msgs, PublishWithQoS(p, m) PROVE Box!Next
  <2>1. /\ m \in fresh /\ fresh' = fresh \ {m} /\ pc[p] = "idle"
        /\ UNCHANGED <<dropped, next>>
    BY <1>2 DEF PublishWithQoS, fileVars, lockVars
  <2>2. CASE Sent(m) /\ UNCHANGED <<pc, msg>>
    <3>1. UNCHANGED <<Held, Resent>>
      BY <2>1, <2>2 DEF Held, Resent
    <3>2. Box!Publish(m)
      BY <1>1, <2>1, <2>2, <3>1 DEF Sent, Box!Publish
    <3> QED BY <3>2 DEF Box!Next
  <2>3. CASE SendError(m) /\ Goto(p, "add") /\ msg' = [msg EXCEPT ![p] = m]
    <3>1. Held' = Held \cup {m}
      BY <2>1, <2>3, HeldMore
    <3>2. UNCHANGED Resent
      BY <1>0, <2>1, <2>3 DEF Resent, Goto
    <3>3. inflight' \in {inflight, inflight \cup {m}} /\ UNCHANGED delivered
      BY <2>3 DEF SendError, wireVars
    <3>4. Box!Publish(m)
      BY <1>1, <2>1, <3>1, <3>2, <3>3 DEF Box!Publish
    <3> QED BY <3>4 DEF Box!Next
  <2> QED BY <1>2, <2>2, <2>3 DEF PublishWithQoS
<1>3. ASSUME NEW p \in Publishers, AddTooLarge(p) PROVE Box!Next
  <2> DEFINE m == msg[p]
  <2>1. /\ pc[p] = "add" /\ SizeOf[m] > MaxBytes /\ dropped' = dropped + 1
        /\ Goto(p, "idle") /\ msg' = [msg EXCEPT ![p] = Nobody]
        /\ UNCHANGED <<next, fresh, delivered, inflight>>
    BY <1>3 DEF AddTooLarge, lockVars, msgVars, wireVars
  <2>2. m \in Held /\ m \in Msgs /\ Held' = Held \ {m}
    BY <2>1, HeldLess
  <2>3. UNCHANGED Resent
    BY <1>0, <2>1 DEF Resent, Goto
  <2> HIDE DEF m
  <2>4. ~Box!Fits(<<>>, m)
    <3>1. <<>> \in Seq(Line) /\ MsgsOf(<<>>) = <<>>
      BY DEF MsgsOf
    <3>2. Box!Room(<<>>) = 0
      BY <3>1, WholeEmpty, WholeRoom, BytesEmpty
    <3>3. SizeOf[m] \in Nat
      BY <2>2, SpoolConstants
    <3> QED BY <1>0, <2>1, <3>2, <3>3 DEF Box!Fits
  <2>5. Box!Refuse(m)
    BY <1>1, <2>1, <2>2, <2>3, <2>4 DEF Box!Refuse
  <2> QED BY <2>2, <2>5 DEF Box!Next
<1>4. ASSUME NEW m \in Msgs, SendLate(m) PROVE Box!Next
  <2>1. UNCHANGED <<Held, Resent>>
    BY <1>4 DEF SendLate, Held, Resent, lockVars
  <2>2. Box!SendLate(m)
    BY <1>1, <1>4, <2>1 DEF SendLate, Box!SendLate, msgVars, fileVars
  <2> QED BY <2>2 DEF Box!Next
<1>5. CASE onConnect \/ onConnectionLost \/ NewSpool \/ UNCHANGED vars
  <2>1. UNCHANGED <<fresh, delivered, inflight, dropped, pc, msg, next>>
    BY <1>5 DEF onConnect, onConnectionLost, NewSpool, vars, fileVars, lockVars, msgVars, wireVars
  <2> QED BY <1>1, <2>1 DEF Held, Resent, Box!vars
<1>6. CASE DrainTry \/ DrainOpen
  <2>1. UNCHANGED <<fresh, delivered, inflight, dropped, msg>>
    BY <1>6 DEF DrainTry, DrainOpen, fileVars, msgVars, wireVars
  <2>2. \A q \in Publishers : pc'[q] = pc[q]
    BY <1>0, <1>6 DEF DrainTry, DrainOpen, Goto, Goroutines
  <2>3. UNCHANGED Held
    BY <2>1, <2>2, HeldSame
  <2>4. UNCHANGED Resent
    <3>1. CASE DrainTry
      BY <1>0, <3>1 DEF DrainTry, Goto, Resent, lockVars
    <3>2. CASE DrainOpen
      BY <1>0, <3>2 DEF DrainOpen, Goto, Resent
    <3> QED BY <1>6, <3>1, <3>2
  <2> QED BY <1>1, <2>1, <2>3, <2>4 DEF Box!vars
<1> QED BY <1>2, <1>3, <1>4, <1>5, <1>6 DEF Quiet

\* Spool.Add: a message joins the queue, after the oldest have gone for it.
LEMMA BoxAdd ==
  ASSUME WritesFinish, LockInv, CeilInv, KeptInv, OrderInv, NEW p \in Publishers,
         dropOldestLocked(p) \/ WriteTrimmed(p) \/ AddAppend(p)
  PROVE  Box!Next \/ UNCHANGED Box!vars
<1>0. /\ p \in Goroutines /\ Drainer \in Goroutines /\ p # Drainer
      /\ file \in Seq(Line) /\ work \in Seq(Line) /\ Whole(file) /\ Whole(work)
      /\ pc \in [Goroutines -> {"idle", "add", "trim", "append", "stats", "scan", "rewrite"}]
      /\ pc[p] # "idle" /\ msg[p] \in Msgs /\ MaxBytes \in Nat /\ SizeOf[msg[p]] \in Nat
      /\ (pc[p] = "add" => mu = Nobody) /\ dropped \in Nat
  BY SpoolConstants
     DEF LockInv, TypeOK, KeptInv, Goroutines, dropOldestLocked, WriteTrimmed, AddAppend, Appending
<1>1. \A h \in Goroutines : h # p => pc[h] \notin Inside
  <2>1. mu = p \/ mu = Nobody
    <3>1. pc[p] = "add" \/ pc[p] \in Inside
      BY <1>0 DEF LockInv, Inside
    <3> QED BY <1>0, <3>1 DEF LockInv
  <2> QED BY <1>0, <2>1, AloneInside
<1>2. Resent = 0 /\ Resent' = 0 /\ UNCHANGED <<fresh, delivered, inflight>>
  <2>1. UNCHANGED <<fresh, delivered, inflight>> /\ \E place : pc' = [pc EXCEPT ![p] = place]
    BY DEF dropOldestLocked, WriteTrimmed, AddAppend, Goto, wireVars, msgVars
  <2>2. pc'[Drainer] = pc[Drainer] /\ pc[Drainer] # "scan"
    BY <1>0, <1>1, <2>1 DEF Inside
  <2> QED BY <2>1, <2>2 DEF Resent
<1>3. CASE dropOldestLocked(p)
  <2> DEFINE m == msg[p]
             target == MaxBytes - SizeOf[m]
             cut == FirstKept(file, target)
             n == Len(file)
  <2>1. /\ SizeOf[m] <= MaxBytes /\ file' = <<>> /\ work' = SubSeq(file, cut + 1, n) /\ pc[p] = "add"
        /\ dropped' = dropped + CutRecords(cut) /\ Goto(p, "trim") /\ UNCHANGED msg
    BY <1>3 DEF dropOldestLocked, KeptLines
  <2>2. target \in Nat /\ m \in Msgs /\ SizeOf[m] \in Nat
    BY <1>0, <2>1
  <2>3. n \in Nat /\ work = <<>>
    <3>1. \A h \in Goroutines : pc[h] \notin {"trim", "rewrite"}
      BY <1>1, <2>1 DEF Inside
    <3> QED BY <1>0, <3>1, NoWork
  <2>4. cut \in 0..n /\ Bytes(SubSeq(file, cut + 1, n)) <= target
        /\ \A j \in 0..(cut - 1) : Bytes(SubSeq(file, j + 1, n)) > target
    <3> HIDE DEF target
    <3> QED BY <1>0, <2>2, FirstKeptForm
  <2> HIDE DEF cut
  <2>5. CutRecords(cut) = cut
    <3>1. cut \in Nat /\ \A i \in 1..cut : i \in 1..n
      BY <2>3, <2>4
    <3>2. {i \in 1..cut : file[i].ended} = 1..cut
      BY <1>0, <3>1, WholeLine
    <3>3. Cardinality(1..cut) = cut
      BY <3>1, FS_Interval
    <3> QED BY <3>2, <3>3 DEF CutRecords
  <2>6. \A j \in 0..n : /\ Box!Behind(j) = SubSeq(MsgsOf(file), j + 1, n)
                        /\ Box!Behind(j) = MsgsOf(SubSeq(file, j + 1, n))
                        /\ Box!Room(Box!Behind(j)) = Bytes(SubSeq(file, j + 1, n))
                        /\ Bytes(SubSeq(file, j + 1, n)) \in Nat
    <3> SUFFICES ASSUME NEW j \in 0..n
                 PROVE  /\ Box!Behind(j) = SubSeq(MsgsOf(file), j + 1, n)
                        /\ Box!Behind(j) = MsgsOf(SubSeq(file, j + 1, n))
                        /\ Box!Room(Box!Behind(j)) = Bytes(SubSeq(file, j + 1, n))
                        /\ Bytes(SubSeq(file, j + 1, n)) \in Nat
      OBVIOUS
    <3>1. Queued = MsgsOf(file) /\ Len(MsgsOf(file)) = n
      BY <1>0, <2>3, QueuedLines, WholeMsgs DEF Queued
    <3>2. Box!Behind(j) = SubSeq(MsgsOf(file), j + 1, n)
      BY <3>1 DEF Box!Behind
    <3> DEFINE rest == SubSeq(file, j + 1, n)
    <3>3. rest \in Seq(Line) /\ Whole(rest) /\ MsgsOf(rest) = SubSeq(MsgsOf(file), j + 1, n)
      BY <1>0, WholeRest
    <3> HIDE DEF rest
    <3>4. Box!Room(MsgsOf(rest)) = Bytes(rest) /\ Bytes(rest) \in Nat
      BY <3>3, WholeRoom, BytesType
    <3> QED BY <3>2, <3>3, <3>4 DEF rest
  <2>7. Queued' = Box!Behind(cut)
    <3>1. MsgsOf(work') = Box!Behind(cut) /\ work' \in Seq(Line)
      BY <1>0, <2>1, <2>4, <2>6, Ending
    <3>2. Queued' = MsgsOf(work')
      BY <2>1, <3>1, QueuedLines DEF Queued
    <3> QED BY <3>1, <3>2
  <2>8. UNCHANGED Held
    <3>1. \A q \in Publishers : pc'[q] = "idle" <=> pc[q] = "idle"
      BY <1>0, <2>1 DEF Goto, Goroutines
    <3> QED BY <2>1, <3>1, HeldSame
  <2>9. m \in Held
    BY <2>1 DEF Held
  <2>10. /\ Box!Fits(Box!Behind(cut), m)
         /\ \A j \in 0..(cut - 1) : ~Box!Fits(Box!Behind(j), m)
    <3>1. \A j \in 0..(cut - 1) : j \in 0..n
      BY <2>3, <2>4
    <3>2. \A j \in 0..n : Box!Fits(Box!Behind(j), m) <=> Bytes(SubSeq(file, j + 1, n)) <= target
      <4> SUFFICES ASSUME NEW j \in 0..n
                   PROVE  Box!Fits(Box!Behind(j), m) <=> Bytes(SubSeq(file, j + 1, n)) <= target
        OBVIOUS
      <4> DEFINE b == Bytes(SubSeq(file, j + 1, n))
                 r == Box!Room(Box!Behind(j))
      <4>1. r = b /\ b \in Nat
        BY <2>6
      <4>2. Box!Fits(Box!Behind(j), m) <=> r + SizeOf[m] <= MaxBytes
        BY DEF Box!Fits
      <4> HIDE DEF b, r, m
      <4>3. r + SizeOf[m] <= MaxBytes <=> b <= target
        BY <1>0, <2>2, <4>1
      <4> QED BY <4>2, <4>3 DEF b
    <3>3. \A j \in 0..(cut - 1) : ~(Bytes(SubSeq(file, j + 1, n)) <= target)
      <4> SUFFICES ASSUME NEW j \in 0..(cut - 1) PROVE ~(Bytes(SubSeq(file, j + 1, n)) <= target)
        OBVIOUS
      <4> DEFINE b == Bytes(SubSeq(file, j + 1, n))
      <4>1. b > target /\ b \in Nat
        BY <2>4, <2>6, <3>1
      <4> HIDE DEF b, target
      <4>2. ~(b <= target)
        BY <2>2, <4>1
      <4> QED BY <4>2 DEF b
    <3>4. cut \in 0..n /\ Bytes(SubSeq(file, cut + 1, n)) <= target
      BY <2>4
    <3> HIDE DEF target, n, m
    <3> QED BY <3>1, <3>2, <3>3, <3>4
  <2>11. Len(Queued) = n /\ Queued = MsgsOf(file) /\ Queued \in Seq(Msgs)
    BY <1>0, <2>3, QueuedLines, WholeMsgs DEF Queued
  <2>12. CASE cut = 0
    <3>1. Box!Behind(0) = Queued
      <4>1. SubSeq(Queued, 1, Len(Queued)) = Queued
        BY <2>11
      <4> QED BY <4>1 DEF Box!Behind
    <3>2. dropped' = dropped
      BY <1>0, <2>1, <2>5, <2>12
    <3> QED BY <1>2, <2>7, <2>8, <2>12, <3>1, <3>2 DEF Box!vars
  <2>13. CASE cut # 0
    <3>1. cut \in 1..Len(Queued)
      BY <2>3, <2>4, <2>11, <2>13
    <3>2. dropped' = dropped + cut
      BY <2>1, <2>5
    <3> HIDE DEF m
    <3>3. Box!DropOldest(m, cut)
      BY <1>2, <2>7, <2>8, <2>9, <2>10, <3>1, <3>2 DEF Box!DropOldest
    <3> QED BY <2>2, <3>1, <3>3 DEF Box!Next
  <2> QED BY <2>12, <2>13
<1>4. CASE WriteTrimmed(p)
  <2>1. /\ pc[p] = "trim" /\ file' = work /\ work' = <<>> /\ Goto(p, "append") /\ UNCHANGED <<msg, dropped>>
    BY <1>4 DEF WriteTrimmed, WritesFinish
  <2>2. file = <<>>
    BY <1>0, <2>1 DEF LockInv
  <2>3. Queued' = Queued
    BY <1>0, <2>1, <2>2, QueuedLines DEF Queued
  <2>4. UNCHANGED Held
    <3>1. \A q \in Publishers : pc'[q] = "idle" <=> pc[q] = "idle"
      BY <1>0, <2>1 DEF Goto, Goroutines
    <3> QED BY <2>1, <3>1, HeldSame
  <2> QED BY <1>2, <2>1, <2>3, <2>4 DEF Box!vars
<1>5. CASE AddAppend(p)
  <2> DEFINE m == msg[p]
  <2>0. Appending(p)
    BY <1>5 DEF AddAppend
  <2>1. work = <<>> /\ size + SizeOf[m] <= MaxBytes /\ running
    BY <2>0, AppendFits, NoWork
  <2>2. /\ file' = Written(file, m, SizeOf[m]) /\ UNCHANGED <<work, dropped>>
        /\ Goto(p, "idle") /\ msg' = [msg EXCEPT ![p] = Nobody]
    BY <1>5 DEF AddAppend, WritesFinish
  <2>3. m \in Held /\ m \in Msgs /\ Held' = Held \ {m}
    BY <1>0, <2>2, HeldLess
  <2> HIDE DEF m
  <2>4. file' = Append(file, Record(m))
    <3>1. Closed(file) /\ Lines(file)
      BY <1>0, WholeClosed DEF CeilInv
    <3> QED BY <1>0, <2>2, <2>3, <3>1, WrittenWhole DEF Record
  <2>5. Queued = MsgsOf(file) /\ Queued' = Append(MsgsOf(file), m)
    <3>1. Record(m) \in Line
      BY <2>3, SpoolConstants DEF Record, Line
    <3>2. file' \in Seq(Line)
      BY <1>0, <2>4, <3>1
    <3>3. MsgsOf(file') = Append(MsgsOf(file), m)
      BY <1>0, <2>3, <2>4, WholeMore
    <3> QED BY <1>0, <2>1, <2>2, <3>2, <3>3, QueuedLines DEF Queued
  <2>6. Box!Fits(Queued, m)
    <3>1. Box!Room(Queued) = Bytes(file) /\ Bytes(file) \in Nat
      BY <1>0, <2>5, WholeRoom, BytesType
    <3>2. Bytes(file) <= size /\ size \in Nat /\ SizeOf[m] \in Nat
      BY <2>1, <2>3, SpoolConstants DEF CeilInv, LockInv, TypeOK
    <3>3. Bytes(file) + SizeOf[m] <= MaxBytes
      BY <1>0, <2>1, <3>1, <3>2
    <3> QED BY <3>1, <3>3 DEF Box!Fits
  <2>7. Box!Put(m)
    BY <1>2, <2>2, <2>3, <2>5, <2>6 DEF Box!Put
  <2> QED BY <2>3, <2>7 DEF Box!Next
<1> QED BY <1>3, <1>4, <1>5

\* Spool.Drain: the replay of the queue, from its front.
LEMMA BoxDrain ==
  ASSUME WritesFinish, LockInv, CeilInv, KeptInv, DrainLine \/ DrainRemove \/ DrainRewrite
  PROVE  Box!Next \/ UNCHANGED Box!vars
<1>0. /\ Drainer \in Goroutines /\ Drainer \notin Publishers /\ file \in Seq(Line) /\ work \in Seq(Line)
      /\ Lines(file) /\ Whole(file) /\ Whole(work)
      /\ next \in Nat /\ pc[Drainer] \in Inside /\ Len(file) \in Nat
      /\ pc \in [Goroutines -> {"idle", "add", "trim", "append", "stats", "scan", "rewrite"}]
  <2>1. Drainer \in Goroutines /\ Drainer \notin Publishers
    BY SpoolConstants DEF Goroutines
  <2>2. /\ file \in Seq(Line) /\ work \in Seq(Line) /\ next \in Nat
        /\ pc \in [Goroutines -> {"idle", "add", "trim", "append", "stats", "scan", "rewrite"}]
    BY DEF LockInv, TypeOK
  <2>3. Lines(file) /\ Whole(file) /\ Whole(work)
    BY DEF CeilInv, KeptInv
  <2>4. pc[Drainer] \in Inside
    BY DEF Inside, DrainLine, DrainRemove, DrainRewrite
  <2>5. Len(file) \in Nat
    BY <2>2
  <2> QED BY <2>1, <2>2, <2>3, <2>4, <2>5
<1>1. UNCHANGED <<fresh, dropped, msg>>
  BY DEF DrainLine, DrainRemove, DrainRewrite, msgVars
<1>2. UNCHANGED Held
  <2>1. pc' = pc \/ \E place : pc' = [pc EXCEPT ![Drainer] = place]
    BY DEF DrainLine, DrainRemove, DrainRewrite, Goto
  <2>2. \A q \in Publishers : pc'[q] = "idle" <=> pc[q] = "idle"
    BY <1>0, <2>1 DEF Goroutines
  <2> QED BY <1>1, <2>2, HeldSame
<1>3. CASE pc[Drainer] = "scan" /\ (DrainLine \/ DrainRemove)
  <2> DEFINE n == Len(file)
  <2>0. n \in Nat /\ ScanEnd = n
    <3>1. \A i \in 1..Len(file) : ~TooLong(file[i])
      BY <1>0, WholeLine
    <3> QED BY <1>0, <3>1, ScanEndForm
  <2>1. work = <<>>
    <3>1. mu = Drainer
      BY <1>0 DEF LockInv
    <3>2. \A h \in Goroutines : pc[h] \notin {"trim", "rewrite"}
      BY <1>0, <1>3, <3>1, AloneInside DEF Inside
    <3> QED BY <3>2, NoWork
  <2>2. /\ Queued = MsgsOf(file) /\ Queued \in Seq(Msgs) /\ Len(Queued) = n
        /\ \A i \in 1..n : Queued[i] = file[i].msgs[1]
    BY <1>0, <2>1, QueuedLines, WholeMsgs DEF Queued
  <2>3. Resent = next - 1 /\ next \in 1..(n + 1)
    BY <1>0, <1>3, <2>0 DEF Resent, LockInv, KeptInv
  <2>4. CASE DrainLine
    <3> DEFINE m == file[next].msgs[1]
    <3>1. next \in 1..n
      BY <2>0, <2>3, <2>4 DEF DrainLine
    <3>2. Readable(file[next]) /\ m \in Msgs
      BY <1>0, <3>1, WholeLine
    <3>3. \/ Sent(m) /\ next' = next + 1 /\ UNCHANGED <<file, work, pc>>
          \/ SendError(m) /\ work' = Ended(NotYetSent) /\ file' = <<>> /\ Goto(Drainer, "rewrite")
      BY <2>4, <3>2 DEF DrainLine
    <3>4. Queued[Resent + 1] = m /\ Resent < Len(Queued)
      BY <2>2, <2>3, <3>1
    <3> HIDE DEF m
    <3>5. CASE Sent(m) /\ next' = next + 1 /\ UNCHANGED <<file, work, pc>>
      <4>1. Resent' = Resent + 1
        BY <1>0, <1>3, <3>5 DEF Resent
      <4>2. UNCHANGED Queued
        BY <3>5 DEF Queued
      <4>3. Box!Resend
        BY <1>1, <1>2, <3>4, <3>5, <4>1, <4>2 DEF Box!Resend, Sent
      <4> QED BY <4>3 DEF Box!Next
    <3>6. CASE SendError(m) /\ work' = Ended(NotYetSent) /\ file' = <<>> /\ Goto(Drainer, "rewrite")
      <4>1. NotYetSent = SubSeq(file, Resent + 1, n) /\ Resent \in 0..n
        <5>1. Resent + 1 = next
          BY <2>3
        <5> QED BY <2>0, <2>3, <5>1 DEF NotYetSent
      <4> DEFINE rest == SubSeq(file, Resent + 1, n)
      <4>2. rest \in Seq(Line) /\ Whole(rest) /\ MsgsOf(rest) = SubSeq(MsgsOf(file), Resent + 1, n)
        BY <1>0, <4>1, WholeRest
      <4>3. Lines(rest)
        BY <1>0, <2>0, <2>3, <3>1, <4>1, NotYetSentForm
      <4>4. work' = rest
        <5> HIDE DEF rest
        <5>1. Closed(rest)
          BY <4>2, WholeClosed
        <5>2. NotYetSent = rest
          BY <4>1 DEF rest
        <5> QED BY <3>6, <4>2, <4>3, <5>1, <5>2, EndedForm
      <4> HIDE DEF rest
      <4>5. Queued' = MsgsOf(rest)
        BY <3>6, <4>2, <4>4, QueuedLines DEF Queued
      <4>6. Queued' = Box!Behind(Resent)
        BY <2>2, <4>2, <4>5 DEF Box!Behind
      <4>7. Resent' = 0
        BY <1>0, <3>6 DEF Resent, Goto
      <4>8. UNCHANGED delivered /\ inflight' \in {inflight, inflight \cup {m}}
        BY <3>6 DEF SendError, wireVars
      <4>9. Box!GiveUp
        BY <1>1, <1>2, <3>4, <4>6, <4>7, <4>8 DEF Box!GiveUp
      <4> QED BY <4>9 DEF Box!Next
    <3> QED BY <3>3, <3>5, <3>6
  <2>5. CASE DrainRemove
    <3>1. /\ next > n /\ Goto(Drainer, "idle") /\ UNCHANGED <<work, delivered, inflight>>
          /\ (file' = <<>> \/ UNCHANGED file)
      BY <2>0, <2>5 DEF DrainRemove, wireVars
    <3>2. Resent = Len(Queued)
      BY <2>0, <2>2, <2>3, <3>1
    <3>3. Resent' = 0
      BY <1>0, <3>1 DEF Resent, Goto
    <3>4. Queued' \in {<<>>, Queued}
      <4>1. CASE file' = <<>>
        <5>1. <<>> \in Seq(Line) /\ MsgsOf(<<>>) = <<>>
          BY DEF MsgsOf
        <5>2. Queued' = MsgsOf(<<>>)
          BY <2>1, <3>1, <4>1, <5>1, QueuedLines DEF Queued
        <5> QED BY <5>1, <5>2
      <4>2. CASE UNCHANGED file
        BY <3>1, <4>2 DEF Queued
      <4> QED BY <3>1, <4>1, <4>2
    <3>5. Box!Finish
      BY <1>1, <1>2, <3>1, <3>2, <3>3, <3>4 DEF Box!Finish
    <3> QED BY <3>5 DEF Box!Next
  <2> QED BY <1>3, <2>4, <2>5
<1>4. CASE DrainRewrite
  <2>1. /\ pc[Drainer] = "rewrite" /\ file' = work /\ work' = <<>> /\ Goto(Drainer, "idle")
        /\ UNCHANGED <<delivered, inflight>>
    BY <1>4 DEF DrainRewrite, WritesFinish, wireVars
  <2>2. file = <<>>
    BY <1>0, <2>1 DEF LockInv
  <2>3. Queued' = Queued
    BY <1>0, <2>1, <2>2, QueuedLines DEF Queued
  <2>4. UNCHANGED Resent
    BY <1>0, <2>1 DEF Resent, Goto
  <2> QED BY <1>1, <1>2, <2>1, <2>3, <2>4 DEF Box!vars
<1>5. (DrainLine \/ DrainRemove) => pc[Drainer] = "scan"
  BY DEF DrainLine, DrainRemove
<1> QED BY <1>3, <1>4, <1>5

\* The process dies between two writes.
LEMMA BoxCrash ==
  ASSUME WritesFinish, LockInv, Crash
  PROVE  Box!Next
<1>1. /\ file' = file /\ work' = <<>> /\ ~Rewriting /\ pc' = [g \in Goroutines |-> "idle"]
      /\ dropped' = 0 /\ inflight' = {} /\ UNCHANGED <<fresh, delivered>>
  BY DEF Crash, WritesFinish
<1>2. work = <<>>
  BY <1>1, NoWork DEF Rewriting
<1>3. Queued' = Queued
  BY <1>1, <1>2 DEF Queued
<1>4. Held' = {} /\ Resent' = 0
  BY <1>1 DEF Held, Resent, Goroutines
<1>5. Box!Restart
  BY <1>1, <1>3, <1>4 DEF Box!Restart
<1> QED BY <1>5 DEF Box!Next

LEMMA BoxStep ==
  ASSUME WritesFinish, LockInv, CeilInv, KeptInv, OrderInv, [Next]_vars
  PROVE  [Box!Next]_(Box!vars)
<1>1. Box!Next \/ UNCHANGED Box!vars
  BY NextCases, BoxQuiet, BoxAdd, BoxDrain, BoxCrash
<1> QED BY <1>1

LEMMA BoxInit == Init => Box!Init
<1> SUFFICES ASSUME Init PROVE Box!Init
  OBVIOUS
<1>1. Queued = <<>>
  <2>1. <<>> \in Seq(Line) /\ MsgsOf(<<>>) = <<>>
    BY DEF MsgsOf
  <2> QED BY <2>1, QueuedLines DEF Init, Queued
<1>2. Held = {} /\ Resent = 0
  BY DEF Init, Held, Resent, Goroutines
<1> QED BY <1>1, <1>2 DEF Init, Box!Init

\* ActsAsOutbox: while no write ends early, the file, the lock and the rewrites are a queue
\* that outlives the process: what publishers put in leaves it in order, to the broker or, oldest
\* first and counted, for want of room - with any number of publishers, through timeouts,
\* reconnections, files that cannot be removed and crashes between two writes.
THEOREM ImplementsOutbox ==
  ASSUME WritesFinish
  PROVE  Spec => ActsAsOutbox
<1>1. LockInv /\ CeilInv /\ KeptInv /\ OrderInv /\ [Next]_vars => [Box!Next]_(Box!vars)
  BY BoxStep
<1> QED BY <1>1, BoxInit, SpoolHolds, OrderKept, KeptHolds, PTL DEF Spec, SpoolInv, ActsAsOutbox, Box!Spec

================================================================================
