---------------------------- MODULE DriverProofs ----------------------------
(***************************************************************************)
(* What holds of a driver and of core-api's write path for every set of    *)
(* tags, layouts, writers and recipes, every deployment and every bound.   *)
(***************************************************************************)
EXTENDS Driver, FiniteSetTheorems, SequenceTheorems, WellFoundedInduction, TLAPS

-----------------------------------------------------------------------------
(* Numbers and definitions by recursion.  A recursive function is what its *)
(* equation says once some function satisfies it; that one does is shown   *)
(* by induction over a set of numbers.                                     *)

\* A set of numbers has a least one.
LEMMA LeastNumber ==
  ASSUME NEW T, T \subseteq Nat, T # {}
  PROVE  \E x \in T : \A y \in T : x <= y
<1> DEFINE R == {ss \in Nat \X Nat : ss[1] < ss[2]}
<1>1. IsWellFoundedOn(R, Nat)
  <2>1. OpToRel(<, Nat) = R
    BY DEF OpToRel
  <2> QED BY <2>1, NatLessThanWellFounded
<1>2. \A x, y \in Nat : y < x => <<y, x>> \in R
  OBVIOUS
<1> HIDE DEF R
<1>3. PICK x \in T : \A y \in T : ~ (<<y, x>> \in R)
  BY <1>1, WFMin
<1>4. \A y \in T : ~(y < x)
  BY <1>2, <1>3
<1>5. \A y \in T : y \in Nat /\ x \in Nat
  OBVIOUS
<1> QED BY <1>4, <1>5

\* A set that has 0, and k + 1 with every k below n, has every number up to n.
LEMMA NumberInduction ==
  ASSUME NEW T, NEW n \in Nat, 0 \in T, \A k \in 0..(n - 1) : k \in T => k + 1 \in T
  PROVE  \A k \in 0..n : k \in T
<1> DEFINE U == {k \in Nat : k <= n /\ k \notin T}
<1> SUFFICES ASSUME U # {} PROVE FALSE
  OBVIOUS
<1>1. U \subseteq Nat
  OBVIOUS
<1> HIDE DEF U
<1>2. PICK x \in U : \A y \in U : x <= y
  BY <1>1, LeastNumber
<1>3. x \in 0..n /\ x \notin T
  BY DEF U
<1>4. x - 1 \in 0..(n - 1)
  BY <1>3
<1>5. x - 1 \notin U
  BY <1>2, <1>3, <1>4
<1>6. x - 1 \in T
  BY <1>4, <1>5 DEF U
<1> QED BY <1>3, <1>4, <1>6

\* The blocks of the first k tags, k up to n, that BlocksOf is defined by.
Making(lay, s, n, f) ==
  f = [k \in 0..n |-> IF k = 0 THEN <<>> ELSE Extended(lay, f[k - 1], s[k])]

LEMMA MakingExists ==
  ASSUME NEW lay, NEW s, NEW n \in Nat
  PROVE  \E f : Making(lay, s, n, f)
<1> DEFINE T == {k \in Nat : \E f : Making(lay, s, k, f)}
<1>1. 0 \in T
  <2>1. Making(lay, s, 0, [k \in 0..0 |-> <<>>])
    BY DEF Making
  <2> QED BY <2>1
<1>2. ASSUME NEW k \in 0..(n - 1), k \in T PROVE k + 1 \in T
  <2>1. PICK f : Making(lay, s, k, f)
    BY <1>2
  <2> DEFINE g == [j \in 0..(k + 1) |-> IF j = k + 1 THEN Extended(lay, f[k], s[k + 1]) ELSE f[j]]
  <2>2. Making(lay, s, k + 1, g)
    BY <2>1 DEF Making
  <2> QED BY <2>2
<1> HIDE DEF T
<1>3. n \in T
  BY <1>1, <1>2, NumberInduction
<1> QED BY <1>3 DEF T

\* BlocksOf takes the tags in one after the other.
LEMMA BlocksMaking ==
  ASSUME NEW lay, NEW s, Len(s) \in Nat
  PROVE  \E f : /\ f[0] = <<>> /\ BlocksOf(lay, s) = f[Len(s)]
                /\ \A k \in 1..Len(s) : f[k] = Extended(lay, f[k - 1], s[k])
<1> DEFINE f == CHOOSE f : Making(lay, s, Len(s), f)
<1>1. Making(lay, s, Len(s), f)
  BY MakingExists
<1>2. BlocksOf(lay, s) = f[Len(s)]
  BY DEF BlocksOf, Making
<1> HIDE DEF f
<1>3. f[0] = <<>> /\ \A k \in 1..Len(s) : f[k] = Extended(lay, f[k - 1], s[k])
  BY <1>1 DEF Making
<1> QED BY <1>2, <1>3

-----------------------------------------------------------------------------
(* createBlocks.  No address of a layout reaches the last one, so that the   *)
(* differences of two of them are what they are without uint16.              *)

Blocks == [kind : Int, start : Nat, end : Nat, tags : Seq(Tags)]

\* What holds of the blocks when the first k tags of s are in them.
BlocksFit(lay, bs) ==
  \A i \in DOMAIN bs :
    /\ bs[i].tags # <<>>
    /\ bs[i].start <= bs[i].end /\ bs[i].end < AddrSpace /\ bs[i].end - bs[i].start <= MaxCount
    /\ \A t \in ToSet(bs[i].tags) :
         /\ t \in DOMAIN lay /\ lay[t].kind = bs[i].kind
         /\ bs[i].start <= lay[t].off /\ lay[t].off + lay[t].size <= bs[i].end

BlocksHold(s, k, bs) ==
  /\ \A i \in DOMAIN bs : \A t \in ToSet(bs[i].tags) : \E m \in 1..k : s[m] = t
  /\ \A m \in 1..k : \E i \in DOMAIN bs : s[m] \in ToSet(bs[i].tags)
  /\ \A i, j \in DOMAIN bs : \A t \in ToSet(bs[i].tags) : t \in ToSet(bs[j].tags) => i = j

\* A block begins where one of its kind begins.
BlocksBegin(lay, s, k, bs) ==
  \A i \in DOMAIN bs : \E m \in 1..k : bs[i].kind = lay[s[m]].kind /\ bs[i].start = lay[s[m]].off

BlocksMade(lay, s, k, bs) ==
  bs \in Seq(Blocks) /\ BlocksFit(lay, bs) /\ BlocksHold(s, k, bs) /\ BlocksBegin(lay, s, k, bs)

\* An order of a layout's tags.
OrderOf(lay, s) ==
  /\ s \in Seq(DOMAIN lay)
  /\ \A i, j \in DOMAIN s : s[i] = s[j] => i = j
  /\ \A t \in DOMAIN lay : \E i \in DOMAIN s : s[i] = t
  /\ \A i, j \in DOMAIN s : i < j => ~Before(lay, s[j], s[i])

\* Subtraction and remainder change nothing below the last address.
LEMMA SmallMod ==
  ASSUME NEW n \in Nat, NEW m \in Nat, n < m PROVE n % m = n
OBVIOUS

LEMMA SmallMinus ==
  ASSUME NEW a \in Nat, NEW b \in Nat, b <= a, a < AddrSpace
  PROVE  Minus(a, b) = a - b
<1>1. a - b \in Nat /\ AddrSpace \in Nat /\ a - b < AddrSpace
  BY DriverAssumption
<1> QED BY <1>1, SmallMod DEF Minus

\* The tags of a sequence with one more.
LEMMA ToSetAppend ==
  ASSUME NEW D, NEW q \in Seq(D), NEW e \in D
  PROVE  ToSet(Append(q, e)) = ToSet(q) \cup {e}
<1>1. Len(q) \in Nat /\ DOMAIN q = 1..Len(q)
  BY LenProperties
<1>2. DOMAIN Append(q, e) = 1..(Len(q) + 1) /\ Append(q, e)[Len(q) + 1] = e
  BY <1>1, AppendProperties, LenProperties
<1>3. \A i \in 1..Len(q) : Append(q, e)[i] = q[i] /\ i \in 1..(Len(q) + 1)
  BY <1>1, AppendProperties
<1>4. Len(q) + 1 \in 1..(Len(q) + 1)
  BY <1>1
<1>5. \A i \in 1..(Len(q) + 1) : i \in 1..Len(q) \/ i = Len(q) + 1
  BY <1>1
<1>6. ToSet(Append(q, e)) = {Append(q, e)[i] : i \in 1..(Len(q) + 1)} /\ ToSet(q) = {q[i] : i \in 1..Len(q)}
  BY <1>1, <1>2 DEF ToSet
<1> QED BY <1>2, <1>3, <1>4, <1>5, <1>6

LEMMA ToSetOne ==
  ASSUME NEW e PROVE ToSet(<<e>>) = {e}
BY DEF ToSet

\* The last member of a sequence exchanged.
LEMMA LastExchanged ==
  ASSUME NEW D, NEW q \in Seq(D), q # <<>>, NEW e \in D
  PROVE  /\ Append(Front(q), e) \in Seq(D) /\ DOMAIN Append(Front(q), e) = DOMAIN q
         /\ \A i \in DOMAIN q : Append(Front(q), e)[i] = IF i = Len(q) THEN e ELSE q[i]
         /\ Len(q) \in DOMAIN q /\ Last(q) = q[Len(q)] /\ Last(q) \in D
<1> DEFINE n == Len(q)
           fq == Front(q)
<1>1. n \in Nat /\ DOMAIN q = 1..n /\ n # 0
  BY LenProperties, EmptySeq
<1>2. n \in DOMAIN q /\ q[n] \in D
  BY <1>1, ElementOfSeq
<1>3. fq \in Seq(D) /\ Len(fq) = n - 1 /\ \A i \in 1..(n - 1) : fq[i] = q[i]
  BY <1>1, SubSeqProperties DEF Front
<1> HIDE DEF n, fq
<1>4. /\ Append(fq, e) \in Seq(D) /\ Len(Append(fq, e)) = Len(fq) + 1
      /\ (\A i \in 1..Len(fq) : Append(fq, e)[i] = fq[i]) /\ Append(fq, e)[Len(fq) + 1] = e
  BY <1>3, AppendProperties
<1>5. Len(fq) + 1 = n /\ \A i \in 1..n : i = n \/ i \in 1..(n - 1)
  BY <1>1, <1>3
<1>6. DOMAIN Append(fq, e) = 1..n
  BY <1>4, <1>5, LenProperties
<1>7. \A i \in 1..n : Append(fq, e)[i] = IF i = n THEN e ELSE q[i]
  BY <1>3, <1>4, <1>5
<1> QED BY <1>1, <1>2, <1>4, <1>6, <1>7 DEF Last, n, fq

\* A tag's place in its layout, and its order to one that came before it.
LEMMA TagPlaced ==
  ASSUME NEW lay, Layout(lay), NEW t \in DOMAIN lay
  PROVE  /\ t \in Tags /\ lay[t].kind \in Int /\ lay[t].off \in Nat /\ lay[t].size \in Nat
         /\ lay[t].size > 0 /\ lay[t].size <= MaxCount /\ lay[t].off + lay[t].size < AddrSpace
         /\ (lay[t].off + lay[t].size) % AddrSpace = lay[t].off + lay[t].size
<1>1. /\ t \in Tags /\ lay[t].kind \in Int /\ lay[t].off \in Nat /\ lay[t].size \in Nat
      /\ lay[t].size > 0 /\ lay[t].size <= MaxCount /\ lay[t].off + lay[t].size < AddrSpace
  BY DriverAssumption DEF Layout
<1>2. AddrSpace \in Nat /\ lay[t].off + lay[t].size \in Nat
  BY <1>1, DriverAssumption
<1> QED BY <1>1, <1>2, SmallMod

\* A tag taken in after k others.
TakesIn(lay, s, k, bs, t) ==
  /\ Layout(lay) /\ OrderOf(lay, s) /\ k \in Nat /\ k + 1 \in DOMAIN s /\ BlocksMade(lay, s, k, bs) /\ t = s[k + 1]

LEMMA OrderFacts ==
  ASSUME NEW lay, NEW s, NEW k, NEW bs, NEW t, TakesIn(lay, s, k, bs, t)
  PROVE  /\ t \in DOMAIN lay
         /\ \A m \in 1..k : m \in DOMAIN s /\ s[m] \in DOMAIN lay /\ s[m] # t /\ ~Before(lay, t, s[m])
<1>1. DOMAIN s = 1..Len(s) /\ Len(s) \in Nat
  BY LenProperties DEF TakesIn, OrderOf
<1>2. \A m \in DOMAIN s : s[m] \in DOMAIN lay
  BY <1>1, ElementOfSeq DEF TakesIn, OrderOf
<1>3. \A m \in 1..k : m \in DOMAIN s /\ m < k + 1
  BY <1>1 DEF TakesIn
<1>4. \A m \in 1..k : s[m] # t
  BY <1>3 DEF TakesIn, OrderOf
<1>5. \A m \in 1..k : ~Before(lay, t, s[m])
  BY <1>3 DEF TakesIn, OrderOf
<1> QED BY <1>2, <1>3, <1>4, <1>5 DEF TakesIn

\* A block of which the tags and the end are set.
LEMMA RecordSet ==
  ASSUME NEW A, NEW B, NEW C, NEW D, NEW b \in [kind : A, start : B, end : C, tags : D], NEW q \in D, NEW e \in C
  PROVE  [b EXCEPT !.tags = q, !.end = e] \in [kind : A, start : B, end : C, tags : D]
<1> DEFINE c == [b EXCEPT !.tags = q]
<1>1. c \in [kind : A, start : B, end : C, tags : D]
  OBVIOUS
<1>2. [c EXCEPT !.end = e] \in [kind : A, start : B, end : C, tags : D]
  BY <1>1
<1> QED BY <1>2

LEMMA BlockSet ==
  ASSUME NEW b \in Blocks, NEW q \in Seq(Tags), NEW e \in Nat
  PROVE  [b EXCEPT !.tags = q, !.end = e] \in Blocks
BY RecordSet DEF Blocks

\* A tag that joins the last block.
LEMMA JoinedFits ==
  ASSUME NEW lay, NEW s, NEW k, NEW bs, NEW t, TakesIn(lay, s, k, bs, t),
         bs # <<>>, Joins(Last(bs), lay[t])
  PROVE  BlocksMade(lay, s, k + 1, Extended(lay, bs, t))
<1> DEFINE n == Len(bs)
           b == Last(bs)
           end == lay[t].off + lay[t].size
           nb == [b EXCEPT !.tags = Append(@, t), !.end = IF end > @ THEN end ELSE @]
           res == Append(Front(bs), nb)
<1>1. Layout(lay) /\ t \in DOMAIN lay /\ bs \in Seq(Blocks) /\ k \in Nat
  BY OrderFacts DEF TakesIn, BlocksMade
<1>2. /\ t \in Tags /\ lay[t].kind \in Int /\ lay[t].off \in Nat /\ lay[t].size \in Nat
      /\ lay[t].size > 0 /\ lay[t].size <= MaxCount /\ end < AddrSpace
      /\ (lay[t].off + lay[t].size) % AddrSpace = end
  BY <1>1, TagPlaced
<1>3. Extended(lay, bs, t) = res
  BY <1>2 DEF Extended
<1>4. b \in Blocks /\ n \in DOMAIN bs /\ b = bs[n]
  BY <1>1, LastExchanged
<1>5. b.kind \in Int /\ b.start \in Nat /\ b.end \in Nat /\ b.tags \in Seq(Tags)
  BY <1>4 DEF Blocks
<1>6. b.start <= b.end /\ b.end < AddrSpace /\ b.end - b.start <= MaxCount
  BY <1>4 DEF TakesIn, BlocksMade, BlocksFit
<1>7. b.kind = lay[t].kind /\ Minus(end, b.start) <= MaxCount
  BY DEF Joins
<1>8. b.start <= lay[t].off
  <2>1. PICK m \in 1..k : b.kind = lay[s[m]].kind /\ b.start = lay[s[m]].off
    BY <1>4 DEF TakesIn, BlocksMade, BlocksBegin
  <2>2. ~Before(lay, t, s[m])
    BY OrderFacts
  <2> QED BY <2>1, <2>2, <1>2, <1>5, <1>7 DEF Before
<1>9. end \in Nat /\ b.start <= end /\ end - b.start <= MaxCount
  <2>1. end \in Nat /\ b.start <= end
    BY <1>2, <1>5, <1>8
  <2>2. Minus(end, b.start) = end - b.start
    BY <2>1, <1>2, <1>5, SmallMinus
  <2> QED BY <2>1, <2>2, <1>7
<1>10. /\ nb.kind = b.kind /\ nb.start = b.start /\ nb.tags = Append(b.tags, t)
       /\ nb.end = IF end > b.end THEN end ELSE b.end
  BY <1>4 DEF Blocks
<1>11. nb.end \in Nat /\ nb.start <= nb.end /\ nb.end < AddrSpace /\ nb.end - nb.start <= MaxCount
       /\ end <= nb.end /\ b.end <= nb.end
  BY <1>10, <1>9, <1>5, <1>6, <1>2
<1>12. nb.tags \in Seq(Tags) /\ nb.tags # <<>> /\ ToSet(nb.tags) = ToSet(b.tags) \cup {t}
  BY <1>10, <1>5, <1>2, ToSetAppend, AppendProperties
<1>13. nb \in Blocks
  <2>1. Append(b.tags, t) \in Seq(Tags) /\ (IF end > b.end THEN end ELSE b.end) \in Nat
    BY <1>10, <1>11, <1>12
  <2> QED BY <2>1, <1>4, BlockSet
<1> HIDE DEF nb, end, b, n
<1>14. /\ res \in Seq(Blocks) /\ DOMAIN res = DOMAIN bs
       /\ \A i \in DOMAIN bs : res[i] = IF i = Len(bs) THEN nb ELSE bs[i]
  BY <1>1, <1>13, LastExchanged
<1> HIDE DEF res
<1>15. \A i \in DOMAIN bs : t \notin ToSet(bs[i].tags)
  <2>1. \A i \in DOMAIN bs : \A u \in ToSet(bs[i].tags) : \E m \in 1..k : s[m] = u
    BY DEF TakesIn, BlocksMade, BlocksHold
  <2>2. \A m \in 1..k : s[m] # t
    BY OrderFacts
  <2> QED BY <2>1, <2>2
<1>16. BlocksFit(lay, res)
  <2> SUFFICES ASSUME NEW i \in DOMAIN res
      PROVE /\ res[i].tags # <<>>
            /\ res[i].start <= res[i].end /\ res[i].end < AddrSpace /\ res[i].end - res[i].start <= MaxCount
            /\ \A u \in ToSet(res[i].tags) :
                 /\ u \in DOMAIN lay /\ lay[u].kind = res[i].kind
                 /\ res[i].start <= lay[u].off /\ lay[u].off + lay[u].size <= res[i].end
    BY DEF BlocksFit
  <2>1. CASE i # Len(bs)
    BY <2>1, <1>14 DEF TakesIn, BlocksMade, BlocksFit
  <2>2. CASE i = Len(bs)
    <3>1. res[i] = nb
      BY <2>2, <1>14
    <3>2. ASSUME NEW u \in ToSet(nb.tags)
          PROVE  /\ u \in DOMAIN lay /\ lay[u].kind = nb.kind
                 /\ nb.start <= lay[u].off /\ lay[u].off + lay[u].size <= nb.end
      <4>1. CASE u = t
        BY <4>1, <1>1, <1>7, <1>8, <1>10, <1>11 DEF end
      <4>2. CASE u # t
        <5>1. u \in ToSet(b.tags)
          BY <4>2, <1>12
        <5>2. /\ u \in DOMAIN lay /\ lay[u].kind = b.kind
              /\ b.start <= lay[u].off /\ lay[u].off + lay[u].size <= b.end
          BY <5>1, <1>4 DEF TakesIn, BlocksMade, BlocksFit
        <5>3. lay[u].off \in Nat /\ lay[u].size \in Nat
          BY <5>2, <1>1, TagPlaced
        <5> QED BY <5>2, <5>3, <1>5, <1>10, <1>11
      <4> QED BY <4>1, <4>2
    <3> QED BY <3>1, <3>2, <1>11, <1>12
  <2> QED BY <2>1, <2>2
<1>17. \A i \in DOMAIN bs : ToSet(res[i].tags) = IF i = Len(bs) THEN ToSet(bs[i].tags) \cup {t} ELSE ToSet(bs[i].tags)
  BY <1>14, <1>12, <1>4 DEF n
<1>18. BlocksHold(s, k + 1, res)
  <2> DEFINE has(i) == ToSet(res[i].tags)
             had(i) == ToSet(bs[i].tags)
  <2>0. k + 1 \in 1..(k + 1) /\ s[k + 1] = t /\ \A m \in 1..(k + 1) : m \in 1..k \/ m = k + 1
    BY <1>1 DEF TakesIn
  <2>1. \A m \in 1..k : m \in 1..(k + 1)
    BY <1>1
  <2>2. /\ \A i \in DOMAIN bs : \A u \in had(i) : \E m \in 1..k : s[m] = u
        /\ \A m \in 1..k : \E i \in DOMAIN bs : s[m] \in had(i)
        /\ \A i, j \in DOMAIN bs : \A u \in had(i) : u \in had(j) => i = j
    BY DEF TakesIn, BlocksMade, BlocksHold
  <2>3. \A i \in DOMAIN bs : t \notin had(i)
    BY <1>15
  <2>4. \A i \in DOMAIN bs : has(i) = IF i = Len(bs) THEN had(i) \cup {t} ELSE had(i)
    BY <1>17
  <2>5. Len(bs) \in DOMAIN bs
    BY <1>4 DEF n
  <2> HIDE DEF has, had
  <2>6. \A i \in DOMAIN bs : \A u \in has(i) : \E m \in 1..(k + 1) : s[m] = u
    BY <2>0, <2>1, <2>2, <2>4
  <2>7. \A m \in 1..(k + 1) : \E i \in DOMAIN bs : s[m] \in has(i)
    BY <2>0, <2>2, <2>4, <2>5
  <2>8. \A i, j \in DOMAIN bs : \A u \in has(i) : u \in has(j) => i = j
    BY <2>2, <2>3, <2>4
  <2> QED BY <2>6, <2>7, <2>8, <1>14 DEF BlocksHold, has
<1>19. BlocksBegin(lay, s, k + 1, res)
  <2>1. \A i \in DOMAIN bs : res[i].kind = bs[i].kind /\ res[i].start = bs[i].start
    BY <1>14, <1>10, <1>4 DEF n
  <2>2. \A m \in 1..k : m \in 1..(k + 1)
    BY <1>1
  <2> QED BY <2>1, <2>2, <1>14 DEF TakesIn, BlocksMade, BlocksBegin
<1> QED BY <1>3, <1>14, <1>16, <1>18, <1>19 DEF BlocksMade

\* A tag that opens a block.
LEMMA OpenedFits ==
  ASSUME NEW lay, NEW s, NEW k, NEW bs, NEW t, TakesIn(lay, s, k, bs, t)
  PROVE  BlocksMade(lay, s, k + 1, Append(bs, NewBlock(lay, t)))
<1> DEFINE n == Len(bs) + 1
           nb == NewBlock(lay, t)
           res == Append(bs, nb)
<1>1. Layout(lay) /\ t \in DOMAIN lay /\ bs \in Seq(Blocks) /\ k \in Nat /\ t = s[k + 1]
  BY OrderFacts DEF TakesIn, BlocksMade
<1>2. /\ t \in Tags /\ lay[t].kind \in Int /\ lay[t].off \in Nat /\ lay[t].size \in Nat
      /\ lay[t].size > 0 /\ lay[t].size <= MaxCount /\ lay[t].off + lay[t].size < AddrSpace
      /\ (lay[t].off + lay[t].size) % AddrSpace = lay[t].off + lay[t].size
  BY <1>1, TagPlaced
<1>3. nb = [kind |-> lay[t].kind, start |-> lay[t].off, end |-> lay[t].off + lay[t].size, tags |-> <<t>>]
  BY <1>2 DEF NewBlock
<1>4. ToSet(<<t>>) = {t} /\ <<t>> \in Seq(Tags)
  BY <1>2, ToSetOne
<1>5. lay[t].off + lay[t].size \in Nat /\ lay[t].off <= lay[t].off + lay[t].size
      /\ (lay[t].off + lay[t].size) - lay[t].off <= MaxCount
  BY <1>2
<1> HIDE DEF nb
<1>6. nb \in Blocks
  BY <1>2, <1>3, <1>4, <1>5 DEF Blocks
<1>7. Len(bs) \in Nat /\ DOMAIN bs = 1..Len(bs)
  BY <1>1, LenProperties
<1>8. res \in Seq(Blocks) /\ DOMAIN res = 1..n /\ res[n] = nb /\ \A i \in DOMAIN bs : res[i] = bs[i]
  BY <1>1, <1>6, <1>7, AppendProperties, LenProperties
<1>9. n \notin DOMAIN bs /\ DOMAIN res = DOMAIN bs \cup {n}
  BY <1>7, <1>8
<1> HIDE DEF res, n
<1>10. BlocksFit(lay, res)
  <2>1. ASSUME NEW i \in DOMAIN bs
        PROVE /\ bs[i].tags # <<>>
              /\ bs[i].start <= bs[i].end /\ bs[i].end < AddrSpace /\ bs[i].end - bs[i].start <= MaxCount
              /\ \A u \in ToSet(bs[i].tags) :
                 /\ u \in DOMAIN lay /\ lay[u].kind = bs[i].kind
                 /\ bs[i].start <= lay[u].off /\ lay[u].off + lay[u].size <= bs[i].end
    BY DEF TakesIn, BlocksMade, BlocksFit
  <2>2. /\ nb.tags # <<>>
        /\ nb.start <= nb.end /\ nb.end < AddrSpace /\ nb.end - nb.start <= MaxCount
        /\ \A u \in ToSet(nb.tags) :
             /\ u \in DOMAIN lay /\ lay[u].kind = nb.kind
             /\ nb.start <= lay[u].off /\ lay[u].off + lay[u].size <= nb.end
    <3>1. nb.kind = lay[t].kind /\ nb.start = lay[t].off /\ nb.end = lay[t].off + lay[t].size /\ ToSet(nb.tags) = {t}
          /\ nb.tags # <<>>
      BY <1>3, <1>4
    <3>2. nb.end <= nb.end
      BY <3>1, <1>5
    <3>3. lay[t].off <= lay[t].off
      BY <1>2
    <3> QED BY <3>1, <3>2, <3>3, <1>1, <1>2, <1>5
  <2> DEFINE fits(x) == /\ x.tags # <<>>
                        /\ x.start <= x.end /\ x.end < AddrSpace /\ x.end - x.start <= MaxCount
                        /\ \A u \in ToSet(x.tags) :
                             /\ u \in DOMAIN lay /\ lay[u].kind = x.kind
                             /\ x.start <= lay[u].off /\ lay[u].off + lay[u].size <= x.end
  <2>3. fits(nb) /\ \A i \in DOMAIN bs : fits(bs[i])
    BY <2>1, <2>2
  <2> HIDE DEF fits
  <2>4. \A i \in DOMAIN res : fits(res[i])
    BY <2>3, <1>8, <1>9
  <2> QED BY <2>4 DEF BlocksFit, fits
<1>11. \A i \in DOMAIN res : ToSet(res[i].tags) = IF i = n THEN {t} ELSE ToSet(bs[i].tags)
  <2>1. nb.tags = <<t>>
    BY <1>3
  <2>2. ToSet(res[n].tags) = {t}
    BY <2>1, <1>4, <1>8
  <2>3. \A i \in DOMAIN bs : res[i].tags = bs[i].tags
    BY <1>8
  <2> QED BY <2>2, <2>3, <1>9
<1>12. BlocksHold(s, k + 1, res)
  <2> DEFINE has(i) == ToSet(res[i].tags)
  <2>0. k + 1 \in 1..(k + 1) /\ \A m \in 1..(k + 1) : m \in 1..k \/ m = k + 1
    BY <1>1
  <2>1. \A m \in 1..k : m \in 1..(k + 1)
    BY <1>1
  <2>2. \A i \in DOMAIN bs : \A u \in ToSet(bs[i].tags) : \E m \in 1..k : s[m] = u
    BY DEF TakesIn, BlocksMade, BlocksHold
  <2>3. \A i \in DOMAIN bs : t \notin ToSet(bs[i].tags)
    BY <2>2, OrderFacts
  <2>4. \A i \in DOMAIN bs : has(i) = ToSet(bs[i].tags)
    BY <1>11, <1>9
  <2>5. has(n) = {t}
    BY <1>11, <1>9
  <2> HIDE DEF has
  <2>6. \A i \in DOMAIN res : \A u \in has(i) : \E m \in 1..(k + 1) : s[m] = u
    <3>1. \A i \in DOMAIN bs : \A u \in has(i) : \E m \in 1..(k + 1) : s[m] = u
      BY <2>1, <2>2, <2>4
    <3>2. \A u \in has(n) : \E m \in 1..(k + 1) : s[m] = u
      BY <2>0, <2>5, <1>1
    <3> QED BY <3>1, <3>2, <1>9
  <2>7. \A m \in 1..(k + 1) : \E i \in DOMAIN res : s[m] \in has(i)
    <3>1. \A m \in 1..k : \E i \in DOMAIN bs : s[m] \in ToSet(bs[i].tags)
      BY DEF TakesIn, BlocksMade, BlocksHold
    <3> QED BY <3>1, <2>0, <2>4, <2>5, <1>1, <1>9
  <2>8. \A i, j \in DOMAIN res : \A u \in has(i) : u \in has(j) => i = j
    <3>1. \A i, j \in DOMAIN bs : \A u \in ToSet(bs[i].tags) : u \in ToSet(bs[j].tags) => i = j
      BY DEF TakesIn, BlocksMade, BlocksHold
    <3> QED BY <3>1, <2>3, <2>4, <2>5, <1>9
  <2> QED BY <2>6, <2>7, <2>8 DEF BlocksHold, has
<1>13. BlocksBegin(lay, s, k + 1, res)
  <2>1. \A m \in 1..k : m \in 1..(k + 1)
    BY <1>1
  <2>2. k + 1 \in 1..(k + 1)
    BY <1>1
  <2>3. nb.kind = lay[s[k + 1]].kind /\ nb.start = lay[s[k + 1]].off
    BY <1>1, <1>3
  <2>4. \A i \in DOMAIN bs : \E m \in 1..k : bs[i].kind = lay[s[m]].kind /\ bs[i].start = lay[s[m]].off
    BY DEF TakesIn, BlocksMade, BlocksBegin
  <2>5. \A i \in DOMAIN bs : \E m \in 1..(k + 1) : res[i].kind = lay[s[m]].kind /\ res[i].start = lay[s[m]].off
    BY <2>1, <2>4, <1>8
  <2>6. \E m \in 1..(k + 1) : res[n].kind = lay[s[m]].kind /\ res[n].start = lay[s[m]].off
    BY <2>2, <2>3, <1>8
  <2> QED BY <2>5, <2>6, <1>9 DEF BlocksBegin
<1> QED BY <1>8, <1>10, <1>12, <1>13 DEF BlocksMade, res, nb

LEMMA BlocksOfFit ==
  ASSUME NEW lay, NEW s, Layout(lay), OrderOf(lay, s)
  PROVE  BlocksMade(lay, s, Len(s), BlocksOf(lay, s))
<1>1. Len(s) \in Nat /\ DOMAIN s = 1..Len(s)
  BY LenProperties DEF OrderOf
<1>2. PICK f : /\ f[0] = <<>> /\ BlocksOf(lay, s) = f[Len(s)]
               /\ \A k \in 1..Len(s) : f[k] = Extended(lay, f[k - 1], s[k])
  BY <1>1, BlocksMaking
<1> DEFINE T == {k \in 0..Len(s) : BlocksMade(lay, s, k, f[k])}
<1>3. 0 \in T
  <2>1. <<>> \in Seq(Blocks) /\ DOMAIN <<>> = {} /\ 1..0 = {}
    BY EmptySeq
  <2>2. BlocksMade(lay, s, 0, <<>>)
    BY <2>1 DEF BlocksMade, BlocksFit, BlocksHold, BlocksBegin
  <2>3. 0 \in 0..Len(s)
    BY <1>1
  <2> QED BY <1>2, <2>2, <2>3
<1>4. ASSUME NEW k \in 0..(Len(s) - 1), k \in T PROVE k + 1 \in T
  <2> DEFINE t == s[k + 1]
  <2>1. k \in Nat /\ k + 1 \in 1..Len(s) /\ k + 1 \in 0..Len(s) /\ (k + 1) - 1 = k
    BY <1>1
  <2>2. BlocksMade(lay, s, k, f[k])
    BY <1>4
  <2>3. TakesIn(lay, s, k, f[k], t)
    BY <1>1, <2>1, <2>2 DEF TakesIn
  <2>4. f[k + 1] = Extended(lay, f[k], t)
    BY <1>2, <2>1
  <2> HIDE DEF t
  <2>5. BlocksMade(lay, s, k + 1, Extended(lay, f[k], t))
    <3>1. CASE f[k] # <<>> /\ Joins(Last(f[k]), lay[t])
      BY <3>1, <2>3, JoinedFits
    <3>2. CASE ~(f[k] # <<>> /\ Joins(Last(f[k]), lay[t]))
      <4>1. Extended(lay, f[k], t) = Append(f[k], NewBlock(lay, t))
        BY <3>2 DEF Extended
      <4> QED BY <4>1, <2>3, OpenedFits
    <3> QED BY <3>1, <3>2
  <2> QED BY <2>1, <2>4, <2>5
<1> HIDE DEF T
<1>5. Len(s) \in T
  <2>1. Len(s) \in 0..Len(s)
    BY <1>1
  <2> QED BY <1>1, <1>3, <1>4, <2>1, NumberInduction
<1> QED BY <1>2, <1>5 DEF T

\* What sort.Slice makes of a layout.
LEMMA SortedOrders ==
  ASSUME NEW lay, Layout(lay), NEW s \in Sorted(lay)
  PROVE  OrderOf(lay, s)
<1> DEFINE D == DOMAIN lay
           n == Cardinality(D)
<1>1. IsFiniteSet(D) /\ n \in Nat
  BY DriverAssumption, FS_Subset, FS_CardinalityType DEF Layout
<1>2. s \in [1..n -> D] /\ (\A i, j \in 1..n : i # j => s[i] # s[j]) /\ \A i, j \in DOMAIN s : i < j => ~Before(lay, s[j], s[i])
  BY DEF Sorted, SetToSeqs
<1> HIDE DEF n, D
<1>3. s \in Seq(D) /\ DOMAIN s = 1..n
  BY <1>1, <1>2, SeqDef
<1>4. s \in Injection(1..n, D)
  BY <1>2 DEF Injection, IsInjective
<1>5. IsFiniteSet(1..n) /\ Cardinality(1..n) = n
  BY <1>1, FS_Interval
<1>6. s \in Surjection(1..n, D)
  BY <1>1, <1>4, <1>5, FS_Injection DEF n
<1>7. \A t \in D : \E i \in 1..n : s[i] = t
  BY <1>6 DEF Surjection
<1> QED BY <1>2, <1>3, <1>7 DEF OrderOf, D

\* BlocksCover, for a layout and its blocks.
Covers(bs, lay) ==
  /\ \A t \in DOMAIN lay : \E i \in 1..Len(bs) :
         /\ t \in ToSet(bs[i].tags) /\ bs[i].kind = lay[t].kind
         /\ Minus(lay[t].off, bs[i].start) + lay[t].size <= Count(bs[i])
         /\ \A j \in 1..Len(bs) : t \in ToSet(bs[j].tags) => i = j
  /\ \A i \in 1..Len(bs) : Count(bs[i]) <= MaxCount

\* The tags of the blocks are those of the layout.
BlockTags(bs, lay) ==
  /\ bs \in Seq(Blocks)
  /\ \A i \in 1..Len(bs) : ToSet(bs[i].tags) \subseteq DOMAIN lay /\ bs[i].tags # <<>>
  /\ \A t \in DOMAIN lay : \E i \in 1..Len(bs) : t \in ToSet(bs[i].tags)

LEMMA BlocksCoverLayout ==
  ASSUME NEW lay, Layout(lay), NEW bs \in createBlocks(lay)
  PROVE  Covers(bs, lay)
<1>1. PICK s \in Sorted(lay) : bs = BlocksOf(lay, s)
  BY DEF createBlocks
<1>2. OrderOf(lay, s) /\ BlocksMade(lay, s, Len(s), bs)
  BY <1>1, SortedOrders, BlocksOfFit
<1>3. bs \in Seq(Blocks) /\ DOMAIN bs = 1..Len(bs) /\ DOMAIN s = 1..Len(s)
  BY <1>2, LenProperties DEF BlocksMade, OrderOf
<1>4. ASSUME NEW i \in 1..Len(bs)
      PROVE  /\ bs[i].start \in Nat /\ bs[i].end \in Nat /\ bs[i].start <= bs[i].end
             /\ bs[i].end - bs[i].start <= MaxCount /\ Count(bs[i]) = bs[i].end - bs[i].start
  <2>1. bs[i] \in Blocks
    BY <1>3, ElementOfSeq
  <2>2. bs[i].start \in Nat /\ bs[i].end \in Nat
    BY <2>1 DEF Blocks
  <2>3. bs[i].start <= bs[i].end /\ bs[i].end < AddrSpace /\ bs[i].end - bs[i].start <= MaxCount
    BY <1>2, <1>3 DEF BlocksMade, BlocksFit
  <2> QED BY <2>2, <2>3, SmallMinus DEF Count
<1>5. ASSUME NEW t \in DOMAIN lay
      PROVE  \E i \in 1..Len(bs) :
                /\ t \in ToSet(bs[i].tags) /\ bs[i].kind = lay[t].kind
                /\ Minus(lay[t].off, bs[i].start) + lay[t].size <= Count(bs[i])
                /\ \A j \in 1..Len(bs) : t \in ToSet(bs[j].tags) => i = j
  <2>1. PICK m \in 1..Len(s) : s[m] = t
    BY <1>2, <1>3 DEF OrderOf
  <2>2. PICK i \in 1..Len(bs) : t \in ToSet(bs[i].tags)
    BY <2>1, <1>2, <1>3 DEF BlocksMade, BlocksHold
  <2>3. \A j \in 1..Len(bs) : t \in ToSet(bs[j].tags) => i = j
    BY <2>2, <1>2, <1>3 DEF BlocksMade, BlocksHold
  <2>4. lay[t].kind = bs[i].kind /\ bs[i].start <= lay[t].off /\ lay[t].off + lay[t].size <= bs[i].end
    BY <2>2, <1>2, <1>3 DEF BlocksMade, BlocksFit
  <2>5. lay[t].off \in Nat /\ lay[t].size \in Nat /\ lay[t].off < AddrSpace
    <3>1. lay[t].off \in Nat /\ lay[t].size \in Nat /\ lay[t].off + lay[t].size < AddrSpace /\ AddrSpace \in Nat
      BY TagPlaced, DriverAssumption
    <3> QED BY <3>1
  <2>6. Minus(lay[t].off, bs[i].start) = lay[t].off - bs[i].start
    BY <2>4, <2>5, <1>4, SmallMinus
  <2>7. Minus(lay[t].off, bs[i].start) + lay[t].size <= Count(bs[i])
    BY <2>4, <2>5, <2>6, <1>4
  <2> QED BY <2>2, <2>3, <2>4, <2>7
<1>6. \A i \in 1..Len(bs) : Count(bs[i]) <= MaxCount
  BY <1>4
<1> QED BY <1>5, <1>6 DEF Covers

LEMMA BlocksHaveTags ==
  ASSUME NEW lay, Layout(lay), NEW bs \in createBlocks(lay)
  PROVE  BlockTags(bs, lay)
<1>1. PICK s \in Sorted(lay) : bs = BlocksOf(lay, s)
  BY DEF createBlocks
<1>2. OrderOf(lay, s) /\ BlocksMade(lay, s, Len(s), bs)
  BY <1>1, SortedOrders, BlocksOfFit
<1>3. bs \in Seq(Blocks) /\ DOMAIN bs = 1..Len(bs) /\ DOMAIN s = 1..Len(s)
  BY <1>2, LenProperties DEF BlocksMade, OrderOf
<1>4. \A i \in 1..Len(bs) : ToSet(bs[i].tags) \subseteq DOMAIN lay /\ bs[i].tags # <<>>
  BY <1>2, <1>3 DEF BlocksMade, BlocksFit
<1>5. ASSUME NEW t \in DOMAIN lay PROVE \E i \in 1..Len(bs) : t \in ToSet(bs[i].tags)
  <2>1. PICK m \in 1..Len(s) : s[m] = t
    BY <1>2, <1>3 DEF OrderOf
  <2> QED BY <2>1, <1>2, <1>3 DEF BlocksMade, BlocksHold
<1> QED BY <1>3, <1>4, <1>5 DEF BlockTags

-----------------------------------------------------------------------------
(* The configuration. *)

ConfigInv ==
  /\ setup \in Setups
  /\ config.layout \in setup.layouts /\ config.blocks \in createBlocks(config.layout)

\* A step of the process, or none of the driver's.
LEMMA Steps ==
  ASSUME [ProcessNext]_driverAllVars
  PROVE  UNCHANGED allPathVars \/ PathNext
BY DEF ProcessNext, driverAllVars

\* Only a reload sets the configuration, nothing the deployment.
LEMMA ConfigKept ==
  ASSUME PathNext
  PROVE  /\ setup' = setup
         /\ UNCHANGED config \/ LoadConfig
<1>1. CASE DriverSteps
  <2>1. CASE Poll
    BY <2>1 DEF Poll, PollBegin, PollConnect, PollRead, PollCheck, PollConfirm, PollPublish, PollState, PollBad,
                PollBadState, OfPoll
  <2>2. CASE \E t \in Tags : HeartbeatElapses(t) \/ CooldownEnds(t)
    BY <2>2 DEF HeartbeatElapses, CooldownEnds
  <2>3. CASE (\E t \in Tags, v \in Values : ScadaWrite(t, v)) \/ RequestReload \/ LinkDelays \/ CommandLost
    BY <2>3 DEF ScadaWrite, RequestReload, LinkDelays, CommandLost, driverVars
  <2>4. CASE LoadConfig
    BY <2>4 DEF LoadConfig
  <2>5. CASE HandleWriteCommand \/ DeviceDown \/ DeviceUp \/ \E t \in Tags : DeviceChanges(t)
    BY <2>5 DEF HandleWriteCommand, DeviceDown, DeviceUp, DeviceChanges, driverVars
  <2>6. CASE \E w \in 1..Writers : ExecuteWrite(w)
    BY <2>6 DEF ExecuteWrite, WriteBegin, WriteCopy, WriteRegister, WriteState, WriteCooldown, WriteFeedback, driverVars
  <2> QED BY <1>1, <2>1, <2>2, <2>3, <2>4, <2>5, <2>6 DEF DriverSteps, DriverNext
<1>2. CASE \E t \in Tags, v \in Values :
             TagWrite(t, v) \/ I3XWrite(t, v) \/ \E age \in 0..(MaxAge + 1) : ExternalWrite(t, v, age)
  BY <1>2 DEF TagWrite, I3XWrite, OneWrite, ExternalWrite, driverVars
<1>3. CASE \E l \in Loads : LoadSteps(l)
  BY <1>3 DEF LoadSteps, LoadBegin, LoadPublish, LoadAck, LoadTimeout, LoadEnd, OfLoad, driverVars
<1>4. CASE HandleAck
  BY <1>4 DEF HandleAck, OfLoad, driverVars
<1> QED BY <1>1, <1>2, <1>3, <1>4 DEF PathNext

LEMMA ConfigStep ==
  ASSUME ConfigInv, [ProcessNext]_driverAllVars
  PROVE  ConfigInv'
<1>1. CASE UNCHANGED allPathVars
  BY <1>1 DEF ConfigInv, allPathVars, pathVars, driverVars
<1>2. CASE PathNext /\ UNCHANGED config
  BY <1>2, ConfigKept DEF ConfigInv
<1>3. CASE PathNext /\ LoadConfig
  <2>1. CASE UNCHANGED config
    BY <2>1, <1>3, ConfigKept DEF ConfigInv
  <2>2. CASE \E lay \in setup.layouts, on \in BOOLEAN, u \in Usable :
               \E bs \in createBlocks(lay) : config' = [enabled |-> on, usable |-> u, layout |-> lay, blocks |-> bs]
    BY <2>2, <1>3, ConfigKept DEF ConfigInv
  <2> QED BY <2>1, <2>2, <1>3 DEF LoadConfig
<1> QED BY <1>1, <1>2, <1>3, Steps, ConfigKept

LEMMA ConfigInit ==
  ASSUME ProcessInit
  PROVE  ConfigInv
BY DEF ProcessInit, PathInit, DriverInit, ConfigInv

LEMMA ConfigCovers ==
  ASSUME ConfigInv
  PROVE  BlocksCover
<1>1. Layout(config.layout)
  BY DriverAssumption DEF ConfigInv
<1>2. Covers(config.blocks, config.layout)
  BY <1>1, BlocksCoverLayout DEF ConfigInv
<1> QED BY <1>2 DEF BlocksCover, Covers

\* createBlocks, for every layout a gateway can have and whatever order sort.Slice
\* gives to tags of one address: each tag is in one block, its registers are among
\* those the block asks for, and no request is longer than the limit.
THEOREM CoverHolds == ProcessSpec => []BlocksCover
<1>1. ProcessInit => ConfigInv
  BY ConfigInit
<1>2. ConfigInv /\ [ProcessNext]_driverAllVars => ConfigInv'
  BY ConfigStep
<1>3. ConfigInv => BlocksCover
  BY ConfigCovers
<1> QED BY <1>1, <1>2, <1>3, PTL DEF ProcessSpec

-----------------------------------------------------------------------------
(* What is on the bus, in the writers, in the device and in the loads.       *)

By == Loads \cup {"operator", "caller", "scada"}
Rows == [tag : Tags, v : Values \cup {Unfit}]
Commands == [tag : Tags, v : Values, type : {"bool", "float64", "string"}, stamped : BOOLEAN, age : Nat, by : By]
Results == [tag : Tags, ok : BOOLEAN, by : By]
Busy == [pc : {"begin", "copy", "write", "state", "cool", "feedback"}, cmd : Commands, live : BOOLEAN,
         copy : [Tags -> Values]]

\* The fields of a load have names for their types, so that a step that sets some of
\* them can be taken as it is.
LoadPCs == {"new", "publish", "done"}
RowSeqs == Seq(Rows)
ResultSeqs == Seq(Results)
TagSets == SUBSET Tags
LoadStates == [pc : LoadPCs, todo : RowSeqs, pending : TagSets, remaining : Nat, chan : ResultSeqs, results : ResultSeqs]

BusInv == cmds \in Seq(Commands) /\ acks \in Seq(Results)
WriterInv == writer \in [1..Writers -> {Free} \cup Busy]
DeviceInv == plc \in [Tags -> Values] /\ last \in [Tags -> Values] /\ clash \in SUBSET Tags
LoadInv == load \in [Loads -> LoadStates] /\ waiters \in [Tags -> Loads \cup {Nobody}] /\ mixed \in SUBSET Tags

PathInv == BusInv /\ WriterInv /\ DeviceInv /\ LoadInv

\* A writer that is not free, and what its steps make of it.
LEMMA BusyWriter ==
  ASSUME WriterInv, NEW w \in 1..Writers, writer[w].pc # "free"
  PROVE  writer[w] \in Busy
BY DEF WriterInv, Free

LEMMA BusyTyped ==
  ASSUME NEW A, NEW B, NEW C, NEW D, NEW b \in [pc : A, cmd : B, live : C, copy : D]
  PROVE  /\ \A p \in A : [b EXCEPT !.pc = p] \in [pc : A, cmd : B, live : C, copy : D]
         /\ \A x \in C : [b EXCEPT !.live = x] \in [pc : A, cmd : B, live : C, copy : D]
         /\ \A x \in D : [b EXCEPT !.copy = x] \in [pc : A, cmd : B, live : C, copy : D]
         /\ b.pc \in A /\ b.cmd \in B /\ b.live \in C /\ b.copy \in D
OBVIOUS

LEMMA BusyFacts ==
  ASSUME NEW b \in Busy
  PROVE  /\ b.pc \in {"begin", "copy", "write", "state", "cool", "feedback"} /\ b.pc # "free" /\ b # Free
         /\ b.cmd \in Commands /\ b.cmd.tag \in Tags /\ b.cmd.v \in Values /\ b.cmd.by \in By
         /\ b.copy \in [Tags -> Values]
<1>1. b.pc \in {"begin", "copy", "write", "state", "cool", "feedback"} /\ b.cmd \in Commands
  BY DEF Busy
<1>2. b.copy \in [Tags -> Values]
  BY DEF Busy
<1>3. b.cmd.tag \in Tags /\ b.cmd.v \in Values /\ b.cmd.by \in By
  BY <1>1 DEF Commands
<1>4. b.pc # "free" /\ Free.pc = "free"
  BY <1>1 DEF Free
<1> QED BY <1>1, <1>2, <1>3, <1>4

WritePCs == {"begin", "copy", "write", "state", "cool", "feedback"}

LEMMA BusyAtPC ==
  ASSUME NEW b \in Busy, NEW p \in WritePCs
  PROVE  /\ [b EXCEPT !.pc = p] \in Busy
         /\ [b EXCEPT !.pc = p, !.live = TRUE] \in Busy
<1> DEFINE F == [Tags -> Values]
<1>1. Busy = [pc : WritePCs, cmd : Commands, live : BOOLEAN, copy : F]
  BY DEF Busy, WritePCs
<1> HIDE DEF F
<1>2. b \in [pc : WritePCs, cmd : Commands, live : BOOLEAN, copy : F]
  BY <1>1
<1>3. [b EXCEPT !.pc = p] \in Busy
  BY <1>1, <1>2, BusyTyped
<1>4. [[b EXCEPT !.pc = p] EXCEPT !.live = TRUE] \in Busy
  BY <1>1, <1>3, BusyTyped
<1> QED BY <1>3, <1>4

LEMMA BusyFieldsAt ==
  ASSUME NEW b \in Busy, NEW p
  PROVE  /\ [b EXCEPT !.pc = p].pc = p
         /\ [b EXCEPT !.pc = p].cmd = b.cmd /\ [b EXCEPT !.pc = p].copy = b.copy
         /\ [b EXCEPT !.pc = p, !.live = TRUE].pc = p /\ [b EXCEPT !.pc = p, !.live = TRUE].cmd = b.cmd
<1> DEFINE F == [Tags -> Values]
<1>1. Busy = [pc : WritePCs, cmd : Commands, live : BOOLEAN, copy : F]
  BY DEF Busy, WritePCs
<1> HIDE DEF F
<1>2. b \in [pc : WritePCs, cmd : Commands, live : BOOLEAN, copy : F]
  BY <1>1
<1> QED BY <1>2

LEMMA BusySet ==
  ASSUME NEW b \in Busy, NEW p \in {"begin", "copy", "write", "state", "cool", "feedback"}
  PROVE  /\ [b EXCEPT !.pc = p] \in Busy /\ [b EXCEPT !.pc = p].pc = p
         /\ [b EXCEPT !.pc = p].cmd = b.cmd /\ [b EXCEPT !.pc = p].copy = b.copy
         /\ [b EXCEPT !.pc = p, !.live = TRUE] \in Busy /\ [b EXCEPT !.pc = p, !.live = TRUE].pc = p
         /\ [b EXCEPT !.pc = p, !.live = TRUE].cmd = b.cmd
<1>1. p \in WritePCs
  BY DEF WritePCs
<1>2. [b EXCEPT !.pc = p] \in Busy /\ [b EXCEPT !.pc = p, !.live = TRUE] \in Busy
  BY <1>1, BusyAtPC
<1> QED BY <1>2, BusyFieldsAt

LEMMA BusyAt ==
  \A b \in Busy : \A p \in WritePCs : [b EXCEPT !.pc = p] \in Busy /\ [b EXCEPT !.pc = p].pc = p
<1> TAKE b \in Busy
<1> TAKE p \in WritePCs
<1>1. [b EXCEPT !.pc = p] \in Busy
  BY BusyAtPC
<1>2. [b EXCEPT !.pc = p].pc = p
  BY BusyFieldsAt
<1> QED BY <1>1, <1>2

LEMMA BusyLive ==
  \A b \in Busy : \A p \in WritePCs :
    [b EXCEPT !.pc = p, !.live = TRUE] \in Busy /\ [b EXCEPT !.pc = p, !.live = TRUE].pc = p
<1> TAKE b \in Busy
<1> TAKE p \in WritePCs
<1>1. [b EXCEPT !.pc = p, !.live = TRUE] \in Busy
  BY BusyAtPC
<1>2. [b EXCEPT !.pc = p, !.live = TRUE].pc = p
  BY BusyFieldsAt
<1> QED BY <1>1, <1>2

LEMMA BusyCommand ==
  \A b \in Busy : \A p : /\ [b EXCEPT !.pc = p].cmd = b.cmd
                        /\ [b EXCEPT !.pc = p, !.live = TRUE].cmd = b.cmd
<1> TAKE b \in Busy
<1> TAKE p
<1>1. b \in [pc : {"begin", "copy", "write", "state", "cool", "feedback"}, cmd : Commands, live : BOOLEAN, copy : [Tags -> Values]]
  BY DEF Busy
<1>2. "cmd" \in DOMAIN b /\ "cmd" # "pc" /\ "cmd" # "live"
  BY <1>1
<1> QED BY <1>1, <1>2

LEMMA BusyCopies ==
  ASSUME NEW b \in Busy, NEW x \in [Tags -> Values]
  PROVE  /\ [b EXCEPT !.pc = "write", !.copy = x] \in Busy
         /\ [b EXCEPT !.pc = "write", !.copy = x].copy = x
         /\ [b EXCEPT !.pc = "write", !.copy = x].pc = "write"
         /\ [b EXCEPT !.pc = "write", !.copy = x].cmd = b.cmd
<1> DEFINE PCs == {"begin", "copy", "write", "state", "cool", "feedback"}
           F == [Tags -> Values]
<1>1. Busy = [pc : PCs, cmd : Commands, live : BOOLEAN, copy : F] /\ "write" \in PCs
  BY DEF Busy
<1> HIDE DEF PCs, F
<1>2. b \in [pc : PCs, cmd : Commands, live : BOOLEAN, copy : F] /\ x \in F
  BY <1>1 DEF F
<1>3. [b EXCEPT !.pc = "write"] \in Busy
  BY <1>1, <1>2, BusyTyped
<1>4. [[b EXCEPT !.pc = "write"] EXCEPT !.copy = x] \in Busy
  BY <1>1, <1>2, <1>3, BusyTyped
<1>5. /\ [b EXCEPT !.pc = "write", !.copy = x].copy = x
      /\ [b EXCEPT !.pc = "write", !.copy = x].pc = "write"
      /\ [b EXCEPT !.pc = "write", !.copy = x].cmd = b.cmd
  BY <1>2
<1> QED BY <1>4, <1>5

LEMMA BusyClosed ==
  ASSUME NEW b \in Busy
  PROVE  /\ [b EXCEPT !.live = FALSE] \in Busy /\ [b EXCEPT !.live = FALSE].pc = b.pc
         /\ [b EXCEPT !.live = FALSE].cmd = b.cmd /\ [b EXCEPT !.live = FALSE].copy = b.copy
<1> DEFINE PCs == {"begin", "copy", "write", "state", "cool", "feedback"}
           F == [Tags -> Values]
<1>1. Busy = [pc : PCs, cmd : Commands, live : BOOLEAN, copy : F]
  BY DEF Busy
<1> HIDE DEF PCs, F
<1>2. b \in [pc : PCs, cmd : Commands, live : BOOLEAN, copy : F]
  BY <1>1
<1>3. [b EXCEPT !.live = FALSE] \in Busy
  BY <1>1, <1>2, BusyTyped
<1>4. /\ [b EXCEPT !.live = FALSE].pc = b.pc
      /\ [b EXCEPT !.live = FALSE].cmd = b.cmd /\ [b EXCEPT !.live = FALSE].copy = b.copy
  BY <1>2
<1> QED BY <1>3, <1>4

\* A client that is closed under its writers.
LEMMA ClosedWriters ==
  ASSUME WriterInv
  PROVE  /\ Closed \in [1..Writers -> {Free} \cup Busy]
         /\ \A w \in 1..Writers : /\ Closed[w].pc = writer[w].pc
                                  /\ writer[w].pc # "free" => Closed[w].cmd = writer[w].cmd /\ Closed[w].copy = writer[w].copy
                                  /\ writer[w] = Free => Closed[w] = Free
<1> SUFFICES ASSUME NEW w \in 1..Writers
    PROVE  /\ Closed[w] \in {Free} \cup Busy /\ Closed[w].pc = writer[w].pc
           /\ writer[w].pc # "free" => Closed[w].cmd = writer[w].cmd /\ Closed[w].copy = writer[w].copy
           /\ writer[w] = Free => Closed[w] = Free
  BY DEF Closed
<1>1. Closed[w] = [writer[w] EXCEPT !.live = FALSE]
  BY DEF Closed
<1>2. CASE writer[w] = Free
  <2>1. Free.pc = "free" /\ Free \in [pc : {"free"}, live : {FALSE}]
    BY DEF Free
  <2>2. \A f \in [pc : {"free"}, live : {FALSE}] : [f EXCEPT !.live = FALSE] = f
    OBVIOUS
  <2> QED BY <1>1, <1>2, <2>1, <2>2
<1>3. CASE writer[w] \in Busy
  BY <1>1, <1>3, BusyFacts, BusyClosed
<1> QED BY <1>2, <1>3 DEF WriterInv

\* Where the writers can change: which of them, and how.
WriterSteps ==
  \/ UNCHANGED writer
  \/ writer' = Closed
  \/ \E w \in 1..Writers, x \in {Free} \cup Busy : writer' = [writer EXCEPT ![w] = x]

LEMMA WritersTyped ==
  ASSUME WriterInv, WriterSteps
  PROVE  WriterInv'
<1>1. CASE UNCHANGED writer
  BY <1>1 DEF WriterInv
<1>2. CASE writer' = Closed
  BY <1>2, ClosedWriters DEF WriterInv
<1>3. CASE \E w \in 1..Writers, x \in {Free} \cup Busy : writer' = [writer EXCEPT ![w] = x]
  BY <1>3 DEF WriterInv
<1> QED BY <1>1, <1>2, <1>3 DEF WriterSteps

LEMMA Acknowledged ==
  ASSUME BusInv, NEW cmd \in Commands, NEW ok \in BOOLEAN, Told(cmd, ok)
  PROVE  /\ acks' \in Seq(Results)
         /\ acks' = acks \/ acks' = Append(acks, [tag |-> cmd.tag, ok |-> ok, by |-> cmd.by])
<1>1. [tag |-> cmd.tag, ok |-> ok, by |-> cmd.by] \in Results
  BY DEF Commands, Results
<1>2. Append(acks, [tag |-> cmd.tag, ok |-> ok, by |-> cmd.by]) \in Seq(Results)
  BY <1>1, AppendProperties DEF BusInv
<1> QED BY <1>2 DEF Told, BusInv

-----------------------------------------------------------------------------
(* WritesStayApart.  While a writer holds a copy of the register, the copy   *)
(* is the register, except for the tags that somebody else set meanwhile.    *)

CopyInv ==
  \A w \in 1..Writers :
    setup.bits /\ writer[w].pc = "write" => \A u \in Tags \ clash : writer[w].copy[u] = plc[u]

\* What the driver's steps preserve of commands, results, writers and device.
WriteInv == BusInv /\ WriterInv /\ DeviceInv /\ WritesStayApart /\ CopyInv

\* The steps that leave the device and the bus alone.
LEMMA LoopSteps ==
  ASSUME \/ Poll \/ RequestReload \/ LoadConfig \/ DeviceDown \/ DeviceUp
         \/ \E t \in Tags : HeartbeatElapses(t) \/ CooldownEnds(t)
  PROVE  /\ UNCHANGED <<setup, plc, last, clash, cmds, acks>>
         /\ UNCHANGED writer \/ writer' = Closed
<1>1. CASE Poll
  BY <1>1 DEF Poll, PollBegin, PollConnect, PollRead, PollCheck, PollConfirm, PollPublish, PollState, PollBad,
              PollBadState, OfPoll, deviceVars, busVars
<1>2. CASE RequestReload \/ LoadConfig \/ DeviceDown \/ DeviceUp
  BY <1>2 DEF RequestReload, LoadConfig, DeviceDown, DeviceUp, deviceVars, busVars
<1>3. CASE \E t \in Tags : HeartbeatElapses(t) \/ CooldownEnds(t)
  BY <1>3 DEF HeartbeatElapses, CooldownEnds, deviceVars, busVars
<1> QED BY <1>1, <1>2, <1>3

LEMMA WritersOfLoop ==
  ASSUME WriteInv, UNCHANGED <<setup, plc, last, clash, cmds, acks>>, UNCHANGED writer \/ writer' = Closed
  PROVE  WriteInv'
<1>1. BusInv' /\ DeviceInv' /\ WritesStayApart'
  BY DEF WriteInv, BusInv, DeviceInv, WritesStayApart
<1>2. WriterInv'
  BY WritersTyped DEF WriteInv, WriterSteps
<1>3. CopyInv'
  <2>1. CASE UNCHANGED writer
    BY <2>1 DEF WriteInv, CopyInv
  <2>2. CASE writer' = Closed
    <3> SUFFICES ASSUME NEW w \in 1..Writers, setup.bits, Closed[w].pc = "write", NEW u \in Tags \ clash
        PROVE  Closed[w].copy[u] = plc[u]
      BY <2>2 DEF CopyInv
    <3>1. writer[w].pc = "write" /\ Closed[w].copy = writer[w].copy
      BY ClosedWriters DEF WriteInv
    <3> QED BY <3>1 DEF WriteInv, CopyInv
  <2> QED BY <2>1, <2>2
<1> QED BY <1>1, <1>2, <1>3 DEF WriteInv

\* A writer that does not set the device: it ends in no state but "write" where a
\* copy is kept, or it copies the register.
LEMMA WriterMoves ==
  ASSUME WriteInv, NEW w \in 1..Writers, NEW x \in {Free} \cup Busy, writer' = [writer EXCEPT ![w] = x],
         UNCHANGED <<setup, plc, last, clash>>,
         setup.bits /\ x.pc = "write" => x.copy = plc
  PROVE  WriterInv' /\ DeviceInv' /\ WritesStayApart' /\ CopyInv'
<1>1. DeviceInv' /\ WritesStayApart'
  BY DEF WriteInv, DeviceInv, WritesStayApart
<1>2. WriterInv'
  BY WritersTyped DEF WriteInv, WriterSteps
<1>3. ASSUME NEW o \in 1..Writers, setup.bits, writer'[o].pc = "write", NEW u \in Tags \ clash
      PROVE  writer'[o].copy[u] = plc[u]
  <2>1. CASE o = w
    BY <2>1, <1>3 DEF WriteInv, WriterInv
  <2>2. CASE o # w
    BY <2>2, <1>3 DEF WriteInv, WriterInv, CopyInv
  <2> QED BY <2>1, <2>2
<1> QED BY <1>1, <1>2, <1>3 DEF CopyInv

LEMMA CommandFirst ==
  ASSUME BusInv, cmds # <<>>
  PROVE  Head(cmds) \in Commands /\ Tail(cmds) \in Seq(Commands)
BY HeadTailProperties DEF BusInv

LEMMA HandledCommand ==
  ASSUME WriteInv, HandleWriteCommand
  PROVE  WriteInv'
<1> DEFINE cmd == Head(cmds)
<1>1. cmd \in Commands /\ cmds' \in Seq(Commands) /\ UNCHANGED <<setup, plc, last, clash>>
  BY CommandFirst DEF WriteInv, HandleWriteCommand, deviceVars
<1>2. CASE UNCHANGED <<acks, writer>>
  BY <1>1, <1>2 DEF WriteInv, BusInv, WriterInv, DeviceInv, WritesStayApart, CopyInv
<1>3. CASE \E w \in 1..Writers :
             /\ writer' = [writer EXCEPT ![w] = [pc |-> "begin", cmd |-> cmd, live |-> FALSE, copy |-> NoCopy]]
             /\ UNCHANGED acks
  <2> DEFINE x == [pc |-> "begin", cmd |-> cmd, live |-> FALSE, copy |-> NoCopy]
  <2>1. PICK w \in 1..Writers : writer' = [writer EXCEPT ![w] = x] /\ UNCHANGED acks
    BY <1>3
  <2>2. NoCopy \in [Tags -> Values]
    BY DEF NoCopy, Values
  <2>3. x \in Busy /\ x.pc # "write"
    BY <1>1, <2>2 DEF Busy
  <2>4. BusInv'
    BY <1>1, <2>1 DEF WriteInv, BusInv
  <2> HIDE DEF x, cmd
  <2>5. WriterInv' /\ DeviceInv' /\ WritesStayApart' /\ CopyInv'
    BY <1>1, <2>1, <2>3, WriterMoves
  <2> QED BY <2>4, <2>5 DEF WriteInv
<1>4. CASE Told(cmd, FALSE) /\ UNCHANGED writer
  <2>1. acks' \in Seq(Results)
    BY <1>1, <1>4, Acknowledged DEF WriteInv
  <2> QED BY <1>1, <1>4, <2>1 DEF WriteInv, BusInv, WriterInv, DeviceInv, WritesStayApart, CopyInv
<1> QED BY <1>2, <1>3, <1>4 DEF HandleWriteCommand

\* The outcome of a step of executeWrite: results on the bus, and the writer's state.
LEMMA WriteFailed ==
  ASSUME WriteInv, NEW w \in 1..Writers, writer[w].pc # "free", WriteFails(w)
  PROVE  acks' \in Seq(Results) /\ writer' = [writer EXCEPT ![w] = Free]
<1>1. writer[w] \in Busy
  BY BusyWriter DEF WriteInv
<1>2. writer[w].cmd \in Commands
  BY <1>1, BusyFacts
<1> QED BY <1>2, Acknowledged DEF WriteFails, WriteInv

LEMMA FreeWriter == Free.pc = "free" /\ Free.pc # "write"
BY DEF Free

\* Every step of executeWrite but the one that sets the device.
LEMMA WriterSteps1 ==
  ASSUME WriteInv, NEW w \in 1..Writers,
         WriteBegin(w) \/ WriteCopy(w) \/ WriteState(w) \/ WriteCooldown(w) \/ WriteFeedback(w)
  PROVE  WriteInv'
<1> DEFINE b == writer[w]
           Goes(x) == /\ x \in {Free} \cup Busy /\ writer' = [writer EXCEPT ![w] = x]
                      /\ setup.bits /\ x.pc = "write" => x.copy = plc
           Out == (\E x : Goes(x)) /\ acks' \in Seq(Results)
<1>1. b.pc # "free" /\ UNCHANGED <<setup, plc, last, clash, cmds>>
  BY DEF WriteBegin, WriteCopy, WriteState, WriteCooldown, WriteFeedback, deviceVars, busVars
<1>2. b \in Busy
  BY <1>1, BusyWriter DEF WriteInv
<1>3. ASSUME WriteFails(w) PROVE Out
  BY <1>1, <1>3, WriteFailed, FreeWriter
<1>4. ASSUME UNCHANGED acks PROVE acks' \in Seq(Results)
  BY <1>4 DEF WriteInv, BusInv
<1>5. ASSUME WriteBegin(w) PROVE Out
  <2> DEFINE p == IF setup.bits THEN "copy" ELSE "write"
             x == [b EXCEPT !.pc = p, !.live = TRUE]
  <2>1. CASE client
    <3>1. writer' = [writer EXCEPT ![w] = x] /\ UNCHANGED acks
      BY <1>5, <2>1 DEF WriteBegin, WriteInv, WriterInv
    <3>2. p \in WritePCs
      BY DEF WritePCs
    <3>3. x \in Busy /\ x.pc = p
      <4> HIDE DEF b, p
      <4> QED BY <1>2, <3>2, BusyLive
    <3>4. setup.bits => p # "write"
      OBVIOUS
    <3> HIDE DEF x, p
    <3>5. Goes(x)
      BY <3>1, <3>3, <3>4
    <3> QED BY <3>1, <3>5, <1>4
  <2>2. CASE ~client
    BY <2>2, <1>3, <1>5 DEF WriteBegin
  <2> QED BY <2>1, <2>2
<1>6. ASSUME WriteCopy(w) PROVE Out
  <2> DEFINE x == [b EXCEPT !.pc = "write", !.copy = plc]
  <2>1. CASE b.live /\ alive
    <3>1. writer' = [writer EXCEPT ![w] = x] /\ UNCHANGED acks
      BY <1>6, <2>1 DEF WriteCopy, WriteInv, WriterInv
    <3>2. x \in Busy /\ x.copy = plc
      BY <1>2, BusyCopies DEF WriteInv, DeviceInv
    <3> HIDE DEF x
    <3>3. Goes(x)
      BY <3>1, <3>2
    <3> QED BY <3>1, <3>3, <1>4
  <2>2. CASE ~(b.live /\ alive)
    BY <2>2, <1>3, <1>6 DEF WriteCopy
  <2> QED BY <2>1, <2>2
<1>7. ASSUME WriteState(w) \/ WriteCooldown(w) PROVE Out
  <2>1. PICK p \in {"cool", "feedback"} : writer' = [writer EXCEPT ![w].pc = p]
    BY <1>7 DEF WriteState, WriteCooldown
  <2> DEFINE x == [b EXCEPT !.pc = p]
  <2>2. writer' = [writer EXCEPT ![w] = x] /\ UNCHANGED acks
    BY <2>1, <1>7 DEF WriteState, WriteCooldown, busVars, WriteInv, WriterInv
  <2>0. p \in WritePCs
    BY <2>1 DEF WritePCs
  <2>3. x \in Busy /\ x.pc = p
    <3> HIDE DEF b
    <3> QED BY <1>2, <2>0, BusyAt
  <2> HIDE DEF x
  <2>4. Goes(x)
    BY <2>2, <2>3
  <2> QED BY <2>2, <2>4, <1>4
<1>8. ASSUME WriteFeedback(w) PROVE Out
  <2>1. writer' = [writer EXCEPT ![w] = Free] /\ UNCHANGED acks
    BY <1>8 DEF WriteFeedback, busVars
  <2> QED BY <2>1, <1>4, FreeWriter
<1>9. Out
  BY <1>5, <1>6, <1>7, <1>8
<1>10. BusInv'
  BY <1>1, <1>9 DEF WriteInv, BusInv
<1> HIDE DEF b
<1>11. WriterInv' /\ DeviceInv' /\ WritesStayApart' /\ CopyInv'
  BY <1>1, <1>9, WriterMoves
<1> QED BY <1>10, <1>11 DEF WriteInv

\* The device takes a write.  Where another writer holds a copy the whole register
\* is marked; otherwise the copy held what the device held.
LEMMA TakenApart ==
  ASSUME WriteInv, NEW w \in 1..Writers, writer[w].pc = "write", Takes(w), setup' = setup,
         NEW x \in {Free} \cup Busy, x.pc # "write", writer' = [writer EXCEPT ![w] = x]
  PROVE  WriterInv' /\ DeviceInv' /\ WritesStayApart' /\ CopyInv'
<1> DEFINE b == writer[w]
           t == b.cmd.tag
           other == \E o \in 1..Writers : o # w /\ writer[o].pc = "write" /\ setup.bits
<1>1. b \in Busy
  BY BusyWriter DEF WriteInv
<1>2. t \in Tags /\ b.cmd.v \in Values /\ b.copy \in [Tags -> Values]
  BY <1>1, BusyFacts
<1>3. /\ plc \in [Tags -> Values] /\ last \in [Tags -> Values] /\ clash \subseteq Tags
      /\ writer \in [1..Writers -> {Free} \cup Busy]
  BY DEF WriteInv, DeviceInv, WriterInv
<1>4. /\ plc' = [u \in Tags |-> IF u \in Register(t) THEN (IF u = t THEN b.cmd.v ELSE b.copy[u]) ELSE plc[u]]
      /\ last' = [last EXCEPT ![t] = b.cmd.v]
      /\ clash' = IF other THEN clash \cup Register(t) ELSE clash
  BY DEF Takes, NewRegister
<1>5. \A u \in Tags : plc[u] \in Values /\ b.copy[u] \in Values
  BY <1>2, <1>3
<1>6. Register(t) = IF setup.bits THEN Tags ELSE {t}
  BY DEF Register
<1>7. writer'[w] = x /\ \A o \in 1..Writers : o # w => writer'[o] = writer[o]
  BY <1>3
<1>8. /\ \A u \in Tags : u \notin clash => plc[u] = last[u]
      /\ \A o \in 1..Writers : setup.bits /\ writer[o].pc = "write" =>
           \A u \in Tags \ clash : writer[o].copy[u] = plc[u]
  BY DEF WriteInv, WritesStayApart, CopyInv
<1> HIDE DEF t, other, b
<1>9. WriterInv'
  BY WritersTyped DEF WriteInv, WriterSteps
<1>10. DeviceInv'
  <2>1. plc' \in [Tags -> Values]
    BY <1>2, <1>4, <1>5
  <2>2. last' \in [Tags -> Values]
    BY <1>2, <1>3, <1>4
  <2>3. clash' \in SUBSET Tags
    BY <1>2, <1>3, <1>4, <1>6
  <2> QED BY <2>1, <2>2, <2>3 DEF DeviceInv
<1>11. WritesStayApart'
  <2> SUFFICES ASSUME NEW u \in Tags, u \notin clash' PROVE plc'[u] = last'[u]
    BY DEF WritesStayApart
  <2>1. u \notin clash
    BY <1>4
  <2>2. plc[u] = last[u]
    BY <2>1, <1>8
  <2>3. CASE u = t
    BY <2>3, <1>3, <1>4, <1>6
  <2>4. CASE u # t
    <3>1. last'[u] = last[u]
      BY <2>4, <1>3, <1>4
    <3>2. CASE setup.bits
      <4>1. b.copy[u] = plc[u]
        BY <3>2, <2>1, <1>8 DEF b
      <4> QED BY <4>1, <3>1, <2>2, <2>4, <1>4
    <3>3. CASE ~setup.bits
      <4>1. u \notin Register(t)
        BY <3>3, <2>4, <1>6
      <4> QED BY <4>1, <3>1, <2>2, <1>4
    <3> QED BY <3>2, <3>3
  <2> QED BY <2>3, <2>4
<1>12. CopyInv'
  <2> SUFFICES ASSUME NEW o \in 1..Writers, setup.bits, writer'[o].pc = "write", NEW u \in Tags \ clash'
      PROVE  writer'[o].copy[u] = plc'[u]
    BY DEF CopyInv
  <2>1. o # w /\ writer[o].pc = "write"
    BY <1>7
  <2>2. other
    BY <2>1 DEF other
  <2>3. clash' = clash \cup Tags
    BY <2>2, <1>4, <1>6
  <2> QED BY <2>3
<1> QED BY <1>9, <1>10, <1>11, <1>12

LEMMA RegisterWritten ==
  ASSUME WriteInv, NEW w \in 1..Writers, WriteRegister(w)
  PROVE  WriteInv'
<1> DEFINE b == writer[w]
           s == [b EXCEPT !.pc = "state"]
<1>1. b.pc = "write" /\ b.pc # "free" /\ UNCHANGED <<setup, cmds>>
  BY DEF WriteRegister
<1>2. b \in Busy
  BY <1>1, BusyWriter DEF WriteInv
<1>3. s \in Busy /\ s.pc = "state"
  <2> HIDE DEF b
  <2>1. "state" \in WritePCs
    BY DEF WritePCs
  <2> QED BY <1>2, <2>1, BusyAt
<1>4. b.cmd \in Commands
  BY <1>2, BusyFacts
<1> HIDE DEF s
<1>5. ASSUME Takes(w), Told(b.cmd, TRUE), writer' = [writer EXCEPT ![w].pc = "state"]
      PROVE  WriterInv' /\ DeviceInv' /\ WritesStayApart' /\ CopyInv' /\ acks' \in Seq(Results)
  <2>1. writer' = [writer EXCEPT ![w] = s]
    BY <1>5 DEF s, WriteInv, WriterInv
  <2>2. s.pc # "write"
    BY <1>3
  <2>3. acks' \in Seq(Results)
    BY <1>4, <1>5, Acknowledged DEF WriteInv
  <2> QED BY <2>1, <2>2, <2>3, <1>1, <1>3, <1>5, TakenApart
<1>6. ASSUME Takes(w), WriteFails(w)
      PROVE  WriterInv' /\ DeviceInv' /\ WritesStayApart' /\ CopyInv' /\ acks' \in Seq(Results)
  <2>1. writer' = [writer EXCEPT ![w] = Free] /\ acks' \in Seq(Results)
    BY <1>1, <1>6, WriteFailed
  <2> QED BY <2>1, <1>1, <1>6, FreeWriter, TakenApart
<1>7. ASSUME WriteFails(w), UNCHANGED <<plc, last, clash>>
      PROVE  WriterInv' /\ DeviceInv' /\ WritesStayApart' /\ CopyInv' /\ acks' \in Seq(Results)
  <2>1. writer' = [writer EXCEPT ![w] = Free] /\ acks' \in Seq(Results)
    BY <1>1, <1>7, WriteFailed
  <2> QED BY <2>1, <1>1, <1>7, FreeWriter, WriterMoves
<1>8. WriterInv' /\ DeviceInv' /\ WritesStayApart' /\ CopyInv' /\ acks' \in Seq(Results)
  BY <1>5, <1>6, <1>7 DEF WriteRegister
<1>9. BusInv'
  BY <1>1, <1>8 DEF WriteInv, BusInv
<1> QED BY <1>8, <1>9 DEF WriteInv

\* The device changes a tag by itself.
LEMMA DeviceChanged ==
  ASSUME WriteInv, NEW t \in Tags, DeviceChanges(t)
  PROVE  WriteInv'
<1> DEFINE held == \E w \in 1..Writers : writer[w].pc = "write" /\ setup.bits
<1>1. /\ plc' = [plc EXCEPT ![t] = 1 - @] /\ last' = [last EXCEPT ![t] = 1 - plc[t]]
      /\ clash' = IF held THEN clash \cup Register(t) ELSE clash
      /\ UNCHANGED <<setup, writer, cmds, acks>>
  BY DEF DeviceChanges, busVars
<1>2. /\ plc \in [Tags -> Values] /\ last \in [Tags -> Values] /\ clash \subseteq Tags
  BY DEF WriteInv, DeviceInv
<1>3. Register(t) = IF setup.bits THEN Tags ELSE {t}
  BY DEF Register
<1>4. 1 - plc[t] \in Values
  BY <1>2 DEF Values
<1> HIDE DEF held
<1>5. DeviceInv'
  <2>1. plc' \in [Tags -> Values] /\ last' \in [Tags -> Values]
    BY <1>1, <1>2, <1>4
  <2>2. clash' \subseteq Tags
    BY <1>1, <1>2, <1>3
  <2> QED BY <2>1, <2>2 DEF DeviceInv
<1>6. WritesStayApart'
  <2> SUFFICES ASSUME NEW u \in Tags, u \notin clash' PROVE plc'[u] = last'[u]
    BY DEF WritesStayApart
  <2>1. plc[u] = last[u]
    BY <1>1 DEF WriteInv, WritesStayApart
  <2> QED BY <2>1, <1>1, <1>2
<1>7. CopyInv'
  <2> SUFFICES ASSUME NEW w \in 1..Writers, setup.bits, writer[w].pc = "write", NEW u \in Tags \ clash'
      PROVE  writer[w].copy[u] = plc'[u]
    BY <1>1 DEF CopyInv
  <2>1. held
    BY DEF held
  <2>2. clash' = clash \cup Tags
    BY <2>1, <1>1, <1>3
  <2> QED BY <2>2
<1> QED BY <1>1, <1>5, <1>6, <1>7 DEF WriteInv, BusInv, WriterInv

\* Commands that are sent, held back and lost, results that are taken.
LEMMA BusMoves ==
  ASSUME WriteInv, UNCHANGED <<setup, writer, plc, last, clash>>, BusInv'
  PROVE  WriteInv'
BY DEF WriteInv, WriterInv, DeviceInv, WritesStayApart, CopyInv

LEMMA Delayed ==
  ASSUME BusInv, LinkDelays
  PROVE  BusInv'
<1>1. Len(cmds) \in Nat /\ \A i \in 1..Len(cmds) : cmds[i] \in Commands
  BY LenProperties, ElementOfSeq DEF BusInv
<1>2. \A c \in Commands : [c EXCEPT !.age = @ + 1] \in Commands
  BY DEF Commands
<1>3. cmds' = [i \in 1..Len(cmds) |-> [cmds[i] EXCEPT !.age = @ + 1]] /\ UNCHANGED acks
  BY DEF LinkDelays
<1>4. cmds' \in [1..Len(cmds) -> Commands]
  BY <1>1, <1>2, <1>3
<1>5. cmds' \in Seq(Commands)
  BY <1>1, <1>4, SeqDef
<1> QED BY <1>3, <1>5 DEF BusInv

LEMMA CommandSent ==
  ASSUME BusInv, NEW c \in Commands, cmds' = Append(cmds, c), UNCHANGED acks
  PROVE  BusInv'
<1>1. Append(cmds, c) \in Seq(Commands)
  BY AppendProperties DEF BusInv
<1>2. cmds' \in Seq(Commands) /\ acks' \in Seq(Results)
  BY <1>1, Zenon DEF BusInv
<1> QED BY <1>2 DEF BusInv

LEMMA DriverWrites ==
  ASSUME WriteInv, DriverNext
  PROVE  WriteInv'
<1>1. CASE \/ Poll \/ RequestReload \/ LoadConfig \/ DeviceDown \/ DeviceUp
           \/ \E t \in Tags : HeartbeatElapses(t) \/ CooldownEnds(t)
  BY <1>1, LoopSteps, WritersOfLoop
<1>2. CASE HandleWriteCommand
  BY <1>2, HandledCommand
<1>3. CASE \E w \in 1..Writers : ExecuteWrite(w)
  BY <1>3, WriterSteps1, RegisterWritten DEF ExecuteWrite
<1>4. CASE \E t \in Tags : DeviceChanges(t)
  BY <1>4, DeviceChanged
<1>5. CASE \E t \in Tags, v \in Values : ScadaWrite(t, v)
  <2>1. PICK t \in Tags, v \in Values : ScadaWrite(t, v)
    BY <1>5
  <2> DEFINE c == [tag |-> t, v |-> v, type |-> JsonType, stamped |-> FALSE, age |-> 0, by |-> "scada"]
  <2>5. JsonType \in {"bool", "float64", "string"}
    BY DEF JsonType
  <2>6. "scada" \in By
    BY DEF By
  <2>2. c \in Commands
    BY <2>5, <2>6 DEF Commands
  <2>3. cmds' = Append(cmds, c) /\ UNCHANGED <<setup, writer, plc, last, clash, acks>>
    BY <2>1 DEF ScadaWrite, deviceVars
  <2> HIDE DEF c
  <2>4. BusInv'
    BY <2>2, <2>3, CommandSent DEF WriteInv
  <2> QED BY <2>3, <2>4, BusMoves
<1>6. CASE LinkDelays
  <2>1. UNCHANGED <<setup, writer, plc, last, clash>>
    BY <1>6 DEF LinkDelays, deviceVars
  <2> QED BY <2>1, <1>6, Delayed, BusMoves DEF WriteInv
<1>7. CASE CommandLost
  <2>1. UNCHANGED <<setup, writer, plc, last, clash, acks>> /\ cmds' \in Seq(Commands)
    BY <1>7, CommandFirst DEF CommandLost, deviceVars, WriteInv
  <2> QED BY <2>1, BusMoves DEF WriteInv, BusInv
<1> QED BY <1>1, <1>2, <1>3, <1>4, <1>5, <1>6, <1>7 DEF DriverNext

-----------------------------------------------------------------------------
(* Whose commands and results are under way.                                 *)

InWay(t, b) ==
  \/ \E i \in 1..Len(cmds) : cmds[i].tag = t /\ cmds[i].by = b
  \/ \E w \in 1..Writers : writer[w].pc # "free" /\ writer[w].cmd.tag = t /\ writer[w].cmd.by = b
  \/ \E i \in 1..Len(acks) : acks[i].tag = t /\ acks[i].by = b

LEMMA InWayUnder ==
  ASSUME NEW t, NEW b, InWay(t, b) PROVE UnderWay(t)
BY DEF InWay, UnderWay

\* A sequence with one more, and without its first.
LEMMA OneMore ==
  ASSUME NEW D, NEW q \in Seq(D), NEW e \in D, NEW i \in 1..Len(Append(q, e))
  PROVE  (i \in 1..Len(q) /\ Append(q, e)[i] = q[i]) \/ (i = Len(q) + 1 /\ Append(q, e)[i] = e)
<1>1. Len(Append(q, e)) = Len(q) + 1 /\ Len(q) \in Nat
  BY AppendProperties, LenProperties
<1>2. i \in 1..Len(q) \/ i = Len(q) + 1
  BY <1>1
<1> QED BY <1>2, AppendProperties

LEMMA OneLess ==
  ASSUME NEW D, NEW q \in Seq(D), q # <<>>
  PROVE  /\ Len(q) \in Nat /\ Len(Tail(q)) = Len(q) - 1 /\ 1 \in 1..Len(q) /\ Head(q) = q[1]
         /\ \A i \in 1..Len(Tail(q)) : i + 1 \in 1..Len(q) /\ Tail(q)[i] = q[i + 1]
<1>1. Len(q) \in Nat /\ Len(q) # 0
  BY LenProperties, EmptySeq
<1>2. Len(Tail(q)) = Len(q) - 1 /\ \A i \in 1..Len(Tail(q)) : Tail(q)[i] = q[i + 1]
  BY HeadTailProperties
<1>3. Head(q) = q[1]
  OBVIOUS
<1> QED BY <1>1, <1>2, <1>3

LEMMA WayOfLoop ==
  ASSUME WriterInv, UNCHANGED <<cmds, acks>>, UNCHANGED writer \/ writer' = Closed, NEW t, NEW b, InWay(t, b)'
  PROVE  InWay(t, b)
<1>1. CASE UNCHANGED writer
  BY <1>1 DEF InWay
<1>2. CASE writer' = Closed
  <2>1. \A w \in 1..Writers : writer'[w].pc = writer[w].pc /\ (writer[w].pc # "free" => writer'[w].cmd = writer[w].cmd)
    BY <1>2, ClosedWriters
  <2> QED BY <2>1 DEF InWay
<1> QED BY <1>1, <1>2

LEMMA WayOfHandled ==
  ASSUME BusInv, WriterInv, HandleWriteCommand, NEW t, NEW b, InWay(t, b)'
  PROVE  InWay(t, b)
<1> DEFINE cmd == Head(cmds)
           x == [pc |-> "begin", cmd |-> cmd, live |-> FALSE, copy |-> NoCopy]
<1>1. cmds # <<>> /\ cmds' = Tail(cmds) /\ cmds \in Seq(Commands) /\ cmd \in Commands
  BY CommandFirst DEF HandleWriteCommand, BusInv
<1>2. /\ 1 \in 1..Len(cmds) /\ cmd = cmds[1]
      /\ \A i \in 1..Len(cmds') : i + 1 \in 1..Len(cmds) /\ cmds'[i] = cmds[i + 1]
  BY <1>1, OneLess
<1>3. cmd.tag = t /\ cmd.by = b => InWay(t, b)
  BY <1>2 DEF InWay
<1>4. (\E i \in 1..Len(cmds') : cmds'[i].tag = t /\ cmds'[i].by = b) => InWay(t, b)
  BY <1>2 DEF InWay
<1>5. CASE \E i \in 1..Len(acks') : acks'[i].tag = t /\ acks'[i].by = b
  <2>1. CASE UNCHANGED acks
    BY <1>5, <2>1 DEF InWay
  <2>2. CASE ~UNCHANGED acks
    <3>1. Told(cmd, FALSE)
      BY <2>2 DEF HandleWriteCommand
    <3>2. acks' = Append(acks, [tag |-> cmd.tag, ok |-> FALSE, by |-> cmd.by])
      BY <3>1, <2>2 DEF Told
    <3>3. acks \in Seq(Results) /\ [tag |-> cmd.tag, ok |-> FALSE, by |-> cmd.by] \in Results
      BY <1>1 DEF BusInv, Commands, Results
    <3> HIDE DEF cmd
    <3>4. PICK i \in 1..Len(acks') : acks'[i].tag = t /\ acks'[i].by = b
      BY <1>5
    <3>5. CASE i \in 1..Len(acks) /\ acks'[i] = acks[i]
      BY <3>4, <3>5 DEF InWay
    <3>6. CASE acks'[i] = [tag |-> cmd.tag, ok |-> FALSE, by |-> cmd.by]
      BY <3>4, <3>6, <1>3
    <3> QED BY <3>2, <3>3, <3>5, <3>6, OneMore
  <2> QED BY <2>1, <2>2
<1>6. CASE \E w \in 1..Writers : writer'[w].pc # "free" /\ writer'[w].cmd.tag = t /\ writer'[w].cmd.by = b
  <2>1. CASE UNCHANGED writer
    BY <1>6, <2>1 DEF InWay
  <2>2. CASE \E w \in 1..Writers : writer' = [writer EXCEPT ![w] = x]
    <3>1. PICK w \in 1..Writers : writer' = [writer EXCEPT ![w] = x]
      BY <2>2
    <3>2. writer'[w] = x /\ \A o \in 1..Writers : o # w => writer'[o] = writer[o]
      BY <3>1 DEF WriterInv
    <3>3. x.cmd = cmd
      OBVIOUS
    <3> HIDE DEF x, cmd
    <3> QED BY <3>2, <3>3, <1>3, <1>6 DEF InWay
  <2> QED BY <2>1, <2>2 DEF HandleWriteCommand
<1> QED BY <1>4, <1>5, <1>6 DEF InWay

\* executeWrite answers for the command it holds, and keeps it until it is free.
LEMMA WriterWay ==
  ASSUME WriteInv, NEW w \in 1..Writers, ExecuteWrite(w)
  PROVE  LET c == writer[w].cmd
         IN  /\ writer[w].pc # "free" /\ c \in Commands /\ UNCHANGED cmds
             /\ acks' = acks \/ \E ok \in BOOLEAN : acks' = Append(acks, [tag |-> c.tag, ok |-> ok, by |-> c.by])
             /\ \E x : writer' = [writer EXCEPT ![w] = x] /\ (x.pc # "free" => x.cmd = c)
<1> DEFINE b == writer[w]
           c == b.cmd
           Keeps == \E x : writer' = [writer EXCEPT ![w] = x] /\ (x.pc # "free" => x.cmd = c)
           Tells == acks' = acks \/ \E ok \in BOOLEAN : acks' = Append(acks, [tag |-> c.tag, ok |-> ok, by |-> c.by])
<1>1. b.pc # "free" /\ UNCHANGED cmds
  BY DEF ExecuteWrite, WriteBegin, WriteCopy, WriteRegister, WriteState, WriteCooldown, WriteFeedback, deviceVars, busVars
<1>2. b \in Busy /\ writer \in [1..Writers -> {Free} \cup Busy]
  BY <1>1, BusyWriter DEF WriteInv, WriterInv
<1>3. c \in Commands
  BY <1>2, BusyFacts
<1>0. \A p : [b EXCEPT !.pc = p].cmd = c /\ [b EXCEPT !.pc = p, !.live = TRUE].cmd = c
  BY <1>2, BusyCommand
<1>4. \A ok \in BOOLEAN : Told(c, ok) => Tells
  BY DEF Told
<1>5. WriteFails(w) => Keeps /\ Tells
  <2>1. writer' = [writer EXCEPT ![w] = Free] => Keeps
    BY FreeWriter
  <2> QED BY <2>1, <1>4 DEF WriteFails
<1>6. \A p \in {"begin", "copy", "write", "state", "cool", "feedback"} :
        writer' = [writer EXCEPT ![w].pc = p] => Keeps
  <2> SUFFICES ASSUME NEW p \in {"begin", "copy", "write", "state", "cool", "feedback"}, writer' = [writer EXCEPT ![w].pc = p]
      PROVE Keeps
    OBVIOUS
  <2>1. writer' = [writer EXCEPT ![w] = [b EXCEPT !.pc = p]]
    BY <1>2
  <2>2. [b EXCEPT !.pc = p].cmd = c
    BY <1>0
  <2> QED BY <2>1, <2>2
<1>7. ASSUME WriteBegin(w), client PROVE Keeps /\ Tells
  <2> DEFINE p == IF setup.bits THEN "copy" ELSE "write"
  <2>1. writer' = [writer EXCEPT ![w] = [b EXCEPT !.pc = p, !.live = TRUE]] /\ acks' = acks
    BY <1>2, <1>7 DEF WriteBegin
  <2>2. p \in {"begin", "copy", "write", "state", "cool", "feedback"}
    OBVIOUS
  <2> HIDE DEF p
  <2>3. [b EXCEPT !.pc = p, !.live = TRUE].cmd = c
    BY <1>0, <2>2
  <2> QED BY <2>1, <2>3
<1>8. ASSUME WriteCopy(w), ~WriteFails(w) PROVE Keeps /\ Tells
  <2>1. writer' = [writer EXCEPT ![w] = [b EXCEPT !.pc = "write", !.copy = plc]] /\ acks' = acks
    BY <1>2, <1>8 DEF WriteCopy
  <2>2. [b EXCEPT !.pc = "write", !.copy = plc].cmd = c
    BY <1>2, BusyCopies DEF WriteInv, DeviceInv
  <2> QED BY <2>1, <2>2
<1>9. ASSUME WriteRegister(w), ~WriteFails(w) PROVE Keeps /\ Tells
  <2>1. writer' = [writer EXCEPT ![w].pc = "state"] /\ Told(c, TRUE)
    BY <1>9 DEF WriteRegister
  <2> QED BY <2>1, <1>4, <1>6
<1>10. ASSUME WriteState(w) \/ WriteCooldown(w) PROVE Keeps /\ Tells
  <2>1. PICK p \in {"cool", "feedback"} : writer' = [writer EXCEPT ![w].pc = p] /\ acks' = acks
    BY <1>10 DEF WriteState, WriteCooldown, busVars
  <2> QED BY <2>1, <1>6
<1>11. ASSUME WriteFeedback(w) PROVE Keeps /\ Tells
  <2>1. writer' = [writer EXCEPT ![w] = Free] /\ acks' = acks
    BY <1>11 DEF WriteFeedback, busVars
  <2> QED BY <2>1, FreeWriter
<1>12. WriteBegin(w) /\ ~client => WriteFails(w)
  BY DEF WriteBegin
<1> HIDE DEF Keeps, Tells
<1>13. Keeps /\ Tells
  BY <1>5, <1>7, <1>8, <1>9, <1>10, <1>11, <1>12 DEF ExecuteWrite
<1> QED BY <1>1, <1>3, <1>13 DEF Keeps, Tells

LEMMA WayOfWriter ==
  ASSUME WriteInv, NEW w \in 1..Writers, ExecuteWrite(w), NEW t, NEW b, InWay(t, b)'
  PROVE  InWay(t, b)
<1> DEFINE c == writer[w].cmd
<1>1. writer[w].pc # "free" /\ c \in Commands /\ UNCHANGED cmds
  BY WriterWay
<1>2. c.tag = t /\ c.by = b => InWay(t, b)
  BY <1>1 DEF InWay
<1>3. CASE \E i \in 1..Len(acks') : acks'[i].tag = t /\ acks'[i].by = b
  <2>1. CASE acks' = acks
    BY <1>3, <2>1 DEF InWay
  <2>2. CASE \E ok \in BOOLEAN : acks' = Append(acks, [tag |-> c.tag, ok |-> ok, by |-> c.by])
    <3>1. PICK ok \in BOOLEAN : acks' = Append(acks, [tag |-> c.tag, ok |-> ok, by |-> c.by])
      BY <2>2
    <3> DEFINE r == [tag |-> c.tag, ok |-> ok, by |-> c.by]
    <3>2. acks \in Seq(Results) /\ r \in Results /\ r.tag = c.tag /\ r.by = c.by
      BY <1>1 DEF WriteInv, BusInv, Commands, Results
    <3> HIDE DEF r, c
    <3>3. PICK i \in 1..Len(acks') : acks'[i].tag = t /\ acks'[i].by = b
      BY <1>3
    <3>4. acks' = Append(acks, r)
      BY <3>1 DEF r
    <3>5. CASE i \in 1..Len(acks) /\ acks'[i] = acks[i]
      BY <3>3, <3>5 DEF InWay
    <3>6. CASE acks'[i] = r
      BY <3>2, <3>3, <3>6, <1>2
    <3> QED BY <3>2, <3>4, <3>5, <3>6, OneMore
  <2> QED BY <2>1, <2>2, WriterWay
<1>4. CASE \E o \in 1..Writers : writer'[o].pc # "free" /\ writer'[o].cmd.tag = t /\ writer'[o].cmd.by = b
  <2>1. PICK x : writer' = [writer EXCEPT ![w] = x] /\ (x.pc # "free" => x.cmd = c)
    BY WriterWay
  <2>2. writer'[w] = x /\ \A o \in 1..Writers : o # w => writer'[o] = writer[o]
    BY <2>1 DEF WriteInv, WriterInv
  <2> HIDE DEF c
  <2> QED BY <1>2, <1>4, <2>1, <2>2 DEF InWay
<1> QED BY <1>1, <1>3, <1>4 DEF InWay

-----------------------------------------------------------------------------
(* LoadIsAnswered.  A load that waits for a tag which nobody else writes is  *)
(* the only one with a command or a result of it under way.  Its tags are    *)
(* answered, pending or still to be sent, each in one of these ways only.    *)

TagsIn(q) == {q[i].tag : i \in 1..Len(q)}
AllBy(q, l) == \A i \in 1..Len(q) : q[i].by = l
OncePerTag(q) == \A i, j \in 1..Len(q) : q[i].tag = q[j].tag => i = j

Waits(t, l) ==
  /\ load[l].pc = "publish" /\ t \in TagsOf(l) /\ t \notin TagsIn(load[l].chan)
  /\ \A b \in By : InWay(t, b) => b = l /\ t \in load[l].pending

WaitInv == \A t \in Tags \ mixed : \A l \in Loads : waiters[t] = l => Waits(t, l)

\* The books of a load.
Books(r, tags, l) ==
  /\ AllBy(r.results, l) /\ AllBy(r.chan, l)
  /\ OncePerTag(r.chan) /\ OncePerTag(r.todo)
  /\ Len(r.results) = Cardinality(TagsIn(r.results))
  /\ TagsIn(r.chan) \subseteq r.pending
  /\ r.pending \cap TagsIn(r.results) = {}
  /\ TagsIn(r.todo) \cap (r.pending \cup TagsIn(r.results)) = {}
  /\ tags = TagsIn(r.results) \cup r.pending \cup TagsIn(r.todo)
  /\ r.remaining = Cardinality(r.pending)

AnsweredBy(q, tags, l) == Len(q) = Cardinality(tags) /\ TagsIn(q) = tags /\ AllBy(q, l)

BooksInv ==
  \A l \in Loads : TagsOf(l) \cap mixed = {} =>
    /\ load[l].pc = "publish" => Books(load[l], TagsOf(l), l)
    /\ load[l].pc = "done" => AnsweredBy(load[l].results, TagsOf(l), l)

OwnInv == \A t \in Tags, l \in Loads : waiters[t] = l => t \in TagsOf(l)

AnswerInv == WaitInv /\ BooksInv /\ OwnInv

\* The fields of a load's record.
LEMMA LoadKinds ==
  ASSUME NEW r \in LoadStates
  PROVE  /\ r.pc \in {"new", "publish", "done"} /\ r.todo \in Seq(Rows) /\ r.pending \in SUBSET Tags
         /\ r.remaining \in Nat /\ r.chan \in Seq(Results) /\ r.results \in Seq(Results)
<1>1. /\ r.pc \in LoadPCs /\ r.todo \in RowSeqs /\ r.pending \in TagSets
      /\ r.remaining \in Nat /\ r.chan \in ResultSeqs /\ r.results \in ResultSeqs
  BY DEF LoadStates
<1> QED BY <1>1 DEF LoadPCs, RowSeqs, TagSets, ResultSeqs

-----------------------------------------------------------------------------
(* The tags of rows and results. *)

LEMMA TagsEmpty ==
  ASSUME NEW l
  PROVE  TagsIn(<<>>) = {} /\ AllBy(<<>>, l) /\ OncePerTag(<<>>)
<1>1. Len(<<>>) = 0 /\ 1..0 = {}
  OBVIOUS
<1> QED BY <1>1 DEF TagsIn, AllBy, OncePerTag

LEMMA TagsAppend ==
  ASSUME NEW D, NEW q \in Seq(D), NEW e \in D, NEW l
  PROVE  /\ TagsIn(Append(q, e)) = TagsIn(q) \cup {e.tag}
         /\ AllBy(q, l) /\ e.by = l => AllBy(Append(q, e), l)
         /\ OncePerTag(q) /\ e.tag \notin TagsIn(q) => OncePerTag(Append(q, e))
<1> DEFINE a == Append(q, e)
           n == Len(q)
<1>1. n \in Nat /\ Len(a) = n + 1 /\ a[n + 1] = e /\ \A i \in 1..n : a[i] = q[i]
  BY AppendProperties, LenProperties
<1>2. \A i \in 1..Len(a) : i \in 1..n \/ i = n + 1
  BY <1>1
<1>3. n + 1 \in 1..Len(a) /\ \A i \in 1..n : i \in 1..Len(a)
  BY <1>1
<1> HIDE DEF a, n
<1>4. {a[i].tag : i \in 1..Len(a)} = {q[i].tag : i \in 1..n} \cup {e.tag}
  <2>1. \A x \in {a[i].tag : i \in 1..Len(a)} : x \in {q[i].tag : i \in 1..n} \cup {e.tag}
    BY <1>1, <1>2
  <2>2. \A x \in {q[i].tag : i \in 1..n} : x \in {a[i].tag : i \in 1..Len(a)}
    BY <1>1, <1>3
  <2>3. e.tag \in {a[i].tag : i \in 1..Len(a)}
    BY <1>1, <1>3
  <2> QED BY <2>1, <2>2, <2>3
<1>5. (\A i \in 1..n : q[i].by = l) /\ e.by = l => \A i \in 1..Len(a) : a[i].by = l
  BY <1>1, <1>2
<1>6. ASSUME \A i, j \in 1..n : q[i].tag = q[j].tag => i = j, \A i \in 1..n : q[i].tag # e.tag
      PROVE  \A i, j \in 1..Len(a) : a[i].tag = a[j].tag => i = j
  BY <1>1, <1>2, <1>6
<1> QED BY <1>4, <1>5, <1>6 DEF TagsIn, AllBy, OncePerTag, a, n

LEMMA TagsFirst ==
  ASSUME NEW D, NEW q \in Seq(D), q # <<>>, NEW l
  PROVE  /\ Head(q) \in D /\ Tail(q) \in Seq(D)
         /\ TagsIn(q) = TagsIn(Tail(q)) \cup {Head(q).tag}
         /\ AllBy(q, l) => AllBy(Tail(q), l) /\ Head(q).by = l
         /\ OncePerTag(q) => OncePerTag(Tail(q)) /\ Head(q).tag \notin TagsIn(Tail(q))
<1> DEFINE r == Tail(q)
           h == Head(q)
           n == Len(q)
<1>1. n \in Nat /\ Len(r) = n - 1 /\ 1 \in 1..n /\ h = q[1] /\ h \in D /\ r \in Seq(D)
  BY OneLess, HeadTailProperties
<1>2. \A i \in 1..Len(r) : i + 1 \in 1..n /\ r[i] = q[i + 1] /\ i \in Nat /\ i + 1 # 1
  BY OneLess
<1>3. \A i \in 1..n : i = 1 \/ (i - 1 \in 1..Len(r) /\ r[i - 1] = q[i])
  <2>1. \A i \in 1..n : i = 1 \/ (i - 1 \in 1..Len(r) /\ (i - 1) + 1 = i)
    BY <1>1
  <2> QED BY <2>1, <1>2
<1> HIDE DEF r, h, n
<1>4. {q[i].tag : i \in 1..n} = {r[i].tag : i \in 1..Len(r)} \cup {h.tag}
  <2>1. \A i \in 1..n : q[i].tag \in {r[k].tag : k \in 1..Len(r)} \cup {h.tag}
    <3> TAKE i \in 1..n
    <3>1. CASE i = 1
      BY <3>1, <1>1
    <3>2. CASE i # 1
      <4>1. i - 1 \in 1..Len(r) /\ q[i] = r[i - 1]
        BY <3>2, <1>3
      <4> QED BY <4>1
    <3> QED BY <3>1, <3>2
  <2>2. \A x \in {r[i].tag : i \in 1..Len(r)} : x \in {q[i].tag : i \in 1..n}
    BY <1>2
  <2>3. h.tag \in {q[i].tag : i \in 1..n}
    BY <1>1
  <2> QED BY <2>1, <2>2, <2>3
<1>5. (\A i \in 1..n : q[i].by = l) => (\A i \in 1..Len(r) : r[i].by = l) /\ h.by = l
  BY <1>1, <1>2
<1>6. ASSUME \A i, j \in 1..n : q[i].tag = q[j].tag => i = j
      PROVE  /\ \A i, j \in 1..Len(r) : r[i].tag = r[j].tag => i = j
             /\ \A i \in 1..Len(r) : r[i].tag # h.tag
  <2>1. \A i, j \in 1..Len(r) : r[i].tag = r[j].tag => i + 1 = j + 1
    BY <1>2, <1>6
  <2>2. \A i \in 1..Len(r) : r[i].tag # h.tag
    BY <1>1, <1>2, <1>6
  <2> QED BY <2>1, <2>2, <1>2
<1> QED BY <1>1, <1>4, <1>5, <1>6 DEF TagsIn, AllBy, OncePerTag, r, h, n

LEMMA TagsConcat ==
  ASSUME NEW D, NEW q \in Seq(D), NEW s \in Seq(D), NEW l
  PROVE  /\ q \o s \in Seq(D) /\ Len(q \o s) = Len(q) + Len(s)
         /\ TagsIn(q \o s) = TagsIn(q) \cup TagsIn(s)
         /\ AllBy(q, l) /\ AllBy(s, l) => AllBy(q \o s, l)
<1> DEFINE a == q \o s
           n == Len(q)
           m == Len(s)
<1>1. /\ n \in Nat /\ m \in Nat /\ a \in Seq(D) /\ Len(a) = n + m
      /\ \A i \in 1..(n + m) : a[i] = IF i <= n THEN q[i] ELSE s[i - n]
  BY ConcatProperties, LenProperties
<1>2. \A i \in 1..n : i \in 1..(n + m) /\ i <= n
  BY <1>1
<1>3. \A i \in 1..m : i + n \in 1..(n + m) /\ ~(i + n <= n) /\ (i + n) - n = i
  BY <1>1
<1>4. \A i \in 1..(n + m) : (i \in 1..n /\ i <= n) \/ (~(i <= n) /\ i - n \in 1..m)
  BY <1>1
<1> HIDE DEF a, n, m
<1>5. /\ \A i \in 1..n : a[i] = q[i]
      /\ \A i \in 1..m : a[i + n] = s[i]
      /\ \A i \in 1..(n + m) : (i \in 1..n /\ a[i] = q[i]) \/ (i - n \in 1..m /\ a[i] = s[i - n])
  BY <1>1, <1>2, <1>3, <1>4
<1>6. {a[i].tag : i \in 1..(n + m)} = {q[i].tag : i \in 1..n} \cup {s[i].tag : i \in 1..m}
  <2>1. \A x \in {a[i].tag : i \in 1..(n + m)} : x \in {q[i].tag : i \in 1..n} \cup {s[i].tag : i \in 1..m}
    BY <1>5
  <2>2. \A x \in {q[i].tag : i \in 1..n} : x \in {a[i].tag : i \in 1..(n + m)}
    BY <1>2, <1>5
  <2>3. \A x \in {s[i].tag : i \in 1..m} : x \in {a[i].tag : i \in 1..(n + m)}
    BY <1>3, <1>5
  <2> QED BY <2>1, <2>2, <2>3
<1>7. (\A i \in 1..n : q[i].by = l) /\ (\A i \in 1..m : s[i].by = l) => \A i \in 1..(n + m) : a[i].by = l
  BY <1>5
<1> QED BY <1>1, <1>6, <1>7 DEF TagsIn, AllBy, a, n, m

LEMMA TagsTyped ==
  ASSUME NEW q \in Seq(Results) \cup Seq(Rows)
  PROVE  TagsIn(q) \subseteq Tags
<1>1. CASE q \in Seq(Results)
  <2>1. \A i \in 1..Len(q) : q[i] \in Results
    BY <1>1, ElementOfSeq
  <2> QED BY <2>1 DEF TagsIn, Results
<1>2. CASE q \in Seq(Rows)
  <2>1. \A i \in 1..Len(q) : q[i] \in Rows
    BY <1>2, ElementOfSeq
  <2> QED BY <2>1 DEF TagsIn, Rows
<1> QED BY <1>1, <1>2

\* A recipe has one row for a tag.
LEMMA RecipeRows ==
  ASSUME ConfigInv, NEW l \in Loads
  PROVE  /\ RecipeOf(l) \in Seq(Rows) /\ OncePerTag(RecipeOf(l))
         /\ TagsOf(l) = TagsIn(RecipeOf(l)) /\ TagsOf(l) \subseteq Tags
<1> DEFINE r == RecipeOf(l)
<1>1. Recipe(r)
  BY RecipeAssumption DEF ConfigInv, RecipeOf
<1>2. TagsOf(l) = TagsIn(r)
  BY DEF TagsOf, TagsIn
<1> HIDE DEF r
<1>3. r \in Seq(Rows) /\ \A i, j \in DOMAIN r : r[i].tag = r[j].tag => i = j
  BY <1>1 DEF Recipe, Rows
<1>4. DOMAIN r = 1..Len(r)
  BY <1>3, LenProperties
<1>5. OncePerTag(r)
  BY <1>3, <1>4 DEF OncePerTag
<1> QED BY <1>2, <1>3, <1>5, TagsTyped DEF r

\* What is pending when the time is over.
LEMMA PendingResults ==
  ASSUME NEW p \in SUBSET Tags, NEW l \in Loads
  PROVE  LET s == SetToSeq({Result(t, FALSE, l) : t \in p})
         IN  s \in Seq(Results) /\ TagsIn(s) = p /\ AllBy(s, l) /\ Len(s) = Cardinality(p)
<1> DEFINE S == {Result(t, FALSE, l) : t \in p}
           s == SetToSeq(S)
           n == Cardinality(S)
           h == [t \in p |-> Result(t, FALSE, l)]
<1>1. IsFiniteSet(p)
  BY DriverAssumption, FS_Subset
<1>2. \A t \in p : Result(t, FALSE, l) \in Results /\ Result(t, FALSE, l).tag = t /\ Result(t, FALSE, l).by = l
  BY DEF Result, Results, By
<1>3. h \in Surjection(p, S) /\ h \in Injection(p, S)
  <2>1. h \in [p -> S] /\ \A x \in S : \E t \in p : h[t] = x
    OBVIOUS
  <2>2. \A a, b \in p : h[a] = h[b] => a = b
    BY <1>2
  <2>3. h \in Surjection(p, S)
    BY <2>1 DEF Surjection
  <2>4. h \in Injection(p, S)
    BY <2>1, <2>2 DEF Injection, IsInjective
  <2> QED BY <2>3, <2>4
<1>4. IsFiniteSet(S) /\ Cardinality(S) = Cardinality(p)
  BY <1>1, <1>3, FS_Surjection
<1>5. \A x \in S : x \in Results /\ x.tag \in p /\ x.by = l
  BY <1>2
<1>6. \A t \in p : \E x \in S : x.tag = t
  BY <1>2
<1> HIDE DEF S, h
<1>7. n \in Nat /\ \E g : g \in Bijection(1..n, S)
  BY <1>4, FS_CardinalityType, Zenon DEF ExistsBijection
<1>8. s \in [1..n -> S] /\ IsInjective(s)
  BY <1>7, Zenon DEF SetToSeq, Bijection, Injection
<1>9. s \in Injection(1..n, S) /\ IsFiniteSet(1..n) /\ Cardinality(1..n) = n
  BY <1>7, <1>8, FS_Interval DEF Injection
<1> HIDE DEF s
<1>10. \A x \in S : \E i \in 1..n : s[i] = x
  <2>1. s \in Surjection(1..n, S)
    BY <1>9, <1>4, FS_Injection
  <2> QED BY <2>1 DEF Surjection
<1>11. s \in [1..n -> Results]
  BY <1>5, <1>8
<1>12. s \in Seq(Results) /\ Len(s) = n
  BY <1>7, <1>11, SeqDef
<1>13. TagsIn(s) = p
  <2>1. \A i \in 1..n : s[i].tag \in p
    BY <1>5, <1>8
  <2>2. \A t \in p : \E i \in 1..n : s[i].tag = t
    BY <1>6, <1>10
  <2> QED BY <2>1, <2>2, <1>12 DEF TagsIn
<1>14. AllBy(s, l)
  BY <1>5, <1>8, <1>12 DEF AllBy
<1> QED BY <1>4, <1>12, <1>13, <1>14 DEF s, S

-----------------------------------------------------------------------------
(* The steps of core-api. *)

\* A command that is sent: the tag is mixed, or nobody else has to do with it.
Free1(t, by) == t \in Tags /\ ~UnderWay(t) /\ waiters[t] \in {Nobody, by}

LEMMA CommandPublished ==
  ASSUME BusInv, LoadInv, NEW c \in Commands, Publishes(c), UNCHANGED <<writer, acks>>
  PROVE  /\ BusInv' /\ mixed \subseteq mixed' /\ mixed' \subseteq Tags
         /\ \A t \in Tags, b \in By : InWay(t, b)' => InWay(t, b) \/ (t = c.tag /\ b = c.by)
         /\ c.tag \notin mixed' => Free1(c.tag, c.by)
<1>1. cmds' = Append(cmds, c) /\ cmds \in Seq(Commands) /\ c.tag \in Tags /\ mixed \subseteq Tags
  BY DEF Publishes, BusInv, Commands, LoadInv
<1>2. BusInv'
  BY <1>1, CommandSent
<1>3. mixed' = IF UnderWay(c.tag) \/ waiters[c.tag] \notin {Nobody, c.by} THEN mixed \cup {c.tag} ELSE mixed
  BY DEF Publishes
<1>4. mixed \subseteq mixed' /\ mixed' \subseteq Tags /\ (c.tag \notin mixed' => Free1(c.tag, c.by))
  BY <1>1, <1>3 DEF Free1
<1>5. ASSUME NEW t \in Tags, NEW b \in By, InWay(t, b)', ~(t = c.tag /\ b = c.by)
      PROVE  InWay(t, b)
  <2>1. CASE \E i \in 1..Len(cmds') : cmds'[i].tag = t /\ cmds'[i].by = b
    <3>1. PICK i \in 1..Len(cmds') : cmds'[i].tag = t /\ cmds'[i].by = b
      BY <2>1
    <3>2. i \in 1..Len(cmds) /\ cmds'[i] = cmds[i]
      BY <1>1, <1>5, <3>1, OneMore
    <3> QED BY <3>1, <3>2 DEF InWay
  <2>2. CASE ~ \E i \in 1..Len(cmds') : cmds'[i].tag = t /\ cmds'[i].by = b
    BY <2>2, <1>5 DEF InWay
  <2> QED BY <2>1, <2>2
<1> QED BY <1>2, <1>4, <1>5

\* Steps of others: what comes under way is of a tag that is mixed or has no waiter.
LEMMA OthersAnswered ==
  ASSUME AnswerInv, LoadInv, UNCHANGED <<setup, waiters, load>>, mixed \subseteq mixed', mixed' \subseteq Tags,
         \A t \in Tags \ mixed', b \in By : InWay(t, b)' => InWay(t, b) \/ waiters[t] = Nobody
  PROVE  LoadInv' /\ AnswerInv'
<1>1. LoadInv'
  BY DEF LoadInv
<1>2. \A l \in Loads : TagsOf(l)' = TagsOf(l)
  BY DEF TagsOf, RecipeOf
<1>3. WaitInv'
  <2> SUFFICES ASSUME NEW t \in Tags \ mixed', NEW l \in Loads, waiters[t] = l
      PROVE  Waits(t, l)'
    BY DEF WaitInv
  <2>1. Waits(t, l) /\ waiters[t] # Nobody
    BY RecipeAssumption DEF AnswerInv, WaitInv
  <2> QED BY <2>1, <1>2 DEF Waits
<1>4. BooksInv'
  <2> SUFFICES ASSUME NEW l \in Loads, TagsOf(l) \cap mixed' = {}
      PROVE  /\ load[l].pc = "publish" => Books(load[l], TagsOf(l), l)
             /\ load[l].pc = "done" => AnsweredBy(load[l].results, TagsOf(l), l)
    BY <1>2 DEF BooksInv
  <2>1. TagsOf(l) \cap mixed = {}
    OBVIOUS
  <2> QED BY <2>1 DEF AnswerInv, BooksInv
<1>5. OwnInv'
  BY <1>2 DEF AnswerInv, OwnInv
<1> QED BY <1>1, <1>3, <1>4, <1>5 DEF AnswerInv

\* What a step of core-api leaves alone.
Elsewhere == <<setup, config, plc, alive, client, prev, cool, due, shown, poll, writer, reloadDue, last, clash>>

LEMMA SingleWrite ==
  ASSUME WriteInv, LoadInv, AnswerInv, NEW t \in Tags, NEW v \in Values,
         OneWrite(t, v) \/ \E age \in 0..(MaxAge + 1) : ExternalWrite(t, v, age)
  PROVE  WriteInv' /\ LoadInv' /\ AnswerInv'
<1>1. PICK c \in Commands : /\ Publishes(c) /\ c.by \in {"operator", "caller"}
                            /\ UNCHANGED <<Elsewhere, acks, waiters, load>>
  <2>1. JsonType \in {"bool", "float64", "string"} /\ "operator" \in By /\ "caller" \in By
    BY DEF JsonType, By
  <2>2. CASE OneWrite(t, v)
    <3> DEFINE c == Command(t, v, JsonType, "operator")
    <3>1. c \in Commands /\ c.by = "operator"
      BY <2>1 DEF Command, Commands
    <3>2. Publishes(c) /\ UNCHANGED <<Elsewhere, acks, waiters, load>>
      BY <2>2 DEF OneWrite, Elsewhere, driverVars, deviceVars
    <3> QED BY <3>1, <3>2
  <2>3. CASE \E age \in 0..(MaxAge + 1) : ExternalWrite(t, v, age)
    <3>1. PICK age \in 0..(MaxAge + 1) : ExternalWrite(t, v, age)
      BY <2>3
    <3> DEFINE c == [Command(t, v, JsonType, "caller") EXCEPT !.age = age]
    <3>2. age \in Nat
      BY DriverAssumption
    <3>3. Command(t, v, JsonType, "caller") \in Commands
      BY <2>1 DEF Command, Commands
    <3>4. c \in Commands /\ c.by = "caller"
      BY <3>2, <3>3 DEF Commands, Command
    <3>5. Publishes(c) /\ UNCHANGED <<Elsewhere, acks, waiters, load>>
      BY <3>1 DEF ExternalWrite, Elsewhere, driverVars, deviceVars
    <3> QED BY <3>4, <3>5
  <2> QED BY <2>2, <2>3
<1>2. UNCHANGED <<setup, writer, plc, last, clash, acks, waiters, load>>
  BY <1>1 DEF Elsewhere
<1>3. /\ BusInv' /\ mixed \subseteq mixed' /\ mixed' \subseteq Tags
      /\ \A u \in Tags, b \in By : InWay(u, b)' => InWay(u, b) \/ (u = c.tag /\ b = c.by)
      /\ c.tag \notin mixed' => Free1(c.tag, c.by)
  BY <1>1, <1>2, CommandPublished DEF WriteInv
<1>4. \A u \in Tags \ mixed', b \in By : InWay(u, b)' => InWay(u, b) \/ waiters[u] = Nobody
  <2> SUFFICES ASSUME NEW u \in Tags \ mixed', NEW b \in By, InWay(u, b)', ~InWay(u, b)
      PROVE  waiters[u] = Nobody
    OBVIOUS
  <2>1. waiters[u] \in {Nobody, c.by} /\ waiters[u] \in Loads \cup {Nobody}
    BY <1>3 DEF Free1, LoadInv
  <2> QED BY <2>1, <1>1, RecipeAssumption
<1>5. WriteInv'
  BY <1>2, <1>3, BusMoves
<1> QED BY <1>2, <1>3, <1>4, <1>5, OthersAnswered

\* A step of one load, or of its channel.
LEMMA LoadMoved ==
  ASSUME LoadInv, AnswerInv, setup' = setup, NEW l \in Loads, NEW y \in LoadStates, load' = [load EXCEPT ![l] = y],
         mixed \subseteq mixed', mixed' \subseteq Tags, waiters' \in [Tags -> Loads \cup {Nobody}],
         \A t \in Tags, k \in Loads : waiters'[t] = k => waiters[t] = k \/ (k = l /\ t \in TagsOf(l)),
         \A t \in Tags \ mixed' : \A k \in Loads \ {l} :
           waiters'[t] = k => waiters[t] = k /\ \A b \in By : InWay(t, b)' => InWay(t, b),
         \A t \in Tags \ mixed' : waiters'[t] = l => Waits(t, l)',
         TagsOf(l) \cap mixed' = {} =>
           /\ y.pc = "publish" => Books(y, TagsOf(l), l)
           /\ y.pc = "done" => AnsweredBy(y.results, TagsOf(l), l)
  PROVE  LoadInv' /\ AnswerInv'
<1>1. load \in [Loads -> LoadStates] /\ load'[l] = y /\ \A k \in Loads \ {l} : load'[k] = load[k]
  BY DEF LoadInv
<1>2. LoadInv'
  <2>1. load' \in [Loads -> LoadStates]
    BY <1>1
  <2> QED BY <2>1 DEF LoadInv
<1>3. \A k \in Loads : TagsOf(k)' = TagsOf(k)
  BY DEF TagsOf, RecipeOf
<1>4. WaitInv'
  <2> SUFFICES ASSUME NEW t \in Tags \ mixed', NEW k \in Loads, waiters'[t] = k
      PROVE  Waits(t, k)'
    BY DEF WaitInv
  <2>1. CASE k = l
    BY <2>1
  <2>2. CASE k # l
    <3>1. waiters[t] = k /\ \A b \in By : InWay(t, b)' => InWay(t, b)
      BY <2>2
    <3>2. Waits(t, k)
      BY <3>1 DEF AnswerInv, WaitInv
    <3> QED BY <3>1, <3>2, <1>1, <1>3, <2>2 DEF Waits
  <2> QED BY <2>1, <2>2
<1>5. BooksInv'
  <2> SUFFICES ASSUME NEW k \in Loads, TagsOf(k) \cap mixed' = {}
      PROVE  /\ load'[k].pc = "publish" => Books(load'[k], TagsOf(k), k)
             /\ load'[k].pc = "done" => AnsweredBy(load'[k].results, TagsOf(k), k)
    BY <1>3 DEF BooksInv
  <2>1. CASE k = l
    BY <2>1, <1>1
  <2>2. CASE k # l
    <3>1. TagsOf(k) \cap mixed = {}
      OBVIOUS
    <3> QED BY <3>1, <2>2, <1>1 DEF AnswerInv, BooksInv
  <2> QED BY <2>1, <2>2
<1>6. OwnInv'
  BY <1>3 DEF AnswerInv, OwnInv
<1> QED BY <1>2, <1>4, <1>5, <1>6 DEF AnswerInv

LEMMA WayKept ==
  ASSUME UNCHANGED <<cmds, acks, writer>>, NEW t, NEW b
  PROVE  InWay(t, b)' <=> InWay(t, b)
BY DEF InWay

LEMMA LoadStarts ==
  ASSUME ConfigInv, WriteInv, LoadInv, AnswerInv, NEW l \in Loads, LoadBegin(l)
  PROVE  WriteInv' /\ LoadInv' /\ AnswerInv'
<1> DEFINE y == [NoLoad EXCEPT !.pc = "publish", !.todo = RecipeOf(l)]
<1>1. /\ UNCHANGED <<setup, writer, plc, last, clash, cmds, acks>> /\ load[l].pc = "new"
      /\ waiters' = [t \in Tags |-> IF t \in TagsOf(l) THEN l ELSE waiters[t]]
      /\ mixed' = mixed \cup {t \in TagsOf(l) : UnderWay(t) \/ waiters[t] # Nobody}
      /\ load' = [load EXCEPT ![l] = y]
  BY DEF LoadBegin, deviceVars, busVars
<1>2. /\ RecipeOf(l) \in Seq(Rows) /\ OncePerTag(RecipeOf(l))
      /\ TagsOf(l) = TagsIn(RecipeOf(l)) /\ TagsOf(l) \subseteq Tags
  BY RecipeRows
<1>3. /\ y \in LoadStates /\ y.pc = "publish" /\ y.todo = RecipeOf(l) /\ y.pending = {} /\ y.remaining = 0
      /\ y.chan = <<>> /\ y.results = <<>>
  <2>1. <<>> \in RowSeqs /\ <<>> \in ResultSeqs /\ {} \in TagSets /\ "publish" \in LoadPCs /\ "new" \in LoadPCs
    BY DEF RowSeqs, ResultSeqs, TagSets, LoadPCs
  <2>2. NoLoad \in LoadStates
    BY <2>1 DEF NoLoad, LoadStates
  <2>3. NoLoad.pending = {} /\ NoLoad.remaining = 0 /\ NoLoad.chan = <<>> /\ NoLoad.results = <<>>
    BY DEF NoLoad
  <2> DEFINE q == RecipeOf(l)
  <2>4. q \in RowSeqs
    BY <1>2 DEF RowSeqs
  <2> HIDE DEF q
  <2>5. y \in LoadStates /\ y.pc = "publish" /\ y.todo = q /\ y.pending = NoLoad.pending
        /\ y.remaining = NoLoad.remaining /\ y.chan = NoLoad.chan /\ y.results = NoLoad.results
    BY <2>1, <2>2, <2>4 DEF LoadStates, q
  <2> QED BY <2>3, <2>5 DEF q
<1> HIDE DEF y
<1>4. WriteInv'
  BY <1>1, BusMoves DEF WriteInv, BusInv
<1>5. /\ load \in [Loads -> LoadStates] /\ waiters \in [Tags -> Loads \cup {Nobody}] /\ mixed \subseteq Tags
  BY DEF LoadInv
<1>6. waiters' \in [Tags -> Loads \cup {Nobody}] /\ mixed \subseteq mixed' /\ mixed' \subseteq Tags
  BY <1>1, <1>2, <1>5
<1>7. \A t, b : InWay(t, b)' <=> InWay(t, b)
  BY <1>1, WayKept
<1>8. \A t \in Tags \ mixed' : \A k \in Loads \ {l} :
        waiters'[t] = k => waiters[t] = k /\ \A b \in By : InWay(t, b)' => InWay(t, b)
  BY <1>1, <1>7
<1>9. ASSUME NEW t \in Tags \ mixed', waiters'[t] = l PROVE Waits(t, l)'
  <2>1. t \in TagsOf(l)
    <3>1. CASE t \in TagsOf(l)
      BY <3>1
    <3>2. CASE t \notin TagsOf(l)
      <4>1. waiters[t] = l
        BY <3>2, <1>1, <1>9
      <4>2. Waits(t, l)
        BY <4>1, <1>6 DEF AnswerInv, WaitInv
      <4> QED BY <4>2, <1>1 DEF Waits
    <3> QED BY <3>1, <3>2
  <2>2. ~UnderWay(t)
    BY <2>1, <1>1
  <2>3. \A b \in By : ~InWay(t, b)
    BY <2>2, InWayUnder
  <2>4. load'[l] = y /\ TagsOf(l)' = TagsOf(l)
    BY <1>1, <1>5 DEF TagsOf, RecipeOf
  <2> QED BY <2>1, <2>3, <2>4, <1>3, <1>7, TagsEmpty DEF Waits
<1>10. Books(y, TagsOf(l), l)
  <2>1. Cardinality({}) = 0 /\ Len(<<>>) = 0
    BY FS_EmptySet, EmptySeq
  <2> QED BY <2>1, <1>2, <1>3, TagsEmpty DEF Books
<1>11. y.pc # "done"
  BY <1>3
<1>12. \A t \in Tags, k \in Loads : waiters'[t] = k => waiters[t] = k \/ (k = l /\ t \in TagsOf(l))
  BY <1>1
<1>13. LoadInv' /\ AnswerInv'
  BY <1>1, <1>3, <1>6, <1>8, <1>9, <1>10, <1>11, <1>12, LoadMoved
<1> QED BY <1>4, <1>13

\* A value that is refused: its tag has failed.
LEMMA BooksRefused ==
  ASSUME ConfigInv, NEW l \in Loads, NEW r \in LoadStates, NEW y \in LoadStates, r.todo # <<>>,
         y.todo = Tail(r.todo), y.pending = r.pending, y.remaining = r.remaining, y.chan = r.chan,
         y.results = Append(r.results, Result(Head(r.todo).tag, FALSE, l)), Books(r, TagsOf(l), l)
  PROVE  Books(y, TagsOf(l), l)
<1> DEFINE t == Head(r.todo).tag
           e == Result(t, FALSE, l)
           R == TagsIn(r.results)
<1>1. /\ r.todo \in Seq(Rows) /\ r.chan \in Seq(Results) /\ r.results \in Seq(Results)
  BY LoadKinds
<1>2. /\ Head(r.todo) \in Rows /\ TagsIn(r.todo) = TagsIn(y.todo) \cup {t}
      /\ OncePerTag(y.todo) /\ t \notin TagsIn(y.todo)
  BY <1>1, TagsFirst DEF Books
<1>3. e \in Results /\ e.tag = t /\ e.by = l
  BY <1>2 DEF Rows, Result, Results, By
<1> HIDE DEF e, t
<1>4. TagsIn(y.results) = R \cup {t} /\ AllBy(y.results, l) /\ Len(y.results) = Len(r.results) + 1
  <2>1. y.results = Append(r.results, e) /\ AllBy(r.results, l)
    BY DEF e, t, Books
  <2>2. Len(Append(r.results, e)) = Len(r.results) + 1
    BY <1>1, <1>3, AppendProperties
  <2>3. TagsIn(Append(r.results, e)) = TagsIn(r.results) \cup {e.tag} /\ AllBy(Append(r.results, e), l)
    BY <1>1, <1>3, <2>1, TagsAppend
  <2> QED BY <2>1, <2>2, <2>3, <1>3
<1>5. IsFiniteSet(R)
  BY <1>1, TagsTyped, DriverAssumption, FS_Subset
<1>6. t \notin R /\ t \notin r.pending
  BY <1>2 DEF Books
<1>7. Len(y.results) = Cardinality(TagsIn(y.results))
  <2>1. Len(r.results) = Cardinality(R)
    BY DEF Books
  <2> HIDE DEF R
  <2>2. Cardinality(R \cup {t}) = Cardinality(R) + 1
    BY <1>5, <1>6, FS_AddElement
  <2> QED BY <1>4, <2>1, <2>2
<1> HIDE DEF R
<1> QED BY <1>2, <1>4, <1>6, <1>7 DEF Books, R

\* A value that is sent: its tag is pending.
LEMMA BooksSent ==
  ASSUME ConfigInv, NEW l \in Loads, NEW r \in LoadStates, NEW y \in LoadStates, r.todo # <<>>,
         y.todo = Tail(r.todo), y.pending = r.pending \cup {Head(r.todo).tag}, y.remaining = r.remaining + 1,
         y.chan = r.chan, y.results = r.results, Books(r, TagsOf(l), l)
  PROVE  Books(y, TagsOf(l), l)
<1> DEFINE t == Head(r.todo).tag
<1>1. r.todo \in Seq(Rows) /\ r.pending \in SUBSET Tags
  BY LoadKinds
<1>2. /\ Head(r.todo) \in Rows /\ TagsIn(r.todo) = TagsIn(y.todo) \cup {t}
      /\ OncePerTag(y.todo) /\ t \notin TagsIn(y.todo)
  BY <1>1, TagsFirst DEF Books
<1> HIDE DEF t
<1>3. t \notin TagsIn(r.results) /\ t \notin r.pending
  BY <1>2 DEF Books
<1>4. IsFiniteSet(r.pending)
  BY <1>1, DriverAssumption, FS_Subset
<1>5. y.pending = r.pending \cup {t}
  BY DEF t
<1>6. y.remaining = Cardinality(y.pending)
  <2>1. Cardinality(r.pending \cup {t}) = Cardinality(r.pending) + 1
    BY <1>3, <1>4, FS_AddElement
  <2>2. r.remaining = Cardinality(r.pending)
    BY DEF Books
  <2> QED BY <1>5, <2>1, <2>2
<1> QED BY <1>2, <1>3, <1>5, <1>6 DEF Books

LEMMA LoadTyped ==
  ASSUME LoadInv, NEW l \in Loads
  PROVE  load[l] \in LoadStates
BY DEF LoadInv

LEMMA WaiterGone ==
  ASSUME LoadInv, NEW t \in Tags, waiters' = NotWaiting(t)
  PROVE  /\ waiters' \in [Tags -> Loads \cup {Nobody}] /\ waiters'[t] = Nobody
         /\ \A u \in Tags, k \in Loads : waiters'[u] = k => waiters[u] = k /\ u # t
<1>1. waiters \in [Tags -> Loads \cup {Nobody}] /\ waiters' = [waiters EXCEPT ![t] = Nobody]
  BY DEF LoadInv, NotWaiting
<1> QED BY <1>1, RecipeAssumption

LEMMA LoadSends ==
  ASSUME ConfigInv, WriteInv, LoadInv, AnswerInv, NEW l \in Loads, LoadPublish(l)
  PROVE  WriteInv' /\ LoadInv' /\ AnswerInv'
<1> DEFINE r == load[l]
           x == Head(r.todo)
           next == [r EXCEPT !.todo = Tail(@)]
           e == Result(x.tag, FALSE, l)
           failed == [next EXCEPT !.results = Append(@, e)]
           sent == [next EXCEPT !.pending = @ \cup {x.tag}, !.remaining = @ + 1]
<1>1. r \in LoadStates /\ r.todo # <<>> /\ r.pc = "publish" /\ UNCHANGED <<setup, writer, plc, last, clash, acks>>
  BY LoadTyped DEF LoadPublish, OfLoad, deviceVars
<1>2. r.todo \in Seq(Rows) /\ r.pending \in SUBSET Tags /\ r.remaining \in Nat /\ r.results \in Seq(Results)
  BY <1>1, LoadKinds
<1>3. x \in Rows /\ Tail(r.todo) \in Seq(Rows) /\ x.tag \in Tags
  <2>1. x \in Rows /\ Tail(r.todo) \in Seq(Rows)
    BY <1>1, <1>2, HeadTailProperties
  <2> QED BY <2>1 DEF Rows
<1>4. e \in Results
  BY <1>3 DEF Result, Results, By
<1>5. mixed \subseteq Tags /\ waiters \in [Tags -> Loads \cup {Nobody}] /\ load \in [Loads -> LoadStates]
  BY DEF LoadInv
<1>6. TagsOf(l)' = TagsOf(l)
  BY <1>1 DEF TagsOf, RecipeOf
<1>7. TagsOf(l) \cap mixed = {} => Books(r, TagsOf(l), l)
  BY <1>1 DEF AnswerInv, BooksInv
<1>8. \A t \in Tags \ mixed : waiters[t] = l => Waits(t, l)
  BY DEF AnswerInv, WaitInv
<1>9. CASE /\ load' = [load EXCEPT ![l] = failed] /\ UNCHANGED <<cmds, mixed>>
           /\ waiters' = waiters \/ waiters' = NotWaiting(x.tag)
  <2>1. /\ failed \in LoadStates /\ failed.pc = "publish" /\ failed.todo = Tail(r.todo) /\ failed.pending = r.pending
        /\ failed.remaining = r.remaining /\ failed.chan = r.chan /\ failed.results = Append(r.results, e)
    <3>1. Append(r.results, e) \in Seq(Results)
      BY <1>2, <1>4, AppendProperties
    <3>2. next.results = r.results
      BY <1>1 DEF LoadStates
    <3> DEFINE q == Tail(r.todo)
               s == Append(r.results, e)
    <3>3. q \in RowSeqs /\ s \in ResultSeqs /\ failed = [[r EXCEPT !.todo = q] EXCEPT !.results = s]
      BY <3>1, <3>2, <1>3 DEF RowSeqs, ResultSeqs
    <3> HIDE DEF failed, e, x, q, s, r
    <3>4. /\ failed \in LoadStates /\ failed.todo = q /\ failed.results = s /\ failed.pc = r.pc
          /\ failed.pending = r.pending /\ failed.remaining = r.remaining /\ failed.chan = r.chan
      BY <3>3, <1>1 DEF LoadStates
    <3> QED BY <3>4, <1>1 DEF q, s
  <2>2. TagsOf(l) \cap mixed = {} => Books(failed, TagsOf(l), l)
    <3> HIDE DEF failed, r
    <3> QED BY <1>1, <1>7, <2>1, BooksRefused
  <2> HIDE DEF failed, next, r, x, e
  <2>3. WriteInv'
    BY <1>1, <1>9, BusMoves DEF WriteInv, BusInv
  <2>4. \A t, b : InWay(t, b)' <=> InWay(t, b)
    BY <1>1, <1>9, WayKept
  <2>5. /\ waiters' \in [Tags -> Loads \cup {Nobody}]
        /\ \A t \in Tags, k \in Loads : waiters'[t] = k => waiters[t] = k
    BY <1>3, <1>5, <1>9, WaiterGone
  <2>6. load'[l] = failed
    BY <1>5, <1>9
  <2>7. \A t \in Tags \ mixed' : waiters'[t] = l => Waits(t, l)'
    <3> SUFFICES ASSUME NEW t \in Tags \ mixed', waiters'[t] = l PROVE Waits(t, l)'
      OBVIOUS
    <3>1. Waits(t, l)
      BY <1>8, <1>9, <2>5
    <3> QED BY <3>1, <1>6, <2>1, <2>4, <2>6 DEF Waits, r
  <2>8. \A t \in Tags \ mixed' : \A k \in Loads \ {l} :
          waiters'[t] = k => waiters[t] = k /\ \A b \in By : InWay(t, b)' => InWay(t, b)
    BY <2>4, <2>5
  <2>9. failed.pc # "done" /\ mixed' = mixed
    BY <1>9, <2>1
  <2>10. load' = [load EXCEPT ![l] = failed] /\ setup' = setup
    BY <1>1, <1>9
  <2>11. LoadInv' /\ AnswerInv'
    <3>1. /\ failed \in LoadStates /\ mixed \subseteq mixed' /\ mixed' \subseteq Tags
          /\ waiters' \in [Tags -> Loads \cup {Nobody}]
      BY <1>5, <2>1, <2>5, <2>9
    <3>2. /\ TagsOf(l) \cap mixed' = {} =>
               /\ failed.pc = "publish" => Books(failed, TagsOf(l), l)
               /\ failed.pc = "done" => AnsweredBy(failed.results, TagsOf(l), l)
      BY <2>2, <2>9
    <3>3. \A t \in Tags, k \in Loads : waiters'[t] = k => waiters[t] = k \/ (k = l /\ t \in TagsOf(l))
      BY <2>5
    <3> QED BY <3>1, <3>2, <3>3, <2>7, <2>8, <2>10, LoadMoved
  <2> QED BY <2>3, <2>11
<1>10. CASE /\ x.v # Unfit /\ Publishes(Command(x.tag, x.v, "string", l))
            /\ load' = [load EXCEPT ![l] = sent] /\ UNCHANGED waiters
  <2> DEFINE c == Command(x.tag, x.v, "string", l)
  <2>1. c \in Commands /\ c.tag = x.tag /\ c.by = l
    <3>1. x.v \in Values
      BY <1>3, <1>10 DEF Rows
    <3>2. l \in By
      BY DEF By
    <3> QED BY <3>1, <3>2, <1>3 DEF Command, Commands
  <2>2. /\ sent \in LoadStates /\ sent.pc = "publish" /\ sent.todo = Tail(r.todo)
        /\ sent.pending = r.pending \cup {x.tag}
        /\ sent.remaining = r.remaining + 1 /\ sent.chan = r.chan /\ sent.results = r.results
    <3>1. r.pending \cup {x.tag} \in SUBSET Tags /\ r.remaining + 1 \in Nat
      BY <1>2, <1>3
    <3>2. next.pending = r.pending /\ next.remaining = r.remaining
      BY <1>1 DEF LoadStates
    <3> DEFINE q == Tail(r.todo)
               p == r.pending \cup {x.tag}
               n == r.remaining + 1
    <3>3. q \in RowSeqs /\ p \in TagSets /\ n \in Nat
          /\ sent = [[r EXCEPT !.todo = q] EXCEPT !.pending = p, !.remaining = n]
      BY <3>1, <3>2, <1>3 DEF RowSeqs, TagSets
    <3> HIDE DEF sent, x, q, p, n, r
    <3>4. /\ sent \in LoadStates /\ sent.todo = q /\ sent.pending = p /\ sent.remaining = n
          /\ sent.pc = r.pc /\ sent.chan = r.chan /\ sent.results = r.results
      BY <3>3, <1>1 DEF LoadStates
    <3> QED BY <3>4, <1>1 DEF q, p, n
  <2>3. TagsOf(l) \cap mixed = {} => Books(sent, TagsOf(l), l)
    <3> HIDE DEF sent, r
    <3> QED BY <1>1, <1>7, <2>2, BooksSent DEF x
  <2> HIDE DEF sent, next, r, x, e, c
  <2>4. /\ BusInv' /\ mixed \subseteq mixed' /\ mixed' \subseteq Tags
        /\ \A t \in Tags, b \in By : InWay(t, b)' => InWay(t, b) \/ (t = c.tag /\ b = c.by)
        /\ c.tag \notin mixed' => Free1(c.tag, c.by)
    BY <1>1, <1>10, <2>1, CommandPublished DEF WriteInv, c
  <2>5. WriteInv'
    BY <1>1, <2>4, BusMoves
  <2>6. load'[l] = sent
    BY <1>5, <1>10
  <2>7. \A t \in Tags \ mixed' : waiters'[t] = l => Waits(t, l)'
    <3> SUFFICES ASSUME NEW t \in Tags \ mixed', waiters'[t] = l PROVE Waits(t, l)'
      OBVIOUS
    <3>1. Waits(t, l)
      BY <1>8, <1>10, <2>4
    <3>2. \A b \in By : InWay(t, b)' => b = l /\ t \in sent.pending
      BY <3>1, <2>1, <2>2, <2>4 DEF Waits, r
    <3> QED BY <3>1, <3>2, <1>6, <2>2, <2>6 DEF Waits, r
  <2>8. \A t \in Tags \ mixed' : \A k \in Loads \ {l} :
          waiters'[t] = k => waiters[t] = k /\ \A b \in By : InWay(t, b)' => InWay(t, b)
    <3> SUFFICES ASSUME NEW t \in Tags \ mixed', NEW k \in Loads \ {l}, waiters'[t] = k,
                        NEW b \in By, InWay(t, b)', ~InWay(t, b)
        PROVE  FALSE
      BY <1>10
    <3>1. t = c.tag /\ Free1(c.tag, l)
      BY <2>1, <2>4
    <3> QED BY <3>1, <1>10, RecipeAssumption DEF Free1
  <2>9. waiters' = waiters /\ sent.pc # "done" /\ (TagsOf(l) \cap mixed' = {} => TagsOf(l) \cap mixed = {})
    BY <1>10, <2>2, <2>4
  <2>10. LoadInv' /\ AnswerInv'
    BY <1>1, <1>5, <1>10, <2>2, <2>3, <2>4, <2>7, <2>8, <2>9, LoadMoved
  <2> QED BY <2>5, <2>10
<1>11. \/ /\ load' = [load EXCEPT ![l] = failed] /\ UNCHANGED <<cmds, mixed>>
          /\ waiters' = waiters \/ waiters' = NotWaiting(x.tag)
       \/ /\ x.v # Unfit /\ Publishes(Command(x.tag, x.v, "string", l))
          /\ load' = [load EXCEPT ![l] = sent] /\ UNCHANGED waiters
  BY DEF LoadPublish
<1> QED BY <1>9, <1>10, <1>11

\* A result that is taken from the channel: its tag is answered.
LEMMA BooksTaken ==
  ASSUME ConfigInv, NEW l \in Loads, NEW r \in LoadStates, NEW y \in LoadStates, r.chan # <<>>, NEW e \in Results,
         e.tag = Head(r.chan).tag, e.by = Head(r.chan).by,
         y.todo = r.todo, y.pending = r.pending \ {e.tag}, y.remaining = r.remaining - 1, y.chan = Tail(r.chan),
         y.results = Append(r.results, e), Books(r, TagsOf(l), l)
  PROVE  Books(y, TagsOf(l), l)
<1> DEFINE t == e.tag
           R == TagsIn(r.results)
           P == r.pending
<1>1. r.chan \in Seq(Results) /\ r.results \in Seq(Results) /\ P \in SUBSET Tags
  BY LoadKinds
<1>2. /\ TagsIn(r.chan) = TagsIn(y.chan) \cup {t} /\ AllBy(y.chan, l) /\ e.by = l
      /\ OncePerTag(y.chan) /\ t \notin TagsIn(y.chan)
  BY <1>1, TagsFirst DEF Books
<1>3. t \in P /\ t \notin R
  BY <1>2 DEF Books
<1>4. TagsIn(y.results) = R \cup {t} /\ AllBy(y.results, l) /\ Len(y.results) = Len(r.results) + 1
  <2>1. AllBy(r.results, l)
    BY DEF Books
  <2>2. Len(Append(r.results, e)) = Len(r.results) + 1
    BY <1>1, AppendProperties
  <2> QED BY <1>1, <1>2, <2>1, <2>2, TagsAppend
<1>5. IsFiniteSet(R) /\ IsFiniteSet(P)
  BY <1>1, TagsTyped, DriverAssumption, FS_Subset
<1>6. Len(y.results) = Cardinality(TagsIn(y.results))
  <2>1. Cardinality(R \cup {t}) = Cardinality(R) + 1
    BY <1>3, <1>5, FS_AddElement
  <2>2. Len(r.results) = Cardinality(R)
    BY DEF Books
  <2> QED BY <1>4, <2>1, <2>2
<1>7. y.remaining = Cardinality(y.pending)
  <2>1. Cardinality(P \ {t}) = Cardinality(P) - 1
    BY <1>3, <1>5, FS_RemoveElement
  <2> QED BY <2>1 DEF Books
<1> HIDE DEF t
<1>8. y.pending = P \ {t}
  BY DEF t
<1>9. /\ TagsIn(y.chan) \subseteq y.pending
      /\ y.pending \cap TagsIn(y.results) = {}
      /\ TagsIn(y.todo) \cap (y.pending \cup TagsIn(y.results)) = {}
      /\ TagsOf(l) = TagsIn(y.results) \cup y.pending \cup TagsIn(y.todo)
  BY <1>2, <1>3, <1>4, <1>8 DEF Books
<1>10. OncePerTag(y.todo)
  BY DEF Books
<1> QED BY <1>2, <1>4, <1>6, <1>7, <1>9, <1>10 DEF Books

\* What a step that leaves the bus and the writers alone does not disturb.
LEMMA LoadQuiet ==
  ASSUME WriteInv, OfLoad' = OfLoad, UNCHANGED busVars
  PROVE  /\ WriteInv' /\ UNCHANGED <<setup, writer, cmds, acks>>
         /\ \A t, b : InWay(t, b)' <=> InWay(t, b)
         /\ \A l : TagsOf(l)' = TagsOf(l)
<1>1. UNCHANGED <<setup, writer, plc, last, clash, cmds, acks>>
  BY DEF OfLoad, deviceVars, busVars
<1>2. WriteInv'
  BY <1>1, BusMoves DEF WriteInv, BusInv
<1> QED BY <1>1, <1>2, WayKept DEF TagsOf, RecipeOf

LEMMA LoadTakes ==
  ASSUME ConfigInv, WriteInv, LoadInv, AnswerInv, NEW l \in Loads, LoadAck(l)
  PROVE  WriteInv' /\ LoadInv' /\ AnswerInv'
<1> DEFINE r == load[l]
           ack == Head(r.chan)
           e == Result(ack.tag, ack.ok, ack.by)
           y == [r EXCEPT !.chan = Tail(@), !.remaining = @ - 1, !.pending = @ \ {ack.tag}, !.results = Append(@, e)]
<1>1. /\ r \in LoadStates /\ r.pc = "publish" /\ r.chan # <<>> /\ r.remaining > 0
      /\ load' = [load EXCEPT ![l] = y] /\ OfLoad' = OfLoad /\ UNCHANGED <<busVars, waiters, mixed>>
  BY LoadTyped DEF LoadAck, Receive
<1>2. r.chan \in Seq(Results) /\ r.pending \in SUBSET Tags /\ r.remaining \in Nat /\ r.results \in Seq(Results)
  BY <1>1, LoadKinds
<1>3. ack \in Results /\ Tail(r.chan) \in Seq(Results)
  BY <1>1, <1>2, HeadTailProperties
<1>4. e \in Results /\ e.tag = ack.tag /\ e.by = ack.by
  BY <1>3 DEF Result, Results
<1>5. /\ y \in LoadStates /\ y.pc = "publish" /\ y.todo = r.todo /\ y.pending = r.pending \ {e.tag}
      /\ y.remaining = r.remaining - 1 /\ y.chan = Tail(r.chan) /\ y.results = Append(r.results, e)
  <2> DEFINE q == Tail(r.chan)
             n == r.remaining - 1
             p == r.pending \ {ack.tag}
             s == Append(r.results, e)
  <2>1. /\ q \in ResultSeqs /\ s \in ResultSeqs /\ p \in TagSets /\ n \in Nat
        /\ y = [r EXCEPT !.chan = q, !.remaining = n, !.pending = p, !.results = s]
    <3>1. s \in Seq(Results)
      BY <1>2, <1>4, AppendProperties
    <3>2. n \in Nat /\ p \in SUBSET Tags
      BY <1>1, <1>2
    <3> QED BY <3>1, <3>2, <1>3 DEF ResultSeqs, TagSets
  <2> HIDE DEF y, q, n, p, s, e, ack, r
  <2>2. /\ y \in LoadStates /\ y.pc = r.pc /\ y.todo = r.todo /\ y.pending = p
        /\ y.remaining = n /\ y.chan = q /\ y.results = s
    BY <1>1, <2>1 DEF LoadStates
  <2> QED BY <1>1, <1>4, <2>2 DEF q, n, p, s
<1>6. TagsOf(l) \cap mixed' = {} => Books(y, TagsOf(l), l)
  <2>1. TagsOf(l) \cap mixed = {} => Books(r, TagsOf(l), l)
    BY <1>1 DEF AnswerInv, BooksInv
  <2> HIDE DEF y, r
  <2> QED BY <1>1, <1>4, <1>5, <2>1, BooksTaken DEF ack
<1> HIDE DEF y, e
<1>7. ack.tag \in TagsIn(r.chan) /\ TagsIn(y.chan) \subseteq TagsIn(r.chan)
  <2>1. TagsIn(r.chan) = TagsIn(Tail(r.chan)) \cup {ack.tag}
    <3> HIDE DEF r
    <3> QED BY <1>1, <1>2, TagsFirst
  <2> QED BY <2>1, <1>5
<1> HIDE DEF ack
<1>8. WriteInv' /\ setup' = setup /\ TagsOf(l)' = TagsOf(l) /\ \A t, b : InWay(t, b)' <=> InWay(t, b)
  BY <1>1, LoadQuiet
<1>9. /\ mixed \subseteq Tags /\ waiters \in [Tags -> Loads \cup {Nobody}] /\ load \in [Loads -> LoadStates]
  BY DEF LoadInv
<1>10. load'[l] = y
  BY <1>1, <1>9
<1>11. ASSUME NEW t \in Tags \ mixed', waiters'[t] = l PROVE Waits(t, l)'
  <2>1. Waits(t, l)
    BY <1>1, <1>11 DEF AnswerInv, WaitInv
  <2>2. t \notin TagsIn(r.chan)
    BY <2>1 DEF Waits
  <2>3. t \notin TagsIn(y.chan) /\ t # e.tag
    BY <2>2, <1>4, <1>7
  <2>4. \A b \in By : InWay(t, b)' => b = l /\ t \in y.pending
    BY <2>1, <2>3, <1>5, <1>8 DEF Waits
  <2>5. y.pc = "publish" /\ t \in TagsOf(l)
    BY <1>5, <2>1 DEF Waits
  <2> QED BY <2>3, <2>4, <2>5, <1>8, <1>10 DEF Waits
<1>12. /\ y.pc # "done" /\ mixed' = mixed /\ waiters' = waiters
  BY <1>1, <1>5
<1>13. LoadInv' /\ AnswerInv'
  BY <1>1, <1>5, <1>6, <1>8, <1>9, <1>11, <1>12, LoadMoved
<1> QED BY <1>8, <1>13

\* Both ends of a load give up its waiters.
LEMMA LoadGivesUp ==
  ASSUME WriteInv, LoadInv, AnswerInv, NEW l \in Loads, NEW y \in LoadStates, y.pc = "done",
         load' = [load EXCEPT ![l] = y], waiters' = Cleanup(l), OfLoad' = OfLoad, UNCHANGED <<busVars, mixed>>,
         TagsOf(l) \cap mixed = {} => AnsweredBy(y.results, TagsOf(l), l)
  PROVE  WriteInv' /\ LoadInv' /\ AnswerInv'
<1>1. WriteInv' /\ setup' = setup /\ TagsOf(l)' = TagsOf(l) /\ \A t, b : InWay(t, b)' <=> InWay(t, b)
  BY LoadQuiet
<1>2. /\ mixed \subseteq Tags /\ waiters \in [Tags -> Loads \cup {Nobody}]
  BY DEF LoadInv
<1>3. waiters' = [t \in Tags |-> IF t \in TagsOf(l) THEN Nobody ELSE waiters[t]]
  BY DEF Cleanup
<1>4. waiters' \in [Tags -> Loads \cup {Nobody}]
  BY <1>2, <1>3
<1>5. \A t \in Tags, k \in Loads : waiters'[t] = k => waiters[t] = k /\ t \notin TagsOf(l)
  BY <1>3, RecipeAssumption
<1>6. \A t \in Tags \ mixed' : waiters'[t] # l
  BY <1>5 DEF AnswerInv, OwnInv
<1>7. y.pc # "publish" /\ mixed' = mixed
  OBVIOUS
<1>8. /\ \A t \in Tags \ mixed' : waiters'[t] = l => Waits(t, l)'
      /\ \A t \in Tags \ mixed' : \A k \in Loads \ {l} :
           waiters'[t] = k => waiters[t] = k /\ \A b \in By : InWay(t, b)' => InWay(t, b)
      /\ \A t \in Tags, k \in Loads : waiters'[t] = k => waiters[t] = k \/ (k = l /\ t \in TagsOf(l))
  BY <1>1, <1>5, <1>6
<1>9. LoadInv' /\ AnswerInv'
  BY <1>1, <1>2, <1>4, <1>7, <1>8, LoadMoved
<1> QED BY <1>1, <1>9

LEMMA LoadTimesOut ==
  ASSUME ConfigInv, WriteInv, LoadInv, AnswerInv, NEW l \in Loads, LoadTimeout(l)
  PROVE  WriteInv' /\ LoadInv' /\ AnswerInv'
<1> DEFINE r == load[l]
           s == SetToSeq({Result(t, FALSE, l) : t \in r.pending})
           a == r.results \o s
           y == [r EXCEPT !.pc = "done", !.results = a]
<1>1. /\ r \in LoadStates /\ r.pc = "publish" /\ r.todo = <<>>
      /\ waiters' = Cleanup(l) /\ OfLoad' = OfLoad /\ UNCHANGED <<busVars, mixed>>
  BY LoadTyped DEF LoadTimeout
<1>2. load' = [load EXCEPT ![l] = y]
  BY DEF LoadTimeout, LoadInv
<1>3. r.pending \in SUBSET Tags /\ r.results \in Seq(Results)
  BY <1>1, LoadKinds
<1>4. s \in Seq(Results) /\ TagsIn(s) = r.pending /\ AllBy(s, l) /\ Len(s) = Cardinality(r.pending)
  BY <1>3, PendingResults
<1> HIDE DEF s
<1>5. /\ a \in Seq(Results) /\ Len(a) = Len(r.results) + Len(s) /\ TagsIn(a) = TagsIn(r.results) \cup TagsIn(s)
      /\ AllBy(r.results, l) => AllBy(a, l)
  BY <1>3, <1>4, TagsConcat
<1> HIDE DEF a
<1>6. y \in LoadStates /\ y.pc = "done" /\ y.results = a
  <2>1. a \in ResultSeqs /\ "done" \in LoadPCs
    BY <1>5 DEF ResultSeqs, LoadPCs
  <2> HIDE DEF r
  <2> QED BY <2>1, <1>1 DEF LoadStates
<1>7. ASSUME TagsOf(l) \cap mixed = {} PROVE AnsweredBy(a, TagsOf(l), l)
  <2>1. Books(r, TagsOf(l), l)
    BY <1>1, <1>7 DEF AnswerInv, BooksInv
  <2>2. TagsIn(r.todo) = {}
    BY <1>1, TagsEmpty
  <2>3. TagsOf(l) = TagsIn(r.results) \cup r.pending /\ TagsIn(r.results) \cap r.pending = {}
    BY <2>1, <2>2 DEF Books
  <2>4. IsFiniteSet(r.pending) /\ IsFiniteSet(TagsIn(r.results))
    BY <1>3, TagsTyped, DriverAssumption, FS_Subset
  <2>5. Cardinality(TagsOf(l)) = Cardinality(TagsIn(r.results)) + Cardinality(r.pending)
    <3>1. Cardinality(TagsIn(r.results) \cup r.pending)
            = Cardinality(TagsIn(r.results)) + Cardinality(r.pending) - Cardinality(TagsIn(r.results) \cap r.pending)
      BY <2>4, FS_Union
    <3>2. /\ Cardinality(TagsIn(r.results) \cap r.pending) = 0
          /\ Cardinality(TagsIn(r.results)) \in Nat /\ Cardinality(r.pending) \in Nat
      BY <2>3, <2>4, FS_EmptySet, FS_CardinalityType
    <3> QED BY <2>3, <3>1, <3>2
  <2> QED BY <1>4, <1>5, <2>1, <2>3, <2>5 DEF AnsweredBy, Books
<1> HIDE DEF y, r
<1> QED BY <1>1, <1>2, <1>6, <1>7, LoadGivesUp

LEMMA LoadFinishes ==
  ASSUME ConfigInv, WriteInv, LoadInv, AnswerInv, NEW l \in Loads, LoadEnd(l)
  PROVE  WriteInv' /\ LoadInv' /\ AnswerInv'
<1> DEFINE r == load[l]
           y == [r EXCEPT !.pc = "done"]
<1>1. /\ r \in LoadStates /\ r.pc = "publish" /\ r.todo = <<>> /\ r.remaining = 0
      /\ waiters' = Cleanup(l) /\ OfLoad' = OfLoad /\ UNCHANGED <<busVars, mixed>>
  BY LoadTyped DEF LoadEnd
<1>2. load' = [load EXCEPT ![l] = y]
  BY DEF LoadEnd, LoadInv
<1>3. y \in LoadStates /\ y.pc = "done" /\ y.results = r.results
  <2>1. "done" \in LoadPCs
    BY DEF LoadPCs
  <2> HIDE DEF r
  <2> QED BY <2>1, <1>1 DEF LoadStates
<1>4. ASSUME TagsOf(l) \cap mixed = {} PROVE AnsweredBy(r.results, TagsOf(l), l)
  <2>1. Books(r, TagsOf(l), l)
    BY <1>1, <1>4 DEF AnswerInv, BooksInv
  <2>2. TagsIn(r.todo) = {}
    BY <1>1, TagsEmpty
  <2>3. r.pending = {}
    <3>1. r.pending \in SUBSET Tags
      BY <1>1, LoadKinds
    <3>2. IsFiniteSet(r.pending)
      BY <3>1, DriverAssumption, FS_Subset
    <3> QED BY <1>1, <2>1, <3>2, FS_EmptySet DEF Books
  <2> QED BY <2>1, <2>2, <2>3 DEF Books, AnsweredBy
<1> HIDE DEF y, r
<1> QED BY <1>1, <1>2, <1>3, <1>4, LoadGivesUp

\* A result that reaches core-api: the load that waits for its tag gets it.
LEMMA ResultHeard ==
  ASSUME ConfigInv, WriteInv, LoadInv, AnswerInv, HandleAck
  PROVE  WriteInv' /\ LoadInv' /\ AnswerInv'
<1> DEFINE ack == Head(acks)
<1>1. acks # <<>> /\ acks \in Seq(Results) /\ ack \in Results /\ ack.tag \in Tags /\ Tail(acks) \in Seq(Results)
  <2>1. acks # <<>> /\ acks \in Seq(Results)
    BY DEF HandleAck, WriteInv, BusInv
  <2>2. ack \in Results /\ Tail(acks) \in Seq(Results)
    BY <2>1, HeadTailProperties
  <2> QED BY <2>1, <2>2 DEF Results
<1>2. /\ acks' = acks \/ acks' = Tail(acks)
      /\ UNCHANGED <<setup, writer, plc, last, clash, cmds, mixed>>
      /\ IF waiters[ack.tag] = Nobody
         THEN UNCHANGED <<waiters, load>>
         ELSE waiters' = NotWaiting(ack.tag) /\ load' = [load EXCEPT ![waiters[ack.tag]].chan = Append(@, ack)]
  BY DEF HandleAck, OfLoad, deviceVars
<1>3. WriteInv'
  <2>1. BusInv'
    BY <1>1, <1>2, Zenon DEF WriteInv, BusInv
  <2> QED BY <1>2, <2>1, BusMoves
<1>4. \A t, b : InWay(t, b)' => InWay(t, b)
  <2> SUFFICES ASSUME NEW t, NEW b, InWay(t, b)' PROVE InWay(t, b)
    OBVIOUS
  <2>1. (\E i \in 1..Len(acks') : acks'[i].tag = t /\ acks'[i].by = b)
          => \E i \in 1..Len(acks) : acks[i].tag = t /\ acks[i].by = b
    <3>1. CASE acks' = Tail(acks)
      <4>1. \A i \in 1..Len(acks') : i + 1 \in 1..Len(acks) /\ acks'[i] = acks[i + 1]
        BY <1>1, <3>1, OneLess
      <4> QED BY <4>1
    <3> QED BY <3>1, <1>2
  <2> QED BY <2>1, <1>2 DEF InWay
<1>5. InWay(ack.tag, ack.by)
  <2>1. 1 \in 1..Len(acks) /\ ack = acks[1]
    BY <1>1, OneLess
  <2> QED BY <2>1 DEF InWay
<1>6. CASE waiters[ack.tag] = Nobody
  <2>1. UNCHANGED <<setup, waiters, load>> /\ mixed \subseteq mixed' /\ mixed' \subseteq Tags
    BY <1>2, <1>6 DEF LoadInv
  <2>2. \A t \in Tags \ mixed', b \in By : InWay(t, b)' => InWay(t, b) \/ waiters[t] = Nobody
    BY <1>4
  <2> QED BY <1>3, <2>1, <2>2, OthersAnswered
<1>7. CASE waiters[ack.tag] # Nobody
  <2>0. PICK l \in Loads : l = waiters[ack.tag]
    BY <1>1, <1>7 DEF LoadInv
  <2> DEFINE r == load[l]
             y == [r EXCEPT !.chan = Append(@, ack)]
  <2>1. /\ l \in Loads /\ r \in LoadStates /\ load \in [Loads -> LoadStates] /\ mixed \subseteq Tags
        /\ waiters' = NotWaiting(ack.tag) /\ load' = [load EXCEPT ![l] = y]
    BY <1>1, <1>2, <1>7, <2>0 DEF LoadInv
  <2>2. r.chan \in Seq(Results) /\ Append(r.chan, ack) \in Seq(Results)
    BY <1>1, <2>1, LoadKinds, AppendProperties
  <2>3. /\ y \in LoadStates /\ y.pc = r.pc /\ y.todo = r.todo /\ y.pending = r.pending
        /\ y.remaining = r.remaining /\ y.chan = Append(r.chan, ack) /\ y.results = r.results
    <3> DEFINE q == Append(r.chan, ack)
    <3>1. q \in ResultSeqs
      BY <2>2 DEF ResultSeqs
    <3> HIDE DEF q, r
    <3>2. y = [r EXCEPT !.chan = q]
      BY <2>1 DEF q
    <3> HIDE DEF y
    <3> QED BY <3>1, <3>2, <2>1 DEF LoadStates, q
  <2>4. ack.tag \in TagsOf(l)
    BY <1>1, <2>0 DEF AnswerInv, OwnInv
  <2>5. TagsIn(y.chan) = TagsIn(r.chan) \cup {ack.tag}
    <3>1. TagsIn(Append(r.chan, ack)) = TagsIn(r.chan) \cup {ack.tag}
      <4> HIDE DEF r, ack
      <4> QED BY <1>1, <2>2, TagsAppend
    <3> QED BY <3>1, <2>3
  <2>6. ack.tag \notin mixed => ack.by = l /\ ack.tag \in r.pending /\ ack.tag \notin TagsIn(r.chan)
    <3>1. ack.by \in By
      BY <1>1 DEF Results
    <3>2. ack.tag \notin mixed => Waits(ack.tag, l)
      BY <1>1, <2>0 DEF AnswerInv, WaitInv
    <3> QED BY <3>1, <3>2, <1>5 DEF Waits
  <2>7. TagsOf(l) \cap mixed = {} /\ r.pc = "publish" => Books(y, TagsOf(l), l)
    <3> SUFFICES ASSUME TagsOf(l) \cap mixed = {}, r.pc = "publish" PROVE Books(y, TagsOf(l), l)
      OBVIOUS
    <3>1. Books(r, TagsOf(l), l)
      BY <2>1 DEF AnswerInv, BooksInv
    <3>2. ack.by = l /\ ack.tag \in r.pending /\ ack.tag \notin TagsIn(r.chan)
      BY <2>4, <2>6
    <3>3. AllBy(Append(r.chan, ack), l) /\ OncePerTag(Append(r.chan, ack))
      BY <1>1, <2>2, <3>1, <3>2, TagsAppend DEF Books
    <3> HIDE DEF y, r, ack
    <3> QED BY <2>3, <2>5, <3>1, <3>2, <3>3 DEF Books
  <2>8. TagsOf(l) \cap mixed = {} /\ r.pc = "done" => AnsweredBy(y.results, TagsOf(l), l)
    BY <2>1, <2>3 DEF AnswerInv, BooksInv
  <2>9. /\ waiters' \in [Tags -> Loads \cup {Nobody}] /\ waiters'[ack.tag] = Nobody
        /\ \A u \in Tags, k \in Loads : waiters'[u] = k => waiters[u] = k /\ u # ack.tag
    BY <1>1, <2>1, WaiterGone
  <2>10. load'[l] = y /\ TagsOf(l)' = TagsOf(l) /\ setup' = setup /\ mixed' = mixed
    <3>1. load'[l] = y
      BY <2>1
    <3>2. setup' = setup /\ mixed' = mixed
      BY <1>2
    <3> QED BY <3>1, <3>2 DEF TagsOf, RecipeOf
  <2> HIDE DEF y, r, ack
  <2>11. ASSUME NEW t \in Tags \ mixed', waiters'[t] = l PROVE Waits(t, l)'
    <3>1. Waits(t, l) /\ t # ack.tag
      BY <2>1, <2>9, <2>10, <2>11 DEF AnswerInv, WaitInv
    <3>2. /\ r.pc = "publish" /\ t \in TagsOf(l) /\ t \notin TagsIn(r.chan)
          /\ \A b \in By : InWay(t, b) => b = l /\ t \in r.pending
      BY <3>1 DEF Waits, r
    <3>3. /\ y.pc = "publish" /\ t \in TagsOf(l) /\ t \notin TagsIn(y.chan)
          /\ \A b \in By : InWay(t, b)' => b = l /\ t \in y.pending
      BY <3>1, <3>2, <1>4, <2>3, <2>5
    <3> QED BY <3>3, <2>10 DEF Waits
  <2>12. \A t \in Tags \ mixed' : \A k \in Loads \ {l} :
           waiters'[t] = k => waiters[t] = k /\ \A b \in By : InWay(t, b)' => InWay(t, b)
    BY <1>4, <2>9
  <2>13. \A t \in Tags, k \in Loads : waiters'[t] = k => waiters[t] = k \/ (k = l /\ t \in TagsOf(l))
    BY <2>9
  <2>14. TagsOf(l) \cap mixed' = {} =>
           /\ y.pc = "publish" => Books(y, TagsOf(l), l)
           /\ y.pc = "done" => AnsweredBy(y.results, TagsOf(l), l)
    BY <2>3, <2>7, <2>8, <2>10
  <2>15. mixed \subseteq mixed' /\ mixed' \subseteq Tags
    BY <2>1, <2>10
  <2>16. LoadInv' /\ AnswerInv'
    BY <2>1, <2>3, <2>9, <2>10, <2>11, <2>12, <2>13, <2>14, <2>15, LoadMoved
  <2> QED BY <1>3, <2>16
<1> QED BY <1>6, <1>7

\* The steps of the driver: only a SCADA command puts something new under way.
LEMMA WayOfDriver ==
  ASSUME WriteInv, DriverNext, NEW t, NEW b, InWay(t, b)'
  PROVE  InWay(t, b) \/ (Len(cmds') > Len(cmds) /\ t = Last(cmds').tag)
<1>0. BusInv /\ WriterInv
  BY DEF WriteInv
<1>1. CASE \/ Poll \/ RequestReload \/ LoadConfig \/ DeviceDown \/ DeviceUp
           \/ \E u \in Tags : HeartbeatElapses(u) \/ CooldownEnds(u)
  BY <1>0, <1>1, LoopSteps, WayOfLoop
<1>2. CASE HandleWriteCommand
  BY <1>0, <1>2, WayOfHandled
<1>3. CASE \E w \in 1..Writers : ExecuteWrite(w)
  BY <1>3, WayOfWriter
<1>4. CASE \E u \in Tags : DeviceChanges(u)
  <2>1. UNCHANGED <<cmds, acks, writer>>
    BY <1>4 DEF DeviceChanges, busVars
  <2> QED BY <2>1 DEF InWay
<1>5. CASE \E u \in Tags, v \in Values : ScadaWrite(u, v)
  <2>1. PICK u \in Tags, v \in Values : ScadaWrite(u, v)
    BY <1>5
  <2> DEFINE c == [tag |-> u, v |-> v, type |-> JsonType, stamped |-> FALSE, age |-> 0, by |-> "scada"]
  <2>2. c \in Commands
    <3>1. JsonType \in {"bool", "float64", "string"} /\ "scada" \in By
      BY DEF JsonType, By
    <3> QED BY <3>1 DEF Commands
  <2>3. cmds' = Append(cmds, c) /\ UNCHANGED <<acks, writer>> /\ cmds \in Seq(Commands)
    BY <2>1, <1>0 DEF ScadaWrite, BusInv
  <2> HIDE DEF c
  <2>4. Len(cmds') = Len(cmds) + 1 /\ Len(cmds) \in Nat /\ Last(cmds') = c
    <3>1. Len(cmds') = Len(cmds) + 1 /\ Len(cmds) \in Nat /\ cmds'[Len(cmds) + 1] = c
      BY <2>2, <2>3, AppendProperties, LenProperties
    <3> QED BY <3>1 DEF Last
  <2>5. CASE \E i \in 1..Len(cmds') : cmds'[i].tag = t /\ cmds'[i].by = b
    <3>1. PICK i \in 1..Len(cmds') : cmds'[i].tag = t /\ cmds'[i].by = b
      BY <2>5
    <3>2. (i \in 1..Len(cmds) /\ cmds'[i] = cmds[i]) \/ cmds'[i] = c
      BY <2>2, <2>3, <3>1, OneMore
    <3> QED BY <3>1, <3>2, <2>4 DEF InWay
  <2>6. CASE ~ \E i \in 1..Len(cmds') : cmds'[i].tag = t /\ cmds'[i].by = b
    BY <2>3, <2>6 DEF InWay
  <2> QED BY <2>5, <2>6
<1>6. CASE LinkDelays
  <2>1. cmds' = [i \in 1..Len(cmds) |-> [cmds[i] EXCEPT !.age = @ + 1]] /\ UNCHANGED <<acks, writer>>
    BY <1>6 DEF LinkDelays
  <2>2. Len(cmds) \in Nat /\ \A i \in 1..Len(cmds) : cmds[i] \in Commands
    BY <1>0, LenProperties, ElementOfSeq DEF BusInv
  <2>3. \A c \in Commands : [c EXCEPT !.age = @ + 1].tag = c.tag /\ [c EXCEPT !.age = @ + 1].by = c.by
    BY DEF Commands
  <2>4. Len(cmds') = Len(cmds)
    BY <2>1, <2>2
  <2>5. \A i \in 1..Len(cmds') : cmds'[i].tag = cmds[i].tag /\ cmds'[i].by = cmds[i].by
    BY <2>1, <2>2, <2>3, <2>4
  <2> QED BY <2>1, <2>4, <2>5 DEF InWay
<1>7. CASE CommandLost
  <2>1. cmds # <<>> /\ cmds' = Tail(cmds) /\ UNCHANGED <<acks, writer>> /\ cmds \in Seq(Commands)
    BY <1>7, <1>0 DEF CommandLost, BusInv
  <2>2. \A i \in 1..Len(cmds') : i + 1 \in 1..Len(cmds) /\ cmds'[i] = cmds[i + 1]
    BY <2>1, OneLess
  <2> QED BY <2>1, <2>2 DEF InWay
<1> QED BY <1>1, <1>2, <1>3, <1>4, <1>5, <1>6, <1>7 DEF DriverNext

LEMMA DriverAnswers ==
  ASSUME WriteInv, LoadInv, AnswerInv, DriverSteps
  PROVE  WriteInv' /\ LoadInv' /\ AnswerInv'
<1>1. /\ DriverNext /\ UNCHANGED <<waiters, load>>
      /\ mixed' = IF Len(cmds') > Len(cmds) THEN mixed \cup {Last(cmds').tag} ELSE mixed
  BY DEF DriverSteps
<1>2. WriteInv' /\ setup' = setup
  <2>1. setup' = setup
    BY ConfigKept DEF PathNext
  <2> QED BY <1>1, <2>1, DriverWrites
<1>3. Len(cmds') > Len(cmds) => Last(cmds').tag \in Tags
  <2>1. cmds \in Seq(Commands) /\ cmds' \in Seq(Commands)
    BY <1>2 DEF WriteInv, BusInv
  <2>2. Len(cmds) \in Nat /\ Len(cmds') \in Nat
    BY <2>1, LenProperties
  <2>3. Len(cmds') > Len(cmds) => Len(cmds') \in 1..Len(cmds')
    BY <2>2
  <2>4. Len(cmds') > Len(cmds) => cmds'[Len(cmds')] \in Commands
    BY <2>1, <2>3, ElementOfSeq
  <2> QED BY <2>4 DEF Last, Commands
<1>4. mixed \subseteq mixed' /\ mixed' \subseteq Tags
  BY <1>1, <1>3 DEF LoadInv
<1>5. \A t \in Tags \ mixed', b \in By : InWay(t, b)' => InWay(t, b) \/ waiters[t] = Nobody
  BY <1>1, WayOfDriver
<1> QED BY <1>1, <1>2, <1>4, <1>5, OthersAnswered

-----------------------------------------------------------------------------
(* The theorems. *)

PathSafe == ConfigInv /\ WriteInv /\ LoadInv /\ AnswerInv

LEMMA PathSafeInit ==
  ASSUME ProcessInit
  PROVE  PathSafe
<1>1. PathInit
  BY DEF ProcessInit
<1>2. ConfigInv
  BY ConfigInit
<1>3. /\ cmds = <<>> /\ acks = <<>> /\ writer = [w \in 1..Writers |-> Free]
      /\ plc = [t \in Tags |-> 0] /\ last = plc /\ clash = {}
      /\ waiters = [t \in Tags |-> Nobody] /\ load = [l \in Loads |-> NoLoad] /\ mixed = {}
  BY <1>1 DEF PathInit, DriverInit
<1>4. WriteInv
  <2>1. BusInv /\ WriterInv
    BY <1>3 DEF BusInv, WriterInv
  <2>2. DeviceInv /\ WritesStayApart
    BY <1>3 DEF DeviceInv, WritesStayApart, Values
  <2>3. Free.pc = "free"
    BY DEF Free
  <2>4. CopyInv
    BY <1>3, <2>3 DEF CopyInv
  <2> QED BY <2>1, <2>2, <2>4 DEF WriteInv
<1>5. LoadInv
  <2>1. <<>> \in RowSeqs /\ <<>> \in ResultSeqs /\ {} \in TagSets /\ "new" \in LoadPCs
    BY DEF RowSeqs, ResultSeqs, TagSets, LoadPCs
  <2>2. NoLoad \in LoadStates
    BY <2>1 DEF NoLoad, LoadStates
  <2> QED BY <1>3, <2>2 DEF LoadInv
<1>6. AnswerInv
  <2>1. NoLoad.pc = "new"
    BY DEF NoLoad
  <2>2. BooksInv
    BY <1>3, <2>1 DEF BooksInv
  <2>3. \A t \in Tags, l \in Loads : waiters[t] # l
    BY <1>3, RecipeAssumption
  <2> QED BY <2>2, <2>3 DEF AnswerInv, WaitInv, OwnInv
<1> QED BY <1>2, <1>4, <1>5, <1>6 DEF PathSafe

LEMMA PathSafeStep ==
  ASSUME PathSafe, [ProcessNext]_driverAllVars
  PROVE  PathSafe'
<1>1. ConfigInv'
  BY ConfigStep DEF PathSafe
<1>2. ConfigInv /\ WriteInv /\ LoadInv /\ AnswerInv
  BY DEF PathSafe
<1>3. CASE UNCHANGED allPathVars
  <2>1. UNCHANGED <<setup, plc, last, clash, cmds, acks, writer, waiters, load, mixed>>
    BY <1>3 DEF allPathVars, pathVars, recipeVars, deviceVars, busVars
  <2>2. WriteInv'
    BY <1>2, <2>1, BusMoves DEF WriteInv, BusInv
  <2>3. \A t, b : InWay(t, b)' <=> InWay(t, b)
    BY <2>1, WayKept
  <2>4. mixed \subseteq mixed' /\ mixed' \subseteq Tags
    BY <1>2, <2>1 DEF LoadInv
  <2>5. LoadInv' /\ AnswerInv'
    BY <1>2, <2>1, <2>3, <2>4, OthersAnswered
  <2> QED BY <1>1, <2>2, <2>5 DEF PathSafe
<1>4. CASE PathNext
  <2>1. CASE DriverSteps
    BY <1>1, <1>2, <2>1, DriverAnswers DEF PathSafe
  <2>2. CASE \E t \in Tags, v \in Values :
               TagWrite(t, v) \/ I3XWrite(t, v) \/ \E age \in 0..(MaxAge + 1) : ExternalWrite(t, v, age)
    BY <1>1, <1>2, <2>2, SingleWrite DEF PathSafe, TagWrite, I3XWrite
  <2>3. CASE \E l \in Loads : LoadSteps(l)
    BY <1>1, <1>2, <2>3, LoadStarts, LoadSends, LoadTakes, LoadTimesOut, LoadFinishes DEF PathSafe, LoadSteps
  <2>4. CASE HandleAck
    BY <1>1, <1>2, <2>4, ResultHeard DEF PathSafe
  <2> QED BY <1>4, <2>1, <2>2, <2>3, <2>4 DEF PathNext
<1> QED BY <1>3, <1>4, Steps

\* writeBool: unless read-modify-writes of one register overlapped, each bit of the
\* device is what it was last set to, whatever was written to its neighbours.
THEOREM ApartHolds == ProcessSpec => []WritesStayApart
<1>1. PathSafe => WritesStayApart
  BY DEF PathSafe, WriteInv
<1> QED BY <1>1, PathSafeInit, PathSafeStep, PTL DEF ProcessSpec

LEMMA PathSafeAnswers ==
  ASSUME PathSafe
  PROVE  LoadIsAnswered
<1> SUFFICES ASSUME NEW l \in Loads, load[l].pc = "done", TagsOf(l) \cap mixed = {}
    PROVE  LET r == load[l].results
           IN  /\ Len(r) = Cardinality(TagsOf(l)) /\ {r[i].tag : i \in 1..Len(r)} = TagsOf(l)
               /\ \A i \in 1..Len(r) : r[i].by = l
  BY DEF LoadIsAnswered
<1>1. AnsweredBy(load[l].results, TagsOf(l), l)
  BY DEF PathSafe, AnswerInv, BooksInv
<1> QED BY <1>1 DEF AnsweredBy, TagsIn, AllBy

\* Load: every value of a recipe is answered once, and by this load's own write, for
\* every number of loads, tags and writers, whatever results are lost, late or double.
THEOREM AnsweredHolds == ProcessSpec => []LoadIsAnswered
<1> QED BY PathSafeInit, PathSafeStep, PathSafeAnswers, PTL DEF ProcessSpec

-----------------------------------------------------------------------------
(* ShownAfterPoll.  What a poll has in front of it.                          *)

LEMMA ToSetFirst ==
  ASSUME NEW D, NEW q \in Seq(D), q # <<>>
  PROVE  Head(q) \in D /\ Tail(q) \in Seq(D) /\ ToSet(q) = {Head(q)} \cup ToSet(Tail(q))
<1> DEFINE r == Tail(q)
           n == Len(q)
<1>1. n \in Nat /\ Len(r) = n - 1 /\ 1 \in 1..n /\ Head(q) = q[1] /\ Head(q) \in D /\ r \in Seq(D)
  BY OneLess, HeadTailProperties
<1>2. \A i \in 1..Len(r) : i + 1 \in 1..n /\ r[i] = q[i + 1]
  BY OneLess
<1>3. \A i \in 1..n : i = 1 \/ (i - 1 \in 1..Len(r) /\ r[i - 1] = q[i])
  <2>1. \A i \in 1..n : i = 1 \/ (i - 1 \in 1..Len(r) /\ (i - 1) + 1 = i)
    BY <1>1
  <2> QED BY <2>1, <1>2
<1>4. DOMAIN q = 1..n /\ DOMAIN r = 1..Len(r)
  BY <1>1, LenProperties
<1> HIDE DEF r, n
<1>5. {q[i] : i \in 1..n} = {Head(q)} \cup {r[i] : i \in 1..Len(r)}
  <2>1. \A i \in 1..n : q[i] \in {Head(q)} \cup {r[k] : k \in 1..Len(r)}
    <3> TAKE i \in 1..n
    <3>1. CASE i = 1
      BY <3>1, <1>1
    <3>2. CASE i # 1
      <4>1. i - 1 \in 1..Len(r) /\ q[i] = r[i - 1]
        BY <3>2, <1>3
      <4> QED BY <4>1
    <3> QED BY <3>1, <3>2
  <2>2. \A x \in {r[i] : i \in 1..Len(r)} : x \in {q[i] : i \in 1..n}
    BY <1>2
  <2>3. Head(q) \in {q[i] : i \in 1..n}
    BY <1>1
  <2> QED BY <2>1, <2>2, <2>3
<1> QED BY <1>1, <1>4, <1>5 DEF ToSet, r

LEMMA ToSetConcat ==
  ASSUME NEW D, NEW q \in Seq(D), NEW s \in Seq(D), q # <<>>
  PROVE  q \o s \in Seq(D) /\ q \o s # <<>> /\ ToSet(q) \cup ToSet(s) \subseteq ToSet(q \o s)
<1> DEFINE a == q \o s
           n == Len(q)
           m == Len(s)
<1>1. /\ n \in Nat /\ m \in Nat /\ a \in Seq(D) /\ Len(a) = n + m
      /\ \A i \in 1..(n + m) : a[i] = IF i <= n THEN q[i] ELSE s[i - n]
      /\ DOMAIN a = 1..(n + m) /\ DOMAIN q = 1..n /\ DOMAIN s = 1..m
  BY ConcatProperties, LenProperties
<1>2. n # 0
  BY EmptySeq
<1>3. a # <<>>
  BY <1>1, <1>2, EmptySeq
<1>4. \A i \in 1..n : i \in 1..(n + m) /\ i <= n
  BY <1>1
<1>5. \A i \in 1..m : i + n \in 1..(n + m) /\ ~(i + n <= n) /\ (i + n) - n = i
  BY <1>1
<1> HIDE DEF a, n, m
<1>6. (\A i \in 1..n : a[i] = q[i]) /\ \A i \in 1..m : a[i + n] = s[i]
  BY <1>1, <1>4, <1>5
<1>7. {q[i] : i \in 1..n} \cup {s[i] : i \in 1..m} \subseteq {a[i] : i \in 1..(n + m)}
  <2>1. \A x \in {q[i] : i \in 1..n} : x \in {a[i] : i \in 1..(n + m)}
    BY <1>4, <1>6
  <2>2. \A x \in {s[i] : i \in 1..m} : x \in {a[i] : i \in 1..(n + m)}
    BY <1>5, <1>6
  <2> QED BY <2>1, <2>2
<1> QED BY <1>1, <1>3, <1>7 DEF ToSet, a

\* Blocks to read, and their tags.
TagLists == Seq(Tags) \ {<<>>}
Queues == {q \in Seq(Blocks) : \A i \in 1..Len(q) : q[i].tags # <<>>}
QueueTags(q) == UNION {ToSet(q[i].tags) : i \in 1..Len(q)}

LEMMA QueueFirst ==
  ASSUME NEW q \in Queues, q # <<>>
  PROVE  /\ Head(q).tags \in TagLists /\ Tail(q) \in Queues
         /\ QueueTags(q) = ToSet(Head(q).tags) \cup QueueTags(Tail(q))
<1> DEFINE r == Tail(q)
           n == Len(q)
<1>0. q \in Seq(Blocks)
  BY DEF Queues
<1>1. n \in Nat /\ Len(r) = n - 1 /\ 1 \in 1..n /\ Head(q) = q[1] /\ Head(q) \in Blocks /\ r \in Seq(Blocks)
  BY <1>0, OneLess, HeadTailProperties
<1>2. \A i \in 1..Len(r) : i + 1 \in 1..n /\ r[i] = q[i + 1]
  BY <1>0, OneLess
<1>3. \A i \in 1..n : i = 1 \/ (i - 1 \in 1..Len(r) /\ r[i - 1] = q[i])
  <2>1. \A i \in 1..n : i = 1 \/ (i - 1 \in 1..Len(r) /\ (i - 1) + 1 = i)
    BY <1>1
  <2> QED BY <2>1, <1>2
<1>4. \A i \in 1..n : q[i].tags # <<>>
  BY DEF Queues
<1> HIDE DEF r, n
<1>5. r \in Queues
  BY <1>1, <1>2, <1>4 DEF Queues
<1>6. Head(q).tags \in TagLists
  BY <1>1, <1>4 DEF Blocks, TagLists
<1>7. QueueTags(q) = ToSet(Head(q).tags) \cup QueueTags(r)
  <2> DEFINE Of(k) == ToSet(q[k].tags)
             Rest(k) == ToSet(r[k].tags)
  <2>1. Of(1) = ToSet(Head(q).tags) /\ \A i \in 1..Len(r) : Rest(i) = Of(i + 1)
    BY <1>1, <1>2
  <2>2. \A i \in 1..n : i = 1 \/ (i - 1 \in 1..Len(r) /\ Rest(i - 1) = Of(i))
    BY <1>3
  <2>3. QueueTags(q) = UNION {Of(i) : i \in 1..n} /\ QueueTags(r) = UNION {Rest(i) : i \in 1..Len(r)}
    BY DEF QueueTags, n
  <2> HIDE DEF Of, Rest
  <2>4. \A x \in UNION {Of(i) : i \in 1..n} : x \in Of(1) \cup UNION {Rest(i) : i \in 1..Len(r)}
    BY <2>2
  <2>5. \A x \in UNION {Rest(i) : i \in 1..Len(r)} : x \in UNION {Of(i) : i \in 1..n}
    BY <2>1, <1>2
  <2>6. \A x \in Of(1) : x \in UNION {Of(i) : i \in 1..n}
    BY <1>1
  <2> QED BY <2>1, <2>3, <2>4, <2>5, <2>6
<1> QED BY <1>5, <1>6, <1>7 DEF r

\* The configured blocks hold the tags of the layout.
LEMMA QueueOfLayout ==
  ASSUME ConfigInv
  PROVE  /\ config.blocks \in Queues /\ DOMAIN config.layout \subseteq QueueTags(config.blocks)
         /\ DOMAIN config.layout \subseteq Tags
<1>1. Layout(config.layout)
  BY DriverAssumption DEF ConfigInv
<1>2. BlockTags(config.blocks, config.layout)
  BY <1>1, BlocksHaveTags DEF ConfigInv
<1> QED BY <1>1, <1>2 DEF BlockTags, Queues, QueueTags, Layout

\* publishBadQualityForBlocks goes through all of them.
Flattening(q, n, f) == f = [i \in 1..n |-> IF i = 1 THEN q[i] ELSE f[i - 1] \o q[i]]

LEMMA FlatteningExists ==
  ASSUME NEW q, NEW n \in Nat
  PROVE  \E f : Flattening(q, n, f)
<1> DEFINE T == {k \in Nat : \E f : Flattening(q, k, f)}
<1>1. 0 \in T
  <2>1. Flattening(q, 0, [i \in 1..0 |-> q[i]])
    BY DEF Flattening
  <2> QED BY <2>1
<1>2. ASSUME NEW k \in 0..(n - 1), k \in T PROVE k + 1 \in T
  <2>1. PICK f : Flattening(q, k, f)
    BY <1>2
  <2> DEFINE g == [i \in 1..(k + 1) |-> IF i = k + 1 THEN IF i = 1 THEN q[i] ELSE f[k] \o q[i] ELSE f[i]]
  <2>2. Flattening(q, k + 1, g)
    <3>1. \A i \in 1..(k + 1) : i = k + 1 \/ i \in 1..k
      OBVIOUS
    <3>2. \A i \in 1..k : f[i] = IF i = 1 THEN q[i] ELSE f[i - 1] \o q[i]
      BY <2>1 DEF Flattening
    <3>3. g[k + 1] = IF k + 1 = 1 THEN q[k + 1] ELSE f[k] \o q[k + 1]
      OBVIOUS
    <3>4. \A i \in 1..k : g[i] = f[i] /\ i \in 1..(k + 1)
      OBVIOUS
    <3>5. \A i \in 1..(k + 1) : i # 1 => i - 1 \in 1..k
      OBVIOUS
    <3>6. k + 1 # 1 => k \in 1..k /\ (k + 1) - 1 = k
      OBVIOUS
    <3> HIDE DEF g
    <3>7. \A i \in 1..(k + 1) : g[i] = IF i = 1 THEN q[i] ELSE g[i - 1] \o q[i]
      BY <3>1, <3>2, <3>3, <3>4, <3>5, <3>6
    <3> QED BY <3>7 DEF Flattening, g
  <2> QED BY <2>2
<1> HIDE DEF T
<1>3. n \in T
  BY <1>1, <1>2, NumberInduction
<1> QED BY <1>3 DEF T

LEMMA AllTagsOf ==
  ASSUME NEW q \in Queues, q # <<>>
  PROVE  AllTags(q) \in TagLists /\ QueueTags(q) \subseteq ToSet(AllTags(q))
<1> DEFINE n == Len(q)
           s == [i \in 1..n |-> q[i].tags]
           f == CHOOSE f : f = [i \in 1..n |-> IF i = 1 THEN s[i] ELSE f[i - 1] \o s[i]]
<1>1. q \in Seq(Blocks) /\ n \in Nat /\ n # 0 /\ Len(s) = n
  BY LenProperties, EmptySeq DEF Queues
<1>2. \A i \in 1..n : s[i] \in Seq(Tags) /\ s[i] # <<>> /\ s[i] = q[i].tags
  <2>1. \A i \in 1..n : q[i] \in Blocks
    BY <1>1, ElementOfSeq
  <2> QED BY <2>1 DEF Queues, Blocks
<1>3. AllTags(q) = f[n]
  BY <1>1 DEF AllTags, FlattenSeq
<1> HIDE DEF s
<1>4. f = [i \in 1..n |-> IF i = 1 THEN s[i] ELSE f[i - 1] \o s[i]]
  <2>1. \E h : h = [i \in 1..n |-> IF i = 1 THEN s[i] ELSE h[i - 1] \o s[i]]
    BY <1>1, FlatteningExists DEF Flattening
  <2> QED BY <2>1
<1> HIDE DEF f, n
<1>5. \A i \in 1..n : f[i] = IF i = 1 THEN s[i] ELSE f[i - 1] \o s[i]
  BY <1>4
<1> DEFINE T == {k \in 0..(n - 1) : f[k + 1] \in TagLists /\ \A i \in 1..(k + 1) : ToSet(s[i]) \subseteq ToSet(f[k + 1])}
<1>6. 0 \in T
  <2>1. 0 \in 0..(n - 1) /\ 1 \in 1..n /\ 1..(0 + 1) = {1} /\ 0 + 1 = 1
    BY <1>1
  <2> QED BY <2>1, <1>2, <1>5 DEF TagLists
<1>7. ASSUME NEW k \in 0..((n - 1) - 1), k \in T PROVE k + 1 \in T
  <2> DEFINE j == k + 2
  <2>1. /\ k + 1 \in 0..(n - 1) /\ j \in 1..n /\ j - 1 = k + 1 /\ (k + 1) + 1 = j /\ j # 1
        /\ \A i \in 1..j : i = j \/ i \in 1..(k + 1)
    BY <1>1
  <2> HIDE DEF j
  <2>2. f[j] = f[k + 1] \o s[j]
    BY <2>1, <1>5
  <2>3. f[k + 1] \in Seq(Tags) /\ f[k + 1] # <<>> /\ \A i \in 1..(k + 1) : ToSet(s[i]) \subseteq ToSet(f[k + 1])
    BY <1>7 DEF TagLists
  <2>4. s[j] \in Seq(Tags)
    BY <1>2, <2>1
  <2>5. f[j] \in TagLists /\ ToSet(f[k + 1]) \cup ToSet(s[j]) \subseteq ToSet(f[j])
    BY <2>2, <2>3, <2>4, ToSetConcat DEF TagLists
  <2>6. \A i \in 1..j : ToSet(s[i]) \subseteq ToSet(f[j])
    BY <2>1, <2>3, <2>5
  <2> QED BY <2>1, <2>5, <2>6
<1> HIDE DEF T
<1>8. n - 1 \in T
  <2>1. n - 1 \in Nat
    BY <1>1
  <2> QED BY <2>1, <1>6, <1>7, NumberInduction
<1>9. f[n] \in TagLists /\ \A i \in 1..n : ToSet(s[i]) \subseteq ToSet(f[n])
  <2>1. (n - 1) + 1 = n
    BY <1>1
  <2> QED BY <2>1, <1>8 DEF T
<1> QED BY <1>2, <1>3, <1>9 DEF QueueTags, n

-----------------------------------------------------------------------------
(* One undisturbed poll repairs what is shown: while it goes on, each tag of *)
(* the layout is shown as it is, or is in front of the poll and will be      *)
(* published then.                                                           *)

GoodPCs == {"check", "confirm", "publish", "state"}
BadPCs == {"bad", "badstate"}
Judged == GoodPCs \cup BadPCs

GoTypes == {"nil", "int", "int16", "bool", "float64", "string"}
Remembered == [v : Values, type : GoTypes, q : {Good, Bad}]
Showing == [v : Values, q : {Good, Bad}]
CoolStates == {"none", "running", "over"}
Datas == [Tags -> Values \cup Remembered]

Connecting == [pc |-> "connect"]
Reads == [pc : {"read"}, todo : Queues \ {<<>>}]
Judges == [pc : Judged, todo : Queues, tags : TagLists, data : Datas]

\* What a poll holds: values while it judges a block, and the last one it has
\* published with bad quality.
HeldIn(p) ==
  /\ p.pc \in GoodPCs => \A t \in Tags : p.data[t] \in Values
  /\ p.pc = "badstate" => LET r == p.data[Head(p.tags)] IN r \in Remembered /\ r.type # "nil" /\ r.q = Bad

PollStates == {Idle, Connecting} \cup Reads \cup Judges
PollInv == poll \in PollStates /\ HeldIn(poll)

MapsInv ==
  /\ prev \in [Tags -> Remembered] /\ shown \in [Tags -> Showing]
  /\ cool \in [Tags -> CoolStates] /\ due \in [Tags -> BOOLEAN]
  /\ \A t \in Tags : prev[t].type = "nil" => prev[t].q = Good

\* An undisturbed poll reads what the device holds, and nothing if it does not answer.
FaithfulIn(p) ==
  /\ p.pc \in {"read"} \cup Judged /\ alive => client
  /\ p.pc \in GoodPCs => alive /\ \A t \in ToSet(p.tags) : p.data[t] = plc[t]
  /\ p.pc \in BadPCs => ~alive

CalmInv == calm => FaithfulIn(poll)

\* Where nobody writes, nothing of a write is under way.
NoWrites == setup.env \cap Writing = {}
QuietInv ==
  NoWrites => /\ cmds = <<>> /\ \A w \in 1..Writers : writer[w] = Free
              /\ \A l \in Loads : load[l].pc = "new"

\* Publishing on change only, where every publish goes out: what is remembered of a
\* tag is what is shown of it, except between its publish and updateState.
AllSeen == setup.env \cap Unrepaired = {}
ShownAs(t, r) == shown[t] = [v |-> r.v, q |-> r.q]
ChangeOnly == setup.heartbeat = "never" /\ AllSeen
Between(p) == p.pc \in {"state", "badstate"}
ChangeInv ==
  ChangeOnly =>
    /\ \A t \in Tags : prev[t].type # "nil" => ShownAs(t, prev[t]) \/ (Between(poll) /\ t = Head(poll.tags))
    /\ poll.pc = "state" => ShownAs(Head(poll.tags), Reading(Head(poll.tags)))
    /\ poll.pc = "badstate" => ShownAs(Head(poll.tags), poll.data[Head(poll.tags)])

LeftIn(p, t) ==
  \/ p.pc = "connect"
  \/ p.pc \in {"read"} \cup Judged /\ t \in QueueTags(p.todo)
  \/ p.pc \in Judged /\ t \in ToSet(p.tags)

Right(t) == IF alive THEN shown[t] = [v |-> plc[t], q |-> Good] ELSE shown[t].q = Bad
Ready(t) == cool[t] # "running" /\ (setup.heartbeat = "timer" => due[t])

\* The polls the property is about.
Repairing == calm /\ config.usable /\ (setup.heartbeat = "never" => AllSeen)
RepairInv ==
  Repairing =>
    /\ \A t \in DOMAIN config.layout : Right(t) \/ (LeftIn(poll, t) /\ Ready(t))
    /\ Between(poll) /\ Head(poll.tags) \in DOMAIN config.layout => Right(Head(poll.tags))

ShowInv == troubles \in Nat /\ PollInv /\ MapsInv /\ CalmInv /\ QuietInv /\ ChangeInv /\ RepairInv

LEMMA SeenAlone == AllSeen => NoWrites /\ ~Can("unsent")
BY DEF AllSeen, Unrepaired, NoWrites, Can

LEMMA PollKinds ==
  ASSUME NEW p \in PollStates
  PROVE  /\ p.pc \in {"idle", "connect", "read"} \cup Judged
         /\ p.pc = "idle" => p = Idle
         /\ p.pc = "connect" => p = Connecting
         /\ p.pc = "read" => p \in Reads
         /\ p.pc \in Judged => p \in Judges
<1>1. CASE p = Idle \/ p = Connecting
  BY <1>1 DEF Idle, Connecting, Judged, GoodPCs, BadPCs
<1>2. CASE p \in Reads
  BY <1>2 DEF Reads, Judged, GoodPCs, BadPCs
<1>3. CASE p \in Judges
  <2>1. p.pc \in Judged
    BY <1>3 DEF Judges
  <2> QED BY <1>3, <2>1 DEF Judged, GoodPCs, BadPCs
<1> QED BY <1>1, <1>2, <1>3 DEF PollStates

LEMMA JudgeFields ==
  ASSUME NEW p \in Judges
  PROVE  /\ p.pc \in Judged /\ p.todo \in Queues /\ p.tags \in TagLists /\ p.data \in Datas
         /\ Head(p.tags) \in Tags /\ Head(p.tags) \in ToSet(p.tags) /\ ToSet(p.tags) \subseteq Tags
<1>1. p.pc \in Judged /\ p.todo \in Queues /\ p.tags \in TagLists /\ p.data \in Datas
  BY DEF Judges
<1>2. p.tags \in Seq(Tags) /\ p.tags # <<>>
  BY <1>1 DEF TagLists
<1>3. Head(p.tags) \in Tags /\ Head(p.tags) \in ToSet(p.tags)
  BY <1>2, ToSetFirst
<1>4. \A i \in DOMAIN p.tags : p.tags[i] \in Tags
  BY <1>2, LenProperties, ElementOfSeq
<1>5. ToSet(p.tags) \subseteq Tags
  BY <1>4 DEF ToSet
<1> QED BY <1>1, <1>3, <1>5

LEMMA JudgeMade ==
  ASSUME NEW c \in Judged, NEW b \in TagLists, NEW q \in Queues, NEW d \in Datas
  PROVE  LET p == Judging(c, b, q, d)
         IN  p \in Judges /\ p.pc = c /\ p.tags = b /\ p.todo = q /\ p.data = d
BY DEF Judging, Judges

LEMMA JudgeAt ==
  ASSUME NEW p \in Judges, NEW c \in Judged
  PROVE  LET n == [p EXCEPT !.pc = c]
         IN  n \in Judges /\ n.pc = c /\ n.tags = p.tags /\ n.todo = p.todo /\ n.data = p.data
BY DEF Judges

LEMMA JudgeForgets ==
  ASSUME NEW p \in Judges, NEW d \in Datas
  PROVE  LET n == [p EXCEPT !.pc = "bad", !.data = d]
         IN  n \in Judges /\ n.pc = "bad" /\ n.tags = p.tags /\ n.todo = p.todo /\ n.data = d
<1>1. "bad" \in Judged
  BY DEF Judged, BadPCs
<1> QED BY <1>1 DEF Judges

\* What is in front of a poll depends on its blocks and tags.
LEMMA LeftJudge ==
  ASSUME NEW p \in Judges, NEW t
  PROVE  LeftIn(p, t) <=> t \in QueueTags(p.todo) \/ t \in ToSet(p.tags)
<1>1. p.pc \in Judged
  BY JudgeFields
<1>2. p.pc # "connect"
  BY <1>1 DEF Judged, GoodPCs, BadPCs
<1> QED BY <1>1, <1>2 DEF LeftIn

LEMMA LeftRead ==
  ASSUME NEW p \in Reads, NEW t
  PROVE  LeftIn(p, t) <=> t \in QueueTags(p.todo)
<1>1. p.pc = "read"
  BY DEF Reads
<1> QED BY <1>1 DEF LeftIn, Judged, GoodPCs, BadPCs

LEMMA QueueEmpty == QueueTags(<<>>) = {}
<1>1. Len(<<>>) = 0 /\ 1..0 = {}
  OBVIOUS
<1> QED BY <1>1 DEF QueueTags

LEMMA ReadMade ==
  ASSUME NEW q \in Queues, q # <<>>
  PROVE  LET n == [pc |-> "read", todo |-> q]
         IN  n \in Reads /\ n.pc = "read" /\ n.todo = q /\ \A t : LeftIn(n, t) <=> t \in QueueTags(q)
<1> DEFINE n == [pc |-> "read", todo |-> q]
<1>1. n \in Reads /\ n.pc = "read" /\ n.todo = q
  BY DEF Reads
<1> HIDE DEF n
<1>2. \A t : LeftIn(n, t) <=> t \in QueueTags(q)
  BY <1>1, LeftRead
<1> QED BY <1>1, <1>2 DEF n

\* After a tag: the next one, the next block, or the end.
LEMMA TagDone ==
  ASSUME NEW p \in Judges, p.pc \in {"check", "bad"}, HeldIn(p), NEW n, n = AfterTag(p)
  PROVE  /\ n \in PollStates /\ HeldIn(n) /\ ~Between(n)
         /\ FaithfulIn(p) => FaithfulIn(n)
         /\ \A t : LeftIn(p, t) => t = Head(p.tags) \/ LeftIn(n, t)
<1>1. /\ p.todo \in Queues /\ p.tags \in Seq(Tags) /\ p.tags # <<>> /\ p.data \in Datas /\ p.pc \in Judged
  BY JudgeFields DEF TagLists
<1>2. Tail(p.tags) \in Seq(Tags) /\ ToSet(p.tags) = {Head(p.tags)} \cup ToSet(Tail(p.tags))
  BY <1>1, ToSetFirst
<1>3. \A t : LeftIn(p, t) <=> t \in QueueTags(p.todo) \/ t = Head(p.tags) \/ t \in ToSet(Tail(p.tags))
  BY <1>2, LeftJudge
<1>4. CASE Tail(p.tags) = <<>> /\ p.todo = <<>>
  <2>1. n = Idle /\ n.pc = "idle"
    BY <1>4 DEF AfterTag, Idle
  <2>2. ToSet(Tail(p.tags)) = {} /\ QueueTags(p.todo) = {}
    BY <1>4, QueueEmpty DEF ToSet
  <2>3. HeldIn(n) /\ ~Between(n) /\ FaithfulIn(n)
    BY <2>1 DEF HeldIn, Between, FaithfulIn, Judged, GoodPCs, BadPCs
  <2> QED BY <2>1, <2>2, <2>3, <1>3 DEF PollStates
<1>5. CASE Tail(p.tags) = <<>> /\ p.todo # <<>>
  <2>1. n = [pc |-> "read", todo |-> p.todo]
    BY <1>5 DEF AfterTag
  <2>2. n \in Reads /\ n.pc = "read" /\ \A t : LeftIn(n, t) <=> t \in QueueTags(p.todo)
    BY <2>1, <1>1, <1>5, ReadMade
  <2>3. HeldIn(n) /\ ~Between(n) /\ (FaithfulIn(p) => FaithfulIn(n))
    BY <1>1, <2>2 DEF HeldIn, Between, FaithfulIn, Judged, GoodPCs, BadPCs
  <2>4. ToSet(Tail(p.tags)) = {}
    BY <1>5 DEF ToSet
  <2> QED BY <2>2, <2>3, <2>4, <1>3 DEF PollStates
<1>6. CASE Tail(p.tags) # <<>>
  <2> DEFINE b == Tail(p.tags)
  <2>1. b \in TagLists /\ n = [p EXCEPT !.tags = b]
    BY <1>2, <1>6 DEF AfterTag, TagLists
  <2> HIDE DEF b
  <2>2. n \in Judges /\ n.pc = p.pc /\ n.tags = b /\ n.todo = p.todo /\ n.data = p.data
    BY <2>1 DEF Judges
  <2>3. \A t : LeftIn(n, t) <=> t \in QueueTags(p.todo) \/ t \in ToSet(b)
    BY <2>2, LeftJudge
  <2>4. HeldIn(n) /\ ~Between(n)
    BY <2>2 DEF HeldIn, Between, GoodPCs
  <2>5. FaithfulIn(p) => FaithfulIn(n)
    BY <2>2, <1>2 DEF FaithfulIn, b
  <2> QED BY <2>2, <2>3, <2>4, <2>5, <1>3 DEF b, PollStates
<1> QED BY <1>4, <1>5, <1>6

-----------------------------------------------------------------------------
(* The steps of a poll. *)

\* What a poll leaves alone, and what it makes of calm.
PollKeeps ==
  /\ UNCHANGED <<setup, config, plc, alive, cmds, load>>
  /\ UNCHANGED writer \/ writer' = Closed
  /\ calm' = IF poll = Idle THEN AtRest ELSE (calm /\ troubles' = troubles)

LEMMA FreeClosed == [Free EXCEPT !.live = FALSE] = Free
<1>1. \A r \in [pc : {"free"}, live : BOOLEAN] : r.live = FALSE => [r EXCEPT !.live = FALSE] = r
  OBVIOUS
<1>2. Free \in [pc : {"free"}, live : BOOLEAN] /\ Free.live = FALSE
  BY DEF Free
<1> QED BY <1>1, <1>2

\* What is written to the device is closed with the client, which a free writer does not notice.
LEMMA QuietKept ==
  ASSUME QuietInv, UNCHANGED <<setup, cmds, load>>, UNCHANGED writer \/ writer' = Closed
  PROVE  QuietInv'
<1>1. [Free EXCEPT !.live = FALSE] = Free
  BY FreeClosed
<1>2. ASSUME NoWrites, NEW w \in 1..Writers PROVE writer'[w] = Free
  <2>1. writer[w] = Free
    BY <1>2 DEF QuietInv
  <2>2. CASE writer' = Closed
    BY <1>1, <2>1, <2>2 DEF Closed
  <2> QED BY <2>1, <2>2
<1> QED BY <1>2 DEF QuietInv, NoWrites

LEMMA SetupModes ==
  ASSUME ConfigInv
  PROVE  setup.heartbeat \in {"always", "timer", "never"} /\ setup.bits \in BOOLEAN
BY DriverAssumption DEF ConfigInv

\* A step that shows and remembers nothing.
LEMMA StillPoll ==
  ASSUME ShowInv, PollKeeps, UNCHANGED <<prev, shown, due>>, troubles' \in Nat,
         NEW n, poll' = n, n \in PollStates, HeldIn(n), ~Between(poll), ~Between(n),
         cool' \in [Tags -> CoolStates], \A t \in Tags : cool[t] # "running" => cool'[t] # "running",
         DOMAIN config.layout \subseteq Tags,
         calm' => FaithfulIn(n)',
         Repairing' => \A t \in DOMAIN config.layout : Right(t) \/ (LeftIn(n, t) /\ Ready(t))
  PROVE  ShowInv'
<1>1. PollInv' /\ troubles' \in Nat
  BY DEF PollInv
<1>2. MapsInv'
  BY DEF ShowInv, MapsInv
<1>3. CalmInv'
  BY DEF CalmInv
<1>4. QuietInv'
  BY QuietKept DEF ShowInv, PollKeeps
<1>5. ChangeInv'
  <2>1. setup' = setup /\ (AllSeen' <=> AllSeen)
    BY DEF PollKeeps, AllSeen
  <2>2. n.pc # "state" /\ n.pc # "badstate"
    BY DEF Between
  <2>3. ChangeOnly => \A t \in Tags : prev[t].type # "nil" => ShownAs(t, prev[t])
    BY DEF ShowInv, ChangeInv
  <2>4. ChangeOnly' <=> ChangeOnly
    BY <2>1 DEF ChangeOnly
  <2>5. ChangeOnly' => \A t \in Tags : prev'[t].type # "nil" => ShownAs(t, prev[t])'
    BY <2>3, <2>4 DEF ShownAs
  <2> QED BY <2>2, <2>5 DEF ChangeInv
<1>6. RepairInv'
  <2> SUFFICES ASSUME Repairing', NEW t \in DOMAIN config.layout
               PROVE  Right(t)' \/ (LeftIn(n, t) /\ Ready(t)')
    BY DEF RepairInv, PollKeeps
  <2>1. Right(t)' <=> Right(t)
    BY DEF Right, PollKeeps
  <2>2. Ready(t) => Ready(t)'
    BY DEF Ready, PollKeeps
  <2> QED BY <2>1, <2>2
<1> QED BY <1>1, <1>2, <1>3, <1>4, <1>5, <1>6 DEF ShowInv

\* A step that is done with the tag t, or about to remember what it has shown of it:
\* t is right from here on, and the others are as they were.
LEMMA RepairOn ==
  ASSUME RepairInv, PollKeeps, poll # Idle, NEW n, poll' = n, NEW t \in Tags,
         DOMAIN config.layout \subseteq Tags,
         \A u \in Tags : u # t => shown'[u] = shown[u] /\ due'[u] = due[u] /\ cool'[u] = cool[u],
         \A u : LeftIn(poll, u) => u = t \/ LeftIn(n, u),
         Between(n) => Head(n.tags) = t,
         t \in DOMAIN config.layout /\ Repairing => Right(t)'
  PROVE  RepairInv'
<1>1. Repairing' => Repairing
  BY DEF Repairing, PollKeeps, AllSeen
<1>2. ASSUME Repairing, NEW u \in DOMAIN config.layout, u # t
      PROVE  Right(u)' \/ (LeftIn(n, u) /\ Ready(u)')
  <2>1. Right(u) \/ (LeftIn(poll, u) /\ Ready(u))
    BY <1>2 DEF RepairInv
  <2>2. Right(u)' <=> Right(u)
    BY <1>2 DEF Right, PollKeeps
  <2>3. Ready(u)' <=> Ready(u)
    BY <1>2 DEF Ready, PollKeeps
  <2> QED BY <2>1, <2>2, <2>3, <1>2
<1>3. Repairing' => \A u \in DOMAIN config'.layout : Right(u)' \/ (LeftIn(n, u) /\ Ready(u)')
  BY <1>1, <1>2 DEF PollKeeps
<1>4. Repairing' /\ Between(n) /\ Head(n.tags) \in DOMAIN config'.layout => Right(Head(n.tags))'
  BY <1>1 DEF PollKeeps
<1> QED BY <1>3, <1>4 DEF RepairInv

LEMMA ChangeOn ==
  ASSUME ChangeInv, PollKeeps, NEW n, poll' = n, NEW t \in Tags,
         \A u \in Tags : u # t => shown'[u] = shown[u] /\ prev'[u] = prev[u],
         Between(poll) => Head(poll.tags) = t, Between(n) => Head(n.tags) = t,
         ChangeOnly =>
           \/ ~Between(n) /\ (prev'[t].type # "nil" => shown'[t] = [v |-> prev'[t].v, q |-> prev'[t].q])
           \/ n.pc = "state" /\ shown'[t] = [v |-> n.data[t], q |-> Good]
           \/ n.pc = "badstate" /\ shown'[t] = [v |-> n.data[t].v, q |-> n.data[t].q]
  PROVE  ChangeInv'
<1>1. ChangeOnly' <=> ChangeOnly
  BY DEF ChangeOnly, PollKeeps, AllSeen
<1>2. ASSUME ChangeOnly, NEW u \in Tags, prev'[u].type # "nil"
      PROVE  ShownAs(u, prev[u])' \/ (Between(n) /\ u = Head(n.tags))
  <2>1. CASE u # t
    <3>1. prev[u].type # "nil" /\ (ShownAs(u, prev[u]) \/ (Between(poll) /\ u = Head(poll.tags)))
      BY <1>2, <2>1 DEF ChangeInv
    <3>2. ShownAs(u, prev[u])
      BY <2>1, <3>1
    <3> QED BY <2>1, <3>2 DEF ShownAs
  <2>2. CASE u = t
    BY <1>2, <2>2 DEF ShownAs, Between
  <2> QED BY <2>1, <2>2
<1>3. ASSUME ChangeOnly, n.pc = "state"
      PROVE  ShownAs(Head(n.tags), Reading(Head(n.tags)))'
  BY <1>3 DEF ShownAs, Reading, Between
<1>4. ASSUME ChangeOnly, n.pc = "badstate"
      PROVE  ShownAs(Head(n.tags), n.data[Head(n.tags)])'
  BY <1>4 DEF ShownAs, Between
<1> QED BY <1>1, <1>2, <1>3, <1>4 DEF ChangeInv

LEMMA Reports ==
  ASSUME MapsInv, NEW t \in Tags, NEW r \in Remembered, Reported(t, r), troubles \in Nat
  PROVE  /\ shown' \in [Tags -> Showing] /\ due' \in [Tags -> BOOLEAN] /\ troubles' \in Nat
         /\ \A u \in Tags : u # t => shown'[u] = shown[u] /\ due'[u] = due[u]
         /\ shouldPublish(t, r) => shown'[t] = [v |-> r.v, q |-> r.q] \/ (Can("unsent") /\ Spend)
         /\ ~shouldPublish(t, r) => UNCHANGED <<shown, due>>
<1>1. shown \in [Tags -> Showing] /\ due \in [Tags -> BOOLEAN] /\ [v |-> r.v, q |-> r.q] \in Showing
  BY DEF MapsInv, Remembered, Showing
<1>2. CASE shouldPublish(t, r)
  <2>1. due' = [due EXCEPT ![t] = FALSE] /\ publishDual(t, r.v, r.q)
    BY <1>2 DEF Reported
  <2>2. \/ shown' = [shown EXCEPT ![t] = [v |-> r.v, q |-> r.q]] /\ troubles' = troubles
        \/ Can("unsent") /\ Spend /\ shown' = shown /\ troubles' = troubles + 1
    BY <2>1 DEF publishDual, Spend
  <2> QED BY <1>1, <1>2, <2>1, <2>2
<1>3. CASE ~shouldPublish(t, r)
  BY <1>1, <1>3 DEF Reported
<1> QED BY <1>2, <1>3

\* A publish that is lost ends the calm, and does not happen where all are seen.
LEMMA LostPublish ==
  ASSUME ShowInv, PollKeeps, poll # Idle, Can("unsent"), Spend, PollInv', MapsInv'
  PROVE  ShowInv'
<1>1. troubles \in Nat /\ troubles' = troubles + 1
  BY DEF ShowInv, Spend
<1>2. troubles' \in Nat /\ ~calm'
  <2>1. troubles' \in Nat /\ ~(troubles' = troubles)
    BY <1>1
  <2> QED BY <2>1 DEF PollKeeps
<1>3. QuietInv'
  BY QuietKept DEF ShowInv, PollKeeps
<1>4. CalmInv' /\ RepairInv'
  BY <1>2 DEF CalmInv, RepairInv, Repairing
<1>5. ChangeInv'
  BY SeenAlone DEF ChangeInv, ChangeOnly, AllSeen, PollKeeps
<1> QED BY <1>2, <1>3, <1>4, <1>5 DEF ShowInv

\* What is not published on change is what is remembered, and so what is shown.
LEMMA Unpublished ==
  ASSUME ConfigInv, MapsInv, ChangeInv, NEW t \in Tags, NEW r \in Remembered, r.type # "nil",
         ~Between(poll), ~shouldPublish(t, r)
  PROVE  /\ ChangeOnly => ShownAs(t, r)
         /\ Ready(t) => setup.heartbeat = "never"
<1>1. r.q = prev[t].q /\ r.v = prev[t].v /\ r.type = prev[t].type
  BY DEF shouldPublish, Same
<1>2. ChangeOnly => ShownAs(t, prev[t])
  BY <1>1 DEF ChangeInv
<1>3. Ready(t) => setup.heartbeat = "never"
  BY SetupModes DEF shouldPublish, Ready
<1> QED BY <1>1, <1>2, <1>3 DEF ShownAs

\* The read that a poll begins with: all blocks of the configuration.
LEMMA ReadsAll ==
  ASSUME ConfigInv, config.blocks # <<>>
  PROVE  LET n == [pc |-> "read", todo |-> config.blocks]
         IN  /\ n \in PollStates /\ HeldIn(n) /\ ~Between(n) /\ n.pc = "read"
             /\ \A t \in DOMAIN config.layout : LeftIn(n, t)
<1> DEFINE n == [pc |-> "read", todo |-> config.blocks]
<1>1. config.blocks \in Queues /\ DOMAIN config.layout \subseteq QueueTags(config.blocks)
  BY QueueOfLayout
<1>2. n \in Reads /\ n.pc = "read" /\ \A t : LeftIn(n, t) <=> t \in QueueTags(config.blocks)
  BY <1>1, ReadMade
<1> HIDE DEF n
<1>3. HeldIn(n) /\ ~Between(n)
  BY <1>2 DEF HeldIn, Between, GoodPCs
<1> QED BY <1>1, <1>2, <1>3 DEF PollStates, n

LEMMA PollBegins ==
  ASSUME ConfigInv, ShowInv, PollKeeps, PollBegin
  PROVE  ShowInv'
<1>1. /\ poll = Idle /\ ~Between(poll) /\ DOMAIN config.layout \subseteq Tags
      /\ cool \in [Tags -> CoolStates] /\ troubles \in Nat
  BY PollKinds, QueueOfLayout DEF ShowInv, PollInv, MapsInv, PollBegin, Between
<1>2. calm' = AtRest
  BY <1>1 DEF PollKeeps
<1>3. UNCHANGED <<client, prev, cool, due, shown, troubles, alive, plc>>
  BY DEF PollBegin, OfPoll, deviceVars
<1>4. AtRest => \A t \in DOMAIN config.layout : Ready(t)
  BY DEF AtRest, Ready
<1>5. Repairing' => \A t \in DOMAIN config.layout : Ready(t)
  BY <1>2, <1>4 DEF Repairing
<1>6. CASE client
  <2>0. PICK n : n = [pc |-> "read", todo |-> config.blocks]
    OBVIOUS
  <2>1. config.blocks # <<>> /\ poll' = n
    BY <1>6, <2>0 DEF PollBegin
  <2>2. n \in PollStates /\ HeldIn(n) /\ ~Between(n) /\ n.pc = "read" /\ \A t \in DOMAIN config.layout : LeftIn(n, t)
    BY <2>0, <2>1, ReadsAll
  <2>3. FaithfulIn(n)'
    BY <1>3, <1>6, <2>2 DEF FaithfulIn, GoodPCs, BadPCs
  <2>4. \A t \in Tags : cool[t] # "running" => cool'[t] # "running"
    BY <1>3
  <2> QED BY <1>1, <1>3, <1>5, <2>1, <2>2, <2>3, <2>4, StillPoll
<1>7. CASE ~client
  <2>0. PICK n : n = [pc |-> "connect"]
    OBVIOUS
  <2>1. poll' = n
    BY <1>7, <2>0 DEF PollBegin
  <2>2. n \in PollStates /\ n.pc = "connect"
    BY <2>0 DEF PollStates, Connecting
  <2>3. HeldIn(n) /\ ~Between(n) /\ FaithfulIn(n)' /\ \A t \in DOMAIN config.layout : LeftIn(n, t)
    BY <2>2 DEF HeldIn, Between, FaithfulIn, Judged, GoodPCs, BadPCs, LeftIn
  <2>4. \A t \in Tags : cool[t] # "running" => cool'[t] # "running"
    BY <1>3
  <2> QED BY <1>1, <1>3, <1>5, <2>1, <2>2, <2>3, <2>4, StillPoll
<1> QED BY <1>6, <1>7

\* In the middle of a poll calm can only be lost.
LEMMA CalmKept ==
  ASSUME ShowInv, PollKeeps, poll.pc # "idle"
  PROVE  poll # Idle /\ (calm' => calm /\ troubles' = troubles) /\ (Repairing' => Repairing) /\ (calm => FaithfulIn(poll))
<1>1. poll # Idle
  BY DEF Idle
<1> QED BY <1>1 DEF PollKeeps, Repairing, AllSeen, ShowInv, CalmInv

LEMMA PollConnects ==
  ASSUME ConfigInv, ShowInv, PollKeeps, PollConnect
  PROVE  ShowInv'
<1>1. /\ poll.pc = "connect" /\ poll.pc # "idle" /\ ~Between(poll) /\ DOMAIN config.layout \subseteq Tags
      /\ cool \in [Tags -> CoolStates] /\ troubles \in Nat
  BY QueueOfLayout DEF ShowInv, MapsInv, PollConnect, Between
<1>2. UNCHANGED <<prev, cool, due, shown, troubles, alive, plc>>
  BY DEF PollConnect, OfPoll, deviceVars
<1>3. Repairing' => \A t \in DOMAIN config.layout : Right(t) \/ Ready(t)
  BY <1>1, CalmKept DEF ShowInv, RepairInv
<1>4. \A t \in Tags : cool[t] # "running" => cool'[t] # "running"
  BY <1>2
<1>5. CASE ~config.usable
  <2>1. poll' = Idle /\ ~Repairing'
    BY <1>5 DEF PollConnect, PollKeeps, Repairing
  <2>2. Idle \in PollStates /\ HeldIn(Idle) /\ ~Between(Idle) /\ FaithfulIn(Idle)'
    BY DEF PollStates, Idle, HeldIn, Between, FaithfulIn, Judged, GoodPCs, BadPCs
  <2> QED BY <1>1, <1>2, <1>4, <2>1, <2>2, StillPoll
<1>6. CASE config.usable /\ config.blocks = <<>>
  <2>1. poll' = Idle
    BY <1>6 DEF PollConnect
  <2>2. DOMAIN config.layout = {}
    BY <1>6, QueueOfLayout, QueueEmpty
  <2>3. Idle \in PollStates /\ HeldIn(Idle) /\ ~Between(Idle) /\ FaithfulIn(Idle)'
    BY DEF PollStates, Idle, HeldIn, Between, FaithfulIn, Judged, GoodPCs, BadPCs
  <2> QED BY <1>1, <1>2, <1>4, <2>1, <2>2, <2>3, StillPoll
<1>7. CASE config.usable /\ config.blocks # <<>> /\ alive
  <2>0. PICK n : n = [pc |-> "read", todo |-> config.blocks]
    OBVIOUS
  <2>1. poll' = n /\ client'
    BY <1>7, <2>0 DEF PollConnect
  <2>2. n \in PollStates /\ HeldIn(n) /\ ~Between(n) /\ n.pc = "read" /\ \A t \in DOMAIN config.layout : LeftIn(n, t)
    BY <1>7, <2>0, ReadsAll
  <2>3. FaithfulIn(n)'
    BY <2>1, <2>2 DEF FaithfulIn, GoodPCs, BadPCs
  <2> QED BY <1>1, <1>2, <1>3, <1>4, <2>1, <2>2, <2>3, StillPoll
<1>8. CASE config.usable /\ config.blocks # <<>> /\ ~alive
  <2>0. PICK n : n = Judging("bad", AllTags(config.blocks), <<>>, NoCopy)
    OBVIOUS
  <2>1. poll' = n
    BY <1>8, <2>0 DEF PollConnect
  <2>2. config.blocks \in Queues /\ AllTags(config.blocks) \in TagLists
    BY <1>8, QueueOfLayout, AllTagsOf
  <2>3. <<>> \in Queues /\ NoCopy \in Datas /\ "bad" \in Judged
    BY DEF Queues, NoCopy, Datas, Values, Judged, BadPCs
  <2>4. n \in Judges /\ n.pc = "bad" /\ n.tags = AllTags(config.blocks)
    BY <2>0, <2>2, <2>3, JudgeMade
  <2>5. \A t \in DOMAIN config.layout : LeftIn(n, t)
    BY <1>8, <2>2, <2>4, QueueOfLayout, AllTagsOf, LeftJudge
  <2>6. n \in PollStates /\ HeldIn(n) /\ ~Between(n) /\ FaithfulIn(n)'
    BY <1>2, <1>8, <2>4 DEF PollStates, HeldIn, Between, FaithfulIn, GoodPCs
  <2> QED BY <1>1, <1>2, <1>3, <1>4, <2>1, <2>5, <2>6, StillPoll
<1> QED BY <1>5, <1>6, <1>7, <1>8

LEMMA PollReads ==
  ASSUME ConfigInv, DeviceInv, ShowInv, PollKeeps, PollRead
  PROVE  ShowInv'
<1>1. /\ poll.pc = "read" /\ poll \in Reads /\ poll.pc # "idle" /\ ~Between(poll)
      /\ DOMAIN config.layout \subseteq Tags /\ cool \in [Tags -> CoolStates] /\ troubles \in Nat
  BY PollKinds, QueueOfLayout DEF ShowInv, PollInv, MapsInv, PollRead, Between
<1>b. PICK b, rest : b = Head(poll.todo).tags /\ rest = Tail(poll.todo)
  OBVIOUS
<1>2. /\ poll.todo \in Queues /\ poll.todo # <<>> /\ b \in TagLists /\ rest \in Queues
      /\ QueueTags(poll.todo) = ToSet(b) \cup QueueTags(rest)
  BY <1>1, <1>b, QueueFirst DEF Reads
<1>3. UNCHANGED <<prev, cool, due, shown, alive, plc>> /\ (troubles' = troubles \/ troubles' = troubles + 1)
  BY DEF PollRead, OfPoll, deviceVars, Spend
<1>4. troubles' \in Nat /\ \A t \in Tags : cool[t] # "running" => cool'[t] # "running"
  BY <1>1, <1>3
<1>5. \A t : LeftIn(poll, t) <=> t \in ToSet(b) \/ t \in QueueTags(rest)
  BY <1>1, <1>2, LeftRead
<1>6. ASSUME NEW c \in {"check", "bad"}, NEW d \in Datas, poll' = Judging(c, b, rest, d),
             c = "check" => \A t \in Tags : d[t] \in Values,
             calm' => FaithfulIn(Judging(c, b, rest, d))'
      PROVE  ShowInv'
  <2>0. PICK n : n = Judging(c, b, rest, d)
    OBVIOUS
  <2>1. c \in Judged
    BY DEF Judged, GoodPCs, BadPCs
  <2>2. n \in Judges /\ n.pc = c /\ n.tags = b /\ n.todo = rest /\ n.data = d
    BY <1>2, <1>6, <2>0, <2>1, JudgeMade
  <2>3. poll' = n /\ (calm' => FaithfulIn(n)')
    BY <1>6, <2>0
  <2>4. n \in PollStates /\ HeldIn(n) /\ ~Between(n)
    BY <1>6, <2>2 DEF PollStates, HeldIn, Between, GoodPCs
  <2>5. \A t : LeftIn(n, t) <=> LeftIn(poll, t)
    BY <1>5, <2>2, LeftJudge
  <2>6. Repairing' => \A t \in DOMAIN config.layout : Right(t) \/ (LeftIn(n, t) /\ Ready(t))
    BY <1>1, <2>5, CalmKept DEF ShowInv, RepairInv
  <2> QED BY <1>1, <1>3, <1>4, <2>3, <2>4, <2>6, StillPoll
<1>7. NoCopy \in Datas
  BY DEF NoCopy, Datas, Values
<1>8. CASE client /\ alive /\ UNCHANGED <<client, troubles>>
           /\ poll' = Judging("check", b, rest, [t \in Tags |-> IF t \in ToSet(b) THEN plc[t] ELSE 0])
  <2>0. PICK d : d = [t \in Tags |-> IF t \in ToSet(b) THEN plc[t] ELSE 0]
    OBVIOUS
  <2>1. \A t \in Tags : d[t] \in Values
    BY <2>0 DEF DeviceInv, Values
  <2>2. d \in Datas
    <3>1. d \in [Tags -> Values]
      BY <2>0, <2>1
    <3> QED BY <3>1 DEF Datas
  <2>3. ToSet(b) \subseteq Tags
    <3>1. b \in Seq(Tags)
      BY <1>2 DEF TagLists
    <3> QED BY <3>1, LenProperties, ElementOfSeq DEF ToSet
  <2>4. \A t \in ToSet(b) : d[t] = plc'[t]
    BY <1>3, <2>0, <2>3
  <2>5. poll' = Judging("check", b, rest, d)
    BY <1>8, <2>0
  <2>6. FaithfulIn(Judging("check", b, rest, d))'
    <3>0. PICK n : n = Judging("check", b, rest, d)
      OBVIOUS
    <3>1. n.pc = "check" /\ n.tags = b /\ n.data = d
      BY <3>0 DEF Judging
    <3>2. "check" \in GoodPCs /\ "check" \notin BadPCs /\ client' /\ alive'
      BY <1>3, <1>8 DEF GoodPCs, BadPCs
    <3>3. FaithfulIn(n)'
      BY <3>1, <3>2, <2>4 DEF FaithfulIn
    <3> QED BY <3>0, <3>3
  <2> QED BY <1>6, <2>1, <2>2, <2>5, <2>6
<1>9. CASE troubles' = troubles + 1 /\ poll' = Judging("bad", b, rest, NoCopy)
  <2>1. ~calm'
    BY <1>1, <1>9, CalmKept
  <2> QED BY <1>6, <1>7, <1>9, <2>1
<1>10. CASE ~(client /\ alive) /\ ~client' /\ poll' = Judging("bad", b, rest, NoCopy)
  <2>1. calm' => ~alive
    <3>1. calm' => FaithfulIn(poll)
      BY <1>1, CalmKept
    <3> QED BY <3>1, <1>1, <1>10 DEF FaithfulIn
  <2>2. ~alive => FaithfulIn(Judging("bad", b, rest, NoCopy))'
    <3>0. PICK n : n = Judging("bad", b, rest, NoCopy)
      OBVIOUS
    <3>1. n.pc = "bad"
      BY <3>0 DEF Judging
    <3>2. "bad" \notin GoodPCs
      BY DEF GoodPCs
    <3>3. ~alive => FaithfulIn(n)'
      BY <1>3, <3>1, <3>2 DEF FaithfulIn
    <3> QED BY <3>0, <3>3
  <2> QED BY <1>6, <1>7, <1>10, <2>1, <2>2
<1> QED BY <1>8, <1>9, <1>10, <1>b DEF PollRead, Spend

\* What a poll that judges a tag has in its hands.
LEMMA AtTag ==
  ASSUME ConfigInv, ShowInv, poll.pc \in Judged
  PROVE  /\ poll \in Judges /\ poll.pc # "idle" /\ Head(poll.tags) \in Tags /\ Head(poll.tags) \in ToSet(poll.tags)
         /\ poll.data \in Datas /\ HeldIn(poll) /\ DOMAIN config.layout \subseteq Tags
         /\ prev \in [Tags -> Remembered] /\ cool \in [Tags -> CoolStates] /\ troubles \in Nat
<1>1. poll \in PollStates /\ HeldIn(poll)
  BY DEF ShowInv, PollInv
<1>2. poll \in Judges
  BY <1>1, PollKinds
<1>3. poll.pc # "idle"
  BY DEF Judged, GoodPCs, BadPCs
<1> QED BY <1>1, <1>2, <1>3, JudgeFields, QueueOfLayout DEF ShowInv, MapsInv

\* A step from one place at a tag to another.
LEMMA SameTag ==
  ASSUME ShowInv, poll \in Judges, NEW c \in GoodPCs, poll.pc \in GoodPCs, NEW n, n = [poll EXCEPT !.pc = c]
  PROVE  /\ n \in Judges /\ n \in PollStates /\ n.pc = c /\ n.tags = poll.tags /\ n.todo = poll.todo /\ n.data = poll.data
         /\ HeldIn(n) /\ (FaithfulIn(n) <=> FaithfulIn(poll))
         /\ \A t : LeftIn(n, t) <=> LeftIn(poll, t)
<1>1. c \in Judged /\ poll.pc \in Judged
  BY DEF Judged
<1>2. n \in Judges /\ n.pc = c /\ n.tags = poll.tags /\ n.todo = poll.todo /\ n.data = poll.data
  BY <1>1, JudgeAt
<1>3. HeldIn(n)
  <2>1. c # "badstate"
    BY DEF GoodPCs
  <2>2. \A t \in Tags : poll.data[t] \in Values
    BY DEF ShowInv, PollInv, HeldIn
  <2> QED BY <1>2, <2>1, <2>2 DEF HeldIn
<1>4. (FaithfulIn(n) <=> FaithfulIn(poll))
  <2>1. c \notin BadPCs /\ poll.pc \notin BadPCs
    BY DEF GoodPCs, BadPCs
  <2> QED BY <1>1, <1>2, <2>1 DEF FaithfulIn
<1>5. \A t : LeftIn(n, t) <=> LeftIn(poll, t)
  BY <1>2, LeftJudge
<1> QED BY <1>2, <1>3, <1>4, <1>5 DEF PollStates

LEMMA PollChecks ==
  ASSUME ConfigInv, ShowInv, PollKeeps, PollCheck
  PROVE  ShowInv'
<1>1. poll.pc = "check" /\ poll.pc \in GoodPCs /\ poll.pc \in Judged /\ ~Between(poll)
  BY DEF PollCheck, GoodPCs, Judged, Between
<1>2. /\ poll \in Judges /\ poll.pc # "idle" /\ Head(poll.tags) \in Tags /\ HeldIn(poll)
      /\ DOMAIN config.layout \subseteq Tags /\ cool \in [Tags -> CoolStates] /\ troubles \in Nat
  BY <1>1, AtTag
<1>3. UNCHANGED <<client, prev, cool, due, shown, troubles, alive, plc>>
  BY DEF PollCheck, OfPoll, deviceVars
<1>4. \A t \in Tags : cool[t] # "running" => cool'[t] # "running"
  BY <1>3
<1>5. /\ calm' => FaithfulIn(poll)
      /\ Repairing' => \A t \in DOMAIN config.layout : Right(t) \/ (LeftIn(poll, t) /\ Ready(t))
  BY <1>2, CalmKept DEF ShowInv, RepairInv
<1>6. ASSUME NEW c \in {"publish", "confirm"}, poll' = [poll EXCEPT !.pc = c]
      PROVE  ShowInv'
  <2>0. PICK n : n = [poll EXCEPT !.pc = c]
    OBVIOUS
  <2>1. c \in GoodPCs /\ poll' = n
    BY <1>6, <2>0 DEF GoodPCs
  <2>2. n \in PollStates /\ HeldIn(n) /\ n.pc = c /\ (FaithfulIn(n) <=> FaithfulIn(poll))
        /\ \A t : LeftIn(n, t) <=> LeftIn(poll, t)
    BY <1>1, <1>2, <2>0, <2>1, SameTag
  <2>3. (FaithfulIn(n)' <=> FaithfulIn(n))
    BY <1>3 DEF FaithfulIn
  <2>4. ~Between(n)
    BY <1>6, <2>2 DEF Between
  <2> QED BY <1>1, <1>2, <1>3, <1>4, <1>5, <2>1, <2>2, <2>3, <2>4, StillPoll
<1>7. CASE cool[Head(poll.tags)] \notin {"none", "over"} /\ poll' = AfterTag(poll)
  <2>0. PICK n, t : n = AfterTag(poll) /\ t = Head(poll.tags)
    OBVIOUS
  <2>1. /\ n \in PollStates /\ HeldIn(n) /\ ~Between(n) /\ (FaithfulIn(poll) => FaithfulIn(n))
        /\ \A u : LeftIn(poll, u) => u = t \/ LeftIn(n, u)
    BY <1>1, <1>2, <2>0, TagDone
  <2>2. poll' = n
    BY <1>7, <2>0
  <2>3. (FaithfulIn(n)' <=> FaithfulIn(n))
    BY <1>3 DEF FaithfulIn
  <2>4. ~Ready(t)
    <3>1. cool[t] \in CoolStates
      BY <1>2, <2>0
    <3> QED BY <1>7, <2>0, <3>1 DEF CoolStates, Ready
  <2>5. Repairing' => \A u \in DOMAIN config.layout : Right(u) \/ (LeftIn(n, u) /\ Ready(u))
    BY <1>5, <2>1, <2>4
  <2> QED BY <1>1, <1>2, <1>3, <1>4, <1>5, <2>1, <2>2, <2>3, <2>5, StillPoll
<1> QED BY <1>6, <1>7 DEF PollCheck

LEMMA PollConfirms ==
  ASSUME ConfigInv, ShowInv, PollKeeps, PollConfirm
  PROVE  ShowInv'
<1>1. poll.pc = "confirm" /\ poll.pc \in GoodPCs /\ poll.pc \in Judged /\ ~Between(poll) /\ "publish" \in GoodPCs
  BY DEF PollConfirm, GoodPCs, Judged, Between
<1>2. /\ poll \in Judges /\ poll.pc # "idle" /\ Head(poll.tags) \in Tags /\ HeldIn(poll)
      /\ DOMAIN config.layout \subseteq Tags /\ cool \in [Tags -> CoolStates] /\ troubles \in Nat
  BY <1>1, AtTag
<1>3. UNCHANGED <<client, prev, due, shown, troubles, alive, plc>>
  BY DEF PollConfirm, OfPoll, deviceVars
<1>4. cool' \in [Tags -> CoolStates] /\ \A t \in Tags : cool[t] # "running" => cool'[t] # "running"
  BY <1>2 DEF PollConfirm, CoolStates
<1>5. /\ calm' => FaithfulIn(poll)
      /\ Repairing' => \A t \in DOMAIN config.layout : Right(t) \/ (LeftIn(poll, t) /\ Ready(t))
  BY <1>2, CalmKept DEF ShowInv, RepairInv
<1>0. PICK n : n = [poll EXCEPT !.pc = "publish"]
  OBVIOUS
<1>6. poll' = n
  BY <1>0 DEF PollConfirm
<1>7. n \in PollStates /\ HeldIn(n) /\ n.pc = "publish" /\ (FaithfulIn(n) <=> FaithfulIn(poll))
      /\ \A t : LeftIn(n, t) <=> LeftIn(poll, t)
  BY <1>0, <1>1, <1>2, SameTag
<1>8. (FaithfulIn(n)' <=> FaithfulIn(n)) /\ ~Between(n)
  BY <1>3, <1>7 DEF FaithfulIn, Between
<1> QED BY <1>1, <1>2, <1>3, <1>4, <1>5, <1>6, <1>7, <1>8, StillPoll

\* What was read of a tag, as a value that can be remembered.
LEMMA ReadingOf ==
  ASSUME ConfigInv, ShowInv, poll.pc \in GoodPCs
  PROVE  LET t == Head(poll.tags)
             r == Reading(t)
         IN  /\ t \in Tags /\ r \in Remembered /\ r.type # "nil" /\ r.v = poll.data[t] /\ r.q = Good
             /\ calm /\ FaithfulIn(poll) => alive /\ r.v = plc[t]
<1>1. poll.pc \in Judged
  BY DEF Judged
<1>2. Head(poll.tags) \in Tags /\ Head(poll.tags) \in ToSet(poll.tags) /\ poll.data[Head(poll.tags)] \in Values
  BY <1>1, AtTag DEF HeldIn
<1>3. ReadType \in GoTypes /\ ReadType # "nil"
  BY DEF ReadType, GoTypes
<1> DEFINE r == Reading(Head(poll.tags))
<1>4. r \in Remembered /\ r.type = ReadType /\ r.v = poll.data[Head(poll.tags)] /\ r.q = Good
  BY <1>2, <1>3 DEF Reading, Remembered
<1>5. FaithfulIn(poll) => alive /\ r.v = plc[Head(poll.tags)]
  BY <1>2, <1>4 DEF FaithfulIn
<1> QED BY <1>2, <1>3, <1>4, <1>5

LEMMA PollPublishes ==
  ASSUME ConfigInv, ShowInv, PollKeeps, PollPublish
  PROVE  ShowInv'
<1>0. PICK t, r : t = Head(poll.tags) /\ r = Reading(t)
  OBVIOUS
<1>1. poll.pc = "publish" /\ poll.pc \in GoodPCs /\ poll.pc \in Judged /\ ~Between(poll)
  BY DEF PollPublish, GoodPCs, Judged, Between
<1>2. /\ poll \in Judges /\ poll.pc # "idle" /\ HeldIn(poll) /\ t \in Tags /\ t \in ToSet(poll.tags)
      /\ DOMAIN config.layout \subseteq Tags /\ cool \in [Tags -> CoolStates] /\ troubles \in Nat
  BY <1>0, <1>1, AtTag
<1>3. UNCHANGED <<client, prev, cool, alive, plc>> /\ Reported(t, r)
  BY <1>0 DEF PollPublish, OfPoll, deviceVars
<1>4. /\ r \in Remembered /\ r.type # "nil" /\ r.v = poll.data[t] /\ r.q = Good
      /\ calm /\ FaithfulIn(poll) => alive /\ r.v = plc[t]
  BY <1>0, <1>1, ReadingOf
<1>5. /\ poll # Idle /\ (calm' => calm) /\ (calm => FaithfulIn(poll)) /\ MapsInv /\ ChangeInv /\ RepairInv
      /\ (Repairing => calm)
  BY <1>2, CalmKept DEF ShowInv, Repairing
<1>6. /\ shown' \in [Tags -> Showing] /\ due' \in [Tags -> BOOLEAN] /\ troubles' \in Nat
      /\ \A u \in Tags : u # t => shown'[u] = shown[u] /\ due'[u] = due[u]
      /\ shouldPublish(t, r) => shown'[t] = [v |-> r.v, q |-> r.q] \/ (Can("unsent") /\ Spend)
      /\ ~shouldPublish(t, r) => UNCHANGED <<shown, due>>
  BY <1>2, <1>3, <1>4, <1>5, Reports
<1>7. MapsInv' /\ QuietInv' /\ troubles' \in Nat
  <2>1. QuietInv'
    BY QuietKept DEF ShowInv, PollKeeps
  <2>2. MapsInv'
    BY <1>3, <1>5, <1>6 DEF MapsInv
  <2> QED BY <1>6, <2>1, <2>2
<1>8. CASE shouldPublish(t, r)
  <2>0. PICK n : n = [poll EXCEPT !.pc = "state"]
    OBVIOUS
  <2>1. poll' = n /\ "state" \in GoodPCs
    BY <1>0, <1>8, <2>0 DEF PollPublish, GoodPCs
  <2>2. /\ n \in PollStates /\ HeldIn(n) /\ n.pc = "state" /\ (FaithfulIn(n) <=> FaithfulIn(poll))
        /\ n.tags = poll.tags /\ n.data = poll.data
        /\ \A u : LeftIn(n, u) <=> LeftIn(poll, u)
    BY <1>1, <1>2, <2>0, <2>1, SameTag
  <2>3. Between(n) /\ Head(n.tags) = t
    BY <1>0, <2>2 DEF Between
  <2>4. CalmInv'
    <3>1. (FaithfulIn(n)' <=> FaithfulIn(n))
      BY <1>3 DEF FaithfulIn
    <3> QED BY <1>5, <2>1, <2>2, <3>1 DEF CalmInv
  <2>5. PollInv'
    BY <2>1, <2>2 DEF PollInv
  <2> SUFFICES ASSUME ~(Can("unsent") /\ Spend) PROVE ShowInv'
    BY <1>5, <1>7, <2>5, LostPublish
  <2>6. shown'[t] = [v |-> n.data[t], q |-> Good]
    BY <1>4, <1>6, <1>8, <2>2
  <2>7. ChangeInv'
    <3>1. \A u \in Tags : u # t => shown'[u] = shown[u] /\ prev'[u] = prev[u]
      BY <1>3, <1>6
    <3> QED BY <1>1, <1>2, <1>5, <2>1, <2>2, <2>3, <2>6, <3>1, ChangeOn
  <2>8. RepairInv'
    <3>1. \A u \in Tags : u # t => shown'[u] = shown[u] /\ due'[u] = due[u] /\ cool'[u] = cool[u]
      BY <1>3, <1>6
    <3>2. Repairing => Right(t)'
      BY <1>3, <1>4, <1>5, <1>6, <1>8 DEF Right
    <3> QED BY <1>2, <1>5, <2>1, <2>2, <2>3, <3>1, <3>2, RepairOn
  <2> QED BY <1>7, <2>4, <2>5, <2>7, <2>8 DEF ShowInv
<1>9. CASE ~shouldPublish(t, r)
  <2>0. PICK m, n : m = [poll EXCEPT !.pc = "check"] /\ n = AfterTag(m)
    OBVIOUS
  <2>1. poll' = n /\ "check" \in GoodPCs
    BY <1>0, <1>9, <2>0 DEF PollPublish, GoodPCs
  <2>2. /\ m \in Judges /\ HeldIn(m) /\ m.pc = "check" /\ (FaithfulIn(m) <=> FaithfulIn(poll)) /\ m.tags = poll.tags
        /\ \A u : LeftIn(m, u) <=> LeftIn(poll, u)
    BY <1>1, <1>2, <2>0, <2>1, SameTag
  <2>3. /\ n \in PollStates /\ HeldIn(n) /\ ~Between(n) /\ (FaithfulIn(poll) => FaithfulIn(n))
        /\ \A u : LeftIn(poll, u) => u = t \/ LeftIn(n, u)
    BY <1>0, <2>0, <2>2, TagDone
  <2>4. UNCHANGED <<shown, due>>
    BY <1>6, <1>9
  <2>5. (ChangeOnly => ShownAs(t, r)) /\ (Ready(t) => setup.heartbeat = "never")
    BY <1>1, <1>2, <1>4, <1>5, <1>9, Unpublished
  <2>6. t \in DOMAIN config.layout /\ Repairing => Right(t)
    <3> SUFFICES ASSUME t \in DOMAIN config.layout, Repairing, ~Right(t) PROVE FALSE
      OBVIOUS
    <3>1. Ready(t)
      BY <1>5 DEF RepairInv
    <3>2. ChangeOnly
      BY <2>5, <3>1 DEF Repairing, ChangeOnly
    <3>3. shown[t] = [v |-> r.v, q |-> r.q]
      BY <2>5, <3>2 DEF ShownAs
    <3> QED BY <1>4, <1>5, <3>3 DEF Right
  <2>7. Repairing => \A u \in DOMAIN config.layout : Right(u) \/ (LeftIn(n, u) /\ Ready(u))
    BY <1>5, <2>3, <2>6 DEF RepairInv
  <2>8. (FaithfulIn(n)' <=> FaithfulIn(n)) /\ \A u \in Tags : cool[u] # "running" => cool'[u] # "running"
    BY <1>3 DEF FaithfulIn
  <2>9. Repairing' => Repairing
    BY <1>2, CalmKept
  <2> QED BY <1>1, <1>2, <1>3, <1>5, <1>7, <2>1, <2>3, <2>4, <2>7, <2>8, <2>9, StillPoll
<1> QED BY <1>8, <1>9


LEMMA PollRemembers ==
  ASSUME ConfigInv, ShowInv, PollKeeps, PollState
  PROVE  ShowInv'
<1>0. PICK t, r, m, n : t = Head(poll.tags) /\ r = Reading(t) /\ m = [poll EXCEPT !.pc = "check"] /\ n = AfterTag(m)
  OBVIOUS
<1>1. poll.pc = "state" /\ poll.pc \in GoodPCs /\ poll.pc \in Judged /\ Between(poll) /\ "check" \in GoodPCs
  BY DEF PollState, GoodPCs, Judged, Between
<1>2. /\ poll \in Judges /\ poll.pc # "idle" /\ HeldIn(poll) /\ t \in Tags
      /\ DOMAIN config.layout \subseteq Tags /\ prev \in [Tags -> Remembered] /\ troubles \in Nat
  BY <1>0, <1>1, AtTag
<1>3. /\ UNCHANGED <<client, cool, due, shown, troubles, alive, plc>>
      /\ prev' = [prev EXCEPT ![t] = r] /\ poll' = n
  BY <1>0 DEF PollState, OfPoll, deviceVars
<1>4. r \in Remembered /\ r.type # "nil"
  BY <1>0, <1>1, ReadingOf
<1>5. /\ poll # Idle /\ (calm' => calm) /\ (calm => FaithfulIn(poll)) /\ MapsInv /\ ChangeInv /\ RepairInv
  BY <1>2, CalmKept DEF ShowInv
<1>6. /\ m \in Judges /\ HeldIn(m) /\ m.pc = "check" /\ (FaithfulIn(m) <=> FaithfulIn(poll)) /\ m.tags = poll.tags
      /\ \A u : LeftIn(m, u) <=> LeftIn(poll, u)
  BY <1>0, <1>1, <1>2, SameTag
<1>7. /\ n \in PollStates /\ HeldIn(n) /\ ~Between(n) /\ (FaithfulIn(poll) => FaithfulIn(n))
      /\ \A u : LeftIn(poll, u) => u = t \/ LeftIn(n, u)
  BY <1>0, <1>6, TagDone
<1>8. prev' \in [Tags -> Remembered] /\ prev'[t] = r /\ \A u \in Tags : u # t => prev'[u] = prev[u]
  BY <1>2, <1>3, <1>4
<1>9. MapsInv' /\ QuietInv' /\ PollInv' /\ troubles' \in Nat
  <2>1. QuietInv'
    BY QuietKept DEF ShowInv, PollKeeps
  <2>2. \A u \in Tags : prev'[u].type = "nil" => prev'[u].q = Good
    BY <1>4, <1>5, <1>8 DEF MapsInv
  <2>3. MapsInv'
    BY <1>3, <1>5, <1>8, <2>2 DEF MapsInv
  <2>4. PollInv'
    BY <1>3, <1>7 DEF PollInv
  <2> QED BY <1>2, <1>3, <2>1, <2>3, <2>4
<1>10. CalmInv'
  <2>1. FaithfulIn(n)' <=> FaithfulIn(n)
    BY <1>3 DEF FaithfulIn
  <2> QED BY <1>3, <1>5, <1>7, <2>1 DEF CalmInv
<1>11. ChangeInv'
  <2>1. ChangeOnly => shown'[t] = [v |-> prev'[t].v, q |-> prev'[t].q]
    <3>1. ChangeOnly => ShownAs(t, r)
      BY <1>0, <1>1, <1>5 DEF ChangeInv
    <3> QED BY <1>3, <1>8, <3>1 DEF ShownAs
  <2>2. \A u \in Tags : u # t => shown'[u] = shown[u] /\ prev'[u] = prev[u]
    BY <1>3, <1>8
  <2> QED BY <1>0, <1>2, <1>3, <1>5, <1>7, <2>1, <2>2, ChangeOn
<1>12. RepairInv'
  <2>1. t \in DOMAIN config.layout /\ Repairing => Right(t)'
    <3>1. t \in DOMAIN config.layout /\ Repairing => Right(t)
      BY <1>0, <1>1, <1>5 DEF RepairInv
    <3> QED BY <1>3, <3>1 DEF Right
  <2> QED BY <1>2, <1>3, <1>5, <1>7, <2>1, RepairOn
<1> QED BY <1>9, <1>10, <1>11, <1>12 DEF ShowInv

\* What is said of a tag that could not be read.
LEMMA LastKnownOf ==
  ASSUME MapsInv, NEW t \in Tags
  PROVE  LastKnown(t) \in Remembered /\ LastKnown(t).type # "nil" /\ LastKnown(t).q = Bad
<1>1. prev[t] \in Remembered
  BY DEF MapsInv
<1>2. CASE prev[t].type = "nil"
  BY <1>2 DEF LastKnown, Remembered, Values, GoTypes
<1>3. CASE prev[t].type # "nil"
  BY <1>1, <1>3 DEF LastKnown, Remembered
<1> QED BY <1>2, <1>3

LEMMA PollMarksBad ==
  ASSUME ConfigInv, ShowInv, PollKeeps, PollBad
  PROVE  ShowInv'
<1>0. PICK t, r, d, n : /\ t = Head(poll.tags) /\ r = LastKnown(t) /\ d = [poll.data EXCEPT ![t] = r]
                        /\ n = Judging("badstate", poll.tags, poll.todo, d)
  OBVIOUS
<1>1. poll.pc = "bad" /\ poll.pc \in BadPCs /\ poll.pc \in Judged /\ ~Between(poll) /\ "badstate" \in Judged
  BY DEF PollBad, BadPCs, Judged, Between
<1>2. /\ poll \in Judges /\ poll.pc # "idle" /\ t \in Tags /\ poll.data \in Datas
      /\ DOMAIN config.layout \subseteq Tags /\ prev \in [Tags -> Remembered] /\ troubles \in Nat
  BY <1>0, <1>1, AtTag
<1>3. /\ UNCHANGED <<client, prev, cool, alive, plc>>
      /\ Reported(t, r) /\ poll' = n
  BY <1>0 DEF PollBad, OfPoll, deviceVars
<1>4. /\ poll # Idle /\ (calm' => calm) /\ (calm => FaithfulIn(poll)) /\ MapsInv /\ ChangeInv /\ RepairInv
      /\ (Repairing => calm)
  BY <1>2, CalmKept DEF ShowInv, Repairing
<1>5. r \in Remembered /\ r.type # "nil" /\ r.q = Bad
  BY <1>0, <1>2, <1>4, LastKnownOf
<1>6. /\ shown' \in [Tags -> Showing] /\ due' \in [Tags -> BOOLEAN] /\ troubles' \in Nat
      /\ \A u \in Tags : u # t => shown'[u] = shown[u] /\ due'[u] = due[u]
      /\ shouldPublish(t, r) => shown'[t] = [v |-> r.v, q |-> r.q] \/ (Can("unsent") /\ Spend)
      /\ ~shouldPublish(t, r) => UNCHANGED <<shown, due>>
  BY <1>2, <1>3, <1>4, <1>5, Reports
<1>7. d \in Datas /\ d[t] = r
  BY <1>0, <1>2, <1>5 DEF Datas
<1>8. n \in Judges /\ n.pc = "badstate" /\ n.tags = poll.tags /\ n.todo = poll.todo /\ n.data = d
  BY <1>0, <1>1, <1>2, <1>7, JudgeFields, JudgeMade
<1>9. /\ n \in PollStates /\ HeldIn(n) /\ Between(n) /\ Head(n.tags) = t
      /\ \A u : LeftIn(poll, u) <=> LeftIn(n, u)
  <2>1. HeldIn(n)
    BY <1>0, <1>5, <1>7, <1>8 DEF HeldIn, GoodPCs
  <2>2. \A u : LeftIn(poll, u) <=> LeftIn(n, u)
    BY <1>2, <1>8, LeftJudge
  <2> QED BY <1>0, <1>8, <2>1, <2>2 DEF PollStates, Between
<1>10. FaithfulIn(poll) => ~alive
  BY <1>1 DEF FaithfulIn
<1>11. MapsInv' /\ QuietInv' /\ PollInv' /\ troubles' \in Nat
  <2>1. QuietInv'
    BY QuietKept DEF ShowInv, PollKeeps
  <2>2. MapsInv'
    BY <1>3, <1>4, <1>6 DEF MapsInv
  <2>3. PollInv'
    BY <1>3, <1>9 DEF PollInv
  <2> QED BY <1>6, <2>1, <2>2, <2>3
<1> SUFFICES ASSUME ~(Can("unsent") /\ Spend) PROVE ShowInv'
  BY <1>4, <1>11, LostPublish
<1>12. CalmInv'
  <2>1. ~alive => FaithfulIn(n)'
    BY <1>3, <1>8 DEF FaithfulIn, GoodPCs
  <2> QED BY <1>3, <1>4, <1>10, <2>1 DEF CalmInv
<1>13. (ChangeOnly => shown'[t] = [v |-> r.v, q |-> r.q]) /\ (Ready(t) => shouldPublish(t, r) \/ setup.heartbeat = "never")
  <2>1. CASE shouldPublish(t, r)
    BY <1>6, <2>1
  <2>2. CASE ~shouldPublish(t, r)
    BY <1>1, <1>2, <1>4, <1>5, <1>6, <2>2, Unpublished DEF ShownAs
  <2> QED BY <2>1, <2>2
<1>14. ChangeInv'
  <2>1. \A u \in Tags : u # t => shown'[u] = shown[u] /\ prev'[u] = prev[u]
    BY <1>3, <1>6
  <2>2. ChangeOnly => n.pc = "badstate" /\ shown'[t] = [v |-> n.data[t].v, q |-> n.data[t].q]
    BY <1>7, <1>8, <1>13
  <2> QED BY <1>1, <1>2, <1>3, <1>4, <1>9, <2>1, <2>2, ChangeOn
<1>15. RepairInv'
  <2>1. \A u \in Tags : u # t => shown'[u] = shown[u] /\ due'[u] = due[u] /\ cool'[u] = cool[u]
    BY <1>3, <1>6
  <2>2. ASSUME t \in DOMAIN config.layout, Repairing PROVE Right(t)'
    <3>1. ~alive'
      BY <1>3, <1>4, <1>10, <2>2
    <3>2. CASE shouldPublish(t, r)
      BY <1>5, <1>6, <3>1, <3>2 DEF Right
    <3>3. CASE ~shouldPublish(t, r) /\ Right(t)
      BY <1>3, <1>6, <3>3 DEF Right
    <3>4. CASE ~shouldPublish(t, r) /\ ~Right(t)
      <4>1. ChangeOnly \/ ~Ready(t)
        BY <1>13, <2>2, <3>4 DEF Repairing, ChangeOnly
      <4>2. Ready(t)
        BY <1>4, <2>2, <3>4 DEF RepairInv
      <4> QED BY <1>5, <1>13, <3>1, <4>1, <4>2 DEF Right
    <3> QED BY <3>2, <3>3, <3>4
  <2> QED BY <1>2, <1>3, <1>4, <1>9, <2>1, <2>2, RepairOn
<1> QED BY <1>11, <1>12, <1>14, <1>15 DEF ShowInv

LEMMA PollRemembersBad ==
  ASSUME ConfigInv, ShowInv, PollKeeps, PollBadState
  PROVE  ShowInv'
<1>0. PICK t, r, d, m, n : /\ t = Head(poll.tags) /\ r = poll.data[t] /\ d = [poll.data EXCEPT ![t] = 0]
                           /\ m = [poll EXCEPT !.pc = "bad", !.data = d] /\ n = AfterTag(m)
  OBVIOUS
<1>1. poll.pc = "badstate" /\ poll.pc \in BadPCs /\ poll.pc \in Judged /\ Between(poll)
  BY DEF PollBadState, BadPCs, Judged, Between
<1>2. /\ poll \in Judges /\ poll.pc # "idle" /\ HeldIn(poll) /\ t \in Tags /\ poll.data \in Datas
      /\ DOMAIN config.layout \subseteq Tags /\ prev \in [Tags -> Remembered] /\ troubles \in Nat
  BY <1>0, <1>1, AtTag
<1>3. /\ UNCHANGED <<client, cool, due, shown, troubles, alive, plc>>
      /\ prev' = [prev EXCEPT ![t] = r] /\ poll' = AfterTag([poll EXCEPT !.pc = "bad", !.data[t] = 0])
  BY <1>0 DEF PollBadState, OfPoll, deviceVars
<1>4. poll' = n
  <2>1. [poll EXCEPT !.pc = "bad", !.data[t] = 0] = m
    BY <1>0, <1>2 DEF Judges
  <2> QED BY <1>0, <1>3, <2>1
<1>5. r \in Remembered /\ r.type # "nil"
  BY <1>0, <1>1, <1>2 DEF HeldIn
<1>6. /\ poll # Idle /\ (calm' => calm) /\ (calm => FaithfulIn(poll)) /\ MapsInv /\ ChangeInv /\ RepairInv
  BY <1>2, CalmKept DEF ShowInv
<1>7. d \in Datas
  BY <1>0, <1>2 DEF Datas, Values
<1>8. m \in Judges /\ m.pc = "bad" /\ m.tags = poll.tags /\ m.todo = poll.todo
  <2>1. m = [poll EXCEPT !.pc = "bad", !.data = d] /\ poll \in Judges
    BY <1>0, <1>2
  <2> QED BY <2>1, <1>7, JudgeForgets, Zenon
<1>9. HeldIn(m) /\ (FaithfulIn(poll) => FaithfulIn(m)) /\ \A u : LeftIn(m, u) <=> LeftIn(poll, u)
  <2>1. HeldIn(m)
    BY <1>8 DEF HeldIn, GoodPCs
  <2>2. FaithfulIn(poll) => FaithfulIn(m)
    BY <1>1, <1>8 DEF FaithfulIn, GoodPCs
  <2>3. \A u : LeftIn(m, u) <=> LeftIn(poll, u)
    BY <1>2, <1>8, LeftJudge
  <2> QED BY <2>1, <2>2, <2>3
<1>10. /\ n \in PollStates /\ HeldIn(n) /\ ~Between(n) /\ (FaithfulIn(m) => FaithfulIn(n))
       /\ \A u : LeftIn(poll, u) => u = t \/ LeftIn(n, u)
  BY <1>0, <1>8, <1>9, TagDone
<1>11. prev' \in [Tags -> Remembered] /\ prev'[t] = r /\ \A u \in Tags : u # t => prev'[u] = prev[u]
  BY <1>2, <1>3, <1>5
<1>12. MapsInv' /\ QuietInv' /\ PollInv' /\ troubles' \in Nat
  <2>1. QuietInv'
    BY QuietKept DEF ShowInv, PollKeeps
  <2>2. \A u \in Tags : prev'[u].type = "nil" => prev'[u].q = Good
    BY <1>5, <1>6, <1>11 DEF MapsInv
  <2>3. MapsInv'
    BY <1>3, <1>6, <1>11, <2>2 DEF MapsInv
  <2>4. PollInv'
    BY <1>4, <1>10 DEF PollInv
  <2> QED BY <1>2, <1>3, <2>1, <2>3, <2>4
<1>13. CalmInv'
  <2>1. FaithfulIn(n)' <=> FaithfulIn(n)
    BY <1>3 DEF FaithfulIn
  <2> QED BY <1>4, <1>6, <1>9, <1>10, <2>1 DEF CalmInv
<1>14. ChangeInv'
  <2>1. ChangeOnly => shown'[t] = [v |-> prev'[t].v, q |-> prev'[t].q]
    <3>1. ChangeOnly => ShownAs(t, r)
      BY <1>0, <1>1, <1>6 DEF ChangeInv
    <3> QED BY <1>3, <1>11, <3>1 DEF ShownAs
  <2>2. \A u \in Tags : u # t => shown'[u] = shown[u] /\ prev'[u] = prev[u]
    BY <1>3, <1>11
  <2> QED BY <1>0, <1>2, <1>4, <1>6, <1>10, <2>1, <2>2, ChangeOn
<1>15. RepairInv'
  <2>1. t \in DOMAIN config.layout /\ Repairing => Right(t)'
    <3>1. t \in DOMAIN config.layout /\ Repairing => Right(t)
      BY <1>0, <1>1, <1>6 DEF RepairInv
    <3> QED BY <1>3, <3>1 DEF Right
  <2> QED BY <1>2, <1>3, <1>4, <1>6, <1>10, <2>1, RepairOn
<1> QED BY <1>12, <1>13, <1>14, <1>15 DEF ShowInv

LEMMA PollFrame ==
  ASSUME Poll, UNCHANGED load, calm' = IF poll = Idle THEN AtRest ELSE (calm /\ troubles' = troubles)
  PROVE  PollKeeps
<1>1. UNCHANGED <<setup, plc, cmds>> /\ (UNCHANGED writer \/ writer' = Closed)
  BY LoopSteps
<1>2. UNCHANGED <<config, alive>>
  BY DEF Poll, PollBegin, PollConnect, PollRead, PollCheck, PollConfirm, PollPublish, PollState, PollBad,
         PollBadState, OfPoll, deviceVars
<1> QED BY <1>1, <1>2 DEF PollKeeps

LEMMA PollShows ==
  ASSUME ConfigInv, WriteInv, ShowInv, Poll, UNCHANGED load,
         calm' = IF poll = Idle THEN AtRest ELSE (calm /\ troubles' = troubles)
  PROVE  ShowInv'
<1>1. PollKeeps
  BY PollFrame
<1>2. DeviceInv
  BY DEF WriteInv
<1> QED BY <1>1, <1>2, PollBegins, PollConnects, PollReads, PollChecks, PollConfirms, PollPublishes, PollRemembers,
           PollMarksBad, PollRemembersBad DEF Poll

-----------------------------------------------------------------------------
(* The steps next to the poll. *)

\* Steps that the maps and the poll do not see.
LEMMA Unmoved ==
  ASSUME ShowInv, UNCHANGED <<setup, config, plc, alive, client, prev, cool, due, shown, poll, calm>>,
         QuietInv', troubles' \in Nat
  PROVE  ShowInv'
<1>1. PollInv' /\ MapsInv'
  BY DEF ShowInv, PollInv, MapsInv
<1>2. CalmInv'
  <2>1. PICK p : p = poll
    OBVIOUS
  <2>2. calm => FaithfulIn(p)
    BY <2>1 DEF ShowInv, CalmInv
  <2>3. FaithfulIn(p)' <=> FaithfulIn(p)
    BY DEF FaithfulIn
  <2>4. calm' => FaithfulIn(p)'
    BY <2>2, <2>3
  <2> QED BY <2>1, <2>4 DEF CalmInv
<1>3. AllSeen' <=> AllSeen
  BY DEF AllSeen
<1>4. ChangeInv'
  <2>1. ChangeInv
    BY DEF ShowInv
  <2>2. ChangeOnly' <=> ChangeOnly
    BY <1>3 DEF ChangeOnly
  <2> QED BY <2>1, <2>2 DEF ChangeInv, ShownAs, Reading, ReadType
<1>5. RepairInv'
  <2>1. RepairInv
    BY DEF ShowInv
  <2>2. Repairing' <=> Repairing
    BY <1>3 DEF Repairing
  <2> QED BY <2>1, <2>2 DEF RepairInv, Right, Ready
<1> QED BY <1>1, <1>2, <1>4, <1>5 DEF ShowInv

\* Steps that disturb a poll.
LEMMA Disturbed ==
  ASSUME ShowInv, ~calm', UNCHANGED <<setup, poll>>, MapsInv', QuietInv',
         NoWrites => UNCHANGED <<prev, shown>>, troubles' \in Nat
  PROVE  ShowInv'
<1>1. PollInv' /\ CalmInv'
  BY DEF ShowInv, PollInv, CalmInv
<1>2. RepairInv'
  BY DEF RepairInv, Repairing
<1>3. ChangeInv'
  <2>1. ChangeOnly' <=> ChangeOnly
    BY DEF ChangeOnly, AllSeen
  <2>2. ChangeInv /\ (ChangeOnly => UNCHANGED <<prev, shown, poll, setup>>)
    BY SeenAlone DEF ShowInv, ChangeOnly
  <2> QED BY <2>1, <2>2 DEF ChangeInv, ShownAs, Reading, ReadType
<1> QED BY <1>1, <1>2, <1>3 DEF ShowInv

\* Time.
LEMMA TimeShows ==
  ASSUME ConfigInv, ShowInv, NEW t \in Tags, HeartbeatElapses(t) \/ CooldownEnds(t), UNCHANGED <<load, calm>>
  PROVE  ShowInv'
<1>1. /\ UNCHANGED <<setup, config, plc, alive, client, prev, shown, poll, writer, cmds, troubles>>
      /\ \/ due' = [due EXCEPT ![t] = TRUE] /\ cool' = cool
         \/ due' = due /\ cool' = [cool EXCEPT ![t] = "over"]
  BY DEF HeartbeatElapses, CooldownEnds, deviceVars, busVars, boundVars
<1>2. /\ due \in [Tags -> BOOLEAN] /\ cool \in [Tags -> CoolStates] /\ DOMAIN config.layout \subseteq Tags
      /\ MapsInv /\ RepairInv /\ ChangeInv /\ troubles \in Nat
  BY QueueOfLayout DEF ShowInv, MapsInv
<1>3. /\ due' \in [Tags -> BOOLEAN] /\ cool' \in [Tags -> CoolStates]
      /\ \A u \in Tags : (due[u] => due'[u]) /\ (cool[u] # "running" => cool'[u] # "running")
  BY <1>1, <1>2 DEF CoolStates
<1>4. QuietInv'
  BY <1>1, QuietKept DEF ShowInv
<1>5. AllSeen' <=> AllSeen
  BY <1>1 DEF AllSeen
<1>6. PollInv' /\ MapsInv'
  BY <1>1, <1>2, <1>3 DEF ShowInv, PollInv, MapsInv
<1>7. CalmInv'
  <2>1. PICK p : p = poll
    OBVIOUS
  <2>2. calm => FaithfulIn(p)
    BY <2>1 DEF ShowInv, CalmInv
  <2>3. FaithfulIn(p)' <=> FaithfulIn(p)
    BY <1>1 DEF FaithfulIn
  <2>4. calm' => FaithfulIn(p)'
    BY <2>2, <2>3
  <2> QED BY <1>1, <2>1, <2>4 DEF CalmInv
<1>8. ChangeInv'
  <2>1. ChangeOnly' <=> ChangeOnly
    BY <1>1, <1>5 DEF ChangeOnly
  <2> QED BY <1>1, <1>2, <2>1 DEF ChangeInv, ShownAs, Reading, ReadType
<1>9. RepairInv'
  <2>1. Repairing' <=> Repairing
    BY <1>1, <1>5 DEF Repairing
  <2>2. ASSUME Repairing, NEW u \in DOMAIN config.layout
        PROVE  Right(u)' \/ (LeftIn(poll, u) /\ Ready(u)')
    <3>1. Right(u) \/ (LeftIn(poll, u) /\ Ready(u))
      BY <1>2, <2>2 DEF RepairInv
    <3>2. Right(u)' <=> Right(u)
      BY <1>1 DEF Right
    <3>3. Ready(u) => Ready(u)'
      BY <1>1, <1>2, <1>3 DEF Ready
    <3> QED BY <3>1, <3>2, <3>3
  <2>3. PICK h : h = Head(poll.tags)
    OBVIOUS
  <2>4. Repairing /\ Between(poll) /\ h \in DOMAIN config.layout => Right(h)
    BY <1>2, <2>3 DEF RepairInv
  <2>5. Right(h)' <=> Right(h)
    BY <1>1 DEF Right
  <2> QED BY <1>1, <2>1, <2>2, <2>3, <2>4, <2>5 DEF RepairInv
<1> QED BY <1>2, <1>1, <1>4, <1>6, <1>7, <1>8, <1>9 DEF ShowInv

\* Without writes nothing of a write comes into being.
LEMMA NothingWritten ==
  ASSUME LoadInv, ShowInv, UNCHANGED setup,
         \/ \E t \in Tags, v \in Values : ScadaWrite(t, v) \/ OneWrite(t, v) \/ (\E age \in Nat : ExternalWrite(t, v, age))
         \/ LinkDelays \/ CommandLost \/ HandleWriteCommand
         \/ \E w \in 1..Writers : ExecuteWrite(w)
         \/ \E l \in Loads : LoadSteps(l)
  PROVE  ~NoWrites
<1> SUFFICES ASSUME NoWrites PROVE FALSE
  OBVIOUS
<1>1. /\ cmds = <<>> /\ \A w \in 1..Writers : writer[w] = Free
      /\ \A l \in Loads : load[l].pc = "new"
  BY DEF ShowInv, QuietInv
<1>2. ~Can("write") /\ ~Can("scada") /\ ~Can("external") /\ ~Can("load")
  BY DEF NoWrites, Writing, Can
<1>3. CASE \E t \in Tags, v \in Values : ScadaWrite(t, v) \/ OneWrite(t, v) \/ (\E age \in Nat : ExternalWrite(t, v, age))
  BY <1>2, <1>3 DEF ScadaWrite, OneWrite, ExternalWrite
<1>4. CASE LinkDelays \/ CommandLost \/ HandleWriteCommand
  BY <1>1, <1>4 DEF LinkDelays, CommandLost, HandleWriteCommand
<1>5. CASE \E w \in 1..Writers : ExecuteWrite(w)
  <2>1. PICK w \in 1..Writers : ExecuteWrite(w)
    BY <1>5
  <2>2. writer[w].pc = "free"
    BY <1>1 DEF Free
  <2>3. writer[w].pc \in {"begin", "copy", "write", "state", "cool", "feedback"}
    BY <2>1 DEF ExecuteWrite, WriteBegin, WriteCopy, WriteRegister, WriteState, WriteCooldown, WriteFeedback
  <2> QED BY <2>2, <2>3
<1>6. CASE \E l \in Loads : LoadSteps(l)
  BY <1>1, <1>2, <1>6 DEF LoadSteps, LoadBegin, LoadPublish, LoadAck, LoadTimeout, LoadEnd
<1> QED BY <1>3, <1>4, <1>5, <1>6

\* Commands, results and loads on their way.
LEMMA BusShows ==
  ASSUME ConfigInv, LoadInv, ShowInv,
         \/ /\ RequestReload \/ LinkDelays \/ CommandLost \/ \E t \in Tags, v \in Values : ScadaWrite(t, v)
            /\ UNCHANGED <<load, calm>>
         \/ \E t \in Tags, v \in Values : OneWrite(t, v) \/ (\E age \in Nat : ExternalWrite(t, v, age))
         \/ \E l \in Loads : LoadSteps(l)
         \/ HandleAck
  PROVE  ShowInv'
<1>1. troubles \in Nat
  BY DEF ShowInv
<1>2. UNCHANGED <<setup, config, plc, alive, client, prev, cool, due, shown, poll, writer, calm>>
  BY DEF RequestReload, LinkDelays, CommandLost, ScadaWrite, OneWrite, ExternalWrite, LoadSteps, LoadBegin, LoadPublish,
         LoadAck, LoadTimeout, LoadEnd, HandleAck, OfLoad, driverVars, deviceVars
<1>3. troubles' = troubles \/ troubles' = troubles + 1
  BY DEF RequestReload, LinkDelays, CommandLost, ScadaWrite, OneWrite, ExternalWrite, LoadSteps, LoadBegin, LoadPublish,
         LoadAck, LoadTimeout, LoadEnd, HandleAck, Spend
<1>4. QuietInv'
  <2>1. CASE RequestReload /\ UNCHANGED load
    <3>1. UNCHANGED cmds
      BY <2>1 DEF RequestReload, busVars
    <3> QED BY <1>2, <2>1, <3>1, QuietKept DEF ShowInv
  <2>2. CASE HandleAck
    <3>1. UNCHANGED cmds /\ load \in [Loads -> LoadStates]
      BY <2>2 DEF HandleAck, LoadInv
    <3>2. \A l \in Loads : load'[l].pc = load[l].pc
      <4>1. PICK k, q : load' = load \/ load' = [load EXCEPT ![k].chan = q]
        BY <2>2 DEF HandleAck
      <4>2. ASSUME NEW l \in Loads PROVE load'[l].pc = load[l].pc
        <5>1. load[l] \in LoadStates
          BY <3>1
        <5>2. load'[l] = load[l] \/ load'[l] = [load[l] EXCEPT !.chan = q]
          BY <3>1, <4>1
        <5>3. [load[l] EXCEPT !.chan = q].pc = load[l].pc
          BY <5>1 DEF LoadStates
        <5> QED BY <5>2, <5>3
      <4> QED BY <4>2
    <3> QED BY <1>2, <3>1, <3>2 DEF ShowInv, QuietInv, NoWrites
  <2>3. CASE ~(RequestReload /\ UNCHANGED load) /\ ~HandleAck
    <3>1. ~NoWrites
      BY <1>2, <2>3, NothingWritten
    <3> QED BY <1>2, <3>1 DEF QuietInv, NoWrites
  <2> QED BY <2>1, <2>2, <2>3
<1> QED BY <1>1, <1>2, <1>3, <1>4, Unmoved

\* The configuration, the commands that arrive, the writers and the device.
LEMMA OthersShow ==
  ASSUME ConfigInv, WriteInv, LoadInv, ShowInv, ~calm', UNCHANGED load,
         \/ LoadConfig \/ HandleWriteCommand
         \/ \E w \in 1..Writers : ExecuteWrite(w)
         \/ \E t \in Tags : DeviceChanges(t)
         \/ DeviceDown \/ DeviceUp
  PROVE  ShowInv'
<1>1. troubles \in Nat /\ MapsInv /\ QuietInv
  BY DEF ShowInv
<1>2. CASE LoadConfig \/ DeviceDown \/ DeviceUp \/ \E t \in Tags : DeviceChanges(t)
  <2>1. /\ UNCHANGED <<setup, poll, prev, cool, due, shown, cmds>>
        /\ UNCHANGED writer \/ writer' = Closed
    BY <1>2 DEF LoadConfig, DeviceDown, DeviceUp, DeviceChanges, driverVars, deviceVars, busVars
  <2>2. troubles' = troubles \/ troubles' = troubles + 1
    BY <1>2 DEF LoadConfig, DeviceDown, DeviceUp, DeviceChanges, boundVars, Spend
  <2>3. QuietInv'
    BY <1>1, <2>1, QuietKept
  <2>4. MapsInv'
    BY <1>1, <2>1 DEF MapsInv
  <2> QED BY <1>1, <2>1, <2>2, <2>3, <2>4, Disturbed
<1>3. CASE HandleWriteCommand \/ \E w \in 1..Writers : ExecuteWrite(w)
  <2>1. UNCHANGED <<setup, poll>>
    BY <1>3 DEF HandleWriteCommand, ExecuteWrite, WriteBegin, WriteCopy, WriteRegister, WriteState, WriteCooldown,
                WriteFeedback, driverVars
  <2>2. troubles' = troubles \/ troubles' = troubles + 1
    BY <1>3 DEF HandleWriteCommand, ExecuteWrite, WriteBegin, WriteCopy, WriteRegister, WriteState, WriteCooldown,
                WriteFeedback, publishDual, boundVars, Spend
  <2>3. ~NoWrites /\ ~NoWrites'
    BY <1>3, <2>1, NothingWritten DEF NoWrites
  <2>4. QuietInv'
    BY <2>3 DEF QuietInv
  <2>5. MapsInv'
    <3>1. CASE UNCHANGED <<prev, cool, due, shown>>
      BY <1>1, <3>1 DEF MapsInv
    <3>2. ASSUME NEW w \in 1..Writers, WriteState(w) \/ WriteCooldown(w) \/ WriteFeedback(w)
          PROVE  MapsInv'
      <4>1. PICK x : x = writer[w].cmd
        OBVIOUS
      <4>2. x \in Commands
        BY <3>2, <4>1, BusyWriter DEF WriteInv, WriteState, WriteCooldown, WriteFeedback, Busy
      <4>3. /\ [v |-> x.v, type |-> x.type, q |-> Good] \in Remembered /\ x.type # "nil" /\ x.tag \in Tags
            /\ [v |-> x.v, q |-> Good] \in Showing
        BY <4>2 DEF Commands, Remembered, GoTypes, Showing
      <4>4. CASE WriteState(w)
        <5>1. prev' = [prev EXCEPT ![x.tag] = [v |-> x.v, type |-> x.type, q |-> Good]] /\ UNCHANGED <<cool, due, shown>>
          BY <4>1, <4>4 DEF WriteState
        <5>2. prev' \in [Tags -> Remembered]
          BY <1>1, <4>3, <5>1 DEF MapsInv
        <5>3. \A t \in Tags : prev'[t].type = "nil" => prev'[t].q = Good
          BY <1>1, <4>3, <5>1 DEF MapsInv
        <5> QED BY <1>1, <5>1, <5>2, <5>3 DEF MapsInv
      <4>5. CASE WriteCooldown(w)
        <5>1. cool' = [cool EXCEPT ![x.tag] = "running"] /\ UNCHANGED <<prev, due, shown>>
          BY <4>1, <4>5 DEF WriteCooldown
        <5> QED BY <1>1, <4>3, <5>1 DEF MapsInv, CoolStates
      <4>6. CASE WriteFeedback(w)
        <5>1. shown' \in {shown, [shown EXCEPT ![x.tag] = [v |-> x.v, q |-> Good]]} /\ UNCHANGED <<prev, cool, due>>
          BY <4>1, <4>6 DEF WriteFeedback, publishDual
        <5>2. shown' \in [Tags -> Showing]
          BY <1>1, <4>3, <5>1 DEF MapsInv
        <5> QED BY <1>1, <5>1, <5>2 DEF MapsInv
      <4> QED BY <3>2, <4>4, <4>5, <4>6
    <3> QED BY <1>3, <3>1, <3>2 DEF HandleWriteCommand, ExecuteWrite, WriteBegin, WriteCopy, WriteRegister, driverVars
  <2> QED BY <1>1, <2>1, <2>2, <2>3, <2>4, <2>5, Disturbed
<1> QED BY <1>2, <1>3

LEMMA ShowInit ==
  ASSUME PathInit
  PROVE  ShowInv
<1>1. /\ prev = [t \in Tags |-> NoReading] /\ cool = [t \in Tags |-> "none"]
      /\ due = [t \in Tags |-> TRUE] /\ shown = [t \in Tags |-> [v |-> 0, q |-> Bad]]
      /\ poll = Idle /\ writer = [w \in 1..Writers |-> Free] /\ cmds = <<>>
      /\ troubles = 0 /\ ~calm /\ load = [l \in Loads |-> NoLoad]
  BY DEF PathInit, DriverInit
<1>2. PollInv /\ ~Between(poll)
  BY <1>1 DEF PollInv, PollStates, Idle, HeldIn, GoodPCs, Between
<1>3. MapsInv
  BY <1>1 DEF MapsInv, NoReading, Remembered, Showing, Values, GoTypes, CoolStates, Good, Bad
<1>4. CalmInv /\ RepairInv
  BY <1>1 DEF CalmInv, RepairInv, Repairing
<1>5. QuietInv
  BY <1>1 DEF QuietInv, NoLoad
<1>6. ChangeInv
  BY <1>1, <1>2 DEF ChangeInv, NoReading, Between
<1> QED BY <1>1, <1>2, <1>3, <1>4, <1>5, <1>6 DEF ShowInv

LEMMA ShowStep ==
  ASSUME PathSafe, ShowInv, [ProcessNext]_driverAllVars
  PROVE  ShowInv'
<1>1. ConfigInv /\ WriteInv /\ LoadInv
  BY DEF PathSafe
<1>2. CASE UNCHANGED allPathVars
  <2>1. UNCHANGED <<setup, config, plc, alive, client, prev, cool, due, shown, poll, calm, writer, cmds, load, troubles>>
    BY <1>2 DEF allPathVars, pathVars, recipeVars, driverVars, deviceVars, busVars, boundVars
  <2>2. QuietInv' /\ troubles' \in Nat
    BY <2>1, QuietKept DEF ShowInv
  <2> QED BY <2>1, <2>2, Unmoved
<1>3. CASE DriverSteps
  <2>1. DriverNext /\ UNCHANGED load
    BY <1>3 DEF DriverSteps
  <2>2. CASE Poll /\ calm' = IF poll = Idle THEN AtRest ELSE (calm /\ troubles' = troubles)
    BY <1>1, <2>1, <2>2, PollShows
  <2>3. CASE /\ \/ \E t \in Tags : HeartbeatElapses(t) \/ CooldownEnds(t)
                \/ \E t \in Tags, v \in Values : ScadaWrite(t, v)
                \/ RequestReload \/ LinkDelays \/ CommandLost
             /\ UNCHANGED calm
    BY <1>1, <2>1, <2>3, TimeShows, BusShows
  <2>4. CASE /\ \/ LoadConfig \/ HandleWriteCommand
                \/ \E w \in 1..Writers : ExecuteWrite(w)
                \/ \E t \in Tags : DeviceChanges(t)
                \/ DeviceDown \/ DeviceUp
             /\ calm' = FALSE
    BY <1>1, <2>1, <2>4, OthersShow
  <2> QED BY <2>1, <2>2, <2>3, <2>4 DEF DriverNext
<1>4. CASE \E t \in Tags, v \in Values :
             TagWrite(t, v) \/ I3XWrite(t, v) \/ \E age \in 0..(MaxAge + 1) : ExternalWrite(t, v, age)
  <2>1. 0..(MaxAge + 1) \subseteq Nat
    BY DriverAssumption
  <2> QED BY <1>1, <1>4, <2>1, BusShows DEF TagWrite, I3XWrite
<1>5. CASE (\E l \in Loads : LoadSteps(l)) \/ HandleAck
  BY <1>1, <1>5, BusShows
<1>6. CASE PathNext
  BY <1>3, <1>4, <1>5, <1>6 DEF PathNext
<1> QED BY <1>2, <1>6, Steps

LEMMA ShowEnds ==
  ASSUME ShowInv
  PROVE  ShownAfterPoll
<1> SUFFICES ASSUME calm, poll = Idle, config.usable, setup.heartbeat = "never" => setup.env \cap Unrepaired = {},
                    NEW t \in DOMAIN config.layout
             PROVE  IF alive THEN shown[t] = [v |-> plc[t], q |-> Good] ELSE shown[t].q = Bad
  BY DEF ShownAfterPoll
<1>1. Repairing
  BY DEF Repairing, AllSeen
<1>2. ~LeftIn(Idle, t)
  BY DEF LeftIn, Idle, Judged, GoodPCs, BadPCs
<1> QED BY <1>1, <1>2 DEF ShowInv, RepairInv, Right

\* poll: after a poll that nothing disturbed every tag of the configuration is shown
\* as the device holds it, or with bad quality if it does not answer - for any layout
\* and number of tags, whatever writes, feedback, cooldowns, reloads and broken
\* connections came before it.
THEOREM ShownHolds == ProcessSpec => []ShownAfterPoll
<1>1. ProcessInit => PathSafe /\ ShowInv
  BY PathSafeInit, ShowInit DEF ProcessInit
<1>2. PathSafe /\ ShowInv /\ [ProcessNext]_driverAllVars => (PathSafe /\ ShowInv)'
  BY PathSafeStep, ShowStep
<1> QED BY <1>1, <1>2, ShowEnds, PTL DEF ProcessSpec
=============================================================================
