-------------------------- MODULE InfluxBufferProofs --------------------------
(***************************************************************************)
(* What requeue's cap discards, for every number of goroutines, points,    *)
(* outages and edits of the settings.                                      *)
(***************************************************************************)
EXTENDS InfluxBuffer, SequenceTheorems, TLAPS

Increasing(s) == \A i, j \in 1..Len(s) : i < j => s[i] < s[j]

Before(s, t) == \A i \in 1..Len(s), j \in 1..Len(t) : s[i] < t[j]

AtMost(s, n) == \A i \in 1..Len(s) : s[i] <= n

(* A Write that has passed its check has a number left for its point. *)
Shape == checked => written < MaxPoints

(* Nothing carries a point that was not written. *)
Written == AtMost(buf, written) /\ \A g \in Goroutines : AtMost(batch[g], written)

(* Every list is in the order of writing, requests are older than what is  *)
(* buffered, and of two requests one is older throughout.                  *)
Sorted ==
  /\ Increasing(buf)
  /\ \A g \in Goroutines : Increasing(batch[g]) /\ Before(batch[g], buf)
  /\ \A g, h \in Goroutines : g # h => Before(batch[g], batch[h]) \/ Before(batch[h], batch[g])

IInv == TypeOK /\ Shape /\ Written /\ (~overtaken => Sorted)

--------------------------------------------------------------------------------
(* The lists after Take and after requeue. *)

LEMMA EmptyList ==
  ASSUME NEW s, NEW n
  PROVE  /\ Len(<<>>) = 0
         /\ Increasing(<<>>) /\ Before(<<>>, s) /\ Before(s, <<>>) /\ AtMost(<<>>, n)
BY DEF Increasing, Before, AtMost

LEMMA FirstLine ==
  ASSUME NEW S \in SUBSET Nat, NEW s \in Seq(S), s # <<>>
  PROVE  1 \in 1..Len(s) /\ Head(s) = s[1] /\ s[1] \in Nat
<1>1. Len(s) \in Nat /\ Len(s) # 0
  BY EmptySeq, LenProperties
<1>2. 1 \in 1..Len(s)
  BY <1>1
<1>3. s[1] \in S
  BY <1>2, ElementOfSeq
<1>4. Head(s) = s[1]
  BY HeadTailProperties
<1>. QED  BY <1>2, <1>3, <1>4

LEMMA JoinedLists ==
  ASSUME NEW S \in SUBSET Nat, NEW s \in Seq(S), NEW t \in Seq(S)
  PROVE  /\ s \o t \in Seq(S)
         /\ Increasing(s) /\ Increasing(t) /\ Before(s, t) => Increasing(s \o t)
         /\ \A u \in Seq(S) : Before(u, s) /\ Before(u, t) => Before(u, s \o t)
         /\ \A n \in Nat : AtMost(s, n) /\ AtMost(t, n) => AtMost(s \o t, n)
<1>1. /\ s \o t \in Seq(S) /\ Len(s \o t) = Len(s) + Len(t)
      /\ Len(s) \in Nat /\ Len(t) \in Nat
      /\ \A i \in 1..(Len(s) + Len(t)) :
           (s \o t)[i] = IF i <= Len(s) THEN s[i] ELSE t[i - Len(s)]
  BY ConcatProperties, LenProperties
<1>2. \A i \in 1..Len(s \o t) : \/ i \in 1..Len(s) /\ (s \o t)[i] = s[i]
                                \/ i - Len(s) \in 1..Len(t) /\ (s \o t)[i] = t[i - Len(s)]
  BY <1>1
<1>3. Increasing(s) /\ Increasing(t) /\ Before(s, t) => Increasing(s \o t)
  <2> SUFFICES ASSUME Increasing(s), Increasing(t), Before(s, t),
                      NEW i \in 1..Len(s \o t), NEW j \in 1..Len(s \o t), i < j
               PROVE  (s \o t)[i] < (s \o t)[j]
    BY DEF Increasing
  <2>1. CASE i <= Len(s) /\ j <= Len(s)
    BY <1>1, <2>1 DEF Increasing
  <2>2. CASE i <= Len(s) /\ j > Len(s)
    BY <1>1, <2>2 DEF Before
  <2>3. CASE i > Len(s) /\ j > Len(s)
    BY <1>1, <2>3 DEF Increasing
  <2>. QED  BY <1>1, <2>1, <2>2, <2>3
<1>4. \A u \in Seq(S) : Before(u, s) /\ Before(u, t) => Before(u, s \o t)
  BY <1>2 DEF Before
<1>5. \A n \in Nat : AtMost(s, n) /\ AtMost(t, n) => AtMost(s \o t, n)
  BY <1>2 DEF AtMost
<1>. QED  BY <1>1, <1>3, <1>4, <1>5

LEMMA CutList ==
  ASSUME NEW S \in SUBSET Nat, NEW s \in Seq(S), NEW d \in 0..Len(s)
  PROVE  LET kept == SubSeq(s, d + 1, Len(s)) cut == SubSeq(s, 1, d) IN
         /\ kept \in Seq(S)
         /\ Increasing(s) => Increasing(kept)
         /\ Increasing(s) => \A p \in Lines(cut), q \in Lines(kept) : p < q
         /\ \A u \in Seq(S) : Before(u, s) => Before(u, kept)
         /\ \A n \in Nat : AtMost(s, n) => AtMost(kept, n)
<1> DEFINE kept == SubSeq(s, d + 1, Len(s))
           cut  == SubSeq(s, 1, d)
<1>1. Len(s) \in Nat /\ d \in Nat /\ d <= Len(s)
  BY LenProperties
<1>2. kept \in Seq(S) /\ Len(kept) = Len(s) - d /\ \A i \in 1..(Len(s) - d) : kept[i] = s[d + i]
  <2>1. \A i \in (d + 1)..Len(s) : s[i] \in S
    BY <1>1, ElementOfSeq, LenProperties
  <2>. QED  BY <1>1, <2>1, SubSeqProperties
<1>3. cut \in Seq(S) /\ Len(cut) = d /\ \A i \in 1..d : cut[i] = s[i]
  <2>1. \A i \in 1..d : s[i] \in S
    BY <1>1, ElementOfSeq, LenProperties
  <2>. QED  BY <1>1, <2>1, SubSeqProperties
<1>4. \A i \in 1..Len(kept) : d + i \in 1..Len(s) /\ kept[i] = s[d + i]
  BY <1>1, <1>2
<1>5. Increasing(s) => Increasing(kept)
  BY <1>1, <1>2, <1>4 DEF Increasing
<1>6. Increasing(s) => \A p \in Lines(cut), q \in Lines(kept) : p < q
  <2> SUFFICES ASSUME Increasing(s), NEW p \in Lines(cut), NEW q \in Lines(kept)
               PROVE  p < q
    OBVIOUS
  <2>1. PICK i \in 1..d : p = s[i]
    BY <1>3, LenProperties DEF Lines
  <2>2. PICK j \in 1..(Len(s) - d) : q = s[d + j]
    BY <1>2, LenProperties DEF Lines
  <2>3. i \in 1..Len(s) /\ d + j \in 1..Len(s) /\ i < d + j
    BY <1>1
  <2>. QED  BY <2>1, <2>2, <2>3 DEF Increasing
<1>7. \A u \in Seq(S) : Before(u, s) => Before(u, kept)
  BY <1>4 DEF Before
<1>8. \A n \in Nat : AtMost(s, n) => AtMost(kept, n)
  BY <1>4 DEF AtMost
<1>. QED  BY <1>2, <1>5, <1>6, <1>7, <1>8

--------------------------------------------------------------------------------
LEMMA InitInv == Init => IInv
<1> SUFFICES ASSUME Init PROVE IInv
  OBVIOUS
<1>1. TypeOK
  <2>1. <<>> \in Seq(1..MaxPoints) /\ 0 \in 0..MaxPoints
    BY InfluxAssumption, EmptySeq
  <2>. QED  BY <2>1 DEF Init, TypeOK
<1>2. Shape
  BY DEF Init, Shape
<1>3. buf = <<>> /\ \A g \in Goroutines : batch[g] = <<>>
  BY DEF Init
<1>4. Written
  BY <1>3, EmptyList DEF Written
<1>5. Sorted
  BY <1>3, EmptyList DEF Sorted
<1>. QED  BY <1>1, <1>2, <1>4, <1>5 DEF IInv

LEMMA WriteAppendInv == IInv /\ WriteAppend => IInv'
<1> SUFFICES ASSUME IInv, WriteAppend PROVE IInv'
  OBVIOUS
<1> DEFINE S == 1..MaxPoints
<1>1. TypeOK /\ written \in Nat /\ written + 1 \in S /\ S \in SUBSET Nat
  BY InfluxAssumption DEF IInv, TypeOK, Shape, WriteAppend
<1>2. /\ buf' \in Seq(S) /\ Len(buf') = Len(buf) + 1 /\ Len(buf) \in Nat
      /\ \A i \in 1..Len(buf) : buf'[i] = buf[i]
      /\ buf'[Len(buf) + 1] = written + 1
  BY <1>1, AppendProperties, LenProperties DEF TypeOK, WriteAppend
<1>3. TypeOK'
  <2>1. setting' = setting /\ cfg' = cfg /\ batch' = batch /\ checked' \in BOOLEAN
    BY DEF WriteAppend, envVars
  <2>2. spawned' \in Nat /\ written' \in 0..MaxPoints
    BY <1>1 DEF TypeOK, WriteAppend
  <2>. QED  BY <1>1, <1>2, <2>1, <2>2 DEF TypeOK
<1>4. Shape'
  BY DEF WriteAppend, Shape
<1>5. batch' = batch /\ overtaken' = overtaken /\ written' = written + 1
  BY DEF WriteAppend
<1>6. \A g \in Goroutines : batch[g] \in Seq(S) /\ \A i \in 1..Len(batch[g]) : batch[g][i] \in Nat
  BY <1>1, ElementOfSeq DEF TypeOK
<1>7. \A i \in 1..Len(buf) : buf[i] \in Nat
  BY <1>1, ElementOfSeq DEF TypeOK
<1>8. AtMost(buf', written')
  BY <1>1, <1>2, <1>5, <1>7 DEF IInv, Written, AtMost
<1>9. \A g \in Goroutines : AtMost(batch'[g], written')
  BY <1>1, <1>5, <1>6 DEF IInv, Written, AtMost
<1>10. ASSUME ~overtaken PROVE Sorted'
  <2>1. Sorted
    BY <1>10 DEF IInv
  <2>2. Increasing(buf')
    <3> SUFFICES ASSUME NEW i \in 1..(Len(buf) + 1), NEW j \in 1..(Len(buf) + 1), i < j
                 PROVE  buf'[i] < buf'[j]
      BY <1>2 DEF Increasing
    <3>1. CASE j <= Len(buf)
      BY <1>2, <2>1, <3>1 DEF Sorted, Increasing
    <3>2. CASE j = Len(buf) + 1
      <4>1. i \in 1..Len(buf)
        BY <1>2, <3>2
      <4>. QED  BY <1>1, <1>2, <1>7, <3>2, <4>1 DEF IInv, Written, AtMost
    <3>. QED  BY <1>2, <3>1, <3>2
  <2>3. ASSUME NEW g \in Goroutines PROVE Before(batch[g], buf')
    <3> SUFFICES ASSUME NEW i \in 1..Len(batch[g]), NEW j \in 1..(Len(buf) + 1)
                 PROVE  batch[g][i] < buf'[j]
      BY <1>2 DEF Before
    <3>1. CASE j <= Len(buf)
      BY <1>2, <2>1, <3>1 DEF Sorted, Before
    <3>2. CASE j = Len(buf) + 1
      BY <1>1, <1>2, <1>6, <3>2 DEF IInv, Written, AtMost
    <3>. QED  BY <1>2, <3>1, <3>2
  <2>. QED  BY <1>5, <2>1, <2>2, <2>3 DEF Sorted
<1>. QED  BY <1>3, <1>4, <1>5, <1>8, <1>9, <1>10 DEF IInv, Written

(* Tick and Flush leave alone everything that the invariant mentions and Take does not set. *)
LEMMA TakeInv ==
  ASSUME IInv, NEW g \in Goroutines, Take(g), spawned' \in Nat,
         UNCHANGED <<checked, written, overtaken, setting, cfg>>
  PROVE  IInv'
<1>1. TypeOK /\ batch[g] = <<>> /\ buf' = <<>>
  BY DEF IInv, Take
<1>2. batch' = batch \/ batch' = [batch EXCEPT ![g] = buf]
  BY DEF Take
<1>3. TypeOK'
  BY <1>1, <1>2 DEF TypeOK
<1>4. Shape'
  BY DEF IInv, Shape
<1>5. batch'[g] \in {<<>>, buf} /\ \A h \in Goroutines : h # g => batch'[h] = batch[h]
  BY <1>1, <1>2 DEF TypeOK
<1>6. Written'
  BY <1>1, <1>5, EmptyList DEF IInv, Written
<1>7. ASSUME ~overtaken' PROVE Sorted'
  <2>1. Sorted
    BY <1>7 DEF IInv
  <2>2. CASE batch'[g] = <<>>
    <3>1. \A h \in Goroutines : Before(batch'[h], buf')
      BY <1>1, EmptyList
    <3>2. \A h \in Goroutines : Increasing(batch'[h])
      BY <1>5, <2>1, <2>2, EmptyList DEF Sorted
    <3>3. \A h, k \in Goroutines : h # k => Before(batch'[h], batch'[k]) \/ Before(batch'[k], batch'[h])
      BY <1>5, <2>1, <2>2, EmptyList DEF Sorted
    <3>. QED  BY <1>1, <3>1, <3>2, <3>3, EmptyList DEF Sorted
  <2>3. CASE batch'[g] = buf
    <3>1. \A h \in Goroutines : Before(batch'[h], buf')
      BY <1>1, EmptyList
    <3>2. \A h \in Goroutines : Increasing(batch'[h])
      BY <1>5, <2>1, <2>3 DEF Sorted
    <3>3. \A h, k \in Goroutines : h # k => Before(batch'[h], batch'[k]) \/ Before(batch'[k], batch'[h])
      BY <1>5, <2>1, <2>3 DEF Sorted
    <3>. QED  BY <1>1, <3>1, <3>2, <3>3, EmptyList DEF Sorted
  <2>. QED  BY <1>5, <2>2, <2>3
<1>. QED  BY <1>3, <1>4, <1>6, <1>7 DEF IInv

(* What requeue makes of the buffer and of what it cuts off. *)
LEMMA RequeueLists ==
  ASSUME IInv, NEW g \in Goroutines, Requeue(batch[g])
  PROVE  /\ buf' \in Seq(1..MaxPoints) /\ AtMost(buf', written)
         /\ \A u \in Seq(1..MaxPoints) : Before(u, batch[g]) /\ Before(u, buf) => Before(u, buf')
         /\ ~overtaken => /\ Increasing(buf')
                          /\ \A p \in capped' \ capped, q \in Lines(buf') : p < q
<1> DEFINE S == 1..MaxPoints
           all == batch[g] \o buf
           dropped == IF Len(all) > MaxLines THEN Len(all) - MaxLines ELSE 0
<1>1. S \in SUBSET Nat /\ batch[g] \in Seq(S) /\ buf \in Seq(S) /\ written \in Nat
  BY InfluxAssumption DEF IInv, TypeOK
<1>2. /\ all \in Seq(S) /\ AtMost(all, written)
      /\ ~overtaken => Increasing(all)
      /\ \A u \in Seq(S) : Before(u, batch[g]) /\ Before(u, buf) => Before(u, all)
  BY <1>1, JoinedLists DEF IInv, Written, Sorted
<1>3. dropped \in 0..Len(all)
  BY <1>2, LenProperties, InfluxAssumption
<1>4. /\ buf' = SubSeq(all, dropped + 1, Len(all))
      /\ capped' = capped \cup Lines(SubSeq(all, 1, dropped))
  BY DEF Requeue, PutBack
<1> HIDE DEF all, dropped, S
<1>5. /\ buf' \in Seq(S)
      /\ Increasing(all) => Increasing(buf')
      /\ Increasing(all) => \A p \in Lines(SubSeq(all, 1, dropped)), q \in Lines(buf') : p < q
      /\ \A u \in Seq(S) : Before(u, all) => Before(u, buf')
      /\ AtMost(all, written) => AtMost(buf', written)
  BY <1>1, <1>2, <1>3, <1>4, CutList
<1>. QED  BY <1>2, <1>4, <1>5 DEF S

LEMMA PostInv ==
  ASSUME IInv, NEW g \in Goroutines, Post(g)
  PROVE  IInv'
<1>1. /\ TypeOK /\ batch[g] # <<>>
      /\ batch' = [batch EXCEPT ![g] = <<>>]
      /\ UNCHANGED <<checked, spawned, written, setting, cfg>>
  BY DEF IInv, Post, envVars
<1>2. batch'[g] = <<>> /\ \A h \in Goroutines : h # g => batch'[h] = batch[h]
  BY <1>1 DEF TypeOK
<1>3. Shape'
  BY <1>1 DEF IInv, Shape
<1>4. ASSUME buf' \in Seq(1..MaxPoints) PROVE TypeOK'
  BY <1>1, <1>4, EmptySeq DEF TypeOK
<1>5. ASSUME AtMost(buf', written) PROVE Written'
  BY <1>1, <1>2, <1>5, EmptyList DEF IInv, Written
<1>6. ASSUME Sorted, Increasing(buf'),
             \A h \in Goroutines \ {g} : Before(batch[h], buf')
      PROVE  Sorted'
  <2>1. \A h \in Goroutines : Increasing(batch'[h]) /\ Before(batch'[h], buf')
    BY <1>2, <1>6, EmptyList DEF Sorted
  <2>2. \A h, k \in Goroutines : h # k => Before(batch'[h], batch'[k]) \/ Before(batch'[k], batch'[h])
    BY <1>2, <1>6, EmptyList DEF Sorted
  <2>. QED  BY <1>6, <2>1, <2>2 DEF Sorted
<1>7. CASE UNCHANGED <<buf, overtaken>>
  <2>1. TypeOK' /\ Written'
    BY <1>1, <1>4, <1>5, <1>7 DEF IInv, TypeOK, Written
  <2>2. ~overtaken' => Sorted'
    BY <1>6, <1>7 DEF IInv, Sorted
  <2>. QED  BY <1>3, <2>1, <2>2 DEF IInv
<1>8. CASE /\ Requeue(batch[g])
           /\ overtaken' = (overtaken \/ \E h \in Goroutines \ {g} : Younger(batch[h], batch[g]))
  <2>1. TypeOK' /\ Written'
    BY <1>4, <1>5, <1>8, RequeueLists
  <2>2. ASSUME ~overtaken' PROVE Sorted'
    <3>1. ~overtaken /\ Sorted /\ \A h \in Goroutines \ {g} : ~Younger(batch[h], batch[g])
      BY <1>8, <2>2 DEF IInv
    <3>2. ASSUME NEW h \in Goroutines \ {g} PROVE Before(batch[h], batch[g])
      <4>1. CASE batch[h] = <<>>
        BY <4>1, EmptyList
      <4>2. CASE batch[h] # <<>>
        <5>1. /\ 1 \in 1..Len(batch[h]) /\ 1 \in 1..Len(batch[g])
              /\ Head(batch[h]) = batch[h][1] /\ Head(batch[g]) = batch[g][1]
              /\ batch[h][1] \in Nat /\ batch[g][1] \in Nat
          <6>1. 1..MaxPoints \in SUBSET Nat /\ batch[h] \in Seq(1..MaxPoints) /\ batch[g] \in Seq(1..MaxPoints)
            BY <1>1, InfluxAssumption DEF TypeOK
          <6>. QED  BY <1>1, <4>2, <6>1, FirstLine
        <5>2. ~(batch[g][1] < batch[h][1])
          BY <3>1, <3>2, <4>2, <5>1 DEF Younger
        <5>3. ~Before(batch[g], batch[h])
          BY <5>1, <5>2 DEF Before
        <5>. QED  BY <3>1, <3>2, <5>3 DEF Sorted
      <4>. QED  BY <4>1, <4>2
    <3>3. \A h \in Goroutines \ {g} : batch[h] \in Seq(1..MaxPoints) /\ Before(batch[h], buf)
      BY <1>1, <3>1 DEF TypeOK, Sorted
    <3>4. \A h \in Goroutines \ {g} : Before(batch[h], buf')
      BY <1>8, <3>2, <3>3, RequeueLists
    <3>5. Increasing(buf')
      BY <1>8, <3>1, RequeueLists
    <3>. QED  BY <1>6, <3>1, <3>4, <3>5
  <2>. QED  BY <1>3, <2>1, <2>2 DEF IInv
<1>. QED  BY <1>7, <1>8 DEF Post

(* The other actions touch nothing but the settings, a flag or history. *)
LEMMA OtherInv ==
  ASSUME IInv, UNCHANGED <<buf, batch, written, overtaken, spawned>>,
         checked' \in BOOLEAN, checked' => checked \/ written < MaxPoints,
         setting' \in Settings, cfg' \in Settings
  PROVE  IInv'
<1>1. TypeOK' /\ Shape' /\ Written'
  BY DEF IInv, TypeOK, Shape, Written
<1>2. ~overtaken' => Sorted'
  BY DEF IInv, Sorted
<1>. QED  BY <1>1, <1>2 DEF IInv

LEMMA NextInv == IInv /\ [Next]_vars => IInv'
<1> SUFFICES ASSUME IInv, [Next]_vars PROVE IInv'
  OBVIOUS
<1>1. setting \in Settings /\ cfg \in Settings /\ checked \in BOOLEAN /\ spawned \in Nat
  BY DEF IInv, TypeOK
<1>2. CASE WriteCheck
  BY <1>1, <1>2, OtherInv DEF WriteCheck, historyVars, envVars
<1>3. CASE WriteAppend
  BY <1>3, WriteAppendInv
<1>4. CASE Tick
  <2>1. Runner \in Goroutines /\ Take(Runner) /\ spawned' \in Nat
        /\ UNCHANGED <<checked, written, overtaken, setting, cfg>>
    BY <1>1, <1>4 DEF Tick, Goroutines, envVars
  <2>. QED  BY <2>1, TakeInv
<1>5. ASSUME NEW g \in Flushers, Flush(g) PROVE IInv'
  <2>1. g \in Goroutines /\ Take(g) /\ spawned' \in Nat
        /\ UNCHANGED <<checked, written, overtaken, setting, cfg>>
    BY <1>1, <1>5 DEF Flush, Goroutines, envVars
  <2>. QED  BY <2>1, TakeInv
<1>6. ASSUME NEW g \in Goroutines, Post(g) PROVE IInv'
  BY <1>6, PostInv
<1>7. CASE Reload
  BY <1>1, <1>7, OtherInv DEF Reload, bufferVars, historyVars, envVars
<1>8. CASE ReloadCut
  BY <1>1, <1>8, OtherInv DEF ReloadCut, bufferVars, historyVars
<1>9. CASE Edit
  BY <1>1, <1>9, OtherInv DEF Edit, bufferVars, historyVars
<1>10. CASE Outage
  BY <1>1, <1>10, OtherInv DEF Outage, bufferVars, historyVars
<1>11. CASE UNCHANGED vars
  BY <1>1, <1>11, OtherInv DEF vars, bufferVars, historyVars, envVars
<1>. QED  BY <1>2, <1>3, <1>4, <1>5, <1>6, <1>7, <1>8, <1>9, <1>10, <1>11 DEF Next

(* Every step that cuts points off is a failed Post. *)
LEMMA CutStep ==
  ASSUME IInv, Next, NEW p \in capped' \ capped
  PROVE  overtaken' \/ \A q \in Lines(buf') : p < q
<1>1. \/ UNCHANGED capped
      \/ \E g \in Goroutines :
           Requeue(batch[g]) /\ overtaken' = (overtaken \/ \E h \in Goroutines \ {g} : Younger(batch[h], batch[g]))
  BY DEF Next, WriteCheck, WriteAppend, Tick, Flush, Post, Reload, ReloadCut, Edit, Outage, historyVars
<1>2. PICK g \in Goroutines :
        Requeue(batch[g]) /\ overtaken' = (overtaken \/ \E h \in Goroutines \ {g} : Younger(batch[h], batch[g]))
  BY <1>1
<1>3. CASE overtaken'
  BY <1>3
<1>4. CASE ~overtaken'
  BY <1>2, <1>4, RequeueLists
<1>. QED  BY <1>3, <1>4

--------------------------------------------------------------------------------
(***************************************************************************)
(* Type correctness: no point gets a number beyond MaxPoints and every     *)
(* batch that flush carries or requeue puts back is a list of points.      *)
(***************************************************************************)
THEOREM TypeCorrect == Spec => []TypeOK
<1>1. IInv => TypeOK
  BY DEF IInv
<1>. QED  BY <1>1, InitInv, NextInv, PTL DEF Spec

(***************************************************************************)
(* What requeue's cap drops is older than everything it keeps, unless an   *)
(* older batch failed while a younger one was under way.                   *)
(***************************************************************************)
THEOREM OldestGoFirst == Spec => CapDropsOldest
<1>1. IInv /\ [Next]_vars => [\A p \in capped' \ capped : overtaken' \/ \A q \in Lines(buf') : p < q]_vars
  BY CutStep
<1>. QED  BY <1>1, InitInv, NextInv, PTL DEF Spec, CapDropsOldest
================================================================================
