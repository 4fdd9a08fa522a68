--------------------------- MODULE AlarmManagerProofs ---------------------------
(***************************************************************************)
(* What holds of the alarm engine for every set of tags, rules, goroutines *)
(* and pointers, every clock bound and every choice of Env.                *)
(***************************************************************************)
EXTENDS AlarmManager, FiniteSetTheorems, SequenceTheorems, TLAPS

(***************************************************************************)
(* TypeOK is not inductive by itself: an action that executes an alarmIO   *)
(* needs one to be there, a track that fires needs its pointer, and a      *)
(* reading of a batch needs the batch, which Manager.mu keeps to one       *)
(* goroutine.                                                              *)
(***************************************************************************)
Shape ==
  /\ \A d \in Defs : tracks[d].phase # "none" => tracks[d].ref \in Refs
  /\ \A c \in Callers : pc[c] \in {"exec", "notify"} => act[c] \in IO
  /\ \A c \in Callers : pc[c] = "batch" => batch \in Batch
  /\ \A c, e \in Callers : pc[c] = "batch" /\ pc[e] = "batch" => c = e

TypeInv == TypeOK /\ Shape

--------------------------------------------------------------------------------
(* The operators *)

(* A function over an initial segment of the naturals is a sequence. *)
LEMMA FunctionIsSeq ==
  ASSUME NEW S, NEW n \in Nat, NEW f \in [1..n -> S]
  PROVE  f \in Seq(S)
BY SeqDef

(* A queue that takes in actions is a queue of actions. *)
LEMMA QueueIOType ==
  ASSUME NEW queue \in Seq(IO), NEW D \in SUBSET Defs, NEW io \in [D -> IO],
         NEW q \in QueueIO(queue, io)
  PROVE  q \in Seq(IO)
<1>1. IsFiniteSet(D)
  BY AlarmConstants, FS_Subset
<1>2. Cardinality(D) \in Nat
  BY <1>1, FS_CardinalityType
<1>3. PICK order \in SetToSeqs(D) : q = queue \o [i \in DOMAIN order |-> io[order[i]]]
  BY DEF QueueIO
<1>4. order \in [1..Cardinality(D) -> D]
  BY DEF SetToSeqs
<1>5. [i \in DOMAIN order |-> io[order[i]]] \in Seq(IO)
  BY <1>2, <1>4
<1> QED BY <1>3, <1>5, ConcatProperties

(* Taking the actions of some pointers out leaves a queue of actions. *)
LEMMA WithoutType ==
  ASSUME NEW queue \in Seq(IO), NEW refs, NEW q \in Without(queue, refs)
  PROVE  q \in Seq(IO)
<1> DEFINE kept == {i \in DOMAIN queue : queue[i].ref \notin refs}
<1>1. IsFiniteSet(kept)
  <2>1. Len(queue) \in Nat /\ DOMAIN queue = 1..Len(queue)
    BY LenProperties
  <2>2. IsFiniteSet(1..Len(queue))
    BY <2>1, FS_Interval
  <2> QED BY <2>1, <2>2, FS_Subset
<1>2. Cardinality(kept) \in Nat
  BY <1>1, FS_CardinalityType
<1>3. PICK f \in [1..Cardinality(kept) -> kept] : q = [i \in DOMAIN f |-> queue[f[i]]]
  BY DEF Without
<1>4. \A i \in 1..Cardinality(kept) : queue[f[i]] \in IO
  BY <1>3, ElementOfSeq, LenProperties
<1> QED BY <1>2, <1>3, <1>4

(* The statements on alarm_events keep it a table. *)
LEMMA InsertType ==
  ASSUME NEW t \in Seq(Row), NEW d \in Defs, NEW trig \in Nat
  PROVE  /\ InsertActive(t, d, trig) \in Seq(Row)
         /\ InsertCleared(t, d, trig) \in Seq(Row)
         /\ InsertActiveIds(t, d) \in SUBSET Nat
         /\ InsertClearedIds(t, d, trig) \in SUBSET Nat
<1>1. Len(t) \in Nat /\ DOMAIN t = 1..Len(t)
  BY LenProperties
<1>2. /\ [def |-> d, status |-> "ACTIVE", trig |-> trig] \in Row
      /\ [def |-> d, status |-> "CLEARED", trig |-> trig] \in Row
  BY DEF Row, RowStatus
<1>3. InsertActive(t, d, trig) \in Seq(Row) /\ InsertCleared(t, d, trig) \in Seq(Row)
  BY <1>2, AppendProperties DEF InsertActive, InsertCleared
<1>4. InsertActiveIds(t, d) \in SUBSET Nat /\ InsertClearedIds(t, d, trig) \in SUBSET Nat
  BY <1>1 DEF InsertActiveIds, InsertClearedIds, OpenRows, ClosedAt
<1> QED BY <1>3, <1>4

(* An UPDATE keeps every row's place and definition. *)
LEMMA UpdateType ==
  ASSUME NEW t \in Seq(Row), NEW id, NEW ds
  PROVE  /\ MarkCleared(t, id) \in Seq(Row)
         /\ ClearOpen(t, ds) \in Seq(Row)
         /\ Acknowledge(t, id) \in Seq(Row)
<1>1. Len(t) \in Nat /\ DOMAIN t = 1..Len(t) /\ \A i \in DOMAIN t : t[i] \in Row
  BY LenProperties, ElementOfSeq
<1>2. \A i \in 1..Len(t) : \A st \in RowStatus : [t[i] EXCEPT !.status = st] \in Row
  BY <1>1 DEF Row
<1>3. {"ACKNOWLEDGED", "CLEARED"} \subseteq RowStatus
  BY DEF RowStatus
<1>4. /\ MarkCleared(t, id) \in [1..Len(t) -> Row]
      /\ ClearOpen(t, ds) \in [1..Len(t) -> Row]
      /\ Acknowledge(t, id) \in [1..Len(t) -> Row]
  BY <1>1, <1>2, <1>3 DEF MarkCleared, ClearOpen, Acknowledge
<1> QED BY <1>1, <1>4, FunctionIsSeq

(* A track that fires now, or fired earlier, is a track. *)
LEMMA FiredType ==
  ASSUME NEW r \in Refs, NEW t \in Nat, NEW u \in Nat, NEW x \in Nat
  PROVE  Fired(t, u, r, x) \in Track /\ Fired(t, u, r, x).ref = r
BY DEF Fired, Track, Phases

(* What is built from well-typed parts is well typed. *)
LEMMA ConstructorTypes ==
  ASSUME NEW d \in Defs, NEW r \in Refs, NEW t \in Nat, NEW u \in Nat, NEW x \in Nat,
         NEW b \in BOOLEAN, NEW s \in {"ACTIVE", "CLEARED"}
  PROVE  /\ MakeIO(d, s, r, t, b) \in IO
         /\ Pending(t, r) \in Track /\ Pending(t, r).phase # "none" /\ Pending(t, r).ref = r
         /\ Fired(t, u, r, x) \in Track /\ Fired(t, u, r, x).ref = r
         /\ NextRetry(t) \in Nat
         /\ RuleOf[d].delay \in Nat /\ RuleOf[d].tag \in Tags /\ RuleOf[d].deadband \in Nat
<1>1. MakeIO(d, s, r, t, b) \in IO
  BY DEF MakeIO, IO
<1>2. Pending(t, r) \in Track /\ Pending(t, r).phase # "none" /\ Pending(t, r).ref = r
  BY DEF Pending, Track, Phases
<1>3. Fired(t, u, r, x) \in Track /\ Fired(t, u, r, x).ref = r
  BY FiredType
<1>4. NextRetry(t) \in Nat
  BY AlarmConstants DEF NextRetry
<1>5. RuleOf[d].delay \in Nat /\ RuleOf[d].tag \in Tags /\ RuleOf[d].deadband \in Nat
  BY AlarmConstants DEF Rule
<1> QED BY <1>1, <1>2, <1>3, <1>4, <1>5

(* The empty values a start begins with are well typed. *)
LEMMA EmptyTypes ==
  /\ NoTrack \in Track /\ NoTrack.phase = "none"
  /\ NoSample \in Sample
  /\ NoAnchor \in Anchor
  /\ NoIO \notin IO
<1>1. NoTrack \in Track /\ NoTrack.phase = "none"
  BY DEF NoTrack, Track, Phases
<1>2. NoSample \in Sample /\ NoAnchor \in Anchor
  BY DEF NoSample, Sample, NoAnchor, Anchor
<1>3. NoIO \notin IO
  BY DEF NoIO, IO
<1> QED BY <1>1, <1>2, <1>3

(* A fired track has what its CLEARED action and its retry need. *)
LEMMA TrackActions ==
  ASSUME TypeInv, NEW d \in Defs, Tracking(d), NEW b \in BOOLEAN
  PROVE  /\ tracks[d] \in Track /\ tracks[d].ref \in Refs
         /\ tracks[d].since \in Nat /\ tracks[d].firedAt \in Nat
         /\ Clearing(d, b) \in IO /\ Retrying(d) \in IO
<1>1. /\ tracks[d] \in Track /\ tracks[d].ref \in Refs
      /\ tracks[d].since \in Nat /\ tracks[d].firedAt \in Nat
  BY DEF TypeInv, TypeOK, Shape, Tracking, Track
<1> QED BY <1>1, ConstructorTypes DEF Clearing, Retrying

(* recordGoodSample keeps samples and anchors what they are. *)
LEMMA RecordType ==
  ASSUME TypeInv, NEW tag \in Tags, NEW v \in Int, recordGoodSample(tag, v)
  PROVE  samples' \in [Tags -> Sample] /\ anchors' \in [Defs -> Anchor]
<1>1. [kept |-> TRUE, lastGood |-> now, hasValue |-> TRUE] \in Sample
  BY DEF TypeInv, TypeOK, Sample
<1>2. [kept |-> TRUE, value |-> v, since |-> now] \in Anchor
  BY DEF TypeInv, TypeOK, Anchor
<1> QED BY <1>1, <1>2 DEF recordGoodSample, TypeInv, TypeOK

(* A step that leaves Callers at well-typed places and their actions alone. *)
LEMMA GotoType ==
  ASSUME TypeInv, NEW c \in Callers, NEW place \in PCs, Goto(c, place)
  PROVE  /\ pc' \in [Callers -> PCs]
         /\ pc'[c] = place
         /\ \A e \in Callers \ {c} : pc'[e] = pc[e]
BY DEF Goto, TypeInv, TypeOK

--------------------------------------------------------------------------------
(* The steps preserve TypeInv *)

(* One reading: what evaluateAt opens, fires, drops and clears. *)
LEMMA EvaluateType ==
  ASSUME TypeInv, NEW w \in Workers, NEW tag \in Tags, NEW v \in Values,
         NEW at \in ReadingTimes, NEW life \in BOOLEAN, evaluateAt(w, tag, v, at, life)
  PROVE  TypeInv'
<1> DEFINE Opens  == {d \in ValueDefs(tag) : isConditionViolated(d, v) /\ ~Tracking(d)}
           Fires  == {d \in Opens : RuleOf[d].delay = 0}
           Drops  == {d \in ValueDefs(tag) : ~isConditionViolated(d, v) /\ tracks[d].phase = "pending"}
           Clears == {d \in ValueDefs(tag) : ~isConditionViolated(d, v) /\ Triggered(d) /\ isCleared(d, v)}
           io(ref) == [d \in Fires \cup Clears |->
                         IF d \in Fires THEN MakeIO(d, "ACTIVE", ref[d], at, TRUE) ELSE Clearing(d, TRUE)]
<1>1. PICK ref \in NewRefs(Opens) :
        /\ used' = used \cup {ref[d] : d \in Opens}
        /\ tracks' = [d \in Defs |->
             CASE d \in Fires          -> Fired(at, at, ref[d], NextRetry(at))
               [] d \in Opens \ Fires  -> Pending(at, ref[d])
               [] d \in Drops \cup Clears -> NoTrack
               [] OTHER                -> tracks[d]]
        /\ pendingIO' \in QueueIO(pendingIO, io(ref))
  BY DEF evaluateAt
<1>2. at \in Nat /\ v \in Int /\ w \in Callers
  BY AlarmConstants DEF ReadingTimes, Callers, TypeInv, TypeOK
<1>3. /\ Opens \in SUBSET Defs /\ Fires \subseteq Opens /\ Clears \in SUBSET Defs
      /\ \A d \in Clears : Tracking(d)
  BY DEF ValueDefs, DefsOf, TypeInv, TypeOK, Triggered, Tracking
<1>4. \A d \in Opens : ref[d] \in Refs
  BY DEF NewRefs
<1> HIDE DEF Opens, Fires, Drops, Clears
<1>5. used' \in SUBSET Refs /\ restored' \in SUBSET used'
  <2>1. {ref[d] : d \in Opens} \subseteq Refs
    BY <1>4
  <2>2. restored' = restored
    BY DEF evaluateAt
  <2> QED BY <1>1, <2>1, <2>2 DEF TypeInv, TypeOK
<1>6. /\ tracks' \in [Defs -> Track]
      /\ \A d \in Defs : tracks'[d].phase # "none" => tracks'[d].ref \in Refs
  <2>1. ASSUME NEW d \in Defs, d \in Opens
        PROVE  /\ Fired(at, at, ref[d], NextRetry(at)) \in Track
               /\ Pending(at, ref[d]) \in Track
               /\ Fired(at, at, ref[d], NextRetry(at)).ref \in Refs
               /\ Pending(at, ref[d]).ref \in Refs
    BY <1>2, <1>4, <2>1, ConstructorTypes
  <2>2. \A d \in Defs : tracks[d] \in Track /\ (tracks[d].phase # "none" => tracks[d].ref \in Refs)
    BY DEF TypeInv, TypeOK, Shape
  <2>3. ASSUME NEW d \in Defs
        PROVE  tracks'[d] \in Track /\ (tracks'[d].phase # "none" => tracks'[d].ref \in Refs)
    BY <1>1, <1>3, <2>1, <2>2, EmptyTypes
  <2>4. tracks' = [d \in Defs |-> tracks'[d]]
    BY <1>1
  <2> QED BY <2>3, <2>4
<1>7. pendingIO' \in Seq(IO)
  <2>1. io(ref) \in [Fires \cup Clears -> IO]
    BY <1>2, <1>3, <1>4, ConstructorTypes, TrackActions
  <2> QED BY <1>1, <1>3, <2>1, QueueIOType DEF TypeInv, TypeOK
<1>8. samples' \in [Tags -> Sample] /\ anchors' \in [Defs -> Anchor]
  BY <1>2, RecordType DEF evaluateAt, healthVars, TypeInv, TypeOK
<1>9. pc' \in [Callers -> PCs] /\ pc'[w] = "drain" /\ \A e \in Callers \ {w} : pc'[e] = pc[e]
  BY <1>2, GotoType DEF evaluateAt, PCs
<1>10. UNCHANGED <<now, rows, dbDefs, freshDefs, reload, up, definitions, ids, ioDraining, act, loaded, batch, published>>
  BY DEF evaluateAt, dbVars
<1>11. TypeOK'
  BY <1>5, <1>6, <1>7, <1>8, <1>9, <1>10 DEF TypeInv, TypeOK
<1>12. Shape'
  BY <1>6, <1>9, <1>10 DEF TypeInv, Shape
<1> QED BY <1>11, <1>12 DEF TypeInv

(* The lock is free when a batch takes it, so it is the only one. *)
LEMMA SeriesBeginType ==
  ASSUME TypeInv, NEW w \in Workers, NEW tag \in Tags, SeriesBegin(w, tag)
  PROVE  TypeInv'
<1>1. w \in Callers
  BY DEF Callers
<1>2. batch' \in Batch
  <2>1. {d \in DefsOf(tag) : Triggered(d)} \in SUBSET Defs
    BY DEF DefsOf, TypeInv, TypeOK
  <2>2. Len(pendingIO) \in Nat
    BY LenProperties DEF TypeInv, TypeOK
  <2> QED BY <2>1, <2>2 DEF SeriesBegin, Batch
<1>3. pc' \in [Callers -> PCs] /\ pc'[w] = "batch" /\ \A e \in Callers \ {w} : pc'[e] = pc[e]
  BY <1>1, GotoType DEF SeriesBegin, PCs
<1>4. TypeOK'
  BY <1>2, <1>3 DEF SeriesBegin, dbVars, trackVars, healthVars, drainVars, TypeInv, TypeOK
<1>5. Shape'
  BY <1>2, <1>3 DEF SeriesBegin, MuFree, trackVars, drainVars, TypeInv, TypeOK, Shape
<1> QED BY <1>4, <1>5 DEF TypeInv

(* One reading of a batch, with the actions it takes out of the queue. *)
LEMMA SeriesPointType ==
  ASSUME TypeInv, NEW w \in Workers, NEW v \in Values, NEW at \in ReadingTimes, SeriesPoint(w, v, at)
  PROVE  TypeInv'
<1> DEFINE D      == ValueDefs(batch.tag)
           Opens  == {d \in D : isConditionViolated(d, v) /\ ~Tracking(d)}
           Since(d) == IF d \in Opens THEN at ELSE tracks[d].since
           Fires  == {d \in D : /\ isConditionViolated(d, v) /\ ~Triggered(d)
                                /\ at - Since(d) >= RuleOf[d].delay}
           Drops  == {d \in D : ~isConditionViolated(d, v) /\ tracks[d].phase = "pending"}
           Ends   == {d \in D : ~isConditionViolated(d, v) /\ Triggered(d) /\ isCleared(d, v)}
           Zero   == {d \in Ends : at <= tracks[d].firedAt}
           Ref(new, d) == IF d \in Opens THEN new[d] ELSE tracks[d].ref
           FiredAt(d) == Since(d) + RuleOf[d].delay
           io(new) == [d \in Fires \cup (Ends \ Zero) |->
                         IF d \in Fires THEN MakeIO(d, "ACTIVE", Ref(new, d), FiredAt(d), FALSE)
                                        ELSE Clearing(d, d \in batch.known)]
<1>1. PICK new \in NewRefs(Opens), kept \in Without(pendingIO, {tracks[d].ref : d \in Zero}) :
        /\ used' = used \cup {new[d] : d \in Opens}
        /\ tracks' = [d \in Defs |->
             CASE d \in Fires         -> Fired(Since(d), FiredAt(d), Ref(new, d), NextRetry(now))
               [] d \in Opens \ Fires -> Pending(at, new[d])
               [] d \in Drops \cup Ends -> NoTrack
               [] OTHER               -> tracks[d]]
        /\ pendingIO' \in QueueIO(kept, io(new))
  BY DEF SeriesPoint
<1>2. at \in Nat /\ v \in Int /\ w \in Callers /\ now \in Nat /\ batch \in Batch
  BY AlarmConstants DEF ReadingTimes, Callers, TypeInv, TypeOK, Shape, SeriesPoint
<1>3. /\ Opens \in SUBSET Defs /\ Fires \in SUBSET Defs /\ Ends \in SUBSET Defs
      /\ \A d \in Ends : Tracking(d)
      /\ \A d \in Fires \ Opens : Tracking(d)
  BY DEF ValueDefs, DefsOf, TypeInv, TypeOK, Triggered, Tracking
<1>4. \A d \in Opens : new[d] \in Refs
  BY DEF NewRefs
<1>5. kept \in Seq(IO)
  BY WithoutType DEF TypeInv, TypeOK
<1> HIDE DEF Opens, Fires, Drops, Ends, Zero
<1>6. ASSUME NEW d \in Fires
      PROVE  Since(d) \in Nat /\ FiredAt(d) \in Nat /\ Ref(new, d) \in Refs
  <2>1. Since(d) \in Nat /\ Ref(new, d) \in Refs
    BY <1>2, <1>3, <1>4, TrackActions
  <2> QED BY <1>3, <2>1, AlarmConstants DEF Rule
<1> HIDE DEF Since, FiredAt, Ref
<1>7. used' \in SUBSET Refs /\ restored' \in SUBSET used'
  <2>1. {new[d] : d \in Opens} \subseteq Refs
    BY <1>4
  <2>2. restored' = restored
    BY DEF SeriesPoint
  <2> QED BY <1>1, <2>1, <2>2 DEF TypeInv, TypeOK
<1>8. /\ tracks' \in [Defs -> Track]
      /\ \A d \in Defs : tracks'[d].phase # "none" => tracks'[d].ref \in Refs
  <2>1. ASSUME NEW d \in Fires
        PROVE  /\ Fired(Since(d), FiredAt(d), Ref(new, d), NextRetry(now)) \in Track
               /\ Fired(Since(d), FiredAt(d), Ref(new, d), NextRetry(now)).ref \in Refs
    <3>1. NextRetry(now) \in Nat
      BY <1>2, AlarmConstants DEF NextRetry
    <3> QED BY <1>6, <3>1, FiredType
  <2>2. ASSUME NEW d \in Opens
        PROVE  Pending(at, new[d]) \in Track /\ Pending(at, new[d]).ref \in Refs
    BY <1>2, <1>3, <1>4, ConstructorTypes
  <2>3. \A d \in Defs : tracks[d] \in Track /\ (tracks[d].phase # "none" => tracks[d].ref \in Refs)
    BY DEF TypeInv, TypeOK, Shape
  <2>4. ASSUME NEW d \in Defs
        PROVE  tracks'[d] \in Track /\ (tracks'[d].phase # "none" => tracks'[d].ref \in Refs)
    BY <1>1, <1>3, <2>1, <2>2, <2>3, EmptyTypes
  <2>5. tracks' = [d \in Defs |-> tracks'[d]]
    BY <1>1
  <2> QED BY <2>4, <2>5
<1>9. pendingIO' \in Seq(IO)
  <2>1. ASSUME NEW d \in Fires PROVE MakeIO(d, "ACTIVE", Ref(new, d), FiredAt(d), FALSE) \in IO
    BY <1>3, <1>6, ConstructorTypes
  <2>2. ASSUME NEW d \in Ends PROVE Clearing(d, d \in batch.known) \in IO
    <3>1. (d \in batch.known) \in BOOLEAN
      OBVIOUS
    <3> QED BY <1>3, <3>1, TrackActions
  <2>3. io(new) \in [Fires \cup (Ends \ Zero) -> IO]
    BY <2>1, <2>2
  <2>4. Fires \cup (Ends \ Zero) \in SUBSET Defs
    BY <1>3
  <2> HIDE DEF io
  <2> QED BY <1>1, <1>5, <2>3, <2>4, QueueIOType
<1>10. batch' \in Batch
  <2>1. batch.read + 1 \in Nat
    BY <1>2 DEF Batch
  <2> QED BY <1>2, <2>1 DEF SeriesPoint, Batch
<1>11. UNCHANGED <<now, rows, dbDefs, freshDefs, reload, up, definitions, ids, samples, anchors,
                   ioDraining, act, pc, loaded, published>>
  BY DEF SeriesPoint, dbVars, healthVars
<1>12. TypeOK'
  BY <1>7, <1>8, <1>9, <1>10, <1>11 DEF TypeInv, TypeOK
<1>13. Shape'
  BY <1>8, <1>10, <1>11 DEF TypeInv, Shape
<1> QED BY <1>12, <1>13 DEF TypeInv

(* The end of a batch settles its notifications and frees the lock. *)
LEMMA SeriesEndType ==
  ASSUME TypeInv, NEW w \in Workers, SeriesEnd(w)
  PROVE  TypeInv'
<1>1. w \in Callers
  BY DEF Callers
<1>2. batch \in Batch
  BY <1>1 DEF SeriesEnd, TypeInv, Shape
<1>3. pendingIO' \in Seq(IO)
  <2>1. Len(pendingIO) \in Nat /\ DOMAIN pendingIO = 1..Len(pendingIO)
    BY LenProperties DEF TypeInv, TypeOK
  <2>2. \A i \in 1..Len(pendingIO) : pendingIO[i] \in IO
    BY ElementOfSeq DEF TypeInv, TypeOK
  <2>3. \A i \in 1..Len(pendingIO) : [pendingIO[i] EXCEPT !.notify = TRUE] \in IO
    BY <2>2 DEF IO
  <2>4. pendingIO' \in [1..Len(pendingIO) -> IO]
    BY <2>1, <2>2, <2>3 DEF SeriesEnd
  <2> QED BY <2>1, <2>4, FunctionIsSeq
<1>4. samples' \in [Tags -> Sample] /\ anchors' \in [Defs -> Anchor]
  BY <1>2, RecordType DEF SeriesEnd, Batch
<1>5. pc' \in [Callers -> PCs] /\ pc'[w] = "drain" /\ \A e \in Callers \ {w} : pc'[e] = pc[e]
  BY <1>1, GotoType DEF SeriesEnd, PCs
<1>6. TypeOK'
  BY <1>3, <1>4, <1>5 DEF SeriesEnd, dbVars, trackVars, TypeInv, TypeOK
<1>7. Shape'
  BY <1>1, <1>5 DEF SeriesEnd, trackVars, TypeInv, TypeOK, Shape
<1> QED BY <1>6, <1>7 DEF TypeInv

(* A tick: delays, retries and health rules. *)
LEMMA TickType ==
  ASSUME TypeInv, tickDelays
  PROVE  TypeInv'
<1> DEFINE Fires   == {d \in Defs : tracks[d].phase = "pending" /\ now - tracks[d].since >= RuleOf[d].delay}
           Retries == {d \in Defs : Triggered(d) /\ ids[tracks[d].ref] = 0 /\ now >= tracks[d].retryAt}
           Judged  == {d \in definitions : isHealthAlarm(d) /\ samples[RuleOf[d].tag].kept}
           Raises  == {d \in Judged : HealthViolated(d) /\ ~Tracking(d)}
           Ends    == {d \in Judged : ~HealthViolated(d) /\ Tracking(d)}
           FiredAt(d) == tracks[d].since + RuleOf[d].delay
           delayIO == [d \in Fires \cup Retries |->
             IF d \in Fires THEN MakeIO(d, "ACTIVE", tracks[d].ref, FiredAt(d), TRUE) ELSE Retrying(d)]
           healthIO(ref) == [d \in Raises \cup Ends |->
             IF d \in Raises THEN Raising(d, ref[d]) ELSE Clearing(d, TRUE)]
<1>1. PICK ref \in NewRefs(Raises) :
        /\ used' = used \cup {ref[d] : d \in Raises}
        /\ tracks' = [d \in Defs |->
             CASE d \in Fires         -> Fired(tracks[d].since, FiredAt(d), tracks[d].ref, NextRetry(now))
               [] d \in Retries \ Ends -> [tracks[d] EXCEPT !.retryAt = NextRetry(now)]
               [] d \in Raises        -> Fired(now, now, ref[d], NextRetry(now))
               [] d \in Ends          -> NoTrack
               [] OTHER               -> tracks[d]]
        /\ \E queue \in QueueIO(pendingIO, delayIO) : pendingIO' \in QueueIO(queue, healthIO(ref))
  BY DEF tickDelays
<1>2. now \in Nat /\ NextRetry(now) \in Nat /\ Ticker \in Callers
  BY AlarmConstants DEF Callers, TypeInv, TypeOK, NextRetry
<1>3. /\ Fires \in SUBSET Defs /\ Retries \in SUBSET Defs
      /\ Raises \in SUBSET Defs /\ Ends \in SUBSET Defs
      /\ \A d \in Fires \cup Retries \cup Ends : Tracking(d)
  BY DEF TypeInv, TypeOK, Triggered, Tracking
<1>4. \A d \in Raises : ref[d] \in Refs
  BY DEF NewRefs
<1> HIDE DEF Fires, Retries, Raises, Ends
<1>5. \A d \in Fires : FiredAt(d) \in Nat /\ tracks[d].since \in Nat /\ tracks[d].ref \in Refs
  <2>1. \A d \in Fires : tracks[d].since \in Nat /\ tracks[d].ref \in Refs
    BY <1>3 DEF Tracking, TypeInv, TypeOK, Shape, Track
  <2>2. \A d \in Fires : RuleOf[d].delay \in Nat
    BY <1>3, AlarmConstants DEF Rule
  <2> QED BY <2>1, <2>2
<1> HIDE DEF FiredAt
<1>6. used' \in SUBSET Refs /\ restored' \in SUBSET used'
  <2>1. {ref[d] : d \in Raises} \subseteq Refs
    BY <1>4
  <2>2. restored' = restored
    BY DEF tickDelays
  <2> QED BY <1>1, <2>1, <2>2 DEF TypeInv, TypeOK
<1>7. /\ tracks' \in [Defs -> Track]
      /\ \A d \in Defs : tracks'[d].phase # "none" => tracks'[d].ref \in Refs
  <2>1. ASSUME NEW d \in Fires
        PROVE  /\ Fired(tracks[d].since, FiredAt(d), tracks[d].ref, NextRetry(now)) \in Track
               /\ Fired(tracks[d].since, FiredAt(d), tracks[d].ref, NextRetry(now)).ref \in Refs
    BY <1>2, <1>5, FiredType
  <2>2. ASSUME NEW d \in Raises
        PROVE  /\ Fired(now, now, ref[d], NextRetry(now)) \in Track
               /\ Fired(now, now, ref[d], NextRetry(now)).ref \in Refs
    BY <1>2, <1>4, FiredType
  <2>3. ASSUME NEW d \in Retries
        PROVE  /\ [tracks[d] EXCEPT !.retryAt = NextRetry(now)] \in Track
               /\ [tracks[d] EXCEPT !.retryAt = NextRetry(now)].ref \in Refs
    BY <1>2, <1>3, TrackActions DEF Track
  <2>4. \A d \in Defs : tracks[d] \in Track /\ (tracks[d].phase # "none" => tracks[d].ref \in Refs)
    BY DEF TypeInv, TypeOK, Shape
  <2>5. ASSUME NEW d \in Defs
        PROVE  tracks'[d] \in Track /\ (tracks'[d].phase # "none" => tracks'[d].ref \in Refs)
    BY <1>1, <2>1, <2>2, <2>3, <2>4, EmptyTypes
  <2>6. tracks' = [d \in Defs |-> tracks'[d]]
    BY <1>1
  <2> QED BY <2>5, <2>6
<1>8. pendingIO' \in Seq(IO)
  <2>1. ASSUME NEW d \in Fires PROVE MakeIO(d, "ACTIVE", tracks[d].ref, FiredAt(d), TRUE) \in IO
    BY <1>3, <1>5, TrackActions, ConstructorTypes
  <2>2. ASSUME NEW d \in Retries PROVE Retrying(d) \in IO
    BY <1>3, TrackActions
  <2>3. ASSUME NEW d \in Raises PROVE Raising(d, ref[d]) \in IO
    BY <1>2, <1>3, <1>4, ConstructorTypes DEF Raising
  <2>4. ASSUME NEW d \in Ends PROVE Clearing(d, TRUE) \in IO
    BY <1>3, TrackActions
  <2>5. delayIO \in [Fires \cup Retries -> IO] /\ healthIO(ref) \in [Raises \cup Ends -> IO]
    BY <2>1, <2>2, <2>3, <2>4
  <2>6. Fires \cup Retries \in SUBSET Defs /\ Raises \cup Ends \in SUBSET Defs
    BY <1>3
  <2> HIDE DEF delayIO, healthIO
  <2>7. PICK queue \in QueueIO(pendingIO, delayIO) : pendingIO' \in QueueIO(queue, healthIO(ref))
    BY <1>1
  <2>8. queue \in Seq(IO)
    BY <2>5, <2>6, QueueIOType DEF TypeInv, TypeOK
  <2> QED BY <2>5, <2>6, <2>7, <2>8, QueueIOType
<1>9. samples' \in [Tags -> Sample]
  <2>1. [kept |-> TRUE, lastGood |-> now, hasValue |-> FALSE] \in Sample
    BY <1>2 DEF Sample
  <2> QED BY <2>1 DEF tickDelays, TypeInv, TypeOK
<1>10. pc' \in [Callers -> PCs] /\ pc'[Ticker] = "drain" /\ \A e \in Callers \ {Ticker} : pc'[e] = pc[e]
  BY <1>2, GotoType DEF tickDelays, PCs
<1>11. UNCHANGED <<now, rows, dbDefs, freshDefs, reload, up, definitions, ids, anchors,
                   ioDraining, act, loaded, batch, published>>
  BY DEF tickDelays, dbVars
<1>12. TypeOK'
  BY <1>6, <1>7, <1>8, <1>9, <1>10, <1>11 DEF TypeInv, TypeOK
<1>13. Shape'
  BY <1>7, <1>10, <1>11 DEF TypeInv, Shape
<1> QED BY <1>12, <1>13 DEF TypeInv

(* The query of a reload. *)
LEMMA LoadQueryType ==
  ASSUME TypeInv, LoadQuery
  PROVE  TypeInv'
<1>1. Reloader \in Callers
  BY DEF Callers
<1>2. /\ pc' \in [Callers -> PCs]
      /\ \A e \in Callers : pc'[e] = pc[e] \/ pc'[e] = "loaded"
  BY <1>1 DEF LoadQuery, Goto, PCs, TypeInv, TypeOK
<1>3. loaded' \in SUBSET Defs
  BY DEF LoadQuery, TypeInv, TypeOK
<1>4. TypeOK'
  BY <1>2, <1>3 DEF LoadQuery, trackVars, healthVars, drainVars, TypeInv, TypeOK
<1>5. Shape'
  BY <1>2 DEF LoadQuery, trackVars, drainVars, TypeInv, TypeOK, Shape
<1> QED BY <1>4, <1>5 DEF TypeInv

(* A reload drops tracks; a fired one has what its CLEARED action needs. *)
LEMMA LoadApplyType ==
  ASSUME TypeInv, LoadApply
  PROVE  TypeInv'
<1> DEFINE Gone == {d \in Defs : Tracking(d) /\ d \notin loaded}
           Clears == {e \in Gone : Triggered(e)}
<1>1. Reloader \in Callers
  BY DEF Callers
<1>2. pc' \in [Callers -> PCs] /\ pc'[Reloader] = "drain" /\ \A e \in Callers \ {Reloader} : pc'[e] = pc[e]
  BY <1>1, GotoType DEF LoadApply, PCs
<1>3. samples' \in [Tags -> Sample] /\ anchors' \in [Defs -> Anchor]
  BY EmptyTypes DEF LoadApply, TypeInv, TypeOK
<1>4. /\ tracks' \in [Defs -> Track]
      /\ \A d \in Defs : tracks'[d].phase # "none" => tracks'[d].ref \in Refs
  BY EmptyTypes DEF LoadApply, TypeInv, TypeOK, Shape
<1>5. pendingIO' \in Seq(IO)
  <2>1. pendingIO' \in QueueIO(pendingIO, [d \in Clears |-> Clearing(d, TRUE)])
    BY DEF LoadApply
  <2>2. Clears \in SUBSET Defs /\ \A d \in Clears : Tracking(d)
    OBVIOUS
  <2> HIDE DEF Clears
  <2>3. [d \in Clears |-> Clearing(d, TRUE)] \in [Clears -> IO]
    BY <2>2, TrackActions
  <2> QED BY <2>1, <2>2, <2>3, QueueIOType DEF TypeInv, TypeOK
<1>6. TypeOK'
  BY <1>2, <1>3, <1>4, <1>5 DEF LoadApply, dbVars, TypeInv, TypeOK
<1>7. Shape'
  BY <1>2, <1>4 DEF LoadApply, TypeInv, TypeOK, Shape
<1> QED BY <1>6, <1>7 DEF TypeInv

(* drainIO takes an action only from a queue that holds one. *)
LEMMA DrainType ==
  ASSUME TypeInv, NEW c \in Callers, DrainBusy(c) \/ DrainTake(c) \/ DrainDone(c) \/ Notify(c)
  PROVE  TypeInv'
<1>1. CASE DrainBusy(c)
  <2>1. pc' \in [Callers -> PCs] /\ pc'[c] = "idle" /\ \A e \in Callers \ {c} : pc'[e] = pc[e]
    BY <1>1, GotoType DEF DrainBusy, PCs
  <2>2. TypeOK'
    BY <1>1, <2>1 DEF DrainBusy, dbVars, trackVars, healthVars, drainVars, TypeInv, TypeOK
  <2>3. Shape'
    BY <1>1, <2>1 DEF DrainBusy, trackVars, drainVars, TypeInv, TypeOK, Shape
  <2> QED BY <2>2, <2>3 DEF TypeInv
<1>2. CASE DrainTake(c)
  <2>1. pc' \in [Callers -> PCs] /\ pc'[c] = "exec" /\ \A e \in Callers \ {c} : pc'[e] = pc[e]
    BY <1>2, GotoType DEF DrainTake, PCs
  <2>2. Head(pendingIO) \in IO /\ Tail(pendingIO) \in Seq(IO)
    BY <1>2, HeadTailProperties DEF DrainTake, TypeInv, TypeOK
  <2>3. act' \in [Callers -> IO \cup {NoIO}] /\ act'[c] \in IO /\ \A e \in Callers \ {c} : act'[e] = act[e]
    BY <1>2, <2>2 DEF DrainTake, TypeInv, TypeOK
  <2>4. TypeOK'
    BY <1>2, <2>1, <2>2, <2>3 DEF DrainTake, dbVars, trackVars, healthVars, TypeInv, TypeOK
  <2>5. Shape'
    BY <1>2, <2>1, <2>3, ZenonT(40) DEF DrainTake, trackVars, TypeInv, TypeOK, Shape
  <2> QED BY <2>4, <2>5 DEF TypeInv
<1>3. CASE DrainDone(c)
  <2>1. pc' \in [Callers -> PCs] /\ pc'[c] = "idle" /\ \A e \in Callers \ {c} : pc'[e] = pc[e]
    BY <1>3, GotoType DEF DrainDone, PCs
  <2>2. act' \in [Callers -> IO \cup {NoIO}] /\ \A e \in Callers \ {c} : act'[e] = act[e]
    BY <1>3 DEF DrainDone, TypeInv, TypeOK
  <2>3. TypeOK'
    BY <1>3, <2>1, <2>2 DEF DrainDone, dbVars, trackVars, healthVars, TypeInv, TypeOK
  <2>4. Shape'
    BY <1>3, <2>1, <2>2, SMTT(20) DEF DrainDone, trackVars, TypeInv, TypeOK, Shape
  <2> QED BY <2>3, <2>4 DEF TypeInv
<1>4. CASE Notify(c)
  <2>1. pc' \in [Callers -> PCs] /\ pc'[c] = "loop" /\ \A e \in Callers \ {c} : pc'[e] = pc[e]
    BY <1>4, GotoType DEF Notify, PCs
  <2>2. act[c] \in IO
    BY <1>4 DEF Notify, TypeInv, Shape
  <2>3. [ref |-> act[c].ref, def |-> act[c].def, status |-> act[c].status,
         id |-> ids[act[c].ref], at |-> now] \in Event
    BY <2>2 DEF IO, Event, TypeInv, TypeOK
  <2>4. published' \in Seq(Event)
    BY <1>4, <2>3, AppendProperties DEF Notify, TypeInv, TypeOK
  <2>5. TypeOK'
    BY <1>4, <2>1, <2>4 DEF Notify, dbVars, trackVars, healthVars, drainVars, TypeInv, TypeOK
  <2>6. Shape'
    BY <1>4, <2>1 DEF Notify, trackVars, drainVars, TypeInv, TypeOK, Shape
  <2> QED BY <2>5, <2>6 DEF TypeInv
<1> QED BY <1>1, <1>2, <1>3, <1>4

(* executeIO has an action, so its pointer and its definition are there. *)
LEMMA PersistType ==
  ASSUME TypeInv, NEW c \in Callers, PersistActive(c) \/ PersistCleared(c)
  PROVE  TypeInv'
<1>1. act[c] \in IO /\ pc[c] = "exec"
  BY DEF PersistActive, PersistCleared, TypeInv, Shape
<1>2. act[c].def \in Defs /\ act[c].ref \in Refs /\ act[c].trig \in Nat /\ act[c].notify \in BOOLEAN
  BY <1>1 DEF IO
<1>3. rows' \in Seq(Row) /\ ids' \in [Refs -> Nat]
  <2>1. /\ InsertActive(rows, act[c].def, act[c].trig) \in Seq(Row)
        /\ InsertCleared(rows, act[c].def, act[c].trig) \in Seq(Row)
        /\ MarkCleared(rows, ids[act[c].ref]) \in Seq(Row)
        /\ InsertActiveIds(rows, act[c].def) \in SUBSET Nat
        /\ InsertClearedIds(rows, act[c].def, act[c].trig) \in SUBSET Nat
    BY <1>2, InsertType, UpdateType DEF TypeInv, TypeOK
  <2>2. rows \in Seq(Row) /\ ids \in [Refs -> Nat]
    BY DEF TypeInv, TypeOK
  <2>3. CASE PersistActive(c)
    BY <1>2, <2>1, <2>2, <2>3 DEF PersistActive
  <2>4. CASE PersistCleared(c)
    BY <1>2, <2>1, <2>2, <2>4 DEF PersistCleared
  <2> QED BY <2>3, <2>4
<1>4. /\ pc' \in [Callers -> PCs] /\ pc'[c] \in {"notify", "loop"}
      /\ \A e \in Callers \ {c} : pc'[e] = pc[e]
  BY DEF PersistActive, PersistCleared, Persisted, Goto, PCs, TypeInv, TypeOK
<1>5. TypeOK'
  BY <1>3, <1>4 DEF PersistActive, PersistCleared, trackVars, healthVars, drainVars, TypeInv, TypeOK
<1>6. Shape'
  BY <1>1, <1>4 DEF PersistActive, PersistCleared, trackVars, drainVars, TypeInv, TypeOK, Shape
<1> QED BY <1>5, <1>6 DEF TypeInv

(* A crash leaves what Init would. *)
LEMMA CrashType ==
  ASSUME TypeInv, Crash
  PROVE  TypeInv'
<1>1. TypeOK'
  BY EmptyTypes, EmptySeq DEF Crash, PCs, TypeInv, TypeOK
<1>2. Shape'
  BY EmptyTypes DEF Crash, TypeInv, TypeOK, Shape
<1> QED BY <1>1, <1>2 DEF TypeInv

(* A start takes up rows that are in the table. *)
LEMMA NewManagerType ==
  ASSUME TypeInv, NewManager
  PROVE  TypeInv'
<1>1. definitions' \in SUBSET Defs
  BY DEF NewManager, TypeInv, TypeOK
<1>2. PICK D \in {{d \in definitions' : RestorableRows(d) # {}}}
                    \cup (IF "query" \in Env THEN {{}} ELSE {}) :
      \E ref \in NewRefs(D), row \in [D -> DOMAIN rows] :
       /\ \A d \in D : row[d] \in RestorableRows(d)
       /\ tracks' = [d \in Defs |->
            IF d \in D THEN Fired(rows[row[d]].trig, rows[row[d]].trig, ref[d], 0) ELSE NoTrack]
       /\ ids' = [r \in Refs |-> IF \E d \in D : ref[d] = r THEN row[CHOOSE d \in D : ref[d] = r] ELSE ids[r]]
       /\ used' = used \cup {ref[d] : d \in D}
       /\ restored' = restored \cup {ref[d] : d \in D}
  BY DEF NewManager
<1>3. D \in SUBSET Defs
  BY <1>1
<1>4. PICK ref \in NewRefs(D), row \in [D -> DOMAIN rows] :
       /\ \A d \in D : row[d] \in RestorableRows(d)
       /\ tracks' = [d \in Defs |->
            IF d \in D THEN Fired(rows[row[d]].trig, rows[row[d]].trig, ref[d], 0) ELSE NoTrack]
       /\ ids' = [r \in Refs |-> IF \E d \in D : ref[d] = r THEN row[CHOOSE d \in D : ref[d] = r] ELSE ids[r]]
       /\ used' = used \cup {ref[d] : d \in D}
       /\ restored' = restored \cup {ref[d] : d \in D}
  BY <1>2
<1>5. \A d \in D : ref[d] \in Refs
  BY DEF NewRefs
<1>6. DOMAIN rows \subseteq Nat /\ \A i \in DOMAIN rows : rows[i] \in Row
  <2>1. Len(rows) \in Nat /\ DOMAIN rows = 1..Len(rows)
    BY LenProperties DEF TypeInv, TypeOK
  <2>2. \A i \in 1..Len(rows) : rows[i] \in Row
    BY ElementOfSeq DEF TypeInv, TypeOK
  <2> QED BY <2>1, <2>2
<1>7. used' \in SUBSET Refs /\ restored' \in SUBSET used'
  <2>1. {ref[d] : d \in D} \subseteq Refs
    BY <1>5
  <2> QED BY <1>4, <2>1 DEF TypeInv, TypeOK
<1>8. /\ tracks' \in [Defs -> Track]
      /\ \A d \in Defs : tracks'[d].phase # "none" => tracks'[d].ref \in Refs
  <2>1. \A d \in D : rows[row[d]].trig \in Nat
    BY <1>4, <1>6 DEF Row
  <2>2. \A d \in D : LET f == Fired(rows[row[d]].trig, rows[row[d]].trig, ref[d], 0)
                     IN  f \in Track /\ f.ref \in Refs
    BY <1>5, <2>1, FiredType
  <2> QED BY <1>4, <2>2, EmptyTypes
<1>9. ids' \in [Refs -> Nat]
  <2>1. ASSUME NEW r \in Refs, \E d \in D : ref[d] = r
        PROVE  row[CHOOSE d \in D : ref[d] = r] \in Nat
    <3>1. (CHOOSE d \in D : ref[d] = r) \in D
      BY <2>1
    <3> QED BY <1>6, <3>1
  <2> QED BY <1>4, <2>1 DEF TypeInv, TypeOK
<1>10. TypeOK'
  BY <1>1, <1>7, <1>8, <1>9 DEF NewManager, dbVars, healthVars, drainVars, TypeInv, TypeOK
<1>11. Shape'
  BY <1>8 DEF NewManager, drainVars, TypeInv, TypeOK, Shape
<1> QED BY <1>10, <1>11 DEF TypeInv

(* The operator changes rows, definitions and the clock. *)
LEMMA OperatorType ==
  ASSUME TypeInv, OperatorNext \/ AdvanceClock
  PROVE  TypeInv'
<1>1. ASSUME NEW tag \in Tags, NEW new \in SUBSET Defs, SaveTagAlarmConfig(tag, new)
      PROVE  TypeInv'
  <2> DEFINE old == {d \in Defs : RuleOf[d].tag = tag}
  <2>1. rows' = ClearOpen(rows, old) /\ dbDefs' = (dbDefs \ old) \cup new /\ freshDefs' = freshDefs \ new
    BY <1>1 DEF SaveTagAlarmConfig
  <2>2. rows' \in Seq(Row)
    BY <2>1, UpdateType DEF TypeInv, TypeOK
  <2> HIDE DEF old
  <2>3. TypeOK'
    BY <1>1, <2>1, <2>2 DEF SaveTagAlarmConfig, trackVars, healthVars, drainVars, TypeInv, TypeOK
  <2>4. Shape'
    BY <1>1 DEF SaveTagAlarmConfig, trackVars, drainVars, TypeInv, Shape
  <2> QED BY <2>3, <2>4 DEF TypeInv
<1>2. ASSUME NEW id \in DOMAIN rows, AcknowledgeAlarm(id)
      PROVE  TypeInv'
  <2>1. Acknowledge(rows, id) \in Seq(Row)
    BY UpdateType DEF TypeInv, TypeOK
  <2>2. TypeOK'
    BY <1>2, <2>1 DEF AcknowledgeAlarm, trackVars, healthVars, drainVars, TypeInv, TypeOK
  <2>3. Shape'
    BY <1>2 DEF AcknowledgeAlarm, trackVars, drainVars, TypeInv, Shape
  <2> QED BY <2>2, <2>3 DEF TypeInv
<1>3. ASSUME AdvanceClock
      PROVE  TypeInv'
  <2>1. TypeOK'
    BY <1>3 DEF AdvanceClock, dbVars, trackVars, healthVars, drainVars, TypeInv, TypeOK
  <2>2. Shape'
    BY <1>3 DEF AdvanceClock, trackVars, drainVars, TypeInv, Shape
  <2> QED BY <2>1, <2>2 DEF TypeInv
<1> QED BY <1>1, <1>2, <1>3 DEF OperatorNext

--------------------------------------------------------------------------------
(* Types *)

(* No step breaks TypeInv. *)
LEMMA TypeInvStep ==
  ASSUME TypeInv, [Next]_vars
  PROVE  TypeInv'
<1>1. ASSUME NEW w \in Workers, WorkerStep(w) PROVE TypeInv'
  BY <1>1, EvaluateType, SeriesBeginType, SeriesPointType, SeriesEndType DEF WorkerStep, BatchStep
<1>2. ASSUME NEW c \in Callers, DrainStep(c) PROVE TypeInv'
  BY <1>2, DrainType, PersistType DEF DrainStep
<1>3. ASSUME ManagerNext PROVE TypeInv'
  BY <1>1, <1>2, <1>3, TickType, LoadQueryType, LoadApplyType, CrashType, NewManagerType DEF ManagerNext
<1>4. CASE UNCHANGED vars
  <2>1. TypeOK'
    BY <1>4 DEF vars, dbVars, trackVars, healthVars, drainVars, TypeInv, TypeOK
  <2>2. Shape'
    BY <1>4 DEF vars, trackVars, drainVars, TypeInv, Shape
  <2> QED BY <2>1, <2>2 DEF TypeInv
<1> QED BY <1>3, <1>4, OperatorType DEF Next

(* The initial state has TypeInv. *)
LEMMA TypeInvInit ==
  ASSUME Init
  PROVE  TypeInv
<1>1. TypeOK
  BY AlarmConstants, EmptyTypes, EmptySeq DEF Init, TypeOK, PCs
<1>2. Shape
  BY EmptyTypes DEF Init, Shape
<1> QED BY <1>1, <1>2 DEF TypeInv

(* TypeInv is invariant; every later proof starts from it. *)
LEMMA TypeInvHolds == Spec => []TypeInv
BY TypeInvInit, TypeInvStep, PTL DEF Spec

(***************************************************************************)
(* TypeOK, of every step of the manager and of its environment: no insert  *)
(* or clear is executed without its action, no track fires without its     *)
(* pointer, no reading is judged outside its batch, and no retry falls     *)
(* before the clock's origin.                                              *)
(***************************************************************************)
THEOREM TypeCorrect == Spec => []TypeOK
<1>1. TypeInv => TypeOK
  BY DEF TypeInv
<1> QED BY <1>1, TypeInvHolds, PTL

--------------------------------------------------------------------------------
(* The drainer *)

(* The flag and the queue keep each other honest: only together are the    *)
(* two inductive.                                                          *)
DrainInv == SingleDrainer /\ NoStrandedIO

(* A goroutine that is not draining goes where it sees to the queue. *)
LEMMA EnterDrain ==
  ASSUME TypeInv, DrainInv, NEW c \in Callers, ~Draining(c),
         NEW place \in {"drain", "batch"}, Goto(c, place), ioDraining' = ioDraining
  PROVE  DrainInv'
<1>1. place \in PCs
  BY DEF PCs
<1>2. pc' \in [Callers -> PCs] /\ pc'[c] = place /\ \A e \in Callers \ {c} : pc'[e] = pc[e]
  BY <1>1, GotoType
<1>3. \A e \in Callers : Draining(e)' <=> Draining(e)
  BY <1>2 DEF Draining
<1>4. SingleDrainer'
  BY <1>3 DEF DrainInv, SingleDrainer
<1>5. NoStrandedIO'
  BY <1>2 DEF NoStrandedIO
<1> QED BY <1>4, <1>5 DEF DrainInv

(* A step that moves nobody, and leaves the queue empty if it is. *)
LEMMA StayPut ==
  ASSUME DrainInv, ioDraining' = ioDraining, pc' = pc,
         pendingIO' = pendingIO \/ \E c \in Callers : pc[c] = "batch"
  PROVE  DrainInv'
<1>1. \A e \in Callers : Draining(e)' <=> Draining(e)
  BY DEF Draining
<1>2. SingleDrainer'
  BY <1>1 DEF DrainInv, SingleDrainer
<1>3. NoStrandedIO'
  BY <1>1 DEF DrainInv, NoStrandedIO
<1> QED BY <1>2, <1>3 DEF DrainInv

(* A step of the drainer itself that leaves it draining. *)
LEMMA KeepDraining ==
  ASSUME TypeInv, DrainInv, NEW c \in Callers, Draining(c), NEW place \in {"exec", "notify", "loop"},
         Goto(c, place), ioDraining' = ioDraining
  PROVE  DrainInv'
<1>1. place \in PCs
  BY DEF PCs
<1>2. pc' \in [Callers -> PCs] /\ pc'[c] = place /\ \A e \in Callers \ {c} : pc'[e] = pc[e]
  BY <1>1, GotoType
<1>3. \A e \in Callers : Draining(e)' <=> Draining(e)
  BY <1>2 DEF Draining
<1>4. SingleDrainer'
  BY <1>3 DEF DrainInv, SingleDrainer
<1>5. NoStrandedIO'
  BY <1>2 DEF NoStrandedIO, Draining
<1> QED BY <1>4, <1>5 DEF DrainInv

(* The goroutine that finds the flag free, or has set it, is alone. *)
LEMMA AtQueueAlone ==
  ASSUME DrainInv, NEW c \in Callers, AtQueue(c), NEW e \in Callers, Draining(e)
  PROVE  e = c
BY DEF DrainInv, SingleDrainer, AtQueue, Draining

(* No step breaks DrainInv: one case per action. *)
LEMMA DrainInvStep ==
  ASSUME TypeInv, DrainInv, [Next]_vars
  PROVE  DrainInv'
<1>1. ASSUME NEW w \in Workers, WorkerStep(w) PROVE DrainInv'
  <2>1. w \in Callers
    BY DEF Callers
  <2>2. ASSUME NEW tag, NEW v, NEW at, NEW life, evaluateAt(w, tag, v, at, life) PROVE DrainInv'
    BY <2>1, <2>2, EnterDrain DEF evaluateAt, Draining
  <2>3. ASSUME NEW tag, SeriesBegin(w, tag) PROVE DrainInv'
    BY <2>1, <2>3, EnterDrain DEF SeriesBegin, Draining, drainVars
  <2>4. ASSUME NEW v, NEW at, SeriesPoint(w, v, at) PROVE DrainInv'
    BY <2>1, <2>4, StayPut DEF SeriesPoint
  <2>5. ASSUME SeriesEnd(w) PROVE DrainInv'
    BY <2>1, <2>5, EnterDrain DEF SeriesEnd, Draining
  <2> QED BY <1>1, <2>2, <2>3, <2>4, <2>5 DEF WorkerStep, BatchStep
<1>2. CASE tickDelays
  BY <1>2, EnterDrain DEF tickDelays, Draining, Callers
<1>3. CASE LoadQuery
  <2>1. Reloader \in Callers
    BY DEF Callers
  <2>2. CASE UNCHANGED pc
    BY <1>3, <2>2, StayPut DEF LoadQuery, drainVars
  <2>3. CASE Goto(Reloader, "loaded")
    <3>1. /\ pc' \in [Callers -> PCs] /\ pc'[Reloader] = "loaded"
          /\ \A e \in Callers \ {Reloader} : pc'[e] = pc[e]
      BY <2>1, <2>3, GotoType DEF PCs
    <3>2. pc[Reloader] = "idle" /\ pendingIO' = pendingIO /\ ioDraining' = ioDraining
      BY <1>3 DEF LoadQuery, drainVars
    <3>3. \A e \in Callers : Draining(e)' <=> Draining(e)
      BY <3>1, <3>2 DEF Draining
    <3>4. SingleDrainer'
      BY <3>2, <3>3 DEF DrainInv, SingleDrainer
    <3>5. NoStrandedIO'
      BY <3>1, <3>2, <3>3 DEF DrainInv, NoStrandedIO
    <3> QED BY <3>4, <3>5 DEF DrainInv
  <2> QED BY <1>3, <2>2, <2>3 DEF LoadQuery
<1>4. CASE LoadApply
  BY <1>4, EnterDrain DEF LoadApply, Draining, Callers
<1>5. ASSUME NEW c \in Callers, DrainBusy(c) PROVE DrainInv'
  <2>1. pc' \in [Callers -> PCs] /\ pc'[c] = "idle" /\ \A e \in Callers \ {c} : pc'[e] = pc[e]
    BY <1>5, GotoType DEF DrainBusy, PCs
  <2>2. pc[c] = "drain" /\ ioDraining /\ pendingIO' = pendingIO /\ ioDraining' = ioDraining
    BY <1>5 DEF DrainBusy, drainVars
  <2>3. \A e \in Callers : Draining(e)' <=> Draining(e)
    BY <2>1, <2>2 DEF Draining
  <2>4. SingleDrainer'
    BY <2>2, <2>3 DEF DrainInv, SingleDrainer
  <2>5. NoStrandedIO'
    BY <2>2, <2>3 DEF DrainInv, SingleDrainer, NoStrandedIO
  <2> QED BY <2>4, <2>5 DEF DrainInv
<1>6. ASSUME NEW c \in Callers, DrainTake(c) PROVE DrainInv'
  <2>1. pc' \in [Callers -> PCs] /\ pc'[c] = "exec" /\ \A e \in Callers \ {c} : pc'[e] = pc[e]
    BY <1>6, GotoType DEF DrainTake, PCs
  <2>2. \A e \in Callers : Draining(e)' <=> e = c
    BY <1>6, <2>1, AtQueueAlone DEF DrainTake, Draining
  <2>3. SingleDrainer'
    BY <1>6, <2>2 DEF DrainTake, SingleDrainer
  <2>4. NoStrandedIO'
    BY <2>2 DEF NoStrandedIO
  <2> QED BY <2>3, <2>4 DEF DrainInv
<1>7. ASSUME NEW c \in Callers, DrainDone(c) PROVE DrainInv'
  <2>1. pc' \in [Callers -> PCs] /\ pc'[c] = "idle" /\ \A e \in Callers \ {c} : pc'[e] = pc[e]
    BY <1>7, GotoType DEF DrainDone, PCs
  <2>2. \A e \in Callers : ~Draining(e)'
    BY <1>7, <2>1, AtQueueAlone DEF DrainDone, Draining
  <2>3. SingleDrainer'
    BY <1>7, <2>2 DEF DrainDone, SingleDrainer
  <2>4. NoStrandedIO'
    BY <1>7 DEF DrainDone, NothingQueued, NoStrandedIO
  <2> QED BY <2>3, <2>4 DEF DrainInv
<1>8. ASSUME NEW c \in Callers, PersistActive(c) \/ PersistCleared(c) \/ Notify(c) PROVE DrainInv'
  <2>1. PICK place \in {"exec", "notify", "loop"} : Goto(c, place)
    BY <1>8 DEF PersistActive, PersistCleared, Notify, Persisted
  <2> QED BY <1>8, <2>1, KeepDraining DEF PersistActive, PersistCleared, Notify, Draining, drainVars
<1>9. CASE Crash
  BY <1>9 DEF Crash, DrainInv, SingleDrainer, NoStrandedIO, Draining
<1>10. CASE NewManager \/ OperatorNext \/ AdvanceClock \/ UNCHANGED vars
  BY <1>10, StayPut
     DEF NewManager, OperatorNext, SaveTagAlarmConfig, AcknowledgeAlarm, AdvanceClock, vars, drainVars
<1> QED BY <1>1, <1>2, <1>3, <1>4, <1>5, <1>6, <1>7, <1>8, <1>9, <1>10 DEF Next, ManagerNext, DrainStep

(* DrainInv is invariant. *)
LEMMA DrainInvHolds == Spec => []DrainInv
<1>1. Init => DrainInv
  BY DEF Init, DrainInv, SingleDrainer, NoStrandedIO, Draining
<1> QED BY <1>1, TypeInvHolds, DrainInvStep, PTL DEF Spec

(***************************************************************************)
(* drainIO admits one goroutine at a time, however many evaluate readings, *)
(* tick and reload at once, whatever fails and whenever the process dies:  *)
(* what Manager.mu and ioDraining are for.                                 *)
(***************************************************************************)
THEOREM OneDrainer == Spec => []SingleDrainer
<1>1. DrainInv => SingleDrainer
  BY DEF DrainInv
<1> QED BY <1>1, DrainInvHolds, PTL

(***************************************************************************)
(* A queued action always has somebody on the way to it: the early return  *)
(* of drainIO when another goroutine drains strands nothing.               *)
(***************************************************************************)
THEOREM NothingStranded == Spec => []NoStrandedIO
<1>1. DrainInv => NoStrandedIO
  BY DEF DrainInv
<1> QED BY <1>1, DrainInvHolds, PTL

--------------------------------------------------------------------------------
(* The table *)

(* The guarded INSERT adds an open row only where there was none; nothing  *)
(* else adds one.                                                          *)
LEMMA OpenRowsOfStatements ==
  ASSUME NEW t \in Seq(Row), NEW d \in Defs, NEW e \in Defs, NEW trig \in Nat
  PROVE  /\ OpenRows(InsertActive(t, d, trig), e) \subseteq
              IF e = d /\ OpenRows(t, d) = {} THEN {Len(t) + 1} ELSE OpenRows(t, e)
         /\ OpenRows(InsertCleared(t, d, trig), e) \subseteq OpenRows(t, e)
<1> DEFINE a == [def |-> d, status |-> "ACTIVE", trig |-> trig]
           b == [def |-> d, status |-> "CLEARED", trig |-> trig]
<1>1. Len(t) \in Nat /\ DOMAIN t = 1..Len(t)
  BY LenProperties
<1>2. a \in Row /\ b \in Row
  BY DEF Row, RowStatus
<1>3. ASSUME NEW r \in Row
      PROVE  /\ DOMAIN Append(t, r) = 1..(Len(t) + 1)
             /\ \A i \in 1..Len(t) : Append(t, r)[i] = t[i]
             /\ Append(t, r)[Len(t) + 1] = r
  BY <1>1, AppendProperties, LenProperties
<1>4. a.def = d /\ b.def = d /\ ~IsOpen(b)
  BY DEF IsOpen
<1> HIDE DEF a, b
<1>5. OpenRows(Append(t, a), e) \subseteq IF e = d THEN OpenRows(t, e) \cup {Len(t) + 1} ELSE OpenRows(t, e)
  BY <1>1, <1>2, <1>3, <1>4 DEF OpenRows
<1>6. OpenRows(Append(t, b), e) \subseteq OpenRows(t, e)
  BY <1>1, <1>2, <1>3, <1>4 DEF OpenRows
<1>7. /\ InsertActive(t, d, trig) = IF OpenRows(t, d) = {} THEN Append(t, a) ELSE t
      /\ InsertCleared(t, d, trig) = IF ClosedAt(t, d, trig) = {} THEN Append(t, b) ELSE t
  BY DEF InsertActive, InsertCleared, a, b
<1> QED BY <1>5, <1>6, <1>7

(* An UPDATE opens no row. *)
LEMMA OpenRowsOfUpdates ==
  ASSUME NEW t \in Seq(Row), NEW e \in Defs, NEW id, NEW ds
  PROVE  /\ OpenRows(MarkCleared(t, id), e) \subseteq OpenRows(t, e)
         /\ OpenRows(ClearOpen(t, ds), e) \subseteq OpenRows(t, e)
         /\ OpenRows(Acknowledge(t, id), e) \subseteq OpenRows(t, e)
<1>1. \A i \in DOMAIN t : t[i] \in Row
  BY LenProperties, ElementOfSeq
<1>2. ASSUME NEW r \in Row
      PROVE  /\ [r EXCEPT !.status = "CLEARED"].def = r.def /\ ~IsOpen([r EXCEPT !.status = "CLEARED"])
             /\ [r EXCEPT !.status = "ACKNOWLEDGED"].def = r.def
             /\ r.status = "ACTIVE" => IsOpen(r)
  BY DEF Row, IsOpen
<1>3. ASSUME NEW i \in DOMAIN t
      PROVE  /\ i \in OpenRows(MarkCleared(t, id), e) => i \in OpenRows(t, e)
             /\ i \in OpenRows(ClearOpen(t, ds), e) => i \in OpenRows(t, e)
             /\ i \in OpenRows(Acknowledge(t, id), e) => i \in OpenRows(t, e)
  BY <1>1, <1>2 DEF OpenRows, MarkCleared, ClearOpen, Acknowledge
<1>4. /\ OpenRows(MarkCleared(t, id), e) \subseteq DOMAIN t
      /\ OpenRows(ClearOpen(t, ds), e) \subseteq DOMAIN t
      /\ OpenRows(Acknowledge(t, id), e) \subseteq DOMAIN t
  BY DEF OpenRows, MarkCleared, ClearOpen, Acknowledge
<1> QED BY <1>3, <1>4

(* No step opens a second row for a definition. *)
LEMMA OneOpenRowStep ==
  ASSUME TypeInv, OneOpenRow, [Next]_vars
  PROVE  OneOpenRow'
<1>1. rows \in Seq(Row)
  BY DEF TypeInv, TypeOK
<1>2. ASSUME \A e \in Defs : OpenRows(rows', e) \subseteq OpenRows(rows, e)
      PROVE  OneOpenRow'
  BY <1>2 DEF OneOpenRow
<1>3. ASSUME rows' = rows PROVE OneOpenRow'
  BY <1>2, <1>3
<1>4. ASSUME NEW c \in Callers, PersistActive(c) PROVE OneOpenRow'
  <2>1. act[c].def \in Defs /\ act[c].trig \in Nat
    BY <1>4 DEF PersistActive, TypeInv, Shape, IO
  <2>2. rows' = rows \/ rows' = InsertActive(rows, act[c].def, act[c].trig)
    BY <1>4 DEF PersistActive
  <2>3. ASSUME rows' = InsertActive(rows, act[c].def, act[c].trig), NEW e \in Defs
        PROVE  OpenRows(rows', e) \subseteq
                 IF e = act[c].def /\ OpenRows(rows, act[c].def) = {} THEN {Len(rows) + 1} ELSE OpenRows(rows, e)
    BY <1>1, <2>1, <2>3, OpenRowsOfStatements
  <2> QED BY <1>3, <2>2, <2>3 DEF OneOpenRow
<1>5. ASSUME NEW c \in Callers, PersistCleared(c) PROVE OneOpenRow'
  <2>1. act[c].def \in Defs /\ act[c].trig \in Nat
    BY <1>5 DEF PersistCleared, TypeInv, Shape, IO
  <2>2. \/ rows' = rows \/ rows' = InsertCleared(rows, act[c].def, act[c].trig)
        \/ rows' = MarkCleared(rows, ids[act[c].ref])
    BY <1>5 DEF PersistCleared
  <2> QED BY <1>1, <1>2, <1>3, <2>1, <2>2, OpenRowsOfStatements, OpenRowsOfUpdates
<1>6. CASE OperatorNext
  <2>1. \/ \E tag \in Tags : rows' = ClearOpen(rows, {d \in Defs : RuleOf[d].tag = tag})
        \/ \E id \in DOMAIN rows : rows' = Acknowledge(rows, id)
    BY <1>6 DEF OperatorNext, SaveTagAlarmConfig, AcknowledgeAlarm
  <2> QED BY <1>1, <1>2, <2>1, OpenRowsOfUpdates
<1>7. CASE AdvanceClock \/ UNCHANGED vars
  BY <1>3, <1>7 DEF AdvanceClock, vars, dbVars
<1>8. ASSUME NEW w \in Workers, WorkerStep(w) PROVE rows' = rows
  <2>1. ASSUME NEW tag, NEW v, NEW at, NEW life, evaluateAt(w, tag, v, at, life) PROVE rows' = rows
    BY <2>1 DEF evaluateAt, dbVars
  <2>2. ASSUME NEW v, NEW at, SeriesPoint(w, v, at) PROVE rows' = rows
    BY <2>2 DEF SeriesPoint, dbVars
  <2>3. ASSUME NEW tag, SeriesBegin(w, tag) \/ SeriesEnd(w) PROVE rows' = rows
    BY <2>3 DEF SeriesBegin, SeriesEnd, dbVars
  <2> QED BY <1>8, <2>1, <2>2, <2>3 DEF WorkerStep, BatchStep
<1>9. CASE tickDelays \/ LoadQuery \/ LoadApply \/ Crash \/ NewManager
  <2>1. rows' = rows
    BY <1>9 DEF tickDelays, LoadQuery, LoadApply, Crash, NewManager, dbVars
  <2> QED BY <1>3, <2>1
<1>10. ASSUME NEW c \in Callers, DrainBusy(c) \/ DrainTake(c) \/ DrainDone(c) \/ Notify(c)
       PROVE  rows' = rows
  BY <1>10 DEF DrainBusy, DrainTake, DrainDone, Notify, dbVars
<1> QED BY <1>3, <1>4, <1>5, <1>6, <1>7, <1>8, <1>9, <1>10 DEF Next, ManagerNext, DrainStep

(***************************************************************************)
(* At most one open row per alarm, over every sequence of failed and lost  *)
(* inserts, retries, new occurrences, acknowledgements, saves and          *)
(* restarts: what the NOT EXISTS of InsertActive is for.                   *)
(***************************************************************************)
THEOREM OpenRowUnique == Spec => []OneOpenRow
<1>1. Init => OneOpenRow
  BY DEF Init, OneOpenRow, OpenRows
<1> QED BY <1>1, TypeInvHolds, OneOpenRowStep, PTL DEF Spec

--------------------------------------------------------------------------------
(***************************************************************************)
(* A mute tag is not also reported frozen.  The ticker judges both rules   *)
(* of a tag on one silence; between two ticks it raises and ends neither.  *)
(* So the property needs that every health track is judged: its rule is    *)
(* loaded and its tag has health state.  A restart breaks that: it takes   *)
(* up rows without health state, and two of them can be open when the      *)
(* process dies between the row of one alarm and the end of the other.     *)
(***************************************************************************)
HealthInv ==
  \A d \in Defs : Tracking(d) /\ isHealthAlarm(d) =>
    /\ Triggered(d)
    /\ d \in definitions /\ samples[RuleOf[d].tag].kept

(* A frozen rule gives up on a silent tag before its comm_loss rule fires. *)
Patient ==
  \A d, e \in Defs :
    RuleOf[d].tag = RuleOf[e].tag /\ RuleOf[d].type = "comm_loss" /\ RuleOf[e].type = "frozen"
      => healthTimeout(e) < healthTimeout(d)

--------------------------------------------------------------------------------
(***************************************************************************)
(* The announcements of one occurrence form a stream: those published, the *)
(* one in the hands of the drainer, those of the queue.  What is told, or  *)
(* will be, of a pointer when the queue is q.                              *)
(***************************************************************************)
InHand(c) == pc[c] \in {"exec", "notify"}

Announced(q, r, status) ==
  \/ \E i \in DOMAIN published : published[i].ref = r /\ published[i].status = status
  \/ \E c \in Callers : InHand(c) /\ act[c].notify /\ act[c].ref = r /\ act[c].status = status
  \/ \E k \in DOMAIN q : q[k].notify /\ q[k].ref = r /\ q[k].status = status

(* The drainer's action comes after what is published ... *)
HandOrder ==
  \A c \in Callers : InHand(c) =>
    /\ pc[c] = "notify" => act[c].notify
    /\ act[c].notify =>
         \A i \in DOMAIN published : published[i].ref = act[c].ref =>
           published[i].status = "ACTIVE" /\ act[c].status = "CLEARED"
    /\ act[c].status = "CLEARED" =>
         /\ act[c].notify
         /\ \/ act[c].ref \in restored
            \/ \E i \in DOMAIN published : published[i].ref = act[c].ref

(* ... and the actions of the queue after both, and one after the other. *)
QueueOrder(q) ==
  \A k \in DOMAIN q :
    /\ q[k].notify =>
         /\ \A i \in DOMAIN published : published[i].ref = q[k].ref =>
              published[i].status = "ACTIVE" /\ q[k].status = "CLEARED"
         /\ \A c \in Callers : InHand(c) /\ act[c].notify /\ act[c].ref = q[k].ref =>
              act[c].status = "ACTIVE" /\ q[k].status = "CLEARED"
         /\ \A j \in 1..(k - 1) : q[j].notify /\ q[j].ref = q[k].ref =>
              q[j].status = "ACTIVE" /\ q[k].status = "CLEARED"
    /\ q[k].status = "CLEARED" =>
         /\ q[k].notify
         /\ \/ q[k].ref \in restored
            \/ \E i \in DOMAIN published : published[i].ref = q[k].ref
            \/ \E c \in Callers : InHand(c) /\ act[c].notify /\ act[c].ref = q[k].ref
            \/ \E j \in 1..(k - 1) : q[j].notify /\ q[j].ref = q[k].ref

(* What the tracks say about the stream: of a delay that runs nothing is   *)
(* told, of a fired alarm its start and not its end.                       *)
TrackOrder(t, q) ==
  \A d \in Defs :
    /\ t[d].phase = "pending" =>
         ~isHealthAlarm(d) /\ \A status \in {"ACTIVE", "CLEARED"} : ~Announced(q, t[d].ref, status)
    /\ t[d].phase = "triggered" =>
         /\ ~Announced(q, t[d].ref, "CLEARED")
         /\ t[d].ref \in restored \/ Announced(q, t[d].ref, "ACTIVE")

(* One pointer, one occurrence. *)
OwnPointers(t, u) ==
  /\ \A d \in Defs : t[d].phase # "none" => t[d].ref \in u
  /\ \A d, e \in Defs : t[d].phase # "none" /\ t[e].phase # "none" /\ t[d].ref = t[e].ref => d = e

KnownPointers(q, u) == \A r \in Refs : Announced(q, r, "ACTIVE") \/ Announced(q, r, "CLEARED") => r \in u

OrderInv ==
  /\ AnnouncedInOrder /\ HandOrder /\ QueueOrder(pendingIO)
  /\ TrackOrder(tracks, pendingIO) /\ OwnPointers(tracks, used) /\ KnownPointers(pendingIO, used)

(* What two rules the health of a tag have, and the times they compare. *)
LEMMA HealthTypesOf ==
  ASSUME TypeInv, NEW d \in Defs, isHealthAlarm(d)
  PROVE  /\ RuleOf[d].tag \in Tags /\ healthTimeout(d) \in Nat
         /\ samples[RuleOf[d].tag] \in Sample /\ now \in Nat
         /\ samples[RuleOf[d].tag].lastGood \in Nat
         /\ RuleOf[d].type = "comm_loss" \/ RuleOf[d].type = "frozen"
<1>1. RuleOf[d] \in Rule
  BY AlarmConstants
<1>2. RuleOf[d].tag \in Tags /\ healthTimeout(d) \in Nat
  BY <1>1, AlarmConstants DEF Rule, healthTimeout
<1>3. samples[RuleOf[d].tag] \in Sample /\ now \in Nat
  BY <1>2 DEF TypeInv, TypeOK
<1> QED BY <1>2, <1>3 DEF Sample, isHealthAlarm, HealthTypes

(* Readings, batches and reloads raise no health alarm. *)
LEMMA HealthTracksStay ==
  ASSUME TypeInv, [Next]_vars, ~tickDelays, ~NewManager, NEW d \in Defs, isHealthAlarm(d)
  PROVE  tracks'[d] = tracks[d] \/ tracks'[d] = NoTrack
<1>1. ASSUME NEW w \in Workers, NEW tag \in Tags, NEW v \in Values, NEW at \in ReadingTimes,
             NEW life \in BOOLEAN, evaluateAt(w, tag, v, at, life)
      PROVE  tracks'[d] = tracks[d] \/ tracks'[d] = NoTrack
  <2>1. d \notin ValueDefs(tag)
    BY DEF ValueDefs
  <2> QED BY <1>1, <2>1 DEF evaluateAt
<1>2. ASSUME NEW w \in Workers, NEW v \in Values, NEW at \in ReadingTimes, SeriesPoint(w, v, at)
      PROVE  tracks'[d] = tracks[d] \/ tracks'[d] = NoTrack
  <2>1. d \notin ValueDefs(batch.tag)
    BY DEF ValueDefs
  <2> QED BY <1>2, <2>1 DEF SeriesPoint
<1>3. CASE LoadApply
  BY <1>3 DEF LoadApply
<1>4. CASE Crash
  BY <1>4 DEF Crash
<1>5. ASSUME NEW w \in Workers, (\E tag \in Tags : SeriesBegin(w, tag)) \/ SeriesEnd(w)
      PROVE  tracks' = tracks
  BY <1>5 DEF SeriesBegin, SeriesEnd, trackVars
<1>6. ASSUME NEW c \in Callers, DrainStep(c) PROVE tracks' = tracks
  BY <1>6 DEF DrainStep, DrainBusy, DrainTake, DrainDone, PersistActive, PersistCleared, Notify, trackVars
<1>7. CASE LoadQuery \/ OperatorNext \/ AdvanceClock \/ UNCHANGED vars
  BY <1>7 DEF LoadQuery, OperatorNext, SaveTagAlarmConfig, AcknowledgeAlarm, AdvanceClock, vars, trackVars
<1> QED BY <1>1, <1>2, <1>3, <1>4, <1>5, <1>6, <1>7 DEF Next, ManagerNext, WorkerStep, BatchStep

(* After a tick, the health alarms that stand are those the clock finds    *)
(* violated.                                                               *)
LEMMA TickJudges ==
  ASSUME TypeInv, HealthInv, tickDelays, NEW d \in Defs, isHealthAlarm(d), tracks'[d].phase # "none"
  PROVE  /\ tracks'[d].phase = "triggered"
         /\ d \in definitions /\ samples[RuleOf[d].tag].kept
         /\ HealthViolated(d)
<1> DEFINE Fires   == {x \in Defs : tracks[x].phase = "pending" /\ now - tracks[x].since >= RuleOf[x].delay}
           Retries == {x \in Defs : Triggered(x) /\ ids[tracks[x].ref] = 0 /\ now >= tracks[x].retryAt}
           Judged  == {x \in definitions : isHealthAlarm(x) /\ samples[RuleOf[x].tag].kept}
           Raises  == {x \in Judged : HealthViolated(x) /\ ~Tracking(x)}
           Ends    == {x \in Judged : ~HealthViolated(x) /\ Tracking(x)}
           FiredAt(x) == tracks[x].since + RuleOf[x].delay
<1>1. PICK ref \in NewRefs(Raises) :
        tracks' = [x \in Defs |->
             CASE x \in Fires         -> Fired(tracks[x].since, FiredAt(x), tracks[x].ref, NextRetry(now))
               [] x \in Retries \ Ends -> [tracks[x] EXCEPT !.retryAt = NextRetry(now)]
               [] x \in Raises        -> Fired(now, now, ref[x], NextRetry(now))
               [] x \in Ends          -> NoTrack
               [] OTHER               -> tracks[x]]
  BY DEF tickDelays
<1>2. d \notin Fires
  BY DEF HealthInv, Tracking, Triggered
<1>3. tracks[d] \in Track
  BY DEF TypeInv, TypeOK
<1>4. CASE Tracking(d)
  <2>1. Triggered(d) /\ d \in Judged /\ d \notin Raises
    BY <1>4 DEF HealthInv
  <2>2. d \notin Ends
    <3>1. d \in Ends => tracks'[d] = NoTrack
      BY <1>1, <1>2
    <3> QED BY <3>1 DEF NoTrack
  <2>3. tracks'[d] = [tracks[d] EXCEPT !.retryAt = NextRetry(now)] \/ tracks'[d] = tracks[d]
    BY <1>1, <1>2, <2>1, <2>2
  <2>4. tracks'[d].phase = "triggered"
    BY <1>3, <2>1, <2>3 DEF Triggered, Track
  <2> QED BY <1>4, <2>1, <2>2, <2>4
<1>5. CASE ~Tracking(d)
  <2>1. d \notin Retries /\ d \notin Ends
    BY <1>5 DEF Triggered, Tracking
  <2>2. d \in Raises
    <3>1. d \notin Raises => tracks'[d] = tracks[d]
      BY <1>1, <1>2, <2>1
    <3> QED BY <1>5, <3>1 DEF Tracking
  <2>3. tracks'[d] = Fired(now, now, ref[d], NextRetry(now))
    BY <1>1, <1>2, <2>1, <2>2
  <2> QED BY <2>2, <2>3 DEF Fired
<1> QED BY <1>4, <1>5

(* A reload drops a health track together with its rule, pruneHealthState  *)
(* keeps the state of every tag that still has one, and what raises a      *)
(* track has judged that state.                                            *)
LEMMA HealthInvStep ==
  ASSUME TypeInv, HealthInv, up, "crash" \notin Env, [Next]_vars
  PROVE  HealthInv' /\ up'
<1>0. ~Crash /\ ~NewManager
  BY DEF Crash, NewManager
<1>1. up'
  <2>1. ASSUME NEW w \in Workers, WorkerStep(w) PROVE up' = up
    BY <2>1, ZenonT(40) DEF WorkerStep, BatchStep, evaluateAt, SeriesBegin, SeriesPoint, SeriesEnd
  <2>2. ASSUME NEW c \in Callers, DrainStep(c) PROVE up' = up
    BY <2>2 DEF DrainStep, DrainBusy, DrainTake, DrainDone, PersistActive, PersistCleared, Notify
  <2>3. CASE tickDelays \/ LoadQuery \/ LoadApply \/ AdvanceClock \/ UNCHANGED vars
    BY <2>3 DEF tickDelays, LoadQuery, LoadApply, AdvanceClock, vars
  <2>4. CASE OperatorNext
    BY <2>4 DEF OperatorNext, SaveTagAlarmConfig, AcknowledgeAlarm
  <2> QED BY <1>0, <2>1, <2>2, <2>3, <2>4 DEF Next, ManagerNext
<1> SUFFICES ASSUME NEW d \in Defs, isHealthAlarm(d), tracks'[d].phase # "none"
             PROVE  /\ tracks'[d].phase = "triggered"
                    /\ d \in definitions' /\ samples'[RuleOf[d].tag].kept
  BY <1>1 DEF HealthInv, Tracking, Triggered, isHealthAlarm
<1>2. RuleOf[d].tag \in Tags
  BY HealthTypesOf
<1>3. CASE tickDelays
  <2>1. samples' = [t \in Tags |->
           IF t \in HealthTags(definitions) /\ ~samples[t].kept
           THEN [kept |-> TRUE, lastGood |-> now, hasValue |-> FALSE] ELSE samples[t]]
    BY <1>3 DEF tickDelays
  <2>2. definitions' = definitions
    BY <1>3 DEF tickDelays
  <2> QED BY <1>2, <1>3, <2>1, <2>2, TickJudges
<1>4. ASSUME ~tickDelays
      PROVE  /\ tracks'[d] = tracks[d]
             /\ Triggered(d) /\ d \in definitions /\ samples[RuleOf[d].tag].kept
  <2>1. tracks'[d] = tracks[d]
    BY <1>0, <1>4, HealthTracksStay DEF NoTrack
  <2> QED BY <2>1 DEF HealthInv, Tracking
<1>5. ASSUME NEW w \in Workers, WorkerStep(w) \/ SeriesEnd(w)
      PROVE  definitions' = definitions /\ (samples[RuleOf[d].tag].kept => samples'[RuleOf[d].tag].kept)
  <2>1. ASSUME NEW tag \in Tags, NEW v, recordGoodSample(tag, v)
        PROVE  samples[RuleOf[d].tag].kept => samples'[RuleOf[d].tag].kept
    BY <1>2, <2>1 DEF recordGoodSample, TypeInv, TypeOK
  <2>2. ASSUME NEW tag \in Tags, NEW v \in Values, NEW at \in ReadingTimes,
             NEW life \in BOOLEAN, evaluateAt(w, tag, v, at, life)
        PROVE  definitions' = definitions /\ (samples[RuleOf[d].tag].kept => samples'[RuleOf[d].tag].kept)
    <3>1. definitions' = definitions /\ (recordGoodSample(tag, v) \/ UNCHANGED healthVars)
      BY <2>2 DEF evaluateAt
    <3> QED BY <2>1, <3>1 DEF healthVars
  <2>3. CASE SeriesEnd(w)
    <3>1. batch.tag \in Tags
      BY <2>3 DEF SeriesEnd, TypeInv, Shape, Batch, Callers
    <3>2. definitions' = definitions /\ recordGoodSample(batch.tag, batch.value)
      BY <2>3 DEF SeriesEnd, trackVars
    <3> QED BY <2>1, <3>1, <3>2
  <2>4. CASE (\E tag \in Tags : SeriesBegin(w, tag)) \/ (\E v \in Values, at \in ReadingTimes : SeriesPoint(w, v, at))
    BY <2>4 DEF SeriesBegin, SeriesPoint, trackVars, healthVars
  <2> QED BY <1>5, <2>2, <2>3, <2>4 DEF WorkerStep, BatchStep
<1>6. CASE LoadApply
  <2>2. definitions' = loaded /\ samples' = [t \in Tags |-> IF t \in HealthTags(loaded) THEN samples[t] ELSE NoSample]
    BY <1>6 DEF LoadApply
  <2>3. tracks'[d] = IF Tracking(d) /\ d \notin loaded THEN NoTrack ELSE tracks[d]
    BY <1>6 DEF LoadApply
  <2>4. d \in loaded /\ tracks'[d] = tracks[d]
    BY <2>3 DEF NoTrack, Tracking
  <2>5. RuleOf[d].tag \in HealthTags(loaded)
    BY <2>4 DEF HealthTags
  <2> QED BY <1>2, <2>2, <2>4, <2>5 DEF HealthInv, Tracking, Triggered
<1>7. ASSUME NEW c \in Callers, DrainStep(c) PROVE UNCHANGED <<definitions, samples>>
  BY <1>7 DEF DrainStep, DrainBusy, DrainTake, DrainDone, PersistActive, PersistCleared, Notify, trackVars, healthVars
<1>8. CASE LoadQuery \/ OperatorNext \/ AdvanceClock \/ UNCHANGED vars
  <2>1. UNCHANGED <<definitions, samples>>
    BY <1>8 DEF LoadQuery, OperatorNext, SaveTagAlarmConfig, AcknowledgeAlarm, AdvanceClock, vars, trackVars, healthVars
  <2> QED BY <1>3, <1>4, <2>1 DEF Triggered
<1>9. CASE ~tickDelays /\ ((\E w \in Workers : WorkerStep(w)) \/ \E c \in Callers : DrainStep(c))
  BY <1>4, <1>5, <1>7, <1>9 DEF Triggered
<1> QED BY <1>0, <1>3, <1>6, <1>8, <1>9 DEF Next, ManagerNext

(* One tick judges both rules of a tag on one silence; every other step    *)
(* leaves the health tracks as they are or drops them.                     *)
LEMMA MuteStep ==
  ASSUME TypeInv, HealthInv, MuteIsNotFrozen, Patient, up, "crash" \notin Env, [Next]_vars
  PROVE  MuteIsNotFrozen'
<1> SUFFICES ASSUME NEW d \in Defs, NEW e \in Defs, RuleOf[d].tag = RuleOf[e].tag,
                    RuleOf[d].type = "comm_loss", RuleOf[e].type = "frozen",
                    tracks'[d].phase = "triggered", tracks'[e].phase = "triggered"
             PROVE  FALSE
  BY DEF MuteIsNotFrozen, Triggered
<1>0. isHealthAlarm(d) /\ isHealthAlarm(e) /\ ~NewManager
  BY DEF isHealthAlarm, HealthTypes, NewManager
<1>1. CASE tickDelays
  <2>1. HealthViolated(d) /\ HealthViolated(e)
    BY <1>0, <1>1, TickJudges
  <2>2. now - samples[RuleOf[d].tag].lastGood >= healthTimeout(d)
    BY <2>1 DEF HealthViolated
  <2>3. now - samples[RuleOf[d].tag].lastGood <= healthTimeout(e)
    BY <2>1 DEF HealthViolated
  <2>4. healthTimeout(e) < healthTimeout(d)
    BY DEF Patient
  <2>5. /\ now \in Nat /\ samples[RuleOf[d].tag].lastGood \in Nat
        /\ healthTimeout(d) \in Nat /\ healthTimeout(e) \in Nat
    BY <1>0, HealthTypesOf
  <2> QED BY <2>2, <2>3, <2>4, <2>5
<1>2. CASE ~tickDelays
  <2>1. Triggered(d) /\ Triggered(e)
    BY <1>0, <1>2, HealthTracksStay DEF NoTrack, Triggered
  <2> QED BY <2>1 DEF MuteIsNotFrozen
<1> QED BY <1>1, <1>2

(* tickHealth, for any rules of any number of tags as long as each frozen  *)
(* rule is the less patient one of its tag, and a driver that does not     *)
(* restart: with batches, reloads, a failing database, whatever order.     *)
THEOREM MuteHolds ==
  ASSUME Patient, "crash" \notin Env
  PROVE  Spec => []MuteIsNotFrozen
<1>1. Init => up /\ HealthInv /\ MuteIsNotFrozen
  BY DEF Init, HealthInv, MuteIsNotFrozen, Tracking, Triggered, NoTrack
<1>2. TypeInv /\ (up /\ HealthInv /\ MuteIsNotFrozen) /\ [Next]_vars => (up /\ HealthInv /\ MuteIsNotFrozen)'
  BY HealthInvStep, MuteStep
<1> QED BY <1>1, <1>2, TypeInvHolds, PTL DEF Spec

--------------------------------------------------------------------------------
(* What the queue of one critical section is: the one before, then each of *)
(* the actions decided, once.                                              *)
Extends(queue, D, io, q) ==
  \E n \in Nat : \E g \in [1..n -> D] :
    /\ Len(q) = Len(queue) + n
    /\ \A k \in 1..Len(queue) : q[k] = queue[k]
    /\ \A j \in 1..n : q[Len(queue) + j] = io[g[j]]
    /\ \A i, j \in 1..n : g[i] = g[j] => i = j
    /\ \A d \in D : \E j \in 1..n : g[j] = d

(* QueueIO appends each of the decided actions once, in some order. *)
LEMMA QueueIOForm ==
  ASSUME NEW queue \in Seq(IO), NEW D \in SUBSET Defs, NEW io \in [D -> IO],
         NEW q \in QueueIO(queue, io)
  PROVE  q \in Seq(IO) /\ Extends(queue, D, io, q)
<1>1. IsFiniteSet(D)
  BY AlarmConstants, FS_Subset
<1> DEFINE n == Cardinality(D)
<1>2. n \in Nat
  BY <1>1, FS_CardinalityType
<1>3. PICK g \in SetToSeqs(D) : q = queue \o [i \in DOMAIN g |-> io[g[i]]]
  BY DEF QueueIO
<1>4. g \in [1..n -> D] /\ \A i, j \in 1..n : g[i] = g[j] => i = j
  BY <1>3 DEF SetToSeqs
<1>5. \A d \in D : \E j \in 1..n : g[j] = d
  <2>1. g \in Injection(1..n, D)
    BY <1>4 DEF Injection, IsInjective
  <2>2. Cardinality(1..n) = n
    BY <1>2, FS_Interval
  <2>3. g \in Surjection(1..n, D)
    BY <1>1, <2>1, <2>2, FS_Injection
  <2> QED BY <2>3 DEF Surjection
<1> DEFINE new == [i \in 1..n |-> io[g[i]]]
<1>6. new \in Seq(IO) /\ Len(new) = n /\ \A j \in 1..n : new[j] = io[g[j]]
  <2>1. new \in [1..n -> IO]
    BY <1>4
  <2>2. new \in Seq(IO)
    BY <1>2, <2>1, FunctionIsSeq
  <2> QED BY <1>2, <2>1, <2>2, LenProperties
<1>7. q = queue \o new
  BY <1>3, <1>4
<1> HIDE DEF n, new
<1>8. q \in Seq(IO) /\ Len(q) = Len(queue) + n
  BY <1>6, <1>7, ConcatProperties
<1>9. /\ \A k \in 1..Len(queue) : q[k] = queue[k]
      /\ \A j \in 1..n : q[Len(queue) + j] = io[g[j]]
  BY <1>2, <1>6, <1>7, ConcatProperties, LenProperties
<1> QED BY <1>2, <1>4, <1>5, <1>8, <1>9, ZenonT(40) DEF Extends

(* An action one may add to the queue q: a silent retry, the start of an   *)
(* occurrence nothing is told of, or the end of one told to have started.  *)
MayFollow(q, io) ==
  \/ io.status = "ACTIVE" /\ ~io.notify
  \/ io.status = "ACTIVE" /\ \A status \in {"ACTIVE", "CLEARED"} : ~Announced(q, io.ref, status)
  \/ /\ io.status = "CLEARED" /\ io.notify
     /\ ~Announced(q, io.ref, "CLEARED")
     /\ io.ref \in restored \/ Announced(q, io.ref, "ACTIVE")

(* A queue in order takes in actions of different pointers that may follow *)
(* it, in whatever order they come, and stays in order.                    *)
LEMMA QueueMore ==
  ASSUME TypeInv, NEW queue \in Seq(IO), QueueOrder(queue),
         NEW D \in SUBSET Defs, NEW io \in [D -> IO], NEW q \in QueueIO(queue, io),
         \A d \in D : MayFollow(queue, io[d]),
         \A d, e \in D : io[d].ref = io[e].ref => d = e
  PROVE  /\ q \in Seq(IO) /\ QueueOrder(q)
         /\ \A r, st : Announced(q, r, st) <=>
              \/ Announced(queue, r, st)
              \/ \E d \in D : io[d].notify /\ io[d].ref = r /\ io[d].status = st
<1> DEFINE L == Len(queue)
<1>0. L \in Nat /\ DOMAIN queue = 1..L /\ \A k \in 1..L : queue[k] \in IO
  BY LenProperties, ElementOfSeq
<1>z. q \in Seq(IO) /\ Extends(queue, D, io, q)
  BY QueueIOForm
<1>a. PICK n \in Nat : \E g \in [1..n -> D] :
         /\ Len(q) = L + n
         /\ \A k \in 1..L : q[k] = queue[k]
         /\ \A j \in 1..n : q[L + j] = io[g[j]]
         /\ \A i, j \in 1..n : g[i] = g[j] => i = j
         /\ \A d \in D : \E j \in 1..n : g[j] = d
  BY <1>z DEF Extends
<1>1. PICK g \in [1..n -> D] :
         /\ Len(q) = L + n
         /\ \A k \in 1..L : q[k] = queue[k]
         /\ \A j \in 1..n : q[L + j] = io[g[j]]
         /\ \A i, j \in 1..n : g[i] = g[j] => i = j
         /\ \A d \in D : \E j \in 1..n : g[j] = d
  BY <1>a
<1>2. q \in Seq(IO) /\ DOMAIN q = 1..(L + n)
  BY <1>1, <1>z, LenProperties
<1> HIDE DEF L
<1>3. \A k \in 1..(L + n) : \/ k \in 1..L /\ q[k] = queue[k]
                            \/ k > L /\ k - L \in 1..n /\ q[k] = io[g[k - L]]
  <2> SUFFICES ASSUME NEW k \in 1..(L + n), k \notin 1..L
               PROVE  k > L /\ k - L \in 1..n /\ q[k] = io[g[k - L]]
    BY <1>1
  <2>1. k > L /\ k - L \in 1..n /\ k = L + (k - L)
    BY <1>0
  <2> QED BY <1>1, <2>1
<1>4. \A r, st : Announced(q, r, st) <=>
              \/ Announced(queue, r, st)
              \/ \E d \in D : io[d].notify /\ io[d].ref = r /\ io[d].status = st
  <2> TAKE r, st
  <2>1. ASSUME NEW k \in DOMAIN q, q[k].notify, q[k].ref = r, q[k].status = st
        PROVE  \/ \E j \in DOMAIN queue : queue[j].notify /\ queue[j].ref = r /\ queue[j].status = st
               \/ \E d \in D : io[d].notify /\ io[d].ref = r /\ io[d].status = st
    BY <1>0, <1>1, <1>2, <1>3, <2>1
  <2>2. ASSUME NEW j \in DOMAIN queue, queue[j].notify, queue[j].ref = r, queue[j].status = st
        PROVE  \E k \in DOMAIN q : q[k].notify /\ q[k].ref = r /\ q[k].status = st
    <3>1. j \in DOMAIN q /\ q[j] = queue[j]
      BY <1>0, <1>1, <1>2
    <3> QED BY <2>2, <3>1
  <2>3. ASSUME NEW d \in D, io[d].notify, io[d].ref = r, io[d].status = st
        PROVE  \E k \in DOMAIN q : q[k].notify /\ q[k].ref = r /\ q[k].status = st
    <3>1. PICK j \in 1..n : g[j] = d
      BY <1>1
    <3>2. L + j \in DOMAIN q /\ q[L + j] = io[d]
      BY <1>0, <1>1, <1>2, <3>1
    <3> QED BY <2>3, <3>2
  <2> QED BY <2>1, <2>2, <2>3 DEF Announced
<1>5. QueueOrder(q)
  <2> SUFFICES ASSUME NEW k \in 1..(L + n)
               PROVE
    /\ q[k].notify =>
         /\ \A i \in DOMAIN published : published[i].ref = q[k].ref =>
              published[i].status = "ACTIVE" /\ q[k].status = "CLEARED"
         /\ \A c \in Callers : InHand(c) /\ act[c].notify /\ act[c].ref = q[k].ref =>
              act[c].status = "ACTIVE" /\ q[k].status = "CLEARED"
         /\ \A j \in 1..(k - 1) : q[j].notify /\ q[j].ref = q[k].ref =>
              q[j].status = "ACTIVE" /\ q[k].status = "CLEARED"
    /\ q[k].status = "CLEARED" =>
         /\ q[k].notify
         /\ \/ q[k].ref \in restored
            \/ \E i \in DOMAIN published : published[i].ref = q[k].ref
            \/ \E c \in Callers : InHand(c) /\ act[c].notify /\ act[c].ref = q[k].ref
            \/ \E j \in 1..(k - 1) : q[j].notify /\ q[j].ref = q[k].ref
    BY <1>2 DEF QueueOrder
  <2>1. CASE k \in 1..L
    <3>1. q[k] = queue[k] /\ \A j \in 1..(k - 1) : j \in 1..L /\ q[j] = queue[j]
      BY <1>0, <1>1, <2>1
    <3>2. /\ queue[k].notify =>
               /\ \A i \in DOMAIN published : published[i].ref = queue[k].ref =>
                    published[i].status = "ACTIVE" /\ queue[k].status = "CLEARED"
               /\ \A c \in Callers : InHand(c) /\ act[c].notify /\ act[c].ref = queue[k].ref =>
                    act[c].status = "ACTIVE" /\ queue[k].status = "CLEARED"
          /\ queue[k].notify => \A j \in 1..(k - 1) : queue[j].notify /\ queue[j].ref = queue[k].ref =>
                    queue[j].status = "ACTIVE" /\ queue[k].status = "CLEARED"
          /\ queue[k].status = "CLEARED" => queue[k].notify
          /\ queue[k].status = "CLEARED" =>
               \/ queue[k].ref \in restored
               \/ \E i \in DOMAIN published : published[i].ref = queue[k].ref
               \/ \E c \in Callers : InHand(c) /\ act[c].notify /\ act[c].ref = queue[k].ref
               \/ \E j \in 1..(k - 1) : queue[j].notify /\ queue[j].ref = queue[k].ref
      <4>1. k \in DOMAIN queue /\ QueueOrder(queue)
        BY <1>0, <2>1
      <4> QED BY <4>1 DEF QueueOrder
    <3>3. q[k].notify =>
               /\ \A i \in DOMAIN published : published[i].ref = q[k].ref =>
                    published[i].status = "ACTIVE" /\ q[k].status = "CLEARED"
               /\ \A c \in Callers : InHand(c) /\ act[c].notify /\ act[c].ref = q[k].ref =>
                    act[c].status = "ACTIVE" /\ q[k].status = "CLEARED"
      BY <3>1, <3>2
    <3>4. q[k].notify => \A j \in 1..(k - 1) : q[j].notify /\ q[j].ref = q[k].ref =>
                    q[j].status = "ACTIVE" /\ q[k].status = "CLEARED"
      BY <3>1, <3>2
    <3>5. q[k].status = "CLEARED" =>
               \/ q[k].ref \in restored
               \/ \E i \in DOMAIN published : published[i].ref = q[k].ref
               \/ \E c \in Callers : InHand(c) /\ act[c].notify /\ act[c].ref = q[k].ref
               \/ \E j \in 1..(k - 1) : q[j].notify /\ q[j].ref = q[k].ref
      BY <3>1, <3>2
    <3> QED BY <3>1, <3>2, <3>3, <3>4, <3>5
  <2>2. CASE k \notin 1..L
    <3> DEFINE d == g[k - L]
    <3>1. k > L /\ k - L \in 1..n /\ d \in D /\ q[k] = io[d]
      BY <1>1, <1>3, <2>2
    <3>2. /\ \A j \in 1..(k - 1) : j \in 1..L \/ (j - L \in 1..n /\ j - L # k - L /\ q[j] = io[g[j - L]])
          /\ 1..L \subseteq 1..(k - 1)
      <4>1. \A j \in 1..(k - 1) : j \in 1..(L + n) /\ j - L # k - L
        BY <1>0, <3>1
      <4> QED BY <1>0, <1>3, <3>1, <4>1
    <3>3. \A j \in 1..(k - 1) : j \notin 1..L => q[j].ref # io[d].ref
      <4> SUFFICES ASSUME NEW j \in 1..(k - 1), j \notin 1..L, q[j].ref = io[d].ref PROVE FALSE
        OBVIOUS
      <4>1. j - L \in 1..n /\ j - L # k - L /\ q[j] = io[g[j - L]]
        BY <3>2
      <4>2. g[j - L] = d
        BY <3>1, <4>1
      <4> QED BY <1>1, <3>1, <4>1, <4>2
    <3>4. \A i \in DOMAIN published : published[i].status \in {"ACTIVE", "CLEARED"}
      <4>1. published \in Seq(Event)
        BY DEF TypeInv, TypeOK
      <4>2. \A i \in DOMAIN published : published[i] \in Event
        BY <4>1, ElementOfSeq, LenProperties
      <4> QED BY <4>2 DEF Event
    <3>5. \A c \in Callers : InHand(c) => act[c].status \in {"ACTIVE", "CLEARED"}
      BY DEF TypeInv, Shape, InHand, IO
    <3>6. \A j \in 1..L : queue[j].status \in {"ACTIVE", "CLEARED"}
      BY <1>0 DEF IO
    <3>7. MayFollow(queue, io[d])
      BY <3>1
    <3> HIDE DEF d
    <3>8. CASE io[d].status = "ACTIVE" /\ ~io[d].notify
      BY <3>1, <3>8
    <3>9. CASE io[d].status = "ACTIVE" /\ \A status \in {"ACTIVE", "CLEARED"} : ~Announced(queue, io[d].ref, status)
      <4>1. \A i \in DOMAIN published : published[i].ref # io[d].ref
        BY <3>4, <3>9 DEF Announced
      <4>2. \A c \in Callers : ~(InHand(c) /\ act[c].notify /\ act[c].ref = io[d].ref)
        BY <3>5, <3>9 DEF Announced
      <4>3. \A j \in 1..L : ~(queue[j].notify /\ queue[j].ref = io[d].ref)
        BY <1>0, <3>6, <3>9 DEF Announced
      <4>4. \A j \in 1..(k - 1) : ~(q[j].notify /\ q[j].ref = io[d].ref)
        BY <1>1, <3>2, <3>3, <4>3
      <4> QED BY <3>1, <3>9, <4>1, <4>2, <4>4
    <3>10. CASE /\ io[d].status = "CLEARED" /\ io[d].notify
                /\ ~Announced(queue, io[d].ref, "CLEARED")
                /\ io[d].ref \in restored \/ Announced(queue, io[d].ref, "ACTIVE")
      <4>1. \A i \in DOMAIN published : published[i].ref = io[d].ref => published[i].status = "ACTIVE"
        BY <3>4, <3>10 DEF Announced
      <4>2. \A c \in Callers : InHand(c) /\ act[c].notify /\ act[c].ref = io[d].ref => act[c].status = "ACTIVE"
        BY <3>5, <3>10 DEF Announced
      <4>3. \A j \in 1..L : queue[j].notify /\ queue[j].ref = io[d].ref => queue[j].status = "ACTIVE"
        BY <1>0, <3>6, <3>10 DEF Announced
      <4>4. \A j \in 1..(k - 1) : q[j].notify /\ q[j].ref = io[d].ref => q[j].status = "ACTIVE"
        BY <1>1, <3>2, <3>3, <4>3
      <4>5. \/ io[d].ref \in restored
            \/ \E i \in DOMAIN published : published[i].ref = io[d].ref
            \/ \E c \in Callers : InHand(c) /\ act[c].notify /\ act[c].ref = io[d].ref
            \/ \E j \in 1..L : queue[j].notify /\ queue[j].ref = io[d].ref
        BY <1>0, <3>10 DEF Announced
      <4>6. (\E j \in 1..L : queue[j].notify /\ queue[j].ref = io[d].ref)
              => \E j \in 1..(k - 1) : q[j].notify /\ q[j].ref = io[d].ref
        BY <1>1, <3>2
      <4> QED BY <3>1, <3>10, <4>1, <4>2, <4>4, <4>5, <4>6
    <3> QED BY <3>7, <3>8, <3>9, <3>10 DEF MayFollow
  <2> QED BY <2>1, <2>2
<1> QED BY <1>2, <1>4, <1>5

(***************************************************************************)
(* What one critical section may decide about the rule d, whose track was  *)
(* t[d] and is t2[d] then: new are the pointers it allocated, io the       *)
(* actions it queued for the rules of D.                                   *)
(***************************************************************************)
Decision(t, t2, new, D, io, d) ==
  \/ d \notin D /\ t2[d].phase = t[d].phase /\ t2[d].ref = t[d].ref
  \/ d \notin D /\ t[d].phase # "triggered" /\ t2[d].phase = "none"
  \/ /\ d \notin D /\ t[d].phase = "none" /\ d \in DOMAIN new /\ ~isHealthAlarm(d)
     /\ t2[d].phase = "pending" /\ t2[d].ref = new[d]
  \/ /\ d \in D /\ io[d].def = d /\ io[d].status = "ACTIVE" /\ io[d].notify
     /\ \/ t[d].phase = "pending" /\ io[d].ref = t[d].ref
        \/ t[d].phase = "none" /\ d \in DOMAIN new /\ io[d].ref = new[d]
     /\ t2[d].phase = "triggered" /\ t2[d].ref = io[d].ref
  \/ /\ d \in D /\ io[d].def = d /\ io[d].status = "ACTIVE" /\ ~io[d].notify
     /\ t[d].phase = "triggered" /\ io[d].ref = t[d].ref
     /\ t2[d].phase = "triggered" /\ t2[d].ref = t[d].ref
  \/ /\ d \in D /\ io[d].def = d /\ io[d].status = "CLEARED" /\ io[d].notify
     /\ t[d].phase = "triggered" /\ io[d].ref = t[d].ref
     /\ t2[d].phase = "none"

(* A critical section that decides about all rules so: it found the queue, *)
(* the tracks t and the pointers in use u, and leaves q, t2 and u2.        *)
Decides(queue, t, u, new, D, io, q, t2, u2) ==
  /\ queue \in Seq(IO) /\ u \in SUBSET Refs /\ u2 \in SUBSET Refs
  /\ QueueOrder(queue) /\ TrackOrder(t, queue) /\ OwnPointers(t, u) /\ KnownPointers(queue, u)
  /\ \E F \in SUBSET Defs :
       /\ new \in [F -> Refs \ u] /\ \A d, e \in F : new[d] = new[e] => d = e
       /\ u2 = u \cup {new[d] : d \in F}
  /\ D \in SUBSET Defs /\ io \in [D -> IO] /\ q \in QueueIO(queue, io)
  /\ \A d \in Defs : Decision(t, t2, new, D, io, d)

(* For some pointers and actions. *)
Decided(queue, t, u, q, t2, u2) == \E new, D, io : Decides(queue, t, u, new, D, io, q, t2, u2)

(* A critical section that decides only so leaves the queue in order and   *)
(* the tracks in step with what is, or will be, told.                      *)
LEMMA DecisionsKeepOrder ==
  ASSUME TypeInv, NEW queue, NEW t, NEW u, NEW new, NEW D, NEW io, NEW q, NEW t2, NEW u2,
         Decides(queue, t, u, new, D, io, q, t2, u2)
  PROVE  /\ q \in Seq(IO) /\ QueueOrder(q)
         /\ TrackOrder(t2, q) /\ OwnPointers(t2, u2) /\ KnownPointers(q, u2)
<1> PICK F \in SUBSET Defs :
       /\ new \in [F -> Refs \ u] /\ \A d, e \in F : new[d] = new[e] => d = e
       /\ u2 = u \cup {new[d] : d \in F}
  BY DEF Decides
<1>d. /\ queue \in Seq(IO) /\ u \in SUBSET Refs /\ u2 \in SUBSET Refs
      /\ QueueOrder(queue) /\ TrackOrder(t, queue) /\ OwnPointers(t, u) /\ KnownPointers(queue, u)
      /\ D \in SUBSET Defs /\ io \in [D -> IO] /\ q \in QueueIO(queue, io)
      /\ \A d \in Defs : Decision(t, t2, new, D, io, d)
  BY DEF Decides
<1> USE <1>d
<1>0. DOMAIN new = F
  OBVIOUS
<1>1. \A d \in F : new[d] \in Refs /\ new[d] \notin u
                   /\ ~Announced(queue, new[d], "ACTIVE") /\ ~Announced(queue, new[d], "CLEARED")
  BY DEF KnownPointers
<1>2. \A d \in Defs : t[d].phase = "pending" =>
        ~Announced(queue, t[d].ref, "ACTIVE") /\ ~Announced(queue, t[d].ref, "CLEARED")
  BY DEF TrackOrder
<1>3. \A d \in D : MayFollow(queue, io[d])
  <2> TAKE d \in D
  <2>1. Decision(t, t2, new, D, io, d)
    OBVIOUS
  <2>2. CASE io[d].status = "ACTIVE" /\ io[d].notify
    <3>1. \/ t[d].phase = "pending" /\ io[d].ref = t[d].ref
          \/ d \in F /\ io[d].ref = new[d]
      BY <1>0, <2>1, <2>2 DEF Decision
    <3> QED BY <1>1, <1>2, <2>2, <3>1 DEF MayFollow
  <2>3. CASE io[d].status = "ACTIVE" /\ ~io[d].notify
    BY <2>3 DEF MayFollow
  <2>4. CASE io[d].status = "CLEARED"
    <3>1. io[d].notify /\ t[d].phase = "triggered" /\ io[d].ref = t[d].ref
      BY <2>1, <2>4 DEF Decision
    <3> QED BY <2>4, <3>1 DEF MayFollow, TrackOrder
  <2> QED BY <2>1, <2>2, <2>3, <2>4 DEF Decision
\* The pointer of an action is that of its track, or new.
<1>4. \A d \in D : \/ t[d].phase # "none" /\ io[d].ref = t[d].ref
                   \/ d \in F /\ io[d].ref = new[d]
  BY <1>0 DEF Decision
<1>5. \A d \in Defs : t2[d].phase # "none" =>
        \/ t[d].phase # "none" /\ t2[d].ref = t[d].ref
        \/ d \in F /\ t2[d].ref = new[d]
  <2> TAKE d \in Defs
  <2>1. Decision(t, t2, new, D, io, d)
    OBVIOUS
  <2> QED BY <1>0, <2>1 DEF Decision
<1>6. \A d, e \in Defs : t[d].phase # "none" /\ t[e].phase # "none" /\ t[d].ref = t[e].ref => d = e
  BY DEF OwnPointers
<1>7. \A d \in Defs : t[d].phase # "none" => t[d].ref \in u
  BY DEF OwnPointers
<1>8. \A d, e \in D : io[d].ref = io[e].ref => d = e
  BY <1>1, <1>4, <1>6, <1>7
<1>9. /\ q \in Seq(IO) /\ QueueOrder(q)
      /\ \A r, st : Announced(q, r, st) <=>
           \/ Announced(queue, r, st)
           \/ \E d \in D : io[d].notify /\ io[d].ref = r /\ io[d].status = st
  BY <1>3, <1>8, QueueMore
<1>10. OwnPointers(t2, u2)
  BY <1>1, <1>5, <1>6, <1>7 DEF OwnPointers
<1>11. KnownPointers(q, u2)
  <2>1. \A d \in D : io[d].ref \in u2
    BY <1>4, <1>7
  <2> QED BY <1>9, <2>1 DEF KnownPointers
\* An action of another rule is about another pointer.
<1>12. \A d \in Defs, e \in D : t2[d].phase # "none" /\ io[e].ref = t2[d].ref => d = e
  BY <1>1, <1>4, <1>5, <1>6, <1>7
<1>13. TrackOrder(t2, q)
  <2> SUFFICES ASSUME NEW d \in Defs
               PROVE  /\ t2[d].phase = "pending" =>
                           ~isHealthAlarm(d) /\ \A status \in {"ACTIVE", "CLEARED"} : ~Announced(q, t2[d].ref, status)
                      /\ t2[d].phase = "triggered" =>
                           /\ ~Announced(q, t2[d].ref, "CLEARED")
                           /\ t2[d].ref \in restored \/ Announced(q, t2[d].ref, "ACTIVE")
    BY DEF TrackOrder
  <2>1. Decision(t, t2, new, D, io, d)
    OBVIOUS
  <2>2. CASE t2[d].phase = "pending"
    <3>1. d \notin D /\ ~isHealthAlarm(d)
          /\ ~Announced(queue, t2[d].ref, "ACTIVE") /\ ~Announced(queue, t2[d].ref, "CLEARED")
      <4>1. CASE d \notin D /\ t2[d].phase = t[d].phase /\ t2[d].ref = t[d].ref
        BY <1>2, <2>2, <4>1 DEF TrackOrder
      <4>2. CASE d \notin D /\ d \in DOMAIN new /\ ~isHealthAlarm(d) /\ t2[d].ref = new[d]
        BY <1>0, <1>1, <4>2
      <4> QED BY <2>1, <2>2, <4>1, <4>2 DEF Decision
    <3>2. \A e \in D : io[e].ref # t2[d].ref
      BY <1>12, <2>2, <3>1
    <3> QED BY <1>9, <2>2, <3>1, <3>2
  <2>3. CASE t2[d].phase = "triggered"
    <3>1. \A e \in D : io[e].ref = t2[d].ref => d = e
      BY <1>12, <2>3
    <3>2. d \in D => io[d].status = "ACTIVE"
      BY <2>1, <2>3 DEF Decision
    <3>3. CASE t[d].phase = "triggered" /\ t2[d].ref = t[d].ref
      <4>1. /\ ~Announced(queue, t2[d].ref, "CLEARED")
            /\ t2[d].ref \in restored \/ Announced(queue, t2[d].ref, "ACTIVE")
        BY <3>3 DEF TrackOrder
      <4> QED BY <1>9, <2>3, <3>1, <3>2, <4>1
    <3>4. CASE /\ d \in D /\ io[d].status = "ACTIVE" /\ io[d].notify /\ t2[d].ref = io[d].ref
               /\ (t[d].phase = "pending" /\ io[d].ref = t[d].ref) \/ (d \in DOMAIN new /\ io[d].ref = new[d])
      <4>1. ~Announced(queue, t2[d].ref, "CLEARED")
        BY <1>0, <1>1, <1>2, <3>4
      <4> QED BY <1>9, <2>3, <3>1, <3>2, <3>4, <4>1
    <3> QED BY <2>1, <2>3, <3>3, <3>4 DEF Decision
  <2> QED BY <2>2, <2>3
<1> QED BY <1>9, <1>10, <1>11, <1>13

(* A step that leaves what is published and in hand where it is. *)
LEMMA StreamStays ==
  ASSUME OrderInv, NEW q, pendingIO' = q, QueueOrder(q),
         UNCHANGED <<published, act>>, restored' = restored,
         \A c \in Callers : (InHand(c)' <=> InHand(c)) /\ (pc'[c] = "notify" => pc[c] = "notify"),
         TrackOrder(tracks', q), OwnPointers(tracks', used'), KnownPointers(q, used')
  PROVE  OrderInv'
<1>1. \A r, st : Announced(q, r, st) <=> Announced(pendingIO, r, st)'
  BY DEF Announced
<1>2. AnnouncedInOrder'
  BY DEF OrderInv, AnnouncedInOrder
<1>3. HandOrder'
  BY DEF OrderInv, HandOrder
<1>4. QueueOrder(pendingIO)'
  BY DEF QueueOrder
<1>5. TrackOrder(tracks, pendingIO)'
  BY <1>1 DEF TrackOrder, isHealthAlarm
<1>6. OwnPointers(tracks, used)'
  BY DEF OwnPointers
<1>7. KnownPointers(pendingIO, used)'
  BY <1>1 DEF KnownPointers
<1> QED BY <1>2, <1>3, <1>4, <1>5, <1>6, <1>7 DEF OrderInv

(* One reading: it opens, fires, drops and clears value rules. *)
LEMMA EvaluateDecides ==
  ASSUME TypeInv, OrderInv, NEW w \in Workers, NEW tag \in Tags, NEW v \in Values,
         NEW at \in ReadingTimes, NEW life \in BOOLEAN, evaluateAt(w, tag, v, at, life)
  PROVE  Decided(pendingIO, tracks, used, pendingIO', tracks', used')
<1> DEFINE Opens  == {d \in ValueDefs(tag) : isConditionViolated(d, v) /\ ~Tracking(d)}
           Fires  == {d \in Opens : RuleOf[d].delay = 0}
           Drops  == {d \in ValueDefs(tag) : ~isConditionViolated(d, v) /\ tracks[d].phase = "pending"}
           Clears == {d \in ValueDefs(tag) : ~isConditionViolated(d, v) /\ Triggered(d) /\ isCleared(d, v)}
           io(ref) == [d \in Fires \cup Clears |->
                         IF d \in Fires THEN MakeIO(d, "ACTIVE", ref[d], at, TRUE) ELSE Clearing(d, TRUE)]
<1>1. PICK ref \in NewRefs(Opens) :
        /\ used' = used \cup {ref[d] : d \in Opens}
        /\ tracks' = [d \in Defs |->
             CASE d \in Fires          -> Fired(at, at, ref[d], NextRetry(at))
               [] d \in Opens \ Fires  -> Pending(at, ref[d])
               [] d \in Drops \cup Clears -> NoTrack
               [] OTHER                -> tracks[d]]
        /\ pendingIO' \in QueueIO(pendingIO, io(ref))
  BY DEF evaluateAt
<1>2. at \in Nat /\ w \in Callers
  BY DEF ReadingTimes, Callers, TypeInv, TypeOK
<1>3. /\ Opens \in SUBSET Defs /\ Fires \subseteq Opens /\ Clears \in SUBSET Defs /\ Drops \in SUBSET Defs
      /\ \A d \in Clears : Tracking(d) /\ Triggered(d)
      /\ \A d \in Opens : ~isHealthAlarm(d) /\ ~Tracking(d)
      /\ \A d \in Drops : Tracking(d) /\ ~Triggered(d)
  BY DEF ValueDefs, DefsOf, TypeInv, TypeOK, Triggered, Tracking
<1>4. /\ ref \in [Opens -> Refs \ used] /\ \A d, e \in Opens : ref[d] = ref[e] => d = e
      /\ used \in SUBSET Refs /\ used' \in SUBSET Refs /\ pendingIO \in Seq(IO)
  BY <1>1 DEF NewRefs, TypeInv, TypeOK
<1> HIDE DEF Opens, Fires, Drops, Clears
<1> DEFINE D == Fires \cup Clears
           q == pendingIO'
<1>5. /\ io(ref) \in [D -> IO]
      /\ \A d \in Fires : io(ref)[d] = MakeIO(d, "ACTIVE", ref[d], at, TRUE)
      /\ \A d \in Clears : io(ref)[d] = Clearing(d, TRUE)
  <2>1. \A d \in Fires : MakeIO(d, "ACTIVE", ref[d], at, TRUE) \in IO /\ d \notin Clears
    BY <1>2, <1>3, <1>4, ConstructorTypes
  <2>2. \A d \in Clears : Clearing(d, TRUE) \in IO
    BY <1>3, TrackActions
  <2> QED BY <1>3, <2>1, <2>2 DEF Tracking, Triggered
<1>6. \A d \in Defs : Decision(tracks, tracks', ref, D, io(ref), d)
  <2> TAKE d \in Defs
  <2>0. DOMAIN ref = Opens
    BY <1>4
  <2>1. CASE d \in Fires
    <3>1. tracks'[d] = Fired(at, at, ref[d], NextRetry(at))
      BY <1>1, <1>3, <2>1
    <3>2. tracks'[d].phase = "triggered" /\ tracks'[d].ref = ref[d]
      BY <3>1 DEF Fired
    <3>3. /\ io(ref)[d].def = d /\ io(ref)[d].status = "ACTIVE" /\ io(ref)[d].notify
          /\ io(ref)[d].ref = ref[d]
      BY <1>5, <2>1 DEF MakeIO
    <3>4. tracks[d].phase = "none"
      BY <1>3, <2>1 DEF Tracking
    <3> QED BY <1>3, <2>0, <2>1, <3>2, <3>3, <3>4 DEF Decision
  <2>2. CASE d \in Opens \ Fires
    <3>1. tracks'[d] = Pending(at, ref[d])
      BY <1>1, <1>3, <2>2
    <3>2. d \notin D /\ tracks[d].phase = "none"
      BY <1>3, <2>2 DEF Tracking
    <3> QED BY <1>3, <2>0, <2>2, <3>1, <3>2 DEF Decision, Pending
  <2>3. CASE d \in Clears
    <3>1. d \notin Opens /\ d \notin Fires
      BY <1>3, <2>3
    <3>2. tracks'[d] = NoTrack
      BY <1>1, <2>3, <3>1
    <3>3. /\ io(ref)[d].def = d /\ io(ref)[d].status = "CLEARED" /\ io(ref)[d].notify
          /\ io(ref)[d].ref = tracks[d].ref
      BY <1>5, <2>3 DEF Clearing, MakeIO
    <3>4. d \in D /\ tracks'[d].phase = "none" /\ tracks[d].phase = "triggered"
      BY <1>3, <2>3, <3>2 DEF NoTrack, Triggered
    <3> HIDE DEF io, D
    <3> QED BY <3>3, <3>4 DEF Decision
  <2>4. CASE d \in Drops
    <3>1. d \notin Opens /\ d \notin Fires /\ d \notin D /\ tracks[d].phase # "triggered"
      BY <1>3, <2>4 DEF Triggered
    <3>2. tracks'[d] = NoTrack
      BY <1>1, <2>4, <3>1
    <3> QED BY <3>1, <3>2 DEF Decision, NoTrack
  <2>5. CASE d \notin Opens \cup Drops \cup Clears
    <3>1. d \notin D /\ tracks'[d] = tracks[d]
      BY <1>1, <1>3, <2>5
    <3> QED BY <3>1 DEF Decision
  <2> QED BY <1>3, <2>1, <2>2, <2>3, <2>4, <2>5
<1>7. D \in SUBSET Defs /\ q \in QueueIO(pendingIO, io(ref)) /\ used' = used \cup {ref[d] : d \in Opens}
  BY <1>1, <1>3
<1> HIDE DEF D, io, q
<1>8. Decides(pendingIO, tracks, used, ref, D, io(ref), q, tracks', used')
  BY <1>3, <1>4, <1>5, <1>6, <1>7 DEF OrderInv, Decides
<1>9. Decided(pendingIO, tracks, used, q, tracks', used')
  BY <1>8 DEF Decided
<1> QED BY <1>9 DEF q

(* A critical section leaves the stream to the goroutine that drains. *)
LEMMA SectionOrder ==
  ASSUME TypeInv, OrderInv, NEW c \in Callers, UNCHANGED <<published, act, restored>>,
         pc' = [pc EXCEPT ![c] = "drain"], ~InHand(c),
         Decided(pendingIO, tracks, used, pendingIO', tracks', used')
  PROVE  OrderInv'
<1> DEFINE q == pendingIO'
<1>1. /\ q \in Seq(IO) /\ QueueOrder(q)
      /\ TrackOrder(tracks', q) /\ OwnPointers(tracks', used') /\ KnownPointers(q, used')
  BY DecisionsKeepOrder DEF Decided
<1>2. \A e \in Callers : (InHand(e)' <=> InHand(e)) /\ (pc'[e] = "notify" => pc[e] = "notify")
  BY DEF InHand, TypeInv, TypeOK
<1>3. pendingIO' = q
  OBVIOUS
<1> HIDE DEF q
<1> QED BY <1>1, <1>2, <1>3, StreamStays

LEMMA EvaluateOrder ==
  ASSUME TypeInv, OrderInv, NEW w \in Workers, NEW tag \in Tags, NEW v \in Values,
         NEW at \in ReadingTimes, NEW life \in BOOLEAN, evaluateAt(w, tag, v, at, life)
  PROVE  OrderInv'
<1>1. w \in Callers /\ UNCHANGED <<published, act, restored>> /\ pc' = [pc EXCEPT ![w] = "drain"] /\ ~InHand(w)
  BY DEF evaluateAt, Goto, Callers, InHand
<1> QED BY <1>1, EvaluateDecides, SectionOrder

(* A reload clears the fired tracks whose rules are gone. *)
LEMMA LoadApplyDecides ==
  ASSUME TypeInv, OrderInv, LoadApply
  PROVE  Decided(pendingIO, tracks, used, pendingIO', tracks', used')
<1> DEFINE Gone == {d \in Defs : Tracking(d) /\ d \notin loaded}
           D == {e \in Gone : Triggered(e)}
           io == [d \in D |-> Clearing(d, TRUE)]
           q == pendingIO'
           F == {}
           new == [d \in F |-> NoRef]
<1>1. /\ tracks' = [d \in Defs |-> IF d \in Gone THEN NoTrack ELSE tracks[d]]
      /\ q \in QueueIO(pendingIO, io)
      /\ UNCHANGED <<used, restored, act, published>>
      /\ pc' = [pc EXCEPT ![Reloader] = "drain"] /\ pc[Reloader] = "loaded"
  BY DEF LoadApply, Goto
<1>2. D \in SUBSET Defs /\ io \in [D -> IO] /\ \A d \in D : io[d] = Clearing(d, TRUE)
  <2>1. \A d \in D : Clearing(d, TRUE) \in IO
    BY TrackActions
  <2> QED BY <2>1
<1>3. \A d \in Defs : Decision(tracks, tracks', new, D, io, d)
  <2> TAKE d \in Defs
  <2>1. CASE d \in D
    <3>1. tracks'[d] = NoTrack
      BY <1>1, <2>1
    <3>2. io[d].def = d /\ io[d].status = "CLEARED" /\ io[d].notify /\ io[d].ref = tracks[d].ref
      BY <1>2, <2>1 DEF Clearing, MakeIO
    <3>3. tracks[d].phase = "triggered" /\ tracks'[d].phase = "none"
      BY <2>1, <3>1 DEF NoTrack, Triggered
    <3> HIDE DEF D, io
    <3> QED BY <2>1, <3>2, <3>3 DEF Decision
  <2>2. CASE d \in Gone \ D
    BY <1>1, <2>2 DEF Decision, NoTrack, Triggered
  <2>3. CASE d \notin Gone
    BY <1>1, <2>3 DEF Decision
  <2> QED BY <2>1, <2>2, <2>3
<1>4. /\ used \in SUBSET Refs /\ used' \in SUBSET Refs /\ pendingIO \in Seq(IO)
      /\ F \in SUBSET Defs /\ new \in [F -> Refs \ used] /\ used' = used \cup {new[d] : d \in F}
      /\ \A d, e \in F : new[d] = new[e] => d = e
  BY <1>1 DEF TypeInv, TypeOK
<1> HIDE DEF D, Gone, io, q, F, new
<1>5. Decides(pendingIO, tracks, used, new, D, io, q, tracks', used')
  BY <1>1, <1>2, <1>3, <1>4 DEF OrderInv, Decides
<1>6. Decided(pendingIO, tracks, used, q, tracks', used')
  BY <1>5 DEF Decided
<1> QED BY <1>6 DEF q

LEMMA LoadApplyOrder ==
  ASSUME TypeInv, OrderInv, LoadApply
  PROVE  OrderInv'
<1>1. /\ Reloader \in Callers /\ UNCHANGED <<published, act, restored>>
      /\ pc' = [pc EXCEPT ![Reloader] = "drain"] /\ ~InHand(Reloader)
  BY DEF LoadApply, Goto, Callers, InHand
<1> QED BY <1>1, LoadApplyDecides, SectionOrder

(* A tick decides twice: the delays and the retries, then the health       *)
(* rules.  The two never meet in one rule but for a retry of a health      *)
(* alarm that the same tick ends, and a retry is silent.                   *)
LEMMA TickDecides ==
  ASSUME TypeInv, OrderInv, tickDelays
  PROVE  \E q1, t1 : /\ Decided(pendingIO, tracks, used, q1, t1, used)
                     /\ Decided(q1, t1, used, pendingIO', tracks', used')
<1> DEFINE Fires   == {d \in Defs : tracks[d].phase = "pending" /\ now - tracks[d].since >= RuleOf[d].delay}
           Retries == {d \in Defs : Triggered(d) /\ ids[tracks[d].ref] = 0 /\ now >= tracks[d].retryAt}
           Judged  == {d \in definitions : isHealthAlarm(d) /\ samples[RuleOf[d].tag].kept}
           Raises  == {d \in Judged : HealthViolated(d) /\ ~Tracking(d)}
           Ends    == {d \in Judged : ~HealthViolated(d) /\ Tracking(d)}
           FiredAt(d) == tracks[d].since + RuleOf[d].delay
           delayed == [d \in Fires \cup Retries |->
             IF d \in Fires THEN MakeIO(d, "ACTIVE", tracks[d].ref, FiredAt(d), TRUE) ELSE Retrying(d)]
           judged(ref) == [d \in Raises \cup Ends |->
             IF d \in Raises THEN Raising(d, ref[d]) ELSE Clearing(d, TRUE)]
<1>1. PICK ref \in NewRefs(Raises), queue \in QueueIO(pendingIO, delayed) :
        /\ used' = used \cup {ref[d] : d \in Raises}
        /\ tracks' = [d \in Defs |->
             CASE d \in Fires         -> Fired(tracks[d].since, FiredAt(d), tracks[d].ref, NextRetry(now))
               [] d \in Retries \ Ends -> [tracks[d] EXCEPT !.retryAt = NextRetry(now)]
               [] d \in Raises        -> Fired(now, now, ref[d], NextRetry(now))
               [] d \in Ends          -> NoTrack
               [] OTHER               -> tracks[d]]
        /\ pendingIO' \in QueueIO(queue, judged(ref))
  BY DEF tickDelays
<1>2. /\ Fires \in SUBSET Defs /\ Retries \in SUBSET Defs /\ Raises \in SUBSET Defs /\ Ends \in SUBSET Defs
      /\ \A d \in Fires : Tracking(d) /\ tracks[d].phase = "pending" /\ ~isHealthAlarm(d)
      /\ \A d \in Retries : Tracking(d) /\ tracks[d].phase = "triggered"
      /\ \A d \in Raises : isHealthAlarm(d) /\ ~Tracking(d)
      /\ \A d \in Ends : isHealthAlarm(d) /\ Tracking(d)
  <2>1. definitions \in SUBSET Defs /\ \A d \in Defs : tracks[d].phase = "pending" => ~isHealthAlarm(d)
    BY DEF TypeInv, TypeOK, OrderInv, TrackOrder
  <2> QED BY <2>1 DEF Triggered, Tracking
<1>3. \A d \in Defs : tracks[d] \in Track
  BY DEF TypeInv, TypeOK
<1>4. \A d \in Ends : tracks[d].phase = "triggered" /\ Triggered(d)
  BY <1>2, <1>3 DEF OrderInv, TrackOrder, Tracking, Triggered, Track, Phases
<1>5. /\ ref \in [Raises -> Refs \ used] /\ \A d, e \in Raises : ref[d] = ref[e] => d = e
      /\ used \in SUBSET Refs /\ used' \in SUBSET Refs /\ pendingIO \in Seq(IO) /\ now \in Nat
  BY <1>1, ZenonT(40) DEF NewRefs, TypeInv, TypeOK
<1>6. /\ delayed \in [Fires \cup Retries -> IO]
      /\ \A d \in Fires : /\ delayed[d].def = d /\ delayed[d].status = "ACTIVE"
                          /\ delayed[d].notify /\ delayed[d].ref = tracks[d].ref
      /\ \A d \in Retries : /\ delayed[d].def = d /\ delayed[d].status = "ACTIVE"
                            /\ ~delayed[d].notify /\ delayed[d].ref = tracks[d].ref
  <2>1. \A d \in Fires : FiredAt(d) \in Nat /\ MakeIO(d, "ACTIVE", tracks[d].ref, FiredAt(d), TRUE) \in IO /\ d \notin Retries
    <3> TAKE d \in Fires
    <3>1. tracks[d].since \in Nat /\ tracks[d].ref \in Refs /\ d \in Defs /\ tracks[d].ref \in Refs
      BY <1>2, TrackActions
    <3>2. RuleOf[d].delay \in Nat
      BY <3>1, ConstructorTypes
    <3>3. FiredAt(d) \in Nat
      BY <3>1, <3>2
    <3>4. d \notin Retries
      BY <1>2
    <3> HIDE DEF FiredAt, Retries
    <3> QED BY <3>1, <3>3, <3>4, ConstructorTypes
  <2>2. \A d \in Retries : Retrying(d) \in IO
    BY <1>2, TrackActions
  <2> HIDE DEF Fires, Retries, FiredAt
  <2>3. delayed \in [Fires \cup Retries -> IO]
    BY <2>1, <2>2
  <2>4. \A d \in Fires : delayed[d] = MakeIO(d, "ACTIVE", tracks[d].ref, FiredAt(d), TRUE)
    OBVIOUS
  <2>5. \A d \in Retries : delayed[d] = Retrying(d)
    BY <2>1
  <2> HIDE DEF delayed
  <2> QED BY <2>3, <2>4, <2>5 DEF MakeIO, Retrying
<1> HIDE DEF Fires, Retries, Raises, Ends, Judged
<1> DEFINE t == [d \in Defs |-> IF d \in Fires
                   THEN Fired(tracks[d].since, FiredAt(d), tracks[d].ref, NextRetry(now)) ELSE tracks[d]]
           none == [d \in {} |-> NoRef]
<1>7. \A d \in Defs : Decision(tracks, t, none, Fires \cup Retries, delayed, d)
  <2> TAKE d \in Defs
  <2>1. CASE d \in Fires
    <3>1. t[d].phase = "triggered" /\ t[d].ref = tracks[d].ref
      BY <2>1 DEF Fired
    <3> HIDE DEF t, delayed
    <3> QED BY <1>2, <1>6, <2>1, <3>1 DEF Decision
  <2>2. CASE d \in Retries
    <3>1. d \notin Fires /\ t[d] = tracks[d]
      BY <1>2, <2>2
    <3> HIDE DEF t, delayed
    <3> QED BY <1>2, <1>6, <2>2, <3>1 DEF Decision
  <2>3. CASE d \notin Fires \cup Retries
    BY <2>3 DEF Decision
  <2> QED BY <2>1, <2>2, <2>3
<1> HIDE DEF delayed
<1>8. /\ {} \in SUBSET Defs /\ none \in [{} -> Refs \ used] /\ used = used \cup {none[d] : d \in {}}
      /\ \A d, e \in {} : none[d] = none[e] => d = e
      /\ Fires \cup Retries \in SUBSET Defs
  BY <1>2
<1>9. \A d \in Defs : /\ d \in Fires => t[d].phase = "triggered" /\ t[d].ref = tracks[d].ref
                      /\ d \notin Fires => t[d] = tracks[d]
  BY DEF Fired
<1> HIDE DEF t, none
<1>z. Decides(pendingIO, tracks, used, none, Fires \cup Retries, delayed, queue, t, used)
  BY <1>1, <1>5, <1>6, <1>7, <1>8 DEF OrderInv, Decides
<1>10. /\ queue \in Seq(IO) /\ QueueOrder(queue)
       /\ TrackOrder(t, queue) /\ OwnPointers(t, used) /\ KnownPointers(queue, used)
  BY <1>z, DecisionsKeepOrder
<1>11. /\ judged(ref) \in [Raises \cup Ends -> IO]
       /\ \A d \in Raises : /\ judged(ref)[d].def = d /\ judged(ref)[d].status = "ACTIVE"
                            /\ judged(ref)[d].notify /\ judged(ref)[d].ref = ref[d]
       /\ \A d \in Ends : /\ judged(ref)[d].def = d /\ judged(ref)[d].status = "CLEARED"
                          /\ judged(ref)[d].notify /\ judged(ref)[d].ref = tracks[d].ref
  <2>1. \A d \in Raises : Raising(d, ref[d]) \in IO /\ d \notin Ends
    BY <1>2, <1>5, ConstructorTypes DEF Raising
  <2>2. \A d \in Ends : Clearing(d, TRUE) \in IO
    BY <1>2, TrackActions
  <2>3. judged(ref) \in [Raises \cup Ends -> IO]
    BY <2>1, <2>2
  <2>4. \A d \in Raises : judged(ref)[d] = Raising(d, ref[d])
    OBVIOUS
  <2>5. \A d \in Ends : judged(ref)[d] = Clearing(d, TRUE)
    BY <2>1
  <2> HIDE DEF judged
  <2> QED BY <2>3, <2>4, <2>5 DEF Raising, Clearing, MakeIO
<1>12. \A d \in Defs : Decision(t, tracks', ref, Raises \cup Ends, judged(ref), d)
  <2> TAKE d \in Defs
  <2> HIDE DEF judged
  <2>0. DOMAIN ref = Raises
    BY <1>5
  <2>1. CASE d \in Fires
    <3>1. tracks'[d] = Fired(tracks[d].since, FiredAt(d), tracks[d].ref, NextRetry(now))
      BY <1>1, <1>2, <2>1
    <3>2. d \notin Raises /\ d \notin Ends
      BY <1>2, <2>1
    <3>3. tracks'[d].phase = "triggered" /\ tracks'[d].ref = tracks[d].ref
      BY <3>1 DEF Fired
    <3> QED BY <1>9, <2>1, <3>2, <3>3 DEF Decision
  <2>2. CASE d \in Raises
    <3>1. d \notin Fires /\ d \notin Retries /\ d \notin Ends
      BY <1>2, <2>2
    <3>2. tracks'[d] = Fired(now, now, ref[d], NextRetry(now))
      BY <1>1, <2>2, <3>1
    <3>3. tracks'[d].phase = "triggered" /\ tracks'[d].ref = ref[d]
      BY <3>2 DEF Fired
    <3>4. t[d].phase = "none"
      BY <1>2, <1>9, <2>2, <3>1 DEF Tracking
    <3> QED BY <1>11, <2>0, <2>2, <3>3, <3>4 DEF Decision
  <2>3. CASE d \in Ends
    <3>1. d \notin Fires /\ d \notin Raises
      BY <1>2, <2>3
    <3>2. tracks'[d] = NoTrack
      BY <1>1, <2>3, <3>1
    <3>3. t[d] = tracks[d] /\ tracks[d].phase = "triggered"
      BY <1>4, <1>9, <2>3, <3>1
    <3> QED BY <1>11, <2>3, <3>2, <3>3 DEF Decision, NoTrack
  <2>4. CASE d \in Retries \ Ends
    <3>1. d \notin Fires /\ d \notin Raises
      BY <1>2, <2>4
    <3>2. tracks'[d] = [tracks[d] EXCEPT !.retryAt = NextRetry(now)]
      BY <1>1, <2>4, <3>1
    <3>3. tracks'[d].phase = tracks[d].phase /\ tracks'[d].ref = tracks[d].ref
      BY <1>3, <3>2 DEF Track
    <3> QED BY <1>9, <2>4, <3>1, <3>3 DEF Decision
  <2>5. CASE d \notin Fires \cup Raises \cup Ends \cup Retries
    <3>1. tracks'[d] = tracks[d]
      BY <1>1, <2>5
    <3> QED BY <1>9, <2>5, <3>1 DEF Decision
  <2> QED BY <2>1, <2>2, <2>3, <2>4, <2>5
<1> DEFINE q == pendingIO'
<1>13. q \in QueueIO(queue, judged(ref)) /\ Raises \cup Ends \in SUBSET Defs /\ Raises \in SUBSET Defs
       /\ used' = used \cup {ref[d] : d \in Raises}
  BY <1>1, <1>2
<1> HIDE DEF judged, q
<1>14. Decides(queue, t, used, ref, Raises \cup Ends, judged(ref), q, tracks', used')
  BY <1>5, <1>10, <1>11, <1>12, <1>13 DEF Decides
<1>15. Decided(pendingIO, tracks, used, queue, t, used) /\ Decided(queue, t, used, q, tracks', used')
  BY <1>z, <1>14 DEF Decided
<1> QED BY <1>15 DEF q

LEMMA TickOrder ==
  ASSUME TypeInv, OrderInv, tickDelays
  PROVE  OrderInv'
<1> DEFINE q == pendingIO'
<1>1. PICK q1, t1 : /\ Decided(pendingIO, tracks, used, q1, t1, used)
                    /\ Decided(q1, t1, used, q, tracks', used')
  BY TickDecides
<1>2. /\ q \in Seq(IO) /\ QueueOrder(q)
      /\ TrackOrder(tracks', q) /\ OwnPointers(tracks', used') /\ KnownPointers(q, used')
  BY <1>1, DecisionsKeepOrder DEF Decided
<1>3. /\ UNCHANGED <<published, act>> /\ restored' = restored
      /\ pc' = [pc EXCEPT ![Ticker] = "drain"] /\ pc[Ticker] = "idle"
  BY DEF tickDelays, Goto
<1>4. \A c \in Callers : (InHand(c)' <=> InHand(c)) /\ (pc'[c] = "notify" => pc[c] = "notify")
  BY <1>3 DEF InHand, TypeInv, TypeOK
<1>5. pendingIO' = q
  OBVIOUS
<1> HIDE DEF q
<1> QED BY <1>2, <1>3, <1>4, <1>5, StreamStays

(* An action that goes from the queue to the drainer, and from there to    *)
(* the operator, is announced throughout.                                  *)
LEMMA TracksFollow ==
  ASSUME OrderInv, UNCHANGED <<tracks, used, restored>>,
         \A r, st : Announced(pendingIO, r, st) <=> Announced(pendingIO, r, st)'
  PROVE  TrackOrder(tracks, pendingIO)' /\ OwnPointers(tracks, used)' /\ KnownPointers(pendingIO, used)'
<1>1. TrackOrder(tracks, pendingIO)'
  BY DEF OrderInv, TrackOrder, isHealthAlarm
<1>2. OwnPointers(tracks, used)'
  BY DEF OrderInv, OwnPointers
<1>3. KnownPointers(pendingIO, used)'
  BY DEF OrderInv, KnownPointers
<1> QED BY <1>1, <1>2, <1>3

(* The head of the queue, taken in hand, still comes after what is         *)
(* published and before the rest of the queue.                             *)
LEMMA TakeOrder ==
  ASSUME TypeInv, DrainInv, OrderInv, NEW c \in Callers, DrainTake(c)
  PROVE  OrderInv'
<1> DEFINE q == pendingIO
           L == Len(pendingIO)
<1>1. /\ pendingIO # <<>> /\ pendingIO' = Tail(pendingIO) /\ act' = [act EXCEPT ![c] = Head(pendingIO)]
      /\ pc' = [pc EXCEPT ![c] = "exec"] /\ UNCHANGED <<published, tracks, used, restored>>
  BY DEF DrainTake, Goto, trackVars
<1>2. /\ L \in Nat \ {0} /\ DOMAIN pendingIO = 1..L /\ \A k \in 1..L : pendingIO[k] \in IO
      /\ Head(pendingIO) = pendingIO[1]
      /\ DOMAIN pendingIO' = 1..(L - 1) /\ \A k \in 1..(L - 1) : pendingIO'[k] = pendingIO[k + 1]
  <2>1. pendingIO \in Seq(IO)
    BY DEF TypeInv, TypeOK
  <2> QED BY <1>1, <2>1, HeadTailProperties, EmptySeq, LenProperties, ElementOfSeq
<1>3. /\ \A e \in Callers : ~InHand(e)
      /\ \A e \in Callers : InHand(e)' <=> e = c
      /\ act'[c] = pendingIO[1] /\ pc'[c] = "exec"
  <2>1. \A e \in Callers : InHand(e) => Draining(e)
    BY DEF InHand, Draining
  <2>2. ~InHand(c)
    BY DEF DrainTake, AtQueue, InHand
  <2>3. \A e \in Callers : ~InHand(e)
    BY <2>1, <2>2, AtQueueAlone DEF DrainTake
  <2> QED BY <1>1, <1>2, <2>3 DEF InHand, TypeInv, TypeOK
<1> HIDE DEF L
<1>4. \A r, st : Announced(pendingIO, r, st) <=> Announced(pendingIO, r, st)'
  <2> TAKE r, st
  <2>1. ASSUME NEW k \in 1..L, pendingIO[k].notify, pendingIO[k].ref = r, pendingIO[k].status = st
        PROVE  Announced(pendingIO, r, st)'
    <3>1. CASE k = 1
      BY <1>3, <2>1, <3>1 DEF Announced
    <3>2. CASE k # 1
      <4>1. k - 1 \in 1..(L - 1) /\ (k - 1) + 1 = k
        BY <1>2, <3>2
      <4>2. pendingIO'[k - 1] = pendingIO[k]
        BY <1>2, <4>1
      <4> QED BY <1>2, <2>1, <4>1, <4>2 DEF Announced
    <3> QED BY <3>1, <3>2
  <2>2. ASSUME NEW k \in 1..(L - 1), pendingIO'[k].notify, pendingIO'[k].ref = r, pendingIO'[k].status = st
        PROVE  Announced(pendingIO, r, st)
    <3>1. k + 1 \in 1..L /\ pendingIO'[k] = pendingIO[k + 1]
      BY <1>2
    <3> QED BY <1>2, <2>2, <3>1 DEF Announced
  <2>3. ASSUME NEW e \in Callers, InHand(e)', act'[e].notify, act'[e].ref = r, act'[e].status = st
        PROVE  Announced(pendingIO, r, st)
    <3>1. e = c /\ 1 \in 1..L
      BY <1>2, <1>3, <2>3
    <3> QED BY <1>2, <1>3, <2>3, <3>1 DEF Announced
  <2>4. Announced(pendingIO, r, st) => Announced(pendingIO, r, st)'
    <3> SUFFICES ASSUME Announced(pendingIO, r, st) PROVE Announced(pendingIO, r, st)'
      OBVIOUS
    <3>1. CASE \E i \in DOMAIN published : published[i].ref = r /\ published[i].status = st
      BY <1>1, <3>1 DEF Announced
    <3>2. CASE \E k \in 1..L : pendingIO[k].notify /\ pendingIO[k].ref = r /\ pendingIO[k].status = st
      BY <2>1, <3>2
    <3> QED BY <1>2, <1>3, <3>1, <3>2 DEF Announced
  <2>5. Announced(pendingIO, r, st)' => Announced(pendingIO, r, st)
    <3> SUFFICES ASSUME Announced(pendingIO, r, st)' PROVE Announced(pendingIO, r, st)
      OBVIOUS
    <3>1. CASE \E i \in DOMAIN published : published[i].ref = r /\ published[i].status = st
      BY <3>1 DEF Announced
    <3>2. CASE \E k \in 1..(L - 1) : pendingIO'[k].notify /\ pendingIO'[k].ref = r /\ pendingIO'[k].status = st
      BY <2>2, <3>2
    <3>3. CASE \E e \in Callers : InHand(e)' /\ act'[e].notify /\ act'[e].ref = r /\ act'[e].status = st
      BY <2>3, <3>3
    <3> QED BY <1>1, <1>2, <3>1, <3>2, <3>3 DEF Announced
  <2> QED BY <2>4, <2>5
<1>5. TrackOrder(tracks, pendingIO)' /\ OwnPointers(tracks, used)' /\ KnownPointers(pendingIO, used)'
  BY <1>1, <1>4, TracksFollow
<1>6. AnnouncedInOrder'
  BY <1>1 DEF OrderInv, AnnouncedInOrder
<1>7. HandOrder'
  <2>1. 1 \in 1..L /\ 1..(1 - 1) = {}
    BY <1>2
  <2>2. /\ pendingIO[1].notify => \A i \in DOMAIN published : published[i].ref = pendingIO[1].ref =>
             published[i].status = "ACTIVE" /\ pendingIO[1].status = "CLEARED"
        /\ pendingIO[1].status = "CLEARED" =>
             /\ pendingIO[1].notify
             /\ pendingIO[1].ref \in restored \/ \E i \in DOMAIN published : published[i].ref = pendingIO[1].ref
    BY <1>2, <1>3, <2>1 DEF OrderInv, QueueOrder
  <2> QED BY <1>1, <1>3, <2>2 DEF HandOrder
<1>8. QueueOrder(pendingIO)'
  <2> SUFFICES ASSUME NEW k \in 1..(L - 1)
               PROVE
    /\ pendingIO'[k].notify =>
         /\ \A i \in DOMAIN published' : published'[i].ref = pendingIO'[k].ref =>
              published'[i].status = "ACTIVE" /\ pendingIO'[k].status = "CLEARED"
         /\ \A e \in Callers : InHand(e)' /\ act'[e].notify /\ act'[e].ref = pendingIO'[k].ref =>
              act'[e].status = "ACTIVE" /\ pendingIO'[k].status = "CLEARED"
         /\ \A j \in 1..(k - 1) : pendingIO'[j].notify /\ pendingIO'[j].ref = pendingIO'[k].ref =>
              pendingIO'[j].status = "ACTIVE" /\ pendingIO'[k].status = "CLEARED"
    /\ pendingIO'[k].status = "CLEARED" =>
         /\ pendingIO'[k].notify
         /\ \/ pendingIO'[k].ref \in restored'
            \/ \E i \in DOMAIN published' : published'[i].ref = pendingIO'[k].ref
            \/ \E e \in Callers : InHand(e)' /\ act'[e].notify /\ act'[e].ref = pendingIO'[k].ref
            \/ \E j \in 1..(k - 1) : pendingIO'[j].notify /\ pendingIO'[j].ref = pendingIO'[k].ref
    BY <1>2 DEF QueueOrder
  <2>0. pendingIO'[k] = pendingIO[k + 1] /\ published' = published /\ restored' = restored
    BY <1>1, <1>2
  <2> SUFFICES
    /\ pendingIO[k + 1].notify =>
         /\ \A i \in DOMAIN published : published[i].ref = pendingIO[k + 1].ref =>
              published[i].status = "ACTIVE" /\ pendingIO[k + 1].status = "CLEARED"
         /\ \A e \in Callers : InHand(e)' /\ act'[e].notify /\ act'[e].ref = pendingIO[k + 1].ref =>
              act'[e].status = "ACTIVE" /\ pendingIO[k + 1].status = "CLEARED"
         /\ \A j \in 1..(k - 1) : pendingIO'[j].notify /\ pendingIO'[j].ref = pendingIO[k + 1].ref =>
              pendingIO'[j].status = "ACTIVE" /\ pendingIO[k + 1].status = "CLEARED"
    /\ pendingIO[k + 1].status = "CLEARED" =>
         /\ pendingIO[k + 1].notify
         /\ \/ pendingIO[k + 1].ref \in restored
            \/ \E i \in DOMAIN published : published[i].ref = pendingIO[k + 1].ref
            \/ \E e \in Callers : InHand(e)' /\ act'[e].notify /\ act'[e].ref = pendingIO[k + 1].ref
            \/ \E j \in 1..(k - 1) : pendingIO'[j].notify /\ pendingIO'[j].ref = pendingIO[k + 1].ref
    BY <2>0
  <2>1. k + 1 \in 1..L /\ 1 \in 1..((k + 1) - 1)
    BY <1>2
  <2>2. \A j \in 1..(k - 1) : j + 1 \in 1..((k + 1) - 1) /\ pendingIO'[j] = pendingIO[j + 1]
    BY <1>2
  <2>3. \A j \in 1..((k + 1) - 1) : j = 1 \/ (j - 1 \in 1..(k - 1) /\ pendingIO'[j - 1] = pendingIO[j])
    <3> TAKE j \in 1..((k + 1) - 1)
    <3>1. j # 1 => j - 1 \in 1..(k - 1) /\ j - 1 \in 1..(L - 1) /\ (j - 1) + 1 = j
      BY <1>2
    <3> QED BY <1>2, <3>1
  <2> DEFINE x == pendingIO[k + 1]
  <2>4. /\ x.notify =>
             /\ \A i \in DOMAIN published : published[i].ref = x.ref =>
                  published[i].status = "ACTIVE" /\ x.status = "CLEARED"
             /\ \A j \in 1..((k + 1) - 1) : pendingIO[j].notify /\ pendingIO[j].ref = x.ref =>
                  pendingIO[j].status = "ACTIVE" /\ x.status = "CLEARED"
        /\ x.status = "CLEARED" =>
             /\ x.notify
             /\ \/ x.ref \in restored
                \/ \E i \in DOMAIN published : published[i].ref = x.ref
                \/ \E j \in 1..((k + 1) - 1) : pendingIO[j].notify /\ pendingIO[j].ref = x.ref
    BY <1>2, <1>3, <2>1 DEF OrderInv, QueueOrder
  <2> HIDE DEF x
  <2>5. x.notify => \A e \in Callers : InHand(e)' /\ act'[e].notify /\ act'[e].ref = x.ref =>
              act'[e].status = "ACTIVE" /\ x.status = "CLEARED"
    BY <1>3, <2>1, <2>4
  <2>6. x.notify => \A j \in 1..(k - 1) : pendingIO'[j].notify /\ pendingIO'[j].ref = x.ref =>
              pendingIO'[j].status = "ACTIVE" /\ x.status = "CLEARED"
    BY <2>2, <2>4
  <2>7. ASSUME NEW j \in 1..((k + 1) - 1), pendingIO[j].notify, pendingIO[j].ref = x.ref
        PROVE  \/ \E e \in Callers : InHand(e)' /\ act'[e].notify /\ act'[e].ref = x.ref
               \/ \E i \in 1..(k - 1) : pendingIO'[i].notify /\ pendingIO'[i].ref = x.ref
    BY <1>3, <2>3, <2>7
  <2> QED BY <2>4, <2>5, <2>6, <2>7 DEF x
<1> QED BY <1>5, <1>6, <1>7, <1>8 DEF OrderInv

(* The write of an action: what is to be told stays in hand, and a silent  *)
(* one was never announced.                                                *)
LEMMA PersistOrder ==
  ASSUME TypeInv, DrainInv, OrderInv, NEW c \in Callers, PersistActive(c) \/ PersistCleared(c)
  PROVE  OrderInv'
<1>1. /\ pc[c] = "exec" /\ pc' = [pc EXCEPT ![c] = IF act[c].notify THEN "notify" ELSE "loop"]
      /\ UNCHANGED <<pendingIO, act, published, tracks, used, restored>>
  BY DEF PersistActive, PersistCleared, Persisted, Goto, drainVars, trackVars
<1>2. \A e \in Callers : (InHand(e) /\ act[e].notify) <=> (InHand(e)' /\ act[e].notify)
  BY <1>1 DEF InHand, TypeInv, TypeOK
<1>3. \A e \in Callers : (InHand(e)' => InHand(e)) /\ (pc'[e] = "notify" => pc[e] = "notify" \/ act[e].notify)
  BY <1>1 DEF InHand, TypeInv, TypeOK
<1>4. \A r, st : Announced(pendingIO, r, st) <=> Announced(pendingIO, r, st)'
  BY <1>1, <1>2 DEF Announced
<1>5. TrackOrder(tracks, pendingIO)' /\ OwnPointers(tracks, used)' /\ KnownPointers(pendingIO, used)'
  BY <1>1, <1>4, TracksFollow
<1>6. AnnouncedInOrder'
  BY <1>1 DEF OrderInv, AnnouncedInOrder
<1>7. HandOrder'
  BY <1>1, <1>3 DEF OrderInv, HandOrder
<1>8. QueueOrder(pendingIO)'
  BY <1>1, <1>2 DEF OrderInv, QueueOrder
<1> QED BY <1>5, <1>6, <1>7, <1>8 DEF OrderInv

(* What was in hand is published last: everything told before it was told  *)
(* in order, and the queue comes after it.                                 *)
LEMMA NotifyOrder ==
  ASSUME TypeInv, DrainInv, OrderInv, NEW c \in Callers, Notify(c)
  PROVE  OrderInv'
<1> DEFINE e == [ref |-> act[c].ref, def |-> act[c].def, status |-> act[c].status, id |-> ids[act[c].ref], at |-> now]
           L == Len(published)
<1>1. /\ pc[c] = "notify" /\ pc' = [pc EXCEPT ![c] = "loop"] /\ published' = Append(published, e)
      /\ UNCHANGED <<pendingIO, act, tracks, used, restored>>
  BY DEF Notify, Goto, drainVars, trackVars
<1>2. e.ref = act[c].ref /\ e.status = act[c].status
  OBVIOUS
<1> HIDE DEF e
<1>3. /\ L \in Nat /\ DOMAIN published = 1..L /\ DOMAIN published' = 1..(L + 1)
      /\ \A i \in 1..L : published'[i] = published[i]
      /\ published'[L + 1] = e
  <2>1. published \in Seq(Event)
    BY DEF TypeInv, TypeOK
  <2> QED BY <1>1, <2>1, AppendProperties, LenProperties
<1> HIDE DEF L
<1>4. /\ InHand(c) /\ act[c].notify
      /\ \A x \in Callers : InHand(x) => x = c
      /\ \A x \in Callers : ~InHand(x)'
  <2>1. InHand(c) /\ act[c].notify
    BY <1>1 DEF InHand, OrderInv, HandOrder
  <2>2. \A x \in Callers : InHand(x) => x = c
    BY <2>1 DEF InHand, DrainInv, SingleDrainer, Draining
  <2>3. \A x \in Callers : ~InHand(x)'
    BY <1>1, <2>2 DEF InHand, TypeInv, TypeOK
  <2> QED BY <2>1, <2>2, <2>3
<1>5. \A i \in 1..(L + 1) : i \in 1..L \/ i = L + 1
  BY <1>3
<1>6. \A r, st : Announced(pendingIO, r, st) <=> Announced(pendingIO, r, st)'
  <2> TAKE r, st
  <2>1. Announced(pendingIO, r, st) => Announced(pendingIO, r, st)'
    <3>1. ASSUME NEW i \in 1..L, published[i].ref = r, published[i].status = st
          PROVE  \E j \in DOMAIN published' : published'[j].ref = r /\ published'[j].status = st
      <4>1. i \in 1..(L + 1)
        BY <1>3
      <4> QED BY <1>3, <3>1, <4>1
    <3>2. ASSUME NEW x \in Callers, InHand(x), act[x].ref = r, act[x].status = st
          PROVE  \E j \in DOMAIN published' : published'[j].ref = r /\ published'[j].status = st
      <4>1. L + 1 \in 1..(L + 1) /\ x = c
        BY <1>3, <1>4, <3>2
      <4> QED BY <1>2, <1>3, <3>2, <4>1
    <3> QED BY <1>1, <1>3, <3>1, <3>2 DEF Announced
  <2>2. Announced(pendingIO, r, st)' => Announced(pendingIO, r, st)
    <3>1. ASSUME NEW j \in 1..(L + 1), published'[j].ref = r, published'[j].status = st
          PROVE  Announced(pendingIO, r, st)
      <4>1. CASE j \in 1..L
        BY <1>3, <3>1, <4>1 DEF Announced
      <4>2. CASE j = L + 1
        BY <1>2, <1>3, <1>4, <3>1, <4>2 DEF Announced
      <4> QED BY <1>5, <4>1, <4>2
    <3> QED BY <1>1, <1>3, <1>4, <3>1 DEF Announced
  <2> QED BY <2>1, <2>2
<1>7. TrackOrder(tracks, pendingIO)' /\ OwnPointers(tracks, used)' /\ KnownPointers(pendingIO, used)'
  BY <1>1, <1>6, TracksFollow
<1>8. /\ \A i \in 1..L : published[i].ref = e.ref => published[i].status = "ACTIVE" /\ e.status = "CLEARED"
      /\ e.status = "CLEARED" => e.ref \in restored \/ \E i \in 1..L : published[i].ref = e.ref
  BY <1>2, <1>3, <1>4 DEF OrderInv, HandOrder
<1>9. AnnouncedInOrder'
  <2> SUFFICES ASSUME NEW j \in 1..(L + 1)
               PROVE  /\ \A i \in 1..(j - 1) : published'[i].ref = published'[j].ref =>
                           published'[i].status = "ACTIVE" /\ published'[j].status = "CLEARED"
                      /\ published'[j].status = "CLEARED" =>
                           published'[j].ref \in restored \/ \E i \in 1..(j - 1) : published'[i].ref = published'[j].ref
    BY <1>1, <1>3 DEF AnnouncedInOrder
  <2>1. CASE j \in 1..L
    <3>1. /\ published'[j] = published[j]
          /\ \A i \in 1..(j - 1) : i \in 1..L /\ published'[i] = published[i]
      BY <1>3, <2>1
    <3> QED BY <1>3, <2>1, <3>1 DEF OrderInv, AnnouncedInOrder
  <2>2. CASE j = L + 1
    <3>1. 1..(j - 1) = 1..L /\ published'[j] = e
      BY <1>3, <2>2
    <3> QED BY <1>3, <1>8, <3>1
  <2> QED BY <1>5, <2>1, <2>2
<1>10. HandOrder'
  BY <1>4 DEF HandOrder, InHand
<1>11. QueueOrder(pendingIO)'
  <2> SUFFICES ASSUME NEW k \in DOMAIN pendingIO
               PROVE
    /\ pendingIO[k].notify =>
         /\ \A i \in DOMAIN published' : published'[i].ref = pendingIO[k].ref =>
              published'[i].status = "ACTIVE" /\ pendingIO[k].status = "CLEARED"
         /\ \A x \in Callers : InHand(x)' /\ act[x].notify /\ act[x].ref = pendingIO[k].ref =>
              act[x].status = "ACTIVE" /\ pendingIO[k].status = "CLEARED"
         /\ \A j \in 1..(k - 1) : pendingIO[j].notify /\ pendingIO[j].ref = pendingIO[k].ref =>
              pendingIO[j].status = "ACTIVE" /\ pendingIO[k].status = "CLEARED"
    /\ pendingIO[k].status = "CLEARED" =>
         /\ pendingIO[k].notify
         /\ \/ pendingIO[k].ref \in restored
            \/ \E i \in DOMAIN published' : published'[i].ref = pendingIO[k].ref
            \/ \E x \in Callers : InHand(x)' /\ act[x].notify /\ act[x].ref = pendingIO[k].ref
            \/ \E j \in 1..(k - 1) : pendingIO[j].notify /\ pendingIO[j].ref = pendingIO[k].ref
    BY <1>1 DEF QueueOrder
  <2> DEFINE x == pendingIO[k]
  <2>1. /\ x.notify =>
             /\ \A i \in 1..L : published[i].ref = x.ref => published[i].status = "ACTIVE" /\ x.status = "CLEARED"
             /\ act[c].ref = x.ref => act[c].status = "ACTIVE" /\ x.status = "CLEARED"
             /\ \A j \in 1..(k - 1) : pendingIO[j].notify /\ pendingIO[j].ref = x.ref =>
                  pendingIO[j].status = "ACTIVE" /\ x.status = "CLEARED"
        /\ x.status = "CLEARED" =>
             /\ x.notify
             /\ \/ x.ref \in restored
                \/ \E i \in 1..L : published[i].ref = x.ref
                \/ act[c].ref = x.ref
                \/ \E j \in 1..(k - 1) : pendingIO[j].notify /\ pendingIO[j].ref = x.ref
    BY <1>3, <1>4 DEF OrderInv, QueueOrder
  <2> HIDE DEF x
  <2>2. x.notify => \A i \in 1..(L + 1) : published'[i].ref = x.ref =>
              published'[i].status = "ACTIVE" /\ x.status = "CLEARED"
    BY <1>2, <1>3, <1>5, <2>1
  <2>3. (\E i \in 1..L : published[i].ref = x.ref) \/ act[c].ref = x.ref
           => \E i \in 1..(L + 1) : published'[i].ref = x.ref
    <3>1. \A i \in 1..L : i \in 1..(L + 1) /\ published'[i] = published[i]
      BY <1>3
    <3>2. L + 1 \in 1..(L + 1) /\ published'[L + 1].ref = act[c].ref
      BY <1>2, <1>3
    <3> QED BY <3>1, <3>2
  <2> QED BY <1>3, <1>4, <2>1, <2>2, <2>3 DEF x
<1> QED BY <1>7, <1>9, <1>10, <1>11 DEF OrderInv

--------------------------------------------------------------------------------
(* The drainer leaves: nothing is in its hands, before and after.          *)
LEMMA DoneOrder ==
  ASSUME TypeInv, DrainInv, OrderInv, NEW c \in Callers, DrainDone(c)
  PROVE  OrderInv'
<1>1. /\ pc' = [pc EXCEPT ![c] = "idle"]
      /\ UNCHANGED <<pendingIO, published, tracks, used, restored>>
  BY DEF DrainDone, Goto, trackVars
<1>2. \A e \in Callers : ~InHand(e) /\ ~InHand(e)'
  <2>1. ~InHand(c)
    BY DEF DrainDone, AtQueue, InHand
  <2>2. \A e \in Callers : InHand(e) => Draining(e)
    BY DEF InHand, Draining
  <2>3. \A e \in Callers : ~InHand(e)
    BY <2>1, <2>2, AtQueueAlone DEF DrainDone
  <2> QED BY <1>1, <2>3 DEF InHand, TypeInv, TypeOK
<1>3. \A r, st : Announced(pendingIO, r, st) <=> Announced(pendingIO, r, st)'
  BY <1>1, <1>2 DEF Announced
<1>4. TrackOrder(tracks, pendingIO)' /\ OwnPointers(tracks, used)' /\ KnownPointers(pendingIO, used)'
  BY <1>1, <1>3, TracksFollow
<1>5. AnnouncedInOrder'
  BY <1>1 DEF OrderInv, AnnouncedInOrder
<1>6. HandOrder'
  BY <1>2 DEF HandOrder
<1>7. QueueOrder(pendingIO)'
  BY <1>1, <1>2 DEF OrderInv, QueueOrder
<1> QED BY <1>4, <1>5, <1>6, <1>7 DEF OrderInv

(* A step that leaves the stream and the tracks alone. *)
LEMMA QuietOrder ==
  ASSUME OrderInv, UNCHANGED <<pendingIO, published, act, tracks, used, restored>>,
         \A c \in Callers : (InHand(c)' <=> InHand(c)) /\ (pc'[c] = "notify" => pc[c] = "notify")
  PROVE  OrderInv'
<1> DEFINE q == pendingIO
<1>1. /\ QueueOrder(q) /\ TrackOrder(tracks', q) /\ OwnPointers(tracks', used') /\ KnownPointers(q, used')
      /\ pendingIO' = q /\ UNCHANGED <<published, act>> /\ restored' = restored
  BY DEF OrderInv
<1> HIDE DEF q
<1> QED BY <1>1, StreamStays

(* A restart takes up rows under new pointers, which nothing tells of. *)
LEMMA NewManagerOrder ==
  ASSUME TypeInv, OrderInv, NewManager
  PROVE  OrderInv'
<1>1. PICK D \in {{d \in definitions' : RestorableRows(d) # {}}}
                 \cup (IF "query" \in Env THEN {{}} ELSE {}) :
      \E ref \in NewRefs(D), row \in [D -> DOMAIN rows] :
        /\ tracks' = [d \in Defs |->
             IF d \in D THEN Fired(rows[row[d]].trig, rows[row[d]].trig, ref[d], 0) ELSE NoTrack]
        /\ used' = used \cup {ref[d] : d \in D}
        /\ restored' = restored \cup {ref[d] : d \in D}
  BY DEF NewManager
<1>2. PICK ref \in NewRefs(D), row \in [D -> DOMAIN rows] :
        /\ tracks' = [d \in Defs |->
             IF d \in D THEN Fired(rows[row[d]].trig, rows[row[d]].trig, ref[d], 0) ELSE NoTrack]
        /\ used' = used \cup {ref[d] : d \in D}
        /\ restored' = restored \cup {ref[d] : d \in D}
  BY <1>1
<1>3. UNCHANGED <<pendingIO, act, pc, published>>
  BY DEF NewManager, drainVars
<1>4. ref \in [D -> Refs \ used] /\ \A d, e \in D : ref[d] = ref[e] => d = e
  BY <1>2 DEF NewRefs
<1>5. /\ \A d \in Defs \cap D : tracks'[d].phase = "triggered" /\ tracks'[d].ref = ref[d]
      /\ \A d \in Defs \ D : tracks'[d].phase = "none"
  BY <1>2 DEF Fired, NoTrack
<1>6. \A r, st : Announced(pendingIO, r, st) <=> Announced(pendingIO, r, st)'
  BY <1>3 DEF Announced, InHand
<1>7. \A d \in D : ref[d] \in Refs /\ ~Announced(pendingIO, ref[d], "CLEARED")
  BY <1>4 DEF OrderInv, KnownPointers
<1>8. restored \subseteq restored' /\ used \subseteq used' /\ \A d \in D : ref[d] \in restored' /\ ref[d] \in used'
  BY <1>2
<1>9. AnnouncedInOrder'
  BY <1>3, <1>8 DEF OrderInv, AnnouncedInOrder
<1>10. HandOrder'
  BY <1>3, <1>8 DEF OrderInv, HandOrder, InHand
<1>11. QueueOrder(pendingIO)'
  BY <1>3, <1>8 DEF OrderInv, QueueOrder, InHand
<1>12. TrackOrder(tracks, pendingIO)'
  <2> SUFFICES ASSUME NEW d \in Defs
               PROVE  /\ tracks'[d].phase = "pending" =>
                           ~isHealthAlarm(d) /\ \A status \in {"ACTIVE", "CLEARED"} : ~Announced(pendingIO, tracks[d].ref, status)'
                      /\ tracks'[d].phase = "triggered" =>
                           /\ ~Announced(pendingIO, tracks[d].ref, "CLEARED")'
                           /\ tracks'[d].ref \in restored' \/ Announced(pendingIO, tracks[d].ref, "ACTIVE")'
    BY DEF TrackOrder, isHealthAlarm
  <2>1. CASE d \in D
    <3>1. tracks'[d].phase = "triggered" /\ tracks'[d].ref = ref[d]
      BY <1>5, <2>1
    <3>2. ~Announced(pendingIO, ref[d], "CLEARED")
      BY <1>7, <2>1
    <3>3. ~Announced(pendingIO, tracks[d].ref, "CLEARED")'
      BY <1>3, <3>1, <3>2 DEF Announced, InHand
    <3> QED BY <1>8, <2>1, <3>1, <3>3
  <2>2. CASE d \notin D
    BY <1>5, <2>2
  <2> QED BY <2>1, <2>2
<1>13. OwnPointers(tracks, used)'
  BY <1>4, <1>5, <1>8 DEF OwnPointers
<1>14. KnownPointers(pendingIO, used)'
  BY <1>6, <1>8 DEF OrderInv, KnownPointers
<1> QED BY <1>9, <1>10, <1>11, <1>12, <1>13, <1>14 DEF OrderInv

(* A crash forgets all but what is published. *)
LEMMA CrashOrder ==
  ASSUME TypeInv, OrderInv, Crash
  PROVE  OrderInv'
<1>1. /\ pendingIO' = <<>> /\ UNCHANGED <<published, used, restored>>
      /\ \A c \in Callers : ~InHand(c)'
      /\ \A d \in Defs : tracks'[d].phase = "none"
  BY DEF Crash, InHand, NoTrack
<1>2. DOMAIN pendingIO' = {}
  BY <1>1
<1>3. AnnouncedInOrder'
  BY <1>1 DEF OrderInv, AnnouncedInOrder
<1>4. HandOrder' /\ QueueOrder(pendingIO)'
  BY <1>1, <1>2 DEF HandOrder, QueueOrder
<1>5. TrackOrder(tracks, pendingIO)' /\ OwnPointers(tracks, used)'
  BY <1>1 DEF TrackOrder, OwnPointers
<1>6. KnownPointers(pendingIO, used)'
  BY <1>1, <1>2 DEF OrderInv, KnownPointers, Announced
<1> QED BY <1>3, <1>4, <1>5, <1>6 DEF OrderInv

(* Without past readings, no goroutine is inside a batch. *)
LEMMA NoBatchStep ==
  ASSUME TypeInv, MuFree, "series" \notin Env, [Next]_vars
  PROVE  /\ MuFree'
         /\ \A w \in Workers : ~(\E tag : SeriesBegin(w, tag)) /\ ~BatchStep(w)
<1>1. \A w \in Workers : ~(\E tag : SeriesBegin(w, tag)) /\ ~BatchStep(w)
  <2>1. \A w \in Workers : pc[w] # "batch"
    BY DEF MuFree, Callers
  <2>2. \A w \in Workers : ~(\E tag : SeriesBegin(w, tag))
    BY DEF SeriesBegin
  <2>3. \A w \in Workers : ~SeriesEnd(w)
    BY <2>1 DEF SeriesEnd
  <2>4. \A w \in Workers : \A v, at : ~SeriesPoint(w, v, at)
    BY <2>1, ZenonT(40) DEF SeriesPoint
  <2> QED BY <2>2, <2>3, <2>4 DEF BatchStep
<1> DEFINE To(where) == \E c \in Callers : pc' = [pc EXCEPT ![c] = where]
<1>2. Workers \subseteq Callers /\ Ticker \in Callers /\ Reloader \in Callers
  BY DEF Callers
<1>3. ASSUME NEW w \in Workers, WorkerStep(w) PROVE To("drain")
  <2>1. PICK tag \in Tags, v \in Values, at \in ReadingTimes, life \in BOOLEAN : evaluateAt(w, tag, v, at, life)
    BY <1>1, <1>3 DEF WorkerStep
  <2>2. pc' = [pc EXCEPT ![w] = "drain"]
    BY <2>1 DEF evaluateAt, Goto
  <2> QED BY <1>2, <2>2
<1>4. CASE tickDelays \/ LoadApply
  <2>1. To("drain")
    BY <1>2, <1>4 DEF tickDelays, LoadApply, Goto
  <2> QED BY <1>1, <2>1 DEF MuFree, TypeInv, TypeOK
<1>5. ASSUME NEW c \in Callers, DrainStep(c)
      PROVE  \E where \in {"idle", "exec", "notify", "loop"} : pc' = [pc EXCEPT ![c] = where]
  BY <1>5 DEF DrainStep, DrainBusy, DrainTake, DrainDone, PersistActive, PersistCleared, Notify, Persisted, Goto
<1>6. CASE LoadQuery
  <2>1. UNCHANGED pc \/ To("loaded")
    BY <1>2, <1>6 DEF LoadQuery, Goto
  <2> QED BY <1>1, <2>1 DEF MuFree, TypeInv, TypeOK
<1>7. CASE Crash
  BY <1>1, <1>7 DEF MuFree, Crash
<1>8. CASE NewManager \/ OperatorNext \/ AdvanceClock \/ UNCHANGED vars
  BY <1>1, <1>8 DEF MuFree, NewManager, OperatorNext, SaveTagAlarmConfig, AcknowledgeAlarm, AdvanceClock, vars
<1>9. CASE \E w \in Workers : WorkerStep(w)
  BY <1>1, <1>3, <1>9 DEF MuFree, TypeInv, TypeOK
<1>10. CASE \E c \in Callers : DrainStep(c)
  BY <1>1, <1>5, <1>10 DEF MuFree, TypeInv, TypeOK
<1> QED BY <1>4, <1>6, <1>7, <1>8, <1>9, <1>10 DEF Next, ManagerNext

(* No step breaks OrderInv: one case per action. *)
LEMMA OrderInvStep ==
  ASSUME TypeInv, DrainInv, MuFree, OrderInv, "series" \notin Env, [Next]_vars
  PROVE  OrderInv'
<1>1. ASSUME NEW w \in Workers, WorkerStep(w) PROVE OrderInv'
  BY <1>1, NoBatchStep, EvaluateOrder DEF WorkerStep
<1>2. CASE LoadQuery
  <2>1. UNCHANGED <<pendingIO, published, act, tracks, used, restored>>
    BY <1>2 DEF LoadQuery, drainVars, trackVars
  <2>2. pc' = pc \/ (pc' = [pc EXCEPT ![Reloader] = "loaded"] /\ pc[Reloader] = "idle")
    BY <1>2 DEF LoadQuery, Goto
  <2>3. \A c \in Callers : (InHand(c)' <=> InHand(c)) /\ (pc'[c] = "notify" => pc[c] = "notify")
    BY <2>2 DEF InHand, TypeInv, TypeOK
  <2> QED BY <2>1, <2>3, QuietOrder
<1>3. ASSUME NEW c \in Callers, DrainBusy(c) PROVE OrderInv'
  <2>1. /\ UNCHANGED <<pendingIO, published, act, tracks, used, restored>>
        /\ pc' = [pc EXCEPT ![c] = "idle"] /\ pc[c] = "drain"
    BY <1>3 DEF DrainBusy, Goto, drainVars, trackVars
  <2>2. \A e \in Callers : (InHand(e)' <=> InHand(e)) /\ (pc'[e] = "notify" => pc[e] = "notify")
    BY <2>1 DEF InHand, TypeInv, TypeOK
  <2> QED BY <2>1, <2>2, QuietOrder
<1>4. ASSUME NEW c \in Callers, DrainStep(c) PROVE OrderInv'
  BY <1>3, <1>4, TakeOrder, DoneOrder, PersistOrder, NotifyOrder DEF DrainStep
<1>5. CASE OperatorNext \/ AdvanceClock \/ UNCHANGED vars
  <2>1. UNCHANGED <<pendingIO, published, act, pc, tracks, used, restored>>
    BY <1>5 DEF OperatorNext, SaveTagAlarmConfig, AcknowledgeAlarm, AdvanceClock, vars, drainVars, trackVars
  <2>2. \A e \in Callers : (InHand(e)' <=> InHand(e)) /\ (pc'[e] = "notify" => pc[e] = "notify")
    BY <2>1 DEF InHand
  <2> QED BY <2>1, <2>2, QuietOrder
<1> QED BY <1>1, <1>2, <1>4, <1>5, TickOrder, LoadApplyOrder, CrashOrder, NewManagerOrder DEF Next, ManagerNext

(* OrderInv is invariant, as long as no batch runs. *)
LEMMA OrderInvHolds ==
  ASSUME "series" \notin Env
  PROVE  Spec => [](OrderInv /\ MuFree)
<1>1. Init => OrderInv /\ MuFree
  <2> SUFFICES ASSUME Init PROVE OrderInv /\ MuFree
    OBVIOUS
  <2>1. /\ pendingIO = <<>> /\ published = <<>> /\ DOMAIN pendingIO = {} /\ DOMAIN published = {}
        /\ \A c \in Callers : ~InHand(c) /\ pc[c] # "batch"
        /\ \A d \in Defs : tracks[d].phase = "none"
    BY DEF Init, InHand, NoTrack
  <2> QED BY <2>1
    DEF OrderInv, AnnouncedInOrder, HandOrder, QueueOrder, TrackOrder, OwnPointers, KnownPointers, Announced, MuFree
<1>2. TypeInv /\ DrainInv /\ (OrderInv /\ MuFree) /\ [Next]_vars => (OrderInv /\ MuFree)'
  BY OrderInvStep, NoBatchStep
<1> QED BY <1>1, <1>2, TypeInvHolds, DrainInvHolds, PTL DEF Spec

(***************************************************************************)
(* Nobody is told of an alarm twice, of the end of one he was not told of, *)
(* or of its end before its start - for any rules, goroutines and order of *)
(* their steps, with statements that fail or take effect unseen, restarts, *)
(* reloads and configuration changes.  Batches of past readings are        *)
(* excluded: they break it (a known alarm that ends, fires and ends again  *)
(* inside of one is announced as ended twice).                             *)
(***************************************************************************)
THEOREM AnnouncedHolds ==
  ASSUME "series" \notin Env
  PROVE  Spec => []AnnouncedInOrder
<1>1. OrderInv => AnnouncedInOrder
  BY DEF OrderInv
<1> QED BY <1>1, OrderInvHolds, PTL

(***************************************************************************)
(* A fired alarm has been notified or its notification is on its way,      *)
(* under the same hypotheses: tickDelays, applyHealth and evaluateAt queue *)
(* the announcement with the track, and executeIO loses none to a failed   *)
(* insert.                                                                 *)
(***************************************************************************)
THEOREM FiredHolds ==
  ASSUME "series" \notin Env
  PROVE  Spec => []FiredIsAnnounced
<1>1. TypeInv /\ OrderInv => FiredIsAnnounced
  <2> SUFFICES ASSUME TypeInv, OrderInv, NEW d \in Defs, Triggered(d), tracks[d].ref \notin restored
               PROVE  \/ \E i \in DOMAIN published : published[i].ref = tracks[d].ref
                      \/ \E io \in Outstanding : io.ref = tracks[d].ref /\ io.status = "ACTIVE" /\ io.notify
    BY DEF FiredIsAnnounced
  <2>1. Announced(pendingIO, tracks[d].ref, "ACTIVE")
    BY DEF OrderInv, TrackOrder, Triggered
  <2>2. \A k \in DOMAIN pendingIO : pendingIO[k] \in Outstanding
    BY DEF Outstanding, ToSet
  <2>3. \A c \in Callers : InHand(c) => act[c] \in Outstanding
    BY DEF Outstanding, InHand
  <2> QED BY <2>1, <2>2, <2>3 DEF Announced
<1> QED BY <1>1, TypeInvHolds, OrderInvHolds, PTL

--------------------------------------------------------------------------------
(***************************************************************************)
(* Who closes an open row.  The property names the track or the action     *)
(* that will do it now; what keeps it true is said of pointers: the id of  *)
(* an open row is in a pointer whose alarm is still fired or whose CLEARED *)
(* action is to be executed, and every ACTIVE action to be executed, which *)
(* may yet write a row, has the same behind it.                            *)
(***************************************************************************)
ClearsFrom(q, k, r) == \E j \in DOMAIN q : j >= k /\ q[j].status = "CLEARED" /\ q[j].ref = r

Closes(t, q, k, d, r) == (t[d].phase = "triggered" /\ t[d].ref = r) \/ ClearsFrom(q, k, r)

HandClears(r) == \E c \in Callers : pc[c] = "exec" /\ act[c].status = "CLEARED" /\ act[c].ref = r

RowsCovered ==
  \A d \in Defs : \A i \in OpenRows(rows, d) :
    \E r \in Refs : ids[r] = i /\ (HandClears(r) \/ Closes(tracks, pendingIO, 1, d, r))

QueueCovered(t, q) ==
  \A k \in DOMAIN q : q[k].status = "ACTIVE" => Closes(t, q, k + 1, q[k].def, q[k].ref)

HandCovered ==
  \A c \in Callers : pc[c] = "exec" /\ act[c].status = "ACTIVE" =>
    Closes(tracks, pendingIO, 1, act[c].def, act[c].ref)

(* A start finds every open row: its rule is stored, and it is not acknowledged. *)
RowsInv ==
  /\ \A d \in Defs : OpenRows(rows, d) # {} => d \in dbDefs
  /\ "crash" \in Env => \A i \in DOMAIN rows : rows[i].status # "ACKNOWLEDGED"

DownInv ==
  /\ "crash" \notin Env => up
  /\ ~up => pendingIO = <<>> /\ \A c \in Callers : pc[c] = "idle"

OrphanInv ==
  /\ RowsInv /\ DownInv
  /\ up => RowsCovered
  /\ QueueCovered(tracks, pendingIO) /\ HandCovered

(* Statements do what they report, readings come one at a time, and no     *)
(* start meets a query that fails or an acknowledged alarm.  Each of these *)
(* leaves open rows behind (README).                                       *)
Reliable ==
  /\ Env \cap {"series", "fail", "lost"} = {}
  /\ "crash" \in Env => Env \cap {"query", "ack"} = {}

(* A critical section leaves a closer to whatever had one, and gives one   *)
(* to each ACTIVE action it queues.                                        *)
LEMMA DecisionsKeepCover ==
  ASSUME NEW queue, NEW t, NEW u, NEW q, NEW t2, NEW u2, Decided(queue, t, u, q, t2, u2)
  PROVE  /\ \A k \in 1..(Len(queue) + 1), d \in Defs : \A r : Closes(t, queue, k, d, r) => Closes(t2, q, k, d, r)
         /\ QueueCovered(t, queue) => QueueCovered(t2, q)
<1>1. PICK new, D, io : Decides(queue, t, u, new, D, io, q, t2, u2)
  BY DEF Decided
<1>2. /\ queue \in Seq(IO) /\ D \in SUBSET Defs /\ io \in [D -> IO] /\ q \in QueueIO(queue, io)
      /\ \A d \in Defs : Decision(t, t2, new, D, io, d)
  BY <1>1 DEF Decides
<1> DEFINE L == Len(queue)
<1>3. L \in Nat /\ DOMAIN queue = 1..L /\ \A k \in 1..L : queue[k] \in IO
  BY <1>2, LenProperties, ElementOfSeq
<1>4. q \in Seq(IO) /\ Extends(queue, D, io, q)
  BY <1>2, QueueIOForm
<1>5. PICK n \in Nat : \E g \in [1..n -> D] :
         /\ Len(q) = L + n
         /\ \A k \in 1..L : q[k] = queue[k]
         /\ \A j \in 1..n : q[L + j] = io[g[j]]
         /\ \A i, j \in 1..n : g[i] = g[j] => i = j
         /\ \A d \in D : \E j \in 1..n : g[j] = d
  BY <1>4 DEF Extends
<1>6. PICK g \in [1..n -> D] :
         /\ Len(q) = L + n
         /\ \A k \in 1..L : q[k] = queue[k]
         /\ \A j \in 1..n : q[L + j] = io[g[j]]
         /\ \A i, j \in 1..n : g[i] = g[j] => i = j
         /\ \A d \in D : \E j \in 1..n : g[j] = d
  BY <1>5
<1> HIDE DEF L
<1>7. DOMAIN q = 1..(L + n)
  BY <1>4, <1>6, LenProperties
<1>8. \A k \in 1..(L + n) : k \in 1..L \/ (k - L \in 1..n /\ q[k] = io[g[k - L]])
  <2> SUFFICES ASSUME NEW k \in 1..(L + n), k \notin 1..L
               PROVE  k - L \in 1..n /\ q[k] = io[g[k - L]]
    OBVIOUS
  <2>1. k - L \in 1..n /\ k = L + (k - L)
    BY <1>3
  <2> QED BY <1>6, <2>1
<1>9. ASSUME NEW k \in 1..(L + 1), NEW d \in Defs, NEW r, Closes(t, queue, k, d, r)
      PROVE  Closes(t2, q, k, d, r)
  <2>1. CASE ClearsFrom(queue, k, r)
    <3>1. PICK j \in 1..L : j >= k /\ queue[j].status = "CLEARED" /\ queue[j].ref = r
      BY <1>3, <2>1 DEF ClearsFrom
    <3>2. j \in DOMAIN q /\ q[j] = queue[j]
      BY <1>3, <1>6, <1>7
    <3> QED BY <3>1, <3>2 DEF Closes, ClearsFrom
  <2>2. CASE t[d].phase = "triggered" /\ t[d].ref = r
    <3>1. Decision(t, t2, new, D, io, d)
      BY <1>2
    <3>2. CASE t2[d].phase = "triggered" /\ t2[d].ref = t[d].ref
      BY <2>2, <3>2 DEF Closes
    <3>3. CASE d \in D /\ io[d].status = "CLEARED" /\ io[d].ref = t[d].ref
      <4>1. PICK j \in 1..n : g[j] = d
        BY <1>6, <3>3
      <4>2. L + j \in DOMAIN q /\ L + j >= k /\ q[L + j] = io[d]
        BY <1>3, <1>6, <1>7, <4>1
      <4> QED BY <2>2, <3>3, <4>2 DEF Closes, ClearsFrom
    <3> QED BY <2>2, <3>1, <3>2, <3>3 DEF Decision
  <2> QED BY <1>9, <2>1, <2>2 DEF Closes
<1>10. ASSUME QueueCovered(t, queue) PROVE QueueCovered(t2, q)
  <2> SUFFICES ASSUME NEW k \in 1..(L + n), q[k].status = "ACTIVE"
               PROVE  Closes(t2, q, k + 1, q[k].def, q[k].ref)
    BY <1>7 DEF QueueCovered
  <2>1. CASE k \in 1..L
    <3>1. q[k] = queue[k] /\ queue[k] \in IO
      BY <1>3, <1>6, <2>1
    <3>2. queue[k].def \in Defs
      BY <3>1 DEF IO
    <3>3. Closes(t, queue, k + 1, queue[k].def, queue[k].ref)
      BY <1>3, <1>10, <2>1, <3>1 DEF QueueCovered
    <3>4. k + 1 \in 1..(L + 1)
      BY <1>3, <2>1
    <3> QED BY <1>9, <3>1, <3>2, <3>3, <3>4
  <2>2. CASE k \notin 1..L
    <3>1. PICK d \in D : q[k] = io[d]
      BY <1>8, <2>2
    <3>2. Decision(t, t2, new, D, io, d)
      BY <1>2
    <3>3. io[d].def = d /\ t2[d].phase = "triggered" /\ t2[d].ref = io[d].ref
      BY <3>1, <3>2 DEF Decision
    <3> QED BY <3>1, <3>3 DEF Closes
  <2> QED BY <2>1, <2>2
<1> QED BY <1>9, <1>10 DEF L

(* The critical sections: a reading, a tick, a reload. *)
LEMMA SectionCover ==
  ASSUME TypeInv, OrphanInv, up, NEW c \in Callers, pc[c] # "exec", pc' = [pc EXCEPT ![c] = "drain"],
         UNCHANGED <<rows, dbDefs, up, ids, act>>,
         \A d \in Defs : \A r : Closes(tracks, pendingIO, 1, d, r) => Closes(tracks', pendingIO', 1, d, r),
         QueueCovered(tracks', pendingIO')
  PROVE  OrphanInv'
<1>1. \A e \in Callers : pc'[e] = "exec" <=> pc[e] = "exec"
  BY DEF TypeInv, TypeOK
<1>2. RowsInv' /\ DownInv'
  BY DEF OrphanInv, RowsInv, DownInv
<1>3. RowsCovered'
  <2> SUFFICES ASSUME NEW d \in Defs, NEW i \in OpenRows(rows, d)
               PROVE  \E r \in Refs : ids[r] = i /\ (HandClears(r)' \/ Closes(tracks', pendingIO', 1, d, r))
    BY DEF RowsCovered
  <2>1. PICK r \in Refs : ids[r] = i /\ (HandClears(r) \/ Closes(tracks, pendingIO, 1, d, r))
    BY DEF OrphanInv, RowsCovered
  <2>2. HandClears(r) => HandClears(r)'
    BY <1>1 DEF HandClears
  <2> QED BY <2>1, <2>2
<1>4. HandCovered'
  <2> SUFFICES ASSUME NEW e \in Callers, pc[e] = "exec", act[e].status = "ACTIVE"
               PROVE  Closes(tracks', pendingIO', 1, act[e].def, act[e].ref)
    BY <1>1 DEF HandCovered
  <2>1. act[e].def \in Defs
    BY DEF TypeInv, Shape, IO
  <2>2. Closes(tracks, pendingIO, 1, act[e].def, act[e].ref)
    BY DEF OrphanInv, HandCovered
  <2> QED BY <2>1, <2>2
<1>5. QueueCovered(tracks, pendingIO)'
  BY DEF QueueCovered, Closes, ClearsFrom
<1> QED BY <1>2, <1>3, <1>4, <1>5 DEF OrphanInv

LEMMA EvaluateCover ==
  ASSUME TypeInv, OrderInv, OrphanInv, NEW w \in Workers, NEW tag \in Tags, NEW v \in Values,
         NEW at \in ReadingTimes, NEW life \in BOOLEAN, evaluateAt(w, tag, v, at, life)
  PROVE  OrphanInv'
<1>1. /\ up /\ w \in Callers /\ pc[w] # "exec" /\ pc' = [pc EXCEPT ![w] = "drain"]
      /\ UNCHANGED <<rows, dbDefs, up, ids, act>>
  BY DEF evaluateAt, Goto, Callers, dbVars
<1>2. Decided(pendingIO, tracks, used, pendingIO', tracks', used')
  BY EvaluateDecides
<1>3. 1 \in 1..(Len(pendingIO) + 1)
  BY LenProperties DEF TypeInv, TypeOK
<1>4. QueueCovered(tracks, pendingIO)
  BY DEF OrphanInv
<1>5. /\ \A d \in Defs : \A r : Closes(tracks, pendingIO, 1, d, r) => Closes(tracks', pendingIO', 1, d, r)
      /\ QueueCovered(tracks', pendingIO')
  BY <1>2, <1>3, <1>4, DecisionsKeepCover
<1> QED BY <1>1, <1>5, SectionCover

LEMMA LoadApplyCover ==
  ASSUME TypeInv, OrderInv, OrphanInv, LoadApply
  PROVE  OrphanInv'
<1>1. /\ Reloader \in Callers /\ pc[Reloader] # "exec" /\ pc[Reloader] # "idle"
      /\ pc' = [pc EXCEPT ![Reloader] = "drain"] /\ UNCHANGED <<rows, dbDefs, up, ids, act>>
  BY DEF LoadApply, Goto, Callers, dbVars
<1>2. up
  BY <1>1 DEF OrphanInv, DownInv
<1>3. Decided(pendingIO, tracks, used, pendingIO', tracks', used')
  BY LoadApplyDecides
<1>4. 1 \in 1..(Len(pendingIO) + 1)
  BY LenProperties DEF TypeInv, TypeOK
<1>5. QueueCovered(tracks, pendingIO)
  BY DEF OrphanInv
<1>6. /\ \A d \in Defs : \A r : Closes(tracks, pendingIO, 1, d, r) => Closes(tracks', pendingIO', 1, d, r)
      /\ QueueCovered(tracks', pendingIO')
  BY <1>3, <1>4, <1>5, DecisionsKeepCover
<1> QED BY <1>1, <1>2, <1>6, SectionCover

LEMMA TickCover ==
  ASSUME TypeInv, OrderInv, OrphanInv, tickDelays
  PROVE  OrphanInv'
<1>1. /\ up /\ Ticker \in Callers /\ pc[Ticker] # "exec" /\ pc' = [pc EXCEPT ![Ticker] = "drain"]
      /\ UNCHANGED <<rows, dbDefs, up, ids, act>>
  BY DEF tickDelays, Goto, Callers, dbVars
<1>2. PICK q1, t1 : /\ Decided(pendingIO, tracks, used, q1, t1, used)
                    /\ Decided(q1, t1, used, pendingIO', tracks', used')
  BY TickDecides
<1>3. q1 \in Seq(IO)
  BY <1>2 DEF Decided, Decides
<1>4. 1 \in 1..(Len(pendingIO) + 1) /\ 1 \in 1..(Len(q1) + 1)
  BY <1>3, LenProperties DEF TypeInv, TypeOK
<1>5. QueueCovered(tracks, pendingIO)
  BY DEF OrphanInv
<1>6. /\ \A d \in Defs : \A r : Closes(tracks, pendingIO, 1, d, r) => Closes(t1, q1, 1, d, r)
      /\ QueueCovered(t1, q1)
  BY <1>2, <1>4, <1>5, DecisionsKeepCover
<1>7. /\ \A d \in Defs : \A r : Closes(t1, q1, 1, d, r) => Closes(tracks', pendingIO', 1, d, r)
      /\ QueueCovered(tracks', pendingIO')
  BY <1>2, <1>4, <1>6, DecisionsKeepCover
<1>8. \A d \in Defs : \A r : Closes(tracks, pendingIO, 1, d, r) => Closes(tracks', pendingIO', 1, d, r)
  BY <1>6, <1>7
<1> QED BY <1>1, <1>7, <1>8, SectionCover

(* What the statements make of the rows. *)
LEMMA ClosedRows ==
  ASSUME NEW t \in Seq(Row), NEW e \in Defs, NEW id, NEW ds
  PROVE  /\ id \notin OpenRows(MarkCleared(t, id), e)
         /\ e \in ds => OpenRows(ClearOpen(t, ds), e) = {}
         /\ OpenRows(t, e) \subseteq 1..Len(t)
<1>1. DOMAIN t = 1..Len(t) /\ \A i \in DOMAIN t : t[i] \in Row
  BY LenProperties, ElementOfSeq
<1>2. \A r \in Row : /\ ~IsOpen([r EXCEPT !.status = "CLEARED"])
                     /\ [r EXCEPT !.status = "CLEARED"].def = r.def
  BY DEF Row, IsOpen
<1> QED BY <1>1, <1>2 DEF OpenRows, MarkCleared, ClearOpen

LEMMA NoneAcknowledged ==
  ASSUME NEW t \in Seq(Row), \A i \in DOMAIN t : t[i].status # "ACKNOWLEDGED", NEW id, NEW ds
  PROVE  /\ \A i \in DOMAIN MarkCleared(t, id) : MarkCleared(t, id)[i].status # "ACKNOWLEDGED"
         /\ \A i \in DOMAIN ClearOpen(t, ds) : ClearOpen(t, ds)[i].status # "ACKNOWLEDGED"
<1>1. \A i \in DOMAIN t : t[i] \in Row
  BY LenProperties, ElementOfSeq
<1>2. \A r \in Row : [r EXCEPT !.status = "CLEARED"].status # "ACKNOWLEDGED"
  BY DEF Row
<1> QED BY <1>1, <1>2 DEF MarkCleared, ClearOpen

LEMMA NoneInserted ==
  ASSUME NEW t \in Seq(Row), \A i \in DOMAIN t : t[i].status # "ACKNOWLEDGED",
         NEW d \in Defs, NEW trig \in Nat
  PROVE  /\ \A i \in DOMAIN InsertActive(t, d, trig) : InsertActive(t, d, trig)[i].status # "ACKNOWLEDGED"
         /\ \A i \in DOMAIN InsertCleared(t, d, trig) : InsertCleared(t, d, trig)[i].status # "ACKNOWLEDGED"
<1> DEFINE a == [def |-> d, status |-> "ACTIVE", trig |-> trig]
           b == [def |-> d, status |-> "CLEARED", trig |-> trig]
<1>1. Len(t) \in Nat /\ DOMAIN t = 1..Len(t)
  BY LenProperties
<1>2. a \in Row /\ b \in Row /\ a.status # "ACKNOWLEDGED" /\ b.status # "ACKNOWLEDGED"
  BY DEF Row, RowStatus
<1> HIDE DEF a, b
<1>3. ASSUME NEW r \in Row, r.status # "ACKNOWLEDGED"
      PROVE  \A i \in DOMAIN Append(t, r) : Append(t, r)[i].status # "ACKNOWLEDGED"
  <2>1. /\ DOMAIN Append(t, r) = 1..(Len(t) + 1)
        /\ \A i \in 1..Len(t) : Append(t, r)[i] = t[i]
        /\ Append(t, r)[Len(t) + 1] = r
    BY <1>1, AppendProperties, LenProperties
  <2> QED BY <1>1, <1>3, <2>1
<1>4. /\ InsertActive(t, d, trig) = IF OpenRows(t, d) = {} THEN Append(t, a) ELSE t
      /\ InsertCleared(t, d, trig) = IF ClosedAt(t, d, trig) = {} THEN Append(t, b) ELSE t
  BY DEF InsertActive, InsertCleared, a, b
<1> QED BY <1>2, <1>3, <1>4

(* Steps that neither decide nor execute. *)
LEMMA QuietCover ==
  ASSUME OrphanInv, UNCHANGED <<rows, dbDefs, up, ids, tracks, pendingIO>>, up \/ pc' = pc,
         \A c \in Callers : (pc'[c] = "exec" <=> pc[c] = "exec") /\ (pc[c] = "exec" => act'[c] = act[c])
  PROVE  OrphanInv'
<1>1. RowsInv' /\ DownInv'
  BY DEF OrphanInv, RowsInv, DownInv
<1>2. \A r : HandClears(r)' <=> HandClears(r)
  BY DEF HandClears
<1>3. (up => RowsCovered)'
  BY <1>2 DEF OrphanInv, RowsCovered
<1>4. QueueCovered(tracks, pendingIO)' /\ HandCovered'
  BY DEF OrphanInv, QueueCovered, HandCovered, Closes, ClearsFrom
<1> QED BY <1>1, <1>3, <1>4 DEF OrphanInv

(* The action the drainer takes has the rest of the queue behind it. *)
LEMMA TakeCover ==
  ASSUME TypeInv, DrainInv, OrphanInv, NEW c \in Callers, DrainTake(c)
  PROVE  OrphanInv'
<1> DEFINE L == Len(pendingIO)
           q == Tail(pendingIO)
           h == Head(pendingIO)
<1>1. /\ pendingIO # <<>> /\ pendingIO' = q /\ act' = [act EXCEPT ![c] = h]
      /\ pc' = [pc EXCEPT ![c] = "exec"] /\ UNCHANGED <<rows, dbDefs, up, ids, tracks>>
  BY DEF DrainTake, Goto, trackVars, dbVars
<1>2. /\ L \in Nat \ {0} /\ DOMAIN pendingIO = 1..L /\ \A k \in 1..L : pendingIO[k] \in IO
      /\ h = pendingIO[1]
      /\ DOMAIN q = 1..(L - 1) /\ \A k \in 1..(L - 1) : q[k] = pendingIO[k + 1]
  <2>1. pendingIO \in Seq(IO)
    BY DEF TypeInv, TypeOK
  <2> QED BY <1>1, <2>1, HeadTailProperties, EmptySeq, LenProperties, ElementOfSeq
<1>3. /\ \A e \in Callers : pc[e] # "exec"
      /\ \A e \in Callers : pc'[e] = "exec" <=> e = c
      /\ act'[c] = h
  <2>1. \A e \in Callers : ~Draining(e) \/ e = c
    BY AtQueueAlone DEF DrainTake
  <2>2. pc[c] # "exec"
    BY DEF DrainTake, AtQueue
  <2> QED BY <1>1, <2>1, <2>2 DEF Draining, TypeInv, TypeOK
<1>4. up
  BY <1>1 DEF OrphanInv, DownInv
<1>5. RowsInv' /\ DownInv'
  BY <1>1, <1>4 DEF OrphanInv, RowsInv, DownInv
<1> HIDE DEF L, q, h
\* What clears behind place k does so one place earlier.
<1>6. ASSUME NEW k \in Nat \ {0, 1}, NEW r, ClearsFrom(pendingIO, k, r)
      PROVE  ClearsFrom(q, k - 1, r)
  <2>1. PICK j \in 1..L : j >= k /\ pendingIO[j].status = "CLEARED" /\ pendingIO[j].ref = r
    BY <1>2, <1>6 DEF ClearsFrom
  <2>2. j - 1 \in 1..(L - 1) /\ j - 1 >= k - 1 /\ (j - 1) + 1 = j
    BY <1>2, <2>1
  <2>3. q[j - 1] = pendingIO[j]
    BY <1>2, <2>2
  <2> QED BY <1>2, <2>1, <2>2, <2>3 DEF ClearsFrom
<1>7. ASSUME NEW r, ClearsFrom(pendingIO, 1, r)
      PROVE  (h.status = "CLEARED" /\ h.ref = r) \/ ClearsFrom(q, 1, r)
  <2>1. PICK j \in 1..L : pendingIO[j].status = "CLEARED" /\ pendingIO[j].ref = r
    BY <1>2, <1>7 DEF ClearsFrom
  <2>2. CASE j = 1
    BY <1>2, <2>1, <2>2
  <2>3. CASE j # 1
    <3>1. j - 1 \in 1..(L - 1) /\ j - 1 >= 1 /\ (j - 1) + 1 = j
      BY <1>2, <2>1, <2>3
    <3>2. q[j - 1] = pendingIO[j]
      BY <1>2, <3>1
    <3> QED BY <1>2, <2>1, <3>1, <3>2 DEF ClearsFrom
  <2> QED BY <2>2, <2>3
<1>8. RowsCovered'
  <2> SUFFICES ASSUME NEW d \in Defs, NEW i \in OpenRows(rows, d)
               PROVE  \E r \in Refs : ids[r] = i /\ (HandClears(r)' \/ Closes(tracks, q, 1, d, r))
    BY <1>1 DEF RowsCovered
  <2>1. PICK r \in Refs : ids[r] = i /\ (HandClears(r) \/ Closes(tracks, pendingIO, 1, d, r))
    BY <1>4 DEF OrphanInv, RowsCovered
  <2>2. Closes(tracks, pendingIO, 1, d, r)
    BY <1>3, <2>1 DEF HandClears
  <2>3. h.status = "CLEARED" /\ h.ref = r => HandClears(r)'
    BY <1>3 DEF HandClears
  <2> QED BY <1>7, <2>1, <2>2, <2>3 DEF Closes
<1>9. HandCovered'
  <2> SUFFICES ASSUME h.status = "ACTIVE" PROVE Closes(tracks, q, 1, h.def, h.ref)
    BY <1>1, <1>3 DEF HandCovered
  <2>1. 1 \in 1..L /\ 1 + 1 \in Nat \ {0, 1} /\ (1 + 1) - 1 = 1
    BY <1>2
  <2>2. Closes(tracks, pendingIO, 1 + 1, h.def, h.ref)
    BY <1>2, <2>1 DEF OrphanInv, QueueCovered
  <2>3. ClearsFrom(pendingIO, 1 + 1, h.ref) => ClearsFrom(q, (1 + 1) - 1, h.ref)
    BY <1>6, <2>1
  <2> QED BY <2>1, <2>2, <2>3 DEF Closes
<1>10. QueueCovered(tracks, pendingIO)'
  <2> SUFFICES ASSUME NEW k \in 1..(L - 1), q[k].status = "ACTIVE"
               PROVE  Closes(tracks, q, k + 1, q[k].def, q[k].ref)
    BY <1>1, <1>2 DEF QueueCovered, Closes, ClearsFrom
  <2>1. /\ k + 1 \in 1..L /\ q[k] = pendingIO[k + 1]
        /\ (k + 1) + 1 \in Nat \ {0, 1} /\ ((k + 1) + 1) - 1 = k + 1
    BY <1>2
  <2>2. Closes(tracks, pendingIO, (k + 1) + 1, q[k].def, q[k].ref)
    BY <1>2, <2>1 DEF OrphanInv, QueueCovered
  <2>3. ClearsFrom(pendingIO, (k + 1) + 1, q[k].ref) => ClearsFrom(q, ((k + 1) + 1) - 1, q[k].ref)
    BY <1>6, <2>1
  <2> QED BY <2>1, <2>2, <2>3 DEF Closes
<1> QED BY <1>5, <1>8, <1>9, <1>10 DEF OrphanInv

(* The drainer executes what it has in hand, and nobody else has anything. *)
LEMMA ExecAlone ==
  ASSUME TypeInv, DrainInv, OrphanInv, NEW c \in Callers, pc[c] = "exec",
         Persisted(c)
  PROVE  /\ up /\ \A e \in Callers : pc[e] = "exec" => e = c
         /\ \A e \in Callers : pc'[e] # "exec"
         /\ act[c] \in IO
<1>1. pc' = [pc EXCEPT ![c] = IF act[c].notify THEN "notify" ELSE "loop"]
  BY DEF Persisted, Goto
<1>2. \A e \in Callers : pc[e] = "exec" => e = c
  BY DEF DrainInv, SingleDrainer, Draining
<1>3. \A e \in Callers : pc'[e] # "exec"
  BY <1>1, <1>2 DEF TypeInv, TypeOK
<1> QED BY <1>2, <1>3 DEF OrphanInv, DownInv, TypeInv, Shape

(* A row is written for an alarm that is still fired, or whose end is      *)
(* behind it in the queue; a row that is adopted had its closer already.   *)
LEMMA PersistActiveCover ==
  ASSUME Reliable, TypeInv, DrainInv, OrphanInv, NEW c \in Callers, PersistActive(c)
  PROVE  OrphanInv'
<1> DEFINE r == act[c].ref
           d == act[c].def
<1>1. /\ pc[c] = "exec" /\ act[c].status = "ACTIVE" /\ Persisted(c)
      /\ UNCHANGED <<dbDefs, up, tracks, pendingIO, act>>
  BY DEF PersistActive, trackVars, drainVars
<1>2. /\ up /\ \A e \in Callers : pc[e] = "exec" => e = c
      /\ \A e \in Callers : pc'[e] # "exec"
      /\ d \in Defs /\ r \in Refs /\ act[c].trig \in Nat
  BY <1>1, ExecAlone DEF IO
<1>3. rows \in Seq(Row) /\ ids \in [Refs -> Nat] /\ Len(rows) \in Nat
  BY LenProperties DEF TypeInv, TypeOK
<1>4. \/ UNCHANGED <<rows, ids>>
      \/ /\ ids[r] = 0 /\ d \in dbDefs /\ rows' = InsertActive(rows, d, act[c].trig)
         /\ \E id \in InsertActiveIds(rows, d) : ids' = [ids EXCEPT ![r] = id]
  <2>1. InsertOutcomes(d) = IF d \in dbDefs THEN {"ok"} ELSE {"fail"}
    BY DEF InsertOutcomes, Reliable
  <2> QED BY <2>1 DEF PersistActive
<1>5. HandCovered'
  BY <1>2 DEF HandCovered
<1>6. QueueCovered(tracks, pendingIO)'
  BY <1>1 DEF OrphanInv, QueueCovered, Closes, ClearsFrom
<1>7. \A x : ~HandClears(x)
  BY <1>1, <1>2 DEF HandClears
<1>8. ASSUME NEW e \in Defs, NEW i \in OpenRows(rows, e)
      PROVE  \E x \in Refs : ids[x] = i /\ ids[x] # 0 /\ Closes(tracks, pendingIO, 1, e, x)
  <2>1. i # 0
    BY <1>3, ClosedRows
  <2> QED BY <1>2, <1>7, <2>1 DEF OrphanInv, RowsCovered
<1>9. Closes(tracks, pendingIO, 1, d, r)
  BY <1>1 DEF OrphanInv, HandCovered
<1> HIDE DEF r, d
<1>10. CASE UNCHANGED <<rows, ids>>
  <2>1. RowsInv' /\ DownInv'
    BY <1>1, <1>2, <1>10 DEF OrphanInv, RowsInv, DownInv
  <2>2. RowsCovered'
    BY <1>1, <1>8, <1>10 DEF RowsCovered
  <2> QED BY <1>5, <1>6, <2>1, <2>2 DEF OrphanInv
<1>11. ASSUME ids[r] = 0, d \in dbDefs, rows' = InsertActive(rows, d, act[c].trig),
              NEW id \in InsertActiveIds(rows, d), ids' = [ids EXCEPT ![r] = id]
       PROVE  OrphanInv'
  <2>1. \A e \in Defs : OpenRows(rows', e) \subseteq
          IF e = d /\ OpenRows(rows, d) = {} THEN {Len(rows) + 1} ELSE OpenRows(rows, e)
    BY <1>2, <1>3, <1>11, OpenRowsOfStatements
  <2>2. RowsInv' /\ DownInv'
    <3>1. \A e \in Defs : OpenRows(rows', e) # {} => e \in dbDefs
      BY <1>11, <2>1 DEF OrphanInv, RowsInv
    <3>2. "crash" \in Env => \A i \in DOMAIN rows' : rows'[i].status # "ACKNOWLEDGED"
      BY <1>2, <1>3, <1>11, NoneInserted DEF OrphanInv, RowsInv
    <3> QED BY <1>1, <1>2, <3>1, <3>2 DEF OrphanInv, RowsInv, DownInv
  <2>3. RowsCovered'
    <3> SUFFICES ASSUME NEW e \in Defs, NEW i \in OpenRows(rows', e)
                 PROVE  \E x \in Refs : ids'[x] = i /\ Closes(tracks, pendingIO, 1, e, x)
      BY <1>1 DEF RowsCovered
    <3>1. CASE e = d /\ OpenRows(rows, d) = {}
      <4>1. id = Len(rows) + 1 /\ i = Len(rows) + 1
        BY <1>11, <2>1, <3>1 DEF InsertActiveIds
      <4> QED BY <1>2, <1>3, <1>9, <1>11, <3>1, <4>1
    <3>2. CASE ~(e = d /\ OpenRows(rows, d) = {})
      <4>1. i \in OpenRows(rows, e)
        BY <2>1, <3>2
      <4>2. PICK x \in Refs : ids[x] = i /\ ids[x] # 0 /\ Closes(tracks, pendingIO, 1, e, x)
        BY <1>8, <4>1
      <4>3. ids'[x] = i
        BY <1>3, <1>11, <4>2
      <4> QED BY <4>2, <4>3
    <3> QED BY <3>1, <3>2
  <2> QED BY <1>5, <1>6, <2>2, <2>3 DEF OrphanInv
<1> QED BY <1>4, <1>10, <1>11

(* The end of an alarm closes its row; rows with another id have other closers. *)
LEMMA PersistClearedCover ==
  ASSUME Reliable, TypeInv, DrainInv, OrphanInv, NEW c \in Callers, PersistCleared(c)
  PROVE  OrphanInv'
<1> DEFINE r == act[c].ref
           d == act[c].def
<1>1. /\ pc[c] = "exec" /\ act[c].status = "CLEARED" /\ Persisted(c)
      /\ UNCHANGED <<dbDefs, up, tracks, pendingIO, act>>
  BY DEF PersistCleared, trackVars, drainVars
<1>2. /\ up /\ \A e \in Callers : pc[e] = "exec" => e = c
      /\ \A e \in Callers : pc'[e] # "exec"
      /\ d \in Defs /\ r \in Refs /\ act[c].trig \in Nat
  BY <1>1, ExecAlone DEF IO
<1>3. rows \in Seq(Row) /\ ids \in [Refs -> Nat]
  BY DEF TypeInv, TypeOK
<1>4. \/ ids[r] > 0 /\ ids' = ids /\ rows' = MarkCleared(rows, ids[r])
      \/ /\ ids[r] = 0
         /\ rows' = rows \/ rows' = InsertCleared(rows, d, act[c].trig)
         /\ ids' = ids \/ \E id : ids' = [ids EXCEPT ![r] = id]
  <2>1. UpdateOutcomes = {"ok"}
    BY DEF UpdateOutcomes, Reliable
  <2> QED BY <2>1 DEF PersistCleared
<1>5. HandCovered'
  BY <1>2 DEF HandCovered
<1>6. QueueCovered(tracks, pendingIO)'
  BY <1>1 DEF OrphanInv, QueueCovered, Closes, ClearsFrom
<1>7. \A x : HandClears(x) => x = r
  BY <1>2 DEF HandClears
<1> HIDE DEF r, d
<1>8. /\ \A e \in Defs : OpenRows(rows', e) \subseteq OpenRows(rows, e)
      /\ ids[r] > 0 => \A e \in Defs : ids[r] \notin OpenRows(rows', e)
  <2>1. CASE ids[r] > 0
    <3>1. rows' = MarkCleared(rows, ids[r])
      BY <1>4, <2>1
    <3>2. \A e \in Defs : OpenRows(MarkCleared(rows, ids[r]), e) \subseteq OpenRows(rows, e)
      BY <1>3, OpenRowsOfUpdates
    <3>3. \A e \in Defs : ids[r] \notin OpenRows(MarkCleared(rows, ids[r]), e)
      BY <1>3, ClosedRows
    <3> QED BY <3>1, <3>2, <3>3
  <2>2. CASE rows' = rows /\ ~(ids[r] > 0)
    BY <2>2
  <2>3. CASE rows' = InsertCleared(rows, d, act[c].trig) /\ ~(ids[r] > 0)
    <3>1. \A e \in Defs : OpenRows(InsertCleared(rows, d, act[c].trig), e) \subseteq OpenRows(rows, e)
      BY <1>2, <1>3, OpenRowsOfStatements
    <3> QED BY <2>3, <3>1
  <2> QED BY <1>4, <2>1, <2>2, <2>3
<1>9. RowsInv' /\ DownInv'
  <2>1. \A e \in Defs : OpenRows(rows', e) # {} => e \in dbDefs
    BY <1>8 DEF OrphanInv, RowsInv
  <2>2. "crash" \in Env => \A i \in DOMAIN rows' : rows'[i].status # "ACKNOWLEDGED"
    <3> SUFFICES ASSUME \A i \in DOMAIN rows : rows[i].status # "ACKNOWLEDGED"
                 PROVE  \A i \in DOMAIN rows' : rows'[i].status # "ACKNOWLEDGED"
      BY DEF OrphanInv, RowsInv
    <3>1. CASE rows' = MarkCleared(rows, ids[r])
      BY <1>3, <3>1, NoneAcknowledged
    <3>2. CASE rows' = InsertCleared(rows, d, act[c].trig)
      BY <1>2, <1>3, <3>2, NoneInserted
    <3>3. CASE rows' = rows
      BY <3>3
    <3> QED BY <1>4, <3>1, <3>2, <3>3
  <2> QED BY <1>1, <1>2, <2>1, <2>2 DEF OrphanInv, RowsInv, DownInv
<1>10. RowsCovered'
  <2> SUFFICES ASSUME NEW e \in Defs, NEW i \in OpenRows(rows', e)
               PROVE  \E x \in Refs : ids'[x] = i /\ Closes(tracks, pendingIO, 1, e, x)
    BY <1>1 DEF RowsCovered
  <2>1. i \in OpenRows(rows, e) /\ i # 0
    BY <1>3, <1>8, ClosedRows
  <2>2. PICK x \in Refs : ids[x] = i /\ (HandClears(x) \/ Closes(tracks, pendingIO, 1, e, x))
    BY <1>2, <2>1 DEF OrphanInv, RowsCovered
  <2>3. x # r
    BY <1>3, <1>4, <1>8, <2>1, <2>2
  <2>4. ids'[x] = i
    BY <1>3, <1>4, <2>2, <2>3
  <2> QED BY <1>7, <2>2, <2>3, <2>4
<1> QED BY <1>2, <1>5, <1>6, <1>9, <1>10 DEF OrphanInv

(* A crash leaves rows that nobody knows of; a start takes up all of them. *)
LEMMA CrashCover ==
  ASSUME OrphanInv, Crash
  PROVE  OrphanInv'
<1>1. /\ "crash" \in Env /\ up' = FALSE /\ pendingIO' = <<>> /\ UNCHANGED <<rows, dbDefs>>
      /\ \A c \in Callers : pc'[c] = "idle"
  BY DEF Crash
<1>2. RowsInv' /\ DownInv'
  BY <1>1 DEF OrphanInv, RowsInv, DownInv
<1>3. DOMAIN pendingIO' = {}
  BY <1>1
<1>4. QueueCovered(tracks, pendingIO)' /\ HandCovered'
  BY <1>1, <1>3 DEF QueueCovered, HandCovered
<1> QED BY <1>1, <1>2, <1>4 DEF OrphanInv

LEMMA NewManagerCover ==
  ASSUME Reliable, TypeInv, OneOpenRow, OrphanInv, NewManager
  PROVE  OrphanInv'
<1>1. ~up /\ up' = TRUE /\ UNCHANGED <<rows, dbDefs, pendingIO, act, pc>>
  BY DEF NewManager, dbVars, drainVars
<1>2. /\ "crash" \in Env /\ "query" \notin Env
      /\ pendingIO = <<>> /\ \A c \in Callers : pc[c] = "idle"
  BY <1>1 DEF OrphanInv, DownInv, Reliable
<1> DEFINE D == {d \in dbDefs : RestorableRows(d) # {}}
<1>3. PICK ref \in NewRefs(D), row \in [D -> DOMAIN rows] :
        /\ \A d \in D : row[d] \in RestorableRows(d)
        /\ tracks' = [d \in Defs |->
             IF d \in D THEN Fired(rows[row[d]].trig, rows[row[d]].trig, ref[d], 0) ELSE NoTrack]
        /\ ids' = [r \in Refs |-> IF \E d \in D : ref[d] = r THEN row[CHOOSE d \in D : ref[d] = r] ELSE ids[r]]
  <2> DEFINE Q == (IF "query" \in Env THEN {{}} ELSE {})
             Took(E) == \E ref \in NewRefs(E), row \in [E -> DOMAIN rows] :
               /\ \A d \in E : row[d] \in RestorableRows(d)
               /\ tracks' = [d \in Defs |->
                    IF d \in E THEN Fired(rows[row[d]].trig, rows[row[d]].trig, ref[d], 0) ELSE NoTrack]
               /\ ids' = [r \in Refs |-> IF \E d \in E : ref[d] = r THEN row[CHOOSE d \in E : ref[d] = r] ELSE ids[r]]
  <2>1. \E E \in {{d \in definitions' : RestorableRows(d) # {}}} \cup Q : Took(E)
    BY DEF NewManager
  <2>2. definitions' \in {dbDefs} \cup Q
    BY DEF NewManager
  <2>3. Q = {}
    BY <1>2
  <2> HIDE DEF Took, Q
  <2>4. Took(D)
    BY <2>1, <2>2, <2>3
  <2> QED BY <2>4 DEF Took
<1>4. ref \in [D -> Refs \ used] /\ \A d, e \in D : ref[d] = ref[e] => d = e
  BY <1>3 DEF NewRefs
<1>5. ASSUME NEW d \in D
      PROVE  d \in Defs /\ ref[d] \in Refs /\ ids'[ref[d]] = row[d]
             /\ tracks'[d].phase = "triggered" /\ tracks'[d].ref = ref[d]
  <2>1. d \in Defs
    BY DEF TypeInv, TypeOK
  <2>2. (CHOOSE e \in D : ref[e] = ref[d]) = d
    BY <1>4
  <2>3. tracks'[d] = Fired(rows[row[d]].trig, rows[row[d]].trig, ref[d], 0)
    BY <1>3, <2>1
  <2> HIDE DEF D
  <2>4. ref[d] \in Refs
    BY <1>4
  <2>5. ids'[ref[d]] = row[d]
    BY <1>3, <2>2, <2>4
  <2> QED BY <2>1, <2>3, <2>4, <2>5 DEF Fired
\* An open row is in status ACTIVE, so the start finds it, and it is the only one.
<1>6. ASSUME NEW d \in Defs, NEW i \in OpenRows(rows, d)
      PROVE  d \in D /\ row[d] = i
  <2>1. i \in RestorableRows(d)
    BY <1>2 DEF OpenRows, IsOpen, RestorableRows, OrphanInv, RowsInv
  <2>2. d \in D
    BY <2>1 DEF OrphanInv, RowsInv
  <2>3. row[d] \in OpenRows(rows, d)
    <3>1. row[d] \in RestorableRows(d)
      BY <1>3, <2>2
    <3> QED BY <3>1 DEF RestorableRows, OpenRows, IsOpen
  <2> QED BY <2>2, <2>3 DEF OneOpenRow
<1> HIDE DEF D
<1>7. RowsCovered'
  <2> SUFFICES ASSUME NEW d \in Defs, NEW i \in OpenRows(rows, d)
               PROVE  \E r \in Refs : ids'[r] = i /\ Closes(tracks', pendingIO', 1, d, r)
    BY <1>1 DEF RowsCovered
  <2>1. d \in D /\ row[d] = i
    BY <1>6
  <2> QED BY <1>5, <2>1 DEF Closes
<1>8. RowsInv' /\ DownInv'
  BY <1>1 DEF OrphanInv, RowsInv, DownInv
<1>9. QueueCovered(tracks, pendingIO)' /\ HandCovered'
  <2>1. DOMAIN pendingIO' = {}
    BY <1>1, <1>2
  <2> QED BY <1>1, <1>2, <2>1 DEF QueueCovered, HandCovered
<1> QED BY <1>7, <1>8, <1>9 DEF OrphanInv

(* Saving rules closes their rows, an acknowledgement closes none and is   *)
(* made where no start has to find the row.                                *)
LEMMA OperatorCover ==
  ASSUME Reliable, TypeInv, OrphanInv, OperatorNext
  PROVE  OrphanInv'
<1>1. UNCHANGED <<up, ids, tracks, pendingIO, act, pc>>
  BY DEF OperatorNext, SaveTagAlarmConfig, AcknowledgeAlarm, trackVars, drainVars
<1>2. rows \in Seq(Row)
  BY DEF TypeInv, TypeOK
<1>3. \A e \in Defs : OpenRows(rows', e) \subseteq OpenRows(rows, e)
  <2>1. \/ \E tag \in Tags : rows' = ClearOpen(rows, {d \in Defs : RuleOf[d].tag = tag})
        \/ \E id \in DOMAIN rows : rows' = Acknowledge(rows, id)
    BY DEF OperatorNext, SaveTagAlarmConfig, AcknowledgeAlarm
  <2> QED BY <1>2, <2>1, OpenRowsOfUpdates
<1>4. RowsInv'
  <2>1. ASSUME NEW tag \in Tags, NEW new \in SUBSET Defs, SaveTagAlarmConfig(tag, new)
        PROVE  RowsInv'
    <3> DEFINE old == {d \in Defs : RuleOf[d].tag = tag}
    <3>1. rows' = ClearOpen(rows, old) /\ dbDefs' = (dbDefs \ old) \cup new
      BY <2>1 DEF SaveTagAlarmConfig
    <3> HIDE DEF old
    <3>2. \A e \in Defs : OpenRows(rows', e) # {} => e \in dbDefs'
      BY <1>2, <1>3, <3>1, ClosedRows DEF OrphanInv, RowsInv
    <3>3. "crash" \in Env => \A i \in DOMAIN rows' : rows'[i].status # "ACKNOWLEDGED"
      BY <1>2, <3>1, NoneAcknowledged DEF OrphanInv, RowsInv
    <3> QED BY <3>2, <3>3 DEF RowsInv
  <2>2. ASSUME NEW id \in DOMAIN rows, AcknowledgeAlarm(id) PROVE RowsInv'
    BY <1>3, <2>2 DEF AcknowledgeAlarm, Reliable, OrphanInv, RowsInv
  <2> QED BY <2>1, <2>2 DEF OperatorNext
<1>5. DownInv'
  BY <1>1 DEF OrphanInv, DownInv
<1>6. (up => RowsCovered)'
  <2> SUFFICES ASSUME up, NEW d \in Defs, NEW i \in OpenRows(rows', d)
               PROVE  \E r \in Refs : ids[r] = i /\ (HandClears(r)' \/ Closes(tracks, pendingIO, 1, d, r))
    BY <1>1 DEF RowsCovered
  <2>1. \A r : HandClears(r)' <=> HandClears(r)
    BY <1>1 DEF HandClears
  <2> QED BY <1>3, <2>1 DEF OrphanInv, RowsCovered
<1>7. QueueCovered(tracks, pendingIO)' /\ HandCovered'
  BY <1>1 DEF OrphanInv, QueueCovered, HandCovered, Closes, ClearsFrom
<1> QED BY <1>4, <1>5, <1>6, <1>7 DEF OrphanInv

(* No step breaks OrphanInv: one case per action. *)
LEMMA OrphanInvStep ==
  ASSUME Reliable, TypeInv, DrainInv, MuFree, OrderInv, OneOpenRow, OrphanInv, [Next]_vars
  PROVE  OrphanInv'
<1>0. "series" \notin Env
  BY DEF Reliable
<1>1. ASSUME NEW w \in Workers, WorkerStep(w) PROVE OrphanInv'
  BY <1>0, <1>1, NoBatchStep, EvaluateCover DEF WorkerStep
<1>2. CASE LoadQuery
  <2>1. UNCHANGED <<rows, dbDefs, up, ids, tracks, pendingIO, act>> /\ up
    BY <1>2 DEF LoadQuery, drainVars, trackVars
  <2>2. pc' = pc \/ (pc' = [pc EXCEPT ![Reloader] = "loaded"] /\ pc[Reloader] = "idle")
    BY <1>2 DEF LoadQuery, Goto
  <2>3. \A c \in Callers : (pc'[c] = "exec" <=> pc[c] = "exec") /\ (pc[c] = "exec" => act'[c] = act[c])
    BY <2>1, <2>2 DEF TypeInv, TypeOK
  <2> QED BY <2>1, <2>3, QuietCover
<1>3. ASSUME NEW c \in Callers, DrainBusy(c) \/ DrainDone(c) \/ Notify(c) PROVE OrphanInv'
  <2>1. /\ UNCHANGED <<rows, dbDefs, up, ids, tracks, pendingIO>>
        /\ pc[c] \notin {"exec", "idle"} /\ \A e \in Callers : e # c => act'[e] = act[e]
        /\ \E where \in {"idle", "loop"} : pc' = [pc EXCEPT ![c] = where]
    BY <1>3 DEF DrainBusy, DrainDone, Notify, AtQueue, Goto, drainVars, trackVars, dbVars, TypeInv, TypeOK
  <2>2. \A e \in Callers : (pc'[e] = "exec" <=> pc[e] = "exec") /\ (pc[e] = "exec" => act'[e] = act[e])
    BY <2>1 DEF TypeInv, TypeOK
  <2>3. up
    BY <2>1 DEF OrphanInv, DownInv
  <2> QED BY <2>1, <2>2, <2>3, QuietCover
<1>4. ASSUME NEW c \in Callers, DrainStep(c) PROVE OrphanInv'
  BY <1>3, <1>4, TakeCover, PersistActiveCover, PersistClearedCover DEF DrainStep
<1>5. CASE AdvanceClock \/ UNCHANGED vars
  <2>1. UNCHANGED <<rows, dbDefs, up, ids, tracks, pendingIO, act, pc>>
    BY <1>5 DEF AdvanceClock, vars, drainVars, trackVars, dbVars
  <2> QED BY <2>1, QuietCover
<1> QED BY <1>1, <1>2, <1>4, <1>5, TickCover, LoadApplyCover, CrashCover, NewManagerCover, OperatorCover
        DEF Next, ManagerNext

(***************************************************************************)
(* eventRef: every open row of a running driver is still going to be       *)
(* closed, for any rules, goroutines and order of their steps, with        *)
(* retries, new occurrences and rules replaced while rows are being        *)
(* written, and across restarts.                                           *)
(***************************************************************************)
THEOREM NoOrphanHolds ==
  ASSUME Reliable
  PROVE  Spec => []NoOrphanRow
<1>1. Init => OrphanInv
  <2> SUFFICES ASSUME Init PROVE OrphanInv
    OBVIOUS
  <2>1. /\ pendingIO = <<>> /\ DOMAIN pendingIO = {} /\ rows = <<>> /\ DOMAIN rows = {} /\ up
        /\ \A c \in Callers : pc[c] = "idle"
    BY DEF Init
  <2> QED BY <2>1 DEF OrphanInv, RowsInv, DownInv, RowsCovered, QueueCovered, HandCovered, OpenRows
<1>2. "series" \notin Env
  BY DEF Reliable
<1>3. Spec => [](OrderInv /\ MuFree)
  BY <1>2, OrderInvHolds
<1>4. TypeInv /\ DrainInv /\ (OrderInv /\ MuFree) /\ OneOpenRow /\ OrphanInv /\ [Next]_vars => OrphanInv'
  BY OrphanInvStep
<1>5. TypeInv /\ OrphanInv => NoOrphanRow
  <2> SUFFICES ASSUME TypeInv, OrphanInv, up, NEW d \in Defs, NEW i \in OpenRows(rows, d)
               PROVE  \/ Triggered(d) /\ ids[tracks[d].ref] \in {0, i}
                      \/ \E io \in Outstanding : io.status = "CLEARED" /\ ids[io.ref] = i
    BY DEF NoOrphanRow
  <2>1. PICK r \in Refs : ids[r] = i /\ (HandClears(r) \/ Closes(tracks, pendingIO, 1, d, r))
    BY DEF OrphanInv, RowsCovered
  <2>2. \A k \in DOMAIN pendingIO : pendingIO[k] \in Outstanding
    BY DEF Outstanding, ToSet
  <2>3. \A c \in Callers : pc[c] = "exec" => act[c] \in Outstanding
    BY DEF Outstanding
  <2> QED BY <2>1, <2>2, <2>3 DEF HandClears, Closes, ClearsFrom, Triggered
<1> QED BY <1>1, <1>3, <1>4, <1>5, TypeInvHolds, DrainInvHolds, OpenRowUnique, PTL DEF Spec
================================================================================
