-------------------------- MODULE TelemetryProofs --------------------------
(***************************************************************************)
(* Proofs about Telemetry, for every set of tags and values and every      *)
(* deployment: its types; that it implements SampleLog; that a historian   *)
(* that does not die writes no copy without a refused query; that the two  *)
(* writers of the live value leave the newest reading.                     *)
(***************************************************************************)
EXTENDS Telemetry, FiniteSetTheorems, SequenceTheorems, TLAPS

DataPc == {"get", "set", "decide", "save", "prev", "last"}
MarkPc == {"mark", "markset", "marker"}

\* A message with a sample in it.
IsData(m) == m.kind \in {"data", "ddata"}

\* Where a handler is tells what it works on.
PlaceInv ==
  /\ h.pc # "idle" => hq # <<>>
  /\ h.pc \in DataPc => IsData(hq[1])
  /\ h.pc \in MarkPc => h.marks # {}
  /\ h.pc = "markset" => h.seen # None
  /\ c # "idle" => cq # <<>>

\* Every sample on its way was sent; of one tag and one time there is one.
SentInv ==
  /\ \A i \in 1..Len(hq) : IsData(hq[i]) => hq[i].sample \in emitted
  /\ \A i \in 1..Len(cq) : cq[i] \in emitted
  /\ \A t \in Tags : retained[t] # None => retained[t] \in emitted /\ retained[t].tag = t
  /\ \A s \in emitted : s.v = Null => s.q = Bad
  /\ \A s, o \in emitted : s.tag = o.tag /\ s.ts = o.ts => s = o

TypeInv == TypeOK /\ PlaceInv /\ SentInv

\* Sparkplug messages come from a gateway that publishes Sparkplug.
KindInv == \A i \in 1..Len(hq) : hq[i].kind = "ddata" => plan.mode # "legacy"

-----------------------------------------------------------------------------
(* The messages and the queues. *)

\* What the retained topics hold, as a set.
Kept == {retained[t] : t \in Tags} \ {None}

\* A queue that only got longer.
Grown(q, p) == Len(p) <= Len(q) /\ \A i \in 1..Len(p) : q[i] = p[i]

\* A queue that got longer by the retained samples and the health.
Renewed(q, p) ==
  /\ q \in Seq(Message) /\ Grown(q, p)
  /\ \A i \in (Len(p) + 1)..Len(q) :
       \/ IsData(q[i]) /\ q[i].kind = "data" /\ q[i].sample \in Kept
       \/ ~IsData(q[i]) /\ q[i].kind = "health" /\ q[i].status = status
  /\ \A x \in Kept : \E i \in (Len(p) + 1)..Len(q) : IsData(q[i]) /\ q[i].sample = x

LEMMA Instants == \A t \in Times : t \in Int /\ t \in Nat
  BY TimesAssumption

\* A message that says data carries a sample.
LEMMA DataMessage ==
  ASSUME NEW m \in Message, IsData(m)
  PROVE  m.sample \in Sample
BY DEF Message, IsData

\* A data message made of a sample.
LEMMA MessageOf ==
  ASSUME NEW s \in Sample
  PROVE  /\ [kind |-> "data", sample |-> s] \in Message
         /\ [kind |-> "ddata", sample |-> s] \in Message
BY DEF Message

\* A queue, another behind it and a message at the end.
LEMMA Behind ==
  ASSUME NEW p \in Seq(Message), NEW d \in Seq(Message), NEW a \in Message
  PROVE  /\ Append(p \o d, a) \in Seq(Message)
         /\ Len(Append(p \o d, a)) = Len(p) + Len(d) + 1
         /\ \A i \in 1..Len(p) : Append(p \o d, a)[i] = p[i]
         /\ \A i \in 1..Len(d) : Append(p \o d, a)[Len(p) + i] = d[i]
         /\ Append(p \o d, a)[Len(Append(p \o d, a))] = a
PROOF
<1> DEFINE r == p \o d
           q == Append(r, a)
<1>1. /\ r \in Seq(Message) /\ Len(r) = Len(p) + Len(d)
      /\ \A i \in 1..Len(p) : r[i] = p[i]
      /\ \A i \in 1..Len(d) : r[Len(p) + i] = d[i]
  OBVIOUS
<1> HIDE DEF r
<1>2. r \in Seq(Message) BY <1>1
<1>3. q \in Seq(Message) /\ Len(q) = Len(r) + 1 /\ q[Len(q)] = a BY <1>2
<1>4. \A i \in 1..Len(r) : q[i] = r[i] BY <1>2
<1> HIDE DEF q
<1>5. Len(p) \in Nat /\ Len(d) \in Nat OBVIOUS
<1>6. \A i \in 1..Len(p) : q[i] = p[i] BY <1>1, <1>4, <1>5
<1>7. \A i \in 1..Len(d) : q[Len(p) + i] = d[i] BY <1>1, <1>4, <1>5
<1>8. /\ q \in Seq(Message) /\ Len(q) = Len(p) + Len(d) + 1
      /\ \A i \in 1..Len(p) : q[i] = p[i]
      /\ \A i \in 1..Len(d) : q[Len(p) + i] = d[i]
      /\ q[Len(q)] = a
  BY <1>1, <1>3, <1>5, <1>6, <1>7
<1> QED BY <1>8 DEF q, r

\* Nothing behind a queue, and one message.
LEMMA JoinedFew ==
  ASSUME NEW S, NEW p \in Seq(S), NEW x \in S
  PROVE  p \o <<>> = p /\ p \o <<x>> = Append(p, x)
OBVIOUS

\* A function on the first numbers is a queue.
LEMMA Listing ==
  ASSUME NEW S, NEW n \in Nat, NEW d \in [1..n -> S]
  PROVE  d \in Seq(S) /\ Len(d) = n
OBVIOUS

\* SetToSeq lists every member of a finite set.
LEMMA Listed ==
  ASSUME NEW S, IsFiniteSet(S)
  PROVE  /\ SetToSeq(S) \in Seq(S)
         /\ \A x \in S : \E i \in 1..Len(SetToSeq(S)) : SetToSeq(S)[i] = x
PROOF
<1> DEFINE n == Cardinality(S)
           f == SetToSeq(S)
<1>1. n \in Nat BY FS_CardinalityType
<1>2. PICK g : g \in Bijection(1..n, S)
  BY FS_CardinalityType, Zenon DEF ExistsBijection
<1>3. g \in [1..n -> S] /\ IsInjective(g)
  BY <1>2 DEF Bijection, Injection
<1>4. f \in [1..n -> S] /\ IsInjective(f)
  BY <1>3, Zenon DEF SetToSeq
<1>5. f \in Seq(S) /\ Len(f) = n BY <1>1, <1>4
<1>6. f \in Injection(1..n, S) BY <1>4 DEF Injection
<1>7. Cardinality(1..n) = n BY <1>1, FS_Interval
<1>8. f \in Surjection(1..n, S)
  BY <1>6, <1>7, FS_Injection
<1> QED BY <1>5, <1>8 DEF Surjection

\* What a subscriber is sent when it subscribes: the retained samples, no other.
LEMMA RetainedSent ==
  ASSUME retained \in [Tags -> Sample \cup {None}]
  PROVE  /\ RetainedSamples \in Seq(Sample)
         /\ \A i \in 1..Len(RetainedSamples) : RetainedSamples[i] \in Kept
         /\ \A x \in Kept : \E i \in 1..Len(RetainedSamples) : RetainedSamples[i] = x
PROOF
<1>1. IsFiniteSet({retained[t] : t \in Tags})
  <2> DEFINE r == [t \in Tags |-> retained[t]]
             T == {retained[t] : t \in Tags}
  <2>1. r \in Surjection(Tags, T) BY DEF Surjection
  <2> QED BY <2>1, FS_Surjection, TelemetryAssumption
<1>2. IsFiniteSet(Kept) BY <1>1, FS_Subset DEF Kept
<1>3. RetainedSamples = SetToSeq(Kept) BY DEF RetainedSamples, Kept
<1>4. Kept \subseteq Sample BY DEF Kept
<1>5. /\ RetainedSamples \in Seq(Kept)
      /\ \A x \in Kept : \E i \in 1..Len(RetainedSamples) : RetainedSamples[i] = x
  BY <1>2, <1>3, Listed
<1> QED BY <1>4, <1>5

\* One sample on the broker: the queue grows by messages that carry it.
LEMMA Published ==
  ASSUME hq \in Seq(Message), plan \in Plans, NEW s \in Sample,
         NEW q, q = hq \o LegacyOut(s) \o SparkplugOut(s)
  PROVE  /\ q \in Seq(Message) /\ Grown(q, hq) /\ Len(q) > Len(hq)
         /\ \A i \in (Len(hq) + 1)..Len(q) : IsData(q[i]) /\ q[i].sample = s
         /\ \A i \in (Len(hq) + 1)..Len(q) : q[i].kind = "ddata" => plan.mode # "legacy"
PROOF
<1> DEFINE a == [kind |-> "data", sample |-> s]
           b == [kind |-> "ddata", sample |-> s]
<1>1. plan.mode \in {"legacy", "sparkplug", "dual"} BY TelemetryAssumption
<1>2. a \in Message /\ b \in Message BY MessageOf
<1>3. IsData(a) /\ a.sample = s /\ IsData(b) /\ b.sample = s /\ a.kind = "data" BY DEF IsData
<1>4. \/ q = hq \o <<a>>
      \/ q = hq \o <<b>> /\ plan.mode # "legacy"
      \/ q = hq \o <<a>> \o <<b>> /\ plan.mode # "legacy"
  <2>1. /\ LegacyOut(s) = IF plan.mode = "sparkplug" THEN <<>> ELSE <<a>>
        /\ SparkplugOut(s) = IF plan.mode = "legacy" THEN <<>> ELSE <<b>>
    BY DEF LegacyOut, SparkplugOut
  <2> HIDE DEF a, b
  <2>2. hq \o <<>> = hq /\ (hq \o <<a>>) \o <<>> = hq \o <<a>>
    BY <1>2, JoinedFew
  <2> QED BY <1>1, <2>1, <2>2
<1> HIDE DEF a, b
<1>5. CASE q = hq \o <<a>> BY <1>5, <1>2, <1>3, JoinedFew DEF Grown
<1>6. CASE q = hq \o <<b>> /\ plan.mode # "legacy" BY <1>6, <1>2, <1>3, JoinedFew DEF Grown
<1>7. CASE q = hq \o <<a>> \o <<b>> /\ plan.mode # "legacy"
  <2>1. hq \o <<a>> = Append(hq, a) BY <1>2, JoinedFew
  <2>2. Append(hq, a) \in Seq(Message) BY <1>2
  <2>3. Append(hq, a) \o <<b>> = Append(Append(hq, a), b) BY <2>2, <1>2, JoinedFew, Zenon
  <2>4. q = Append(Append(hq, a), b) BY <1>7, <2>1, <2>3
  <2> QED BY <2>4, <1>2, <1>3, <1>7 DEF Grown
<1> QED BY <1>4, <1>5, <1>6, <1>7

\* A historian that starts again: the retained samples, then the health.
LEMMA Resubscribed ==
  ASSUME hq \in Seq(Message), retained \in [Tags -> Sample \cup {None}], status \in Status
  PROVE  Renewed(hq \o RetainedData \o <<[kind |-> "health", status |-> status]>>, hq)
PROOF
<1> DEFINE a == [kind |-> "health", status |-> status]
           d == RetainedData
           n == Len(RetainedSamples)
<1>1. /\ RetainedSamples \in Seq(Sample)
      /\ \A i \in 1..n : RetainedSamples[i] \in Kept
      /\ \A x \in Kept : \E i \in 1..n : RetainedSamples[i] = x
  BY RetainedSent
<1>2. n \in Nat /\ d = [i \in 1..n |-> [kind |-> "data", sample |-> RetainedSamples[i]]]
  BY <1>1 DEF RetainedData
<1>3. \A i \in 1..n :
        d[i] \in Message /\ IsData(d[i]) /\ d[i].kind = "data" /\ d[i].sample = RetainedSamples[i]
  <2> SUFFICES ASSUME NEW i \in 1..n
               PROVE d[i] \in Message /\ IsData(d[i]) /\ d[i].kind = "data" /\ d[i].sample = RetainedSamples[i]
    OBVIOUS
  <2>1. d[i] = [kind |-> "data", sample |-> RetainedSamples[i]] BY <1>2
  <2>2. RetainedSamples[i] \in Sample BY <1>1
  <2>3. d[i] \in Message BY <2>1, <2>2, MessageOf
  <2>4. IsData(d[i]) /\ d[i].kind = "data" /\ d[i].sample = RetainedSamples[i] BY <2>1 DEF IsData
  <2> QED BY <2>3, <2>4
<1>4. a \in Message /\ ~IsData(a) /\ a.kind = "health" /\ a.status = status BY DEF Message, IsData
<1>5. d \in Seq(Message) /\ Len(d) = n
  <2>1. d \in [1..n -> Message] BY <1>2, <1>3
  <2> HIDE DEF d, n
  <2> QED BY <1>2, <2>1, Listing
<1>6. hq \in Seq(Message) /\ d \in Seq(Message) /\ a \in Message BY <1>4, <1>5
<1> HIDE DEF a, d, n
<1>n. n \in Nat BY <1>2
<1>p. hq \o d \o <<a>> = Append(hq \o d, a)
  <2>1. hq \o d \in Seq(Message) BY <1>6
  <2> QED BY <2>1, <1>6, JoinedFew, Zenon
<1>q. hq \o RetainedData \o <<[kind |-> "health", status |-> status]>> = Append(hq \o d, a)
  BY <1>p, Zenon DEF a, d
<1>r. Renewed(Append(hq \o d, a), hq)
  <2> DEFINE q == Append(hq \o d, a)
  <2>7. /\ q \in Seq(Message) /\ Len(q) = Len(hq) + Len(d) + 1
        /\ \A i \in 1..Len(hq) : q[i] = hq[i]
        /\ \A i \in 1..Len(d) : q[Len(hq) + i] = d[i]
        /\ q[Len(q)] = a
    BY <1>6, Behind
  <2> HIDE DEF q
  <2>8. Len(hq) \in Nat /\ Len(q) = Len(hq) + n + 1 BY <1>5, <1>6, <2>7
  <2>9. Grown(q, hq) BY <1>2, <2>7, <2>8 DEF Grown
  <2>10. \A i \in 1..n : q[Len(hq) + i] = d[i] BY <1>5, <2>7, Zenon
  <2>11. ASSUME NEW i \in (Len(hq) + 1)..Len(q)
         PROVE  \/ IsData(q[i]) /\ q[i].kind = "data" /\ q[i].sample \in Kept
                \/ ~IsData(q[i]) /\ q[i].kind = "health" /\ q[i].status = status
    <3>1. CASE i = Len(q) BY <3>1, <1>4, <2>7
    <3>2. CASE i # Len(q)
      <4>1. i - Len(hq) \in 1..n /\ i = Len(hq) + (i - Len(hq)) BY <3>2, <1>n, <2>8
      <4>2. q[i] = d[i - Len(hq)] BY <4>1, <2>10
      <4> QED BY <4>1, <4>2, <1>1, <1>3
    <3> QED BY <3>1, <3>2
  <2>12. ASSUME NEW x \in Kept
         PROVE  \E i \in (Len(hq) + 1)..Len(q) : IsData(q[i]) /\ q[i].sample = x
    <3>1. PICK k \in 1..n : RetainedSamples[k] = x BY <1>1
    <3>2. Len(hq) + k \in (Len(hq) + 1)..Len(q) BY <1>2, <2>8
    <3>3. q[Len(hq) + k] = d[k] BY <2>10
    <3>4. IsData(q[Len(hq) + k]) /\ q[Len(hq) + k].sample = x BY <3>1, <3>3, <1>3
    <3> QED BY <3>2, <3>4
  <2>13. Renewed(q, hq) BY <2>7, <2>9, <2>11, <2>12 DEF Renewed
  <2> QED BY <2>13 DEF q
<1> QED BY <1>q, <1>r

-----------------------------------------------------------------------------
(* Types. *)

HState == [pc : HPc, marks : SUBSET Tags, seen : Sample \cup {None}]

\* The handler's record after its place changed.
LEMMA HPlace ==
  ASSUME h \in HState, NEW p \in HPc
  PROVE  /\ [h EXCEPT !.pc = p] \in HState
         /\ [h EXCEPT !.pc = p].pc = p /\ [h EXCEPT !.pc = p].marks = h.marks
         /\ [h EXCEPT !.pc = p].seen = h.seen
BY DEF HState

\* The sample at hand is one that was sent.
LEMMA AtHand ==
  ASSUME TypeInv, h.pc \in DataPc
  PROVE  /\ hq # <<>> /\ Current = hq[1].sample /\ Current \in emitted /\ Current \in Sample
         /\ Current.tag \in Tags /\ Current.ts \in Times /\ Current.q \in {Good, Bad}
         /\ Current.v \in Values \cup {Null}
PROOF
<1>1. hq # <<>> /\ IsData(hq[1]) BY DEF TypeInv, PlaceInv, DataPc
<1>2. hq \in Seq(Message) BY DEF TypeInv, TypeOK
<1>3. Len(hq) \in Nat /\ 1 \in 1..Len(hq) /\ Head(hq) = hq[1] BY <1>1, <1>2
<1>4. Current = hq[1].sample BY <1>3 DEF Current
<1>5. Current \in emitted BY <1>1, <1>3, <1>4 DEF TypeInv, SentInv
<1>6. Current \in Sample BY <1>5 DEF TypeInv, TypeOK
<1> QED BY <1>1, <1>4, <1>5, <1>6 DEF Sample

LEMMA TypeInit == Init => TypeInv
PROOF
<1> SUFFICES ASSUME Init PROVE TypeInv OBVIOUS
<1> USE DEF Init
<1>1. TypeOK
  <2>1. Idle \in HState /\ Idle.pc = "idle" BY DEF Idle, HState, HPc
  <2> QED BY <2>1, TelemetryAssumption, TimesAssumption DEF TypeOK, Status, CPc, HState
<1>2. PlaceInv BY DEF PlaceInv, Idle, DataPc, MarkPc
<1>3. SentInv BY DEF SentInv
<1> QED BY <1>1, <1>2, <1>3 DEF TypeInv

\* A step of the historian's handler on a sample: the queues stay.
LEMMA HandlerTypes ==
  ASSUME TypeInv, h' \in HState, UNCHANGED <<driverVars, hq, cq, c, resent>>,
         realtime' \in [Tags -> Sample \cup {None}], shadow' \in [Tags -> Sample \cup {None}],
         prev' \in [Tags -> Sample \cup {None}], last' \in [Tags -> Times \cup {None}],
         rows' \in Seq(Row), tracked' \subseteq Tags, faults' \in 0..MaxFaults,
         answered' \subseteq emitted, lost' \subseteq answered', silent' \subseteq lost',
         h'.pc # "idle" => hq # <<>>,
         h'.pc \in DataPc => IsData(hq[1]),
         h'.pc \in MarkPc => h'.marks # {},
         h'.pc = "markset" => h'.seen # None
  PROVE  TypeInv'
PROOF
<1>1. TypeOK' BY DEF TypeInv, TypeOK, HState, driverVars
<1>2. PlaceInv' BY DEF TypeInv, PlaceInv
<1>3. SentInv' BY DEF TypeInv, SentInv, driverVars
<1> QED BY <1>1, <1>2, <1>3 DEF TypeInv

\* Faults are counted up to their bound.
LEMMA FaultsBound ==
  ASSUME faults \in 0..MaxFaults
  PROVE  /\ Faulty(FALSE) => faults' \in 0..MaxFaults /\ faults' = faults
         /\ Fail /\ Faulty(TRUE) => faults' \in 0..MaxFaults /\ faults' = faults + 1
BY TelemetryAssumption DEF Faulty, Fail

\* The rows after one more.
LEMMA OneRowMore ==
  ASSUME rows \in Seq(Row), NEW r \in Row
  PROVE  /\ Append(rows, r) \in Seq(Row) /\ Len(rows) \in Nat
         /\ Len(Append(rows, r)) = Len(rows) + 1
         /\ \A i \in 1..Len(rows) : Append(rows, r)[i] = rows[i]
         /\ Append(rows, r)[Len(rows) + 1] = r
OBVIOUS

\* The row of a sample.
LEMMA RowType ==
  ASSUME NEW s \in Sample
  PROVE  /\ RowOf(s) \in Row /\ RowOf(s).tag = s.tag /\ RowOf(s).ts = s.ts /\ RowOf(s).by = "sample"
         /\ RowOf(s).v = IF s.q = Good THEN s.v ELSE Null
BY DEF RowOf, Row, Sample, Good, Bad

LEMMA HandlerStep == TypeInv /\ (HandleData \/ StoreRealtimeGet \/ StoreRealtimeSet \/ Decide) => TypeInv'
PROOF
<1> SUFFICES ASSUME TypeInv, HandleData \/ StoreRealtimeGet \/ StoreRealtimeSet \/ Decide PROVE TypeInv' OBVIOUS
<1>0. /\ TypeOK /\ h \in HState /\ faults \in 0..MaxFaults /\ hq \in Seq(Message)
      /\ realtime \in [Tags -> Sample \cup {None}]
  BY DEF TypeInv, TypeOK, HState
<1>h. "get" \in HPc /\ "set" \in HPc /\ "decide" \in HPc /\ "save" \in HPc /\ "ack" \in HPc BY DEF HPc
<1>1. CASE HandleData
  <2>1. hq # <<>> /\ IsData(Head(hq)) /\ Head(hq) = hq[1] /\ Current = hq[1].sample
    BY <1>1, <1>0 DEF HandleData, Busy, IsData, Current
  <2>2. Current \in emitted /\ Current \in Sample /\ Current.tag \in Tags
    <3>1. 1 \in 1..Len(hq) BY <1>0, <2>1
    <3>2. Current \in emitted BY <2>1, <3>1 DEF TypeInv, SentInv
    <3>3. Current \in Sample BY <3>2, <1>0 DEF TypeOK
    <3> QED BY <3>2, <3>3 DEF Sample
  <2>3. UNCHANGED <<driverVars, hq, cq, liveVars, storeVars, c, resent>> BY <1>1 DEF HandleData
  <2>4. /\ h' \in HState /\ h'.pc \in {"get", "ack"}
    BY <1>1, <1>0, <1>h, HPlace DEF HandleData
  <2>5. tracked' \subseteq Tags /\ faults' \in 0..MaxFaults
    BY <1>1, <1>0, <2>2, FaultsBound DEF HandleData, TypeOK
  <2>6. answered' \subseteq emitted /\ lost' \subseteq answered' /\ silent' \subseteq lost'
    BY <1>1, <1>0, <2>2 DEF HandleData, Answer, answerVars, TypeOK
  <2> QED BY <1>0, <2>1, <2>3, <2>4, <2>5, <2>6, HandlerTypes DEF liveVars, storeVars, TypeOK, MarkPc
<1>2. CASE StoreRealtimeGet
  <2>1. hq # <<>> /\ IsData(hq[1]) BY <1>2 DEF StoreRealtimeGet, Busy, TypeInv, PlaceInv, DataPc
  <2>2. h' \in HState /\ h'.pc \in {"decide", "set"} BY <1>2, <1>0, <1>h, HPlace DEF StoreRealtimeGet
  <2>3. UNCHANGED <<driverVars, hq, cq, liveVars, storeVars, tracked, c, answerVars, faults, resent>>
    BY <1>2 DEF StoreRealtimeGet
  <2> QED BY <1>0, <2>1, <2>2, <2>3, HandlerTypes DEF liveVars, storeVars, answerVars, TypeOK, MarkPc
<1>3. CASE StoreRealtimeSet
  <2>1. h.pc \in DataPc BY <1>3 DEF StoreRealtimeSet, Busy, DataPc
  <2>2. hq # <<>> /\ IsData(hq[1]) BY <2>1 DEF TypeInv, PlaceInv, DataPc
  <2>3. h' \in HState /\ h'.pc = "decide" BY <1>3, <1>0, <1>h, HPlace DEF StoreRealtimeSet
  <2>4. realtime' \in [Tags -> Sample \cup {None}] BY <1>3, <1>0, <2>1, AtHand DEF StoreRealtimeSet
  <2>5. UNCHANGED <<driverVars, hq, cq, shadow, storeVars, tracked, c, answerVars, faults, resent>>
    BY <1>3 DEF StoreRealtimeSet
  <2> QED BY <1>0, <2>2, <2>3, <2>4, <2>5, HandlerTypes DEF storeVars, answerVars, TypeOK, MarkPc
<1>4. CASE Decide
  <2>1. h.pc \in DataPc BY <1>4 DEF Decide, Busy, DataPc
  <2>2. hq # <<>> /\ IsData(hq[1]) BY <2>1 DEF TypeInv, PlaceInv, DataPc
  <2>3. h' \in HState /\ h'.pc \in {"save", "ack"} BY <1>4, <1>0, <1>h, HPlace DEF Decide
  <2>4. faults' \in 0..MaxFaults BY <1>4, <1>0, FaultsBound DEF Decide
  <2>5. answered' \subseteq emitted /\ lost' \subseteq answered' /\ silent' \subseteq lost'
    BY <1>4, <1>0, <2>1, AtHand DEF Decide, Answer, TypeOK
  <2>6. UNCHANGED <<driverVars, hq, cq, liveVars, storeVars, tracked, c, silent, resent>> BY <1>4 DEF Decide
  <2> QED BY <1>0, <2>2, <2>3, <2>4, <2>5, <2>6, HandlerTypes DEF liveVars, storeVars, TypeOK, MarkPc
<1> QED BY <1>1, <1>2, <1>3, <1>4

LEMMA StoreStep == TypeInv /\ (SaveToPostgreSQL \/ StorePreviousValue \/ StoreLastTime) => TypeInv'
PROOF
<1> SUFFICES ASSUME TypeInv, SaveToPostgreSQL \/ StorePreviousValue \/ StoreLastTime PROVE TypeInv' OBVIOUS
<1>0. /\ TypeOK /\ h \in HState /\ faults \in 0..MaxFaults /\ hq \in Seq(Message) /\ rows \in Seq(Row)
      /\ prev \in [Tags -> Sample \cup {None}] /\ last \in [Tags -> Times \cup {None}]
  BY DEF TypeInv, TypeOK, HState
<1>h. "prev" \in HPc /\ "last" \in HPc /\ "ack" \in HPc BY DEF HPc
<1>d. h.pc \in DataPc BY DEF SaveToPostgreSQL, StorePreviousValue, StoreLastTime, Busy, DataPc
<1>q. hq # <<>> /\ IsData(hq[1]) BY <1>d DEF TypeInv, PlaceInv, DataPc
<1>1. CASE SaveToPostgreSQL
  <2>1. h' \in HState /\ h'.pc \in {"prev", "ack"} BY <1>1, <1>0, <1>h, HPlace DEF SaveToPostgreSQL
  <2>2. faults' \in 0..MaxFaults BY <1>1, <1>0, FaultsBound DEF SaveToPostgreSQL
  <2>3. rows' \in Seq(Row) BY <1>1, <1>0, <1>d, AtHand, RowType, OneRowMore DEF SaveToPostgreSQL
  <2>4. answered' \subseteq emitted /\ lost' \subseteq answered' /\ silent' \subseteq lost'
    BY <1>1, <1>0, <1>d, AtHand DEF SaveToPostgreSQL, Answer, TypeOK
  <2>5. UNCHANGED <<driverVars, hq, cq, liveVars, prev, last, tracked, c, silent, resent>> BY <1>1 DEF SaveToPostgreSQL
  <2> QED BY <1>0, <1>q, <2>1, <2>2, <2>3, <2>4, <2>5, HandlerTypes DEF liveVars, TypeOK, MarkPc
<1>2. CASE StorePreviousValue
  <2>1. h' \in HState /\ h'.pc \in {"last", "ack"} BY <1>2, <1>0, <1>h, HPlace DEF StorePreviousValue
  <2>2. prev' \in [Tags -> Sample \cup {None}] BY <1>2, <1>0, <1>d, AtHand DEF StorePreviousValue
  <2>3. UNCHANGED <<driverVars, hq, cq, liveVars, last, rows, tracked, c, answerVars, faults, resent>>
    BY <1>2 DEF StorePreviousValue
  <2> QED BY <1>0, <1>q, <2>1, <2>2, <2>3, HandlerTypes DEF liveVars, answerVars, TypeOK, MarkPc
<1>3. CASE StoreLastTime
  <2>1. h' \in HState /\ h'.pc = "ack" BY <1>3, <1>0, <1>h, HPlace DEF StoreLastTime
  <2>2. last' \in [Tags -> Times \cup {None}] BY <1>3, <1>0, <1>d, AtHand DEF StoreLastTime
  <2>3. UNCHANGED <<driverVars, hq, cq, liveVars, prev, rows, tracked, c, answerVars, faults, resent>>
    BY <1>3 DEF StoreLastTime
  <2> QED BY <1>0, <1>q, <2>1, <2>2, <2>3, HandlerTypes DEF liveVars, answerVars, TypeOK, MarkPc, DataPc
<1> QED BY <1>1, <1>2, <1>3

\* The tag that is marked next is a tag.
LEMMA MarkedTag ==
  ASSUME TypeInv, h.pc \in MarkPc
  PROVE  Marked \in h.marks /\ Marked \in Tags /\ hq # <<>>
PROOF
<1>1. h.marks # {} /\ h.marks \subseteq Tags BY DEF TypeInv, TypeOK, PlaceInv
<1>2. Marked \in h.marks BY <1>1 DEF Marked
<1> QED BY <1>1, <1>2 DEF TypeInv, PlaceInv, MarkPc

\* After a tag was marked there is another, or nothing is left to do.
LEMMA AfterMarkType ==
  ASSUME TypeInv, h.pc \in MarkPc
  PROVE  /\ AfterMark \in HState /\ AfterMark.pc \in {"ack", "mark"}
         /\ AfterMark.pc = "mark" => AfterMark.marks # {}
PROOF
<1>1. h \in HState BY DEF TypeInv, TypeOK, HState
<1>2. Marked \in h.marks BY MarkedTag
<1>3. "ack" \in HPc /\ "mark" \in HPc BY DEF HPc
<1>4. h.marks \ {Marked} \in SUBSET Tags BY <1>1 DEF HState
<1>5. /\ AfterMark.pc = IF h.marks = {Marked} THEN "ack" ELSE "mark"
      /\ AfterMark.marks = h.marks \ {Marked}
      /\ AfterMark.seen = None
      /\ AfterMark \in HState
  BY <1>1, <1>3, <1>4 DEF AfterMark, HState
<1> QED BY <1>2, <1>5

LEMMA MarkStep ==
  TypeInv /\ (HandleHealth \/ HandleDeath \/ MarkTagGet \/ MarkTagSet \/ MarkTagRow) => TypeInv'
PROOF
<1> SUFFICES ASSUME TypeInv, HandleHealth \/ HandleDeath \/ MarkTagGet \/ MarkTagSet \/ MarkTagRow
             PROVE  TypeInv'
  OBVIOUS
<1>0. /\ TypeOK /\ h \in HState /\ faults \in 0..MaxFaults /\ hq \in Seq(Message) /\ rows \in Seq(Row)
      /\ realtime \in [Tags -> Sample \cup {None}] /\ tracked \subseteq Tags /\ clock \in Times
  BY DEF TypeInv, TypeOK, HState
<1>h. "ack" \in HPc /\ "mark" \in HPc /\ "marker" \in HPc /\ "markset" \in HPc BY DEF HPc
<1>q. hq # <<>> BY DEF HandleHealth, HandleDeath, MarkTagGet, MarkTagSet, MarkTagRow, Busy
<1>1. CASE HandleHealth
  <2>1. PICK failed \in {FALSE} \cup (IF Fail THEN {TRUE} ELSE {}),
             marks \in {{}, Tags} :
          /\ h' = [h EXCEPT !.pc = IF marks = {} THEN "ack" ELSE "mark", !.marks = marks]
          /\ Faulty(failed)
    BY <1>1 DEF HandleHealth
  <2>2. /\ h' \in HState /\ h'.marks = marks /\ h'.pc = IF marks = {} THEN "ack" ELSE "mark"
    BY <1>0, <1>h, <2>1 DEF HState
  <2>3. faults' \in 0..MaxFaults BY <2>1, <1>0, FaultsBound
  <2>4. UNCHANGED <<driverVars, hq, cq, liveVars, storeVars, tracked, c, answerVars, resent>> BY <1>1 DEF HandleHealth
  <2> QED BY <1>0, <1>q, <2>2, <2>3, <2>4, HandlerTypes DEF liveVars, storeVars, answerVars, TypeOK, MarkPc, DataPc
<1>2. CASE HandleDeath
  <2>1. /\ h' \in HState /\ h'.marks = tracked /\ h'.pc = IF tracked = {} THEN "ack" ELSE "mark"
    BY <1>0, <1>h, <1>2 DEF HState, HandleDeath
  <2>2. UNCHANGED <<driverVars, hq, cq, liveVars, storeVars, tracked, c, answerVars, faults, resent>>
    BY <1>2 DEF HandleDeath
  <2> QED BY <1>0, <1>q, <2>1, <2>2, HandlerTypes DEF liveVars, storeVars, answerVars, TypeOK, MarkPc, DataPc
<1>3. CASE MarkTagGet
  <2>1. h.pc \in MarkPc BY <1>3 DEF MarkTagGet, Busy, MarkPc
  <2>2. realtime[Marked] \in Sample \cup {None} BY <2>1, <1>0, MarkedTag
  <2>3. /\ h' \in HState /\ h'.marks = h.marks /\ h'.seen = realtime[Marked]
        /\ h'.pc = IF realtime[Marked] = None THEN "marker" ELSE "markset"
    BY <1>0, <1>h, <1>3, <2>2 DEF HState, MarkTagGet
  <2>4. UNCHANGED <<driverVars, hq, cq, liveVars, storeVars, tracked, c, answerVars, faults, resent>>
    BY <1>3 DEF MarkTagGet
  <2>5. h.marks # {} BY <2>1 DEF TypeInv, PlaceInv
  <2> QED BY <1>0, <1>q, <2>3, <2>4, <2>5, HandlerTypes DEF liveVars, storeVars, answerVars, TypeOK, MarkPc, DataPc
<1>4. CASE MarkTagSet
  <2>1. h.pc \in MarkPc /\ h.pc = "markset" BY <1>4 DEF MarkTagSet, Busy, MarkPc
  <2>2. h.seen \in Sample BY <1>0, <2>1 DEF TypeInv, PlaceInv, HState
  <2>3. [h.seen EXCEPT !.q = Bad] \in Sample BY <2>2 DEF Sample
  <2>4. realtime' \in [Tags -> Sample \cup {None}] BY <1>0, <1>4, <2>1, <2>3, MarkedTag DEF MarkTagSet
  <2>5. h' = AfterMark \/ h' = [h EXCEPT !.pc = "marker"] BY <1>4 DEF MarkTagSet
  <2>6. h.marks # {} BY <2>1 DEF TypeInv, PlaceInv
  <2>7. /\ h' \in HState /\ h'.pc \in {"ack", "mark", "marker"}
        /\ h'.pc # "ack" => h'.marks # {}
    BY <1>0, <1>h, <2>1, <2>5, <2>6, HPlace, AfterMarkType
  <2>8. UNCHANGED <<driverVars, hq, cq, shadow, storeVars, tracked, c, answerVars, faults, resent>>
    BY <1>4 DEF MarkTagSet
  <2> QED BY <1>0, <1>q, <2>4, <2>7, <2>8, HandlerTypes DEF storeVars, answerVars, TypeOK, MarkPc, DataPc
<1>5. CASE MarkTagRow
  <2>1. h.pc \in MarkPc BY <1>5 DEF MarkTagRow, Busy, MarkPc
  <2>2. [tag |-> Marked, ts |-> clock, v |-> Null, by |-> "marker"] \in Row
    BY <1>0, <2>1, MarkedTag DEF Row
  <2>3. rows' \in Seq(Row) BY <1>0, <1>5, <2>2, OneRowMore DEF MarkTagRow
  <2>4. faults' \in 0..MaxFaults BY <1>0, <1>5, FaultsBound DEF MarkTagRow
  <2>5. h' = AfterMark BY <1>5 DEF MarkTagRow
  <2>6. /\ h' \in HState /\ h'.pc \in {"ack", "mark"}
        /\ h'.pc = "mark" => h'.marks # {}
    BY <2>1, <2>5, AfterMarkType
  <2>7. UNCHANGED <<driverVars, hq, cq, liveVars, prev, last, tracked, c, answerVars, resent>> BY <1>5 DEF MarkTagRow
  <2> QED BY <1>0, <1>q, <2>3, <2>4, <2>6, <2>7, HandlerTypes DEF liveVars, answerVars, TypeOK, MarkPc, DataPc
<1> QED BY <1>1, <1>2, <1>3, <1>4, <1>5

\* The driver and the broker.
LEMMA DriverStep == TypeInv /\ Driver => TypeInv'
PROOF
<1> SUFFICES ASSUME TypeInv, Driver PROVE TypeInv' OBVIOUS
<1>0. TypeOK /\ PlaceInv /\ SentInv BY DEF TypeInv
<1>a. hq \in Seq(Message) /\ cq \in Seq(Sample) /\ Len(hq) \in Nat /\ Len(cq) \in Nat BY <1>0 DEF TypeOK
<1>1. CASE Tick
  <2>1. clock' \in Times BY <1>0, <1>1, TelemetryAssumption, TimesAssumption DEF Tick, TypeOK
  <2>2. UNCHANGED <<plan, emitted, lates, health, retained, status, hq, cq, liveVars, storeVars,
                    tracked, h, c, answerVars, faults, resent>>
    BY <1>1 DEF Tick
  <2>3. TypeOK' BY <1>0, <2>1, <2>2 DEF TypeOK, liveVars, storeVars, answerVars
  <2>4. PlaceInv' BY <1>0, <2>2 DEF PlaceInv
  <2>5. SentInv' BY <1>0, <2>2 DEF SentInv
  <2> QED BY <2>3, <2>4, <2>5 DEF TypeInv
<1>2. ASSUME NEW s \in Sample, Publish(s) PROVE TypeInv'
  <2>0. UNCHANGED <<plan, clock, health, status, liveVars, storeVars, tracked, h, c, answerVars, faults, resent>>
    BY <1>2 DEF Publish
  <2>1. emitted' = emitted \cup {s} /\ s.tag \in Tags BY <1>2 DEF Publish, Sample
  <2>2. hq' = hq \o LegacyOut(s) \o SparkplugOut(s) BY <1>2 DEF Publish
  <2>3. /\ hq' \in Seq(Message) /\ Grown(hq', hq) /\ Len(hq') > Len(hq)
        /\ \A i \in (Len(hq) + 1)..Len(hq') : IsData(hq'[i]) /\ hq'[i].sample = s
    BY <1>0, <1>a, <2>2, Published DEF TypeOK
  <2>4. cq' = cq \/ cq' = Append(cq, s) BY <1>2 DEF Publish
  <2>5. cq' \in Seq(Sample) /\ (cq # <<>> => cq' # <<>>) BY <1>a, <2>4
  <2>6. lates' \in 0..MaxLate
    BY <1>0, <1>2, TelemetryAssumption DEF Publish, TypeOK
  <2>7. retained' = retained \/ retained' = [retained EXCEPT ![s.tag] = s] BY <1>2 DEF Publish
  <2>8. retained' \in [Tags -> Sample \cup {None}] BY <1>0, <2>1, <2>7 DEF TypeOK
  <2>9. TypeOK'
    BY <1>0, <2>0, <2>1, <2>3, <2>5, <2>6, <2>8 DEF TypeOK, liveVars, storeVars, answerVars
  <2>10. PlaceInv'
    <3>1. hq # <<>> => hq' # <<>> /\ hq'[1] = hq[1] BY <1>a, <2>3 DEF Grown
    <3> QED BY <1>0, <2>0, <2>5, <3>1 DEF PlaceInv, DataPc
  <2>11. SentInv'
    <3>1. \A i \in 1..Len(hq') : IsData(hq'[i]) => hq'[i].sample \in emitted'
      <4> SUFFICES ASSUME NEW i \in 1..Len(hq'), IsData(hq'[i]) PROVE hq'[i].sample \in emitted' OBVIOUS
      <4>1. CASE i \in 1..Len(hq) BY <1>0, <2>1, <2>3, <4>1 DEF Grown, SentInv
      <4>2. CASE i \notin 1..Len(hq)
        <5>1. i \in (Len(hq) + 1)..Len(hq') BY <4>2, <1>a, <2>3
        <5> QED BY <5>1, <2>1, <2>3
      <4> QED BY <4>1, <4>2
    <3>2. \A i \in 1..Len(cq') : cq'[i] \in emitted' BY <1>0, <1>a, <2>1, <2>4 DEF SentInv
    <3>3. \A t \in Tags : retained'[t] # None => retained'[t] \in emitted' /\ retained'[t].tag = t
      BY <1>0, <2>1, <2>7 DEF SentInv, TypeOK
    <3>4. \A x \in emitted' : x.v = Null => x.q = Bad BY <1>0, <1>2, <2>1 DEF SentInv, Publish
    <3>5. \A x, o \in emitted' : x.tag = o.tag /\ x.ts = o.ts => x = o BY <1>0, <1>2, <2>1 DEF SentInv, Publish
    <3> QED BY <3>1, <3>2, <3>3, <3>4, <3>5 DEF SentInv
  <2> QED BY <2>9, <2>10, <2>11 DEF TypeInv
<1>3. CASE HealthChange \/ DeviceDeath
  <2>1. PICK m \in Message : hq' = Append(hq, m) /\ ~IsData(m)
    <3>1. CASE HealthChange
      <4>1. PICK st \in Status : hq' = Append(hq, [kind |-> "health", status |-> st]) BY <3>1 DEF HealthChange
      <4>2. [kind |-> "health", status |-> st] \in Message /\ ~IsData([kind |-> "health", status |-> st])
        BY DEF Message, IsData
      <4> QED BY <4>1, <4>2
    <3>2. CASE DeviceDeath
      <4>1. hq' = Append(hq, [kind |-> "ddeath"]) BY <3>2 DEF DeviceDeath
      <4>2. [kind |-> "ddeath"] \in Message /\ ~IsData([kind |-> "ddeath"]) BY DEF Message, IsData
      <4> QED BY <4>1, <4>2
    <3> QED BY <1>3, <3>1, <3>2
  <2>2. UNCHANGED <<plan, clock, emitted, lates, retained, cq, liveVars, storeVars, tracked, h, c,
                    answerVars, faults, resent>>
    BY <1>3 DEF HealthChange, DeviceDeath
  <2>3. status' \in Status /\ health' \in 0..MaxHealth
    <3>1. status \in Status /\ health \in 0..MaxHealth BY <1>0 DEF TypeOK
    <3>2. status' \in Status BY <1>3, <3>1 DEF HealthChange, DeviceDeath
    <3>3. health < MaxHealth /\ health' = health + 1 BY <1>3 DEF HealthChange, DeviceDeath
    <3> QED BY <3>1, <3>2, <3>3, TelemetryAssumption
  <2>4. /\ hq' \in Seq(Message) /\ hq' # <<>> /\ Len(hq') = Len(hq) + 1
        /\ \A i \in 1..Len(hq) : hq'[i] = hq[i]
        /\ hq'[Len(hq) + 1] = m
    BY <1>a, <2>1
  <2>5. TypeOK' BY <1>0, <2>2, <2>3, <2>4 DEF TypeOK, liveVars, storeVars, answerVars
  <2>6. PlaceInv'
    <3>1. hq # <<>> => hq'[1] = hq[1] BY <1>a, <2>4
    <3> QED BY <1>0, <2>2, <2>4, <3>1 DEF PlaceInv, DataPc
  <2>7. SentInv'
    <3>1. \A i \in 1..Len(hq') : IsData(hq'[i]) => hq'[i].sample \in emitted
      <4> SUFFICES ASSUME NEW i \in 1..Len(hq'), IsData(hq'[i]) PROVE hq'[i].sample \in emitted OBVIOUS
      <4>1. i \in 1..Len(hq) BY <1>a, <2>1, <2>4
      <4> QED BY <1>0, <2>4, <4>1 DEF SentInv
    <3> QED BY <1>0, <2>2, <3>1 DEF SentInv
  <2> QED BY <2>5, <2>6, <2>7 DEF TypeInv
<1> QED BY <1>1, <1>2, <1>3 DEF Driver

\* Acknowledging takes the first message off the queue or leaves it; dying puts
\* the retained messages behind it.
LEMMA QueueStep == TypeInv /\ (Acknowledge \/ HistorianCrash) => TypeInv'
PROOF
<1> SUFFICES ASSUME TypeInv, Acknowledge \/ HistorianCrash PROVE TypeInv' OBVIOUS
<1>0. TypeOK /\ PlaceInv /\ SentInv BY DEF TypeInv
<1>a. hq \in Seq(Message) /\ Len(hq) \in Nat BY <1>0 DEF TypeOK
<1>i. Idle \in HState /\ Idle.pc = "idle" BY DEF Idle, HState, HPc
<1>1. CASE Acknowledge
  <2>1. UNCHANGED <<driverVars, cq, liveVars, storeVars, tracked, c, answerVars, faults>> /\ h' = Idle /\ hq # <<>>
    BY <1>1 DEF Acknowledge, Busy
  <2>2. hq' = hq \/ hq' = Tail(hq) BY <1>1 DEF Acknowledge
  <2>3. resent' \in 0..MaxResent BY <1>0, <1>1, TelemetryAssumption DEF Acknowledge, TypeOK
  <2>4. /\ hq' \in Seq(Message)
        /\ \A i \in 1..Len(hq') : \E j \in 1..Len(hq) : hq'[i] = hq[j]
    BY <1>a, <2>1, <2>2
  <2>5. TypeOK' BY <1>0, <1>i, <2>1, <2>3, <2>4 DEF TypeOK, HState, driverVars, liveVars, storeVars, answerVars
  <2>6. PlaceInv' BY <1>0, <1>i, <2>1 DEF PlaceInv, DataPc, MarkPc
  <2>7. SentInv' BY <1>0, <2>1, <2>4 DEF SentInv, driverVars
  <2> QED BY <2>5, <2>6, <2>7 DEF TypeInv
<1>2. CASE HistorianCrash
  <2>1. UNCHANGED <<driverVars, cq, liveVars, storeVars, c, answerVars, resent>> /\ h' = Idle /\ tracked' = {}
    BY <1>2 DEF HistorianCrash
  <2>2. Renewed(hq', hq)
    BY <1>0, <1>a, <1>2, Resubscribed DEF HistorianCrash, TypeOK
  <2>3. faults' \in 0..MaxFaults BY <1>0, <1>2, TelemetryAssumption DEF HistorianCrash, TypeOK
  <2>4. hq' \in Seq(Message) BY <2>2 DEF Renewed
  <2>5. TypeOK' BY <1>0, <1>i, <2>1, <2>3, <2>4 DEF TypeOK, HState, driverVars, liveVars, storeVars, answerVars
  <2>6. PlaceInv' BY <1>0, <1>i, <2>1 DEF PlaceInv, DataPc, MarkPc
  <2>7. \A i \in 1..Len(hq') : IsData(hq'[i]) => hq'[i].sample \in emitted
    <3> SUFFICES ASSUME NEW i \in 1..Len(hq'), IsData(hq'[i]) PROVE hq'[i].sample \in emitted OBVIOUS
    <3>1. CASE i \in 1..Len(hq) BY <1>0, <2>2, <3>1 DEF Renewed, Grown, SentInv
    <3>2. CASE i \notin 1..Len(hq)
      <4>1. i \in (Len(hq) + 1)..Len(hq') BY <1>a, <2>4, <3>2
      <4>2. hq'[i].sample \in Kept BY <2>2, <4>1 DEF Renewed
      <4> QED BY <1>0, <4>2 DEF Kept, SentInv
    <3> QED BY <3>1, <3>2
  <2>8. SentInv' BY <1>0, <2>1, <2>7 DEF SentInv, driverVars
  <2> QED BY <2>5, <2>6, <2>8 DEF TypeInv
<1> QED BY <1>1, <1>2

LEMMA ApiStep == TypeInv /\ (CoreApi \/ ApiRestart) => TypeInv'
PROOF
<1> SUFFICES ASSUME TypeInv, CoreApi \/ ApiRestart PROVE TypeInv' OBVIOUS
<1>0. TypeOK /\ PlaceInv /\ SentInv BY DEF TypeInv
<1>a. cq \in Seq(Sample) /\ Len(cq) \in Nat BY <1>0 DEF TypeOK
<1>b. /\ UNCHANGED <<driverVars, hq, storeVars, tracked, h, answerVars, resent>>
      /\ c' \in CPc
  BY DEF CoreApi, HandleDataUpdate, UpdateRealtime, UpdateShadow, ApiRestart, CPc, liveVars
<1>c. cq # <<>> => Head(cq) \in Sample /\ Head(cq).tag \in Tags
  <2>1. cq # <<>> => Head(cq) \in Sample BY <1>a
  <2> QED BY <2>1 DEF Sample
<1>1. faults' \in 0..MaxFaults
  BY <1>0, TelemetryAssumption DEF CoreApi, HandleDataUpdate, UpdateRealtime, UpdateShadow, ApiRestart, TypeOK
<1>2. realtime' \in [Tags -> Sample \cup {None}] /\ shadow' \in [Tags -> Sample \cup {None}]
  <2>1. CASE UpdateRealtime BY <1>0, <1>c, <2>1 DEF UpdateRealtime, TypeOK, PlaceInv
  <2>2. CASE UpdateShadow BY <1>0, <1>c, <2>2 DEF UpdateShadow, TypeOK, PlaceInv
  <2>3. CASE HandleDataUpdate \/ ApiRestart BY <1>0, <2>3 DEF HandleDataUpdate, ApiRestart, liveVars, TypeOK
  <2> QED BY <2>1, <2>2, <2>3 DEF CoreApi
<1>3. cq' = cq \/ (cq # <<>> /\ cq' = Tail(cq)) \/ cq' = RetainedSamples
  BY <1>0 DEF CoreApi, HandleDataUpdate, UpdateRealtime, UpdateShadow, ApiRestart, PlaceInv
<1>4. cq' \in Seq(Sample) /\ \A i \in 1..Len(cq') : cq'[i] \in emitted
  <2>1. CASE cq' = cq BY <1>0, <1>a, <2>1 DEF SentInv
  <2>2. CASE cq # <<>> /\ cq' = Tail(cq)
    <3>1. Tail(cq) \in Seq(Sample) /\ \A i \in 1..Len(Tail(cq)) : \E j \in 1..Len(cq) : Tail(cq)[i] = cq[j]
      BY <1>a, <2>2
    <3> QED BY <1>0, <2>2, <3>1 DEF SentInv
  <2>3. CASE cq' = RetainedSamples
    BY <1>0, <2>3, RetainedSent DEF SentInv, Kept, TypeOK
  <2> QED BY <1>3, <2>1, <2>2, <2>3
<1>5. c' # "idle" => cq' # <<>>
  BY <1>0 DEF CoreApi, HandleDataUpdate, UpdateRealtime, UpdateShadow, ApiRestart, PlaceInv
<1>6. TypeOK' BY <1>0, <1>b, <1>1, <1>2, <1>4 DEF TypeOK, driverVars, storeVars, answerVars
<1>7. PlaceInv' BY <1>0, <1>b, <1>5 DEF PlaceInv
<1>8. SentInv' BY <1>0, <1>b, <1>4 DEF SentInv, driverVars
<1> QED BY <1>6, <1>7, <1>8 DEF TypeInv

LEMMA TypeStep == TypeInv /\ [Next]_vars => TypeInv'
PROOF
<1> SUFFICES ASSUME TypeInv, [Next]_vars PROVE TypeInv' OBVIOUS
<1>1. CASE UNCHANGED vars
  <2>1. TypeOK' BY <1>1 DEF TypeInv, TypeOK, vars, driverVars, liveVars, storeVars, answerVars
  <2>2. PlaceInv' BY <1>1 DEF TypeInv, PlaceInv, vars
  <2>3. SentInv' BY <1>1 DEF TypeInv, SentInv, vars, driverVars
  <2> QED BY <2>1, <2>2, <2>3 DEF TypeInv
<1> QED BY <1>1, HandlerStep, StoreStep, MarkStep, DriverStep, QueueStep, ApiStep DEF Next, Historian

\* The queues hold messages whose samples were sent, Redis and tag_history hold
\* samples and rows, and each handler works on a message it has: whatever comes,
\* in whatever order, and wherever a process dies.
THEOREM TypeCorrect == Spec => []TypeInv
PROOF
<1>1. Init => TypeInv BY TypeInit
<1>2. TypeInv /\ [Next]_vars => TypeInv' BY TypeStep
<1> QED BY <1>1, <1>2, PTL DEF Spec

\* Every step keeps the kinds of the messages in line with the publish mode.
LEMMA KindStep == TypeInv /\ KindInv /\ [Next]_vars => KindInv'
PROOF
<1> SUFFICES ASSUME TypeInv, KindInv, [Next]_vars PROVE KindInv' OBVIOUS
<1>0. /\ hq \in Seq(Message) /\ Len(hq) \in Nat /\ plan \in Plans /\ status \in Status
      /\ retained \in [Tags -> Sample \cup {None}]
  BY DEF TypeInv, TypeOK
<1>p. UNCHANGED plan
  BY DEF Next, Driver, Tick, Publish, HealthChange, DeviceDeath, Historian, HandleData, StoreRealtimeGet,
     StoreRealtimeSet, Decide, SaveToPostgreSQL, StorePreviousValue, StoreLastTime, HandleHealth,
     HandleDeath, MarkTagGet, MarkTagSet, MarkTagRow, Acknowledge, HistorianCrash, CoreApi,
     HandleDataUpdate, UpdateRealtime, UpdateShadow, ApiRestart, vars, driverVars
<1>1. CASE UNCHANGED hq BY <1>1, <1>p DEF KindInv
<1>2. ASSUME NEW s \in Sample, Publish(s) PROVE KindInv'
  <2>1. /\ hq' \in Seq(Message) /\ Grown(hq', hq)
        /\ \A i \in (Len(hq) + 1)..Len(hq') : hq'[i].kind = "ddata" => plan.mode # "legacy"
    BY <1>0, <1>2, Published DEF Publish
  <2>2. ASSUME NEW i \in 1..Len(hq') PROVE i \in 1..Len(hq) \/ i \in (Len(hq) + 1)..Len(hq')
    BY <1>0, <2>1
  <2> QED BY <1>p, <2>1, <2>2 DEF KindInv, Grown
<1>3. ASSUME NEW m, m.kind # "ddata", hq' = Append(hq, m) PROVE KindInv'
  <2>1. /\ Len(hq') = Len(hq) + 1 /\ hq'[Len(hq) + 1] = m
        /\ \A i \in 1..Len(hq) : hq'[i] = hq[i]
    BY <1>0, <1>3
  <2>2. ASSUME NEW i \in 1..Len(hq') PROVE i \in 1..Len(hq) \/ i = Len(hq) + 1 BY <1>0, <2>1
  <2> QED BY <1>p, <1>3, <2>1, <2>2 DEF KindInv
<1>4. CASE HealthChange
  <2>1. PICK st \in Status : hq' = Append(hq, [kind |-> "health", status |-> st]) BY <1>4 DEF HealthChange
  <2> QED BY <1>3, <2>1
<1>5. CASE DeviceDeath
  <2>1. hq' = Append(hq, [kind |-> "ddeath"]) BY <1>5 DEF DeviceDeath
  <2> QED BY <1>3, <2>1
<1>6. CASE Acknowledge
  <2>1. hq # <<>> /\ (hq' = hq \/ hq' = Tail(hq)) BY <1>6 DEF Acknowledge, Busy
  <2>2. \A i \in 1..Len(hq') : \E j \in 1..Len(hq) : hq'[i] = hq[j] BY <1>0, <2>1
  <2> QED BY <1>p, <2>2 DEF KindInv
<1>7. CASE HistorianCrash
  <2>1. Renewed(hq', hq) BY <1>0, <1>7, Resubscribed DEF HistorianCrash
  <2>2. hq' \in Seq(Message) /\ \A i \in 1..Len(hq) : hq'[i] = hq[i] BY <2>1 DEF Renewed, Grown
  <2>3. ASSUME NEW i \in (Len(hq) + 1)..Len(hq') PROVE hq'[i].kind # "ddata"
    BY <2>1, <2>3 DEF Renewed
  <2>4. ASSUME NEW i \in 1..Len(hq') PROVE i \in 1..Len(hq) \/ i \in (Len(hq) + 1)..Len(hq')
    BY <1>0, <2>2
  <2> QED BY <1>p, <2>2, <2>3, <2>4 DEF KindInv
<1>8. UNCHANGED hq \/ (\E s \in Sample : Publish(s)) \/ HealthChange \/ DeviceDeath \/ Acknowledge \/ HistorianCrash
  BY DEF Next, Driver, Tick, Historian, HandleData, StoreRealtimeGet,
     StoreRealtimeSet, Decide, SaveToPostgreSQL, StorePreviousValue, StoreLastTime, HandleHealth,
     HandleDeath, MarkTagGet, MarkTagSet, MarkTagRow, CoreApi,
     HandleDataUpdate, UpdateRealtime, UpdateShadow, ApiRestart, vars
<1> QED BY <1>1, <1>2, <1>4, <1>5, <1>6, <1>7, <1>8

-----------------------------------------------------------------------------
(* The baseline of the deadband and the rows. *)

Stored == {rows[i] : i \in 1..Len(rows)}

\* The baseline of a tag is one of its samples, and recorded; the time kept
\* beside it is never after it.
BaseInv ==
  /\ \A t \in Tags : prev[t] # None =>
       /\ prev[t] \in emitted /\ prev[t].tag = t /\ prev[t].v # Null
       /\ RowOf(prev[t]) \in Stored
  /\ \A t \in Tags : last[t] # None => prev[t] # None /\ last[t] <= prev[t].ts
  /\ h.pc \in {"save", "prev"} => hq[1].sample.v # Null /\ hq[1].sample.tag \in Historized
  /\ h.pc = "prev" => RowOf(hq[1].sample) \in Stored
  /\ h.pc = "last" => prev[hq[1].sample.tag] = hq[1].sample

\* As long as the process lives the time is the baseline's own, but between the
\* two writes of storePreviousValueAt, and no sample recorded is newer than the
\* baseline, but for the one just inserted.
FreshInv ==
  "crash" \notin plan.env =>
    \A t \in Tags :
      /\ (h.pc # "last" \/ hq[1].sample.tag # t) /\ prev[t] # None => last[t] = prev[t].ts
      /\ \A r \in Stored : r.tag = t /\ r.by = "sample" =>
           \/ prev[t] # None /\ r.ts <= prev[t].ts
           \/ h.pc = "prev" /\ hq[1].sample.tag = t /\ r.ts = hq[1].sample.ts

\* What the driver and the broker do leaves the message at hand where it is.
LEMMA DriverKeepsHead ==
  ASSUME TypeInv, Driver, h.pc # "idle"
  PROVE  hq'[1] = hq[1]
PROOF
<1>0. hq \in Seq(Message) /\ plan \in Plans /\ Len(hq) \in Nat BY DEF TypeInv, TypeOK
<1>1. 1 \in 1..Len(hq) BY <1>0 DEF TypeInv, PlaceInv
<1>2. CASE Tick BY <1>2 DEF Tick
<1>3. ASSUME NEW s \in Sample, Publish(s) PROVE hq'[1] = hq[1]
  <2>1. Grown(hq', hq) BY <1>0, <1>3, Published DEF Publish
  <2> QED BY <1>1, <2>1 DEF Grown
<1>4. CASE HealthChange
  <2>1. PICK m : hq' = Append(hq, m) BY <1>4 DEF HealthChange
  <2> QED BY <1>0, <1>1, <2>1
<1>5. CASE DeviceDeath
  <2>1. PICK m : hq' = Append(hq, m) BY <1>5 DEF DeviceDeath
  <2> QED BY <1>0, <1>1, <2>1
<1> QED BY <1>2, <1>3, <1>4, <1>5 DEF Driver

\* Steps that leave the rows and the baseline alone, and the place too unless
\* the handler is outside of the writes before and after.
LEMMA BaseQuiet ==
  ASSUME BaseInv, FreshInv, UNCHANGED <<plan, prev, last, rows>>, emitted \subseteq emitted',
         \/ h.pc \notin {"save", "prev", "last"} /\ h'.pc \notin {"save", "prev", "last"}
         \/ h'.pc = h.pc /\ (h.pc \in {"save", "prev", "last"} => hq'[1] = hq[1])
         \/ h'.pc \notin {"save", "prev", "last"} /\ "crash" \in plan.env
  PROVE  BaseInv' /\ FreshInv'
PROOF
<1>0. Stored' = Stored /\ \A x : RowOf(x)' = RowOf(x) BY DEF Stored, RowOf
<1>1. BaseInv' BY <1>0 DEF BaseInv, RowOf
<1>2. FreshInv'
  <2>1. CASE h.pc \notin {"save", "prev", "last"} /\ h'.pc \notin {"save", "prev", "last"}
    BY <1>0, <2>1 DEF FreshInv
  <2>2. CASE h'.pc = h.pc /\ (h.pc \in {"save", "prev", "last"} => hq'[1] = hq[1])
    BY <1>0, <2>2 DEF FreshInv
  <2>3. CASE "crash" \in plan.env BY <2>3 DEF FreshInv
  <2> QED BY <2>1, <2>2, <2>3
<1> QED BY <1>1, <1>2

LEMMA BaseInit == Init => BaseInv /\ FreshInv
BY DEF Init, Idle, BaseInv, FreshInv, Stored

\* The steps that are quiet.
LEMMA BaseOthers ==
  ASSUME TypeInv, BaseInv, FreshInv,
         \/ Driver \/ HandleData \/ StoreRealtimeGet \/ StoreRealtimeSet \/ HandleHealth \/ HandleDeath
         \/ MarkTagGet \/ MarkTagSet \/ Acknowledge \/ HistorianCrash \/ CoreApi \/ ApiRestart
  PROVE  BaseInv' /\ FreshInv'
PROOF
<1>0. h \in HState /\ hq \in Seq(Message) /\ plan \in Plans /\ Len(hq) \in Nat
  BY DEF TypeInv, TypeOK, HState
<1>h. {"get", "set", "decide", "ack", "mark", "marker", "markset"} \subseteq HPc BY DEF HPc
<1>1. CASE Driver
  <2>1. UNCHANGED <<plan, prev, last, rows, h>> /\ emitted \subseteq emitted'
    BY <1>1 DEF Driver, Tick, Publish, HealthChange, DeviceDeath, storeVars
  <2>2. h.pc # "idle" => hq'[1] = hq[1] BY <1>1, DriverKeepsHead
  <2> QED BY <2>1, <2>2, BaseQuiet
<1>2. CASE HandleData \/ StoreRealtimeGet \/ StoreRealtimeSet \/ HandleHealth \/ HandleDeath \/ MarkTagGet
  <2>1. UNCHANGED <<plan, prev, last, rows, emitted>>
    BY <1>2 DEF HandleData, StoreRealtimeGet, StoreRealtimeSet, HandleHealth, HandleDeath, MarkTagGet,
                driverVars, storeVars
  <2>2. h.pc \notin {"save", "prev", "last"}
    BY <1>2 DEF HandleData, StoreRealtimeGet, StoreRealtimeSet, HandleHealth, HandleDeath, MarkTagGet, Busy
  <2>3. h'.pc \notin {"save", "prev", "last"}
    BY <1>0, <1>2 DEF HandleData, StoreRealtimeGet, StoreRealtimeSet, HandleHealth, HandleDeath, MarkTagGet, HState
  <2> QED BY <2>1, <2>2, <2>3, BaseQuiet
<1>3. CASE MarkTagSet
  <2>1. UNCHANGED <<plan, prev, last, rows, emitted>> BY <1>3 DEF MarkTagSet, driverVars, storeVars
  <2>2. h.pc \in MarkPc /\ h.pc = "markset" BY <1>3 DEF MarkTagSet, Busy, MarkPc
  <2>3. h' = AfterMark \/ h' = [h EXCEPT !.pc = "marker"] BY <1>3 DEF MarkTagSet
  <2>4. h'.pc \in {"ack", "mark", "marker"} BY <1>0, <1>h, <2>2, <2>3, AfterMarkType DEF HState
  <2> QED BY <2>1, <2>2, <2>4, BaseQuiet
<1>4. CASE Acknowledge \/ HistorianCrash
  <2>1. UNCHANGED <<plan, prev, last, rows, emitted>> BY <1>4 DEF Acknowledge, HistorianCrash, driverVars, storeVars
  <2>2. h'.pc = "idle" BY <1>4 DEF Acknowledge, HistorianCrash, Idle
  <2>3. h.pc = "ack" \/ "crash" \in plan.env BY <1>4 DEF Acknowledge, HistorianCrash, Busy
  <2> QED BY <2>1, <2>2, <2>3, BaseQuiet
<1>5. CASE CoreApi \/ ApiRestart
  <2>1. UNCHANGED <<plan, prev, last, rows, emitted, h, hq>>
    BY <1>5 DEF CoreApi, HandleDataUpdate, UpdateRealtime, UpdateShadow, ApiRestart, driverVars, storeVars
  <2> QED BY <2>1, BaseQuiet
<1> QED BY <1>1, <1>2, <1>3, <1>4, <1>5

LEMMA StoredRows ==
  ASSUME rows \in Seq(Row)
  PROVE  Stored \subseteq Row
BY DEF Stored

LEMMA StoredMore ==
  ASSUME rows \in Seq(Row), NEW r \in Row, rows' = Append(rows, r)
  PROVE  Stored' = Stored \cup {r}
PROOF
<1>1. /\ Len(rows) \in Nat /\ Len(rows') = Len(rows) + 1
      /\ \A i \in 1..Len(rows) : rows'[i] = rows[i]
      /\ rows'[Len(rows) + 1] = r
  BY OneRowMore
<1>2. 1..Len(rows') = 1..Len(rows) \cup {Len(rows) + 1} BY <1>1
<1> QED BY <1>1, <1>2 DEF Stored

\* The decision to store, and the three writes that follow it.
LEMMA BaseWrites ==
  ASSUME TypeInv, BaseInv, FreshInv,
         Decide \/ SaveToPostgreSQL \/ StorePreviousValue \/ StoreLastTime
  PROVE  BaseInv' /\ FreshInv'
PROOF
<1>0. /\ h \in HState /\ hq \in Seq(Message) /\ rows \in Seq(Row) /\ emitted \subseteq Sample
      /\ prev \in [Tags -> Sample \cup {None}] /\ last \in [Tags -> Times \cup {None}]
  BY DEF TypeInv, TypeOK, HState
<1>h. "save" \in HPc /\ "prev" \in HPc /\ "last" \in HPc /\ "ack" \in HPc BY DEF HPc
<1>d. h.pc \in DataPc BY DEF Decide, SaveToPostgreSQL, StorePreviousValue, StoreLastTime, Busy, DataPc
<1>u. UNCHANGED <<plan, hq, emitted>>
  BY DEF Decide, SaveToPostgreSQL, StorePreviousValue, StoreLastTime, driverVars
<1> DEFINE s == hq[1].sample
<1>s. /\ Current = s /\ s \in emitted /\ s \in Sample /\ s.tag \in Tags /\ s.ts \in Times
      /\ s # None
  BY <1>d, AtHand, NoneAssumption
<1>i. \A x : RowOf(x)' = RowOf(x) BY DEF RowOf
<1>r. RowOf(s) \in Row /\ RowOf(s).tag = s.tag /\ RowOf(s).ts = s.ts BY <1>s, RowType
<1>1. CASE Decide
  <2>1. h'.pc \in {"save", "ack"} /\ (h'.pc = "save" => Current.v # Null /\ Current.tag \in Historized)
    BY <1>0, <1>1 DEF Decide, HState, HistorianFloat
  <2>2. UNCHANGED <<prev, last, rows>> /\ h.pc = "decide" BY <1>1 DEF Decide, storeVars, Busy
  <2>3. Stored' = Stored BY <2>2 DEF Stored
  <2>4. BaseInv' BY <1>i, <1>s, <1>u, <2>1, <2>2, <2>3 DEF BaseInv
  <2>5. FreshInv' BY <1>u, <2>1, <2>2, <2>3 DEF FreshInv
  <2> QED BY <2>4, <2>5
<1>2. CASE SaveToPostgreSQL
  <2>1. UNCHANGED <<prev, last>> /\ h.pc = "save" BY <1>2 DEF SaveToPostgreSQL, Busy
  <2>2. CASE rows' = Append(rows, RowOf(Current)) /\ h' = [h EXCEPT !.pc = "prev"]
    <3>1. Stored' = Stored \cup {RowOf(s)} BY <1>0, <1>r, <1>s, <2>2, StoredMore
    <3>2. h'.pc = "prev" BY <1>0, <2>2 DEF HState
    <3>3. BaseInv' BY <1>i, <1>s, <1>u, <2>1, <3>1, <3>2 DEF BaseInv
    <3>4. FreshInv' BY <1>r, <1>u, <2>1, <3>1, <3>2 DEF FreshInv
    <3> QED BY <3>3, <3>4
  <2>3. CASE UNCHANGED rows /\ h' = [h EXCEPT !.pc = "ack"]
    <3>1. Stored' = Stored BY <2>3 DEF Stored
    <3>2. h'.pc = "ack" BY <1>0, <2>3 DEF HState
    <3>3. BaseInv' BY <1>i, <1>s, <1>u, <2>1, <3>1, <3>2 DEF BaseInv
    <3>4. FreshInv' BY <1>u, <2>1, <3>1, <3>2 DEF FreshInv
    <3> QED BY <3>3, <3>4
  <2> QED BY <1>2, <2>2, <2>3 DEF SaveToPostgreSQL
<1>3. CASE StorePreviousValue
  <2>1. UNCHANGED <<last, rows>> /\ h.pc = "prev" BY <1>3 DEF StorePreviousValue, Busy
  <2>2. Stored' = Stored BY <2>1 DEF Stored
  <2>3. RowOf(s) \in Stored /\ s.v # Null BY <2>1 DEF BaseInv
  <2>4. CASE last[s.tag] # None /\ s.ts < last[s.tag]
    <3>1. h'.pc = "ack" /\ prev' = prev BY <1>0, <1>3, <1>s, <2>4 DEF StorePreviousValue, HState
    <3>2. BaseInv' BY <1>i, <1>u, <2>1, <2>2, <3>1 DEF BaseInv
    <3>3. prev[s.tag] # None /\ s.ts <= prev[s.tag].ts
      <4>1. prev[s.tag] # None /\ last[s.tag] <= prev[s.tag].ts BY <1>s, <2>4 DEF BaseInv
      <4>2. prev[s.tag] \in Sample BY <1>0, <1>s, <4>1
      <4>3. prev[s.tag].ts \in Int /\ last[s.tag] \in Int /\ s.ts \in Int
        BY <1>0, <1>s, <2>4, <4>2, Instants DEF Sample
      <4> QED BY <2>4, <4>1, <4>3
    <3>4. FreshInv' BY <1>u, <2>1, <2>2, <3>1, <3>3 DEF FreshInv
    <3> QED BY <3>2, <3>4
  <2>5. CASE ~(last[s.tag] # None /\ s.ts < last[s.tag])
    <3>1. h'.pc = "last" /\ prev' = [prev EXCEPT ![s.tag] = s]
      BY <1>0, <1>3, <1>s, <2>5 DEF StorePreviousValue, HState
    <3>2. prev'[s.tag] = s /\ \A t \in Tags : t # s.tag => prev'[t] = prev[t] BY <1>0, <1>s, <3>1
    <3>3. last[s.tag] # None => last[s.tag] <= s.ts
      <4>1. last[s.tag] # None => last[s.tag] \in Int BY <1>0, <1>s, Instants
      <4>2. s.ts \in Int BY <1>s, Instants
      <4> QED BY <2>5, <4>1, <4>2
    <3>4. BaseInv'
      <4>1. \A t \in Tags : prev'[t] # None =>
              /\ prev'[t] \in emitted /\ prev'[t].tag = t /\ prev'[t].v # Null
              /\ RowOf(prev'[t]) \in Stored
        <5> SUFFICES ASSUME NEW t \in Tags, prev'[t] # None
                     PROVE  /\ prev'[t] \in emitted /\ prev'[t].tag = t /\ prev'[t].v # Null
                            /\ RowOf(prev'[t]) \in Stored
          OBVIOUS
        <5>1. CASE t = s.tag BY <1>s, <2>3, <3>2, <5>1
        <5>2. CASE t # s.tag
          <6>1. prev'[t] = prev[t] BY <3>2, <5>2
          <6> QED BY <6>1 DEF BaseInv
        <5> QED BY <5>1, <5>2
      <4>2. \A t \in Tags : last[t] # None => prev'[t] # None /\ last[t] <= prev'[t].ts
        BY <1>s, <3>2, <3>3 DEF BaseInv
      <4> QED BY <1>i, <1>u, <2>1, <2>2, <3>1, <3>2, <4>1, <4>2 DEF BaseInv
    <3>5. FreshInv'
      <4> SUFFICES ASSUME "crash" \notin plan.env, NEW t \in Tags
                   PROVE  /\ (h'.pc # "last" \/ hq'[1].sample.tag # t) /\ prev'[t] # None => last'[t] = prev'[t].ts
                          /\ \A r \in Stored' : r.tag = t /\ r.by = "sample" =>
                               \/ prev'[t] # None /\ r.ts <= prev'[t].ts
                               \/ h'.pc = "prev" /\ hq'[1].sample.tag = t /\ r.ts = hq'[1].sample.ts
        BY <1>u DEF FreshInv
      <4>1. CASE t # s.tag BY <1>u, <2>1, <2>2, <3>1, <3>2, <4>1 DEF FreshInv
      <4>2. CASE t = s.tag
        <5>1. ASSUME NEW r \in Stored, r.tag = t, r.by = "sample" PROVE r.ts <= s.ts
          <6>1. r.ts \in Int /\ s.ts \in Int BY <1>0, <1>s, StoredRows, Instants DEF Row
          <6>2. CASE prev[t] # None /\ r.ts <= prev[t].ts
            <7>1. last[t] = prev[t].ts BY <2>1, <6>2 DEF FreshInv
            <7>2. last[t] # None /\ last[t] <= s.ts
              <8>1. prev[t] \in Sample BY <1>0, <6>2
              <8>2. prev[t].ts \in Times BY <8>1 DEF Sample
              <8> QED BY <3>3, <4>2, <7>1, <8>2, NoneAssumption
            <7>3. prev[t].ts \in Int
              <8>1. prev[t] \in Sample BY <1>0, <6>2
              <8> QED BY <8>1, Instants DEF Sample
            <7> QED BY <6>1, <6>2, <7>1, <7>2, <7>3
          <6>3. CASE r.ts = s.ts BY <6>1, <6>3
          <6> QED BY <2>1, <5>1, <6>2, <6>3 DEF FreshInv
        <5> QED BY <1>u, <1>s, <2>2, <3>1, <3>2, <4>2, <5>1
      <4> QED BY <4>1, <4>2
    <3> QED BY <3>4, <3>5
  <2> QED BY <2>4, <2>5
<1>4. CASE StoreLastTime
  <2>1. UNCHANGED <<prev, rows>> /\ h.pc = "last" /\ last' = [last EXCEPT ![s.tag] = s.ts]
    BY <1>4, <1>s DEF StoreLastTime, Busy
  <2>2. Stored' = Stored BY <2>1 DEF Stored
  <2>3. h'.pc = "ack" BY <1>0, <1>4 DEF StoreLastTime, HState
  <2>4. prev[s.tag] = s BY <2>1 DEF BaseInv
  <2>5. last'[s.tag] = s.ts /\ \A t \in Tags : t # s.tag => last'[t] = last[t] BY <1>0, <1>s, <2>1
  <2>6. s.ts <= s.ts BY <1>s, Instants
  <2>7. BaseInv' BY <1>i, <1>s, <1>u, <2>1, <2>2, <2>3, <2>4, <2>5, <2>6 DEF BaseInv
  <2>8. FreshInv' BY <1>u, <2>1, <2>2, <2>3, <2>4, <2>5 DEF FreshInv
  <2> QED BY <2>7, <2>8
<1> QED BY <1>1, <1>2, <1>3, <1>4

\* A marker is no sample and moves no baseline.
LEMMA BaseMarker ==
  ASSUME TypeInv, BaseInv, FreshInv, MarkTagRow
  PROVE  BaseInv' /\ FreshInv'
PROOF
<1>0. /\ h \in HState /\ hq \in Seq(Message) /\ rows \in Seq(Row) /\ clock \in Times
  BY DEF TypeInv, TypeOK, HState
<1>1. h.pc \in MarkPc BY DEF MarkTagRow, Busy, MarkPc
<1>2. UNCHANGED <<plan, emitted, hq, prev, last>> BY DEF MarkTagRow, driverVars
<1>3. h'.pc \in {"ack", "mark"} BY <1>1, AfterMarkType DEF MarkTagRow
<1> DEFINE m == [tag |-> Marked, ts |-> clock, v |-> Null, by |-> "marker"]
<1>4. m \in Row /\ m.by # "sample" BY <1>0, <1>1, MarkedTag DEF Row
<1>5. Stored' = Stored \/ Stored' = Stored \cup {m}
  <2>1. CASE rows' = Append(rows, m) BY <1>0, <1>4, <2>1, StoredMore
  <2>2. CASE UNCHANGED rows BY <2>2 DEF Stored
  <2> QED BY <2>1, <2>2 DEF MarkTagRow
<1>6. \A x : RowOf(x)' = RowOf(x) BY DEF RowOf
<1>7. h.pc \notin {"save", "prev", "last"} BY <1>1 DEF MarkPc
<1> HIDE DEF m
<1>8. BaseInv' BY <1>2, <1>3, <1>5, <1>6 DEF BaseInv
<1>9. FreshInv' BY <1>2, <1>3, <1>4, <1>5, <1>7 DEF FreshInv
<1> QED BY <1>8, <1>9

LEMMA BaseStep == TypeInv /\ BaseInv /\ FreshInv /\ [Next]_vars => BaseInv' /\ FreshInv'
PROOF
<1> SUFFICES ASSUME TypeInv, BaseInv, FreshInv, [Next]_vars PROVE BaseInv' /\ FreshInv' OBVIOUS
<1>1. CASE UNCHANGED vars
  BY <1>1, BaseQuiet DEF vars, driverVars, storeVars
<1> QED BY <1>1, BaseOthers, BaseWrites, BaseMarker DEF Next, Historian

-----------------------------------------------------------------------------
(* Telemetry implements SampleLog. *)

\* A sample that is not stored has a row that stands for it.
LEMMA LeftOut ==
  ASSUME TypeInv, BaseInv, FreshInv, h.pc = "decide", NEW noRow \in BOOLEAN,
         ~ShouldStoreValueAt(Current, noRow)
  PROVE  Current.q = 0 /\ \E r \in Stored : Log!StandsFor(r, Current)
PROOF
<1> DEFINE s == Current
           l == last[s.tag]
           p == prev[s.tag]
<1>0. /\ rows \in Seq(Row) /\ Stored \subseteq Row
      /\ prev \in [Tags -> Sample \cup {None}] /\ last \in [Tags -> Times \cup {None}]
  BY StoredRows DEF TypeInv, TypeOK
<1>s. /\ s \in emitted /\ s \in Sample /\ s.tag \in Tags /\ s.ts \in Times /\ s.ts \in Int
      /\ s.q \in {Good, Bad} /\ s.v \in Values \cup {Null}
  BY AtHand, Instants DEF DataPc
<1>1. s.q = Good BY <1>s DEF ShouldStoreValueAt, Good, Bad
<1>2. s.v \in Int
  <2>1. s.v # Null BY <1>1, <1>s DEF TypeInv, SentInv, Good, Bad
  <2> QED BY <2>1, <1>s, TelemetryAssumption
<1>3. CASE l # None /\ s.ts < l
  <2>1. HasSampleAt(s.tag, s.ts) BY <1>3 DEF ShouldStoreValueAt
  <2>2. PICK i \in 1..Len(rows) : rows[i].tag = s.tag /\ rows[i].ts = s.ts BY <2>1 DEF HasSampleAt
  <2>3. rows[i] \in Stored BY DEF Stored
  <2> QED BY <1>1, <2>2, <2>3 DEF Log!StandsFor, Good
<1>4. CASE ~(l # None /\ s.ts < l)
  <2>1. /\ p # None /\ p.q = s.q /\ ~Exceeds(p.v, s.v) /\ l # None /\ ~(s.ts - l > Floor)
    BY <1>4 DEF ShouldStoreValueAt
  <2>2. /\ p \in Sample /\ p \in emitted /\ p.tag = s.tag /\ p.v # Null /\ RowOf(p) \in Stored
        /\ l <= p.ts
    BY <1>0, <1>s, <2>1 DEF BaseInv
  <2>3. p.ts \in Int /\ l \in Int /\ p.v \in Int /\ Floor \in Int
    <3>1. p.ts \in Times /\ p.v \in Values \cup {Null} BY <2>2 DEF Sample
    <3>2. l \in Times BY <1>0, <1>s, <2>1
    <3>3. p.ts \in Int /\ l \in Int BY <3>1, <3>2, Instants
    <3>4. p.v \in Int BY <2>2, <3>1, TelemetryAssumption
    <3>5. Floor \in Int BY TelemetryAssumption
    <3> QED BY <3>3, <3>4, <3>5
  <2> DEFINE r == RowOf(p)
  <2>4. r.tag = s.tag /\ r.ts = p.ts /\ r.by = "sample" /\ r.v = p.v
    BY <1>1, <2>1, <2>2, RowType
  <2>5. s.ts - r.ts <= Floor BY <1>s, <2>1, <2>2, <2>3, <2>4
  <2>6. ~Log!Moved(r.v, s.v) BY <2>1, <2>4 DEF Log!Moved, Exceeds
  <2>7. Log!SameReading(r, s) BY <2>2, <2>4, <2>5, <2>6 DEF Log!SameReading
  <2>8. r \in Stored BY <2>2
  <2> HIDE DEF r
  <2>9. CASE "crash" \in plan.env
    BY <1>1, <2>4, <2>7, <2>8, <2>9 DEF Log!StandsFor, Good
  <2>10. CASE "crash" \notin plan.env
    <3>1. l = p.ts BY <1>s, <2>1, <2>10 DEF FreshInv
    <3>2. \A n \in Stored : n.tag = s.tag /\ n.by = "sample" => n.ts <= p.ts
      BY <1>s, <2>10 DEF FreshInv
    <3>3. CASE s.ts = p.ts BY <1>1, <2>4, <2>8, <3>3 DEF Log!StandsFor, Good
    <3>4. CASE s.ts # p.ts
      <4>1. r.ts < s.ts BY <1>4, <1>s, <2>1, <2>3, <2>4, <3>1, <3>4
      <4>2. Log!NewestBefore(r, s) BY <2>4, <3>2, <4>1 DEF Log!NewestBefore, Stored
      <4> QED BY <1>1, <2>4, <2>7, <2>8, <4>2 DEF Log!StandsFor, Good
    <3> QED BY <3>3, <3>4
  <2> QED BY <2>9, <2>10
<1> QED BY <1>3, <1>4

LEMMA LogInit == Init => Log!Init
BY DEF Init, Log!Init

\* What SampleLog sees is left alone.
LEMMA LogQuiet ==
  ASSUME UNCHANGED <<plan, emitted, answered, rows, lost, silent>>
  PROVE  UNCHANGED Log!vars
BY DEF Log!vars

\* A sample whose tag is not historized, and one that has its answer, is nothing
\* to SampleLog.
LEMMA LogIgnores ==
  ASSUME UNCHANGED <<plan, emitted, rows>>, NEW s,
         answered' \in {answered, answered \cup {s}}, lost' \in {lost, lost \cup {s}},
         silent' \in {silent, silent \cup {s}},
         \/ s.tag \notin Historized
         \/ s \in answered /\ lost' = lost /\ silent' = silent
  PROVE  UNCHANGED Log!vars
PROOF
<1>1. {x \in answered' : x.tag \in Historized} = {x \in answered : x.tag \in Historized} OBVIOUS
<1>2. {x \in lost' : x.tag \in Historized} = {x \in lost : x.tag \in Historized} OBVIOUS
<1>3. {x \in silent' : x.tag \in Historized} = {x \in silent : x.tag \in Historized} OBVIOUS
<1> QED BY <1>1, <1>2, <1>3 DEF Log!vars

\* A sample of a historized tag gets its answer.
LEMMA LogAnswers ==
  ASSUME UNCHANGED <<plan, emitted>>, NEW s \in emitted, s \notin answered, s.tag \in Historized,
         answered' = answered \cup {s}
  PROVE  Log!Answer(s)
PROOF
<1>1. {x \in answered' : x.tag \in Historized} = {x \in answered : x.tag \in Historized} \cup {s} OBVIOUS
<1> QED BY <1>1 DEF Log!Answer

\* A sample of a historized tag is dropped, and in silence only where the gateway
\* publishes Sparkplug.
LEMMA LogLoses ==
  ASSUME UNCHANGED <<plan, emitted, rows>>, NEW s \in emitted, s \in Sample, s \notin answered,
         s.tag \in Historized, answered' = answered \cup {s}, lost' = lost \cup {s},
         silent' = silent \/ (plan.mode # "legacy" /\ silent' = silent \cup {s})
  PROVE  Log!Next
PROOF
<1>1. Log!Answer(s) BY LogAnswers
<1>2. {x \in lost' : x.tag \in Historized} = {x \in lost : x.tag \in Historized} \cup {s} OBVIOUS
<1>3. \/ {x \in silent' : x.tag \in Historized} = {x \in silent : x.tag \in Historized}
      \/ /\ plan.mode # "legacy"
         /\ {x \in silent' : x.tag \in Historized} = {x \in silent : x.tag \in Historized} \cup {s}
  OBVIOUS
<1>4. {rows'[i] : i \in 1..Len(rows')} = {rows[i] : i \in 1..Len(rows)} OBVIOUS
<1>5. Log!Lose(s) BY <1>1, <1>2, <1>3, <1>4 DEF Log!Lose
<1> QED BY <1>5 DEF Log!Next

LEMMA LogStep ==
  TypeInv /\ KindInv /\ BaseInv /\ FreshInv /\ [Next]_vars => [Log!Next]_(Log!vars)
PROOF
<1> SUFFICES ASSUME TypeInv, KindInv, BaseInv, FreshInv, [Next]_vars
             PROVE  Log!Next \/ UNCHANGED Log!vars
  OBVIOUS
<1>0. /\ emitted \subseteq Sample /\ rows \in Seq(Row) /\ clock \in Times /\ answered \subseteq emitted
      /\ lost \subseteq answered
  BY DEF TypeInv, TypeOK
<1>1. CASE \/ UNCHANGED vars \/ Tick \/ HealthChange \/ DeviceDeath \/ StoreRealtimeGet \/ StoreRealtimeSet
           \/ StorePreviousValue \/ StoreLastTime \/ HandleHealth \/ HandleDeath \/ MarkTagGet \/ MarkTagSet
           \/ Acknowledge \/ HistorianCrash \/ CoreApi \/ ApiRestart
  <2>1. UNCHANGED <<plan, emitted, answered, rows, lost, silent>>
    BY <1>1 DEF vars, driverVars, storeVars, answerVars, Tick, HealthChange, DeviceDeath, StoreRealtimeGet,
       StoreRealtimeSet, StorePreviousValue, StoreLastTime, HandleHealth, HandleDeath, MarkTagGet, MarkTagSet,
       Acknowledge, HistorianCrash, CoreApi, HandleDataUpdate, UpdateRealtime, UpdateShadow, ApiRestart
  <2> QED BY <2>1, LogQuiet
<1>2. ASSUME NEW s \in Sample, Publish(s) PROVE Log!Next \/ UNCHANGED Log!vars
  <2>1. UNCHANGED <<plan, answered, rows, lost, silent>> /\ emitted' = emitted \cup {s}
    BY <1>2 DEF Publish, storeVars, answerVars
  <2>2. CASE s.tag \in Historized
    <3>1. {x \in emitted' : x.tag \in Historized} = {x \in emitted : x.tag \in Historized} \cup {s}
      BY <2>1, <2>2
    <3>2. Log!Publish(s) BY <2>1, <3>1 DEF Log!Publish
    <3> QED BY <3>2 DEF Log!Next
  <2>3. CASE s.tag \notin Historized
    <3>1. {x \in emitted' : x.tag \in Historized} = {x \in emitted : x.tag \in Historized} BY <2>1, <2>3
    <3> QED BY <2>1, <3>1 DEF Log!vars
  <2> QED BY <2>2, <2>3
<1>3. CASE HandleData
  <2>1. UNCHANGED <<plan, emitted, rows>> BY <1>3 DEF HandleData, driverVars, storeVars
  <2>2. CASE UNCHANGED answerVars BY <2>1, <2>2, LogQuiet DEF answerVars
  <2>3. CASE /\ Answer
             /\ lost' = IF Current \in answered THEN lost ELSE lost \cup {Current}
             /\ silent' = IF Head(hq).kind = "ddata" /\ Current \notin answered THEN silent \cup {Current} ELSE silent
    <3>1. Current \in emitted /\ Current \in Sample /\ (Head(hq).kind = "ddata" => plan.mode # "legacy")
      <4>1. hq # <<>> /\ IsData(Head(hq)) /\ hq \in Seq(Message)
        BY <1>3 DEF HandleData, Busy, IsData, TypeInv, TypeOK
      <4>2. 1 \in 1..Len(hq) /\ Head(hq) = hq[1] BY <4>1
      <4>3. Current \in emitted BY <4>1, <4>2 DEF TypeInv, SentInv, Current
      <4>4. Head(hq).kind = "ddata" => plan.mode # "legacy" BY <4>2 DEF KindInv
      <4> QED BY <1>0, <4>3, <4>4
    <3>2. answered' = answered \cup {Current} BY <2>3 DEF Answer
    <3>m. silent' \in {silent, silent \cup {Current}} /\ (silent' = silent \/ Head(hq).kind = "ddata") BY <2>3
    <3>3. CASE Current \in answered \/ Current.tag \notin Historized
      BY <2>1, <2>3, <3>2, <3>3, <3>m, LogIgnores
    <3>4. CASE Current \notin answered /\ Current.tag \in Historized
      <4>1. lost' = lost \cup {Current} BY <2>3, <3>4
      <4>2. silent' = silent \/ (plan.mode # "legacy" /\ silent' = silent \cup {Current}) BY <3>1, <3>m
      <4> QED BY <2>1, <3>1, <3>2, <3>4, <4>1, <4>2, LogLoses
    <3> QED BY <3>3, <3>4
  <2> QED BY <1>3, <2>2, <2>3 DEF HandleData, SkipsSilently
<1>4. CASE Decide
  <2>1. UNCHANGED <<plan, emitted, rows, silent>> BY <1>4 DEF Decide, driverVars, storeVars
  <2>2. h.pc = "decide" /\ h.pc \in DataPc BY <1>4 DEF Decide, Busy, DataPc
  <2>3. Current \in emitted /\ Current \in Sample BY <2>2, AtHand
  <2>4. PICK noRow \in BOOLEAN :
          LET kept == Current.tag \in Historized /\ ShouldStoreValueAt(Current, noRow)
              stored == kept /\ HistorianFloat(Current.v)
          IN /\ IF stored THEN UNCHANGED answered ELSE Answer
             /\ lost' = IF kept /\ ~stored /\ Current \notin answered THEN lost \cup {Current} ELSE lost
    BY <1>4 DEF Decide
  <2> DEFINE kept == Current.tag \in Historized /\ ShouldStoreValueAt(Current, noRow)
             stored == kept /\ HistorianFloat(Current.v)
  <2>5. CASE stored BY <2>1, <2>4, <2>5, LogQuiet
  <2>6. CASE ~stored
    <3>1. answered' = answered \cup {Current} BY <2>4, <2>6 DEF Answer
    <3>2. CASE Current \in answered \/ Current.tag \notin Historized
      <4>1. lost' \in {lost, lost \cup {Current}} /\ (Current \in answered => lost' = lost) BY <2>4
      <4> QED BY <2>1, <3>1, <3>2, <4>1, LogIgnores
    <3>3. CASE Current \notin answered /\ Current.tag \in Historized /\ kept
      <4>1. lost' = lost \cup {Current} BY <2>4, <2>6, <3>3
      <4> QED BY <2>1, <2>3, <3>1, <3>3, <4>1, LogLoses
    <3>4. CASE Current \notin answered /\ Current.tag \in Historized /\ ~kept
      <4>1. lost' = lost BY <2>4, <3>4
      <4>2. ~ShouldStoreValueAt(Current, noRow) BY <3>4
      <4>3. Current.q = 0 /\ \E r \in Stored : Log!StandsFor(r, Current) BY <2>2, <4>2, LeftOut
      <4>s. PICK s \in emitted : s = Current BY <2>3
      <4>4. Log!Answer(s) BY <2>1, <3>1, <3>4, <4>s, LogAnswers
      <4>5. Log!LeaveOut(s) BY <2>1, <4>1, <4>3, <4>4, <4>s DEF Log!LeaveOut, Stored
      <4> QED BY <1>0, <4>5 DEF Log!Next
    <3> QED BY <3>2, <3>3, <3>4
  <2> QED BY <2>5, <2>6
<1>5. CASE SaveToPostgreSQL
  <2>1. UNCHANGED <<plan, emitted, silent>> /\ answered' = answered \cup {Current}
    BY <1>5 DEF SaveToPostgreSQL, driverVars, Answer
  <2>2. h.pc = "save" /\ h.pc \in DataPc BY <1>5 DEF SaveToPostgreSQL, Busy, DataPc
  <2>3. /\ Current \in emitted /\ Current \in Sample /\ Current.tag \in Historized
    BY <2>2, AtHand DEF BaseInv
  <2>4. CASE rows' = Append(rows, RowOf(Current)) /\ UNCHANGED lost
    <3>1. RowOf(Current) = Log!RowOf(Current) BY <2>3 DEF RowOf, Log!RowOf, Sample, Good, Bad
    <3>2. Stored' = Stored \cup {Log!RowOf(Current)} BY <1>0, <2>3, <2>4, <3>1, RowType, StoredMore
    <3>3. CASE Current \notin answered
      <4>s. PICK s \in emitted : s = Current BY <2>3
      <4>1. Log!Answer(s) BY <2>1, <2>3, <3>3, <4>s, LogAnswers
      <4>2. Log!Record(s) BY <2>1, <2>4, <3>2, <4>1, <4>s DEF Log!Record, Stored
      <4> QED BY <1>0, <4>2 DEF Log!Next
    <3>4. CASE Current \in answered
      <4>1. answered' = answered BY <2>1, <3>4
      <4>s. PICK s \in emitted : s = Current BY <2>3
      <4>2. Log!RecordAgain(s) BY <2>1, <2>3, <2>4, <3>2, <3>4, <4>1, <4>s DEF Log!RecordAgain, Stored
      <4> QED BY <1>0, <4>2 DEF Log!Next
    <3> QED BY <3>3, <3>4
  <2>5. CASE UNCHANGED rows /\ lost' = IF Current \in answered THEN lost ELSE lost \cup {Current}
    <3>1. CASE Current \in answered BY <2>1, <2>5, <3>1, LogIgnores
    <3>2. CASE Current \notin answered BY <2>1, <2>3, <2>5, <3>2, LogLoses
    <3> QED BY <3>1, <3>2
  <2> QED BY <1>5, <2>4, <2>5 DEF SaveToPostgreSQL
<1>6. CASE MarkTagRow
  <2>1. UNCHANGED <<plan, emitted, answered, lost, silent>> BY <1>6 DEF MarkTagRow, driverVars, answerVars
  <2>2. CASE UNCHANGED rows BY <2>1, <2>2, LogQuiet
  <2>3. CASE rows' = Append(rows, [tag |-> Marked, ts |-> clock, v |-> Null, by |-> "marker"])
    <3> DEFINE m == [tag |-> Marked, ts |-> clock, v |-> Null, by |-> "marker"]
    <3>1. Marked \in Tags BY <1>6, MarkedTag DEF MarkTagRow, Busy, MarkPc
    <3>2. m \in Row BY <1>0, <3>1 DEF Row
    <3>3. Stored' = Stored \cup {m} BY <1>0, <2>3, <3>2, StoredMore
    <3>4. [tag |-> Marked, v |-> Null, ts |-> clock, q |-> Good] \in Sample BY <1>0, <3>1 DEF Sample
    <3>5. Marked \in {s.tag : s \in Sample} /\ clock \in {s.ts : s \in Sample}
      <4> DEFINE x == [tag |-> Marked, v |-> Null, ts |-> clock, q |-> Good]
      <4>1. x.tag = Marked /\ x.ts = clock OBVIOUS
      <4> HIDE DEF x
      <4> QED BY <3>4, <4>1 DEF x
    <3>6. m \in [tag : {s.tag : s \in Sample}, ts : {s.ts : s \in Sample}, v : {Null}, by : {"marker"}]
      BY <3>5
    <3>7. Log!MarkOffline BY <2>1, <3>3, <3>6 DEF Log!MarkOffline, Stored
    <3> QED BY <3>7 DEF Log!Next
  <2> QED BY <1>6, <2>2, <2>3 DEF MarkTagRow
<1> QED BY <1>1, <1>2, <1>3, <1>4, <1>5, <1>6 DEF Next, Driver, Historian

\* The two processes, the broker between them and every fault of theirs
\* implement SampleLog: the historian gives every sample one answer, what it
\* leaves out a recorded sample stands for, and it loses a sample without a word
\* only at a gateway that publishes Sparkplug.
THEOREM ImplementsSampleLog == Spec => AnswersEverySample
PROOF
<1>1. Init => TypeInv /\ KindInv /\ BaseInv /\ FreshInv BY TypeInit, BaseInit DEF Init, KindInv
<1>2. TypeInv /\ KindInv /\ BaseInv /\ FreshInv /\ [Next]_vars => (TypeInv /\ KindInv /\ BaseInv /\ FreshInv)'
  BY TypeStep, KindStep, BaseStep
<1> QED BY <1>1, <1>2, LogInit, LogStep, PTL DEF Spec, AnswersEverySample, Log!Spec

-----------------------------------------------------------------------------
(* Copies. *)

Copies == {i \in 1..Len(rows) : rows[i].v # Null /\ \E j \in 1..(i - 1) : rows[j] = rows[i]}

\* The sample at hand is about to be written although its row is there.
Again == h.pc = "save" /\ hq[1].sample.q = Good /\ RowOf(hq[1].sample) \in Stored

\* Each copy was paid for, and so is the one about to be written.
CopyInv ==
  "crash" \notin plan.env => Cardinality(Copies) + (IF Again THEN 1 ELSE 0) <= faults

LEMMA CopiesFinite ==
  ASSUME rows \in Seq(Row)
  PROVE  IsFiniteSet(Copies) /\ Cardinality(Copies) \in Nat
PROOF
<1>1. Len(rows) \in Nat OBVIOUS
<1>2. IsFiniteSet(1..Len(rows)) BY <1>1, FS_Interval
<1>3. Copies \subseteq 1..Len(rows) BY DEF Copies
<1> QED BY <1>2, <1>3, FS_Subset, FS_CardinalityType

\* One more row is at most one more copy, and none if it is a gap or new.
LEMMA CopiesMore ==
  ASSUME rows \in Seq(Row), NEW r \in Row, rows' = Append(rows, r)
  PROVE  /\ r.v = Null \/ r \notin Stored => Cardinality(Copies') = Cardinality(Copies)
         /\ Cardinality(Copies') <= Cardinality(Copies) + 1
PROOF
<1> DEFINE n == Len(rows) + 1
<1>1. /\ Len(rows) \in Nat /\ Len(rows') = n
      /\ \A i \in 1..Len(rows) : rows'[i] = rows[i]
      /\ rows'[n] = r
  BY OneRowMore
<1>2. 1..Len(rows') = 1..Len(rows) \cup {n} BY <1>1
<1>3. \A i \in 1..Len(rows) : i \in Copies' <=> i \in Copies
  <2> SUFFICES ASSUME NEW i \in 1..Len(rows) PROVE i \in Copies' <=> i \in Copies OBVIOUS
  <2>1. \A j \in 1..(i - 1) : j \in 1..Len(rows) BY <1>1
  <2> QED BY <1>1, <1>2, <2>1 DEF Copies
<1>4. n \in Copies' => r.v # Null /\ r \in Stored
  <2> SUFFICES ASSUME n \in Copies' PROVE r.v # Null /\ r \in Stored OBVIOUS
  <2>1. r.v # Null /\ \E j \in 1..(n - 1) : rows'[j] = r BY <1>1 DEF Copies
  <2>2. PICK j \in 1..Len(rows) : rows'[j] = r BY <1>1, <2>1
  <2> QED BY <1>1, <2>1, <2>2 DEF Stored
<1>5. IsFiniteSet(Copies) /\ Cardinality(Copies) \in Nat BY CopiesFinite
<1>6. n \notin Copies BY <1>1 DEF Copies
<1>7. Copies \subseteq 1..Len(rows) /\ Copies' \subseteq 1..Len(rows') BY DEF Copies
<1> HIDE DEF n
<1>8. Copies' = Copies \/ (Copies' = Copies \cup {n} /\ r.v # Null /\ r \in Stored)
  BY <1>2, <1>3, <1>4, <1>7
<1>9. Cardinality(Copies \cup {n}) = Cardinality(Copies) + 1 BY <1>5, <1>6, FS_AddElement
<1>10. CASE Copies' = Copies BY <1>5, <1>10
<1>11. CASE Copies' = Copies \cup {n} /\ r.v # Null /\ r \in Stored
  <2>1. Cardinality(Copies') = Cardinality(Copies) + 1 BY <1>9, <1>11
  <2> QED BY <1>5, <1>11, <2>1
<1> QED BY <1>8, <1>10, <1>11

LEMMA CopyInit == Init => CopyInv
PROOF
<1> SUFFICES ASSUME Init PROVE CopyInv OBVIOUS
<1>1. Copies = {} BY DEF Init, Copies
<1>2. ~Again BY DEF Init, Idle, Again
<1>3. faults = 0 BY DEF Init
<1> QED BY <1>1, <1>2, <1>3, FS_EmptySet DEF CopyInv

\* Steps that write no row and decide nothing.
LEMMA CopyQuiet ==
  ASSUME TypeInv, CopyInv, UNCHANGED <<plan, rows>>, faults' \in Nat, faults <= faults',
         h'.pc # "save" \/ (h.pc = "save" /\ hq'[1] = hq[1])
  PROVE  CopyInv'
PROOF
<1>1. Again' => Again BY DEF Again, Stored, RowOf
<1>2. Copies' = Copies BY DEF Copies
<1>3. Cardinality(Copies) \in Nat /\ faults \in Nat
  BY CopiesFinite, TelemetryAssumption DEF TypeInv, TypeOK
<1>4. CASE "crash" \in plan.env BY <1>4 DEF CopyInv
<1>5. CASE "crash" \notin plan.env
  <2>1. Cardinality(Copies) + (IF Again THEN 1 ELSE 0) <= faults BY <1>5 DEF CopyInv
  <2>2. Cardinality(Copies) + (IF Again' THEN 1 ELSE 0) <= faults' BY <1>1, <1>3, <2>1
  <2> QED BY <1>2, <2>2 DEF CopyInv
<1> QED BY <1>4, <1>5

\* As long as the process lives, only a query that is refused makes it store a
\* sample that is stored.
LEMMA StoredOnce ==
  ASSUME TypeInv, BaseInv, FreshInv, "crash" \notin plan.env, h.pc = "decide",
         Current.q = Good, RowOf(Current) \in Stored
  PROVE  ~ShouldStoreValueAt(Current, FALSE)
PROOF
<1> DEFINE s == Current
           l == last[s.tag]
           p == prev[s.tag]
<1>0. /\ rows \in Seq(Row) /\ emitted \subseteq Sample
      /\ prev \in [Tags -> Sample \cup {None}] /\ last \in [Tags -> Times \cup {None}]
  BY DEF TypeInv, TypeOK
<1>s. /\ s \in emitted /\ s \in Sample /\ s.tag \in Tags /\ s.ts \in Times
      /\ s.v \in Values \cup {Null}
  BY AtHand DEF DataPc
<1>1. RowOf(s).tag = s.tag /\ RowOf(s).ts = s.ts /\ RowOf(s).by = "sample" BY <1>s, RowType
<1>2. p # None /\ s.ts <= p.ts BY <1>s, <1>1 DEF FreshInv
<1>3. p \in emitted /\ p.tag = s.tag /\ l = p.ts
  BY <1>s, <1>2 DEF BaseInv, FreshInv
<1>4. p.ts \in Times BY <1>0, <1>3 DEF Sample
<1>5. l # None /\ s.ts \in Int /\ l \in Int BY <1>3, <1>4, <1>s, NoneAssumption, Instants
<1>6. CASE s.ts < l
  <2>1. HasSampleAt(s.tag, s.ts) BY <1>1 DEF HasSampleAt, Stored
  <2> QED BY <1>5, <1>6, <2>1 DEF ShouldStoreValueAt, Good
<1>7. CASE ~(s.ts < l)
  <2>1. s.ts = p.ts BY <1>2, <1>3, <1>5, <1>7
  <2>2. p = s BY <1>s, <1>3, <2>1 DEF TypeInv, SentInv
  <2>3. s.v \in Int
    <3>1. s.v # Null BY <1>s DEF TypeInv, SentInv, Good, Bad
    <3> QED BY <3>1, <1>s, TelemetryAssumption
  <2>4. ~Exceeds(p.v, s.v) BY <2>2, <2>3, TelemetryAssumption DEF Exceeds
  <2>5. ~(s.ts - l > Floor) BY <1>3, <1>5, <2>1, TelemetryAssumption
  <2> QED BY <1>2, <1>5, <1>7, <2>2, <2>4, <2>5 DEF ShouldStoreValueAt, Good
<1> QED BY <1>6, <1>7

LEMMA CopyDecide ==
  ASSUME TypeInv, BaseInv, FreshInv, CopyInv, Decide
  PROVE  CopyInv'
PROOF
<1>0. rows \in Seq(Row) /\ h \in HState /\ faults \in 0..MaxFaults /\ faults \in Nat
  BY TelemetryAssumption DEF TypeInv, TypeOK, HState
<1>1. UNCHANGED <<plan, hq, rows>> /\ h.pc = "decide" BY DEF Decide, driverVars, storeVars, Busy
<1>2. h.pc \in DataPc /\ Current = hq[1].sample BY <1>1, AtHand DEF DataPc
<1>3. PICK noRow \in {FALSE} \cup (IF Fail THEN {TRUE} ELSE {}) :
        /\ Faulty(noRow)
        /\ h'.pc = "save" => ShouldStoreValueAt(Current, noRow)
  BY <1>0 DEF Decide, HState
<1>4. noRow = FALSE => faults' = faults BY <1>3 DEF Faulty
<1>5. noRow = TRUE => faults' = faults + 1 BY <1>3 DEF Faulty
<1>6. CASE "crash" \in plan.env BY <1>1, <1>6 DEF CopyInv
<1>7. CASE "crash" \notin plan.env
  <2>1. Copies' = Copies /\ Stored' = Stored BY <1>1 DEF Copies, Stored
  <2>2. Cardinality(Copies) \in Nat BY <1>0, CopiesFinite
  <2>3. Cardinality(Copies) <= faults BY <1>0, <1>1, <1>7, <2>2 DEF CopyInv, Again
  <2>4. CASE Again'
    <3>1. h'.pc = "save" /\ Current.q = Good /\ RowOf(Current) \in Stored
      BY <1>1, <1>2, <2>1, <2>4 DEF Again, RowOf
    <3>2. noRow # FALSE BY <1>1, <1>3, <1>7, <3>1, StoredOnce
    <3>3. faults' = faults + 1 BY <1>5, <3>2
    <3>4. Cardinality(Copies) + 1 <= faults' BY <1>0, <2>2, <2>3, <3>3
    <3> QED BY <2>1, <2>4, <3>4 DEF CopyInv
  <2>5. CASE ~Again'
    <3>1. faults <= faults' /\ faults' \in Int BY <1>0, <1>3, <1>4, <1>5
    <3>2. Cardinality(Copies) + 0 <= faults' BY <1>0, <2>2, <2>3, <3>1
    <3> QED BY <2>1, <2>5, <3>2 DEF CopyInv
  <2> QED BY <2>4, <2>5
<1> QED BY <1>6, <1>7

LEMMA CopySave ==
  ASSUME TypeInv, BaseInv, CopyInv, SaveToPostgreSQL
  PROVE  CopyInv'
PROOF
<1>0. rows \in Seq(Row) /\ h \in HState /\ faults \in 0..MaxFaults /\ faults \in Nat
  BY TelemetryAssumption DEF TypeInv, TypeOK, HState
<1>1. UNCHANGED <<plan, hq>> /\ h.pc = "save" BY DEF SaveToPostgreSQL, driverVars, Busy
<1>2. /\ h.pc \in DataPc /\ Current = hq[1].sample /\ Current \in Sample
  BY <1>1, AtHand DEF DataPc
<1>3. h'.pc \in {"prev", "ack"} BY <1>0 DEF SaveToPostgreSQL, HState
<1>4. faults' \in Nat /\ faults <= faults'
  <2>1. faults' = faults \/ faults' = faults + 1 BY DEF SaveToPostgreSQL, Faulty
  <2> QED BY <1>0, <2>1
<1>5. CASE UNCHANGED rows BY <1>1, <1>3, <1>4, <1>5, CopyQuiet
<1>6. CASE rows' = Append(rows, RowOf(Current))
  <2>1. CASE "crash" \in plan.env BY <1>1, <2>1 DEF CopyInv
  <2>2. CASE "crash" \notin plan.env
    <3> DEFINE r == RowOf(Current)
    <3>1. r \in Row /\ r.v = IF Current.q = Good THEN Current.v ELSE Null BY <1>2, RowType
    <3>2. /\ r.v = Null \/ r \notin Stored => Cardinality(Copies') = Cardinality(Copies)
          /\ Cardinality(Copies') <= Cardinality(Copies) + 1
      BY <1>0, <1>6, <3>1, CopiesMore
    <3>3. Cardinality(Copies) + (IF Again THEN 1 ELSE 0) <= faults BY <2>2 DEF CopyInv
    <3>4. Cardinality(Copies) \in Nat BY <1>0, CopiesFinite
    <3>5. Cardinality(Copies') \in Nat
      <4>1. rows' \in Seq(Row) BY <1>0, <1>6, <3>1, OneRowMore
      <4>2. Len(rows') \in Nat /\ IsFiniteSet(1..Len(rows')) BY <4>1, FS_Interval
      <4>3. Copies' \subseteq 1..Len(rows') BY DEF Copies
      <4> QED BY <4>2, <4>3, FS_Subset, FS_CardinalityType
    <3>6. ~Again' BY <1>3 DEF Again
    <3>7. Again \/ r.v = Null \/ r \notin Stored BY <1>1, <1>2, <3>1 DEF Again
    <3> HIDE DEF r
    <3>8. Cardinality(Copies') <= faults
      <4>1. CASE Again
        <5>1. Cardinality(Copies) + 1 <= faults BY <3>3, <4>1
        <5> QED BY <1>0, <3>2, <3>4, <3>5, <5>1
      <4>2. CASE ~Again
        <5>1. Cardinality(Copies) + 0 <= faults BY <3>3, <4>2
        <5> QED BY <1>0, <3>2, <3>4, <3>7, <4>2, <5>1
      <4> QED BY <4>1, <4>2
    <3>9. Cardinality(Copies') + 0 <= faults' BY <1>0, <1>4, <3>5, <3>8
    <3> QED BY <3>6, <3>9 DEF CopyInv
  <2> QED BY <2>1, <2>2
<1> QED BY <1>5, <1>6 DEF SaveToPostgreSQL

LEMMA CopyMarker ==
  ASSUME TypeInv, CopyInv, MarkTagRow
  PROVE  CopyInv'
PROOF
<1>0. rows \in Seq(Row) /\ faults \in 0..MaxFaults /\ faults \in Nat /\ clock \in Times
  BY TelemetryAssumption DEF TypeInv, TypeOK
<1>1. h.pc \in MarkPc /\ h.pc # "save" BY DEF MarkTagRow, Busy, MarkPc
<1>2. UNCHANGED <<plan, hq>> BY DEF MarkTagRow, driverVars
<1>3. h'.pc \in {"ack", "mark"} BY <1>1, AfterMarkType DEF MarkTagRow
<1>4. faults' \in Nat /\ faults <= faults'
  <2>1. faults' = faults \/ faults' = faults + 1 BY DEF MarkTagRow, Faulty
  <2> QED BY <1>0, <2>1
<1> DEFINE m == [tag |-> Marked, ts |-> clock, v |-> Null, by |-> "marker"]
<1>5. CASE UNCHANGED rows BY <1>2, <1>3, <1>4, <1>5, CopyQuiet
<1>6. CASE rows' = Append(rows, m)
  <2>1. m \in Row /\ m.v = Null BY <1>0, <1>1, MarkedTag DEF Row
  <2> HIDE DEF m
  <2>2. Cardinality(Copies') = Cardinality(Copies) BY <1>0, <1>6, <2>1, CopiesMore
  <2>3. Cardinality(Copies) \in Nat BY <1>0, CopiesFinite
  <2>4. ~Again /\ ~Again' BY <1>1, <1>3 DEF Again
  <2>5. CASE "crash" \in plan.env BY <1>2, <2>5 DEF CopyInv
  <2>6. CASE "crash" \notin plan.env
    <3>1. Cardinality(Copies) + 0 <= faults BY <2>4, <2>6 DEF CopyInv
    <3>2. Cardinality(Copies') + 0 <= faults' BY <1>0, <1>4, <2>2, <2>3, <3>1
    <3> QED BY <2>4, <3>2 DEF CopyInv
  <2> QED BY <2>5, <2>6
<1> QED BY <1>5, <1>6 DEF MarkTagRow

LEMMA CopyOthers ==
  ASSUME TypeInv, TypeInv', CopyInv,
         \/ UNCHANGED vars
         \/ Driver \/ HandleData \/ StoreRealtimeGet \/ StoreRealtimeSet \/ HandleHealth \/ HandleDeath
         \/ StorePreviousValue \/ StoreLastTime
         \/ MarkTagGet \/ MarkTagSet \/ Acknowledge \/ HistorianCrash \/ CoreApi \/ ApiRestart
  PROVE  CopyInv'
PROOF
<1>0. /\ h \in HState /\ hq \in Seq(Message) /\ plan \in Plans /\ Len(hq) \in Nat
      /\ faults \in 0..MaxFaults /\ faults' \in 0..MaxFaults
  BY DEF TypeInv, TypeOK, HState
<1>1. UNCHANGED <<plan, rows>>
  BY DEF vars, Driver, Tick, Publish, HealthChange, DeviceDeath, HandleData, StoreRealtimeGet, StoreRealtimeSet,
         HandleHealth, HandleDeath, StorePreviousValue, StoreLastTime, MarkTagGet, MarkTagSet, Acknowledge,
         HistorianCrash, CoreApi, HandleDataUpdate, UpdateRealtime, UpdateShadow, ApiRestart, driverVars, storeVars
<1>2. faults' = faults \/ faults' = faults + 1
  BY DEF vars, Driver, Tick, Publish, HealthChange, DeviceDeath, HandleData, StoreRealtimeGet, StoreRealtimeSet,
         HandleHealth, HandleDeath, StorePreviousValue, StoreLastTime, MarkTagGet, MarkTagSet, Acknowledge,
         HistorianCrash, CoreApi, HandleDataUpdate, UpdateRealtime, UpdateShadow, ApiRestart, Faulty
<1>3. faults' \in Nat /\ faults <= faults' BY <1>0, <1>2, TelemetryAssumption
<1>4. CASE Driver
  <2>1. h' = h BY <1>4 DEF Driver, Tick, Publish, HealthChange, DeviceDeath
  <2>2. h.pc = "save" => hq'[1] = hq[1] BY <1>4, DriverKeepsHead
  <2> QED BY <1>1, <1>3, <2>1, <2>2, CopyQuiet
<1>5. CASE UNCHANGED vars \/ CoreApi \/ ApiRestart
  <2>1. UNCHANGED <<h, hq>>
    BY <1>5 DEF vars, CoreApi, HandleDataUpdate, UpdateRealtime, UpdateShadow, ApiRestart
  <2> QED BY <1>1, <1>3, <2>1, CopyQuiet
<1>6. CASE \/ HandleData \/ StoreRealtimeGet \/ StoreRealtimeSet \/ HandleHealth \/ HandleDeath
           \/ StorePreviousValue \/ StoreLastTime \/ MarkTagGet
  <2>1. h'.pc # "save"
    BY <1>0, <1>6 DEF HandleData, StoreRealtimeGet, StoreRealtimeSet, HandleHealth, HandleDeath,
       StorePreviousValue, StoreLastTime, MarkTagGet, HState
  <2> QED BY <1>1, <1>3, <2>1, CopyQuiet
<1>7. CASE MarkTagSet
  <2>1. h.pc \in MarkPc BY <1>7 DEF MarkTagSet, Busy, MarkPc
  <2>2. h' = AfterMark \/ h' = [h EXCEPT !.pc = "marker"] BY <1>7 DEF MarkTagSet
  <2>3. h'.pc # "save" BY <1>0, <2>1, <2>2, AfterMarkType DEF HState
  <2> QED BY <1>1, <1>3, <2>3, CopyQuiet
<1>8. CASE Acknowledge \/ HistorianCrash
  <2>1. h'.pc # "save" BY <1>8 DEF Acknowledge, HistorianCrash, Idle
  <2> QED BY <1>1, <1>3, <2>1, CopyQuiet
<1> QED BY <1>4, <1>5, <1>6, <1>7, <1>8

\* A historian that does not die writes a reading a second time only after a
\* query for its row was refused, once for each: whatever the broker sends again,
\* however late a sample is and whatever the two payload formats repeat.
THEOREM CopiesHold ==
  ASSUME \A p \in Plans : "crash" \notin p.env
  PROVE  Spec => []CopiesCostFaults
PROOF
<1>1. Init => TypeInv /\ BaseInv /\ FreshInv /\ CopyInv BY TypeInit, BaseInit, CopyInit
<1>2. TypeInv /\ BaseInv /\ FreshInv /\ CopyInv /\ [Next]_vars => (TypeInv /\ BaseInv /\ FreshInv /\ CopyInv)'
  <2> SUFFICES ASSUME TypeInv, BaseInv, FreshInv, CopyInv, [Next]_vars
               PROVE  (TypeInv /\ BaseInv /\ FreshInv /\ CopyInv)'
    OBVIOUS
  <2>1. TypeInv' /\ BaseInv' /\ FreshInv' BY TypeStep, BaseStep
  <2>2. CopyInv' BY <2>1, CopyDecide, CopySave, CopyMarker, CopyOthers DEF Next, Historian
  <2> QED BY <2>1, <2>2
<1>3. TypeInv /\ CopyInv => CopiesCostFaults
  <2> SUFFICES ASSUME TypeInv, CopyInv PROVE CopiesCostFaults OBVIOUS
  <2>1. "crash" \notin plan.env BY DEF TypeInv, TypeOK
  <2>2. Cardinality(Copies) \in Nat /\ faults \in Nat
    BY CopiesFinite, TelemetryAssumption DEF TypeInv, TypeOK
  <2>3. Cardinality(Copies) + (IF Again THEN 1 ELSE 0) <= faults BY <2>1 DEF CopyInv
  <2>4. Cardinality(Copies) <= faults BY <2>2, <2>3
  <2> QED BY <2>4 DEF CopiesCostFaults, Copies
<1> QED BY <1>1, <1>2, <1>3, PTL DEF Spec

-----------------------------------------------------------------------------
(* The order of the queues. *)

\* The newest sample of its tag.
IsNewest(n, E) == n \in E /\ \A o \in E : o.tag = n.tag => o.ts <= n.ts

\* The queue of the historian as samples; None where a message carries none.
At(m) == IF IsData(m) THEN m.sample ELSE None
HSeq == [i \in 1..Len(hq) |-> At(hq[i])]

\* A queue that holds the samples of each tag in the order of their times, and
\* behind each of them the newest.
InTurn(q, E) ==
  /\ \A i, j \in 1..Len(q) :
       i < j /\ q[i] # None /\ q[j] # None /\ q[i].tag = q[j].tag => q[i].ts <= q[j].ts
  /\ \A i \in 1..Len(q), n \in E :
       q[i] # None /\ IsNewest(n, E) /\ n.tag = q[i].tag => \E j \in i..Len(q) : q[j] = n

LEMMA HSeqType ==
  ASSUME hq \in Seq(Message)
  PROVE  /\ HSeq \in Seq(Sample \cup {None}) /\ Len(HSeq) = Len(hq) /\ Len(hq) \in Nat
         /\ \A i \in 1..Len(hq) : HSeq[i] = At(hq[i])
         /\ \A i \in 1..Len(hq) : IsData(hq[i]) <=> HSeq[i] # None
PROOF
<1>1. \A i \in 1..Len(hq) : At(hq[i]) \in Sample \cup {None} BY DataMessage DEF At
<1>2. \A i \in 1..Len(hq) : IsData(hq[i]) <=> At(hq[i]) # None
  BY DataMessage, NoneAssumption DEF At
<1>3. Len(hq) \in Nat OBVIOUS
<1>4. HSeq \in [1..Len(hq) -> Sample \cup {None}] BY <1>1 DEF HSeq
<1>5. HSeq \in Seq(Sample \cup {None}) /\ Len(HSeq) = Len(hq) BY <1>3, <1>4, Listing
<1>6. \A i \in 1..Len(hq) : HSeq[i] = At(hq[i]) BY DEF HSeq
<1> QED BY <1>2, <1>3, <1>5, <1>6

LEMMA TimesOf ==
  ASSUME NEW s \in Sample
  PROVE  s.ts \in Int /\ s.tag \in Tags /\ s # None
BY NoneAssumption, Instants DEF Sample

\* A queue that stays in turn when newest samples come behind it.
LEMMA InTurnGrows ==
  ASSUME NEW E, NEW F, E \subseteq F, F \subseteq Sample,
         NEW q \in Seq(Sample \cup {None}), NEW r \in Seq(Sample \cup {None}),
         InTurn(q, E), Grown(r, q),
         \A i \in 1..Len(q) : q[i] # None => q[i] \in E,
         \A i \in (Len(q) + 1)..Len(r) : r[i] # None => IsNewest(r[i], F),
         \A n : IsNewest(n, F) => IsNewest(n, E) \/ \E j \in (Len(q) + 1)..Len(r) : r[j] = n,
         \A a, b \in F : a.tag = b.tag /\ a.ts = b.ts => a = b
  PROVE  InTurn(r, F)
PROOF
<1>0. Len(q) \in Nat /\ Len(r) \in Nat /\ Len(q) <= Len(r) BY DEF Grown
<1>1. \A i \in 1..Len(r) : i \in 1..Len(q) \/ i \in (Len(q) + 1)..Len(r) BY <1>0
<1>2. \A i \in 1..Len(q) : r[i] = q[i] BY DEF Grown
<1>3. \A i \in 1..Len(r) : r[i] # None => r[i] \in F BY <1>1, <1>2 DEF IsNewest
<1>4. ASSUME NEW i \in 1..Len(r), NEW j \in 1..Len(r), i < j, r[i] # None, r[j] # None, r[i].tag = r[j].tag
      PROVE  r[i].ts <= r[j].ts
  <2>1. CASE j \in 1..Len(q)
    <3>1. i \in 1..Len(q) BY <1>0, <1>4, <2>1
    <3> QED BY <1>2, <1>4, <2>1, <3>1 DEF InTurn
  <2>2. CASE j \in (Len(q) + 1)..Len(r)
    <3>1. IsNewest(r[j], F) BY <1>4, <2>2
    <3> QED BY <1>3, <1>4, <3>1 DEF IsNewest
  <2> QED BY <1>1, <2>1, <2>2
<1>5. ASSUME NEW i \in 1..Len(r), NEW n \in F, r[i] # None, IsNewest(n, F), n.tag = r[i].tag
      PROVE  \E j \in i..Len(r) : r[j] = n
  <2>1. CASE i \in (Len(q) + 1)..Len(r)
    <3>1. IsNewest(r[i], F) BY <1>5, <2>1
    <3>2. r[i] \in F /\ r[i] \in Sample /\ n \in Sample BY <1>3, <1>5
    <3>3. r[i].ts <= n.ts /\ n.ts <= r[i].ts BY <1>5, <3>1, <3>2 DEF IsNewest
    <3>4. r[i].ts = n.ts BY <3>2, <3>3, TimesOf
    <3>5. r[i] = n BY <1>5, <3>2, <3>4
    <3>6. i \in i..Len(r) BY <1>0
    <3> QED BY <3>5, <3>6
  <2>2. CASE i \in 1..Len(q)
    <3>1. CASE IsNewest(n, E)
      <4>1. n \in E BY <3>1 DEF IsNewest
      <4>2. q[i] # None /\ n.tag = q[i].tag BY <1>2, <1>5, <2>2
      <4>3. PICK j \in i..Len(q) : q[j] = n BY <2>2, <3>1, <4>1, <4>2 DEF InTurn
      <4>4. j \in i..Len(r) /\ j \in 1..Len(q) BY <1>0, <2>2, <4>3
      <4> QED BY <1>2, <4>3, <4>4
    <3>2. CASE \E j \in (Len(q) + 1)..Len(r) : r[j] = n
      <4>1. PICK j \in (Len(q) + 1)..Len(r) : r[j] = n BY <3>2
      <4>2. j \in i..Len(r) BY <1>0, <2>2
      <4> QED BY <4>1, <4>2
    <3> QED BY <1>5, <3>1, <3>2
  <2> QED BY <1>1, <2>1, <2>2
<1> QED BY <1>4, <1>5 DEF InTurn

\* Taking the first message off.
LEMMA InTurnTail ==
  ASSUME NEW E, NEW q \in Seq(Sample \cup {None}), q # <<>>, InTurn(q, E)
  PROVE  InTurn(Tail(q), E)
PROOF
<1> DEFINE r == Tail(q)
<1>0. /\ Len(q) \in Nat /\ Len(q) > 0 /\ r \in Seq(Sample \cup {None}) /\ Len(r) = Len(q) - 1
      /\ \A i \in 1..Len(r) : r[i] = q[i + 1]
  OBVIOUS
<1> HIDE DEF r
<1>1. \A i \in 1..Len(r) : i + 1 \in 1..Len(q) BY <1>0
<1>2. ASSUME NEW i \in 1..Len(r), NEW j \in 1..Len(r), i < j, r[i] # None, r[j] # None, r[i].tag = r[j].tag
      PROVE  r[i].ts <= r[j].ts
  <2>1. i + 1 < j + 1 BY <1>2, <1>0
  <2>2. r[i] = q[i + 1] /\ r[j] = q[j + 1] /\ i + 1 \in 1..Len(q) /\ j + 1 \in 1..Len(q) BY <1>0, <1>1
  <2> QED BY <1>2, <2>1, <2>2 DEF InTurn
<1>3. ASSUME NEW i \in 1..Len(r), NEW n \in E, r[i] # None, IsNewest(n, E), n.tag = r[i].tag
      PROVE  \E j \in i..Len(r) : r[j] = n
  <2>1. r[i] = q[i + 1] /\ i + 1 \in 1..Len(q) BY <1>0, <1>1
  <2>2. PICK j \in (i + 1)..Len(q) : q[j] = n BY <1>3, <2>1 DEF InTurn
  <2>3. j - 1 \in i..Len(r) /\ j - 1 \in 1..Len(r) /\ (j - 1) + 1 = j BY <1>0
  <2>4. r[j - 1] = q[j] BY <1>0, <2>3
  <2> QED BY <2>2, <2>3, <2>4
<1>4. InTurn(r, E) BY <1>2, <1>3 DEF InTurn
<1> QED BY <1>4 DEF r

\* A queue without its first message.
LEMMA OneLess ==
  ASSUME NEW S, NEW q \in Seq(S), q # <<>>
  PROVE  /\ Len(q) \in Nat /\ Len(q) > 0 /\ Tail(q) \in Seq(S) /\ Len(Tail(q)) = Len(q) - 1
         /\ \A i \in 1..Len(Tail(q)) : Tail(q)[i] = q[i + 1]
OBVIOUS

\* The queue of the historian after its first message was taken off.
LEMMA HSeqTail ==
  ASSUME hq \in Seq(Message), hq # <<>>, hq' = Tail(hq)
  PROVE  HSeq' = Tail(HSeq) /\ HSeq # <<>>
PROOF
<1>1. /\ Len(hq) \in Nat /\ Len(hq) > 0 /\ hq' \in Seq(Message) /\ Len(hq') = Len(hq) - 1
      /\ \A i \in 1..Len(hq') : hq'[i] = hq[i + 1]
  OBVIOUS
<1>2. /\ HSeq \in Seq(Sample \cup {None}) /\ Len(HSeq) = Len(hq)
      /\ \A i \in 1..Len(hq) : HSeq[i] = At(hq[i])
  BY HSeqType
<1>3. HSeq' = [i \in 1..Len(hq') |-> At(hq'[i])] BY DEF HSeq, At, IsData
<1>4. HSeq # <<>> BY <1>1, <1>2
<1>5. /\ Tail(HSeq) \in Seq(Sample \cup {None}) /\ Len(Tail(HSeq)) = Len(HSeq) - 1
      /\ \A i \in 1..Len(Tail(HSeq)) : Tail(HSeq)[i] = HSeq[i + 1]
  BY <1>2, <1>4, OneLess
<1>6. \A i \in 1..Len(hq') : At(hq'[i]) = HSeq[i + 1] BY <1>1, <1>2
<1>7. 1..Len(hq') = 1..Len(Tail(HSeq)) BY <1>1, <1>2, <1>5
<1>8. Tail(HSeq) = [i \in 1..Len(Tail(HSeq)) |-> Tail(HSeq)[i]]
  <2>1. Tail(HSeq) \in [1..Len(Tail(HSeq)) -> Sample \cup {None}] BY <1>5, LenProperties
  <2> QED BY <2>1
<1> QED BY <1>3, <1>4, <1>5, <1>6, <1>7, <1>8

\* The queue of the historian after messages came behind it.
LEMMA HSeqGrown ==
  ASSUME hq \in Seq(Message), hq' \in Seq(Message), Grown(hq', hq)
  PROVE  /\ HSeq' \in Seq(Sample \cup {None}) /\ Len(HSeq') = Len(hq')
         /\ Grown(HSeq', HSeq)
         /\ \A i \in 1..Len(hq') : HSeq'[i] = At(hq'[i])
PROOF
<1>1. /\ HSeq \in Seq(Sample \cup {None}) /\ Len(HSeq) = Len(hq) /\ Len(hq) \in Nat
      /\ \A i \in 1..Len(hq) : HSeq[i] = At(hq[i])
  BY HSeqType
<1>2. HSeq' = [i \in 1..Len(hq') |-> At(hq'[i])] BY DEF HSeq, At, IsData
<1>3. Len(hq') \in Nat OBVIOUS
<1>4. \A i \in 1..Len(hq') : At(hq'[i]) \in Sample \cup {None} BY DataMessage DEF At
<1>5. HSeq' \in [1..Len(hq') -> Sample \cup {None}] BY <1>2, <1>4
<1>6. HSeq' \in Seq(Sample \cup {None}) /\ Len(HSeq') = Len(hq') BY <1>3, <1>5, Listing
<1>7. \A i \in 1..Len(hq') : HSeq'[i] = At(hq'[i]) BY <1>2
<1>8. Grown(HSeq', HSeq) BY <1>1, <1>3, <1>6, <1>7 DEF Grown
<1> QED BY <1>6, <1>7, <1>8

\* The first message of the historian's queue, as a sample.
LEMMA HSeqFirst ==
  ASSUME TypeInv, hq # <<>>
  PROVE  /\ HSeq # <<>> /\ 1 \in 1..Len(HSeq) /\ HSeq[1] = At(hq[1])
         /\ IsData(hq[1]) => HSeq[1] = hq[1].sample /\ HSeq[1] \in emitted
PROOF
<1>1. hq \in Seq(Message) BY DEF TypeInv, TypeOK
<1>2. Len(hq) \in Nat /\ 1 \in 1..Len(hq) BY <1>1
<1>3. Len(HSeq) = Len(hq) /\ HSeq \in Seq(Sample \cup {None}) /\ HSeq[1] = At(hq[1]) BY <1>1, <1>2, HSeqType
<1>4. HSeq # <<>> BY <1>2, <1>3
<1>5. IsData(hq[1]) => hq[1].sample \in emitted BY <1>2 DEF TypeInv, SentInv
<1> QED BY <1>2, <1>3, <1>4, <1>5 DEF At

\* Of one tag there is one newest sample.
LEMMA NewestOne ==
  ASSUME TypeInv, NEW m, NEW n, IsNewest(m, emitted), IsNewest(n, emitted), m.tag = n.tag
  PROVE  m = n
PROOF
<1>1. m \in emitted /\ n \in emitted /\ m \in Sample /\ n \in Sample BY DEF IsNewest, TypeInv, TypeOK
<1>2. m.ts <= n.ts /\ n.ts <= m.ts BY <1>1 DEF IsNewest
<1>3. m.ts = n.ts BY <1>1, <1>2, TimesOf
<1> QED BY <1>1, <1>3 DEF TypeInv, SentInv

\* Without late samples the queues are in turn, what the historian has answered
\* is not newer than what is in its queue, and the retained samples are the
\* newest.
OrderInv ==
  /\ \A s \in emitted : \E n \in emitted : n.tag = s.tag /\ IsNewest(n, emitted)
  /\ plan.mode = "sparkplug" => cq = <<>>
  /\ plan.mode = "sparkplug" \/ "retain" \notin plan.env => Kept = {}
  /\ lates = 0 =>
       /\ InTurn(HSeq, emitted) /\ InTurn(cq, emitted)
       /\ \A s \in answered, i \in 1..Len(HSeq) : HSeq[i] # None /\ HSeq[i].tag = s.tag => s.ts <= HSeq[i].ts
       /\ \A x \in Kept : IsNewest(x, emitted)
       /\ "retain" \in plan.env /\ plan.mode # "sparkplug" =>
            \A s \in emitted : \E x \in Kept : x.tag = s.tag

LEMMA OrderInit == Init => OrderInv
BY DEF Init, OrderInv, InTurn, HSeq, IsNewest, Kept

\* A step of a handler: the queues stay, at most the sample at hand is answered.
LEMMA OrderQuiet ==
  ASSUME TypeInv, OrderInv, UNCHANGED <<plan, emitted, lates, retained, hq, cq>>,
         answered' = answered \/ (h.pc \in DataPc \cup {"idle"} /\ hq # <<>> /\ IsData(hq[1])
                                   /\ answered' = answered \cup {hq[1].sample})
  PROVE  OrderInv'
PROOF
<1>1. HSeq' = HSeq /\ Kept' = Kept BY DEF HSeq, At, IsData, Kept
<1>2. hq \in Seq(Message) /\ emitted \subseteq Sample BY DEF TypeInv, TypeOK
<1>3. HSeq \in Seq(Sample \cup {None}) BY <1>2, HSeqType
<1>4. ASSUME lates = 0, NEW s \in answered', NEW i \in 1..Len(HSeq), HSeq[i] # None, HSeq[i].tag = s.tag
      PROVE  s.ts <= HSeq[i].ts
  <2>1. CASE s \in answered BY <1>4, <2>1 DEF OrderInv
  <2>2. CASE s \notin answered
    <3>1. hq # <<>> /\ IsData(hq[1]) /\ s = hq[1].sample BY <1>4, <2>2
    <3>2. HSeq[1] = s /\ s \in emitted /\ 1 \in 1..Len(HSeq) BY <3>1, HSeqFirst
    <3>3. s \in Sample /\ s.ts \in Int /\ s # None BY <1>2, <3>2, TimesOf
    <3>4. CASE i = 1 BY <3>2, <3>3, <3>4
    <3>5. CASE i # 1
      <4>1. 1 < i BY <3>5
      <4>2. InTurn(HSeq, emitted) BY <1>4 DEF OrderInv
      <4> QED BY <1>4, <3>2, <3>3, <4>1, <4>2 DEF InTurn
    <3> QED BY <3>4, <3>5
  <2> QED BY <2>1, <2>2
<1> QED BY <1>1, <1>4 DEF OrderInv

\* A sample that is not late is the newest of its tag.
LEMMA NewestPublished ==
  ASSUME TypeInv, OrderInv, NEW s \in Sample, Publish(s), lates' = 0
  PROVE  /\ lates = 0 /\ s \notin emitted /\ IsNewest(s, emitted')
         /\ \A n : IsNewest(n, emitted') => n = s \/ (n.tag # s.tag /\ IsNewest(n, emitted))
         /\ \A n : IsNewest(n, emitted) /\ n.tag # s.tag => IsNewest(n, emitted')
PROOF
<1>1. /\ ~\E o \in emitted : o.tag = s.tag /\ o.ts = s.ts
      /\ emitted' = emitted \cup {s}
      /\ lates' = IF \E o \in emitted : o.tag = s.tag /\ o.ts > s.ts THEN lates + 1 ELSE lates
  BY DEF Publish
<1>2. emitted \subseteq Sample /\ lates \in Nat BY TelemetryAssumption DEF TypeInv, TypeOK
<1>3. /\ lates = 0 /\ ~\E o \in emitted : o.tag = s.tag /\ o.ts > s.ts BY <1>1, <1>2
<1>4. \A o \in emitted : o.tag = s.tag => o.ts < s.ts
  <2> SUFFICES ASSUME NEW o \in emitted, o.tag = s.tag PROVE o.ts < s.ts OBVIOUS
  <2>1. o.ts \in Int /\ s.ts \in Int BY <1>2, TimesOf
  <2> QED BY <1>1, <1>3, <2>1
<1>5. s \notin emitted BY <1>1
<1>6. IsNewest(s, emitted')
  <2>1. s.ts \in Int BY TimesOf
  <2>2. \A o \in emitted : o.ts \in Int BY <1>2, TimesOf
  <2> QED BY <1>1, <1>4, <2>1, <2>2 DEF IsNewest
<1>7. ASSUME NEW n, IsNewest(n, emitted'), n # s
      PROVE  n.tag # s.tag /\ IsNewest(n, emitted)
  <2>1. n \in emitted /\ n \in Sample /\ n.ts \in Int /\ s.ts \in Int BY <1>1, <1>2, <1>7, TimesOf DEF IsNewest
  <2>2. n.tag = s.tag => s.ts <= n.ts BY <1>1, <1>7 DEF IsNewest
  <2>3. n.tag # s.tag BY <1>4, <2>1, <2>2
  <2> QED BY <1>1, <1>7, <2>1, <2>3 DEF IsNewest
<1>8. \A n : IsNewest(n, emitted) /\ n.tag # s.tag => IsNewest(n, emitted') BY <1>1 DEF IsNewest
<1>9. \A n : IsNewest(n, emitted') => n = s \/ (n.tag # s.tag /\ IsNewest(n, emitted))
  <2> SUFFICES ASSUME NEW n, IsNewest(n, emitted'), n # s PROVE n.tag # s.tag /\ IsNewest(n, emitted) OBVIOUS
  <2> QED BY <1>7
<1> QED BY <1>3, <1>5, <1>6, <1>8, <1>9

\* A sample on its way: the newest ones after it.
LEMMA OrderNewest ==
  ASSUME TypeInv, OrderInv, NEW s \in Sample, Publish(s)
  PROVE  \A a \in emitted' : \E n \in emitted' : n.tag = a.tag /\ IsNewest(n, emitted')
PROOF
<1>1. emitted' = emitted \cup {s} /\ s \notin emitted BY DEF Publish
<1>2. emitted \subseteq Sample BY DEF TypeInv, TypeOK
<1>3. \A o \in emitted' : o.ts \in Int BY <1>1, <1>2, TimesOf
<1>4. ASSUME NEW a \in emitted', a.tag # s.tag
      PROVE  \E n \in emitted' : n.tag = a.tag /\ IsNewest(n, emitted')
  <2>1. a \in emitted BY <1>1, <1>4
  <2>2. PICK n \in emitted : n.tag = a.tag /\ IsNewest(n, emitted) BY <2>1 DEF OrderInv
  <2>3. IsNewest(n, emitted') BY <1>1, <1>4, <2>2 DEF IsNewest
  <2> QED BY <1>1, <2>2, <2>3
<1>5. \E n \in emitted' : n.tag = s.tag /\ IsNewest(n, emitted')
  <2>1. CASE \A o \in emitted : o.tag # s.tag BY <1>1, <1>3, <2>1 DEF IsNewest
  <2>2. CASE \E o \in emitted : o.tag = s.tag
    <3>1. PICK n \in emitted : n.tag = s.tag /\ IsNewest(n, emitted) BY <2>2 DEF OrderInv
    <3>2. CASE s.ts <= n.ts
      <4>1. IsNewest(n, emitted') BY <1>1, <3>1, <3>2 DEF IsNewest
      <4> QED BY <1>1, <3>1, <4>1
    <3>3. CASE n.ts < s.ts
      <4>1. \A o \in emitted : o.tag = s.tag => o.ts <= n.ts BY <3>1 DEF IsNewest
      <4>2. \A o \in emitted : o.tag = s.tag => o.ts <= s.ts
        <5> SUFFICES ASSUME NEW o \in emitted, o.tag = s.tag PROVE o.ts <= s.ts OBVIOUS
        <5>1. o.ts \in Int /\ n.ts \in Int /\ s.ts \in Int BY <1>1, <1>3
        <5> QED BY <3>3, <4>1, <5>1
      <4>3. IsNewest(s, emitted') BY <1>1, <1>3, <4>2 DEF IsNewest
      <4> QED BY <1>1, <4>3
    <3>4. n.ts \in Int /\ s.ts \in Int BY <1>1, <1>3
    <3> QED BY <3>2, <3>3, <3>4
  <2> QED BY <2>1, <2>2
<1>6. PICK m \in emitted' : m.tag = s.tag /\ IsNewest(m, emitted') BY <1>5
<1> QED BY <1>4, <1>6

\* What is kept on the broker after a sample.
LEMMA KeptPublished ==
  ASSUME TypeInv, NEW s \in Sample, Publish(s)
  PROVE  IF "retain" \in plan.env /\ plan.mode # "sparkplug"
         THEN /\ s \in Kept'
              /\ \A x \in Kept' : x = s \/ (x \in Kept /\ x.tag # s.tag)
              /\ \A x \in Kept : x.tag # s.tag => x \in Kept'
         ELSE Kept' = Kept
PROOF
<1>1. CASE "retain" \in plan.env /\ plan.mode # "sparkplug"
  <2>1. retained' = [retained EXCEPT ![s.tag] = s] BY <1>1 DEF Publish
  <2>2. retained \in [Tags -> Sample \cup {None}] /\ s.tag \in Tags /\ s # None
    BY TimesOf DEF TypeInv, TypeOK
  <2>3. \A t \in Tags : retained'[t] = IF t = s.tag THEN s ELSE retained[t] BY <2>1, <2>2
  <2>4. \A t \in Tags : retained[t] # None => retained[t].tag = t BY DEF TypeInv, SentInv
  <2>5. s \in Kept' BY <2>2, <2>3 DEF Kept
  <2>6. \A x \in Kept' : x = s \/ (x \in Kept /\ x.tag # s.tag)
    <3> SUFFICES ASSUME NEW x \in Kept' PROVE x = s \/ (x \in Kept /\ x.tag # s.tag) OBVIOUS
    <3>1. PICK t \in Tags : x = retained'[t] /\ x # None BY DEF Kept
    <3>2. CASE t = s.tag BY <2>3, <3>1, <3>2
    <3>3. CASE t # s.tag
      <4>1. x = retained[t] BY <2>3, <3>1, <3>3
      <4>2. x \in Kept BY <3>1, <4>1 DEF Kept
      <4>3. x.tag = t BY <2>4, <3>1, <4>1
      <4> QED BY <3>3, <4>2, <4>3
    <3> QED BY <3>2, <3>3
  <2>7. \A x \in Kept : x.tag # s.tag => x \in Kept'
    <3> SUFFICES ASSUME NEW x \in Kept, x.tag # s.tag PROVE x \in Kept' OBVIOUS
    <3>1. PICK t \in Tags : x = retained[t] /\ x # None BY DEF Kept
    <3>2. t # s.tag BY <2>4, <3>1
    <3>3. x = retained'[t] BY <2>3, <3>1, <3>2
    <3> QED BY <3>1, <3>3 DEF Kept
  <2> QED BY <1>1, <2>5, <2>6, <2>7
<1>2. CASE ~("retain" \in plan.env /\ plan.mode # "sparkplug")
  <2>1. retained' = retained BY <1>2 DEF Publish
  <2> QED BY <1>2, <2>1 DEF Kept
<1> QED BY <1>1, <1>2

\* A sample is sent.
LEMMA OrderPublish ==
  ASSUME TypeInv, OrderInv, NEW s \in Sample, Publish(s), emitted' \subseteq Sample
  PROVE  OrderInv'
PROOF
<1>0. /\ hq \in Seq(Message) /\ cq \in Seq(Sample) /\ plan \in Plans /\ emitted \subseteq Sample
      /\ answered \subseteq emitted
  BY DEF TypeInv, TypeOK
<1>1. /\ plan' = plan /\ answered' = answered /\ emitted' = emitted \cup {s}
      /\ hq' = hq \o LegacyOut(s) \o SparkplugOut(s)
      /\ cq' = IF plan.mode = "sparkplug" THEN cq ELSE Append(cq, s)
  BY DEF Publish, answerVars
<1>2. /\ hq' \in Seq(Message) /\ Grown(hq', hq)
      /\ \A i \in (Len(hq) + 1)..Len(hq') : IsData(hq'[i]) /\ hq'[i].sample = s
      /\ Len(hq) \in Nat /\ Len(hq') \in Nat /\ Len(hq') > Len(hq)
  <2>1. /\ hq' \in Seq(Message) /\ Grown(hq', hq) /\ Len(hq') > Len(hq)
        /\ \A i \in (Len(hq) + 1)..Len(hq') : IsData(hq'[i]) /\ hq'[i].sample = s
    BY <1>0, <1>1, Published
  <2>2. Len(hq) \in Nat /\ Len(hq') \in Nat BY <1>0, <2>1
  <2> QED BY <2>1, <2>2
<1>3. IF "retain" \in plan.env /\ plan.mode # "sparkplug"
      THEN /\ s \in Kept'
           /\ \A x \in Kept' : x = s \/ (x \in Kept /\ x.tag # s.tag)
           /\ \A x \in Kept : x.tag # s.tag => x \in Kept'
      ELSE Kept' = Kept
  BY KeptPublished
<1>4. \A a \in emitted' : \E n \in emitted' : n.tag = a.tag /\ IsNewest(n, emitted') BY OrderNewest
<1>5. plan.mode = "sparkplug" => cq' = <<>> BY <1>1 DEF OrderInv
<1>6. plan.mode = "sparkplug" \/ "retain" \notin plan.env => Kept' = {} BY <1>3 DEF OrderInv
<1>7. ASSUME lates' = 0
      PROVE  /\ InTurn(HSeq', emitted') /\ InTurn(cq', emitted')
             /\ \A a \in answered, i \in 1..Len(HSeq') :
                  HSeq'[i] # None /\ HSeq'[i].tag = a.tag => a.ts <= HSeq'[i].ts
             /\ \A x \in Kept' : IsNewest(x, emitted')
             /\ "retain" \in plan.env /\ plan.mode # "sparkplug" =>
                  \A a \in emitted' : \E x \in Kept' : x.tag = a.tag
  <2>1. /\ lates = 0 /\ s \notin emitted /\ IsNewest(s, emitted')
        /\ \A n : IsNewest(n, emitted') => n = s \/ (n.tag # s.tag /\ IsNewest(n, emitted))
        /\ \A n : IsNewest(n, emitted) /\ n.tag # s.tag => IsNewest(n, emitted')
    BY <1>7, NewestPublished
  <2>2. /\ InTurn(HSeq, emitted) /\ InTurn(cq, emitted)
        /\ \A a \in answered, i \in 1..Len(HSeq) :
             HSeq[i] # None /\ HSeq[i].tag = a.tag => a.ts <= HSeq[i].ts
        /\ \A x \in Kept : IsNewest(x, emitted)
        /\ "retain" \in plan.env /\ plan.mode # "sparkplug" =>
             \A a \in emitted : \E x \in Kept : x.tag = a.tag
    BY <2>1 DEF OrderInv
  <2>3. \A a, b \in emitted' : a.tag = b.tag /\ a.ts = b.ts => a = b
    BY <1>1 DEF Publish, TypeInv, SentInv
  <2>4. /\ HSeq \in Seq(Sample \cup {None}) /\ Len(HSeq) = Len(hq)
        /\ \A i \in 1..Len(hq) : HSeq[i] = At(hq[i]) /\ (IsData(hq[i]) <=> HSeq[i] # None)
    BY <1>0, HSeqType
  <2>5. /\ HSeq' \in Seq(Sample \cup {None}) /\ Len(HSeq') = Len(hq') /\ Grown(HSeq', HSeq)
        /\ \A i \in 1..Len(hq') : HSeq'[i] = At(hq'[i])
    BY <1>0, <1>2, HSeqGrown
  <2>6. \A i \in (Len(HSeq) + 1)..Len(HSeq') : HSeq'[i] = s
    <3> SUFFICES ASSUME NEW i \in (Len(HSeq) + 1)..Len(HSeq') PROVE HSeq'[i] = s OBVIOUS
    <3>1. i \in (Len(hq) + 1)..Len(hq') /\ i \in 1..Len(hq') BY <1>2, <2>4, <2>5
    <3> QED BY <1>2, <2>5, <3>1 DEF At
  <2>7. \A i \in 1..Len(HSeq) : HSeq[i] # None => HSeq[i] \in emitted
    BY <2>4 DEF At, TypeInv, SentInv
  <2>8. InTurn(HSeq', emitted')
    <3>1. Len(HSeq') \in (Len(HSeq) + 1)..Len(HSeq') BY <1>2, <2>4, <2>5
    <3>2. \A n : IsNewest(n, emitted') => IsNewest(n, emitted) \/ \E j \in (Len(HSeq) + 1)..Len(HSeq') : HSeq'[j] = n
      BY <2>1, <2>6, <3>1
    <3>3. emitted \subseteq emitted' BY <1>1
    <3>4. \A i \in (Len(HSeq) + 1)..Len(HSeq') : HSeq'[i] # None => IsNewest(HSeq'[i], emitted')
      BY <2>1, <2>6
    <3> HIDE DEF HSeq
    <3> QED BY <2>2, <2>3, <2>4, <2>5, <2>7, <3>2, <3>3, <3>4, InTurnGrows
  <2>9. InTurn(cq', emitted')
    <3>1. CASE plan.mode = "sparkplug" BY <1>5, <3>1 DEF InTurn
    <3>2. CASE plan.mode # "sparkplug"
      <4>1. cq' = Append(cq, s) BY <1>1, <3>2
      <4>2. /\ cq' \in Seq(Sample) /\ Len(cq') = Len(cq) + 1 /\ cq'[Len(cq')] = s /\ Len(cq) \in Nat
            /\ Grown(cq', cq)
        BY <1>0, <4>1 DEF Grown
      <4>3. cq \in Seq(Sample \cup {None}) /\ cq' \in Seq(Sample \cup {None}) BY <1>0, <4>2, SeqMonotonic
      <4>4. \A i \in (Len(cq) + 1)..Len(cq') : i = Len(cq') /\ cq'[i] = s BY <4>2
      <4>5. Len(cq') \in (Len(cq) + 1)..Len(cq') BY <4>2
      <4>6. \A n : IsNewest(n, emitted') => IsNewest(n, emitted) \/ \E j \in (Len(cq) + 1)..Len(cq') : cq'[j] = n
        BY <2>1, <4>4, <4>5
      <4>7. emitted \subseteq emitted' BY <1>1
      <4>8. \A i \in 1..Len(cq) : cq[i] # None => cq[i] \in emitted BY DEF TypeInv, SentInv
      <4>9. \A i \in (Len(cq) + 1)..Len(cq') : cq'[i] # None => IsNewest(cq'[i], emitted') BY <2>1, <4>4
      <4> QED BY <2>2, <2>3, <4>2, <4>3, <4>6, <4>7, <4>8, <4>9, InTurnGrows
    <3> QED BY <3>1, <3>2
  <2>10. ASSUME NEW a \in answered, NEW i \in 1..Len(HSeq'), HSeq'[i] # None, HSeq'[i].tag = a.tag
         PROVE  a.ts <= HSeq'[i].ts
    <3>1. CASE i \in 1..Len(HSeq)
      <4>1. HSeq'[i] = HSeq[i] BY <2>5, <3>1 DEF Grown
      <4> QED BY <2>2, <2>10, <3>1, <4>1
    <3>2. CASE i \in (Len(HSeq) + 1)..Len(HSeq')
      <4>1. HSeq'[i] = s /\ a \in emitted' BY <1>0, <1>1, <2>6, <3>2
      <4> QED BY <2>1, <2>10, <4>1 DEF IsNewest
    <3> QED BY <1>2, <2>4, <2>5, <3>1, <3>2
  <2>11. \A x \in Kept' : IsNewest(x, emitted')
    <3>1. CASE "retain" \in plan.env /\ plan.mode # "sparkplug" BY <1>3, <2>1, <2>2, <3>1
    <3>2. CASE ~("retain" \in plan.env /\ plan.mode # "sparkplug") BY <1>6, <3>2
    <3> QED BY <3>1, <3>2
  <2>12. ASSUME "retain" \in plan.env /\ plan.mode # "sparkplug", NEW a \in emitted'
         PROVE  \E x \in Kept' : x.tag = a.tag
    <3>1. CASE a.tag = s.tag BY <1>3, <2>12, <3>1
    <3>2. CASE a.tag # s.tag
      <4>1. a \in emitted BY <1>1, <3>2
      <4>2. PICK x \in Kept : x.tag = a.tag BY <2>2, <2>12, <4>1
      <4> QED BY <1>3, <2>12, <3>2, <4>2
    <3> QED BY <3>1, <3>2
  <2> QED BY <2>8, <2>9, <2>10, <2>11, <2>12
<1> QED BY <1>1, <1>4, <1>5, <1>6, <1>7 DEF OrderInv

\* The historian's queue grows while no sample is sent: by retained samples or by
\* messages without one.
LEMMA OrderGrown ==
  ASSUME TypeInv, OrderInv, UNCHANGED <<plan, emitted, lates, retained, cq, answered>>,
         hq' \in Seq(Message), Grown(hq', hq),
         \A i \in (Len(hq) + 1)..Len(hq') : IsData(hq'[i]) => hq'[i].sample \in Kept
  PROVE  OrderInv'
PROOF
<1>0. /\ hq \in Seq(Message) /\ emitted \subseteq Sample /\ answered \subseteq emitted
      /\ Len(hq) \in Nat /\ Len(hq') \in Nat
  <2>1. hq \in Seq(Message) /\ emitted \subseteq Sample /\ answered \subseteq emitted BY DEF TypeInv, TypeOK
  <2> QED BY <2>1
<1>1. Kept' = Kept BY DEF Kept
<1>2. ASSUME lates = 0
      PROVE  /\ InTurn(HSeq', emitted)
             /\ \A a \in answered, i \in 1..Len(HSeq') :
                  HSeq'[i] # None /\ HSeq'[i].tag = a.tag => a.ts <= HSeq'[i].ts
  <2>1. /\ InTurn(HSeq, emitted)
        /\ \A a \in answered, i \in 1..Len(HSeq) :
             HSeq[i] # None /\ HSeq[i].tag = a.tag => a.ts <= HSeq[i].ts
        /\ \A x \in Kept : IsNewest(x, emitted)
    BY <1>2 DEF OrderInv
  <2>2. /\ HSeq \in Seq(Sample \cup {None}) /\ Len(HSeq) = Len(hq)
        /\ \A i \in 1..Len(hq) : HSeq[i] = At(hq[i])
    BY <1>0, HSeqType
  <2>3. /\ HSeq' \in Seq(Sample \cup {None}) /\ Len(HSeq') = Len(hq') /\ Grown(HSeq', HSeq)
        /\ \A i \in 1..Len(hq') : HSeq'[i] = At(hq'[i])
    BY <1>0, HSeqGrown
  <2>4. \A i \in (Len(HSeq) + 1)..Len(HSeq') : HSeq'[i] # None => IsNewest(HSeq'[i], emitted)
    <3> SUFFICES ASSUME NEW i \in (Len(HSeq) + 1)..Len(HSeq'), HSeq'[i] # None
                 PROVE  IsNewest(HSeq'[i], emitted)
      OBVIOUS
    <3>1. i \in (Len(hq) + 1)..Len(hq') /\ i \in 1..Len(hq') BY <1>0, <2>2, <2>3
    <3>2. HSeq'[i] = At(hq'[i]) BY <2>3, <3>1
    <3>3. IsData(hq'[i]) /\ HSeq'[i] = hq'[i].sample BY <3>2 DEF At
    <3> QED BY <2>1, <3>1, <3>3
  <2>5. \A i \in 1..Len(HSeq) : HSeq[i] # None => HSeq[i] \in emitted
    BY <2>2 DEF At, TypeInv, SentInv
  <2>6. \A a, b \in emitted : a.tag = b.tag /\ a.ts = b.ts => a = b BY DEF TypeInv, SentInv
  <2>7. InTurn(HSeq', emitted)
    <3> HIDE DEF HSeq
    <3> QED BY <1>0, <2>1, <2>2, <2>3, <2>4, <2>5, <2>6, InTurnGrows
  <2>8. ASSUME NEW a \in answered, NEW i \in 1..Len(HSeq'), HSeq'[i] # None, HSeq'[i].tag = a.tag
        PROVE  a.ts <= HSeq'[i].ts
    <3>1. CASE i \in 1..Len(HSeq)
      <4>1. HSeq'[i] = HSeq[i] BY <2>3, <3>1 DEF Grown
      <4> QED BY <2>1, <2>8, <3>1, <4>1
    <3>2. CASE i \in (Len(HSeq) + 1)..Len(HSeq')
      <4>1. IsNewest(HSeq'[i], emitted) BY <2>4, <2>8, <3>2
      <4> QED BY <1>0, <2>8, <4>1 DEF IsNewest
    <3> QED BY <1>0, <2>2, <2>3, <3>1, <3>2
  <2> QED BY <2>7, <2>8
<1> QED BY <1>1, <1>2 DEF OrderInv

\* The first message of the historian's queue is done.
LEMMA OrderTail ==
  ASSUME TypeInv, OrderInv, UNCHANGED <<plan, emitted, lates, retained, cq, answered>>,
         hq # <<>>, hq' = Tail(hq)
  PROVE  OrderInv'
PROOF
<1>0. hq \in Seq(Message) BY DEF TypeInv, TypeOK
<1>1. Kept' = Kept BY DEF Kept
<1>2. HSeq' = Tail(HSeq) /\ HSeq # <<>> /\ HSeq \in Seq(Sample \cup {None}) BY <1>0, HSeqTail, HSeqType
<1>3. /\ Len(HSeq) \in Nat /\ Len(HSeq') = Len(HSeq) - 1
      /\ \A i \in 1..Len(HSeq') : HSeq'[i] = HSeq[i + 1]
  BY <1>2, OneLess
<1>4. \A i \in 1..Len(HSeq') : i + 1 \in 1..Len(HSeq) BY <1>3
<1>5. lates = 0 => InTurn(HSeq', emitted) BY <1>2, InTurnTail DEF OrderInv
<1>6. lates = 0 =>
        \A a \in answered, i \in 1..Len(HSeq') : HSeq'[i] # None /\ HSeq'[i].tag = a.tag => a.ts <= HSeq'[i].ts
  BY <1>3, <1>4 DEF OrderInv
<1> QED BY <1>1, <1>5, <1>6 DEF OrderInv

\* core-api takes a sample, or starts again with the retained ones.
LEMMA OrderApi ==
  ASSUME TypeInv, OrderInv, UNCHANGED <<plan, emitted, lates, retained, hq, answered>>,
         cq' = cq \/ (cq # <<>> /\ cq' = Tail(cq)) \/ cq' = RetainedSamples
  PROVE  OrderInv'
PROOF
<1>0. /\ cq \in Seq(Sample) /\ emitted \subseteq Sample /\ retained \in [Tags -> Sample \cup {None}]
  BY DEF TypeInv, TypeOK
<1>1. Kept' = Kept /\ HSeq' = HSeq BY DEF Kept, HSeq, At, IsData
<1>2. CASE cq' = cq BY <1>1, <1>2 DEF OrderInv
<1>3. CASE cq # <<>> /\ cq' = Tail(cq)
  <2>1. plan.mode # "sparkplug" BY <1>3 DEF OrderInv
  <2>2. cq \in Seq(Sample \cup {None}) BY <1>0, SeqMonotonic
  <2>3. lates = 0 => InTurn(cq', emitted) BY <1>3, <2>2, InTurnTail DEF OrderInv
  <2> QED BY <1>1, <2>1, <2>3 DEF OrderInv
<1>4. CASE cq' = RetainedSamples
  <2>1. /\ RetainedSamples \in Seq(Sample)
        /\ \A i \in 1..Len(RetainedSamples) : RetainedSamples[i] \in Kept
    BY <1>0, RetainedSent
  <2>2. plan.mode = "sparkplug" => cq' = <<>>
    <3> SUFFICES ASSUME plan.mode = "sparkplug" PROVE cq' = <<>> OBVIOUS
    <3>1. Kept = {} BY DEF OrderInv
    <3>2. 1 \notin 1..Len(RetainedSamples) BY <2>1, <3>1
    <3>3. RetainedSamples = <<>> BY <2>1, <3>2
    <3> QED BY <1>4, <3>3
  <2>3. ASSUME lates = 0 PROVE InTurn(cq', emitted)
    <3>1. \A x \in Kept : IsNewest(x, emitted) BY <2>3 DEF OrderInv
    <3>2. /\ <<>> \in Seq(Sample \cup {None}) /\ RetainedSamples \in Seq(Sample \cup {None})
          /\ Len(<<>>) = 0 /\ Len(RetainedSamples) \in Nat
      BY <2>1, SeqMonotonic
    <3>3. InTurn(<<>>, emitted) /\ Grown(RetainedSamples, <<>>) BY <3>2 DEF InTurn, Grown
    <3>4. \A i \in (Len(<<>>) + 1)..Len(RetainedSamples) : IsNewest(RetainedSamples[i], emitted)
      BY <2>1, <3>1, <3>2
    <3>5. \A a, b \in emitted : a.tag = b.tag /\ a.ts = b.ts => a = b BY DEF TypeInv, SentInv
    <3>6. \A i \in 1..Len(<<>>) : <<>>[i] # None => <<>>[i] \in emitted BY <3>2
    <3>7. InTurn(RetainedSamples, emitted)
      <4> HIDE DEF RetainedSamples
      <4> QED BY <1>0, <3>2, <3>3, <3>4, <3>5, <3>6, InTurnGrows
    <3> QED BY <1>4, <3>7
  <2> QED BY <1>1, <2>2, <2>3 DEF OrderInv
<1> QED BY <1>2, <1>3, <1>4

LEMMA OrderStep == TypeInv /\ TypeInv' /\ OrderInv /\ [Next]_vars => OrderInv'
PROOF
<1> SUFFICES ASSUME TypeInv, TypeInv', OrderInv, [Next]_vars PROVE OrderInv' OBVIOUS
<1>0. /\ hq \in Seq(Message) /\ hq' \in Seq(Message) /\ retained \in [Tags -> Sample \cup {None}]
      /\ status \in Status /\ PlaceInv /\ emitted' \subseteq Sample
  BY DEF TypeInv, TypeOK
<1>1. ASSUME NEW s \in Sample, Publish(s) PROVE OrderInv' BY <1>0, <1>1, OrderPublish
<1>2. CASE HealthChange \/ DeviceDeath
  <2>1. UNCHANGED <<plan, emitted, lates, retained, cq, answered>>
    BY <1>2 DEF HealthChange, DeviceDeath, answerVars
  <2>2. \E m : hq' = Append(hq, m) /\ ~IsData(m)
    <3>1. CASE HealthChange
      <4>1. PICK st : hq' = Append(hq, [kind |-> "health", status |-> st]) BY <3>1 DEF HealthChange
      <4>2. ~IsData([kind |-> "health", status |-> st]) BY DEF IsData
      <4> QED BY <4>1, <4>2
    <3>2. CASE DeviceDeath
      <4>1. hq' = Append(hq, [kind |-> "ddeath"]) BY <3>2 DEF DeviceDeath
      <4>2. ~IsData([kind |-> "ddeath"]) BY DEF IsData
      <4> QED BY <4>1, <4>2
    <3> QED BY <1>2, <3>1, <3>2
  <2>3. PICK m : hq' = Append(hq, m) /\ ~IsData(m) BY <2>2
  <2>4. Grown(hq', hq) /\ \A i \in (Len(hq) + 1)..Len(hq') : hq'[i] = m BY <1>0, <2>3 DEF Grown
  <2> QED BY <1>0, <2>1, <2>3, <2>4, OrderGrown
<1>3. CASE HistorianCrash
  <2>1. UNCHANGED <<plan, emitted, lates, retained, cq, answered>>
    BY <1>3 DEF HistorianCrash, driverVars, answerVars
  <2>2. Renewed(hq', hq) BY <1>0, <1>3, Resubscribed DEF HistorianCrash
  <2>3. /\ Grown(hq', hq)
        /\ \A i \in (Len(hq) + 1)..Len(hq') : IsData(hq'[i]) => hq'[i].sample \in Kept
    BY <2>2 DEF Renewed
  <2> QED BY <1>0, <2>1, <2>3, OrderGrown
<1>4. CASE Acknowledge
  <2>1. UNCHANGED <<plan, emitted, lates, retained, cq, answered>>
    BY <1>4 DEF Acknowledge, driverVars, answerVars
  <2>2. hq # <<>> /\ (hq' = Tail(hq) \/ hq' = hq) BY <1>4 DEF Acknowledge, Busy
  <2> QED BY <2>1, <2>2, OrderTail, OrderQuiet
<1>5. CASE CoreApi \/ ApiRestart
  <2>1. UNCHANGED <<plan, emitted, lates, retained, hq, answered>>
    BY <1>5 DEF CoreApi, HandleDataUpdate, UpdateRealtime, UpdateShadow, ApiRestart, driverVars, answerVars
  <2>2. cq' = cq \/ (cq # <<>> /\ cq' = Tail(cq)) \/ cq' = RetainedSamples
    BY <1>0, <1>5 DEF CoreApi, HandleDataUpdate, UpdateRealtime, UpdateShadow, ApiRestart, PlaceInv
  <2> QED BY <2>1, <2>2, OrderApi
<1>6. CASE HandleData \/ Decide \/ SaveToPostgreSQL
  <2>1. UNCHANGED <<plan, emitted, lates, retained, hq, cq>>
    BY <1>6 DEF HandleData, Decide, SaveToPostgreSQL, driverVars
  <2>2. hq # <<>> /\ Head(hq) = hq[1]
    <3>1. hq # <<>> BY <1>6 DEF HandleData, Decide, SaveToPostgreSQL, Busy
    <3> QED BY <1>0, <3>1
  <2>3. h.pc \in DataPc \cup {"idle"} /\ IsData(hq[1])
    BY <1>0, <1>6, <2>2 DEF HandleData, Decide, SaveToPostgreSQL, Busy, IsData, DataPc, PlaceInv
  <2>4. answered' = answered \/ answered' = answered \cup {hq[1].sample}
    BY <1>6, <2>2 DEF HandleData, Decide, SaveToPostgreSQL, Answer, Current, answerVars
  <2> QED BY <2>1, <2>2, <2>3, <2>4, OrderQuiet
<1>7. CASE \/ Tick \/ StoreRealtimeGet \/ StoreRealtimeSet \/ StorePreviousValue \/ StoreLastTime
           \/ HandleHealth \/ HandleDeath \/ MarkTagGet \/ MarkTagSet \/ MarkTagRow \/ UNCHANGED vars
  <2>1. UNCHANGED <<plan, emitted, lates, retained, hq, cq, answered>>
    BY <1>7 DEF Tick, StoreRealtimeGet, StoreRealtimeSet, StorePreviousValue, StoreLastTime, HandleHealth,
                HandleDeath, MarkTagGet, MarkTagSet, MarkTagRow, vars, driverVars, answerVars
  <2> QED BY <2>1, OrderQuiet
<1> QED BY <1>1, <1>2, <1>3, <1>4, <1>5, <1>6, <1>7 DEF Next, Driver, Historian

\* While no health message and no death has come nothing marks a tag, and what
\* Redis shows was sent.
HealthInv ==
  health = 0 =>
    /\ status = "online" /\ h.pc \notin MarkPc
    /\ \A i \in 1..Len(hq) : IsData(hq[i]) \/ (hq[i].kind = "health" /\ hq[i].status = "online")
    /\ \A t \in Tags : realtime[t] # None => realtime[t] \in emitted /\ realtime[t].tag = t

LEMMA HealthInit == Init => HealthInv
BY DEF Init, Idle, HealthInv, MarkPc

LEMMA HealthStep == TypeInv /\ HealthInv /\ [Next]_vars => HealthInv'
PROOF
<1> SUFFICES ASSUME TypeInv, HealthInv, [Next]_vars, health' = 0
             PROVE  /\ status' = "online" /\ h'.pc \notin MarkPc
                    /\ \A i \in 1..Len(hq') : IsData(hq'[i]) \/ (hq'[i].kind = "health" /\ hq'[i].status = "online")
                    /\ \A t \in Tags : realtime'[t] # None => realtime'[t] \in emitted' /\ realtime'[t].tag = t
  BY DEF HealthInv, IsData
<1>0. /\ hq \in Seq(Message) /\ cq \in Seq(Sample) /\ h \in HState /\ health \in Nat /\ plan \in Plans
      /\ retained \in [Tags -> Sample \cup {None}] /\ status \in Status
      /\ realtime \in [Tags -> Sample \cup {None}] /\ PlaceInv /\ SentInv
  BY TelemetryAssumption DEF TypeInv, TypeOK, HState
<1>m. "idle" \notin MarkPc /\ "ack" \notin MarkPc /\ (DataPc \cap MarkPc = {}) BY DEF MarkPc, DataPc
<1>h. DataPc \cup {"ack", "mark"} \subseteq HPc BY DEF HPc, DataPc
<1>1. ~HealthChange /\ ~DeviceDeath BY <1>0 DEF HealthChange, DeviceDeath
<1>2. health = 0 /\ status' = status
  BY <1>1 DEF Next, Driver, Tick, Publish, Historian, HandleData, StoreRealtimeGet, StoreRealtimeSet, Decide,
     SaveToPostgreSQL, StorePreviousValue, StoreLastTime, HandleHealth, HandleDeath, MarkTagGet, MarkTagSet,
     MarkTagRow, Acknowledge, HistorianCrash, CoreApi, HandleDataUpdate, UpdateRealtime, UpdateShadow,
     ApiRestart, driverVars, vars
<1>3. /\ status = "online" /\ h.pc \notin MarkPc
      /\ \A i \in 1..Len(hq) : IsData(hq[i]) \/ (hq[i].kind = "health" /\ hq[i].status = "online")
      /\ \A t \in Tags : realtime[t] # None => realtime[t] \in emitted /\ realtime[t].tag = t
  BY <1>2 DEF HealthInv
<1>4. ~MarkTagGet /\ ~MarkTagSet /\ ~MarkTagRow
  BY <1>3 DEF MarkTagGet, MarkTagSet, MarkTagRow, Busy, MarkPc
<1>5. hq # <<>> => 1 \in 1..Len(hq) /\ Head(hq) = hq[1] BY <1>0
<1>6. ~HandleDeath BY <1>3, <1>5 DEF HandleDeath, Busy, IsData
<1>7. h'.pc \notin MarkPc
  <2>1. CASE HandleHealth
    <3>1. Head(hq).kind = "health" /\ Head(hq).status = "online"
      BY <1>3, <1>5, <2>1 DEF HandleHealth, Busy, IsData
    <3>2. h'.pc = "ack" BY <1>0, <2>1, <3>1 DEF HandleHealth, HState
    <3> QED BY <1>m, <3>2
  <2>2. CASE Tick \/ CoreApi \/ ApiRestart \/ UNCHANGED vars \/ \E s \in Sample : Publish(s)
    <3>1. h' = h BY <2>2 DEF Tick, CoreApi, HandleDataUpdate, UpdateRealtime, UpdateShadow, ApiRestart, vars, Publish
    <3> QED BY <1>3, <3>1
  <2>3. CASE Acknowledge \/ HistorianCrash BY <1>m, <2>3 DEF Acknowledge, HistorianCrash, Idle
  <2>4. CASE \/ HandleData \/ StoreRealtimeGet \/ StoreRealtimeSet \/ Decide \/ SaveToPostgreSQL
             \/ StorePreviousValue \/ StoreLastTime
    <3>1. h'.pc \in {"get", "ack", "decide", "set", "save", "prev", "last"}
      BY <1>0, <2>4 DEF HandleData, StoreRealtimeGet, StoreRealtimeSet, Decide, SaveToPostgreSQL,
         StorePreviousValue, StoreLastTime, HState
    <3> QED BY <3>1 DEF MarkPc
  <2> QED BY <1>1, <1>4, <1>6, <2>1, <2>2, <2>3, <2>4 DEF Next, Driver, Historian
<1>8. \A i \in 1..Len(hq') : IsData(hq'[i]) \/ (hq'[i].kind = "health" /\ hq'[i].status = "online")
  <2>1. ASSUME NEW s \in Sample, Publish(s)
        PROVE  \A i \in 1..Len(hq') : IsData(hq'[i]) \/ (hq'[i].kind = "health" /\ hq'[i].status = "online")
    <3>1. /\ hq' \in Seq(Message) /\ Grown(hq', hq)
          /\ \A i \in (Len(hq) + 1)..Len(hq') : IsData(hq'[i]) /\ hq'[i].sample = s
      BY <1>0, <2>1, Published DEF Publish
    <3>2. Len(hq) \in Nat /\ Len(hq') \in Nat BY <1>0, <3>1
    <3>3. \A i \in 1..Len(hq') : i \in 1..Len(hq) \/ i \in (Len(hq) + 1)..Len(hq') BY <3>2
    <3> QED BY <1>3, <3>1, <3>3 DEF Grown
  <2>2. CASE HistorianCrash
    <3>1. Renewed(hq', hq) BY <1>0, <2>2, Resubscribed DEF HistorianCrash
    <3>2. Len(hq) \in Nat /\ Len(hq') \in Nat BY <1>0, <3>1 DEF Renewed
    <3>3. \A i \in 1..Len(hq') : i \in 1..Len(hq) \/ i \in (Len(hq) + 1)..Len(hq') BY <3>2
    <3> QED BY <1>3, <3>1, <3>3 DEF Renewed, Grown
  <2>3. CASE Acknowledge
    <3>1. hq # <<>> /\ (hq' = Tail(hq) \/ hq' = hq) BY <2>3 DEF Acknowledge, Busy
    <3>2. CASE hq' = hq BY <1>3, <3>2
    <3>3. CASE hq' = Tail(hq)
      <4>1. /\ Len(hq) \in Nat /\ Len(hq') = Len(hq) - 1 /\ \A i \in 1..Len(hq') : hq'[i] = hq[i + 1]
        BY <1>0, <3>1, <3>3, OneLess
      <4>2. \A i \in 1..Len(hq') : i + 1 \in 1..Len(hq) BY <4>1
      <4> QED BY <1>3, <4>1, <4>2
    <3> QED BY <3>1, <3>2, <3>3
  <2>4. CASE hq' = hq BY <1>3, <2>4
  <2>5. CASE Tick \/ CoreApi \/ ApiRestart \/ HandleHealth \/ UNCHANGED vars
    <3>1. hq' = hq
      BY <2>5 DEF Tick, CoreApi, HandleDataUpdate, UpdateRealtime, UpdateShadow, ApiRestart, HandleHealth, vars
    <3> QED BY <2>4, <3>1
  <2>6. CASE \/ HandleData \/ StoreRealtimeGet \/ StoreRealtimeSet \/ Decide \/ SaveToPostgreSQL
             \/ StorePreviousValue \/ StoreLastTime
    <3>1. hq' = hq
      BY <2>6 DEF HandleData, StoreRealtimeGet, StoreRealtimeSet, Decide, SaveToPostgreSQL,
         StorePreviousValue, StoreLastTime
    <3> QED BY <2>4, <3>1
  <2> QED BY <1>1, <1>4, <1>6, <2>1, <2>2, <2>3, <2>5, <2>6 DEF Next, Driver, Historian
<1>9. \A t \in Tags : realtime'[t] # None => realtime'[t] \in emitted' /\ realtime'[t].tag = t
  <2>e. emitted \subseteq emitted'
    BY <1>1 DEF Next, Driver, Tick, Publish, Historian, HandleData, StoreRealtimeGet, StoreRealtimeSet, Decide,
       SaveToPostgreSQL, StorePreviousValue, StoreLastTime, HandleHealth, HandleDeath, MarkTagGet, MarkTagSet,
       MarkTagRow, Acknowledge, HistorianCrash, CoreApi, HandleDataUpdate, UpdateRealtime, UpdateShadow,
       ApiRestart, driverVars, vars
  <2>1. CASE StoreRealtimeSet
    <3>1. h.pc \in DataPc BY <2>1 DEF StoreRealtimeSet, Busy, DataPc
    <3>2. Current \in emitted /\ Current.tag \in Tags BY <3>1, AtHand
    <3>3. realtime' = [realtime EXCEPT ![Current.tag] = Current] BY <2>1 DEF StoreRealtimeSet
    <3>4. \A t \in Tags : realtime'[t] = IF t = Current.tag THEN Current ELSE realtime[t] BY <1>0, <3>2, <3>3
    <3> QED BY <1>3, <2>e, <3>2, <3>4
  <2>2. CASE UpdateRealtime
    <3>1. cq # <<>> BY <1>0, <2>2 DEF UpdateRealtime, PlaceInv
    <3>2. Head(cq) = cq[1] /\ 1 \in 1..Len(cq) BY <1>0, <3>1
    <3>3. Head(cq) \in emitted /\ Head(cq).tag \in Tags
      <4>1. Head(cq) \in emitted BY <1>0, <3>2 DEF SentInv
      <4> QED BY <4>1 DEF TypeInv, TypeOK, Sample
    <3>4. realtime' = [realtime EXCEPT ![Head(cq).tag] = Head(cq)] BY <2>2 DEF UpdateRealtime
    <3>5. \A t \in Tags : realtime'[t] = IF t = Head(cq).tag THEN Head(cq) ELSE realtime[t] BY <1>0, <3>3, <3>4
    <3> QED BY <1>3, <2>e, <3>3, <3>5
  <2>3. CASE realtime' = realtime BY <1>3, <2>e, <2>3
  <2>4. \/ StoreRealtimeSet \/ UpdateRealtime \/ realtime' = realtime
    BY <1>1, <1>4, <1>6 DEF Next, Driver, Tick, Publish, Historian, HandleData, StoreRealtimeGet, Decide,
       SaveToPostgreSQL, StorePreviousValue, StoreLastTime, HandleHealth,
       Acknowledge, HistorianCrash, CoreApi, HandleDataUpdate, UpdateShadow,
       ApiRestart, liveVars, vars
  <2> QED BY <2>1, <2>2, <2>3, <2>4
<1> QED BY <1>2, <1>3, <1>7, <1>8, <1>9

-----------------------------------------------------------------------------
(* The live values. *)

\* n is in a queue; when its first message is past the write, behind that one.
Waits(q, n, first) == \E i \in 1..Len(q) : q[i] = n /\ (i > 1 \/ first)

\* A handler has n before it, its write of the live value included.
ApiWill(n) == Waits(cq, n, c # "shadow")
HistorianWill(n) == n \notin answered /\ Waits(HSeq, n, h.pc \in {"idle", "get", "set"})

Shown(n) == realtime[n.tag] = n \/ ApiWill(n)
Written == {"decide", "save", "prev", "last", "ack"}

\* The deployments and runs LiveValueSettles speaks of.
Calm == lates = 0 /\ health = 0 /\ lost = {} /\ ("restart" \in plan.env => "retain" \in plan.env)

\* The newest sample is shown or about to be; once the historian is past its own
\* write it no longer counts on itself.
LiveInv ==
  Calm => \A n \in emitted : IsNewest(n, emitted) =>
    /\ Shown(n) \/ HistorianWill(n)
    /\ h.pc \in Written /\ HSeq[1] = n => Shown(n)
    /\ plan.mode # "sparkplug" => shadow[n.tag] = n \/ Waits(cq, n, TRUE)

LEMMA WaitsTail ==
  ASSUME NEW S, NEW q \in Seq(S), q # <<>>, NEW n, Waits(q, n, FALSE)
  PROVE  Waits(Tail(q), n, TRUE)
PROOF
<1>1. PICK i \in 1..Len(q) : q[i] = n /\ i > 1 BY DEF Waits
<1>2. /\ Len(q) \in Nat /\ Len(Tail(q)) = Len(q) - 1 /\ \A k \in 1..Len(Tail(q)) : Tail(q)[k] = q[k + 1]
  BY OneLess
<1>3. i - 1 \in 1..Len(Tail(q)) /\ (i - 1) + 1 = i BY <1>1, <1>2
<1>4. Tail(q)[i - 1] = n BY <1>1, <1>2, <1>3
<1> QED BY <1>3, <1>4 DEF Waits

LEMMA WaitsFirst ==
  ASSUME NEW q, NEW n, NEW k \in BOOLEAN, Waits(q, n, k)
  PROVE  Waits(q, n, FALSE) \/ (q[1] = n /\ k)
BY DEF Waits

LEMMA WaitsGrown ==
  ASSUME NEW S, NEW T, NEW q \in Seq(S), NEW r \in Seq(T), Grown(r, q), NEW n, NEW k \in BOOLEAN, Waits(q, n, k)
  PROVE  Waits(r, n, k)
PROOF
<1>1. PICK i \in 1..Len(q) : q[i] = n /\ (i > 1 \/ k) BY DEF Waits
<1>2. Len(q) \in Nat /\ Len(r) \in Nat OBVIOUS
<1>3. i \in 1..Len(r) /\ r[i] = n BY <1>1, <1>2 DEF Grown
<1> QED BY <1>1, <1>3 DEF Waits

\* Behind an older sample of its tag the newest one waits.
LEMMA WaitsBehind ==
  ASSUME NEW S, NEW q \in Seq(S), q # <<>>, NEW E, NEW n, InTurn(q, E), IsNewest(n, E),
         q[1] # None, q[1].tag = n.tag, q[1] # n
  PROVE  Waits(q, n, FALSE)
PROOF
<1>1. Len(q) \in Nat /\ 1 \in 1..Len(q) OBVIOUS
<1>2. n \in E BY DEF IsNewest
<1>3. PICK j \in 1..Len(q) : q[j] = n BY <1>1, <1>2 DEF InTurn
<1>4. j > 1 BY <1>3
<1> QED BY <1>3, <1>4 DEF Waits

\* A newest sample is not older than what Redis shows.
LEMMA NotOlder ==
  ASSUME TypeInv, HealthInv, health = 0, NEW n, IsNewest(n, emitted)
  PROVE  ~Older(n, realtime[n.tag]) /\ n \in emitted /\ n \in Sample /\ n.tag \in Tags /\ n # None
PROOF
<1>1. n \in emitted /\ n \in Sample BY DEF IsNewest, TypeInv, TypeOK
<1>2. n.ts \in Int /\ n.tag \in Tags /\ n # None BY <1>1, TimesOf
<1>3. ASSUME realtime[n.tag] # None PROVE ~(realtime[n.tag].ts > n.ts)
  <2>1. realtime[n.tag] \in emitted /\ realtime[n.tag].tag = n.tag BY <1>2, <1>3 DEF HealthInv
  <2>2. realtime[n.tag].ts <= n.ts BY <2>1 DEF IsNewest
  <2>3. realtime[n.tag].ts \in Int BY <2>1, TimesOf DEF TypeInv, TypeOK
  <2> QED BY <1>2, <2>2, <2>3
<1> QED BY <1>1, <1>2, <1>3 DEF Older

LEMMA LiveInit == Init => LiveInv
BY DEF Init, LiveInv

\* A step of the historian's handler that leaves Redis and the queues alone.
LEMMA LiveHandler ==
  ASSUME TypeInv, LiveInv, UNCHANGED <<plan, emitted, lates, health, realtime, shadow, hq, cq, c>>,
         lost \subseteq lost',
         \A n : Calm /\ lost' = {} /\ IsNewest(n, emitted) =>
           /\ HistorianWill(n) => Shown(n) \/ HistorianWill(n)'
           /\ h'.pc \in Written /\ HSeq[1] = n => Shown(n)
  PROVE  LiveInv'
PROOF
<1> SUFFICES ASSUME Calm', NEW n \in emitted, IsNewest(n, emitted)
             PROVE  /\ Shown(n)' \/ HistorianWill(n)'
                    /\ h'.pc \in Written /\ HSeq'[1] = n => Shown(n)'
                    /\ plan.mode # "sparkplug" => shadow[n.tag] = n \/ Waits(cq, n, TRUE)
  BY DEF LiveInv
<1>1. Calm /\ lost' = {} BY DEF Calm
<1>2. Shown(n)' <=> Shown(n) BY DEF Shown, ApiWill
<1>3. HSeq' = HSeq BY DEF HSeq, At, IsData
<1>4. /\ Shown(n) \/ HistorianWill(n)
      /\ plan.mode # "sparkplug" => shadow[n.tag] = n \/ Waits(cq, n, TRUE)
  BY <1>1 DEF LiveInv
<1> QED BY <1>1, <1>2, <1>3, <1>4

\* The first message at hand, as the handler's steps use it.
LEMMA HandFirst ==
  ASSUME TypeInv, h.pc \in DataPc
  PROVE  hq # <<>> /\ HSeq # <<>> /\ HSeq[1] = Current /\ 1 \in 1..Len(HSeq) /\ HSeq \in Seq(Sample \cup {None})
PROOF
<1>1. hq # <<>> /\ Current = hq[1].sample /\ IsData(hq[1]) BY AtHand DEF TypeInv, PlaceInv
<1>2. hq \in Seq(Message) BY DEF TypeInv, TypeOK
<1> QED BY <1>1, <1>2, HSeqFirst, HSeqType

\* The historian before and after its write of the live value.
LEMMA LiveOthers ==
  ASSUME TypeInv, OrderInv, HealthInv, LiveInv,
         \/ HandleData \/ StoreRealtimeGet \/ Decide \/ SaveToPostgreSQL \/ StorePreviousValue \/ StoreLastTime
         \/ HandleHealth
  PROVE  LiveInv'
PROOF
<1>0. /\ hq \in Seq(Message) /\ h \in HState /\ lost \subseteq answered /\ PlaceInv
      /\ HSeq \in Seq(Sample \cup {None})
  BY HSeqType DEF TypeInv, TypeOK, HState
<1>a. UNCHANGED <<plan, emitted, lates, health, realtime, shadow, hq, cq, c>> /\ lost \subseteq lost'
  BY DEF HandleData, StoreRealtimeGet, Decide, SaveToPostgreSQL, StorePreviousValue, StoreLastTime, HandleHealth,
         driverVars, liveVars, answerVars
<1>b. HSeq' = HSeq BY <1>a DEF HSeq, At, IsData
<1>c. ASSUME NEW n, Calm, IsNewest(n, emitted)
      PROVE  /\ Shown(n) \/ HistorianWill(n)
             /\ h.pc \in Written /\ HSeq[1] = n => Shown(n)
             /\ n \in emitted /\ n \in Sample /\ n # None /\ ~Older(n, realtime[n.tag])
  <2>1. n \in emitted BY <1>c DEF IsNewest
  <2>2. health = 0 BY <1>c DEF Calm
  <2>3. n \in Sample /\ n # None /\ ~Older(n, realtime[n.tag]) BY <1>c, <2>2, NotOlder
  <2> QED BY <1>c, <2>1, <2>3 DEF LiveInv
<1>1. CASE HandleData
  <2>1. hq # <<>> /\ h.pc = "idle" /\ IsData(Head(hq)) BY <1>1 DEF HandleData, Busy, IsData
  <2>2. Head(hq) = hq[1] BY <1>0, <2>1
  <2>3. HSeq[1] = Current BY <2>1, <2>2, HSeqFirst DEF Current
  <2>4. CASE h'.pc = "get" /\ answered' = answered
    <3>1. \A n : HistorianWill(n) => HistorianWill(n)' BY <1>b, <2>1, <2>4 DEF HistorianWill, Waits
    <3>2. h'.pc \notin Written BY <2>4 DEF Written
    <3> QED BY <1>a, <3>1, <3>2, LiveHandler
  <2>5. CASE /\ h'.pc = "ack" /\ answered' = answered \cup {Current}
             /\ lost' = IF Current \in answered THEN lost ELSE lost \cup {Current}
    <3>1. ASSUME NEW n, Calm, lost' = {}, IsNewest(n, emitted)
          PROVE  /\ HistorianWill(n) => Shown(n) \/ HistorianWill(n)'
                 /\ HSeq[1] = n => Shown(n)
      <4>1. Current \in answered /\ answered' = answered BY <2>5, <3>1
      <4>2. HSeq[1] = n => Shown(n) BY <1>c, <2>3, <3>1, <4>1 DEF HistorianWill
      <4>3. ASSUME HistorianWill(n) PROVE HistorianWill(n)'
        <5>1. n \notin answered /\ Waits(HSeq, n, TRUE) /\ HSeq[1] # n
          BY <2>1, <2>3, <4>1, <4>3 DEF HistorianWill
        <5>2. Waits(HSeq, n, FALSE) BY <5>1, WaitsFirst
        <5>3. Waits(HSeq, n, h'.pc \in {"idle", "get", "set"}) BY <5>2 DEF Waits
        <5> QED BY <1>b, <4>1, <5>1, <5>3 DEF HistorianWill
      <4> QED BY <4>2, <4>3
    <3> QED BY <1>a, <3>1, LiveHandler
  <2>6. \/ h'.pc = "get" /\ answered' = answered
        \/ /\ h'.pc = "ack" /\ answered' = answered \cup {Current}
           /\ lost' = IF Current \in answered THEN lost ELSE lost \cup {Current}
    BY <1>0, <1>1 DEF HandleData, Answer, answerVars, HState
  <2> QED BY <2>4, <2>5, <2>6
<1>2. CASE StoreRealtimeGet
  <2>1. h.pc = "get" /\ h.pc \in DataPc BY <1>2 DEF StoreRealtimeGet, Busy, DataPc
  <2>2. HSeq[1] = Current BY <2>1, HandFirst
  <2>3. /\ h'.pc = IF Older(Current, realtime[Current.tag]) THEN "decide" ELSE "set"
        /\ answered' = answered
    BY <1>0, <1>2 DEF StoreRealtimeGet, answerVars, HState
  <2>4. ASSUME NEW n, Calm, IsNewest(n, emitted)
        PROVE  /\ HistorianWill(n) => HistorianWill(n)'
               /\ h'.pc \in Written => HSeq[1] # n
    <3>1. ~Older(n, realtime[n.tag]) BY <1>c, <2>4
    <3>2. h'.pc \in Written => HSeq[1] # n BY <2>2, <2>3, <3>1 DEF Written
    <3>3. ASSUME HistorianWill(n) PROVE HistorianWill(n)'
      <4>1. n \notin answered' /\ Waits(HSeq, n, TRUE) BY <2>1, <2>3, <3>3 DEF HistorianWill
      <4>2. CASE h'.pc = "set" BY <1>b, <4>1, <4>2 DEF HistorianWill
      <4>3. CASE h'.pc = "decide"
        <5>1. HSeq[1] # n BY <3>2, <4>3 DEF Written
        <5>2. Waits(HSeq, n, FALSE) BY <4>1, <5>1, WaitsFirst
        <5>3. Waits(HSeq, n, h'.pc \in {"idle", "get", "set"}) BY <5>2 DEF Waits
        <5> QED BY <1>b, <4>1, <5>3 DEF HistorianWill
      <4> QED BY <2>3, <4>2, <4>3
    <3> QED BY <3>2, <3>3
  <2> QED BY <1>a, <2>4, LiveHandler
<1>3. CASE Decide \/ SaveToPostgreSQL \/ StorePreviousValue \/ StoreLastTime
  <2>1. h.pc \in {"decide", "save", "prev", "last"}
    BY <1>3 DEF Decide, SaveToPostgreSQL, StorePreviousValue, StoreLastTime, Busy
  <2>2. h.pc \in DataPc /\ h.pc \in Written /\ h.pc \notin {"idle", "get", "set"} BY <2>1 DEF DataPc, Written
  <2>3. HSeq[1] = Current BY <2>2, HandFirst
  <2>4. answered' = answered \/ answered' = answered \cup {Current}
    BY <1>3 DEF Decide, SaveToPostgreSQL, StorePreviousValue, StoreLastTime, Answer, answerVars
  <2>5. ASSUME NEW n, Calm, IsNewest(n, emitted)
        PROVE  /\ HistorianWill(n) => Shown(n) \/ HistorianWill(n)'
               /\ HSeq[1] = n => Shown(n)
    <3>1. HSeq[1] = n => Shown(n) BY <1>c, <2>2, <2>5
    <3>2. ASSUME HistorianWill(n), n # Current PROVE HistorianWill(n)'
      <4>1. n \notin answered' /\ Waits(HSeq, n, FALSE) BY <2>2, <2>4, <3>2 DEF HistorianWill, Waits
      <4>2. Waits(HSeq, n, h'.pc \in {"idle", "get", "set"}) BY <4>1 DEF Waits
      <4> QED BY <1>b, <4>1, <4>2 DEF HistorianWill
    <3> QED BY <2>3, <3>1, <3>2
  <2> QED BY <1>a, <2>5, LiveHandler
<1>4. CASE HandleHealth
  <2>1. hq # <<>> /\ ~IsData(Head(hq)) /\ h.pc = "idle" BY <1>4 DEF HandleHealth, Busy, IsData
  <2>2. Head(hq) = hq[1] BY <1>0, <2>1
  <2>3. HSeq[1] = None BY <2>1, <2>2, HSeqFirst DEF At
  <2>4. answered' = answered BY <1>4 DEF HandleHealth, answerVars
  <2>5. ASSUME NEW n, Calm, IsNewest(n, emitted)
        PROVE  HSeq[1] # n /\ (HistorianWill(n) => HistorianWill(n)')
    <3>1. HSeq[1] # n BY <1>c, <2>3, <2>5
    <3>2. ASSUME HistorianWill(n) PROVE HistorianWill(n)'
      <4>1. n \notin answered' /\ Waits(HSeq, n, TRUE) BY <2>1, <2>4, <3>2 DEF HistorianWill
      <4>2. Waits(HSeq, n, FALSE) BY <3>1, <4>1, WaitsFirst
      <4>3. Waits(HSeq, n, h'.pc \in {"idle", "get", "set"}) BY <4>2 DEF Waits
      <4> QED BY <1>b, <4>1, <4>3 DEF HistorianWill
    <3> QED BY <3>1, <3>2
  <2> QED BY <1>a, <2>5, LiveHandler
<1> QED BY <1>1, <1>2, <1>3, <1>4

\* The write of the live value by the historian: it shows the newest sample, or
\* an older one that the newest one follows.
LEMMA LiveSet ==
  ASSUME TypeInv, OrderInv, LiveInv, StoreRealtimeSet
  PROVE  LiveInv'
PROOF
<1>0. /\ h \in HState /\ realtime \in [Tags -> Sample \cup {None}] /\ emitted \subseteq Sample
  BY DEF TypeInv, TypeOK, HState
<1>1. h.pc = "set" /\ h.pc \in DataPc BY DEF StoreRealtimeSet, Busy, DataPc
<1>2. HSeq[1] = Current /\ HSeq # <<>> /\ 1 \in 1..Len(HSeq) /\ HSeq \in Seq(Sample \cup {None}) BY <1>1, HandFirst
<1>3. Current \in emitted /\ Current \in Sample /\ Current.tag \in Tags BY <1>1, AtHand
<1>4. /\ realtime' = [realtime EXCEPT ![Current.tag] = Current] /\ h'.pc = "decide"
      /\ UNCHANGED <<plan, emitted, lates, health, shadow, hq, cq, c, answered, lost>>
  BY <1>0 DEF StoreRealtimeSet, driverVars, answerVars, HState
<1>5. HSeq' = HSeq BY <1>4 DEF HSeq, At, IsData
<1>6. \A t \in Tags : realtime'[t] = IF t = Current.tag THEN Current ELSE realtime[t] BY <1>0, <1>3, <1>4
<1> SUFFICES ASSUME Calm', NEW n \in emitted, IsNewest(n, emitted)
             PROVE  /\ Shown(n)' \/ HistorianWill(n)'
                    /\ HSeq'[1] = n => Shown(n)'
                    /\ plan.mode # "sparkplug" => shadow[n.tag] = n \/ Waits(cq, n, TRUE)
  BY <1>4 DEF LiveInv
<1>7. Calm BY <1>4 DEF Calm
<1>8. /\ Shown(n) \/ HistorianWill(n)
      /\ plan.mode # "sparkplug" => shadow[n.tag] = n \/ Waits(cq, n, TRUE)
  BY <1>7 DEF LiveInv
<1>9. n \in Sample /\ n.tag \in Tags /\ Current # None BY <1>0, <1>3, TimesOf
<1>10. CASE n = Current
  <2>1. realtime'[n.tag] = n BY <1>3, <1>6, <1>10
  <2> QED BY <1>8, <2>1 DEF Shown
<1>11. CASE n # Current /\ n.tag = Current.tag
  <2>1. lates = 0 BY <1>7 DEF Calm
  <2>2. InTurn(HSeq, emitted) BY <2>1 DEF OrderInv
  <2>3. Waits(HSeq, n, FALSE)
    <3> HIDE DEF HSeq
    <3> QED BY <1>2, <1>9, <1>11, <2>2, WaitsBehind
  <2>4. n \notin answered
    <3>1. n \in answered => n.ts <= HSeq[1].ts BY <1>2, <1>9, <1>11, <2>1 DEF OrderInv
    <3>2. Current.ts <= n.ts BY <1>3, <1>11 DEF IsNewest
    <3>3. n.ts \in Int /\ Current.ts \in Int BY <1>3, <1>9, TimesOf
    <3>4. n \in answered => n.ts = Current.ts BY <1>2, <3>1, <3>2, <3>3
    <3> QED BY <1>3, <1>11, <3>4 DEF TypeInv, SentInv
  <2>5. Waits(HSeq, n, h'.pc \in {"idle", "get", "set"}) BY <2>3 DEF Waits
  <2>6. HistorianWill(n)' BY <1>4, <1>5, <2>4, <2>5 DEF HistorianWill
  <2> QED BY <1>2, <1>5, <1>8, <1>11, <2>6
<1>12. CASE n.tag # Current.tag
  <2>1. realtime'[n.tag] = realtime[n.tag] BY <1>6, <1>9, <1>12
  <2>2. Shown(n) => Shown(n)' BY <1>4, <2>1 DEF Shown, ApiWill
  <2>3. ASSUME HistorianWill(n) PROVE HistorianWill(n)'
    <3>1. n \notin answered /\ Waits(HSeq, n, TRUE) BY <1>1, <2>3 DEF HistorianWill
    <3>2. Waits(HSeq, n, FALSE) BY <1>2, <1>12, <3>1, WaitsFirst
    <3>3. Waits(HSeq, n, h'.pc \in {"idle", "get", "set"}) BY <3>2 DEF Waits
    <3> QED BY <1>4, <1>5, <3>1, <3>3 DEF HistorianWill
  <2> QED BY <1>2, <1>5, <1>8, <1>12, <2>2, <2>3
<1> QED BY <1>10, <1>11, <1>12

\* A sample is sent: it is the newest, and the historian has it behind it.
LEMMA LivePublish ==
  ASSUME TypeInv, OrderInv, LiveInv, NEW s \in Sample, Publish(s)
  PROVE  LiveInv'
PROOF
<1>0. /\ hq \in Seq(Message) /\ cq \in Seq(Sample) /\ plan \in Plans /\ emitted \subseteq Sample
      /\ answered \subseteq emitted /\ PlaceInv
  BY DEF TypeInv, TypeOK
<1>1. /\ UNCHANGED <<plan, health, realtime, shadow, h, c, answered, lost>>
      /\ hq' = hq \o LegacyOut(s) \o SparkplugOut(s)
      /\ cq' = IF plan.mode = "sparkplug" THEN cq ELSE Append(cq, s)
      /\ emitted' = emitted \cup {s}
  BY DEF Publish, liveVars, answerVars
<1>2. /\ hq' \in Seq(Message) /\ Grown(hq', hq) /\ Len(hq') > Len(hq)
      /\ \A i \in (Len(hq) + 1)..Len(hq') : IsData(hq'[i]) /\ hq'[i].sample = s
  BY <1>0, <1>1, Published
<1>3. Len(hq) \in Nat /\ Len(hq') \in Nat BY <1>0, <1>2
<1>4. HSeq \in Seq(Sample \cup {None}) /\ Len(HSeq) = Len(hq) BY <1>0, HSeqType
<1>5. /\ HSeq' \in Seq(Sample \cup {None}) /\ Len(HSeq') = Len(hq') /\ Grown(HSeq', HSeq)
      /\ \A i \in 1..Len(hq') : HSeq'[i] = At(hq'[i])
  BY <1>0, <1>2, HSeqGrown
<1>6. Grown(cq', cq) /\ cq' \in Seq(Sample) BY <1>0, <1>1 DEF Grown
<1> SUFFICES ASSUME Calm', NEW n \in emitted', IsNewest(n, emitted')
             PROVE  /\ Shown(n)' \/ HistorianWill(n)'
                    /\ h.pc \in Written /\ HSeq'[1] = n => Shown(n)'
                    /\ plan.mode # "sparkplug" => shadow[n.tag] = n \/ Waits(cq', n, TRUE)
  BY <1>1 DEF LiveInv
<1>7. /\ lates = 0 /\ s \notin emitted
      /\ n = s \/ (n.tag # s.tag /\ IsNewest(n, emitted))
  BY NewestPublished DEF Calm
<1>8. Calm BY <1>1, <1>7 DEF Calm
<1>9. h.pc \in Written => HSeq'[1] = HSeq[1] /\ hq # <<>>
  <2> SUFFICES ASSUME h.pc \in Written PROVE HSeq'[1] = HSeq[1] /\ hq # <<>> OBVIOUS
  <2>1. hq # <<>> BY <1>0 DEF PlaceInv, Written
  <2>2. 1 \in 1..Len(HSeq) BY <2>1, HSeqFirst
  <2> QED BY <1>5, <2>1, <2>2 DEF Grown
<1>10. CASE n = s
  <2>1. Len(hq') \in 1..Len(HSeq') /\ Len(hq') \in (Len(hq) + 1)..Len(hq') BY <1>2, <1>3, <1>5
  <2>2. HSeq'[Len(hq')] = s BY <1>2, <1>5, <2>1 DEF At
  <2>3. Len(hq') > 1 \/ h.pc = "idle"
    <3>1. CASE hq = <<>> BY <1>0, <3>1 DEF PlaceInv
    <3>2. CASE hq # <<>>
      <4>1. Len(hq) > 0 BY <1>0, <3>2
      <4> QED BY <1>2, <1>3, <4>1
    <3> QED BY <3>1, <3>2
  <2>4. HistorianWill(n)' BY <1>0, <1>1, <1>7, <1>10, <2>1, <2>2, <2>3 DEF HistorianWill, Waits
  <2>5. ~(h.pc \in Written /\ HSeq'[1] = n)
    <3> SUFFICES ASSUME h.pc \in Written PROVE HSeq[1] # s BY <1>9, <1>10
    <3>1. HSeq[1] = At(hq[1]) /\ (IsData(hq[1]) => HSeq[1] \in emitted) BY <1>9, HSeqFirst
    <3>2. s # None BY TimesOf
    <3> QED BY <1>7, <3>1, <3>2 DEF At
  <2>6. plan.mode # "sparkplug" => Waits(cq', n, TRUE)
    <3> SUFFICES ASSUME plan.mode # "sparkplug" PROVE Waits(cq', n, TRUE) OBVIOUS
    <3>1. cq' = Append(cq, s) BY <1>1
    <3>2. Len(cq') \in 1..Len(cq') /\ cq'[Len(cq')] = s BY <1>0, <3>1
    <3> QED BY <1>10, <3>2 DEF Waits
  <2> QED BY <2>4, <2>5, <2>6
<1>11. CASE n # s
  <2>1. IsNewest(n, emitted) /\ n \in emitted BY <1>7, <1>11 DEF IsNewest
  <2>2. /\ Shown(n) \/ HistorianWill(n)
        /\ h.pc \in Written /\ HSeq[1] = n => Shown(n)
        /\ plan.mode # "sparkplug" => shadow[n.tag] = n \/ Waits(cq, n, TRUE)
    BY <1>8, <2>1 DEF LiveInv
  <2>3. Shown(n) => Shown(n)'
    <3>1. Waits(cq, n, c # "shadow") => Waits(cq', n, c # "shadow") BY <1>0, <1>6, WaitsGrown
    <3> QED BY <1>1, <3>1 DEF Shown, ApiWill
  <2>4. HistorianWill(n) => HistorianWill(n)'
    <3> DEFINE k == h.pc \in {"idle", "get", "set"}
    <3>1. k \in BOOLEAN OBVIOUS
    <3> HIDE DEF k, HSeq
    <3>2. Waits(HSeq, n, k) => Waits(HSeq', n, k) BY <1>4, <1>5, <3>1, WaitsGrown
    <3> QED BY <1>1, <3>2 DEF HistorianWill, k
  <2>5. Waits(cq, n, TRUE) => Waits(cq', n, TRUE) BY <1>0, <1>6, WaitsGrown
  <2> QED BY <1>9, <2>2, <2>3, <2>4, <2>5
<1> QED BY <1>10, <1>11

\* The historian is done with a message, or dies and starts again.
LEMMA LiveQueue ==
  ASSUME TypeInv, LiveInv, Acknowledge \/ HistorianCrash
  PROVE  LiveInv'
PROOF
<1>0. /\ hq \in Seq(Message) /\ retained \in [Tags -> Sample \cup {None}] /\ status \in Status
  BY DEF TypeInv, TypeOK
<1>1. UNCHANGED <<plan, emitted, lates, health, realtime, shadow, cq, c, answered, lost>> /\ h' = Idle
  BY DEF Acknowledge, HistorianCrash, driverVars, liveVars, answerVars
<1>2. HSeq \in Seq(Sample \cup {None}) BY <1>0, HSeqType
<1>3. h'.pc = "idle" /\ h'.pc \notin Written BY <1>1 DEF Idle, Written
<1>4. \A n : Waits(HSeq, n, h.pc \in {"idle", "get", "set"}) => Waits(HSeq', n, TRUE)
  <2> SUFFICES ASSUME NEW n, Waits(HSeq, n, h.pc \in {"idle", "get", "set"}) PROVE Waits(HSeq', n, TRUE) OBVIOUS
  <2>1. Waits(HSeq, n, TRUE) BY DEF Waits
  <2>2. CASE Acknowledge /\ hq' = Tail(hq)
    <3>1. hq # <<>> /\ h.pc \notin {"idle", "get", "set"} BY <2>2 DEF Acknowledge, Busy
    <3>2. Waits(HSeq, n, FALSE) BY <3>1 DEF Waits
    <3>3. HSeq' = Tail(HSeq) /\ HSeq # <<>> BY <1>0, <2>2, <3>1, HSeqTail
    <3>4. Waits(Tail(HSeq), n, TRUE)
      <4> HIDE DEF HSeq
      <4> QED BY <1>2, <3>2, <3>3, WaitsTail
    <3> QED BY <3>3, <3>4
  <2>3. CASE hq' = hq
    <3>1. HSeq' = HSeq BY <2>3 DEF HSeq, At, IsData
    <3> QED BY <2>1, <3>1
  <2>4. CASE HistorianCrash
    <3>1. Renewed(hq', hq) BY <1>0, <2>4, Resubscribed DEF HistorianCrash
    <3>2. hq' \in Seq(Message) /\ Grown(hq', hq) BY <3>1 DEF Renewed
    <3>3. HSeq' \in Seq(Sample \cup {None}) /\ Grown(HSeq', HSeq) BY <1>0, <3>2, HSeqGrown
    <3> HIDE DEF HSeq
    <3> QED BY <1>2, <2>1, <3>3, WaitsGrown
  <2> QED BY <2>2, <2>3, <2>4 DEF Acknowledge
<1> SUFFICES ASSUME Calm', NEW n \in emitted, IsNewest(n, emitted)
             PROVE  /\ Shown(n)' \/ HistorianWill(n)'
                    /\ plan.mode # "sparkplug" => shadow[n.tag] = n \/ Waits(cq, n, TRUE)
  BY <1>1, <1>3 DEF LiveInv
<1>5. Calm BY <1>1 DEF Calm
<1>6. /\ Shown(n) \/ HistorianWill(n)
      /\ plan.mode # "sparkplug" => shadow[n.tag] = n \/ Waits(cq, n, TRUE)
  BY <1>5 DEF LiveInv
<1>7. Shown(n) => Shown(n)' BY <1>1 DEF Shown, ApiWill
<1>8. HistorianWill(n) => HistorianWill(n)'
  <2> SUFFICES ASSUME HistorianWill(n) PROVE HistorianWill(n)' OBVIOUS
  <2>1. n \notin answered' /\ Waits(HSeq', n, TRUE) BY <1>1, <1>4 DEF HistorianWill
  <2> QED BY <1>3, <2>1 DEF HistorianWill, Waits
<1> QED BY <1>6, <1>7, <1>8

\* A step of core-api: what is shown stays shown or on its way.
LEMMA LiveApi ==
  ASSUME TypeInv, OrderInv, HealthInv, LiveInv, CoreApi \/ ApiRestart
  PROVE  LiveInv'
PROOF
<1>0. /\ cq \in Seq(Sample) /\ cq \in Seq(Sample \cup {None}) /\ emitted \subseteq Sample /\ PlaceInv
      /\ retained \in [Tags -> Sample \cup {None}]
      /\ realtime \in [Tags -> Sample \cup {None}] /\ shadow \in [Tags -> Sample \cup {None}]
  <2>1. cq \in Seq(Sample) BY DEF TypeInv, TypeOK
  <2>2. cq \in Seq(Sample \cup {None}) BY <2>1, SeqMonotonic
  <2> QED BY <2>1, <2>2 DEF TypeInv, TypeOK
<1>1. UNCHANGED <<plan, emitted, lates, health, hq, h, answered, lost>>
  BY DEF CoreApi, HandleDataUpdate, UpdateRealtime, UpdateShadow, ApiRestart, driverVars, answerVars
<1>2. HSeq' = HSeq BY <1>1 DEF HSeq, At, IsData
<1> SUFFICES ASSUME Calm, NEW n \in emitted, IsNewest(n, emitted),
                    Shown(n) \/ HistorianWill(n),
                    plan.mode # "sparkplug" => shadow[n.tag] = n \/ Waits(cq, n, TRUE)
             PROVE  /\ Shown(n) => Shown(n)'
                    /\ plan.mode # "sparkplug" => shadow'[n.tag] = n \/ Waits(cq', n, TRUE)
  <2>1. \A n : HistorianWill(n)' <=> HistorianWill(n) BY <1>1, <1>2 DEF HistorianWill
  <2>2. Calm' <=> Calm BY <1>1 DEF Calm
  <2> QED BY <1>1, <1>2, <2>1, <2>2 DEF LiveInv
<1>3. lates = 0 /\ health = 0 BY DEF Calm
<1>4. ~Older(n, realtime[n.tag]) /\ n \in Sample /\ n.tag \in Tags /\ n # None BY <1>3, NotOlder
<1>5. InTurn(cq, emitted) BY <1>3 DEF OrderInv
<1>6. cq # <<>> => /\ Head(cq) = cq[1] /\ cq[1] \in Sample /\ cq[1].tag \in Tags /\ cq[1] # None
                   /\ 1 \in 1..Len(cq)
  <2>1. cq # <<>> => Head(cq) = cq[1] /\ cq[1] \in Sample /\ 1 \in 1..Len(cq) BY <1>0
  <2> QED BY <2>1, TimesOf
<1>7. cq # <<>> /\ cq[1] # n /\ cq[1].tag = n.tag => Waits(cq, n, FALSE) BY <1>0, <1>5, <1>6, WaitsBehind
<1>8. cq # <<>> /\ Waits(cq, n, FALSE) => Waits(Tail(cq), n, TRUE) BY <1>0, WaitsTail
<1>9. cq[1] # n /\ Waits(cq, n, TRUE) => Waits(cq, n, FALSE) BY WaitsFirst
<1>10. Waits(cq, n, FALSE) => Waits(cq, n, TRUE) BY DEF Waits
<1>11. CASE HandleDataUpdate
  <2>1. c = "idle" /\ cq # <<>> /\ UNCHANGED <<realtime, shadow>> BY <1>11 DEF HandleDataUpdate, liveVars
  <2>2. CASE c' = "set" /\ cq' = cq BY <2>1, <2>2 DEF Shown, ApiWill
  <2>3. CASE Older(Head(cq), realtime[Head(cq).tag]) /\ c' = "idle" /\ cq' = Tail(cq)
    <3>1. cq[1] # n BY <1>4, <1>6, <2>1, <2>3
    <3>2. Waits(cq, n, TRUE) => Waits(cq', n, TRUE) BY <1>8, <1>9, <2>1, <2>3, <3>1
    <3>3. Shown(n) => realtime[n.tag] = n \/ Waits(cq, n, TRUE) BY <2>1 DEF Shown, ApiWill, Waits
    <3>4. realtime'[n.tag] = n \/ Waits(cq', n, TRUE) => Shown(n)' BY <2>3 DEF Shown, ApiWill, Waits
    <3> QED BY <2>1, <3>2, <3>3, <3>4
  <2> QED BY <1>11, <2>2, <2>3 DEF HandleDataUpdate
<1>12. CASE UpdateRealtime
  <2>1. /\ c = "set" /\ c' = "shadow" /\ cq # <<>> /\ UNCHANGED <<cq, shadow>>
        /\ realtime' = [realtime EXCEPT ![Head(cq).tag] = Head(cq)]
    BY <1>0, <1>12 DEF UpdateRealtime, PlaceInv
  <2>2. \A t \in Tags : realtime'[t] = IF t = cq[1].tag THEN cq[1] ELSE realtime[t] BY <1>0, <1>6, <2>1
  <2>3. Shown(n) => Shown(n)'
    <3>1. CASE cq[1] = n
      <4>1. realtime'[n.tag] = n BY <1>4, <2>2, <3>1
      <4> QED BY <4>1 DEF Shown
    <3>2. CASE cq[1] # n /\ cq[1].tag = n.tag
      <4>1. Waits(cq', n, FALSE) BY <1>7, <2>1, <3>2
      <4> QED BY <4>1 DEF Shown, ApiWill, Waits
    <3>3. CASE cq[1].tag # n.tag
      <4>1. realtime'[n.tag] = realtime[n.tag] BY <1>4, <2>2, <3>3
      <4>2. ApiWill(n) => Waits(cq, n, TRUE) BY DEF ApiWill, Waits
      <4>3. ApiWill(n) => Waits(cq', n, FALSE) BY <1>9, <2>1, <3>3, <4>2
      <4>4. Waits(cq', n, FALSE) => ApiWill(n)' BY DEF ApiWill, Waits
      <4> QED BY <4>1, <4>3, <4>4 DEF Shown
    <3> QED BY <3>1, <3>2, <3>3
  <2> QED BY <2>1, <2>3
<1>13. CASE UpdateShadow
  <2>1. /\ c = "shadow" /\ c' = "idle" /\ cq # <<>> /\ cq' = Tail(cq) /\ realtime' = realtime
        /\ shadow' = [shadow EXCEPT ![Head(cq).tag] = Head(cq)]
    BY <1>0, <1>13 DEF UpdateShadow, PlaceInv
  <2>2. \A t \in Tags : shadow'[t] = IF t = cq[1].tag THEN cq[1] ELSE shadow[t] BY <1>0, <1>6, <2>1
  <2>3. Shown(n) => Shown(n)'
    <3>1. ApiWill(n) => Waits(cq, n, FALSE) BY <2>1 DEF ApiWill, Waits
    <3>2. ApiWill(n) => Waits(cq', n, TRUE) BY <1>8, <2>1, <3>1
    <3>3. Waits(cq', n, TRUE) => ApiWill(n)' BY <2>1 DEF ApiWill, Waits
    <3> QED BY <2>1, <3>2, <3>3 DEF Shown
  <2>4. plan.mode # "sparkplug" => shadow'[n.tag] = n \/ Waits(cq', n, TRUE)
    <3>1. CASE cq[1] = n BY <1>4, <2>2, <3>1
    <3>2. CASE cq[1] # n /\ cq[1].tag = n.tag BY <1>7, <1>8, <2>1, <3>2
    <3>3. CASE cq[1].tag # n.tag
      <4>1. shadow'[n.tag] = shadow[n.tag] BY <1>4, <2>2, <3>3
      <4>2. Waits(cq, n, TRUE) => Waits(cq', n, TRUE) BY <1>8, <1>9, <2>1, <3>3
      <4> QED BY <4>1, <4>2
    <3> QED BY <3>1, <3>2, <3>3
  <2> QED BY <2>3, <2>4
<1>14. CASE ApiRestart
  <2>1. /\ "restart" \in plan.env /\ c' = "idle" /\ cq' = RetainedSamples /\ UNCHANGED <<realtime, shadow>>
    BY <1>14 DEF ApiRestart, liveVars
  <2>2. "retain" \in plan.env BY <2>1 DEF Calm
  <2>3. CASE plan.mode = "sparkplug"
    <3>1. cq = <<>> BY <2>3 DEF OrderInv
    <3>2. ~ApiWill(n) BY <3>1 DEF ApiWill, Waits
    <3> QED BY <2>1, <2>3, <3>2 DEF Shown
  <2>4. CASE plan.mode # "sparkplug"
    <3>1. PICK x \in Kept : x.tag = n.tag BY <1>3, <2>2, <2>4 DEF OrderInv
    <3>2. IsNewest(x, emitted) BY <1>3 DEF OrderInv
    <3>3. x = n BY <3>1, <3>2, NewestOne
    <3>4. \E i \in 1..Len(RetainedSamples) : RetainedSamples[i] = n BY <1>0, <3>3, RetainedSent
    <3>5. Waits(cq', n, TRUE) BY <2>1, <3>4 DEF Waits
    <3>6. ApiWill(n)' BY <2>1, <3>5 DEF ApiWill, Waits
    <3> QED BY <3>5, <3>6 DEF Shown
  <2> QED BY <2>3, <2>4
<1> QED BY <1>11, <1>12, <1>13, <1>14 DEF CoreApi

LEMMA LiveStep ==
  TypeInv /\ OrderInv /\ HealthInv /\ LiveInv /\ [Next]_vars => LiveInv'
PROOF
<1> SUFFICES ASSUME TypeInv, OrderInv, HealthInv, LiveInv, [Next]_vars PROVE LiveInv' OBVIOUS
<1>1. ASSUME NEW s \in Sample, Publish(s) PROVE LiveInv' BY <1>1, LivePublish
<1>2. CASE HealthChange \/ DeviceDeath
  <2>1. health \in Nat /\ health' = health + 1
    BY <1>2, TelemetryAssumption DEF HealthChange, DeviceDeath, TypeInv, TypeOK
  <2> QED BY <2>1 DEF LiveInv, Calm
<1>3. CASE \/ HandleData \/ StoreRealtimeGet \/ Decide \/ SaveToPostgreSQL \/ StorePreviousValue \/ StoreLastTime
           \/ HandleHealth
  BY <1>3, LiveOthers
<1>4. CASE StoreRealtimeSet BY <1>4, LiveSet
<1>5. CASE Acknowledge \/ HistorianCrash BY <1>5, LiveQueue
<1>6. CASE CoreApi \/ ApiRestart BY <1>6, LiveApi
<1>7. CASE HandleDeath \/ MarkTagGet \/ MarkTagSet \/ MarkTagRow
  <2>1. h.pc \in MarkPc \/ (h.pc = "idle" /\ hq # <<>> /\ Head(hq).kind = "ddeath")
    BY <1>7 DEF HandleDeath, MarkTagGet, MarkTagSet, MarkTagRow, Busy, MarkPc
  <2>2. hq # <<>> => 1 \in 1..Len(hq) /\ Head(hq) = hq[1]
    <3>1. hq \in Seq(Message) BY DEF TypeInv, TypeOK
    <3> QED BY <3>1
  <2>3. health # 0 BY <2>1, <2>2 DEF HealthInv, IsData
  <2>4. health' = health BY <1>7 DEF HandleDeath, MarkTagGet, MarkTagSet, MarkTagRow, driverVars
  <2> QED BY <2>3, <2>4 DEF LiveInv, Calm
<1>8. CASE Tick \/ UNCHANGED vars
  <2>1. UNCHANGED <<plan, emitted, lates, health, hq, cq, realtime, shadow, h, c, answered, lost>>
    BY <1>8 DEF Tick, vars, driverVars, liveVars, answerVars
  <2>2. HSeq' = HSeq BY <2>1 DEF HSeq, At, IsData
  <2>3. /\ Calm' <=> Calm
        /\ \A n : (Shown(n)' <=> Shown(n)) /\ (HistorianWill(n)' <=> HistorianWill(n))
    BY <2>1, <2>2 DEF Calm, Shown, ApiWill, HistorianWill
  <2> QED BY <2>1, <2>2, <2>3 DEF LiveInv
<1> QED BY <1>1, <1>2, <1>3, <1>4, <1>5, <1>6, <1>7, <1>8 DEF Next, Driver, Historian

\* Two processes read and write realtime:{tag} with nothing between them.  With
\* samples sent in order, looked up and stored without error, once both have taken
\* all their messages the screens and the shadow show the newest reading: for every
\* number of tags and samples, wherever the historian dies, whatever the broker
\* sends twice, and through restarts of core-api when the samples are retained.
THEOREM LiveHolds == Spec => []LiveValueSettles
PROOF
<1> DEFINE Inv == TypeInv /\ OrderInv /\ HealthInv /\ LiveInv
<1>1. Init => Inv BY TypeInit, OrderInit, HealthInit, LiveInit
<1>2. Inv /\ [Next]_vars => Inv' BY TypeStep, OrderStep, HealthStep, LiveStep
<1>3. Inv => LiveValueSettles
  <2> SUFFICES ASSUME Inv, Settled, Calm, NEW t \in {s.tag : s \in emitted}
               PROVE  realtime[t] = Newest(t) /\ (plan.mode # "sparkplug" => shadow[t] = Newest(t))
    BY DEF LiveValueSettles, Calm
  <2>1. PICK m \in emitted : m.tag = t /\ IsNewest(m, emitted) BY DEF OrderInv
  <2>2. Newest(t) \in emitted /\ Newest(t).tag = t /\ IsNewest(Newest(t), emitted)
    <3>1. m.tag = t /\ \A o \in emitted : o.tag = t => o.ts <= m.ts BY <2>1 DEF IsNewest
    <3>2. /\ Newest(t) \in emitted /\ Newest(t).tag = t
          /\ \A o \in emitted : o.tag = t => o.ts <= Newest(t).ts
      BY <3>1 DEF Newest
    <3> QED BY <3>2 DEF IsNewest
  <2>3. hq = <<>> /\ cq = <<>> BY DEF Settled
  <2>4. HSeq = <<>> BY <2>3 DEF HSeq
  <2>5. \A n, k : ~Waits(cq, n, k) /\ ~Waits(HSeq, n, k) BY <2>3, <2>4 DEF Waits
  <2>6. /\ Shown(Newest(t)) \/ HistorianWill(Newest(t))
        /\ plan.mode # "sparkplug" => shadow[t] = Newest(t) \/ Waits(cq, Newest(t), TRUE)
    BY <2>2 DEF LiveInv
  <2> QED BY <2>2, <2>5, <2>6 DEF Shown, ApiWill, HistorianWill
<1> QED BY <1>1, <1>2, <1>3, PTL DEF Spec

=============================================================================
