----------------------------- MODULE AlarmManager -----------------------------
(***************************************************************************)
(* The alarm engine every driver embeds (internal/alarms): it judges the   *)
(* readings of a gateway's tags against their alarm rules, keeps one track *)
(* per rule whose condition holds, and turns each change of a track into   *)
(* an action on a queue - a row of alarm_events to write, a notification   *)
(* to publish - that is executed with the manager's lock released.         *)
(*                                                                         *)
(* Processes.  Any number of Workers evaluate readings (the poll loop, the *)
(* message worker, the periodic re-sweep), the Ticker runs tickDelays once *)
(* a second and the Reloader is the MQTT callback of a reload command.     *)
(* Each takes the lock, decides, releases it and calls drainIO; at most    *)
(* one of them drains.  A step of the model is one critical section of     *)
(* Manager.mu or one statement executed outside of it; only a batch of     *)
(* past readings (EvaluateTagSeries) holds the lock over several steps,    *)
(* one per reading.                                                        *)
(*                                                                         *)
(* Abstraction.  A reading is a number of the small set Values, taken at a *)
(* time of the clock `now`; aliases, severities, messages and the value an *)
(* event carries decide nothing and are left out.  A reading of bad        *)
(* quality, one that is not a number and one of a tag without rules return *)
(* before they change anything, so only the others are actions.  An        *)
(* eventRef pointer is an element of Refs, allocated once; the size of     *)
(* Refs bounds the occurrences of a behaviour.                             *)
(***************************************************************************)
EXTENDS AlarmEvents, Integers, SequencesExt

CONSTANTS
  Tags,            \* the gateway's tags
  RuleOf,          \* [Defs -> Rule]: the content of each alarm definition
  InitialDefs,     \* the definitions stored when the behaviour begins
  Values,          \* the readings a tag can give, a set of integers
  Refs, NoRef,     \* eventRef pointers, and the nil one
  Workers, Ticker, Reloader,    \* the goroutines that enter the manager
  MaxTime,         \* bound: last tick of the clock
  MaxLag,          \* bound: how old a reading can be when it arrives
  MaxBatch,        \* bound: readings in one batch
  RetryInterval,   \* alarmInsertRetryInterval
  DefaultTimeout,  \* defaultHealthTimeoutSeconds
  Env              \* which of EnvEvents happen in this instance

HealthTypes == {"comm_loss", "frozen"}

AlarmTypes ==
  {"bool_true", "bool_false", "high", "high_high", "low", "low_low"} \cup HealthTypes

(* threshold is a set of at most one number: {} is the nil pointer. *)
Rule == [tag : Tags, type : AlarmTypes, threshold : SUBSET Int, deadband : Nat, delay : Nat]

(* What can happen to a driver besides readings and ticks: past readings   *)
(* in batches; an operator acknowledges an alarm or saves a tag's rules;   *)
(* the process dies; a statement fails without effect, or takes effect     *)
(* although the driver sees an error; the query of a reload fails; an      *)
(* event reaches core-api twice.                                           *)
EnvEvents == {"series", "ack", "save", "crash", "fail", "lost", "query", "dup"}

Callers == Workers \cup {Ticker, Reloader}

ASSUME AlarmConstants ==
  /\ RuleOf \in [Defs -> Rule]
  /\ InitialDefs \subseteq Defs
  /\ IsFiniteSet(Defs)
  /\ Values \subseteq Int
  /\ NoRef \notin Refs
  /\ Ticker \notin Workers /\ Reloader \notin Workers /\ Ticker # Reloader
  /\ MaxTime \in Nat /\ MaxLag \in Nat /\ MaxBatch \in Nat
  /\ RetryInterval \in Nat /\ DefaultTimeout \in Nat
  /\ Env \subseteq EnvEvents

VARIABLES
  now,          \* the clock
  rows,         \* alarm_events
  dbDefs,       \* alarm_definitions: the enabled definitions stored
  freshDefs,    \* definition ids not given out yet
  reload,       \* a reload command is on its way to the driver
  up,           \* the driver runs
  definitions,  \* Manager.definitions
  tracks,       \* Manager.activeTracks
  ids,          \* eventRef.id of every pointer; 0: not persisted
  used,         \* the pointers allocated so far
  restored,     \* those that loadActiveAlarmsFromDB allocated
  samples,      \* Manager.samples without the anchors
  anchors,      \* sampleState.anchors, by definition
  pendingIO,    \* Manager.pendingIO
  ioDraining,   \* Manager.ioDraining
  pc,           \* where each goroutine is
  act,          \* the action each goroutine executes in drainIO
  loaded,       \* the definitions the Reloader has read and not applied
  batch,        \* the batch of EvaluateTagSeries in progress
  published     \* every OnAlarmEvent call so far, in order

dbVars     == <<rows, dbDefs, freshDefs, reload>>
trackVars  == <<definitions, tracks, used, restored>>
healthVars == <<samples, anchors>>
drainVars  == <<pendingIO, ioDraining, act>>
vars == <<now, dbVars, up, trackVars, ids, healthVars, drainVars, pc, loaded, batch, published>>

--------------------------------------------------------------------------------
(* Types *)

Phases == {"none", "pending", "triggered"}   \* no track; delay running; fired

Track == [phase : Phases, since : Nat, firedAt : Nat, ref : Refs \cup {NoRef}, retryAt : Nat]

NoTrack == [phase |-> "none", since |-> 0, firedAt |-> 0, ref |-> NoRef, retryAt |-> 0]

Sample == [kept : BOOLEAN, lastGood : Nat, hasValue : BOOLEAN]

NoSample == [kept |-> FALSE, lastGood |-> 0, hasValue |-> FALSE]

Anchor == [kept : BOOLEAN, value : Int, since : Nat]

NoAnchor == [kept |-> FALSE, value |-> 0, since |-> 0]

IO == [def : Defs, status : {"ACTIVE", "CLEARED"}, ref : Refs, trig : Nat, notify : BOOLEAN]

NoIO == [status |-> "none"]

Event == [ref : Refs, def : Defs, status : {"ACTIVE", "CLEARED"}, id : Nat, at : Nat]

Batch == [tag : Tags, at : Nat, value : Int, read : Nat, known : SUBSET Defs, firstIO : Nat]

NoBatch == [read |-> 0]

PCs == {"idle", "batch", "loaded", "drain", "exec", "notify", "loop"}

TypeOK ==
  /\ now \in Nat
  /\ rows \in Seq(Row)
  /\ dbDefs \in SUBSET Defs /\ freshDefs \in SUBSET Defs
  /\ reload \in BOOLEAN /\ up \in BOOLEAN
  /\ definitions \in SUBSET Defs
  /\ tracks \in [Defs -> Track]
  /\ ids \in [Refs -> Nat]
  /\ used \in SUBSET Refs /\ restored \in SUBSET used
  /\ samples \in [Tags -> Sample]
  /\ anchors \in [Defs -> Anchor]
  /\ pendingIO \in Seq(IO)
  /\ ioDraining \in BOOLEAN
  /\ pc \in [Callers -> PCs]
  /\ act \in [Callers -> IO \cup {NoIO}]
  /\ loaded \in SUBSET Defs
  /\ batch \in Batch \cup {NoBatch}
  /\ published \in Seq(Event)

--------------------------------------------------------------------------------
(* Rules *)

isHealthAlarm(d) == RuleOf[d].type \in HealthTypes

isConditionViolated(d, v) ==
  LET r == RuleOf[d] IN
  CASE r.type = "bool_true"  -> v # 0
    [] r.type = "bool_false" -> v = 0
    [] r.type \in {"high", "high_high"} -> \E t \in r.threshold : v > t
    [] r.type \in {"low", "low_low"}   -> \E t \in r.threshold : v < t
    [] OTHER                 -> FALSE

isCleared(d, v) ==
  LET r == RuleOf[d] IN
  CASE r.type = "bool_true"  -> v = 0
    [] r.type = "bool_false" -> v # 0
    [] r.type \in {"high", "high_high"} -> \E t \in r.threshold : v <= t - r.deadband
    [] r.type \in {"low", "low_low"}   -> \E t \in r.threshold : v >= t + r.deadband
    [] OTHER                 -> TRUE

healthTimeout(d) == IF RuleOf[d].delay > 0 THEN RuleOf[d].delay ELSE DefaultTimeout

DefsOf(tag) == {d \in definitions : RuleOf[d].tag = tag}

ValueDefs(tag) == {d \in DefsOf(tag) : ~isHealthAlarm(d)}

(* Of a set of definitions, the tags that have a health rule among them. *)
HealthTags(defs) == {RuleOf[d].tag : d \in {e \in defs : isHealthAlarm(e)}}

Tracking(d) == tracks[d].phase # "none"

Triggered(d) == tracks[d].phase = "triggered"

--------------------------------------------------------------------------------
(* The lock and the queue *)

MuFree == \A c \in Callers : pc[c] # "batch"

Goto(c, where) == pc' = [pc EXCEPT ![c] = where]

MakeIO(d, status, ref, trig, notify) ==
  [def |-> d, status |-> status, ref |-> ref, trig |-> trig, notify |-> notify]

Pending(since, ref) ==
  [phase |-> "pending", since |-> since, firedAt |-> 0, ref |-> ref, retryAt |-> 0]

Fired(since, firedAt, ref, retryAt) ==
  [phase |-> "triggered", since |-> since, firedAt |-> firedAt, ref |-> ref, retryAt |-> retryAt]

(* A pointer of its own for every definition of D. *)
NewRefs(D) == {f \in [D -> Refs \ used] : \A d, e \in D : d # e => f[d] # f[e]}

(* Mutant: the throttle counts backwards. *)
NextRetryBackwards(t) == t - RetryInterval

(* NextInsertRetry of a track that fires, or is retried, at t. *)
NextRetry(t) == t + RetryInterval

(* The CLEARED action of a fired track. *)
Clearing(d, notify) == MakeIO(d, "CLEARED", tracks[d].ref, tracks[d].firedAt, notify)

(* applyHealth of a rule found violated: it fires at once, and is told. *)
Raising(d, ref) == MakeIO(d, "ACTIVE", ref, now, TRUE)

(* Mutant: a retry notifies again. *)
RetryingAloud(d) == MakeIO(d, "ACTIVE", tracks[d].ref, tracks[d].firedAt, TRUE)

(* The retry of a failed insert: the operator has been told already. *)
Retrying(d) == MakeIO(d, "ACTIVE", tracks[d].ref, tracks[d].firedAt, FALSE)

(* Mutant: the queue is assigned instead of appended to. *)
QueueIOOverwriting(queue, io) ==
  {[i \in DOMAIN order |-> io[order[i]]] : order \in SetToSeqs(DOMAIN io)}

(* The queue after one critical section has added the action io[d] of each *)
(* definition d it decided about.  They are added in the order of a map or *)
(* of a query without ORDER BY: any order.                                 *)
QueueIO(queue, io) ==
  {queue \o [i \in DOMAIN order |-> io[order[i]]] : order \in SetToSeqs(DOMAIN io)}

(* recordGoodSample(tag, value) at the arrival time `now`. *)
recordGoodSample(tag, v) ==
  /\ samples' = [samples EXCEPT ![tag] = [kept |-> TRUE, lastGood |-> now, hasValue |-> TRUE]]
  /\ anchors' = [d \in Defs |->
       IF /\ d \in DefsOf(tag)
          /\ RuleOf[d].type = "frozen"
          /\ \/ ~anchors[d].kept
             \/ v - anchors[d].value > RuleOf[d].deadband
             \/ anchors[d].value - v > RuleOf[d].deadband
       THEN [kept |-> TRUE, value |-> v, since |-> now]
       ELSE anchors[d]]

(* The times a reading that arrives now can carry. *)
ReadingTimes == {t \in 0..now : now - t <= MaxLag}

--------------------------------------------------------------------------------
(* Evaluation of one reading: EvaluateTag, EvaluateTagAt (life) and         *)
(* EvaluateThresholdsAt (not life), by a goroutine that is not inside the   *)
(* manager.                                                                 *)
evaluateAt(w, tag, v, at, life) ==
  LET Opens  == {d \in ValueDefs(tag) : isConditionViolated(d, v) /\ ~Tracking(d)}
      Fires  == {d \in Opens : RuleOf[d].delay = 0}
      Drops  == {d \in ValueDefs(tag) : ~isConditionViolated(d, v) /\ tracks[d].phase = "pending"}
      Clears == {d \in ValueDefs(tag) : ~isConditionViolated(d, v) /\ Triggered(d) /\ isCleared(d, v)}
  IN
  /\ up /\ MuFree /\ pc[w] = "idle"
  /\ DefsOf(tag) # {}
  /\ IF life THEN recordGoodSample(tag, v) ELSE UNCHANGED healthVars
  /\ \E ref \in NewRefs(Opens) :
       /\ used' = used \cup {ref[d] : d \in Opens}
       /\ tracks' = [d \in Defs |->
            CASE d \in Fires          -> Fired(at, at, ref[d], NextRetry(at))
              [] d \in Opens \ Fires  -> Pending(at, ref[d])
              [] d \in Drops \cup Clears -> NoTrack
              [] OTHER                -> tracks[d]]
       /\ pendingIO' \in QueueIO(pendingIO,
            [d \in Fires \cup Clears |->
               IF d \in Fires THEN MakeIO(d, "ACTIVE", ref[d], at, TRUE) ELSE Clearing(d, TRUE)])
  /\ Goto(w, "drain")
  /\ UNCHANGED <<now, dbVars, up, definitions, ids, restored, ioDraining, act, loaded, batch, published>>

--------------------------------------------------------------------------------
(* EvaluateTagSeries: the lock is held from the first reading to the last. *)

SeriesBegin(w, tag) ==
  /\ "series" \in Env
  /\ up /\ MuFree /\ pc[w] = "idle"
  /\ DefsOf(tag) # {}
  /\ batch' = [tag |-> tag, at |-> 0, value |-> 0, read |-> 0,
               known |-> {d \in DefsOf(tag) : Triggered(d)}, firstIO |-> Len(pendingIO)]
  /\ Goto(w, "batch")
  /\ UNCHANGED <<now, dbVars, up, trackVars, ids, healthVars, drainVars, loaded, published>>

(* What is left of the queue when the actions of these pointers are taken  *)
(* out, in its order.                                                      *)
Without(queue, refs) ==
  LET kept == {i \in DOMAIN queue : queue[i].ref \notin refs}
      Increasing == {f \in [1..Cardinality(kept) -> kept] : \A i, j \in DOMAIN f : i < j => f[i] < f[j]}
  IN  {[i \in DOMAIN f |-> queue[f[i]]] : f \in Increasing}

(* seriesStep for every rule of the tag, on the next reading of the batch. *)
SeriesPoint(w, v, at) ==
  LET D      == ValueDefs(batch.tag)
      Opens  == {d \in D : isConditionViolated(d, v) /\ ~Tracking(d)}
      Since(d) == IF d \in Opens THEN at ELSE tracks[d].since
      Fires  == {d \in D : /\ isConditionViolated(d, v) /\ ~Triggered(d)
                           /\ at - Since(d) >= RuleOf[d].delay}
      Drops  == {d \in D : ~isConditionViolated(d, v) /\ tracks[d].phase = "pending"}
      Ends   == {d \in D : ~isConditionViolated(d, v) /\ Triggered(d) /\ isCleared(d, v)}
      Zero   == {d \in Ends : at <= tracks[d].firedAt}   \* a zero-duration occurrence
  IN
  /\ pc[w] = "batch"
  /\ batch.read < MaxBatch
  /\ at >= batch.at
  /\ \E new \in NewRefs(Opens), kept \in Without(pendingIO, {tracks[d].ref : d \in Zero}) :
       LET Ref(d) == IF d \in Opens THEN new[d] ELSE tracks[d].ref
           FiredAt(d) == Since(d) + RuleOf[d].delay
       IN
       /\ used' = used \cup {new[d] : d \in Opens}
       /\ tracks' = [d \in Defs |->
            CASE d \in Fires         -> Fired(Since(d), FiredAt(d), Ref(d), NextRetry(now))
              [] d \in Opens \ Fires -> Pending(at, new[d])
              [] d \in Drops \cup Ends -> NoTrack
              [] OTHER               -> tracks[d]]
       /\ pendingIO' \in QueueIO(kept,
            [d \in Fires \cup (Ends \ Zero) |->
               IF d \in Fires THEN MakeIO(d, "ACTIVE", Ref(d), FiredAt(d), FALSE)
                               ELSE Clearing(d, d \in batch.known)])
  /\ batch' = [batch EXCEPT !.at = at, !.value = v, !.read = @ + 1]
  /\ UNCHANGED <<now, dbVars, up, definitions, ids, restored, healthVars, ioDraining, act, pc, loaded, published>>

(* An alarm raised in the batch and still active at its end is news.  The  *)
(* newest reading is also the batch's sign of life.                        *)
SeriesEnd(w) ==
  /\ pc[w] = "batch" /\ batch.read > 0
  /\ pendingIO' = [i \in DOMAIN pendingIO |->
       LET io == pendingIO[i] IN
       IF /\ i > batch.firstIO /\ io.status = "ACTIVE"
          /\ RuleOf[io.def].tag = batch.tag
          /\ tracks[io.def].ref = io.ref
       THEN [io EXCEPT !.notify = TRUE] ELSE io]
  /\ recordGoodSample(batch.tag, batch.value)
  /\ batch' = NoBatch
  /\ Goto(w, "drain")
  /\ UNCHANGED <<now, dbVars, up, trackVars, ids, ioDraining, act, loaded, published>>

--------------------------------------------------------------------------------
(* Mutant: a frozen rule does not look at the silence. *)
HealthViolatedWhenMute(d) ==
  LET s == samples[RuleOf[d].tag]
  IN  IF RuleOf[d].type = "comm_loss"
      THEN now - s.lastGood >= healthTimeout(d)
      ELSE s.hasValue /\ anchors[d].kept /\ now - anchors[d].since >= healthTimeout(d)

(* The verdict of a health rule on the clock (tickHealth). *)
HealthViolated(d) ==
  LET s == samples[RuleOf[d].tag]
      silence == now - s.lastGood
  IN  CASE RuleOf[d].type = "comm_loss" -> silence >= healthTimeout(d)
        [] RuleOf[d].type = "frozen"    ->
             /\ s.hasValue /\ anchors[d].kept
             /\ silence <= healthTimeout(d)
             /\ now - anchors[d].since >= healthTimeout(d)

(* tickDelays: first the delays that ran out and the inserts to retry, in  *)
(* the order of the tracks, then the health rules (tickHealth, applyHealth *)
(* for each one whose tag has health state already).                       *)
tickDelays ==
  LET Fires   == {d \in Defs : tracks[d].phase = "pending" /\ now - tracks[d].since >= RuleOf[d].delay}
      Retries == {d \in Defs : Triggered(d) /\ ids[tracks[d].ref] = 0 /\ now >= tracks[d].retryAt}
      Judged  == {d \in definitions : isHealthAlarm(d) /\ samples[RuleOf[d].tag].kept}
      Raises  == {d \in Judged : HealthViolated(d) /\ ~Tracking(d)}
      Ends    == {d \in Judged : ~HealthViolated(d) /\ Tracking(d)}
      FiredAt(d) == tracks[d].since + RuleOf[d].delay
      delayIO == [d \in Fires \cup Retries |->
        IF d \in Fires THEN MakeIO(d, "ACTIVE", tracks[d].ref, FiredAt(d), TRUE) ELSE Retrying(d)]
  IN
  /\ up /\ MuFree /\ pc[Ticker] = "idle"
  /\ \E ref \in NewRefs(Raises) :
       /\ used' = used \cup {ref[d] : d \in Raises}
       /\ tracks' = [d \in Defs |->
            CASE d \in Fires         -> Fired(tracks[d].since, FiredAt(d), tracks[d].ref, NextRetry(now))
              [] d \in Retries \ Ends -> [tracks[d] EXCEPT !.retryAt = NextRetry(now)]
              [] d \in Raises        -> Fired(now, now, ref[d], NextRetry(now))
              [] d \in Ends          -> NoTrack
              [] OTHER               -> tracks[d]]
       /\ \E queue \in QueueIO(pendingIO, delayIO) :
            pendingIO' \in QueueIO(queue,
              [d \in Raises \cup Ends |->
                 IF d \in Raises THEN Raising(d, ref[d]) ELSE Clearing(d, TRUE)])
  /\ samples' = [t \in Tags |->
       IF t \in HealthTags(definitions) /\ ~samples[t].kept
       THEN [kept |-> TRUE, lastGood |-> now, hasValue |-> FALSE] ELSE samples[t]]
  /\ Goto(Ticker, "drain")
  /\ UNCHANGED <<now, dbVars, up, definitions, ids, restored, anchors, ioDraining, act, loaded, batch, published>>

--------------------------------------------------------------------------------
(* LoadDefinitions: the query runs without the lock, its result is applied *)
(* under it.  A query that fails leaves the old definitions in place.      *)

LoadQuery ==
  /\ up /\ reload /\ pc[Reloader] = "idle"
  /\ reload' = FALSE
  /\ \/ loaded' = dbDefs /\ Goto(Reloader, "loaded")
     \/ "query" \in Env /\ UNCHANGED <<loaded, pc>>
  /\ UNCHANGED <<now, rows, dbDefs, freshDefs, up, trackVars, ids, healthVars, drainVars, batch, published>>

(* A track whose rule is gone is dropped; one that had fired is cleared.   *)
(* pruneHealthState drops the health state that no rule needs any more.    *)
LoadApply ==
  LET Gone == {d \in Defs : Tracking(d) /\ d \notin loaded} IN
  /\ MuFree /\ pc[Reloader] = "loaded"
  /\ definitions' = loaded
  /\ samples' = [t \in Tags |-> IF t \in HealthTags(loaded) THEN samples[t] ELSE NoSample]
  /\ anchors' = [d \in Defs |->
       IF d \in loaded /\ RuleOf[d].type = "frozen" THEN anchors[d] ELSE NoAnchor]
  /\ tracks' = [d \in Defs |-> IF d \in Gone THEN NoTrack ELSE tracks[d]]
  /\ pendingIO' \in QueueIO(pendingIO, [d \in {e \in Gone : Triggered(e)} |-> Clearing(d, TRUE)])
  /\ loaded' = {}
  /\ Goto(Reloader, "drain")
  /\ UNCHANGED <<now, dbVars, up, used, restored, ids, ioDraining, act, batch, published>>

--------------------------------------------------------------------------------
(* drainIO and executeIO *)

(* Another goroutine drains: it will find the actions in the queue. *)
DrainBusy(c) ==
  /\ MuFree /\ pc[c] = "drain" /\ ioDraining
  /\ Goto(c, "idle")
  /\ UNCHANGED <<now, dbVars, up, trackVars, ids, healthVars, drainVars, loaded, batch, published>>

(* Mutant: drainIO without its flag. *)
AtQueueUnflagged(c) == pc[c] \in {"loop", "drain"}

(* A goroutine that may look at the queue: it drains, or nobody does. *)
AtQueue(c) == pc[c] = "loop" \/ (pc[c] = "drain" /\ ~ioDraining)

(* Mutant: the drainer clears the flag without looking again. *)
NothingQueuedUnchecked == TRUE

(* The drainer leaves only after it looked at the queue under the lock. *)
NothingQueued == pendingIO = <<>>

DrainTake(c) ==
  /\ MuFree /\ AtQueue(c) /\ pendingIO # <<>>
  /\ ioDraining' = TRUE
  /\ act' = [act EXCEPT ![c] = Head(pendingIO)]
  /\ pendingIO' = Tail(pendingIO)
  /\ Goto(c, "exec")
  /\ UNCHANGED <<now, dbVars, up, trackVars, ids, healthVars, loaded, batch, published>>

DrainDone(c) ==
  /\ MuFree /\ AtQueue(c) /\ NothingQueued
  /\ ioDraining' = FALSE
  /\ act' = [act EXCEPT ![c] = NoIO]
  /\ Goto(c, "idle")
  /\ UNCHANGED <<now, dbVars, up, trackVars, ids, healthVars, pendingIO, loaded, batch, published>>

(* How a statement ends: "fail" has no effect, "lost" has its effect but   *)
(* the driver sees an error (a timeout, a connection that breaks after the *)
(* commit).  A definition deleted meanwhile breaks the foreign key.        *)
InsertOutcomes(d) == IF d \in dbDefs THEN {"ok"} \cup (Env \cap {"fail", "lost"}) ELSE {"fail"}

UpdateOutcomes == {"ok"} \cup (Env \cap {"fail", "lost"})

(* Mutant: an alarm whose row could not be written is not announced. *)
PersistedOrSilent(c) == Goto(c, IF act[c].notify /\ ids'[act[c].ref] > 0 THEN "notify" ELSE "loop")

(* Where executeIO goes after the write. *)
Persisted(c) == Goto(c, IF act[c].notify THEN "notify" ELSE "loop")

(* persistActive.  The store of the new id under the lock is one step with *)
(* the commit: what reads ids in between could as well run before it.      *)
PersistActive(c) ==
  LET io == act[c] IN
  /\ MuFree /\ pc[c] = "exec" /\ io.status = "ACTIVE"
  /\ \/ ids[io.ref] > 0 /\ UNCHANGED <<rows, ids>>
     \/ /\ ids[io.ref] = 0
        /\ \E o \in InsertOutcomes(io.def), id \in InsertActiveIds(rows, io.def) :
             /\ rows' = IF o = "fail" THEN rows ELSE InsertActive(rows, io.def, io.trig)
             /\ ids' = IF o = "ok" THEN [ids EXCEPT ![io.ref] = id] ELSE ids
  /\ Persisted(c)
  /\ UNCHANGED <<now, dbDefs, freshDefs, reload, up, trackVars, healthVars, drainVars, loaded, batch, published>>

(* persistCleared: an error of either statement is logged and nothing else. *)
PersistCleared(c) ==
  LET io == act[c] IN
  /\ MuFree /\ pc[c] = "exec" /\ io.status = "CLEARED"
  /\ \/ /\ ids[io.ref] > 0
        /\ \E o \in UpdateOutcomes : rows' = IF o = "fail" THEN rows ELSE MarkCleared(rows, ids[io.ref])
        /\ UNCHANGED ids
     \/ /\ ids[io.ref] = 0
        /\ \E o \in InsertOutcomes(io.def), id \in InsertClearedIds(rows, io.def, io.trig) :
             /\ rows' = IF o = "fail" THEN rows ELSE InsertCleared(rows, io.def, io.trig)
             /\ ids' = IF o = "ok" THEN [ids EXCEPT ![io.ref] = id] ELSE ids
  /\ Persisted(c)
  /\ UNCHANGED <<now, dbDefs, freshDefs, reload, up, trackVars, healthVars, drainVars, loaded, batch, published>>

(* The OnAlarmEvent callback: the event a driver puts on sys/alarms. *)
Notify(c) ==
  /\ MuFree /\ pc[c] = "notify"
  /\ published' = Append(published, [ref |-> act[c].ref, def |-> act[c].def,
                                     status |-> act[c].status, id |-> ids[act[c].ref], at |-> now])
  /\ Goto(c, "loop")
  /\ UNCHANGED <<now, dbVars, up, trackVars, ids, healthVars, drainVars, loaded, batch>>

--------------------------------------------------------------------------------
(* The process dies with everything it kept in memory, and starts again.   *)

Crash ==
  /\ "crash" \in Env /\ up
  /\ up' = FALSE
  /\ definitions' = {} /\ loaded' = {}
  /\ tracks' = [d \in Defs |-> NoTrack]
  /\ samples' = [t \in Tags |-> NoSample] /\ anchors' = [d \in Defs |-> NoAnchor]
  /\ pendingIO' = <<>> /\ ioDraining' = FALSE
  /\ pc' = [c \in Callers |-> "idle"] /\ act' = [c \in Callers |-> NoIO]
  /\ batch' = NoBatch
  /\ reload' = FALSE
  /\ UNCHANGED <<now, rows, dbDefs, freshDefs, ids, used, restored, published>>

(* Mutant: a start takes up no row. *)
NoRestorableRows(d) == {}

(* The rows a start takes up again for a definition. *)
RestorableRows(d) == {i \in DOMAIN rows : rows[i].def = d /\ rows[i].status = "ACTIVE"}

(* NewManager: LoadDefinitions, then loadActiveAlarmsFromDB, which takes   *)
(* up the rows in status ACTIVE of the definitions it loaded (the last row *)
(* the query returns, if a definition has several).  Either query can      *)
(* fail; the manager starts without what it would have read.               *)
NewManager ==
  /\ ~up
  /\ up' = TRUE
  /\ definitions' \in {dbDefs} \cup (IF "query" \in Env THEN {{}} ELSE {})
  /\ \E D \in {{d \in definitions' : RestorableRows(d) # {}}}
               \cup (IF "query" \in Env THEN {{}} ELSE {}) :
     \E ref \in NewRefs(D), row \in [D -> DOMAIN rows] :
       /\ \A d \in D : row[d] \in RestorableRows(d)
       /\ tracks' = [d \in Defs |->
            IF d \in D THEN Fired(rows[row[d]].trig, rows[row[d]].trig, ref[d], 0) ELSE NoTrack]
       /\ ids' = [r \in Refs |-> IF \E d \in D : ref[d] = r THEN row[CHOOSE d \in D : ref[d] = r] ELSE ids[r]]
       /\ used' = used \cup {ref[d] : d \in D}
       /\ restored' = restored \cup {ref[d] : d \in D}
  /\ UNCHANGED <<now, dbVars, healthVars, drainVars, pc, loaded, batch, published>>

--------------------------------------------------------------------------------
(* The operator, through core-api's HTTP handlers. *)

(* SaveTagAlarmConfig: in one transaction the tag's open events are closed *)
(* and its definitions replaced by new ones with new ids; then the reload  *)
(* command goes out, which is lost on a driver that is down.               *)
SaveTagAlarmConfig(tag, new) ==
  LET old == {d \in Defs : RuleOf[d].tag = tag} IN
  /\ "save" \in Env
  /\ new \subseteq freshDefs \cap old
  /\ rows' = ClearOpen(rows, old)
  /\ dbDefs' = (dbDefs \ old) \cup new
  /\ freshDefs' = freshDefs \ new
  /\ reload' = up
  /\ UNCHANGED <<now, up, trackVars, ids, healthVars, drainVars, pc, loaded, batch, published>>

AcknowledgeAlarm(id) ==
  /\ "ack" \in Env
  /\ rows[id].status = "ACTIVE"
  /\ rows' = Acknowledge(rows, id)
  /\ UNCHANGED <<now, dbDefs, freshDefs, reload, up, trackVars, ids, healthVars, drainVars, pc, loaded, batch, published>>

AdvanceClock ==
  /\ now < MaxTime
  /\ now' = now + 1
  /\ UNCHANGED <<dbVars, up, trackVars, ids, healthVars, drainVars, pc, loaded, batch, published>>

--------------------------------------------------------------------------------
Init ==
  /\ now = 0
  /\ rows = <<>> /\ dbDefs = InitialDefs /\ freshDefs = Defs \ InitialDefs /\ reload = FALSE
  /\ up = TRUE
  /\ definitions = InitialDefs
  /\ tracks = [d \in Defs |-> NoTrack]
  /\ ids = [r \in Refs |-> 0] /\ used = {} /\ restored = {}
  /\ samples = [t \in Tags |-> NoSample] /\ anchors = [d \in Defs |-> NoAnchor]
  /\ pendingIO = <<>> /\ ioDraining = FALSE
  /\ pc = [c \in Callers |-> "idle"] /\ act = [c \in Callers |-> NoIO]
  /\ loaded = {} /\ batch = NoBatch
  /\ published = <<>>

BatchStep(w) == (\E v \in Values, at \in ReadingTimes : SeriesPoint(w, v, at)) \/ SeriesEnd(w)

WorkerStep(w) ==
  \/ \E tag \in Tags, v \in Values, at \in ReadingTimes, life \in BOOLEAN : evaluateAt(w, tag, v, at, life)
  \/ \E tag \in Tags : SeriesBegin(w, tag)
  \/ BatchStep(w)

DrainStep(c) ==
  DrainBusy(c) \/ DrainTake(c) \/ DrainDone(c) \/ PersistActive(c) \/ PersistCleared(c) \/ Notify(c)

ManagerNext ==
  \/ \E w \in Workers : WorkerStep(w)
  \/ tickDelays
  \/ LoadQuery \/ LoadApply
  \/ \E c \in Callers : DrainStep(c)
  \/ Crash \/ NewManager

OperatorNext ==
  \/ \E tag \in Tags, new \in SUBSET Defs : SaveTagAlarmConfig(tag, new)
  \/ \E id \in DOMAIN rows : AcknowledgeAlarm(id)

Next == ManagerNext \/ OperatorNext \/ AdvanceClock

Spec == Init /\ [][Next]_vars

(* The goroutine that drains is scheduled, every statement it waits for    *)
(* ends within alarmDBTimeout, and sync.Mutex lets no goroutine starve     *)
(* behind those that take the lock over and over (strong fairness); a      *)
(* batch that holds the lock runs to its end.                              *)
FairSpec ==
  /\ Spec
  /\ \A c \in Callers : SF_vars(DrainStep(c))
  /\ \A w \in Workers : WF_vars(BatchStep(w))
  /\ WF_vars(LoadApply)

--------------------------------------------------------------------------------
(* Safety *)

Draining(c) == pc[c] \in {"exec", "notify", "loop"}

(* drainIO's flag admits one goroutine at a time to the queue, and is set  *)
(* exactly while one is there: two would let the CLEARED write of an alarm *)
(* overtake its ACTIVE write.                                              *)
SingleDrainer ==
  /\ \A c, e \in Callers : Draining(c) /\ Draining(e) => c = e
  /\ ioDraining <=> \E c \in Callers : Draining(c)

(* drainIO: "there is no window in which work is left stranded" - whenever *)
(* the queue holds an action, some goroutine is on its way to it.          *)
NoStrandedIO ==
  pendingIO # <<>> => \E c \in Callers : Draining(c) \/ pc[c] \in {"drain", "batch"}

(* Nobody is told of an alarm twice, nor of the end of one he was not told *)
(* of (but for an alarm the manager found in the table when it started),   *)
(* nor of its end before its start - whatever is retried, cleared while    *)
(* its row is being written, or dropped by a reload.                       *)
AnnouncedInOrder ==
  \A j \in DOMAIN published :
    LET earlier == {i \in 1..(j - 1) : published[i].ref = published[j].ref}
    IN  /\ \A i \in earlier : published[i].status = "ACTIVE" /\ published[j].status = "CLEARED"
        /\ published[j].status = "CLEARED" => earlier # {} \/ published[j].ref \in restored

(* InsertActive: at most one open row per (tag, definition), across failed *)
(* and lost inserts, their retries, restarts and new occurrences.          *)
OneOpenRow == \A d \in Defs : \A i, j \in OpenRows(rows, d) : i = j

(* The actions decided and not yet executed. *)
Outstanding == ToSet(pendingIO) \cup {act[c] : c \in {e \in Callers : pc[e] \in {"exec", "notify"}}}

(* A fired alarm has been notified, or its notification is outstanding     *)
(* (outside a batch, which settles its notifications at its end).          *)
FiredIsAnnounced ==
  MuFree => \A d \in Defs :
    Triggered(d) /\ tracks[d].ref \notin restored =>
      \/ \E i \in DOMAIN published : published[i].ref = tracks[d].ref
      \/ \E io \in Outstanding : io.ref = tracks[d].ref /\ io.status = "ACTIVE" /\ io.notify

(* eventRef: every open row of a running driver is still going to be       *)
(* closed - its track is there, fired, with the row's id or none yet, or   *)
(* the action that closes it is outstanding.                               *)
NoOrphanRow ==
  up => \A d \in Defs : \A i \in OpenRows(rows, d) :
    \/ Triggered(d) /\ ids[tracks[d].ref] \in {0, i}
    \/ \E io \in Outstanding : io.status = "CLEARED" /\ ids[io.ref] = i

(* tickHealth: a mute tag is not also reported frozen. *)
MuteIsNotFrozen ==
  \A d, e \in Defs : ~( /\ RuleOf[d].tag = RuleOf[e].tag
                        /\ RuleOf[d].type = "comm_loss" /\ RuleOf[e].type = "frozen"
                        /\ Triggered(d) /\ Triggered(e) )

--------------------------------------------------------------------------------
(* Liveness *)

(* Whatever is queued is executed, unless the process dies first. *)
QueueDrains == pendingIO # <<>> ~> (pendingIO = <<>> \/ ~up)
================================================================================
