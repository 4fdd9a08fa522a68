----------------------------- MODULE Telemetry -----------------------------
(***************************************************************************)
(* The way of a sample from the broker to the screens and to tag_history:  *)
(* engine-historian (services/engine-historian) and core-api's live data   *)
(* (services/core-api/main.go).  The two are separate processes with a     *)
(* subscription each; both write the Redis key realtime:{tag}, with a read *)
(* and a later write that nothing makes one step.                          *)
(*                                                                         *)
(* Each process takes its messages one after the other: paho calls the     *)
(* handlers in order, on one goroutine.  The historian has a persistent    *)
(* session: the message it is working on is not acknowledged and comes     *)
(* back after a crash.  core-api has a clean session: a restart loses what *)
(* was queued and the broker sends it the retained samples again.          *)
(*                                                                         *)
(* Every Redis or PostgreSQL call whose result another process can change, *)
(* or a crash can come after, is a step of its own.  Left out: the copy to *)
(* the cloud broker, the Pub/Sub broadcast to the WebSockets, the InfluxDB *)
(* copy (see InfluxBuffer), system_events (a log nothing here reads), the  *)
(* minute-long cache of the tag rows.  The samples of one tag have         *)
(* different times; a driver sends one of them at most once.               *)
(***************************************************************************)
EXTENDS Integers, Sequences, FiniteSets, SequencesExt

CONSTANTS
  Tags,        \* the tags of one gateway
  Historized,  \* the tags with historize on
  Values,      \* numbers a driver can read
  Null,        \* JSON null, and the NULL of a gap row
  None,        \* a Redis key that is not there
  Deadband,    \* historize_deadband of the tags
  Floor,       \* the 30 s after which an unmoved value is stored again
  Times,       \* the instants at which samples are taken
  MaxLate,     \* bound on samples sent after a newer one
  MaxHealth,   \* bound on health changes and device deaths
  MaxFaults,   \* bound on crashes, restarts and refused queries
  MaxResent,   \* bound on messages whose acknowledgement was lost
  Plans        \* deployments: [mode, env], the publish_mode of the gateway and which of "bad",
               \* "null", "offline", "crash", "restart", "redeliver", "fail" happen there;
               \* "retain": the driver is driver-mqtt with retain_last_values on

ASSUME TelemetryAssumption ==
  /\ Historized \subseteq Tags /\ IsFiniteSet(Tags)
  /\ Values \subseteq Int /\ Null \notin Values
  /\ Deadband \in Nat /\ Floor \in Nat
  /\ \A p \in Plans : p.mode \in {"legacy", "sparkplug", "dual"}
  /\ MaxLate \in Nat /\ MaxHealth \in Nat /\ MaxFaults \in Nat /\ MaxResent \in Nat

Good == 0
Bad == 2

Sample == [tag : Tags, v : Values \cup {Null}, ts : Times, q : {Good, Bad}]
Row == [tag : Tags, ts : Times, v : Values \cup {Null}, by : {"sample", "marker"}]
Status == {"online", "offline", "error"}
Message ==
  [kind : {"data", "ddata"}, sample : Sample] \cup [kind : {"health"}, status : Status]
    \cup [kind : {"ddeath"}]

ASSUME TimesAssumption == Times \subseteq Nat

\* No key is not a value of a key.
ASSUME NoneAssumption == None \notin Sample /\ None \notin Times

VARIABLES
  plan,      \* the deployment at hand
  clock,
  emitted,   \* samples the driver has sent
  lates,     \* how many of them were sent after a newer one of the same tag
  health,    \* how many health changes and deaths there were
  retained,  \* the retained sample of each tag's data topic
  status,    \* the retained message of the health topic
  hq, cq,    \* what the broker holds for the historian and for core-api
  realtime,  \* Redis realtime:{tag}
  shadow,    \* Redis tag_shadow:{tag}
  prev,      \* Redis prev_value:{tag}
  last,      \* Redis last_store:{tag}
  rows,      \* tag_history, in the order of its inserts
  tracked,   \* deviceTagMap of the historian
  h,         \* the historian's handler: [pc, marks, seen]: the tags to
             \* mark, and what Redis said of the one at hand
  c,         \* core-api's handler
  answered,  \* samples the historian has stored, left out or dropped (history)
  lost,      \* those of them it dropped (history)
  silent,    \* those of these that no line of its log speaks of (history)
  faults, resent

driverVars == <<plan, clock, emitted, lates, health, retained, status>>
liveVars == <<realtime, shadow>>
storeVars == <<prev, last, rows>>
answerVars == <<answered, lost, silent>>
vars == <<driverVars, hq, cq, liveVars, storeVars, tracked, h, c, answerVars, faults, resent>>

Idle == [pc |-> "idle", marks |-> {}, seen |-> None]

HPc == {"idle", "get", "set", "decide", "save", "prev", "last", "mark", "markset", "marker", "ack"}
CPc == {"idle", "set", "shadow"}

(* One type invariant: the queues hold messages, Redis holds samples. *)
TypeOK ==
  /\ plan \in Plans
  /\ clock \in Times /\ emitted \subseteq Sample
  /\ lates \in 0..MaxLate /\ health \in 0..MaxHealth /\ faults \in 0..MaxFaults /\ resent \in 0..MaxResent
  /\ retained \in [Tags -> Sample \cup {None}] /\ status \in Status
  /\ hq \in Seq(Message) /\ cq \in Seq(Sample)
  /\ realtime \in [Tags -> Sample \cup {None}] /\ shadow \in [Tags -> Sample \cup {None}]
  /\ prev \in [Tags -> Sample \cup {None}] /\ last \in [Tags -> Times \cup {None}]
  /\ rows \in Seq(Row)
  /\ tracked \subseteq Tags
  /\ h \in [pc : HPc, marks : SUBSET Tags, seen : Sample \cup {None}] /\ c \in CPc
  /\ answered \subseteq emitted /\ lost \subseteq answered /\ silent \subseteq lost

Init ==
  /\ plan \in Plans
  /\ clock \in Times /\ \A t \in Times : clock <= t
  /\ emitted = {} /\ lates = 0 /\ health = 0
  /\ retained = [t \in Tags |-> None] /\ status = "online"
  /\ hq = <<>> /\ cq = <<>>
  /\ realtime = [t \in Tags |-> None] /\ shadow = [t \in Tags |-> None]
  /\ prev = [t \in Tags |-> None] /\ last = [t \in Tags |-> None]
  /\ rows = <<>> /\ tracked = {}
  /\ h = Idle /\ c = "idle"
  /\ answered = {} /\ lost = {} /\ silent = {} /\ faults = 0 /\ resent = 0

-----------------------------------------------------------------------------
(* The driver and the broker. *)

Tick ==
  /\ clock' \in {t \in Times : clock < t}
  /\ UNCHANGED <<plan, emitted, lates, health, retained, status, hq, cq, liveVars, storeVars,
                 tracked, h, c, answerVars, faults, resent>>

\* What one sample becomes on the broker, and who gets it: core-api reads the
\* legacy topic only, a protobuf DDATA is not the JSON it expects.
LegacyOut(s) == IF plan.mode = "sparkplug" THEN <<>> ELSE <<[kind |-> "data", sample |-> s]>>
SparkplugOut(s) == IF plan.mode = "legacy" THEN <<>> ELSE <<[kind |-> "ddata", sample |-> s]>>

\* publishDual.  A driver that reads GOOD values says it is online.
Publish(s) ==
  LET late == \E o \in emitted : o.tag = s.tag /\ o.ts > s.ts
  IN
  /\ ~\E o \in emitted : o.tag = s.tag /\ o.ts = s.ts
  /\ s.ts <= clock
  /\ IF s.q = Good THEN status = "online" ELSE "bad" \in plan.env
  /\ s.v = Null => s.q = Bad /\ "null" \in plan.env
  /\ late => lates < MaxLate
  /\ late \/ s.ts = clock
  /\ lates' = IF late THEN lates + 1 ELSE lates
  /\ emitted' = emitted \cup {s}
  /\ hq' = hq \o LegacyOut(s) \o SparkplugOut(s)
  /\ cq' = IF plan.mode = "sparkplug" THEN cq ELSE Append(cq, s)
  /\ retained' = IF "retain" \in plan.env /\ plan.mode # "sparkplug" THEN [retained EXCEPT ![s.tag] = s] ELSE retained
  /\ UNCHANGED <<plan, clock, health, status, liveVars, storeVars, tracked, h, c, answerVars, faults, resent>>

\* The retained health topic changes: a driver's own word or its will.
HealthChange ==
  /\ "offline" \in plan.env
  /\ health < MaxHealth
  /\ \E st \in Status \ {status} :
       /\ status' = st
       /\ hq' = Append(hq, [kind |-> "health", status |-> st])
  /\ health' = health + 1
  /\ UNCHANGED <<plan, clock, emitted, lates, retained, cq, liveVars, storeVars, tracked, h, c,
                 answerVars, faults, resent>>

\* DDEATH of the device, or NDEATH of its node.
DeviceDeath ==
  /\ "offline" \in plan.env /\ plan.mode # "legacy"
  /\ health < MaxHealth
  /\ hq' = Append(hq, [kind |-> "ddeath"])
  /\ health' = health + 1
  /\ UNCHANGED <<plan, clock, emitted, lates, retained, status, cq, liveVars, storeVars, tracked, h, c,
                 answerVars, faults, resent>>

Fail == "fail" \in plan.env /\ faults < MaxFaults
Faulty(failed) == faults' = IF failed THEN faults + 1 ELSE faults

-----------------------------------------------------------------------------
(* engine-historian. *)

Busy(pc) == h.pc = pc /\ hq # <<>>
Current == Head(hq).sample

\* A sample is answered once; a redelivery does not answer it again.
Answer == answered' = answered \cup {Current}

\* getTagInfoByAlias failed for the metric of a DDATA: "skip silently".
SkipsSilently == Head(hq).kind = "ddata"

\* handleDataMessage, handleSparkplugMessage: the topic and the payload are
\* read, the tag is looked up, and a DDATA is remembered for its device.
HandleData ==
  /\ Busy("idle") /\ Head(hq).kind \in {"data", "ddata"}
  /\ \/ /\ h' = [h EXCEPT !.pc = "get"]
        /\ tracked' = IF Head(hq).kind = "ddata" THEN tracked \cup {Current.tag} ELSE tracked
        /\ Faulty(FALSE)
        /\ UNCHANGED answerVars
     \/ /\ Fail /\ Faulty(TRUE)
        /\ h' = [h EXCEPT !.pc = "ack"]
        /\ Answer
        /\ lost' = IF Current \in answered THEN lost ELSE lost \cup {Current}
        /\ silent' = IF SkipsSilently /\ Current \notin answered THEN silent \cup {Current} ELSE silent
        /\ UNCHANGED tracked
  /\ UNCHANGED <<driverVars, hq, cq, liveVars, storeVars, c, resent>>

(* Mutant: a sample with the time of the one in Redis counts as older. *)
OlderOrSame(s, cur) == cur # None /\ cur.ts >= s.ts

\* A sample is older than what Redis holds (storeRealtimeValue, olderThanStored).
Older(s, cur) == cur # None /\ cur.ts > s.ts

\* storeRealtimeValue: the read ...
StoreRealtimeGet ==
  /\ Busy("get")
  /\ h' = [h EXCEPT !.pc = IF Older(Current, realtime[Current.tag]) THEN "decide" ELSE "set"]
  /\ UNCHANGED <<driverVars, hq, cq, liveVars, storeVars, tracked, c, answerVars, faults, resent>>

\* ... and the write.
StoreRealtimeSet ==
  /\ Busy("set")
  /\ realtime' = [realtime EXCEPT ![Current.tag] = Current]
  /\ h' = [h EXCEPT !.pc = "decide"]
  /\ UNCHANGED <<driverVars, hq, cq, shadow, storeVars, tracked, c, answerVars, faults, resent>>

HasSampleAt(tag, ts) == \E i \in 1..Len(rows) : rows[i].tag = tag /\ rows[i].ts = ts

\* exceedsDeadband and hasValueChanged, on numbers.
Exceeds(a, b) ==
  IF Deadband = 0 THEN a # b ELSE a - b >= Deadband \/ b - a >= Deadband

(* Mutant: a late sample is stored without a look at tag_history. *)
LateAlwaysStored(s, noRow) ==
  \/ s.q > Good
  \/ last[s.tag] # None /\ s.ts < last[s.tag]
  \/ prev[s.tag] = None
  \/ prev[s.tag] # None /\ (prev[s.tag].q # s.q \/ Exceeds(prev[s.tag].v, s.v))
  \/ last[s.tag] = None
  \/ last[s.tag] # None /\ s.ts - last[s.tag] > Floor

\* shouldStoreValueAt.  noRow: the query for the row failed and reads as "no".
ShouldStoreValueAt(s, noRow) ==
  LET l == last[s.tag]
      p == prev[s.tag]
  IN
  \/ s.q > Good
  \/ IF l # None /\ s.ts < l
     THEN noRow \/ ~HasSampleAt(s.tag, s.ts)
     ELSE \/ p = None
          \/ p # None /\ p.q # s.q
          \/ p # None /\ Exceeds(p.v, s.v)
          \/ l = None
          \/ l # None /\ s.ts - l > Floor

\* historianFloat: JSON null is not a number.
HistorianFloat(v) == v # Null

Decide ==
  /\ Busy("decide")
  /\ \E noRow \in {FALSE} \cup (IF Fail THEN {TRUE} ELSE {}) :
       LET kept == Current.tag \in Historized /\ ShouldStoreValueAt(Current, noRow)
           stored == kept /\ HistorianFloat(Current.v)
       IN
       /\ Faulty(noRow)
       /\ h' = [h EXCEPT !.pc = IF stored THEN "save" ELSE "ack"]
       /\ IF stored THEN UNCHANGED answered ELSE Answer
       /\ lost' = IF kept /\ ~stored /\ Current \notin answered THEN lost \cup {Current} ELSE lost
  /\ UNCHANGED <<driverVars, hq, cq, liveVars, storeVars, tracked, c, silent, resent>>

\* A sample that is not GOOD becomes a NULL row at its own time.
RowOf(s) == [tag |-> s.tag, ts |-> s.ts, v |-> IF s.q > Good THEN Null ELSE s.v, by |-> "sample"]

(* Mutant: the baseline moves although the insert was refused. *)
BaselineMovesAnyway ==
  /\ Busy("save")
  /\ Answer
  /\ h' = [h EXCEPT !.pc = "prev"]
  /\ \/ rows' = Append(rows, RowOf(Current)) /\ Faulty(FALSE) /\ UNCHANGED lost
     \/ Fail /\ Faulty(TRUE) /\ lost' = lost \cup {Current} /\ UNCHANGED rows
  /\ UNCHANGED <<driverVars, hq, cq, liveVars, prev, last, tracked, c, silent, resent>>

\* saveToPostgreSQL: a refused insert ends the handling, and the baseline stays.
SaveToPostgreSQL ==
  /\ Busy("save")
  /\ Answer
  /\ \/ /\ rows' = Append(rows, RowOf(Current))
        /\ h' = [h EXCEPT !.pc = "prev"]
        /\ Faulty(FALSE)
        /\ UNCHANGED lost
     \/ /\ Fail /\ Faulty(TRUE)
        /\ h' = [h EXCEPT !.pc = "ack"]
        /\ lost' = IF Current \in answered THEN lost ELSE lost \cup {Current}
        /\ UNCHANGED rows
  /\ UNCHANGED <<driverVars, hq, cq, liveVars, prev, last, tracked, c, silent, resent>>

\* storePreviousValueAt: an older sample leaves the baseline; two writes.
StorePreviousValue ==
  /\ Busy("prev")
  /\ IF last[Current.tag] # None /\ Current.ts < last[Current.tag]
     THEN h' = [h EXCEPT !.pc = "ack"] /\ UNCHANGED prev
     ELSE h' = [h EXCEPT !.pc = "last"] /\ prev' = [prev EXCEPT ![Current.tag] = Current]
  /\ UNCHANGED <<driverVars, hq, cq, liveVars, last, rows, tracked, c, answerVars, faults, resent>>

StoreLastTime ==
  /\ Busy("last")
  /\ last' = [last EXCEPT ![Current.tag] = Current.ts]
  /\ h' = [h EXCEPT !.pc = "ack"]
  /\ UNCHANGED <<driverVars, hq, cq, liveVars, prev, rows, tracked, c, answerVars, faults, resent>>

\* handleHealthMessage: a gateway that is off or in error marks all its tags,
\* unless the gateway or its tags cannot be read.
HandleHealth ==
  /\ Busy("idle") /\ Head(hq).kind = "health"
  /\ \E failed \in {FALSE} \cup (IF Fail THEN {TRUE} ELSE {}) :
       LET marks == IF failed \/ Head(hq).status = "online" THEN {} ELSE Tags
       IN /\ h' = [h EXCEPT !.pc = IF marks = {} THEN "ack" ELSE "mark", !.marks = marks]
          /\ Faulty(failed)
  /\ UNCHANGED <<driverVars, hq, cq, liveVars, storeVars, tracked, c, answerVars, resent>>

\* markDeviceTagsOffline, markNodeTagsOffline: the tags this process has seen.
HandleDeath ==
  /\ Busy("idle") /\ Head(hq).kind = "ddeath"
  /\ h' = [h EXCEPT !.pc = IF tracked = {} THEN "ack" ELSE "mark", !.marks = tracked]
  /\ UNCHANGED <<driverVars, hq, cq, liveVars, storeVars, tracked, c, answerVars, faults, resent>>

Marked == CHOOSE t \in h.marks : TRUE
AfterMark == [h EXCEPT !.pc = IF h.marks = {Marked} THEN "ack" ELSE "mark",
                       !.marks = h.marks \ {Marked}, !.seen = None]

\* markTagOffline: the read.  A tag with no value in Redis goes straight to the
\* marker.
MarkTagGet ==
  /\ Busy("mark")
  /\ h' = [h EXCEPT !.pc = IF realtime[Marked] = None THEN "marker" ELSE "markset",
                    !.seen = realtime[Marked]]
  /\ UNCHANGED <<driverVars, hq, cq, liveVars, storeVars, tracked, c, answerVars, faults, resent>>

\* The write of what was read, as BAD, under the time of the last reading; a tag
\* that was BAD already gets no marker.
MarkTagSet ==
  /\ Busy("markset")
  /\ realtime' = [realtime EXCEPT ![Marked] = [h.seen EXCEPT !.q = Bad]]
  /\ h' = IF h.seen.q > Good THEN AfterMark ELSE [h EXCEPT !.pc = "marker"]
  /\ UNCHANGED <<driverVars, hq, cq, shadow, storeVars, tracked, c, answerVars, faults, resent>>

\* The NULL row at NOW(); a refused insert is logged and forgotten.
MarkTagRow ==
  /\ Busy("marker")
  /\ \/ /\ rows' = Append(rows, [tag |-> Marked, ts |-> clock, v |-> Null, by |-> "marker"])
        /\ Faulty(FALSE)
     \/ /\ Fail /\ Faulty(TRUE)
        /\ UNCHANGED rows
  /\ h' = AfterMark
  /\ UNCHANGED <<driverVars, hq, cq, liveVars, prev, last, tracked, c, answerVars, resent>>

\* The handler returns and the message is acknowledged; when the link breaks
\* before the PUBACK the broker sends it again.
Acknowledge ==
  /\ Busy("ack")
  /\ h' = Idle
  /\ \/ hq' = Tail(hq) /\ UNCHANGED resent
     \/ "redeliver" \in plan.env /\ resent < MaxResent /\ resent' = resent + 1 /\ UNCHANGED hq
  /\ UNCHANGED <<driverVars, cq, liveVars, storeVars, tracked, c, answerVars, faults>>

\* What a subscriber is sent when it subscribes.
RetainedSamples == SetToSeq({retained[t] : t \in Tags} \ {None})
RetainedData == [i \in 1..Len(RetainedSamples) |-> [kind |-> "data", sample |-> RetainedSamples[i]]]

\* The process dies and starts: its session kept the queue, the message it was
\* working on included; subscribing again brings the retained samples, then the
\* retained health.
HistorianCrash ==
  /\ "crash" \in plan.env /\ faults < MaxFaults
  /\ faults' = faults + 1
  /\ h' = Idle
  /\ tracked' = {}
  /\ hq' = hq \o RetainedData \o <<[kind |-> "health", status |-> status]>>
  /\ UNCHANGED <<driverVars, cq, liveVars, storeVars, c, answerVars, resent>>

-----------------------------------------------------------------------------
(* core-api. *)

\* handleDataUpdate up to olderThanStored.
HandleDataUpdate ==
  /\ c = "idle" /\ cq # <<>>
  /\ IF Older(Head(cq), realtime[Head(cq).tag])
     THEN c' = "idle" /\ cq' = Tail(cq)
     ELSE c' = "set" /\ UNCHANGED cq
  /\ UNCHANGED <<driverVars, hq, liveVars, storeVars, tracked, h, answerVars, faults, resent>>

UpdateRealtime ==
  /\ c = "set"
  /\ realtime' = [realtime EXCEPT ![Head(cq).tag] = Head(cq)]
  /\ c' = "shadow"
  /\ UNCHANGED <<driverVars, hq, cq, shadow, storeVars, tracked, h, answerVars, faults, resent>>

UpdateShadow ==
  /\ c = "shadow"
  /\ shadow' = [shadow EXCEPT ![Head(cq).tag] = Head(cq)]
  /\ c' = "idle" /\ cq' = Tail(cq)
  /\ UNCHANGED <<driverVars, hq, realtime, storeVars, tracked, h, answerVars, faults, resent>>

\* A clean session: what was queued is gone, the retained samples come.
ApiRestart ==
  /\ "restart" \in plan.env /\ faults < MaxFaults
  /\ faults' = faults + 1
  /\ c' = "idle"
  /\ cq' = RetainedSamples
  /\ UNCHANGED <<driverVars, hq, liveVars, storeVars, tracked, h, answerVars, resent>>

-----------------------------------------------------------------------------
Driver ==
  \/ Tick
  \/ \E s \in Sample : Publish(s)
  \/ HealthChange
  \/ DeviceDeath

Historian ==
  \/ HandleData \/ StoreRealtimeGet \/ StoreRealtimeSet \/ Decide
  \/ SaveToPostgreSQL \/ StorePreviousValue \/ StoreLastTime
  \/ HandleHealth \/ HandleDeath \/ MarkTagGet \/ MarkTagSet \/ MarkTagRow
  \/ Acknowledge

CoreApi == HandleDataUpdate \/ UpdateRealtime \/ UpdateShadow

Next == Driver \/ Historian \/ HistorianCrash \/ CoreApi \/ ApiRestart

Spec == Init /\ [][Next]_vars

-----------------------------------------------------------------------------
(* The historian answers every sample: it is recorded, or a recorded sample    *)
(* stands for it, or it was dropped, with an error in the log or as the metric *)
(* of a DDATA whose tag was not found.                                         *)
Log == INSTANCE SampleLog WITH
  Samples <- Sample,
  mortal <- "crash" \in plan.env,
  quiet <- plan.mode # "legacy",
  published <- {s \in emitted : s.tag \in Historized},
  answered <- {s \in answered : s.tag \in Historized},
  recorded <- {rows[i] : i \in 1..Len(rows)},
  lost <- {s \in lost : s.tag \in Historized},
  silent <- {s \in silent : s.tag \in Historized}

\* handleDataMessage and handleSparkplugMessage implement SampleLog: a sample the
\* deadband leaves out is one the newest row before it stands for, whatever
\* order samples come in and however often they come.  Where the process can die
\* between the writes of storePreviousValueAt a late sample may be held against a
\* newer reading, and the row that stands for it need not be the newest before it.
\* Only a gateway that publishes Sparkplug loses a sample without a word.
AnswersEverySample == Log!Spec

Settled == hq = <<>> /\ cq = <<>> /\ h.pc = "idle" /\ c = "idle"
Newest(t) == CHOOSE s \in emitted : s.tag = t /\ \A o \in emitted : o.tag = t => o.ts <= s.ts

\* A reading is written to tag_history a second time only when the process died
\* or a query was refused, once for each: a message the broker sends again, a
\* retained sample, a late one writes no copy (the branches of
\* shouldStoreValueAt that say "already there").
CopiesCostFaults ==
  Cardinality({i \in 1..Len(rows) : rows[i].v # Null /\ \E j \in 1..(i - 1) : rows[j] = rows[i]})
    <= faults

\* Two processes read and write realtime:{tag} with nothing between them.  With
\* samples sent in order and looked up without error, once both have taken all
\* their messages the screens show the newest reading and so does the shadow,
\* whenever the historian dies and whatever is sent twice.  A core-api that
\* restarts may have left its older reading in Redis and lose the newer one with
\* its session: then the samples have to be retained.
LiveValueSettles ==
  Settled /\ lates = 0 /\ health = 0 /\ lost = {}
    /\ ("restart" \in plan.env => "retain" \in plan.env) =>
    \A t \in {s.tag : s \in emitted} :
      /\ realtime[t] = Newest(t)
      /\ plan.mode # "sparkplug" => shadow[t] = Newest(t)

\* "When a gateway goes offline, mark ALL its tags as BAD quality in Redis."
DeadTagShowsBad ==
  Settled /\ status # "online" => \A t \in Tags : realtime[t] # None => realtime[t].q > Good

\* "Always store BAD/UNCERTAIN quality to create visible gaps in charts."
BadIsAGap ==
  faults = 0 =>
    \A s \in answered : s.q > Good /\ s.tag \in Historized =>
      \E i \in 1..Len(rows) : rows[i].tag = s.tag /\ rows[i].ts = s.ts /\ rows[i].v = Null

=============================================================================
