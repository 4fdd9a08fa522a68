----------------------------- MODULE AlarmPipeline -----------------------------
(***************************************************************************)
(* The alarm engine of a driver together with core-api, which writes to    *)
(* the same alarm_events table from two places: it receives the events the *)
(* driver publishes on sys/alarms and writes those that say that nobody    *)
(* has written them yet (event_id 0), and every five minutes its sweep     *)
(* judges the comm_loss rules on what tag_history holds, because a         *)
(* driver's silence clock does not survive a restart.                      *)
(*                                                                         *)
(* An event can be overtaken by a later one (one goes through the driver's *)
(* spool and the other does not) and can arrive twice (QoS 1).  The        *)
(* notification channels and webhooks that handleAlarmEvent fans out to    *)
(* change no state of the system and are left out.  A sweep that an error  *)
(* ends early is one that did not happen; the next one repeats it.         *)
(***************************************************************************)
EXTENDS AlarmManager

VARIABLES
  inbox,    \* positions in `published` of the events on their way to core-api
  stored,   \* MAX(tag_history.time) of each tag, or the time it was created
  sweep     \* what the sweep is doing

sweepVars == <<stored, sweep>>
pipelineVars == <<vars, inbox, sweepVars>>

(* The rules the sweep has still to judge, the time it took at its start,  *)
(* the rule it is at and its next statement.                               *)
Sweep == [todo : SUBSET Defs, at : Nat, def : SUBSET Defs, step : {"rule", "close", "probe", "insert"}]

Asleep == [todo |-> {}, at |-> 0, def |-> {}, step |-> "rule"]

--------------------------------------------------------------------------------
(* handleAlarmEvent *)

(* What core-api writes for an event without a row.  The INSERT has no     *)
(* NOT EXISTS; its trigger_time is the time the event was published.  The  *)
(* definition may be gone, and then the foreign key refuses it.            *)
Persist(e) ==
  CASE e.status = "ACTIVE" /\ e.def \in dbDefs ->
         Append(rows, [def |-> e.def, status |-> "ACTIVE", trig |-> e.at])
    [] e.status = "CLEARED" -> ClearOpen(rows, {e.def})
    [] OTHER -> rows

OnlyRows == UNCHANGED <<now, dbDefs, freshDefs, reload, up, trackVars, ids, healthVars, drainVars, pc, loaded, batch, published>>

handleAlarmEvent(k) ==
  /\ k \in inbox
  /\ rows' = IF published[k].id = 0 THEN Persist(published[k]) ELSE rows
  /\ inbox' \in {inbox \ {k}} \cup (IF "dup" \in Env THEN {inbox} ELSE {})
  /\ OnlyRows /\ UNCHANGED sweepVars

--------------------------------------------------------------------------------
(* commLossSweep *)

(* The historian stores the latest reading of a tag. *)
HistorianStores(tag) ==
  /\ samples[tag].hasValue /\ stored[tag] < samples[tag].lastGood
  /\ stored' = [stored EXCEPT ![tag] = samples[tag].lastGood]
  /\ UNCHANGED <<vars, inbox, sweep>>

Swept == {d \in dbDefs : RuleOf[d].type = "comm_loss" /\ RuleOf[d].delay > 0}

SweepBegin ==
  /\ sweep.todo = {} /\ sweep.def = {} /\ Swept # {}
  /\ sweep' = [Asleep EXCEPT !.todo = Swept, !.at = now]
  /\ UNCHANGED <<vars, inbox, stored>>

Silence(d) == sweep.at - stored[RuleOf[d].tag]

SweepJudge(d) ==
  /\ sweep.step = "rule" /\ d \in sweep.todo
  /\ sweep' = [sweep EXCEPT !.todo = @ \ {d}, !.def = {d},
                            !.step = IF Silence(d) < RuleOf[d].delay THEN "close" ELSE "probe"]
  /\ UNCHANGED <<vars, inbox, stored>>

NextRule == sweep' = [sweep EXCEPT !.def = {}, !.step = "rule"]

(* Mutant: an acknowledged row is left alone. *)
SweepCloseActive ==
  /\ sweep.step = "close"
  /\ rows' = [i \in DOMAIN rows |-> IF rows[i].def \in sweep.def /\ rows[i].status = "ACTIVE"
                                    THEN [rows[i] EXCEPT !.status = "CLEARED"] ELSE rows[i]]
  /\ NextRule
  /\ OnlyRows /\ UNCHANGED <<inbox, stored>>

(* Data again: whoever opened the rows, they are closed. *)
SweepClose ==
  /\ sweep.step = "close"
  /\ rows' = ClearOpen(rows, sweep.def)
  /\ NextRule
  /\ OnlyRows /\ UNCHANGED <<inbox, stored>>

(* INSERT ... WHERE NOT EXISTS, without the advisory lock of InsertActive: *)
(* another session's row, committed after the statement began, is not      *)
(* seen.                                                                   *)
SweepProbe ==
  /\ sweep.step = "probe"
  /\ IF \A d \in sweep.def : OpenRows(rows, d) = {}
     THEN sweep' = [sweep EXCEPT !.step = "insert"] ELSE NextRule
  /\ UNCHANGED <<vars, inbox, stored>>

SweepInsert ==
  /\ sweep.step = "insert"
  /\ \E d \in sweep.def :
       rows' = IF d \in dbDefs THEN Append(rows, [def |-> d, status |-> "ACTIVE", trig |-> sweep.at]) ELSE rows
  /\ NextRule
  /\ OnlyRows /\ UNCHANGED <<inbox, stored>>

SweepStep == SweepBegin \/ (\E d \in Defs : SweepJudge(d)) \/ SweepClose \/ SweepProbe \/ SweepInsert

--------------------------------------------------------------------------------
PipelineInit == Init /\ inbox = {} /\ stored = [t \in Tags |-> 0] /\ sweep = Asleep

(* A published event is on its way to core-api. *)
DriverNext ==
  /\ Next
  /\ inbox' = inbox \cup (DOMAIN published' \ DOMAIN published)
  /\ UNCHANGED sweepVars

CoreApiNext == (\E k \in inbox : handleAlarmEvent(k)) \/ SweepStep

PipelineNext == DriverNext \/ CoreApiNext \/ \E tag \in Tags : HistorianStores(tag)

(* The sweep goes round as long as core-api runs. *)
PipelineSpec == PipelineInit /\ [][PipelineNext]_pipelineVars /\ WF_pipelineVars(SweepStep)

--------------------------------------------------------------------------------
(* The occurrences of a rule that were announced or are about to be. *)
Occurrences(d) ==
  {published[k].ref : k \in {j \in DOMAIN published : published[j].def = d}} \cup
  {io.ref : io \in {x \in Outstanding : x.def = d}}

(* AlarmEventPayload: core-api uses event_id to skip its INSERT "so one    *)
(* alarm never produces two rows".                                         *)
OneRowPerAlarm ==
  \A d \in Defs : Cardinality({i \in DOMAIN rows : rows[i].def = d}) <= Cardinality(Occurrences(d))

(* "Driver and sweep converge": a tag whose history is up to date is left  *)
(* with no open comm_loss row, and one that went silent has one - whichever *)
(* of the driver, the event handler and the sweep wrote the rows, in       *)
(* whatever order, one or two of them, acknowledged or not, and however    *)
(* often the driver forgets how long it has heard nothing.                 *)
CommLossSettles ==
  \A d \in Defs : RuleOf[d].type = "comm_loss" =>
    /\ <>[](d \in Swept /\ now - stored[RuleOf[d].tag] < RuleOf[d].delay) => <>[](OpenRows(rows, d) = {})
    /\ <>[](d \in Swept /\ now - stored[RuleOf[d].tag] >= RuleOf[d].delay) => <>[](OpenRows(rows, d) # {})
================================================================================
