----------------------------- MODULE InfluxBuffer -----------------------------
(***************************************************************************)
(* The InfluxDB connector of internal/connectors: a buffer of points that  *)
(* Write fills and flush empties, batch by batch.  Flushes overlap: one    *)
(* goroutine flushes on a timer and every Write that finds a full batch    *)
(* starts another; a flush that fails puts its batch back at the head.     *)
(*                                                                         *)
(* A point is the number of its Write.  InfluxDB is external: while it is  *)
(* reachable it takes a batch or refuses it for good; while it is not, a   *)
(* request fails, and may have been applied all the same.                  *)
(***************************************************************************)
EXTENDS Integers, Sequences

CONSTANTS
  Runner,      \* the goroutine of run
  Flushers,    \* goroutines that Write starts; more of them wait for their turn
  BatchSize,   \* influx_batch_size
  MaxLines,    \* maxBufferedLines
  MaxPoints,   \* bound on the points written
  MaxOutages,  \* bound on the changes of InfluxDB's state
  MaxEdits     \* bound on the changes of the settings, and on reads of them that end early

ASSUME InfluxAssumption ==
  /\ Runner \notin Flushers
  /\ BatchSize \in Nat \ {0} /\ MaxLines \in Nat \ {0}
  /\ MaxPoints \in Nat /\ MaxOutages \in Nat /\ MaxEdits \in Nat

VARIABLES
  setting,    \* the influx_* rows of global_settings: [enabled, target]
  cfg,        \* the connector's copy; target: url and token are not empty
  buf,
  checked,    \* a Write that has read cfg and has not taken the lock yet
  spawned,    \* flushes started by Write that have not run yet
  batch,      \* what each goroutine's request carries; empty: it makes none
  reachable,
  written,    \* history: points appended so far
  arrived, capped, refused,  \* history: points stored, dropped by the cap, dropped otherwise
  overtaken,  \* history: a batch was put back while a younger one was still under way
  outages, edits

bufferVars == <<buf, checked, spawned, batch>>
historyVars == <<written, arrived, capped, refused, overtaken>>
envVars == <<setting, reachable, outages, edits>>
vars == <<bufferVars, historyVars, envVars, cfg>>

Settings == [enabled : BOOLEAN, target : BOOLEAN]

Goroutines == Flushers \cup {Runner}

Lines(s) == {s[i] : i \in DOMAIN s}

Init ==
  /\ setting \in Settings /\ cfg = setting
  /\ buf = <<>> /\ checked = FALSE /\ spawned = 0
  /\ batch = [g \in Goroutines |-> <<>>]
  /\ reachable = TRUE
  /\ written = 0 /\ arrived = {} /\ capped = {} /\ refused = {} /\ overtaken = FALSE
  /\ outages = 0 /\ edits = 0

-------------------------------------------------------------------------------
(* Write: the settings are read under the lock, the point is appended under it later. *)

WriteCheck ==
  /\ cfg.enabled /\ ~checked /\ written < MaxPoints
  /\ checked' = TRUE
  /\ UNCHANGED <<buf, spawned, batch, historyVars, envVars, cfg>>

WriteAppend ==
  /\ checked
  /\ checked' = FALSE
  /\ written' = written + 1
  /\ buf' = Append(buf, written + 1)
  /\ spawned' = IF Len(buf') >= BatchSize THEN spawned + 1 ELSE spawned
  /\ UNCHANGED <<batch, arrived, capped, refused, overtaken, envVars, cfg>>

-------------------------------------------------------------------------------
(* flush takes the whole buffer under the lock; with a connector that is   *)
(* switched off, or has no target, what it took is gone.                   *)
Take(g) ==
  /\ batch[g] = <<>>
  /\ buf' = <<>>
  /\ IF cfg.enabled /\ cfg.target
     THEN batch' = [batch EXCEPT ![g] = buf] /\ UNCHANGED refused
     ELSE refused' = refused \cup Lines(buf) /\ UNCHANGED batch

(* Mutant: the timer's flush waits for a full batch, as Write does. *)
TickWhenFull ==
  /\ Len(buf) >= BatchSize /\ Take(Runner)
  /\ UNCHANGED <<checked, spawned, written, arrived, capped, overtaken, envVars, cfg>>

(* The timer of run. *)
Tick ==
  /\ buf # <<>> /\ Take(Runner)
  /\ UNCHANGED <<checked, spawned, written, arrived, capped, overtaken, envVars, cfg>>

(* A goroutine started by Write; it finds the buffer empty when another one was faster. *)
Flush(g) ==
  /\ spawned > 0 /\ spawned' = spawned - 1
  /\ Take(g)
  /\ UNCHANGED <<checked, written, arrived, capped, overtaken, envVars, cfg>>

Younger(s, lines) == s # <<>> /\ Head(s) > Head(lines)

(* Mutant: the batch goes back behind what was written since. *)
PutBackLast(lines) == buf \o lines

PutBack(lines) == lines \o buf

(* requeue: the batch goes back to the head, and what exceeds the cap is   *)
(* cut off there.                                                          *)
Requeue(lines) ==
  LET all     == PutBack(lines)
      dropped == IF Len(all) > MaxLines THEN Len(all) - MaxLines ELSE 0
  IN  /\ buf' = SubSeq(all, dropped + 1, Len(all))
      /\ capped' = capped \cup Lines(SubSeq(all, 1, dropped))

(* The answer to the request of g, or none: below 300; another 4xx than    *)
(* 429, which is permanent; 429, 5xx or a transport error, after which the *)
(* points may be stored nevertheless.                                      *)
Post(g) ==
  LET lines == batch[g] IN
  /\ lines # <<>>
  /\ batch' = [batch EXCEPT ![g] = <<>>]
  /\ \/ /\ reachable
        /\ \/ arrived' = arrived \cup Lines(lines) /\ UNCHANGED refused
           \/ refused' = refused \cup Lines(lines) /\ UNCHANGED arrived
        /\ UNCHANGED <<buf, capped, overtaken>>
     \/ /\ ~reachable
        /\ arrived' \in {arrived, arrived \cup Lines(lines)}
        /\ Requeue(lines)
        /\ overtaken' = (overtaken \/ \E h \in Goroutines \ {g} : Younger(batch[h], lines))
        /\ UNCHANGED refused
  /\ UNCHANGED <<checked, spawned, written, envVars, cfg>>

-------------------------------------------------------------------------------
(* reload, by run between two flushes.  A result set that ends early is    *)
(* not told from a complete one (rows.Err is not asked): the keys it did   *)
(* not reach count as empty.  A query that fails changes nothing.          *)
Reload ==
  /\ batch[Runner] = <<>>
  /\ cfg' = setting
  /\ UNCHANGED <<bufferVars, historyVars, envVars>>

ReloadCut ==
  /\ batch[Runner] = <<>> /\ edits < MaxEdits
  /\ edits' = edits + 1
  /\ cfg' \in {s \in Settings : (s.enabled => setting.enabled) /\ (s.target => setting.target)}
  /\ UNCHANGED <<bufferVars, historyVars, setting, reachable, outages>>

(* The administrator and InfluxDB. *)
Edit ==
  /\ edits < MaxEdits /\ edits' = edits + 1
  /\ setting' \in Settings \ {setting}
  /\ UNCHANGED <<bufferVars, historyVars, cfg, reachable, outages>>

Outage ==
  /\ outages < MaxOutages /\ outages' = outages + 1
  /\ reachable' = ~reachable
  /\ UNCHANGED <<bufferVars, historyVars, cfg, setting, edits>>

Next ==
  \/ WriteCheck \/ WriteAppend \/ Tick
  \/ \E g \in Flushers : Flush(g)
  \/ \E g \in Goroutines : Post(g)
  \/ Reload \/ ReloadCut \/ Edit \/ Outage

\* Goroutines are scheduled, the timer ticks, a request ends within 15 seconds.
\* Nobody has to write, to edit the settings or to repair InfluxDB.
Fairness ==
  /\ WF_vars(WriteAppend) /\ WF_vars(Tick) /\ WF_vars(Reload)
  /\ \A g \in Flushers : WF_vars(Flush(g))
  /\ \A g \in Goroutines : WF_vars(Post(g))

Spec == Init /\ [][Next]_vars /\ Fairness

-------------------------------------------------------------------------------
TypeOK ==
  /\ setting \in Settings /\ cfg \in Settings /\ checked \in BOOLEAN /\ spawned \in Nat
  /\ buf \in Seq(1..MaxPoints) /\ batch \in [Goroutines -> Seq(1..MaxPoints)]
  /\ written \in 0..MaxPoints

\* requeue: "When the cap is reached the OLDEST points are discarded: during an
\* outage the freshest process data is the useful one".  So it is as long as of
\* two overlapping flushes the younger one fails first; otherwise its batch goes
\* back in front of the older one and is cut first although it is fresher.
CapDropsOldest ==
  [][\A p \in capped' \ capped : overtaken' \/ \A q \in Lines(buf') : p < q]_vars

\* Through outages, answers that are lost, settings edited or read in part and
\* flushes that overlap, every point is stored in the end or was dropped on
\* purpose, provided that the connector and InfluxDB work from some time on.
PointsArrive ==
  <>[](cfg.enabled /\ cfg.target /\ reachable)
    => <>[](1..written \subseteq arrived \cup capped \cup refused)
===============================================================================
