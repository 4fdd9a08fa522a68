------------------------------ MODULE AlarmEvents ------------------------------
(***************************************************************************)
(* The alarm_events table and the statements the alarm pipeline runs on    *)
(* it.  A row is kept with the fields the pipeline's decisions read: the   *)
(* definition it belongs to (which fixes its tag), its status and its      *)
(* trigger_time.  A row's id is its position, because ids are serial and   *)
(* are never reused.  Every statement that sets clear_time also sets the   *)
(* status to CLEARED and no statement sets one without the other, so       *)
(* "clear_time IS NULL" is "status is not CLEARED" and the column itself   *)
(* is not kept.                                                            *)
(*                                                                         *)
(* Each operator takes the table and returns the new table, so that the    *)
(* drivers and the server can be modelled as processes sharing one table.  *)
(***************************************************************************)
EXTENDS Naturals, Sequences

CONSTANT Defs      \* the ids alarm_definitions rows are given

RowStatus == {"ACTIVE", "ACKNOWLEDGED", "CLEARED"}

Row == [def : Defs, status : RowStatus, trig : Nat]

IsOpen(row) == row.status \in {"ACTIVE", "ACKNOWLEDGED"}

OpenRows(rows, d) == {i \in DOMAIN rows : rows[i].def = d /\ IsOpen(rows[i])}

(* Mutant: the INSERT without its NOT EXISTS. *)
InsertActiveAlways(rows, d, trig) ==
  Append(rows, [def |-> d, status |-> "ACTIVE", trig |-> trig])

(***************************************************************************)
(* INSERT ... WHERE NOT EXISTS (an open row), inside a transaction that    *)
(* holds the advisory lock of (tag, definition): the table after it and    *)
(* the ids it may return.  When a row is open already nothing is inserted  *)
(* and the latest one (ORDER BY trigger_time DESC LIMIT 1) is adopted.     *)
(***************************************************************************)
InsertActive(rows, d, trig) ==
  IF OpenRows(rows, d) = {}
  THEN Append(rows, [def |-> d, status |-> "ACTIVE", trig |-> trig])
  ELSE rows

InsertActiveIds(rows, d) ==
  IF OpenRows(rows, d) = {}
  THEN {Len(rows) + 1}
  ELSE {i \in OpenRows(rows, d) : \A j \in OpenRows(rows, d) : rows[j].trig <= rows[i].trig}

(***************************************************************************)
(* One row for an occurrence that ended before its ACTIVE row could be     *)
(* written; an occurrence with the same trigger_time that is closed        *)
(* already is returned instead of being written twice.                     *)
(***************************************************************************)
ClosedAt(rows, d, trig) ==
  {i \in DOMAIN rows : rows[i].def = d /\ rows[i].trig = trig /\ ~IsOpen(rows[i])}

InsertCleared(rows, d, trig) ==
  IF ClosedAt(rows, d, trig) = {}
  THEN Append(rows, [def |-> d, status |-> "CLEARED", trig |-> trig])
  ELSE rows

InsertClearedIds(rows, d, trig) ==
  IF ClosedAt(rows, d, trig) = {}
  THEN {Len(rows) + 1}
  ELSE {i \in ClosedAt(rows, d, trig) : \A j \in ClosedAt(rows, d, trig) : j <= i}

(* UPDATE ... SET status = 'CLEARED' WHERE id = $2, whatever the row says. *)
MarkCleared(rows, id) ==
  [i \in DOMAIN rows |-> IF i = id THEN [rows[i] EXCEPT !.status = "CLEARED"] ELSE rows[i]]

(* UPDATE ... SET status = 'CLEARED' on every open row of these definitions. *)
ClearOpen(rows, ds) ==
  [i \in DOMAIN rows |-> IF rows[i].def \in ds /\ IsOpen(rows[i])
                         THEN [rows[i] EXCEPT !.status = "CLEARED"] ELSE rows[i]]

(* UPDATE ... SET status = 'ACKNOWLEDGED' WHERE ack_time and clear_time are NULL. *)
Acknowledge(rows, id) ==
  [i \in DOMAIN rows |-> IF i = id /\ rows[i].status = "ACTIVE"
                         THEN [rows[i] EXCEPT !.status = "ACKNOWLEDGED"] ELSE rows[i]]
================================================================================
