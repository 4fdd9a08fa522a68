---------------------------- MODULE MCAlarmManager ----------------------------
(***************************************************************************)
(* Instances of AlarmManager for TLC.  One tag; the readings 0, 1 and 2    *)
(* against a high threshold of 1 with a deadband of 1 are: back in spec,   *)
(* inside the deadband, violating.                                         *)
(***************************************************************************)
EXTENDS AlarmManager

CONSTANTS tank, d1, d2

High(delay) == [tag |-> tank, type |-> "high", threshold |-> {1}, deadband |-> 1, delay |-> delay]

Health(type, delay) == [tag |-> tank, type |-> type, threshold |-> {}, deadband |-> 0, delay |-> delay]

(* d1 fires at once, d2 after a delay. *)
ThresholdRules == (d1 :> High(0)) @@ (d2 :> High(1))

(* Both fire at once. *)
InstantRules == (d1 :> High(0)) @@ (d2 :> High(0))

(* The frozen rule gives up on a silent tag before comm_loss fires. *)
HealthRules == (d1 :> Health("comm_loss", 2)) @@ (d2 :> Health("frozen", 1))

PointerSymmetry == Permutations(Refs)
================================================================================
