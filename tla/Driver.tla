------------------------------- MODULE Driver -------------------------------
(***************************************************************************)
(* One driver: its Sparkplug node next to its poll loop, its writers and   *)
(* core-api's side of the write path.  The node hears of the others only   *)
(* what SparkplugNode takes for inputs (data to publish, the device's      *)
(* state), so a deployment has the one or the other at work: a driver      *)
(* without SPARKPLUG_ENABLED, or one whose gateway is switched off.        *)
(***************************************************************************)
EXTENDS SparkplugNode, Recipes

driverAllVars == <<vars, allPathVars>>

ProcessInit ==
  /\ PathInit
  /\ \/ setup.node /\ Init
     \/ /\ ~setup.node /\ plan \in Plans /\ plan.driver = "modbus" /\ ~plan.spool
        /\ node = NewClient /\ device = FALSE /\ phase = "down"
        /\ dying = [c \in Callers |-> None] /\ pending = None /\ link = TRUE /\ disk = <<>>
        /\ host = [bd |-> None, seq |-> None, device |-> FALSE, gaps |-> 0, unborn |-> 0, stray |-> 0]
        /\ sends = 0 /\ fails = 0 /\ downs = MaxDowns
        /\ missed = [t \in Types |-> 0] /\ late = 0 /\ deaf = 0

\* In a deployment without its node, or without a gateway, that half stands still.
ProcessNext ==
  \/ setup.node /\ Next /\ UNCHANGED allPathVars
  \/ setup.enabled /\ PathNext /\ UNCHANGED vars

ProcessSpec == ProcessInit /\ [][ProcessNext]_driverAllVars
=============================================================================
