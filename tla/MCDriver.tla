------------------------------ MODULE MCDriver ------------------------------
(* Deployments of one driver, each with its own inputs and faults. *)
EXTENDS Driver

CONSTANTS t1, t2, t3, l1, l2

AllNodes == [driver : Drivers, spool : BOOLEAN]

At(off, size) == [kind |-> 1, off |-> off, size |-> size]
Both == (t1 :> At(0, 1)) @@ (t2 :> At(1, 1))
Only == t1 :> At(0, 1)
SameRegister == (t1 :> At(0, 1)) @@ (t2 :> At(0, 1))

NoLoads == (l1 :> <<>>) @@ (l2 :> <<>>)
Value(t, v) == [tag |-> t, v |-> v]

Setup(bits, layouts, heartbeat, env, most, worst) ==
  [enabled |-> TRUE, node |-> FALSE, bits |-> bits, known |-> UNION {DOMAIN lay : lay \in layouts},
   layouts |-> layouts, heartbeat |-> heartbeat, env |-> env, loads |-> NoLoads, inputs |-> most, troubles |-> worst]

\* Two bits of one register.
Bits == Setup(TRUE, {SameRegister}, "always", {"write", "device"}, 2, 0)

\* A register of a device that comes and goes, and publishes that are lost.
OneRegister == Setup(FALSE, {Only}, "timer", {"write", "outage", "exception", "unsent"}, 2, 1)

\* A tag that is configured and taken away, a connection that cannot be made.
Reloads == Setup(FALSE, {Only, <<>>}, "always", {"write", "scada", "reload", "unusable"}, 2, 1)

\* Publishing on change only.
OnChange == Setup(FALSE, {Both}, "never", {"device", "outage", "exception"}, 2, 2)

\* Commands that are late, lost, refused by the device or not answered by it.
Delays == Setup(FALSE, {Only}, "always", {"external", "scada", "delay", "fail", "lost", "gone"}, 2, 1)

\* Two recipes and an operator, for tags the driver has not loaded yet.
Batches == [Setup(FALSE, {<<>>}, "never", {"load", "write", "dup", "nobroker"}, 2, 1) EXCEPT
              !.known = {t1, t2}, !.loads = (l1 :> <<Value(t1, 1), Value(t2, 1)>>) @@ (l2 :> <<Value(t2, Unfit)>>)]

\* A gateway that is switched off: with its Sparkplug node, or with any three tags.
SwitchedOff(layouts, node_) ==
  [Setup(FALSE, layouts, "timer", {}, 0, 0) EXCEPT !.enabled = FALSE, !.node = node_]
Layouts == [{t1, t2, t3} -> [kind : {1, 2}, off : 0..3, size : {1, 2, 4}]]

AllSetups == {Bits, OneRegister, Reloads, OnChange, Delays, Batches,
              SwitchedOff({<<>>}, TRUE)}
             \cup {SwitchedOff({lay}, FALSE) : lay \in Layouts}
=============================================================================
