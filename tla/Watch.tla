-------------------------------- MODULE Watch --------------------------------
(***************************************************************************)
(* The two watchers of core-api and the dispatcher they share.  They are   *)
(* goroutines of one process: a crash takes all three, and the events of   *)
(* one use up the rate limit of the other.                                 *)
(***************************************************************************)
EXTENDS GatewayWatch, DbWatch

vars == <<plan, up, crashes, faults, notifierVars, gatewayVars, dbVars>>

TypeOK == NotifierTypeOK /\ GatewayTypeOK /\ DbTypeOK

Init == NotifierInit /\ GatewayInit /\ DbInit

Process == <<plan, up, crashes>>

\* What happens in the field, and the messages it makes.
Field(g) ==
  /\ \/ LinkChange(g) \/ DriverLost(g) \/ DriverBack(g) \/ StaleChange(g) \/ EnableGateway(g)
     \/ ManagerSays(g) \/ HealthLoop(g) \/ ReplayLate(g)
  /\ UNCHANGED <<Process, faults, notifierVars, dbVars>>

Records ==
  /\ (\E g \in Gateways : HandleGatewayHealthUpdate(g)) \/ Scan \/ (\E d \in todo : Apply(d))
  /\ UNCHANGED <<Process, notifierVars, dbVars>>

Announces == Announce /\ UNCHANGED <<Process, faults, dbVars>>

Database ==
  \/ DbEvent /\ UNCHANGED <<Process, faults, notifierVars, gatewayVars>>
  \/ DbScan /\ UNCHANGED <<Process, notifierVars, gatewayVars>>
  \/ DbAnnounce /\ UNCHANGED <<Process, faults, gatewayVars>>

Refresh == Reload /\ UNCHANGED <<Process, gatewayVars, dbVars>>

Crash ==
  /\ "crash" \in plan.env /\ up /\ crashes < MaxCrashes
  /\ up' = FALSE /\ crashes' = crashes + 1
  /\ NotifierCrash /\ GatewayCrash /\ DbCrash
  /\ UNCHANGED <<plan, faults>>

Restart ==
  /\ ~up /\ up' = TRUE
  /\ NotifierStart /\ GatewayStart
  /\ UNCHANGED <<plan, crashes, dbVars>>

Tick ==
  /\ NotifierTick /\ GatewayTick /\ DbTick
  /\ UNCHANGED <<Process, faults>>

Next ==
  \/ \E g \in Gateways : Field(g)
  \/ Records \/ Announces \/ Database \/ Refresh \/ Crash \/ Restart \/ Tick

\* The loops turn and the clock runs; nothing makes the field change, a query
\* fail or the process crash.
Fairness ==
  /\ \A g \in Gateways :
       WF_vars((HealthLoop(g) \/ ReplayLate(g)) /\ UNCHANGED <<Process, faults, notifierVars, dbVars>>)
  /\ WF_vars(Records) /\ WF_vars(Announces) /\ WF_vars(DbScan /\ UNCHANGED <<Process, notifierVars, gatewayVars>>)
  /\ WF_vars(DbAnnounce /\ UNCHANGED <<Process, faults, gatewayVars>>)
  /\ WF_vars(Refresh) /\ WF_vars(Restart) /\ WF_vars(Tick)

Spec == Init /\ [][Next]_vars /\ Fairness
=============================================================================
