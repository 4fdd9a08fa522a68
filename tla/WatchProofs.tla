----------------------------- MODULE WatchProofs -----------------------------
(***************************************************************************)
(* What the watchers promise, for any number of gateways, any rate, any    *)
(* bound on faults and crashes and whatever the plans let happen.          *)
(***************************************************************************)
EXTENDS Watch, FiniteSetTheorems, SequenceTheorems, TLAPS

-----------------------------------------------------------------------------
(* Types. *)

\* A step of the dispatcher keeps its counters in range: only an event that the
\* limiter has room for counts.
LEMMA DispatchType ==
  ASSUME NotifierTypeOK, NEW e, Dispatch(e), UNCHANGED <<plan, up, crashes, faults>>
  PROVE  NotifierTypeOK'
  BY NotifierAssumption DEF NotifierTypeOK, Dispatch, Allowed, Heard

\* The settings are the ones that are wanted, or none.
LEMMA LoadType ==
  ASSUME NotifierTypeOK, LoadSettings, UNCHANGED plan
  PROVE  loaded' \in {plan'.wanted, NoSettings} /\ faults' \in 0..MaxFaults
  BY NotifierAssumption DEF NotifierTypeOK, LoadSettings, Fail

\* What the broker delivers is a status.
LEMMA DeliverType ==
  ASSUME GatewayTypeOK, NEW g \in Gateways, NEW st \in Status, Deliver(g, st)
  PROVE  /\ topic' \in [Gateways -> Status \cup {None}]
         /\ inbox' \in [Gateways -> Seq(Status)]
<1>1. topic' \in [Gateways -> Status \cup {None}]
  BY DEF Deliver, GatewayTypeOK
<1>2. Append(inbox[g], st) \in Seq(Status)
  BY AppendProperties DEF GatewayTypeOK
<1>3. inbox' \in [Gateways -> Seq(Status)]
  BY <1>2 DEF Deliver, GatewayTypeOK
<1> QED BY <1>1, <1>3

LEMMA PublishType ==
  ASSUME GatewayTypeOK, NEW g \in Gateways, NEW st \in Status, PublishHealth(g, st)
  PROVE  /\ topic' \in [Gateways -> Status \cup {None}]
         /\ inbox' \in [Gateways -> Seq(Status)]
         /\ late' \in [Gateways -> Status \cup {None}]
<1>1. CASE driver[g].cut
  BY <1>1 DEF PublishHealth, GatewayTypeOK
<1>2. CASE ~driver[g].cut
  BY <1>2, DeliverType DEF PublishHealth, GatewayTypeOK
<1> QED BY <1>1, <1>2

\* What happens in the field keeps the types of the gateway's side.
LEMMA FieldType ==
  ASSUME GatewayTypeOK, NEW g \in Gateways, Field(g)
  PROVE  GatewayTypeOK'
<1> USE GatewayAssumption
<1>1. CASE HealthLoop(g)
  <2>1. driver[g].says \in Status
    BY DEF GatewayTypeOK, DriverState
  <2>2. /\ topic' \in [Gateways -> Status \cup {None}]
        /\ inbox' \in [Gateways -> Seq(Status)]
        /\ late' \in [Gateways -> Status \cup {None}]
    BY <1>1, <2>1, PublishType DEF HealthLoop
  <2> QED BY <1>1, <2>2 DEF HealthLoop, GatewayTypeOK, watchVars
<1>2. CASE LinkChange(g)
  <2>1. PICK st \in Status : driver' = [driver EXCEPT ![g].says = st] /\ PublishHealth(g, st)
    BY <1>2 DEF LinkChange
  <2>2. /\ topic' \in [Gateways -> Status \cup {None}]
        /\ inbox' \in [Gateways -> Seq(Status)]
        /\ late' \in [Gateways -> Status \cup {None}]
    BY <2>1, PublishType
  <2>3. driver' \in [Gateways -> DriverState]
    <3>1. driver[g] \in DriverState
      BY DEF GatewayTypeOK
    <3>2. [driver[g] EXCEPT !.says = st] \in DriverState
      BY <3>1 DEF DriverState
    <3> QED BY <2>1, <3>2 DEF GatewayTypeOK
  <2> QED BY <1>2, <2>2, <2>3 DEF LinkChange, Change, GatewayTypeOK, watchVars
<1>3. CASE DriverLost(g)
  <2>1. /\ topic' \in [Gateways -> Status \cup {None}]
        /\ inbox' \in [Gateways -> Seq(Status)]
    BY <1>3, DeliverType DEF DriverLost, GatewayTypeOK, Status
  <2>2. driver' \in [Gateways -> DriverState]
    <3>1. PICK gone \in BOOLEAN : driver' = [driver EXCEPT ![g].alive = ~gone, ![g].cut = ~gone]
      BY <1>3 DEF DriverLost
    <3>2. driver[g] \in DriverState
      BY DEF GatewayTypeOK
    <3>3. [driver[g] EXCEPT !.alive = ~gone, !.cut = ~gone] \in DriverState
      BY <3>2 DEF DriverState
    <3> QED BY <3>1, <3>3 DEF GatewayTypeOK
  <2> QED BY <1>3, <2>1, <2>2 DEF DriverLost, Change, GatewayTypeOK, watchVars
<1>4. CASE DriverBack(g)
  <2>1. driver' \in [Gateways -> DriverState]
    BY <1>4 DEF DriverBack, GatewayTypeOK, DriverState, Status
  <2> QED BY <1>4, <2>1 DEF DriverBack, Change, GatewayTypeOK, watchVars
<1>5. CASE ReplayLate(g)
  <2>1. late[g] \in Status
    BY <1>5 DEF ReplayLate, GatewayTypeOK
  <2>2. /\ topic' \in [Gateways -> Status \cup {None}]
        /\ inbox' \in [Gateways -> Seq(Status)]
    BY <1>5, <2>1, DeliverType DEF ReplayLate
  <2> QED BY <1>5, <2>2 DEF ReplayLate, GatewayTypeOK, watchVars
<1>6. CASE StaleChange(g)
  BY <1>6 DEF StaleChange, Change, GatewayTypeOK, watchVars
<1>7. CASE EnableGateway(g)
  <2>1. /\ topic' \in [Gateways -> Status \cup {None}]
        /\ inbox' \in [Gateways -> Seq(Status)]
    BY <1>7, DeliverType DEF EnableGateway, GatewayTypeOK, Status
  <2>2. row' \in [Gateways -> Row]
    <3>1. [row[g] EXCEPT !.enabled = ~@] \in Row
      <4>1. row[g] \in Row
        BY DEF GatewayTypeOK
      <4> QED BY <4>1, Zenon DEF Row
    <3> QED BY <1>7, <3>1 DEF EnableGateway, GatewayTypeOK
  <2> QED BY <1>7, <2>1, <2>2 DEF EnableGateway, Change, GatewayTypeOK, watchVars
<1>8. CASE ManagerSays(g)
  <2>1. PICK st \in Status : Deliver(g, st)
    BY <1>8 DEF ManagerSays, Status
  <2>2. /\ topic' \in [Gateways -> Status \cup {None}]
        /\ inbox' \in [Gateways -> Seq(Status)]
    BY <2>1, DeliverType
  <2> QED BY <1>8, <2>2 DEF ManagerSays, Change, GatewayTypeOK, watchVars
<1> QED BY <1>1, <1>2, <1>3, <1>4, <1>5, <1>6, <1>7, <1>8 DEF Field

\* So do the handler of the statuses, the scan and the record of a decision.
LEMMA RecordsType ==
  ASSUME GatewayTypeOK, faults \in 0..MaxFaults, Records
  PROVE  GatewayTypeOK' /\ faults' \in 0..MaxFaults
<1> USE GatewayAssumption, NotifierAssumption
<1>1. ASSUME NEW g \in Gateways, HandleGatewayHealthUpdate(g)
      PROVE  GatewayTypeOK' /\ faults' \in 0..MaxFaults
  <2>1. inbox[g] \in Seq(Status) /\ inbox[g] # <<>>
    BY <1>1 DEF HandleGatewayHealthUpdate, GatewayTypeOK
  <2>2. Head(inbox[g]) \in Status /\ Tail(inbox[g]) \in Seq(Status)
    BY <2>1, HeadTailProperties
  <2>3. inbox' \in [Gateways -> Seq(Status)]
    BY <1>1, <2>2 DEF HandleGatewayHealthUpdate, GatewayTypeOK
  <2>4. ASSUME NEW st \in Status
        PROVE  [row EXCEPT ![g].status = st, ![g].age = 0, ![g].reported = TRUE] \in [Gateways -> Row]
    <3>1. row[g] \in Row /\ 0 \in Ages
      BY DEF GatewayTypeOK, Ages
    <3>2. [row[g] EXCEPT !.status = st, !.age = 0, !.reported = TRUE] \in Row
      BY <3>1 DEF Row
    <3> QED BY <3>2 DEF GatewayTypeOK
  <2>5. StatusOf(g, Head(inbox[g])) \in Status
    BY <2>2 DEF StatusOf, Status
  <2>6. row' \in [Gateways -> Row]
    <3>1. \/ row' = row
          \/ \E st \in Status : row' = [row EXCEPT ![g].status = st, ![g].age = 0, ![g].reported = TRUE]
      BY <1>1, <2>2, <2>5 DEF HandleGatewayHealthUpdate
    <3>2. CASE row' = row
      BY <3>2 DEF GatewayTypeOK
    <3>3. ASSUME NEW st \in Status,
                 row' = [row EXCEPT ![g].status = st, ![g].age = 0, ![g].reported = TRUE]
          PROVE  row' \in [Gateways -> Row]
      BY <2>4, <3>3
    <3> QED BY <3>1, <3>2, <3>3
  <2> QED BY <1>1, <2>3, <2>6 DEF HandleGatewayHealthUpdate, Fail, GatewayTypeOK, watchVars
<1>2. CASE Scan
  <2>1. \A g \in Gateways : FirstSight(g) \in Ages \cup {None}
    BY DEF FirstSight, GatewayTypeOK, Ages
  <2>2. \A g \in Gateways : Decide(g, FirstSight(g)) \subseteq Decision
    <3>1. \A g \in Gateways : Down(g, FirstSight(g)) \in BOOLEAN
      BY DEF Down
    <3> QED BY <3>1 DEF Decide, Decision
  <2>3. seen' \in [Gateways -> Ages \cup {None}]
    BY <1>2, <2>1 DEF Scan, GatewayTypeOK
  <2>4. todo' \subseteq Decision
    BY <1>2, <2>2 DEF Scan, GatewayTypeOK
  <2>5. faults' \in 0..MaxFaults /\ due' = FALSE /\ UNCHANGED <<linkVars, row, at, told, again, lost>>
    BY <1>2 DEF Scan, Fail
  <2> QED BY <2>3, <2>4, <2>5 DEF GatewayTypeOK, linkVars
<1>3. ASSUME NEW d \in todo, Apply(d)
      PROVE  GatewayTypeOK' /\ faults' \in 0..MaxFaults
  <2>1. d \in Decision /\ d.g \in Gateways /\ d.down \in BOOLEAN
    BY DEF GatewayTypeOK, Decision
  <2>2. [row[d.g] EXCEPT !.notified = d.down] \in Row
    <3>1. row[d.g] \in Row
      BY <2>1 DEF GatewayTypeOK
    <3> QED BY <2>1, <3>1 DEF Row
  <2>3. row' \in [Gateways -> Row]
    BY <1>3, <2>1, <2>2 DEF Apply, GatewayTypeOK
  <2> QED BY <1>3, <2>1, <2>3 DEF Apply, Fail, GatewayTypeOK, linkVars
<1> QED BY <1>1, <1>2, <1>3 DEF Records

\* The announcement, the crash, the start and the clock.
LEMMA AnnounceType ==
  ASSUME GatewayTypeOK, Announce
  PROVE  GatewayTypeOK'
<1>1. at.g \in Gateways
  BY DEF Announce, GatewayTypeOK, Decision
<1>2. told' \in [Gateways -> {None, "down", "up"}] /\ again' \in Nat /\ lost' \in Nat
  <2>1. Word(at) \in {None, "down", "up"}
    BY DEF Word
  <2>2. again \in Nat /\ lost \in Nat /\ told \in [Gateways -> {None, "down", "up"}]
    BY DEF GatewayTypeOK
  <2>3. CASE Heard(EventOf(at))
    <3>1. told' = [told EXCEPT ![at.g] = Word(at)] /\ again' \in {again, again + 1} /\ lost' = lost
      BY <2>3 DEF Announce
    <3> QED BY <2>1, <2>2, <3>1, <1>1
  <2>4. CASE ~Heard(EventOf(at))
    BY <2>2, <2>4 DEF Announce
  <2> QED BY <2>3, <2>4
<1>3. at' = None /\ UNCHANGED <<linkVars, row, seen, due, todo>>
  BY DEF Announce
<1> QED BY <1>2, <1>3 DEF GatewayTypeOK, linkVars

LEMMA CrashType ==
  ASSUME GatewayTypeOK, GatewayCrash
  PROVE  GatewayTypeOK'
<1>1. <<>> \in Seq(Status)
  BY EmptySeq
<1>2. inbox' \in [Gateways -> Seq(Status)] /\ seen' \in [Gateways -> Ages \cup {None}]
  BY <1>1 DEF GatewayCrash
<1>3. lost' \in Nat
  BY DEF GatewayTypeOK, GatewayCrash
<1>4. /\ todo' = {} /\ at' = None /\ due' = FALSE
      /\ UNCHANGED <<driver, stale, late, topic, beat, changes, row, told, again>>
  BY DEF GatewayCrash
<1> QED BY <1>2, <1>3, <1>4 DEF GatewayTypeOK

LEMMA StartType ==
  ASSUME GatewayTypeOK, GatewayStart
  PROVE  GatewayTypeOK'
<1>1. \A g \in Gateways : (IF topic[g] = None THEN <<>> ELSE <<topic[g]>>) \in Seq(Status)
  BY DEF GatewayTypeOK
<1> QED BY <1>1 DEF GatewayTypeOK, GatewayStart, watchVars

LEMMA TickType ==
  ASSUME GatewayTypeOK, up \in BOOLEAN, GatewayTick
  PROVE  GatewayTypeOK'
<1> USE GatewayAssumption
<1>1. \A age \in Ages : Older(age) \in Ages
  BY DEF Older, Ages
<1>2. \A g \in Gateways : [row[g] EXCEPT !.age = Older(@)] \in Row
  <2> TAKE g \in Gateways
  <2>1. row[g] \in Row /\ Older(row[g].age) \in Ages
    BY <1>1 DEF GatewayTypeOK, Row
  <2> QED BY <2>1 DEF Row
<1>3. row' \in [Gateways -> Row]
  BY <1>2 DEF GatewayTick
<1>4. seen' \in [Gateways -> Ages \cup {None}]
  BY <1>1 DEF GatewayTick, GatewayTypeOK, Older
<1> QED BY <1>3, <1>4 DEF GatewayTick, GatewayTypeOK

\* The database watcher: a problem that is to be announced is open, and one that
\* is to be declared over is not.
LEMMA DatabaseType ==
  ASSUME TypeOK, Database
  PROVE  TypeOK'
<1> USE NotifierAssumption, DbAssumption
<1>1. CASE DbEvent /\ UNCHANGED <<Process, faults, notifierVars, gatewayVars>>
  <2>1. UNCHANGED <<Process, faults, notifierVars>> => NotifierTypeOK'
    BY DEF TypeOK, NotifierTypeOK, notifierVars, Process
  <2>2. UNCHANGED gatewayVars => GatewayTypeOK'
    BY DEF TypeOK, GatewayTypeOK, gatewayVars, linkVars, watchVars
  <2>3. DbTypeOK'
    <3>1. /\ job \in [failed : BOOLEAN, failures : 0..MaxEvents, old : BOOLEAN]
          /\ events \in 0..MaxEvents /\ job.failures <= events
      BY DEF TypeOK, DbTypeOK
    <3>2. /\ job' \in [failed : BOOLEAN, failures : 0..MaxEvents, old : BOOLEAN]
          /\ events' \in 0..MaxEvents /\ job'.failures <= events'
      <4>1. events' = events + 1 /\ events < MaxEvents
        BY <1>1 DEF DbEvent
      <4>2. \/ job' = job
            \/ job' = [job EXCEPT !.failed = TRUE, !.failures = @ + 1]
            \/ job' = [job EXCEPT !.failed = FALSE, !.old = FALSE]
            \/ job' = [job EXCEPT !.old = TRUE]
        BY <1>1 DEF DbEvent
      <4>3. CASE job' = [job EXCEPT !.failed = TRUE, !.failures = @ + 1]
        <5>1. job.failures + 1 \in 0..MaxEvents /\ job.failures + 1 <= events'
          BY <3>1, <4>1
        <5>2. job' \in [failed : BOOLEAN, failures : 0..MaxEvents, old : BOOLEAN]
          BY <3>1, <4>3, <5>1
        <5>3. job'.failures = job.failures + 1
          BY <3>1, <4>3
        <5> QED BY <3>1, <4>1, <5>1, <5>2, <5>3
      <4>4. CASE job' = job \/ job' = [job EXCEPT !.failed = FALSE, !.old = FALSE]
                 \/ job' = [job EXCEPT !.old = TRUE]
        <5>1. job' \in [failed : BOOLEAN, failures : 0..MaxEvents, old : BOOLEAN]
          BY <3>1, <4>4
        <5>2. job'.failures = job.failures
          BY <3>1, <4>4
        <5> QED BY <3>1, <4>1, <5>1, <5>2
      <4> QED BY <4>2, <4>3, <4>4
    <3>3. pool' \in BOOLEAN /\ query' \in BOOLEAN /\ heldBack' \in BOOLEAN
      BY <1>1 DEF DbEvent, TypeOK, DbTypeOK
    <3> QED BY <1>1, <3>2, <3>3 DEF DbEvent, TypeOK, DbTypeOK
  <2> QED BY <1>1, <2>1, <2>2, <2>3 DEF TypeOK
<1>2. CASE DbScan /\ UNCHANGED <<Process, notifierVars, gatewayVars>>
  <2>1. GatewayTypeOK'
    BY <1>2 DEF TypeOK, GatewayTypeOK, gatewayVars, linkVars, watchVars
  <2>2. NotifierTypeOK'
    BY <1>2 DEF DbScan, Fail, TypeOK, NotifierTypeOK, notifierVars, Process
  <2>3. DbTypeOK'
    <3>1. PICK j \in BOOLEAN, q \in BOOLEAN :
            /\ prev' = IF j THEN job.failures ELSE Unread
            /\ open' = Evaluate(j, q)
            /\ problems' = Evaluate(j, q) \ open /\ resolved' = open \ Evaluate(j, q)
            /\ wrongly' \in {wrongly, wrongly + 1} /\ missed' \in {missed, missed + 1}
            /\ heldBack' = (heldBack /\ ~j)
      BY <1>2 DEF DbScan
    <3>2. Evaluate(j, q) \subseteq Keys
      BY DEF Evaluate, Keys
    <3>3. prev' \in (0..MaxEvents) \cup {Unread, None}
      BY <3>1 DEF TypeOK, DbTypeOK
    <3>4. open' \subseteq Keys /\ problems' \subseteq open' /\ resolved' \subseteq Keys \ open'
      BY <3>1, <3>2 DEF TypeOK, DbTypeOK
    <3>5. missed' \in Nat /\ wrongly' \in Nat /\ heldBack' \in BOOLEAN
      BY <3>1 DEF TypeOK, DbTypeOK
    <3> QED BY <1>2, <3>3, <3>4, <3>5 DEF DbScan, TypeOK, DbTypeOK
  <2> QED BY <2>1, <2>2, <2>3 DEF TypeOK
<1>3. CASE DbAnnounce /\ UNCHANGED <<Process, faults, gatewayVars>>
  <2>1. GatewayTypeOK'
    BY <1>3 DEF TypeOK, GatewayTypeOK, gatewayVars, linkVars, watchVars
  <2>2. NotifierTypeOK'
    BY <1>3, DispatchType DEF DbAnnounce, TypeOK, Process
  <2>3. DbTypeOK'
    BY <1>3 DEF DbAnnounce, TypeOK, DbTypeOK, dbState
  <2> QED BY <2>1, <2>2, <2>3 DEF TypeOK
<1> QED BY <1>1, <1>2, <1>3 DEF Database

\* Every step keeps the types.
LEMMA TypeStep ==
  ASSUME TypeOK, [Next]_vars
  PROVE  TypeOK'
<1> USE NotifierAssumption, GatewayAssumption, DbAssumption
<1>1. UNCHANGED <<Process, faults, notifierVars>> => NotifierTypeOK'
  BY DEF TypeOK, NotifierTypeOK, notifierVars, Process
<1>2. UNCHANGED gatewayVars => GatewayTypeOK'
  BY DEF TypeOK, GatewayTypeOK, gatewayVars, linkVars, watchVars
<1>3. UNCHANGED dbVars => DbTypeOK'
  BY DEF TypeOK, DbTypeOK, dbVars
<1>4. ASSUME NEW g \in Gateways, Field(g)
      PROVE  TypeOK'
  <2>1. UNCHANGED <<Process, faults, notifierVars, dbVars>>
    BY <1>4 DEF Field
  <2> QED BY <1>1, <1>3, <1>4, <2>1, FieldType DEF TypeOK
<1>5. CASE Records
  <2>1. GatewayTypeOK' /\ faults' \in 0..MaxFaults
    BY <1>5, RecordsType DEF TypeOK, NotifierTypeOK
  <2>2. UNCHANGED <<Process, notifierVars, dbVars>>
    BY <1>5 DEF Records
  <2>3. NotifierTypeOK'
    BY <2>1, <2>2 DEF TypeOK, NotifierTypeOK, notifierVars, Process
  <2> QED BY <1>3, <2>1, <2>2, <2>3 DEF TypeOK
<1>6. CASE Announces
  <2>1. GatewayTypeOK'
    BY <1>6, AnnounceType DEF Announces, TypeOK
  <2>2. NotifierTypeOK'
    BY <1>6, DispatchType DEF Announces, Announce, Process, TypeOK
  <2> QED BY <1>3, <1>6, <2>1, <2>2 DEF Announces, TypeOK
<1>7. CASE Database
  BY <1>7, DatabaseType
<1>8. CASE Refresh
  <2>1. loaded' \in {plan'.wanted, NoSettings} /\ faults' \in 0..MaxFaults
    BY <1>8, LoadType DEF Refresh, Reload, Process, TypeOK
  <2>2. NotifierTypeOK'
    <3>1. plan' = plan /\ up' = up /\ crashes' = crashes /\ spent' = 0 /\ reloadDue' = FALSE /\ sent' = sent
      BY <1>8 DEF Refresh, Reload, Process
    <3>2. spent' \in 0..RateMax
      BY <3>1
    <3> QED BY <2>1, <3>1, <3>2 DEF TypeOK, NotifierTypeOK
  <2> QED BY <1>2, <1>3, <1>8, <2>2 DEF Refresh, TypeOK
<1>9. CASE Crash
  <2>1. NotifierTypeOK'
    <3>1. crashes' \in 0..MaxCrashes
      BY <1>9 DEF Crash, TypeOK, NotifierTypeOK
    <3>2. /\ up' = FALSE /\ reloadDue' = FALSE
          /\ UNCHANGED <<plan, faults, loaded, spent, sent>>
      BY <1>9 DEF Crash, NotifierCrash
    <3> QED BY <3>1, <3>2 DEF TypeOK, NotifierTypeOK
  <2>2. GatewayTypeOK'
    BY <1>9, CrashType DEF Crash, TypeOK
  <2>3. DbTypeOK'
    BY <1>9 DEF Crash, DbCrash, dbState, TypeOK, DbTypeOK
  <2> QED BY <2>1, <2>2, <2>3 DEF TypeOK
<1>10. CASE Restart
  <2>1. loaded' \in {plan'.wanted, NoSettings} /\ faults' \in 0..MaxFaults
    BY <1>10, LoadType DEF Restart, NotifierStart, TypeOK
  <2>2. NotifierTypeOK'
    BY <1>10, <2>1 DEF Restart, NotifierStart, TypeOK, NotifierTypeOK
  <2> QED BY <1>3, <1>10, <2>2, StartType DEF Restart, TypeOK
<1>11. CASE Tick
  <2>1. NotifierTypeOK'
    BY <1>11 DEF Tick, NotifierTick, Process, TypeOK, NotifierTypeOK
  <2>2. GatewayTypeOK'
    BY <1>11, TickType DEF Tick, TypeOK, NotifierTypeOK
  <2>3. DbTypeOK'
    BY <1>11 DEF Tick, DbTick, dbState, TypeOK, NotifierTypeOK, DbTypeOK
  <2> QED BY <2>1, <2>2, <2>3 DEF TypeOK
<1>12. CASE UNCHANGED vars
  BY <1>1, <1>2, <1>3, <1>12 DEF vars, Process, TypeOK
<1> QED BY <1>4, <1>5, <1>6, <1>7, <1>8, <1>9, <1>10, <1>11, <1>12 DEF Next

LEMMA TypeStart == Init => TypeOK
<1> SUFFICES ASSUME Init PROVE TypeOK
  OBVIOUS
<1> USE NotifierAssumption, GatewayAssumption, DbAssumption DEF Init
<1>1. NotifierTypeOK
  <2>1. 0 \in 0..MaxCrashes /\ 0 \in 0..RateMax /\ 0 \in 0..MaxFaults
    OBVIOUS
  <2> QED BY <2>1 DEF NotifierInit, NotifierTypeOK
<1>2. GatewayTypeOK
  <2>1. PICK alive \in SUBSET plan.gateways :
          driver = [g \in Gateways |-> [alive |-> g \in alive, says |-> "online", cut |-> FALSE]]
    BY DEF GatewayInit
  <2>2. driver \in [Gateways -> DriverState]
    BY <2>1 DEF DriverState, Status
  <2>3. row \in [Gateways -> Row]
    BY DEF GatewayInit, Watched, Row, Ages
  <2>4. inbox \in [Gateways -> Seq(Status)]
    BY EmptySeq DEF GatewayInit
  <2>5. told \in [Gateways -> {None, "down", "up"}] /\ seen \in [Gateways -> Ages \cup {None}]
    BY DEF GatewayInit
  <2>6. /\ stale \in [Gateways -> BOOLEAN] /\ late \in [Gateways -> Status \cup {None}]
        /\ topic \in [Gateways -> Status \cup {None}]
    BY DEF GatewayInit
  <2>7. /\ beat = {} /\ todo = {} /\ at = None /\ due = FALSE
        /\ again = 0 /\ lost = 0 /\ changes = 0
    BY DEF GatewayInit
  <2>8. beat \subseteq Gateways /\ todo \subseteq Decision /\ at \in Decision \cup {None} /\ due \in BOOLEAN
    BY <2>7
  <2>9. again \in Nat /\ lost \in Nat /\ changes \in 0..MaxChanges
    BY <2>7
  <2> QED BY <2>2, <2>3, <2>4, <2>5, <2>6, <2>8, <2>9 DEF GatewayTypeOK
<1>3. DbTypeOK
  <2>1. job \in [failed : BOOLEAN, failures : 0..MaxEvents, old : BOOLEAN] /\ job.failures = 0
    BY DEF DbInit
  <2>2. missed \in Nat /\ wrongly \in Nat /\ events \in 0..MaxEvents /\ job.failures <= events
    BY <2>1 DEF DbInit
  <2>3. /\ pool = FALSE /\ query = FALSE /\ heldBack = FALSE /\ dbDue = FALSE
        /\ prev = None /\ open = {} /\ problems = {} /\ resolved = {}
    BY DEF DbInit
  <2>4. open \subseteq Keys /\ problems \subseteq open /\ resolved \subseteq Keys \ open
    BY <2>3
  <2> QED BY <2>1, <2>2, <2>3, <2>4 DEF DbTypeOK
<1> QED BY <1>1, <1>2, <1>3 DEF TypeOK

\* The state of the dispatcher and of both watchers keeps its shape: the limiter
\* never grants more than its rate, and what is to be announced is open.
THEOREM TypeCorrect == Spec => []TypeOK
<1>1. TypeOK /\ [Next]_vars => TypeOK'
  BY TypeStep
<1> QED BY TypeStart, <1>1, PTL DEF Spec

-----------------------------------------------------------------------------
(* The strengthenings. *)

\* Of the limiters that a minute can see, the present one has granted spent and
\* the ones before it RateMax at most: one before the reload, if the reload has
\* been, and one for every crash.
RateInv ==
  /\ ~up => ~reloadDue
  /\ sent <= (crashes + (IF up /\ ~reloadDue THEN 1 ELSE 0)) * RateMax + spent

\* A decision that is still to be applied contradicts the row, one that is to be
\* announced agrees with it, and a gateway has one decision at most.
DecisionInv ==
  /\ \A d \in todo : d.down # row[d.g].notified
  /\ at # None => row[at.g].notified = at.down /\ \A d \in todo : d.g # at.g

\* What the operator is taken to know of a gateway: the row, or, while the
\* announcement is under way, the row as it was before it.
Taken(g) == IF at # None /\ at.g = g THEN ~row[g].notified ELSE row[g].notified

\* The gateways about which the operator is mistaken.
Mistaken == {g \in Gateways : (told[g] = "down") # Taken(g)}

\* Each announcement that was lost makes one gateway mistaken at most, and each
\* one that was heard twice has cured one.
LedgerInv == again + Cardinality(Mistaken) <= lost

\* What core-api and the broker know of a gateway that was started and has had
\* no change: it says it is online, and says so in every minute.
Steady(g) ==
  /\ driver[g].says = "online" /\ ~driver[g].cut /\ ~stale[g] /\ late[g] = None
  /\ topic[g] \in {None, "online"} /\ (g \in beat => topic[g] = "online")
  /\ \A i \in 1..Len(inbox[g]) : inbox[g][i] = "online"
  /\ row[g].status \in {None, "online"} /\ ~row[g].notified
  /\ up /\ g \in beat /\ inbox[g] = <<>> => row[g].reported /\ row[g].age = 0
  /\ due => row[g].reported /\ row[g].age <= 1
  /\ \A d \in todo : d.g # g

HealthyInv ==
  /\ due => up
  /\ changes = 0 /\ faults = 0 => \A g \in Gateways : driver[g].alive => Steady(g)

\* A snapshot that could not be read was paid for with a fault, which covers the
\* one failed run that the next scan may pass over.
HeardInv ==
  /\ missed + (IF prev = Unread THEN 1 ELSE 0) <= faults
  /\ prev \notin {Unread, None} => IF heldBack THEN job.failures > prev ELSE job.failures >= prev

-----------------------------------------------------------------------------
(* The rate. *)

LEMMA OneMore ==
  \A c \in Nat : /\ c * RateMax \in Nat
                 /\ (c + 1) * RateMax = c * RateMax + RateMax
                 /\ (c + 2) * RateMax = c * RateMax + RateMax + RateMax
BY NotifierAssumption

\* An event that is sent has been granted by the limiter.
LEMMA DispatchRate ==
  ASSUME TypeOK, RateInv, NEW e, Dispatch(e), UNCHANGED <<up, crashes>>
  PROVE  RateInv'
<1> DEFINE k == (crashes + (IF up /\ ~reloadDue THEN 1 ELSE 0)) * RateMax
<1>1. k \in Nat /\ k' = k
  <2>1. crashes \in Nat
    BY DEF TypeOK, NotifierTypeOK
  <2>2. (crashes + 0) * RateMax \in Nat /\ (crashes + 1) * RateMax \in Nat
    BY <2>1, OneMore
  <2>3. UNCHANGED <<up, crashes, reloadDue>>
    BY DEF Dispatch
  <2> QED BY <2>2, <2>3
<1>4. sent <= k + spent
  BY DEF RateInv
<1> HIDE DEF k
<1>2. sent' = sent \/ (sent' = sent + 1 /\ spent' = spent + 1)
  BY DEF Dispatch, Heard
<1>3. spent' >= spent /\ spent \in Nat /\ sent \in Nat /\ spent' \in Nat
  BY NotifierAssumption DEF TypeOK, NotifierTypeOK, Dispatch
<1>5. sent' <= k' + spent'
  BY <1>1, <1>2, <1>3, <1>4
<1> QED BY <1>5 DEF RateInv, Dispatch, k

LEMMA RateStep ==
  ASSUME TypeOK, RateInv, [Next]_vars
  PROVE  RateInv'
<1> USE NotifierAssumption
<1>a. /\ crashes \in Nat /\ sent \in Nat /\ spent \in 0..RateMax
      /\ crashes * RateMax \in Nat /\ (crashes + 1) * RateMax = crashes * RateMax + RateMax
      /\ (crashes + 0) * RateMax = crashes * RateMax
      /\ ((crashes + 1) + 1) * RateMax = crashes * RateMax + RateMax + RateMax
  BY OneMore DEF TypeOK, NotifierTypeOK
<1>b. /\ up /\ ~reloadDue => sent <= crashes * RateMax + RateMax + spent
      /\ ~(up /\ ~reloadDue) => sent <= crashes * RateMax + spent
  BY <1>a DEF RateInv
<1>0. UNCHANGED <<up, crashes, loaded, spent, reloadDue, sent>> => RateInv'
  BY DEF RateInv
<1>1. ASSUME NEW g \in Gateways, Field(g) PROVE RateInv'
  BY <1>0, <1>1 DEF Field, Process, notifierVars
<1>2. CASE Records
  BY <1>0, <1>2 DEF Records, Process, notifierVars
<1>3. CASE Announces
  BY <1>3, DispatchRate DEF Announces, Announce, Process
<1>4. CASE Database
  <2>1. CASE DbEvent /\ UNCHANGED <<Process, faults, notifierVars, gatewayVars>>
    BY <1>0, <2>1 DEF Process, notifierVars
  <2>2. CASE DbScan /\ UNCHANGED <<Process, notifierVars, gatewayVars>>
    BY <1>0, <2>2 DEF Process, notifierVars
  <2>3. CASE DbAnnounce /\ UNCHANGED <<Process, faults, gatewayVars>>
    BY <2>3, DispatchRate DEF DbAnnounce, Process
  <2> QED BY <1>4, <2>1, <2>2, <2>3 DEF Database
<1>5. CASE Refresh
  <2>1. up /\ reloadDue /\ ~reloadDue' /\ spent' = 0 /\ UNCHANGED <<sent, up, crashes>>
    BY <1>5 DEF Refresh, Reload, Process
  <2>2. sent' <= (crashes + 1) * RateMax
    BY <1>a, <1>b, <2>1
  <2> QED BY <1>a, <2>1, <2>2 DEF RateInv
<1>6. CASE Crash
  <2>1. ~up' /\ crashes' = crashes + 1 /\ UNCHANGED <<sent, spent>>
    BY <1>6 DEF Crash, NotifierCrash
  <2>2. sent' <= (crashes + 1) * RateMax + spent'
    BY <1>a, <1>b, <2>1
  <2>3. ((crashes + 1) + 0) * RateMax = (crashes + 1) * RateMax
    BY <1>a
  <2>4. ~reloadDue'
    BY <1>6 DEF Crash, NotifierCrash
  <2> QED BY <2>1, <2>2, <2>3, <2>4 DEF RateInv
<1>7. CASE Restart
  <2>1. ~up /\ up' /\ spent' = 0 /\ UNCHANGED <<sent, crashes, reloadDue>>
    BY <1>7 DEF Restart, NotifierStart
  <2>2. sent' <= crashes * RateMax + RateMax
    BY <1>a, <1>b, <2>1
  <2>3. ~reloadDue
    BY <2>1 DEF RateInv
  <2> QED BY <1>a, <2>1, <2>2, <2>3 DEF RateInv
<1>8. CASE Tick
  <2>1. sent' = 0 /\ spent' = spent /\ crashes' = crashes
    BY <1>8 DEF Tick, NotifierTick, Process
  <2> QED BY <1>a, <1>8, <2>1 DEF RateInv, Tick, NotifierTick, Process
<1>9. CASE UNCHANGED vars
  BY <1>0, <1>9 DEF vars, notifierVars
<1> QED BY <1>1, <1>2, <1>3, <1>4, <1>5, <1>6, <1>7, <1>8, <1>9 DEF Next

\* Limiter.Allow and the reload that replaces the limiter: a minute sees twice
\* the rate, and the rate again for every crash, and never more.
THEOREM RateHolds == Spec => []RatePerLimiter
<1>1. Init => TypeOK /\ RateInv
  <2>1. ASSUME Init PROVE RateInv
    <3>1. up /\ ~reloadDue /\ sent = 0 /\ spent = 0 /\ crashes = 0
      BY <2>1 DEF Init, NotifierInit
    <3> QED BY <3>1, NotifierAssumption DEF RateInv
  <2> QED BY <2>1, TypeStart
<1>2. TypeOK /\ RateInv /\ [Next]_vars => TypeOK' /\ RateInv'
  BY TypeStep, RateStep
<1>3. TypeOK /\ RateInv => RatePerLimiter
  <2> SUFFICES ASSUME TypeOK, RateInv PROVE RatePerLimiter
    OBVIOUS
  <2>1. /\ crashes \in Nat /\ spent \in 0..RateMax /\ sent \in Nat
        /\ crashes * RateMax \in Nat
        /\ (crashes + 1) * RateMax = crashes * RateMax + RateMax
        /\ (crashes + 0) * RateMax = crashes * RateMax
        /\ (2 + crashes) * RateMax = crashes * RateMax + RateMax + RateMax
    BY OneMore, NotifierAssumption DEF TypeOK, NotifierTypeOK
  <2>2. sent <= crashes * RateMax + RateMax + spent
    BY <2>1, NotifierAssumption DEF RateInv
  <2> QED BY <2>1, <2>2, NotifierAssumption DEF RatePerLimiter
<1> QED BY <1>1, <1>2, <1>3, PTL DEF Spec

-----------------------------------------------------------------------------
(* The database watcher. *)

\* Faults are counted and never forgotten.
LEMMA FaultsGrow ==
  ASSUME TypeOK, [Next]_vars
  PROVE  faults' \in Nat /\ faults \in Nat /\ faults' >= faults
<1>1. faults \in Nat
  BY NotifierAssumption DEF TypeOK, NotifierTypeOK
<1>2. faults' = faults \/ faults' = faults + 1
  <2>1. ASSUME NEW g \in Gateways, Field(g) PROVE faults' = faults
    BY <2>1 DEF Field
  <2>2. CASE Records
    BY <2>2 DEF Records, HandleGatewayHealthUpdate, Scan, Apply
  <2>3. CASE Announces
    BY <2>3 DEF Announces
  <2>4. CASE Database
    BY <2>4 DEF Database, DbScan
  <2>5. CASE Refresh
    BY <2>5 DEF Refresh, Reload, LoadSettings
  <2>6. CASE Crash
    BY <2>6 DEF Crash
  <2>7. CASE Restart
    BY <2>7 DEF Restart, NotifierStart, LoadSettings
  <2>8. CASE Tick
    BY <2>8 DEF Tick
  <2>9. CASE UNCHANGED vars
    BY <2>9 DEF vars
  <2> QED BY <2>1, <2>2, <2>3, <2>4, <2>5, <2>6, <2>7, <2>8, <2>9 DEF Next
<1> QED BY <1>1, <1>2

\* Only the database watcher's own steps touch what it keeps of the jobs.
LEMMA DbFrame ==
  ASSUME [Next]_vars
  PROVE  \/ UNCHANGED <<wrongly, missed, prev, open, heldBack, job>>
         \/ DbEvent
         \/ DbScan
         \/ prev' = None /\ open' = {} /\ UNCHANGED <<wrongly, missed, heldBack, job>>
<1>1. ASSUME NEW g \in Gateways, Field(g) PROVE UNCHANGED dbVars
  BY <1>1 DEF Field
<1>2. CASE Records \/ Announces \/ Refresh \/ Restart \/ UNCHANGED vars
  BY <1>2 DEF Records, Announces, Refresh, Restart, vars, dbVars
<1>3. CASE Database
  BY <1>3 DEF Database, DbAnnounce, dbState
<1>4. CASE Crash
  BY <1>4 DEF Crash, DbCrash, dbState
<1>5. CASE Tick
  BY <1>5 DEF Tick, DbTick, dbState
<1> QED BY <1>1, <1>2, <1>3, <1>4, <1>5 DEF Next, dbVars

\* A watcher that has taken no snapshot has told the operator of nothing: the
\* saturation of the pool, which a first snapshot cannot see, is not declared
\* over by one.
OverInv ==
  /\ OverOnlyWhenBlind
  /\ prev = None => open = {}

LEMMA OverStep ==
  ASSUME TypeOK, OverInv, [Next]_vars
  PROVE  OverInv'
<1>0. wrongly \in Nat /\ faults \in Nat /\ faults' \in Nat /\ faults' >= faults
  BY FaultsGrow DEF TypeOK, DbTypeOK
<1>1. ASSUME wrongly' = wrongly PROVE OverOnlyWhenBlind'
  BY <1>0, <1>1 DEF OverInv, OverOnlyWhenBlind
<1>2. CASE DbScan
  <2>1. PICK j \in BOOLEAN, q \in BOOLEAN :
          /\ IF j /\ q THEN UNCHANGED faults ELSE Fail /\ faults' = faults + 1
          /\ wrongly' = IF (open \ Evaluate(j, q)) \cap Lasting(Evaluate(j, q)) = {}
                         THEN wrongly ELSE wrongly + 1
          /\ prev' = IF j THEN job.failures ELSE Unread
    BY <1>2 DEF DbScan
  <2>4. prev' # None
    <3>1. job.failures \in Nat
      BY DEF TypeOK, DbTypeOK
    <3> QED BY <2>1, <3>1, DbAssumption, NotifierAssumption
  <2>2. CASE j /\ q
    <3>1. job.failed => "job" \in Evaluate(j, q)
      BY <2>2 DEF Evaluate, Failing
    <3>2. query => "slow-query" \in Evaluate(j, q)
      BY <2>2 DEF Evaluate
    <3>3. job.old /\ "job" \notin Evaluate(j, q) => "job-stale" \in Evaluate(j, q)
      BY <2>2 DEF Evaluate
    <3>4. pool /\ prev # None => "pool" \in Evaluate(j, q)
      BY DEF Evaluate
    <3>5. prev = None => open = {}
      BY DEF OverInv
    <3>6. wrongly' = wrongly
      <4>1. (open \ Evaluate(j, q)) \cap Lasting(Evaluate(j, q)) = {}
        BY <3>1, <3>2, <3>3, <3>4, <3>5 DEF Lasting
      <4> QED BY <2>1, <4>1
    <3> QED BY <1>1, <2>4, <3>6 DEF OverInv
  <2>3. CASE ~(j /\ q)
    <3>1. faults' = faults + 1 /\ wrongly' \in {wrongly, wrongly + 1}
      BY <2>1, <2>3
    <3> QED BY <1>0, <2>4, <3>1 DEF OverInv, OverOnlyWhenBlind
  <2> QED BY <2>2, <2>3
<1>3. CASE DbEvent
  BY <1>1, <1>3 DEF DbEvent, OverInv
<1>4. CASE UNCHANGED <<wrongly, missed, prev, open, heldBack, job>>
  BY <1>1, <1>4 DEF OverInv
<1>5. CASE prev' = None /\ open' = {} /\ UNCHANGED <<wrongly, missed, heldBack, job>>
  BY <1>1, <1>5 DEF OverInv
<1> QED BY <1>2, <1>3, <1>4, <1>5, DbFrame

\* dbhealth's Evaluate and Diff: a problem that lasts is declared over only by a
\* snapshot that could not be read in full, and that a job does not succeed is
\* otherwise declared over only by the announcement that it fails.
THEOREM OverHolds == Spec => []OverOnlyWhenBlind
<1>1. Init => TypeOK /\ OverInv
  BY TypeStart DEF Init, DbInit, NotifierInit, OverInv, OverOnlyWhenBlind
<1>2. TypeOK /\ OverInv /\ [Next]_vars => TypeOK' /\ OverInv'
  BY TypeStep, OverStep
<1>3. OverInv => OverOnlyWhenBlind
  BY DEF OverInv
<1> QED BY <1>1, <1>2, <1>3, PTL DEF Spec

LEMMA HeardStep ==
  ASSUME TypeOK, HeardInv, [Next]_vars
  PROVE  HeardInv'
<1> USE DbAssumption
<1>0. /\ missed \in Nat /\ job.failures \in Nat /\ heldBack \in BOOLEAN
      /\ prev \in Nat \cup {Unread, None}
      /\ faults \in Nat /\ faults' \in Nat /\ faults' >= faults
  BY FaultsGrow DEF TypeOK, DbTypeOK
<1>1. CASE UNCHANGED <<wrongly, missed, prev, open, heldBack, job>>
  BY <1>0, <1>1 DEF HeardInv
<1>2. CASE prev' = None /\ open' = {} /\ UNCHANGED <<wrongly, missed, heldBack, job>>
  BY <1>0, <1>2 DEF HeardInv
<1>3. CASE DbEvent
  <2>1. prev' = prev /\ missed' = missed
    BY <1>3 DEF DbEvent
  <2>2. \/ heldBack' = heldBack /\ job'.failures = job.failures
        \/ heldBack' = TRUE /\ job'.failures = job.failures + 1
    <3>1. job \in [failed : BOOLEAN, failures : 0..MaxEvents, old : BOOLEAN]
      BY DEF TypeOK, DbTypeOK
    <3> QED BY <1>3, <3>1 DEF DbEvent
  <2>3. prev \notin {Unread, None} => prev <= job.failures
    BY <1>0 DEF HeardInv
  <2> QED BY <1>0, <2>1, <2>2, <2>3 DEF HeardInv
<1>4. CASE DbScan
  <2>1. PICK j \in BOOLEAN, q \in BOOLEAN :
          /\ IF j /\ q THEN UNCHANGED faults ELSE Fail /\ faults' = faults + 1
          /\ prev' = IF j THEN job.failures ELSE Unread
          /\ missed' = IF prev # None /\ j /\ heldBack /\ "job" \notin Evaluate(j, q)
                       THEN missed + 1 ELSE missed
          /\ heldBack' = (heldBack /\ ~j)
    BY <1>4 DEF DbScan
  <2>2. CASE ~j
    BY <1>0, <2>1, <2>2 DEF HeardInv
  <2>3. CASE j
    <3>a. ~heldBack'
      BY <2>1, <2>3
    <3>b. prev' = job.failures
      BY <2>1, <2>3
    <3>1. prev' = job.failures /\ prev' # Unread /\ ~heldBack' /\ job' = job
      BY <1>0, <1>4, <3>a, <3>b DEF DbScan
    <3>2. CASE missed' = missed
      BY <1>0, <3>1, <3>2 DEF HeardInv
    <3>3. CASE missed' # missed
      <4>1. prev # None /\ heldBack /\ "job" \notin Evaluate(j, q) /\ missed' = missed + 1
        BY <2>1, <3>3
      <4>2. ~Failing(prev)
        BY <2>3, <4>1 DEF Evaluate
      <4>3. prev = Unread
        BY <4>1, <4>2 DEF Failing, HeardInv
      <4>4. missed' <= faults'
        BY <1>0, <4>1, <4>3 DEF HeardInv
      <4> QED BY <1>0, <3>1, <4>1, <4>4 DEF HeardInv
    <3> QED BY <3>2, <3>3
  <2> QED BY <2>2, <2>3
<1> QED BY <1>1, <1>2, <1>3, <1>4, DbFrame

\* jobIssues looks at the failures of the snapshot before: a run that failed and
\* was followed by a good one is announced, unless that snapshot could not be read.
THEOREM HeardHolds == Spec => []FailedRunIsHeard
<1>1. Init => TypeOK /\ HeardInv
  <2> SUFFICES ASSUME Init PROVE HeardInv
    BY TypeStart
  <2>1. missed = 0 /\ prev = None /\ faults = 0
    BY DEF Init, DbInit, NotifierInit
  <2> QED BY <2>1, DbAssumption DEF HeardInv
<1>2. TypeOK /\ HeardInv /\ [Next]_vars => TypeOK' /\ HeardInv'
  BY TypeStep, HeardStep
<1>3. TypeOK /\ HeardInv => FailedRunIsHeard
  <2> SUFFICES ASSUME TypeOK, HeardInv PROVE missed <= faults
    BY DEF FailedRunIsHeard
  <2>1. missed \in Nat /\ faults \in Nat
    BY NotifierAssumption DEF TypeOK, DbTypeOK, NotifierTypeOK
  <2> QED BY <2>1 DEF HeardInv
<1> QED BY <1>1, <1>2, <1>3, PTL DEF Spec

-----------------------------------------------------------------------------
(* The decisions and the announcements. *)

\* A step that neither decides, records, announces nor crashes.
Quiet ==
  /\ UNCHANGED <<todo, at, told, again, lost>>
  /\ \A g \in Gateways : row'[g].notified = row[g].notified

LEMMA WatchFrame ==
  ASSUME TypeOK, [Next]_vars
  PROVE  Quiet \/ Scan \/ (\E d \in todo : Apply(d)) \/ Announce \/ GatewayCrash
<1>0. row \in [Gateways -> Row]
  BY DEF TypeOK, GatewayTypeOK
<1>1. ASSUME NEW g \in Gateways, Field(g) PROVE Quiet
  <2>1. UNCHANGED watchVars
    BY <1>1 DEF Field, LinkChange, DriverLost, DriverBack, StaleChange, EnableGateway, ManagerSays, HealthLoop, ReplayLate
  <2>2. row' = row \/ row' = [row EXCEPT ![g].enabled = ~@]
    BY <1>1 DEF Field, LinkChange, DriverLost, DriverBack, StaleChange, EnableGateway, ManagerSays, HealthLoop, ReplayLate
  <2>3. \A h \in Gateways : row'[h].notified = row[h].notified
    BY <1>0, <2>2 DEF Row
  <2> QED BY <2>1, <2>3 DEF Quiet, watchVars
<1>2. ASSUME NEW g \in Gateways, HandleGatewayHealthUpdate(g) PROVE Quiet
  <2>1. UNCHANGED watchVars
    BY <1>2 DEF HandleGatewayHealthUpdate
  <2>2. ASSUME NEW st, row' = [row EXCEPT ![g].status = st, ![g].age = 0, ![g].reported = TRUE]
        PROVE  \A h \in Gateways : row'[h].notified = row[h].notified
    BY <1>0, <2>2 DEF Row
  <2>3. \A h \in Gateways : row'[h].notified = row[h].notified
    BY <1>2, <2>2 DEF HandleGatewayHealthUpdate
  <2> QED BY <2>1, <2>3 DEF Quiet, watchVars
<1>3. CASE Records
  BY <1>2, <1>3 DEF Records
<1>4. CASE Database \/ Refresh \/ UNCHANGED vars
  <2>1. UNCHANGED gatewayVars
    BY <1>4 DEF Database, Refresh, vars
  <2> QED BY <2>1 DEF Quiet, gatewayVars, watchVars
<1>5. CASE Restart
  BY <1>5 DEF Restart, GatewayStart, Quiet, watchVars
<1>6. CASE Tick
  <2>1. UNCHANGED <<todo, at, told, again, lost>>
    BY <1>6 DEF Tick, GatewayTick
  <2>2. row' = [g \in Gateways |-> [row[g] EXCEPT !.age = Older(@)]]
    BY <1>6 DEF Tick, GatewayTick
  <2>3. \A h \in Gateways : row'[h].notified = row[h].notified
    BY <1>0, <2>2 DEF Row
  <2> QED BY <2>1, <2>3 DEF Quiet
<1> QED BY <1>1, <1>3, <1>4, <1>5, <1>6 DEF Next, Announces, Crash

LEMMA DecisionStep ==
  ASSUME TypeOK, DecisionInv, [Next]_vars
  PROVE  DecisionInv'
<1>0. /\ row \in [Gateways -> Row] /\ todo \subseteq Decision /\ at \in Decision \cup {None}
      /\ None \notin Decision
  BY GatewayAssumption DEF TypeOK, GatewayTypeOK
<1>1. CASE Quiet
  BY <1>0, <1>1 DEF Quiet, DecisionInv, Decision
<1>2. CASE Scan
  <2>1. at = None /\ at' = at /\ row' = row
    BY <1>2 DEF Scan
  <2>2. \A d \in todo' : d.down # row[d.g].notified
    <3>1. CASE todo' = todo
      BY <3>1 DEF DecisionInv
    <3>2. CASE todo' = UNION {Decide(g, FirstSight(g)) : g \in {x \in Gateways : row[x].enabled}}
      <4>1. \A g \in Gateways : \A d \in Decide(g, FirstSight(g)) : d.down # row[g].notified /\ d.g = g
        BY DEF Decide
      <4> QED BY <3>2, <4>1
    <3> QED BY <1>2, <3>1, <3>2 DEF Scan
  <2> QED BY <2>1, <2>2 DEF DecisionInv
<1>3. ASSUME NEW d \in todo, Apply(d) PROVE DecisionInv'
  <2>1. d \in Decision /\ d.g \in Gateways /\ d.down \in BOOLEAN /\ d # None /\ at = None
    BY <1>0, <1>3 DEF Decision, Apply
  <2>2. todo' = todo \ {d}
    BY <1>3 DEF Apply
  <2>3. CASE row' = row /\ at' = at
    BY <2>1, <2>2, <2>3 DEF DecisionInv
  <2>4. CASE row' = [row EXCEPT ![d.g].notified = d.down] /\ at' = d
    <3>1. \A e \in todo' : e.g # d.g
      <4> SUFFICES ASSUME NEW e \in todo, e # d, e.g = d.g PROVE FALSE
        BY <2>2
      <4>1. e \in Decision /\ e.down \in BOOLEAN /\ e.down # row[d.g].notified /\ d.down # row[d.g].notified
        BY <1>0 DEF DecisionInv, Decision
      <4>2. row[d.g].notified \in BOOLEAN
        BY <1>0, <2>1 DEF Row
      <4>3. e.down = d.down
        BY <2>1, <4>1, <4>2
      <4> QED BY <2>1, <4>1, <4>3 DEF Decision
    <3>2. \A e \in todo' : row'[e.g] = row[e.g]
      BY <1>0, <2>2, <2>4, <3>1 DEF Decision
    <3>3. row'[d.g].notified = d.down
      BY <1>0, <2>1, <2>4 DEF Row
    <3> QED BY <2>1, <2>2, <2>4, <3>1, <3>2, <3>3 DEF DecisionInv
  <2> QED BY <1>3, <2>3, <2>4 DEF Apply
<1>4. CASE Announce
  BY <1>4 DEF Announce, DecisionInv
<1>5. CASE GatewayCrash
  BY <1>5 DEF GatewayCrash, DecisionInv
<1> QED BY <1>1, <1>2, <1>3, <1>4, <1>5, WatchFrame

LEMMA MistakenFinite ==
  ASSUME TypeOK
  PROVE  /\ IsFiniteSet(Mistaken) /\ Cardinality(Mistaken) \in Nat
         /\ again \in Nat /\ lost \in Nat
<1>1. Mistaken \subseteq Gateways
  BY DEF Mistaken
<1> QED BY <1>1, FS_Subset, FS_CardinalityType, GatewayAssumption DEF TypeOK, GatewayTypeOK

\* A step that loses the announcement under way adds one mistaken gateway at most.
LEMMA LostOne ==
  ASSUME TypeOK, LedgerInv, at # None, lost' = lost + 1, at' = None, UNCHANGED <<told, again, row>>
  PROVE  LedgerInv'
<1>0. at.g \in Gateways
  BY DEF TypeOK, GatewayTypeOK, Decision
<1>1. Mistaken' \subseteq Mistaken \cup {at.g}
  BY DEF Mistaken, Taken
<1>2. /\ IsFiniteSet(Mistaken \cup {at.g})
      /\ Cardinality(Mistaken \cup {at.g}) <= Cardinality(Mistaken) + 1
      /\ Cardinality(Mistaken \cup {at.g}) \in Nat
  BY MistakenFinite, FS_AddElement, FS_CardinalityType
<1>3. Cardinality(Mistaken') <= Cardinality(Mistaken \cup {at.g}) /\ Cardinality(Mistaken') \in Nat
  BY <1>1, <1>2, FS_Subset, FS_CardinalityType
<1> QED BY <1>2, <1>3, MistakenFinite DEF LedgerInv

LEMMA LedgerStep ==
  ASSUME TypeOK, DecisionInv, LedgerInv, [Next]_vars
  PROVE  LedgerInv'
<1>0. /\ row \in [Gateways -> Row] /\ todo \subseteq Decision /\ at \in Decision \cup {None}
      /\ told \in [Gateways -> {None, "down", "up"}] /\ None \notin Decision /\ None \notin {"down", "up"}
  BY GatewayAssumption DEF TypeOK, GatewayTypeOK
<1>s. Mistaken' = Mistaken /\ UNCHANGED <<again, lost>> => LedgerInv'
  BY DEF LedgerInv
<1>1. CASE Quiet
  <2>1. \A g \in Gateways : told'[g] = told[g] /\ Taken(g)' = Taken(g)
    BY <1>1 DEF Quiet, Taken
  <2> QED BY <1>1, <1>s, <2>1 DEF Quiet, Mistaken
<1>2. CASE Scan
  <2>1. UNCHANGED <<at, row, told, again, lost>>
    BY <1>2 DEF Scan
  <2> QED BY <1>s, <2>1 DEF Mistaken, Taken
<1>3. ASSUME NEW d \in todo, Apply(d) PROVE LedgerInv'
  <2>1. d \in Decision /\ d.g \in Gateways /\ d.down \in BOOLEAN /\ d # None /\ at = None
    BY <1>0, <1>3 DEF Decision, Apply
  <2>2. UNCHANGED <<told, again, lost>>
    BY <1>3 DEF Apply
  <2>3. CASE row' = row /\ at' = at
    BY <1>s, <2>2, <2>3 DEF Mistaken, Taken
  <2>4. CASE row' = [row EXCEPT ![d.g].notified = d.down] /\ at' = d
    <3>1. row'[d.g].notified = d.down /\ \A g \in Gateways \ {d.g} : row'[g] = row[g]
      BY <1>0, <2>1, <2>4 DEF Row
    <3>2. d.down # row[d.g].notified /\ row[d.g].notified \in BOOLEAN
      BY <1>0, <2>1 DEF DecisionInv, Row
    <3>3. Taken(d.g) = row[d.g].notified /\ Taken(d.g)' = ~d.down
      BY <2>1, <2>4, <3>1 DEF Taken
    <3>4. Taken(d.g)' = Taken(d.g)
      BY <2>1, <3>2, <3>3
    <3>5. \A g \in Gateways \ {d.g} : Taken(g)' = Taken(g)
      BY <2>1, <2>4, <3>1 DEF Taken
    <3>6. Mistaken' = Mistaken
      BY <2>2, <3>4, <3>5 DEF Mistaken
    <3> QED BY <1>s, <2>2, <3>6
  <2> QED BY <1>3, <2>3, <2>4 DEF Apply
<1>4. CASE Announce
  <2>1. /\ at # None /\ at \in Decision /\ at.g \in Gateways /\ at.down \in BOOLEAN
        /\ at' = None /\ row' = row
    BY <1>0, <1>4 DEF Announce, Decision
  <2>2. CASE ~Heard(EventOf(at))
    BY <1>4, <2>1, <2>2, LostOne DEF Announce
  <2>3. CASE Heard(EventOf(at))
    <3>1. /\ told' = [told EXCEPT ![at.g] = Word(at)]
          /\ again' = (IF told[at.g] = Word(at) THEN again + 1 ELSE again)
          /\ lost' = lost
      BY <1>4, <2>3 DEF Announce
    <3>2. row[at.g].notified = at.down
      BY <2>1 DEF DecisionInv
    <3>0. PICK h \in Gateways : h = at.g
      BY <2>1
    <3>3. h \notin Mistaken'
      <4>1. (told'[h] = "down") = at.down
        <5>1. told'[h] = Word(at)
          BY <1>0, <2>1, <3>0, <3>1
        <5>2. CASE at.down
          BY <5>1, <5>2 DEF Word
        <5>3. CASE ~at.down
          BY <2>1, <5>1, <5>3 DEF Word
        <5> QED BY <2>1, <5>2, <5>3
      <4>2. Taken(h)' = at.down
        BY <2>1, <3>0, <3>2 DEF Taken
      <4>3. (told'[h] = "down") = Taken(h)'
        BY <4>1, <4>2
      <4>4. h \in Mistaken' => ~((told'[h] = "down") = Taken(h)')
        BY DEF Mistaken
      <4> QED BY <4>3, <4>4
    <3>4. \A g \in Gateways \ {at.g} : told'[g] = told[g] /\ Taken(g)' = Taken(g)
      BY <1>0, <2>1, <3>1 DEF Taken
    <3>5. Mistaken' \subseteq Mistaken \ {at.g}
      BY <3>0, <3>3, <3>4 DEF Mistaken
    <3>6. CASE told[at.g] = Word(at)
      <4>1. at.g \in Mistaken
        <5>1. (told[at.g] = "down") = at.down
          <6>1. CASE at.down
            BY <3>6, <6>1 DEF Word
          <6>2. CASE ~at.down
            BY <2>1, <3>6, <6>2 DEF Word
          <6> QED BY <2>1, <6>1, <6>2
        <5>2. Taken(at.g) = ~at.down
          BY <2>1, <3>2 DEF Taken
        <5>3. (told[at.g] = "down") # Taken(at.g)
          BY <2>1, <5>1, <5>2
        <5> QED BY <2>1, <5>3 DEF Mistaken
      <4>2. IsFiniteSet(Mistaken \ {at.g}) /\ Cardinality(Mistaken \ {at.g}) = Cardinality(Mistaken) - 1
        BY <4>1, MistakenFinite, FS_RemoveElement
      <4>3. Cardinality(Mistaken') <= Cardinality(Mistaken \ {at.g}) /\ Cardinality(Mistaken') \in Nat
        BY <3>5, <4>2, FS_Subset, FS_CardinalityType
      <4>4. again' = again + 1
        BY <3>1, <3>6
      <4> QED BY <3>1, <4>2, <4>3, <4>4, MistakenFinite DEF LedgerInv
    <3>7. CASE told[at.g] # Word(at)
      <4>1. Cardinality(Mistaken') <= Cardinality(Mistaken) /\ Cardinality(Mistaken') \in Nat
        BY <3>5, MistakenFinite, FS_Subset, FS_CardinalityType
      <4>2. again' = again
        BY <3>1, <3>7
      <4> QED BY <3>1, <4>1, <4>2, MistakenFinite DEF LedgerInv
    <3> QED BY <3>6, <3>7
  <2> QED BY <2>2, <2>3
<1>5. CASE GatewayCrash
  <2>1. at' = None /\ UNCHANGED <<told, again, row>>
    BY <1>5 DEF GatewayCrash
  <2>2. CASE at = None
    BY <1>5, <1>s, <2>1, <2>2 DEF GatewayCrash, Mistaken, Taken
  <2>3. CASE at # None
    BY <1>5, <2>1, <2>3, LostOne DEF GatewayCrash
  <2> QED BY <2>2, <2>3
<1> QED BY <1>1, <1>2, <1>3, <1>4, <1>5, WatchFrame

\* The ledger of the announcements is in order in every reachable state.
LEMMA LedgerHolds == Spec => [](TypeOK /\ DecisionInv /\ LedgerInv)
<1>1. Init => TypeOK /\ DecisionInv /\ LedgerInv
  <2> SUFFICES ASSUME Init PROVE DecisionInv /\ LedgerInv
    BY TypeStart
  <2>1. /\ todo = {} /\ at = None /\ again = 0 /\ lost = 0
        /\ told = [g \in Gateways |-> None]
        /\ row = [g \in Gateways |-> [status |-> None, age |-> 0, reported |-> FALSE,
                                      notified |-> FALSE, enabled |-> Watched(g)]]
    BY DEF Init, GatewayInit
  <2>2. Mistaken = {}
    BY <2>1, GatewayAssumption DEF Mistaken, Taken
  <2>3. Cardinality(Mistaken) = 0
    BY <2>2, FS_EmptySet
  <2> QED BY <2>1, <2>3 DEF DecisionInv, LedgerInv
<1>2. TypeOK /\ DecisionInv /\ LedgerInv /\ [Next]_vars => TypeOK' /\ DecisionInv' /\ LedgerInv'
  BY TypeStep, DecisionStep, LedgerStep
<1> QED BY <1>1, <1>2, PTL DEF Spec

\* apply of the gateway watcher, "records first and announces second": the same
\* thing is said twice in a row at most as often as an announcement was lost.
THEOREM SaidOnceHolds == Spec => []SaidOnce
<1>1. TypeOK /\ LedgerInv => SaidOnce
  BY MistakenFinite DEF LedgerInv, SaidOnce
<1> QED BY <1>1, LedgerHolds, PTL

\* With no announcement lost, the operator knows what the row says he was told.
THEOREM ToldHolds == Spec => []ToldAsRecorded
<1>1. TypeOK /\ LedgerInv => ToldAsRecorded
  <2> SUFFICES ASSUME TypeOK, LedgerInv, lost = 0, at = None, NEW g \in Gateways
               PROVE  (told[g] = "down") = row[g].notified
    BY DEF ToldAsRecorded
  <2>1. Cardinality(Mistaken) = 0
    BY MistakenFinite DEF LedgerInv
  <2>2. Mistaken = {}
    BY <2>1, MistakenFinite, FS_EmptySet
  <2>3. (told[g] = "down") = Taken(g)
    BY <2>2 DEF Mistaken
  <2> QED BY <2>3 DEF Taken
<1> QED BY <1>1, LedgerHolds, PTL

-----------------------------------------------------------------------------
(* The healthy gateways. *)

\* While nothing has been refused and nothing has happened to a gateway, a step
\* of the field is a driver's heartbeat or the replay of its spool.
LEMMA NothingHappened ==
  ASSUME TypeOK, [Next]_vars, changes' = 0, faults' = 0
  PROVE  /\ changes = 0 /\ faults = 0 /\ driver' = driver /\ stale' = stale
         /\ \A g \in Gateways : Field(g) => HealthLoop(g) \/ ReplayLate(g)
<1>1. faults = 0
  BY FaultsGrow
<1>2. changes \in Nat
  BY GatewayAssumption DEF TypeOK, GatewayTypeOK
<1>3. ASSUME NEW g \in Gateways, Field(g)
      PROVE  (HealthLoop(g) \/ ReplayLate(g)) /\ UNCHANGED <<driver, stale, changes>>
  <2>1. ASSUME NEW what, Change(what, g) PROVE FALSE
    BY <1>2, <2>1 DEF Change
  <2>2. HealthLoop(g) \/ ReplayLate(g)
    BY <1>3, <2>1 DEF Field, LinkChange, DriverLost, DriverBack, StaleChange, EnableGateway, ManagerSays
  <2> QED BY <2>2 DEF HealthLoop, ReplayLate
<1>4. ASSUME NEW g \in Gateways, HandleGatewayHealthUpdate(g) PROVE UNCHANGED <<driver, stale, changes>>
  BY <1>4 DEF HandleGatewayHealthUpdate
<1>5. Records => UNCHANGED <<driver, stale, changes>>
  BY <1>4 DEF Records, Scan, Apply, linkVars
<1>6. Announces \/ Database \/ Refresh \/ UNCHANGED vars => UNCHANGED <<driver, stale, changes>>
  BY DEF Announces, Announce, Database, Refresh, vars, gatewayVars, linkVars
<1>7. Crash \/ Restart \/ Tick => UNCHANGED <<driver, stale, changes>>
  BY DEF Crash, GatewayCrash, Restart, GatewayStart, Tick, GatewayTick
<1>8. UNCHANGED <<driver, stale, changes>>
  BY <1>3, <1>5, <1>6, <1>7 DEF Next
<1> QED BY <1>1, <1>3, <1>8

\* A step that leaves alone what concerns a gateway leaves it steady.
LEMMA SteadyFrame ==
  ASSUME NEW g \in Gateways, Steady(g),
         driver'[g] = driver[g], stale'[g] = stale[g], late'[g] = late[g], topic'[g] = topic[g],
         inbox'[g] = inbox[g], row'[g] = row[g], up' = up,
         g \in beat' => g \in beat, due' => due, \A d \in todo' : d \in todo
  PROVE  Steady(g)'
BY DEF Steady

\* A heartbeat, or the replay of its own spool, of a gateway.
LEMMA HeartbeatSteady ==
  ASSUME TypeOK, NEW g \in Gateways, Steady(g), NEW h \in Gateways, HealthLoop(h) \/ ReplayLate(h),
         up' = up
  PROVE  Steady(g)'
<1>0. /\ inbox \in [Gateways -> Seq(Status)] /\ topic \in [Gateways -> Status \cup {None}]
      /\ late \in [Gateways -> Status \cup {None}] /\ None \notin Status /\ up \in BOOLEAN
  BY GatewayAssumption DEF TypeOK, GatewayTypeOK, NotifierTypeOK
<1>1. CASE h # g
  <2>1. /\ driver' = driver /\ stale' = stale /\ late'[g] = late[g] /\ topic'[g] = topic[g]
        /\ inbox'[g] = inbox[g] /\ row' = row /\ due' = due /\ todo' = todo
    BY <1>0, <1>1 DEF HealthLoop, ReplayLate, PublishHealth, Deliver, watchVars
  <2>2. g \in beat' => g \in beat
    BY <1>1 DEF HealthLoop, ReplayLate
  <2> QED BY <2>1, <2>2, SteadyFrame
<1>2. CASE h = g
  <2>1. HealthLoop(g) /\ ~driver[g].cut /\ driver[g].says = "online"
    BY <1>2 DEF Steady, ReplayLate
  <2>2. Deliver(g, "online") /\ late' = late
    BY <2>1 DEF HealthLoop, PublishHealth
  <2>3. topic'[g] = "online"
    BY <1>0, <2>2 DEF Deliver
  <2>4. IF up THEN inbox'[g] = Append(inbox[g], "online") ELSE inbox'[g] = inbox[g]
    BY <1>0, <2>2 DEF Deliver
  <2>5. inbox[g] \in Seq(Status) /\ "online" \in Status
    BY <1>0 DEF Status
  <2>6. /\ \A i \in 1..Len(inbox'[g]) : inbox'[g][i] = "online"
        /\ up => inbox'[g] # <<>>
    <3>1. CASE up
      <4>1. /\ Len(inbox'[g]) = Len(inbox[g]) + 1 /\ Len(inbox[g]) \in Nat
            /\ inbox'[g][Len(inbox[g]) + 1] = "online"
            /\ \A i \in 1..Len(inbox[g]) : inbox'[g][i] = inbox[g][i]
        BY <2>4, <2>5, <3>1, AppendProperties, LenProperties
      <4>2. inbox'[g] # <<>>
        BY <4>1
      <4> QED BY <4>1, <4>2 DEF Steady
    <3>2. CASE ~up
      BY <2>4, <3>2 DEF Steady
    <3> QED BY <3>1, <3>2
  <2>7. UNCHANGED <<driver, stale, row, due, todo>>
    BY <2>1 DEF HealthLoop, watchVars
  <2>8. late'[g] = None /\ up' = up
    BY <2>2 DEF Steady
  <2> QED BY <2>3, <2>6, <2>7, <2>8 DEF Steady
<1> QED BY <1>1, <1>2

\* core-api handles what the broker has brought it, without a refused query.
LEMMA HandledSteady ==
  ASSUME TypeOK, NEW g \in Gateways, Steady(g), NEW h \in Gateways, HandleGatewayHealthUpdate(h),
         faults = 0, faults' = 0, up' = up
  PROVE  Steady(g)'
<1>0. /\ inbox \in [Gateways -> Seq(Status)] /\ row \in [Gateways -> Row]
  BY DEF TypeOK, GatewayTypeOK
<1>1. /\ up /\ inbox[h] # <<>> /\ inbox' = [inbox EXCEPT ![h] = Tail(@)]
      /\ row' = [row EXCEPT ![h].status = StatusOf(h, Head(inbox[h])), ![h].age = 0, ![h].reported = TRUE]
      /\ UNCHANGED <<driver, stale, late, topic, beat, due, todo>>
  BY DEF HandleGatewayHealthUpdate, watchVars
<1>2. CASE h # g
  <2>1. inbox'[g] = inbox[g] /\ row'[g] = row[g]
    BY <1>0, <1>1, <1>2
  <2> QED BY <1>1, <2>1, SteadyFrame
<1>3. CASE h = g
  <2>1. inbox[g] \in Seq(Status) /\ inbox[g] # <<>> /\ inbox'[g] = Tail(inbox[g])
    BY <1>0, <1>1, <1>3
  <2>2. /\ Len(inbox[g]) \in Nat \ {0} /\ Head(inbox[g]) = inbox[g][1]
        /\ Len(inbox'[g]) = Len(inbox[g]) - 1
        /\ \A i \in 1..Len(inbox'[g]) : inbox'[g][i] = inbox[g][i + 1]
    BY <2>1, HeadTailProperties, LenProperties, EmptySeq
  <2>3. Head(inbox[g]) = "online" /\ \A i \in 1..Len(inbox'[g]) : inbox'[g][i] = "online"
    BY <2>2 DEF Steady
  <2>4. StatusOf(g, Head(inbox[g])) = "online"
    BY <2>3 DEF StatusOf, Steady
  <2>5. /\ row'[g].status = "online" /\ row'[g].age = 0 /\ row'[g].reported = TRUE
        /\ row'[g].notified = row[g].notified
    <3>1. row[g] \in Row
      BY <1>0
    <3>2. row'[g] = [row[g] EXCEPT !.status = "online", !.age = 0, !.reported = TRUE]
      BY <1>0, <1>1, <1>3, <2>4
    <3> QED BY <3>1, <3>2 DEF Row
  <2> QED BY <1>1, <2>3, <2>5 DEF Steady
<1> QED BY <1>2, <1>3

\* A scan finds nothing to say of it, the report being fresh.
LEMMA ScannedSteady ==
  ASSUME TypeOK, NEW g \in Gateways, Steady(g), Scan, faults = 0, faults' = 0, up' = up
  PROVE  Steady(g)'
<1>0. row \in [Gateways -> Row] /\ Silence > 1 /\ Silence \in Nat
  BY GatewayAssumption DEF TypeOK, GatewayTypeOK
<1>1. /\ due /\ due' = FALSE /\ UNCHANGED <<linkVars, row>>
      /\ todo' = UNION {Decide(x, FirstSight(x)) : x \in {y \in Gateways : row[y].enabled}}
  BY DEF Scan
<1>2. row[g].reported /\ row[g].age <= 1 /\ row[g].age \in Nat
  BY <1>0, <1>1 DEF Steady, Row, Ages
<1>3. ASSUME NEW s PROVE Decide(g, s) = {}
  <2>1. ~(SilentFor(g, s) >= Silence)
    BY <1>0, <1>2 DEF SilentFor
  <2>2. row[g].status \notin {"offline", "error"}
    BY GatewayAssumption DEF Steady, Status
  <2>3. ~Down(g, s) /\ Down(g, s) \in BOOLEAN
    BY <2>1, <2>2 DEF Down
  <2>4. ~row[g].notified /\ row[g].notified \in BOOLEAN
    BY <1>0 DEF Steady, Row
  <2>5. Down(g, s) = row[g].notified
    BY <2>3, <2>4
  <2> QED BY <2>5 DEF Decide
<1>4. \A d \in todo' : d.g # g
  <2>1. \A x \in Gateways : \A d \in Decide(x, FirstSight(x)) : d.g = x
    BY DEF Decide
  <2>2. Decide(g, FirstSight(g)) = {}
    BY <1>3
  <2> QED BY <1>1, <2>1, <2>2
<1> QED BY <1>1, <1>4 DEF Steady, linkVars

\* After a crash and a start the broker's retained status is on its way again.
LEMMA RestartedSteady ==
  ASSUME TypeOK, NEW g \in Gateways, Steady(g), ~due, GatewayStart
  PROVE  Steady(g)'
<1>1. inbox'[g] = IF topic[g] = None THEN <<>> ELSE <<topic[g]>>
  BY DEF GatewayStart
<1>2. UNCHANGED <<driver, stale, late, topic, beat, row, due, todo>>
  BY DEF GatewayStart, watchVars
<1>3. CASE topic[g] = None
  <2>1. inbox'[g] = <<>> /\ g \notin beat /\ Len(<<>>) = 0
    BY <1>1, <1>3, GatewayAssumption, EmptySeq DEF Steady, Status
  <2>2. \A i \in 1..Len(inbox'[g]) : inbox'[g][i] = "online"
    BY <2>1
  <2> QED BY <1>2, <2>1, <2>2 DEF Steady
<1>4. CASE topic[g] # None
  <2>1. inbox'[g] = <<"online">>
    BY <1>1, <1>4 DEF Steady
  <2>2. inbox'[g] # <<>> /\ \A i \in 1..Len(inbox'[g]) : inbox'[g][i] = "online"
    BY <2>1
  <2> QED BY <1>2, <2>2 DEF Steady
<1> QED BY <1>3, <1>4

\* A minute ends with the report of this minute handled, if core-api runs.
LEMMA TickedSteady ==
  ASSUME TypeOK, NEW g \in Gateways, Steady(g), driver[g].alive, GatewayTick, up' = up
  PROVE  Steady(g)'
<1>0. row \in [Gateways -> Row] /\ row[g] \in Row /\ up \in BOOLEAN
  BY DEF TypeOK, GatewayTypeOK, NotifierTypeOK
<1>1. /\ g \in beat /\ (up => inbox[g] = <<>>)
      /\ row'[g] = [row[g] EXCEPT !.age = Older(@)]
      /\ due' = up /\ beat' = {}
      /\ UNCHANGED <<driver, stale, late, topic, inbox, todo>>
  BY DEF GatewayTick
<1>2. /\ row'[g].status = row[g].status /\ row'[g].notified = row[g].notified
      /\ row'[g].reported = row[g].reported /\ row'[g].age = Older(row[g].age)
  BY <1>0, <1>1 DEF Row
<1>3. up => row[g].reported /\ row[g].age = 0
  BY <1>1 DEF Steady
<1>4. Older(0) \in {0, 1}
  BY DEF Older
<1>5. due' => row'[g].reported /\ row'[g].age <= 1
  BY <1>1, <1>2, <1>3, <1>4
<1> QED BY <1>1, <1>2, <1>5 DEF Steady

\* The watcher's timer runs only in a running core-api.
LEMMA DueStep ==
  ASSUME due => up, [Next]_vars
  PROVE  due' => up'
<1>1. ASSUME NEW g \in Gateways, Field(g) PROVE UNCHANGED <<due, up>>
  BY <1>1 DEF Field, LinkChange, DriverLost, DriverBack, StaleChange, EnableGateway, ManagerSays, HealthLoop,
              ReplayLate, watchVars, Process
<1>2. ASSUME NEW g \in Gateways, HandleGatewayHealthUpdate(g) PROVE UNCHANGED due
  BY <1>2 DEF HandleGatewayHealthUpdate, watchVars
<1>3. CASE Records
  <2>1. up' = up
    BY <1>3 DEF Records, Process
  <2>2. due' = due \/ ~due'
    BY <1>2, <1>3 DEF Records, Scan, Apply
  <2> QED BY <2>1, <2>2
<1>4. Announces \/ Database \/ Refresh \/ UNCHANGED vars => UNCHANGED <<due, up>>
  BY DEF Announces, Announce, Database, Refresh, vars, gatewayVars, watchVars, Process
<1>5. Crash => due' = FALSE
  BY DEF Crash, GatewayCrash
<1>6. Restart => due' = due /\ up' = TRUE
  BY DEF Restart, GatewayStart, watchVars
<1>7. Tick => due' = up /\ up' = up
  BY DEF Tick, GatewayTick, Process
<1> QED BY <1>1, <1>3, <1>4, <1>5, <1>6, <1>7 DEF Next

LEMMA HealthyStep ==
  ASSUME TypeOK, HealthyInv, [Next]_vars
  PROVE  HealthyInv'
<1>0. due' => up'
  BY DueStep DEF HealthyInv
<1> SUFFICES ASSUME changes' = 0, faults' = 0, NEW g \in Gateways, driver'[g].alive
             PROVE  Steady(g)'
  BY <1>0 DEF HealthyInv
<1>1. /\ changes = 0 /\ faults = 0 /\ driver' = driver
      /\ \A h \in Gateways : Field(h) => HealthLoop(h) \/ ReplayLate(h)
  BY NothingHappened
<1>2. Steady(g) /\ driver[g].alive
  BY <1>1 DEF HealthyInv
<1>3. ASSUME NEW h \in Gateways, Field(h) PROVE Steady(g)'
  BY <1>1, <1>2, <1>3, HeartbeatSteady DEF Field, Process
<1>4. CASE Records
  <2>1. up' = up
    BY <1>4 DEF Records, Process
  <2>2. ASSUME NEW h \in Gateways, HandleGatewayHealthUpdate(h) PROVE Steady(g)'
    BY <1>1, <1>2, <2>1, <2>2, HandledSteady
  <2>3. CASE Scan
    BY <1>1, <1>2, <2>1, <2>3, ScannedSteady
  <2>4. ASSUME NEW d \in todo, Apply(d) PROVE Steady(g)'
    <3>1. d.g # g /\ todo' = todo \ {d} /\ due' = due /\ UNCHANGED linkVars
      BY <1>2, <2>4 DEF Apply, Steady
    <3>2. row' = [row EXCEPT ![d.g].notified = d.down]
      BY <1>1, <2>4 DEF Apply
    <3>3. row'[g] = row[g]
      BY <3>1, <3>2 DEF TypeOK, GatewayTypeOK
    <3> QED BY <1>2, <2>1, <3>1, <3>3, SteadyFrame DEF linkVars
  <2> QED BY <1>4, <2>2, <2>3, <2>4 DEF Records
<1>5. CASE Announces
  <2>1. UNCHANGED <<linkVars, row, due, todo, up>>
    BY <1>5 DEF Announces, Announce, Process
  <2> QED BY <1>2, <2>1, SteadyFrame DEF linkVars
<1>6. CASE Database \/ Refresh \/ UNCHANGED vars
  <2>1. UNCHANGED <<gatewayVars, up>>
    BY <1>6 DEF Database, Refresh, vars, Process
  <2> QED BY <1>2, <2>1, SteadyFrame DEF gatewayVars, linkVars, watchVars
<1>7. CASE Crash
  <2>1. /\ ~up' /\ ~due' /\ inbox'[g] = <<>> /\ todo' = {}
        /\ UNCHANGED <<driver, stale, late, topic, beat, row>>
    BY <1>7 DEF Crash, GatewayCrash
  <2>2. Len(<<>>) = 0
    BY EmptySeq
  <2>3. \A i \in 1..Len(inbox'[g]) : inbox'[g][i] = "online"
    BY <2>1, <2>2
  <2> QED BY <1>2, <2>1, <2>3 DEF Steady
<1>8. CASE Restart
  BY <1>2, <1>8, RestartedSteady DEF Restart, HealthyInv
<1>9. CASE Tick
  BY <1>2, <1>9, TickedSteady DEF Tick, Process
<1> QED BY <1>3, <1>4, <1>5, <1>6, <1>7, <1>8, <1>9 DEF Next

\* "A freshly started core-api does not declare an entire plant lost": a gateway
\* to which nothing happens is never recorded as down, through any number of
\* crashes and for any number of gateways.
THEOREM HealthyHolds == Spec => []HealthyLeftAlone
<1>1. Init => TypeOK /\ HealthyInv
  <2> SUFFICES ASSUME Init PROVE HealthyInv
    BY TypeStart
  <2>1. PICK alive \in SUBSET plan.gateways :
          driver = [g \in Gateways |-> [alive |-> g \in alive, says |-> "online", cut |-> FALSE]]
    BY DEF Init, GatewayInit
  <2>2. /\ stale = [g \in Gateways |-> FALSE] /\ late = [g \in Gateways |-> None]
        /\ topic = [g \in Gateways |-> None] /\ inbox = [g \in Gateways |-> <<>>]
        /\ row = [g \in Gateways |-> [status |-> None, age |-> 0, reported |-> FALSE,
                                      notified |-> FALSE, enabled |-> Watched(g)]]
        /\ ~due /\ beat = {} /\ todo = {}
    BY DEF Init, GatewayInit
  <2>3. Len(<<>>) = 0
    BY EmptySeq
  <2>4. ASSUME NEW g \in Gateways PROVE Steady(g)
    BY <2>1, <2>2, <2>3 DEF Steady
  <2> QED BY <2>2, <2>4 DEF HealthyInv
<1>2. TypeOK /\ HealthyInv /\ [Next]_vars => TypeOK' /\ HealthyInv'
  BY TypeStep, HealthyStep
<1>3. HealthyInv => HealthyLeftAlone
  BY DEF HealthyInv, HealthyLeftAlone, Steady
<1> QED BY <1>1, <1>2, <1>3, PTL DEF Spec
=============================================================================
