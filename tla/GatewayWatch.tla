----------------------------- MODULE GatewayWatch -----------------------------
(***************************************************************************)
(* Who is told that a gateway is down.  The drivers say how they are on    *)
(* the retained topic sys/health, at every change and every ten seconds,   *)
(* and the driver manager when it starts or stops one;                     *)
(* core-api writes it to the gateways table (handleGatewayHealthUpdate);   *)
(* a watcher in the same process judges the rows once a minute and tells   *)
(* the operator of changes (internal/gatewayhealth).                       *)
(*                                                                         *)
(* Time is counted in minutes and only as far as Silence: the age of a     *)
(* report stops there.  The processes keep up with the clock: a minute     *)
(* ends when the drivers that can have spoken and core-api, if it runs,    *)
(* has handled and judged what there is.                                   *)
(***************************************************************************)
EXTENDS Notifier, FiniteSets

CONSTANTS
  Gateways,
  Silence,      \* six minutes
  MaxChanges    \* bound on what happens to gateways

Status == {"online", "offline", "error"}
Ages == 0..Silence
Decision == [g : Gateways, down : BOOLEAN]
DriverState == [alive : BOOLEAN, says : Status, cut : BOOLEAN]
Row == [status : Status \cup {None}, age : Ages, reported : BOOLEAN, notified : BOOLEAN, enabled : BOOLEAN]

ASSUME GatewayAssumption ==
  /\ IsFiniteSet(Gateways)
  /\ Silence \in Nat \ {0, 1}   \* a report lasts longer than a turn of the watcher
  /\ MaxChanges \in Nat
  /\ None \notin Status \cup {"down", "up"} \cup Decision

VARIABLES
  driver,   \* per gateway: alive, what it says of its link, is it cut off from the broker
  stale,    \* has its device sent nothing for stale_after_minutes
  late,     \* the newest status in the driver's spool
  topic,    \* the retained status
  inbox,    \* what is on its way to core-api
  row,      \* gateways: status, age of the report, was there one, was "down" notified, enabled
  seen,     \* the watcher's first sight of a gateway, as an age
  due,      \* the watcher's timer
  beat,     \* drivers that have spoken in this minute
  todo,     \* decisions of a scan that are still to be applied
  at,       \* the decision that is recorded and not yet announced
  told,     \* what the operator was last told of a gateway
  again,    \* how often the same thing twice in a row (history)
  lost,     \* announcements recorded and never heard (history)
  changes

linkVars == <<driver, stale, late, topic, inbox, beat, changes>>
watchVars == <<seen, due, todo, at, told, again, lost>>
gatewayVars == <<linkVars, row, watchVars>>

GatewayTypeOK ==
  /\ driver \in [Gateways -> DriverState]
  /\ stale \in [Gateways -> BOOLEAN] /\ late \in [Gateways -> Status \cup {None}]
  /\ topic \in [Gateways -> Status \cup {None}]
  /\ inbox \in [Gateways -> Seq(Status)]
  /\ row \in [Gateways -> Row]
  /\ seen \in [Gateways -> Ages \cup {None}] /\ due \in BOOLEAN
  /\ beat \subseteq Gateways /\ todo \subseteq Decision /\ at \in Decision \cup {None}
  /\ told \in [Gateways -> {None, "down", "up"}] /\ again \in Nat /\ lost \in Nat
  /\ changes \in 0..MaxChanges

Watched(g) == g \in plan.gateways

GatewayInit ==
  /\ \E alive \in SUBSET plan.gateways :
       driver = [g \in Gateways |-> [alive |-> g \in alive, says |-> "online", cut |-> FALSE]]
  /\ stale = [g \in Gateways |-> FALSE] /\ late = [g \in Gateways |-> None]
  /\ topic = [g \in Gateways |-> None] /\ inbox = [g \in Gateways |-> <<>>]
  /\ row = [g \in Gateways |-> [status |-> None, age |-> 0, reported |-> FALSE,
                                notified |-> FALSE, enabled |-> Watched(g)]]
  /\ seen = [g \in Gateways |-> None] /\ due = FALSE /\ beat = {}
  /\ todo = {} /\ at = None
  /\ told = [g \in Gateways |-> None] /\ again = 0 /\ lost = 0
  /\ changes = 0

-----------------------------------------------------------------------------
(* The drivers. *)

Deliver(g, st) ==
  /\ topic' = [topic EXCEPT ![g] = st]
  /\ inbox' = IF up THEN [inbox EXCEPT ![g] = Append(@, st)] ELSE inbox

\* publishHealth; without a broker the message goes to the spool.
PublishHealth(g, st) ==
  IF driver[g].cut
  THEN late' = [late EXCEPT ![g] = st] /\ UNCHANGED <<topic, inbox>>
  ELSE Deliver(g, st) /\ UNCHANGED late

HealthLoop(g) ==
  /\ driver[g].alive /\ g \notin beat
  /\ beat' = beat \cup {g}
  /\ PublishHealth(g, driver[g].says)
  /\ UNCHANGED <<driver, stale, changes, row, watchVars>>

Change(what, g) ==
  /\ what \in plan.env /\ Watched(g) /\ changes < MaxChanges
  /\ changes' = changes + 1

\* setConnectionState of a driver.
LinkChange(g) ==
  /\ Change("link", g) /\ driver[g].alive
  /\ \E st \in Status \ {driver[g].says} :
       driver' = [driver EXCEPT ![g].says = st] /\ PublishHealth(g, st)
  /\ UNCHANGED <<stale, beat, row, watchVars>>

\* The driver is gone, or out of reach.  The broker publishes its last will,
\* unless the broker itself was replaced.
DriverLost(g) ==
  /\ Change("lost", g) /\ driver[g].alive /\ ~driver[g].cut
  /\ \E gone \in BOOLEAN : driver' = [driver EXCEPT ![g].alive = ~gone, ![g].cut = ~gone]
  /\ Deliver(g, "offline") \/ UNCHANGED <<topic, inbox>>
  /\ UNCHANGED <<stale, late, beat, row, watchVars>>

\* It starts again, with its device not yet connected, or is back on the network.
DriverBack(g) ==
  /\ Change("lost", g) /\ (~driver[g].alive \/ driver[g].cut)
  /\ driver' = [driver EXCEPT ![g] = [alive |-> TRUE, cut |-> FALSE,
                                      says |-> IF @.alive THEN @.says ELSE "offline"]]
  /\ UNCHANGED <<stale, late, topic, inbox, beat, row, watchVars>>

\* drainSpool: an old status goes out after newer ones, and is retained.
ReplayLate(g) ==
  /\ driver[g].alive /\ ~driver[g].cut /\ late[g] # None
  /\ Deliver(g, late[g])
  /\ late' = [late EXCEPT ![g] = None]
  /\ UNCHANGED <<driver, stale, beat, changes, row, watchVars>>

\* publishGatewayStatus of the driver manager, which retains its own view in the
\* driver's place: "online" of a container it started or adopted, "error" where it
\* could not start one, "offline" when it has stopped it.
ManagerSays(g) ==
  /\ Change("manager", g)
  /\ \E st \in IF driver[g].alive THEN {"online"} ELSE {"error", "offline"} : Deliver(g, st)
  /\ UNCHANGED <<driver, stale, late, beat, row, watchVars>>

\* The device goes silent, or sends again.
StaleChange(g) ==
  /\ Change("stale", g)
  /\ stale' = [stale EXCEPT ![g] = ~@]
  /\ UNCHANGED <<driver, late, topic, inbox, beat, row, watchVars>>

\* Update of a gateway; switching it off is announced in the driver's place.
EnableGateway(g) ==
  /\ Change("enable", g) /\ up
  /\ row' = [row EXCEPT ![g].enabled = ~@]
  /\ IF row[g].enabled THEN Deliver(g, "offline") ELSE UNCHANGED <<topic, inbox>>
  /\ UNCHANGED <<driver, stale, late, beat, watchVars>>

-----------------------------------------------------------------------------
(* core-api. *)

(* Mutant: a driver that is online is taken at its word. *)
TrustsTheLink(g, st) == st

\* The freshness check of handleGatewayHealthUpdate.
StatusOf(g, st) == IF st = "online" /\ stale[g] THEN "offline" ELSE st

(* Mutant: the row is written only when the status changes. *)
UpdatesOnChange(g) ==
  /\ up /\ inbox[g] # <<>>
  /\ inbox' = [inbox EXCEPT ![g] = Tail(@)]
  /\ LET st == StatusOf(g, Head(inbox[g]))
     IN row' = IF row[g].status = st THEN row
               ELSE [row EXCEPT ![g].status = st, ![g].age = 0, ![g].reported = TRUE]
  /\ UNCHANGED <<driver, stale, late, topic, beat, changes, watchVars, faults>>

\* handleGatewayHealthUpdate.  The write can be refused; so can the freshness
\* query, and then the driver is taken at its word.
HandleGatewayHealthUpdate(g) ==
  /\ up /\ inbox[g] # <<>>
  /\ inbox' = [inbox EXCEPT ![g] = Tail(@)]
  /\ LET write(st) == row' = [row EXCEPT ![g].status = st, ![g].age = 0, ![g].reported = TRUE]
     IN \/ write(StatusOf(g, Head(inbox[g]))) /\ UNCHANGED faults
        \/ Fail /\ faults' = faults + 1 /\ (write(Head(inbox[g])) \/ UNCHANGED row)
  /\ UNCHANGED <<driver, stale, late, topic, beat, changes, watchVars>>

\* silentFor of Decide.
SilentFor(g, s) == IF row[g].reported THEN row[g].age ELSE s

\* Decide
Down(g, s) == row[g].status \in {"offline", "error"} \/ SilentFor(g, s) >= Silence
Decide(g, s) == IF Down(g, s) = row[g].notified THEN {} ELSE {[g |-> g, down |-> Down(g, s)]}

\* firstSight and Forget.
FirstSight(g) == IF ~row[g].enabled THEN None ELSE IF seen[g] = None THEN 0 ELSE seen[g]

\* Scan: all rows are read and judged before anything is announced.
Scan ==
  /\ up /\ due /\ todo = {} /\ at = None
  /\ due' = FALSE
  /\ \/ /\ seen' = [g \in Gateways |-> FirstSight(g)]
        /\ todo' = UNION {Decide(g, FirstSight(g)) : g \in {x \in Gateways : row[x].enabled}}
        /\ UNCHANGED faults
     \/ Fail /\ faults' = faults + 1 /\ UNCHANGED <<seen, todo>>
  /\ UNCHANGED <<linkVars, row, at, told, again, lost>>

(* Mutant: the announcement does not wait for the record. *)
AppliesAnyway(d) ==
  /\ up /\ d \in todo /\ at = None
  /\ todo' = todo \ {d} /\ at' = d
  /\ \/ row' = [row EXCEPT ![d.g].notified = d.down] /\ UNCHANGED faults
     \/ Fail /\ faults' = faults + 1 /\ UNCHANGED row
  /\ UNCHANGED <<linkVars, seen, due, told, again, lost>>

\* apply: the record; a refused one ends the matter until the next scan.
Apply(d) ==
  /\ up /\ d \in todo /\ at = None
  /\ todo' = todo \ {d}
  /\ \/ row' = [row EXCEPT ![d.g].notified = d.down] /\ at' = d /\ UNCHANGED faults
     \/ Fail /\ faults' = faults + 1 /\ UNCHANGED <<row, at>>
  /\ UNCHANGED <<linkVars, seen, due, told, again, lost>>

\* gatewayAnnouncer
EventOf(d) == [severity |-> IF d.down THEN "critical" ELSE "info", status |-> "ACTIVE"]
Word(d) == IF d.down THEN "down" ELSE "up"

\* ... and the announcement.
Announce ==
  /\ up /\ at # None
  /\ at' = None
  /\ Dispatch(EventOf(at))
  /\ IF Heard(EventOf(at))
     THEN /\ told' = [told EXCEPT ![at.g] = Word(at)]
          /\ again' = IF told[at.g] = Word(at) THEN again + 1 ELSE again
          /\ UNCHANGED lost
     ELSE lost' = lost + 1 /\ UNCHANGED <<told, again>>
  /\ UNCHANGED <<linkVars, row, seen, due, todo>>

GatewayCrash ==
  /\ lost' = IF at = None THEN lost ELSE lost + 1
  /\ todo' = {} /\ at' = None /\ due' = FALSE
  /\ inbox' = [g \in Gateways |-> <<>>]
  /\ seen' = [g \in Gateways |-> None]
  /\ UNCHANGED <<driver, stale, late, topic, beat, changes, row, told, again>>

\* The subscription brings the retained statuses, old as they may be.
GatewayStart ==
  /\ inbox' = [g \in Gateways |-> IF topic[g] = None THEN <<>> ELSE <<topic[g]>>]
  /\ UNCHANGED <<driver, stale, late, topic, beat, changes, row, watchVars>>

Older(age) == IF age = None \/ age = Silence THEN age ELSE age + 1

GatewayTick ==
  /\ \A g \in Gateways : driver[g].alive => g \in beat
  /\ up => ~due /\ todo = {} /\ at = None /\ \A g \in Gateways : inbox[g] = <<>>
  /\ row' = [g \in Gateways |-> [row[g] EXCEPT !.age = Older(@)]]
  /\ seen' = [g \in Gateways |-> Older(seen[g])]
  /\ due' = up /\ beat' = {}
  /\ UNCHANGED <<driver, stale, late, topic, inbox, changes, todo, at, told, again, lost>>

-----------------------------------------------------------------------------
\* A gateway that cannot be relied on, whatever core-api knows of it.
OutOfOrder(g) == ~driver[g].alive \/ driver[g].cut \/ driver[g].says # "online" \/ stale[g]

\* apply's order, "records first and announces second": the operator hears the
\* same thing of a gateway twice in a row only after an announcement was lost,
\* to a crash between the two or to the dispatcher.
SaidOnce == again <= lost

\* What the operator was last told is what the row says he was told, unless an
\* announcement was lost.
ToldAsRecorded ==
  lost = 0 /\ at = None =>
    \A g \in Gateways : (told[g] = "down") = row[g].notified

\* "A freshly started core-api does not declare an entire plant lost": a gateway
\* to which nothing happens is never recorded as down, however long core-api was
\* away and whatever the row said when it came back.
HealthyLeftAlone ==
  changes = 0 /\ faults = 0 =>
    \A g \in Gateways : driver[g].alive => ~row[g].notified

\* A gateway that stays out of order is recorded as down in the end, and one that
\* stays in order as up: through lost wills, statuses replayed late, refused
\* writes and crashes.
RecordSettles ==
  \A g \in Gateways : \A b \in BOOLEAN :
    <>[](row[g].enabled /\ OutOfOrder(g) = b) => <>[](row[g].notified = b)
=============================================================================
