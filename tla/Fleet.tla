-------------------------------- MODULE Fleet --------------------------------
(***************************************************************************)
(* Who polls a gateway.  The platform's database says which box, or the    *)
(* server, is responsible for it (internal/edgesync); a box mirrors its    *)
(* share over a link that may be down; and on the server and on each box a *)
(* driver-manager brings the containers of its host in line with what it   *)
(* reads, every ten seconds.  OTA commands bounce the containers between   *)
(* two syncs, and a manager can stop or crash while its containers run on. *)
(*                                                                         *)
(* One organization; driver types, images, networks and the environment of *)
(* a container are left out: a container that runs is one the manager      *)
(* would keep (adoptMismatch).                                             *)
(***************************************************************************)
EXTENDS Integers

CONSTANTS
  Gateways, Boxes, Server, None,
  MaxTries,     \* maxStartRetries
  Plans,        \* what moves: [gateways, boxes, all, env, changes]; all: the box
                \* that takes everything to begin with, changes: bound on the
                \* edits of the platform and the events of a host
  MaxFaults,    \* bound on refused calls of Docker or of the database
  MaxCrashes    \* bound on stops and crashes of managers

ASSUME FleetAssumption ==
  /\ Server \notin Boxes /\ None \notin Boxes \cup {Server}
  /\ MaxTries \in Nat \ {0} /\ MaxFaults \in Nat /\ MaxCrashes \in Nat

\* A plan names boxes that there are, and one of them at most takes everything.
ASSUME PlansAssumption ==
  \A p \in Plans :
    /\ p.all \subseteq p.boxes /\ p.boxes \subseteq Boxes /\ \A b, other \in p.all : b = other
    /\ p.changes \in Nat

Hosts == Boxes \cup {Server}
Wish == {"absent", "off", "on"}
Entry == [running : BOOLEAN, tries : 0..MaxTries, cooling : BOOLEAN]

ASSUME NoneAssumption == None \notin Entry \cup {"assigned", "all"} \cup Gateways

VARIABLES
  plan,
  gw,         \* gateways: is the row there and enabled, which box it is assigned to
  box,        \* edge_agents: the scope of a box, None: no such row
  key,        \* the box's API key: valid, or revoked
  cut,        \* boxes without a link to the platform
  answer,     \* the configuration a box was served and has still to write
  mirror,     \* what a box holds of the gateways
  alive,      \* managers that run
  list,       \* what a sync has read and not yet acted on
  known,      \* gatewayStates
  cont,       \* the host's containers: none, running, stopped
  ota,        \* gateways an OTA command has still to bounce
  bounced,    \* the one it has stopped and not yet started
  changes, faults, crashes

platformVars == <<plan, gw, box, key, cut>>
managerVars == <<alive, list, known, ota, bounced>>
copyVars == <<answer, mirror>>
vars == <<platformVars, copyVars, managerVars, cont, changes, faults, crashes>>

TypeOK ==
  /\ plan \in Plans
  /\ gw \in [Gateways -> [wish : Wish, agent : Boxes \cup {None}]]
  /\ box \in [Boxes -> {"assigned", "all", None}] /\ key \in [Boxes -> BOOLEAN] /\ cut \subseteq Boxes
  /\ mirror \in [Boxes -> [Gateways -> Wish]]
  /\ answer \in [Boxes -> [Gateways -> Wish] \cup {None}]
  /\ alive \subseteq Hosts /\ list \in [Hosts -> [Gateways -> Wish] \cup {None}]
  /\ known \in [Hosts -> [Gateways -> Entry \cup {None}]]
  /\ cont \in [Hosts -> [Gateways -> {"none", "running", "stopped"}]]
  /\ ota \in [Hosts -> SUBSET Gateways] /\ bounced \in [Hosts -> Gateways \cup {None}]
  /\ changes \in 0..plan.changes /\ faults \in 0..MaxFaults /\ crashes \in 0..MaxCrashes
  /\ \A b, other \in Boxes : box[b] = "all" /\ box[other] = "all" => b = other

Nothing == [g \in Gateways |-> "absent"]

Init ==
  /\ plan \in Plans
  /\ gw = [g \in Gateways |-> [wish |-> IF g \in plan.gateways THEN "on" ELSE "absent", agent |-> None]]
  /\ box = [b \in Boxes |-> IF b \in plan.all THEN "all" ELSE IF b \in plan.boxes THEN "assigned" ELSE None]
  /\ key = [b \in Boxes |-> b \in plan.boxes] /\ cut = {}
  /\ mirror = [b \in Boxes |-> Nothing] /\ answer = [b \in Boxes |-> None]
  /\ alive = plan.boxes \cup {Server} /\ list = [h \in Hosts |-> None]
  /\ known = [h \in Hosts |-> [g \in Gateways |-> None]]
  /\ cont = [h \in Hosts |-> [g \in Gateways |-> "none"]]
  /\ ota = [h \in Hosts |-> {}] /\ bounced = [h \in Hosts |-> None]
  /\ changes = 0 /\ faults = 0 /\ crashes = 0

-----------------------------------------------------------------------------
(* The platform. *)

\* Owner: the box it is assigned to, else the box that takes everything, else
\* the server.
Owner(g) ==
  IF gw[g].agent # None /\ box[gw[g].agent] # None THEN gw[g].agent
  ELSE IF \E b \in Boxes : box[b] = "all" THEN CHOOSE b \in Boxes : box[b] = "all"
  ELSE Server

OwnedBy(h) == [g \in Gateways |-> IF Owner(g) = h THEN gw[g].wish ELSE "absent"]

Change(what) == what \in plan.env /\ changes < plan.changes /\ changes' = changes + 1
Untouched == UNCHANGED <<copyVars, managerVars, cont, faults, crashes>>

\* Update of a gateway: one request may switch it and hand it over.
\* checkAgentBelongs lets only a box of the organization through.
UpdateGateway(g) ==
  /\ Change("update") /\ gw[g].wish # "absent"
  /\ \E w \in {"off", "on"}, b \in {x \in Boxes : box[x] # None} \cup {None} :
       gw' = [gw EXCEPT ![g] = [wish |-> w, agent |-> b]]
  /\ gw' # gw
  /\ UNCHANGED <<plan, box, key, cut>> /\ Untouched

DeleteGateway(g) ==
  /\ Change("delete") /\ gw[g].wish # "absent"
  /\ gw' = [gw EXCEPT ![g].wish = "absent"]
  /\ UNCHANGED <<plan, box, key, cut>> /\ Untouched

\* Update of a box: one of them at most takes everything.
SetScope(b) ==
  /\ Change("scope") /\ box[b] # None
  /\ \E s \in {"assigned", "all"} \ {box[b]} :
       /\ s = "all" => \A other \in Boxes : box[other] # "all"
       /\ box' = [box EXCEPT ![b] = s]
  /\ UNCHANGED <<plan, gw, key, cut>> /\ Untouched

(* Mutant: the row goes and the key stays. *)
DeleteRowOnly(b) ==
  /\ Change("remove") /\ box[b] # None
  /\ box' = [box EXCEPT ![b] = None]
  /\ gw' = [g \in Gateways |-> IF gw[g].agent = b THEN [gw[g] EXCEPT !.agent = None] ELSE gw[g]]
  /\ UNCHANGED <<plan, key, cut>> /\ Untouched

\* Delete of a box: its keys are revoked with it.
DeleteBox(b) ==
  /\ Change("remove") /\ box[b] # None
  /\ key' = [key EXCEPT ![b] = FALSE]
  /\ box' = [box EXCEPT ![b] = None]
  /\ gw' = [g \in Gateways |-> IF gw[g].agent = b THEN [gw[g] EXCEPT !.agent = None] ELSE gw[g]]
  /\ UNCHANGED <<plan, cut>> /\ Untouched

LinkDown(b) ==
  /\ Change("cut") /\ b \in plan.boxes \ cut
  /\ cut' = cut \cup {b}
  /\ UNCHANGED <<plan, gw, box, key>> /\ Untouched

LinkUp(b) ==
  /\ b \in cut
  /\ cut' = cut \ {b}
  /\ UNCHANGED <<plan, gw, box, key, changes>> /\ Untouched

-----------------------------------------------------------------------------
(* A box's copy. *)

\* GatewaysFor: a key with no box behind it is one from before boxes had
\* identities, and gets every gateway.
GatewaysFor(b) == IF box[b] = None THEN [g \in Gateways |-> gw[g].wish] ELSE OwnedBy(b)

\* Get of the edge configuration: an answer, when the link is up and the key good.
Served(b) == b \notin cut /\ key[b]

\* Docker, or the database, may refuse a call.
Fault == "fault" \in plan.env /\ faults < MaxFaults

\* Fetch: the platform answers.  A platform out of reach, or one that refuses the
\* key, leaves the copy as it is.  An answer the copy already holds changes nothing.
Fetch(b) ==
  /\ b \in alive /\ Served(b) /\ answer[b] = None
  /\ mirror[b] # GatewaysFor(b)
  /\ answer' = [answer EXCEPT ![b] = GatewaysFor(b)]
  /\ UNCHANGED <<platformVars, mirror, managerVars, cont, changes, faults, crashes>>

\* Apply, one transaction, at whatever time the answer gets there: what it does not
\* name is deleted.
Apply(b) ==
  /\ b \in alive /\ answer[b] # None
  /\ mirror' = [mirror EXCEPT ![b] = answer[b]]
  /\ answer' = [answer EXCEPT ![b] = None]
  /\ UNCHANGED <<platformVars, managerVars, cont, changes, faults, crashes>>

\* syncOnce when the answer is lost with the link, or the transaction fails: the
\* copy stays as it is.
NotApplied(b) ==
  /\ b \in alive /\ answer[b] # None
  /\ answer' = [answer EXCEPT ![b] = None]
  /\ \/ b \in cut /\ UNCHANGED faults
     \/ Fault /\ faults' = faults + 1
  /\ UNCHANGED <<platformVars, mirror, managerVars, cont, changes, crashes>>

-----------------------------------------------------------------------------
(* driver-manager: the containers of a host. *)

Running(k) == k # None /\ k.running
Up == [running |-> TRUE, tries |-> 0, cooling |-> FALSE]
Down(k) == [k EXCEPT !.running = FALSE]

\* The containers and entries of one gateway after a call, and how Docker took it:
\* "ok", "inspect" (it could not be asked), "op" (it refused), "remove" (it stopped
\* the container and kept it).
Outcome == {"ok", "inspect", "op", "remove"}

\* isContainerRunning at the head of the loop: an error counts as not running.
Verified(k, c, how) == IF Running(k) /\ (c # "running" \/ how = "inspect") THEN Down(k) ELSE k

\* startGatewayContainer: adopts what runs, recreates what does not; and what
\* syncGateways notes of a failure.
Started(k, c, how) ==
  IF how # "op" THEN [c |-> "running", k |-> Up]
  ELSE [c |-> IF c = "running" THEN c ELSE "none",
        k |-> [running |-> FALSE, cooling |-> TRUE,
               tries |-> IF k = None THEN 1 ELSE IF k.tries = MaxTries THEN MaxTries ELSE k.tries + 1]]

\* stopGatewayContainer
Stopped(k, c, how) ==
  IF c = "none" THEN [c |-> c, k |-> Down(k)]
  ELSE IF how = "op" THEN [c |-> c, k |-> k]
  ELSE [c |-> IF how = "remove" THEN "stopped" ELSE "none", k |-> Down(k)]

Same(k, c) == [c |-> c, k |-> k]

(* Mutant: after MaxTries failures nobody tries again. *)
RestingForGood(k) == k # None /\ k.tries >= MaxTries

\* failureCooldown has not passed since the last of MaxTries failures.
Resting(k) == k # None /\ k.tries >= MaxTries /\ k.cooling

(* Mutant: an entry whose gateway is gone is dropped and its container left. *)
SyncedForgets(want, known0, c, how) ==
  IF want = "absent" THEN [c |-> c, k |-> None]
  ELSE LET k == Verified(known0, c, how)
       IN IF want = "off" THEN IF Running(k) THEN Stopped(k, c, how) ELSE Same(k, c)
          ELSE IF Running(k) \/ Resting(k) THEN Same(k, c) ELSE Started(k, c, how)

\* One turn of the loops of syncGateways.  An entry whose gateway is gone is
\* dropped once its container is stopped.
Synced(want, known0, c, how) ==
  IF want = "absent"
  THEN LET s == IF Running(known0) THEN Stopped(known0, c, how) ELSE Same(known0, c)
       IN [c |-> s.c, k |-> IF Running(s.k) THEN s.k ELSE None]
  ELSE LET k == Verified(known0, c, how)
       IN IF want = "off" THEN IF Running(k) THEN Stopped(k, c, how) ELSE Same(k, c)
          ELSE IF Running(k) \/ Resting(k) THEN Same(k, c) ELSE Started(k, c, how)

\* syncGateways reads; then, outside the lock, it pulls images.
SyncRead(h) ==
  /\ h \in alive /\ list[h] = None
  /\ list' = [list EXCEPT ![h] = IF h = Server THEN OwnedBy(Server) ELSE mirror[h]]
  /\ UNCHANGED <<platformVars, copyVars, alive, known, ota, bounced, cont, changes, faults, crashes>>

\* ... and acts, under the lock.  One gateway at most has trouble with Docker.
SyncAct(h) ==
  /\ h \in alive /\ list[h] # None
  /\ list' = [list EXCEPT ![h] = None]
  /\ \E sick \in {{}} \cup {{g} : g \in Gateways}, how \in Outcome :
       LET after == [g \in Gateways |->
                       Synced(list[h][g], known[h][g], cont[h][g], IF g \in sick THEN how ELSE "ok")]
       IN /\ sick = {} <=> how = "ok"
          /\ how # "ok" => Fault
          /\ faults' = faults + (IF how = "ok" THEN 0 ELSE 1)
          /\ cont' = [cont EXCEPT ![h] = [g \in Gateways |-> after[g].c]]
          /\ known' = [known EXCEPT ![h] = [g \in Gateways |-> after[g].k]]
  /\ UNCHANGED <<platformVars, copyVars, alive, ota, bounced, changes, crashes>>

\* The cooldown after MaxTries failures is over.
CoolOff(h, g) ==
  /\ h \in alive /\ known[h][g] # None /\ known[h][g].cooling
  /\ known' = [known EXCEPT ![h][g].cooling = FALSE]
  /\ UNCHANGED <<platformVars, copyVars, alive, list, ota, bounced, cont, changes, faults, crashes>>

\* handleOTAUpdate and handleOTARestart: the gateways are chosen once,
OtaBegin(h) ==
  /\ Change("ota") /\ h \in alive /\ ota[h] = {} /\ bounced[h] = None
  /\ ota' = [ota EXCEPT ![h] = {g \in Gateways : Running(known[h][g])}]
  /\ ota'[h] # {}
  /\ UNCHANGED <<platformVars, copyVars, alive, list, known, bounced, cont, faults, crashes>>

\* stopped one by one, whatever has become of them, errors ignored,
OtaStop(h, g) ==
  /\ h \in alive /\ g \in ota[h] /\ bounced[h] = None
  /\ ota' = [ota EXCEPT ![h] = @ \ {g}] /\ bounced' = [bounced EXCEPT ![h] = g]
  /\ \E how \in {"ok", "op", "remove"} :
       LET s == IF Running(known[h][g]) THEN Stopped(known[h][g], cont[h][g], how) ELSE Same(known[h][g], cont[h][g])
       IN /\ how # "ok" => Fault
          /\ faults' = faults + (IF how = "ok" THEN 0 ELSE 1)
          /\ cont' = [cont EXCEPT ![h][g] = s.c] /\ known' = [known EXCEPT ![h][g] = s.k]
  /\ UNCHANGED <<platformVars, copyVars, alive, list, changes, crashes>>

(* Mutant: the new container is not entered in the books. *)
OtaStartUnrecorded(h) ==
  /\ h \in alive /\ bounced[h] # None
  /\ bounced' = [bounced EXCEPT ![h] = None]
  /\ cont' = [cont EXCEPT ![h][bounced[h]] = "running"]
  /\ UNCHANGED <<platformVars, copyVars, alive, list, known, ota, changes, faults, crashes>>

\* and started again.  An update lets go of the lock in between.
OtaStart(h) ==
  /\ h \in alive /\ bounced[h] # None
  /\ bounced' = [bounced EXCEPT ![h] = None]
  /\ LET g == bounced[h]
     IN \/ /\ cont' = [cont EXCEPT ![h][g] = "running"] /\ known' = [known EXCEPT ![h][g] = Up]
           /\ UNCHANGED faults
        \/ /\ Fault /\ faults' = faults + 1
           /\ cont' = [cont EXCEPT ![h][g] = IF @ = "running" THEN @ ELSE "none"]
           /\ UNCHANGED known
  /\ UNCHANGED <<platformVars, copyVars, alive, list, ota, changes, crashes>>

\* Somebody removes a container by hand.
RemoveContainer(h, g) ==
  /\ Change("byhand") /\ cont[h][g] # "none"
  /\ cont' = [cont EXCEPT ![h][g] = "none"]
  /\ UNCHANGED <<platformVars, copyVars, managerVars, faults, crashes>>

\* The manager ends: on a signal it stops the containers it knows of, in a crash
\* it leaves them.
ManagerEnd(h) ==
  /\ h \in alive /\ crashes < MaxCrashes /\ crashes' = crashes + 1
  /\ alive' = alive \ {h}
  /\ list' = [list EXCEPT ![h] = None] /\ ota' = [ota EXCEPT ![h] = {}] /\ bounced' = [bounced EXCEPT ![h] = None]
  /\ known' = [known EXCEPT ![h] = [g \in Gateways |-> None]]
  /\ \/ /\ "stop" \in plan.env
        /\ cont' = [cont EXCEPT ![h] = [g \in Gateways |->
             IF Running(known[h][g]) /\ @[g] = "running" THEN "stopped" ELSE @[g]]]
     \/ "crash" \in plan.env /\ UNCHANGED cont
  /\ answer' = [b \in Boxes |-> IF b = h THEN None ELSE answer[b]]
  /\ UNCHANGED <<platformVars, mirror, changes, faults>>

ManagerStart(h) ==
  /\ h \notin alive /\ h \in plan.boxes \cup {Server}
  /\ alive' = alive \cup {h}
  /\ UNCHANGED <<platformVars, copyVars, list, known, ota, bounced, cont, changes, faults, crashes>>

-----------------------------------------------------------------------------
Manager(h) ==
  \/ SyncRead(h) \/ SyncAct(h) \/ OtaBegin(h) \/ OtaStart(h) \/ ManagerEnd(h) \/ ManagerStart(h)
  \/ \E g \in Gateways : CoolOff(h, g) \/ OtaStop(h, g) \/ RemoveContainer(h, g)

Next ==
  \/ \E g \in Gateways : UpdateGateway(g) \/ DeleteGateway(g)
  \/ \E b \in Boxes : SetScope(b) \/ DeleteBox(b) \/ LinkDown(b) \/ LinkUp(b) \/ Fetch(b) \/ Apply(b) \/ NotApplied(b)
  \/ \E h \in Hosts : Manager(h)

\* The loops of the managers turn, a link and a manager come back.
Fairness ==
  /\ \A b \in Boxes : WF_vars(Fetch(b)) /\ WF_vars(Apply(b)) /\ WF_vars(LinkUp(b))
  /\ \A h \in Hosts :
       /\ WF_vars(SyncRead(h)) /\ WF_vars(SyncAct(h)) /\ WF_vars(OtaStart(h)) /\ WF_vars(ManagerStart(h))
       /\ WF_vars(\E g \in Gateways : OtaStop(h, g))
       /\ \A g \in Gateways : WF_vars(CoolOff(h, g))

Spec == Init /\ [][Next]_vars /\ Fairness

-----------------------------------------------------------------------------
Polls(h, g) == cont[h][g] = "running"

\* What runs is in the manager's books: nothing but a lost answer of Docker or the
\* end of a manager makes a container nobody will stop.
BooksAreComplete ==
  faults = 0 /\ crashes = 0 =>
    \A h \in Hosts, g \in Gateways : Polls(h, g) => Running(known[h][g])

\* "A box removed from the list but still plugged in" polls what it polled: the
\* platform answers it nothing more, whoever the gateways now belong to, and its
\* copy changes once at most, by an answer that was on its way when it was removed.
RemovedBoxTakesNothing ==
  [][\A b \in Boxes : box[b] = None /\ answer[b] = None => UNCHANGED <<answer[b], mirror[b]>>]_vars

\* A gateway that stays somebody's and enabled is polled there in the end: through
\* starts that fail, cooldowns, links that go down, OTA commands, containers
\* removed by hand and managers that end.
OwnerPolls ==
  \A g \in Gateways, h \in Hosts :
    <>[](gw[g].wish = "on" /\ Owner(g) = h) => <>[]Polls(h, g)

\* "Every gateway is polled by exactly one thing", in the end: handed over,
\* switched off, deleted, or resurrected by an OTA command that had chosen it
\* before, it stops everywhere but at its owner.  That takes managers that do not
\* end, answers of Docker that are not lost, and boxes that are not removed.
NobodyElsePolls ==
  \A g \in Gateways, h \in Hosts :
    /\ [](faults = 0 /\ crashes = 0)
    /\ <>[](gw[g].wish # "on" \/ Owner(g) # h)
    /\ [](h \in Boxes => key[h])
    => <>[]~Polls(h, g)

\* "Every gateway is polled by exactly one thing: its box, or the server", in the
\* end and whatever happened before.
OnePoller ==
  \A g \in Gateways, h \in Hosts :
    <>[](gw[g].wish # "on" \/ Owner(g) # h) => <>[]~Polls(h, g)
=============================================================================
