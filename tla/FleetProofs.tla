----------------------------- MODULE FleetProofs -----------------------------
(***************************************************************************)
(* What the fleet keeps to, for any number of boxes and gateways, any      *)
(* plans and any bounds.                                                   *)
(***************************************************************************)
EXTENDS Fleet, TLAPS

Containers == {"none", "running", "stopped"}

-----------------------------------------------------------------------------
(* One gateway in the loops of a manager. *)

\* The books' entries for a container that runs, and for one that does not.
LEMMA EntryType ==
  /\ Up \in Entry /\ Up # None /\ Up.running
  /\ \A k \in Entry : Down(k) \in Entry /\ ~Down(k).running
<1>1. Up \in Entry /\ Up.running
  BY FleetAssumption DEF Up, Entry
<1>2. ASSUME NEW k \in Entry PROVE Down(k) \in Entry /\ ~Down(k).running
  BY DEF Down, Entry
<1> QED BY <1>1, <1>2, NoneAssumption

LEMMA RunningEntry ==
  ASSUME NEW k \in Entry \cup {None}
  PROVE  /\ Running(k) \in BOOLEAN
         /\ Running(k) => k \in Entry /\ k.running
  BY NoneAssumption DEF Running, Entry

\* stopGatewayContainer: a stop that is not refused leaves nothing that runs.
LEMMA StopOne ==
  ASSUME NEW k \in Entry, NEW c \in Containers, NEW how \in Outcome
  PROVE  /\ Stopped(k, c, how).c \in Containers /\ Stopped(k, c, how).k \in Entry
         /\ how = "ok" => Stopped(k, c, how).c # "running"
<1>1. Down(k) \in Entry
  BY EntryType
<1> QED BY <1>1 DEF Stopped, Containers

\* startGatewayContainer: a start that is not refused is entered in the books.
LEMMA StartOne ==
  ASSUME NEW k \in Entry \cup {None}, NEW c \in Containers, NEW how \in Outcome
  PROVE  /\ Started(k, c, how).c \in Containers /\ Started(k, c, how).k \in Entry
         /\ how = "ok" => Running(Started(k, c, how).k)
<1>1. CASE how # "op"
  BY <1>1, EntryType DEF Started, Containers, Running
<1>2. CASE how = "op"
  <2>1. (IF k = None THEN 1 ELSE IF k.tries = MaxTries THEN MaxTries ELSE k.tries + 1) \in 0..MaxTries
    BY FleetAssumption, NoneAssumption DEF Entry
  <2>2. Started(k, c, how).k \in Entry
    BY <1>2, <2>1 DEF Started, Entry
  <2>3. Started(k, c, how).c \in Containers
    BY <1>2 DEF Started, Containers
  <2> QED BY <1>2, <2>2, <2>3
<1> QED BY <1>1, <1>2

\* isContainerRunning: the books are corrected, never invented.
LEMMA VerifyOne ==
  ASSUME NEW k \in Entry \cup {None}, NEW c \in Containers, NEW how \in Outcome
  PROVE  /\ Verified(k, c, how) \in Entry \cup {None}
         /\ how = "ok" /\ c = "running" /\ Running(k) => Running(Verified(k, c, how))
<1>1. Running(k) => Down(k) \in Entry
  BY RunningEntry, EntryType
<1> QED BY <1>1 DEF Verified

\* One turn of the loops of syncGateways keeps books that were complete complete.
LEMMA SyncOne ==
  ASSUME NEW want \in Wish, NEW k \in Entry \cup {None}, NEW c \in Containers, NEW how \in Outcome
  PROVE  /\ Synced(want, k, c, how).c \in Containers
         /\ Synced(want, k, c, how).k \in Entry \cup {None}
         /\ how = "ok" /\ (c = "running" => Running(k))
              => (Synced(want, k, c, how).c = "running" => Running(Synced(want, k, c, how).k))
<1>1. CASE want = "absent"
  <2>1. CASE Running(k)
    <3>1. k \in Entry
      BY <2>1, RunningEntry
    <3> QED BY <1>1, <2>1, <3>1, StopOne DEF Synced
  <2>2. CASE ~Running(k)
    BY <1>1, <2>2 DEF Synced, Same
  <2> QED BY <2>1, <2>2
<1>2. CASE want # "absent"
  <2> DEFINE v == Verified(k, c, how)
  <2>1. v \in Entry \cup {None} /\ (how = "ok" /\ c = "running" /\ Running(k) => Running(v))
    BY VerifyOne
  <2> HIDE DEF v
  <2>2. Synced(want, k, c, how) =
          IF want = "off" THEN IF Running(v) THEN Stopped(v, c, how) ELSE Same(v, c)
          ELSE IF Running(v) \/ Resting(v) THEN Same(v, c) ELSE Started(v, c, how)
    BY <1>2 DEF Synced, v
  <2>3. CASE want = "off" /\ Running(v)
    <3>1. v \in Entry
      BY <2>1, <2>3, RunningEntry
    <3> QED BY <2>2, <2>3, <3>1, StopOne
  <2>4. CASE want # "off" /\ ~Running(v) /\ ~Resting(v)
    BY <2>1, <2>2, <2>4, StartOne
  <2>5. CASE (want = "off" /\ ~Running(v)) \/ (want # "off" /\ (Running(v) \/ Resting(v)))
    <3>1. Synced(want, k, c, how) = [c |-> c, k |-> v]
      BY <2>2, <2>5 DEF Same
    <3> QED BY <2>1, <3>1
  <2> QED BY <2>3, <2>4, <2>5
<1> QED BY <1>1, <1>2

-----------------------------------------------------------------------------
(* Types. *)

\* TypeOK in its three parts: the platform, the managers and the counters.
PlatformOK ==
  /\ plan \in Plans
  /\ gw \in [Gateways -> [wish : Wish, agent : Boxes \cup {None}]]
  /\ box \in [Boxes -> {"assigned", "all", None}] /\ key \in [Boxes -> BOOLEAN] /\ cut \subseteq Boxes
  /\ \A b, other \in Boxes : box[b] = "all" /\ box[other] = "all" => b = other

HostsOK ==
  /\ mirror \in [Boxes -> [Gateways -> Wish]]
  /\ answer \in [Boxes -> [Gateways -> Wish] \cup {None}]
  /\ alive \subseteq Hosts /\ list \in [Hosts -> [Gateways -> Wish] \cup {None}]
  /\ known \in [Hosts -> [Gateways -> Entry \cup {None}]]
  /\ cont \in [Hosts -> [Gateways -> Containers]]
  /\ ota \in [Hosts -> SUBSET Gateways] /\ bounced \in [Hosts -> Gateways \cup {None}]

CountersOK ==
  /\ plan \in Plans
  /\ changes \in 0..plan.changes /\ faults \in 0..MaxFaults /\ crashes \in 0..MaxCrashes

Parts == PlatformOK /\ HostsOK /\ CountersOK

LEMMA TypeParts == Parts => TypeOK
  BY DEF TypeOK, Parts, PlatformOK, HostsOK, CountersOK, Containers

\* The requests and the links.
Platform ==
  \/ \E g \in Gateways : UpdateGateway(g) \/ DeleteGateway(g)
  \/ \E b \in Boxes : SetScope(b) \/ DeleteBox(b) \/ LinkDown(b) \/ LinkUp(b)

LEMMA PlatformFrame ==
  ASSUME CountersOK, Platform
  PROVE  Untouched /\ changes' \in Nat /\ changes' \in 0..plan.changes /\ plan' = plan
<1>1. plan.changes \in Nat /\ changes \in 0..plan.changes
  BY PlansAssumption DEF CountersOK
<1>2. changes' = changes \/ (changes < plan.changes /\ changes' = changes + 1)
  BY DEF Platform, UpdateGateway, DeleteGateway, SetScope, DeleteBox, LinkDown, LinkUp, Change
<1>3. Untouched /\ plan' = plan
  BY DEF Platform, UpdateGateway, DeleteGateway, SetScope, DeleteBox, LinkDown, LinkUp, Untouched
<1> QED BY <1>1, <1>2, <1>3

LEMMA PlatformType ==
  ASSUME PlatformOK, Platform
  PROVE  PlatformOK'
<1>1. ASSUME NEW g \in Gateways, UpdateGateway(g) PROVE PlatformOK'
  <2>1. PICK w \in {"off", "on"}, b \in {x \in Boxes : box[x] # None} \cup {None} :
          gw' = [gw EXCEPT ![g] = [wish |-> w, agent |-> b]]
    BY <1>1 DEF UpdateGateway
  <2>2. [wish |-> w, agent |-> b] \in [wish : Wish, agent : Boxes \cup {None}]
    BY DEF Wish
  <2>3. gw' \in [Gateways -> [wish : Wish, agent : Boxes \cup {None}]]
    BY <2>1, <2>2 DEF PlatformOK
  <2> QED BY <1>1, <2>3 DEF UpdateGateway, PlatformOK
<1>2. ASSUME NEW g \in Gateways, DeleteGateway(g) PROVE PlatformOK'
  <2>1. [gw[g] EXCEPT !.wish = "absent"] \in [wish : Wish, agent : Boxes \cup {None}]
    BY DEF PlatformOK, Wish
  <2>2. gw' \in [Gateways -> [wish : Wish, agent : Boxes \cup {None}]]
    BY <1>2, <2>1 DEF DeleteGateway, PlatformOK
  <2> QED BY <1>2, <2>2 DEF DeleteGateway, PlatformOK
<1>3. ASSUME NEW b \in Boxes, SetScope(b) PROVE PlatformOK'
  <2>1. PICK s \in {"assigned", "all"} :
          /\ s = "all" => \A other \in Boxes : box[other] # "all"
          /\ box' = [box EXCEPT ![b] = s]
    BY <1>3 DEF SetScope
  <2>2. box' \in [Boxes -> {"assigned", "all", None}]
    BY <2>1 DEF PlatformOK
  <2>3. \A x, y \in Boxes : box'[x] = "all" /\ box'[y] = "all" => x = y
    BY <2>1 DEF PlatformOK
  <2> QED BY <1>3, <2>2, <2>3 DEF SetScope, PlatformOK
<1>4. ASSUME NEW b \in Boxes, DeleteBox(b) PROVE PlatformOK'
  <2>1. box' \in [Boxes -> {"assigned", "all", None}] /\ key' \in [Boxes -> BOOLEAN]
    BY <1>4 DEF DeleteBox, PlatformOK
  <2>2. \A x, y \in Boxes : box'[x] = "all" /\ box'[y] = "all" => x = y
    <3> TAKE x \in Boxes, y \in Boxes
    <3>1. box' = [box EXCEPT ![b] = None]
      BY <1>4 DEF DeleteBox
    <3>2. box[x] = "all" /\ box[y] = "all" => x = y
      BY DEF PlatformOK
    <3> QED BY <3>1, <3>2, NoneAssumption DEF PlatformOK
  <2>3. \A g \in Gateways : [gw[g] EXCEPT !.agent = None] \in [wish : Wish, agent : Boxes \cup {None}]
    BY DEF PlatformOK
  <2>4. gw' \in [Gateways -> [wish : Wish, agent : Boxes \cup {None}]]
    BY <1>4, <2>3 DEF DeleteBox, PlatformOK
  <2> QED BY <1>4, <2>1, <2>2, <2>4 DEF DeleteBox, PlatformOK
<1>5. ASSUME NEW b \in Boxes, LinkDown(b) \/ LinkUp(b) PROVE PlatformOK'
  BY <1>5 DEF LinkDown, LinkUp, PlatformOK
<1> QED BY <1>1, <1>2, <1>3, <1>4, <1>5 DEF Platform

\* What a sync of a box copies, and what one of the server reads, are wishes.
LEMMA CopyType ==
  ASSUME PlatformOK
  PROVE  /\ \A h : OwnedBy(h) \in [Gateways -> Wish]
         /\ \A b : GatewaysFor(b) \in [Gateways -> Wish]
<1>1. \A g \in Gateways : gw[g].wish \in Wish
  BY DEF PlatformOK
<1>2. \A h : OwnedBy(h) \in [Gateways -> Wish]
  BY <1>1 DEF OwnedBy, Wish
<1> QED BY <1>1, <1>2 DEF GatewaysFor

\* A fault is one refused call, and there is room for it.
LEMMA OneFault ==
  ASSUME CountersOK, NEW how, how # "ok" => Fault,
         faults' = faults + (IF how = "ok" THEN 0 ELSE 1)
  PROVE  faults' \in 0..MaxFaults
BY FleetAssumption DEF CountersOK, Fault

\* The second half of a sync, gateway by gateway.
LEMMA SyncActPick ==
  ASSUME HostsOK, NEW h \in Hosts, SyncAct(h)
  PROVE  \E how \in Outcome, hows \in [Gateways -> Outcome] :
           /\ \A g \in Gateways : how = "ok" => hows[g] = "ok"
           /\ how # "ok" => Fault
           /\ faults' = faults + (IF how = "ok" THEN 0 ELSE 1)
           /\ cont' = [cont EXCEPT ![h] = [g \in Gateways |->
                         Synced(list[h][g], known[h][g], cont[h][g], hows[g]).c]]
           /\ known' = [known EXCEPT ![h] = [g \in Gateways |->
                         Synced(list[h][g], known[h][g], cont[h][g], hows[g]).k]]
<1>1. PICK sick \in {{}} \cup {{g} : g \in Gateways}, how \in Outcome :
        /\ sick = {} <=> how = "ok"
        /\ how # "ok" => Fault
        /\ faults' = faults + (IF how = "ok" THEN 0 ELSE 1)
        /\ cont' = [cont EXCEPT ![h] = [g \in Gateways |->
              [x \in Gateways |-> Synced(list[h][x], known[h][x], cont[h][x], IF x \in sick THEN how ELSE "ok")][g].c]]
        /\ known' = [known EXCEPT ![h] = [g \in Gateways |->
              [x \in Gateways |-> Synced(list[h][x], known[h][x], cont[h][x], IF x \in sick THEN how ELSE "ok")][g].k]]
  BY DEF SyncAct
<1> DEFINE hows == [g \in Gateways |-> IF g \in sick THEN how ELSE "ok"]
<1>2. hows \in [Gateways -> Outcome] /\ \A g \in Gateways : how = "ok" => hows[g] = "ok"
  BY DEF Outcome
<1>3. cont' = [cont EXCEPT ![h] = [g \in Gateways |->
         Synced(list[h][g], known[h][g], cont[h][g], hows[g]).c]]
  BY <1>1
<1>4. known' = [known EXCEPT ![h] = [g \in Gateways |->
         Synced(list[h][g], known[h][g], cont[h][g], hows[g]).k]]
  BY <1>1
<1> HIDE DEF hows
<1> QED BY <1>1, <1>2, <1>3, <1>4

\* Each step of a manager keeps the types of what the hosts hold.
LEMMA ManagerType ==
  ASSUME PlatformOK, HostsOK, CountersOK, NEW h \in Hosts, Manager(h)
  PROVE  HostsOK' /\ changes' \in 0..plan.changes /\ faults' \in 0..MaxFaults /\ crashes' \in 0..MaxCrashes
<1> USE FleetAssumption
<1>0. /\ changes \in 0..plan.changes /\ faults \in 0..MaxFaults /\ crashes \in 0..MaxCrashes
      /\ plan.changes \in Nat
  BY PlansAssumption DEF CountersOK
<1>1. CASE SyncRead(h)
  <2>1. (IF h = Server THEN OwnedBy(Server) ELSE mirror[h]) \in [Gateways -> Wish]
    BY CopyType DEF HostsOK, Hosts
  <2>2. list' \in [Hosts -> [Gateways -> Wish] \cup {None}]
    BY <1>1, <2>1 DEF SyncRead, HostsOK, copyVars
  <2> QED BY <1>0, <1>1, <2>2 DEF SyncRead, HostsOK, copyVars
<1>2. CASE SyncAct(h)
  <2>1. PICK how \in Outcome, hows \in [Gateways -> Outcome] :
           /\ how # "ok" => Fault
           /\ faults' = faults + (IF how = "ok" THEN 0 ELSE 1)
           /\ cont' = [cont EXCEPT ![h] = [g \in Gateways |->
                         Synced(list[h][g], known[h][g], cont[h][g], hows[g]).c]]
           /\ known' = [known EXCEPT ![h] = [g \in Gateways |->
                         Synced(list[h][g], known[h][g], cont[h][g], hows[g]).k]]
    BY <1>2, SyncActPick
  <2>2. list[h] \in [Gateways -> Wish]
    BY <1>2 DEF SyncAct, HostsOK, copyVars
  <2>3. \A g \in Gateways : /\ Synced(list[h][g], known[h][g], cont[h][g], hows[g]).c \in Containers
                            /\ Synced(list[h][g], known[h][g], cont[h][g], hows[g]).k \in Entry \cup {None}
    <3> TAKE g \in Gateways
    <3>1. /\ list[h][g] \in Wish /\ known[h][g] \in Entry \cup {None}
          /\ cont[h][g] \in Containers /\ hows[g] \in Outcome
      BY <2>2 DEF HostsOK, copyVars
    <3> QED BY <3>1, SyncOne
  <2>4. cont' \in [Hosts -> [Gateways -> Containers]]
    BY <2>1, <2>3 DEF HostsOK, copyVars
  <2>5. known' \in [Hosts -> [Gateways -> Entry \cup {None}]]
    BY <2>1, <2>3 DEF HostsOK, copyVars
  <2>6. list' \in [Hosts -> [Gateways -> Wish] \cup {None}]
    BY <1>2 DEF SyncAct, HostsOK, copyVars
  <2>7. faults' \in 0..MaxFaults
    BY <2>1, OneFault
  <2>8. UNCHANGED <<copyVars, alive, ota, bounced, changes, crashes>>
    BY <1>2 DEF SyncAct
  <2> QED BY <1>0, <2>4, <2>5, <2>6, <2>7, <2>8 DEF HostsOK, copyVars
<1>3. CASE OtaBegin(h)
  <2>1. ota' \in [Hosts -> SUBSET Gateways]
    BY <1>3 DEF OtaBegin, HostsOK, copyVars
  <2>2. changes' \in 0..plan.changes
    BY <1>0, <1>3 DEF OtaBegin, Change
  <2> QED BY <1>0, <1>3, <2>1, <2>2 DEF OtaBegin, HostsOK, copyVars
<1>4. CASE OtaStart(h)
  <2>1. bounced[h] \in Gateways
    BY <1>4 DEF OtaStart, HostsOK, copyVars
  <2>2. faults' \in 0..MaxFaults
    BY <1>0, <1>4 DEF OtaStart, Fault
  <2>3. cont' \in [Hosts -> [Gateways -> Containers]]
    <3>1. PICK c \in Containers : cont' = [cont EXCEPT ![h] = [cont[h] EXCEPT ![bounced[h]] = c]]
      BY <1>4 DEF OtaStart, Containers
    <3>2. [cont[h] EXCEPT ![bounced[h]] = c] \in [Gateways -> Containers]
      BY <2>1 DEF HostsOK, copyVars
    <3> QED BY <3>1, <3>2 DEF HostsOK, copyVars
  <2>4. known' \in [Hosts -> [Gateways -> Entry \cup {None}]]
    <3>1. known' = known \/ known' = [known EXCEPT ![h] = [known[h] EXCEPT ![bounced[h]] = Up]]
      BY <1>4 DEF OtaStart
    <3>2. [known[h] EXCEPT ![bounced[h]] = Up] \in [Gateways -> Entry \cup {None}]
      BY <2>1, EntryType DEF HostsOK, copyVars
    <3> QED BY <3>1, <3>2 DEF HostsOK, copyVars
  <2>5. bounced' \in [Hosts -> Gateways \cup {None}]
    BY <1>4 DEF OtaStart, HostsOK, copyVars
  <2>6. UNCHANGED <<copyVars, alive, list, ota, changes, crashes>>
    BY <1>4 DEF OtaStart
  <2> QED BY <1>0, <2>2, <2>3, <2>4, <2>5, <2>6 DEF HostsOK, copyVars
<1>5. CASE ManagerEnd(h)
  <2>1. crashes' \in 0..MaxCrashes
    BY <1>0, <1>5 DEF ManagerEnd
  <2>2. cont' \in [Hosts -> [Gateways -> Containers]]
    <3> DEFINE stopped == [g \in Gateways |->
                             IF Running(known[h][g]) /\ cont[h][g] = "running" THEN "stopped" ELSE cont[h][g]]
    <3>1. cont' = cont \/ cont' = [cont EXCEPT ![h] = stopped]
      BY <1>5 DEF ManagerEnd
    <3>2. stopped \in [Gateways -> Containers] /\ cont \in [Hosts -> [Gateways -> Containers]]
      BY DEF HostsOK, Containers
    <3> HIDE DEF stopped
    <3> QED BY <3>1, <3>2
  <2>3. /\ list' \in [Hosts -> [Gateways -> Wish] \cup {None}]
        /\ known' \in [Hosts -> [Gateways -> Entry \cup {None}]]
    BY <1>5 DEF ManagerEnd, HostsOK, copyVars
  <2>4. ota' \in [Hosts -> SUBSET Gateways] /\ bounced' \in [Hosts -> Gateways \cup {None}]
    BY <1>5 DEF ManagerEnd, HostsOK, copyVars
  <2>5. /\ alive' \subseteq Hosts /\ UNCHANGED <<mirror, changes, faults>>
        /\ answer' \in [Boxes -> [Gateways -> Wish] \cup {None}]
    BY <1>5 DEF ManagerEnd, HostsOK, copyVars
  <2> QED BY <1>0, <2>1, <2>2, <2>3, <2>4, <2>5 DEF HostsOK, copyVars
<1>6. CASE ManagerStart(h)
  BY <1>0, <1>6 DEF ManagerStart, HostsOK, copyVars
<1>7. ASSUME NEW g \in Gateways, CoolOff(h, g)
      PROVE  HostsOK' /\ changes' \in 0..plan.changes /\ faults' \in 0..MaxFaults /\ crashes' \in 0..MaxCrashes
  <2>1. known[h][g] \in Entry
    BY <1>7 DEF CoolOff, HostsOK, copyVars
  <2>2. [known[h][g] EXCEPT !.cooling = FALSE] \in Entry
    BY <2>1 DEF Entry
  <2>3. known' \in [Hosts -> [Gateways -> Entry \cup {None}]]
    BY <1>7, <2>2 DEF CoolOff, HostsOK, copyVars
  <2> QED BY <1>0, <1>7, <2>3 DEF CoolOff, HostsOK, copyVars
<1>8. ASSUME NEW g \in Gateways, OtaStop(h, g)
      PROVE  HostsOK' /\ changes' \in 0..plan.changes /\ faults' \in 0..MaxFaults /\ crashes' \in 0..MaxCrashes
  <2> DEFINE s(how) == IF Running(known[h][g]) THEN Stopped(known[h][g], cont[h][g], how)
                       ELSE Same(known[h][g], cont[h][g])
  <2>1. PICK how \in {"ok", "op", "remove"} :
          /\ how # "ok" => Fault
          /\ faults' = faults + (IF how = "ok" THEN 0 ELSE 1)
          /\ cont' = [cont EXCEPT ![h][g] = s(how).c] /\ known' = [known EXCEPT ![h][g] = s(how).k]
    BY <1>8 DEF OtaStop
  <2>2. s(how).c \in Containers /\ s(how).k \in Entry \cup {None}
    <3>1. /\ known[h][g] \in Entry \cup {None} /\ cont[h][g] \in Containers
          /\ how \in Outcome /\ (Running(known[h][g]) => known[h][g] \in Entry)
      BY RunningEntry DEF HostsOK, Outcome
    <3>2. CASE Running(known[h][g])
      BY <3>1, <3>2, StopOne
    <3>3. CASE ~Running(known[h][g])
      BY <3>1, <3>3 DEF Same
    <3> QED BY <3>2, <3>3
  <2> HIDE DEF s
  <2>3. cont' \in [Hosts -> [Gateways -> Containers]] /\ known' \in [Hosts -> [Gateways -> Entry \cup {None}]]
    BY <2>1, <2>2 DEF HostsOK, copyVars
  <2>4. ota' \in [Hosts -> SUBSET Gateways] /\ bounced' \in [Hosts -> Gateways \cup {None}]
    BY <1>8 DEF OtaStop, HostsOK, copyVars
  <2>5. faults' \in 0..MaxFaults
    BY <2>1, OneFault
  <2>6. UNCHANGED <<copyVars, alive, list, changes, crashes>>
    BY <1>8 DEF OtaStop
  <2> QED BY <1>0, <2>3, <2>4, <2>5, <2>6 DEF HostsOK, copyVars
<1>9. ASSUME NEW g \in Gateways, RemoveContainer(h, g)
      PROVE  HostsOK' /\ changes' \in 0..plan.changes /\ faults' \in 0..MaxFaults /\ crashes' \in 0..MaxCrashes
  <2>1. cont' \in [Hosts -> [Gateways -> Containers]]
    BY <1>9 DEF RemoveContainer, HostsOK, Containers
  <2>2. changes' \in 0..plan.changes
    BY <1>0, <1>9 DEF RemoveContainer, Change
  <2> QED BY <1>0, <1>9, <2>1, <2>2 DEF RemoveContainer, HostsOK, managerVars, copyVars
<1> QED BY <1>1, <1>2, <1>3, <1>4, <1>5, <1>6, <1>7, <1>8, <1>9 DEF Manager

\* A manager leaves the platform alone, and its copy of it; when it ends, an
\* answer that was on its way is lost.
LEMMA ManagerFrame ==
  ASSUME NEW h \in Hosts, Manager(h)
  PROVE  /\ UNCHANGED <<platformVars, mirror>>
         /\ answer' = answer \/ answer' = [b \in Boxes |-> IF b = h THEN None ELSE answer[b]]
BY DEF copyVars, Manager, SyncRead, SyncAct, OtaBegin, OtaStart, ManagerEnd, ManagerStart, CoolOff, OtaStop, RemoveContainer

LEMMA TypeStep ==
  ASSUME Parts, [Next]_vars
  PROVE  Parts'
<1>0. PlatformOK /\ HostsOK /\ CountersOK
  BY DEF Parts
<1>u. UNCHANGED platformVars => PlatformOK'
  BY <1>0 DEF PlatformOK, platformVars
<1>1. CASE Platform
  <2>1. PlatformOK'
    BY <1>0, <1>1, PlatformType
  <2>2. Untouched /\ changes' \in 0..plan.changes /\ plan' = plan
    BY <1>0, <1>1, PlatformFrame
  <2>3. HostsOK'
    BY <1>0, <2>2 DEF HostsOK, Untouched, managerVars, copyVars
  <2>4. CountersOK'
    BY <1>0, <2>2 DEF CountersOK, Untouched
  <2> QED BY <2>1, <2>3, <2>4 DEF Parts
<1>2. ASSUME NEW b \in Boxes, Fetch(b) \/ Apply(b) \/ NotApplied(b) PROVE Parts'
  <2>1. answer' \in [Boxes -> [Gateways -> Wish] \cup {None}]
    <3>1. GatewaysFor(b) \in [Gateways -> Wish]
      BY <1>0, CopyType
    <3>2. \E a \in [Gateways -> Wish] \cup {None} : answer' = [answer EXCEPT ![b] = a]
      BY <1>2, <3>1 DEF Fetch, Apply, NotApplied
    <3> QED BY <1>0, <3>2 DEF HostsOK
  <2>2. mirror' \in [Boxes -> [Gateways -> Wish]]
    <3>1. CASE mirror' = mirror
      BY <1>0, <3>1 DEF HostsOK
    <3>2. CASE Apply(b)
      <4>1. answer[b] \in [Gateways -> Wish] /\ mirror' = [mirror EXCEPT ![b] = answer[b]]
        BY <1>0, <3>2 DEF Apply, HostsOK
      <4> QED BY <1>0, <4>1 DEF HostsOK
    <3> QED BY <1>2, <3>1, <3>2 DEF Fetch, NotApplied
  <2>3. faults' \in 0..MaxFaults
    BY <1>0, <1>2, FleetAssumption DEF Fetch, Apply, NotApplied, Fault, CountersOK
  <2>4. UNCHANGED <<platformVars, managerVars, cont, changes, crashes>>
    BY <1>2 DEF Fetch, Apply, NotApplied
  <2>5. HostsOK'
    BY <1>0, <2>1, <2>2, <2>4 DEF HostsOK, managerVars
  <2>6. CountersOK'
    BY <1>0, <2>3, <2>4 DEF CountersOK, platformVars
  <2> QED BY <1>u, <2>4, <2>5, <2>6 DEF Parts
<1>3. ASSUME NEW h \in Hosts, Manager(h) PROVE Parts'
  <2>1. UNCHANGED platformVars
    BY <1>3, ManagerFrame
  <2>2. HostsOK' /\ changes' \in 0..plan.changes /\ faults' \in 0..MaxFaults /\ crashes' \in 0..MaxCrashes
    BY <1>0, <1>3, ManagerType
  <2>3. CountersOK'
    BY <1>0, <2>1, <2>2 DEF CountersOK, platformVars
  <2> QED BY <1>u, <2>1, <2>2, <2>3 DEF Parts
<1>4. CASE UNCHANGED vars
  <2>1. HostsOK' /\ CountersOK'
    BY <1>0, <1>4 DEF vars, HostsOK, CountersOK, managerVars, platformVars, copyVars
  <2> QED BY <1>u, <1>4, <2>1 DEF Parts, vars
<1> QED BY <1>1, <1>2, <1>3, <1>4 DEF Next, Platform

LEMMA TypeStart == Init => Parts
<1> SUFFICES ASSUME Init PROVE PlatformOK /\ HostsOK /\ CountersOK
  BY DEF Parts
<1> USE FleetAssumption, PlansAssumption
<1>1. PlatformOK
  <2>1. gw \in [Gateways -> [wish : Wish, agent : Boxes \cup {None}]]
    BY DEF Init, Wish
  <2>2. box \in [Boxes -> {"assigned", "all", None}] /\ key \in [Boxes -> BOOLEAN] /\ cut = {} /\ plan \in Plans
    BY DEF Init
  <2>3. \A b, other \in Boxes : box[b] = "all" /\ box[other] = "all" => b = other
    <3>1. \A b \in Boxes : box[b] = "all" => b \in plan.all
      BY NoneAssumption DEF Init
    <3> QED BY <2>2, <3>1
  <2> QED BY <2>1, <2>2, <2>3 DEF PlatformOK
<1>2. HostsOK
  <2>1. mirror \in [Boxes -> [Gateways -> Wish]] /\ answer \in [Boxes -> [Gateways -> Wish] \cup {None}]
    BY DEF Init, Nothing, Wish
  <2>2. alive \subseteq Hosts /\ list \in [Hosts -> [Gateways -> Wish] \cup {None}]
    BY DEF Init, Hosts
  <2>3. known \in [Hosts -> [Gateways -> Entry \cup {None}]] /\ cont \in [Hosts -> [Gateways -> Containers]]
    BY DEF Init, Containers
  <2>4. ota \in [Hosts -> SUBSET Gateways] /\ bounced \in [Hosts -> Gateways \cup {None}]
    BY DEF Init
  <2> QED BY <2>1, <2>2, <2>3, <2>4 DEF HostsOK
<1>3. CountersOK
  BY DEF Init, CountersOK
<1> QED BY <1>1, <1>2, <1>3

\* Update of a box, under whatever order of requests, leaves one box at most that
\* takes everything; and the rest of the fleet keeps its shape.
THEOREM TypeCorrect == Spec => []TypeOK
<1>1. Parts /\ [Next]_vars => Parts'
  BY TypeStep
<1> QED BY TypeStart, <1>1, TypeParts, PTL DEF Spec
-----------------------------------------------------------------------------
(* The books of the managers. *)

\* What a step does not touch, or takes away, stays in the books.
LEMMA BooksFrame ==
  ASSUME NEW h \in Hosts, NEW g \in Gateways, Polls(h, g) => Running(known[h][g]),
         cont'[h][g] = "running" => cont[h][g] = "running",
         known'[h][g] = known[h][g]
  PROVE  (Polls(h, g) => Running(known[h][g]))'
BY DEF Polls, Running

\* The steps of one manager, when no call has been refused and none has ended.
LEMMA BooksOfManager ==
  ASSUME Parts, NEW h \in Hosts, Manager(h), faults' = 0, crashes' = 0,
         \A x \in Hosts, g \in Gateways : Polls(x, g) => Running(known[x][g])
  PROVE  \A x \in Hosts, g \in Gateways : (Polls(x, g) => Running(known[x][g]))'
<1>0. /\ faults \in Nat /\ crashes \in Nat
      /\ known \in [Hosts -> [Gateways -> Entry \cup {None}]]
      /\ cont \in [Hosts -> [Gateways -> Containers]]
  BY FleetAssumption DEF Parts, CountersOK, HostsOK
<1> SUFFICES ASSUME NEW x \in Hosts, NEW y \in Gateways
             PROVE  (Polls(x, y) => Running(known[x][y]))'
  OBVIOUS
<1>f. ASSUME cont'[x][y] = "running" => cont[x][y] = "running", known'[x][y] = known[x][y]
      PROVE  (Polls(x, y) => Running(known[x][y]))'
  BY <1>f, BooksFrame
<1>1. CASE SyncRead(h) \/ OtaBegin(h) \/ ManagerStart(h)
  BY <1>1, <1>f DEF SyncRead, OtaBegin, ManagerStart
<1>2. CASE SyncAct(h)
  <2>1. PICK how \in Outcome, hows \in [Gateways -> Outcome] :
           /\ \A g \in Gateways : how = "ok" => hows[g] = "ok"
           /\ faults' = faults + (IF how = "ok" THEN 0 ELSE 1)
           /\ cont' = [cont EXCEPT ![h] = [g \in Gateways |->
                         Synced(list[h][g], known[h][g], cont[h][g], hows[g]).c]]
           /\ known' = [known EXCEPT ![h] = [g \in Gateways |->
                         Synced(list[h][g], known[h][g], cont[h][g], hows[g]).k]]
    BY <1>2, SyncActPick DEF Parts
  <2>2. hows[y] = "ok"
    BY <1>0, <2>1
  <2>3. CASE x = h
    <3>1. /\ list[h][y] \in Wish /\ known[h][y] \in Entry \cup {None}
          /\ cont[h][y] \in Containers /\ hows[y] \in Outcome
      BY <1>0, <1>2 DEF SyncAct, Parts, HostsOK
    <3>2. cont[h][y] = "running" => Running(known[h][y])
      BY DEF Polls
    <3>3. LET s == Synced(list[h][y], known[h][y], cont[h][y], hows[y])
          IN s.c = "running" => Running(s.k)
      BY <2>2, <3>1, <3>2, SyncOne
    <3>4. /\ cont'[h][y] = Synced(list[h][y], known[h][y], cont[h][y], hows[y]).c
          /\ known'[h][y] = Synced(list[h][y], known[h][y], cont[h][y], hows[y]).k
      BY <1>0, <2>1
    <3> QED BY <2>3, <3>3, <3>4 DEF Polls, Running
  <2>4. CASE x # h
    BY <1>0, <1>f, <2>1, <2>4
  <2> QED BY <2>3, <2>4
<1>3. CASE OtaStart(h)
  <2>1. /\ cont' = [cont EXCEPT ![h][bounced[h]] = "running"]
        /\ known' = [known EXCEPT ![h][bounced[h]] = Up]
    BY <1>0, <1>3 DEF OtaStart
  <2>2. CASE x = h /\ y = bounced[h]
    <3>1. known'[x][y] = Up
      BY <1>0, <2>1, <2>2
    <3> QED BY <3>1, EntryType DEF Running
  <2>3. CASE ~(x = h /\ y = bounced[h])
    <3>1. cont'[x][y] = cont[x][y] /\ known'[x][y] = known[x][y]
      BY <1>0, <2>1, <2>3
    <3> QED BY <1>f, <3>1
  <2> QED BY <2>2, <2>3
<1>4. CASE ManagerEnd(h)
  BY <1>0, <1>4 DEF ManagerEnd
<1>5. ASSUME NEW g \in Gateways, CoolOff(h, g)
      PROVE  (Polls(x, y) => Running(known[x][y]))'
  <2>1. cont' = cont /\ known' = [known EXCEPT ![h][g].cooling = FALSE] /\ known[h][g] \in Entry
    BY <1>0, <1>5 DEF CoolOff
  <2>2. CASE x = h /\ y = g
    <3>1. known'[x][y] = [known[h][g] EXCEPT !.cooling = FALSE]
      BY <1>0, <2>1, <2>2
    <3>2. known'[x][y] \in Entry /\ known'[x][y].running = known[x][y].running
      BY <2>1, <2>2, <3>1 DEF Entry
    <3> QED BY <2>1, <3>2, NoneAssumption DEF Polls, Running
  <2>3. CASE ~(x = h /\ y = g)
    <3>1. known'[x][y] = known[x][y]
      BY <1>0, <2>1, <2>3
    <3> QED BY <1>f, <2>1, <3>1
  <2> QED BY <2>2, <2>3
<1>6. ASSUME NEW g \in Gateways, OtaStop(h, g)
      PROVE  (Polls(x, y) => Running(known[x][y]))'
  <2> DEFINE s == IF Running(known[h][g]) THEN Stopped(known[h][g], cont[h][g], "ok")
                  ELSE Same(known[h][g], cont[h][g])
  <2>1. cont' = [cont EXCEPT ![h][g] = s.c] /\ known' = [known EXCEPT ![h][g] = s.k]
    <3> DEFINE after(how) == IF Running(known[h][g]) THEN Stopped(known[h][g], cont[h][g], how)
                             ELSE Same(known[h][g], cont[h][g])
    <3>1. PICK how \in {"ok", "op", "remove"} :
            /\ faults' = faults + (IF how = "ok" THEN 0 ELSE 1)
            /\ cont' = [cont EXCEPT ![h][g] = after(how).c] /\ known' = [known EXCEPT ![h][g] = after(how).k]
      BY <1>6 DEF OtaStop
    <3>2. how = "ok"
      <4>1. faults' = faults + (IF how = "ok" THEN 0 ELSE 1)
        BY <3>1
      <4> QED BY <1>0, <4>1
    <3>3. after(how) = s
      BY <3>2
    <3> HIDE DEF after, s
    <3> QED BY <3>1, <3>3
  <2>2. s.c # "running"
    <3>1. known[h][g] \in Entry \cup {None} /\ cont[h][g] \in Containers /\ "ok" \in Outcome
      BY <1>0 DEF Outcome
    <3>2. CASE Running(known[h][g])
      BY <3>1, <3>2, RunningEntry, StopOne
    <3>3. CASE ~Running(known[h][g])
      BY <3>1, <3>3 DEF Same, Polls
    <3> QED BY <3>2, <3>3
  <2> HIDE DEF s
  <2>3. CASE x = h /\ y = g
    BY <1>0, <2>1, <2>2, <2>3 DEF Polls
  <2>4. CASE ~(x = h /\ y = g)
    <3>1. cont'[x][y] = cont[x][y] /\ known'[x][y] = known[x][y]
      BY <1>0, <2>1, <2>4
    <3> QED BY <1>f, <3>1
  <2> QED BY <2>3, <2>4
<1>7. ASSUME NEW g \in Gateways, RemoveContainer(h, g)
      PROVE  (Polls(x, y) => Running(known[x][y]))'
  <2>1. cont' = [cont EXCEPT ![h][g] = "none"] /\ known' = known
    BY <1>7 DEF RemoveContainer, managerVars
  <2>2. cont'[x][y] = "running" => cont[x][y] = "running"
    BY <1>0, <2>1
  <2> QED BY <1>f, <2>1, <2>2
<1> QED BY <1>1, <1>2, <1>3, <1>4, <1>5, <1>6, <1>7 DEF Manager

\* syncGateways, the OTA commands and a hand that removes containers: as long as no
\* call is refused and no manager ends, each container that runs is in the books of
\* the manager of its host, which can therefore stop it.
THEOREM BooksHold == Spec => []BooksAreComplete
<1>1. Init => BooksAreComplete
  BY DEF Init, BooksAreComplete, Polls
<1>2. Parts /\ BooksAreComplete /\ [Next]_vars => BooksAreComplete'
  <2> SUFFICES ASSUME Parts, BooksAreComplete, [Next]_vars, faults' = 0, crashes' = 0
               PROVE  \A x \in Hosts, g \in Gateways : (Polls(x, g) => Running(known[x][g]))'
    BY DEF BooksAreComplete
  <2>1. ASSUME faults = 0, crashes = 0, cont' = cont, known' = known
        PROVE  \A x \in Hosts, g \in Gateways : (Polls(x, g) => Running(known[x][g]))'
    BY <2>1 DEF BooksAreComplete, Polls, Running
  <2>2. CASE Platform
    BY <2>1, <2>2, PlatformFrame DEF Parts, Untouched, managerVars
  <2>3. ASSUME NEW b \in Boxes, Fetch(b) \/ Apply(b) \/ NotApplied(b)
        PROVE  \A x \in Hosts, g \in Gateways : (Polls(x, g) => Running(known[x][g]))'
    <3>1. faults = 0 /\ crashes = 0 /\ cont' = cont /\ known' = known
      <4>1. faults \in Nat /\ faults' \in {faults, faults + 1}
        BY <2>3, FleetAssumption DEF Fetch, Apply, NotApplied, Parts, CountersOK
      <4> QED BY <2>3, <4>1 DEF Fetch, Apply, NotApplied, managerVars
    <3> QED BY <2>1, <3>1
  <2>4. ASSUME NEW h \in Hosts, Manager(h)
        PROVE  \A x \in Hosts, g \in Gateways : (Polls(x, g) => Running(known[x][g]))'
    <3>1. faults \in Nat /\ crashes \in Nat
      BY FleetAssumption DEF Parts, CountersOK
    <3>2. (faults' = faults \/ faults' = faults + 1) /\ (crashes' = crashes \/ crashes' = crashes + 1)
      <4>1. SyncAct(h) => faults' \in {faults, faults + 1} /\ crashes' = crashes
        BY <3>1 DEF SyncAct
      <4>2. \A g \in Gateways : OtaStop(h, g) => faults' \in {faults, faults + 1} /\ crashes' = crashes
        BY <3>1 DEF OtaStop
      <4> QED BY <2>4, <4>1, <4>2 DEF Manager, SyncRead, OtaBegin, OtaStart, ManagerEnd, ManagerStart,
                                      CoolOff, RemoveContainer
    <3>3. faults = 0 /\ crashes = 0
      BY <3>1, <3>2
    <3> QED BY <2>4, <3>3, BooksOfManager DEF BooksAreComplete
  <2>5. CASE UNCHANGED vars
    BY <2>1, <2>5 DEF vars, managerVars
  <2> QED BY <2>2, <2>3, <2>4, <2>5 DEF Next, Platform
<1>3. Parts /\ [Next]_vars => Parts'
  BY TypeStep
<1> QED BY TypeStart, <1>1, <1>2, <1>3, PTL DEF Spec

-----------------------------------------------------------------------------
(* A box that was removed. *)

\* The keys of a box go with its row.
Revoked == \A b \in Boxes : box[b] = None => ~key[b]

LEMMA RevokedStep ==
  ASSUME Parts, Revoked, [Next]_vars
  PROVE  Revoked'
<1>0. box \in [Boxes -> {"assigned", "all", None}] /\ key \in [Boxes -> BOOLEAN] /\ None \notin {"assigned", "all"}
  BY NoneAssumption DEF Parts, PlatformOK
<1>1. UNCHANGED <<box, key>> => Revoked'
  BY DEF Revoked
<1>2. ASSUME NEW g \in Gateways, UpdateGateway(g) \/ DeleteGateway(g) PROVE Revoked'
  BY <1>1, <1>2 DEF UpdateGateway, DeleteGateway
<1>3. ASSUME NEW b \in Boxes, SetScope(b) PROVE Revoked'
  BY <1>0, <1>3 DEF SetScope, Revoked
<1>4. ASSUME NEW b \in Boxes, DeleteBox(b) PROVE Revoked'
  BY <1>0, <1>4 DEF DeleteBox, Revoked
<1>5. ASSUME NEW b \in Boxes, LinkDown(b) \/ LinkUp(b) \/ Fetch(b) \/ Apply(b) \/ NotApplied(b) PROVE Revoked'
  BY <1>1, <1>5 DEF LinkDown, LinkUp, Fetch, Apply, NotApplied, platformVars
<1>6. ASSUME NEW h \in Hosts, Manager(h) PROVE Revoked'
  BY <1>1, <1>6, ManagerFrame DEF platformVars
<1>7. CASE UNCHANGED vars
  BY <1>1, <1>7 DEF vars, platformVars
<1> QED BY <1>2, <1>3, <1>4, <1>5, <1>6, <1>7 DEF Next

\* Delete of a box and the sync of its copy: a box whose row is gone is answered
\* nothing more, although GatewaysFor would answer it with everything, and its copy
\* changes only by the answer that was on its way.
THEOREM RemovedHolds == Spec => RemovedBoxTakesNothing
<1>1. Init => Revoked
  <2> SUFFICES ASSUME Init, NEW b \in Boxes, box[b] = None PROVE ~key[b]
    BY DEF Revoked
  <2>1. /\ box[b] = IF b \in plan.all THEN "all" ELSE IF b \in plan.boxes THEN "assigned" ELSE None
        /\ key[b] = (b \in plan.boxes) /\ plan.all \subseteq plan.boxes
    BY PlansAssumption DEF Init
  <2> QED BY <2>1, NoneAssumption
<1>2. Parts /\ Revoked /\ [Next]_vars =>
        [\A b \in Boxes : box[b] = None /\ answer[b] = None => UNCHANGED <<answer[b], mirror[b]>>]_vars
  <2> SUFFICES ASSUME Parts, Revoked, [Next]_vars, NEW b \in Boxes, box[b] = None, answer[b] = None
               PROVE  UNCHANGED <<answer[b], mirror[b]>>
    OBVIOUS
  <2>1. ASSUME NEW other \in Boxes, Fetch(other) \/ Apply(other) \/ NotApplied(other)
        PROVE  UNCHANGED <<answer[b], mirror[b]>>
    <3>1. other # b
      BY <2>1 DEF Fetch, Apply, NotApplied, Served, Revoked
    <3> QED BY <2>1, <3>1 DEF Fetch, Apply, NotApplied, Parts, HostsOK
  <2>2. CASE Platform
    BY <2>2, PlatformFrame DEF Parts, Untouched, copyVars
  <2>3. ASSUME NEW h \in Hosts, Manager(h) PROVE UNCHANGED <<answer[b], mirror[b]>>
    BY <2>3, ManagerFrame
  <2>4. CASE UNCHANGED vars
    BY <2>4 DEF vars, copyVars
  <2> QED BY <2>1, <2>2, <2>3, <2>4 DEF Next, Platform
<1>3. Parts /\ Revoked /\ [Next]_vars => Parts' /\ Revoked'
  BY TypeStep, RevokedStep
<1> QED BY TypeStart, <1>1, <1>2, <1>3, PTL DEF Spec, RemovedBoxTakesNothing
=============================================================================
