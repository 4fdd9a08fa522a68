---------------------------- MODULE SparkplugNode ----------------------------
(***************************************************************************)
(* The Sparkplug B edge node inside a driver (internal/sparkplug/client.go)*)
(* and the two goroutines of the driver that use it: the poll loop, which  *)
(* publishes data and announces that the device came or went, and main,    *)
(* which announces the end.                                                *)
(*                                                                         *)
(* An operation of the client holds c.mu for writing from its checks to its*)
(* last publish and is one step here, or two where the node's birth is due *)
(* before the message: the spool may be replayed between the two.          *)
(* PublishDDEATH holds c.mu for reading only: it takes its sequence number *)
(* in one step and publishes in another, and two of them can run at once.  *)
(*                                                                         *)
(* Every message is published with QoS 0.  A publish goes out; or it fails *)
(* and says so, sent or not (a timeout); or it is reported as sent and     *)
(* never arrives: written to a socket that is dead, or dropped by the MQTT *)
(* library while it reconnects.  With the disk spool a failure is hidden   *)
(* from the client, and what it kept goes out after the reconnection, next *)
(* to live messages.                                                       *)
(*                                                                         *)
(* The host application on the other side is external: it follows the      *)
(* births, deaths and sequence numbers as the Sparkplug B specification    *)
(* asks it to, and what it makes of them is kept in "host".                *)
(***************************************************************************)
EXTENDS Integers, Sequences

CONSTANTS
  seqMax,     \* 256 in the code
  None, Asked,
  MaxSends,   \* bound on operations that publish
  MaxFails,   \* nothing goes wrong on a working link after so many failures
  MaxDowns,   \* bound on outages of the link
  Plans       \* [driver, spool]: driver "modbus", "opcua" or "redis"; is SpoolPath set

Drivers == {"modbus", "opcua", "redis"}
DeviceTypes == {"DBIRTH", "DDATA", "DDEATH"}
Types == DeviceTypes \cup {"NBIRTH", "NDEATH"}

ASSUME SparkplugAssumption ==
  /\ seqMax \in Nat \ {0, 1} /\ None \notin Int /\ Asked \notin Int /\ Asked # None
  /\ None \notin DeviceTypes
  /\ MaxSends \in Nat /\ MaxFails \in Nat /\ MaxDowns \in Nat
  /\ \A p \in Plans : p.driver \in Drivers /\ p.spool \in BOOLEAN

Seqs == 0..(seqMax - 1)
Message == [type : DeviceTypes, seq : Seqs] \cup [type : {"NBIRTH", "NDEATH"}, bd : Seqs]
Client == [connected : BOOLEAN, birthSent : BOOLEAN, seqNum : Seqs, bdSeq : Seqs]
Host == [bd : Seqs \cup {None}, seq : Seqs \cup {None}, device : BOOLEAN,
         gaps : Nat, unborn : Nat, stray : Nat]
Callers == {"poll", "main"}

VARIABLES
  plan,
  node,      \* the client: connected, birthSent, seqNum, bdSeq
  device,    \* isConnected of the driver
  phase,     \* of the process: "new", "up", "dying" (main publishes DDEATH), "down"
  dying,     \* who is inside PublishDDEATH: None, Asked, or the number it took
  pending,   \* the type of the message that waits behind an NBIRTH, under c.mu
  link,      \* is the broker reachable
  disk,      \* the spool, in the order of its writes
  host,      \* bd: of the node it takes for alive; seq: of the last message; is
             \* the device alive; how many gaps, unborn and stray it has counted
  sends, fails, downs,
  \* Histories: publishes of each type that went wrong, one way or the other;
  \* messages heard out of the spool; NBIRTHs that the client takes for heard.
  missed, late, deaf

outside == <<host, disk, fails, missed, deaf>>   \* what a publish changes
vars == <<plan, node, device, phase, dying, pending, link, sends, downs, late, outside>>

TypeOK ==
  /\ plan \in Plans
  /\ node \in Client
  /\ device \in BOOLEAN /\ phase \in {"new", "up", "dying", "down"}
  /\ dying \in [Callers -> Seqs \cup {None, Asked}] /\ pending \in DeviceTypes \cup {None}
  /\ link \in BOOLEAN
  /\ disk \in Seq(Message)
  /\ host \in Host
  /\ sends \in 0..MaxSends /\ fails \in Nat /\ downs \in 0..MaxDowns
  /\ missed \in [Types -> Nat] /\ late \in Nat /\ deaf \in Nat

-----------------------------------------------------------------------------
(* The host application (external). *)

Succ(n) == (n + 1) % seqMax

Hear(h, m) ==
  IF m.type = "NBIRTH" THEN [h EXCEPT !.bd = m.bd, !.seq = 0, !.device = FALSE]
  ELSE IF m.type = "NDEATH"
  THEN IF m.bd = h.bd THEN [h EXCEPT !.bd = None, !.seq = None, !.device = FALSE]
                      ELSE [h EXCEPT !.stray = @ + 1]
  ELSE [h EXCEPT !.seq = m.seq,
                 !.device = IF m.type = "DDATA" THEN @ ELSE m.type = "DBIRTH",
                 !.gaps = IF h.seq # None /\ m.seq # Succ(h.seq) THEN @ + 1 ELSE @,
                 !.unborn = IF h.bd = None /\ m.type # "DDEATH" THEN @ + 1 ELSE @]

-----------------------------------------------------------------------------
(* The client. *)

NewClient == [connected |-> FALSE, birthSent |-> FALSE, seqNum |-> 0, bdSeq |-> 0]

Init ==
  /\ plan \in Plans
  /\ node = NewClient
  \* driver-redis connects to its device before there is a client to tell.
  /\ device \in (IF plan.driver = "redis" THEN BOOLEAN ELSE {FALSE})
  /\ phase = "new" /\ dying = [c \in Callers |-> None] /\ pending = None
  /\ link \in (IF MaxDowns > 0 THEN BOOLEAN ELSE {TRUE})
  /\ disk = <<>>
  /\ host = [bd |-> None, seq |-> None, device |-> FALSE, gaps |-> 0, unborn |-> 0, stray |-> 0]
  /\ sends = 0 /\ fails = 0 /\ downs = 0
  /\ missed = [t \in Types |-> 0] /\ late = 0 /\ deaf = 0

\* PublishWithQoS as its caller and the host see it: is the message heard, is it
\* kept on disk, does an error come back, did anything go wrong.  A spool that is
\* there may refuse the message.
Attempts ==
  LET Fault(sent) == {[out |-> sent, kept |-> k, err |-> ~k, bad |-> TRUE] : k \in {FALSE, plan.spool}}
      Silent == {[out |-> FALSE, kept |-> FALSE, err |-> FALSE, bad |-> TRUE]}
      Success == {[out |-> TRUE, kept |-> FALSE, err |-> FALSE, bad |-> FALSE]}
  IN IF ~link THEN Fault(FALSE) \cup (IF downs > 0 THEN Silent ELSE {})
     ELSE Success \cup (IF fails < MaxFails THEN Fault(TRUE) \cup Fault(FALSE) \cup Silent ELSE {})

(* Mutant: the number is handed out and not advanced. *)
NumberNotTaken(c) == c.seqNum

\* nextSeq: the number is used up before the publish and whatever comes of it.
NextSeq(c) == Succ(c.seqNum)

\* restartSeq and newBdSeq; the flag is set only when the publish succeeded.
AfterBirth(c, failed) ==
  [c EXCEPT !.bdSeq = Succ(c.bdSeq), !.seqNum = 1, !.birthSent = ~failed]

\* What the outside sees of an attempt to publish m.
Sent(m, a) ==
  /\ host' = IF a.out THEN Hear(host, m) ELSE host
  /\ disk' = IF a.kept THEN Append(disk, m) ELSE disk
  /\ fails' = IF a.bad THEN fails + 1 ELSE fails
  /\ missed' = IF a.bad THEN [missed EXCEPT ![m.type] = @ + 1] ELSE missed
  /\ deaf' = IF m.type = "NBIRTH" /\ ~a.out /\ ~a.err THEN deaf + 1 ELSE deaf

SendNBIRTH(c) ==
  \E a \in Attempts :
    /\ node' = AfterBirth(c, a.err)
    /\ Sent([type |-> "NBIRTH", bd |-> c.bdSeq], a)

\* A device message with the next number.
SendDevice(type) ==
  \E a \in Attempts :
    /\ node' = [node EXCEPT !.seqNum = NextSeq(node)]
    /\ Sent([type |-> type, seq |-> node.seqNum], a)

\* c.mu: nobody is inside PublishDDEATH, nobody between a birth and its message.
NoReader == \A c \in Callers : dying[c] \notin Seqs
NoWriter == pending = None

\* SetConnected(true) and Connect of a new client: the node is announced.  A
\* failure is left to the next publish.
SetConnected == SendNBIRTH([NewClient EXCEPT !.connected = TRUE])

\* initSparkplugClient: a new client, announced at once.
Start ==
  /\ phase = "new"
  /\ phase' = "up"
  /\ SetConnected
  /\ UNCHANGED <<plan, device, dying, pending, link, sends, downs, late>>

\* The poll loop is not inside a call to the client.
PollLoopFree == phase \in {"up", "dying"} /\ dying["poll"] = None /\ NoWriter

\* driver-redis builds another client at every reload.
Reload ==
  /\ plan.driver = "redis" /\ PollLoopFree
  /\ sends < MaxSends /\ sends' = sends + 1
  /\ SetConnected
  /\ UNCHANGED <<plan, device, phase, dying, pending, link, downs, late>>

(* Mutant: data goes out without a look at the node's birth. *)
PublishWithoutBirth(type) ==
  /\ node.connected /\ NoReader /\ NoWriter
  /\ SendDevice(type)
  /\ UNCHANGED pending

\* PublishDDATA and PublishDBIRTH: ensureNodeBirthLocked sends the birth first if it
\* is due, ...
PublishDevice(type) ==
  /\ node.connected /\ NoReader /\ NoWriter
  /\ IF node.birthSent THEN SendDevice(type) /\ UNCHANGED pending
                       ELSE SendNBIRTH(node) /\ pending' = type

\* ... and the message follows, even if the birth failed.
PublishAfterBirth ==
  /\ ~NoWriter
  /\ SendDevice(pending)
  /\ pending' = None
  /\ UNCHANGED <<plan, device, phase, dying, link, sends, downs, late>>

\* publishDual of the poll loop, or of a write.
PublishDDATA ==
  /\ sends < MaxSends /\ sends' = sends + 1
  /\ PublishDevice("DDATA")
  /\ UNCHANGED <<plan, device, phase, dying, link, downs, late>>

(* Mutant: a device that is down from the start is announced as dead. *)
AnnouncesEveryState(connected) ==
  /\ PollLoopFree
  /\ sends < MaxSends /\ sends' = sends + 1
  /\ device' = connected
  /\ dying' = [dying EXCEPT !["poll"] = Asked]
  /\ UNCHANGED <<plan, node, phase, pending, link, downs, late, outside>>

\* setConnectionState: a change is announced while the client is connected; a
\* birth or a death that fails is not announced again.
SetConnectionState(connected) ==
  /\ PollLoopFree
  /\ sends < MaxSends /\ sends' = sends + 1
  /\ device # connected
  /\ device' = connected
  /\ \/ ~node.connected /\ UNCHANGED <<node, dying, pending, outside>>
     \/ connected /\ PublishDevice("DBIRTH") /\ UNCHANGED dying
     \/ /\ ~connected /\ node.connected
        /\ dying' = [dying EXCEPT !["poll"] = Asked]
        /\ UNCHANGED <<node, pending, outside>>
  /\ UNCHANGED <<plan, phase, link, downs, late>>

\* main got a signal; driver-opcua and driver-redis announce the device's death
\* while the poll loop still runs.
Shutdown ==
  /\ phase = "up"
  /\ phase' = "dying"
  /\ dying' = IF plan.driver # "modbus" /\ node.connected THEN [dying EXCEPT !["main"] = Asked] ELSE dying
  /\ UNCHANGED <<plan, node, device, pending, link, sends, downs, late, outside>>

\* PublishDDEATH: under the read lock, the number ...
DDeathSeq(c) ==
  /\ dying[c] = Asked /\ NoWriter
  /\ IF node.connected
     THEN /\ dying' = [dying EXCEPT ![c] = node.seqNum]
          /\ node' = [node EXCEPT !.seqNum = NextSeq(node)]
     ELSE dying' = [dying EXCEPT ![c] = None] /\ UNCHANGED node
  /\ UNCHANGED <<plan, device, phase, pending, link, sends, downs, late, outside>>

\* ... and the publish.
DDeathPublish(c) ==
  /\ dying[c] \in Seqs
  /\ \E a \in Attempts : Sent([type |-> "DDEATH", seq |-> dying[c]], a)
  /\ dying' = [dying EXCEPT ![c] = None]
  /\ UNCHANGED <<plan, node, device, phase, pending, link, sends, downs, late>>

(* Mutant: the death carries the number of the next session. *)
NextBdSeq(c) == c.bdSeq

\* currentBdSeq: the counter is one ahead of the session.
CurrentBdSeq(c) == (c.bdSeq + seqMax - 1) % seqMax

\* sendNDEATH: it takes no sequence number.
SendNDEATH(c) ==
  \E a \in Attempts : Sent([type |-> "NDEATH", bd |-> CurrentBdSeq(c)], a)

\* Disconnect: the node's death, and no message after it.
Disconnect ==
  /\ phase = "dying" /\ dying["main"] = None /\ NoReader /\ NoWriter
  /\ phase' = "down"
  /\ IF node.connected
     THEN SendNDEATH(node) /\ node' = [node EXCEPT !.connected = FALSE, !.birthSent = FALSE]
     ELSE UNCHANGED <<node, outside>>
  /\ UNCHANGED <<plan, device, dying, pending, link, sends, downs, late>>

-----------------------------------------------------------------------------
(* The link and the spool. *)

LinkDown ==
  /\ link /\ downs < MaxDowns
  /\ link' = FALSE /\ downs' = downs + 1
  /\ UNCHANGED <<plan, node, device, phase, dying, pending, sends, late, outside>>

LinkUp ==
  /\ ~link /\ link' = TRUE
  /\ UNCHANGED <<plan, node, device, phase, dying, pending, sends, downs, late, outside>>

\* drainSpool sends the oldest line while live messages go out beside it: the
\* host hears it, and a timeout keeps the line for the next replay; ...
ReplayHeard ==
  /\ link /\ disk # <<>>
  /\ host' = Hear(host, Head(disk)) /\ late' = late + 1
  /\ \/ disk' = Tail(disk) /\ UNCHANGED fails
     \/ fails < MaxFails /\ fails' = fails + 1 /\ UNCHANGED disk
  /\ UNCHANGED <<plan, node, device, phase, dying, pending, link, sends, downs, missed, deaf>>

\* ... or it is lost in silence, as any QoS 0 message, and gone from the disk.
ReplayLost ==
  /\ disk # <<>>
  /\ IF link THEN fails < MaxFails /\ fails' = fails + 1 ELSE downs > 0 /\ UNCHANGED fails
  /\ disk' = Tail(disk)
  /\ UNCHANGED <<plan, node, device, phase, dying, pending, link, sends, downs, late, host, missed, deaf>>

Next ==
  \/ Start \/ Reload \/ PublishDDATA \/ PublishAfterBirth
  \/ \E b \in BOOLEAN : SetConnectionState(b)
  \/ Shutdown
  \/ \E c \in Callers : DDeathSeq(c) \/ DDeathPublish(c)
  \/ Disconnect
  \/ LinkDown \/ LinkUp \/ ReplayHeard \/ ReplayLost

Spec == Init /\ [][Next]_vars

-----------------------------------------------------------------------------
\* The numbers a host checks: a publish that went wrong makes one gap at most in
\* the stream NBIRTH, DBIRTH, DDATA, DDEATH and a message out of the spool two,
\* before and after it; nothing else makes any, across the wrap at seqMax and
\* across births, where one goroutine at a time calls PublishDDEATH.
GapsCostFailures ==
  plan.driver = "modbus" => host.gaps <= fails + 2 * late

\* "NBIRTH first, always": what a device sends is heard from a node that was
\* born.  A birth that failed is tried again before the next message, so one of
\* them at most goes out unborn for each failed try, and of the replayed ones.
\* It is not tried again when the client takes it for heard: then deaf > 0.
NodeBornFirst ==
  deaf = 0 => host.unborn <= missed["NBIRTH"] + late

\* "NDEATH repeats the bdSeq of the session it closes": a host recognises every
\* death it hears from a live client, unless a publish of NBIRTH went wrong; and
\* what it takes for a live node after the shutdown is one whose NDEATH did.
DeathIsRecognised ==
  missed["NBIRTH"] = 0 =>
    /\ host.stray <= late
    /\ phase = "down" /\ missed["NDEATH"] = 0 => host.bd = None

\* Once no death is on its way, the host has the device's own state, unless a
\* birth or a death went wrong (it is announced once and never again), however
\* many data messages were lost or came late.
DeviceStateHeard ==
  plan.driver # "redis" /\ (\A t \in {"NBIRTH", "DBIRTH", "DDEATH"} : missed[t] = 0)
    /\ phase = "up" /\ (\A c \in Callers : dying[c] = None) => host.device = device
=============================================================================
