--------------------------- MODULE SparkplugProofs ---------------------------
(***************************************************************************)
(* What the Sparkplug node promises its host, for any length of the        *)
(* numbering, any number of messages, failures and outages, with the disk  *)
(* spool and without it.                                                   *)
(***************************************************************************)
EXTENDS SparkplugNode, SequenceTheorems, TLAPS

-----------------------------------------------------------------------------
(* The strengthenings. *)

\* What waits on disk is a message whose publish went wrong; the node's death
\* waits there only when the node is gone.
SpoolInv ==
  \A i \in 1..Len(disk) :
    missed[disk[i].type] > 0 /\ (disk[i].type = "NDEATH" => phase = "down")

\* The client is connected from its start to its end; a message waits behind a
\* birth only while nobody is inside PublishDDEATH; and a birth is due only
\* after one that failed.
LockInv ==
  /\ node.connected <=> phase \in {"up", "dying"}
  /\ phase = "down" => ~node.birthSent
  /\ phase = "new" => dying["poll"] = None
  /\ pending # None => phase \in {"up", "dying"} /\ NoReader
  /\ phase \in {"up", "dying"} /\ (~node.birthSent \/ pending # None) => missed["NBIRTH"] > 0

\* The number of the next device message: the one that a PublishDDEATH holds, or
\* the counter.
Next1 == IF dying["poll"] \in Seqs THEN dying["poll"] ELSE node.seqNum

\* The gap that the host will count at that message.
Owed(h, n) == IF h.seq # None /\ n # Succ(h.seq) THEN 1 ELSE 0

\* While the poll loop's PublishDDEATH holds a number nobody else uses one.
Gapless ==
  /\ host.gaps + Owed(host, Next1) <= fails + 2 * late
  /\ dying["poll"] \in Seqs => node.seqNum = Succ(dying["poll"])
  /\ dying["main"] = None
GapsInv == plan.driver = "modbus" => Gapless

\* A message that waits behind a failed birth will be heard unborn.
Due == IF pending # None /\ ~node.birthSent THEN 1 ELSE 0

\* A client whose birth went through has a host that knows of it.
Born ==
  /\ host.unborn + Due <= missed["NBIRTH"] + late
  /\ node.birthSent => host.bd # None
BornInv == deaf = 0 => Born

\* Before its shutdown the node is born, as the session the host believes in.
Buried ==
  /\ host.stray <= late
  /\ phase \in {"up", "dying"} => host.bd = CurrentBdSeq(node)
  /\ phase = "down" /\ missed["NDEATH"] = 0 => host.bd = None
DeathInv == missed["NBIRTH"] = 0 => Buried

\* Until the shutdown only the poll loop announces deaths; while one is on its
\* way the device is down, and otherwise the host has its state.
Agreed ==
  /\ phase = "new" => ~device /\ ~host.device
  /\ phase = "up" => IF dying["poll"] = None THEN host.device = device ELSE ~device
Announced == \A t \in {"NBIRTH", "DBIRTH", "DDEATH"} : missed[t] = 0
DeviceInv ==
  /\ phase \in {"new", "up"} => dying["main"] = None
  /\ plan.driver # "redis" /\ Announced => Agreed

-----------------------------------------------------------------------------
(* Numbers, messages and attempts. *)

\* nextSeq and currentBdSeq: the numbering wraps, and the counter less one is the
\* number of the session.
LEMMA Numbers ==
  \A n \in Seqs : /\ Succ(n) = IF n = seqMax - 1 THEN 0 ELSE n + 1
                  /\ Succ(n) \in Seqs
                  /\ (Succ(n) + seqMax - 1) % seqMax = n
                  /\ (n + seqMax - 1) % seqMax \in Seqs
<1> SUFFICES ASSUME NEW n \in Seqs
             PROVE  /\ Succ(n) = IF n = seqMax - 1 THEN 0 ELSE n + 1
                    /\ Succ(n) \in Seqs
                    /\ (Succ(n) + seqMax - 1) % seqMax = n
                    /\ (n + seqMax - 1) % seqMax \in Seqs
  OBVIOUS
<1>1. seqMax \in Nat /\ seqMax > 1 /\ n \in Nat /\ n <= seqMax - 1
  BY SparkplugAssumption DEF Seqs
<1>2. CASE n = seqMax - 1
  BY <1>1, <1>2 DEF Succ, Seqs
<1>3. CASE n # seqMax - 1
  BY <1>1, <1>3 DEF Succ, Seqs
<1> QED BY <1>2, <1>3

LEMMA MessageForms ==
  /\ \A n \in Seqs, t \in DeviceTypes : [type |-> t, seq |-> n] \in Message
  /\ \A n \in Seqs, t \in {"NBIRTH", "NDEATH"} : [type |-> t, bd |-> n] \in Message
  BY DEF Message

\* What the host makes of a message.
LEMMA HearType ==
  ASSUME NEW h \in Host, NEW m \in Message
  PROVE  Hear(h, m) \in Host
<1>1. CASE m \in [type : {"NBIRTH", "NDEATH"}, bd : Seqs]
  <2>1. CASE m.type = "NBIRTH"
    <3>1. Hear(h, m) = [h EXCEPT !.bd = m.bd, !.seq = 0, !.device = FALSE]
      BY <2>1 DEF Hear
    <3>2. 0 \in Seqs /\ m.bd \in Seqs
      BY <1>1, SparkplugAssumption DEF Seqs
    <3> QED BY <3>1, <3>2 DEF Host
  <2>2. CASE m.type = "NDEATH" /\ m.bd = h.bd
    <3>1. Hear(h, m) = [h EXCEPT !.bd = None, !.seq = None, !.device = FALSE]
      BY <2>2 DEF Hear
    <3> QED BY <3>1 DEF Host
  <2>3. CASE m.type = "NDEATH" /\ m.bd # h.bd
    <3>1. Hear(h, m) = [h EXCEPT !.stray = @ + 1]
      BY <2>3 DEF Hear
    <3> QED BY <3>1 DEF Host
  <2> QED BY <1>1, <2>1, <2>2, <2>3
<1>2. CASE m \in [type : DeviceTypes, seq : Seqs]
  <2> DEFINE d == IF m.type = "DDATA" THEN h.device ELSE m.type = "DBIRTH"
             k == IF h.seq # None /\ m.seq # Succ(h.seq) THEN h.gaps + 1 ELSE h.gaps
             u == IF h.bd = None /\ m.type # "DDEATH" THEN h.unborn + 1 ELSE h.unborn
  <2>1. Hear(h, m) = [h EXCEPT !.seq = m.seq, !.device = d, !.gaps = k, !.unborn = u]
    BY <1>2 DEF Hear, DeviceTypes, Host
  <2>2. d \in BOOLEAN
    BY DEF Host
  <2>3. k \in Nat /\ u \in Nat /\ m.seq \in Seqs
    BY <1>2 DEF Host
  <2> HIDE DEF d, k, u
  <2> QED BY <2>1, <2>2, <2>3 DEF Host
<1> QED BY <1>1, <1>2 DEF Message

\* A device message and the state of the host, field by field.
LEMMA HearDevice ==
  ASSUME NEW h \in Host, NEW n \in Seqs, NEW t \in DeviceTypes
  PROVE  LET g == Hear(h, [type |-> t, seq |-> n])
         IN /\ g.bd = h.bd /\ g.seq = n /\ g.stray = h.stray
            /\ g.device = IF t = "DDATA" THEN h.device ELSE t = "DBIRTH"
            /\ g.gaps = h.gaps + Owed(h, n)
            /\ g.unborn = IF h.bd = None /\ t # "DDEATH" THEN h.unborn + 1 ELSE h.unborn
<1>1. [type |-> t, seq |-> n].type = t /\ [type |-> t, seq |-> n].seq = n
  OBVIOUS
<1>2. Hear(h, [type |-> t, seq |-> n]) =
        [h EXCEPT !.seq = n,
                  !.device = IF t = "DDATA" THEN @ ELSE t = "DBIRTH",
                  !.gaps = IF h.seq # None /\ n # Succ(h.seq) THEN @ + 1 ELSE @,
                  !.unborn = IF h.bd = None /\ t # "DDEATH" THEN @ + 1 ELSE @]
  BY <1>1 DEF Hear, DeviceTypes
<1> DEFINE g == Hear(h, [type |-> t, seq |-> n])
<1>3. g.bd = h.bd /\ g.seq = n /\ g.stray = h.stray
  BY <1>2 DEF Host
<1>4. g.device = IF t = "DDATA" THEN h.device ELSE t = "DBIRTH"
  <2>1. CASE t = "DDATA"
    BY <1>2, <2>1 DEF Host
  <2>2. CASE t # "DDATA"
    BY <1>2, <2>2 DEF Host
  <2> QED BY <2>1, <2>2
<1>5. g.gaps = h.gaps + Owed(h, n)
  <2>1. g.gaps = IF h.seq # None /\ n # Succ(h.seq) THEN h.gaps + 1 ELSE h.gaps
    BY <1>2 DEF Host
  <2>2. h.gaps \in Nat
    BY DEF Host
  <2> QED BY <2>1, <2>2 DEF Owed
<1>6. g.unborn = IF h.bd = None /\ t # "DDEATH" THEN h.unborn + 1 ELSE h.unborn
  BY <1>2 DEF Host
<1> QED BY <1>3, <1>4, <1>5, <1>6

LEMMA HearBirth ==
  ASSUME NEW h \in Host, NEW n
  PROVE  LET g == Hear(h, [type |-> "NBIRTH", bd |-> n])
         IN /\ g.bd = n /\ g.seq = 0 /\ ~g.device
            /\ g.stray = h.stray /\ g.gaps = h.gaps /\ g.unborn = h.unborn
  BY DEF Hear, Host

LEMMA HearDeath ==
  ASSUME NEW h \in Host, NEW n
  PROVE  LET g == Hear(h, [type |-> "NDEATH", bd |-> n])
         IN /\ g.gaps = h.gaps /\ g.unborn = h.unborn
            /\ n = h.bd => g.bd = None /\ g.seq = None /\ g.stray = h.stray
            /\ n # h.bd => g.bd = h.bd /\ g.seq = h.seq /\ g.stray = h.stray + 1
<1>1. [type |-> "NDEATH", bd |-> n].type = "NDEATH" /\ [type |-> "NDEATH", bd |-> n].bd = n
  OBVIOUS
<1> QED BY <1>1 DEF Hear, Host

-----------------------------------------------------------------------------
(* One attempt, and what it comes to. *)

\* The host hears the message or not, the disk keeps it or not; and where it was
\* not both heard and well, the attempt is counted.
Effect(m, err) ==
  /\ host' \in {host, Hear(host, m)} /\ disk' \in {disk, Append(disk, m)} /\ deaf' \in {deaf, deaf + 1}
  /\ \/ ~err /\ host' = Hear(host, m) /\ disk' = disk /\ fails' = fails /\ missed' = missed
     \/ fails' = fails + 1 /\ missed' = [missed EXCEPT ![m.type] = @ + 1]
  /\ m.type = "NBIRTH" /\ ~err /\ deaf' = 0 => host' = Hear(host, m)

LEMMA AttemptForms ==
  ASSUME TypeOK, NEW a \in Attempts
  PROVE  /\ a.out \in BOOLEAN /\ a.kept \in BOOLEAN /\ a.err \in BOOLEAN /\ a.bad \in BOOLEAN
         /\ ~a.bad => a.out /\ ~a.kept /\ ~a.err
<1>1. plan.spool \in BOOLEAN
  BY SparkplugAssumption DEF TypeOK
<1>2. \/ a = [out |-> TRUE, kept |-> FALSE, err |-> FALSE, bad |-> FALSE]
      \/ \E s \in BOOLEAN, k \in BOOLEAN, e \in BOOLEAN : a = [out |-> s, kept |-> k, err |-> e, bad |-> TRUE]
  BY <1>1 DEF Attempts
<1>3. CASE a = [out |-> TRUE, kept |-> FALSE, err |-> FALSE, bad |-> FALSE]
  BY <1>3
<1>4. ASSUME NEW s \in BOOLEAN, NEW k \in BOOLEAN, NEW e \in BOOLEAN, a = [out |-> s, kept |-> k, err |-> e, bad |-> TRUE]
      PROVE  a.out = s /\ a.kept = k /\ a.err = e /\ a.bad = TRUE
  BY <1>4, Zenon
<1> QED BY <1>2, <1>3, <1>4

LEMMA SentEffect ==
  ASSUME TypeOK, NEW m \in Message, NEW a \in Attempts, Sent(m, a)
  PROVE  Effect(m, a.err) /\ a.err \in BOOLEAN
<1>1. /\ a.out \in BOOLEAN /\ a.kept \in BOOLEAN /\ a.err \in BOOLEAN /\ a.bad \in BOOLEAN
      /\ ~a.bad => a.out /\ ~a.kept /\ ~a.err
  BY AttemptForms
<1>2. deaf \in Nat
  BY DEF TypeOK
<1>3. CASE a.bad
  BY <1>1, <1>2, <1>3 DEF Sent, Effect
<1>4. CASE ~a.bad
  BY <1>1, <1>2, <1>4 DEF Sent, Effect
<1> QED BY <1>1, <1>3, <1>4

LEMMA MessageType ==
  ASSUME NEW m \in Message
  PROVE  m.type \in Types
  BY DEF Message, Types

\* The types of what it changes, and what it cannot take back.
LEMMA EffectType ==
  ASSUME TypeOK, NEW m \in Message, NEW e \in BOOLEAN, Effect(m, e)
  PROVE  /\ host' \in Host /\ disk' \in Seq(Message) /\ fails' \in Nat /\ deaf' \in Nat
         /\ missed' \in [Types -> Nat]
         /\ \A t \in Types : missed'[t] >= missed[t] /\ (t # m.type => missed'[t] = missed[t])
         /\ deaf' = 0 => deaf = 0
         /\ missed'[m.type] = 0 => ~e /\ host' = Hear(host, m) /\ disk' = disk /\ fails' = fails /\ missed' = missed
         /\ e => missed'[m.type] = missed[m.type] + 1
         /\ \/ host' = Hear(host, m) /\ fails' = fails
            \/ host' \in {host, Hear(host, m)} /\ fails' = fails + 1
<1>1. /\ host \in Host /\ disk \in Seq(Message) /\ fails \in Nat /\ deaf \in Nat /\ missed \in [Types -> Nat]
      /\ m.type \in Types
  BY MessageType DEF TypeOK
<1>2. host' \in Host
  BY <1>1, HearType DEF Effect
<1>3. disk' \in Seq(Message)
  BY <1>1, AppendProperties DEF Effect
<1>4. deaf' \in Nat /\ (deaf' = 0 => deaf = 0)
  BY <1>1 DEF Effect
<1>5. CASE ~e /\ host' = Hear(host, m) /\ disk' = disk /\ fails' = fails /\ missed' = missed
  BY <1>1, <1>2, <1>3, <1>4, <1>5
<1>6. CASE fails' = fails + 1 /\ missed' = [missed EXCEPT ![m.type] = @ + 1]
  <2>1. missed' \in [Types -> Nat] /\ fails' \in Nat
    BY <1>1, <1>6
  <2>2. \A t \in Types : missed'[t] = IF t = m.type THEN missed[t] + 1 ELSE missed[t]
    BY <1>1, <1>6
  <2>3. /\ \A t \in Types : missed'[t] >= missed[t] /\ (t # m.type => missed'[t] = missed[t])
        /\ missed'[m.type] = missed[m.type] + 1 /\ missed'[m.type] # 0
    BY <1>1, <2>2
  <2>4. host' \in {host, Hear(host, m)}
    BY DEF Effect
  <2> QED BY <1>2, <1>3, <1>4, <1>6, <2>1, <2>3, <2>4
<1> QED BY <1>5, <1>6 DEF Effect

\* restartSeq and newBdSeq, field by field.
LEMMA BirthFields ==
  ASSUME NEW c \in Client, c.connected, NEW failed \in BOOLEAN
  PROVE  /\ AfterBirth(c, failed) \in Client
         /\ AfterBirth(c, failed).connected
         /\ AfterBirth(c, failed).birthSent <=> ~failed
         /\ AfterBirth(c, failed).seqNum = 1
         /\ AfterBirth(c, failed).bdSeq = Succ(c.bdSeq)
<1> DEFINE e == ~failed
           n == Succ(c.bdSeq)
           d == [c EXCEPT !.bdSeq = n, !.seqNum = 1, !.birthSent = e]
<1>0. e \in BOOLEAN /\ 1 \in Seqs
  BY SparkplugAssumption DEF Seqs
<1>1. n \in Seqs
  BY Numbers DEF Client
<1>2. AfterBirth(c, failed) = d
  BY Zenon DEF AfterBirth
<1> HIDE DEF e, n
<1>3. d \in Client
  BY <1>0, <1>1 DEF Client
<1>4. d.connected
  BY DEF Client
<1>5. d.seqNum = 1 /\ d.bdSeq = n
  BY DEF Client
<1>6. d.birthSent = e
  BY DEF Client
<1> QED BY <1>2, <1>3, <1>4, <1>5, <1>6, Zenon DEF e, n

\* nextSeq, field by field.
LEMMA NextFields ==
  ASSUME NEW c \in Client
  PROVE  LET d == [c EXCEPT !.seqNum = Succ(c.seqNum)]
         IN /\ d \in Client /\ d.seqNum = Succ(c.seqNum) /\ d.bdSeq = c.bdSeq
            /\ (d.connected <=> c.connected) /\ (d.birthSent <=> c.birthSent)
<1>1. Succ(c.seqNum) \in Seqs
  BY Numbers DEF Client
<1> DEFINE d == [c EXCEPT !.seqNum = Succ(c.seqNum)]
<1>2. d \in Client
  BY <1>1 DEF Client
<1>3. d.seqNum = Succ(c.seqNum) /\ d.bdSeq = c.bdSeq
  BY DEF Client
<1>4. d.connected = c.connected /\ d.birthSent = c.birthSent
  BY DEF Client
<1> QED BY <1>2, <1>3, <1>4, Zenon

\* sendNBIRTH of a connected client.
LEMMA BirthEffect ==
  ASSUME TypeOK, NEW c \in Client, c.connected, SendNBIRTH(c)
  PROVE  /\ [type |-> "NBIRTH", bd |-> c.bdSeq] \in Message
         /\ \E e \in BOOLEAN :
              /\ node' \in Client /\ node'.connected /\ (node'.birthSent <=> ~e)
              /\ node'.seqNum = 1 /\ node'.bdSeq = Succ(c.bdSeq)
              /\ Effect([type |-> "NBIRTH", bd |-> c.bdSeq], e)
<1>1. PICK a \in Attempts : node' = AfterBirth(c, a.err) /\ Sent([type |-> "NBIRTH", bd |-> c.bdSeq], a)
  BY DEF SendNBIRTH
<1>2. [type |-> "NBIRTH", bd |-> c.bdSeq] \in Message
  BY MessageForms DEF Client
<1>3. Effect([type |-> "NBIRTH", bd |-> c.bdSeq], a.err) /\ a.err \in BOOLEAN
  BY <1>1, <1>2, SentEffect
<1>4. /\ AfterBirth(c, a.err) \in Client
      /\ AfterBirth(c, a.err).connected
      /\ AfterBirth(c, a.err).birthSent <=> ~a.err
      /\ AfterBirth(c, a.err).seqNum = 1
      /\ AfterBirth(c, a.err).bdSeq = Succ(c.bdSeq)
  BY <1>3, BirthFields
<1> QED BY <1>1, <1>2, <1>3, <1>4, Zenon

\* Connect of a new client.
LEMMA AnnounceEffect ==
  ASSUME TypeOK, SetConnected
  PROVE  /\ [type |-> "NBIRTH", bd |-> 0] \in Message
         /\ \E e \in BOOLEAN :
              /\ node' \in Client /\ node'.connected /\ (node'.birthSent <=> ~e)
              /\ node'.seqNum = 1 /\ node'.bdSeq = Succ(0)
              /\ Effect([type |-> "NBIRTH", bd |-> 0], e)
<1> DEFINE c == [NewClient EXCEPT !.connected = TRUE]
<1>1. 0 \in Seqs
  BY SparkplugAssumption DEF Seqs
<1>2. c \in Client /\ c.connected /\ c.bdSeq = 0
  BY <1>1 DEF NewClient, Client
<1>3. SendNBIRTH(c)
  BY DEF SetConnected
<1> HIDE DEF c
<1> QED BY <1>2, <1>3, BirthEffect

\* A device message takes the next number and leaves the rest of the client alone.
LEMMA DeviceEffect ==
  ASSUME TypeOK, NEW t \in DeviceTypes, SendDevice(t)
  PROVE  /\ [type |-> t, seq |-> node.seqNum] \in Message
         /\ node' \in Client /\ node'.seqNum = Succ(node.seqNum) /\ node'.bdSeq = node.bdSeq
         /\ node'.connected <=> node.connected
         /\ node'.birthSent <=> node.birthSent
         /\ \E e \in BOOLEAN : Effect([type |-> t, seq |-> node.seqNum], e)
<1>1. PICK a \in Attempts : node' = [node EXCEPT !.seqNum = Succ(node.seqNum)]
                           /\ Sent([type |-> t, seq |-> node.seqNum], a)
  BY DEF SendDevice, NextSeq
<1>2. node \in Client /\ node.seqNum \in Seqs
  BY DEF TypeOK, Client
<1>3. [type |-> t, seq |-> node.seqNum] \in Message
  BY <1>2, MessageForms
<1>4. Effect([type |-> t, seq |-> node.seqNum], a.err) /\ a.err \in BOOLEAN
  BY <1>1, <1>3, SentEffect
<1> DEFINE d == [node EXCEPT !.seqNum = Succ(node.seqNum)]
<1>5. /\ d \in Client /\ d.seqNum = Succ(node.seqNum) /\ d.bdSeq = node.bdSeq
      /\ (d.connected <=> node.connected) /\ (d.birthSent <=> node.birthSent)
  BY <1>2, NextFields
<1> QED BY <1>1, <1>3, <1>4, <1>5, Zenon

\* PublishDDATA and PublishDBIRTH: the message, or the birth that is due.
LEMMA PublishForms ==
  ASSUME NEW t \in DeviceTypes, PublishDevice(t)
  PROVE  /\ node.connected /\ NoReader /\ pending = None
         /\ \/ node.birthSent /\ SendDevice(t) /\ pending' = None
            \/ ~node.birthSent /\ SendNBIRTH(node) /\ pending' = t
  BY DEF PublishDevice, NoWriter

\* The number of a death, and the client that gave it.
LEMMA DDeathSeqFields ==
  ASSUME TypeOK, NEW c \in Callers, DDeathSeq(c)
  PROVE  /\ node' \in Client /\ node'.bdSeq = node.bdSeq
         /\ node'.birthSent <=> node.birthSent
         /\ node'.connected <=> node.connected
         /\ dying' \in [Callers -> Seqs \cup {None, Asked}]
         /\ \/ node.connected /\ dying' = [dying EXCEPT ![c] = node.seqNum] /\ node'.seqNum = Succ(node.seqNum)
            \/ ~node.connected /\ dying' = [dying EXCEPT ![c] = None] /\ node' = node
<1> DEFINE d == [node EXCEPT !.seqNum = Succ(node.seqNum)]
<1>1. node \in Client /\ node.seqNum \in Seqs /\ dying \in [Callers -> Seqs \cup {None, Asked}]
  BY DEF TypeOK, Client
<1>2. /\ d \in Client /\ d.seqNum = Succ(node.seqNum) /\ d.bdSeq = node.bdSeq
      /\ (d.connected <=> node.connected) /\ (d.birthSent <=> node.birthSent)
  BY <1>1, NextFields
<1>3. CASE node.connected
  <2>1. dying' = [dying EXCEPT ![c] = node.seqNum] /\ node' = d
    BY <1>3 DEF DDeathSeq, NextSeq
  <2>2. dying' \in [Callers -> Seqs \cup {None, Asked}]
    BY <1>1, <2>1
  <2> QED BY <1>2, <1>3, <2>1, <2>2, Zenon
<1>4. CASE ~node.connected
  <2>1. dying' = [dying EXCEPT ![c] = None] /\ node' = node
    BY <1>4 DEF DDeathSeq
  <2>2. dying' \in [Callers -> Seqs \cup {None, Asked}]
    BY <1>1, <2>1
  <2> QED BY <1>1, <1>4, <2>1, <2>2, Zenon
<1> QED BY <1>3, <1>4

\* The publish of a device's death ...
LEMMA DDeathEffect ==
  ASSUME TypeOK, NEW c \in Callers, DDeathPublish(c)
  PROVE  /\ [type |-> "DDEATH", seq |-> dying[c]] \in Message
         /\ \E e \in BOOLEAN : Effect([type |-> "DDEATH", seq |-> dying[c]], e)
<1>1. PICK a \in Attempts : Sent([type |-> "DDEATH", seq |-> dying[c]], a)
  BY DEF DDeathPublish
<1>2. [type |-> "DDEATH", seq |-> dying[c]] \in Message
  BY MessageForms DEF DDeathPublish, DeviceTypes
<1> QED BY <1>1, <1>2, SentEffect

\* ... and of the node's, which ends the session.
LEMMA DisconnectEffect ==
  ASSUME TypeOK, Disconnect, node.connected
  PROVE  /\ node' \in Client /\ ~node'.connected /\ ~node'.birthSent
         /\ node'.seqNum = node.seqNum
         /\ [type |-> "NDEATH", bd |-> CurrentBdSeq(node)] \in Message
         /\ \E e \in BOOLEAN : Effect([type |-> "NDEATH", bd |-> CurrentBdSeq(node)], e)
<1>1. node \in Client
  BY DEF TypeOK
<1>2. PICK a \in Attempts : Sent([type |-> "NDEATH", bd |-> CurrentBdSeq(node)], a)
  BY DEF Disconnect, SendNDEATH
<1>3. CurrentBdSeq(node) \in Seqs
  BY <1>1, Numbers DEF Client, CurrentBdSeq
<1>4. [type |-> "NDEATH", bd |-> CurrentBdSeq(node)] \in Message
  BY <1>3, MessageForms
<1>5. node' = [node EXCEPT !.connected = FALSE, !.birthSent = FALSE]
  BY DEF Disconnect
<1>6. node' \in Client /\ ~node'.connected /\ ~node'.birthSent /\ node'.seqNum = node.seqNum
  BY <1>1, <1>5 DEF Client
<1> QED BY <1>2, <1>4, <1>6, SentEffect

\* What a replay sends is a message of the disk.
LEMMA ReplayForms ==
  ASSUME TypeOK, ReplayHeard
  PROVE  /\ Head(disk) \in Message /\ disk # <<>> /\ Head(disk) = disk[1] /\ 1 \in 1..Len(disk)
         /\ host' = Hear(host, Head(disk)) /\ host' \in Host /\ late' = late + 1
         /\ disk' \in {disk, Tail(disk)} /\ fails' \in {fails, fails + 1}
<1>1. disk \in Seq(Message) /\ disk # <<>> /\ host \in Host
  BY DEF TypeOK, ReplayHeard
<1>2. Head(disk) \in Message /\ Head(disk) = disk[1] /\ 1 \in 1..Len(disk)
  BY <1>1
<1>3. Hear(host, Head(disk)) \in Host
  BY <1>1, <1>2, HearType
<1> QED BY <1>1, <1>2, <1>3 DEF ReplayHeard

-----------------------------------------------------------------------------
(* Types. *)

LEMMA TypeStep ==
  ASSUME TypeOK, [Next]_vars
  PROVE  TypeOK'
<1> USE SparkplugAssumption
<1>0. /\ node \in Client /\ dying \in [Callers -> Seqs \cup {None, Asked}] /\ disk \in Seq(Message)
      /\ sends \in 0..MaxSends /\ downs \in 0..MaxDowns /\ "poll" \in Callers /\ "main" \in Callers
      /\ fails \in Nat /\ late \in Nat /\ deaf \in Nat
  BY DEF TypeOK, Callers
<1> DEFINE Out == /\ host' \in Host /\ disk' \in Seq(Message) /\ fails' \in Nat /\ deaf' \in Nat
                  /\ missed' \in [Types -> Nat]
<1>1. ASSUME SetConnected PROVE node' \in Client /\ Out
  BY <1>1, AnnounceEffect, EffectType
<1>2. ASSUME NEW t \in DeviceTypes, SendDevice(t) PROVE node' \in Client /\ Out
  BY <1>2, DeviceEffect, EffectType
<1>3. ASSUME NEW t \in DeviceTypes, PublishDevice(t)
      PROVE  node' \in Client /\ Out /\ pending' \in DeviceTypes \cup {None}
  <2>1. CASE SendDevice(t) /\ pending' = None
    BY <1>2, <2>1
  <2>2. CASE SendNBIRTH(node) /\ node.connected /\ pending' = t
    BY <1>0, <2>2, BirthEffect, EffectType
  <2> QED BY <1>3, <2>1, <2>2, PublishForms
<1>4. CASE Start
  BY <1>1, <1>4 DEF Start, TypeOK
<1>5. CASE Reload
  <2>1. sends' \in 0..MaxSends
    BY <1>0, <1>5 DEF Reload
  <2>2. UNCHANGED <<plan, device, phase, dying, pending, link, downs, late>> /\ SetConnected
    BY <1>5 DEF Reload
  <2> QED BY <1>1, <2>1, <2>2 DEF TypeOK
<1>6. CASE PublishDDATA
  <2>1. sends' \in 0..MaxSends
    BY <1>0, <1>6 DEF PublishDDATA
  <2>2. UNCHANGED <<plan, device, phase, dying, link, downs, late>> /\ PublishDevice("DDATA") /\ "DDATA" \in DeviceTypes
    BY <1>6 DEF PublishDDATA, DeviceTypes
  <2> QED BY <1>3, <2>1, <2>2 DEF TypeOK
<1>7. CASE PublishAfterBirth
  <2>1. pending \in DeviceTypes /\ SendDevice(pending) /\ pending' = None
    BY <1>7 DEF PublishAfterBirth, NoWriter, TypeOK
  <2>2. UNCHANGED <<plan, device, phase, dying, link, sends, downs, late>>
    BY <1>7 DEF PublishAfterBirth
  <2> QED BY <1>2, <2>1, <2>2 DEF TypeOK
<1>8. ASSUME NEW b \in BOOLEAN, SetConnectionState(b) PROVE TypeOK'
  <2>1. sends' \in 0..MaxSends /\ device' = b /\ UNCHANGED <<plan, phase, link, downs, late>>
    BY <1>0, <1>8 DEF SetConnectionState
  <2>2. CASE PublishDevice("DBIRTH") /\ UNCHANGED dying
    <3>1. "DBIRTH" \in DeviceTypes
      BY DEF DeviceTypes
    <3> QED BY <1>3, <2>1, <2>2, <3>1 DEF TypeOK
  <2>3. CASE UNCHANGED <<node, pending, outside>> /\ dying' \in {dying, [dying EXCEPT !["poll"] = Asked]}
    <3>1. dying' \in [Callers -> Seqs \cup {None, Asked}]
      BY <1>0, <2>3
    <3> QED BY <2>1, <2>3, <3>1 DEF TypeOK, outside
  <2> QED BY <1>8, <2>2, <2>3 DEF SetConnectionState
<1>9. CASE Shutdown
  <2>1. dying' \in [Callers -> Seqs \cup {None, Asked}]
    BY <1>0, <1>9 DEF Shutdown
  <2> QED BY <1>9, <2>1 DEF Shutdown, TypeOK, outside
<1>10. ASSUME NEW c \in Callers, DDeathSeq(c) PROVE TypeOK'
  BY <1>10, DDeathSeqFields DEF DDeathSeq, TypeOK, outside
<1>11. ASSUME NEW c \in Callers, DDeathPublish(c) PROVE TypeOK'
  <2>1. Out
    BY <1>11, DDeathEffect, EffectType
  <2>2. dying' \in [Callers -> Seqs \cup {None, Asked}]
    BY <1>0, <1>11 DEF DDeathPublish
  <2> QED BY <1>11, <2>1, <2>2 DEF DDeathPublish, TypeOK
<1>12. CASE Disconnect
  <2>1. UNCHANGED <<plan, device, dying, pending, link, sends, downs, late>> /\ phase' = "down"
    BY <1>12 DEF Disconnect
  <2>2. CASE node.connected
    BY <1>12, <2>1, <2>2, DisconnectEffect, EffectType DEF TypeOK
  <2>3. CASE ~node.connected
    <3>1. UNCHANGED <<node, outside>>
      BY <1>12, <2>3 DEF Disconnect
    <3> QED BY <2>1, <3>1 DEF TypeOK, outside
  <2> QED BY <2>2, <2>3
<1>13. CASE LinkDown
  <2>1. downs' \in 0..MaxDowns
    BY <1>0, <1>13 DEF LinkDown
  <2> QED BY <1>13, <2>1 DEF LinkDown, TypeOK, outside
<1>14. CASE LinkUp
  BY <1>14 DEF LinkUp, TypeOK, outside
<1>15. CASE ReplayHeard
  <2>1. Tail(disk) \in Seq(Message)
    BY <1>0, <1>15, ReplayForms, HeadTailProperties
  <2>2. /\ host' \in Host /\ late' \in Nat /\ fails' \in Nat /\ disk' \in Seq(Message)
    BY <1>0, <1>15, <2>1, ReplayForms
  <2> QED BY <1>15, <2>2 DEF ReplayHeard, TypeOK
<1>16. CASE ReplayLost
  <2>1. disk' \in Seq(Message) /\ fails' \in Nat
    BY <1>0, <1>16, HeadTailProperties DEF ReplayLost
  <2> QED BY <1>16, <2>1 DEF ReplayLost, TypeOK
<1>17. CASE UNCHANGED vars
  BY <1>17 DEF vars, TypeOK, outside
<1> QED BY <1>4, <1>5, <1>6, <1>7, <1>8, <1>9, <1>10, <1>11, <1>12, <1>13, <1>14, <1>15, <1>16, <1>17 DEF Next

LEMMA TypeStart == Init => TypeOK
<1> SUFFICES ASSUME Init PROVE TypeOK
  OBVIOUS
<1> USE SparkplugAssumption
<1>1. node \in Client
  BY DEF Init, NewClient, Client, Seqs
<1>2. host \in Host
  BY DEF Init, Host
<1>3. disk \in Seq(Message)
  BY EmptySeq DEF Init
<1>4. dying \in [Callers -> Seqs \cup {None, Asked}] /\ missed \in [Types -> Nat]
  BY DEF Init
<1>5. sends \in 0..MaxSends /\ downs \in 0..MaxDowns /\ fails \in Nat /\ late \in Nat /\ deaf \in Nat
  BY DEF Init
<1>6. plan \in Plans /\ device \in BOOLEAN /\ phase = "new" /\ link \in BOOLEAN /\ pending = None
  BY DEF Init
<1> QED BY <1>1, <1>2, <1>3, <1>4, <1>5, <1>6 DEF TypeOK

\* The node, its host and what is between them keep their shape: a number is
\* always one of the numbering, across the wrap.
THEOREM TypeCorrect == Spec => []TypeOK
<1>1. TypeOK /\ [Next]_vars => TypeOK'
  BY TypeStep
<1> QED BY TypeStart, <1>1, PTL DEF Spec

-----------------------------------------------------------------------------
(* The disk and the lock. *)

\* An attempt leaves on disk only what it counts.
LEMMA SpoolAfter ==
  ASSUME TypeOK, SpoolInv, NEW m \in Message, NEW e \in BOOLEAN, Effect(m, e),
         m.type = "NDEATH" => phase' = "down", phase = "down" => phase' = "down"
  PROVE  SpoolInv'
<1>1. /\ disk \in Seq(Message) /\ missed \in [Types -> Nat] /\ missed' \in [Types -> Nat]
      /\ \A t \in Types : missed'[t] >= missed[t]
      /\ m.type \in Types /\ disk' \in {disk, Append(disk, m)}
  BY EffectType, MessageType DEF TypeOK, Effect
<1>2. \A i \in 1..Len(disk) : disk[i].type \in Types /\ missed'[disk[i].type] > 0 /\ (disk[i].type = "NDEATH" => phase' = "down")
  <2> TAKE i \in 1..Len(disk)
  <2>1. disk[i] \in Message
    BY <1>1
  <2>2. disk[i].type \in Types /\ missed[disk[i].type] > 0
    BY <2>1, MessageType DEF SpoolInv
  <2>3. missed[disk[i].type] \in Nat /\ missed'[disk[i].type] \in Nat /\ missed'[disk[i].type] >= missed[disk[i].type]
    BY <1>1, <2>2
  <2> QED BY <2>2, <2>3 DEF SpoolInv
<1>3. CASE disk' = disk
  BY <1>2, <1>3 DEF SpoolInv
<1>4. CASE disk' # disk
  <2>1. disk' = Append(disk, m) /\ missed' = [missed EXCEPT ![m.type] = @ + 1]
    BY <1>4 DEF Effect
  <2>2. missed'[m.type] > 0
    BY <1>1, <2>1
  <2>3. \A i \in 1..Len(disk') : (i \in 1..Len(disk) /\ disk'[i] = disk[i]) \/ disk'[i] = m
    BY <1>1, <2>1
  <2> QED BY <1>2, <2>2, <2>3 DEF SpoolInv
<1> QED BY <1>3, <1>4

LEMMA SpoolStep ==
  ASSUME TypeOK, SpoolInv, [Next]_vars
  PROVE  SpoolInv'
<1>0. phase = "down" => phase' = "down"
  BY DEF Next, vars, Start, Reload, PollLoopFree, PublishDDATA, PublishAfterBirth, SetConnectionState, Shutdown, DDeathSeq,
         DDeathPublish, Disconnect, LinkDown, LinkUp, ReplayHeard, ReplayLost
<1>1. CASE UNCHANGED outside
  BY <1>0, <1>1 DEF SpoolInv, outside
<1>2. CASE SetConnected
  BY <1>0, <1>2, AnnounceEffect, SpoolAfter
<1>3. ASSUME NEW t \in DeviceTypes, SendDevice(t) PROVE SpoolInv'
  <2>1. [type |-> t, seq |-> node.seqNum].type # "NDEATH"
    BY DEF DeviceTypes
  <2> QED BY <1>0, <1>3, <2>1, DeviceEffect, SpoolAfter
<1>4. ASSUME NEW t \in DeviceTypes, PublishDevice(t) PROVE SpoolInv'
  <2>1. node \in Client
    BY DEF TypeOK
  <2>2. CASE SendNBIRTH(node) /\ node.connected
    BY <1>0, <2>1, <2>2, BirthEffect, SpoolAfter
  <2> QED BY <1>3, <1>4, <2>2, PublishForms
<1>5. CASE PublishDDATA
  BY <1>4, <1>5 DEF PublishDDATA, DeviceTypes
<1>6. CASE PublishAfterBirth
  BY <1>3, <1>6 DEF PublishAfterBirth, NoWriter, TypeOK
<1>7. CASE \E b \in BOOLEAN : SetConnectionState(b)
  BY <1>1, <1>4, <1>7 DEF SetConnectionState, DeviceTypes
<1>8. ASSUME NEW c \in Callers, DDeathPublish(c) PROVE SpoolInv'
  BY <1>0, <1>8, DDeathEffect, SpoolAfter
<1>9. CASE Disconnect
  BY <1>0, <1>1, <1>9, DisconnectEffect, SpoolAfter DEF Disconnect
<1>10. ASSUME disk' \in {disk, Tail(disk)}, disk # <<>>, UNCHANGED <<missed, phase>> PROVE SpoolInv'
  <2>1. disk \in Seq(Message)
    BY DEF TypeOK
  <2>2. \A i \in 1..Len(disk') : \E j \in 1..Len(disk) : disk'[i] = disk[j]
    <3>1. CASE disk' = disk
      BY <3>1
    <3>2. CASE disk' = Tail(disk)
      <4>1. Len(disk') = Len(disk) - 1 /\ \A i \in 1..Len(disk') : disk'[i] = disk[i + 1]
        BY <1>10, <2>1, <3>2
      <4>2. \A i \in 1..Len(disk') : i + 1 \in 1..Len(disk)
        BY <2>1, <4>1
      <4> QED BY <4>1, <4>2
    <3> QED BY <1>10, <3>1, <3>2
  <2> QED BY <1>10, <2>2 DEF SpoolInv
<1>11. CASE ReplayHeard \/ ReplayLost
  BY <1>10, <1>11 DEF ReplayHeard, ReplayLost
<1> QED BY <1>1, <1>2, <1>5, <1>6, <1>7, <1>8, <1>9, <1>11
    DEF Next, vars, Start, Reload, Shutdown, DDeathSeq, LinkDown, LinkUp

LEMMA LockStep ==
  ASSUME TypeOK, LockInv, [Next]_vars
  PROVE  LockInv'
<1>0. /\ "poll" \in Callers /\ dying \in [Callers -> Seqs \cup {None, Asked}] /\ "NBIRTH" \in Types
      /\ None \notin Seqs /\ Asked \notin Seqs /\ Asked # None /\ missed["NBIRTH"] \in Nat /\ node \in Client
      /\ pending \in DeviceTypes \cup {None} /\ None \notin DeviceTypes
  BY SparkplugAssumption DEF TypeOK, Callers, Seqs, Types
<1>1. ASSUME SetConnected, phase' \in {"up", "dying"}, pending' = None PROVE LockInv'
  <2>1. PICK e \in BOOLEAN : /\ node' \in Client /\ node'.connected /\ (node'.birthSent <=> ~e)
                             /\ Effect([type |-> "NBIRTH", bd |-> 0], e)
    BY <1>1, AnnounceEffect
  <2>2. e => missed'["NBIRTH"] = missed["NBIRTH"] + 1
    BY <1>1, <2>1, AnnounceEffect, EffectType
  <2> QED BY <1>0, <1>1, <2>1, <2>2 DEF LockInv
<1>2. CASE Start
  <2>1. phase = "new" /\ pending = None
    BY <1>0, <1>2 DEF Start, LockInv
  <2> QED BY <1>1, <1>2, <2>1 DEF Start
<1>3. CASE Reload
  BY <1>1, <1>3 DEF Reload, PollLoopFree, NoWriter
<1>4. ASSUME NEW t \in DeviceTypes, SendDevice(t), UNCHANGED <<phase, dying>>, pending' \in {pending, None}
      PROVE  LockInv'
  <2>1. /\ node'.connected <=> node.connected
        /\ node'.birthSent <=> node.birthSent
        /\ missed'["NBIRTH"] \in Nat /\ missed'["NBIRTH"] >= missed["NBIRTH"]
    BY <1>0, <1>4, DeviceEffect, EffectType
  <2> QED BY <1>0, <1>4, <2>1 DEF LockInv, NoReader
<1>5. ASSUME NEW t \in DeviceTypes, PublishDevice(t), UNCHANGED <<phase, dying>>
      PROVE  LockInv'
  <2>1. CASE SendDevice(t) /\ pending' = None
    BY <1>4, <1>5, <2>1
  <2>2. CASE SendNBIRTH(node) /\ node.connected /\ ~node.birthSent /\ NoReader /\ pending' = t
    <3>1. PICK e \in BOOLEAN : node'.connected /\ Effect([type |-> "NBIRTH", bd |-> node.bdSeq], e)
      BY <1>0, <2>2, BirthEffect
    <3>2. missed'["NBIRTH"] \in Nat /\ missed'["NBIRTH"] >= missed["NBIRTH"]
      BY <1>0, <2>2, <3>1, BirthEffect, EffectType
    <3>3. phase \in {"up", "dying"} /\ missed["NBIRTH"] > 0
      BY <2>2 DEF LockInv
    <3> QED BY <1>0, <1>5, <2>2, <3>1, <3>2, <3>3 DEF LockInv, NoReader
  <2> QED BY <1>5, <2>1, <2>2, PublishForms
<1>6. CASE PublishDDATA
  BY <1>5, <1>6 DEF PublishDDATA, DeviceTypes
<1>7. CASE PublishAfterBirth
  <2>1. pending \in DeviceTypes
    BY <1>0, <1>7 DEF PublishAfterBirth, NoWriter
  <2> QED BY <1>4, <1>7, <2>1 DEF PublishAfterBirth
<1>8. ASSUME NEW b \in BOOLEAN, SetConnectionState(b) PROVE LockInv'
  <2>1. phase' = phase /\ phase \in {"up", "dying"} /\ pending = None
    BY <1>8 DEF SetConnectionState, PollLoopFree, NoWriter
  <2>2. CASE PublishDevice("DBIRTH") /\ UNCHANGED dying
    BY <1>5, <2>1, <2>2 DEF DeviceTypes
  <2>3. CASE UNCHANGED <<node, pending, outside>>
    BY <2>1, <2>3 DEF LockInv, outside
  <2> QED BY <1>8, <2>2, <2>3 DEF SetConnectionState
<1>9. CASE Shutdown
  <2>1. phase = "up" /\ phase' = "dying" /\ UNCHANGED <<node, pending, outside>>
    BY <1>9 DEF Shutdown
  <2>2. NoReader => NoReader'
    BY <1>0, <1>9 DEF Shutdown, NoReader, Callers
  <2> QED BY <2>1, <2>2 DEF LockInv, outside
<1>10. ASSUME NEW c \in Callers, DDeathSeq(c) PROVE LockInv'
  <2>1. UNCHANGED <<phase, pending, outside>> /\ pending = None /\ dying[c] = Asked
    BY <1>10 DEF DDeathSeq, NoWriter
  <2>2. phase = "new" => dying'["poll"] = None
    <3>1. phase = "new" => c # "poll" /\ ~node.connected
      BY <1>0, <2>1 DEF LockInv
    <3> QED BY <1>0, <1>10, <3>1 DEF DDeathSeq, LockInv
  <2> QED BY <1>10, <2>1, <2>2, DDeathSeqFields DEF LockInv, outside
<1>11. ASSUME NEW c \in Callers, DDeathPublish(c) PROVE LockInv'
  <2>1. UNCHANGED <<phase, pending, node>> /\ dying' = [dying EXCEPT ![c] = None]
    BY <1>11 DEF DDeathPublish
  <2>2. missed'["NBIRTH"] \in Nat /\ missed'["NBIRTH"] >= missed["NBIRTH"]
    BY <1>0, <1>11, DDeathEffect, EffectType
  <2>3. NoReader => NoReader'
    BY <1>0, <2>1 DEF NoReader
  <2>4. phase = "new" => dying'["poll"] = None
    BY <1>0, <2>1 DEF LockInv
  <2> QED BY <1>0, <2>1, <2>2, <2>3, <2>4 DEF LockInv
<1>12. CASE Disconnect
  <2>1. phase = "dying" /\ phase' = "down" /\ node.connected /\ pending = None /\ pending' = pending
    BY <1>12 DEF Disconnect, NoWriter, LockInv
  <2> QED BY <1>12, <2>1, DisconnectEffect DEF LockInv
<1>13. CASE LinkDown \/ LinkUp \/ ReplayHeard \/ ReplayLost \/ UNCHANGED vars
  BY <1>13 DEF LinkDown, LinkUp, ReplayHeard, ReplayLost, vars, outside, LockInv, NoReader
<1> QED BY <1>2, <1>3, <1>6, <1>7, <1>8, <1>9, <1>10, <1>11, <1>12, <1>13 DEF Next

BaseInv == TypeOK /\ SpoolInv /\ LockInv

LEMMA BaseHolds == Spec => []BaseInv
<1>1. Init => SpoolInv /\ LockInv
  <2> SUFFICES ASSUME Init PROVE SpoolInv /\ LockInv
    OBVIOUS
  <2>1. disk = <<>> /\ phase = "new" /\ ~node.connected /\ pending = None /\ dying["poll"] = None
    BY DEF Init, NewClient, Callers
  <2> QED BY <2>1 DEF SpoolInv, LockInv
<1>2. TypeOK /\ SpoolInv /\ LockInv /\ [Next]_vars => SpoolInv' /\ LockInv'
  BY SpoolStep, LockStep
<1> QED BY TypeCorrect, <1>1, <1>2, PTL DEF Spec, BaseInv

-----------------------------------------------------------------------------
(* Gaps. *)

LEMMA OwedBound ==
  ASSUME NEW h, NEW n
  PROVE  /\ Owed(h, n) \in {0, 1}
         /\ h.seq = None => Owed(h, n) = 0
         /\ h.seq # None /\ n = Succ(h.seq) => Owed(h, n) = 0
  BY DEF Owed

\* A message with the next number leaves nothing owed and counts what was; one
\* that is lost leaves one at most.
LEMMA GapAfter ==
  ASSUME TypeOK, NEW t \in DeviceTypes, NEW n \in Seqs, NEW e \in BOOLEAN,
         Effect([type |-> t, seq |-> n], e), late' = late,
         host.gaps + Owed(host, n) <= fails + 2 * late
  PROVE  host'.gaps + Owed(host', Succ(n)) <= fails' + 2 * late'
<1> DEFINE m == [type |-> t, seq |-> n]
           g == Hear(host, m)
<1>1. host \in Host /\ host.gaps \in Nat /\ fails \in Nat /\ late \in Nat /\ n # None
  BY SparkplugAssumption DEF TypeOK, Host, Seqs
<1>2. g.seq = n /\ g.gaps = host.gaps + Owed(host, n)
  BY <1>1, HearDevice
<1>3. Owed(g, Succ(n)) = 0
  BY <1>1, <1>2, OwedBound
<1>4. \/ host' = g /\ fails' = fails
      \/ host' \in {host, g} /\ fails' = fails + 1
  BY MessageForms, EffectType
<1>5. Owed(host, n) \in {0, 1} /\ Owed(host, Succ(n)) \in {0, 1}
  BY OwedBound
<1> HIDE DEF g
<1> QED BY <1>1, <1>2, <1>3, <1>4, <1>5

\* A birth restarts the numbers; one that is lost leaves a gap at most.
LEMMA GapAfterBirth ==
  ASSUME TypeOK, NEW n \in Seqs, NEW e \in BOOLEAN, NEW k \in Seqs,
         Effect([type |-> "NBIRTH", bd |-> n], e), late' = late,
         host.gaps + Owed(host, k) <= fails + 2 * late
  PROVE  host'.gaps + Owed(host', 1) <= fails' + 2 * late'
<1> DEFINE g == Hear(host, [type |-> "NBIRTH", bd |-> n])
<1>1. host \in Host /\ host.gaps \in Nat /\ fails \in Nat /\ late \in Nat
  BY DEF TypeOK, Host
<1>2. g.seq = 0 /\ g.gaps = host.gaps
  BY <1>1, HearBirth
<1>3. Owed(g, 1) = 0
  BY <1>2, SparkplugAssumption DEF Owed, Succ
<1>4. \/ host' = g /\ fails' = fails
      \/ host' \in {host, g} /\ fails' = fails + 1
  BY MessageForms, EffectType
<1>5. Owed(host, k) \in {0, 1} /\ Owed(host, 1) \in {0, 1}
  BY OwedBound
<1> HIDE DEF g
<1> QED BY <1>1, <1>2, <1>3, <1>4, <1>5

\* Any message at all makes two gaps at most.
LEMMA GapOfAny ==
  ASSUME NEW h \in Host, NEW m \in Message, NEW n
  PROVE  LET g == Hear(h, m)
         IN g.gaps \in Nat /\ h.gaps \in Nat /\ g.gaps + Owed(g, n) <= h.gaps + Owed(h, n) + 2
<1> DEFINE g == Hear(h, m)
<1>1. g \in Host /\ g.gaps \in Nat /\ h.gaps \in Nat
  <2>1. g \in Host
    BY HearType
  <2> QED BY <2>1 DEF Host
<1>2. g.gaps <= h.gaps + 1
  <2>1. CASE m \in [type : DeviceTypes, seq : Seqs]
    <3>1. m = [type |-> m.type, seq |-> m.seq] /\ m.type \in DeviceTypes /\ m.seq \in Seqs
      BY <2>1
    <3>2. g.gaps = h.gaps + Owed(h, m.seq)
      BY <3>1, HearDevice
    <3> QED BY <1>1, <3>2, OwedBound
  <2>2. CASE m \in [type : {"NBIRTH", "NDEATH"}, bd : Seqs]
    <3>1. g.gaps = h.gaps
      BY <2>2 DEF Hear, Host
    <3> QED BY <1>1, <3>1
  <2> QED BY <2>1, <2>2 DEF Message
<1>3. Owed(g, n) \in {0, 1} /\ Owed(h, n) \in {0, 1}
  BY OwedBound
<1> HIDE DEF g
<1>4. g.gaps \in Nat /\ h.gaps \in Nat /\ g.gaps + Owed(g, n) <= h.gaps + Owed(h, n) + 2
  BY <1>1, <1>2, <1>3
<1> QED BY <1>4 DEF g

LEMMA GapsStep ==
  ASSUME BaseInv, GapsInv, [Next]_vars
  PROVE  GapsInv'
<1>0. plan' = plan /\ TypeOK /\ LockInv
  BY DEF Next, vars, Start, Reload, PublishDDATA, PublishAfterBirth, SetConnectionState, Shutdown, DDeathSeq, DDeathPublish,
         Disconnect, LinkDown, LinkUp, ReplayHeard, ReplayLost, BaseInv
<1> SUFFICES ASSUME plan.driver = "modbus" PROVE Gapless'
  BY <1>0 DEF GapsInv
<1>1. /\ host.gaps + Owed(host, Next1) <= fails + 2 * late
      /\ dying["poll"] \in Seqs => node.seqNum = Succ(dying["poll"])
      /\ dying["main"] = None
  BY DEF GapsInv, Gapless
<1>2. /\ host \in Host /\ host.gaps \in Nat /\ fails \in Nat /\ late \in Nat
      /\ node \in Client /\ node.seqNum \in Seqs /\ node.bdSeq \in Seqs /\ 0 \in Seqs
      /\ None \notin Seqs /\ Asked \notin Seqs /\ Asked # None
      /\ dying \in [Callers -> Seqs \cup {None, Asked}] /\ "poll" \in Callers /\ "main" \in Callers
      /\ pending \in DeviceTypes \cup {None}
  BY <1>0, SparkplugAssumption DEF TypeOK, Host, Client, Seqs, Callers
<1>3. Next1 \in Seqs
  BY <1>2 DEF Next1
<1>4. ASSUME NEW c \in Seqs, NEW e \in BOOLEAN, Effect([type |-> "NBIRTH", bd |-> c], e), node'.seqNum = 1,
             late' = late, dying' = dying, dying["poll"] \notin Seqs
      PROVE  Gapless'
  <2>1. host'.gaps + Owed(host', 1) <= fails' + 2 * late'
    BY <1>0, <1>1, <1>3, <1>4, GapAfterBirth
  <2>2. Next1' = 1
    BY <1>4 DEF Next1
  <2> QED BY <1>1, <1>4, <2>1, <2>2 DEF Gapless
<1>5. ASSUME NEW t \in DeviceTypes, SendDevice(t), late' = late, dying' = dying, dying["poll"] \notin Seqs
      PROVE  Gapless'
  <2>1. PICK e \in BOOLEAN : Effect([type |-> t, seq |-> node.seqNum], e)
    BY <1>0, <1>5, DeviceEffect
  <2>2. node'.seqNum = Succ(node.seqNum)
    BY <1>0, <1>5, DeviceEffect
  <2>3. Next1 = node.seqNum /\ Next1' = Succ(node.seqNum)
    BY <1>5, <2>2 DEF Next1
  <2>4. host'.gaps + Owed(host', Succ(node.seqNum)) <= fails' + 2 * late'
    BY <1>0, <1>1, <1>2, <1>5, <2>1, <2>3, GapAfter
  <2> QED BY <1>1, <1>5, <2>3, <2>4 DEF Gapless
<1>6. CASE Start
  <2>1. dying' = dying /\ dying["poll"] = None /\ late' = late /\ SetConnected
    BY <1>0, <1>6 DEF Start, LockInv
  <2> QED BY <1>0, <1>2, <1>4, <2>1, AnnounceEffect
<1>7. CASE Reload
  BY <1>7 DEF Reload
<1>8. ASSUME NEW t \in DeviceTypes, PublishDevice(t), dying' = dying, late' = late
      PROVE  Gapless'
  <2>1. dying["poll"] \notin Seqs /\ node.connected
    BY <1>2, <1>8, PublishForms DEF NoReader
  <2>2. CASE SendNBIRTH(node)
    BY <1>0, <1>2, <1>4, <1>8, <2>1, <2>2, BirthEffect
  <2> QED BY <1>5, <1>8, <2>1, <2>2, PublishForms
<1>9. CASE PublishDDATA
  BY <1>8, <1>9 DEF PublishDDATA, DeviceTypes
<1>10. CASE PublishAfterBirth
  <2>1. pending \in DeviceTypes /\ SendDevice(pending) /\ dying' = dying /\ late' = late
    BY <1>2, <1>10 DEF PublishAfterBirth, NoWriter
  <2>2. dying["poll"] \notin Seqs
    BY <1>0, <1>2, <1>10 DEF LockInv, NoReader, PublishAfterBirth, NoWriter
  <2> QED BY <1>5, <2>1, <2>2
<1>11. ASSUME UNCHANGED <<host, fails, late>>, Next1' = Next1, dying'["main"] = None,
              dying'["poll"] \in Seqs => node'.seqNum = Succ(dying'["poll"])
       PROVE  Gapless'
  BY <1>1, <1>11 DEF Gapless
<1>12. ASSUME NEW b \in BOOLEAN, SetConnectionState(b)
       PROVE  Gapless'
  <2>1. dying["poll"] = None /\ late' = late
    BY <1>12 DEF SetConnectionState, PollLoopFree
  <2>2. CASE PublishDevice("DBIRTH") /\ UNCHANGED dying
    BY <1>8, <2>1, <2>2 DEF DeviceTypes
  <2>3. CASE UNCHANGED <<node, pending, outside>> /\ dying' \in {dying, [dying EXCEPT !["poll"] = Asked]}
    <3>1. dying'["poll"] \notin Seqs /\ dying'["main"] = None
      BY <1>1, <1>2, <2>1, <2>3
    <3>2. Next1' = Next1
      BY <1>2, <2>1, <2>3, <3>1 DEF Next1
    <3> QED BY <1>11, <2>1, <2>3, <3>1, <3>2 DEF outside
  <2> QED BY <1>12, <2>2, <2>3 DEF SetConnectionState
<1>13. CASE Shutdown
  <2>1. dying' = dying /\ UNCHANGED <<node, outside, late>>
    BY <1>13 DEF Shutdown
  <2> QED BY <1>1, <1>11, <2>1 DEF Next1, outside
<1>14. ASSUME NEW c \in Callers, DDeathSeq(c)
       PROVE  Gapless'
  <2>1. dying["poll"] = Asked /\ c = "poll" /\ UNCHANGED <<host, fails, late>>
    BY <1>1, <1>2, <1>14 DEF DDeathSeq, Callers, outside
  <2>2. Next1 = node.seqNum
    BY <1>2, <2>1 DEF Next1
  <2>3. CASE dying' = [dying EXCEPT ![c] = node.seqNum] /\ node'.seqNum = Succ(node.seqNum)
    <3>1. dying'["poll"] = node.seqNum /\ dying'["main"] = None
      BY <1>1, <1>2, <2>1, <2>3
    <3>2. Next1' = node.seqNum
      BY <1>2, <3>1 DEF Next1
    <3> QED BY <1>11, <2>1, <2>2, <2>3, <3>1, <3>2
  <2>4. CASE dying' = [dying EXCEPT ![c] = None] /\ node' = node
    <3>1. dying'["poll"] = None /\ dying'["main"] = None
      BY <1>1, <1>2, <2>1, <2>4
    <3>2. Next1' = node.seqNum
      BY <1>2, <2>4, <3>1 DEF Next1
    <3> QED BY <1>2, <1>11, <2>1, <2>2, <3>1, <3>2
  <2> QED BY <1>0, <1>14, <2>3, <2>4, DDeathSeqFields
<1>15. ASSUME NEW c \in Callers, DDeathPublish(c)
       PROVE  Gapless'
  <2>1. c = "poll" /\ dying["poll"] \in Seqs /\ node' = node /\ late' = late /\ dying' = [dying EXCEPT !["poll"] = None]
    BY <1>1, <1>2, <1>15 DEF DDeathPublish, Callers
  <2>2. dying'["poll"] = None /\ dying'["main"] = None
    BY <1>1, <1>2, <2>1
  <2>3. Next1 = dying["poll"] /\ Next1' = Succ(dying["poll"])
    BY <1>1, <1>2, <2>1, <2>2 DEF Next1
  <2>4. PICK e \in BOOLEAN : Effect([type |-> "DDEATH", seq |-> dying["poll"]], e)
    BY <1>0, <1>15, <2>1, DDeathEffect
  <2>5. host'.gaps + Owed(host', Succ(dying["poll"])) <= fails' + 2 * late'
    BY <1>0, <1>1, <2>1, <2>3, <2>4, GapAfter DEF DeviceTypes
  <2> QED BY <1>2, <2>2, <2>3, <2>5 DEF Gapless
<1>16. CASE Disconnect
  <2>1. dying' = dying /\ late' = late
    BY <1>16 DEF Disconnect
  <2>2. CASE node.connected
    <3> DEFINE n == CurrentBdSeq(node)
               h == Hear(host, [type |-> "NDEATH", bd |-> n])
    <3>1. node'.seqNum = node.seqNum
      BY <1>0, <1>16, <2>2, DisconnectEffect
    <3>2. (host' = h /\ fails' = fails) \/ (host' \in {host, h} /\ fails' = fails + 1)
      BY <1>0, <1>16, <2>2, DisconnectEffect, EffectType
    <3>3. h.gaps = host.gaps /\ (h.seq = None \/ h.seq = host.seq)
      BY <1>2, HearDeath
    <3>4. Next1' = Next1
      BY <2>1, <3>1 DEF Next1
    <3> HIDE DEF h, n
    <3>5. Owed(host', Next1) <= Owed(host, Next1) /\ Owed(host', Next1) \in {0, 1} /\ Owed(host, Next1) \in {0, 1}
      BY <3>2, <3>3 DEF Owed
    <3>6. host'.gaps = host.gaps /\ fails' >= fails /\ fails' \in Nat
      BY <1>2, <3>2, <3>3
    <3>7. host'.gaps + Owed(host', Next1) <= fails' + 2 * late'
      BY <1>1, <1>2, <2>1, <3>5, <3>6
    <3> QED BY <1>1, <2>1, <3>1, <3>4, <3>7 DEF Gapless
  <2>3. CASE ~node.connected
    <3>1. UNCHANGED <<node, outside>>
      BY <1>16, <2>3 DEF Disconnect
    <3> QED BY <1>1, <1>11, <2>1, <3>1 DEF Next1, outside
  <2> QED BY <2>2, <2>3
<1>17. CASE LinkDown \/ LinkUp \/ UNCHANGED vars
  <2>1. UNCHANGED <<dying, node, host, fails, late>>
    BY <1>17 DEF LinkDown, LinkUp, vars, outside
  <2> QED BY <1>1, <1>11, <2>1 DEF Next1
<1>18. CASE ReplayHeard
  <2>1. dying' = dying /\ node' = node
    BY <1>18 DEF ReplayHeard
  <2>2. /\ Head(disk) \in Message /\ host' = Hear(host, Head(disk)) /\ late' = late + 1
        /\ fails' \in {fails, fails + 1}
    BY <1>0, <1>18, ReplayForms
  <2>3. host'.gaps \in Nat /\ host'.gaps + Owed(host', Next1) <= host.gaps + Owed(host, Next1) + 2
    BY <1>2, <2>2, GapOfAny
  <2>4. Owed(host, Next1) \in {0, 1} /\ Owed(host', Next1) \in {0, 1}
    BY OwedBound
  <2>5. host'.gaps + Owed(host', Next1) <= fails' + 2 * late'
    BY <1>1, <1>2, <2>2, <2>3, <2>4
  <2>6. Next1' = Next1
    BY <2>1 DEF Next1
  <2> QED BY <1>1, <2>1, <2>5, <2>6 DEF Gapless
<1>19. CASE ReplayLost
  <2>1. UNCHANGED <<dying, node, host, late>> /\ fails' \in Nat /\ fails' >= fails
    BY <1>2, <1>19 DEF ReplayLost
  <2>2. Next1' = Next1
    BY <2>1 DEF Next1
  <2>3. Owed(host, Next1) \in {0, 1}
    BY OwedBound
  <2>4. host.gaps + Owed(host, Next1) <= fails' + 2 * late
    BY <1>1, <1>2, <2>1, <2>3
  <2> QED BY <1>1, <2>1, <2>2, <2>4 DEF Gapless
<1> QED BY <1>6, <1>7, <1>9, <1>10, <1>12, <1>13, <1>14, <1>15, <1>16, <1>17, <1>18, <1>19 DEF Next

\* The host counts at most one gap for each publish that went wrong, silently or
\* not, and two for each message out of the spool, for any length of the
\* numbering: across the wrap, across births, and while a PublishDDEATH stands
\* between its number and its publish.
THEOREM GapsHold == Spec => []GapsCostFailures
<1>1. Init => GapsInv
  <2> SUFFICES ASSUME Init PROVE GapsInv
    OBVIOUS
  <2>1. dying["poll"] = None /\ dying["main"] = None /\ None \notin Seqs
    BY SparkplugAssumption DEF Init, Callers, Seqs
  <2>2. host.gaps = 0 /\ host.seq = None /\ fails = 0 /\ late = 0
    BY DEF Init
  <2> QED BY <2>1, <2>2 DEF GapsInv, Gapless, Owed
<1>2. BaseInv /\ GapsInv /\ [Next]_vars => GapsInv'
  BY GapsStep
<1>3. BaseInv /\ GapsInv => GapsCostFailures
  <2> SUFFICES ASSUME BaseInv, GapsInv, plan.driver = "modbus" PROVE host.gaps <= fails + 2 * late
    BY DEF GapsCostFailures
  <2>1. host.gaps \in Nat /\ fails \in Nat /\ late \in Nat /\ Owed(host, Next1) \in {0, 1}
    BY OwedBound DEF BaseInv, TypeOK, Host
  <2> QED BY <2>1 DEF GapsInv, Gapless
<1> QED BY BaseHolds, <1>1, <1>2, <1>3, PTL DEF Spec

-----------------------------------------------------------------------------
(* Births. *)

\* Only a node's death makes the host forget the node; only a device message from
\* a host without a node counts as unborn.
LEMMA UnbornAfter ==
  ASSUME NEW h \in Host, NEW m \in Message
  PROVE  LET g == Hear(h, m)
         IN /\ g.unborn \in {h.unborn, h.unborn + 1}
            /\ m.type # "NDEATH" /\ h.bd # None => g.bd # None /\ g.unborn = h.unborn
            /\ m.type \notin {"DBIRTH", "DDATA"} => g.unborn = h.unborn
            /\ m.type = "NBIRTH" => g.bd # None
<1>1. CASE m \in [type : DeviceTypes, seq : Seqs]
  <2>1. m = [type |-> m.type, seq |-> m.seq] /\ m.type \in DeviceTypes /\ m.seq \in Seqs
    BY <1>1
  <2>2. /\ Hear(h, m).bd = h.bd
        /\ Hear(h, m).unborn = IF h.bd = None /\ m.type # "DDEATH" THEN h.unborn + 1 ELSE h.unborn
    BY <2>1, HearDevice
  <2> QED BY <2>1, <2>2 DEF DeviceTypes
<1>2. CASE m \in [type : {"NBIRTH", "NDEATH"}, bd : Seqs]
  <2>1. m.bd # None
    BY <1>2, SparkplugAssumption DEF Seqs
  <2> QED BY <1>2, <2>1 DEF Hear, Host
<1> QED BY <1>1, <1>2 DEF Message

\* An attempt at a birth, by a client that has no other message waiting: it is
\* heard, or one more has failed.
LEMMA BornAfterBirth ==
  ASSUME TypeOK, Born, NEW n \in Seqs, NEW e \in BOOLEAN, Effect([type |-> "NBIRTH", bd |-> n], e),
         node'.birthSent <=> ~e, deaf' = 0, late' = late
  PROVE  Born'
<1> DEFINE m == [type |-> "NBIRTH", bd |-> n]
           g == Hear(host, m)
<1>1. /\ host \in Host /\ host.unborn \in Nat /\ missed["NBIRTH"] \in Nat /\ late \in Nat /\ m \in Message
      /\ "NBIRTH" \in Types
  BY MessageForms DEF TypeOK, Host, Types
<1>2. g.unborn = host.unborn /\ g.bd # None
  BY <1>1, UnbornAfter
<1>3. /\ host' \in {host, g} /\ (~e => host' = g)
      /\ missed'["NBIRTH"] \in Nat /\ missed'["NBIRTH"] >= missed["NBIRTH"]
      /\ e => missed'["NBIRTH"] = missed["NBIRTH"] + 1
  BY <1>1, EffectType DEF Effect
<1>4. host.unborn <= missed["NBIRTH"] + late
  BY <1>1 DEF Born, Due
<1>5. Due' <= 1 /\ (~e => Due' = 0) /\ Due' \in Nat
  BY DEF Due
<1> HIDE DEF g
<1> QED BY <1>1, <1>2, <1>3, <1>4, <1>5 DEF Born

\* A message of the device: counted as unborn only where that was due.
LEMMA BornAfterDevice ==
  ASSUME TypeOK, Born, NEW m \in Message, NEW e \in BOOLEAN, Effect(m, e), m.type \in DeviceTypes,
         node'.birthSent <=> node.birthSent, late' = late,
         \/ pending' = pending /\ (m.type = "DDEATH" \/ node.birthSent)
         \/ pending' = None /\ (node.birthSent \/ pending # None)
  PROVE  Born'
<1> DEFINE g == Hear(host, m)
<1>1. /\ host \in Host /\ host.unborn \in Nat /\ missed["NBIRTH"] \in Nat /\ late \in Nat
      /\ "NBIRTH" \in Types /\ m.type # "NDEATH" /\ m.type # "NBIRTH"
  BY DEF TypeOK, Host, Types, DeviceTypes
<1>2. /\ g.unborn \in {host.unborn, host.unborn + 1}
      /\ host.bd # None => g.bd # None /\ g.unborn = host.unborn
      /\ m.type = "DDEATH" => g.unborn = host.unborn
  BY <1>1, UnbornAfter
<1>3. host' \in {host, g} /\ missed'["NBIRTH"] = missed["NBIRTH"]
  BY <1>1, EffectType DEF Effect
<1>4. /\ host.unborn + Due <= missed["NBIRTH"] + late
      /\ node.birthSent => host.bd # None
  BY DEF Born
<1> HIDE DEF g
<1>5. CASE node.birthSent
  <2>1. Due' = 0 /\ Due = 0 /\ host'.unborn = host.unborn /\ host'.bd # None
    BY <1>2, <1>3, <1>4, <1>5 DEF Due
  <2> QED BY <1>3, <1>4, <2>1 DEF Born
<1>6. CASE ~node.birthSent /\ pending' = pending /\ m.type = "DDEATH"
  <2>1. Due' = Due /\ host'.unborn = host.unborn
    BY <1>2, <1>3, <1>6 DEF Due
  <2> QED BY <1>3, <1>4, <1>6, <2>1 DEF Born
<1>7. CASE ~node.birthSent /\ pending' = None /\ pending # None
  <2>1. Due' = 0 /\ Due = 1
    BY <1>7 DEF Due
  <2> QED BY <1>1, <1>2, <1>3, <1>4, <1>7, <2>1 DEF Born
<1> QED BY <1>5, <1>6, <1>7

LEMMA BornStep ==
  ASSUME BaseInv, BornInv, [Next]_vars
  PROVE  BornInv'
<1>0. TypeOK /\ LockInv /\ SpoolInv
  BY DEF BaseInv
<1>1. /\ deaf \in Nat /\ host \in Host /\ node \in Client /\ node.seqNum \in Seqs /\ node.bdSeq \in Seqs /\ 0 \in Seqs
      /\ host.unborn \in Nat /\ missed["NBIRTH"] \in Nat /\ late \in Nat /\ fails \in Nat
      /\ pending \in DeviceTypes \cup {None}
  BY <1>0, SparkplugAssumption DEF TypeOK, Client, Host, Types, Seqs
<1> SUFFICES ASSUME deaf' = 0 PROVE Born'
  BY DEF BornInv
<1>2. ASSUME SetConnected, late' = late, deaf = 0 PROVE Born'
  BY <1>0, <1>1, <1>2, AnnounceEffect, BornAfterBirth DEF BornInv
<1>3. ASSUME SetConnected PROVE deaf = 0
  BY <1>0, <1>3, AnnounceEffect, EffectType
<1>4. ASSUME NEW t \in DeviceTypes, SendDevice(t), late' = late, pending' = None, node.birthSent \/ pending # None
      PROVE  Born'
  <2> DEFINE m == [type |-> t, seq |-> node.seqNum]
  <2>1. PICK e \in BOOLEAN : m \in Message /\ Effect(m, e) /\ (node'.birthSent <=> node.birthSent)
    BY <1>0, <1>4, DeviceEffect
  <2>2. m.type \in DeviceTypes
    OBVIOUS
  <2> HIDE DEF m
  <2>3. deaf = 0
    BY <1>0, <2>1, EffectType
  <2>4. Born
    BY <2>3 DEF BornInv
  <2> QED BY <1>0, <1>4, <2>1, <2>2, <2>4, BornAfterDevice
<1>5. ASSUME NEW t \in DeviceTypes, PublishDevice(t), late' = late PROVE Born'
  <2>1. CASE SendNBIRTH(node) /\ node.connected
    <3>1. PICK e \in BOOLEAN : /\ node'.birthSent <=> ~e
                               /\ Effect([type |-> "NBIRTH", bd |-> node.bdSeq], e)
      BY <1>0, <1>1, <2>1, BirthEffect
    <3>2. deaf = 0
      BY <1>0, <1>1, <2>1, <3>1, BirthEffect, EffectType
    <3> QED BY <1>0, <1>1, <1>5, <3>1, <3>2, BornAfterBirth DEF BornInv
  <2> QED BY <1>4, <1>5, <2>1, PublishForms
<1>6. CASE Start \/ Reload
  BY <1>2, <1>3, <1>6 DEF Start, Reload
<1>7. CASE PublishDDATA
  BY <1>5, <1>7 DEF PublishDDATA, DeviceTypes
<1>8. CASE PublishAfterBirth
  BY <1>1, <1>4, <1>8 DEF PublishAfterBirth, NoWriter
<1>9. ASSUME UNCHANGED <<node, pending, outside, late>> PROVE Born'
  BY <1>9 DEF Born, BornInv, Due, outside
<1>10. CASE \E b \in BOOLEAN : SetConnectionState(b)
  BY <1>5, <1>9, <1>10 DEF SetConnectionState, DeviceTypes
<1>11. ASSUME NEW c \in Callers, DDeathSeq(c) PROVE Born'
  <2>1. UNCHANGED <<pending, outside, late>> /\ (node'.birthSent <=> node.birthSent)
    BY <1>0, <1>11, DDeathSeqFields DEF DDeathSeq
  <2> QED BY <2>1 DEF Born, BornInv, Due, outside
<1>12. ASSUME NEW c \in Callers, DDeathPublish(c) PROVE Born'
  <2> DEFINE m == [type |-> "DDEATH", seq |-> dying[c]]
  <2>1. PICK e \in BOOLEAN : m \in Message /\ Effect(m, e)
    BY <1>0, <1>12, DDeathEffect
  <2>2. m.type \in DeviceTypes /\ m.type = "DDEATH" /\ UNCHANGED <<node, pending, late>>
    BY <1>12 DEF DDeathPublish, DeviceTypes
  <2> HIDE DEF m
  <2>3. deaf = 0
    BY <1>0, <2>1, EffectType
  <2>4. Born
    BY <2>3 DEF BornInv
  <2> QED BY <1>0, <2>1, <2>2, <2>4, BornAfterDevice
<1>13. CASE Disconnect
  <2>1. UNCHANGED <<pending, late>> /\ pending = None
    BY <1>13 DEF Disconnect, NoWriter
  <2>2. CASE node.connected
    <3> DEFINE m == [type |-> "NDEATH", bd |-> CurrentBdSeq(node)]
    <3>1. PICK e \in BOOLEAN : m \in Message /\ Effect(m, e) /\ ~node'.birthSent
      BY <1>0, <1>13, <2>2, DisconnectEffect
    <3>2. m.type = "NDEATH" /\ "NBIRTH" \in Types
      BY DEF Types
    <3> HIDE DEF m
    <3>3. deaf = 0 /\ missed'["NBIRTH"] = missed["NBIRTH"] /\ host' \in {host, Hear(host, m)}
      BY <1>0, <3>1, <3>2, EffectType DEF Effect
    <3>4. host'.unborn = host.unborn
      BY <1>1, <3>1, <3>2, <3>3, UnbornAfter
    <3>5. Due' = 0 /\ Due \in {0, 1}
      BY <2>1 DEF Due
    <3> QED BY <1>1, <2>1, <3>1, <3>3, <3>4, <3>5 DEF Born, BornInv
  <2>3. CASE ~node.connected
    BY <1>9, <1>13, <2>1, <2>3 DEF Disconnect
  <2> QED BY <2>2, <2>3
<1>14. CASE Shutdown \/ LinkDown \/ LinkUp \/ UNCHANGED vars
  BY <1>9, <1>14 DEF Shutdown, LinkDown, LinkUp, vars
<1>15. CASE ReplayHeard
  <2>1. UNCHANGED <<node, pending, missed, deaf>> /\ late' = late + 1
    BY <1>15 DEF ReplayHeard
  <2>2. /\ Head(disk) \in Message /\ Head(disk) = disk[1] /\ 1 \in 1..Len(disk)
        /\ host' = Hear(host, Head(disk))
    BY <1>0, <1>15, ReplayForms
  <2>3. Head(disk).type = "NDEATH" => ~node.birthSent
    BY <1>0, <2>2 DEF SpoolInv, LockInv
  <2>4. host'.unborn \in {host.unborn, host.unborn + 1} /\ (Head(disk).type # "NDEATH" /\ host.bd # None => host'.bd # None)
    BY <1>1, <2>2, UnbornAfter
  <2>5. Born /\ Due' = Due /\ Due \in {0, 1}
    BY <2>1 DEF BornInv, Due
  <2> QED BY <1>1, <2>1, <2>3, <2>4, <2>5 DEF Born
<1>16. CASE ReplayLost
  BY <1>16 DEF ReplayLost, Born, BornInv, Due
<1> QED BY <1>6, <1>7, <1>8, <1>10, <1>11, <1>12, <1>13, <1>14, <1>15, <1>16 DEF Next

\* The birth comes before the messages, however the spool's are mixed with the
\* live ones: at most one message is heard from a node that was never born for
\* each NBIRTH that failed and for each one out of the spool, as long as no NBIRTH
\* was lost behind the client's back.
THEOREM BornHolds == Spec => []NodeBornFirst
<1>1. Init => BornInv
  <2> SUFFICES ASSUME Init PROVE BornInv
    OBVIOUS
  <2>1. host.unborn = 0 /\ missed["NBIRTH"] = 0 /\ late = 0 /\ ~node.birthSent /\ pending = None
    BY DEF Init, Types, NewClient
  <2> QED BY <2>1 DEF BornInv, Born, Due
<1>2. BaseInv /\ BornInv /\ [Next]_vars => BornInv'
  BY BornStep
<1>3. BaseInv /\ BornInv => NodeBornFirst
  <2> SUFFICES ASSUME BaseInv, BornInv, deaf = 0 PROVE host.unborn <= missed["NBIRTH"] + late
    BY DEF NodeBornFirst
  <2>1. host.unborn \in Nat /\ missed["NBIRTH"] \in Nat /\ late \in Nat /\ Due \in {0, 1}
    BY DEF BaseInv, TypeOK, Host, Types, Due
  <2> QED BY <2>1 DEF BornInv, Born
<1> QED BY BaseHolds, <1>1, <1>2, <1>3, PTL DEF Spec

-----------------------------------------------------------------------------
(* Deaths. *)

\* A device message leaves the session as it is.
LEMMA SessionKept ==
  ASSUME TypeOK, NEW m \in Message, m.type \in DeviceTypes
  PROVE  Hear(host, m).bd = host.bd /\ Hear(host, m).stray = host.stray
<1>1. host \in Host
  BY DEF TypeOK
<1>2. m = [type |-> m.type, seq |-> m.seq] /\ m.seq \in Seqs
  BY DEF Message, DeviceTypes
<1> QED BY <1>1, <1>2, HearDevice

LEMMA DeathStep ==
  ASSUME BaseInv, DeathInv, [Next]_vars
  PROVE  DeathInv'
<1>0. TypeOK /\ LockInv /\ SpoolInv
  BY DEF BaseInv
<1>1. /\ host \in Host /\ host.stray \in Nat /\ missed["NBIRTH"] \in Nat /\ missed["NDEATH"] \in Nat
      /\ node \in Client /\ node.seqNum \in Seqs /\ node.bdSeq \in Seqs /\ 0 \in Seqs /\ late \in Nat
      /\ "NBIRTH" \in Types /\ "NDEATH" \in Types /\ pending \in DeviceTypes \cup {None}
  BY <1>0, SparkplugAssumption DEF TypeOK, Host, Types, Client, Seqs
<1> SUFFICES ASSUME missed'["NBIRTH"] = 0 PROVE Buried'
  BY DEF DeathInv
<1>2. ASSUME SetConnected, phase' \in {"up", "dying"}, late' = late PROVE Buried'
  <2> DEFINE m == [type |-> "NBIRTH", bd |-> 0]
  <2>1. node'.bdSeq = Succ(0) /\ m \in Message /\ m.type = "NBIRTH"
    BY <1>0, <1>2, AnnounceEffect
  <2>2. host' = Hear(host, m) /\ missed["NBIRTH"] = 0
    BY <1>0, <1>2, <2>1, AnnounceEffect, EffectType
  <2>3. host'.stray = host.stray /\ host'.bd = 0
    BY <1>1, <2>2, HearBirth
  <2>4. CurrentBdSeq(node)' = 0
    BY <1>1, <2>1, Numbers DEF CurrentBdSeq
  <2> QED BY <1>2, <2>2, <2>3, <2>4 DEF DeathInv, Buried
<1>3. CASE Start \/ Reload
  BY <1>2, <1>3 DEF Start, Reload, PollLoopFree
<1>4. ASSUME NEW m \in Message, NEW e \in BOOLEAN, Effect(m, e), m.type \in DeviceTypes,
             node'.bdSeq = node.bdSeq, UNCHANGED <<phase, late>>
      PROVE  Buried'
  <2>1. m.type # "NBIRTH" /\ m.type # "NDEATH"
    BY <1>4 DEF DeviceTypes
  <2>2. missed'["NBIRTH"] = missed["NBIRTH"] /\ missed'["NDEATH"] = missed["NDEATH"] /\ host' \in {host, Hear(host, m)}
    BY <1>0, <1>1, <1>4, <2>1, EffectType DEF Effect
  <2>3. host'.bd = host.bd /\ host'.stray = host.stray
    BY <1>0, <1>4, <2>2, SessionKept
  <2>4. CurrentBdSeq(node)' = CurrentBdSeq(node)
    BY <1>4 DEF CurrentBdSeq
  <2> QED BY <1>4, <2>2, <2>3, <2>4 DEF DeathInv, Buried
<1>5. ASSUME NEW t \in DeviceTypes, SendDevice(t), UNCHANGED <<phase, late>> PROVE Buried'
  <2> DEFINE m == [type |-> t, seq |-> node.seqNum]
  <2>1. PICK e \in BOOLEAN : m \in Message /\ Effect(m, e) /\ node'.bdSeq = node.bdSeq
    BY <1>0, <1>5, DeviceEffect
  <2>2. m.type \in DeviceTypes
    OBVIOUS
  <2> HIDE DEF m
  <2> QED BY <1>4, <1>5, <2>1, <2>2
<1>6. ASSUME NEW t \in DeviceTypes, PublishDevice(t), UNCHANGED <<phase, late>> PROVE Buried'
  <2>1. CASE SendNBIRTH(node) /\ node.connected /\ ~node.birthSent
    <3>1. missed'["NBIRTH"] >= missed["NBIRTH"]
      BY <1>0, <1>1, <2>1, BirthEffect, EffectType
    <3>2. missed["NBIRTH"] > 0
      BY <1>0, <2>1 DEF LockInv
    <3> QED BY <1>1, <3>1, <3>2
  <2> QED BY <1>5, <1>6, <2>1, PublishForms
<1>7. CASE PublishDDATA
  BY <1>6, <1>7 DEF PublishDDATA, DeviceTypes
<1>8. CASE PublishAfterBirth
  BY <1>1, <1>5, <1>8 DEF PublishAfterBirth, NoWriter
<1>9. ASSUME UNCHANGED <<node, phase, outside, late>> PROVE Buried'
  BY <1>9 DEF DeathInv, Buried, outside, CurrentBdSeq
<1>10. CASE \E b \in BOOLEAN : SetConnectionState(b)
  BY <1>6, <1>9, <1>10 DEF SetConnectionState, DeviceTypes
<1>11. ASSUME NEW c \in Callers, DDeathSeq(c) PROVE Buried'
  <2>1. UNCHANGED <<phase, outside, late>> /\ CurrentBdSeq(node)' = CurrentBdSeq(node)
    BY <1>0, <1>11, DDeathSeqFields DEF DDeathSeq, CurrentBdSeq
  <2> QED BY <2>1 DEF DeathInv, Buried, outside
<1>12. ASSUME NEW c \in Callers, DDeathPublish(c) PROVE Buried'
  <2> DEFINE m == [type |-> "DDEATH", seq |-> dying[c]]
  <2>1. PICK e \in BOOLEAN : m \in Message /\ Effect(m, e)
    BY <1>0, <1>12, DDeathEffect
  <2>2. m.type \in DeviceTypes /\ UNCHANGED <<node, phase, late>>
    BY <1>12 DEF DDeathPublish, DeviceTypes
  <2> HIDE DEF m
  <2> QED BY <1>4, <2>1, <2>2
<1>13. CASE Disconnect
  <2>0. phase = "dying" /\ phase' = "down" /\ late' = late /\ node.connected
    BY <1>0, <1>13 DEF Disconnect, LockInv
  <2> DEFINE m == [type |-> "NDEATH", bd |-> CurrentBdSeq(node)]
             h == Hear(host, m)
  <2>1. PICK e \in BOOLEAN : m \in Message /\ Effect(m, e)
    BY <1>0, <1>13, <2>0, DisconnectEffect
  <2>2. m.type = "NDEATH" /\ m.type # "NBIRTH"
    OBVIOUS
  <2>3. /\ missed["NBIRTH"] = 0 /\ host' \in {host, h}
        /\ missed'["NDEATH"] = 0 => host' = h
    <3> HIDE DEF m
    <3> QED BY <1>0, <1>1, <2>1, <2>2, EffectType DEF Effect
  <2>4. host.stray <= late /\ host.bd = CurrentBdSeq(node)
    BY <2>0, <2>3 DEF DeathInv, Buried
  <2>5. h.bd = None /\ h.stray = host.stray
    BY <1>1, <2>4, HearDeath
  <2> HIDE DEF h
  <2> QED BY <2>0, <2>3, <2>4, <2>5 DEF Buried
<1>14. CASE Shutdown
  BY <1>14 DEF Shutdown, DeathInv, Buried, outside, CurrentBdSeq
<1>15. CASE LinkDown \/ LinkUp \/ UNCHANGED vars
  BY <1>9, <1>15 DEF LinkDown, LinkUp, vars
<1>16. CASE ReplayHeard
  <2>1. UNCHANGED <<node, phase, missed>> /\ late' = late + 1
    BY <1>16 DEF ReplayHeard
  <2> DEFINE m == Head(disk)
  <2>2. m \in Message /\ m = disk[1] /\ 1 \in 1..Len(disk) /\ host' = Hear(host, m)
    BY <1>0, <1>16, ReplayForms
  <2>3. m.type # "NBIRTH" /\ (m.type = "NDEATH" => phase = "down" /\ missed["NDEATH"] > 0)
    BY <1>0, <1>1, <2>1, <2>2 DEF SpoolInv
  <2>4. Buried
    BY <2>1 DEF DeathInv
  <2> HIDE DEF m
  <2>5. CASE m.type = "NDEATH"
    <3>1. m = [type |-> "NDEATH", bd |-> m.bd]
      BY <2>2, <2>5 DEF Message, DeviceTypes
    <3>2. host'.stray \in {host.stray, host.stray + 1}
      BY <1>1, <2>2, <3>1, HearDeath
    <3> QED BY <1>1, <2>1, <2>3, <2>4, <2>5, <3>2 DEF Buried
  <2>6. CASE m.type \in DeviceTypes
    <3>1. host'.bd = host.bd /\ host'.stray = host.stray
      BY <1>0, <2>2, <2>6, SessionKept
    <3> QED BY <1>1, <2>1, <2>4, <3>1 DEF Buried, CurrentBdSeq
  <2> QED BY <2>2, <2>3, <2>5, <2>6, MessageType DEF Types
<1>17. CASE ReplayLost
  BY <1>17 DEF ReplayLost, DeathInv, Buried, CurrentBdSeq
<1> QED BY <1>3, <1>7, <1>8, <1>10, <1>11, <1>12, <1>13, <1>14, <1>15, <1>16, <1>17 DEF Next

\* NDEATH carries the number of the session it closes, across the wrap and across
\* a Reload: the host recognises every one that comes in time, and after a
\* shutdown it takes no node for alive, unless an NBIRTH or the NDEATH went wrong.
THEOREM DeathHolds == Spec => []DeathIsRecognised
<1>1. Init => DeathInv
  <2> SUFFICES ASSUME Init PROVE DeathInv
    OBVIOUS
  <2>1. host.stray = 0 /\ late = 0 /\ phase = "new"
    BY DEF Init
  <2> QED BY <2>1 DEF DeathInv, Buried
<1>2. BaseInv /\ DeathInv /\ [Next]_vars => DeathInv'
  BY DeathStep
<1>3. DeathInv => DeathIsRecognised
  BY DEF DeathInv, Buried, DeathIsRecognised
<1> QED BY BaseHolds, <1>1, <1>2, <1>3, PTL DEF Spec

-----------------------------------------------------------------------------
(* The device. *)

\* While every birth and device's death was heard, an attempt is heard unless it
\* is one of data.
LEMMA HeardAll ==
  ASSUME TypeOK, NEW m \in Message, NEW e \in BOOLEAN, Effect(m, e), Announced'
  PROVE  /\ Announced
         /\ m.type # "NDEATH" => host'.device = Hear(host, m).device
         /\ host'.device \in BOOLEAN
<1>1. /\ {"NBIRTH", "DBIRTH", "DDEATH"} \subseteq Types /\ missed \in [Types -> Nat] /\ host \in Host
      /\ m.type \in Types /\ host' \in Host
  BY EffectType, MessageType DEF TypeOK, Types, DeviceTypes
<1>2. \A t \in Types : missed'[t] >= missed[t]
  BY EffectType
<1>3. Announced
  BY <1>1, <1>2 DEF Announced
<1>4. CASE m.type \in {"NBIRTH", "DBIRTH", "DDEATH"}
  <2>1. missed'[m.type] = 0
    BY <1>4 DEF Announced
  <2>2. host' = Hear(host, m)
    BY <2>1, EffectType
  <2> QED BY <1>1, <1>3, <2>2 DEF Host
<1>5. CASE m.type = "DDATA"
  <2>1. m = [type |-> "DDATA", seq |-> m.seq] /\ m.seq \in Seqs /\ "DDATA" \in DeviceTypes
    BY <1>5 DEF Message, DeviceTypes
  <2>2. Hear(host, m).device = host.device
    BY <1>1, <2>1, HearDevice
  <2> QED BY <1>1, <1>3, <2>2 DEF Effect, Host
<1>6. CASE m.type = "NDEATH"
  BY <1>1, <1>3, <1>6 DEF Host
<1> QED BY <1>1, <1>4, <1>5, <1>6 DEF Types, DeviceTypes

LEMMA DeviceStep ==
  ASSUME BaseInv, DeviceInv, [Next]_vars
  PROVE  DeviceInv'
<1> /\ "poll" \in Callers /\ "main" \in Callers /\ \A c \in Callers : c = "poll" \/ c = "main"
  BY DEF Callers
<1>0. plan' = plan /\ TypeOK /\ LockInv /\ SpoolInv /\ TypeOK'
  BY TypeStep DEF Next, vars, Start, Reload, PublishDDATA, PublishAfterBirth, SetConnectionState, Shutdown, DDeathSeq,
         DDeathPublish, Disconnect, LinkDown, LinkUp, ReplayHeard, ReplayLost, BaseInv
<1>1. /\ host \in Host /\ node.seqNum \in Seqs /\ node \in Client
      /\ dying \in [Callers -> Seqs \cup {None, Asked}] /\ pending \in DeviceTypes \cup {None}
      /\ None \notin Seqs /\ Asked \notin Seqs /\ None # Asked
      /\ device \in BOOLEAN /\ host.device \in BOOLEAN /\ device' \in BOOLEAN /\ host'.device \in BOOLEAN
  BY <1>0, SparkplugAssumption DEF TypeOK, Host, Client, Seqs
<1>2. phase' \in {"new", "up"} => dying'["main"] = None
  <2>0. phase' \in {"new", "up"} => phase \in {"new", "up"} /\ ~Shutdown
    BY DEF Next, vars, Start, Reload, PollLoopFree, PublishDDATA, PublishAfterBirth, SetConnectionState, Shutdown, DDeathSeq,
           DDeathPublish, Disconnect, LinkDown, LinkUp, ReplayHeard, ReplayLost
  <2> SUFFICES ASSUME phase' \in {"new", "up"} PROVE dying'["main"] = None
    OBVIOUS
  <2>1. dying["main"] = None
    BY <2>0 DEF DeviceInv
  <2>2. ASSUME NEW c \in Callers, DDeathSeq(c) \/ DDeathPublish(c) PROVE dying'["main"] = None
    <3>1. c = "poll"
      BY <1>1, <2>1, <2>2 DEF DDeathSeq, DDeathPublish
    <3> QED BY <1>1, <2>1, <2>2, <3>1 DEF DDeathSeq, DDeathPublish
  <2>3. ASSUME NEW b \in BOOLEAN, SetConnectionState(b) PROVE dying'["main"] = None
    BY <1>1, <2>1, <2>3 DEF SetConnectionState
  <2>4. CASE dying' = dying
    BY <2>1, <2>4
  <2> QED BY <2>0, <2>2, <2>3, <2>4
      DEF Next, vars, Start, Reload, PublishDDATA, PublishAfterBirth, Disconnect, LinkDown, LinkUp, ReplayHeard, ReplayLost
<1>3. ASSUME plan.driver # "redis", Announced'
      PROVE  Agreed'
  <2>1. Announced => Agreed /\ missed["NBIRTH"] = 0
    BY <1>3 DEF DeviceInv, Announced
  <2>2. CASE Start
    <3>1. SetConnected /\ phase = "new" /\ phase' = "up" /\ UNCHANGED <<device, dying>>
      BY <2>2 DEF Start
    <3> DEFINE m == [type |-> "NBIRTH", bd |-> 0]
    <3>2. PICK e \in BOOLEAN : m \in Message /\ Effect(m, e)
      BY <1>0, <3>1, AnnounceEffect
    <3>3. Announced /\ host'.device = Hear(host, m).device
      BY <1>0, <1>3, <3>2, HeardAll
    <3>4. ~Hear(host, m).device
      BY <1>1, HearBirth
    <3>5. ~device /\ dying["poll"] = None
      BY <1>0, <2>1, <3>1, <3>3 DEF Agreed, LockInv
    <3> HIDE DEF m
    <3>6. host'.device = device'
      BY <1>1, <3>1, <3>3, <3>4, <3>5
    <3> QED BY <3>1, <3>5, <3>6 DEF Agreed
  <2>3. CASE Reload
    BY <1>3, <2>3 DEF Reload
  <2>4. ASSUME NEW t \in DeviceTypes, SendDevice(t), phase' = phase, dying' = dying,
               (t = "DDATA" /\ device' = device) \/ (t = "DBIRTH" /\ device' /\ phase # "new" /\ dying["poll"] = None)
        PROVE  Agreed'
    <3> DEFINE m == [type |-> t, seq |-> node.seqNum]
    <3>1. PICK e \in BOOLEAN : m \in Message /\ Effect(m, e)
      BY <1>0, <2>4, DeviceEffect
    <3>2. m.type # "NDEATH"
      BY DEF DeviceTypes
    <3>3. Announced /\ host'.device = Hear(host, m).device
      BY <1>0, <1>3, <3>1, <3>2, HeardAll
    <3>4. Hear(host, m).device = IF t = "DDATA" THEN host.device ELSE t = "DBIRTH"
      BY <1>1, HearDevice
    <3> HIDE DEF m
    <3>5. CASE t = "DDATA" /\ device' = device
      <4>1. host'.device = host.device
        BY <3>3, <3>4, <3>5
      <4> QED BY <2>1, <2>4, <3>3, <3>5, <4>1 DEF Agreed
    <3>6. CASE t = "DBIRTH" /\ device' /\ phase # "new" /\ dying["poll"] = None
      <4>1. host'.device
        BY <3>3, <3>4, <3>6
      <4>2. host'.device = device'
        BY <1>1, <3>6, <4>1
      <4> QED BY <2>4, <3>6, <4>2 DEF Agreed
    <3> QED BY <2>4, <3>5, <3>6
  <2>5. ASSUME NEW t \in DeviceTypes, PublishDevice(t), phase' = phase, dying' = dying,
               (t = "DDATA" /\ device' = device) \/ (t = "DBIRTH" /\ device' /\ phase # "new" /\ dying["poll"] = None)
        PROVE  Agreed'
    <3>1. CASE SendNBIRTH(node) /\ node.connected /\ ~node.birthSent
      <4> DEFINE m == [type |-> "NBIRTH", bd |-> node.bdSeq]
      <4>1. PICK e \in BOOLEAN : m \in Message /\ Effect(m, e)
        BY <1>0, <1>1, <3>1, BirthEffect
      <4>2. Announced
        BY <1>0, <1>3, <4>1, HeardAll
      <4>3. missed["NBIRTH"] > 0
        BY <1>0, <3>1 DEF LockInv
      <4> QED BY <2>1, <4>2, <4>3
    <3> QED BY <2>4, <2>5, <3>1, PublishForms
  <2>6. CASE PublishDDATA
    BY <2>5, <2>6 DEF PublishDDATA, DeviceTypes
  <2>7. CASE PublishAfterBirth
    <3>1. pending \in DeviceTypes /\ pending # None /\ SendDevice(pending)
      BY <1>1, <2>7 DEF PublishAfterBirth, NoWriter
    <3>2. Announced
      BY <1>0, <1>3, <3>1, DeviceEffect, HeardAll
    <3>3. missed["NBIRTH"] > 0
      BY <1>0, <3>1 DEF LockInv
    <3> QED BY <2>1, <3>2, <3>3
  <2>8. ASSUME NEW b \in BOOLEAN, SetConnectionState(b)
        PROVE  Agreed'
    <3>1. phase \in {"up", "dying"} /\ phase' = phase /\ dying["poll"] = None /\ device' = b /\ device # b
      BY <2>8 DEF SetConnectionState, PollLoopFree
    <3>2. CASE PublishDevice("DBIRTH") /\ UNCHANGED dying /\ b
      BY <2>5, <3>1, <3>2 DEF DeviceTypes
    <3>3. CASE ~node.connected
      BY <1>0, <3>1, <3>3 DEF LockInv
    <3>4. CASE dying' = [dying EXCEPT !["poll"] = Asked] /\ ~b
      <4>1. dying'["poll"] = Asked /\ ~device'
        BY <1>1, <3>1, <3>4
      <4> QED BY <1>1, <3>1, <4>1 DEF Agreed
    <3> QED BY <2>8, <3>2, <3>3, <3>4 DEF SetConnectionState
  <2>9. CASE Shutdown
    BY <2>9 DEF Shutdown, Agreed
  <2>10. ASSUME NEW c \in Callers, DDeathSeq(c)
         PROVE  Agreed'
    <3>1. UNCHANGED <<phase, host, device, missed>> /\ dying[c] = Asked
      BY <2>10 DEF DDeathSeq, outside
    <3>2. Agreed
      BY <1>3, <2>1, <3>1 DEF Announced
    <3>3. CASE phase = "up"
      <4>1. c = "poll" /\ node.connected
        BY <1>0, <1>1, <3>1, <3>3 DEF DeviceInv, LockInv
      <4>2. ~device
        BY <1>1, <3>1, <3>2, <3>3, <4>1 DEF Agreed
      <4>3. dying'["poll"] = node.seqNum
        BY <1>1, <2>10, <4>1 DEF DDeathSeq
      <4>4. dying'["poll"] # None
        BY <1>1, <4>3
      <4> QED BY <3>1, <3>3, <4>2, <4>4 DEF Agreed
    <3>4. CASE phase # "up"
      BY <3>1, <3>2, <3>4 DEF Agreed
    <3> QED BY <3>3, <3>4
  <2>11. ASSUME NEW c \in Callers, DDeathPublish(c)
         PROVE  Agreed'
    <3>1. UNCHANGED <<phase, device>> /\ dying[c] \in Seqs /\ dying' = [dying EXCEPT ![c] = None]
      BY <2>11 DEF DDeathPublish
    <3> DEFINE m == [type |-> "DDEATH", seq |-> dying[c]]
    <3>2. PICK e \in BOOLEAN : m \in Message /\ Effect(m, e)
      BY <1>0, <2>11, DDeathEffect
    <3>3. Announced /\ host'.device = Hear(host, m).device
      BY <1>0, <1>3, <3>2, HeardAll
    <3>4. ~Hear(host, m).device
      <4>1. "DDEATH" \in DeviceTypes
        BY DEF DeviceTypes
      <4>2. Hear(host, m).device = IF "DDEATH" = "DDATA" THEN host.device ELSE "DDEATH" = "DBIRTH"
        BY <1>1, <3>1, <4>1, HearDevice
      <4> QED BY <4>2
    <3> HIDE DEF m
    <3>5. ~host'.device
      BY <3>3, <3>4
    <3>6. CASE phase = "up"
      <4>1. c = "poll"
        BY <1>1, <3>1, <3>6 DEF DeviceInv
      <4>2. ~device
        BY <1>1, <2>1, <3>1, <3>3, <3>6, <4>1 DEF Agreed
      <4>3. host'.device = device'
        BY <1>1, <3>1, <3>5, <4>2
      <4>4. dying'["poll"] = None
        BY <1>1, <3>1, <4>1
      <4> QED BY <3>1, <3>6, <4>3, <4>4 DEF Agreed
    <3>7. CASE phase # "up"
      BY <2>1, <3>1, <3>3, <3>5, <3>7 DEF Agreed
    <3> QED BY <3>6, <3>7
  <2>12. CASE Disconnect
    BY <2>12 DEF Disconnect, Agreed
  <2>13. CASE LinkDown \/ LinkUp \/ UNCHANGED vars
    BY <1>3, <2>1, <2>13 DEF LinkDown, LinkUp, vars, outside, Agreed, Announced
  <2>14. CASE ReplayHeard
    <3> DEFINE m == Head(disk)
    <3>1. UNCHANGED <<phase, device, dying, missed>>
      BY <2>14 DEF ReplayHeard
    <3>2. m \in Message /\ m = disk[1] /\ 1 \in 1..Len(disk) /\ host' = Hear(host, m)
      BY <1>0, <2>14, ReplayForms
    <3>3. Announced
      BY <1>3, <3>1 DEF Announced
    <3>4. m.type \in {"DDATA", "NDEATH"} /\ (m.type = "NDEATH" => phase = "down")
      <4>1. missed[m.type] > 0 /\ (m.type = "NDEATH" => phase = "down") /\ m.type \in Types
        BY <1>0, <3>2, MessageType DEF SpoolInv
      <4>2. m.type \notin {"NBIRTH", "DBIRTH", "DDEATH"}
        BY <3>3, <4>1 DEF Announced
      <4> QED BY <4>1, <4>2 DEF Types, DeviceTypes
    <3> HIDE DEF m
    <3>5. CASE m.type = "DDATA"
      <4>1. m = [type |-> "DDATA", seq |-> m.seq] /\ m.seq \in Seqs /\ "DDATA" \in DeviceTypes
        BY <3>2, <3>5 DEF Message, DeviceTypes
      <4>2. host'.device = host.device
        BY <1>1, <3>2, <4>1, HearDevice
      <4> QED BY <2>1, <3>1, <3>3, <4>2 DEF Agreed
    <3>6. CASE m.type = "NDEATH"
      BY <3>1, <3>4, <3>6 DEF Agreed
    <3> QED BY <3>4, <3>5, <3>6
  <2>15. CASE ReplayLost
    BY <1>3, <2>1, <2>15 DEF ReplayLost, Agreed, Announced
  <2> QED BY <2>2, <2>3, <2>6, <2>7, <2>8, <2>9, <2>10, <2>11, <2>12, <2>13, <2>14, <2>15 DEF Next
<1> QED BY <1>0, <1>2, <1>3 DEF DeviceInv

\* Where every birth and every device's death went well and no death is on its
\* way, the host has the state that the driver has of its device, whatever the
\* poll loop did in which order and however much data was lost or came late.
THEOREM DeviceHolds == Spec => []DeviceStateHeard
<1>1. Init => DeviceInv
  <2> SUFFICES ASSUME Init PROVE DeviceInv
    OBVIOUS
  <2>1. phase = "new" /\ ~host.device /\ (plan.driver # "redis" => ~device)
    BY DEF Init
  <2>2. dying["main"] = None
    BY DEF Init, Callers
  <2> QED BY <2>1, <2>2 DEF DeviceInv, Agreed
<1>2. BaseInv /\ DeviceInv /\ [Next]_vars => DeviceInv'
  BY DeviceStep
<1>3. DeviceInv => DeviceStateHeard
  BY DEF DeviceInv, Agreed, Announced, DeviceStateHeard, Callers
<1> QED BY BaseHolds, <1>1, <1>2, <1>3, PTL DEF Spec
=============================================================================
