------------------------------- MODULE MqttSpool -------------------------------
(***************************************************************************)
(* The MQTT client a driver publishes through, and the disk spool behind   *)
(* it (internal/mqtt): a publish that fails is appended to a file of one   *)
(* JSON record per line, and a goroutine started on every connection       *)
(* resends the file's records in order and rewrites it with the rest.      *)
(*                                                                         *)
(* Processes.  The Publishers are the driver's goroutines; the Drainer is  *)
(* the one drainSpool that holds drainMu.  A step is one publish, one      *)
(* statement that changes the file, or a critical section of Spool.mu      *)
(* between two such statements: os.WriteFile is two steps, the truncation  *)
(* and the write, because the process can die in between.                  *)
(*                                                                         *)
(* Abstraction.  A message is a model value with the length SizeOf[m] of   *)
(* its line, newline included; topic, QoS and payload decide nothing.  A   *)
(* line of the file is the messages written on it - two when a record was  *)
(* appended to one without newline - and how many bytes of it are there.   *)
(* The broker acknowledges a QoS 1 publish, or the client sees an error;   *)
(* paho can keep a message whose publish timed out and send it later.      *)
(* All messages here are of QoS 1: samples, alarm events, health, results. *)
(* A record of QoS 0, as Sparkplug's all are, counts as sent as soon as    *)
(* publishNow returns nil, whether or not the broker got it; its loss is   *)
(* in SparkplugNode, and the properties below do not speak of it.          *)
(***************************************************************************)
EXTENDS Integers, Sequences, FiniteSets, SequencesExt

CONSTANTS
  Msgs,        \* the messages the driver publishes, each once
  SizeOf,      \* [Msgs -> Nat]: the length of a record's line
  MaxBytes,    \* Spool.maxBytes
  ScanLimit,   \* the longest line bufio.Scanner reads
  Publishers, Drainer,
  Nobody,      \* owner of a free lock
  MaxConnects, \* bound: how often the client connects
  Env          \* which of EnvEvents happen in this instance

(* "late": a publish times out and paho keeps the message; "keep": the   *)
(* file cannot be removed; "fail": a write to the file ends early with an  *)
(* error; the process dies "crash": between two writes, "torn": inside an  *)
(* append, "cut": inside os.WriteFile.                                     *)
EnvEvents == {"late", "keep", "fail", "crash", "torn", "cut"}

Goroutines == Publishers \cup {Drainer}

ASSUME SpoolConstants ==
  /\ SizeOf \in [Msgs -> Nat \ {0, 1}]
  /\ MaxBytes \in Nat /\ ScanLimit \in Nat /\ MaxConnects \in Nat
  /\ Drainer \notin Publishers /\ Nobody \notin Goroutines
  /\ Env \subseteq EnvEvents

VARIABLES
  file,       \* the lines of the spool file
  size,       \* Spool.size
  dropped,    \* Spool.dropped
  corrupt,    \* Spool.corrupt
  mu,         \* who holds Spool.mu
  pc,         \* where each goroutine is
  msg,        \* the message each publisher publishes
  work,       \* the lines the holder of mu is about to write
  next,       \* the line the Drainer reads next
  running,    \* the process runs
  link,       \* the client is connected
  connects,   \* how often it has connected
  spawned,    \* drainSpool goroutines that have not tried drainMu yet
  fresh,      \* messages not published yet
  accepted,   \* messages Add took, in order
  discarded,  \* messages dropOldestLocked cut off
  hole,       \* those it cut off since the process started
  delivered,  \* what the broker received, in order
  inflight    \* messages paho keeps

fileVars   == <<file, size, dropped, corrupt>>
lockVars   == <<mu, work, next>>
clientVars == <<running, link, connects, spawned>>
msgVars    == <<fresh, accepted, discarded, hole>>
wireVars   == <<delivered, inflight>>
vars == <<fileVars, lockVars, pc, msg, clientVars, msgVars, wireVars>>

--------------------------------------------------------------------------------
(* The file *)

Line == [msgs : Seq(Msgs), bytes : Nat, ended : BOOLEAN]

Bytes(lines) ==
  LET upto[k \in 0..Len(lines)] == IF k = 0 THEN 0 ELSE upto[k - 1] + lines[k].bytes
  IN  upto[Len(lines)]

(* json.Unmarshal takes a line that is one whole record; a newline is not  *)
(* a part of it.                                                           *)
Readable(line) ==
  /\ Len(line.msgs) = 1
  /\ line.bytes >= SizeOf[line.msgs[1]] - (IF line.ended THEN 0 ELSE 1)

TooLong(line) == line.bytes > ScanLimit

(* f.Write of the first n bytes of m's line, in O_APPEND mode. *)
Written(lines, m, n) ==
  LET k == Len(lines)
      ended == n = SizeOf[m]
  IN  IF n = 0 THEN lines
      ELSE IF k > 0 /\ ~lines[k].ended
      THEN [lines EXCEPT ![k] = [msgs |-> Append(@.msgs, m), bytes |-> @.bytes + n, ended |-> ended]]
      ELSE Append(lines, [msgs |-> <<m>>, bytes |-> n, ended |-> ended])

(* What os.WriteFile leaves of these lines when it does not finish. *)
CutShort(lines) ==
  {SubSeq(lines, 1, k) : k \in 0..(Len(lines) - 1)} \cup
  UNION {{Append(SubSeq(lines, 1, k - 1), [lines[k] EXCEPT !.bytes = b, !.ended = FALSE]) :
            b \in 1..(lines[k].bytes - 1)} : k \in 1..Len(lines)}

(* Mutant: it goes on until the rest is smaller than the target. *)
FirstKeptUnder(lines, target) ==
  CHOOSE k \in 0..Len(lines) :
    /\ k = Len(lines) \/ Bytes(SubSeq(lines, k + 1, Len(lines))) < target
    /\ \A j \in 0..(k - 1) : Bytes(SubSeq(lines, j + 1, Len(lines))) >= target

(* The first line of the rest that fits under the target. *)
FirstKept(lines, target) ==
  CHOOSE k \in 0..Len(lines) :
    /\ Bytes(SubSeq(lines, k + 1, Len(lines))) <= target
    /\ \A j \in 0..(k - 1) : Bytes(SubSeq(lines, j + 1, Len(lines))) > target

ReadableMsgs(lines) == {lines[i].msgs[1] : i \in {j \in DOMAIN lines : Readable(lines[j])}}

--------------------------------------------------------------------------------
TypeOK ==
  /\ file \in Seq(Line) /\ work \in Seq(Line)
  /\ size \in Nat /\ dropped \in Nat /\ corrupt \in Nat
  /\ mu \in Goroutines \cup {Nobody}
  /\ pc \in [Goroutines -> {"idle", "add", "trim", "append", "stats", "scan", "rewrite"}]
  /\ msg \in [Publishers -> Msgs \cup {Nobody}]
  /\ next \in Nat
  /\ running \in BOOLEAN /\ link \in BOOLEAN
  /\ connects \in 0..MaxConnects /\ spawned \in 0..MaxConnects
  /\ fresh \in SUBSET Msgs /\ discarded \in SUBSET Msgs /\ hole \in SUBSET Msgs /\ inflight \in SUBSET Msgs
  /\ accepted \in Seq(Msgs) /\ delivered \in Seq(Msgs)

Init ==
  /\ file = <<>> /\ work = <<>> /\ size = 0 /\ dropped = 0 /\ corrupt = 0
  /\ mu = Nobody
  /\ pc = [g \in Goroutines |-> "idle"] /\ msg = [p \in Publishers |-> Nobody]
  /\ next = 0
  /\ running = TRUE /\ link = FALSE /\ connects = 0 /\ spawned = 0
  /\ fresh = Msgs /\ accepted = <<>> /\ discarded = {} /\ hole = {}
  /\ delivered = <<>> /\ inflight = {}

Goto(g, place) == pc' = [pc EXCEPT ![g] = place]

--------------------------------------------------------------------------------
(* publishNow *)

Sent(m) == link /\ delivered' = Append(delivered, m) /\ UNCHANGED inflight

(* Not connected; or the acknowledgement does not come in time. *)
SendError(m) ==
  \/ ~link /\ UNCHANGED wireVars
  \/ "late" \in Env /\ inflight' = inflight \cup {m} /\ UNCHANGED delivered

(* paho sends what it kept, if the process is still there. *)
SendLate(m) ==
  /\ link /\ m \in inflight
  /\ delivered' = Append(delivered, m)
  /\ inflight' = inflight \ {m}
  /\ UNCHANGED <<fileVars, lockVars, pc, msg, clientVars, msgVars>>

PublishWithQoS(p, m) ==
  /\ running /\ pc[p] = "idle"
  /\ m \in fresh
  /\ fresh' = fresh \ {m}
  /\ \/ Sent(m) /\ UNCHANGED <<pc, msg>>
     \/ SendError(m) /\ Goto(p, "add") /\ msg' = [msg EXCEPT ![p] = m]
  /\ UNCHANGED <<fileVars, lockVars, clientVars, accepted, discarded, hole>>

--------------------------------------------------------------------------------
(* Spool.Add *)

(* A record larger than the whole spool is refused. *)
AddTooLarge(p) ==
  /\ pc[p] = "add" /\ mu = Nobody
  /\ SizeOf[msg[p]] > MaxBytes
  /\ dropped' = dropped + 1
  /\ Goto(p, "idle") /\ msg' = [msg EXCEPT ![p] = Nobody]
  /\ UNCHANGED <<file, size, corrupt, lockVars, clientVars, msgVars, wireVars>>

Fits(p) == size + SizeOf[msg[p]] <= MaxBytes

(* Mutant: the file is cut at its end. *)
KeptLinesOldest(cut) == SubSeq(file, 1, Len(file) - cut)

(* What is left of the file: data[cut:]. *)
KeptLines(cut) == SubSeq(file, cut + 1, Len(file))

(* Mutant: one count per rewrite, not per record. *)
CutRecordsOnce(cut) == IF cut > 0 THEN 1 ELSE 0

(* The newlines passed by the cut.  A file without a newline left is cut   *)
(* off whole, and that is not counted.                                     *)
CutRecords(cut) == Cardinality({i \in 1..cut : file[i].ended})

TrimmedSize == Bytes(work)

(* dropOldestLocked up to the truncation of the file. *)
dropOldestLocked(p) ==
  LET cut == FirstKept(file, MaxBytes - SizeOf[msg[p]]) IN
  /\ pc[p] = "add" /\ mu = Nobody
  /\ SizeOf[msg[p]] <= MaxBytes /\ ~Fits(p)
  /\ mu' = p
  /\ dropped' = dropped + CutRecords(cut)
  /\ discarded' = discarded \cup ReadableMsgs(SubSeq(file, 1, cut))
  /\ hole' = hole \cup ReadableMsgs(SubSeq(file, 1, cut))
  /\ work' = KeptLines(cut)
  /\ file' = <<>>
  /\ Goto(p, "trim")
  /\ UNCHANGED <<size, corrupt, next, msg, clientVars, fresh, accepted, wireVars>>

(* The write of os.WriteFile; an error ends Add. *)
WriteTrimmed(p) ==
  /\ pc[p] = "trim"
  /\ \/ file' = work /\ size' = TrimmedSize /\ Goto(p, "append") /\ UNCHANGED <<mu, msg>>
     \/ /\ "fail" \in Env
        /\ file' \in CutShort(work) /\ UNCHANGED size
        /\ Goto(p, "idle") /\ mu' = Nobody /\ msg' = [msg EXCEPT ![p] = Nobody]
  /\ work' = <<>>
  /\ UNCHANGED <<dropped, corrupt, next, clientVars, msgVars, wireVars>>

Appending(p) == pc[p] = "append" \/ (pc[p] = "add" /\ mu = Nobody /\ Fits(p))

(* The append.  A write that ends early leaves its bytes in the file. *)
AddAppend(p) ==
  LET m == msg[p] IN
  /\ Appending(p)
  /\ \E n \in {SizeOf[m]} \cup (IF "fail" \in Env THEN 0..(SizeOf[m] - 1) ELSE {}) :
       /\ file' = Written(file, m, n)
       /\ size' = size + n
       /\ accepted' = IF n = SizeOf[m] THEN Append(accepted, m) ELSE accepted
  /\ mu' = Nobody
  /\ Goto(p, "idle") /\ msg' = [msg EXCEPT ![p] = Nobody]
  /\ UNCHANGED <<dropped, corrupt, work, next, clientVars, fresh, discarded, hole, wireVars>>

--------------------------------------------------------------------------------
(* onConnect, drainSpool and Spool.Drain *)

(* Mutant: nobody resends. *)
onConnectSilent ==
  /\ running /\ ~link /\ connects < MaxConnects
  /\ link' = TRUE /\ connects' = connects + 1
  /\ UNCHANGED <<fileVars, lockVars, pc, msg, running, spawned, msgVars, wireVars>>

onConnect ==
  /\ running /\ ~link /\ connects < MaxConnects
  /\ link' = TRUE /\ connects' = connects + 1 /\ spawned' = spawned + 1
  /\ UNCHANGED <<fileVars, lockVars, pc, msg, running, msgVars, wireVars>>

onConnectionLost ==
  /\ link /\ link' = FALSE
  /\ UNCHANGED <<fileVars, lockVars, pc, msg, running, connects, spawned, msgVars, wireVars>>

(* drainMu.TryLock: a goroutine that finds a replay running returns. *)
DrainTry ==
  /\ spawned > 0
  /\ spawned' = spawned - 1
  /\ IF pc[Drainer] = "idle" THEN Goto(Drainer, "stats") ELSE UNCHANGED pc
  /\ UNCHANGED <<fileVars, lockVars, msg, running, link, connects, msgVars, wireVars>>

(* Stats, then the lock of Drain: what was waiting at the one is waiting   *)
(* at the other, since only a drain empties the file.                      *)
DrainOpen ==
  /\ pc[Drainer] = "stats" /\ mu = Nobody
  /\ IF size = 0
     THEN Goto(Drainer, "idle") /\ UNCHANGED <<mu, next>>
     ELSE Goto(Drainer, "scan") /\ mu' = Drainer /\ next' = 1
  /\ UNCHANGED <<fileVars, work, msg, clientVars, msgVars, wireVars>>

(* Where the scanner stops: at the end, or before a line it cannot hold. *)
ScanEnd == IF \E i \in DOMAIN file : TooLong(file[i])
           THEN (CHOOSE i \in DOMAIN file : TooLong(file[i]) /\ \A j \in 1..(i - 1) : ~TooLong(file[j])) - 1
           ELSE Len(file)

(* Mutant: the line that could not be sent is not kept. *)
NotYetSentSkipsOne == SubSeq(file, next + 1, ScanEnd)

(* On the first error the line and all that the scanner still reads stay. *)
NotYetSent == SubSeq(file, next, ScanEnd)

(* rewriteLocked ends every line. *)
Ended(lines) ==
  [i \in DOMAIN lines |-> IF lines[i].ended THEN lines[i]
                          ELSE [lines[i] EXCEPT !.bytes = @ + 1, !.ended = TRUE]]

(* One line of the scan: an unreadable one is counted and skipped, another *)
(* is sent.  On an error rewriteLocked truncates the file.                 *)
DrainLine ==
  LET line == file[next] IN
  /\ pc[Drainer] = "scan" /\ next <= ScanEnd
  /\ \/ /\ ~Readable(line)
        /\ corrupt' = corrupt + 1 /\ next' = next + 1
        /\ UNCHANGED <<file, work, pc, wireVars>>
     \/ /\ Readable(line) /\ Sent(line.msgs[1])
        /\ next' = next + 1
        /\ UNCHANGED <<file, corrupt, work, pc>>
     \/ /\ Readable(line) /\ SendError(line.msgs[1])
        /\ work' = Ended(NotYetSent) /\ file' = <<>>
        /\ Goto(Drainer, "rewrite")
        /\ UNCHANGED <<corrupt, next>>
  /\ UNCHANGED <<size, dropped, mu, msg, clientVars, msgVars>>

(* Everything the scanner read is sent: the file is removed. *)
DrainRemove ==
  /\ pc[Drainer] = "scan" /\ next > ScanEnd
  /\ \/ file' = <<>> /\ size' = 0
     \/ "keep" \in Env /\ UNCHANGED <<file, size>>
  /\ mu' = Nobody /\ next' = 0
  /\ Goto(Drainer, "idle")
  /\ UNCHANGED <<dropped, corrupt, work, msg, clientVars, msgVars, wireVars>>

DrainRewrite ==
  /\ pc[Drainer] = "rewrite"
  /\ \/ file' = work /\ size' = Bytes(work)
     \/ "fail" \in Env /\ file' \in CutShort(work) /\ UNCHANGED size
  /\ work' = <<>> /\ mu' = Nobody /\ next' = 0
  /\ Goto(Drainer, "idle")
  /\ UNCHANGED <<dropped, corrupt, msg, clientVars, msgVars, wireVars>>

--------------------------------------------------------------------------------
(* The process dies; the file stays as the last write left it. *)

Rewriting == \E g \in Goroutines : pc[g] \in {"trim", "rewrite"}

Crash ==
  /\ running /\ running' = FALSE
  /\ \/ "crash" \in Env /\ ~Rewriting /\ UNCHANGED file
     \/ "torn" \in Env /\ \E p \in Publishers : /\ Appending(p)
                                               /\ \E n \in 1..(SizeOf[msg[p]] - 1) : file' = Written(file, msg[p], n)
     \/ "cut" \in Env /\ Rewriting /\ file' \in CutShort(work)
  /\ size' = 0 /\ dropped' = 0 /\ corrupt' = 0
  /\ mu' = Nobody /\ work' = <<>> /\ next' = 0
  /\ pc' = [g \in Goroutines |-> "idle"] /\ msg' = [p \in Publishers |-> Nobody]
  /\ link' = FALSE /\ spawned' = 0 /\ inflight' = {} /\ hole' = {}
  /\ UNCHANGED <<connects, fresh, accepted, discarded, delivered>>

(* Mutant: a start does not look how long the file is. *)
ExistingSizeForgotten == 0

(* os.Stat of the file a start finds. *)
ExistingSize == Bytes(file)

(* NewSpool keeps an existing file. *)
NewSpool ==
  /\ ~running /\ running' = TRUE
  /\ size' = ExistingSize
  /\ UNCHANGED <<file, dropped, corrupt, lockVars, pc, msg, link, connects, spawned, msgVars, wireVars>>

--------------------------------------------------------------------------------
AddStep(p) == AddTooLarge(p) \/ dropOldestLocked(p) \/ WriteTrimmed(p) \/ AddAppend(p)

DrainStep == DrainTry \/ DrainOpen \/ DrainLine \/ DrainRemove \/ DrainRewrite

Next ==
  \/ \E p \in Publishers : (\E m \in Msgs : PublishWithQoS(p, m)) \/ AddStep(p)
  \/ \E m \in Msgs : SendLate(m)
  \/ onConnect \/ onConnectionLost
  \/ DrainStep
  \/ Crash \/ NewSpool

Spec == Init /\ [][Next]_vars

(* Every goroutine that can run does, and no critical section lasts: the   *)
(* holder of mu waits for the disk and for publishes that time out.        *)
FairSpec == Spec /\ WF_vars(DrainStep) /\ \A p \in Publishers : WF_vars(AddStep(p))

--------------------------------------------------------------------------------
(* Properties *)

OnDisk == ReadableMsgs(file) \cup ReadableMsgs(work)

(* PublishWithQoS: "the message has been accepted for delivery" - a        *)
(* message Add took is on disk, where the replay can read it, until the    *)
(* broker or paho has it, or until dropOldestLocked cut it off.            *)
NoSilentLoss ==
  ToSet(accepted) \subseteq OnDisk \cup ToSet(delivered) \cup inflight \cup discarded

(* dropped "is the size of the hole that will remain in the history", as   *)
(* far as this run of the process made it.                                 *)
HoleIsDeclared == Cardinality(hole) <= dropped

(* Spool: "write order is replay order" - what is on disk is in the order  *)
(* it was accepted in, and younger than everything cut off.                *)
ReplayInOrder ==
  LET lines == file \o work
      Pos(m) == CHOOSE i \in DOMAIN accepted : accepted[i] = m
      Waiting == {i \in DOMAIN lines : Readable(lines[i]) /\ lines[i].msgs[1] \in ToSet(accepted)}
  IN  /\ \A i, j \in Waiting : i < j => Pos(lines[i].msgs[1]) < Pos(lines[j].msgs[1])
      /\ \A i \in Waiting, m \in discarded \cap ToSet(accepted) : Pos(m) < Pos(lines[i].msgs[1])

(* The file stays under its ceiling, whatever the writes left of it, and   *)
(* size never says less than is there: a file that size calls empty is not *)
(* drained.                                                                *)
UnderCeiling ==
  /\ Bytes(file) <= MaxBytes
  /\ running /\ mu = Nobody => Bytes(file) <= size

(* The messages on disk, or in the hands of the one who rewrites the file; *)
(* how far the replay is; what the publishers have still to put on disk.   *)
MsgsOf(lines) == [i \in DOMAIN lines |-> lines[i].msgs[1]]
Queued        == MsgsOf(file \o work)
Resent        == IF pc[Drainer] = "scan" THEN next - 1 ELSE 0
Held          == {msg[p] : p \in {q \in Publishers : pc[q] # "idle"}}

Box == INSTANCE Outbox WITH queue <- Queued, sent <- Resent, hand <- Held, kept <- inflight

(* Spool: a file that survives the process, whose "write order is replay   *)
(* order", and past whose ceiling "the oldest records are dropped", each   *)
(* counted.  So trims, rewrites and replays that are cut short leave the   *)
(* messages that Outbox says, in its order, whatever publishers do then.   *)
ActsAsOutbox == Box!Spec

(* onConnect, drainSpool: what is on disk while no replay is under way goes *)
(* out on the next connection, if that one stays (MaxConnects bounds their *)
(* number, so it is the last) - whatever torn lines, failed rewrites,      *)
(* interrupted replays and restarts left of the file, and whatever the     *)
(* publishers append meanwhile.  PublishWithQoS promises more: a message   *)
(* put on disk "goes out on reconnect".  With the replay of the connection *)
(* before still under way TryLock sends the new one away, and it stays.    *)
NoReplay == pc[Drainer] = "idle" /\ spawned = 0

GoesOutOnReconnect ==
  <>[]link =>
    \A m \in Msgs : (m \in OnDisk /\ ~link /\ NoReplay /\ connects = MaxConnects - 1) ~> (m \notin OnDisk)
================================================================================
