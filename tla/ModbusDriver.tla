---------------------------- MODULE ModbusDriver ----------------------------
(***************************************************************************)
(* services/driver-modbus: the poll loop, the goroutines that execute write*)
(* commands, and the maps they share.  A tag is a register of its own or,  *)
(* with setup.bits, a bit of the one register that holds all of them.      *)
(*                                                                         *)
(* A step is a critical section of one of the driver's mutexes or of the   *)
(* Modbus client's, or a publish.  A client that was closed stays closed:  *)
(* the poll loop makes another one, and a writer that holds the old one    *)
(* gets an error.                                                          *)
(* A publish that is skipped or fails is only logged: what the driver      *)
(* remembers of a tag goes on as if it had been sent.                      *)
(*                                                                         *)
(* What a reading does elsewhere (alarms, Sparkplug, health reports) is in *)
(* AlarmManager, SparkplugNode and GatewayWatch.  Left out: the deadband of*)
(* floating point tags, clocks that disagree, and the commands and types   *)
(* that are refused by their form alone.                                   *)
(***************************************************************************)
EXTENDS Integers, Sequences, SequencesExt, FiniteSets

CONSTANTS
  Tags,
  Writers,     \* how many executeWrite goroutines run at once
  Setups,      \* deployments: [enabled, bits, known, layouts, heartbeat, env, loads, node], and bounds
               \* on inputs (commands, changes of the device) and troubles (outages,
               \* refused or lost calls, lost publishes, delays, reloads)
  MaxAge,      \* write_command_max_age_seconds, in ticks
  AddrSpace,   \* 65536 in the code: offsets are uint16
  MaxGap,      \* 5 in the code
  MaxCount     \* 120 in the code

\* A layout is a set of tags with their registers.  ParseAddress gives no offset
\* above 29999, a type has at most four registers: no tag reaches the last address.
Layout(lay) ==
  /\ DOMAIN lay \subseteq Tags
  /\ \A t \in DOMAIN lay :
       /\ lay[t].kind \in Int /\ lay[t].off \in Nat
       /\ lay[t].size \in 1..MaxCount /\ lay[t].off + lay[t].size < AddrSpace

ASSUME DriverAssumption ==
  /\ MaxAge \in Nat /\ AddrSpace \in Nat \ {0} /\ MaxGap \in Nat /\ MaxCount \in Nat
  /\ Writers \in Nat /\ IsFiniteSet(Tags)
  /\ \A s \in Setups : /\ s.bits \in BOOLEAN /\ s.heartbeat \in {"always", "timer", "never"}
                        /\ \A lay \in s.layouts : Layout(lay)

Values == {0, 1}
Good == 0
Bad == 2

VARIABLES
  setup,
  config,     \* enabled, usable (NewClientFromConfig makes a client of the connection_config),
              \* layout (the tags and their addresses), blocks
  plc, alive, \* the device: what its registers hold, does it answer
  client,     \* is modbusClient connected
  prev,       \* previousValues and previousQualities
  cool,       \* writeCooldowns: "none", "running" or "over"
  due,        \* has the heartbeat of the settings manager run out
  shown,      \* what was published last and went out
  poll,       \* where the loop is: pc, blocks to read, tags to judge, what it read
  writer,     \* the executeWrite goroutines
  reloadDue,  \* reloadChan
  cmds,       \* cmd/write on its way to the driver
  acks,       \* cmd/write/result on its way to core-api
  inputs, troubles,
  last,       \* what a tag was set to last, by a command or by the device (history)
  clash,      \* tags set while a writer held a copy of their register (history)
  calm        \* nothing has disturbed the poll since it began (history)

driverVars == <<config, client, prev, cool, due, shown, poll, reloadDue>>
deviceVars == <<plc, alive, last, clash>>
busVars == <<cmds, acks>>
boundVars == <<inputs, troubles>>
pathVars == <<setup, driverVars, deviceVars, writer, busVars, boundVars, calm>>

NoReading == [v |-> 0, type |-> "nil", q |-> Good]
NoCopy == [t \in Tags |-> 0]
Idle == [pc |-> "idle"]
Free == [pc |-> "free", live |-> FALSE]

Can(e) == e \in setup.env
Writing == {"write", "scada", "external", "load"}
\* What publishing "on change" alone does not get over.
Unrepaired == Writing \cup {"unsent"}
Spend == troubles < setup.troubles /\ troubles' = troubles + 1
Input == inputs < setup.inputs /\ inputs' = inputs + 1

\* The tags of the gateway; the driver may not have loaded all of them yet.
Known == setup.known

\* The tags whose value changes with a write of this one's register.
Register(t) == IF setup.bits THEN Tags ELSE {t}

\* The Go type of a value decides whether two of them compare equal: what is
\* read, what comes out of a command, what a recipe sends (a string).
ReadType == IF setup.bits THEN "bool" ELSE "int16"
JsonType == IF setup.bits THEN "bool" ELSE "float64"

-----------------------------------------------------------------------------
(* createBlocks: neighbours of one kind are read together. *)

Minus(a, b) == (a - b) % AddrSpace

NewBlock(lay, t) ==
  [kind |-> lay[t].kind, start |-> lay[t].off, end |-> (lay[t].off + lay[t].size) % AddrSpace, tags |-> <<t>>]

(* Mutant: the limit forgets the tag's own size. *)
JoinsByStart(b, a) ==
  a.kind = b.kind /\ Minus(a.off, b.end) <= MaxGap /\ Minus(a.off, b.start) <= MaxCount

Joins(b, a) ==
  /\ a.kind = b.kind
  /\ Minus(a.off, b.end) <= MaxGap
  /\ Minus(a.off + a.size, b.start) <= MaxCount

Extended(lay, bs, t) ==
  LET b == Last(bs)
      end == (lay[t].off + lay[t].size) % AddrSpace
  IN  IF bs # <<>> /\ Joins(b, lay[t])
      THEN Append(Front(bs), [b EXCEPT !.tags = Append(@, t), !.end = IF end > @ THEN end ELSE @])
      ELSE Append(bs, NewBlock(lay, t))

Before(lay, t, u) ==
  \/ lay[t].kind < lay[u].kind
  \/ lay[t].kind = lay[u].kind /\ lay[t].off < lay[u].off

\* What sort.Slice can make of a layout: tags of one address come in any order.
Sorted(lay) ==
  {s \in SetToSeqs(DOMAIN lay) : \A i, j \in DOMAIN s : i < j => ~Before(lay, s[j], s[i])}

\* The blocks of the first k tags, for every k.
BlocksOf(lay, s) ==
  LET made[k \in 0..Len(s)] == IF k = 0 THEN <<>> ELSE Extended(lay, made[k - 1], s[k])
  IN  made[Len(s)]

\* Addresses that cannot be parsed are in no layout.
createBlocks(lay) == {BlocksOf(lay, s) : s \in Sorted(lay)}

Count(b) == Minus(b.end, b.start)

-----------------------------------------------------------------------------
(* Report by exception. *)

Same(a, b) == a.v = b.v /\ a.type = b.type

(* Mutant: the quality is not compared. *)
PublishOnValue(t, r) ==
  ~Same(r, prev[t]) \/ setup.heartbeat = "always" \/ (setup.heartbeat = "timer" /\ due[t])

shouldPublish(t, r) ==
  \/ r.q # prev[t].q
  \/ ~Same(r, prev[t])
  \/ setup.heartbeat = "always"
  \/ setup.heartbeat = "timer" /\ due[t]

\* publishDual returns nothing: no Sparkplug client, a broker that is away or a full
\* spool, and the value is not shown.
publishDual(t, v, q) ==
  \/ shown' = [shown EXCEPT ![t] = [v |-> v, q |-> q]] /\ UNCHANGED troubles
  \/ Can("unsent") /\ Spend /\ UNCHANGED shown

\* publishDual behind shouldPublish, which starts the heartbeat again beforehand.
Reported(t, r) ==
  IF shouldPublish(t, r)
  THEN publishDual(t, r.v, r.q) /\ due' = [due EXCEPT ![t] = FALSE]
  ELSE UNCHANGED <<shown, due, troubles>>

HeartbeatElapses(t) ==
  /\ setup.heartbeat = "timer" /\ t \in DOMAIN config.layout /\ ~due[t]
  /\ due' = [due EXCEPT ![t] = TRUE]
  /\ UNCHANGED <<setup, config, client, prev, cool, shown, poll, reloadDue, deviceVars,
                 writer, busVars, boundVars>>

CooldownEnds(t) ==
  /\ cool[t] = "running" /\ t \in DOMAIN config.layout
  /\ cool' = [cool EXCEPT ![t] = "over"]
  /\ UNCHANGED <<setup, config, client, prev, due, shown, poll, reloadDue, deviceVars,
                 writer, busVars, boundVars>>

-----------------------------------------------------------------------------
(* poll *)

OfPoll == <<setup, config, reloadDue, deviceVars, busVars, inputs>>

Closed == [w \in 1..Writers |-> [writer[w] EXCEPT !.live = FALSE]]

\* What comes after a tag, after a block, after the last one.
AfterTag(p) == IF Tail(p.tags) = <<>>
               THEN IF p.todo = <<>> THEN Idle ELSE [pc |-> "read", todo |-> p.todo]
               ELSE [p EXCEPT !.tags = Tail(@)]

Judging(pc, block, rest, data) == [pc |-> pc, todo |-> rest, tags |-> block, data |-> data]

AllTags(bs) == FlattenSeq([i \in 1..Len(bs) |-> bs[i].tags])

PollBegin ==
  /\ poll.pc = "idle" /\ config.enabled
  /\ IF client THEN config.blocks # <<>> /\ poll' = [pc |-> "read", todo |-> config.blocks]
               ELSE poll' = [pc |-> "connect"]
  /\ UNCHANGED <<OfPoll, client, prev, cool, due, shown, writer, troubles>>

\* NewClientFromConfig: a connection_config it refuses ends the poll, and no tag is
\* marked bad.  ConnectWithRetry and setConnectionState.
PollConnect ==
  /\ poll.pc = "connect"
  /\ IF ~config.usable
     THEN UNCHANGED client /\ poll' = Idle
     ELSE IF alive
     THEN /\ client' = TRUE
          /\ poll' = IF config.blocks = <<>> THEN Idle ELSE [pc |-> "read", todo |-> config.blocks]
     ELSE /\ UNCHANGED client
          /\ poll' = IF config.blocks = <<>> THEN Idle ELSE Judging("bad", AllTags(config.blocks), <<>>, NoCopy)
  /\ UNCHANGED <<OfPoll, prev, cool, due, shown, writer, troubles>>

\* readBlock asks the device.  An exception response keeps the connection, every
\* other error closes it; the blocks behind it then fail as well.
PollRead ==
  /\ poll.pc = "read"
  /\ LET b == Head(poll.todo).tags
         rest == Tail(poll.todo)
     IN  \/ /\ client /\ alive
            /\ poll' = Judging("check", b, rest, [t \in Tags |-> IF t \in ToSet(b) THEN plc[t] ELSE 0])
            /\ UNCHANGED <<client, writer, troubles>>
         \/ /\ client /\ alive /\ Can("exception") /\ Spend
            /\ poll' = Judging("bad", b, rest, NoCopy)
            /\ UNCHANGED <<client, writer>>
         \/ /\ ~(client /\ alive)
            /\ client' = FALSE /\ writer' = Closed
            /\ poll' = Judging("bad", b, rest, NoCopy)
            /\ UNCHANGED troubles
  /\ UNCHANGED <<OfPoll, prev, cool, due, shown>>

Reading(t) == [v |-> poll.data[t], type |-> ReadType, q |-> Good]

\* The cooldown after a write: what the device says counts when it is what was
\* written, or when the time is over.
PollCheck ==
  /\ poll.pc = "check"
  /\ LET t == Head(poll.tags)
     IN  poll' = IF cool[t] = "none" THEN [poll EXCEPT !.pc = "publish"]
                 ELSE IF cool[t] = "over" \/ Same(Reading(t), prev[t]) THEN [poll EXCEPT !.pc = "confirm"]
                 ELSE AfterTag(poll)
  /\ UNCHANGED <<OfPoll, client, prev, cool, due, shown, writer, troubles>>

PollConfirm ==
  /\ poll.pc = "confirm"
  /\ cool' = [cool EXCEPT ![Head(poll.tags)] = "none"]
  /\ poll' = [poll EXCEPT !.pc = "publish"]
  /\ UNCHANGED <<OfPoll, client, prev, due, shown, writer, troubles>>

PollPublish ==
  /\ poll.pc = "publish"
  /\ LET t == Head(poll.tags)
     IN  /\ Reported(t, Reading(t))
         /\ poll' = IF shouldPublish(t, Reading(t)) THEN [poll EXCEPT !.pc = "state"]
                    ELSE AfterTag([poll EXCEPT !.pc = "check"])
  /\ UNCHANGED <<OfPoll, client, prev, cool, writer>>

\* updateState
PollState ==
  /\ poll.pc = "state"
  /\ prev' = [prev EXCEPT ![Head(poll.tags)] = Reading(Head(poll.tags))]
  /\ poll' = AfterTag([poll EXCEPT !.pc = "check"])
  /\ UNCHANGED <<OfPoll, client, cool, due, shown, writer, troubles>>

\* publishBadQualityForBlocks: the last value, marked bad ...
LastKnown(t) ==
  IF prev[t].type = "nil" THEN [v |-> 0, type |-> "int", q |-> Bad] ELSE [prev[t] EXCEPT !.q = Bad]

PollBad ==
  /\ poll.pc = "bad"
  /\ LET t == Head(poll.tags)
     IN  /\ Reported(t, LastKnown(t))
         /\ poll' = Judging("badstate", poll.tags, poll.todo, [poll.data EXCEPT ![t] = LastKnown(t)])
  /\ UNCHANGED <<OfPoll, client, prev, cool, writer>>

\* ... and remembered.
PollBadState ==
  /\ poll.pc = "badstate"
  /\ LET t == Head(poll.tags)
     IN  /\ prev' = [prev EXCEPT ![t] = poll.data[t]]
         /\ poll' = AfterTag([poll EXCEPT !.pc = "bad", !.data[t] = 0])
  /\ UNCHANGED <<OfPoll, client, cool, due, shown, writer, troubles>>

Poll == \/ PollBegin \/ PollConnect \/ PollRead \/ PollCheck \/ PollConfirm \/ PollPublish \/ PollState
        \/ PollBad \/ PollBadState

-----------------------------------------------------------------------------
(* The configuration. *)

\* handleReloadCommand, handleHealthMessage: a signal already there is enough.
RequestReload ==
  /\ Can("reload") /\ Spend
  /\ reloadDue' = TRUE
  /\ UNCHANGED <<setup, config, client, prev, cool, due, shown, poll, deviceVars, writer, busVars, inputs>>

Usable == {u \in BOOLEAN : u \/ Can("unusable")}

\* loadConfig, in the goroutine that polls: another set of tags, the gateway
\* switched off or on, another connection; an error keeps what was there.  The
\* client goes with the host, port or unit it has: a connection_config can become
\* unusable (no "ip", a transport nobody knows) and its client stay.
LoadConfig ==
  /\ poll.pc = "idle" /\ reloadDue
  /\ reloadDue' = FALSE
  /\ \/ /\ \E lay \in setup.layouts, on \in BOOLEAN, u \in Usable :
             \E bs \in createBlocks(lay) : config' = [enabled |-> on, usable |-> u, layout |-> lay, blocks |-> bs]
        /\ \/ client' = FALSE /\ writer' = Closed
           \/ UNCHANGED <<client, writer>>
     \/ UNCHANGED <<config, client, writer>>
  /\ UNCHANGED <<setup, prev, cool, due, shown, poll, deviceVars, busVars, boundVars>>

-----------------------------------------------------------------------------
(* Write commands. *)

\* publishWriteResult; a result is kept where a recipe can wait for it.
Told(cmd, ok) ==
  acks' = IF Can("load") THEN Append(acks, [tag |-> cmd.tag, ok |-> ok, by |-> cmd.by]) ELSE acks

\* Fresh: a command without a stamp is accepted whatever its age.
Fresh(cmd) == cmd.stamped => cmd.age <= MaxAge

\* handleLegacyWriteCommand and handleSparkplugDCMD make an unstamped command, for
\* a tag they find in the configuration, and pass it on to handleWriteCommand.
FindsTag(cmd) == cmd.stamped \/ cmd.tag \in DOMAIN config.layout

HandleWriteCommand ==
  /\ cmds # <<>>
  /\ cmds' = Tail(cmds)
  /\ LET cmd == Head(cmds)
     IN  IF ~FindsTag(cmd) THEN UNCHANGED <<acks, writer>>
         ELSE IF Fresh(cmd)
         THEN \E w \in 1..Writers :
                /\ writer[w].pc = "free" /\ \A u \in 1..(w - 1) : writer[u].pc # "free"
                /\ writer' = [writer EXCEPT ![w] = [pc |-> "begin", cmd |-> cmd, live |-> FALSE, copy |-> NoCopy]]
                /\ UNCHANGED acks
         ELSE Told(cmd, FALSE) /\ UNCHANGED writer
  /\ UNCHANGED <<setup, driverVars, deviceVars, boundVars>>

\* publishWriteResult of a failure ends executeWrite.
WriteFails(w) ==
  /\ Told(writer[w].cmd, FALSE)
  /\ writer' = [writer EXCEPT ![w] = Free]

\* The client as it is now; a bit of a register is written by read-modify-write.
WriteBegin(w) ==
  /\ writer[w].pc = "begin"
  /\ IF client
     THEN /\ writer' = [writer EXCEPT ![w].pc = IF setup.bits THEN "copy" ELSE "write", ![w].live = TRUE]
          /\ UNCHANGED acks
     ELSE WriteFails(w)
  /\ UNCHANGED <<setup, driverVars, deviceVars, cmds, boundVars>>

WriteCopy(w) ==
  /\ writer[w].pc = "copy"
  /\ IF writer[w].live /\ alive
     THEN writer' = [writer EXCEPT ![w].pc = "write", ![w].copy = plc] /\ UNCHANGED acks
     ELSE WriteFails(w)
  /\ UNCHANGED <<setup, driverVars, deviceVars, cmds, boundVars>>

(* Mutant: the other bits of the register are cleared. *)
NewRegisterAlone(w, t) == IF t = writer[w].cmd.tag THEN writer[w].cmd.v ELSE 0

\* writeBool: one bit of the copy set or cleared.
NewRegister(w, t) == IF t = writer[w].cmd.tag THEN writer[w].cmd.v ELSE writer[w].copy[t]

\* The device takes the value.
Takes(w) ==
  LET t == writer[w].cmd.tag
  IN  /\ plc' = [u \in Tags |-> IF u \in Register(t) THEN NewRegister(w, u) ELSE plc[u]]
      /\ last' = [last EXCEPT ![t] = writer[w].cmd.v]
      /\ clash' = IF \E o \in 1..Writers : o # w /\ writer[o].pc = "write" /\ setup.bits
                  THEN clash \cup Register(t) ELSE clash

WriteRegister(w) ==
  /\ writer[w].pc = "write"
  /\ \/ /\ writer[w].live /\ alive
        /\ Takes(w)
        /\ Told(writer[w].cmd, TRUE)
        /\ writer' = [writer EXCEPT ![w].pc = "state"]
        /\ UNCHANGED troubles
     \/ /\ writer[w].live /\ alive /\ Can("lost") /\ Spend
        /\ Takes(w)
        /\ WriteFails(w)
     \/ /\ IF writer[w].live /\ alive THEN Can("fail") /\ Spend ELSE UNCHANGED troubles
        /\ WriteFails(w)
        /\ UNCHANGED <<plc, last, clash>>
  /\ UNCHANGED <<setup, driverVars, alive, cmds, inputs>>

\* updateState
WriteState(w) ==
  /\ writer[w].pc = "state"
  /\ prev' = [prev EXCEPT ![writer[w].cmd.tag] = [v |-> writer[w].cmd.v, type |-> writer[w].cmd.type, q |-> Good]]
  /\ writer' = [writer EXCEPT ![w].pc = "cool"]
  /\ UNCHANGED <<setup, config, client, cool, due, shown, poll, reloadDue, deviceVars, busVars, boundVars>>

WriteCooldown(w) ==
  /\ writer[w].pc = "cool"
  /\ cool' = [cool EXCEPT ![writer[w].cmd.tag] = "running"]
  /\ writer' = [writer EXCEPT ![w].pc = "feedback"]
  /\ UNCHANGED <<setup, config, client, prev, due, shown, poll, reloadDue, deviceVars, busVars, boundVars>>

\* The feedback at once, if the tag is still configured.
WriteFeedback(w) ==
  /\ writer[w].pc = "feedback"
  /\ LET cmd == writer[w].cmd
     IN  IF cmd.tag \in DOMAIN config.layout
         THEN publishDual(cmd.tag, cmd.v, Good) ELSE UNCHANGED <<shown, troubles>>
  /\ writer' = [writer EXCEPT ![w] = Free]
  /\ UNCHANGED <<setup, config, client, prev, cool, due, poll, reloadDue, deviceVars, busVars, inputs>>

ExecuteWrite(w) ==
  WriteBegin(w) \/ WriteCopy(w) \/ WriteRegister(w) \/ WriteState(w) \/ WriteCooldown(w) \/ WriteFeedback(w)

-----------------------------------------------------------------------------
(* The device and the link. *)

DeviceChanges(t) ==
  /\ Can("device") /\ alive /\ t \in Known /\ Input
  /\ plc' = [plc EXCEPT ![t] = 1 - @]
  /\ last' = [last EXCEPT ![t] = 1 - plc[t]]
  /\ clash' = IF \E w \in 1..Writers : writer[w].pc = "write" /\ setup.bits THEN clash \cup Register(t) ELSE clash
  /\ UNCHANGED <<setup, driverVars, alive, writer, busVars, troubles>>

DeviceDown ==
  /\ Can("outage") /\ alive /\ Spend
  /\ alive' = FALSE
  /\ UNCHANGED <<setup, driverVars, plc, last, clash, writer, busVars, inputs>>

DeviceUp ==
  /\ ~alive /\ alive' = TRUE
  /\ UNCHANGED <<setup, driverVars, plc, last, clash, writer, busVars, boundVars>>

\* A SCADA system writes on the legacy topic or sends a DCMD: no stamp.
ScadaWrite(t, v) ==
  /\ Can("scada") /\ Input /\ t \in Known
  /\ cmds' = Append(cmds, [tag |-> t, v |-> v, type |-> JsonType, stamped |-> FALSE, age |-> 0, by |-> "scada"])
  /\ UNCHANGED <<setup, driverVars, deviceVars, writer, acks, troubles>>

\* The bridge of an edge box holds commands back.
LinkDelays ==
  /\ Can("delay") /\ cmds # <<>> /\ Spend
  /\ cmds' = [i \in 1..Len(cmds) |-> [cmds[i] EXCEPT !.age = @ + 1]]
  /\ UNCHANGED <<setup, driverVars, deviceVars, writer, acks, inputs>>

\* QoS 0: a command sent while the driver is away is gone.
CommandLost ==
  /\ Can("gone") /\ cmds # <<>> /\ Spend
  /\ cmds' = Tail(cmds)
  /\ UNCHANGED <<setup, driverVars, deviceVars, writer, acks, inputs>>

DriverInit ==
  /\ setup \in Setups
  /\ \E lay \in setup.layouts, u \in Usable : \E bs \in createBlocks(lay) :
       config = [enabled |-> setup.enabled, usable |-> u, layout |-> lay, blocks |-> bs]
  /\ plc = [t \in Tags |-> 0] /\ alive = TRUE /\ client = FALSE
  /\ prev = [t \in Tags |-> NoReading] /\ cool = [t \in Tags |-> "none"]
  /\ due = [t \in Tags |-> TRUE] /\ shown = [t \in Tags |-> [v |-> 0, q |-> Bad]]
  /\ poll = Idle /\ writer = [w \in 1..Writers |-> Free]
  /\ reloadDue = FALSE /\ cmds = <<>> /\ acks = <<>>
  /\ inputs = 0 /\ troubles = 0 /\ last = plc /\ clash = {} /\ calm = FALSE

\* A poll that begins when no write is under way, no cooldown runs and the
\* heartbeat of every tag is due.  A trouble of its own ends the calm.
AtRest ==
  /\ \A w \in 1..Writers : writer[w] = Free
  /\ \A t \in DOMAIN config.layout : cool[t] # "running" /\ (setup.heartbeat = "timer" => due[t])

DriverNext ==
  \/ Poll /\ calm' = IF poll = Idle THEN AtRest ELSE calm /\ troubles' = troubles
  \/ /\ \/ \E t \in Tags : HeartbeatElapses(t) \/ CooldownEnds(t)
        \/ \E t \in Tags, v \in Values : ScadaWrite(t, v)
        \/ RequestReload \/ LinkDelays \/ CommandLost
     /\ UNCHANGED calm
  \/ /\ \/ LoadConfig \/ HandleWriteCommand
        \/ \E w \in 1..Writers : ExecuteWrite(w)
        \/ \E t \in Tags : DeviceChanges(t)
        \/ DeviceDown \/ DeviceUp
     /\ calm' = FALSE

-----------------------------------------------------------------------------
\* createBlocks: every tag is in one block, all of its registers are among those
\* the block asks for, and no request is longer than the limit.
BlocksCover ==
  LET bs == config.blocks
      lay == config.layout
  IN  /\ \A t \in DOMAIN lay : \E i \in 1..Len(bs) :
             /\ t \in ToSet(bs[i].tags) /\ bs[i].kind = lay[t].kind
             /\ Minus(lay[t].off, bs[i].start) + lay[t].size <= Count(bs[i])
             /\ \A j \in 1..Len(bs) : t \in ToSet(bs[j].tags) => i = j
      /\ \A i \in 1..Len(bs) : Count(bs[i]) <= MaxCount

\* The device holds what was written last: a bit is not lost with a write of
\* another one, unless the read-modify-writes of a register overlap.
WritesStayApart == \A t \in Tags : t \notin clash => plc[t] = last[t]

\* One undisturbed poll repairs what is shown: whatever feedback, cooldown,
\* overlapping polls and lost publishes made of it before, afterwards every tag shows
\* what the device holds, or bad quality if it does not answer.  That takes a
\* connection_config a client can be made from; with publishing "on change" alone it
\* is so as long as nobody writes and no publish is lost.
ShownAfterPoll ==
  calm /\ poll = Idle /\ config.enabled /\ config.usable
       /\ (setup.heartbeat = "never" => setup.env \cap Unrepaired = {}) =>
    \A t \in DOMAIN config.layout :
      IF alive THEN shown[t] = [v |-> plc[t], q |-> Good] ELSE shown[t].q = Bad
=============================================================================
