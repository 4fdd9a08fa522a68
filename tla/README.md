# Formal verification of OpenEdge

OpenEdge is an industrial IoT middleware: drivers poll or receive the tags of
field devices, judge them against alarm rules and publish everything over MQTT;
a historian stores the samples; core-api serves the plant's operators; a driver
manager runs one driver container per gateway, on the server and on edge boxes.
This directory holds TLA+ models of its core, the TLC configurations that check
them, and proofs checked by TLAPS.

    tlc -workers 2 -config alarm_faults.cfg MCAlarmManager   # one run
    tlapm FleetProofs.tla                                    # the proofs of one module

`DriverProofs` takes about eight minutes, `AlarmManagerProofs` and `TelemetryProofs`
about five each, `MqttSpoolProofs` four, the other four a minute or less.

`PROJECT.json` lists the runs, maps every definition to the lines it models,
gives for every property a mutation of the model that breaks it, and lists the
hazards the properties are aimed at.

## 1. Inventory

| Component | State | Operations | Talks to | What makes it correct |
|---|---|---|---|---|
| Alarm engine, `internal/alarms` | rules, tracks, health samples, I/O queue, `ioDraining` | evaluate a reading or a batch, tick, reload, drain, start | `alarm_events`, MQTT callback | one drainer; nothing stranded; every occurrence told once, in order; one open row per alarm; no open row without somebody to close it |
| Disk spool and publishing, `internal/mqtt` | file, size, counters, connection | publish, Add, Drain, connect, lose connection | broker, every driver | accepted means delivered, on disk or declared lost; write order is replay order; the ceiling holds; what waits goes out |
| core-api alarm handler | `alarm_events` | handle an event | drivers over MQTT, notification channels | converges with the driver and the sweep |
| comm_loss sweep | none (database) | open and close rows from history | historian, alarm engine | a silent tag ends up with a row, one that sends with none |
| Alarm HTTP handlers | `alarm_definitions`, `alarm_events` | save rules, acknowledge, delete history | drivers (reload command) | a saved rule leaves no open event of the old one |
| Historian, `services/engine-historian` | deadband baseline, realtime cache, history | store a sample, mark tags offline, forward to the cloud | MQTT, Redis, PostgreSQL, core-api | every sample recorded, represented or lost, and lost unsaid only in a Sparkplug message; no copies; the newest value wins |
| Sparkplug B node, `internal/sparkplug` | sequence and bdSeq numbers, birth flag | births, data, deaths | host applications, spool | births before data; a gap for each lost message and no other; deaths that match |
| Modbus driver, `services/driver-modbus` | configuration and blocks, last values, cooldowns, Modbus client | poll, write, reload, report by exception | device, settings, core-api | every tag is read; what is shown is what the device holds; a write changes its tag and no other |
| Write commands and recipes, `internal/handlers/recipes.go` | waiters per tag, results of a load | load a recipe, take a result, give up | drivers over MQTT | a load is told what became of its own writes |
| Driver manager and edge sync | containers, retry counters, assignments, mirrors | start, stop, adopt, OTA, hand over, apply | Docker, database, platform | who owns a gateway polls it, and nobody else does |
| Gateway watcher, `internal/gatewayhealth` | last status, what was announced | handle a report, scan, record, announce | drivers, notifications | what is recorded settles on the truth; each outage said once |
| Database watcher, `internal/dbhealth` | snapshot, open problems | look, evaluate, announce | PostgreSQL, notifications | nothing is called over while it lasts |
| Notifications, `internal/notifications` | settings, limiter | dispatch, reload | mail, chat, paging | the rate holds; no filter changes by accident |
| InfluxDB connector, `internal/connectors` | bounded buffer | write, flush, requeue, reload | InfluxDB | every point goes out; the cap drops the oldest |
| Everything else | - | HTTP CRUD, authentication, field protocols, forecasting, web interface | - | request-scoped or pure; see `components` in `PROJECT.json` |

The hard behaviours: goroutines that share `Manager.mu` and hand work to
whichever of them drains; statements that fail, or succeed with their answer
lost; retries of what was already announced; a process that dies between a row
and the track that would close it; rules replaced under running alarms; a file
rewritten while the connection comes and goes; publishes that time out and
arrive anyway; processes that write one table or one Redis key without a lock;
a read lock under which numbers are handed out; an assignment that reaches two
hosts at different times; and flushes of one buffer that overlap.

## 2. Modules

| Module | Models |
|---|---|
| `AlarmEvents` | the `alarm_events` table and the statements run on it |
| `AlarmManager` | the alarm engine of one driver, its database and its operators |
| `AlarmPipeline` | `AlarmManager` with core-api's `handleAlarmEvent` and comm_loss sweep on the same table |
| `Outbox` | abstract: what the spool promises of the messages it is given |
| `MqttSpool` | `Client.PublishWithQoS`, reconnection, and the spool; implements `Outbox` where writes finish |
| `SampleLog` | abstract: what the historian owes every sample |
| `Telemetry` | historian and core-api's live data; implements `SampleLog` |
| `SparkplugNode` | the Sparkplug client of a driver, its two callers and a host |
| `ModbusDriver` | the poll loop, the writers and the device of one Modbus gateway |
| `Recipes` | core-api's side of a write: single commands, recipes, results |
| `Driver` | `SparkplugNode` with `ModbusDriver` and `Recipes`, as one driver |
| `Notifier`, `GatewayWatch`, `DbWatch` | the dispatcher and the two watchers |
| `Watch` | the three together, as goroutines of one core-api |
| `Fleet` | assignments, boxes, driver managers and their containers |
| `InfluxBuffer` | the InfluxDB connector |
| `MC...` | instances for TLC |
| `...Proofs` | theorems about `AlarmManager`, `MqttSpool`, `Telemetry`, `SparkplugNode`, `Watch`, `Fleet`, `InfluxBuffer`, and, in `DriverProofs`, about `ModbusDriver` and `Recipes` |

Every module says in its header what a step is and what is left out. In all of
them a step is one critical section, one statement or one call whose result
another process can change, and which faults happen is a constant (`Env`) or
part of the initial state (`Plans`, `Setups`: several deployments in one run, each with
its own faults, so that their state spaces add up instead of multiplying).

### AlarmManager

The state is the struct `Manager` and what it points to: `definitions`,
`activeTracks` (`tracks`, one per rule), `samples` and their `anchors`,
`pendingIO`, `ioDraining`. An `eventRef` pointer is an element of `Refs` whose
`id` field is `ids[r]`; it is allocated with a track and shared with the queued
actions, as in the code. `rows`, `dbDefs` and `reload` are outside of the
process and survive its death. `published` records the `OnAlarmEvent` calls.

| Action | Code |
|---|---|
| `evaluateAt` | `EvaluateTag`, `EvaluateTagAt`, `EvaluateThresholdsAt` |
| `SeriesBegin`, `SeriesPoint`, `SeriesEnd` | `EvaluateTagSeries`, `seriesStep`; the lock is held throughout |
| `tickDelays` | one tick: delays, insert retries, `tickHealth`, `applyHealth` |
| `LoadQuery`, `LoadApply` | `LoadDefinitions`: the query, then the exchange under the lock with `pruneHealthState` |
| `DrainBusy`, `DrainTake`, `DrainDone` | `drainIO`'s early return, its loop, its exit |
| `PersistActive`, `PersistCleared`, `Notify` | `executeIO` and the statements of `sqlStore` |
| `Crash`, `NewManager` | death of the process; start, with `loadActiveAlarmsFromDB` |
| `SaveTagAlarmConfig`, `AcknowledgeAlarm` | the HTTP handlers |

A statement can end well, fail without effect, or take effect while the driver
sees an error. Data is abstracted to what decides: a reading is a small integer,
a rule has a type, a threshold, a deadband and a delay. Readings of bad quality
or of another type return early and are no action. The order in which one
critical section queues the actions of several rules is that of a Go map or of
an unordered query: any order. PostgreSQL is modelled from its use: a statement
is atomic, and the advisory lock of `InsertActive` makes probe and insert one
step. See section 7 on that lock.

### AlarmPipeline

Every published event goes to `inbox`, from where core-api takes events in any
order, and some twice. An event with an id writes nothing; one without an id is
inserted, with the publishing time as its trigger time, or closes the rule's
open rows. `stored` is when `tag_history` last got a row of the tag. The sweep
reads it, then closes (`SweepClose`) or probes and inserts (`SweepProbe`,
`SweepInsert`): the INSERT with NOT EXISTS takes no lock, so between its
snapshot and its row a driver may insert.

### MqttSpool

A line of the file is the messages written on it, its length and whether it is
ended, so that torn, merged and over-long lines exist; a line can be read back when it
holds one record and lacks at most its end. `os.WriteFile` is two
steps, because it truncates first. `spawned` counts the `drainSpool` goroutines
that have not tried `drainMu` yet. `accepted`, `discarded`, `hole` and
`delivered` are history variables that no guard reads. `paho` is external: it
can keep a message whose publish timed out and send it later (`SendLate`). All messages
are of QoS 1. A record of QoS 0 counts as sent when `publishNow` returns nil, whether
or not the broker got it: what that costs is in `SparkplugNode`, all of whose messages
are of QoS 0, and nothing `MqttSpool` promises is about them.

`Outbox` is the same system without file, lock, goroutine or connection: a queue that
survives the process, how much of it this replay has sent, and the messages in the
publishers' hands. It has one action for each thing that may happen to the queue: a
message joins at the end, a replay sends from the front and then forgets what it has
sent, the oldest go because the next one does not fit, no more than that takes,
each counted, and a restart keeps the queue. `Box` maps it onto `MqttSpool`: `Queued` is
the file followed by the lines that a trim or a rewrite holds in memory, so a
truncated file is still a full queue; `Resent` is how far the scan is; `Held` is what
the publishers that are in `Add` have in hand. `ActsAsOutbox` then says that a trim,
a rewrite, a replay cut short by the broker, a file that could not be removed and a
death between two writes are each one such action or none.

### Telemetry and SampleLog

`SampleLog` knows published samples, their answers and the recorded rows: a sample is
recorded, or left out because a recorded row stands for it (the deadband and
the 30-second floor), or lost, with a line in the log or, in a Sparkplug message whose
tag cannot be looked up, without one (`silent`; historian `main.go:841-845`, `1098-1100`). Which row may stand for
a sample depends on whether the historian can die between two writes (`mortal`):
if it cannot, the newest row before the sample; if it can, the baseline and its time
are two Redis keys that may disagree after a restart, and any recorded row of the
same value within the floor will do. A sample that comes again may be recorded again;
`CopiesCostFaults` says when that happens.

`Telemetry` is the two processes on the way: `hq` and `cq` are their subscriptions
(the historian's session is persistent, core-api's is not), `h` is the place of the
historian in its handler, Redis keys and `tag_history` are shared and survive both.
Only the legacy topics are retained. A read of
the cache and the write that follows are two steps in both processes. The
refinement maps unanswered samples, rows, losses and silent losses; baseline and
cache do not exist in `SampleLog`, so a baseline that runs ahead of the table,
or is lost with Redis or a crash, shows as a sample nobody answered.
`LiveValueSettles` is about samples that come in order; a core-api that restarts
relies on retained samples, so the property asks for them where it may restart.

### SparkplugNode

`node` is the client; every operation that holds `c.mu` for writing is a step,
`PublishDDEATH`, which reads under `RLock`, is two, and so is one before which the node's
birth is due. All messages are of QoS 0: a publish goes out, fails, is reported as failed
and went out, or is reported as sent and never arrives, because `publishNow` gets no
answer to wait for (`Attempts`). With the spool, which every driver configures, a failure
is hidden from the client, unless the spool refuses the message, and what was kept is
replayed next to live messages, or lost like any other (`ReplayHeard`, `ReplayLost`).
`missed` counts what went wrong by type, `deaf` the NBIRTHs the client takes for
heard, `late` the replayed messages. The spool starts empty; its ceiling and its torn
lines are in `MqttSpool`. `host` follows births, deaths and numbers as the Sparkplug B
specification asks a host to. The drivers differ in who sends DDEATH at shutdown
and when the client is created; `Plans` has all three kinds, with and without the spool.

### ModbusDriver, Recipes and Driver

A poll is a sequence of steps: connect, read a block, and for each tag the
cooldown check, the deletion of the cooldown, `shouldPublish` with the publish, and
`updateState`. A publish that is skipped or fails is only logged, and `updateState` follows
all the same (`publishDual`); a `connection_config` no client can be made from ends the
poll before anything is published (`usable`). A write takes its client, reads the register if it writes a bit,
writes, reports its result, and then remembers its value, sets the cooldown and
publishes feedback, each under another lock. `prev` carries the Go type of a value,
because `valuesEqual` never finds an `int16` equal to the `float64` or the string of a
command. `createBlocks` is the set of its outcomes, because `sort.Slice` may put tags
of one address in any order; differences are taken modulo `AddrSpace`. Addresses
end below `AddrSpace`, as `ParseAddress` guarantees with its offsets. The
device holds `plc`; it can change by itself, stop answering, answer with an
exception, or take a write whose answer is lost. Time is two events, the end of a
cooldown and of a heartbeat.

`Recipes` keeps `ackWaiters` and the `Load` calls. A load registers, publishes its
commands one by one, and takes results from its channel until it has as many as
commands or its deadline passes. `by`, `mixed`, `clash`, `last` and `calm` are history:
whose command a result is about, tags on which commands overlap, registers
that changed under a copy, what was set last, whether anything disturbed the poll.

`Driver` puts them next to the Sparkplug node. A deployment runs one of the two
halves, since neither reads what the other writes.

### Watch

`GatewayWatch`: a driver reports on the retained topic `sys/health` at every
change and every ten seconds; the driver manager writes it too when it starts or stops
a driver; the link, the driver or its device can go; a status
can come out of the spool late; `handleGatewayHealthUpdate` writes the row; the
watcher scans, records, announces. Time is counted in minutes up to the
silence limit. `DbWatch`: snapshots of connections, jobs and slow queries, parts of
which may be unreadable; `wrongly` counts a problem that is called over while it is
`Lasting`. `Notifier`: filters, limiter, maintenance window, and
the reload that replaces the limiter. `Watch` is one process: a crash takes all.

### Fleet

`wish` and `scope` are the platform's tables, `mirror` a box's copy, `known` the
books of each manager (`gatewayStates`), `cont` the containers of each host. A box
fetches an answer and applies it later (`Fetch`, `Apply`), after the platform has perhaps
changed its mind; the queries of one request are one step. A manager's
sync reads (`SyncRead`), then acts under the lock (`SyncAct`); OTA commands take a
copy of the books, stop, and start from the copy. Docker and database calls can
be refused; a manager can stop or crash while containers run on; a link can be
down; boxes can be given scope, emptied and removed.

### InfluxBuffer

`buf` is the buffer, `batch[g]` what the request of goroutine `g` carries. A
`Write` reads the settings and takes the lock later. A flush takes the whole
buffer; a failed one puts its batch back at the head and the cap cuts there.
`arrived`, `capped`, `refused` and `overtaken` are history.

## 3. Runs

| Run | Asks | Distinct states |
|---|---|---|
| `alarm_faults` | a comm_loss and a frozen rule, any statement failing or losing its answer: one drainer, nothing stranded, told once and in order, one open row, every fired alarm announced, a mute tag not frozen too | 709 000 |
| `alarm_restart` | rules replaced and the process killed at any step: no open row that nobody will close | 190 000 |
| `alarm_batches` | with batches and failing writes, what is queued is executed | 108 000 |
| `alarm_sweep` | driver, event handler and sweep on one table: rows of a tag that sends again are closed, a silent tag ends up with one | 647 000 |
| `spool_replay` | overflow, timeouts, restarts between writes, files that stay: no accepted message lost uncounted, the hole counted in full, `Outbox` implemented | 1 883 000 |
| `spool_restart` | writes that fail or end early, a death inside them, a reconnection: order and ceiling of what is readable, and what waits while no replay is under way goes out on the next connection that stays | 371 000 |
| `telemetry` | crashes, restarts, refused queries, late, repeated and retained samples, both formats: `SampleLog` is implemented, copies cost faults, the newest value wins | 1 188 000 |
| `driver` | polls, writes, feedback and cooldown interleaved, outages, lost publishes, late, lost and refused commands, reloads: one undisturbed poll repairs what is shown, bits do not disturb each other, every tag is in a block; a recipe is answered for its own writes; Sparkplug gaps, births, deaths and device state as a host sees them, with messages lost in silence and the spool | 5 172 000 |
| `watch` | gateways and database under faults and a crash: the record settles, nothing is said twice or called over wrongly, the limiter | 636 000 |
| `fleet` | hand-over, OTA, faults, crashes, removal, answers applied late: the owner polls, and nobody else | 63 000 |
| `influx` | overlapping flushes, outages, settings read in part: every point goes out or is dropped on purpose, the cap drops the oldest | 466 000 |
| `batch_unannounced` | violated: a batch overlooks the alarm it raised | - |

Bounds. `alarm_*`: one tag with two rules and two or three occurrences (`Refs`)
is enough for an occurrence to overlap the writing of the previous one, for two
rules to queue in either order and for a restart to meet a row, a pending action
and a fresh occurrence at once. Three goroutines enter the manager: one drains,
one finds it draining, one queues. The clock lets a delay run out, a retry become
due, a value freeze and fall silent; in `alarm_restart` nothing depends on time
and the clock stands still. `alarm_sweep` has one comm_loss rule, which both
sides judge, and two occurrences. `spool_replay` has room for six bytes and messages of two, three and four: any two but
one pair fit, a third one cuts one or both, and may then fill the file exactly; of
three connections one can fail in its replay, one resume it and one meet what was
queued after it. `spool_restart` has one publisher and two connections,
for a replay of the first that a reconnection meets, a message larger than the spool, a
record of three bytes that can be cut before and after it is complete, and a
scanner shorter than a torn line with the record written on it. `telemetry`: one
tag, readings that move by less than, and by, the deadband, at instants one, two and
three apart with a floor of two (unmoved samples inside, at and outside of the floor), one late sample, one fault,
in six deployments. `driver`: of the Sparkplug node, numbers wrap after three,
three operations that publish, one loss on a working link, one outage, each driver with and without the spool; of the driver, seven kinds of
deployment with two inputs (commands, recipes, changes of the device), one or two
faults and two writers, so that two writes overlap each other and a poll; one
deployment for each placement of three tags of one, two or four registers on four
addresses of two kinds, with a limit of five registers and gaps of one. The write and poll
deployments use two tags, since what a third one does is what the second does; the
layouts use three, one to start a block, one to join it and one to be too far away.
`watch`: one gateway with everything that can happen to it,
two gateways or a gateway and the database on one limiter, one crash, one refused
query. `fleet`: one gateway between the server and one or two boxes, or two
gateways on the server; two changes, two refused calls, one crash. `influx`: five
points, a cap of three, batches of two, two requests at a time, two outages.
Pointers and messages of one size are symmetric; runs with a liveness property
use no symmetry.

Deadlock checking is off where the bound on inputs stops the system by
construction: the spool, `telemetry`, `driver` and `influx`.

`TypeOK` is checked in `alarm_batches` and proved for every module with
theorems; `AlarmPipeline` states its own as documentation of its state.

Fairness. `alarm_batches`: the draining goroutine is scheduled and each of its
statements ends within `alarmDBTimeout`; strong fairness, because `sync.Mutex`
does not let a waiter starve behind goroutines that take the lock repeatedly; a
batch runs to its end. `alarm_sweep`: the sweep's ticker goes on. `spool_restart`:
`Add` and the replay are scheduled; connecting is not assumed, the property asks
for it. `watch`: the drivers' health loop, the timers and the clock go on, and a
crashed core-api is restarted (Docker's restart policy). `fleet`: the managers'
loops turn, a link that went down comes back, a manager that ended is started
again, a cooldown ends. `influx`: goroutines are scheduled, the timer ticks, a
request ends within its 15 seconds. Inputs, faults and operators are never fair.

## 4. Proofs

Eight modules hold theorems, each about every value of the constants that the named
assumptions admit: any number of tags, rules, processes and messages, any bounds, any
set of faults. The runs evaluate the assumptions too. Where a property is true only
of some deployments the theorem says so in its hypothesis, and section 7 gives what
breaks it elsewhere. One lemma per action, and lemmas on the operators, carry each proof.

**`AlarmManagerProofs`.**

* `TypeCorrect`. `TypeOK` is not inductive: executing an action needs one to be there,
  firing needs a pointer, a reading of a batch needs the batch. `TypeInv` adds that,
  and that a batch is held by the one goroutine that has the lock.
* `OneDrainer` and `NothingStranded`. A drainer may leave only if the flag is its own;
  a goroutine may return early only if the flag means that somebody is there.
  `DrainInv` is both together.
* `OpenRowUnique`. Only `InsertActive` adds an open row, only where there is none, and
  no UPDATE reopens one.
* `MuteHolds`: `MuteIsNotFrozen`, if on each tag the frozen rule gives up before the
  comm_loss rule (`Patient`) and the process does not die. `HealthInv`: every health
  track belongs to a loaded rule whose tag has health state, so the tick that fires
  one rule judges the other.
* `AnnouncedHolds` and `FiredHolds`: `AnnouncedInOrder` and `FiredIsAnnounced`, without
  batches. What was published of a pointer, what is in the drainer's hands and what is
  queued form one stream; `OrderInv` says it starts with ACTIVE unless the alarm was
  restored, has each status once, and that the track knows how far it has got.
  `QueueIO` may append the decided actions in any order because they are about
  different pointers.
* `NoOrphanHolds`: `NoOrphanRow`, in `Reliable` deployments: statements do what they
  report, readings come one at a time, and no start meets a refused query or an
  acknowledged alarm. None of this can be left out: `alarm_restart` with `Env` set to
  {"fail"}, {"lost"}, {"series"}, {"crash", "query"} or {"crash", "ack"} violates it. The property names who will
  close a row now; `OrphanInv` says it of pointers: the id of every open row is in a pointer
  whose alarm is still fired or whose CLEARED action is to be executed (`Closes`), and
  every ACTIVE action to be executed, which may yet write a row, has the same behind
  it in the queue. What keeps it so: a critical section that ends an occurrence queues its
  CLEARED behind everything queued before; an INSERT that finds an open row adopts its id,
  which has a closer already; a start finds each open row, of which there is one per rule.

**`MqttSpoolProofs`**, for any files, sizes and publishers, with every failure in `Env`:

* `TypeCorrect`, `CeilingHolds`. `LockInv` says what each place of a goroutine has in
  its hands; `CeilInv` says that the bytes on disk are at most `size`, that the lines a
  trim or a rewrite is about to write fit, and that a last line without its end is
  below the ceiling. Bytes of a file are a sum over a sequence; lemmas by induction
  on sets of numbers give its beginning, its end and its last line.
* `OrderHolds`: messages on lines were accepted in the order of the lines, after
  everything that was cut off, and what a publisher holds is nowhere yet.
* `NoLossHolds`, `HoleHolds`: nothing accepted is lost, and `dropped` counts the whole
  hole, if writes finish (`WritesFinish`: no write fails, is torn, or is cut between
  truncation and writing, and the scanner holds a record). Every line is then one whole
  record, and what the scan has passed is with the broker.
* `ImplementsOutbox`: `Spec => ActsAsOutbox` under `WritesFinish`. Each step is an
  action of `Outbox` or leaves all of its variables alone; the lemmas take publishing, `Add`,
  the replay and the restart in turn. The mapping needs
  that whoever holds lines in memory has the lock and an empty file (`LockInv`), that
  every line is one whole record and the scan is inside the file (`KeptInv`), that a message
  is in one place only (`OrderInv`), and that `size` is at least what is on disk
  (`CeilInv`), so that the message `Add` appends has its room in the abstract
  queue too. That a trim takes the fewest is `FirstKeptForm`.

**`TelemetryProofs`**, for every deployment unless noted:

* `TypeCorrect`. `TypeInv` adds which message a handler works on and that of one tag
  and one time there is one sample.
* `ImplementsSampleLog`: `Spec => AnswersEverySample`, step by step. A loss without a line
  in the log is a step of `SampleLog` only where samples come in Sparkplug messages, so
  nothing else may lose one in silence. The refinement needs
  `BaseInv` (the baseline is a recorded sample, its time is never after it) and, where
  the process does not die, `FreshInv` (no recorded sample is newer than the baseline).
* `CopiesHold`: a copy of a row costs a refused query, if the historian does not die.
  `CopyInv` counts the copy that is about to be written.
* `LiveHolds`: both writers leave the newest reading. `LiveInv`: in a calm deployment the
  newest sample of each tag is shown or on its way past one of the processes, and the
  process that has read an older value and has not written it yet does not count;
  `OrderInv`: queues hold samples in order of time, and the retained ones are the newest.

**`SparkplugProofs`**, for every numbering longer than one and every driver:
`TypeCorrect`, `GapsHold`, `BornHolds`, `DeathHolds`, `DeviceHolds`. They hold with and without the spool, and count what was lost with an error and without one alike.
The host's gaps plus the one that is owed at the next message are at most the losses, and
two for each late message (`GapsInv`), where a
`PublishDDEATH` that has taken its number is the next message and nobody else
takes one meanwhile; a client that was born has a host that knows it, unless an NBIRTH
was lost behind its back or a late one is to blame (`BornInv`); the number
of the session is the host's (`DeathInv`); while no `PublishDDEATH` is under way the host
has the device's state (`DeviceInv`): what the spool holds went wrong before. Wrapping numbers need that the successor is injective.

**`WatchProofs`**, for any gateways, jobs, rules, thresholds and crashes: `TypeCorrect`;
`RateHolds` (each start and each reload gives one more limiter); `OverHolds` and
`HeardHolds` (an unreadable snapshot pays for one wrong word and one unheard run; a
problem that lasts is one of `Lasting`, which names the one case a full snapshot gets wrong);
`SaidOnceHolds` and `ToldHolds` (`LedgerInv`: words said twice plus gateways about which
the operator is mistaken are at most the words lost; a decision contradicts the row until
it is applied); `HealthyHolds` (`Steady`: everything known of a gateway without changes
says online, and the minutes since its last word do not grow while its loop turns).

**`FleetProofs`**, for any boxes and gateways: `TypeCorrect`; `BooksHold`, where the loop
of a manager over its gateways is a set of independent entries; `RemovedHolds`, from the
invariant that the key of a box goes with its row: it is answered nothing any more, and its
copy changes only by an answer that was on its way.

**`InfluxBufferProofs`**: `TypeCorrect` and `OldestGoFirst` (`Spec => CapDropsOldest`). As long as
no older batch failed while a younger one was under way, every list is in the order of
writing, every batch under way is older than the buffer, and of two batches one is older
throughout (`Sorted`). A batch that goes back is then younger than every other one
under way and older than the buffer, so the cap cuts the oldest points.

**`DriverProofs`**, about `ProcessSpec`:

* `CoverHolds`: `BlocksCover`, for any layout and any order `sort.Slice` may leave tags of
  one address in. `BlocksOf` is a recursive function of the number of tags placed;
  `BlocksMade` says what it has made after each, by induction on that number.
* `ApartHolds`: `WritesStayApart`. `CopyInv` says that the register a writer has read is
  the register as it is, except for tags on which read-modify-writes overlapped; it
  needs who is on the bus and that commands carry values.
* `AnsweredHolds`: `LoadIsAnswered`. `AnswerInv`: a load that waits for a tag nobody else
  writes is the only one with a command or a result of it under way; each tag of a
  load is answered, under way or still to be sent, and in one of these ways only.
* `ShownHolds`: `ShownAfterPoll`. `ShowInv`: while a poll goes undisturbed it holds what the
  device holds, and each configured tag is shown right or is in front of the poll and will
  be published when its turn comes; a lost publish is a trouble, which ends the calm, and the
  next poll publishes the tag again. Not so where drivers publish on change only, so there
  the property takes that no publish is lost and nobody writes (`AllSeen`), and needs
  `ChangeInv`: what is remembered of a tag is what is shown of it, except between
  its publish and `updateState`; and `QuietInv`: where nobody writes, nothing of a write is
  under way. A `connection_config` that makes no client stops the poll, so the property
  takes one that does (`config.usable`).

What stays with TLC: the liveness properties (`QueueDrains`, `CommLossSettles`,
`GoesOutOnReconnect`, `RecordSettles`, `OwnerPolls`, `NobodyElsePolls`, `PointsArrive`) and the
ENABLED conditions of their fairness, which the prover does not do. Every invariant
and every action property that a passing run checks is also a theorem, under the
hypotheses named above.

## 5. What is not modelled

`PROJECT.json` names every component and the reason. In short: deletion of alarm
history needs rows that disappear; the subscription table of the MQTT client and
the broker's access control keep no state that a step of another actor changes;
the historian's copy to a cloud broker, wait statistics of the database watcher and
the update poller are left out of their modules; so are the poll loops of the S7,
OPC UA, MQTT, Redis and LoRaWAN drivers; field protocols, HTTP CRUD,
authentication, forecasting, migrations and the web interface are I/O, pure
functions or one transaction per request, and make up most of the repository's
lines: of some 76 000 lines of implementation the models cover the part that runs
concurrently, crashes or is retried.

## 6. Roadmap

* The poll and write loops of the S7 and OPC UA drivers.
* The copy to the cloud broker, with its own connection and its reload, next to the historian.
* Deletion of alarm history.

## 7. Where code and documentation disagree

With a run (see `findings`):

* In a batch, taking actions out of the queue shifts `firstIO`, and an alarm raised by
  the batch is never announced (`manager.go:597`, `652-662`); run
  `batch_unannounced`.

Shown by the models under other constants (the property, the constants that
differ from the run named, and the sentence it contradicts):

* An acknowledged alarm is not restored by a restart, and its row stays open:
  `NoOrphanRow`, `alarm_restart` with one rule (`InitialDefs = {d1}`,
  `ThresholdRules`) and `Env = {"ack", "crash"}`; `manager.go:126`
  "This ensures alarms are properly cleared even after driver restart".
* A known alarm that ends, fires again and ends again in one batch is announced as
  CLEARED twice: `AnnouncedInOrder`, `alarm_batches` with `RuleOf <- InstantRules`,
  `MaxTime = 2`, `MaxLag = 1`, `MaxBatch = 3`, `Env = {"series"}` and `SPECIFICATION Spec`;
  `manager.go:612` "known: the operator was told about this alarm before the batch, so
  its end is news".
* A process that dies after the row of a comm_loss alarm and before the end of the frozen
  one is on record takes up both: `MuteIsNotFrozen`, `alarm_faults` with four `Refs` and
  `Env = {"crash"}`; `health.go:152` "A tag nobody is hearing
  from is mute, not frozen".
* A zero-duration occurrence in a batch drops a track whose row is already
  written: `NoOrphanRow`, `alarm_restart` with the delayed rule alone (`InitialDefs = {d2}`,
  `ThresholdRules`), `MaxTime = 2` and `Env = {"series"}`;
  `manager.go:648-651` "has not drained yet".
* A failed `InsertActive` leads to a row by core-api that the driver does not
  know; the alarm's end writes a second, closed one: `OneRowPerAlarm` under
  `PipelineSpec`, `alarm_sweep` with one threshold rule, `MaxTime = 0` and `Env = {"fail"}`.
* The sweep's INSERT takes no lock and can open a second row next to a driver's:
  `OneOpenRow` under `PipelineSpec`, `alarm_sweep`; `comm_loss_sweep.go:19` "Both
  writers use the same open-row guard, so driver and sweep converge instead of
  duplicating". The rows do converge (`CommLossSettles`).
* `os.WriteFile` truncates before it writes, so a crash in a rewrite loses records:
  `NoSilentLoss`, `spool_replay` with `SizeOf <- EqualSizes`, `MaxConnects = 2` and
  `Env = {"cut"}`; `spool.go:187` "a crash
  mid-replay produces duplicates, not losses".
* A reconnect that finds the old replay giving up starts none, and what is on disk stays
  there: `GoesOutOnReconnect` without `NoReplay`, `spool_restart` with `Env = {}`;
  `client.go:340-342` "puts the message on disk instead of nowhere, and it goes out on reconnect".
* A sample that core-api writes between markTagOffline's read and the next one
  leaves the tag of a dead gateway GOOD: `DeadTagShowsBad`, `telemetry` with
  `Plans <- GoesOff`; historian `main.go:429` "mark ALL its tags as BAD".
* A failed read published as null leaves no gap row: `BadIsAGap`, `telemetry` with
  `Plans <- NullReadings`; historian `main.go:1138` "Always store BAD/UNCERTAIN
  quality to create visible gaps in charts".
* An NBIRTH of QoS 0 that is lost without an error, or that the spool takes, sets
  `birthSent` and is not sent again (`mqtt/client.go:372-381`, `sparkplug/client.go:110-113`); every
  message of the node is then heard from an unborn one: `NodeBornFirst` without `deaf = 0`, `driver`;
  `sparkplug/client.go:104-105` "The flag is only set on success so a broker hiccup at startup is
  retried by the next publish instead of muting the node for the rest of its lifetime", and
  with it "NBIRTH first, always" (`sparkplug/client.go:164`).
* A result names its tag only, so a load takes the result of another command for its
  own, and a load that ends removes the waiters of another: `LoadIsAnswered` without
  `mixed`, `driver`; `recipes.go:337` "Real success/failure from the driver is reported".
* A bit written while another writer, or the device, changes the same register undoes
  that change: `WritesStayApart` without `clash`, `driver`.
* Publishing on change only, feedback that comes after a poll has shown the device's
  next value stays shown, and a publish that was skipped or failed (`main.go:1251-1263`, `1278`) is
  never made up for, because `updateState` (`main.go:1647`) records it all the same:
  `ShownAfterPoll` without its condition on `Unrepaired`, `driver` with
  heartbeat "never" in `OneRegister`; `settings.go:135` "only publish on value/quality
  changes".
* An inspect that fails in the sync that sees a gateway switched off marks it as
  not running, and the container polls for ever: `OnePoller`, `fleet`;
  `assignment.go:5` "Every gateway is polled by exactly one thing".
* A `connection_config` that no client can be made from ends the poll without a word
  (`main.go:1495-1499`), and every tag stays shown as it was, with good quality:
  `ShownAfterPoll` without `config.usable`, `driver`; `main.go:1503` "all tags are BAD" of the connection
  that fails instead.
* An answer a box fetched before it was removed, and applies afterwards, gives it a gateway it
  then keeps, next to the server: `RemovedBoxTakesNothing` without `answer[b] = None`, `fleet`;
  `edge_agents.go:206` "Its gateways go back to the server", `assignment.go:5` "Every gateway is
  polled by exactly one thing".
* A job without success for too long that starts failing is announced as resolved, from a snapshot
  read in full and with the success still missing, because Evaluate reports one of the two
  (`evaluate.go:144-172`, `watcher.go:80-88`): `OverOnlyWhenBlind` with `job-stale` in `Lasting`
  whenever `job.old`, `watch`; `watcher.go:12`
  "told when a problem appears and when it goes away".
* Two flushes that fail in the order of their batches make the cap drop points
  that are not the oldest: `CapDropsOldest` without its exception `overtaken'`;
  `influxdb.go:195` "the OLDEST points are discarded".

Met while modelling, and left to a reading of the code:

* `InsertActive` calls `pg_advisory_xact_lock` with three arguments
  (`manager.go:865`); PostgreSQL defines it for one `bigint` and for two `int`.
  No test reaches `sqlStore`. If the statement is refused, no driver ever
  writes an ACTIVE row and every alarm lives on core-api's fallback. The runs
  that assume a reliable database assume a lock that is granted; `alarm_faults`
  covers one that never is.
* With a comm_loss timeout shorter than the frozen one, both alarms are active
  for a while (`health.go:151-159`). `alarm_faults` checks the other order.
* A failed `MarkCleared` is not retried; CLEARED is published over an open row
  (`manager.go:794`), and a lost answer to an insert leaves its row open.
* The sweep also judges rules that are switched off (its query has no `enabled`).
* A torn line swallows the record appended to it (`spool.go:120-125`), and a
  line over 4 MiB costs everything behind it (`spool.go:206`).
* Historian: a recovery sample within 30 s of an unmoved value is suppressed after
  the offline marker; a crash between the BAD mark and the marker loses the marker
  (`main.go:1466`); a tag without a cached value gets a marker at every event.
* Historian: after a crash between the two writes of `storePreviousValueAt` a late
  sample can be judged by the deadband and left out (`main.go:1142` "kept whatever the
  deadband says about the newer value"); a core-api that restarts without retained
  samples can put a tag's older value back into Redis.
* Sparkplug: opcua and redis drivers send DDEATH from main next to the poll loop's;
  driver-redis sends no DBIRTH at start and a new client numbers from zero at each
  reload; a failed DBIRTH or DDEATH is not repeated.
* Modbus driver: commands from the legacy topic and from DCMD are not stamped and
  never expire (`freshness.go:59` "Every publisher in this repository stamps its
  commands"); the cooldown of a number is never cleared early, its types differ
  (`main.go:1607`); bits of one register are read once per bit, the gap being
  negative and unsigned (`main.go:1412`).
* Notifications: reload replaces the limiter, so a minute can see twice "at most
  `max` events per `window`"; a failed read of the settings switches every channel off
  (`notifier.go:175` says the previous value is kept); an event in a maintenance
  window uses up the limit; GatewayUp, of severity info, is below the default filter.
* Gateway watcher: a gateway switched on again after a long time is announced as down
  at once (`watcher.go:143-147` says nobody wants that); the retained "online" of a
  dead driver restarts the silence when core-api restarts.
* Database watcher: a failed read of the jobs or queries makes their problems
  "resolved"; after a restart a problem that is gone is never called over.
* Driver manager: OTA snapshots start gateways that were disabled or handed over
  meanwhile, until the next sync (`main.go:1122` "must not be resurrected"); a
  manager that crashes before a hand-over leaves a container nobody stops; a changed
  `driver_type` is not applied to a running gateway; a removed box whose key is
  revoked keeps polling its mirror.
* InfluxDB: `rows.Err` is not asked; a result set that ends early switches the
  connector off and the next flush throws the buffer away (`influxdb.go:220`).
