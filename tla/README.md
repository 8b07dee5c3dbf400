# DalyRust: a verification development

DalyRust supervises the energy storage of a house: batteries on an RS485 bus,
solar production, relays and inverters, Victron's Venus OS, a metrics store and
a dashboard. This directory holds TLA+ models of the parts where order, failure
and time decide what happens, the TLC runs that check them on small instances,
and TLAPS proofs of the theorems that should hold for every instance. Paths in
this file are relative to `src/`; line numbers are those of the same commit.

## 1. Inventory

### How the parts talk

    Daly BMS, ET112, ATS --RS485--> daly-bms-server --MQTT--> dbus-mqtt-venus --D-Bus--> Venus OS
    Shelly, Tasmota, Victron --MQTT--> daly-bms-server, energy-manager
    energy-manager --MQTT--> Shelly, Tasmota, Victron, daly-bms-server
    daly-bms-server --> metrics-store (in process) --> PromQL, Grafana

Within a process, tokio tasks share an `RwLock`ed state, bounded mpsc channels
(mostly filled with `try_send`, which drops) and broadcasts. Between processes
there is one MQTT broker. Services restart every day and whenever a task marked
critical ends.

### Components

| Component | State it keeps | Operations | What is hard | What makes it correct |
|---|---|---|---|---|
| RS485 bus and Daly driver (`rs485-bus`, `daly-bms-core`) | the port under a mutex, the receive buffer, backoff, firmware cache | transaction, retry, second frame, reopening | late, cut, volunteered answers; unplugged adapter | a driver accepts the answer to its own request; answering devices are reported |
| BMS commands of the REST API (`write.rs`, `api/bms.rs`) | none | read the settings, write thresholds | six transactions, retries, other clients; lost answers | a client is told what the BMS holds |
| server state and redb writes (`state.rs`, `redb_writes.rs`) | ring buffers, latest snapshots, rate limiter | on_snapshot, accept/skip a sample | spawned handlers, full queues, the limiter's purge | readings are taken in order, series written at their pace |
| metrics store file (`main.rs`) | the file, quarantines, lock | open, quarantine, recreate, compact, stop | corruption, power cuts, two programs | no committed batch is renamed away by mistake |
| alert engine (`bridges/alerts.rs`) | rule states, queue, journal | evaluate, journal, notify | slow messages, dropped snapshots, cooldown | alarms follow the values and are closed |
| MQTT bridge (`bridges/mqtt.rs`) | last snapshots, what Victron told | publish at a tick, subscribe | retained messages, reconnections, restarts of both sides | nothing published or shown goes back to an older value |
| field drivers (`ats`, `et112`, `irradiance`, `shelly`, `tasmota`) | last snapshot | poll, decode, switch the ATS | registers read one by one | |
| REST API, dashboard, console | none of their own | requests | | formatting |
| metrics-store writer (`writer.rs`, `lib.rs`) | queue, series cache, ids, redb tables | write, batch, commit, shutdown, reopen | failed commits, crashes, concurrent shutdown | a sample is found once, under its series |
| metrics-store tiering (`tiering.rs`) | three tables | hourly and daily compaction, purge | writes and crashes between its transactions | no point vanishes or counts twice |
| metrics-store reader, PromQL | snapshot of redb | queries | tier chosen by width, resets between buckets, NaN | raw points and buckets answer alike, vectors keep their algebra |
| DEYE controller (`logic/deye_command`) | relay, two debounce anchors | evaluate at 1 Hz | stale telemetry, late ticks, clock steps | cuts and restores in time, no oscillation |
| energy-manager bus and MQTT client (`bus.rs`, `mqtt/client.rs`) | two channels, session | publish, resubscribe | outage, full queue, reconnection | never blocks a control loop; order kept |
| DEYE relay delivery | commands, retained state | change, resync, restore | dropped messages, restarts | relays converge; a restart keeps the state |
| SmartShunt (`smartshunt`, `state.rs`) | Ah and kWh of the day, in two programs | integrate, fall back, publish | two sources, gaps, midnights, restarts | a day holds no more than the day had |
| daily yield (`solar_power`, `meteo`, `persist`) | baseline, yesterday | capture, midnight reset, restore | retained messages, UTC and local days | the yield of a day is counted once |
| water heater (`water_heater`, `lg_thinq.rs`) | mode, target, cooldown, age of the hot tank | decide every 5 min, poll, set by hand | three writers of one state, failed requests | heating stops in time, the target is that of the mode |
| charge current, presence (`charge_current`, `toshiba_ac`) | last decision | publish once per change | messages dropped or forgotten, retained reports | devices follow the decision |
| Toshiba firmware (`firmware/toshiba-suzumi-rs`) | queue, phase, optimistic state | handshake, watchdog, commands | re-handshake under commands | the unit does what was asked last |
| dbus-mqtt-venus | services, values, watchdog | create, update, republish, command | silent sources, console and MQTT at once | dead sources are shown so, live ones are not |
| bridges (`bridge/*`) | a connection | relay messages | | |
| deployment, dashboards, docs | | | | |

`PROJECT.json` lists them with their sources, with the reason when one is not
modelled, and lists the hazards, each at its line with the properties aimed at it.

## 2. Modules

| Module | Models |
|---|---|
| `SampleStore` | the promise of the metrics store to a producer |
| `MetricsWriter` | queue, batches, transactions, series ids, `shutdown()`; implements `SampleStore` |
| `MetricsWriterProofs` | types, shutdown, series identity, the accounting of samples and the refinement of `SampleStore`, proved |
| `Sifting`, `SiftingProofs` | a queue read without its sentinels or subscriptions; facts about sequences, finite sets and folds that the other proofs cite |
| `AggBucket` | the arithmetic of a bucket, with a reference definition |
| `Tiering` | the maintenance pass, its transactions, the writer meanwhile, the tier a query reads |
| `TieringProofs` | theorems about `AggBucket` and `Tiering` |
| `DeyeController` | the decision at 1 Hz |
| `AppBus` | the promise of `publish()` in energy-manager |
| `DeyeRelay` | how a decision reaches the relays and survives a restart, over `AppBus` |
| `MqttClient` | the two tasks around rumqttc; implements `AppBus` |
| `EnergyMqttProofs` | theorems about `DeyeRelay` and `MqttClient` |
| `AlertEngine` | `on_snapshot` to the journal |
| `VenusService` | a source, the broker, a service and its manager, the console |
| `ServerBridgesProofs` | theorems about `AlertEngine`, `VenusService` and `FieldBus` |
| `VenusKinds` | what the services of the eight kinds keep, show and let the console write |
| `ServerState` | a reading on its way to state and store |
| `StoreOpening` | the file of the store over starts, corruptions and power cuts |
| `MqttBridge` | the two directions of the MQTT bridge of the server |
| `PromQLVectors`, `PromQL` | instant vectors; windows, subqueries, evaluation over a range |
| `FieldBus` | the bus, the Daly poll loop and the Modbus drivers |
| `DailyYield` | the baseline of the PV counter over midnights, restarts and retained messages, over `AppBus` |
| `SmartShunt` | the Ah and kWh of today, in energy-manager and in the server |
| `WaterHeater` | the control task, the task of the target, the poller and the HTTP request |
| `ChargeCurrent` | the limits of the inverter, over `AppBus` |
| `RoomPresence` | the air conditioner of an empty room and the sensor's bridge, over `AppBus` |
| `BmsCommands` | settings read and thresholds written through the REST API |
| `ToshibaClient` | the client of an air conditioner on its serial line |
| `DeviceControlProofs` | theorems about `DeyeController` and `ToshibaClient` |
| `ReadSide` | the ten of these parts that share nothing, side by side: what is made of the measurements and what is decided from them |
| `DecisionProofs` | theorems about the parts of `ReadSide` that decide: `BmsCommands`, `ChargeCurrent`, `RoomPresence`, `WaterHeater` |
| `ReadSideProofs` | theorems about the other parts: `StoreOpening`, `ServerState`, `MqttBridge`, `VenusKinds`, `SmartShunt`, `DailyYield` |
| `MC*` | instances for TLC |

Definitions whose comment begins with "Variant:" are not part of the models. Each
is a plausible wrong version of the definition that follows it, kept to see that
the properties notice.

### metrics-store writer

`Accept` is a successful `write`, `try_write` or `blocking_write` (the latter two
wait or fail on a full queue, which changes nothing). The thread is the actions
from `LoadNextId` to `NextTurn`, one per place where it can fail or another
thread can see a difference; `CallerStep` is `shutdown_writer`, whose two mutexes
are the states in which a caller holds them. Storage calls that may fail are
`StorageFaults`. A batch that leaves `commit_batch` by `?`, from any call of the loop or
from the one after it, keeps the cache and `next_id` as it made them (`EarlyError`:
an id taken, or taken and cached, for a sample that was not inserted); from then on the identity of series is no longer
claimed: `IdentityUnlessEarly` and `StoreSpec` say so in their statement. `Crash` drops what is in memory and reopens
the committed tables. Values of samples are left out, the number of a sample
stands for its timestamp; fingerprints may collide.

### metrics-store tiering

A compaction is `Read`, `Write`, `List` and `Purge` by chunks, separate
transactions in the code, with `StepError` and `Crash` at each. Points carry the
time (`WriteLive`) or an older one (`WriteLate`, the import endpoint). A bucket
row has a history field `from`, the points folded into it, and `Reference` says
what a row over these points should contain.

### DEYE controller

Instants are ages, capped where the code no longer tells them apart. `Evaluate` is
one tick: `read_inputs`, `flags`, `decide`, `set`. `Second` lets at most `MaxLag`
seconds pass without a tick. `ClockStep` is a jump of `Utc::now()`, which the code
takes for time passed: `MinOffTime` therefore speaks of the time since the cut or
since the last step. The delays of `CutInTime` and `RestoreInTime` are those of
the configuration and two late ticks, one before the anchor is set and one
before it is looked at.

### energy-manager's MQTT path

`AppBus` is one queue which a full channel drops from, acknowledged in order,
resent after an outage and possibly forgotten with the session. `DeyeRelay`
extends it: `TrySend` publishes one message of the current call, `Takes` says
what it does at the other end. Its periodic `Resync` finds an empty queue when the
link is up, since a resync comes minutes after the last one and the queue
drains in milliseconds. `MqttClient` is the two tasks and rumqttc (0.25.1), whose
behaviour is external: both `publish` and `subscribe` wait for a slot of one
request channel, which only `poll()` empties. `KeepsPromise` is the refinement:
the four queues in a row are the queue of `AppBus`. This is safety only: the
progress `DeyeRelay` assumes of the network (`NetworkRecovers`) is kept by the
client as long as there is room to subscribe (`RecoversWithRoom`), and not
otherwise (run `client_wedged`). The room is a hypothesis about every behaviour: nothing
takes a request while the client subscribes, so it can only hold if the request channel
has more slots than there are topics, as it has in the code (`mqtt/client.rs:26`), and
then fails where publications have filled the channel before a reconnection.

### alert engine

A rule sees where its value lies: good, between the thresholds, bad. `OnSnapshot`
drops a snapshot if the queue is full; `Evaluate` is one snapshot, `LogEvent` and
`Sent` one notification. The INSERT may fail silently: the row before it stays the last
of its key. The states of the rules are in memory and the journal in SQLite, so
`ServerRestarts` forgets the former, the channel and what was still to be told, and
leaves the latter. A server restarts once a day (`RuntimeMaxSec`,
`contrib/daly-bms.service:77`) and at any other moment in the model, as often as it likes.
`NoAlarmLeftOpen` is therefore about steps: a "triggered" row whose alarm is over and
whose end is not about to be written comes from the failed INSERT of that end or from a
restart, and from nothing else. These two do leave such rows. The minimum duration is
counted as the engine counts it, between two evaluations, which is not the time
between the two measurements when snapshots wait or are dropped.

### dbus-mqtt-venus

All the managers have the same loop; the switch, which also takes commands,
stands for them. `Update` is in two steps because `update()` builds the values
and writes them under another lock. `Second` assumes that the manager and the
source are not late by more than a second. `UnattendedDisconnects` counts a
command from the console as news, as the code does (`set_value` refreshes
`last_update`, `switch_service.rs:323`), while
`docs/app-dbus-mqtt-venus.md:336` only speaks of MQTT messages.

`VenusKinds` has the fields of each kind and no clocks: which groups of values a
payload brings, which survive one that lacks them, which items exist and which
the console may write. `ToldIsHeld` compares the console's copy with the service once
nothing is left to emit, and `ConsoleWritesKept` that a name outlives updates;
a renaming in the window of `switch_service.rs:373` is lost by the code and left out.

### RS485

A driver has a program of requests. A transaction is `Begin` (lock, flush, write),
reads of one frame each and an end that releases the lock. A frame is two
chunks, so it can be cut. `fresh` tells answers to the last request from earlier
ones; no code sees it. A tick is half a turnaround (25 ms), pauses are those of the
code and timeouts are scaled down. Devices answer in time, late by at most `Latest`, or not; the master may
speak first; the adapter may go and return. `calm` is the moment from which
nothing goes wrong. A request is written once the answers whose time has come are in
(the guard of `Begin`): an answer of a given age is there or is not, and the flush sees
what is. `BusAssumption` bounds `Latest`: an answer later than the
next reads of the same device cannot be told from theirs, since a Modbus answer
names no register, and a stray frame may end a transaction before its timeout.
`ProgramsApart` is what `main.rs` and `poll_device` make of the configuration: a device
has one driver, a BMS is read in one go, a register once a cycle, and two BMSs at
least are polled. `Rest` stands for the commands of a BMS its program leaves out. The
interval between two cycles, which only keeps answers further apart, is left out. The
flush has a window of
10 ms, shorter than a tick, and takes all there is.

### daily yield

Three tasks share the state: `Energy` and `SolarPublishes` are `mqtt_task`,
`ResetReads`, `ResetWrites` and `ResetPublishes` are `do_reset`, `BaselineArrives`,
`BaselineRestored` and `YesterdayArrives` the persist watcher. Each step is what
a task does under one lock; publications come after it. The broker is the two
retained messages; a connection owes the client both. `LocalMidnight` comes before
`UtcMidnight`, and the hour of summer time is left out. `utcStart` and `localStart`
are the readings at the two midnights, which no code sees. A baseline retained
before local midnight, which the reset could not clear in the broker, is still "of
today" for the code until UTC midnight: `NoResetDayCounted` leaves that out, in its
statement.

### PromQL

An expression is a record, its operands are its fields; `EvalAt` is one recursive
function over it. A panel is a set of expressions and is asked again and again
while points are written and whole hours compacted. Numbers are exact, in
fixed point, with a NaN and an Infinity that has no sign and that `Holds` compares no
better than a NaN (no expression asked compares one, `cmp_truth` would); `One` = 84 has the divisors the
averages and variances need. `VectorAlgebra` states what
dashboards and alarms rest on whatever the data: a comparison and its opposite split
what is a number, a filter keeps what `bool` answers 1, `and` and `unless` split the
left side, groups add up to the whole, and no two series of an answer are one.
`BucketsAgree` compares a window answered from buckets with the same window on
the points ever written, for the functions buckets can answer exactly and windows
that begin and end with a bucket; the other functions are evaluated too, without a
reference. A counter reset inside a bucket is not seen, as the code says, and is left
out of the statement.
The parser is a library; time zones, histogram functions (the validator refuses
them) and the text of labels are left out.

### server state and the file of the store

`ServerState` follows one source: `Turns` says which readings may take their next
step (the first for a BMS, whose channel has one consumer; any for the devices
`main.rs` spawns a task for, `main.rs:549`), and `ReadingsInOrder` leaves the latter out,
because the code does let an older reading overtake. A rate limiter that is full
forgets every series in the middle of a reading (`Push`); the statement of
`SeriesPaced` is that two samples of a series that the limiter did not forget in
between are an interval apart, and that a refused one costs at most an interval.

`StoreOpening` has two programs, the server and `--compact-db`, and a power cut
between any two steps. `HistoryKept`: what was committed is in the file or in
a quarantine, and only a corrupt file goes there.

### MQTT bridge

`Tick` copies the last snapshot of each device to the queue of rumqttc, topic by topic;
`Transmit` may lose it. In the other direction energy-manager publishes only what it
knows, some of it retained, and the server subscribes twice when it starts, so
retained messages come again. A value is known by the number of the message it
came from. What the server shows is held by field, and one field is set from two topics:
`mppt_yield_kwh`, from the meteo message the sum of the chargers
(`bridges/mqtt.rs:755-757`), from the solar message the total, which the PV inverter is part of
(`1073-1074`). The first is retained and the second is not, so after a reconnection the
retained meteo message puts an older yield over a newer one. `NothingOlder` leaves out
that case and no other: a shared field, set by a retained message. A third writer, an HTTP
request (`api/system.rs:156`), is not modelled.

### SmartShunt

Both programs integrate with the same rule (`Integrated`): energy-manager the
current of the SmartShunt, or of the Venus system when that has been silent, and
the server the current published to it when the sums are missing. A current is
-1, 0 or 1 (the constant `Currents`; the run leaves out 0, which adds to neither sum,
the proofs do not), so a sum is a time and can be compared with the length of a day.

### water heater, charge current, room

`WaterHeater` has three writers of what is known of the heater: the control task
(`ReadState` to `SetMode`), the poller, whose answer is noted a step later
(`PollAnswered`, `PollNoted`), and `POST /api/water-heater/mode` (`ManualSet`,
`ManualNoted`). `StopsInTime` counts for how long heating was wrong, and allows a cooldown, the
hold and a tick. The target is set by a spawned task, once; a mode set by
hand changes neither the cooldown nor the target, so `TargetOfMode` leaves it out.

`ChargeCurrent` decides with its own messages only, on fields that the tasks of the
inverter (`inverter/mod.rs:102`) and of the solar power (`solar_power/mod.rs:133`, null
when the value is null) write too: `OthersHear`. `InverterAsDecided` is about what was
last decided, not about what would be decided now.

`RoomPresence` is one zone with the bridge of its sensor. A bridge that dies leaves the
retained report, and the room stays occupied or empty for ever; nobody looks
at its age.

### commands to a BMS

`ReadRegister` is one of the six transactions of `get_bms_settings`; `ReadFails` ends an
attempt, the next one begins anew. A write whose answer is lost may have been
carried out: a timeout is answered `ok` with a warning. Currents are held with an
offset of 30000 as 16-bit integers, and `as u16` saturates: `Representable` names
the values for which there is room, which no handler checks (`write.rs:164`).
`write.rs:6` says that all commands verify what they wrote; only those of the MOS
do, and the API does not offer them.

### Toshiba

The caller is the fairness and `Tick`: between two ticks (100 ms,
`COMMAND_DELAY_MS`) it has called `poll_tx` and relayed what came. `partial` says
whether the accumulator holds bytes. `view` is what the client knows, `unit`
what is, after the simulator of the tests in `machine.rs`. A payload is a sequence of
commands in the order of `parse_command`, where the mode "off" is a command to the
power. Fan, swing and power level behave like
the mode. The client takes the special mode for set when it queues it, so a
target sent while it is wrong reaches the unit 16 off, against the comment on
`set_target_temp`; `ShowsTheUnit` says that at least what is shown recovers.

## 3. Runs

| Run | Question | Bounds |
|---|---|---|
| `writer_faults` | does the store keep its promise and stop cleanly when every storage call may fail and the process may crash | 3 samples of 2 series whose fingerprints collide, cache of 1, queue and batches of 2, two callers of `shutdown()`, one crash |
| `tiering_compaction` | does any point vanish, count twice at rest, or lie in a wrong bucket | hours of 2 units and days of 4, 3 points, one late, 3 passes, purges of 1 key |
| `device_control` | does the relay follow its inputs in time, without oscillation; does the client of the air conditioner end up showing what it does | 2 chargers, 3 frequencies around both thresholds, delays 1 and 3 s, ticks 1 s late; 2 targets on both sides of the frost guard, one command, one use of the remote control, one frame lost or cut |
| `energy_mqtt` | do commands and the retained state get through; does the client keep the promise of the bus | 2 channels, 2 changes, one outage, crash and Shelly reboot; 3 publications, 2 outages, an outgoing queue of 2, 2 topics and 3 requests |
| `server_bridges` | do alarms close and follow; are services shown dead or alive, and the relay as it is | 2 BMSs, a queue of 1, messages of 1 s, restarts at any time; watchdog and republication of 2 s, 2 console writes |
| `field_bus` | does a driver accept only its own answers, and is every answering device reported | 2 BMSs, an ATS, 5 requests, one retry; ticks of 25 ms: turnaround 2, answers late by up to 4, retry pause 4, ATS gap 3, rest 2, timeout 4 (scaled down) |
| `read_side` | what is made of the measurements, and what is decided from them: eleven parts, below | see below |
| `writer_hang`, `tiering_twice`, `deye_frozen`, `relay_restart`, `client_wedged` | each shows one statement of a comment or doc that the code does not keep, see Findings | the smallest that shows it |

The bounds are small because the interesting cases need little: two of a kind to
collide or compete, a queue of one or two to be full, a pass or two to meet
its own leftovers, one outage to fall at every moment. In `energy_mqtt` the 3 requests are
one more than the topics: both topics can be subscribed with a publication
waiting, and cannot with two, so the hypothesis of `RecoversWithRoom` holds on some behaviours that connect
and reconnect and fails on others. The third publication is needed for the latter. Three points and three
passes let a bucket be built in pieces after an error in any step.

`energy_mqtt`, `server_bridges`, `device_control` and `read_side` each check several models
in one run: `part` selects one at the start, the others stay in an initial state, and
a property of one part holds trivially in the others. They share nothing else.

Parts of `read_side`:

| `part` | Property | Bounds |
|---|---|---|
| `queries` | `VectorAlgebra`, `BucketsAgree` | 3 series of 2 metrics, 3 points of 2 values, hours of 2 s, some forty expressions over 4 s |
| `file` | `HistoryKept` | 2 batches, 2 power cuts, 3 seconds of the clock that names quarantines |
| `state` | `SeriesPaced`, `ReadingsInOrder` | 5 sources, one for each way through the server; 3 readings, a channel and a ring of 2, a limiter of 3 keys |
| `topics` | `NothingOlder` | a BMS and a Tasmota, three subjects of Victron; 3 snapshots, 3 ticks, 2 messages, a queue of 2, one restart |
| `venus` | `ShownIsHeld` | three kinds that differ most (grid meter, switch, PV inverter), 2 messages, one write |
| `shunt`, `yield` | `TodayOnly` | currents of -1 and 1, days of 2, gaps of 2, one restart of each program; one local and one UTC midnight, 1 unit of energy, one outage, one crash |
| `heater` | `DevicesObey` (`StopsInTime`, `TargetOfMode`) | three conditions, cooldown of 2 ticks, hold of 1, one failed request or restart |
| `charge` | `DevicesObey` (`InverterAsDecided`) | three limits two of which are equal, one power on both sides of the threshold, one outage, one restart, a channel of 1 |
| `presence` | `DevicesObey` (`AirconAsDecided`, `NotOffTooSoon`) | off after 3 half minutes, a heartbeat of 1, one outage, one restart |
| `commands` | `DevicesObey` (`ToldWhatIsHeld`) | 2 clients, 3 requests, one failed transaction; thresholds at 0, below it and at both ends of the offset |

`CHECK_DEADLOCK FALSE` is given where the system really may stop: the writer once
shut down, and bounded passes, publications, readings and outages used up. Other runs
check deadlock.

### Fairness

- Threads and tasks keep running: weak fairness of each one's steps.
- Time passes: weak fairness of `Second` or `Tick`; strong in `VenusService`, where
  a second can be kept waiting by a message again and again.
- `AlertEngine`: strong fairness for a snapshot that finds a slot: the engine frees
  slots again and again, and the polls of no BMS meet a full queue each time. The server
  is left running in the end, which is what `FollowsSteadyLevel` asks it of: it needs a few
  polls, and the restarts are a day apart.
- `VenusService`: a service D-Bus refuses is created at some later message.
- `FieldBus`: tokio's mutex is FIFO, so strong fairness to begin a transaction, and
  to the reopening, which waits for the same lock.
- `ToshibaClient`: its caller keeps calling and the unit answers.
- `DeyeRelay`: nothing is owed by the network except under `NetworkRecovers`, the
  hypothesis of `Reconverges`. `LoopNeverParked` has no such hypothesis.
- `MqttClient`: the broker comes back.

Publications, levels, crashes, outages and commands are never obliged to happen.

## 4. Proofs

For every value of the constants that satisfies the assumptions named in the
modules, checked by TLAPS. The assumptions are what the code fixes or what it could
not run without: delays, capacities and bounds are naturals, sets of identities are
finite where a queue or a map holds one entry for each, hours divide days, the hourly
retention is longer than the raw one by an hour at least (365 and 30 days in
`TierPolicy`, `crates/metrics-store/src/lib.rs:74`; the code does not check it), and every point has an integer value. The bounds of the models
(`MaxPoints`, `MaxOutages` and so on) are parameters too, so nothing rests on them.

### The writer

`MetricsWriterProofs`:

- `TypeCorrect`: `Spec => []TypeOK`. The type invariant is strengthened with the
  range of sample numbers (what is queued has been accepted) and the uniqueness of
  the caller that sends the sentinel.
- `ShutdownJoins`: no `shutdown()` returns while the thread runs. The invariant says
  that the handle is taken once, and that a caller past it either holds the lock of
  the handle or the thread is done.
- `SeriesIdentityKept`: points are filed under their series and the catalogue is
  sound, unless a batch left early. Neither is inductive: the invariant adds that
  the open transaction satisfies the same as the committed tables, that the
  cache agrees with it (with the committed tables at rest), and that ids are below
  `next_id`, which agrees with the table at the ends of a batch. A failed commit
  keeps it because it empties the cache and puts `next_id` back.

The accounting of samples, the second part of the module, rests on `DeliveryInv`:

- `FlightInv`: the batch followed by the queue, without the sentinel, is the run of the
  last numbers accepted, in order. All else is counted from it.
- `PlacesInv`: the numbers before that run are parted into committed, dropped with a
  failed batch, lost by a crash and left behind by a stop.
- `TxnInv`: the open transaction holds what is committed and the applied part of the
  batch, each once.
- `SentinelInv`: what is in front of the sentinel was accepted before it, what is
  behind it after.

From it `SampleInOnePlace` and `SettledInOrder`, and, with the identity of series,
`WriterImplementsStore`: `Spec => StoreSpec`, that is, the initial states map to those
of `SampleStore` and each step to `Accept`, a settling of the oldest samples, a crash, a
stop or a stutter, as long as no batch left early (which is part of `StoreSpec`).

### Tiering

`TieringProofs` has one invariant, `TieringInv`, of eight parts and a lemma per part:

- `TieringTypes`; `PassInv`: what was read is below the cutoff, and the buckets in
  memory are those of the keys read.
- `RawPass`, `HourlyPass`: what the purge may still take. Raw keys on the list were
  read, and are in their hour by then, or overtook the read step; hourly keys on it are
  in their day.
- `HeldInv`: a point is somewhere, and a bucket has points of its own time only, all of
  them older than the raw retention. The last is what `RawWindowsFound` needs; that a
  day contains the whole of its hours is where `Day % Hour = 0` is used.
- `OnceInv`: unless a pass was cut short, a point is twice only between the bucket
  transaction and the purge of its key.
- `FrontInv`: with live sources, raw points wait at or above the cutoff unless under
  way, hourly buckets lie below them, and daily buckets below the hours of both. This
  needs the hour between the two retentions: without it an hour could be folded into its day
  while its last points are still raw.
- `ExactInv`: the buckets are the reference aggregation of their points. It is
  inductive only with `FrontInv`, because `first` and `last` are right only when an
  existing row lies before what is merged into it (R4 places it at the start of the
  bucket).

`NoPointLost`, `BucketsStayExact` and `RawWindowsComplete` state the three properties of
the run. The buckets are folds of the community modules over finite sets: that
such a fold exists and what one more element adds to it is `FoldExists` and
`AbsorbSays`, and `MergeExact` says that folding rows in time order is exact, for every
finite set of rows.

### energy-manager's MQTT path

`EnergyMqttProofs`:

- `LastStateRetained`: `PersistedWhenQuiet`, by `PersistInv`. The invariant
  says where the newest state is while something is under way: at the end of the
  messages of the call, else the last one in the queue, else retained; a repetition after a
  lost acknowledgement keeps it because it repeats the queue in order.
- `ClientImplementsBus`: every step of `MqttClient` is a step of `AppBus` on the four
  queues in a row, or a stutter. The invariant bounds what is held by what was
  published, and says that something is pending only after an outage. Reading
  the queues without the subscriptions distributes over the concatenation (`SiftedConcat`).
- `PathTypesKept`: the types of both parts; `PathKeepsItsWord`: both promises of the run.

### Alerts and Venus

`ServerBridgesProofs`:

- `JournalCloses`: `NoAlarmLeftOpen`. It rests on `AlarmInv`: a "triggered" waiting to be
  written belongs to a rule still active, and a notification is being sent only if
  there is one. As nothing is evaluated until all is told, no other step than the two named
  leaves a row without an alarm that is active or an end that is to be written.
- `SilenceIsShown`: `UnattendedDisconnects`. `VenusInv` relates the three clocks: the
  service cannot be younger than the last news, and a connected one is no older
  than the watchdog and the time since the last tick of the manager.
- `BridgeTypesKept`, `BridgesKeepTheirWord`: types and promises of the run.

### The RS485 bus

`AlwaysAnswersRequest`, in `ServerBridgesProofs`: `AnswersRequest`, for any drivers,
programs, retries and timing that satisfy `BusAssumption`. It is a statement about the
moment an answer is accepted; what makes it inductive (`BusInv`) is where the other
answers are meanwhile:

- `WireOK`: each answer under way is in one piece, its chunks of consecutive ranks; nothing is
  under way once the port is gone.
- `AirOK`: `Separated` says of each late answer that a driver's next request could take
  for its own (`Confusable`: same device and, for the poll loop, a register it reads from here
  on or may ask again) that its age and what the driver still has to wait reach its
  limit together, so it is in before the question is asked again and the flush
  takes it. `LongEnough` relates the age of what is fresh to the time since the write,
  and `Asked` says whose it may be: the device asked, or the master.
- `StreamOK`: of the current answer, what was accepted, what is in the buffer and what
  is on the wire follow one another without a gap, which is what makes the second
  frame of an answer that of its first.

The lemmas go by what happens: a driver goes on to a step or an attempt (`DalyGoesOn`,
`MovesOn`), leaves an answer behind (`LeftBehind`), asks (`GetsAsked`, `Transmits`), reads
(`TakesTheNext`, `ReadsOn`), and time passes (`GrowsStale`, `Ticks`). Here it showed that an
answer could be taken for that of the next cycle with one BMS only, or had the
flush not seen what had come; `ProgramsApart` and the guard of `Begin` are the result.

### The two controllers of a device

`DeviceControlProofs`, first the DEYE controller:

- `TypeCorrect`.
- `StaysOff`: `MinOffTime`. The invariant: while the relay is off, the age of the
  restore anchor is at most the time spent off.
- `NeverStranded`, `NeverLeftOn`: `RestoreInTime` and `CutInTime`. The invariants
  track the anchor against the time the condition has been steady: it is set at
  the latest one late tick after the change, and a steady condition older than the
  delay and a tick has been acted on when the next tick is due.

Then, for both parts of the run, `ControlTypesKept`: `ControlTypesOK`. For the client of the air
conditioner it says more than types: the queue, a `VecDeque` that the code does not bound, never
holds more than a session and six frames per payload received: two each for a mode and a target, one
each for the power and a special mode (fan speed, swing and power level, which are not modelled,
would add their own). `QueueInv` counts what
the fold of a payload's commands adds, each command one frame or two (`SetModeAddsTwo`,
`SetTargetTempAddsTwo`, `CommandAdds`, `PayloadAdds`), and that a new session starts from
nothing; `SettingsInv` says that a frame, an answer, the view and the unit hold a value of the
setting they are about, targets as bytes through the offset of the frost guard.

### The measurements and the decisions

`ReadSideProofs` and `DecisionProofs` are about `ReadSide`, one invariant per part, each kept
while another part is the one that runs:

- the file, `HistoryAlwaysKept`: `FileInv` adds that a program that writes holds the lock and
  works on a sound file, and `NamesFree`: the name of a quarantine, which is a second of the
  clock, is free, because the server was down for `RestartSec` since it last gave one.
- a reading, `SeriesAlwaysPaced` and `ReadingsStayInOrder`: `MarkInv`, the mark of a series is
  the time its last sample was built, unless the limiter was purged since; `OrderInv`, for
  the sources with one consumer, what waits is newer than all it will be put behind.
- the topics, `NeverOlder`: what waits in the queue is in order and none of it older than
  what is retained (`QueueInOrder`), each topic has what the tick publishes or is to
  have it yet (`Reached`); on the other side the messages of a topic are in order behind
  what is shown of its own fields (`Behind`), which no message of another topic sets;
  of a shared field nothing is claimed at a retained message, and other messages of both
  topics are in order.
- D-Bus, `ShownAlwaysHeld`: `ManagerHolds`, what the manager is about to emit is what the
  service holds, unless the console has written since.
- the battery and the yield, `AlwaysTodayOnly`: `EnergyInv` and `Bounded` for the sums and the
  baseline of the counter; `AllTrusted`, a baseline said to be of this day was read on this
  day, wherever it is (memory, queue, broker), and `BaselineInv`, it counts nothing of before.
- `DevicesObeyAlways` puts the four parts that decide together. Commands: the registers hold
  what was last written, what a client has read of one is that unless somebody wrote
  since (`GotHeld`), and the BMS has the value of a client that is writing. Charge current:
  the inverter has, or will have once the channel is empty, what was decided, from the settings
  published on. Presence: until a connection is lost the control has heard every
  report (`RoomFollowed`) and the last command is on its way, done or missed (`LastCommand`). Water
  heater: what should stop is stopped once the cooldown is over (`Stops`), the anchor of the hot
  tank is as old as the tank is hot (`Anchored`), and no target is due but that of the mode
  (`TargetKept`).
- `ReadSideTypesKept`: the types of the ten parts, from the ten invariants.

### Induction

The induction theorems of the library take a predicate as a parameter, which the
provers here cannot instantiate. Where a proof needs induction over a sequence or a finite
set, it takes the set of counterexamples, whose least element exists
(`LeastNatural`, from the well-foundedness of the naturals, and `BySubsets` for finite
sets), and refutes it. That is how `Sifted`, `SetToSeq` and the folds over sets are
reasoned about (`SiftingProofs`, the first part of `TieringProofs`). `FoldByExists` says that a
function folds any operation over the subsets of a finite set, in the order in which they
are picked: the folds of the community modules over rows (`TieringProofs`) and over the commands of
a payload (`DeviceControlProofs`) are instances.

### Only model-checked

- Liveness, and all that rests on fairness or ENABLED: `AcceptedSamplesSettle`,
  `QueuedSentinelEndsShutdown`, `SilenceRestores`, `ShowsTheUnit`, `LoopNeverParked`,
  `Reconverges`, `RecoversWithRoom`, `FollowsSteadyLevel`, `ShownConverges`,
  `AnsweringReported`.
- PromQL (`VectorAlgebra`, `BucketsAgree`): its evaluation is a recursive operator, which no
  module with a theorem can reach, and what it computes for every expression would
  be an induction over data.
- The other modules are checked in both ways: every invariant and every action property of
  their runs is a theorem.

## 5. Findings

Each is checked by a run that TLC ends with a counterexample.

1. `writer_hang`: on a full queue `shutdown()` gives the sentinel up after about
   100 ms and then joins a thread that nothing stops (`lib.rs:112`).
2. `tiering_twice`: after a crash or error between the bucket transaction and the
   purge, the next pass folds the same points again (`tiering.rs:186`).
3. `deye_frozen`: a charger frozen in Float holds the relay off while the other one
   reports (`deye_command/mod.rs:118`).
4. `relay_restart`: a dropped publication of the relay state is never repeated, and a
   later restart restores the old state (`deye_command/mod.rs:244`).
5. `client_wedged`: subscribing from the task that empties the request channel can
   wait for ever after an outage (`mqtt/client.rs:55`).

More was met while modelling. What a property leaves out is said in its statement and
in the note of its hazard:

- the minimum duration of an alert counts the time snapshots wait (`bridges/alerts.rs:164`);
- a baseline of the day just ended may be taken up between the local and the UTC
  midnight (`persist/baseline.rs:28`);
- a target temperature may reach the air conditioner 16 off (`machine.rs:77`);
- of a device with a task per reading an older reading may replace a newer one
  (`main.rs:549`);
- series that become alike after a relabelling are merged (`promql/exec.rs:262`);
- a renaming in the console may be lost (`switch_service.rs:373`);
- `mppt_yield_kwh` has two writers, of different topics, one of them retained: a reconnection
  shows an older yield, without the PV inverter, until the next solar message
  (`bridges/mqtt.rs:756`, `1074`);
- an alarm that is over when the server comes back from a restart, or whose "cleared" fails
  to be inserted, stays open in the journal (`bridges/alerts.rs:116`, `231`);
- a trigger within the cooldown is not journalled (`bridges/alerts.rs:169`), while
  `docs/alertes.md:418` says that the journal is not affected by the cooldown;
- the target of the water heater is never asked for again (`water_heater/mod.rs:323`);
- the read-only mode, "désactive TOUTES les commandes d'écriture" (`Config.toml:491`),
  stops the writes to the BMSs, not the switching of the ATS (`api/ats.rs:125`), whose model, moreover, is decided by one
  answer for the life of the process (`ats/poll.rs:187`), and whose unread status
  is published as neutral (`ats/poll.rs:239`).

## 6. What is not modelled

HTML and JSON, HTTP servers, D-Bus paths, frame contents and checksums,
floating-point arithmetic, the PromQL parser, the small bridges and deployment.
`PROJECT.json` gives the reason for each part. Within modelled parts: the firmware
cache (`FieldBus`), the calibration of the SOC and the reset of a BMS (`BmsCommands`),
the registration on the system bus (`VenusService`, `VenusKinds`), the texts and
channels of notifications (`AlertEngine`), rumqttc below its two channels and the
incoming broadcast with its lagging receivers (`MqttClient`), statistics of the RS485
devices and the WebSocket (`ServerState`), the yields of the chargers and summer time
(`DailyYield`), bytes, checksums and sensors (`ToshibaClient`).

The ATS is one of the drivers of `FieldBus`; its registers, its remote switching and the
decoding of the ET112, Shelly, Tasmota and irradiance values are not modelled.

## 7. Plan

In order of what is lost if it goes wrong. Done: the modules above. Left:

1. The incoming half of `AppBus`: a receiver that lags loses the oldest messages, a
   retained one among them that only the next connection repeats.
2. The registers of the ATS and its switching; alarm flags replaced by defaults carried
   through `AlertEngine`.
