# The ground station's flight core in TLA+

Models, model-checking runs and proofs for Aircast QGroundControl: its Rust flight core
(`groundstation/`), the part that talks MAVLink to a vehicle on every platform and keeps
what the user interfaces show, and the hosts that carry that core in a browser (`web/`).

## The system

The repository is a fork of QGroundControl. Its parts:

| part | where | what it is |
|------|-------|------------|
| flight core | `groundstation/src` | the vehicle sessions, links, plans, parameters, files, cameras, logs, settings |
| Qt application | `src` | upstream's C++ engines, which the flight core rewrote, QML views, the bridge to the core |
| native applications | `android`, `ios`, `windows`, `web` | user interfaces over the core's C and JSON interface |
| video and radio | `libs/wfb`, `src/VideoManager` | decoding, the WFB radio link |
| tooling | `tools`, `deploy`, `cmake`, `.github` | builds, packaging, translation |

The flight core is written without I/O: every engine is a struct with handlers
that take an event and a time and return actions. `hub.rs` holds one `Vehicle` per
system id, gives it every frame that arrives (`on_message`), pumps it every tick
(`pump_with`), turns an engine's actions into frames and timers, and feeds one
engine's results to the next. An engine's handlers never overlap, since the hub is behind
one lock; what interleaves is the operator, the timers, the network and the vehicle. Around
the hub there are threads: a reader per link, the pump, and whoever closes a link.

In the browser the core runs in a worker and is pumped by it. The page opens serial ports
for it, keeps its settings in the browser's storage, and shows what it publishes; the
sockets of cloud links are the worker's. Page and worker exchange messages.

### Components, their state and what makes them correct

* **Command coordinator** (`mavcmd.rs`): the commands that wait for an ack, the
  messages asked for and those that queue, the acks to be skipped because an
  emergency stop superseded their command. Operations: `send`, `request_message`,
  `on_ack`, `on_message`, `tick`. Correct when every ask is answered once, with the
  answer to it, and one message is asked for at a time. Hard: an ack names a command
  and not an attempt; message and ack come in any order; queue and requests are
  released from five places.
* **Plan transfer** (`plantransfer.rs`, one each for mission, fence and rally): the
  transaction, what it waits for, the items read and those to send, the plan held.
  Operations: `load`, `write`, `remove_all`, `guided_item`, four message handlers,
  `on_timeout`. Correct when each transfer ends, a read has each item once, and the
  plan held is the vehicle's. Hard: loss, duplicates over two links, answers later
  than the timer, jumps and home numbered differently by PX4 and ArduPilot.
* **Initial connect** (`connect.rs`, `standardmodes.rs`, the session in `hub.rs`): the
  step a new vehicle is at. Each step starts an engine and is ended by its outcome.
  Correct when every vehicle comes through. Hard: an engine may be busy with
  something else, or be finished by something else, when the step begins.
* **File transfer** (`ftp.rs`, `filejobs.rs`): a download's phase, gaps, bytes and
  16-bit sequence number, and the server's session. Operations: `start_from`, a handler
  per phase, `on_timeout`, `cancel`. Correct when each ends and what ends well is whole.
  Hard: lost, repeated and late packets of a burst; numbers that go on from one download
  to the next; listings, uploads and deletions share the server.
* **Parameters** (`params.rs`, `paramcache.rs`): the values shown, and requests by name.
  Operations: `write`, `refresh`, `refresh_quietly`, `on_param_value`, `on_param_error`,
  `on_request_timeouts`. Correct when a write ends kept by the vehicle or reported failed,
  and what is shown at rest is what the vehicle has. Hard: an answer names a parameter and
  a value, not the write; writes wait for a place. The load (the list, its gaps asked for by
  index, ArduPilot's file, PX4's cache and its hash) is another protocol over the same
  messages: `start`, `start_cache_only`, `refresh_all`, `load_pack` and five timers. Correct
  when it ends with every parameter known or given up. Hard: each way falls back on another,
  and each value stops and restarts the timers of the rest.
* **Links of a vehicle** (`note_link`, `check_links`, `update_primary_link`,
  `keep_vehicles_on` in `hub.rs`): the links it is heard on, which are lost, which is
  primary, on which it is sent to. Correct when that is a live link. Hard: three threads,
  and kinds of links that the hub learns later than the links themselves.
* **Signing** (`signing.rs`): a channel's key, whether it signs, what it accepts, the change
  under way. Correct when station and vehicle understand each other whatever becomes of a
  change. Hard: the vehicle may have taken a change that looks failed.
* **Events** (`libevents.rs`, `Receiver`): the last number, the current one, the retry.
  Correct when events come once, in order, and none that can be had is missed. Hard: gaps
  shown by four kinds of message, numbers that wrap, restarts.
* **Settings between tabs** (`web/src/core/client.ts`, `worker.ts`): each tab has its own
  core and saves the text of all settings. Correct when no tab wipes another's change.
* **Watched paths** (`web/src/bridge/Qgc.ts`, `router.rs`): components hold paths, the core
  watches them and polls. Correct when a component comes to see the newest value and never
  an older one again.
* **Serial ports of the page** (`client.ts`, `platformserial.rs`): correct when page and core
  agree on what is open, and no port stays open for nobody.
* **Cloud and WebSocket links** (`web/src/core/cloud.ts`): a loop of attempts that the core
  may close at any await. Correct when it reconnects while it is wanted and ends when not.
* **Link hosts and transports** (`linkhost.rs`, `transport.rs`, `*link.rs`): sockets, their
  threads, and the registry of what is open. **Onboard logs** (`onboardlogs.rs`), **operator
  control** (`operatorcontrol.rs`), **cameras** (`cameraproto.rs`), **gimbals**
  (`gimbal.rs`), **calibration** (`sensorcal.rs`): engines like the first, smaller.

`PROJECT.json` lists every part with what is modelled of it, and every hazard with the
line where it bites and the properties that cover it.

The engines meet in the hub. A step of the connect starts an engine (a message request, a
metadata fetch, the parameter load, a plan read), and the engine's last action calls
`step_done`. Metadata fetches, the parameter file and the operator's file jobs share one
FTP server and one sequence number. Guided items share the mission engine with plan
reads. Every command goes through the coordinator, but for a few that are sent past it.

## The modules

| module | models | extended or instantiated by |
|--------|--------|------------|
| `PlanTransfer` | `Transfer`, its slot's timer and error in the hub, the vehicle's mission protocol, the network | `MCPlanTransfer`, `MCPlans`, `MCSession`, `PlanTransferProofs`, `MCPlansProofs` |
| `PlanPromise` | what a transfer promises the hub (abstract) | `PlanTransfer` |
| `MavCommands` | `Commands` for one component, the component's answers, the network | `MCMavCommands`, `MCCommands`, `MavCommandsProofs`, `MCCommandsProofs` |
| `CommandPromise` | what the coordinator promises whoever asks (abstract) | `MavCommands` |
| `Connect` | the connect's steps with the hub's handlers that begin and end them | `MCConnect`, `MCVehicle`, `VehicleProofs` |
| `ParamWrites` | requests by name of `Params`, the vehicle's parameters, the network | `MCVehicle`, `VehicleProofs` |
| `ParamLoad` | the load in `Params`, its timers and ArduPilot's file in the hub, what the vehicle answers | `MCSession`, `SessionProofs` |
| `FtpDownload` | `Download`, its timer and sequence number in the hub, the vehicle's FTP server, the network | `FtpProofs` |
| `VehicleLinks` | a vehicle's links in the hub, the registry, readers, pump and operator | `MCSession`, `SessionProofs` |
| `SigningChannel` | `Channel` of one link, the vehicle's key, another component, the air | `MCSession`, `SessionProofs` |
| `EventReceiver` | `Receiver`, the vehicle's event buffer, the network | `MCSession`, `SessionProofs` |
| `SettingsTabs` | pages, workers and the browser's storage | `MCWeb`, `WebProofs` |
| `WatchBridge` | components, the registry of `Qgc.ts`, the router | `MCWeb`, `WebProofs` |
| `WebSerial` | the page's ports and turns, the core's links, the browser | `MCWeb`, `WebProofs` |
| `CloudRelay` | `keepConnected`, the sockets, the core's links | `MCWeb`, `WebProofs` |

`MCWeb`, `MCVehicle` and `MCSession` put several of these on one small instance. Where the
parts share no state, a behaviour exercises one of them while the others rest, which
checks each as if it were alone without a product of their states; fairness is then each
part's own. `MCPlans`, which `MCSession` extends, and `MCCommands` do the same with
instances of one module on different networks and vehicles.

Variables carry the names of the fields they stand for, and the comment at each gives
the field. An action is one call into an engine with everything the hub does with the
actions it returns: `PlanTransfer!Timeout`, for one, is the due check of the pump, the
`on_timeout` of the engine, and the `StartTimer`, `Send` and `Done` it returns.

Time is abstract. A timer is a flag `due`; its action may happen whenever it is set, so
an answer may race it either way. Where a property needs the network to be faster than
the timers, a constant `Prompt` lets a timer fire only when nothing is in flight, or a
history variable `late` remembers that one did otherwise.

Data is abstract too. A plan item is a sequence number, whether it is a jump, and one
number. A command is one of four codes that stand for the code's rules: `Arm` (may be
superseded), `Interval` (may be sent twice), `Autotune` (IN_PROGRESS ends it on PX4) and
`Request` (retried, has a message). A byte of a file is its file and its offset.

### Plan transfer

`Load`, `Write`, `RemoveAll`, `GuidedItem` are the operator's or the connect's requests,
`OnCount`, `OnItem`, `OnRequest`, `OnAck` the handlers, `Timeout` the pump. A stray
message of another kind falls through `Expecting`, as in the code. The vehicle
(`VehicleReceive`) is `mock_link`'s mission protocol, which is in the repository; it
may also refuse. Messages carry no transfer id, here as in MAVLink.

### Command coordinator

The vectors `entries`, `requests` and `queued` only grow at their end, so each is a
function on the numbers of the asks. `told` records what everyone who asked was told; of
a message request it records the `RequestResult`, while the `Result` of its own
REQUEST_MESSAGE command is left out. `heard` records acks that arrived while their own
command was pending. `EmergencyStop` cancels a pending arm and marks its ack to be
swallowed. `AskOutside` is the version ask, which sends REQUEST_MESSAGE by itself.

### Initial connect

Each engine is reduced to whether it is at work, on the grounds that the other modules
show that it ends. What remains is the wiring: which handler calls `step_done`, for
which step, and what else may occupy or finish the engine meanwhile. A read, a write and
a removal of a plan are one `Transfer`. A parameter value that comes unasked is one of
the default component. The load is the one engine that may stop with nothing under way and
no report: after it was loaded, and, when the constant `Unheard` says that none of the
autopilot's parameters arrives while a camera's do, before (`LoadEndsUnheard`).

### Parameters

A value is the number of the write that gave it, so two are equal only if they are the
same. The vehicle takes, keeps its own, refuses or lacks a parameter (`treats`).
`ParamValue` is `answer_requests` and `took_value` together: it ends what it matches, and
a write that was not taken is read back. `Releasing` is the `release_writes` every handler
ends with. Requests by index and progress are left out.

The load is `ParamLoad`: the handlers of `Params` are operators that make new parameters of
old ones and note what they ask for, and `Follow` sends that off, as `follow_params` does. A
component's parameters are its indices. What was asked for and has yet to come is a set, so
answers come in any order and as late as they like; a component may be silent. The file is
what becomes of it (`FtpDownload` has the fetch): taken, declined at once or after a timer,
or unanswered. `fill_batch_queue`'s loop is written as what it reaches: the gaps before
which the queue has room and does not hold their index.

### File download

Files are fetched one after another, each under the number the one before left. Sizes
are checked or not (`checkSize`: metadata is checked, the parameter file and the
operator's jobs are not). `Cancel` is the operator's, and waits for the end of the
session; `Abandon` is the pump's, and does not. The server has one session, answers a
burst as a stream of packets that may be told complete at any packet, may refuse any
request but a reset, and fills every packet but the last. A link may be out for a while,
repeat a packet, or die. Left out: writing to the local file and its errors, progress,
several sessions, packets with no bytes. The branch of `on_burst` that only stops the
timer needs a number exactly 32768 behind and is unreachable in the model.

### Links of a vehicle

`Decode` and `Frame` are the two halves of a reader's turn, between which the link may be
closed; `PumpSees` and `PumpTells` the two halves of `pump_once`, which takes the locks of
registry and hub one after the other; `LinkCloses` and `HubHearsOfClose` those of
`registry_close`. `known` is the hub's `LinkKinds`, which the pump brings. The `Vec` of
`link_states` is a function from the links to the number of those before them. Speech,
notices and several vehicles are left out.

### Signing

A message is signed with a key or none. `Detect`, `Confirmed` and `Failed` are the three
ways a channel changes on a frame. The vehicle, once it signs, hears only what is signed
with its key, takes a change or refuses it with a text; a camera of the same system may
beat unsigned. `astray` remembers a disable that ended without the vehicle's say.

### Events

The vehicle counts without end, the wire carries the number modulo `Modulus`. It keeps the
last `Depth` events and answers a request for another with the oldest it keeps after the
number asked for. `stamp` is the event, by boot and number, whose time the station
remembers. An event more than ten seconds older than it is taken for a restart, and whether
it is that much older is left open: it may be one of a new boot, or an older one of the same
boot that was repeated or asked for twice and comes late. `setBacks` counts the latter.
`basis` is history: where the station began to count.

### The hosts in the browser

Page and worker are event loops joined by two FIFO channels; each action is one callback up
to its next await. Storage events are queued per page. `LeavesTime` and `LoadsAlone` of
`SettingsTabs` keep an operator from changing settings in two tabs at once, or while one is
loading. In `WatchBridge` a path's value is a number that grows, and `poll_motion` polls
some of the paths. In `WebSerial` the work on one port is chained by promises (`onPort`),
and the browser's port fails, is unplugged and comes back. In `CloudRelay` each await of an
attempt is a phase in which the link may be closed.

## What is checked

| run | bounds | what it shows |
|-----|--------|---------------|
| `commands_all` | PX4, 2 messages, 2 asks, a stop, an outside ask, 2 tries, loss, lateness; ArduPilot, 3 asks, a stop, no loss | one request at a time, `CommandPromise`, every ask is answered; in time answers go to their own asks and are heard |
| `vehicle_all` | connect: all autopilots, 2 modes, a refresh, values, jobs, guided items; parameters: 2 names, 3 values, 3 asks, 1 resend, 1 write in flight, loss | every step is under way, nothing outlives its step, FTP is shared, the connect completes; writes end kept or failed and are shown as they ended |
| `ftp_all` | 2 files of 3 packets, 1 retry, numbers that wrap, one fault, one cancellation, a link that dies | bytes and gaps account for each other, whole files, no failure without a reason, every download ends |
| `web_all` | 3 tabs, 2 settings, 3 changes, 3 loads; 2 components, 2 paths, 3 watches; 3 links on one port, a stream error, an unplugging; 2 cloud links, 3 losses | no setting is wiped, tabs agree; components see the newest value and none twice; page and core agree on ports; cloud links reconnect and end |
| `session_all` | 2 links (direct and cloud, plain and high latency), 2 troubles; 2 keys, one kept, 3 changes, 2 losses; 3 events of which 2 are kept, numbers modulo 12, a drop or repeat, a restart, an old event taken for one; 2 components with 2 and 1 parameters, all ways to load, 1 retry each, a batch of one, one loss, repeat, unasked value or refresh, any lateness; plans: ArduPilot slow (a 3-item plan, one too long, 1 message each way, loss, repeats, lateness) and in time, PX4 in time (plans of 2 and 3 items, one with a jump, 2 messages each way, loss), 1 retry | commands go out on a live link, cloud gives way to direct; station and vehicle understand each other again; events whole, in the end all, in order and once until one is set back; every parameter known, waited for or given up, and the load under way until it is over; no plan item lost or doubled, `PlanPromise`, every transfer ends; in time the known plan is what a read gives and a write stored what it sent |

Why these bounds are enough to meet the cases. Three items give a first, a middle and a
last, and a jump that points inside the plan. One retry is the least that tells asking
again from giving up, and the counter is reset by answers, so more retries repeat what
one shows. Two messages in flight per direction allow an old and a new answer at once.
Two messages and three asks give one request under way, one queued, one command beside
them. Three packets give a burst with a gap in front, in the middle or at the end, a gap
larger than a packet, and a last packet that is not full. The sequence number starts a
few below 256 and wraps within the first download; the code's 65536 differs from it in
size only. With one write allowed in flight the second waits and the third repeats one of
the two. Three tabs are the least in which two answer each other while a third listens.
Three links on one port give one that closes, one that opens meanwhile and one that waits
behind. Two links are the least with a choice, and their kinds are those between which
`best_primary_link` has a rule of its own; what holds for more of them is proved. Two
losses lose both copies of a signing change. Three events with two kept give gaps the
vehicle can and cannot fill, and start two below the wrap or at 0; one set back is the
least that delivers an event again and asks for what follows it a second time. Two parameters and one of
another component, with room for one in the batch, give a gap that waits for room, an index
that two components have, and gaps given up, since an answer may be later than every timer.

Some facts bound what the properties say:

* `InTimePlansAgree` (`KnownPlanIsTheVehicles` and `WrittenPlanIsStored`) is stated for a
  network faster than the timers: on a slower one a late item of a repeated request is
  appended out of order, and a late request of a failed write is served from the next
  (`plan_late`).
* `WriteTooLong` right after a guided item leaves the slot's error unset: `follow_plan`
  looks at `finished`, which a refused write does not set. `KeepsPromise` allows it.
* `InTimeAcksAreOwn` is stated for one emergency stop. Two that supersede the same arm share
  one mark, since `superseded` is a set; with `MaxStops = 2` the second is told the
  answer to the first.
* In `vehicle_all` the operator, file jobs and unasked values interfere from the parameter
  step on. A refresh of parameters before it starts a load that the parameter step then
  takes for its own and whose end came before (`RefreshesAt` earlier breaks
  `StepIsUnderWay` and `ConnectCompletes`); a file job before it does not keep a metadata
  fetch from starting (`JobsAt` earlier breaks `FilesTakeTurns`).
* `EndsRightly` of a download whose size is not checked is stated for answers that were not
  later than their timer. Otherwise a burst repeated after a timer answers under numbers
  already used, an end of file may carry the number expected before all came, and a short
  file counts as whole.
* The parameters have three such facts. `Fresh`: no value is written to a parameter twice;
  otherwise X, Y, X with a lost PARAM_SET ends the last write by the answer to the first,
  though the vehicle keeps Y (`EndsKeptOrFailed`). `Apart`: a calibration does not ask for a
  parameter that is being read; otherwise its `refresh_quietly` (hub.rs:974) replaces the
  read-back of a failed write, and the failure of that read is not reported
  (`ShownIsTheVehicles`). `Prompt`: an answer comes within its timer or not at all;
  otherwise a late answer to an earlier write is taken for the read-back, and a late error
  fails the next write. PARAM_VALUE and PARAM_ERROR carry nothing that would tell these
  apart.
* `LoadIsWhole` leaves out a load in which others were heard and the default component was
  not: the wait is repeated once, and then nothing is under way that completes the load or
  reports it failed (params.rs:933-951, 1015-1021). What becomes of the connect then is
  `connect_unheard`; in `vehicle_all`, `Unheard` is FALSE, and `StepIsUnderWay` and
  `ConnectCompletes` hold only with it so. `LoadIsWhole` does not say that what is given up
  after the parameters are ready is reported, because `missing` is set only then, nor how
  often a gap is asked for before: a value of one component takes the same index of another
  out of the batch (params.rs:857), which counts as one more try.
* `NothingIsWiped` is stated for an operator who changes a setting in one tab at a time and
  not while another loads (`LeavesTime`, `LoadsAlone`). Of two changes made at the same
  moment one is lost whatever the order, since each save writes the whole text; without
  `LoadsAlone` it is `web_wiped`.
* `WiresFollowTheCore` leaves out cloud links closed while their token was awaited: the
  attempt goes on and connects, and its transport stays open until it fails (cloud.ts:40).
* `CloudGivesWay` says nothing of high latency. The command that starts a high latency link
  is refused as a duplicate while the one that stops another waits for its ack
  (mavcmd.rs:273), and is never sent when the link was heard before its kind was known; it
  is not sent again, so such a link may be primary and not transmit, against the wording of
  a test ("starts transmission on a high-latency primary", hub.rs:11932).
* A link that opens and is heard between the two halves of a pump's turn is dropped, with a
  vehicle heard on it alone, until its next frame; a frame decoded before a close brings
  the closed link back until the next turn. `PrimaryIsLive` holds through both.
* `UnderstandAgain` leaves out (`astray`) a disable that is refused, given up or cancelled
  by a change of the primary link though the vehicle took it, after which the station
  accepts only signed frames from a vehicle that signs none (signing.rs:412), and one that an
  unsigned heartbeat of another component confirmed (`advance` compares the system only).
* `InOrderAndWhole` says that events come in order and once only while no old event was set
  back, that is, more than ten seconds older than the last and taken for a restart
  (libevents.rs:613-618). Such an event, answered twice after an outage or repeated late, is
  delivered again, and so are those after it that are still kept, which a test's name
  excludes ("duplicates are dropped", libevents.rs:1118). That none is
  passed over is stated, and proved, with set backs too.
* `InOrderAndWhole` counts from where the station counts. A restart that an event shows, not
  CURRENT_EVENT_SEQUENCE, begins with that event, and so does one whose reset was heard
  before any event of the new boot (libevents.rs:613): what came before it is not asked
  for. A retry set before a reset stays set, and asks for a number that does not exist yet
  until one does.
* `TransfersEnd` of a plan assumes the network does not repeat messages for ever: an item
  that is not awaited restarts the timer.

`CHECK_DEADLOCK FALSE` stands where a bound on asks, downloads or transfers lets the
system come to rest.

### Disagreements with the repository's tests

Seven runs expect a violation, each of a property the repository states:

* `plan_jump`: after a PX4 write with a jump the known plan keeps the jump as it was sent,
  one less than a read gives.
* `plan_late`: a write answers item requests that belong to the write before it.
* `commands_stop`: when the superseded arm or its ack is lost, the emergency stop's own
  ack is swallowed and the stop is reported unanswered.
* `connect_guided`: a guided item still unanswered when the mission step begins makes
  `load` do nothing, and the connect never completes.
* `connect_unheard`: when a camera's parameters arrive and none of the autopilot's do, the
  load ends with nothing under way and no report, and the connect never leaves its
  parameter step, whose timeouts are said to advance
  (`docs/en/initial-connect-state-machine-analysis.md:91`, `:295`).
* `web_wiped`: a tab that is loading does not hear of a setting saved by another, and its
  next save puts the older value back.
* `web_stuck`: after an error of its stream, or a close while it was being opened, a port
  stays open with nobody to close it, and every later open is refused.

Two more disagreements have no run. An event that is answered twice, more than ten seconds
later, is delivered twice (above), though the test `a_gap_asks_for_the_missing_event_and_duplicates_are_dropped`
(libevents.rs:1118) says that duplicates are dropped; it repeats an event of the
same time. `InOrderAndWhole` without its `setBacks = 0` is violated by it in the model of
`session_all`. And the wait after a first failed attempt is four seconds in
the browser and two in the native relay, though `cloud.test.ts:5` says the former "backs
off like the native relay". The models leave the length of waits out.

### Fairness

Readers hand on every frame and the pump looks at every timer ten times a second, so
handling an arrived message, an expired timer and a due tick are weakly fair. The
vehicle reads what reaches it and a server sends the burst it began; nothing says that
it agrees, and nothing is fair about the network: messages may be lost for ever. No
operator action is fair. In `Connect` that each engine ends is weak fairness. Of message
asks, plans and downloads `EveryAskIsAnswered`, `TransfersEnd` and `DownloadsEnd` justify
it. Of the load the fairness says only that it ends with a report or, where the code lets it,
without one: `LoadIsWhole` has a timer or a request under way until the load is over or has
gone unheard, and each of its retries is counted. A component says
IN_PROGRESS a bounded number of times, without which a command's timer restarts for ever.

In the browser the event loops of page and worker run, and a promise of the browser
settles: a port's open or close, a token's request, a socket. `MCWeb` asks of each part one
weak fairness for all of these together, which is less than each module's own and enough,
since what the operator and the network do is bounded there. `VehicleLinks` asks that the
pump turns; `SigningChannel` that the autopilot beats, what is sent and not lost arrives,
and timers run out; `EventReceiver` that the vehicle answers and tells its number again and
again, and that the timer runs out.

## What is proved

For all plans, message sets, parameters, links, paths, tabs, retry limits, capacities and
networks, but for the hypotheses named with each:

* `PlanTransferProofs`: `TypeCorrect`, `TransfersAreTimed`, `ReadsAccountForEveryItem`
  and `TransferKeepsPromise`. The inductive invariant is `TypeOK`, `WaitsAreTimed`,
  `ReadAccountsForEveryItem` and `CountComesFirst`: while the count is awaited no item is
  held. Without it the items of a read that begins again could be second copies. The
  refinement maps each action to a step of `PlanPromise` or a stutter.
* `PlanTransferProofs`: `WrittenPlansAreStored` (`WrittenPlanIsStored`) and
  `KnownPlansAgree` (`KnownPlanIsTheVehicles`), the two halves of `InTimePlansAgree`, under
  `InTime`: nothing arrives after a timer or twice (else `plan_late`), and for the second
  `~SkipFirst`: jumps are numbered alike both ways (else `plan_jump`). The invariant
  (`Agreeing`) adds what is on its way: one question or its answer, which is of the present
  wait, behind at most the ack that closed a read; that the items a read holds are the
  vehicle's, number by number; and that of a plan being written the vehicle has
  the items below the one it asks for next.
* `MCPlansProofs`: `InTimeTransfersAgree` (`InTimePlansAgree`), for the composition that the
  run checks, under `~SkipFirst`, which is true of its constants. What is proved of a step
  of the transfer is taken over by `INSTANCE PlanTransferProofs`, once with the constants of
  the ArduPilot that is heard in time and once with those of the PX4, and each action of
  `MCPlans` is shown to be the action proved about.
* `MavCommandsProofs`: `TypeCorrect`, `RequestsTakeTurns`, `CommandsKeepPromise`. The
  invariant adds to the types and `OneRequestAtATime` that what is held is held once and
  has not been told: each number is in at most one of `entries` (a request's own command
  aside), `requests` and `queued`, and nothing held has an answer.
* `MavCommandsProofs`: `AnswersStayOwn` (`AnswersAreOwn`, `AcksAreHeard`), under `Calm`:
  nothing is lost, late or sent past the coordinator, one stop at most, and not PX4, where
  the ack that ends an autotune comes again. An ack names a command, so the
  invariant (`Own`) is about order: the commands on their way out and the acks on their way
  back form one line per code, in the order of the asks; each member is of an entry or of
  the one superseded arm, which comes before every later arm; and every entry but an
  autotune in progress has a member. So the first of a line belongs to the entry that has
  waited longest, which is the one `on_ack` takes. `commands_stop` is what a loss does.
* `MCCommandsProofs`: `InTimeAnswersStayOwn` (`InTimeAcksAreOwn`), for the composition that
  the run checks, with one stop at most, in the same way from `MavCommandsProofs`.
* `SessionProofs`: `CommandsGoOutOnALiveLink` (`PrimaryIsLive`), for any finite set of
  links of any kinds. The invariant adds that no high latency link is ever lost, because
  `best_primary_link` keeps a high latency primary without looking whether it is live; and
  that holds because the pump drops the links whose kinds it does not know before it looks
  at the silence of the rest. That some link is the first heard is the well-foundedness of
  the numbers.
* `SessionProofs`: `EventsInOrder` (`InOrderAndWhole`: nothing kept is passed over, ever, and
  events come in order and once until one is set back) under `KeepsFew`,
  `Depth + MaxEvents < Modulus`: a request for a number finds one event at most. The
  invariant (`EventStory`) gives each number on the wire the event it stands for: in the last boot
  the station heard of (`heard`) there is one that `latest` is the number of (`count`), if
  the station counts in that boot at all, and for each message there is the newest event
  when it was sent (`level`). Messages keep their order, so of one boot the levels never fall
  and `count` is not above them; an event at the number expected is therefore the next
  one, and an error skips only what is gone. A set back puts `count` below what was delivered, so
  that nothing delivered is above `count` is claimed until then only. `compare` is right because all of this lies
  within `MaxEvents` of the first event that the station may hear of (`base`), and
  `Modulus` is more than twice that, by assumption: some 32000 events on one vehicle.
* `VehicleProofs`, writes: `ParamTypeCorrect` (no request is sent more than `MaxResends` times again)
  and `WritesWaitForRoom` (`HeldWritesWaitForRoom`). The invariant is the two themselves; the
  argument is about cardinalities: a write that ends leaves exactly one place, which the
  first held one takes.
* `VehicleProofs`, writes: `WritesEndKeptOrFailed` (`EndsKeptOrFailed`) under `Fresh`, and
  `ShownEndsRight` (`ShownIsTheVehicles`) under `Fresh`, `Prompt` and `Apart`; "what is
  checked" tells what goes wrong without each. The first invariant says that behind the value
  last written nothing older is on its way, to the vehicle or back, and that an answer with
  that value shows that the vehicle took it. The second adds that all that is on its way for
  a parameter not being written is what the vehicle has, that errors come only from one that
  refuses or lacks it, and that what is shown is that value, or is being read, or was
  reported unread.
* `VehicleProofs`, connect: `TypeCorrect`, `NoStepWaitsInVain` (`StepIsUnderWay`), `NothingIsLeftOver`
  (`NothingOutlivesItsStep`) and `TransfersTakeTurns` (`FilesTakeTurns`), under
  `Undisturbed`: the autopilot's parameters are heard (`~Unheard`; else `connect_unheard`),
  refreshes, values and jobs come at the parameter step or later and guided
  items after the mission step, as in `vehicle_all`; "what is checked" tells what breaks
  earlier. The invariant adds the types and `NothingEarly`: before the parameter step no
  load, file or job is under way, nothing is loaded before that step
  ends, and guided items occupy the mission's engine alone, after its step.
  Replays are included, which the runs leave out.
* `VehicleProofs`, both: `VehicleTypesCorrect` (`MCTypeOK`), under `Undisturbed`. A connected
  vehicle, from which the behaviours start that read and write, satisfies the invariant of
  the connect, and steps of one part leave the other's variables alone.
* `SessionProofs`, load: `LoadTypeCorrect` and `LoadsAreWhole` (`LoadTypeOK`, `LoadIsWhole`), for any
  components with any number of parameters, any retries and batch. The handlers are
  operators on the parameters, so the invariant (`Fine`) is a predicate on them, kept by each
  handler on its own; the actions then add which handler follows what. `FineBut(p, S)` is
  what holds between two steps of one handler, when a value has left the gaps and is not yet
  known. What is hard is that the load is carried on (`CarriedOn`): a timer is left by
  every handler that ends without the load being over, but for a gap that cannot be asked
  for. `NothingLeftToAsk` shows that there is none: the gaps have an order, so the first one
  that may be asked for finds room in an empty queue, and if none may, all are given up.
  That `hash_answered` folds over the cache needs no induction theorem: of the lengths for
  which there is no fold, and of its steps that are not fine, there would be a least one
  (`LeastOfSome`, the well-foundedness of the numbers).
* `SessionProofs`, all parts: `SessionTypesCorrect` (`MCTypeOK`). To the invariants of links
  and load it adds that the places of a vehicle's links are the first numbers and that what
  is lost or quiet is a link of it; that every message of the vehicle is of a boot it had,
  as is the event the station's stamp is of; that set backs are as few as their bound; and that the retry timer runs only once there
  is a number to ask for. No `KeepsFew` is needed.
* `FtpProofs`: `TypeCorrect` and `BytesStayAccounted` (`TypeOK`, `BytesAccounted`) under
  `Distinct`, `4 * MaxDownloads + 2 * MaxCancels + 2 < SeqMod`. An answer is known by its
  number alone, so the answer to the open of an earlier download could come at the
  number expected, had the numbers gone once round since. Messages keep their order, so
  no burst is read while an open is on its way: until it is read the numbers move
  only with what begins and ends downloads, by four for each and two for each cancellation.
  With 65536 numbers `Distinct` allows some 16000 downloads on one vehicle. The invariant (`IInv`) then says that an open at the
  number expected is the last message in flight, so that what comes after its answer is this
  download's (`Session`), and that a read in flight lies in the first gap or before it
  (`ReadsFit`), which is why `on_fill` may shorten that gap by the answer. `Covers` has the bytes and the
  gaps as the offsets up to one number, each once and in order.
* `FtpProofs`: `DownloadsEndRightly` (`EndsRightly`) under `Distinct` and `Short`,
  `Size <= DataLen * (SeqMod - 2)`: a file has fewer packets than there are numbers (65534
  of 239 bytes, 15.6 MB), else a burst passes one number twice. While no answer is later
  than its timer, the packets of a burst in flight that are not yet spent are ahead of
  the expected offset by as many packets as their numbers are ahead of the expected number, and
  only the last of all is the end (`InStep`); so an end at the number expected finds all of
  the file passed. `Calm => UnderWay` is the second half: while nothing is lost, late, refused or
  cancelled, there is exactly one thing under way, a request, its answer, or a burst
  without a gap, and `Failed` is not reached.
* `WebProofs`, cloud and WebSocket links: `RelaysFollowTheCore` (`WiresFollowTheCore`). The
  invariant says of each phase of `keepConnected` which of the send function, the close
  function and the wire it has.
* `WebProofs`, watched paths: `HeldPathsAreWatched` (`WatchesWhatIsHeld`) and `ValuesNeverGoBack`
  (`NeverGoesBack`). The invariant adds that the registry counts the components that hold a
  path, that the last list sent asks for the paths counted, and that the values of a path
  on their way are in order, none newer than the router's and none older than any the page has shown of it. The
  property is about that history (`seen`), which a path that is dropped and watched anew
  keeps: what is shown of a path is nothing or the newest of all that was shown.
  That `NoPath` is no path is an assumption.
* `WebProofs`, serial ports: `SerialLinksAreServed` (`LinksAreServed`). The invariant says
  of each link, for where it stands at the core, which turns, session and messages of it
  there may be, that its open is before its close, and that a port that is being opened or
  closed has the turn that does it. That `Nothing` is neither link nor port is an assumption.
* `WebProofs`, settings: `NothingIsWipedInTime` (`NothingIsWiped`), under `LeavesTime` and
  `LoadsAlone`. The invariant says that changes are under way in one tab at most, that this
  tab had heard all that was saved before, so that what it has yet to save only grows from what is
  stored to what its core holds, and that what each other tab hears last is what is stored.
* `WebProofs`, all parts: `WebTypesCorrect` (`MCTypeOK`). A change is counted when a worker
  handles the call that asks for it, so the bound on changes holds because the changes made
  and the calls on their way that ask for one are together no more than it (`Room`).

Each invariant was first checked with TLC as an invariant of a run.

Only model-checked:

* All liveness (`TransfersEnd`, `EveryAskIsAnswered`, `ConnectCompletes`, `DownloadsEnd`,
  `EveryWriteEnds`, `CloudGivesWay`, `UnderstandAgain`, `CatchesUp` and the four of the
  browser), which needs ENABLED and fairness the prover does not handle.

The library's induction theorems take an operator as a parameter, which the installed
provers cannot instantiate. The one recursive function here, the fold of `HashAnswered`, is
reasoned about with a least counterexample instead.

## Plan

Done: plan transfer, commands, connect, downloads, parameters, the links of a vehicle,
signing, events, and the hosts of the web app. Left, in this order:

1. `ParamLoad` composed with `Connect` in place of its `loading` flag, its three counts
   bounded apart; the liveness of the load when its default component is heard, of which TLC cannot
   evaluate ENABLED in reasonable time as the handlers are written.
2. `FtpJobs`: listing, upload and deletion on the server and channels of `FtpDownload`,
   which move to a module of their own; that jobs and fetches do not mix.
3. `OnboardLogs`: listing and download over the log messages (onboardlogs.rs:402-980), whose
   fall back from FTP and late log data race (onboardlogs.rs:716).
4. `StandardModes`, refining the modes step of `Connect`; `OperatorControl`.
5. `ConnectPromise`: the connect as a bare sequence of steps, implemented by `Connect`.

## What is not modelled

The C++ engines of the Qt application are those of upstream, which the flight core
rewrote one for one and the native applications do without; the models are of the Rust
ones. The rest of the applications is user interface. Video, radio, terrain, maps,
positioning and firmware update are hardware, web services, or parsers. Plan editing,
surveys and calibration are numbers and documents changed by one thread. Settings and
records are files. Of the web app there are left out the device socket (`socket.ts`, a queue
until it opens), downloads of files (`files.ts`), video (`whep.ts`, `recorder.ts`), and what
samples or speaks (`GamepadInput.ts`, `SpeechOut.ts`). Within the modelled modules: wording,
logging, progress, speech, JSON, MAVLink encoding, and the simulated vehicle but for its
mission and parameter protocols.

By lines of TypeScript the modelled part is small: nearly all `.ts` files of the
repository (795,572 of 859,962 lines) are Qt translations, which are XML with the same
extension, and most of the rest is user interface and its tests. The logic is in the Rust
core, where the modelled engines are.

## Running

`tlc -workers 2 -config <cfg> <module>` for a run (`PROJECT.json` pairs them), and `tlapm
<name>Proofs.tla` for the proofs. The longest run takes about three minutes.
