# PoseBridge in TLA+

PoseBridge reads a WIT orientation sensor over BLE or serial, publishes its poses
to a C interface, a command line, a desktop client and two OSC receivers, and
configures and calibrates the device. Hardly any of it is difficult one call at a
time. What is difficult is that a control thread, one worker task, its select loop,
a slow and lossy device, a client with a thread of its own and a clock meet in a
handful of shared variables, and that the device keeps state of its own (a calibration
in progress, a format, a rate) that nobody can ask for atomically. These modules model
that part, check it with TLC on small instances, and prove much of the core of it for
every value of the constants with TLAPS.

Paths below are relative to `src/crates/posebridge-core/src/` for the core, to
`src/crates/posebridge-client/src/posebridge/` for the client (marked *client*) and to
`src/` otherwise.

## 1. Inventory

| component | state | operations | hard behaviour | module |
|---|---|---|---|---|
| Control facade (`controller.rs` 75-501) | task handle, done channel, cancel flag, operation, connection state, magnetic channel | `set_config`, `start`, `scan_start`, `inspect_start`, `configure_device`, `magnetic_start`, `stop` | the handle and the done channel do not agree; abort; panics; blocking opens | `ControllerLifecycle`; as others see it, `ControllerTask` |
| Acquisition worker (`controller.rs` 858-1290) | connection, pause, writer channel, two outstanding queries, health | open, pump (a select over ten branches), retry | lost answers, stuck writes, two queries on one writer, cancellation | `Acquisition` |
| Output path (`osc.rs` 115-196, `dolby.rs`, `controller.rs` 785-856) | slots, last keys, the Dolby reference | send now, defer, skip; recenter | a copy used after the lock is given back; deadlines; sessions | `PoseOutput` |
| Magnetic session (`magnetic.rs`) | phase, window, ownership, CALSW, operation, cleanup | monitor, start, stop, save, cleanup | ambiguous writes, late replies, other programs, cancellation | `MagneticSession` |
| Motion history (`motion.rs`, `controller.rs` 482-493, 653-783) | ring of records, delivery number, identifiers | publish a delivery, `motion_since` | cursors that outlive the session or the records | `MotionHistory`, `MotionFeed` |
| Device commands (`device.rs`, `controller.rs` 506-651) | progress of one operation, the cached description, the reference epoch | inspect, check, unlock, write, read back | partial failure, late and lost answers, cancellation, power cycles | `DeviceCommand` |
| Client settings (*client* `configuration.rs`) | expected settings, ordered pending writes, progress | inspect, write, inspect, finish | each step is a task of its own that can fail, or be stopped | `ClientSettings`, composed with `DeviceCommand` |
| Client worker (*client* `service.rs`) | view, request number, latch of a calibrating device, pending session write | admit, send, the command loop, publish, quit | two threads that see each other late; supersession; latches | `ClientService`, composed with `ControllerTask` |
| Client magnetic sweeps (*client* `magnetic.rs`; `magnetic.rs` history) | ring of readings, sweeps before, during and after, "end verified" | poll, cut, discard, start, end, save | a stream cut by phases that another program changes too | `Sweeps` |
| Mounting, check and coverage guidance (*client* `mounting.rs`, `coverage.rs`, `ui.rs`, `ui/calibration.rs`, `tracking.rs`) | chosen axes, three measured motions, a sweep | choose, clear, capture, resolve, adopt, guide | motions done wrong; connections that change in the middle | `Guidance` |
| Device page and window (*client* `ui/device.rs`, `ui.rs`) | baseline, draft, staged preset, preferences, close prompt | look, click, edit, apply, discard, stage, close | frames that draw an old view | `Panel` |
| Command line, C interface, C consumer (`crates/posebridge-cli`, `crates/posebridge-capi`, `examples/`) | interrupt flag, a controller, the consumer's last key | every command; every call; poll | stop after failed work; exit codes; hosts with any order of calls | `Programs` |
| Parser (`protocol.rs`), sample clock (`sample_clock.rs`) | a buffer of less than one frame; the last sample time | push, observe | resynchronisation; clocks that repeat and jump | `FrameParser`, `SampleClock` |
| Telemetry (`osc.rs` 198-291), battery estimate (`battery.rs`) | what was told last, deadlines; the last voltage | refresh; observe, fail | refused packets, failures | `Telemetry`, `Battery` |
| Simulator, pose arithmetic | small | tick, arithmetic | - | not modelled |
| Transport, BLE link, timer | operating system | open, read, write, close | they block, fail and hang | environment of the modules |

How they interact. A `Controller` owns at most one task at a time. The task writes a
`Shared` record under a mutex (connection state, operation, history, pose, magnetic
state, Dolby sender); the control thread reads and resets it under the same mutex.
`stop` sets a watch flag, waits five seconds on a done channel that the task's
epilogue signals, then aborts. `configure_device` hands a command to an open
magnetic session over a channel of one, or starts a task of its own. Outputs are
called by the acquisition worker itself between its other branches. Readers poll
with cursors and never block the worker. The client has a thread that owns a
controller, takes requests from a channel, polls and publishes a `View` under a mutex of
its own; the panel reads a copy of the view in each frame, decides by it and sends
requests that carry a number. The command line polls snapshots in one thread with an
interrupt flag; the C interface is a mutex around a controller. But for the client's
file of preferences there is no persistent state in the program; a crash loses
everything but what the device was last told.

What makes each component correct:

* facade - tasks never overlap, `stop` that returned Ok left nothing behind, every
  operation is settled once and by its own task, failures are reported;
* worker - one request at a time, no query stops for ever, silence ends a session,
  optional queries harm nothing, nothing old is shown as fresh;
* outputs - rate, order, accounting, a recenter that is atomic with the pose it is for;
* magnetic session - a calibration the program may have started is never forgotten,
  writes are neither repeated nor invented, `stop` returns;
* history - each sample once and in order or counted, and no change of session missed;
* device commands and settings - what is said of an operation, a description and a
  submission is what happened to the device, whatever was lost; everything ends;
* client worker - a device that may be calibrating keeps its latch until its end was
  verified, an idle panel is idle, nobody waits for ever;
* sweeps - readings of two calibrations, or of another program, are not mixed;
* guidance - a motion done wrong gives no mounting, one result is measured in one
  connection, the instructions lead on;
* page and programs - what can be clicked has what it needs, nothing is saved before the
  end was verified, no exit code hides a calibration left behind.

## 2. Modules and what they stand for

Every module has one action per handler, select branch, frame or step between two
awaits, atomic where the code holds the mutex or has no await between. `MC*` modules are
the instances; the bounds are in the `.cfg` files. Next to some actions stands a faulty
variant of it (a dropped guard, a forgotten reset, a swapped order); it is part of no
behaviour and is used to see that a property can fail: each property of each passing run is
violated when one definition is replaced by such a variant (`mutants` in `PROJECT.json`).

**PoseOutput.** A worker (`pc`: select, emit, osc, dolby), the control thread
(`Recenter`) and a clock. `CopyPose` takes pose, physical orientation and freshness
under the lock, `OscDone` sends without it, `DolbyDone` takes the lock again. Both
senders keep the slot arithmetic of the code (`next_slot + interval` or `now`). A send
is accepted, refused or (OSC) unencodable. Time is an integer, orientations are the
mark (session, sequence) of their sample.

**ControllerLifecycle.** Workers `1..MaxTasks` with a program counter from `spawned`
through the three parts of the epilogue of `launch` (publish the result, retire the
senders, signal done) to the end of the join handle, which comes later than the done
signal. What a task does is reduced to its kind and its end (Ok, an error, a panic,
cancelled). An open may hold its thread, as the serial open does (`transport.rs` 155-176): the
worker is then `blocked`, where no abort reaches it, for as long as it likes. `stop` waits its
five seconds and its one second, says that it timed out and forgets the worker, which is then in
`outlived`: it goes on when the open returns, beside the next task if there is one, and its
epilogue writes to the one shared state. `overwritten` records that one of them did since a `stop`
returned Ok, `unreported` the magnetic session whose failure no call has returned. These three
are history: no action reads them, except that a worker in `outlived` finds its cancellation at its
next look, and that the operation it settled may not have been its own.
`SetConfig` has the two cases of `set_config`: another configuration resets what the last task
left, the same one only stops a finished task, as `ensure_idle` does.

**MagneticSession.** The session (`run`, `monitor`, `execute`, cleanup), the device with
its calibration switch, the requests and replies under way, another program that may
start or end a calibration, the control thread with `configure_device` and `stop`, and
the epilogue. A register read is a request, a wait and a retry; replies carry a register and
no request number, so with `Slow = TRUE` a late reply may answer a later read. With
`IgnoredWrites` the device may drop a write.

**Acquisition.** `run` and `pump`: the timers are ages that grow with `Advance` up to the
last value that any test tells apart (`Cap`); each select branch is an action whose guard
is its own readiness; the branch that is taken is not determined, as in `tokio::select!`
without `biased`. The device answers at most `MaxAnswers` times between requests. What a
byte sequence decodes to is a choice. With `Prompt` the worker serves a branch that is
due before time goes on; without it the worker may be arbitrarily late. A device streams
or is asked (`polled`, chosen at the start, as `pose_input` is).

**MotionHistory** implements **MotionFeed**. MotionFeed is what `motion_since` promises, said
without a ring: samples are numbered from one in every session, a reader is told of each
once and in order, and what it came too late for is counted if more than `Capacity` newer
ones exist. MotionHistory has the ring, the cursor, and the two places that detect a reset
(`History::since` from its records, `motion_since` from the identifiers), with
`published <- samples` as the refinement mapping. The readers poll as the client's worker does.

**FrameParser, SampleClock, Telemetry, Battery** are functions with a little state of their own, and
are checked as such on all small inputs, by assumptions that TLC evaluates. The parser is held
against a reading of the whole stream at once: byte by byte it finds the same frames, keeps less
than a frame, counts every byte it drops, and finds again whatever follows noise. The clock numbers
its epochs without a gap and keeps the times of one epoch in order and within the tolerance. A
receiver of telemetry is told of a change at once, or one period after a packet that was refused; an
old battery reading is never shown as fresh.

**DeviceCommand.** An operation is the list of its steps (`Plan`: checks, unlock, pauses, the
write, what is read back), each an await. The link keeps order and may lose anything; a read repeats
its request, so an answer may come while a later step waits. The device is an environment: it
ignores what it was not unlocked for, falls back by itself, is switched off. `op` is the operation
status as `snapshot` shows it, `desc` the description that is kept, `refEpoch` the epoch of the reference.

**ClientSettings** extends it with the client's submission: an inspection, the writes that lead from
what was read to what is wanted, in the order in which the full frame keeps its rate, an inspection, and
whatever ends it. Single commands come before and after.

**ControllerTask** is the controller as its callers see it, with what the three modules about it
establish: one task, what it publishes and how it ends, `stop`. **ClientService** and **Programs** run over it.

**ClientService.** The panel sends by the published `view` (`Admits`, `Send`), the worker takes
requests, polls and publishes (`Takes`, `Polls`, `Publishes` after the order of the command loop); the
task moves at any time, another program may calibrate. `owes`, a history variable, holds the devices
whose start was announced and whose end nobody saw. `released` remembers that a write lost its guard to a session
that was retired while it waited; what is asked of `owes` is asked as long as that did not happen.

**Programs.** The command line (each command is a polling loop with an interrupt flag: `Starts`,
`WaitOperation`, `Stream`, the sequence of `calibrate`), the C consumer (`pose_consumer.c` with its policy of
ignoring repeated poses) and a C host that makes calls in any order, with a buffer for a snapshot
that grows between two calls.

**Sweeps.** The session with its phases and its history, the client's polls with cursor and
phases, the pending end, and what the page offers by stage. A reading is the calibration it was taken under.

**Guidance.** `mounting.rs` in signed axes (`CanComplete`, `Resolves`), the page's capture over
connections that are lost and remade, and the greedy guide of `coverage.rs` on a grid of octants.
The preferences may be loaded with any mounting of `Loaded`, which nothing validates before it is
used: one that is no rotation is shown in red and changed by nothing but the choices, "Clear
choices" and a check taken over. One device is selected throughout; saved numbers outside
-3..3, which name no axis, are left out.

**Panel.** A frame is `Logic` (the closing), `Look` (copy of the view and `sync_settings`) and one click;
the service is what this page sees of it: readings, connections, submissions, stops.

### Order and plan

The order was: PoseOutput, MagneticSession, ControllerLifecycle, Acquisition, MotionHistory, then
DeviceCommand and ClientSettings, ControllerTask with ClientService and Programs, Sweeps, Guidance, Panel
and the four functions. Acquisition and MagneticSession are two kinds of work under ControllerLifecycle;
they are not composed in one state space, which TLC could not walk: ControllerLifecycle takes
of a task only how it ends, and they take of the facade only that it may cancel. What remains to be
done: the records a `PoseSnapshot` is made of, which no module follows from the parser to a consumer.

## 3. Runs

| run | asks | bounds |
|---|---|---|
| `pose_output` | rate of both senders with catch-up bursts, accounting of dropped samples, the recenter and the session of its reference; every armed deadline is served | 2 sessions of 2 samples in 3 units of time, intervals 2 and 1 |
| `lifecycle` | `stop` releases, operations have a worker, failures are reported, cancelled workers end | 2 tasks, opens that may hold their thread for ever |
| `lifecycle_abort` (violated) | an operation that runs has a worker | 2 tasks |
| `magnetic` | ownership of a calibration, what `stop` promises, writes asked for; `stop` returns and commands end | 2 commands, 1 foreign step, 2 messages each way, arbitrarily late replies |
| `acquisition` | writer channel, freshness; polling goes on, a device that only answers battery requests loses its session | both kinds of device, prompt worker, 1 answer, pauses up to 2 |
| `motion_feed` | MotionHistory implements MotionFeed; current samples; and the functions: parser, clock, telemetry, battery | ring of 2, reads of up to 2, 5 samples, 3 reads a session, 4 identifiers, 2 readers |
| `device_settings` | what is reported of an operation, of the device and of a submission is true; the full frame keeps 20 Hz; everything ends | one operation or submission, 2 messages when a request is repeated, 1 power cycle |
| `client` | who started a calibration is not forgotten, one device owes an end, idle is quiet, nobody waits for ever | 2 devices, 3 requests, a channel of 2, 1 foreign calibration |
| `programs` | a save follows a verified end, exit codes, the consumer's duplicates, programs end | 2 sessions of 2 samples, 4 calls, a text that grows thrice |
| `sweeps` | sweeps of one calibration, compared around one, ends that were verified | ring of 3, 6 readings, 4 commands |
| `guidance` | one wrong motion is caught, results of one connection, every instruction leads on | mountings up to symmetry, 3 connections, 4 wasted turns |
| `panel` | apply has what it expects, the window does not close on an operation | 2 devices, 2 settings, 3 requests; devices symmetric |

Why these bounds are enough. PoseOutput needs a second session (reference, keys, order across
sessions) and a slot that a late worker has passed. ControllerLifecycle needs a task, which
may outlive its abort, and its successor, on whose state it then writes. MagneticSession needs a start and what ends it, a device that leaves the calibration by
itself or another program, and a second reply under way. Acquisition keeps the order of the code's
durations (period < retry <= stale <= first battery query <= write timeout <= response timeout <=
silence < battery period), in units that leave room for each to expire while another runs.
MotionHistory needs more samples than the ring holds, a cursor of an earlier session, and an empty
ring with an old cursor. DeviceCommand starts in every state of the device that matters, so that one operation
meets what an earlier one left. ClientService (whose invariants were also walked with 6 requests and a channel
of 3) and Panel need a second device and a request that
supersedes another that was itself not the first. Sweeps needs a calibration of its own, a foreign one and the
loss of a reading. `Max...` and `Capacity`-like bounds only end behaviours early; therefore deadlock is not
checked, and a system that is stopped may really do nothing.

Other properties are defined beside these and hold on the same instances, but are no part of a run,
which keeps each run to the questions that matter: `CheckIsCurrent` (for prompt links),
`OperationIsTheCommand`, `EndedStaysEnded`, `TimerCoversDeadlines`, `CancelEnds`,
`ReferenceCountedOnce`, `ChoiceIsOfARotation`, `EditsAreKept`, `PresetIsVerified`.

### Fairness

* PoseOutput: weak fairness of the worker's own steps. A task whose branch is ready is run.
* ControllerLifecycle: weak fairness of each worker's steps after its work, of an abort at the
  next await and of the calls in progress; nothing of the work itself, which may go on for ever.
* MagneticSession: weak fairness of the session's steps and timeouts. Device and link owe nothing.
* Acquisition: weak fairness of timers, and strong fairness of the two request branches, because
  `select!` picks among ready branches at random and a branch that is ready again and again is picked.
* ClientSettings: every await ends, by its own timeout at the latest, and the client's worker runs.
* ClientService: weak fairness of the worker's loop and of the task, whose awaits all end.
* Programs: each program is scheduled, and the awaits of its task end; the consumer's duration is over
  at some look at it (strong fairness). Whoever runs a C host owes nothing.

Sweeps, Guidance and Panel state no fairness: what they are asked is safety.

## 4. Findings

* `lifecycle_abort` - after `stop` had to abort its worker nobody settles the operation: its
  outcome stays `running`, while `docs/c-api.md:78` tells callers to go on checking it.

These properties are defined in the modules and do not hold; each says what a document or a comment
says, and a reviewer of the code may decide which of the two to change:

* a `stop` that returned Ok left no worker (ControllerLifecycle): the abort cannot reach a blocking
  serial open; the first `stop` returns `Timeout`, a second one Ok while the first worker still opens the port
  (`controller.rs:449`; `docs/c-api.md:22` says "stop 幂等并释放连接", `stop` is idempotent and releases the connection).
  Such a worker is in `outlived`, and the properties of the module name it where they must: it may live
  beside its successor (`OneWorker`), publish its own end as the state after the Ok (`StopOkReleases`), settle the
  operation of its successor in its epilogue (`OwnerSettles`; `controller.rs` 403-429 asks only whether an operation
  runs), and, as a magnetic session, clear the error of a later one (`MagneticFailureIsReported`; `magnetic.rs` 293-302).
  What it may never do holds: no Dolby sender is left, no running operation without a worker or an
  abort, no end of a worker that was not told of a timeout;
* `CalibratingWindowCollects` (MagneticSession): `execute` restores a phase read before its check; a save
  after the device left the calibration by itself reports `calibrating` over a frozen window
  (`magnetic.rs` 465, 516; `docs/magnetic.md:46-47`).
* `BatteryWriteDelaysNoPose` (Acquisition): a battery write delays a pose request by up to its two
  seconds where poses are asked for (`controller.rs:1116`, `transport.rs:278`).
* `GuardIsReleased`, `ClaimIsLatched` (ClientService): a latch outlives its calibration, and a claim
  is not latched, in orders of publications the comments do not name (*client* `service.rs` 456 and 67,
  364 and 374).
* `BaselineIsOfTheDevice` (Panel): a `set_config` that is refused leaves the old device's snapshot under
  the new name; the page then edits from it, and Apply, which compares first, writes nothing
  (*client* `ui/device.rs:51`, `docs/client.md:31`).

Observations that contradict nothing that is written down:

* core: on a link slower than the retry interval the CALSW check may take the reply to an
  earlier read; between check and write another program may act; the health check reads the clock twice, so that
  a silent device can be judged unsupported at the ten-second boundary; an inconsistent frame drops the
  poses of the same read; the tolerance of the sample clock is granted anew at every sample;
* client worker: a progress that ends in an error is published without a look at its request number
  (`service.rs` 633); requests that call `set_config` without `stop` may find the task before them still
  finishing and fail as busy;
* window: it may close on an operation clicked in the very frames in which it closes (`late`); a failed
  save of preferences asks for no further frame;
* sweeps: a foreign calibration that ends before a reading was taken leaves the sweeps together, and an own
  one that ends before its first reading leaves two in "after"; "Nothing has been saved" may be said
  after a save;
* guidance: a sample every 5 ms meets a view every 100 ms, so a capture can begin up to 100 ms into a
  new connection; two motions done the wrong way around give a proper, wrong mounting; with a wrong mounting the
  guide may go in circles;
* command line: a wait ends on two states only, or on Ctrl+C; `configure` exits with 0 for an outcome it
  could not verify. C interface: its mutex is held during `pb_stop`; the list of states at `lib.rs` 421 omits one.

## 5. Proofs

TLAPS checks these for every value of the constants that the named assumptions allow. The
assumptions say that the bounds are numbers, that intervals are positive, and for Acquisition the
order of the durations.

* `PoseOutputProofs`: types (`TypeCorrect`); the rate of both senders (`OscRateBound`,
  `DolbyRateBound`, together `RateBound`); order (`SamplesNeverGoBack`); the recenter (`RecenterIsAtomic`)
  and the session of its reference (`ReferenceIsCurrent`, together `ReferenceStaysSound`). The rate bound is
  not inductive: it compares two packets. Its strengthening `Paced` says that the next slot lies beyond each
  packet already sent by one interval for every packet after it, which the slot
  arithmetic maintains in a burst. `Position` says that the keys of the senders and the copy of `emit` are
  never ahead of the published samples, because only the worker publishes. `NoSampleUnaccounted` is about a sum over
  all sessions: that `MapThenSumSet` is well defined on a finite set (`AddsUpExists`) and changes by what is added to one
  term (`SumGrows`) are inductions over the size of the set; the invariant `Accounted` adds that the sender's key is the
  last sample sent of its session, so a packet's skipped samples are those between. `NoDeadlineSleptOver`: the timer.
  Of the telemetry, `ReceiversStayTold`, over any sequence of refreshes whose revisions do not decrease: a receiver
  knows the source and its state, unless a packet that was asked for less than its period ago was lost. What was
  told is either what is recorded, or the next packet is due by the deadline of a lost one (`InfoKnown`, `StatusKnown`);
  an info may be delivered and not recorded, when the status after it fails, and then it is the order of the
  revisions that brings the next one.
* `ControllerProofs`: of the tasks, types; `WorkersAreAlone`, `StopLeavesNothing`, `OnlyOwnersSettle`,
  `OperationsAreSettled` and `FailuresAreReported`. None assumes that opens return: the only assumption is that
  there is at least one task. The invariant relates the places that know of a worker: the task the facade holds, the
  worker's program counter, the owner of the operation and the channel of a magnetic session. `OneWorker` is not
  inductive: `LeftBehind` says what a worker that outlived its abort is (not the task any more, cancelled and aborted,
  begun), and `Known` that a call in progress has cancelled, then aborted, its task, so that the only way for stop to
  forget a live worker is into `outlived`. `Settles` is why an operation does not stay running without an abort: its owner is
  working or its epilogue will settle it. For the failure of a session, `SessionRuns` and `FailureIsKept` say that the
  phase is failed, or will be by the epilogue of a panic, while the facade holds the channel, unless an earlier session has left
  its open (`MagneticLoose`).
  Of the acquisition, types (`AcquisitionTypeCorrect`); `WriterIsNeverOverrun` (the flag `writing` mirrors channel and
  writer); `BatteryFailureIsHarmless`; `FreshPosesAreOfTheConnection`; `PausesAlwaysDouble`.
* `MotionHistoryProofs`: types; `FeedImplemented`, that every step of the history is a step of the
  feed or a stutter; `LatestStaysCurrent`; `AnchorsAreLast`. The invariant: the records are the last
  samples of this session in order (`Ring`, from a lemma on what pushing a delivery leaves of a
  ring); a cursor names a sample of a session already drawn, and one of this session a sample there
  is (`Cursors`); the sample a reader holds is of the session of its cursor (`Latest`); whatever came
  after it came in a later delivery (`Deliveries`). `AnswerIsOfTheFeed` says the answer of a query in the
  words of the feed.
  Of the sample clock, `EpochsStayCoherent`, over anything one connection is given: an induction over the samples
  (`Follows`, `BehindNext`) whose step needs that two spans of milliseconds, each rounded down, are no longer than
  the whole rounded down (`DivAddsUp`), for the tolerance is granted anew at every sample.
* `PanelProofs`: types; `ApplyNeedsAReading`, from the invariant that a preset is staged only on a page with
  settings and taken off with them; `ClosingIsQuiet`. That the window is quiet is not inductive: it must be known
  that the worker cannot bring back an operation. `InOrder` and `ShownAsAsked` say why: requests are taken in the
  order of their numbers, so until the worker publishes for the latest one the view shows what that
  request set, and an operation it works on for the latest request was shown since it was clicked.
  Every step is first reduced to what it does to requests (`Requested`, `Taken`, `Settled`,
  `Published`), and the invariant is carried over those four.
  Of the guidance: types (`GuidanceTypeCorrect`), `OneSlipCaught`, `ResultsOfOneSource`, `TurnsLeadOn`, and
  `ChoicesAreOfARotation`, which no run checks. They hold for every rotation in which the sensor may sit and any mountings
  tried or loaded (`GuidanceAssumption`); `ChoicesAreOfARotation` therefore says that whoever sets an axis gets out of
  a saved mounting that cannot be completed, and never into one. A slip is caught because two axes of a rotation determine the third
  (`SameRotation`). Results are of one session because the sample, the start of a capture and the source of a check are
  never ahead of the connection, nor behind what was heard of it (`Heard`, `Measured`). That every turn leads on is not inductive:
  `LeadsOn` adds that some unread direction is nearer than the turns wasted so far, and `TowardsGains` that an
  instruction, ties and opposite directions included, brings the reading one component nearer to its target.
* `ProgramsProofs`: types; `ExitsAreHonest`, from the invariant that a calibration nobody saw the end of is
  owned by the session that runs, or the failure of its clean-up was, or will be, told (`Accounted`, `Owed`);
  `SavesFollowTheEnd`, from `OneCommand`: the command a program waits for is the one queued, written
  and reported, so what it reads as the outcome of its stop is the stop's, and from then to the save
  nothing is owed. What each operator of `ControllerTask` leaves alone is a lemma of its own (`OutcomeSays`,
  `VerifiedSays`, `LaunchSays`, ...). The only assumptions are that there is a device and that the bounds of
  `ProgramsAssumption` are numbers.
* `ClientServiceProofs`: types (`ServiceTypeCorrect`); `NotConnectedIsQuiet`, for any devices, any number of requests
  and any room in the channel. The panel learns of an end from a snapshot read earlier and published later, so it
  must be known that nothing began in between: requests reach the worker in the order of their numbers
  (`InOrder`), a task at work has not published an end (`EndIsLast`), a request that was taken leaves nothing
  waiting (`Forgotten`), and then the worker's "Not connected" (`WorkerIdle`) and the panel's (`ViewIdle`) carry
  each other, the latter until a request is sent.
  On top of it: `StartIsHeld`, that a calibration the client announced is latched or keeps the window open
  until its end was seen, and `OneOwes`, that there is never a second one, both as long as no retired session
  released a guard (`~released`). Neither is inductive, because the latch comes from a snapshot that is late. So
  the invariant `GInv` takes a start from before the write (`Starting`: about to be announced, or owed) and says
  who knows of it at each place: the task and its operation agree (`OneOperation`), the worker is on its device
  (`OneDevice`), the panel shows what the queued requests will do (`Asked`), no other start can be let in
  (`Excluded`), the announcement is in the operation or in the session from which it will be latched (`Backed`), and
  what the worker holds for publication shows it (`Reported`). Each step of the worker and of the panel is
  reduced to what it does (`SendSays`, `JoinsSays`, ...), each step of the task to `TaskGuards`. Besides the bounds
  of `ServiceAssumption` it takes that the mark of "no device" is none of the devices.
* `MagneticSessionProofs`: types; `SessionOwnsItsCalibration`, that a start in effect is owned, `SessionStopReleases`
  and `SessionWritesWereAsked`, with devices that ignore writes as well. What a batch of replies does (`ObservedSays`) is an
  induction over the batch; the library's induction theorems take an operator, so `SetInduction` derives one for a set of
  numbers from the well-foundedness of `<`. Ownership is not inductive: an answer "no calibration" gives it up, and that answer
  could be older than our start. `LinkInv` excludes it: before a start the magnetic path is proven, so nothing asked
  earlier is still on the link (`PathIsLast`, `Flushed`), a start on the link is alone at its head (`StartFirst`), and while
  the device holds one no answer says zero (`OursIsSeven`). `Counted` balances the writes with the accepted commands and
  those queued or executed but not written. `SessionOperationIsTheCommand` and `SessionEndedStaysEnded` are proved
  and not run.
  Of the sweeps: types (`SweepsTypeCorrect`), `SweepsStayApart`, `OneCalibrationIsCompared` and `VerifiedEndsAreHonest`, for
  a history of any length. They count the foreign calibrations of which a reading was taken, and take it that a
  calibration the session knows of lasts to its first reading (`WasRead`). None is inductive: a poll takes readings that were taken long before it. So `SweepsInv` says
  which reading can come next at each step of a command (`Comes`), that the readings kept follow each other in that way
  (`InARow`, `After`), and that the sweeps of a client that missed nothing agree with each other (`Consistent`) and with the
  first reading it has not taken (`Sorted`, `SweepsKept`). A poll is an induction over the history (`AbsorbedSays`, again
  by `SetInduction`), which goes through because taking a reading leaves the sweeps sorted towards the one after it
  (`TakenSorts`). `EndKnown` relates the client's "verified" to the operation it last saw.
* `ClientSettingsProofs`: types; `OperationsAreHonest`, `FullFrameKeptAt20Hz`, `DescriptionsAreCurrent`,
  `ReferencesAreCountedOnce` of the device commands, and `AppliedSettingsHold` of the submissions made of them. The
  invariant `DeviceInv` follows an operation step by step: what may still reach the device was announced
  (`Announces`), the full frame's check holds until its write (`Frames`), an answer under way says what a register
  holds or is older than this operation's write, which holds by then (`Answers`), the calibration of the
  accelerometer is read behind its write (`AccelOrder`), a reset has confirmed its defaults one by one (`Resets`), an inspection
  what it has read (`Looked`), and nothing left on the link can undo a success (`Achieved`). `ApplyInv` adds that the
  write under way and those to come are of fields not yet verified (`Advancing`). The proof first says what
  each step leaves alone (`Only`, `RegsKept`, ...), for the device does not care who asks.

Only model-checked: the liveness properties (fairness is out of the prover's reach), what is asked of the parser
and of the battery, and that a duplicate leaves no trace in the clock. What the recursive definition of the parser
computes is an induction over data too, but with RECURSIVE operators, which the prover does not take; the
percentage of a battery is checked on every voltage there is.

## 6. Not modelled, and why

Floating-point arithmetic (pose conversions, the fit of a sweep's centre and spread, the statistics and the scale of the
magnetic field); the wire formats, which no property is about; the operating system's BLE, serial and timer
calls beyond their outcomes; drawing and layout; the simulator, which publishes on a tick and adds no behaviour
to MotionHistory and PoseOutput; the client's file of preferences, replaced as a whole; the checks of pointers and
arguments of the C interface and the command line, which are refused or accepted at once. Undefined behaviour does
not occur: core and client are safe Rust, and the `unsafe` calls of the timer and of the C interface are
outside the modules.

## 7. Running

`tlc -config <run>.cfg <MC module>` for a run (`PROJECT.json` lists the pairs), `tlapm <module>` for
the proofs. The longest runs, `acquisition` and `pose_output`, take about three minutes on two workers.
