# A TLA+ model of koyu-runtime

koyu-runtime runs a robot's software as supervised processes that talk over
shared memory, and records episodes of synchronised camera frames and signals.
This directory holds TLA+ modules for the parts of it where order, delay and
failure matter, the TLC configurations that check them on small instances, and
TLAPS proofs of what they promise for every value of their constants. Line numbers below are those of `src/koyu_runtime/`.

## The system

| Component | State it keeps | Operations | Talks to |
|---|---|---|---|
| Data recorder: capture (`services/data_recorder.py` 228-417) | frames deferred, rows, answers held per paired topic, latest sample per window topic, fence, decimation grid | START, STOP, DISCARD, tick; abort and auto-stop | camera, lockstep responders and window sources, by streams |
| Data recorder: episodes (same file 100-150, 401-485) | capture_id, context snapshot, futures, telemetry; on disk `.tmp-*` directories and bundles | finalize on a one-worker pool, collect, telemetry, sweep at start | raters by inbox, telemetry cell and rings |
| File inbox (`services/inbox.py`) | files in a directory, a quarantine | submit, drain, quarantine | CLI, raters, services |
| Parameter server (`services/param_server.py`) | one struct per topic, a JSON file, a frame_id | batch of requests: validate, publish, save | CLI by inbox, every reader of the live cell |
| IPC logger (`services/ipc_logger.py`) | last frame_id per topic, a byte-capped ring of image files and its counter | poll, log on change, save and evict | every topic; `koyu frame` |
| Browser bridge (`services/bridge.py`) | per connection its tasks and listeners; per stream the last JPEG; per viewer a subscriber | subscribe, unsubscribe, listen, ring, set-param; /mjpeg, /frame | browsers, every topic, channels |
| Streams, blackboard, events, node (`ipc/`) | queues, cells, doorbells; one node per process | publish, drain, write, read, create-or-reopen | iceoryx2 |
| Reactor (`ipc/service.py`) | ports, listeners, a tick | one thread: ticks and events, clean exit | every service |
| Warden (`warden/boot.py`, `warden/supervisord_client.py`, `cli/bring_up.py`) | services.yaml, supervisord.conf | up, apply, restart, down | supervisord by XML-RPC |
| Configuration (`warden/services.py`, `conf_generator.py`, `ipc/checks.py`, `ipc/types.py`) | none | parsing, generation, static checks | warden |
| CLI (`cli/main.py`) | the recording context file | set, get, context, tail, frame, ... | all of the above |

What is hard in it:

* A recorder handler drains several queues one after the other while cameras
  and responders go on publishing. A frame may wait many ticks for the answer
  that carries its frame_id; answers come late, in bursts, or not at all.
  Queues overflow silently. The wall clock that stamps frames may step back.
* An episode is written by a worker thread while the next one records. Context,
  identity and verdict must stay with the episode they belong to, through
  failed writes, SIGTERM and crashes.
* Everything that crosses process lives (inbox files, the JSON file, bundles,
  the blackboard segment) meets a successor that starts its counters again.
* A crashed process goes on holding its ports until someone reaps it, and living
  readers keep a dead writer's segment: its successor creates, sweeps and reopens
  while readers die and start around it. A writer that ends in order gives its
  handle back a moment late: its successor may be there first, fail, and use up
  supervisord's retries.
* A write to a blackboard may fail, and some callers do not look at the answer: the
  cell stays as it was until there is something else to say.
* The bridge's tasks are cancelled at an await and end later; while one waits for a
  slow client nobody empties its listener's bounded queue; its encoder threads
  share a cache; a lost peer is noticed only by writing to it.
* Commands of the warden run beside each other, may be interrupted, and change
  supervisord one call at a time.

PROJECT.json lists each such hazard at its line, with what no property covers.

## Modules

| Module | What it is |
|---|---|
| `Session` | abstract: one recording takes later and later frames, no more than `Cap`, and ends once |
| `Capture` | the capture pipeline in detail; implements `Session` |
| `Ledger` | abstract: the one fate of every capture, and the one ring that tells it |
| `Recorder` | the life of an episode around its capture, with worker, verdicts, telemetry and crashes; implements `Ledger` |
| `ParamServer` | one topic of the parameter server, its inbox, its file, the live cell and a frame_id reader |
| `Warden` | the koyu commands against supervisord |
| `LatestValue` | abstract: one cell that only moves forward, and readers that copy it |
| `Ports` | a blackboard topic through the deaths of its writer and readers; implements `LatestValue` |
| `Logger` | the IPC logger's ring of images on top of `Ports` |
| `Bridge` | one WebSocket connection: its messages, tasks and listeners |
| `Video` | /mjpeg viewers, /frame, the encoder's threads and cache, the publisher's slots |
| `MC*` | instances for TLC |
| `CaptureProofs`, `EpisodeProofs` | theorems about `Capture`, and that it implements `Session` |
| `RecorderProofs` | theorems about `Recorder`, and that it implements `Ledger` |
| `ParamServerProofs`, `BridgeProofs`, `VideoProofs`, `WardenProofs` | theorems about the module they are named after |
| `LoggerProofs` | theorems about `Ports` and that it implements `LatestValue`, then about `Logger`, whose process is one of the readers |

### Capture

A handler of the recorder is a chain of steps tracked by `pc`: `sources` (the
caches are refreshed), `clock` (the clock's queue is drained behind the frames
already deferred), `frames` (one step per deferred frame) and `after` (abort,
auto-stop or hand-over). Publishers, time and the camera's restart move between
any two of them. `_frame` is split by its outcome, in the code's order of tests:
`FrameWaits` (no answer yet; more than CLOCK_BUFFER deferred aborts),
`FrameFenced` (stamped before START), `FrameBackwards` (abort), `FrameGated` (off
the record_hz grid), `FrameStale` (a window source too old: skip before the
first row, abort after it) and `FrameRow`.

Frames carry a `seq` that the code does not have, next to the `frame_id` it
does: this is what lets a property say "the answer to this very frame" after a
camera's restart. `Enqueue` is iceoryx2's safe overflow as the code configures
it. A topic has a queue of one, its history, until its lazy subscriber opens
(`Arrived`); that sample reaches the subscriber with the publisher's next send
(`connected`, `Send`) and is lost if the publisher dies before it. Data that no
property tells apart (pixels, joint values) is not there.

### Recorder

The reactor's thread is `pc`; the worker's is `job`; other processes submit
verdicts and set the context at any moment. One action per step that another
party can observe: listing the inbox, unlinking each file, judging each request,
writing the telemetry, ringing, creating the temporary directory, the sidecar,
the rename. `intent` says what the handler does after the verdicts are drained.
Which frames become rows is left to `Capture`: here `CaptureThen` adds a burst, one of
the numbers in `Bursts`, or aborts. As in the code the cap is looked at only after the
burst (`TickCheck`), so an episode overshoots MAX_FRAMES, and STOP's last burst is never
checked. `Tell` is `_telemetry`: what is to be shown counts as shown before the write
is tried, and a write that fails is not tried again; `fails` is the writer's count, and
at its limit the exception ends the process (`TellRaises`). `TakeJob` to `WriteFails` are
`finalize`, `Terminate` and `Exit` the clean exit, `Kill` and `Restart` a crash and
`setup`. The inbox and what was listed of it are sets; the number a file was submitted
under is its place in the sorted listing. `snapped`, `taken` (the rows recorded under a
capture), `lost` and `told` are history. A crash is one of the process: nothing here
speaks of data that the operating system had not written to the disk.

### ParamServer

Each tick drains the inbox file by file, applies the requests in order,
publishes once if anything changed and saves once if any change asked for it.
Values carry the number of the request or edit they come from, which the code
does not know; a listing is handled in the order of these numbers. `PublishParams` may
fail: it takes its frame_id, the cell stays as it was, and nobody tries again before the
next applied request; at WRITE_FAIL_LIMIT failures in a row it raises and ends the
process (`PublishRaises`). `Kill` may fall between any two steps; the disk and the
blackboard's segment survive. `Poll` is the on-change test that the logger and
the bridge share.

### Warden

A koyu command is a process that walks through `boot.up`, `apply`, `down` or a
restart, one file access or one call to supervisord at a time (`pc`). What
reloadConfig() answers is in `left`: the groups to remove, to replace and to add that
`update_group` has not been called for. `NextGroup` takes one of them, of a list in any
order (supervisord does not sort them) and the lists in the order of the code;
`calls` are the calls left for the group at hand (`Retire`, `Replace`, `Add`), each an
operation and a service.
`conf` is `Torn` from the moment `write_text` empties it until it is written.
services.yaml is read twice, by `Load` for what will be generated and by `Validate`
for the validators, and may be edited in between; `Broken` stands for every file
that cannot be loaded, the constant `Invalid` for the definitions that the
validators refuse. The cleanups of an `up`, the sweep among them, are a step of their
own (`Sweep`): another command may act between validation and them.
supervisord is external: what it accepts (`Stop`, `RemoveGroup`, `AddGroup`, ...)
and refuses (`Refused`) is modelled from how the client uses it and what its
faults mean. On its way down it stops its services first and answers every
call with a Fault. Services end by themselves and are launched again. The
segments that `sweep_segments` removes under live services are `wiped`.

### Ports and Logger

`Writer.__init__` is a chain of steps (`create`, `sweep`, `recreate`, `open`,
`blank`), for between any two of them a reader may start, open, crash or exit.
A segment lives while some process holds it; a crashed process holds on until
`SweepDead` (iceoryx2's `cleanup_dead_nodes`, called by every first `node()` and by
`sweep_dead`), and with the writer's process goes its slot. A writer that ends in order,
by SIGTERM or an exception, leaves its handle behind (`leaving`) until `Teardown`: a
successor that reaches `open` before that finds the slot taken and exits
(`OpenFails`), as KNOWN-ISSUES.md:11 tells. supervisord is external: it starts a writer
that ended, but one that ended too soon only StartRetries more times (`early`), then the
writer is `fatal` until somebody restarts it (`AfterEnd`, `Restart`). Whether a life
lasted startsecs is a choice. `holds` is the segment
a process has open, `cells` the value of each. A value is the writer's life and the
write's number. `missed` is history: writes lost since the last that landed.

`Logger` adds the service's `on_tick` on one image topic, the logger being one of
the readers: `Tick` reads and compares, `Save` and `Evict` are the file
operations of `FrameRing.save`, one step each, so that a death may fall between
them; the line logged about the image afterwards is left out. `files` survives, `count` does not. `RingIsNewest` says of a logger that was not
restarted that its files are the newest images in order, fit FRAME_CAP between saves,
and would not with one image more: nothing is evicted too early either.

### Bridge

One connection, one event loop: an action runs from one await to the next. A task
is known by the number of the message that began it; `registered` is `sub_tasks`
and `listen_tasks` in one. `Cancel` marks a task, and `Cancelled` ends it when the
loop resumes it. `Message` is what all handlers share. A stream gives a new
subscriber its history only with the next sample (iceoryx2-guide.md 4a), where it
has no room in a buffer of one: `since` is what was newest when the port opened.
A listener's `queue` is a bounded FIFO (iceoryx2-guide.md:274): a ring that meets
QueueDepth others is lost, and `dropped` remembers it. `opaque` are the topics whose
struct has no JSON: `send_json` raises on the first value, and the task ends with the
client still there (`SendFails`).

### Video

`Look` drains a viewer's subscriber and hands the frame to a thread, `Store` is the
thread's write to `_frame_cache`, `Encoded` takes what the cache holds by then and
pushes it. `socket` is `lost` when the peer has gone without a word, `unsent` once
something was written to it since; TCP gives up on that one only (`GiveUp`), and
only then does the handler learn of it and leave its slot. A frame that cannot be encoded
raises in the handler, which ends (`EncodeRaises`). `older` is history: the older frames
that other threads were encoding when a viewer took its own. Any number of threads may
encode at a time, also one frame twice.

## Runs

| Run | Checks | Bounds and why they are enough |
|---|---|---|
| `capture_paired` | `BuffersBounded`, `RowsInOrder`, `PairedExactly`, `NoSilentGap`, `Implements`, `SilenceEndsRecording` | one paired topic, queue of 2, three frames, one backwards step: overflow, deferral across ticks, bursts and a step back all happen; MAX_FRAMES = 2 lets auto-stop fall inside a burst |
| `capture_window` | `NoSilentGap`, `RateHonoured`, `GridWithinPeriod` | one window topic, periods 0 to 2, wall time to 5, one camera restart: stalls longer than a period, staleness before and after the first row |
| `recorder_episodes` | `BundlesTrue`, `VerdictsAccounted`, `NoOrphans`, `TelemetryCurrent`, `Implements`, `HandoverAnswered` | two captures, two verdicts, one context change and one stop: the second episode records while the first is written, a verdict names any capture there was, the context changes between the two STARTs or not, the stop falls between any two steps; bursts of none or two rows on a cap of one overshoot it; one failed telemetry write is survived, two in a row are not |
| `params` | `RangeKept`, `LastSetWins`, `PersistedSurvives`, `AppliedOnce`, `FrameNamesContent` | two params, one with a range, values 0 and 1, three requests or edits, two deaths: batches of several, mixed persisted and live, valid and not, a crash on each side of a save; a publish that fails, the next that catches up or the second that raises |
| `warden` | `ReturnMeansApplied`, `OnlyChangedStop`, `SweepAtBoundary` | two commands at a time, two services of two definitions each, one pair of which the validators refuse, one edit, one interruption or death of supervisord; the two commands are symmetric |
| `logger` | `FreshOnceUp`, `FailFast`, `SharesOneCell`, `ReadersRecover`, `RingIsNewest` | the logger and one other reader, one crash or exit of any process, two lost writes with a limit of two, or one after the stop, three writes a life, one retry of a start that ended too soon, files of one and two bytes in a ring of three: reopening with living and with dead holders and before the last handle is torn down, giving up, FATAL, evicting one and several |
| `bridge` | `NoStrayTask`, `EveryRingOnce`, `SentOnlyWhileWanted`, `ClientCatchesUp`, `TasksEnd` | one stream, which JSON can carry or not, one channel, three messages, two values, three rings over a queue of two: subscribe twice, listen, unlisten and listen again, rings during a send, one too many for the queue, a client that leaves or is lost at any await. A blackboard differs from a stream only in `Reads`, and is left out of the instance |
| `video` | `ViewerCatchesUp`, `DeadViewerLeaves`, `PicturesAdvance` | two viewers and /frame over two slots, two frames: contention for slots, overlapping encodes of one frame and of two, ending in either order, encodes that raise, peers lost at any point |
| `capture_idle_frames`, `capture_restart`, `warden_down`, `logger_newest` | one documented statement each, which the code does not keep | just large enough for the counterexample |

`capture_paired`, `recorder_episodes`, `warden` and `logger` check their type invariant
too; that of every module is proved. Deadlock is checked everywhere but in `bridge`, where a connection
that has ended stops: elsewhere time, ticks, reads or commands are always possible.

### What the failing statements show

* `IdleFramesIgnored` ("fence: ignore frames queued while idle", data_recorder.py
  309): the paired match is tested before the fence, so a frame from before START
  whose answer is gone waits at the head of `deferred` until the recording aborts.
* `PairedExactly` with a camera restart ("exact rows or a loud abort", test_paired.py
  1): answers are held by frame_id alone; after a restart a new frame meets an
  answer to an old one.
* `DownMeansGone` ("wait until it's fully gone", boot.py 88): a Fault counts as not
  running, and that is what a supervisord on its way down answers.
* `NewestShown` ("newest", cli/main.py 286; "oldest evicted", ipc_logger.py 39):
  `FrameRing` counts from 1 again after a restart of the logger, while the files of
  its previous life are still there under higher names.

Met while modelling and not kept as runs: "Validators run so a bad edit aborts before
anything reloads" (boot.py 75), but they read services.yaml for themselves, so that an
edit before loading and another before validating put a definition they never saw into
supervisord.conf (two edits in `warden` reach this); a param set without `persist` reaches the
disk with the next persisted set (param_server.py 119); a reader that compares
frame_ids skips a change across a restart of the server (param_server.py 67); of two
`koyu up` at a time the later may sweep under the services of the earlier (boot.py
59); two encodes at a time may leave the older picture in the cache (bridge.py 248),
where an idle page goes on showing it; a telemetry or a param that the board refuses
stays stale until the next change (data_recorder.py 450, param_server.py 104);
and a dead viewer of a stream of which the bridge has no picture yet is never probed
(bridge.py 332).

## Fairness

* `Capture!FairSpec`: weak fairness of `Tick`, of the handler's steps and of time.
  The WaitSet's interval keeps firing, the loop handles every attachment that
  fired at each wake-up (service.py 127-137), so no stream of events starves the
  tick, and a handler runs to its end. Publishers owe nothing: the camera may
  fall silent, which is the case `SilenceEndsRecording` is about.
* `Recorder!FairSpec`: weak fairness of the reactor's handlers and of the worker,
  a thread of the pool that the operating system schedules. A write that hangs is
  excluded; one that fails is not. Operators, raters, signals and crashes owe
  nothing.
* `Logger!FairLogger`: supervisord starts a process that ended while its retries last, a
  constructor and a `write` that raises go on, a handle left behind is torn down some
  time, readers poll. Nobody owes a write, a crash, a sweep or the restart of a writer
  that is FATAL: `ReadersRecover` ends there.
* `Bridge!FairSpec`: the event loop resumes each task in its turn, a client that
  stays takes what it is sent, however late, and the handler notices a closed socket.
* `Video!FairSpec`: the loop and the executor's threads go on, a peer that is there
  takes what is written, and TCP gives up on data that nobody acknowledges.
* `ParamServer` and `Warden` state no liveness.

## Proofs

A theorem holds for every value of the constants that the named assumptions of its
module admit: any topics, sizes, caps, periods, limits and numbers of processes, and
any bounds, so for runs of any length. None of the properties is inductive as it
stands; the table says with what each proof strengthens it. The proofs have one step
per action.

| Theorem | Property | Inductive invariant |
|---|---|---|
| **`Capture`** | | |
| `TypeCorrect` | `TypeOK` | itself |
| `BuffersStayBounded` | `BuffersBounded` | `BInv`: the slack of one burst is whole when `_capture` begins, and the deferred frames fit again when it ends |
| `RowsAreOrdered` | `RowsInOrder` | `OInv`: the clock's queue, the deferred frames and the rows each ascend, and each is ahead of those behind it |
| `PairingIsExact` | `PairedExactly` | `PInv`: frame_id and frame number agree everywhere; needs `MaxRestarts = 0`, and `capture_restart` shows why |
| `RateIsHonoured`, `GridStaysWithinPeriod` | `RateHonoured`, `GridWithinPeriod` | `RInv`: the grid is past row i by one period for each row since |
| `NoGapIsSilent` | `NoSilentGap` | `GInv` while the wall clock has not stepped back: stamps ascend along the pipeline, and from any frame that waits every later frame waits too or was evicted; it rests on `OInv` |
| `CaptureKeepsPromise` | `Implements` | initial states and steps map to those of `Session`; it rests on `BInv` and `OInv` |
| **`Recorder`** | | |
| `RecorderTyped`, `BundlesAreTrue`, `VerdictsInOnePlace`, `OnlyTheWriteInProgress`, `TelemetryIsCurrent` | `TypeOK`, `BundlesTrue`, `VerdictsAccounted`, `NoOrphans`, `TelemetryCurrent` | `RInv`: which handler may be where (`Control`), a capture is one job or one bundle (`Minted`), a job carries the context of its START (`Truth`) and the rows recorded under its capture (`Counted`), a temporary directory belongs to the job in progress (`Tidy`), a verdict is in one place (`Placed`), a result agrees with the bundles (`Resulted`), what will be looked at again has not been rung (`Awaited`, `Aborted`), and the telemetry cell shows what the recorder wrote last, if that write landed (`Told`) |
| `RecorderKeepsPromise` | `Implements` | each step keeps the fate of every capture but one or moves that one as `Ledger` allows; it rests on `RInv` |
| `RingsTellTheTruth` | what was rung of a capture is true of its fate, and neither changes again | `RingsTrue`, kept by every step of `Ledger`, and so by the recorder's |
| **`ParamServer`** | | |
| `ServerTyped`, `RequestsAppliedOnce`, `RangesKept`, `NewestSetOnBoard`, `PersistedStays`, `FrameIdentifies` | `TypeOK`, `AppliedOnce`, `RangeKept`, `LastSetWins`, `PersistedSurvives`, `FrameNamesContent` | `SInv`: a request is in one place (`Apart`) and handled in turn (`InTurn`, `Steps`); memory, board, scratch file and file hold copies of each other and none is older than what it must cover (`Copies`, `Covered`), the board only while its last write succeeded; a frame_id stands for what was published under it (`Framed`) |
| **`Ports`** | | |
| `PortsTyped`, `NoStaleCommand`, `RaisesAtTheLimit` | `TypeOK`, `FreshOnceUp`, `FailFast` | `PInv`: who lives holds what it opened (`Holding`), as does a handle not yet torn down; a writer that has opened its segment holds the newest (`Owns`), which shows an older life until the explicit write (`Top`), and the counter of failures is the run of lost writes (`Counted`) |
| `TopicIsOneCell` | `SharesOneCell` | initial states and steps map to those of `LatestValue`; it rests on `PInv` |
| `ReadersNeverGoBack` | no live reader gets an older value after a newer one | `Behind`: no copy is newer than the cell; it rests on the refinement |
| **`Logger`** | | |
| `LoggerReadsPorts`, `LoggerSeesNoStaleValue`, `LoggerFailsFast`, `LoggerSharesOneCell` | `Ports!Spec`, `FreshOnceUp`, `FailFast`, `SharesOneCell` | a step of `Logger` is a step of `Ports` or leaves its variables alone |
| `LoggerTyped`, `RingKeepsNewest`, `NewestIsShown` | `LoggerTypeOK`, `RingIsNewest`, `NewestShown` while the logger lives its first life | `LInv`: what is logged is an image (`Small`, `Logged`); the files are a range of numbers that ends where the counter stands, and the image evicted last would not fit beside the rest (`Ringed`) |
| **`Bridge`** | | |
| `ConnectionTyped`, `TasksAreRegistered`, `NothingUnwantedIsSent`, `RingsForwardedOnce` | `TypeOK`, `NoStrayTask`, `SentOnlyWhileWanted`, `EveryRingOnce` | `BInv`: a task is born of a message (`Born`), a registered one is about its key (`Registry`), only a listener that sends has rings in hand (`Idle`); what was heard, what is in hand and what is queued ascend one after the other (`InOrder`) and with what a full queue dropped are every ring since the listener opened (`NoRingLost`) |
| **`Video`** | | |
| `SlotsRespected`, `PicturesOnlyAdvance` | `TypeOK` (no slot too many), `PicturesAdvance` | `VInv`: no picture is newer than the stream (`Numbers`), a viewer's thread has a frame (`Threads`); whatever is encoded beside a viewer's frame is no older or was under way when the viewer took it, and so is what the cache holds once the viewer's own picture is stored (`Overlaps`) |
| **`Warden`** | | |
| `CommandsTyped`, `ReturnedIsApplied`, `OnlyChangedAreStopped` | `TypeOK`, `ReturnMeansApplied`, `OnlyChangedStop` | `CInv`: a command that runs beside no other (`Alone`) knows that the conf is what it wrote; of an apply between two calls, that the groups it has left are those still to be brought from what supervisord has to what the conf says, each in its list (`ToDo`), that the calls left for the group at hand bring that one to it (`AtGroup`), and that all others are there (`Reconciling`) |
| `SweepsAtBoundary` | `SweepAtBoundary` | `WInv`: a command that began alone stays alone until another begins (`Alone`), and while it loads, validates and sweeps, supervisord does not run (`Booting`, `Sweeping`) |

Why the strengthenings are needed: `RowsInOrder` says nothing of the frames that will
become rows, so `OInv` follows them from the camera on; `BuffersBounded` lets a handler
overshoot, so `BInv` says where in the handler it may; `BundlesTrue` and
`PersistedSurvives` speak of the disk, so their invariants follow a value from START or
from the inbox to it; `FreshOnceUp` is about ports, and what makes it true is who
holds which segment; `ReturnMeansApplied` speaks of a command that has returned, so
`CInv` says of every point of the walk how far it has got; `RingIsNewest` says that
the ring could not be longer, so `LInv` keeps the image evicted last in view.

`Total`, the bytes of the ring, is a fold over a set, in an order that `CHOOSE` picks.
The library's induction on finite sets takes an operator as a parameter, which no
prover here can instantiate; the lemmas that a fold of + may take the elements in any
order (`SumByAny`) and that a larger set sums to more are proved from its
well-foundedness instead: of the sets that violate them take one of which no proper
subset does (`Least`).

The assumptions are those the modules name: bounds are naturals, and what is said to be
a different process, topic or value is; `WardenBounds` has at least one name that a
service may have (a services.yaml may still define none); `LoggerAssumption` gives every
image a positive size; `RecorderBounds` lets a burst be empty; a listener's queue has room for one
ring at least. Two theorems hold of a part of the behaviours and say so:
`PairingIsExact` of recordings without a camera's restart, `NewestIsShown` of the
logger's first life. The failing runs `capture_restart` and `logger_newest` are what
happens beyond.

Only model-checked:

* Liveness (`SilenceEndsRecording`, `HandoverAnswered`, `ReadersRecover`,
  `ClientCatchesUp`, `TasksEnd`, `ViewerCatchesUp`, `DeadViewerLeaves`): fairness is
  about ENABLED, which is out of the prover's reach. Every other property of a run that
  passes is proved.

Several properties hold under a condition that they name, and the rest of the behaviours,
which the models have, is without a promise:

* `NoSilentGap`: the wall clock has not stepped back. After a step behind START the
  fence drops live frames.
* `TelemetryCurrent`, `LastSetWins`: the last write of the cell did not fail.
* `FrameNamesContent`: one life of the server; `RangeKept`: values that a request set, so
  not the blank cell between the writer's first write and the publish of `setup`.
* `RingIsNewest`: the logger's first life.
* `ReadersRecover`: the writer is not FATAL.
* `OnlyChangedStop`, `SweepAtBoundary`, `ReturnMeansApplied`: a command that no other runs
  beside. The last speaks of groups: a group that an interrupted apply left stopped, and
  whose definition is edited back, stays stopped.
* `EveryRingOnce`: a ring that finds room in the queue.
* `PicturesAdvance`: no further back than what was being encoded already;
  `ViewerCatchesUp`: nothing older was.
* `DeadViewerLeaves`: there is a picture to probe with.

## Not modelled

* Encoding: parquet columns, mp4 and the sidecar's text. A write is a step that
  may fail, and the removal of what it left (`rmtree` with its errors ignored) one that
  does not. Loss of power: nothing in the code syncs a file.
* The clock of the inbox's file names: an inbox is in submission order. This is the
  assumption under which `LastSetWins` and the merge of verdicts hold.
* Inside a stream, how a publisher and a subscriber share memory; inside
  supervisord, how it stops a process. Both are external.
* A publisher that restarts under a connection of the bridge: values are those of one
  publisher, so a frame_id that comes again, which a poll takes for the last it sent, does
  not occur in `Bridge` (`FrameNamesContent` is about the same comparison). A reader that
  a restart of its writer crashes (KNOWN-ISSUES.md:11) is one of the crashes of `Ports`,
  without the cause.
* Parsing, generation and static checks of configuration (`warden/services.py`,
  `conf_generator.py`, `ipc/checks.py`, `ipc/types.py`), which keep no state: what
  they refuse is `Broken` or in `Invalid`.
* The order in which a WaitSet hands out what fired at one wake-up: a choice of the
  services' modules. The lock of the node singleton: no code here opens ports from
  two threads at once.
* Commands that only read, static pages, the text of messages, the discovery
  of topics by the logger.

## Plan

Done: every module of the table above, with its run and its proofs. Left, in this order:

1. A run of `Capture` with a paired and a window topic together, where a frame that
   waited long is compared with a sample that is too new. The theorems hold for
   recorders with both; the runs have one kind at a time.
2. A wall clock for the inbox's file names, and what remains of `LastSetWins` when it
   steps back.
3. What a command of `Warden` that ran beside another has applied when it returns:
   `ReturnMeansApplied` is about commands that run alone.
4. Pure functions against reference definitions: the topic extraction of
   `ipc/checks.py` and the specs of `warden/services.py`.
