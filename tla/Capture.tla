------------------------------ MODULE Capture ------------------------------
(***************************************************************************)
(* The capture pipeline of the data recorder: how clock frames, paired     *)
(* answers and window samples that other processes publish become the rows *)
(* of an episode (services/data_recorder.py, DataRecorder._capture and     *)
(* _frame), between a START and the STOP, DISCARD, abort or auto-stop that *)
(* ends the recording.                                                     *)
(*                                                                         *)
(* The handlers run on one thread, the publishers in other processes: a    *)
(* handler is a chain of steps, tracked by pc, and publishers and time     *)
(* move between any two of them.  One unit of wall time stands for any     *)
(* fixed number of nanoseconds.                                            *)
(***************************************************************************)
EXTENDS Integers, Sequences, FiniteSets

CONSTANTS
  Clock,          \* the topic of the slowest camera
  Paired,         \* topics paired by frame_id (lockstep answers)
  Window,         \* topics sampled by latest value
  CLOCK_BUFFER,   \* queue depth of the clock and of the paired topics
  PAIR_CACHE,     \* answers held per paired topic
  MAX_FRAMES,     \* whole-episode row cap
  CLOCK_TIMEOUT,  \* silence of the clock that aborts a recording
  CLOCK_PERIOD,   \* period of the clock topic's declared rate
  AskedPeriods,   \* periods the record_hz param may ask for; 0 asks for none
  Tol,            \* staleness bound of each window topic (tol_ns)
  Epoch,          \* the wall clock never reads less than this
  MaxPublished,   \* bound: clock frames ever published
  MaxWall,        \* bound: wall time
  MaxRestarts,    \* bound: restarts of the camera process
  MaxBackSteps    \* bound: backwards steps of the wall clock

ASSUME TopicsAssumption ==
  /\ Clock \notin Paired \cup Window
  /\ Paired \cap Window = {}

ASSUME SizesAssumption ==
  /\ CLOCK_BUFFER \in Nat \ {0}
  /\ PAIR_CACHE \in Nat \ {0}
  /\ MAX_FRAMES \in Nat \ {0}
  /\ CLOCK_TIMEOUT \in Nat
  /\ CLOCK_PERIOD \in Nat \ {0}
  /\ Tol \in [Window -> Nat]

ASSUME TimeAssumption == Epoch \in Nat /\ AskedPeriods \subseteq Nat

ASSUME BoundsAssumption ==
  /\ MaxPublished \in Nat
  /\ MaxWall \in Nat
  /\ Epoch <= MaxWall
  /\ MaxRestarts \in Nat
  /\ MaxBackSteps \in Nat

VARIABLES
  wall,       \* the wall clock every source and the recorder stamp from
  backSteps,  \* backwards steps taken so far
  sent,       \* clock frames the camera has sent, over all its lives
  base,       \* of those, sent before its present life
  restarts,   \* lives of the camera that have ended
  answered,   \* per paired topic, the last frame its responder answered
  queue,      \* per topic, the samples waiting for the recorder
  opened,     \* topics whose lazy subscriber has opened
  connected,  \* of those, the ones sent to since: their samples arrive
  overflowed, \* history: clock frames a full queue evicted
  state,      \* idle | recording
  pc,         \* the step of the handler in progress
  handler,    \* the handler in progress, or the last one
  deferred,   \* clock frames awaiting a paired match
  rows,       \* the rows captured so far
  held,       \* pair_cache: per paired topic, the answers held by frame_id
  cache,      \* per window topic, the latest sample: {} or a singleton
  t0, last_ts, next_due, period,
  quiet,      \* monotonic time since clock_seen
  outcome     \* how the last recording ended

camera == <<sent, base, restarts>>
env == <<wall, backSteps, camera, answered>>
streams == <<queue, opened, connected, overflowed>>
grid == <<t0, last_ts, next_due, period>>
capture == <<deferred, rows, held, cache, t0, last_ts, next_due, period, quiet>>
control == <<state, pc, handler, outcome>>
vars == <<env, streams, capture, control>>

Topics == {Clock} \cup Paired \cup Window

\* seq numbers the clock frames for ever; id is the frame_id the code sees,
\* which starts again with the camera process.
Frame == [seq : Nat, id : Nat, ts : Nat]
Answer == [seq : Nat, id : Nat]
Row == [seq : Nat, ts : Nat, pair : [Paired -> Nat], win : [Window -> Nat]]

----------------------------------------------------------------------------
(* Pure helpers *)

\* Mutant: no re-anchoring on a frame past the next slot.
GateNoReanchor(ts, due, p) ==
  [keep |-> p <= 0 \/ ts >= due, due |-> IF p > 0 /\ ts >= due THEN due + p ELSE due]

\* Mutant: a frame exactly on the next slot does not re-anchor.
GateOffByOne(ts, due, p) ==
  [keep |-> p <= 0 \/ ts >= due,
   due |-> IF p <= 0 \/ ts < due THEN due ELSE IF ts > due + p THEN ts + p ELSE due + p]

\* gate(): keep a frame iff it has reached the grid, and move the grid.
Gate(ts, due, p) ==
  IF p <= 0 THEN [keep |-> TRUE, due |-> 0]
  ELSE IF ts < due THEN [keep |-> FALSE, due |-> due]
  ELSE [keep |-> TRUE, due |-> IF ts >= due + p THEN ts + p ELSE due + p]

\* _read_record_hz(): a rate at or above the clock's cannot be honoured.
RecordPeriod(asked) == IF asked > CLOCK_PERIOD THEN asked ELSE 0

\* The depth of a topic's queue.  A subscriber opens at its first read; until
\* then only the publisher's history of one sample is kept for it, which comes
\* to it with the next sample sent.
Depth(t) == IF t \in Window \/ t \notin opened THEN 1 ELSE CLOCK_BUFFER

\* Safe overflow: a full queue loses its oldest sample.
Enqueue(q, m, depth) == Append(IF Len(q) < depth THEN q ELSE Tail(q), m)

\* The answers held after draining q into h: by frame_id, the newest wins, and
\* only the PAIR_CACHE largest frame_ids stay.
Merge(h, q) ==
  LET Later(i) == \E j \in DOMAIN q : j > i /\ q[j].id = q[i].id
      Fresh == {q[i] : i \in {k \in DOMAIN q : ~Later(k)}}
      Kept == {a \in h : \A b \in Fresh : b.id # a.id}
  IN Fresh \cup Kept

Trim(h) == {a \in h : Cardinality({b \in h : b.id > a.id}) < PAIR_CACHE}

\* Mutant: pair with any answer held, as a latest-value read would.
AnyAnswer(s, f) == held[s]

\* The answers that carry the frame's frame_id: at most one.
AnswersTo(s, f) == {a \in held[s] : a.id = f.id}

Matched(f) == \A s \in Paired : AnswersTo(s, f) # {}

FreshAt(f) ==
  \A s \in Window : \E c \in cache[s] : c - f.ts <= Tol[s] /\ f.ts - c <= Tol[s]

RowOf(f) ==
  [seq |-> f.seq, ts |-> f.ts,
   pair |-> [s \in Paired |-> (CHOOSE a \in AnswersTo(s, f) : TRUE).seq],
   win |-> [s \in Window |-> CHOOSE c \in cache[s] : TRUE]]

----------------------------------------------------------------------------
Init ==
  /\ wall = Epoch /\ backSteps = 0
  /\ sent = 0 /\ base = 0 /\ restarts = 0
  /\ answered = [s \in Paired |-> 0]
  /\ queue = [t \in Topics |-> <<>>]
  /\ opened = {} /\ connected = {} /\ overflowed = {}
  /\ state = "idle" /\ pc = "wait" /\ handler = "tick" /\ outcome = "none"
  /\ deferred = <<>> /\ rows = <<>>
  /\ held = [s \in Paired |-> {}]
  /\ cache = [s \in Window |-> {}]
  /\ t0 = 0 /\ last_ts = 0 /\ next_due = 0 /\ period = 0 /\ quiet = 0

----------------------------------------------------------------------------
(* The other processes *)

\* A send finds the subscriber that has opened, and hands it the history first.
Send(t, m) ==
  /\ queue' = [queue EXCEPT ![t] = Enqueue(@, m, Depth(t))]
  /\ connected' = connected \cup (opened \cap {t})

\* The camera stamps a frame and sends it.
NewFrame == [seq |-> sent + 1, id |-> sent + 1 - base, ts |-> wall]

PublishClock ==
  /\ sent < MaxPublished
  /\ sent' = sent + 1
  /\ Send(Clock, NewFrame)
  /\ overflowed' = IF Len(queue[Clock]) < Depth(Clock) THEN overflowed
                   ELSE overflowed \cup {Head(queue[Clock]).seq}
  /\ UNCHANGED <<wall, backSteps, base, restarts, answered, opened, capture, control>>

\* A lockstep responder answers a later frame of the camera's present life,
\* under the frame's own frame_id; it may skip frames.
PublishAnswer(s) ==
  /\ \E n \in (base + 1)..sent :
       /\ n > answered[s]
       /\ answered' = [answered EXCEPT ![s] = n]
       /\ Send(s, [seq |-> n, id |-> n - base])
  /\ UNCHANGED <<wall, backSteps, camera, opened, overflowed, capture, control>>

\* A window source sends a sample, of which only the stamp matters.
PublishWindow(s) ==
  /\ Send(s, wall)
  /\ UNCHANGED <<env, opened, overflowed, capture, control>>

\* The camera process dies, and with it the history it kept; its successor
\* numbers frames from 1 again.
CameraRestart ==
  /\ restarts < MaxRestarts
  /\ base' = sent /\ restarts' = restarts + 1
  /\ queue' = IF Clock \in connected THEN queue ELSE [queue EXCEPT ![Clock] = <<>>]
  /\ UNCHANGED <<wall, backSteps, sent, answered, opened, connected, overflowed, capture,
                 control>>

\* Time passes.  The wall clock stays at its bound while the silence of the
\* clock, which counts only in a recording, goes on.
Pass ==
  /\ wall < MaxWall \/ (state = "recording" /\ quiet <= CLOCK_TIMEOUT)
  /\ wall' = IF wall < MaxWall THEN wall + 1 ELSE wall
  /\ quiet' = IF state = "recording" /\ quiet <= CLOCK_TIMEOUT
              THEN quiet + 1 ELSE quiet
  /\ UNCHANGED <<backSteps, camera, answered, streams, deferred, rows, held, cache,
                 grid, control>>

\* NTP steps the wall clock back.
BackStep ==
  /\ backSteps < MaxBackSteps
  /\ \E w \in Epoch..(wall - 1) : wall' = w
  /\ backSteps' = backSteps + 1
  /\ UNCHANGED <<camera, answered, streams, capture, control>>

Environment ==
  \/ PublishClock
  \/ \E s \in Paired : PublishAnswer(s)
  \/ \E s \in Window : PublishWindow(s)
  \/ CameraRestart
  \/ Pass
  \/ BackStep

----------------------------------------------------------------------------
(* The recorder's handlers *)

\* Mutant: _reset() leaves the deferred frames behind.
ForgetKeepsDeferred ==
  /\ rows' = <<>> /\ UNCHANGED deferred
  /\ held' = [s \in Paired |-> {}] /\ cache' = [s \in Window |-> {}]

\* _reset(), the buffers.
Forget ==
  /\ deferred' = <<>> /\ rows' = <<>>
  /\ held' = [s \in Paired |-> {}] /\ cache' = [s \in Window |-> {}]

\* _reset() and the return to idle that every end of a recording makes.
EndRecording(how) ==
  /\ Forget
  /\ t0' = 0 /\ last_ts' = 0 /\ next_due' = 0 /\ period' = 0 /\ quiet' = 0
  /\ state' = "idle" /\ pc' = "wait" /\ outcome' = how
  /\ UNCHANGED handler

\* _abort(): rings EP_FAILED.
Abort == EndRecording("failed") /\ UNCHANGED <<env, streams>>

\* _submit_finalize(): the rows go to the worker.
SubmitFinalize == EndRecording("handed") /\ UNCHANGED <<env, streams>>

\* START, which is ignored unless idle.
Start ==
  /\ pc = "wait" /\ state = "idle"
  /\ \E asked \in AskedPeriods : period' = RecordPeriod(asked)
  /\ t0' = wall /\ last_ts' = 0 /\ next_due' = 0 /\ quiet' = 0
  /\ Forget
  /\ state' = "recording" /\ outcome' = "none"
  /\ UNCHANGED <<env, streams, pc, handler>>

\* DISCARD, which rings nothing.
Discard ==
  /\ pc = "wait" /\ state = "recording"
  /\ EndRecording("discarded")
  /\ UNCHANGED <<env, streams>>

\* STOP and the tick of a recording both begin with _capture().
Enter(h) ==
  /\ pc = "wait" /\ state = "recording"
  /\ pc' = "sources" /\ handler' = h
  /\ UNCHANGED <<env, streams, capture, state, outcome>>

Stop == Enter("stop")
Tick == Enter("tick")

\* What a read of the topic returns, and what it leaves behind.
Arrived(t) == IF t \in connected THEN queue[t] ELSE <<>>
Unread(t) == IF t \in connected THEN <<>> ELSE queue[t]

\* _capture(): refresh the caches from every topic but the clock's, in one step,
\* for no topic is read twice and none depends on another.
DrainSources ==
  /\ pc = "sources"
  /\ held' = [s \in Paired |-> Trim(Merge(held[s], Arrived(s)))]
  /\ cache' = [s \in Window |->
                 IF Arrived(s) = <<>> THEN cache[s] ELSE {queue[s][Len(queue[s])]}]
  /\ queue' = [t \in Topics |-> IF t = Clock THEN queue[t] ELSE Unread(t)]
  /\ opened' = opened \cup Paired \cup Window
  /\ pc' = "clock"
  /\ UNCHANGED <<env, connected, overflowed, deferred, rows, grid, quiet, state, handler,
                 outcome>>

\* Mutant: every look at the clock counts as life.
QuietNever(q) == 0

\* How long the clock has been silent once its queue is drained.
QuietAfter(q) == IF q = <<>> THEN quiet ELSE 0

\* Mutant: new frames overtake the deferred ones.
NewestFirst(q) == q \o deferred

\* The frames that wait once the clock's queue is drained.
DeferredWith(q) == deferred \o q

\* _capture(): drain the clock; any frame, kept or not, counts as life.
DrainClock ==
  /\ pc = "clock"
  /\ deferred' = DeferredWith(Arrived(Clock))
  /\ quiet' = QuietAfter(Arrived(Clock))
  /\ queue' = [queue EXCEPT ![Clock] = Unread(Clock)]
  /\ opened' = opened \cup {Clock}
  /\ pc' = "frames"
  /\ UNCHANGED <<env, connected, overflowed, rows, held, cache, grid, state, handler,
                 outcome>>

\* Mutant: a frame without its answer is dropped.
FrameDropped ==
  /\ pc = "frames" /\ deferred # <<>> /\ ~Matched(Head(deferred))
  /\ deferred' = Tail(deferred)
  /\ UNCHANGED <<env, streams, control, rows, held, cache, grid, quiet>>

\* _frame() on the head of deferred: a paired answer is missing, so the frame
\* waits, unless too many wait already.
FrameWaits ==
  /\ pc = "frames" /\ deferred # <<>>
  /\ ~Matched(Head(deferred))
  /\ IF Len(deferred) > CLOCK_BUFFER
     THEN Abort
     ELSE pc' = "after" /\ UNCHANGED <<env, streams, capture, state, handler, outcome>>

\* A frame that can land is at the head.
cur == Head(deferred)
Landing == pc = "frames" /\ deferred # <<>> /\ Matched(cur)

\* The frame was stamped before START: ignored.
FrameFenced ==
  /\ Landing /\ cur.ts < t0
  /\ deferred' = Tail(deferred)
  /\ UNCHANGED <<env, streams, control, rows, held, cache, grid, quiet>>

\* The clock went backwards.
FrameBackwards ==
  /\ Landing /\ cur.ts >= t0 /\ cur.ts < last_ts
  /\ Abort

InSequence == Landing /\ cur.ts >= t0 /\ cur.ts >= last_ts

\* Mutant: the frame is left at the head and lands again.
ConsumeNothing ==
  /\ last_ts' = cur.ts
  /\ next_due' = Gate(cur.ts, next_due, period).due
  /\ UNCHANGED <<env, streams, control, deferred, held, cache, t0, period, quiet>>

\* What a frame in sequence changes whatever becomes of it.
Consume ==
  /\ last_ts' = cur.ts
  /\ next_due' = Gate(cur.ts, next_due, period).due
  /\ deferred' = Tail(deferred)
  /\ UNCHANGED <<env, streams, control, held, cache, t0, period, quiet>>

\* The frame is ahead of the decimation grid.
FrameGated ==
  /\ InSequence /\ ~Gate(cur.ts, next_due, period).keep
  /\ Consume /\ UNCHANGED rows

\* Mutant: a stale window source skips the frame mid-episode too.
FrameSkipped ==
  /\ InSequence /\ Gate(cur.ts, next_due, period).keep /\ ~FreshAt(cur)
  /\ Consume /\ UNCHANGED rows

\* A window source is stale: skipped at the leading edge, an abort later.
FrameStale ==
  /\ InSequence /\ Gate(cur.ts, next_due, period).keep /\ ~FreshAt(cur)
  /\ IF rows = <<>> THEN Consume /\ UNCHANGED rows ELSE Abort

\* The frame becomes a row.
FrameRow ==
  /\ InSequence /\ Gate(cur.ts, next_due, period).keep /\ FreshAt(cur)
  /\ Consume
  /\ rows' = Append(rows, RowOf(cur))

\* Every frame is consumed.
FramesDone ==
  /\ pc = "frames" /\ deferred = <<>>
  /\ pc' = "after"
  /\ UNCHANGED <<env, streams, capture, state, handler, outcome>>

\* Mutant: the cap is checked one row late.
FullOffByOne == Len(rows) > MAX_FRAMES

\* The row cap is reached.
Full == Len(rows) >= MAX_FRAMES

\* What on_event and on_tick do when _capture() did not abort.
AfterStop == pc = "after" /\ handler = "stop" /\ SubmitFinalize

AfterTick ==
  /\ pc = "after" /\ handler = "tick"
  /\ \/ quiet > CLOCK_TIMEOUT /\ Abort
     \/ quiet <= CLOCK_TIMEOUT /\ Full /\ SubmitFinalize
     \/ /\ quiet <= CLOCK_TIMEOUT /\ ~Full
        /\ pc' = "wait"
        /\ UNCHANGED <<env, streams, capture, state, handler, outcome>>

HandlerStep ==
  \/ DrainSources \/ DrainClock
  \/ FrameWaits \/ FrameFenced \/ FrameBackwards
  \/ FrameGated \/ FrameStale \/ FrameRow \/ FramesDone
  \/ AfterStop \/ AfterTick

Next == Environment \/ Start \/ Discard \/ Stop \/ Tick \/ HandlerStep

Spec == Init /\ [][Next]_vars

\* The WaitSet's loop keeps calling on_tick, a handler runs to its end, and
\* time passes.  No publisher owes anything.
FairSpec == Spec /\ WF_vars(Tick) /\ WF_vars(HandlerStep) /\ WF_vars(Pass)
----------------------------------------------------------------------------
(* Properties *)

\* Every variable has its type: the queues hold what their topics carry, an
\* idle recorder holds nothing of the last episode (_reset), and one whose clock
\* has not sent to it nothing at all.
TypeOK ==
  /\ wall \in Nat /\ wall >= Epoch /\ backSteps \in 0..MaxBackSteps
  /\ sent \in Nat /\ base \in 0..sent /\ restarts \in 0..MaxRestarts
  /\ answered \in [Paired -> Nat]
  /\ DOMAIN queue = Topics
  /\ queue[Clock] \in Seq(Frame)
  /\ \A s \in Paired : queue[s] \in Seq(Answer)
  /\ \A s \in Window : queue[s] \in Seq(Nat)
  /\ opened \subseteq Topics /\ connected \subseteq opened /\ overflowed \subseteq Nat
  /\ state \in {"idle", "recording"}
  /\ pc \in {"wait", "sources", "clock", "frames", "after"}
  /\ handler \in {"tick", "stop"}
  /\ outcome \in {"none", "handed", "failed", "discarded"}
  /\ deferred \in Seq(Frame) /\ rows \in Seq(Row)
  /\ held \in [Paired -> SUBSET Answer]
  /\ cache \in [Window -> SUBSET Nat]
  /\ t0 \in Nat /\ last_ts \in Nat /\ next_due \in Nat /\ period \in Nat
  /\ quiet \in Nat
  /\ state = "idle" => pc = "wait" /\ deferred = <<>> /\ rows = <<>>
  /\ Clock \notin connected => deferred = <<>> /\ rows = <<>>

\* Buffers stay within their bounds, and what a burst adds is bounded: between
\* handlers a recording is below MAX_FRAMES and defers at most CLOCK_BUFFER
\* frames; inside one it may overshoot by two full buffers, no more.
BuffersBounded ==
  /\ Len(queue[Clock]) <= CLOCK_BUFFER
  /\ Len(deferred) <= 2 * CLOCK_BUFFER
  /\ Len(rows) + Len(deferred) < MAX_FRAMES + 2 * CLOCK_BUFFER
  /\ pc = "wait" => Len(deferred) <= CLOCK_BUFFER /\ Len(rows) < MAX_FRAMES

\* Row i is a later frame than row i - 1, none is repeated, none goes back in
\* time, and none was stamped before START, wherever it waited meanwhile.
RowsInOrder ==
  \A i, j \in DOMAIN rows :
    /\ rows[i].ts >= t0
    /\ i < j => rows[i].seq < rows[j].seq /\ rows[i].ts <= rows[j].ts

\* A row pairs a clock frame with the answer to that very frame, however late
\* the answer came and however many came at once.
PairedExactly ==
  \A i \in DOMAIN rows : \A s \in Paired : rows[i].pair[s] = rows[i].seq

SeqsOf(q) == {q[i].seq : i \in DOMAIN q}

NoHole ==
  rows # <<>> /\ period = 0 =>
    \A n \in rows[1].seq..sent :
      n \in SeqsOf(rows) \cup SeqsOf(deferred) \cup SeqsOf(queue[Clock]) \cup overflowed

\* Once a native-rate recording has a row, every frame the camera has sent
\* since is a row, waits its turn, or was evicted by a full queue, unless the
\* wall clock has stepped back: deferral, staleness and the fence leave no hole
\* in the episode.
NoSilentGap == backSteps = 0 => NoHole

\* record_hz is a ceiling: k rows after row i span more than k - 1 periods,
\* however late single frames were.
RateHonoured ==
  \A i, j \in DOMAIN rows :
    i < j => rows[j].ts > rows[i].ts + (j - i - 1) * period \/ period = 0

\* record_hz is not undershot: the next row is due within one period of the
\* last, so a stall never makes the grid skip a frame it has room for.
GridWithinPeriod ==
  rows # <<>> /\ period > 0 =>
    LET ts == rows[Len(rows)].ts IN ts < next_due /\ next_due <= ts + period

\* "fence: ignore frames queued while idle": such a frame never fails a
\* recording for want of an answer.
IdleFramesIgnored ==
  [][ (pc = "frames" /\ deferred # <<>> /\ cur.ts < t0) => outcome' # "failed" ]_vars

\* A recording whose camera has fallen silent ends by itself.
SilenceEndsRecording == (state = "recording" /\ sent = MaxPublished) ~> (state = "idle")

\* What a recording promises, as module Session states it.
Promise == INSTANCE Session WITH
             Cap <- MAX_FRAMES + 2 * CLOCK_BUFFER - 1,
             taken <- [i \in DOMAIN rows |-> rows[i].seq],
             status <- state, ended <- outcome
Implements == Promise!Spec
=============================================================================
