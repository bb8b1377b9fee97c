------------------------------ MODULE Recorder ------------------------------
(***************************************************************************)
(* The life of an episode around its capture (services/data_recorder.py,   *)
(* the service shell and finalize; services/inbox.py): the identity minted *)
(* at START, the context snapshotted with it, the verdicts merged at STOP, *)
(* the worker thread that writes bundles while the next episode records,   *)
(* the rings that tell the outside, and the telemetry cell.                *)
(*                                                                         *)
(* Three things run beside each other: the reactor's thread (pc), the one  *)
(* worker of the pool (job), and other processes that submit verdicts and  *)
(* set the context.  The process may be stopped by SIGTERM between two     *)
(* handlers or die at any point; the disk survives it.  Which frames       *)
(* become rows is module Capture; here a capture adds any number of rows.  *)
(***************************************************************************)
EXTENDS Integers, Sequences

CONSTANTS
  MAX_FRAMES,     \* whole-episode row cap
  WRITE_FAIL_LIMIT,  \* writes of the telemetry that fail in a row before one raises
  Bursts,         \* bound: the numbers of rows one capture may add
  MaxCaptures,    \* bound: recordings ever started
  MaxContexts,    \* bound: changes of recording-context.json
  MaxVerdicts,    \* bound: verdicts ever submitted
  MaxStops        \* bound: ends of a process, by SIGTERM, by a crash or by an exception

ASSUME RecorderBounds ==
  /\ MAX_FRAMES \in Nat \ {0} /\ WRITE_FAIL_LIMIT \in Nat \ {0}
  /\ 0 \in Bursts /\ Bursts \subseteq Nat
  /\ MaxCaptures \in Nat /\ MaxContexts \in Nat /\ MaxVerdicts \in Nat /\ MaxStops \in Nat

Captures == 1..MaxCaptures

\* What recording-context.json says, by the number of changes before it.
Contexts == 0..MaxContexts

\* The cap is looked at only between two captures: a burst may overshoot it.
Rows == {r + k : r \in 0..(MAX_FRAMES - 1), k \in Bursts}

Verdict == [n : 1..MaxVerdicts, cap : Captures]

VARIABLES
  \* the disk, and what other processes see
  context,        \* recording-context.json
  inbox,          \* the files of the verdict inbox
  parked,         \* the quarantine beside it
  tmps,           \* .tmp-* directories
  bundles,        \* committed episodes
  tele,           \* the telemetry cell: state, frames, capture_id
  told,           \* history: per capture, the recorder/episode told for it
  \* the process
  status,         \* up | exiting | down
  stops,          \* ends of a process so far
  minted,         \* captures minted so far; a capture_id is its number
  \* the reactor's thread
  state, cap, rows, snap,
  pc,             \* the step of the handler in progress
  intent,         \* what the handler does once the verdicts are drained
  ended,          \* the capture an abort ended, until it is rung
  listed, drained, matched,   \* the verdict drain in progress
  pending, todo, still,       \* the futures, and _collect's pass over them
  tele_last, fails,           \* what it tried to show last; failed writes in a row
  \* the worker's thread
  jobs, job,      \* what waits for it, and what it is writing
  results,
  \* history
  submitted,      \* verdicts submitted so far
  snapped,        \* per capture, the context at its START
  taken,          \* per capture, the rows recorded under it
  lost            \* verdicts that died with a process or a failed write

disk == <<inbox, parked, tmps, bundles>>
outside == <<context, submitted>>
process == <<status, stops, minted>>
episode == <<state, cap, rows, snap, snapped, taken>>
verdicts == <<listed, drained, matched>>
futures == <<pending, todo, still>>
telemetry == <<tele, tele_last, fails>>
worker == <<jobs, job, results>>
vars == <<disk, outside, process, episode, verdicts, futures, telemetry, worker,
          told, lost, pc, intent, ended>>

Parts == {"data", "sidecar"}
Bundle == [cap : Captures, parts : SUBSET Parts, rows : Rows, context : Contexts,
           verdict : SUBSET Verdict]
Job == [cap : Captures, rows : Rows, context : Contexts, verdict : SUBSET Verdict]
Cell == [state : {"idle", "recording"}, rows : Rows, cap : 0..MaxCaptures]
Rings == {"captured", "discarded", "failed"}

CapsOf(S) == {x.cap : x \in S}
VerdictsOf(S) == UNION {x.verdict : x \in S}

\* Verdicts are read in the order of their files' names, which carry the time
\* of submit(); jobs and futures queue in the order of their captures.
FirstVerdict(S, v) == v \in S /\ \A w \in S : v.n <= w.n
FirstJob(S, j) == j \in S /\ \A k \in S : j.cap <= k.cap
FirstFuture(S, c) == c \in S /\ \A d \in S : c <= d

\* What a writer's cell says before the first write.
Blank == [state |-> "idle", rows |-> 0, cap |-> 0]

Init ==
  /\ context = 0 /\ inbox = {} /\ parked = {}
  /\ tmps = {} /\ bundles = {} /\ tele = Blank /\ told = [c \in Captures |-> <<>>]
  /\ status = "up" /\ stops = 0 /\ minted = 0
  /\ state = "idle" /\ cap = 0 /\ rows = 0 /\ snap = {}
  /\ pc = "wait" /\ intent = "none" /\ ended = 0
  /\ listed = {} /\ drained = {} /\ matched = {}
  /\ pending = {} /\ todo = {} /\ still = {}
  /\ tele_last = {} /\ fails = 0
  /\ jobs = {} /\ job = {} /\ results = [c \in Captures |-> "none"]
  /\ submitted = 0 /\ snapped = [c \in Captures |-> {}] /\ lost = {}
  /\ taken = [c \in Captures |-> 0]

----------------------------------------------------------------------------
(* Other processes *)

\* Inbox.submit(): one rename publishes the file.  A rater names a capture it
\* saw in the telemetry, now or earlier.
SubmitVerdict ==
  /\ submitted < MaxVerdicts
  /\ \E c \in 1..minted :
       inbox' = inbox \cup {[n |-> submitted + 1, cap |-> c]}
  /\ submitted' = submitted + 1
  /\ UNCHANGED <<parked, tmps, bundles, context, process, episode, verdicts, futures,
                 telemetry, worker, told, lost, pc, intent, ended>>

\* koyu context set or clear: one rename replaces the file.  Bound: only between
\* two STARTs; after the last nobody reads it, and what it says before the first
\* stands for anything.
SetContext ==
  /\ minted \in 1..(MaxCaptures - 1)
  /\ context < MaxContexts /\ context' = context + 1
  /\ UNCHANGED <<disk, submitted, process, episode, verdicts, futures, telemetry,
                 worker, told, lost, pc, intent, ended>>

----------------------------------------------------------------------------
(* The reactor's thread *)

At(step) == status = "up" /\ pc = step
Elsewhere == UNCHANGED <<outside, process, worker>>

\* START, which is ignored unless idle.
Start ==
  /\ At("wait") /\ state = "idle" /\ minted < MaxCaptures
  /\ state' = "recording" /\ cap' = minted + 1 /\ rows' = 0
  /\ snap' = {context} /\ snapped' = [snapped EXCEPT ![minted + 1] = {context}]
  /\ minted' = minted + 1
  /\ pc' = "tell" /\ intent' = "none"
  /\ UNCHANGED <<disk, outside, status, stops, taken, verdicts, futures, telemetry, worker,
                 told, lost, ended>>

\* DISCARD.
Discard ==
  /\ At("wait") /\ state = "recording"
  /\ pc' = "list" /\ intent' = "discard"
  /\ UNCHANGED <<disk, episode, verdicts, futures, telemetry, told, lost, ended>>
  /\ Elsewhere

\* _capture(): more rows, as many as the queue holds, or an abort.
CaptureThen(step, next) ==
  /\ \E k \in Bursts :
       rows' = rows + k /\ taken' = [taken EXCEPT ![cap] = @ + k]
  /\ \/ pc' = step /\ intent' = next
     \/ pc' = "list" /\ intent' = "abort"
  /\ UNCHANGED <<disk, state, cap, snap, snapped, verdicts, futures, telemetry, told,
                 lost, ended>>
  /\ Elsewhere

\* STOP: the tail of the clock's queue, then the hand-over.
Stop == At("wait") /\ state = "recording" /\ CaptureThen("list", "finalize")

\* on_tick() begins with _collect(), over the futures there are.
Tick ==
  /\ At("wait")
  /\ pc' = "collect" /\ todo' = pending /\ still' = {}
  /\ UNCHANGED <<disk, episode, verdicts, pending, telemetry, told, lost, intent, ended>>
  /\ Elsewhere

\* Mutant: a future that is done is taken for a captured episode.
RungAlways(c) == "captured"

\* What a finished future is rung as.
RungAs(c) == results[c]

Rung(c, id) == told' = [told EXCEPT ![c] = Append(@, id)]

\* _collect(), one future: still running, or its result is rung.
CollectOne ==
  /\ At("collect")
  /\ \E c \in todo :
       /\ FirstFuture(todo, c) /\ todo' = todo \ {c}
       /\ \/ results[c] = "none" /\ still' = still \cup {c} /\ UNCHANGED told
          \/ results[c] # "none" /\ Rung(c, RungAs(c)) /\ UNCHANGED still
  /\ UNCHANGED <<disk, episode, verdicts, pending, telemetry, lost, pc, intent, ended>>
  /\ Elsewhere

\* Mutant: what has not finished by the first look is forgotten.
KeptNone == {}

\* The futures that stay pending.
Kept == still

CollectDone ==
  /\ At("collect") /\ todo = {}
  /\ pending' = Kept /\ still' = {}
  /\ pc' = IF state = "recording" THEN "capture" ELSE "wait"
  /\ UNCHANGED <<disk, episode, verdicts, todo, telemetry, told, lost, intent, ended>>
  /\ Elsewhere

\* on_tick() goes on with _capture() and _telemetry() ...
TickCapture == At("capture") /\ CaptureThen("tell", "check")

\* ... and then a silent clock aborts, or the row cap stops the recording.
TickCheck ==
  /\ At("check")
  /\ \/ pc' = "list" /\ intent' = "abort"
     \/ rows >= MAX_FRAMES /\ pc' = "list" /\ intent' = "finalize"
     \/ rows < MAX_FRAMES /\ pc' = "wait" /\ intent' = "none"
  /\ UNCHANGED <<disk, episode, verdicts, futures, telemetry, told, lost, ended>>
  /\ Elsewhere

\* Inbox.drain(): the files there are now ...
ListInbox ==
  /\ At("list")
  /\ listed' = inbox /\ pc' = "read"
  /\ UNCHANGED <<disk, episode, drained, matched, futures, telemetry, told, lost,
                 intent, ended>>
  /\ Elsewhere

\* ... each read and unlinked ...
ReadOne ==
  /\ At("read")
  /\ \E v \in listed :
       /\ FirstVerdict(listed, v) /\ listed' = listed \ {v}
       /\ drained' = drained \cup {v} /\ inbox' = inbox \ {v}
  /\ UNCHANGED <<parked, tmps, bundles, episode, matched, futures, telemetry, told,
                 lost, pc, intent, ended>>
  /\ Elsewhere

\* The verdict names the capture being finalized.
Names(v) == intent = "finalize" /\ v.cap = cap

\* Mutant: the last verdict wins and the first is forgotten.
LastWins(v) ==
  IF Names(v) THEN matched' = {v} /\ UNCHANGED parked
  ELSE parked' = parked \cup {v} /\ UNCHANGED matched

\* The first match is merged, whatever else came is quarantined.
MatchOrPark(v) ==
  IF Names(v) /\ matched = {} THEN matched' = {v} /\ UNCHANGED parked
  ELSE parked' = parked \cup {v} /\ UNCHANGED matched

\* _drain_verdicts(), one request.
Judge ==
  /\ At("read") /\ listed = {}
  /\ \E v \in drained :
       /\ FirstVerdict(drained, v) /\ drained' = drained \ {v}
       /\ MatchOrPark(v)
  /\ UNCHANGED <<inbox, tmps, bundles, episode, listed, futures, telemetry, told, lost,
                 pc, intent, ended>>
  /\ Elsewhere

\* The context handed to the worker is the one of START.
ContextOf == CHOOSE x \in snap : TRUE

\* Mutant: the capture_id outlives its recording.
ResetNotId == rows' = 0 /\ snap' = {} /\ UNCHANGED cap

\* _reset(), the parts that are not module Capture's.
Reset == rows' = 0 /\ snap' = {} /\ cap' = 0

\* The end of a recording: _submit_finalize() hands over, and all ends reset.
Finish ==
  /\ At("read") /\ listed = {} /\ drained = {}
  /\ \/ /\ intent = "finalize"
        /\ jobs' = jobs \cup {[cap |-> cap, rows |-> rows, context |-> ContextOf,
                               verdict |-> matched]}
        /\ pending' = pending \cup {cap}
     \/ intent # "finalize" /\ UNCHANGED <<jobs, pending>>
  /\ Reset /\ state' = "idle" /\ matched' = {}
  /\ pc' = "tell"
  /\ IF intent = "abort" THEN ended' = cap /\ intent' = "ring"
                         ELSE ended' = 0 /\ intent' = "none"
  /\ UNCHANGED <<disk, outside, process, snapped, taken, listed, drained, todo, still,
                 telemetry, job, results, told, lost>>

\* Mutant: a change of the row count alone is a change.
NowRows == rows

\* What the telemetry shows: a write happens only when it changes.
Now == <<state, rows, cap>>

\* _telemetry().  The cell's frame_id, which counts these writes, is left out.
\* What is shown counts as shown before the write is tried, and the writer's
\* answer is not looked at: a write that fails is not tried again.
Tell ==
  /\ At("tell")
  /\ \/ tele_last = {Now} /\ UNCHANGED telemetry
     \/ /\ tele_last # {Now} /\ tele_last' = {Now}
        /\ \/ tele' = [state |-> state, rows |-> rows, cap |-> cap] /\ fails' = 0
           \/ fails + 1 < WRITE_FAIL_LIMIT /\ fails' = fails + 1 /\ UNCHANGED tele
  /\ pc' = IF intent = "none" THEN "wait" ELSE intent
  /\ UNCHANGED <<disk, episode, verdicts, futures, told, lost, intent, ended>>
  /\ Elsewhere

\* _abort() told EP_FAILED last.
RingFailed ==
  /\ At("ring")
  /\ Rung(ended, "failed")
  /\ pc' = "wait" /\ intent' = "none" /\ ended' = 0
  /\ UNCHANGED <<disk, episode, verdicts, futures, telemetry, lost>>
  /\ Elsewhere

Reactor ==
  \/ Tick \/ CollectOne \/ CollectDone \/ TickCapture \/ TickCheck
  \/ ListInbox \/ ReadOne \/ Judge \/ Finish \/ Tell \/ RingFailed

----------------------------------------------------------------------------
(* The worker: finalize() *)

Working == UNCHANGED <<inbox, parked, outside, process, episode, verdicts, futures,
                       telemetry, told, pc, intent, ended>>

\* The next job: an episode with no rows is discarded at once; for any other
\* a temporary directory gets the columns and the videos ...
TakeJob ==
  /\ status # "down" /\ job = {}
  /\ \E j \in jobs :
       /\ FirstJob(jobs, j) /\ jobs' = jobs \ {j}
       /\ \/ /\ j.rows = 0
             /\ results' = [results EXCEPT ![j.cap] = "discarded"]
             /\ lost' = lost \cup j.verdict
             /\ UNCHANGED <<job, tmps>>
          \/ /\ j.rows # 0
             /\ job' = {j} /\ tmps' = tmps \cup {[cap |-> j.cap, parts |-> {"data"}]}
             /\ UNCHANGED <<results, lost>>
  /\ UNCHANGED bundles
  /\ Working

\* ... and then the sidecar.
WriteSidecar ==
  \E j \in job :
    /\ [cap |-> j.cap, parts |-> {"data"}] \in tmps
    /\ tmps' = (tmps \ {[cap |-> j.cap, parts |-> {"data"}]})
                 \cup {[cap |-> j.cap, parts |-> Parts]}
    /\ UNCHANGED <<bundles, worker, lost>>
    /\ Working

\* Mutant: the job shares the recorder's list of rows, which a reset empties.
RowsShared(j) == rows

\* The job has the list to itself: a reset starts a new one.
RowsOf(j) == j.rows

\* The directory is renamed only when all is in it.
Ready(parts) == parts = Parts

\* One rename commits the bundle.
Commit ==
  \E j \in job, d \in tmps :
    /\ d.cap = j.cap /\ Ready(d.parts)
    /\ tmps' = tmps \ {d}
    /\ bundles' = bundles \cup {[cap |-> j.cap, parts |-> d.parts, rows |-> RowsOf(j),
                                 context |-> j.context, verdict |-> j.verdict]}
    /\ results' = [results EXCEPT ![j.cap] = "captured"]
    /\ job' = {}
    /\ UNCHANGED <<jobs, lost>>
    /\ Working

\* rmtree() of what a failed write left.
Cleaned(c) == {d \in tmps : d.cap # c}

\* Any step of the write may raise.
WriteFails ==
  \E j \in job :
    /\ tmps' = Cleaned(j.cap)
    /\ results' = [results EXCEPT ![j.cap] = "failed"]
    /\ lost' = lost \cup j.verdict
    /\ job' = {}
    /\ UNCHANGED <<bundles, jobs>>
    /\ Working

Worker == TakeJob \/ WriteSidecar \/ Commit

----------------------------------------------------------------------------
(* The process *)

\* What a process that ends takes with it: the reactor's memory.
Forgotten ==
  /\ Reset /\ state' = "idle"
  /\ pc' = "wait" /\ intent' = "none" /\ ended' = 0
  /\ listed' = {} /\ drained' = {} /\ matched' = {}
  /\ pending' = {} /\ todo' = {} /\ still' = {}
  /\ tele_last' = {} /\ fails' = 0
  /\ UNCHANGED <<disk, outside, minted, snapped, taken, tele, told>>

\* SIGTERM or SIGINT: the reactor returns between two handlers; the
\* interpreter waits for the worker to finish its jobs.
Terminate ==
  /\ At("wait") /\ stops < MaxStops
  /\ status' = "exiting" /\ stops' = stops + 1
  /\ Forgotten
  /\ UNCHANGED <<worker, lost>>

\* _telemetry(), one failed write too many: the exception ends the reactor, and
\* the interpreter waits for the worker as well.
TellRaises ==
  /\ At("tell") /\ tele_last # {Now} /\ fails + 1 = WRITE_FAIL_LIMIT
  /\ stops < MaxStops
  /\ status' = "exiting" /\ stops' = stops + 1
  /\ Forgotten
  /\ UNCHANGED <<worker, lost>>

Exit ==
  /\ status = "exiting" /\ jobs = {} /\ job = {}
  /\ status' = "down"
  /\ UNCHANGED <<disk, outside, stops, minted, episode, verdicts, futures, telemetry,
                 worker, told, lost, pc, intent, ended>>

\* SIGKILL or a crash.
Kill ==
  /\ status # "down" /\ stops < MaxStops
  /\ status' = "down" /\ stops' = stops + 1
  /\ lost' = lost \cup drained \cup matched \cup VerdictsOf(jobs \cup job)
  /\ jobs' = {} /\ job' = {} /\ UNCHANGED results
  /\ Forgotten

\* Mutant: a crash's leftovers stay.
SweptNone == tmps

\* _sweep_tmp().
Swept == {}

\* A new process: setup() sweeps, and its Writer blanks the telemetry cell.
Restart ==
  /\ status = "down"
  /\ status' = "up" /\ tmps' = Swept /\ tele' = Blank
  /\ UNCHANGED <<inbox, parked, bundles, outside, stops, minted, episode, verdicts,
                 futures, tele_last, fails, worker, told, lost, pc, intent, ended>>

Next ==
  \/ SubmitVerdict \/ SetContext
  \/ Start \/ Discard \/ Stop \/ Reactor
  \/ Worker \/ WriteFails
  \/ Terminate \/ TellRaises \/ Exit \/ Kill \/ Restart

Spec == Init /\ [][Next]_vars

\* The WaitSet keeps ticking while the process is up, and the pool's thread
\* is scheduled.
FairSpec == Spec /\ WF_vars(Reactor) /\ WF_vars(Worker)
----------------------------------------------------------------------------
(* Properties *)

\* Every variable has its type, and an idle recorder holds no capture.
TypeOK ==
  /\ context \in Contexts /\ inbox \subseteq Verdict /\ parked \subseteq Verdict
  /\ tmps \subseteq [cap : Captures, parts : SUBSET Parts]
  /\ bundles \subseteq Bundle
  /\ tele \in Cell /\ told \in [Captures -> Seq(Rings)]
  /\ status \in {"up", "exiting", "down"} /\ stops \in 0..MaxStops
  /\ minted \in 0..MaxCaptures
  /\ state \in {"idle", "recording"} /\ cap \in 0..minted /\ rows \in Rows
  /\ snap \subseteq Contexts
  /\ pc \in {"wait", "tell", "collect", "capture", "check", "list", "read", "ring"}
  /\ intent \in {"none", "discard", "finalize", "abort", "check", "ring"}
  /\ ended \in 0..MaxCaptures
  /\ listed \subseteq Verdict /\ drained \subseteq Verdict /\ matched \subseteq Verdict
  /\ pending \subseteq Captures /\ todo \subseteq Captures /\ still \subseteq Captures
  /\ jobs \subseteq Job /\ job \subseteq Job
  /\ results \in [Captures -> {"none", "captured", "discarded", "failed"}]
  /\ submitted \in 0..MaxVerdicts /\ lost \subseteq Verdict
  /\ snapped \in [Captures -> SUBSET Contexts] /\ taken \in [Captures -> Rows]
  /\ fails \in 0..(WRITE_FAIL_LIMIT - 1)
  /\ state = "idle" <=> cap = 0
  /\ state = "idle" => rows = 0 /\ snap = {} /\ matched = {}

\* A bundle that can be seen is whole, has exactly the rows recorded under its
\* capture and at least one, and carries the context of its own START, however
\* long the worker took and whatever was recorded beside it; its verdict names
\* this capture.
BundlesTrue ==
  \A b \in bundles :
    /\ b.parts = Parts
    /\ b.rows = taken[b.cap] /\ b.rows > 0
    /\ snapped[b.cap] = {b.context}
    /\ \A v \in b.verdict : v.cap = b.cap /\ b.verdict = {v}

\* The places of a verdict: loose, or with a job or a bundle of one capture.
Loose == <<inbox, drained, matched, parked, lost>>
Written == jobs \cup job \cup bundles

\* Every verdict submitted is in one place: the inbox, the drain in progress,
\* the quarantine, the job or the bundle of one capture, or lost with a process
\* or with an episode that was not written.  None is merged into two episodes,
\* none is both merged and parked, and none vanishes while the process lives.
VerdictsAccounted ==
  /\ \A n \in 1..submitted :
       \E v \in (UNION {Loose[i] : i \in 1..5}) \cup VerdictsOf(Written) : v.n = n
  /\ \A i, k \in 1..5 : i # k => Loose[i] \cap Loose[k] = {}
  /\ \A i \in 1..5 : Loose[i] \cap VerdictsOf(Written) = {}
  /\ \A x, y \in Written : x # y => x.verdict \cap y.verdict = {}

\* Outside a write no temporary directory is left, whatever crash or failure
\* came before.
NoOrphans ==
  status = "up" => CapsOf(tmps) = CapsOf(job)

\* Between handlers the telemetry cell shows the recorder as it is, after a
\* crash and a restart too, unless the last write of it failed: a rater judges a
\* capture that is over only if the write that would have said so was lost.
TelemetryCurrent ==
  At("wait") /\ fails = 0 => tele.state = state /\ tele.rows = rows /\ tele.cap = cap

\* An episode handed over is rung while the process stays up.
HandoverAnswered ==
  \A c \in Captures :
    (c \in CapsOf(jobs)) ~> (told[c] # <<>> \/ status # "up")

\* Every capture has one fate and the rings say which, as module Ledger
\* promises.
Fate(c) ==
  IF c \in CapsOf(bundles) THEN "kept"
  ELSE IF c \in CapsOf(jobs \cup job) THEN "writing"
  ELSE IF c = cap THEN "open"
  ELSE IF c <= minted THEN "dropped"
  ELSE "none"

Promise == INSTANCE Ledger WITH
             fate <- [c \in Captures |-> Fate(c)], told <- told
Implements == Promise!Spec
=============================================================================
