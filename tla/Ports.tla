------------------------------- MODULE Ports -------------------------------
(***************************************************************************)
(* A blackboard topic through the deaths of the processes that share it    *)
(* (ipc/blackboard.py, ipc/node.py, the lazy reader of ipc/service.py):    *)
(* the writer's constructor step by step, write() with its limit of        *)
(* failures in a row, and readers that open when the topic is there.       *)
(*                                                                         *)
(* iceoryx2 is external: a segment lives as long as a process holds it,    *)
(* and a process that crashed goes on holding it, and the writer's slot,   *)
(* until someone reaps dead nodes.  A writer that ends otherwise gives its *)
(* handle back a moment later, and the next may be there before that       *)
(* (KNOWN-ISSUES.md).  supervisord is external too: it starts the writer   *)
(* again when it ends unasked, but gives up after StartRetries more starts *)
(* that ended too soon.                                                    *)
(***************************************************************************)
EXTENDS Integers, FiniteSets

CONSTANTS
  Readers,        \* the processes that read the topic
  Writer,         \* the one that writes it
  None,
  WRITE_FAIL_LIMIT,
  StartRetries,   \* startretries of the writer's service
  MaxWrites,      \* bound: write() calls in one life of the writer
  MaxMisses,      \* bound: writes that fail, counted with the stops before them
  MaxStops        \* bound: crashes and exits of any process

ASSUME PortsAssumption ==
  /\ Writer \notin Readers /\ None \notin [life : Nat, n : Nat]
  /\ WRITE_FAIL_LIMIT \in Nat \ {0} /\ StartRetries \in Nat
  /\ MaxWrites \in Nat /\ MaxMisses \in Nat /\ MaxStops \in Nat

Procs == Readers \cup {Writer}

\* Each life of the writer but the first follows a stop of a process or a write
\* that failed.
MaxLives == 1 + MaxStops + MaxMisses

\* A value: the life of the writer it comes from, and its frame_id.
Value == [life : Nat, n : Nat]

VARIABLES
  \* iceoryx2
  seg,            \* the segment the topic's name stands for; 0 if there is none
  segs,           \* segments created so far
  cells,          \* per segment, its value
  holds,          \* per process, the segment its node holds; 0 for none
  leaving,        \* a writer that ended has its handle, and the slot, still
  \* the processes
  alive,
  pc,             \* the writer: down | create | sweep | recreate | open | blank | up |
                  \*   raised | fatal
  early,          \* the supervisor's count: starts in a row that ended too soon
  life,           \* lives of the writer that got the topic
  n, fails,
  seen,           \* per reader, what it read last
  misses, stops,
  missed          \* history: writes lost since the last that landed

ipc == <<seg, segs, cells, holds, leaving>>
counts == <<misses, stops>>
writer == <<pc, early, life, n, fails, missed>>
vars == <<ipc, alive, writer, seen, counts>>

Init ==
  /\ seg = 0 /\ segs = 0 /\ leaving = FALSE
  /\ cells = [s \in 0..MaxLives |-> [life |-> 0, n |-> 0]]
  /\ holds = [p \in Procs |-> 0]
  /\ alive = [p \in Procs |-> p \in Readers]
  /\ pc = "down" /\ early = 0 /\ life = 0 /\ n = 0 /\ fails = 0 /\ missed = 0
  /\ seen = [r \in Readers |-> None]
  /\ misses = 0 /\ stops = 0

----------------------------------------------------------------------------
(* iceoryx2 *)

\* The segment once the processes of dropped have let go: it goes with the last.
SegmentWithout(dropped) == IF \E p \in Procs \ dropped : holds[p] = seg THEN seg ELSE 0

Release(dropped) ==
  /\ holds' = [p \in Procs |-> IF p \in dropped THEN 0 ELSE holds[p]]
  /\ seg' = IF leaving THEN seg ELSE SegmentWithout(dropped)
  /\ UNCHANGED <<segs, cells, leaving>>

Dead == {p \in Procs : ~alive[p]}

\* cleanup_dead_nodes().
SweepDead == Release(Dead)

\* The writer's process ends in order: its handle is there a while longer ...
Leave ==
  /\ holds' = [holds EXCEPT ![Writer] = 0]
  /\ leaving' = (leaving \/ holds[Writer] # 0)
  /\ UNCHANGED <<seg, segs, cells>>

\* ... and then is torn down.
Teardown ==
  /\ leaving /\ leaving' = FALSE
  /\ seg' = SegmentWithout({})
  /\ UNCHANGED <<segs, cells, holds, alive, writer, seen, counts>>

----------------------------------------------------------------------------
(* The supervisor *)

\* It starts the process, whose node() reaps dead nodes.
Boot ==
  /\ pc = "down" /\ pc' = "create"
  /\ alive' = [alive EXCEPT ![Writer] = TRUE]
  /\ n' = 0 /\ fails' = 0 /\ missed' = 0
  /\ SweepDead
  /\ UNCHANGED <<early, life, seen, counts>>

\* The process has ended unasked.  One that had lasted startsecs is started
\* again, one that had not only as long as the budget lasts.
AfterEnd ==
  \/ pc' = "down" /\ early' = 0
  \/ pc' = "down" /\ early < StartRetries /\ early' = early + 1
  \/ pc' = "fatal" /\ early = StartRetries /\ early' = 0

\* koyu restart of a writer that is FATAL.
Restart ==
  /\ pc = "fatal" /\ pc' = "down"
  /\ UNCHANGED <<ipc, alive, early, life, n, fails, missed, seen, counts>>

Ended ==
  /\ alive' = [alive EXCEPT ![Writer] = FALSE]
  /\ UNCHANGED <<life, n, fails, missed, seen>>

----------------------------------------------------------------------------
(* Writer.__init__ *)

\* The topic is this life's.
Got == life' = life + 1 /\ pc' = "blank"

\* Mutant: create takes the name over from a segment that readers hold.
CreatedAnew ==
  /\ Got
  /\ segs' = segs + 1 /\ seg' = segs + 1
  /\ cells' = [cells EXCEPT ![segs + 1] = [life |-> life + 1, n |-> 0]]
  /\ holds' = [holds EXCEPT ![Writer] = segs + 1]
  /\ UNCHANGED leaving

\* create(): a new segment, which holds the initial value ...
Created ==
  /\ seg = 0 /\ Got
  /\ segs' = segs + 1 /\ seg' = segs + 1
  /\ cells' = [cells EXCEPT ![segs + 1] = [life |-> life + 1, n |-> 0]]
  /\ holds' = [holds EXCEPT ![Writer] = segs + 1]
  /\ UNCHANGED leaving

\* ... or AlreadyExists.
Exists(next) == seg # 0 /\ pc' = next /\ UNCHANGED <<ipc, life>>

Create ==
  /\ pc = "create"
  /\ Created \/ Exists("sweep")
  /\ UNCHANGED <<alive, early, n, fails, missed, seen, counts>>

Sweep ==
  /\ pc = "sweep" /\ pc' = "recreate"
  /\ SweepDead
  /\ UNCHANGED <<alive, early, life, n, fails, missed, seen, counts>>

Recreate ==
  /\ pc = "recreate"
  /\ Created \/ Exists("open")
  /\ UNCHANGED <<alive, early, n, fails, missed, seen, counts>>

\* Readers hold the segment: open it and take the writer's slot.
Open ==
  /\ pc = "open" /\ seg # 0 /\ ~leaving /\ Got
  /\ holds' = [holds EXCEPT ![Writer] = seg]
  /\ UNCHANGED <<seg, segs, cells, leaving, alive, early, n, fails, missed, seen, counts>>

\* The process ends by an exception.
EndByException == Leave /\ Ended /\ AfterEnd

\* Those who held the segment have gone in between, or the slot is the last
\* writer's still: HandleAlreadyExists.
OpenFails ==
  /\ pc = "open" /\ (seg = 0 \/ leaving)
  /\ EndByException /\ UNCHANGED counts

\* What the cell says when the constructor is done.
Put(v) == cells' = [cells EXCEPT ![holds[Writer]] = v]

\* Mutant: a reopened segment keeps its value.
KeepOld == UNCHANGED cells

\* Mutant: nothing is written at all.
PutNone == Put(None)

\* The initial value is written explicitly.
Reset == Put([life |-> life, n |-> 0])

Blank ==
  /\ pc = "blank"
  /\ Reset /\ fails' = 0 /\ pc' = "up"
  /\ UNCHANGED <<seg, segs, holds, leaving, alive, early, life, n, missed, seen, counts>>

BlankFails ==
  /\ pc = "blank" /\ misses + stops < MaxMisses
  /\ misses' = misses + 1 /\ EndByException /\ UNCHANGED stops

----------------------------------------------------------------------------
(* write() *)

\* Mutant: a success does not reset the count.
FailsKept == fails

\* The failures in a row after a success.
FailsAfterSuccess == 0

Write ==
  /\ pc = "up" /\ n < MaxWrites
  /\ n' = n + 1 /\ fails' = FailsAfterSuccess /\ missed' = 0
  /\ Put([life |-> life, n |-> n + 1])
  /\ UNCHANGED <<seg, segs, holds, leaving, alive, pc, early, life, seen, counts>>

\* Whether the writer raises after a failure.
GivesUp == fails + 1 >= WRITE_FAIL_LIMIT

WriteFails ==
  /\ pc = "up" /\ n < MaxWrites /\ misses + stops < MaxMisses
  /\ n' = n + 1 /\ fails' = fails + 1 /\ missed' = missed + 1 /\ misses' = misses + 1
  /\ pc' = IF GivesUp THEN "raised" ELSE "up"
  /\ UNCHANGED <<ipc, alive, early, life, seen, stops>>

\* The exception ends the process.
Raise == pc = "raised" /\ EndByException /\ UNCHANGED counts

----------------------------------------------------------------------------
(* _LazyReader *)

\* A reader's process starts, and its node() reaps dead nodes.
StartReader(r) ==
  /\ ~alive[r]
  /\ alive' = [alive EXCEPT ![r] = TRUE]
  /\ SweepDead
  /\ UNCHANGED <<writer, seen, counts>>

\* The topic is there and the port is not open yet.
CanOpen(r) == holds[r] = 0 /\ seg # 0

OpenPort(r) ==
  /\ alive[r] /\ CanOpen(r)
  /\ holds' = [holds EXCEPT ![r] = seg]
  /\ UNCHANGED <<seg, segs, cells, leaving, alive, writer, seen, counts>>

\* Mutant: the copy is made once.
CopiedOnce(r) == IF seen[r] = None THEN cells[holds[r]] ELSE seen[r]

\* What a reader copies out.
Copied(r) == cells[holds[r]]

\* read(): None until the port is open, then the value of now.
Read(r) ==
  /\ alive[r] /\ holds[r] # 0
  /\ seen' = [seen EXCEPT ![r] = Copied(r)]
  /\ UNCHANGED <<ipc, alive, writer, counts>>

----------------------------------------------------------------------------
(* Stops of a process *)

Stopped(p) == alive[p] /\ stops < MaxStops /\ stops' = stops + 1 /\ UNCHANGED misses

\* What a reader saw goes with it.
ReaderStopped(r) ==
  /\ Stopped(r)
  /\ alive' = [alive EXCEPT ![r] = FALSE] /\ seen' = [seen EXCEPT ![r] = None]
  /\ UNCHANGED writer

WriterStopped == Stopped(Writer) /\ Ended

\* A crash leaves the node behind, dead.
Crash(p) ==
  /\ \/ p \in Readers /\ ReaderStopped(p)
     \/ p = Writer /\ WriterStopped /\ AfterEnd
  /\ UNCHANGED ipc

\* SIGTERM: run() returns.  The writer's is koyu restart: stopped, to be started.
Exit(p) ==
  \/ p \in Readers /\ ReaderStopped(p) /\ Release({p})
  \/ /\ p = Writer /\ pc = "up" /\ WriterStopped /\ Leave
     /\ pc' = "down" /\ early' = 0

----------------------------------------------------------------------------
\* The writer's process from its start to the end of the constructor.
Construct == Boot \/ Create \/ Sweep \/ Recreate \/ Open \/ OpenFails \/ Blank

WriterStep ==
  Construct \/ BlankFails \/ Write \/ WriteFails \/ Raise \/ Restart \/ Teardown

ReaderStep(r) == StartReader(r) \/ OpenPort(r) \/ Read(r)

Next ==
  \/ WriterStep
  \/ \E r \in Readers : ReaderStep(r)
  \/ \E p \in Procs : Crash(p) \/ Exit(p)

Spec == Init /\ [][Next]_vars
----------------------------------------------------------------------------
(* Properties *)

\* Every variable has its type.
TypeOK ==
  /\ seg \in Nat /\ segs \in Nat /\ leaving \in BOOLEAN
  /\ cells \in [0..MaxLives -> Value]
  /\ holds \in [Procs -> Nat] /\ alive \in [Procs -> BOOLEAN]
  /\ pc \in {"down", "create", "sweep", "recreate", "open", "blank", "up", "raised", "fatal"}
  /\ early \in 0..StartRetries /\ life \in 0..MaxLives
  /\ n \in Nat /\ fails \in Nat /\ missed \in Nat
  /\ seen \in [Readers -> Value \cup {None}]
  /\ misses \in Nat /\ stops \in Nat

\* "readers never see stale state (e.g. a live motor command) between recovery
\* and this writer's first control-loop write()": once the constructor has
\* returned, what any open port shows is of this life of the writer.
FreshOnceUp ==
  pc = "up" => \A r \in Readers : holds[r] # 0 => cells[holds[r]].life = life

\* "fail-fast writes": a writer goes on only while fewer than
\* WRITE_FAIL_LIMIT writes in a row were lost, and raises at no other time.
FailFast ==
  /\ pc = "up" => missed < WRITE_FAIL_LIMIT
  /\ pc = "raised" => missed = WRITE_FAIL_LIMIT

\* The newest value anyone wrote is in the newest segment.
Board == INSTANCE LatestValue WITH cell <- cells[segs], seen <- seen

\* Whatever dies in whatever order, readers and writer share one cell that
\* only moves forward.
SharesOneCell == Board!Spec
=============================================================================
