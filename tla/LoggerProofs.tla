---------------------------- MODULE LoggerProofs ----------------------------
(***************************************************************************)
(* Theorems about Ports, for any readers, limits and bounds, and about     *)
(* Logger, whose process is one of those readers.                          *)
(***************************************************************************)
EXTENDS Logger, FiniteSetTheorems, TLAPS

Steps == {"down", "create", "sweep", "recreate", "open", "blank", "up", "raised", "fatal"}

----------------------------------------------------------------------------
(* The inductive invariant *)

AliveWhileRunning == alive[Writer] <=> pc \notin {"down", "fatal"}

\* A life creates one segment at most, and all but the last have ended by a stop
\* or a lost write.
Bounds ==
  /\ segs <= life
  /\ stops <= MaxStops /\ misses <= MaxMisses /\ life <= 1 + stops + misses
  /\ pc \notin {"blank", "up"} => life <= stops + misses

\* There is one segment that anyone holds: the newest.
Holding ==
  /\ seg \in {0, segs}
  /\ \A p \in Procs : holds[p] \in {0, seg}
  /\ leaving => seg # 0

Owns == pc \in {"blank", "up", "raised"} => holds[Writer] = segs /\ segs # 0

\* The newest segment against the life of the writer.
Top ==
  /\ cells[segs].life <= life
  /\ pc = "blank" =>
       cells[segs].life < life \/ cells[segs] = [life |-> life, n |-> 0]
  /\ pc \in {"up", "raised"} => cells[segs].life = life /\ cells[segs].n <= n

\* The count of failures against the writes that were lost.
Counted ==
  /\ pc \in {"create", "sweep", "recreate", "open", "blank"} => missed = 0
  /\ pc = "up" => fails = missed /\ missed < WRITE_FAIL_LIMIT
  /\ pc = "raised" => missed = WRITE_FAIL_LIMIT

PInv ==
  /\ TypeOK /\ AliveWhileRunning /\ Bounds /\ Holding /\ Owns /\ Top /\ Counted

----------------------------------------------------------------------------
(* Types *)

LEMMA TypeInit == Init => TypeOK
<1> SUFFICES ASSUME Init PROVE TypeOK
  OBVIOUS
<1>1. cells \in [0..MaxLives -> Value]
  <2>1. [life |-> 0, n |-> 0] \in Value
    BY DEF Value
  <2>2. QED
    BY <2>1 DEF Init
<1>2. seen \in [Readers -> Value \cup {None}]
  BY DEF Init
<1>3. holds \in [Procs -> Nat] /\ alive \in [Procs -> BOOLEAN]
  BY DEF Init
<1>4. 0 \in 0..MaxLives /\ 0 \in 0..StartRetries
  BY PortsAssumption DEF MaxLives
<1>5. QED
  BY <1>1, <1>2, <1>3, <1>4 DEF Init, TypeOK

\* Letting go keeps the types.
LEMMA ReleaseTyped ==
  ASSUME TypeOK, NEW dropped, Release(dropped)
  PROVE  /\ seg' \in Nat /\ holds' \in [Procs -> Nat] /\ leaving' \in BOOLEAN
         /\ segs' = segs /\ cells' = cells
BY DEF TypeOK, Release, SegmentWithout

LEMMA LeaveTyped ==
  ASSUME TypeOK, Leave
  PROVE  /\ seg' \in Nat /\ holds' \in [Procs -> Nat] /\ leaving' \in BOOLEAN
         /\ segs' = segs /\ cells' = cells
BY DEF TypeOK, Leave

LEMMA AfterEndTyped ==
  ASSUME TypeOK, AfterEnd
  PROVE  pc' \in {"down", "fatal"} /\ early' \in 0..(StartRetries)
BY PortsAssumption DEF TypeOK, AfterEnd

\* An end of the writer's process keeps them.
LEMMA EndTyped ==
  ASSUME TypeOK, EndByException, UNCHANGED stops, misses' \in Nat
  PROVE  TypeOK'
<1>1. Writer \in Procs
  BY DEF Procs
<1>2. /\ seg' \in Nat /\ holds' \in [Procs -> Nat] /\ leaving' \in BOOLEAN
      /\ segs' = segs /\ cells' = cells
  BY LeaveTyped DEF EndByException
<1>3. alive' \in [Procs -> BOOLEAN] /\ seen' = seen
  BY <1>1 DEF EndByException, Ended, TypeOK
<1>4. /\ life' = life /\ n' = n /\ fails' = fails /\ missed' = missed
      /\ pc' \in {"down", "fatal"} /\ early' \in 0..StartRetries
  BY AfterEndTyped DEF EndByException, Ended
<1>5. QED
  BY <1>2, <1>3, <1>4 DEF TypeOK

\* So does the end of any process.
LEMMA StoppedTyped ==
  ASSUME TypeOK, NEW p \in Procs,
         \/ p \in Readers /\ ReaderStopped(p)
         \/ p = Writer /\ WriterStopped /\ pc' \in {"down", "fatal"} /\ early' \in 0..StartRetries,
         seg' \in Nat, holds' \in [Procs -> Nat], leaving' \in BOOLEAN,
         segs' = segs, cells' = cells
  PROVE  TypeOK'
<1>1. CASE p \in Readers /\ ReaderStopped(p)
  <2>1. alive' \in [Procs -> BOOLEAN] /\ seen' \in [Readers -> Value \cup {None}]
    BY <1>1 DEF ReaderStopped, TypeOK
  <2>2. misses' = misses /\ stops' \in Nat /\ UNCHANGED writer
    BY <1>1 DEF ReaderStopped, Stopped, TypeOK
  <2>3. QED
    BY <2>1, <2>2 DEF TypeOK, writer
<1>2. CASE p = Writer /\ WriterStopped /\ pc' \in {"down", "fatal"} /\ early' \in 0..StartRetries
  <2>1. alive' \in [Procs -> BOOLEAN] /\ seen' = seen
    BY <1>2 DEF WriterStopped, Ended, TypeOK
  <2>2. /\ life' = life /\ n' = n /\ fails' = fails /\ missed' = missed
        /\ misses' = misses /\ stops' \in Nat
    BY <1>2 DEF WriterStopped, Ended, Stopped, TypeOK
  <2>3. QED
    BY <1>2, <2>1, <2>2 DEF TypeOK
<1>3. QED
  BY <1>1, <1>2

\* Every step keeps the types.
LEMMA TypeStep == PInv /\ [Next]_vars => TypeOK'
<1> SUFFICES ASSUME PInv, [Next]_vars PROVE TypeOK'
  OBVIOUS
<1> USE PortsAssumption
<1>a. TypeOK
  BY DEF PInv
<1> USE <1>a
<1>0. Writer \in Procs /\ Readers \subseteq Procs
  BY DEF Procs
<1>1. CASE Boot
  <2>1. /\ seg' \in Nat /\ holds' \in [Procs -> Nat] /\ leaving' \in BOOLEAN
        /\ segs' = segs /\ cells' = cells
    BY <1>1, ReleaseTyped DEF Boot, SweepDead
  <2>2. alive' \in [Procs -> BOOLEAN]
    BY <1>1, <1>0 DEF Boot, TypeOK
  <2>3. /\ pc' = "create" /\ life' = life /\ n' = 0 /\ fails' = 0 /\ missed' = 0
        /\ seen' = seen /\ misses' = misses /\ stops' = stops /\ early' = early
    BY <1>1 DEF Boot, TypeOK, counts
  <2>4. QED
    BY <2>1, <2>2, <2>3 DEF TypeOK
<1>l. ASSUME pc \notin {"blank", "up"} PROVE life + 1 \in 0..MaxLives
  BY <1>l DEF PInv, Bounds, TypeOK, MaxLives
<1>2. ASSUME Created, pc \notin {"blank", "up"},
             UNCHANGED <<alive, early, n, fails, missed, seen, counts>>
      PROVE  TypeOK'
  <2>1. [life |-> life + 1, n |-> 0] \in Value
    BY DEF TypeOK, Value
  <2>2. cells' \in [0..MaxLives -> Value]
    BY <1>2, <2>1 DEF Created, TypeOK
  <2>3. holds' \in [Procs -> Nat]
    BY <1>2, <1>0 DEF Created, TypeOK
  <2>4. /\ seg' \in Nat /\ segs' \in Nat /\ leaving' = leaving /\ pc' = "blank"
        /\ alive' = alive /\ n' = n /\ fails' = fails /\ early' = early
        /\ missed' = missed /\ seen' = seen /\ misses' = misses /\ stops' = stops
        /\ life' \in 0..MaxLives
    BY <1>2, <1>l DEF Created, Got, TypeOK, counts
  <2>5. QED
    BY <2>2, <2>3, <2>4 DEF TypeOK
<1>3. ASSUME NEW next \in Steps, Exists(next),
             UNCHANGED <<alive, early, n, fails, missed, seen, counts>>
      PROVE  TypeOK'
  BY <1>3 DEF Exists, ipc, TypeOK, counts, Steps
<1>4. CASE Create
  BY <1>2, <1>3, <1>4 DEF Create, Steps
<1>5. CASE Sweep
  <2>1. /\ seg' \in Nat /\ holds' \in [Procs -> Nat] /\ leaving' \in BOOLEAN
        /\ segs' = segs /\ cells' = cells
    BY <1>5, ReleaseTyped DEF Sweep, SweepDead
  <2>2. QED
    BY <1>5, <2>1 DEF Sweep, TypeOK, counts
<1>6. CASE Recreate
  BY <1>2, <1>3, <1>6 DEF Recreate, Steps
<1>7. CASE Open
  BY <1>7, <1>0, <1>l DEF Open, Got, TypeOK, counts
<1>8. CASE OpenFails
  BY <1>8, EndTyped DEF OpenFails, counts, TypeOK
<1>9. CASE Blank
  <2>1. [life |-> life, n |-> 0] \in Value
    BY DEF TypeOK, Value
  <2>2. cells' \in [0..MaxLives -> Value]
    BY <1>9, <2>1 DEF Blank, Reset, Put, TypeOK
  <2>3. QED
    BY <1>9, <2>2 DEF Blank, TypeOK, counts
<1>10. CASE BlankFails
  BY <1>10, EndTyped DEF BlankFails, TypeOK
<1>11. CASE Write
  <2>1. [life |-> life, n |-> n + 1] \in Value
    BY DEF TypeOK, Value
  <2>2. cells' \in [0..MaxLives -> Value]
    BY <1>11, <2>1 DEF Write, Put, TypeOK
  <2>3. QED
    BY <1>11, <2>2 DEF Write, TypeOK, counts, FailsAfterSuccess
<1>12. CASE WriteFails
  BY <1>12 DEF WriteFails, TypeOK, ipc
<1>13. CASE Raise
  BY <1>13, EndTyped DEF Raise, counts, TypeOK
<1>14. ASSUME NEW r \in Readers, StartReader(r) PROVE TypeOK'
  <2>1. /\ seg' \in Nat /\ holds' \in [Procs -> Nat] /\ leaving' \in BOOLEAN
        /\ segs' = segs /\ cells' = cells
    BY <1>14, ReleaseTyped DEF StartReader, SweepDead
  <2>2. QED
    BY <1>14, <2>1 DEF StartReader, TypeOK, counts, writer
<1>15. ASSUME NEW r \in Readers, OpenPort(r) PROVE TypeOK'
  BY <1>15 DEF OpenPort, TypeOK, counts, writer
<1>16. ASSUME NEW r \in Readers, Read(r) PROVE TypeOK'
  <2>1. holds[r] \in 0..MaxLives
    BY <1>0 DEF PInv, TypeOK, Holding, Bounds, MaxLives
  <2>2. Copied(r) \in Value
    BY <2>1 DEF Copied, TypeOK
  <2>3. QED
    BY <1>16, <2>2 DEF Read, TypeOK, counts, writer, ipc
<1>17. ASSUME NEW p \in Procs, Crash(p) PROVE TypeOK'
  BY <1>17, StoppedTyped, AfterEndTyped DEF Crash, ipc, TypeOK
<1>18. ASSUME NEW p \in Procs, Exit(p) PROVE TypeOK'
  <2>1. /\ seg' \in Nat /\ holds' \in [Procs -> Nat] /\ leaving' \in BOOLEAN
        /\ segs' = segs /\ cells' = cells
    BY <1>18, ReleaseTyped, LeaveTyped DEF Exit
  <2>2. 0 \in 0..StartRetries
    OBVIOUS
  <2>3. QED
    BY <1>18, <2>1, <2>2, StoppedTyped DEF Exit
<1>a1. CASE Restart
  BY <1>a1 DEF Restart, ipc, counts, TypeOK
<1>a2. CASE Teardown
  BY <1>a2 DEF Teardown, SegmentWithout, writer, counts, TypeOK
<1>19. CASE UNCHANGED vars
  BY <1>19 DEF vars, ipc, counts, writer, TypeOK
<1>20. QED
  BY <1>1, <1>4, <1>5, <1>6, <1>7, <1>8, <1>9, <1>10, <1>11, <1>12, <1>13, <1>14, <1>15,
     <1>16, <1>17, <1>18, <1>19, <1>a1, <1>a2
     DEF Next, WriterStep, Construct, ReaderStep

----------------------------------------------------------------------------
(* The invariant *)

LEMMA InvInit == Init => PInv
<1> SUFFICES ASSUME Init PROVE PInv
  OBVIOUS
<1>1. MaxLives \in Nat
  BY PortsAssumption DEF MaxLives
<1>2. TypeOK
  BY TypeInit
<1>3. AliveWhileRunning
  BY PortsAssumption DEF Init, AliveWhileRunning, Procs
<1>4. Holding
  BY DEF Init, Holding
<1>5. cells[0] = [life |-> 0, n |-> 0]
  BY <1>1 DEF Init
<1>6. QED
  BY PortsAssumption, <1>1, <1>2, <1>3, <1>4, <1>5 DEF Init, PInv, Bounds, Owns, Top, Counted

\* Letting go leaves the newest segment the only one held, and the ports of
\* the others open.
LEMMA ReleaseHolds ==
  ASSUME TypeOK, Holding, NEW dropped, Release(dropped)
  PROVE  /\ Holding' /\ segs' = segs /\ cells' = cells
         /\ \A p \in Procs \ dropped : holds'[p] = holds[p]
<1>1. \A p \in Procs : holds'[p] = IF p \in dropped THEN 0 ELSE holds[p]
  BY DEF Release
<1>2. segs' = segs /\ cells' = cells
  BY DEF Release
<1>3. seg' \in {0, segs'}
  BY <1>2 DEF Release, Holding, SegmentWithout
<1>4. ASSUME NEW p \in Procs PROVE holds'[p] \in {0, seg'}
  <2>1. CASE p \in dropped
    BY <1>1, <2>1
  <2>2. CASE p \notin dropped /\ holds[p] = seg
    BY <1>1, <2>2 DEF Release, SegmentWithout
  <2>3. CASE p \notin dropped /\ holds[p] # seg
    BY <1>1, <2>3 DEF Holding
  <2>4. QED
    BY <2>1, <2>2, <2>3
<1>5. leaving' => seg' # 0
  BY DEF Release, Holding
<1>6. QED
  BY <1>1, <1>2, <1>3, <1>4, <1>5 DEF Holding

\* A writer that leaves has what it holds a while longer.
LEMMA LeaveHolds ==
  ASSUME TypeOK, Holding, Leave
  PROVE  Holding' /\ segs' = segs /\ cells' = cells
<1>1. Writer \in Procs
  BY DEF Procs
<1>2. \A p \in Procs : holds'[p] = IF p = Writer THEN 0 ELSE holds[p]
  BY <1>1 DEF Leave, TypeOK
<1>3. leaving' => seg # 0
  BY <1>1 DEF Leave, Holding
<1>4. QED
  BY <1>2, <1>3 DEF Leave, Holding

\* What ends a life is counted.
LEMMA Counts ==
  ASSUME NEW a \in Nat, NEW b \in Nat, NEW c \in Nat, NEW d \in Nat, NEW k \in Nat,
         a <= c, b <= d
  PROVE  /\ k <= a + b => k <= c + d
         /\ k <= 1 + a + b => k <= 1 + c + d
         /\ k <= 1 + a + b /\ c + d > a + b => k <= c + d
         /\ b < d => c + d > a + b
         /\ a < c => c + d > a + b
OBVIOUS

\* An end of the writer's process keeps the invariant.
LEMMA EndKeeps ==
  ASSUME PInv, TypeOK', Holding', segs' = segs, cells' = cells, Ended, pc' \in {"down", "fatal"},
         misses' \in misses..MaxMisses, stops' \in stops..MaxStops,
         pc \in {"blank", "up"} => stops' + misses' > stops + misses
  PROVE PInv'
<1>1. life' = life /\ n' = n /\ fails' = fails /\ missed' = missed
  BY DEF Ended
<1>2. alive'[Writer] = FALSE
  BY DEF Ended, PInv, TypeOK, Procs
<1>t. /\ misses \in Nat /\ stops \in Nat /\ misses' \in Nat /\ stops' \in Nat /\ life \in Nat
      /\ MaxStops \in Nat /\ MaxMisses \in Nat
  BY PortsAssumption DEF PInv, TypeOK
<1>i. /\ segs <= life /\ life <= 1 + stops + misses
      /\ pc \notin {"blank", "up"} => life <= stops + misses
  BY DEF PInv, Bounds
<1>g. stops' >= stops /\ misses' >= misses /\ stops' <= MaxStops /\ misses' <= MaxMisses
  BY <1>t
<1>l. life <= stops' + misses' /\ life <= 1 + stops' + misses'
  BY <1>i, <1>g, <1>t, Counts
<1>3. Bounds'
  BY <1>1, <1>i, <1>g, <1>l DEF Bounds
<1>4. QED
  BY <1>1, <1>2, <1>3
     DEF PInv, AliveWhileRunning, Owns, Top, Counted

\* A step that leaves the writer alone and only lets go or opens readers'
\* ports keeps it.
LEMMA ReadersKeep ==
  ASSUME PInv, TypeOK', Holding', segs' = segs, cells' = cells, UNCHANGED writer,
         holds'[Writer] = holds[Writer] \/ pc \in {"down", "fatal"},
         alive'[Writer] = alive[Writer], misses' = misses, stops' \in stops..MaxStops
  PROVE  PInv'
<1>1. pc' = pc /\ life' = life /\ n' = n /\ fails' = fails /\ missed' = missed
  BY DEF writer
<1>2. Owns'
  BY <1>1 DEF PInv, Owns
<1>3. Top'
  BY <1>1 DEF PInv, Top
<1>t. /\ misses \in Nat /\ stops \in Nat /\ misses' \in Nat /\ stops' \in Nat /\ life \in Nat
      /\ MaxStops \in Nat /\ MaxMisses \in Nat
  BY PortsAssumption DEF PInv, TypeOK
<1>i. /\ segs <= life /\ life <= 1 + stops + misses /\ misses <= MaxMisses
      /\ pc \notin {"blank", "up"} => life <= stops + misses
  BY DEF PInv, Bounds
<1>g. stops' >= stops /\ stops' <= MaxStops /\ misses' >= misses
  BY <1>t
<1>l. life <= 1 + stops' + misses' /\ (life <= stops + misses => life <= stops' + misses')
  BY <1>i, <1>g, <1>t, Counts
<1>4. Bounds'
  BY <1>1, <1>i, <1>g, <1>l DEF Bounds
<1>5. QED
  BY <1>1, <1>2, <1>3, <1>4 DEF PInv, AliveWhileRunning, Counted

\* A new segment has nothing of an earlier life.
LEMMA CreatedKeeps ==
  ASSUME PInv, TypeOK', pc \in {"create", "recreate"}, Created,
         UNCHANGED <<alive, early, n, fails, missed, counts>>
  PROVE  PInv'
<1>1. segs \in Nat /\ life \in Nat /\ segs <= life /\ Writer \in Procs
  BY DEF PInv, TypeOK, Bounds, Procs
<1>2. segs + 1 \in 0..MaxLives /\ life' = life + 1 /\ life <= stops + misses
  BY PortsAssumption DEF PInv, TypeOK, Bounds, MaxLives, Created, Got
<1>4. segs' = segs + 1 /\ seg' = segs + 1 /\ pc' = "blank" /\ seg = 0 /\ leaving' = leaving
  BY DEF Created, Got
<1>5. cells'[segs'] = [life |-> life', n |-> 0]
  BY <1>2, <1>4 DEF Created, PInv, TypeOK
<1>6. \A p \in Procs : holds'[p] = IF p = Writer THEN segs' ELSE holds[p]
  BY <1>4 DEF Created, PInv, TypeOK
<1>7. Holding'
  BY <1>1, <1>4, <1>6 DEF Holding, PInv
<1>8. Owns'
  BY <1>1, <1>4, <1>6 DEF Owns
<1>9. Top'
  BY <1>1, <1>2, <1>4, <1>5 DEF Top
<1>10. misses' = misses /\ stops' = stops
  BY DEF counts
<1>11. Bounds'
  BY <1>1, <1>2, <1>4, <1>10 DEF PInv, Bounds, TypeOK
<1>12. QED
  BY <1>4, <1>7, <1>8, <1>9, <1>11 DEF PInv, AliveWhileRunning, Counted

\* AlreadyExists changes the writer's place only.
LEMMA ExistsKeeps ==
  ASSUME PInv, TypeOK', pc \in {"create", "recreate"},
         NEW next \in {"sweep", "open"}, Exists(next),
         UNCHANGED <<alive, early, n, fails, missed, counts>>
  PROVE  PInv'
<1>1. /\ pc' = next /\ seg' = seg /\ segs' = segs /\ cells' = cells /\ holds' = holds
      /\ leaving' = leaving /\ life' = life /\ misses' = misses /\ stops' = stops
  BY DEF Exists, ipc, counts
<1>2. QED
  BY <1>1 DEF PInv, AliveWhileRunning, Bounds, Holding, Owns, Top, Counted

\* What the writer puts is in the newest segment.
LEMMA PutTop ==
  ASSUME PInv, pc \in {"blank", "up"}, NEW v, Put(v)
  PROVE  cells'[segs] = v /\ segs \in 0..MaxLives
<1>1. segs \in 0..MaxLives
  BY PortsAssumption DEF PInv, TypeOK, Bounds, MaxLives
<1>2. QED
  BY <1>1 DEF Put, PInv, Owns, TypeOK

\* Every step keeps the invariant.
LEMMA InvStep == PInv /\ [Next]_vars => PInv'
<1> SUFFICES ASSUME PInv, [Next]_vars PROVE PInv'
  OBVIOUS
<1> USE PortsAssumption
<1>t. TypeOK' /\ TypeOK
  BY TypeStep DEF PInv
<1>w. Writer \in Procs /\ Readers \subseteq Procs
  BY DEF Procs
<1> USE <1>t, <1>w
<1>d. ASSUME SweepDead
      PROVE  /\ Holding' /\ segs' = segs /\ cells' = cells
             /\ pc \notin {"down", "fatal"} => holds'[Writer] = holds[Writer]
  <2>1. pc \notin {"down", "fatal"} => Writer \notin Dead
    BY DEF PInv, AliveWhileRunning, Dead
  <2>2. QED
    BY <1>d, <2>1, ReleaseHolds DEF SweepDead, PInv
<1>1. CASE Boot
  <2>1. Holding' /\ segs' = segs /\ cells' = cells
    BY <1>1, <1>d DEF Boot
  <2>2. /\ pc' = "create" /\ pc = "down" /\ life' = life /\ missed' = 0
        /\ alive'[Writer] = TRUE /\ misses' = misses /\ stops' = stops
    BY <1>1 DEF Boot, TypeOK, counts
  <2>3. Bounds'
    BY <2>1, <2>2 DEF Bounds, PInv
  <2>4. QED
    BY <2>1, <2>2, <2>3 DEF PInv, AliveWhileRunning, Owns, Top, Counted
<1>2. CASE Create
  BY <1>2, CreatedKeeps, ExistsKeeps DEF Create
<1>3. CASE Sweep
  <2>1. Holding' /\ segs' = segs /\ cells' = cells
    BY <1>3, <1>d DEF Sweep
  <2>2. /\ pc = "sweep" /\ pc' = "recreate" /\ alive' = alive /\ life' = life /\ n' = n
        /\ fails' = fails /\ missed' = missed /\ misses' = misses /\ stops' = stops
    BY <1>3 DEF Sweep, counts
  <2>3. QED
    BY <2>1, <2>2 DEF PInv, AliveWhileRunning, Bounds, Owns, Top, Counted
<1>4. CASE Recreate
  BY <1>4, CreatedKeeps, ExistsKeeps DEF Recreate
<1>5. CASE Open
  <2>1. /\ pc = "open" /\ pc' = "blank" /\ seg # 0 /\ seg' = seg /\ segs' = segs
        /\ cells' = cells /\ alive' = alive /\ life' = life + 1 /\ n' = n /\ fails' = fails
        /\ missed' = missed /\ misses' = misses /\ stops' = stops /\ leaving' = leaving
    BY <1>5 DEF Open, Got, counts
  <2>2. \A p \in Procs : holds'[p] = IF p = Writer THEN seg ELSE holds[p]
    BY <1>5 DEF Open, TypeOK
  <2>3. Holding' /\ Owns'
    BY <2>1, <2>2 DEF Holding, Owns, PInv
  <2>4. segs \in 0..MaxLives /\ life \in Nat
    BY DEF PInv, TypeOK, Bounds, MaxLives
  <2>5. cells[segs].life \in Nat
    BY <2>4 DEF TypeOK, Value
  <2>6. Top'
    <3>1. cells[segs].life <= life
      BY DEF Top, PInv
    <3>2. cells[segs].life < life + 1
      BY <2>4, <2>5, <3>1
    <3>3. cells'[segs'].life < life' /\ cells'[segs'].life <= life'
      BY <2>1, <2>4, <2>5, <3>2
    <3>4. QED
      BY <2>1, <3>3 DEF Top
  <2>7. Bounds'
    BY <2>1 DEF Bounds, PInv, TypeOK
  <2>8. QED
    BY <2>1, <2>3, <2>6, <2>7 DEF PInv, AliveWhileRunning, Counted
<1>e. ASSUME EndByException, misses' \in misses..MaxMisses, stops' = stops,
             pc \in {"blank", "up"} => misses' > misses
      PROVE  PInv'
  <2>1. Holding' /\ segs' = segs /\ cells' = cells
    BY <1>e, LeaveHolds DEF EndByException, PInv
  <2>2. Ended /\ pc' \in {"down", "fatal"}
    BY <1>e, AfterEndTyped DEF EndByException
  <2>3. stops' \in stops..MaxStops
    BY <1>e DEF PInv, Bounds, TypeOK
  <2>4. pc \in {"blank", "up"} => stops' + misses' > stops + misses
    <3>1. misses \in Nat /\ stops \in Nat
      BY DEF TypeOK
    <3>2. misses' \in Nat /\ misses <= misses'
      BY <1>e, <3>1
    <3>3. stops' \in Nat /\ stops <= stops'
      BY <1>e, <3>1
    <3>4. misses < misses' => stops' + misses' > stops + misses
      BY <3>1, <3>2, <3>3, Counts
    <3>5. QED
      BY <1>e, <3>4
  <2>5. QED
    BY <1>e, <2>1, <2>2, <2>3, <2>4, EndKeeps
<1>m. misses \in misses..MaxMisses /\ stops \in stops..MaxStops
  BY DEF PInv, Bounds, TypeOK
<1>6. CASE OpenFails
  BY <1>6, <1>e, <1>m DEF OpenFails, counts
<1>7. CASE Blank
  <2>1. /\ pc = "blank" /\ pc' = "up" /\ seg' = seg /\ segs' = segs /\ holds' = holds
        /\ alive' = alive /\ life' = life /\ n' = n /\ fails' = 0 /\ missed' = missed
        /\ leaving' = leaving /\ misses' = misses /\ stops' = stops
    BY <1>7 DEF Blank, counts
  <2>2. cells'[segs] = [life |-> life, n |-> 0]
    BY <1>7, <2>1, PutTop DEF Blank, Reset
  <2>3. Top'
    BY <2>1, <2>2 DEF Top, TypeOK
  <2>4. Counted'
    BY <2>1 DEF Counted, PInv
  <2>5. QED
    BY <2>1, <2>3, <2>4 DEF PInv, AliveWhileRunning, Bounds, Holding, Owns
<1>8. CASE BlankFails
  <2>1. misses' = misses + 1 /\ misses' \in misses..MaxMisses
    BY <1>8 DEF BlankFails, TypeOK
  <2>2. QED
    BY <1>8, <1>e, <2>1 DEF BlankFails, TypeOK
<1>9. CASE Write
  <2>1. /\ pc = "up" /\ pc' = "up" /\ seg' = seg /\ segs' = segs /\ holds' = holds
        /\ alive' = alive /\ life' = life /\ n' = n + 1 /\ fails' = 0 /\ missed' = 0
        /\ leaving' = leaving /\ misses' = misses /\ stops' = stops
    BY <1>9 DEF Write, FailsAfterSuccess, counts
  <2>2. cells'[segs] = [life |-> life, n |-> n + 1]
    BY <1>9, <2>1, PutTop DEF Write
  <2>3. Top'
    BY <2>1, <2>2 DEF Top, TypeOK
  <2>4. Counted'
    BY <2>1 DEF Counted
  <2>5. QED
    BY <2>1, <2>3, <2>4 DEF PInv, AliveWhileRunning, Bounds, Holding, Owns
<1>10. CASE WriteFails
  <2>1. /\ pc = "up" /\ seg' = seg /\ segs' = segs /\ holds' = holds /\ cells' = cells
        /\ alive' = alive /\ life' = life /\ n' = n + 1 /\ fails' = fails + 1
        /\ missed' = missed + 1 /\ leaving' = leaving /\ stops' = stops
        /\ misses' = misses + 1 /\ misses + stops < MaxMisses
        /\ pc' = IF fails + 1 >= WRITE_FAIL_LIMIT THEN "raised" ELSE "up"
    BY <1>10 DEF WriteFails, ipc, GivesUp
  <2>2. segs \in 0..MaxLives
    BY DEF PInv, TypeOK, Bounds, MaxLives
  <2>3. cells[segs].n \in Nat
    BY <2>2 DEF TypeOK, Value
  <2>4. Top'
    BY <2>1, <2>3 DEF Top, PInv, TypeOK
  <2>5. Counted'
    BY <2>1 DEF Counted, PInv, TypeOK
  <2>6. Bounds'
    BY <2>1 DEF PInv, Bounds, TypeOK
  <2>7. QED
    BY <2>1, <2>4, <2>5, <2>6 DEF PInv, AliveWhileRunning, Holding, Owns
<1>11. CASE Raise
  BY <1>11, <1>e, <1>m DEF Raise, counts
<1>12. ASSUME NEW r \in Readers, StartReader(r) PROVE PInv'
  <2>1. /\ Holding' /\ segs' = segs /\ cells' = cells
        /\ holds'[Writer] = holds[Writer] \/ pc \in {"down", "fatal"}
    BY <1>12, <1>d DEF StartReader
  <2>2. alive'[Writer] = alive[Writer] /\ UNCHANGED writer /\ misses' = misses /\ stops' = stops
    BY <1>12 DEF StartReader, TypeOK, counts
  <2>3. QED
    BY <1>m, <2>1, <2>2, ReadersKeep
<1>13. ASSUME NEW r \in Readers, OpenPort(r) PROVE PInv'
  <2>1. /\ seg' = seg /\ segs' = segs /\ cells' = cells /\ seg # 0
        /\ alive' = alive /\ UNCHANGED writer /\ misses' = misses /\ stops' = stops
        /\ leaving' = leaving
    BY <1>13 DEF OpenPort, CanOpen, counts
  <2>2. \A p \in Procs : holds'[p] = IF p = r THEN seg ELSE holds[p]
    BY <1>13 DEF OpenPort, TypeOK
  <2>3. Holding'
    BY <2>1, <2>2 DEF Holding, PInv
  <2>4. QED
    BY <1>m, <2>1, <2>2, <2>3, ReadersKeep
<1>14. ASSUME NEW r \in Readers, Read(r) PROVE PInv'
  BY <1>14, <1>m, ReadersKeep DEF Read, ipc, Holding, PInv, counts
<1>s. ASSUME NEW p \in Procs, Stopped(p)
      PROVE  misses' = misses /\ stops' = stops + 1 /\ stops' \in stops..MaxStops
  BY <1>s DEF Stopped, TypeOK
<1>15. ASSUME NEW r \in Readers, ReaderStopped(r), Holding', segs' = segs, cells' = cells,
              holds'[Writer] = holds[Writer]
       PROVE PInv'
  <2>1. alive'[Writer] = alive[Writer] /\ UNCHANGED writer
    BY <1>15 DEF ReaderStopped, TypeOK
  <2>2. misses' = misses /\ stops' \in stops..MaxStops
    BY <1>15, <1>s DEF ReaderStopped
  <2>3. QED
    BY <1>15, <2>1, <2>2, ReadersKeep
<1>w1. ASSUME WriterStopped, Holding', segs' = segs, cells' = cells, pc' \in {"down", "fatal"}
       PROVE PInv'
  <2>1. misses' = misses /\ stops' = stops + 1 /\ stops' \in stops..MaxStops
    BY <1>w1, <1>s DEF WriterStopped
  <2>2. stops' + misses' > stops + misses /\ misses' \in misses..MaxMisses
    BY <1>m, <2>1, Counts DEF TypeOK
  <2>3. QED
    BY <1>w1, <2>1, <2>2, EndKeeps DEF WriterStopped
<1>16. ASSUME NEW p \in Procs, Crash(p) PROVE PInv'
  <2>1. Holding' /\ segs' = segs /\ cells' = cells /\ holds' = holds
    BY <1>16 DEF Crash, ipc, Holding, PInv
  <2>2. QED
    BY <1>15, <1>w1, <1>16, <2>1, AfterEndTyped DEF Crash
<1>17. ASSUME NEW p \in Procs, Exit(p) PROVE PInv'
  <2>1. CASE p \in Readers /\ ReaderStopped(p) /\ Release({p})
    BY <1>15, <2>1, ReleaseHolds DEF PInv
  <2>2. CASE WriterStopped /\ Leave /\ pc' = "down"
    BY <1>w1, <2>2, LeaveHolds DEF PInv
  <2>3. QED
    BY <1>17, <2>1, <2>2 DEF Exit
<1>a1. CASE Restart
  <2>1. /\ pc = "fatal" /\ pc' = "down" /\ UNCHANGED <<ipc, alive, life, n, fails, missed, counts>>
    BY <1>a1 DEF Restart
  <2>2. QED
    BY <2>1 DEF ipc, counts, PInv, AliveWhileRunning, Bounds, Holding, Owns, Top, Counted
<1>a2. CASE Teardown
  <2>1. /\ leaving' = FALSE /\ seg' \in {0, seg} /\ segs' = segs /\ cells' = cells
        /\ holds' = holds /\ alive' = alive /\ UNCHANGED writer
        /\ misses' = misses /\ stops' = stops
    BY <1>a2 DEF Teardown, SegmentWithout, counts
  <2>2. \A p \in Procs : holds[p] # 0 => seg' = seg
    BY <1>a2 DEF Teardown, SegmentWithout, PInv, Holding
  <2>3. Holding'
    BY <2>1, <2>2 DEF PInv, Holding
  <2>4. QED
    BY <1>m, <2>1, <2>3, ReadersKeep
<1>18. CASE UNCHANGED vars
  BY <1>18, <1>m, ReadersKeep DEF vars, ipc, writer, Holding, PInv, counts
<1>19. QED
  BY <1>1, <1>2, <1>3, <1>4, <1>5, <1>6, <1>7, <1>8, <1>9, <1>10, <1>11, <1>12, <1>13,
     <1>14, <1>16, <1>17, <1>18, <1>a1, <1>a2
     DEF Next, WriterStep, Construct, ReaderStep

LEMMA Invariant == Spec => []PInv
BY InvInit, InvStep, PTL DEF Spec

----------------------------------------------------------------------------
(* Results *)

\* Every variable of the blackboard's protocol keeps its type.
THEOREM PortsTyped == Spec => []TypeOK
BY Invariant, PTL DEF PInv

\* Whatever died before, once the writer's constructor has returned no open
\* port shows a value of an earlier writer (Writer.__init__'s explicit write).
THEOREM NoStaleCommand == Spec => []FreshOnceUp
<1>1. PInv => FreshOnceUp
  BY DEF PInv, Holding, Top, FreshOnceUp, Procs, TypeOK
<1>2. QED
  BY <1>1, Invariant, PTL

\* For every limit: the writer raises exactly when that many writes in a row
\* were lost.
THEOREM RaisesAtTheLimit == Spec => []FailFast
<1>1. PInv => FailFast
  BY DEF PInv, Counted, FailFast
<1>2. QED
  BY <1>1, Invariant, PTL

----------------------------------------------------------------------------
(* Refinement: the topic is one cell that moves forward *)

\* A step that leaves the newest segment alone, with what the readers saw.
LEMMA Stutters ==
  ASSUME segs' = segs, cells' = cells, seen' = seen
  PROVE  UNCHANGED Board!vars
BY DEF Board!vars

\* The first value is the cell before any write.
LEMMA BoardInit == Init => Board!Init
<1> SUFFICES ASSUME Init PROVE Board!Init
  OBVIOUS
<1>1. 0 \in 0..MaxLives
  BY PortsAssumption DEF MaxLives
<1>2. QED
  BY <1>1 DEF Init, Board!Init

\* A reader that stops forgets what it saw.
LEMMA StoppedForgets ==
  ASSUME NEW r \in Readers, ReaderStopped(r), segs' = segs, cells' = cells
  PROVE  [Board!Next]_(Board!vars)
<1>1. Board!Forget(r)
  BY DEF ReaderStopped, Board!Forget
<1>2. QED
  BY <1>1 DEF Board!Next

\* A new segment starts with a newer value than any before it.
LEMMA CreatedWrites ==
  ASSUME PInv, pc \in {"create", "recreate"}, Created, UNCHANGED seen
  PROVE  Board!Write
<1>1. segs + 1 \in 0..MaxLives /\ segs \in 0..MaxLives /\ segs' = segs + 1
  BY PortsAssumption DEF PInv, TypeOK, Bounds, Created, MaxLives
<1>2. cells'[segs'] = [life |-> life + 1, n |-> 0]
  BY <1>1 DEF Created, PInv, TypeOK
<1>3. cells[segs].life < life + 1
  BY <1>1 DEF PInv, Top, TypeOK, Value
<1>4. QED
  BY <1>2, <1>3 DEF Board!Write, Board!Older

\* Every step of the processes is a step of the cell, or none.
LEMMA BoardStep == PInv /\ [Next]_vars => [Board!Next]_(Board!vars)
<1> SUFFICES ASSUME PInv, [Next]_vars PROVE [Board!Next]_(Board!vars)
  OBVIOUS
<1>d. ASSUME NEW dropped, Release(dropped) PROVE segs' = segs /\ cells' = cells
  BY <1>d DEF Release
<1>1. CASE Boot
  BY <1>1, <1>d, Stutters DEF Boot, SweepDead
<1>2. ASSUME NEW next, Exists(next), UNCHANGED seen PROVE UNCHANGED Board!vars
  BY <1>2, Stutters DEF Exists, ipc
<1>3. CASE Create
  BY <1>2, <1>3, CreatedWrites DEF Create, Board!Next
<1>4. CASE Sweep
  BY <1>4, <1>d, Stutters DEF Sweep, SweepDead
<1>5. CASE Recreate
  BY <1>2, <1>5, CreatedWrites DEF Recreate, Board!Next
<1>6. CASE Open
  BY <1>6, Stutters DEF Open
<1>7. ASSUME EndByException PROVE UNCHANGED Board!vars
  BY <1>7, Stutters DEF EndByException, Leave, Ended
<1>a1. CASE Restart \/ Teardown
  BY <1>a1, Stutters DEF Restart, Teardown, ipc
<1>w. ASSUME WriterStopped, segs' = segs, cells' = cells PROVE UNCHANGED Board!vars
  BY <1>w, Stutters DEF WriterStopped, Ended
<1>8. CASE Blank
  <2>1. cells'[segs] = [life |-> life, n |-> 0] /\ segs' = segs /\ seen' = seen
    BY <1>8, PutTop DEF Blank, Reset
  <2>2. cells[segs].life < life \/ cells[segs] = [life |-> life, n |-> 0]
    BY <1>8 DEF Blank, PInv, Top
  <2>3. CASE cells[segs].life < life
    <3>1. Board!Write
      BY <2>1, <2>3 DEF Board!Write, Board!Older
    <3>2. QED
      BY <3>1 DEF Board!Next
  <2>4. CASE cells[segs] = [life |-> life, n |-> 0]
    BY <2>1, <2>4 DEF Board!vars
  <2>5. QED
    BY <2>2, <2>3, <2>4
<1>9. CASE Write
  <2>1. cells'[segs] = [life |-> life, n |-> n + 1] /\ segs' = segs /\ seen' = seen
    BY <1>9, PutTop DEF Write
  <2>2. cells[segs].life = life /\ cells[segs].n <= n /\ n \in Nat
    BY <1>9 DEF Write, PInv, Top, TypeOK
  <2>3. segs \in 0..MaxLives
    <3>1. segs \in Nat /\ segs <= life /\ life \in 0..MaxLives
      BY DEF PInv, TypeOK, Bounds
    <3>2. QED
      BY <3>1, PortsAssumption DEF MaxLives
  <2>4. cells[segs].n \in Nat
    BY <2>3 DEF PInv, TypeOK, Value
  <2>5. cells[segs].n < n + 1
    BY <2>2, <2>4
  <2>6. Board!Write
    BY <2>1, <2>2, <2>5 DEF Board!Write, Board!Older
  <2>7. QED
    BY <2>6 DEF Board!Next
<1>10. CASE WriteFails
  BY <1>10, Stutters DEF WriteFails, ipc
<1>11. ASSUME NEW r \in Readers, StartReader(r) PROVE UNCHANGED Board!vars
  BY <1>11, <1>d, Stutters DEF StartReader, SweepDead
<1>12. ASSUME NEW r \in Readers, OpenPort(r) PROVE UNCHANGED Board!vars
  BY <1>12, Stutters DEF OpenPort
<1>13. ASSUME NEW r \in Readers, Read(r) PROVE Board!Next
  <2>1. holds[r] = segs
    BY <1>13 DEF Read, PInv, Holding, Procs
  <2>2. Board!Copy(r)
    BY <1>13, <2>1 DEF Read, Copied, Board!Copy, ipc
  <2>3. QED
    BY <2>2 DEF Board!Next
<1>14. ASSUME NEW p \in Procs, Crash(p) PROVE [Board!Next]_(Board!vars)
  BY <1>14, <1>w, StoppedForgets DEF Crash, ipc
<1>15. ASSUME NEW p \in Procs, Exit(p) PROVE [Board!Next]_(Board!vars)
  <2>1. segs' = segs /\ cells' = cells
    BY <1>15, <1>d DEF Exit, Leave
  <2>2. QED
    BY <1>15, <1>w, <2>1, StoppedForgets DEF Exit
<1>16. CASE UNCHANGED vars
  BY <1>16, Stutters DEF vars, ipc
<1>17. QED
  BY <1>1, <1>3, <1>4, <1>5, <1>6, <1>7, <1>8, <1>9, <1>10, <1>11, <1>12, <1>13,
     <1>14, <1>15, <1>16, <1>a1
     DEF Next, WriterStep, Construct, ReaderStep, OpenFails, BlankFails, Raise

\* Through any deaths of writers and readers the topic is one cell that only
\* moves forward, and a reader copies the value it has (BlackboardWriter).
THEOREM TopicIsOneCell == Spec => SharesOneCell
<1>1. Spec => Board!Init /\ [][Board!Next]_(Board!vars)
  BY BoardInit, BoardStep, Invariant, PTL DEF Spec
<1>2. QED
  BY <1>1 DEF SharesOneCell, Board!Spec

----------------------------------------------------------------------------
(* What a reader sees *)

\* No copy is newer than the cell.
Behind == \A r \in Readers : seen[r] # None => ~Board!Older(cells[segs], seen[r])

\* Two values in order, and one that is not after the first.
LEMMA OlderStays ==
  ASSUME NEW a \in Value, NEW b \in Value, NEW c \in Value,
         Board!Older(a, b), ~Board!Older(a, c)
  PROVE  ~Board!Older(b, c)
BY DEF Board!Older, Value

LEMMA NotOlderThanItself == ASSUME NEW a \in Value PROVE ~Board!Older(a, a)
BY DEF Board!Older, Value

LEMMA BehindStep ==
  ASSUME PInv, PInv', Behind, [Next]_vars
  PROVE  /\ Behind'
         /\ \A r \in Readers :
              seen[r] # None /\ seen'[r] # None => ~Board!Older(seen'[r], seen[r])
<1>1. cells[segs] \in Value /\ cells'[segs'] \in Value
  <2>0. segs \in Nat /\ segs <= life /\ life \in 0..MaxLives /\ MaxLives \in Nat
    BY PortsAssumption DEF PInv, TypeOK, Bounds, MaxLives
  <2>a. segs' \in Nat /\ segs' <= life' /\ life' \in 0..MaxLives
    BY DEF PInv, TypeOK, Bounds
  <2>1. segs \in 0..MaxLives /\ segs' \in 0..MaxLives
    BY <2>0, <2>a
  <2>2. QED
    BY <2>1 DEF PInv, TypeOK
<1>2. \A r \in Readers : seen[r] # None => seen[r] \in Value
  BY DEF PInv, TypeOK
<1>3. CASE Board!Write
  BY <1>1, <1>2, <1>3, OlderStays, NotOlderThanItself DEF Board!Write, Behind
<1>4. ASSUME NEW r \in Readers, Board!Copy(r)
      PROVE  /\ Behind'
             /\ \A q \in Readers :
                  seen[q] # None /\ seen'[q] # None => ~Board!Older(seen'[q], seen[q])
  <2>1. seen' = [seen EXCEPT ![r] = cells[segs]] /\ cells'[segs'] = cells[segs]
    BY <1>4 DEF Board!Copy
  <2>2. \A q \in Readers : seen'[q] = IF q = r THEN cells[segs] ELSE seen[q]
    BY <2>1 DEF PInv, TypeOK
  <2>3. QED
    BY <1>1, <1>2, <2>1, <2>2, NotOlderThanItself DEF Behind
<1>5. ASSUME NEW r \in Readers, Board!Forget(r)
      PROVE  /\ Behind'
             /\ \A q \in Readers :
                  seen[q] # None /\ seen'[q] # None => ~Board!Older(seen'[q], seen[q])
  <2>1. seen' = [seen EXCEPT ![r] = None] /\ cells'[segs'] = cells[segs]
    BY <1>5 DEF Board!Forget
  <2>2. \A q \in Readers : seen'[q] = IF q = r THEN None ELSE seen[q]
    BY <2>1 DEF PInv, TypeOK
  <2>3. QED
    BY <1>2, <2>1, <2>2, NotOlderThanItself DEF Behind
<1>6. CASE UNCHANGED Board!vars
  BY <1>2, <1>6, NotOlderThanItself DEF Board!vars, Behind
<1>7. QED
  BY <1>3, <1>4, <1>5, <1>6, BoardStep DEF Board!Next

\* As long as its process lives, a reader never gets an older value after a
\* newer one, whichever writers came and went in between (Reader.read).
THEOREM ReadersNeverGoBack ==
  Spec => [][\A r \in Readers :
               seen[r] # None /\ seen'[r] # None => ~Board!Older(seen'[r], seen[r])]_vars
<1>1. Init => Behind
  BY DEF Init, Behind
<1>2. PInv /\ PInv' /\ Behind /\ [Next]_vars => Behind'
  BY BehindStep
<1>3. PInv /\ PInv' /\ Behind /\ [Next]_vars =>
        [\A r \in Readers :
           seen[r] # None /\ seen'[r] # None => ~Board!Older(seen'[r], seen[r])]_vars
  BY BehindStep
<1>4. QED
  BY <1>1, <1>2, <1>3, Invariant, PTL DEF Spec

----------------------------------------------------------------------------
(* The logger is a reader among others *)

\* Beside its files the logger does nothing to a topic that a reader may not.
LEMMA LoggerStep == [LoggerNext]_allvars => [Next]_vars
<1> SUFFICES ASSUME [LoggerNext]_allvars PROVE [Next]_vars
  OBVIOUS
<1>0. Log \in Readers /\ Log \in Procs
  BY LoggerAssumption DEF Procs
<1>1. CASE Others
  BY <1>0, <1>1 DEF Others, Next, ReaderStep
<1>2. CASE Tick
  <2>1. Read(Log)
    BY <1>2 DEF Tick
  <2>2. QED
    BY <1>0, <2>1 DEF Next, ReaderStep
<1>3. CASE StopLogger
  <2>1. Crash(Log) \/ Exit(Log)
    BY <1>3 DEF StopLogger
  <2>2. QED
    BY <1>0, <2>1 DEF Next
<1>4. CASE Save \/ Evict
  BY <1>4 DEF Save, Evict
<1>5. CASE UNCHANGED allvars
  BY <1>5 DEF allvars
<1>6. QED
  BY <1>1, <1>2, <1>3, <1>4, <1>5 DEF LoggerNext

\* The topic that the logger reads is the topic of module Ports: whatever is
\* proved of Ports holds with the logger among its readers.
THEOREM LoggerReadsPorts == LoggerSpec => Spec
<1>1. LoggerInit => Init
  BY DEF LoggerInit
<1>2. QED
  BY <1>1, LoggerStep, PTL DEF LoggerSpec, Spec

\* With the logger running, no open port shows a value of an earlier writer
\* once the writer's constructor has returned.
THEOREM LoggerSeesNoStaleValue == LoggerSpec => []FreshOnceUp
BY LoggerReadsPorts, NoStaleCommand, PTL

\* With the logger running, the writer goes on only while fewer than
\* WRITE_FAIL_LIMIT writes in a row were lost.
THEOREM LoggerFailsFast == LoggerSpec => []FailFast
BY LoggerReadsPorts, RaisesAtTheLimit, PTL

\* With the logger running, readers and writer share one cell that only moves
\* forward.
THEOREM LoggerSharesOneCell == LoggerSpec => SharesOneCell
BY LoggerReadsPorts, TopicIsOneCell, PTL

----------------------------------------------------------------------------
(* The sum over the ring *)

\* FoldFunction(+, 0, g) is a recursion over the subsets of g's domain that
\* takes whichever element it picks first.
Pick(s) == CHOOSE x \in s : TRUE
Recurs(h, g, T) ==
  h = [s \in SUBSET T |-> IF s = {} THEN 0 ELSE g[Pick(s)] + h[s \ {Pick(s)}]]

Sum(g, T) == (CHOOSE h : Recurs(h, g, T))[T]

\* There is no infinite descent among the subsets of a finite set.
LEMMA Least ==
  ASSUME NEW S, IsFiniteSet(S), NEW B, B \subseteq SUBSET S, B # {}
  PROVE  \E T \in B : \A U \in B : ~(U \subseteq T /\ U # T)
<1>1. B \subseteq FiniteSubsetsOf(S)
  BY FS_Subset DEF FiniteSubsetsOf
<1> DEFINE R == StrictSubsetOrdering(S)
<1>2. IsWellFoundedOn(R, FiniteSubsetsOf(S))
  BY FS_StrictSubsetOrderingWellFounded
<1> HIDE DEF R
<1>3. \E T \in B : \A U \in B : <<U, T>> \notin R
  BY <1>1, <1>2, WFMin
<1>4. QED
  BY <1>3 DEF R, StrictSubsetOrdering

LEMMA Picked == ASSUME NEW s, s # {} PROVE Pick(s) \in s
BY DEF Pick

\* Two recursions over functions that agree have the same values.
LEMMA RecursUnique ==
  ASSUME NEW W, IsFiniteSet(W), NEW g, NEW f, \A x \in W : g[x] = f[x],
         NEW T, NEW U, W \subseteq T, W \subseteq U,
         NEW h, NEW k, Recurs(h, g, T), Recurs(k, f, U)
  PROVE  h[W] = k[W]
<1> DEFINE B == {s \in SUBSET W : h[s] # k[s]}
<1>1. SUFFICES ASSUME B # {} PROVE FALSE
  OBVIOUS
<1>2. PICK s \in B : \A u \in B : ~(u \subseteq s /\ u # s)
  <2>1. B \subseteq SUBSET W
    OBVIOUS
  <2> HIDE DEF B
  <2>2. QED
    BY <1>1, <2>1, Least
<1>3. s \subseteq W /\ h[s] # k[s]
  OBVIOUS
<1>4. CASE s = {}
  BY <1>3, <1>4 DEF Recurs
<1>5. CASE s # {}
  <2> DEFINE t == s \ {Pick(s)}
  <2>1. Pick(s) \in s
    BY <1>5, Picked
  <2>2. t \subseteq s /\ t # s /\ t \subseteq W
    BY <1>3, <2>1
  <2>3. h[t] = k[t]
    BY <1>2, <2>2
  <2>4. h[s] = g[Pick(s)] + h[t] /\ k[s] = f[Pick(s)] + k[t]
    BY <1>3, <1>5 DEF Recurs
  <2>5. QED
    BY <1>3, <2>1, <2>3, <2>4
<1>6. QED
  BY <1>4, <1>5

\* And there is one over every finite set.
LEMMA RecursExists ==
  ASSUME NEW D, IsFiniteSet(D), NEW g PROVE \E h : Recurs(h, g, D)
<1> DEFINE H(s) == CHOOSE h : Recurs(h, g, s)
           B == {s \in SUBSET D : ~\E h : Recurs(h, g, s)}
<1>1. SUFFICES ASSUME B # {} PROVE FALSE
  OBVIOUS
<1>2. PICK M \in B : \A u \in B : ~(u \subseteq M /\ u # M)
  <2>1. B \subseteq SUBSET D
    OBVIOUS
  <2> HIDE DEF B
  <2>2. QED
    BY <1>1, <2>1, Least
<1>3. M \subseteq D /\ ~\E h : Recurs(h, g, M)
  OBVIOUS
<1>4. ASSUME NEW t, t \subseteq M, t # M PROVE Recurs(H(t), g, t) /\ IsFiniteSet(t)
  <2>1. t \subseteq D /\ t \notin B
    BY <1>2, <1>3, <1>4
  <2>2. QED
    BY <2>1, FS_Subset
<1> HIDE DEF H, B
<1> DEFINE k == [s \in SUBSET M |->
                   IF s = {} THEN 0 ELSE g[Pick(s)] + H(s \ {Pick(s)})[s \ {Pick(s)}]]
<1>5. ASSUME NEW t, t \subseteq M, t # M PROVE k[t] = H(t)[t]
  <2>1. Recurs(H(t), g, t) /\ IsFiniteSet(t)
    BY <1>4, <1>5
  <2>2. CASE t = {}
    BY <2>1, <2>2 DEF Recurs
  <2>3. CASE t # {}
    <3> DEFINE u == t \ {Pick(t)}
    <3>1. Pick(t) \in t
      BY <2>3, Picked
    <3>2. u \subseteq t /\ u \subseteq M /\ u # M
      BY <1>5, <3>1
    <3>3. Recurs(H(u), g, u) /\ IsFiniteSet(u)
      BY <1>4, <3>2
    <3>4. H(t)[u] = H(u)[u]
      BY <2>1, <3>2, <3>3, RecursUnique
    <3>5. H(t)[t] = g[Pick(t)] + H(t)[u]
      BY <2>1, <2>3 DEF Recurs
    <3>6. k[t] = g[Pick(t)] + H(u)[u]
      BY <1>5, <2>3
    <3>7. QED
      BY <3>4, <3>5, <3>6
  <2>4. QED
    BY <2>2, <2>3
<1>6. ASSUME NEW s \in SUBSET M, s # {}
      PROVE  H(s \ {Pick(s)})[s \ {Pick(s)}] = k[s \ {Pick(s)}]
  <2>1. Pick(s) \in s
    BY <1>6, Picked
  <2>2. s \ {Pick(s)} \subseteq M /\ s \ {Pick(s)} # M
    BY <2>1
  <2>3. QED
    BY <1>5, <2>2
<1>7. k = [s \in SUBSET M |-> IF s = {} THEN 0 ELSE g[Pick(s)] + k[s \ {Pick(s)}]]
  BY <1>6
<1> HIDE DEF k
<1>8. Recurs(k, g, M)
  BY <1>7 DEF Recurs
<1>9. QED
  BY <1>3, <1>8

LEMMA SumRecurs ==
  ASSUME NEW g, NEW T, IsFiniteSet(T) PROVE Recurs(CHOOSE h : Recurs(h, g, T), g, T)
BY RecursExists

\* The sum of nothing, and of something, by the element it picks.
LEMMA SumByPick ==
  ASSUME NEW g, NEW T, IsFiniteSet(T)
  PROVE  /\ T = {} => Sum(g, T) = 0
         /\ T # {} => Sum(g, T) = g[Pick(T)] + Sum(g, T \ {Pick(T)})
<1> DEFINE H(s) == CHOOSE h : Recurs(h, g, s)
           t == T \ {Pick(T)}
<1>1. Recurs(H(T), g, T) /\ Recurs(H(t), g, t) /\ IsFiniteSet(t)
  <2>1. IsFiniteSet(t)
    BY FS_Subset
  <2>2. QED
    BY <2>1, SumRecurs
<1>2. Sum(g, T) = H(T)[T] /\ Sum(g, t) = H(t)[t]
  BY DEF Sum
<1> HIDE DEF H
<1>3. H(T)[t] = H(t)[t]
  BY <1>1, RecursUnique
<1>4. T = {} => H(T)[T] = 0
  BY <1>1 DEF Recurs
<1>5. T # {} => H(T)[T] = g[Pick(T)] + H(T)[t]
  BY <1>1 DEF Recurs
<1>6. QED
  BY <1>2, <1>3, <1>4, <1>5

LEMMA SumSame ==
  ASSUME NEW g, NEW f, NEW T, IsFiniteSet(T), \A x \in T : g[x] = f[x]
  PROVE  Sum(g, T) = Sum(f, T)
BY SumRecurs, RecursUnique DEF Sum

LEMMA SumTyped ==
  ASSUME NEW g, NEW T, IsFiniteSet(T), \A x \in T : g[x] \in Nat PROVE Sum(g, T) \in Nat
<1> DEFINE B == {s \in SUBSET T : Sum(g, s) \notin Nat}
<1>1. SUFFICES ASSUME B # {} PROVE FALSE
  OBVIOUS
<1>2. PICK s \in B : \A u \in B : ~(u \subseteq s /\ u # s)
  <2>1. B \subseteq SUBSET T
    OBVIOUS
  <2> HIDE DEF B
  <2>2. QED
    BY <1>1, <2>1, Least
<1>3. s \subseteq T /\ IsFiniteSet(s) /\ Sum(g, s) \notin Nat
  BY FS_Subset
<1>4. s # {}
  <2>1. s = {} => Sum(g, s) = 0
    BY <1>3, SumByPick
  <2>2. QED
    BY <1>3, <2>1
<1>5. Pick(s) \in s
  BY <1>4, Picked
<1>6. Sum(g, s \ {Pick(s)}) \in Nat
  BY <1>2, <1>3, <1>5
<1>7. QED
  BY <1>3, <1>4, <1>5, <1>6, SumByPick

\* The sum takes its elements in any order.
LEMMA SumByAny ==
  ASSUME NEW g, NEW D, IsFiniteSet(D), \A x \in D : g[x] \in Nat, NEW x \in D
  PROVE  Sum(g, D) = g[x] + Sum(g, D \ {x})
<1> DEFINE Bad(s) == \E y \in s : Sum(g, s) # g[y] + Sum(g, s \ {y})
           B == {s \in SUBSET D : Bad(s)}
<1>1. SUFFICES ASSUME B # {} PROVE FALSE
  OBVIOUS
<1>2. PICK s \in B : \A u \in B : ~(u \subseteq s /\ u # s)
  <2>1. B \subseteq SUBSET D
    OBVIOUS
  <2> HIDE DEF B
  <2>2. QED
    BY <1>1, <2>1, Least
<1>3. PICK y \in s : Sum(g, s) # g[y] + Sum(g, s \ {y})
  OBVIOUS
<1> DEFINE p == Pick(s)
           t == (s \ {p}) \ {y}
<1>4. p \in s /\ IsFiniteSet(s) /\ s \subseteq D
  BY <1>3, Picked, FS_Subset
<1>5. /\ IsFiniteSet(s \ {p}) /\ IsFiniteSet(s \ {y}) /\ IsFiniteSet(t)
  BY <1>4, FS_Subset
<1>6. Sum(g, s) = g[p] + Sum(g, s \ {p})
  BY <1>4, SumByPick
<1>7. p # y
  BY <1>3, <1>6
<1>8. ASSUME NEW u, u \subseteq s, u # s, NEW z \in u PROVE Sum(g, u) = g[z] + Sum(g, u \ {z})
  <2>1. u \subseteq D /\ u \notin B
    BY <1>2, <1>4, <1>8
  <2>2. QED
    BY <1>8, <2>1
<1>9. Sum(g, s \ {p}) = g[y] + Sum(g, t)
  <2>1. s \ {p} \subseteq s /\ s \ {p} # s /\ y \in s \ {p}
    BY <1>4, <1>7
  <2>2. QED
    BY <1>8, <2>1
<1>10. Sum(g, s \ {y}) = g[p] + Sum(g, t)
  <2>1. s \ {y} \subseteq s /\ s \ {y} # s /\ p \in s \ {y} /\ (s \ {y}) \ {p} = t
    BY <1>3, <1>4, <1>7
  <2>2. QED
    BY <1>8, <2>1
<1>11. Sum(g, t) \in Nat /\ g[p] \in Nat /\ g[y] \in Nat
  <2>1. \A z \in t : g[z] \in Nat
    BY <1>4
  <2>2. QED
    BY <1>4, <1>5, <2>1, SumTyped
<1> HIDE DEF p, t
<1>12. QED
  BY <1>3, <1>6, <1>9, <1>10, <1>11

----------------------------------------------------------------------------
(* Images and files *)

\* An image has pixels: its writer has made a write.
Image == {v \in Value : v.n \in 1..MaxWrites}

LEMMA SizeTyped == \A v \in Image : Size(v) \in Nat \ {0}
BY LoggerAssumption DEF Size, Image

\* No value has a frame_id beyond the writes there may be.
Small == n \in 0..MaxWrites /\ \A s \in 0..MaxLives : cells[s].n \in 0..MaxWrites

LEMMA SmallInit == Init => Small
BY PortsAssumption DEF Init, Small

LEMMA SmallStep == ASSUME TypeOK, Small, [Next]_vars PROVE Small'
<1>1. ASSUME NEW s, NEW v, v.n \in 0..MaxWrites, cells' = [cells EXCEPT ![s] = v],
             n' \in 0..MaxWrites
      PROVE  Small'
  BY <1>1 DEF TypeOK, Small
<1>2. CASE Boot
  BY <1>2, PortsAssumption DEF Boot, SweepDead, Release, Small
<1>3. CASE Create \/ Recreate
  <2>1. n' = n
    BY <1>3 DEF Create, Recreate
  <2>2. CASE Created
    BY <1>1, <2>1, <2>2, PortsAssumption DEF Created, Small
  <2>3. CASE cells' = cells
    BY <2>1, <2>3 DEF Small
  <2>4. QED
    BY <1>3, <2>2, <2>3 DEF Create, Recreate, Exists, ipc
<1>4. CASE Sweep \/ Open \/ OpenFails \/ BlankFails \/ Raise \/ Restart \/ Teardown
  BY <1>4 DEF Sweep, SweepDead, Open, OpenFails, BlankFails, Raise, EndByException, Leave, Ended,
              Restart, Teardown, Release, Small, ipc, writer
<1>5. CASE Blank
  BY <1>1, <1>5, PortsAssumption DEF Blank, Reset, Put, Small
<1>6. CASE Write
  BY <1>1, <1>6, PortsAssumption DEF Write, Put, Small
<1>7. CASE WriteFails
  BY <1>7, PortsAssumption DEF WriteFails, ipc, Small
<1>8. CASE \E r \in Readers : ReaderStep(r)
  BY <1>8 DEF ReaderStep, StartReader, OpenPort, Read, SweepDead, Release, writer, ipc, Small
<1>9. CASE \E p \in Procs : Crash(p) \/ Exit(p)
  BY <1>9 DEF Crash, Exit, ReaderStopped, WriterStopped, Ended, Leave, Release, ipc, writer, Small
<1>10. CASE UNCHANGED vars
  BY <1>10 DEF vars, ipc, writer, Small
<1>11. QED
  BY <1>2, <1>3, <1>4, <1>5, <1>6, <1>7, <1>8, <1>9, <1>10 DEF Next, WriterStep, Construct

\* What the files of D weigh together.
Weight(F, D) == Sum([f \in D |-> Size(F[f])], D)

LEMMA TotalWeighs ==
  /\ Total = Weight(files, DOMAIN files)
  /\ Total' = Weight(files', DOMAIN files')
<1> DEFINE Sizes(F) == [f \in DOMAIN F |-> Size(F[f])]
<1>1. /\ Total = Sum(Sizes(files), DOMAIN Sizes(files))
      /\ Total' = Sum(Sizes(files'), DOMAIN Sizes(files'))
  BY DEF Total, FoldFunction, FoldFunctionOnSet, MapThenFoldSet, Recurs, Pick, Sum
<1>2. \A F : DOMAIN Sizes(F) = DOMAIN F
  OBVIOUS
<1>3. QED
  BY <1>1, <1>2 DEF Weight

\* One file more weighs its size more; nothing weighs nothing.
LEMMA OneMore ==
  ASSUME NEW D, IsFiniteSet(D), NEW F, NEW G, \A f \in D : F[f] \in Image, NEW x \in D,
         \A f \in D \ {x} : G[f] = F[f]
  PROVE  /\ Weight(F, D) = Size(F[x]) + Weight(G, D \ {x})
         /\ Weight(G, D \ {x}) \in Nat /\ Size(F[x]) \in Nat \ {0}
<1> DEFINE g == [f \in D |-> Size(F[f])]
           h == [f \in D \ {x} |-> Size(G[f])]
<1>1. \A f \in D : g[f] \in Nat \ {0}
  BY SizeTyped
<1>2. IsFiniteSet(D \ {x})
  BY FS_Subset
<1>3. Sum(g, D) = g[x] + Sum(g, D \ {x})
  BY <1>1, SumByAny
<1>4. \A f \in D \ {x} : h[f] = g[f]
  OBVIOUS
<1> HIDE DEF g, h
<1>5. Sum(g, D \ {x}) = Sum(h, D \ {x})
  BY <1>2, <1>4, SumSame
<1>6. Sum(h, D \ {x}) \in Nat
  BY <1>1, <1>2, <1>4, SumTyped
<1>7. g[x] = Size(F[x])
  BY DEF g
<1>8. QED
  BY <1>1, <1>3, <1>5, <1>6, <1>7 DEF Weight, g, h

LEMMA NoFiles == ASSUME NEW F PROVE Weight(F, {}) = 0
BY FS_EmptySet, SumByPick DEF Weight

----------------------------------------------------------------------------
(* The ring *)

\* What has been logged are images; a tick that saves or evicts has one,
\* and its process lives.
Logged ==
  /\ step \in {"wait", "save", "evict"}
  /\ last \in Nat \cup {None} /\ lives \in Nat \ {0}
  /\ saved \in Seq(Image) /\ count \in 0..Len(saved)
  /\ DOMAIN files \subseteq 1..Len(saved) /\ \A f \in DOMAIN files : files[f] \in Image
  /\ step # "wait" => alive[Log] /\ seen[Log] \in Image

\* While the logger has not been restarted: its count is the number of images it
\* saved, so the names are in the order of saving; and the image evicted last
\* would not fit beside what the ring holds now.
Ringed ==
  lives = 1 =>
    /\ NewestInOrder
    /\ step # "evict" => Total <= FRAME_CAP
    /\ \A k \in 1..count : DOMAIN files = (k + 1)..count =>
         Total + Size(saved[k]) > FRAME_CAP
    /\ step = "evict" => count # 0 /\ saved[count] = seen[Log]

LInv == PInv /\ Small /\ Logged /\ Ringed

LEMMA FilesFinite ==
  (Logged => IsFiniteSet(DOMAIN files)) /\ (Logged' => IsFiniteSet(DOMAIN files'))
<1>1. ASSUME NEW D, NEW s \in Seq(Image), D \subseteq 1..Len(s) PROVE IsFiniteSet(D)
  <2>1. IsFiniteSet(1..Len(s))
    BY FS_Interval
  <2>2. QED
    BY <1>1, <2>1, FS_Subset
<1>2. QED
  BY <1>1 DEF Logged

LEMMA RingInit == LoggerInit => LInv
<1> SUFFICES ASSUME LoggerInit PROVE LInv
  OBVIOUS
<1>1. PInv /\ Small
  BY InvInit, SmallInit DEF LoggerInit
<1>2. /\ step = "wait" /\ last = None /\ count = 0 /\ lives = 1 /\ saved = <<>>
      /\ DOMAIN files = {}
  BY DEF LoggerInit
<1>3. Logged
  BY <1>2 DEF Logged
<1>4. Total = 0
  BY <1>2, TotalWeighs, NoFiles
<1>5. NewestInOrder
  <2>1. 0 \in 0..count /\ DOMAIN files = (0 + 1)..count
    BY <1>2
  <2>2. QED
    BY <1>2, <2>1 DEF NewestInOrder
<1>6. Ringed
  BY <1>2, <1>4, <1>5, LoggerAssumption DEF Ringed
<1>7. QED
  BY <1>1, <1>3, <1>6 DEF LInv

\* What everyone else does leaves a logger that lives, and what it has read.
LEMMA OthersLeave ==
  ASSUME TypeOK, Others, alive[Log] PROVE alive'[Log] /\ seen'[Log] = seen[Log]
<1>0. Log \in Readers /\ Log # Writer /\ Log \in Procs
  BY LoggerAssumption, PortsAssumption DEF Procs
<1>1. CASE WriterStep
  BY <1>0, <1>1 DEF WriterStep, Construct, Boot, Create, Sweep, Recreate, Open, OpenFails, Blank,
                    BlankFails, Write, WriteFails, Raise, EndByException, Ended, Restart,
                    Teardown, TypeOK
<1>2. CASE OpenPort(Log) \/ StartReader(Log)
  BY <1>0, <1>2 DEF OpenPort, StartReader, TypeOK
<1>3. CASE \E r \in Readers \ {Log} : ReaderStep(r)
  BY <1>0, <1>3 DEF ReaderStep, OpenPort, StartReader, Read, TypeOK
<1>4. CASE \E p \in Procs \ {Log} : Crash(p) \/ Exit(p)
  BY <1>0, <1>4 DEF Crash, Exit, ReaderStopped, WriterStopped, Ended, TypeOK
<1>5. QED
  BY <1>1, <1>2, <1>3, <1>4 DEF Others

\* A tick that is to save has read an image.
LEMMA TickReads == ASSUME PInv, Small, Logged, Tick PROVE Logged'
<1>0. Log \in Readers /\ Log \in Procs
  BY LoggerAssumption DEF Procs
<1> DEFINE v == cells[holds[Log]]
<1>1. holds[Log] \in 0..MaxLives
  BY <1>0, PortsAssumption DEF PInv, Holding, Bounds, TypeOK, MaxLives
<1>2. v \in Value /\ v.n \in 0..MaxWrites
  BY <1>1 DEF PInv, TypeOK, Small
<1>3. /\ alive[Log] /\ alive' = alive /\ seen'[Log] = v /\ last' = v.n
      /\ step' = IF Seen(v) \/ v.n = 0 THEN "wait" ELSE "save"
      /\ UNCHANGED <<count, files, saved, lives>>
  BY <1>0 DEF Tick, Read, Copied, ring, PInv, TypeOK
<1> HIDE DEF v
<1>4. step' \in {"wait", "save"} /\ (step' = "save" => v \in Image)
  BY <1>2, <1>3, PortsAssumption DEF Image
<1>5. last' \in Nat
  BY <1>2, <1>3
<1>6. QED
  BY <1>3, <1>4, <1>5 DEF Logged

\* A new file has the name that follows the last, and weighs its image.
LEMMA RingSave == ASSUME Logged, Ringed, Save PROVE Logged' /\ Ringed'
<1> DEFINE image == seen[Log]
<1>1. image \in Image /\ alive[Log]
  BY DEF Logged, Save
<1>2. /\ count' = count + 1 /\ lives' = lives /\ saved' = Append(saved, image)
      /\ last' = last /\ step = "save" /\ step' = "evict" /\ seen' = seen /\ alive' = alive
      /\ DOMAIN files' = DOMAIN files \cup {count + 1}
      /\ \A f \in DOMAIN files' : files'[f] = IF f = count + 1 THEN image ELSE files[f]
  BY DEF Save, Numbered, vars
<1>3. seen'[Log] = image
  BY <1>2
<1> HIDE DEF image
<1>4. /\ saved' \in Seq(Image) /\ Len(saved') = Len(saved) + 1 /\ Len(saved) \in Nat
      /\ saved'[Len(saved) + 1] = image
      /\ \A f \in 1..Len(saved) : saved'[f] = saved[f] /\ saved[f] \in Image
  BY <1>1, <1>2 DEF Logged
<1>5. Logged'
  <2>1. count' \in 0..Len(saved') /\ DOMAIN files' \subseteq 1..Len(saved')
    BY <1>2, <1>4 DEF Logged
  <2>2. \A f \in DOMAIN files' : files'[f] \in Image
    BY <1>1, <1>2 DEF Logged
  <2>3. QED
    BY <1>1, <1>2, <1>3, <1>4, <2>1, <2>2 DEF Logged
<1>6. ASSUME lives = 1 PROVE Ringed'
  <2>1. count = Len(saved) /\ \A f \in DOMAIN files : files[f] = saved[f]
    BY <1>6 DEF Ringed, NewestInOrder
  <2>2. PICK k \in 0..count : DOMAIN files = (k + 1)..count
    BY <1>6 DEF Ringed, NewestInOrder
  <2>3. k \in 0..count' /\ DOMAIN files' = (k + 1)..count'
    BY <1>2, <1>4, <2>1, <2>2
  <2>4. \A f \in DOMAIN files' : files'[f] = saved'[f]
    <3>1. TAKE f \in DOMAIN files'
    <3>2. CASE f = count + 1
      BY <1>2, <1>4, <2>1, <3>2
    <3>3. CASE f # count + 1
      <4>1. f \in DOMAIN files /\ f \in 1..Len(saved)
        BY <1>2, <1>4, <2>1, <2>2, <3>3
      <4>2. QED
        BY <1>2, <1>4, <2>1, <3>3, <4>1
    <3>4. QED
      BY <3>2, <3>3
  <2>5. NewestInOrder'
    BY <1>2, <1>4, <2>1, <2>3, <2>4 DEF NewestInOrder
  <2>6. Total' = Size(image) + Total /\ Total \in Nat /\ Size(image) \in Nat \ {0}
    <3>1. IsFiniteSet(DOMAIN files')
      BY <1>5, FilesFinite
    <3>2. count + 1 \in DOMAIN files' /\ DOMAIN files' \ {count + 1} = DOMAIN files
      BY <1>2, <1>4, <2>1, <2>2
    <3>3. \A f \in DOMAIN files' : files'[f] \in Image
      BY <1>5 DEF Logged
    <3>4. \A f \in DOMAIN files' \ {count + 1} : files[f] = files'[f]
      BY <1>2
    <3>5. /\ Weight(files', DOMAIN files') = Size(files'[count + 1]) + Weight(files, DOMAIN files)
          /\ Weight(files, DOMAIN files) \in Nat /\ Size(files'[count + 1]) \in Nat \ {0}
      BY <3>1, <3>2, <3>3, <3>4, OneMore
    <3>6. files'[count + 1] = image
      BY <1>2
    <3>7. QED
      BY <3>5, <3>6, TotalWeighs
  <2>7. ASSUME NEW j \in 1..count', DOMAIN files' = (j + 1)..count'
        PROVE  Total' + Size(saved'[j]) > FRAME_CAP
    <3>1. j = k /\ j \in 1..count
      BY <1>2, <1>4, <2>1, <2>2, <2>3, <2>7
    <3>2. Total + Size(saved[j]) > FRAME_CAP
      BY <1>6, <2>2, <3>1 DEF Ringed
    <3>3. saved'[j] = saved[j] /\ Size(saved[j]) \in Nat
      BY <1>4, <2>1, <3>1, SizeTyped
    <3>4. QED
      BY <2>6, <3>2, <3>3, LoggerAssumption
  <2>8. count' # 0 /\ saved'[count'] = seen'[Log]
    BY <1>2, <1>3, <1>4, <2>1
  <2>9. QED
    BY <1>2, <2>5, <2>7, <2>8 DEF Ringed
<1>7. QED
  BY <1>2, <1>5, <1>6 DEF Ringed

\* The first name is the oldest image, so what stays is still the newest, and
\* what goes would not fit beside it.
LEMMA RingEvict == ASSUME Logged, Ringed, Evict PROVE Logged' /\ Ringed'
<1>1. UNCHANGED <<count, saved, lives, last, seen, alive>> /\ step = "evict"
  BY DEF Evict, vars
<1>2. CASE ~Over
  <2>1. files' = files /\ step' = "wait"
    BY <1>2 DEF Evict
  <2>2. Total' = Total
    BY <2>1, TotalWeighs
  <2>3. Total \in Nat
    <3>1. \A f \in DOMAIN files : [g \in DOMAIN files |-> Size(files[g])][f] \in Nat
      BY SizeTyped DEF Logged
    <3>2. QED
      BY <3>1, FilesFinite, SumTyped, TotalWeighs DEF Weight
  <2>4. Total' <= FRAME_CAP
    BY <1>2, <2>2, <2>3, LoggerAssumption DEF Over
  <2>5. Logged'
    BY <1>1, <2>1 DEF Logged
  <2>6. Ringed'
    BY <1>1, <2>1, <2>2, <2>4 DEF Ringed, NewestInOrder
  <2>7. QED
    BY <2>5, <2>6
<1>3. CASE Over
  <2>1. /\ DOMAIN files' = DOMAIN files \ {FirstName} /\ step' = step
        /\ \A f \in DOMAIN files' : files'[f] = files[f]
    BY <1>3 DEF Evict, Restrict
  <2>2. Logged'
    BY <1>1, <2>1 DEF Logged
  <2>3. ASSUME lives = 1 PROVE Ringed'
    <3>0. count = Len(saved) /\ count \in Nat /\ \A f \in DOMAIN files : files[f] = saved[f]
      BY <2>3 DEF Ringed, NewestInOrder, Logged
    <3>1. PICK k \in 0..count : DOMAIN files = (k + 1)..count
      BY <2>3 DEF Ringed, NewestInOrder
    <3>2. k # count
      <4>1. SUFFICES ASSUME k = count PROVE FALSE
        OBVIOUS
      <4>2. DOMAIN files = {}
        BY <3>0, <3>1, <4>1
      <4>3. Total = 0
        BY <4>2, TotalWeighs, NoFiles
      <4>4. QED
        BY <1>3, <4>3, LoggerAssumption DEF Over
    <3>3. FirstName = k + 1
      <4>1. k + 1 \in DOMAIN files /\ \A f \in DOMAIN files : k + 1 <= f
        BY <3>0, <3>1, <3>2
      <4>2. /\ FirstName \in DOMAIN files
            /\ \A f \in DOMAIN files : FirstName <= f
        BY <4>1 DEF FirstName, Min
      <4>3. QED
        BY <3>0, <3>1, <4>1, <4>2
    <3>4. k + 1 \in 1..count /\ DOMAIN files' = ((k + 1) + 1)..count
      BY <2>1, <3>0, <3>1, <3>2, <3>3
    <3>5. NewestInOrder'
      <4>1. k + 1 \in 0..count
        BY <3>0, <3>4
      <4>2. \A f \in DOMAIN files' : files'[f] = saved'[f]
        BY <1>1, <2>1, <3>0
      <4>3. QED
        BY <1>1, <3>0, <3>4, <4>1, <4>2 DEF NewestInOrder
    <3>6. Total = Size(saved[k + 1]) + Total'
      <4>1. k + 1 \in DOMAIN files /\ files[k + 1] = saved[k + 1]
        BY <3>0, <3>1, <3>4
      <4>2. DOMAIN files' = DOMAIN files \ {k + 1}
        BY <2>1, <3>3
      <4>3. /\ \A f \in DOMAIN files : files[f] \in Image
            /\ \A f \in DOMAIN files \ {k + 1} : files'[f] = files[f]
        BY <2>1, <4>2 DEF Logged
      <4>4. Weight(files, DOMAIN files)
              = Size(files[k + 1]) + Weight(files', DOMAIN files \ {k + 1})
        BY <4>1, <4>3, FilesFinite, OneMore
      <4>5. QED
        BY <4>1, <4>2, <4>4, TotalWeighs
    <3>7. Total' \in Nat /\ Size(saved[k + 1]) \in Nat
      <4>1. \A f \in DOMAIN files' : [g \in DOMAIN files' |-> Size(files'[g])][f] \in Nat
        BY <2>2, SizeTyped DEF Logged
      <4>2. IsFiniteSet(DOMAIN files')
        BY <2>2, FilesFinite
      <4>3. Total' \in Nat
        BY <4>1, <4>2, SumTyped, TotalWeighs DEF Weight
      <4>4. saved[k + 1] \in Image
        BY <3>0, <3>4 DEF Logged
      <4>5. QED
        BY <4>3, <4>4, SizeTyped
    <3>8. Total' + Size(saved[k + 1]) > FRAME_CAP
      BY <1>3, <3>6, <3>7, LoggerAssumption DEF Over
    <3>9. ASSUME NEW j \in 1..count', DOMAIN files' = (j + 1)..count'
          PROVE  Total' + Size(saved'[j]) > FRAME_CAP
      <4>1. j = k + 1
        BY <1>1, <3>0, <3>4, <3>9
      <4>2. QED
        BY <1>1, <3>8, <4>1
    <3>10. QED
      BY <1>1, <2>1, <2>3, <3>5, <3>9 DEF Ringed
  <2>4. QED
    BY <1>1, <2>2, <2>3 DEF Ringed
<1>4. QED
  BY <1>2, <1>3

\* Every step keeps the invariant.
LEMMA RingStep == LInv /\ [LoggerNext]_allvars => LInv'
<1> SUFFICES ASSUME LInv, [LoggerNext]_allvars PROVE LInv'
  OBVIOUS
<1>0. PInv /\ Small /\ Logged /\ Ringed /\ TypeOK
  BY DEF LInv, PInv
<1>1. PInv' /\ Small'
  BY <1>0, LoggerStep, InvStep, SmallStep
<1>2. ASSUME UNCHANGED <<count, files, saved, lives>>, Logged',
             \/ step # "evict" /\ step' \in {"wait", "save"}
             \/ step' = step /\ (step # "wait" => seen'[Log] = seen[Log])
      PROVE  Ringed'
  <2>1. Total' = Total
    BY <1>2, TotalWeighs
  <2>2. QED
    BY <1>0, <1>2, <2>1 DEF Ringed, NewestInOrder
<1>3. CASE Others
  <2>1. UNCHANGED <<step, last, count, files, saved, lives>>
    BY <1>3 DEF Others, logger, ring
  <2>2. step # "wait" => alive'[Log] /\ seen'[Log] = seen[Log]
    BY <1>0, <1>3, OthersLeave DEF Logged
  <2>3. Logged'
    BY <1>0, <2>1, <2>2 DEF Logged
  <2>4. Ringed'
    BY <1>0, <1>2, <2>1, <2>2, <2>3 DEF Logged
  <2>5. QED
    BY <1>1, <2>3, <2>4 DEF LInv
<1>4. CASE Tick
  <2>1. Logged'
    BY <1>0, <1>4, TickReads
  <2>2. /\ UNCHANGED <<count, files, saved, lives>> /\ step = "wait"
        /\ step' \in {"wait", "save"}
    BY <1>4 DEF Tick, ring
  <2>3. QED
    BY <1>1, <1>2, <2>1, <2>2 DEF LInv
<1>5. CASE Save
  BY <1>0, <1>1, <1>5, RingSave DEF LInv
<1>6. CASE Evict
  BY <1>0, <1>1, <1>6, RingEvict DEF LInv
<1>7. CASE StopLogger
  <2>1. /\ lives' = lives + 1 /\ count' = 0 /\ saved' = saved /\ files' = files
        /\ step' = "wait" /\ last' = None
    BY <1>7 DEF StopLogger
  <2>2. Logged'
    BY <1>0, <2>1 DEF Logged
  <2>3. Ringed'
    BY <1>0, <2>1 DEF Ringed, Logged
  <2>4. QED
    BY <1>1, <2>2, <2>3 DEF LInv
<1>8. CASE UNCHANGED allvars
  <2>1. UNCHANGED <<step, last, count, files, saved, lives, alive, seen>>
    BY <1>8 DEF allvars, logger, ring, vars
  <2>2. Logged'
    BY <1>0, <2>1 DEF Logged
  <2>3. QED
    BY <1>1, <1>2, <2>1, <2>2 DEF LInv
<1>9. QED
  BY <1>3, <1>4, <1>5, <1>6, <1>7, <1>8 DEF LoggerNext

LEMMA RingInvariant == LoggerSpec => []LInv
BY RingInit, RingStep, PTL DEF LoggerSpec

\* Every variable has its type; a tick that saves has read an image, and no file
\* is numbered beyond the images saved, restarts or not.
THEOREM LoggerTyped == LoggerSpec => []LoggerTypeOK
<1>1. LInv => LoggerTypeOK
  <2> SUFFICES ASSUME LInv PROVE LoggerTypeOK
    OBVIOUS
  <2>1. Image \subseteq Value
    BY DEF Image
  <2>2. saved \in Seq(Value)
    BY <2>1 DEF LInv, Logged
  <2>3. QED
    BY <2>1, <2>2 DEF LInv, Logged, LoggerTypeOK, PInv
<1>2. QED
  BY <1>1, RingInvariant, PTL

\* Until the logger is restarted its ring is the newest images in the order of
\* their names, it fits the cap between saves, and it is the longest that does,
\* whatever the sizes, the cap and the fate of the writer.
THEOREM RingKeepsNewest == LoggerSpec => []RingIsNewest
<1>1. LInv => RingIsNewest
  <2> SUFFICES ASSUME LInv, lives = 1, DOMAIN files # 1..count
               PROVE  Total + Size(saved[count - Cardinality(DOMAIN files)]) > FRAME_CAP
    BY DEF LInv, Ringed, RingIsNewest
  <2>1. count \in Nat
    BY DEF LInv, Logged
  <2>2. PICK k \in 0..count : DOMAIN files = (k + 1)..count
    BY DEF LInv, Ringed, NewestInOrder
  <2>3. k \in 1..count
    BY <2>1, <2>2
  <2>4. Cardinality(DOMAIN files) = count - k
    <3>1. Cardinality((k + 1)..count) = IF k + 1 > count THEN 0 ELSE count - (k + 1) + 1
      BY <2>1, <2>2, FS_Interval
    <3>2. QED
      BY <2>1, <2>2, <3>1
  <2>5. count - Cardinality(DOMAIN files) = k
    BY <2>1, <2>2, <2>4
  <2>6. QED
    BY <2>2, <2>3, <2>5 DEF LInv, Ringed
<1>2. QED
  BY <1>1, RingInvariant, PTL

\* At any time koyu frame shows the image saved last, if it fits the ring at all,
\* as long as the logger has not been restarted; so it is the restart that breaks
\* the promise, and nothing else.
THEOREM NewestIsShown == LoggerSpec => [](lives = 1 => NewestShown)
<1>1. LInv => (lives = 1 => NewestShown)
  <2> SUFFICES ASSUME LInv, lives = 1, saved # <<>>, Size(saved[Len(saved)]) <= FRAME_CAP
               PROVE  DOMAIN files # {} /\ files[Max(DOMAIN files)] = saved[Len(saved)]
    BY DEF NewestShown
  <2>1. count = Len(saved) /\ count \in Nat \ {0} /\ saved[count] \in Image
    BY DEF LInv, Ringed, Logged, NewestInOrder
  <2>2. PICK k \in 0..count : DOMAIN files = (k + 1)..count
    BY DEF LInv, Ringed, NewestInOrder
  <2>3. k # count
    <3>1. SUFFICES ASSUME k = count PROVE FALSE
      OBVIOUS
    <3>2. DOMAIN files = {} /\ k \in 1..count
      BY <2>1, <2>2, <3>1
    <3>3. Total = 0
      BY <3>2, TotalWeighs, NoFiles
    <3>4. Total + Size(saved[count]) > FRAME_CAP
      BY <2>1, <2>2, <3>1, <3>2 DEF LInv, Ringed
    <3>5. Size(saved[count]) \in Nat
      BY <2>1, SizeTyped
    <3>6. QED
      BY <2>1, <3>3, <3>4, <3>5, LoggerAssumption
  <2>4. count \in DOMAIN files /\ \A f \in DOMAIN files : f <= count /\ f \in Nat
    BY <2>1, <2>2, <2>3
  <2>5. Max(DOMAIN files) = count
    BY <2>1, <2>4 DEF Max
  <2>6. files[count] = saved[count]
    BY <2>4 DEF LInv, Ringed, NewestInOrder
  <2>7. QED
    BY <2>1, <2>4, <2>5, <2>6
<1>2. QED
  BY <1>1, RingInvariant, PTL
=============================================================================
