--------------------------- MODULE RecorderProofs ---------------------------
(* Theorems about Recorder: any caps and bounds. *)
EXTENDS Recorder, TLAPS

----------------------------------------------------------------------------
(* The inductive invariant *)

Ends == {"discard", "finalize", "abort"}

\* Where the reactor is against what it holds.
Control ==
  /\ pc \in {"capture", "check", "list", "read"} => state = "recording"
  /\ pc \in {"list", "read"} => intent \in Ends
  /\ pc = "tell" => intent \in {"none", "check", "ring"}
  /\ pc = "tell" /\ intent = "check" => state = "recording"
  /\ (pc = "tell" /\ intent = "ring") \/ pc = "ring" => state = "idle"
  /\ pc # "read" => listed = {} /\ drained = {} /\ matched = {}
  /\ intent # "finalize" => matched = {}
  /\ pc # "collect" => todo = {} /\ still = {}
  /\ status # "up" => state = "idle" /\ pc = "wait" /\ pending = {} /\ tele_last = {} /\ fails = 0
  /\ status = "down" => jobs = {} /\ job = {}

\* What is written is of captures minted, one record for each.
Minted ==
  /\ \A x \in Written : x.cap <= minted /\ x.cap # cap
  /\ \A x, y \in jobs : x.cap = y.cap => x = y
  /\ \A x, y \in job : x = y
  /\ \A x \in jobs, y \in job : x.cap # y.cap
  /\ \A x \in jobs \cup job, b \in bundles : x.cap # b.cap
  /\ \A x, y \in bundles : x.cap = y.cap => x = y

\* The verdict of a record names its capture.
Own(x) == \A v \in x.verdict : v.cap = x.cap /\ x.verdict = {v}

\* Records and the recording carry what was there at START.
Truth ==
  /\ \A x \in Written : snapped[x.cap] = {x.context} /\ Own(x)
  /\ \A b \in bundles : b.parts = Parts
  /\ state = "recording" => \E x \in Contexts : snap = {x} /\ snapped[cap] = {x}
  /\ \A v \in matched : v.cap = cap /\ matched = {v}

\* What a record and the recording hold is what was recorded under their
\* captures, and a record that is written has a row.  Between two captures the
\* cap is not reached.
Counted ==
  /\ \A x \in Written : x.rows = taken[x.cap]
  /\ \A x \in job \cup bundles : x.rows # 0
  /\ state = "recording" => taken[cap] = rows
  /\ \A c \in Captures : c > minted => taken[c] = 0
  /\ pc \in {"wait", "collect", "capture"} \/ (pc = "tell" /\ intent = "none")
       => rows < MAX_FRAMES

\* A temporary directory belongs to the write in progress.
Tidy ==
  status # "down" =>
    /\ job = {} => tmps = {}
    /\ \A j \in job : \E parts \in {{"data"}, Parts} : tmps = {[cap |-> j.cap, parts |-> parts]}

Shown == tele.state = state /\ tele.rows = rows /\ tele.cap = cap

\* The telemetry cell against what the recorder wrote last, when that landed.
Told ==
  status = "up" /\ fails = 0 =>
    /\ \/ tele_last = {} /\ tele = Blank
       \/ tele_last = {<<tele.state, tele.rows, tele.cap>>}
    /\ pc \in {"wait", "collect", "capture", "check", "ring"} => Shown

\* Every verdict so far is somewhere, none is of the future, none is twice.
Merged == VerdictsOf(Written)
Everywhere == inbox \cup drained \cup matched \cup parked \cup lost \cup Merged
Apart ==
  /\ inbox \cap (drained \cup matched \cup parked \cup lost \cup Merged) = {}
  /\ drained \cap (matched \cup parked \cup lost \cup Merged) = {}
  /\ matched \cap (parked \cup lost \cup Merged) = {}
  /\ parked \cap (lost \cup Merged) = {}
  /\ lost \cap Merged = {}
Disjoint == \A x, y \in Written : x # y => x.verdict \cap y.verdict = {}
Placed ==
  /\ \A n \in 1..submitted : \E v \in Everywhere : v.n = n
  /\ \A v \in Everywhere : v.n <= submitted
  /\ Apart /\ Disjoint
  /\ listed \subseteq inbox

\* Results against the records.
Resulted ==
  /\ \A c \in Captures : results[c] # "none" \/ told[c] # <<>> => c <= minted /\ c # cap
  /\ \A x \in jobs \cup job : results[x.cap] = "none"
  /\ \A b \in bundles : results[b.cap] = "captured"
  /\ \A c \in Captures : results[c] = "captured" => \E b \in bundles : b.cap = c

\* A future that will be looked at again has not been rung.
Awaited ==
  /\ \A c \in pending \cup todo \cup still : c <= minted /\ c # cap
  /\ pc # "collect" => \A c \in pending : told[c] = <<>>
  /\ \A c \in todo \cup still : told[c] = <<>>
  /\ todo \cap still = {}

\* An abort about to be rung is of a capture nobody else answers for.
Failing == (pc = "tell" /\ intent = "ring") \/ pc = "ring"
Aborted ==
  Failing =>
    /\ ended \in Captures /\ ended <= minted /\ told[ended] = <<>>
    /\ results[ended] = "none"
    /\ ended \notin pending /\ \A x \in Written : x.cap # ended

RInv ==
  /\ TypeOK /\ Control /\ Minted /\ Truth /\ Counted /\ Tidy /\ Told /\ Placed
  /\ Resulted /\ Awaited /\ Aborted

----------------------------------------------------------------------------
(* The rows of a recording *)

LEMMA RowsFact ==
  /\ Rows \subseteq Nat /\ 0 \in Rows /\ MAX_FRAMES \in Nat /\ 0 < MAX_FRAMES
  /\ \A r \in Nat, k \in Bursts : r < MAX_FRAMES => r + k \in Rows
<1>1. ASSUME NEW r \in Nat, NEW k \in Bursts, r < MAX_FRAMES PROVE r + k \in Rows
  <2>1. r \in 0..(MAX_FRAMES - 1)
    BY <1>1, RecorderBounds
  <2>2. QED
    BY <2>1 DEF Rows
<1>2. 0 + 0 \in Rows
  BY <1>1, RecorderBounds
<1>3. QED
  BY <1>1, <1>2, RecorderBounds DEF Rows

----------------------------------------------------------------------------
(* Initially *)

LEMMA InvInit == Init => RInv
<1> SUFFICES ASSUME Init PROVE RInv
  OBVIOUS
<1> USE RecorderBounds, RowsFact
<1>1. told = [c \in Captures |-> <<>>] /\ results = [c \in Captures |-> "none"]
      /\ snapped = [c \in Captures |-> {}] /\ taken = [c \in Captures |-> 0]
  BY DEF Init
<1>2. tele \in Cell /\ tele = Blank
  BY DEF Init, Blank, Cell
<1>3. /\ context = 0 /\ inbox = {} /\ parked = {} /\ tmps = {} /\ bundles = {}
      /\ status = "up" /\ stops = 0 /\ minted = 0
      /\ state = "idle" /\ cap = 0 /\ rows = 0 /\ snap = {}
      /\ pc = "wait" /\ intent = "none" /\ ended = 0
      /\ listed = {} /\ drained = {} /\ matched = {}
      /\ pending = {} /\ todo = {} /\ still = {}
      /\ tele_last = {} /\ fails = 0 /\ jobs = {} /\ job = {}
      /\ submitted = 0 /\ lost = {}
  BY DEF Init
<1>4. /\ told \in [Captures -> Seq(Rings)] /\ snapped \in [Captures -> SUBSET Contexts]
      /\ taken \in [Captures -> Rows]
  <2>1. <<>> \in Seq(Rings)
    OBVIOUS
  <2>2. QED
    BY <1>1, <2>1
<1>5. results \in [Captures -> {"none", "captured", "discarded", "failed"}]
  BY <1>1
<1>6. TypeOK
  BY <1>2, <1>3, <1>4, <1>5 DEF TypeOK, Contexts
<1>7. Control
  BY <1>3 DEF Control
<1>8. Written = {} /\ CapsOf(jobs \cup job) = {} /\ CapsOf(bundles) = {}
  BY <1>3 DEF Written, CapsOf
<1>9. Minted /\ Truth /\ Counted /\ Tidy
  BY <1>1, <1>3, <1>8 DEF Minted, Truth, Counted, Tidy, CapsOf
<1>10. Told
  BY <1>2, <1>3 DEF Told, Shown, Blank
<1>11. Placed
  <2>1. Merged = {} /\ Everywhere = {}
    BY <1>3, <1>8 DEF Merged, VerdictsOf, Everywhere
  <2>2. QED
    BY <1>3, <1>8, <2>1 DEF Placed, Apart, Disjoint
<1>12. Resulted /\ Awaited /\ Aborted
  <2>1. \A c \in Captures : told[c] = <<>> /\ results[c] = "none"
    BY <1>1
  <2>2. QED
    BY <1>3, <1>8, <2>1 DEF Resulted, Awaited, Aborted, Failing
<1>13. QED
  BY <1>6, <1>7, <1>9, <1>10, <1>11, <1>12 DEF RInv

----------------------------------------------------------------------------
(* Types *)

LEMMA WrittenTyped ==
  ASSUME TypeOK, NEW x \in Written
  PROVE  /\ x.cap \in Captures /\ x.cap \in Nat /\ x.verdict \subseteq Verdict
         /\ x.context \in Contexts
<1>1. x \in Job \/ x \in Bundle
  BY DEF Written, TypeOK
<1>2. QED
  BY <1>1 DEF Job, Bundle, Captures

\* The capture that is being recorded.
LEMMA Recording ==
  ASSUME RInv, state = "recording"
  PROVE  /\ cap \in Captures /\ cap <= minted
         /\ \E x \in Contexts : snap = {x} /\ snapped[cap] = {x} /\ ContextOf = x
<1>1. cap \in 1..minted /\ minted \in 0..MaxCaptures
  BY DEF RInv, TypeOK
<1>2. PICK x \in Contexts : snap = {x} /\ snapped[cap] = {x}
  BY DEF RInv, Truth
<1>3. (CHOOSE y \in snap : TRUE) \in snap
  BY <1>2
<1>4. ContextOf = x
  BY <1>2, <1>3 DEF ContextOf
<1>5. QED
  BY <1>1, <1>2, <1>4, RecorderBounds DEF Captures

LEMMA RungTyped ==
  ASSUME TypeOK, NEW c \in Captures, NEW id \in Rings, Rung(c, id)
  PROVE  told' \in [Captures -> Seq(Rings)]
<1>1. told \in [Captures -> Seq(Rings)]
  BY DEF TypeOK
<1>2. Append(told[c], id) \in Seq(Rings)
  BY <1>1
<1>3. QED
  BY <1>1, <1>2 DEF Rung

LEMMA TypeStep == RInv /\ [Next]_vars => TypeOK'
<1> SUFFICES ASSUME RInv, [Next]_vars PROVE TypeOK'
  OBVIOUS
<1> USE RecorderBounds, RowsFact
<1> USE DEF disk, outside, process, episode, verdicts, futures, telemetry, worker, At,
            Elsewhere, Working
<1>t. TypeOK /\ Control /\ Counted
  BY DEF RInv
<1>1. CASE SubmitVerdict
  <2>1. submitted' \in 0..MaxVerdicts /\ submitted + 1 \in 1..MaxVerdicts
    BY <1>t, <1>1 DEF SubmitVerdict, TypeOK
  <2>2. PICK c \in 1..minted : inbox' = inbox \cup {[n |-> submitted + 1, cap |-> c]}
    BY <1>1 DEF SubmitVerdict
  <2>3. c \in Captures
    BY <1>t DEF TypeOK, Captures
  <2>4. inbox' \subseteq Verdict
    BY <1>t, <2>1, <2>2, <2>3 DEF TypeOK, Verdict
  <2>5. QED
    BY <1>t, <1>1, <2>1, <2>4 DEF SubmitVerdict, TypeOK
<1>2. CASE SetContext
  <2>1. context' \in Contexts
    BY <1>t, <1>2 DEF SetContext, TypeOK, Contexts
  <2>2. QED
    BY <1>t, <1>2, <2>1 DEF SetContext, TypeOK
<1>3. CASE Start
  <2>1. minted' \in 0..MaxCaptures /\ cap' \in 0..minted' /\ cap' # 0
    BY <1>t, <1>3 DEF Start, TypeOK
  <2>2. snapped' \in [Captures -> SUBSET Contexts]
    BY <1>t, <1>3 DEF Start, TypeOK
  <2>3. QED
    BY <1>t, <1>3, <2>1, <2>2 DEF Start, TypeOK
<1>4. CASE Discard
  BY <1>t, <1>4 DEF Discard, TypeOK
<1>5. ASSUME NEW step \in {"list", "tell"}, NEW next \in {"finalize", "check"},
             CaptureThen(step, next), state = "recording", pc \in {"wait", "capture"}
      PROVE  TypeOK'
  <2>1. rows' \in Rows /\ taken' \in [Captures -> Rows]
    <3>1. PICK k \in Bursts : rows' = rows + k /\ taken' = [taken EXCEPT ![cap] = @ + k]
      BY <1>5 DEF CaptureThen
    <3>2. rows \in Nat /\ rows < MAX_FRAMES /\ taken[cap] = rows
      BY <1>t, <1>5 DEF TypeOK, Counted
    <3>3. rows + k \in Rows
      BY <3>2
    <3>4. QED
      BY <1>t, <3>1, <3>2, <3>3 DEF TypeOK
  <2>2. pc' \in {"list", "tell"} /\ intent' \in {"finalize", "check", "abort"}
    BY <1>5 DEF CaptureThen
  <2>3. QED
    BY <1>t, <1>5, <2>1, <2>2 DEF CaptureThen, TypeOK
<1>6. CASE Stop
  <2>1. CaptureThen("list", "finalize") /\ state = "recording" /\ pc = "wait"
    BY <1>6 DEF Stop
  <2>2. QED
    BY <1>5, <2>1
<1>7. CASE Tick
  BY <1>t, <1>7 DEF Tick, TypeOK
<1>8. CASE CollectOne
  <2>1. PICK c \in todo :
          /\ todo' = todo \ {c}
          /\ \/ results[c] = "none" /\ still' = still \cup {c} /\ UNCHANGED told
             \/ results[c] # "none" /\ Rung(c, RungAs(c)) /\ UNCHANGED still
    BY <1>8 DEF CollectOne
  <2>2. c \in Captures
    BY <1>t DEF TypeOK
  <2>3. results[c] # "none" => results[c] \in Rings
    BY <1>t, <2>2 DEF TypeOK, Rings
  <2>4. told' \in [Captures -> Seq(Rings)]
    BY <1>t, <2>1, <2>2, <2>3, RungTyped DEF RungAs, TypeOK
  <2>5. todo' \subseteq Captures /\ still' \subseteq Captures
    BY <1>t, <2>1, <2>2 DEF TypeOK
  <2>6. QED
    BY <1>t, <1>8, <2>4, <2>5 DEF CollectOne, TypeOK
<1>9. CASE CollectDone
  BY <1>t, <1>9 DEF CollectDone, Kept, TypeOK
<1>10. CASE TickCapture
  <2>1. CaptureThen("tell", "check") /\ state = "recording" /\ pc = "capture"
    BY <1>t, <1>10 DEF TickCapture, Control
  <2>2. QED
    BY <1>5, <2>1
<1>11. CASE TickCheck
  BY <1>t, <1>11 DEF TickCheck, TypeOK
<1>12. CASE ListInbox
  BY <1>t, <1>12 DEF ListInbox, TypeOK
<1>13. CASE ReadOne
  BY <1>t, <1>13 DEF ReadOne, TypeOK
<1>14. CASE Judge
  <2>1. state = "recording"
    BY <1>t, <1>14 DEF Judge, Control
  <2>2. PICK v \in drained : drained' = drained \ {v} /\ MatchOrPark(v)
    BY <1>14 DEF Judge
  <2>3. matched' \subseteq Verdict /\ parked' \subseteq Verdict
    BY <1>t, <2>2 DEF MatchOrPark, TypeOK
  <2>4. QED
    BY <1>t, <1>14, <2>1, <2>2, <2>3 DEF Judge, TypeOK
<1>15. CASE Finish
  <2>1. state = "recording"
    BY <1>t, <1>15 DEF Finish, Control
  <2>2. cap \in Captures /\ ContextOf \in Contexts
    BY <2>1, Recording
  <2>3. jobs' \subseteq Job /\ pending' \subseteq Captures
    <3>1. [cap |-> cap, rows |-> rows, context |-> ContextOf, verdict |-> matched] \in Job
      BY <1>t, <2>2 DEF Job, TypeOK
    <3>2. QED
      BY <1>t, <1>15, <2>2, <3>1 DEF Finish, TypeOK
  <2>4. ended' \in 0..MaxCaptures /\ cap' \in 0..minted'
    BY <1>t, <1>15, <2>2 DEF Finish, Reset, Captures, TypeOK
  <2>5. QED
    BY <1>t, <1>15, <2>3, <2>4 DEF Finish, Reset, TypeOK
<1>16. CASE Tell
  <2>1. pc' \in {"wait", "check", "ring"} /\ fails' \in 0..(WRITE_FAIL_LIMIT - 1)
    BY <1>t, <1>16 DEF Tell, Control, TypeOK
  <2>2. tele' \in Cell
    <3>1. cap \in 0..MaxCaptures
      BY <1>t DEF TypeOK
    <3>2. [state |-> state, rows |-> rows, cap |-> cap] \in Cell
      BY <1>t, <3>1 DEF TypeOK, Cell
    <3>3. QED
      BY <1>t, <1>16, <3>2 DEF Tell, TypeOK
  <2>3. QED
    BY <1>t, <1>16, <2>1, <2>2 DEF Tell, TypeOK
<1>17. CASE RingFailed
  <2>1. ended \in Captures
    BY <1>17 DEF RingFailed, RInv, Aborted, Failing
  <2>2. told' \in [Captures -> Seq(Rings)]
    BY <1>t, <1>17, <2>1, RungTyped DEF RingFailed, Rings
  <2>3. QED
    BY <1>t, <1>17, <2>2 DEF RingFailed, TypeOK
<1>18. CASE TakeJob
  <2>1. PICK j \in jobs :
          /\ jobs' = jobs \ {j}
          /\ \/ /\ j.rows = 0
                /\ results' = [results EXCEPT ![j.cap] = "discarded"]
                /\ lost' = lost \cup j.verdict
                /\ UNCHANGED <<job, tmps>>
             \/ /\ j.rows # 0
                /\ job' = {j} /\ tmps' = tmps \cup {[cap |-> j.cap, parts |-> {"data"}]}
                /\ UNCHANGED <<results, lost>>
    BY <1>18 DEF TakeJob
  <2>2. j \in Job /\ j.cap \in Captures /\ j.verdict \subseteq Verdict
    BY <1>t DEF TypeOK, Job
  <2>3. /\ jobs' \subseteq Job /\ job' \subseteq Job /\ lost' \subseteq Verdict
        /\ results' \in [Captures -> {"none", "captured", "discarded", "failed"}]
    BY <1>t, <2>1, <2>2 DEF TypeOK
  <2>4. tmps' \subseteq [cap : Captures, parts : SUBSET Parts]
    BY <1>t, <2>1, <2>2 DEF TypeOK, Parts
  <2>5. QED
    BY <1>t, <1>18, <2>3, <2>4 DEF TakeJob, TypeOK
<1>19. CASE WriteSidecar
  <2>1. PICK j \in job :
          tmps' = (tmps \ {[cap |-> j.cap, parts |-> {"data"}]})
                    \cup {[cap |-> j.cap, parts |-> Parts]}
    BY <1>19 DEF WriteSidecar
  <2>2. j.cap \in Captures
    BY <1>t DEF TypeOK, Job
  <2>3. tmps' \subseteq [cap : Captures, parts : SUBSET Parts]
    BY <1>t, <2>1, <2>2 DEF TypeOK
  <2>4. QED
    BY <1>t, <1>19, <2>3 DEF WriteSidecar, TypeOK
<1>20. CASE Commit
  <2>1. PICK j \in job, d \in tmps :
          /\ tmps' = tmps \ {d}
          /\ bundles' = bundles \cup {[cap |-> j.cap, parts |-> d.parts, rows |-> j.rows,
                                       context |-> j.context, verdict |-> j.verdict]}
          /\ results' = [results EXCEPT ![j.cap] = "captured"]
    BY <1>20 DEF Commit, RowsOf
  <2>2. j \in Job /\ d \in [cap : Captures, parts : SUBSET Parts]
    BY <1>t DEF TypeOK
  <2>3. [cap |-> j.cap, parts |-> d.parts, rows |-> j.rows, context |-> j.context,
         verdict |-> j.verdict] \in Bundle
    BY <2>2 DEF Job, Bundle
  <2>4. /\ results' \in [Captures -> {"none", "captured", "discarded", "failed"}]
        /\ tmps' \subseteq [cap : Captures, parts : SUBSET Parts] /\ bundles' \subseteq Bundle
    BY <1>t, <2>1, <2>2, <2>3 DEF TypeOK
  <2>5. job' = {}
    BY <1>20 DEF Commit
  <2>6. QED
    BY <1>t, <1>20, <2>4, <2>5 DEF Commit, TypeOK
<1>21. CASE WriteFails
  <2>1. PICK j \in job :
          /\ tmps' = Cleaned(j.cap)
          /\ results' = [results EXCEPT ![j.cap] = "failed"]
          /\ lost' = lost \cup j.verdict
    BY <1>21 DEF WriteFails
  <2>2. j.cap \in Captures /\ j.verdict \subseteq Verdict
    BY <1>t DEF TypeOK, Job
  <2>3. /\ results' \in [Captures -> {"none", "captured", "discarded", "failed"}]
        /\ tmps' \subseteq [cap : Captures, parts : SUBSET Parts] /\ lost' \subseteq Verdict
    BY <1>t, <2>1, <2>2 DEF Cleaned, TypeOK
  <2>4. job' = {}
    BY <1>21 DEF WriteFails
  <2>5. QED
    BY <1>t, <1>21, <2>3, <2>4 DEF WriteFails, TypeOK
<1>22. CASE Terminate \/ TellRaises
  BY <1>t, <1>22 DEF Terminate, TellRaises, Forgotten, Reset, TypeOK
<1>23. CASE Exit
  BY <1>t, <1>23 DEF Exit, TypeOK
<1>24. CASE Kill
  <2>1. lost' \subseteq Verdict
    <3>1. \A x \in jobs \cup job : x.verdict \subseteq Verdict
      BY <1>t DEF TypeOK, Job
    <3>2. VerdictsOf(jobs \cup job) \subseteq Verdict
      BY <3>1 DEF VerdictsOf
    <3>3. lost' = lost \cup drained \cup matched \cup VerdictsOf(jobs \cup job)
      BY <1>24 DEF Kill
    <3>4. lost \subseteq Verdict /\ drained \subseteq Verdict /\ matched \subseteq Verdict
      BY <1>t DEF TypeOK
    <3>5. QED
      BY <3>2, <3>3, <3>4
  <2>2. stops' \in 0..MaxStops /\ status' = "down" /\ jobs' = {} /\ job' = {}
        /\ results' = results
    BY <1>t, <1>24 DEF Kill, TypeOK
  <2>3. Forgotten
    BY <1>24 DEF Kill
  <2>4. QED
    BY <1>t, <2>1, <2>2, <2>3 DEF Forgotten, Reset, TypeOK
<1>25. CASE Restart
  <2>1. tele' \in Cell
    BY <1>25 DEF Restart, Blank, Cell
  <2>2. tmps' = {}
    BY <1>25 DEF Restart, Swept
  <2>3. QED
    BY <1>t, <1>25, <2>1, <2>2 DEF Restart, TypeOK
<1>26. CASE UNCHANGED vars
  BY <1>t, <1>26 DEF vars, TypeOK
<1>27. QED
  BY <1>1, <1>2, <1>3, <1>4, <1>6, <1>7, <1>8, <1>9, <1>10, <1>11, <1>12, <1>13, <1>14,
     <1>15, <1>16, <1>17, <1>18, <1>19, <1>20, <1>21, <1>22, <1>23, <1>24, <1>25, <1>26
     DEF Next, Reactor, Worker

----------------------------------------------------------------------------
(* The rows are those of the capture *)

LEMMA CountedFrame ==
  ASSUME Counted, UNCHANGED <<state, cap, minted, taken, rows, jobs, job, bundles>>,
         \/ pc' \in {"wait", "collect", "capture"} \/ (pc' = "tell" /\ intent' = "none")
              => rows < MAX_FRAMES
  PROVE  Counted'
BY DEF Counted, Written

\* The capture being recorded has no record yet.
LEMMA CaptureCounted ==
  ASSUME RInv, NEW step \in {"list", "tell"}, NEW next \in {"finalize", "check"},
         CaptureThen(step, next), state = "recording"
  PROVE  Counted'
<1>0. TypeOK /\ Counted
  BY DEF RInv
<1>1. PICK k \in Bursts : rows' = rows + k /\ taken' = [taken EXCEPT ![cap] = @ + k]
  BY DEF CaptureThen
<1>2. /\ UNCHANGED <<state, cap, minted, jobs, job, bundles>>
      /\ pc' \in {"list", "tell"} /\ (pc' = "tell" => intent' # "none")
  BY DEF CaptureThen, disk, Elsewhere, process, worker
<1>3. cap \in Captures /\ cap <= minted /\ cap \in Nat
  BY Recording DEF Captures
<1>4. taken \in [Captures -> Rows] /\ minted \in Nat
  BY <1>0, RecorderBounds DEF TypeOK
<1>5. taken'[cap'] = rows'
  BY <1>0, <1>1, <1>2, <1>3, <1>4 DEF Counted
<1>6. \A c \in Captures : c # cap => taken'[c] = taken[c]
  BY <1>1, <1>4
<1>7. Written' = Written
  BY <1>2 DEF Written
<1>8. \A x \in Written : x.cap \in Captures /\ x.cap # cap
  BY <1>0, WrittenTyped DEF RInv, Minted
<1>9. \A x \in Written' : x.rows = taken'[x.cap]
  BY <1>0, <1>6, <1>7, <1>8 DEF Counted
<1>10. \A c \in Captures : c > minted' => taken'[c] = 0
  <2>1. ASSUME NEW c \in Captures, c > minted PROVE c # cap
    BY <1>3, <1>4, <2>1 DEF Captures
  <2>2. QED
    BY <1>0, <1>2, <1>6, <2>1 DEF Counted
<1>11. QED
  BY <1>0, <1>2, <1>5, <1>9, <1>10 DEF Counted

\* A new capture has none.
LEMMA StartCounted == ASSUME RInv, Start PROVE Counted'
<1>0. TypeOK /\ Counted
  BY DEF RInv
<1>1. /\ state' = "recording" /\ cap' = minted + 1 /\ rows' = 0 /\ minted' = minted + 1
      /\ UNCHANGED <<taken, jobs, job, bundles>>
  BY DEF Start, disk, worker
<1>2. minted \in Nat /\ minted + 1 \in Captures
  BY <1>0, RecorderBounds DEF TypeOK, Captures, Start
<1>3. taken'[cap'] = 0
  BY <1>0, <1>1, <1>2 DEF Counted
<1>4. \A c \in Captures : c > minted' => taken'[c] = 0
  <2>1. \A c \in Captures : c > minted + 1 => c > minted
    BY <1>2 DEF Captures
  <2>2. QED
    BY <1>0, <1>1, <2>1 DEF Counted
<1>5. Written' = Written
  BY <1>1 DEF Written
<1>6. QED
  BY <1>0, <1>1, <1>3, <1>4, <1>5, RowsFact DEF Counted

\* The job takes the rows of the capture with it.
LEMMA FinishCounted == ASSUME RInv, Finish PROVE Counted'
<1> DEFINE j == [cap |-> cap, rows |-> rows, context |-> ContextOf, verdict |-> matched]
<1>0. TypeOK /\ Counted /\ Control
  BY DEF RInv
<1>1. /\ jobs' \subseteq jobs \cup {j} /\ rows' = 0 /\ state' = "idle"
      /\ UNCHANGED <<taken, minted, job, bundles>> /\ state = "recording"
  BY <1>0 DEF Finish, Reset, disk, process, Control, At
<1>2. j.cap = cap /\ j.rows = rows
  OBVIOUS
<1> HIDE DEF j
<1>3. \A x \in Written' : x = j \/ x \in Written
  BY <1>1 DEF Written
<1>4. \A x \in Written' : x.rows = taken[x.cap]
  BY <1>0, <1>1, <1>2, <1>3 DEF Counted
<1>5. QED
  BY <1>0, <1>1, <1>4, RowsFact DEF Counted

\* The worker writes the rows of the job, if there are any.
LEMMA WorkCounted == ASSUME RInv, TakeJob \/ Commit \/ WriteFails PROVE Counted'
<1>0. Counted
  BY DEF RInv
<1>1. UNCHANGED <<state, cap, minted, taken, rows, pc, intent>>
  BY DEF TakeJob, Commit, WriteFails, Working, process, episode
<1>2. ASSUME \A x \in Written' : x \in Written \/ (x.rows # 0 /\ \E y \in Written :
                                                    x.cap = y.cap /\ x.rows = y.rows),
             \A x \in job' \cup bundles' : x.rows # 0
      PROVE  Counted'
  BY <1>0, <1>1, <1>2 DEF Counted
<1>3. CASE TakeJob
  <2>1. PICK j \in jobs : jobs' = jobs \ {j} /\ (job' = job \/ (job' = {j} /\ j.rows # 0))
    BY <1>3 DEF TakeJob
  <2>2. bundles' = bundles
    BY <1>3 DEF TakeJob
  <2>3. QED
    BY <1>0, <1>2, <2>1, <2>2 DEF Counted, Written
<1>4. CASE Commit
  <2>1. PICK j \in job, d \in tmps :
          bundles' = bundles \cup {[cap |-> j.cap, parts |-> d.parts, rows |-> j.rows,
                                    context |-> j.context, verdict |-> j.verdict]}
    BY <1>4 DEF Commit, RowsOf
  <2> DEFINE b == [cap |-> j.cap, parts |-> d.parts, rows |-> j.rows,
                   context |-> j.context, verdict |-> j.verdict]
  <2>2. bundles' = bundles \cup {b} /\ b.cap = j.cap /\ b.rows = j.rows
    BY <2>1
  <2> HIDE DEF b
  <2>3. jobs' = jobs /\ job' = {} /\ j \in Written /\ j.rows # 0
    BY <1>0, <1>4 DEF Commit, Written, Counted
  <2>4. QED
    BY <1>0, <1>2, <2>2, <2>3 DEF Counted, Written
<1>5. CASE WriteFails
  <2>1. UNCHANGED <<jobs, bundles>> /\ job' = {}
    BY <1>5 DEF WriteFails
  <2>2. QED
    BY <1>0, <1>2, <2>1 DEF Counted, Written
<1>6. QED
  BY <1>3, <1>4, <1>5

LEMMA CountedStep == RInv /\ [Next]_vars => Counted'
<1> SUFFICES ASSUME RInv, [Next]_vars PROVE Counted'
  OBVIOUS
<1> USE DEF disk, outside, process, episode, verdicts, futures, telemetry, worker, At,
            Elsewhere, Working
<1>t. TypeOK /\ Control /\ Counted
  BY DEF RInv
<1>1. CASE SubmitVerdict \/ SetContext \/ CollectOne \/ ReadOne \/ Judge \/ WriteSidecar
           \/ Exit \/ Restart \/ UNCHANGED vars
  <2>1. UNCHANGED <<state, cap, minted, taken, rows, jobs, job, bundles, pc, intent>>
    BY <1>1 DEF SubmitVerdict, SetContext, CollectOne, ReadOne, Judge, WriteSidecar, Exit,
                Restart, vars
  <2>2. QED
    BY <1>t, <2>1, CountedFrame DEF Counted
<1>2. CASE Discard \/ Tick \/ CollectDone \/ TickCheck \/ ListInbox \/ Tell \/ RingFailed
  <2>1. UNCHANGED <<state, cap, minted, taken, rows, jobs, job, bundles>>
    BY <1>2 DEF Discard, Tick, CollectDone, TickCheck, ListInbox, Tell, RingFailed
  <2>2. state = "idle" => rows < MAX_FRAMES
    BY <1>t, RowsFact DEF TypeOK
  <2>3. \/ pc' \in {"list", "read", "check", "ring"}
        \/ pc' \in {"wait", "collect", "capture"} /\ rows < MAX_FRAMES
    BY <1>t, <1>2, <2>2 DEF Discard, Tick, CollectDone, TickCheck, ListInbox, Tell, RingFailed,
                            Control, Counted
  <2>4. QED
    BY <1>t, <2>1, <2>3, CountedFrame
<1>3. CASE Stop \/ TickCapture
  <2>1. state = "recording"
    BY <1>t, <1>3 DEF Stop, TickCapture, Control
  <2>2. CaptureThen("list", "finalize") \/ CaptureThen("tell", "check")
    BY <1>3 DEF Stop, TickCapture
  <2>3. QED
    BY <2>1, <2>2, CaptureCounted
<1>4. CASE Terminate \/ TellRaises \/ Kill
  <2>1. /\ state' = "idle" /\ rows' = 0 /\ UNCHANGED <<taken, minted, bundles>>
        /\ jobs' \subseteq jobs /\ job' \subseteq job
    BY <1>4 DEF Terminate, TellRaises, Kill, Forgotten, Reset
  <2>2. QED
    BY <1>t, <2>1, RowsFact DEF Counted, Written
<1>5. QED
  BY <1>1, <1>2, <1>3, <1>4, StartCounted, FinishCounted, WorkCounted
     DEF Next, Reactor, Worker

----------------------------------------------------------------------------
(* What a step leaves alone *)

LEMMA MintedFrame ==
  ASSUME Minted, UNCHANGED <<minted, cap, jobs, job, bundles>> PROVE Minted'
BY DEF Minted, Written

LEMMA TruthFrame ==
  ASSUME Truth, UNCHANGED <<state, cap, snap, snapped, matched, jobs, job, bundles>>
  PROVE  Truth'
BY DEF Truth, Written, Own

LEMMA TidyFrame == ASSUME Tidy, UNCHANGED <<status, job, tmps>> PROVE Tidy'
BY DEF Tidy

\* The steps of a handler at which the telemetry is as the recorder is.
Settled == {"wait", "collect", "capture", "check", "ring"}

LEMMA ToldFrame ==
  ASSUME Told, UNCHANGED <<status, tele, tele_last, fails, state, rows, cap>>,
         pc' \in Settled => pc \in Settled
  PROVE  Told'
BY DEF Told, Shown, Settled

LEMMA PlacedFrame ==
  ASSUME Placed, listed' \subseteq inbox',
         UNCHANGED <<inbox, drained, matched, parked, lost, jobs, job, bundles, submitted>>
  PROVE  Placed'
<1>1. Written' = Written /\ Merged' = Merged
  BY DEF Written, Merged, VerdictsOf
<1>2. Everywhere' = Everywhere
  BY <1>1 DEF Everywhere
<1>3. Apart' /\ Disjoint'
  BY <1>1 DEF Placed, Apart, Disjoint
<1>4. QED
  BY <1>2, <1>3 DEF Placed

LEMMA ResultedFrame ==
  ASSUME Resulted, UNCHANGED <<results, told, minted, cap, jobs, job, bundles>>
  PROVE  Resulted'
BY DEF Resulted

LEMMA AwaitedFrame ==
  ASSUME Awaited, pc' # "collect" => pc # "collect",
         UNCHANGED <<pending, todo, still, told, minted, cap>>
  PROVE  Awaited'
BY DEF Awaited

LEMMA AbortedFrame ==
  ASSUME Aborted, Failing' => Failing,
         UNCHANGED <<ended, minted, told, results, jobs, job, bundles, pending>>
  PROVE  Aborted'
BY DEF Aborted, Written

\* A step of the reactor that mints, hands over, rings and matches nothing.
LEMMA RecordsKept ==
  ASSUME RInv, UNCHANGED <<status, minted, state, cap, snap, snapped, matched, tmps,
                           bundles, jobs, job, results, told>>
  PROVE  Minted' /\ Truth' /\ Tidy' /\ Resulted'
BY MintedFrame, TruthFrame, TidyFrame, ResultedFrame DEF RInv

----------------------------------------------------------------------------
(* The steps of other processes *)

LEMMA OthersKeep ==
  ASSUME RInv, SubmitVerdict \/ SetContext \/ UNCHANGED vars PROVE RInv'
<1> USE DEF disk, outside, process, episode, verdicts, futures, telemetry, worker
<1>t. TypeOK' /\ Counted'
  BY TypeStep, CountedStep DEF Next
<1>1. UNCHANGED <<status, stops, minted, state, cap, rows, snap, snapped, drained, matched,
                  listed, pending, todo, still, tele, tele_last, fails, jobs, job, results,
                  told, lost, pc, intent, ended, parked, tmps, bundles>>
  BY DEF SubmitVerdict, SetContext, vars
<1>2. Minted' /\ Truth' /\ Tidy' /\ Resulted'
  BY <1>1, RecordsKept
<1>3. Told' /\ Awaited' /\ Aborted'
  BY <1>1, ToldFrame, AwaitedFrame, AbortedFrame DEF RInv, Failing
<1>4. Control'
  BY <1>1 DEF RInv, Control
<1>5. Placed'
  <2>1. CASE UNCHANGED <<inbox, submitted>>
    BY <1>1, <2>1, PlacedFrame DEF RInv, Placed
  <2>2. CASE SubmitVerdict
    <3>1. PICK v : v.n = submitted + 1 /\ inbox' = inbox \cup {v}
      <4>1. PICK c \in 0..minted : inbox' = inbox \cup {[n |-> submitted + 1, cap |-> c]}
        BY <2>2 DEF SubmitVerdict
      <4>2. [n |-> submitted + 1, cap |-> c].n = submitted + 1
        OBVIOUS
      <4>3. QED
        BY <4>1, <4>2
    <3>2. submitted' = submitted + 1 /\ submitted \in Nat
      BY <2>2, RecorderBounds DEF SubmitVerdict, RInv, TypeOK
    <3>3. Merged' = Merged /\ Written' = Written
      BY <1>1 DEF Merged, Written, VerdictsOf
    <3>4. Everywhere' = Everywhere \cup {v}
      BY <1>1, <3>1, <3>3 DEF Everywhere
    <3>5. Everywhere \subseteq Verdict
      BY DEF RInv, TypeOK, Everywhere, Merged, VerdictsOf, Written, Bundle, Job
    <3>6. \A w \in Everywhere : w.n \in Nat /\ w.n <= submitted
      BY <3>5, RecorderBounds DEF RInv, Placed, Verdict
    <3>7. v \notin Everywhere
      BY <3>1, <3>2, <3>6
    <3>8. Apart'
      BY <1>1, <3>1, <3>3, <3>7 DEF RInv, Placed, Apart, Everywhere
    <3>9. Disjoint'
      BY <3>3 DEF RInv, Placed, Disjoint
    <3>10. \A w \in Everywhere' : w.n <= submitted'
      BY <3>1, <3>2, <3>4, <3>6
    <3>11. \A n \in 1..submitted' : \E w \in Everywhere' : w.n = n
      <4>1. ASSUME NEW n \in 1..submitted' PROVE \E w \in Everywhere' : w.n = n
        <5>1. CASE n = submitted + 1
          BY <3>1, <3>4, <5>1
        <5>2. CASE n # submitted + 1
          <6>1. n \in 1..submitted
            BY <3>2, <5>2
          <6>2. PICK w \in Everywhere : w.n = n
            BY <6>1 DEF RInv, Placed
          <6>3. QED
            BY <3>4, <6>2
        <5>3. QED
          BY <5>1, <5>2
      <4>2. QED
        BY <4>1
    <3>12. listed' \subseteq inbox'
      BY <1>1, <3>1 DEF RInv, Placed
    <3>13. QED
      BY <3>8, <3>9, <3>10, <3>11, <3>12 DEF Placed
  <2>3. CASE SetContext
    BY <2>1, <2>3 DEF SetContext
  <2>4. CASE UNCHANGED vars
    BY <2>1, <2>4 DEF vars
  <2>5. QED
    BY <2>2, <2>3, <2>4
<1>6. QED
  BY <1>t, <1>2, <1>3, <1>4, <1>5 DEF RInv

----------------------------------------------------------------------------
(* The steps of the reactor *)

LEMMA StartKeeps == ASSUME RInv, Start PROVE RInv'
<1> USE DEF disk, outside, process, episode, verdicts, futures, telemetry, worker, At
<1>t. TypeOK /\ TypeOK' /\ Counted'
  BY TypeStep, CountedStep DEF RInv, Next
<1>1. /\ status = "up" /\ pc = "wait" /\ state = "idle"
      /\ state' = "recording" /\ cap' = minted + 1 /\ rows' = 0
      /\ snap' = {context} /\ snapped' = [snapped EXCEPT ![minted + 1] = {context}]
      /\ minted' = minted + 1 /\ pc' = "tell" /\ intent' = "none"
  BY DEF Start
<1>2. UNCHANGED <<inbox, parked, tmps, bundles, status, listed, drained, matched, pending,
                  todo, still, tele, tele_last, fails, jobs, job, results, told, lost, ended,
                  submitted>>
  BY DEF Start
<1>3. minted \in Nat /\ minted + 1 \in Captures /\ cap \in Nat
  BY <1>t, <1>1, RecorderBounds DEF TypeOK, Captures, Start
<1>4. Written' = Written
  BY <1>2 DEF Written
<1>5. \A x \in Written : x.cap \in Captures /\ x.cap \in Nat /\ x.cap <= minted
  BY <1>t, WrittenTyped DEF RInv, Minted
<1>6. \A x \in Written : x.cap <= minted' /\ x.cap # cap'
  BY <1>1, <1>3, <1>5
<1>7. Minted'
  BY <1>2, <1>4, <1>6 DEF RInv, Minted
<1>8. Truth'
  <2>1. \A x \in Written : snapped'[x.cap] = snapped[x.cap]
    <3>1. \A x \in Written : x.cap # minted + 1
      BY <1>1, <1>6
    <3>2. QED
      BY <1>t, <1>1, <1>5, <3>1 DEF TypeOK
  <2>2. \A x \in Written' : snapped'[x.cap] = {x.context} /\ Own(x)
    BY <1>4, <2>1 DEF RInv, Truth
  <2>3. snapped'[cap'] = {context} /\ context' \in Contexts /\ context \in Contexts
    BY <1>t, <1>1, <1>3 DEF TypeOK, Start
  <2>4. matched' = {}
    BY <1>t, <1>1, <1>2 DEF TypeOK
  <2>5. QED
    BY <1>1, <1>2, <2>2, <2>3, <2>4 DEF RInv, Truth, Own
<1>9. Tidy' /\ Placed'
  BY <1>2, TidyFrame, PlacedFrame DEF RInv, Placed
<1>10. Told'
  BY <1>1, <1>2 DEF RInv, Told
<1>11. Resulted'
  <2>1. ASSUME NEW c \in Captures, results'[c] # "none" \/ told'[c] # <<>>
        PROVE  c <= minted' /\ c # cap'
    <3>1. c <= minted /\ c \in Nat
      BY <1>2, <2>1 DEF RInv, Resulted, Captures
    <3>2. QED
      BY <1>1, <1>3, <3>1
  <2>2. QED
    BY <1>2, <2>1 DEF RInv, Resulted
<1>12. Awaited'
  <2>1. ASSUME NEW c \in pending \cup todo \cup still PROVE c <= minted' /\ c # cap'
    <3>1. c \in Nat /\ c <= minted
      BY <1>t DEF TypeOK, Captures, RInv, Awaited
    <3>2. QED
      BY <1>1, <1>3, <3>1
  <2>2. QED
    BY <1>1, <1>2, <2>1 DEF RInv, Awaited
<1>13. Aborted'
  BY <1>1 DEF Aborted, Failing
<1>14. Control'
  BY <1>1, <1>2 DEF RInv, Control
<1>15. QED
  BY <1>t, <1>7, <1>8, <1>9, <1>10, <1>11, <1>12, <1>13, <1>14 DEF RInv

\* A step within a handler that only moves its program counter, the rows or
\* the pass over the futures.
LEMMA StepKeeps ==
  ASSUME RInv,
         Discard \/ Stop \/ Tick \/ CollectDone \/ TickCapture \/ TickCheck \/ ListInbox
  PROVE  RInv'
<1> USE DEF disk, outside, process, episode, verdicts, futures, telemetry, worker, At,
            Elsewhere
<1>t. TypeOK /\ Control /\ TypeOK' /\ Counted'
  BY TypeStep, CountedStep DEF RInv, Next, Reactor
<1>1. UNCHANGED <<status, minted, state, cap, snap, snapped, drained, matched, tmps, tele,
                  tele_last, fails, bundles, jobs, job, results, told, lost, inbox, parked,
                  submitted, ended>>
  BY DEF Discard, Stop, Tick, CollectDone, TickCapture, CaptureThen, TickCheck, ListInbox
<1>2. Minted' /\ Truth' /\ Tidy' /\ Resulted'
  BY <1>1, RecordsKept
<1>3. listed' \subseteq inbox' /\ status = "up"
  BY <1>1 DEF Discard, Stop, Tick, CollectDone, TickCapture, CaptureThen, TickCheck,
              ListInbox, RInv, Placed
<1>4. Placed'
  BY <1>1, <1>3, PlacedFrame DEF RInv
<1>5. \/ pc' = "list" /\ intent' \in Ends /\ pc \in {"wait", "capture", "check"}
         /\ state = "recording" /\ UNCHANGED <<listed, pending, todo, still>>
      \/ pc = "capture" /\ pc' = "tell" /\ intent' = "check"
         /\ UNCHANGED <<listed, pending, todo, still>>
      \/ pc = "check" /\ pc' = "wait" /\ intent' = "none"
         /\ UNCHANGED <<rows, listed, pending, todo, still>>
      \/ pc = "wait" /\ pc' = "collect" /\ todo' = pending /\ still' = {}
         /\ UNCHANGED <<rows, listed, pending, intent>>
      \/ pc = "collect" /\ todo = {} /\ todo' = {} /\ pending' = still /\ still' = {}
         /\ pc' = (IF state = "recording" THEN "capture" ELSE "wait")
         /\ UNCHANGED <<rows, listed, intent>>
      \/ pc = "list" /\ pc' = "read"
         /\ UNCHANGED <<rows, intent, pending, todo, still>>
  BY <1>t DEF Discard, Stop, Tick, CollectDone, Kept, TickCapture, CaptureThen, TickCheck,
              ListInbox, Ends, Control
<1>6. Control'
  BY <1>t, <1>1, <1>3, <1>5 DEF Control, Ends
<1>7. Told'
  <2>1. pc' \in {"wait", "collect", "capture", "check", "ring"} =>
          pc \in {"wait", "collect", "capture", "check", "ring"} /\ UNCHANGED rows
    BY <1>5
  <2>2. QED
    BY <1>1, <2>1 DEF RInv, Told, Shown
<1>8. Awaited'
  BY <1>1, <1>5 DEF RInv, Awaited
<1>9. Aborted'
  BY <1>5 DEF Aborted, Failing, Ends
<1>10. QED
  BY <1>t, <1>2, <1>4, <1>6, <1>7, <1>8, <1>9 DEF RInv

\* A future that is looked at is rung once: it leaves the pass.
LEMMA CollectKeeps == ASSUME RInv, CollectOne PROVE RInv'
<1> USE DEF disk, outside, process, episode, verdicts, telemetry, worker, At, Elsewhere
<1>t. TypeOK /\ TypeOK' /\ Counted'
  BY TypeStep, CountedStep DEF RInv, Next, Reactor
<1>1. PICK c \in todo :
        /\ todo' = todo \ {c}
        /\ \/ results[c] = "none" /\ still' = still \cup {c} /\ UNCHANGED told
           \/ /\ results[c] # "none" /\ still' = still
              /\ told' = [told EXCEPT ![c] = Append(@, results[c])]
  BY DEF CollectOne, Rung, RungAs
<1>2. /\ pc = "collect" /\ status = "up"
      /\ UNCHANGED <<status, minted, state, cap, snap, snapped, matched, tmps, bundles, jobs,
                     job, results, tele, tele_last, fails, rows, inbox, drained, listed, parked,
                     lost, submitted, pc, intent, ended, pending>>
  BY DEF CollectOne
<1>3. \A d \in Captures : d # c => told'[d] = told[d]
  BY <1>t, <1>1 DEF TypeOK
<1>4. c \in Captures /\ c <= minted /\ c # cap
  BY <1>t DEF TypeOK, RInv, Awaited
<1>5. Minted' /\ Truth' /\ Tidy' /\ Told' /\ Placed'
  BY <1>2, MintedFrame, TruthFrame, TidyFrame, ToldFrame, PlacedFrame DEF RInv, Placed
<1>6. Control'
  BY <1>2 DEF RInv, Control
<1>7. Resulted'
  <2>1. ASSUME NEW d \in Captures, results'[d] # "none" \/ told'[d] # <<>>
        PROVE  d <= minted' /\ d # cap'
    BY <1>2, <1>3, <1>4, <2>1 DEF RInv, Resulted
  <2>2. QED
    BY <1>2, <2>1 DEF RInv, Resulted
<1>8. Awaited'
  <2>1. /\ todo' \cup still' \subseteq todo \cup still
        /\ \A d \in todo' \cup still' : told'[d] = <<>>
    <3>1. todo \subseteq Captures /\ still \subseteq Captures /\ todo \cap still = {}
      BY <1>t DEF TypeOK, RInv, Awaited
    <3>2. \A d \in todo \cup still : told[d] = <<>>
      BY DEF RInv, Awaited
    <3>3. QED
      BY <1>1, <1>3, <3>1, <3>2
  <2>2. todo' \cap still' = {}
    BY <1>1 DEF RInv, Awaited
  <2>3. QED
    BY <1>2, <2>1, <2>2 DEF RInv, Awaited
<1>9. Aborted'
  BY <1>2 DEF Aborted, Failing
<1>10. QED
  BY <1>t, <1>5, <1>6, <1>7, <1>8, <1>9 DEF RInv

\* A file that is read is unlinked: the verdict moves.
LEMMA ReadKeeps == ASSUME RInv, ReadOne PROVE RInv'
<1> USE DEF episode, futures, telemetry, outside, process, worker, At, Elsewhere
<1>t. TypeOK /\ TypeOK' /\ Counted'
  BY TypeStep, CountedStep DEF RInv, Next, Reactor
<1>1. PICK v \in listed : /\ listed' = listed \ {v}
                          /\ drained' = drained \cup {v} /\ inbox' = inbox \ {v}
  BY DEF ReadOne
<1>2. /\ pc = "read" /\ status = "up"
      /\ UNCHANGED <<status, minted, state, cap, snap, snapped, matched, tmps, bundles, jobs,
                     job, results, told, tele, tele_last, fails, rows, parked, lost, submitted, pc,
                     intent, ended, pending, todo, still>>
  BY DEF ReadOne
<1>3. Minted' /\ Truth' /\ Tidy' /\ Resulted'
  BY <1>2, RecordsKept
<1>4. Told' /\ Awaited' /\ Aborted'
  BY <1>2, ToldFrame, AwaitedFrame, AbortedFrame DEF RInv, Failing
<1>5. Control'
  BY <1>2 DEF RInv, Control
<1>6. Placed'
  <2>1. v \in inbox /\ listed \subseteq inbox
    BY DEF RInv, Placed
  <2>2. Written' = Written /\ Merged' = Merged
    BY <1>2 DEF Written, Merged, VerdictsOf
  <2>3. Everywhere' = Everywhere
    BY <1>1, <1>2, <2>1, <2>2 DEF Everywhere
  <2>4. Apart' /\ Disjoint'
    BY <1>1, <1>2, <2>1, <2>2 DEF RInv, Placed, Apart, Disjoint
  <2>5. listed' \subseteq inbox'
    BY <1>1, <2>1
  <2>6. QED
    BY <1>2, <2>3, <2>4, <2>5 DEF RInv, Placed
<1>7. QED
  BY <1>t, <1>3, <1>4, <1>5, <1>6 DEF RInv

\* A verdict goes to one side, and only the first that names the capture to
\* the sidecar.
LEMMA JudgeKeeps == ASSUME RInv, Judge PROVE RInv'
<1> USE DEF episode, futures, telemetry, outside, process, worker, At, Elsewhere
<1>t. TypeOK /\ TypeOK' /\ Counted'
  BY TypeStep, CountedStep DEF RInv, Next, Reactor
<1>1. PICK v \in drained :
        /\ drained' = drained \ {v}
        /\ \/ /\ intent = "finalize" /\ v.cap = cap /\ matched = {}
              /\ matched' = {v} /\ UNCHANGED parked
           \/ parked' = parked \cup {v} /\ UNCHANGED matched
  BY DEF Judge, MatchOrPark, Names
<1>2. /\ pc = "read" /\ status = "up"
      /\ UNCHANGED <<status, minted, state, cap, snap, snapped, tmps, bundles, jobs, job,
                     results, told, tele, tele_last, fails, rows, inbox, listed, lost, submitted, pc,
                     intent, ended, pending, todo, still>>
  BY DEF Judge
<1>3. Minted' /\ Tidy' /\ Resulted' /\ Told' /\ Awaited' /\ Aborted'
  BY <1>2, MintedFrame, TidyFrame, ResultedFrame, ToldFrame, AwaitedFrame, AbortedFrame
     DEF RInv, Failing
<1>4. Truth'
  <2>1. Written' = Written
    BY <1>2 DEF Written
  <2>2. \A w \in matched' : w.cap = cap' /\ matched' = {w}
    BY <1>1, <1>2 DEF RInv, Truth
  <2>3. QED
    BY <1>2, <2>1, <2>2 DEF RInv, Truth, Own
<1>5. Control'
  BY <1>1, <1>2 DEF RInv, Control
<1>6. Placed'
  <2>1. Written' = Written /\ Merged' = Merged
    BY <1>2 DEF Written, Merged, VerdictsOf
  <2>2. matched' \cup parked' = matched \cup parked \cup {v}
    BY <1>1
  <2>3. Everywhere' = Everywhere
    BY <1>1, <1>2, <2>1, <2>2 DEF Everywhere
  <2>4. Apart'
    BY <1>1, <1>2, <2>1 DEF RInv, Placed, Apart
  <2>5. QED
    BY <1>2, <2>1, <2>3, <2>4 DEF RInv, Placed, Disjoint
<1>7. QED
  BY <1>t, <1>3, <1>4, <1>5, <1>6 DEF RInv

\* Only a change is written, and what is written is the recorder as it is.
LEMMA TellKeeps == ASSUME RInv, Tell PROVE RInv'
<1> USE DEF disk, episode, verdicts, futures, telemetry, outside, process, worker, At,
            Elsewhere
<1>t. TypeOK /\ TypeOK' /\ Counted'
  BY TypeStep, CountedStep DEF RInv, Next, Reactor
<1>1. /\ pc = "tell" /\ status = "up"
      /\ pc' = (IF intent = "none" THEN "wait" ELSE intent)
      /\ UNCHANGED <<status, minted, state, cap, snap, snapped, matched, tmps, bundles, jobs,
                     job, results, told, rows, inbox, drained, listed, parked, lost, submitted,
                     intent, ended, pending, todo, still>>
  BY DEF Tell
<1>2. pc' \in {"wait", "check", "ring"} /\ (pc' = "check" => state = "recording")
      /\ (pc' = "ring" => intent = "ring" /\ state = "idle")
  BY <1>1 DEF RInv, Control
<1>3. Minted' /\ Truth' /\ Tidy' /\ Resulted'
  BY <1>1, RecordsKept
<1>4. Placed' /\ Awaited' /\ Aborted'
  BY <1>1, <1>2, PlacedFrame, AwaitedFrame, AbortedFrame DEF RInv, Failing, Placed
<1>5. Control'
  BY <1>1, <1>2 DEF RInv, Control
<1>6. Told'
  <2>1. CASE tele_last = {<<state, rows, cap>>} /\ UNCHANGED <<tele, tele_last, fails>>
    <3>1. ASSUME fails = 0
          PROVE  tele_last = {<<tele.state, tele.rows, tele.cap>>}
      BY <1>1, <2>1, <3>1 DEF RInv, Told
    <3>2. ASSUME fails = 0 PROVE Shown
      <4>1. {<<state, rows, cap>>} = {<<tele.state, tele.rows, tele.cap>>}
        BY <2>1, <3>1, <3>2
      <4>2. <<state, rows, cap>> \in {<<tele.state, tele.rows, tele.cap>>}
        BY <4>1
      <4>3. <<state, rows, cap>> = <<tele.state, tele.rows, tele.cap>>
        BY <4>2
      <4>4. QED
        BY <4>3 DEF Shown
    <3>3. QED
      BY <1>1, <2>1, <3>1, <3>2 DEF Told, Shown
  <2>2. CASE /\ tele_last' = {<<state, rows, cap>>}
             /\ tele' = [state |-> state, rows |-> rows, cap |-> cap]
    <3>1. tele'.state = state /\ tele'.rows = rows /\ tele'.cap = cap
      BY <2>2
    <3>2. QED
      BY <1>1, <2>2, <3>1 DEF Told, Shown
  <2>3. CASE fails' = fails + 1
    <3>1. fails' # 0
      BY <1>t, <2>3, RecorderBounds DEF TypeOK
    <3>2. QED
      BY <3>1 DEF Told
  <2>4. QED
    BY <2>1, <2>2, <2>3 DEF Tell, Now
<1>7. QED
  BY <1>t, <1>3, <1>4, <1>5, <1>6 DEF RInv

\* The capture of an abort is rung last, by nobody else.
LEMMA RingKeeps == ASSUME RInv, RingFailed PROVE RInv'
<1> USE DEF disk, episode, verdicts, futures, telemetry, outside, process, worker, At,
            Elsewhere
<1>t. TypeOK /\ TypeOK' /\ Counted'
  BY TypeStep, CountedStep DEF RInv, Next, Reactor
<1>1. /\ pc = "ring" /\ status = "up" /\ pc' = "wait" /\ intent' = "none"
      /\ told' = [told EXCEPT ![ended] = Append(@, "failed")]
      /\ UNCHANGED <<status, minted, state, cap, snap, snapped, matched, tmps, bundles, jobs,
                     job, results, rows, inbox, drained, listed, parked, lost, submitted,
                     pending, todo, still, tele, tele_last, fails>>
  BY DEF RingFailed, Rung
<1>2. /\ ended \in Captures /\ ended <= minted /\ ended \notin pending
      /\ state = "idle" /\ todo = {} /\ still = {}
  BY <1>1 DEF RInv, Aborted, Failing, Control
<1>3. ended # cap
  BY <1>t, <1>2 DEF TypeOK, Captures
<1>4. \A d \in Captures : d # ended => told'[d] = told[d]
  BY <1>t, <1>1 DEF TypeOK
<1>5. Minted' /\ Truth' /\ Tidy' /\ Placed' /\ Told'
  BY <1>1, MintedFrame, TruthFrame, TidyFrame, PlacedFrame, ToldFrame
     DEF RInv, Placed, Settled
<1>6. Control' /\ Aborted'
  BY <1>1 DEF RInv, Control, Aborted, Failing
<1>7. Resulted'
  <2>1. ASSUME NEW d \in Captures, results'[d] # "none" \/ told'[d] # <<>>
        PROVE  d <= minted' /\ d # cap'
    BY <1>1, <1>2, <1>3, <1>4, <2>1 DEF RInv, Resulted
  <2>2. QED
    BY <1>1, <2>1 DEF RInv, Resulted
<1>8. Awaited'
  <2>1. \A d \in pending : told'[d] = <<>>
    BY <1>t, <1>1, <1>2, <1>4 DEF TypeOK, RInv, Awaited
  <2>2. QED
    BY <1>1, <1>2, <2>1 DEF RInv, Awaited
<1>9. QED
  BY <1>t, <1>5, <1>6, <1>7, <1>8 DEF RInv

\* The end of a recording: its verdict goes with the job, or there is none.
LEMMA FinishKeeps == ASSUME RInv, Finish PROVE RInv'
<1> USE DEF disk, outside, process, telemetry, At
<1>t. TypeOK /\ TypeOK' /\ Control /\ Counted'
  BY TypeStep, CountedStep DEF RInv, Next, Reactor
<1> DEFINE j == [cap |-> cap, rows |-> rows, context |-> ContextOf, verdict |-> matched]
<1>1. /\ pc = "read" /\ status = "up" /\ listed = {} /\ drained = {}
      /\ \/ /\ intent = "finalize" /\ jobs' = jobs \cup {j} /\ pending' = pending \cup {cap}
         \/ intent # "finalize" /\ jobs' = jobs /\ pending' = pending
      /\ rows' = 0 /\ snap' = {} /\ cap' = 0 /\ state' = "idle" /\ matched' = {}
      /\ pc' = "tell"
      /\ \/ intent = "abort" /\ ended' = cap /\ intent' = "ring"
         \/ intent # "abort" /\ intent' = "none"
  BY DEF Finish, Reset
<1>2. UNCHANGED <<inbox, parked, tmps, bundles, submitted, status, minted, snapped, listed,
                  drained, todo, still, tele, tele_last, fails, job, results, told, lost>>
  BY DEF Finish
<1>3. state = "recording" /\ (intent # "finalize" => matched = {}) /\ todo = {} /\ still = {}
  BY <1>t, <1>1 DEF Control
<1>4. PICK x \in Contexts : snapped[cap] = {x} /\ ContextOf = x
  BY <1>3, Recording
<1>5. cap \in Captures /\ cap \in Nat /\ cap <= minted /\ cap # 0
  BY <1>3, Recording DEF Captures
<1>6. j.cap = cap /\ j.verdict = matched /\ j.context = x
  BY <1>4
<1> HIDE DEF j
<1>7. \A y \in Written : y.cap # cap /\ y.cap <= minted /\ y.cap # 0
  BY <1>t, WrittenTyped DEF RInv, Minted, Captures
<1>8. Written \subseteq Written' /\ Written' \subseteq Written \cup {j}
      /\ (intent = "finalize" => j \in Written') /\ (intent # "finalize" => Written' = Written)
  BY <1>1, <1>2 DEF Written
<1>9. told[cap] = <<>> /\ results[cap] = "none" /\ cap \notin pending
  BY <1>5 DEF RInv, Resulted, Awaited
<1>10. Minted'
  <2>1. \A y \in Written' : y.cap <= minted' /\ y.cap # cap'
    BY <1>1, <1>2, <1>5, <1>6, <1>7, <1>8
  <2>2. \A y \in jobs : y.cap # cap
    BY <1>7 DEF Written
  <2>3. \A y, z \in jobs' : y.cap = z.cap => y = z
    BY <1>1, <1>6, <2>2 DEF RInv, Minted
  <2>4. \A y \in jobs', z \in job' : y.cap # z.cap
    BY <1>1, <1>2, <1>6, <1>7 DEF RInv, Minted, Written
  <2>5. \A y \in jobs' \cup job', b \in bundles' : y.cap # b.cap
    BY <1>1, <1>2, <1>6, <1>7 DEF RInv, Minted, Written
  <2>6. QED
    BY <1>2, <2>1, <2>3, <2>4, <2>5 DEF RInv, Minted
<1>11. Truth'
  <2>1. snapped'[j.cap] = {j.context} /\ Own(j)
    BY <1>2, <1>4, <1>6 DEF Own, RInv, Truth
  <2>2. \A y \in Written' : snapped'[y.cap] = {y.context} /\ Own(y)
    BY <1>2, <1>8, <2>1 DEF RInv, Truth
  <2>3. QED
    BY <1>1, <1>2, <2>2 DEF RInv, Truth, Own
<1>12. Tidy'
  BY <1>2, TidyFrame DEF RInv, Tidy
<1>13. Told'
  BY <1>1, <1>2 DEF RInv, Told
<1>14. Placed'
  <2>1. Merged' = Merged \cup matched
    <3>1. CASE intent = "finalize"
      <4>1. Written' = Written \cup {j}
        BY <1>8, <3>1
      <4>2. QED
        BY <1>6, <4>1 DEF Merged, VerdictsOf
    <3>2. CASE intent # "finalize"
      BY <1>3, <1>8, <3>2 DEF Merged, VerdictsOf
    <3>3. QED
      BY <3>1, <3>2
  <2>2. Everywhere' = Everywhere
    BY <1>1, <1>2, <2>1 DEF Everywhere
  <2>3. Apart'
    BY <1>1, <1>2, <2>1 DEF RInv, Placed, Apart
  <2>4. \A y \in Written : y.verdict \subseteq Merged
    BY DEF Merged, VerdictsOf
  <2>5. matched \cap Merged = {}
    BY DEF RInv, Placed, Apart
  <2>6. \A y \in Written : j.verdict \cap y.verdict = {}
    BY <1>6, <2>4, <2>5
  <2>7. Disjoint'
    <3>1. ASSUME NEW y \in Written', NEW z \in Written', y # z
          PROVE  y.verdict \cap z.verdict = {}
      BY <1>8, <2>6, <3>1 DEF RInv, Placed, Disjoint
    <3>2. QED
      BY <3>1 DEF Disjoint
  <2>8. QED
    BY <1>2, <2>2, <2>3, <2>7 DEF RInv, Placed
<1>15. Resulted'
  <2>1. \A c \in Captures : c # 0
    BY DEF Captures
  <2>2. \A y \in jobs' \cup job' : results'[y.cap] = "none"
    BY <1>1, <1>2, <1>6, <1>9 DEF RInv, Resulted
  <2>3. QED
    BY <1>1, <1>2, <2>1, <2>2 DEF RInv, Resulted
<1>16. Awaited'
  <2>1. \A c \in pending : c \in Captures /\ c <= minted /\ c # 0 /\ told[c] = <<>>
    <3>1. pc # "collect"
      BY <1>1
    <3>2. pending \subseteq Captures
      BY <1>t DEF TypeOK
    <3>3. QED
      BY <3>1, <3>2 DEF RInv, Awaited, Captures
  <2>2. \A c \in pending' : c \in Captures /\ c <= minted /\ c # 0 /\ told[c] = <<>>
    BY <1>1, <1>5, <1>9, <2>1
  <2>3. QED
    BY <1>1, <1>2, <1>3, <2>2 DEF Awaited
<1>17. Aborted'
  <2>1. ASSUME Failing' PROVE intent = "abort" /\ ended' = cap
    BY <1>1, <2>1 DEF Failing
  <2>2. QED
    BY <1>1, <1>2, <1>5, <1>7, <1>8, <1>9, <2>1 DEF Aborted
<1>18. Control'
  BY <1>t, <1>1, <1>2, <1>3 DEF Control
<1>19. QED
  BY <1>t, <1>10, <1>11, <1>12, <1>13, <1>14, <1>15, <1>16, <1>17, <1>18 DEF RInv

----------------------------------------------------------------------------
(* The steps of the worker *)

\* What they leave as it is.
LEMMA WorkerFrame ==
  ASSUME RInv, Working, UNCHANGED bundles \/ UNCHANGED jobs, jobs' \subseteq jobs,
         status # "down"
  PROVE  Told' /\ Awaited' /\ Control'
BY DEF Working, outside, process, episode, verdicts, futures, telemetry, RInv, Told, Shown,
       Awaited, Control

\* One record gives up its result: nobody else's changes.
LEMMA ResultStep ==
  ASSUME RInv, Working, NEW j \in jobs \cup job,
         NEW r \in {"captured", "discarded", "failed"},
         results' = [results EXCEPT ![j.cap] = r],
         jobs' \cup job' \subseteq (jobs \cup job) \ {j},
         \/ r # "captured" /\ bundles' = bundles
         \/ /\ r = "captured"
            /\ \E b : b.cap = j.cap /\ bundles' = bundles \cup {b}
  PROVE  Resulted' /\ Aborted'
<1> USE DEF Working, outside, process, episode, verdicts, futures, telemetry
<1>t. TypeOK
  BY DEF RInv
<1>1. j.cap \in Captures /\ j.cap <= minted /\ j.cap # cap
  BY <1>t, WrittenTyped DEF Written, RInv, Minted
<1>2. \A c \in Captures : results'[c] = IF c = j.cap THEN r ELSE results[c]
  BY <1>t, <1>1 DEF TypeOK
<1>3. \A x \in jobs \cup job : x # j => x.cap # j.cap /\ x.cap \in Captures
  BY <1>t, WrittenTyped DEF Written, RInv, Minted
<1>4. \A b \in bundles : b.cap # j.cap /\ b.cap \in Captures
  BY <1>t, WrittenTyped DEF Written, RInv, Minted
<1>5. \A x \in jobs' \cup job' : results'[x.cap] = "none"
  BY <1>2, <1>3 DEF RInv, Resulted
<1>6. \A b \in bundles' : results'[b.cap] = "captured"
  BY <1>1, <1>2, <1>4 DEF RInv, Resulted
<1>7. \A c \in Captures : results'[c] = "captured" => \E b \in bundles' : b.cap = c
  BY <1>1, <1>2 DEF RInv, Resulted
<1>8. Resulted'
  BY <1>1, <1>2, <1>5, <1>6, <1>7 DEF RInv, Resulted
<1>9. Aborted'
  <2>1. ASSUME Failing PROVE ended # j.cap
    BY <2>1 DEF RInv, Aborted, Written
  <2>2. ASSUME NEW x \in Written' PROVE \E y \in Written : y.cap = x.cap
    BY <2>2 DEF Written
  <2>3. QED
    BY <1>2, <2>1, <2>2 DEF RInv, Aborted, Failing
<1>10. QED
  BY <1>8, <1>9

\* The verdict of an episode that is not written is lost, and only lost.
LEMMA GivenUp ==
  ASSUME RInv, NEW j \in Written, Written' = Written \ {j}, lost' = lost \cup j.verdict,
         UNCHANGED <<inbox, drained, matched, parked, submitted, listed>>
  PROVE  Placed'
<1>1. \A y \in Written' : y.verdict \cap j.verdict = {}
  BY DEF RInv, Placed, Disjoint
<1>2. j.verdict \subseteq Merged
  BY DEF Merged, VerdictsOf
<1>3. Merged = Merged' \cup j.verdict
  BY DEF Merged, VerdictsOf
<1>4. Merged' \cap j.verdict = {}
  BY <1>1 DEF Merged, VerdictsOf
<1>5. Everywhere' = Everywhere
  BY <1>3 DEF Everywhere
<1>6. Apart'
  BY <1>3, <1>4 DEF RInv, Placed, Apart
<1>7. Disjoint'
  BY DEF RInv, Placed, Disjoint
<1>8. QED
  BY <1>5, <1>6, <1>7 DEF RInv, Placed

\* A job is taken up, or its episode had no rows and is over.
LEMMA TakeKeeps == ASSUME RInv, TakeJob PROVE RInv'
<1> USE DEF outside, process, episode, verdicts, futures, telemetry
<1>t. TypeOK /\ TypeOK' /\ Control /\ Counted'
  BY TypeStep, CountedStep DEF RInv, Next, Worker
<1>1. Working /\ job = {} /\ bundles' = bundles /\ status # "down"
  BY DEF TakeJob
<1>2. PICK j \in jobs :
        /\ jobs' = jobs \ {j}
        /\ \/ /\ results' = [results EXCEPT ![j.cap] = "discarded"]
              /\ lost' = lost \cup j.verdict
              /\ UNCHANGED <<job, tmps>>
           \/ /\ job' = {j} /\ tmps' = tmps \cup {[cap |-> j.cap, parts |-> {"data"}]}
              /\ UNCHANGED <<results, lost>>
  BY DEF TakeJob
<1>3. /\ UNCHANGED <<inbox, parked, submitted, status, minted, state, cap, snap, snapped,
                     listed, drained, matched, told, pc, intent, ended, pending>>
      /\ tmps = {}
  BY <1>1 DEF Working, RInv, Tidy
<1>4. Told' /\ Awaited' /\ Control'
  BY <1>1, <1>2, WorkerFrame
<1>5. Written' \subseteq Written
  BY <1>1, <1>2 DEF Written
<1>6. Minted'
  <2>1. \A x \in jobs', y \in job' : x.cap # y.cap
    BY <1>1, <1>2 DEF RInv, Minted
  <2>2. \A x, y \in job' : x = y
    BY <1>1, <1>2
  <2>3. jobs' \cup job' \subseteq jobs \cup job
    BY <1>2
  <2>4. QED
    BY <1>1, <1>2, <1>3, <1>5, <2>1, <2>2, <2>3 DEF RInv, Minted
<1>7. Truth'
  BY <1>1, <1>3, <1>5 DEF RInv, Truth, Own
<1>8. Tidy'
  BY <1>1, <1>2, <1>3 DEF Tidy
<1>9. Resulted' /\ Aborted' /\ Placed'
  <2>1. CASE results' = results /\ lost' = lost /\ job' = {j}
    <3>1. jobs' \cup job' = jobs \cup job
      BY <1>1, <1>2, <2>1
    <3>2. Written' = Written /\ Merged' = Merged
      BY <1>1, <3>1 DEF Written, Merged, VerdictsOf
    <3>3. Resulted' /\ Aborted'
      BY <1>1, <1>3, <2>1, <3>1, <3>2 DEF RInv, Resulted, Aborted, Failing
    <3>4. Everywhere' = Everywhere
      BY <1>3, <2>1, <3>2 DEF Everywhere
    <3>5. Apart' /\ Disjoint'
      BY <1>3, <2>1, <3>2 DEF RInv, Placed, Apart, Disjoint
    <3>6. QED
      BY <1>3, <3>3, <3>4, <3>5 DEF RInv, Placed
  <2>2. CASE /\ results' = [results EXCEPT ![j.cap] = "discarded"]
             /\ lost' = lost \cup j.verdict /\ job' = job
    <3>1. Written' = Written \ {j}
      <4>1. j \notin bundles /\ j \notin job
        BY <1>1 DEF RInv, Minted
      <4>2. QED
        BY <1>1, <1>2, <2>2, <4>1 DEF Written
    <3>2. Resulted' /\ Aborted'
      BY <1>1, <1>2, <2>2, ResultStep
    <3>3. Placed'
      BY <1>3, <2>2, <3>1, GivenUp DEF Written
    <3>4. QED
      BY <3>2, <3>3
  <2>3. QED
    BY <1>2, <2>1, <2>2
<1>10. QED
  BY <1>t, <1>4, <1>6, <1>7, <1>8, <1>9 DEF RInv

LEMMA WriteKeeps == ASSUME RInv, WriteSidecar PROVE RInv'
<1> USE DEF outside, process, episode, verdicts, futures, telemetry, worker
<1>t. TypeOK /\ TypeOK' /\ Control /\ Counted'
  BY TypeStep, CountedStep DEF RInv, Next, Worker
<1>1. PICK j \in job :
        /\ [cap |-> j.cap, parts |-> {"data"}] \in tmps
        /\ tmps' = (tmps \ {[cap |-> j.cap, parts |-> {"data"}]})
                     \cup {[cap |-> j.cap, parts |-> Parts]}
  BY DEF WriteSidecar
<1>2. Working /\ UNCHANGED <<jobs, job, bundles, results, lost>> /\ status # "down"
  BY <1>t, <1>1 DEF WriteSidecar, Control
<1>3. UNCHANGED <<inbox, parked, submitted, status, minted, state, cap, snap, snapped,
                  listed, drained, matched, told, pc, intent, ended, pending>>
  BY <1>2 DEF Working
<1>4. Told' /\ Awaited' /\ Control'
  BY <1>2, WorkerFrame
<1>5. Minted' /\ Truth' /\ Resulted' /\ Aborted' /\ Placed'
  BY <1>2, <1>3, MintedFrame, TruthFrame, ResultedFrame, AbortedFrame, PlacedFrame
     DEF RInv, Placed, Failing
<1>6. Tidy'
  <2>1. PICK parts \in {{"data"}, Parts} : tmps = {[cap |-> j.cap, parts |-> parts]}
    BY <1>2 DEF RInv, Tidy
  <2>2. tmps = {[cap |-> j.cap, parts |-> {"data"}]}
    BY <1>1, <2>1
  <2>3. tmps' = {[cap |-> j.cap, parts |-> Parts]}
    BY <1>1, <2>2
  <2>4. \A i \in job : i = j
    BY DEF RInv, Minted
  <2>5. QED
    BY <1>2, <2>3, <2>4 DEF Tidy
<1>7. QED
  BY <1>t, <1>4, <1>5, <1>6 DEF RInv

\* The record of a bundle is the record of its job.
LEMMA CommitKeeps == ASSUME RInv, Commit PROVE RInv'
<1> USE DEF outside, process, episode, verdicts, futures, telemetry
<1>t. TypeOK /\ TypeOK' /\ Control /\ Counted'
  BY TypeStep, CountedStep DEF RInv, Next, Worker
<1>1. PICK j \in job, d \in tmps :
        /\ d.parts = Parts /\ tmps' = tmps \ {d}
        /\ bundles' = bundles \cup {[cap |-> j.cap, parts |-> d.parts, rows |-> j.rows,
                                     context |-> j.context, verdict |-> j.verdict]}
        /\ results' = [results EXCEPT ![j.cap] = "captured"]
  BY DEF Commit, Ready, RowsOf
<1> DEFINE b == [cap |-> j.cap, parts |-> d.parts, rows |-> j.rows,
                 context |-> j.context, verdict |-> j.verdict]
<1>2. /\ b.cap = j.cap /\ b.parts = Parts /\ b.context = j.context /\ b.verdict = j.verdict
      /\ bundles' = bundles \cup {b}
  BY <1>1
<1> HIDE DEF b
<1>3. Working /\ job' = {} /\ UNCHANGED <<jobs, lost>> /\ status # "down"
  BY <1>t DEF Commit, Control
<1>4. /\ UNCHANGED <<inbox, parked, submitted, status, minted, state, cap, snap, snapped,
                     listed, drained, matched, told, pc, intent, ended, pending>>
      /\ job = {j}
  BY <1>3 DEF Working, RInv, Minted
<1>5. Told' /\ Awaited' /\ Control'
  BY <1>3, WorkerFrame
<1>6. /\ j \in Written /\ j \notin jobs /\ j \notin bundles
      /\ Written' = (Written \ {j}) \cup {b}
  <2>1. j \notin jobs /\ j \notin bundles
    BY DEF RInv, Minted
  <2>2. QED
    BY <1>2, <1>3, <1>4, <2>1 DEF Written
<1>7. Minted'
  <2>1. \A x \in Written' : \E y \in Written : x.cap = y.cap
    BY <1>2, <1>6
  <2>2. \A x \in Written' : x.cap <= minted' /\ x.cap # cap'
    BY <1>4, <2>1 DEF RInv, Minted
  <2>3. \A x \in bundles : x.cap # j.cap
    BY DEF RInv, Minted
  <2>4. \A x, y \in bundles' : x.cap = y.cap => x = y
    BY <1>2, <2>3 DEF RInv, Minted
  <2>5. \A x \in jobs' \cup job', y \in bundles' : x.cap # y.cap
    BY <1>2, <1>3 DEF RInv, Minted
  <2>6. QED
    BY <1>3, <2>2, <2>4, <2>5 DEF RInv, Minted
<1>8. Truth'
  <2>1. \A v \in b.verdict : v.cap = b.cap /\ b.verdict = {v}
    BY <1>2, <1>6 DEF RInv, Truth, Own
  <2>2. snapped[b.cap] = {b.context}
    BY <1>2, <1>6 DEF RInv, Truth
  <2>3. \A x \in Written' : snapped'[x.cap] = {x.context} /\ Own(x)
    BY <1>4, <1>6, <2>1, <2>2 DEF RInv, Truth, Own
  <2>4. QED
    BY <1>2, <1>4, <2>3 DEF RInv, Truth, Own
<1>9. Tidy'
  <2>1. PICK parts \in {{"data"}, Parts} : tmps = {[cap |-> j.cap, parts |-> parts]}
    BY <1>3 DEF RInv, Tidy
  <2>2. tmps' = {}
    BY <1>1, <2>1
  <2>3. QED
    BY <1>3, <2>2 DEF Tidy
<1>10. Resulted' /\ Aborted'
  <2>1. jobs' \cup job' \subseteq (jobs \cup job) \ {j}
    BY <1>3, <1>6
  <2>2. QED
    BY <1>1, <1>2, <1>3, <2>1, ResultStep
<1>11. Placed'
  <2>1. Merged' = Merged
    BY <1>2, <1>6 DEF Merged, VerdictsOf
  <2>2. Everywhere' = Everywhere
    BY <1>3, <1>4, <2>1 DEF Everywhere
  <2>3. Apart'
    BY <1>3, <1>4, <2>1 DEF RInv, Placed, Apart
  <2>4. \A y \in Written \ {j} : j.verdict \cap y.verdict = {}
    BY <1>6 DEF RInv, Placed, Disjoint
  <2>5. ASSUME NEW x \in Written', NEW y \in Written', x # y
        PROVE  x.verdict \cap y.verdict = {}
    BY <1>2, <1>6, <2>4, <2>5 DEF RInv, Placed, Disjoint
  <2>6. Disjoint'
    BY <2>5 DEF Disjoint
  <2>7. QED
    BY <1>4, <2>2, <2>3, <2>6 DEF RInv, Placed
<1>12. QED
  BY <1>t, <1>5, <1>7, <1>8, <1>9, <1>10, <1>11 DEF RInv

\* A write that fails takes its directory and its verdict along.
LEMMA FailKeeps == ASSUME RInv, WriteFails PROVE RInv'
<1> USE DEF outside, process, episode, verdicts, futures, telemetry
<1>t. TypeOK /\ TypeOK' /\ Control /\ Counted'
  BY TypeStep, CountedStep DEF RInv, Next
<1>1. PICK j \in job :
        /\ tmps' = Cleaned(j.cap)
        /\ results' = [results EXCEPT ![j.cap] = "failed"]
        /\ lost' = lost \cup j.verdict
  BY DEF WriteFails
<1>2. Working /\ job' = {} /\ UNCHANGED <<jobs, bundles>> /\ status # "down"
  BY <1>t DEF WriteFails, Control
<1>3. /\ UNCHANGED <<inbox, parked, submitted, status, minted, state, cap, snap, snapped,
                     listed, drained, matched, told, pc, intent, ended, pending>>
      /\ job = {j}
  BY <1>2 DEF Working, RInv, Minted
<1>4. Told' /\ Awaited' /\ Control'
  BY <1>2, WorkerFrame
<1>5. j \in Written /\ Written' = Written \ {j}
  <2>1. j \notin jobs /\ j \notin bundles
    BY DEF RInv, Minted
  <2>2. QED
    BY <1>2, <1>3, <2>1 DEF Written
<1>6. Minted'
  BY <1>2, <1>3, <1>5 DEF RInv, Minted
<1>7. Truth'
  BY <1>2, <1>3, <1>5 DEF RInv, Truth, Own
<1>8. Tidy'
  <2>1. PICK parts \in {{"data"}, Parts} : tmps = {[cap |-> j.cap, parts |-> parts]}
    BY <1>2 DEF RInv, Tidy
  <2>2. tmps' = {}
    BY <1>1, <2>1 DEF Cleaned
  <2>3. QED
    BY <1>2, <2>2 DEF Tidy
<1>9. Resulted' /\ Aborted'
  <2>1. jobs' \cup job' \subseteq (jobs \cup job) \ {j} /\ j \in jobs \cup job
    <3>1. j \notin jobs
      BY DEF RInv, Minted
    <3>2. QED
      BY <1>2, <3>1
  <2>2. QED
    BY <1>1, <1>2, <2>1, ResultStep
<1>10. Placed'
  BY <1>1, <1>3, <1>5, GivenUp
<1>11. QED
  BY <1>t, <1>4, <1>6, <1>7, <1>8, <1>9, <1>10 DEF RInv

----------------------------------------------------------------------------
(* The process *)

\* What ends with the process leaves the disk and the history consistent.
LEMMA ForgottenFrame ==
  ASSUME RInv, Forgotten, status' \in {"exiting", "down"}
  PROVE  Told' /\ Awaited' /\ Aborted'
BY DEF Forgotten, Told, Awaited, Aborted, Failing

LEMMA TerminateKeeps == ASSUME RInv, Terminate \/ TellRaises PROVE RInv'
<1> USE DEF disk, outside, worker, At
<1>t. TypeOK /\ TypeOK' /\ Control /\ Counted'
  BY TypeStep, CountedStep DEF RInv, Next
<1>1. /\ status = "up" /\ pc \in {"wait", "tell"} /\ status' = "exiting" /\ Forgotten
      /\ UNCHANGED <<jobs, job, results, lost>>
  BY DEF Terminate, TellRaises
<1>2. /\ UNCHANGED <<inbox, parked, tmps, bundles, submitted, minted, snapped, told>>
      /\ state' = "idle" /\ cap' = 0 /\ rows' = 0 /\ snap' = {} /\ pc' = "wait"
      /\ intent' = "none" /\ listed' = {} /\ drained' = {} /\ matched' = {}
      /\ pending' = {} /\ todo' = {} /\ still' = {} /\ tele_last' = {}
      /\ fails' = 0 /\ taken' = taken
  BY <1>1 DEF Forgotten, Reset
<1>3. drained = {} /\ matched = {}
  BY <1>t, <1>1 DEF Control
<1>4. Written' = Written
  BY <1>1, <1>2 DEF Written
<1>5. \A x \in Written : x.cap # 0
  BY <1>t, WrittenTyped DEF Captures
<1>6. Minted'
  BY <1>1, <1>2, <1>4, <1>5 DEF RInv, Minted
<1>7. Truth' /\ Tidy' /\ Control'
  BY <1>1, <1>2, <1>4 DEF RInv, Truth, Own, Tidy, Control
<1>8. Placed'
  BY <1>1, <1>2, <1>3, PlacedFrame DEF RInv
<1>9. Resulted'
  <2>1. \A c \in Captures : c # 0
    BY DEF Captures
  <2>2. QED
    BY <1>1, <1>2, <2>1 DEF RInv, Resulted
<1>10. QED
  BY <1>t, <1>1, <1>6, <1>7, <1>8, <1>9, ForgottenFrame DEF RInv

LEMMA ExitKeeps == ASSUME RInv, Exit PROVE RInv'
<1> USE DEF disk, outside, episode, verdicts, futures, telemetry, worker
<1>t. TypeOK /\ TypeOK' /\ Control /\ Counted'
  BY TypeStep, CountedStep DEF RInv, Next
<1>1. status = "exiting" /\ jobs = {} /\ job = {} /\ status' = "down"
  BY DEF Exit
<1>2. UNCHANGED <<inbox, parked, tmps, bundles, submitted, minted, state, cap, rows, snap,
                  snapped, listed, drained, matched, pending, todo, still, tele, tele_last, fails,
                  jobs, job, results, told, lost, pc, intent, ended>>
  BY DEF Exit
<1>3. /\ Minted' /\ Truth' /\ Placed' /\ Resulted' /\ Awaited' /\ Aborted'
  BY <1>2, MintedFrame, TruthFrame, PlacedFrame, ResultedFrame, AwaitedFrame, AbortedFrame
     DEF RInv, Placed, Failing
<1>4. Tidy' /\ Told' /\ Control'
  BY <1>t, <1>1, <1>2 DEF Tidy, Told, Control
<1>5. QED
  BY <1>t, <1>3, <1>4 DEF RInv

\* What the process held of the verdicts is lost, once.
LEMMA KillKeeps == ASSUME RInv, Kill PROVE RInv'
<1> USE DEF disk, outside
<1>t. TypeOK /\ TypeOK' /\ Control /\ Counted'
  BY TypeStep, CountedStep DEF RInv, Next
<1>1. /\ status' = "down" /\ Forgotten /\ jobs' = {} /\ job' = {} /\ results' = results
      /\ lost' = lost \cup drained \cup matched \cup VerdictsOf(jobs \cup job)
  BY DEF Kill
<1>2. /\ UNCHANGED <<inbox, parked, tmps, bundles, submitted, minted, snapped, told>>
      /\ state' = "idle" /\ cap' = 0 /\ rows' = 0 /\ snap' = {} /\ pc' = "wait"
      /\ intent' = "none" /\ listed' = {} /\ drained' = {} /\ matched' = {}
      /\ pending' = {} /\ todo' = {} /\ still' = {} /\ tele_last' = {}
      /\ fails' = 0 /\ taken' = taken
  BY <1>1 DEF Forgotten, Reset
<1>3. Written' = bundles /\ bundles \subseteq Written
  BY <1>1, <1>2 DEF Written
<1>4. \A x \in Written : x.cap # 0
  BY <1>t, WrittenTyped DEF Captures
<1>5. Minted'
  BY <1>1, <1>2, <1>3, <1>4 DEF RInv, Minted
<1>6. Truth' /\ Tidy' /\ Control'
  BY <1>1, <1>2, <1>3 DEF RInv, Truth, Own, Tidy, Control
<1>7. Resulted'
  <2>1. \A c \in Captures : c # 0
    BY DEF Captures
  <2>2. QED
    BY <1>1, <1>2, <2>1 DEF RInv, Resulted
<1>8. Placed'
  <2> DEFINE W == VerdictsOf(jobs \cup job)
  <2>1. Merged' = VerdictsOf(bundles)
    BY <1>3 DEF Merged
  <2>2. Merged = W \cup Merged'
    BY <2>1 DEF Merged, Written, VerdictsOf
  <2>3. ASSUME NEW x \in jobs \cup job, NEW y \in bundles PROVE x.verdict \cap y.verdict = {}
    <3>1. x # y
      BY DEF RInv, Minted
    <3>2. x \in Written /\ y \in Written
      BY DEF Written
    <3>3. QED
      BY <3>1, <3>2 DEF RInv, Placed, Disjoint
  <2>4. W \cap Merged' = {}
    BY <2>1, <2>3 DEF VerdictsOf
  <2> HIDE DEF W
  <2>5. lost' = lost \cup drained \cup matched \cup W
    BY <1>1 DEF W
  <2>6. Everywhere' = Everywhere
    BY <1>2, <2>2, <2>5 DEF Everywhere
  <2>7. Apart'
    BY <1>2, <2>2, <2>4, <2>5 DEF RInv, Placed, Apart
  <2>8. Disjoint'
    BY <1>3 DEF RInv, Placed, Disjoint
  <2>9. QED
    BY <1>2, <2>6, <2>7, <2>8 DEF RInv, Placed
<1>9. QED
  BY <1>t, <1>1, <1>5, <1>6, <1>7, <1>8, ForgottenFrame DEF RInv

\* A new process finds the directories of the old one gone, and its cell blank.
LEMMA RestartKeeps == ASSUME RInv, Restart PROVE RInv'
<1> USE DEF outside, episode, verdicts, futures, worker
<1>t. TypeOK /\ TypeOK' /\ Control /\ Counted'
  BY TypeStep, CountedStep DEF RInv, Next
<1>1. status = "down" /\ status' = "up" /\ tmps' = {} /\ tele' = Blank
  BY DEF Restart, Swept
<1>2. UNCHANGED <<inbox, parked, bundles, submitted, minted, state, cap, rows, snap,
                  snapped, listed, drained, matched, pending, todo, still, tele_last, fails,
                  jobs, job, results, told, lost, pc, intent, ended>>
  BY DEF Restart
<1>3. /\ jobs = {} /\ job = {} /\ state = "idle" /\ pc = "wait" /\ tele_last = {}
      /\ rows = 0 /\ cap = 0
  BY <1>t, <1>1 DEF Control, TypeOK
<1>4. Minted' /\ Truth' /\ Placed' /\ Resulted' /\ Awaited' /\ Aborted'
  BY <1>2, MintedFrame, TruthFrame, PlacedFrame, ResultedFrame, AwaitedFrame, AbortedFrame
     DEF RInv, Placed, Failing
<1>5. Tidy' /\ Control'
  BY <1>t, <1>1, <1>2, <1>3 DEF Tidy, Control
<1>6. Told'
  <2>1. tele'.state = "idle" /\ tele'.rows = 0 /\ tele'.cap = 0
    BY <1>1 DEF Blank
  <2>2. QED
    BY <1>1, <1>2, <1>3, <2>1 DEF Told, Shown
<1>7. QED
  BY <1>t, <1>4, <1>5, <1>6 DEF RInv

LEMMA InvStep == RInv /\ [Next]_vars => RInv'
BY OthersKeep, StartKeeps, StepKeeps, CollectKeeps, ReadKeeps, JudgeKeeps, FinishKeeps,
   TellKeeps, RingKeeps, TakeKeeps, WriteKeeps, CommitKeeps, FailKeeps, TerminateKeeps,
   ExitKeeps, KillKeeps, RestartKeeps
   DEF Next, Reactor, Worker

LEMMA Invariant == Spec => []RInv
BY InvInit, InvStep, PTL DEF Spec

----------------------------------------------------------------------------
(* What follows from it *)

\* Every variable of the recorder keeps its type, for any row cap and any
\* number of captures, verdicts and crashes.
THEOREM RecorderTyped == Spec => []TypeOK
<1>1. RInv => TypeOK
  BY DEF RInv
<1>2. QED
  BY <1>1, Invariant, PTL

\* finalize() and _submit_finalize(): a committed bundle is whole, has exactly
\* the rows recorded under its capture, the context of its own START and no
\* verdict but one that names it.
THEOREM BundlesAreTrue == Spec => []BundlesTrue
<1>1. ASSUME RInv, NEW b \in bundles
      PROVE  /\ b.parts = Parts /\ b.rows = taken[b.cap] /\ b.rows > 0
             /\ snapped[b.cap] = {b.context}
             /\ \A v \in b.verdict : v.cap = b.cap /\ b.verdict = {v}
  <2>1. b \in Written /\ Truth /\ Counted /\ TypeOK
    BY <1>1 DEF Written, RInv
  <2>2. b.rows \in Nat /\ b.rows # 0
    BY <2>1, RowsFact DEF TypeOK, Bundle, Counted
  <2>3. QED
    BY <2>1, <2>2 DEF Truth, Counted, Own
<1>2. RInv => BundlesTrue
  BY <1>1 DEF BundlesTrue
<1>3. QED
  BY <1>2, Invariant, PTL

\* Inbox.drain(), _drain_verdicts() and finalize(): every verdict is in one
\* place, in the inbox, merged once, parked, or lost with a process or with an
\* episode that was not written.
THEOREM VerdictsInOnePlace == Spec => []VerdictsAccounted
<1>1. ASSUME RInv PROVE VerdictsAccounted
  <2>1. /\ Loose[1] = inbox /\ Loose[2] = drained /\ Loose[3] = matched
        /\ Loose[4] = parked /\ Loose[5] = lost
    BY DEF Loose
  <2>2. \A i \in 1..5 : i = 1 \/ i = 2 \/ i = 3 \/ i = 4 \/ i = 5
    OBVIOUS
  <2>3. \A i \in 1..5 : Loose[i] \in {inbox, drained, matched, parked, lost}
    BY <2>1, <2>2
  <2>4. {Loose[i] : i \in 1..5} = {inbox, drained, matched, parked, lost}
    <3>1. \A S \in {inbox, drained, matched, parked, lost} : \E i \in 1..5 : S = Loose[i]
      BY <2>1
    <3>2. QED
      BY <2>3, <3>1
  <2>5. (UNION {Loose[i] : i \in 1..5}) \cup VerdictsOf(Written) = Everywhere
    <3>1. UNION {inbox, drained, matched, parked, lost}
            = inbox \cup drained \cup matched \cup parked \cup lost
      OBVIOUS
    <3>2. QED
      BY <2>4, <3>1 DEF Everywhere, Merged
  <2>6. Apart
    BY <1>1 DEF RInv, Placed
  <2>7. ASSUME NEW i \in 1..5, NEW k \in 1..5, i # k PROVE Loose[i] \cap Loose[k] = {}
    <3>1. CASE i = 1
      BY <2>1, <2>2, <2>6, <2>7, <3>1 DEF Apart
    <3>2. CASE i = 2
      BY <2>1, <2>2, <2>6, <2>7, <3>2 DEF Apart
    <3>3. CASE i = 3
      BY <2>1, <2>2, <2>6, <2>7, <3>3 DEF Apart
    <3>4. CASE i = 4
      BY <2>1, <2>2, <2>6, <2>7, <3>4 DEF Apart
    <3>5. CASE i = 5
      BY <2>1, <2>2, <2>6, <2>7, <3>5 DEF Apart
    <3>6. QED
      BY <2>2, <3>1, <3>2, <3>3, <3>4, <3>5
  <2>8. \A i \in 1..5 : Loose[i] \cap VerdictsOf(Written) = {}
    BY <2>3, <2>6 DEF Apart, Merged
  <2>9. QED
    BY <1>1, <2>5, <2>7, <2>8 DEF RInv, Placed, Disjoint, VerdictsAccounted
<1>2. QED
  BY <1>1, Invariant, PTL

\* _sweep_tmp() and finalize()'s clean-up: while a recorder is up, the only
\* temporary directory is the one being written.
THEOREM OnlyTheWriteInProgress == Spec => []NoOrphans
<1>1. ASSUME RInv, status = "up" PROVE CapsOf(tmps) = CapsOf(job)
  <2>1. CASE job = {}
    BY <1>1, <2>1 DEF RInv, Tidy, CapsOf
  <2>2. CASE job # {}
    <3>1. PICK j \in job : TRUE
      BY <2>2
    <3>2. job = {j}
      BY <1>1 DEF RInv, Minted
    <3>3. PICK parts : tmps = {[cap |-> j.cap, parts |-> parts]}
      BY <1>1 DEF RInv, Tidy
    <3>4. CapsOf(tmps) = {j.cap} /\ CapsOf(job) = {j.cap}
      BY <3>2, <3>3 DEF CapsOf
    <3>5. QED
      BY <3>4
  <2>3. QED
    BY <2>1, <2>2
<1>2. QED
  BY <1>1, Invariant, PTL DEF NoOrphans

\* _telemetry(): between two handlers the cell shows the recorder as it is,
\* after a crash and a restart too, unless the last write of it failed.
THEOREM TelemetryIsCurrent == Spec => []TelemetryCurrent
<1>1. RInv => TelemetryCurrent
  BY DEF RInv, Told, Shown, TelemetryCurrent, At
<1>2. QED
  BY <1>1, Invariant, PTL

----------------------------------------------------------------------------
(* The recorder keeps the promise of Ledger *)

\* What is known of a capture decides its fate.
LEMMA FateOf ==
  ASSUME RInv, NEW c \in Captures
  PROVE  /\ (\E b \in bundles : b.cap = c) => Fate(c) = "kept"
         /\ (\E x \in jobs \cup job : x.cap = c) => Fate(c) = "writing"
         /\ c = cap => Fate(c) = "open"
         /\ (c <= minted /\ c # cap /\ \A x \in Written : x.cap # c) => Fate(c) = "dropped"
         /\ ~ (c <= minted) => Fate(c) = "none"
<1>1. \A x \in Written : x.cap <= minted /\ x.cap # cap
  BY DEF RInv, Minted
<1>2. \A x \in jobs \cup job, b \in bundles : x.cap # b.cap
  BY DEF RInv, Minted
<1>3. cap <= minted
  BY RecorderBounds DEF RInv, TypeOK
<1>4. QED
  BY <1>1, <1>2, <1>3 DEF Fate, CapsOf, Written

LEMMA SameFate ==
  ASSUME UNCHANGED <<bundles, cap, minted>>, jobs' \cup job' = jobs \cup job
  PROVE  \A c \in Captures : Fate(c)' = Fate(c)
BY DEF Fate, CapsOf

LEMMA Stutters ==
  ASSUME \A c \in Captures : Fate(c)' = Fate(c), UNCHANGED told
  PROVE  UNCHANGED Promise!vars
BY DEF Promise!vars

\* One capture changes fate.
LEMMA OneFate ==
  ASSUME NEW c \in Captures, NEW f, Fate(c)' = f,
         \A d \in Captures : d # c => Fate(d)' = Fate(d)
  PROVE  [d \in Captures |-> Fate(d)]' = [[d \in Captures |-> Fate(d)] EXCEPT ![c] = f]
OBVIOUS

LEMMA Drops ==
  ASSUME NEW S \in SUBSET Captures, \A c \in S : Fate(c) \in {"open", "writing"},
         \A c \in Captures : Fate(c)' = IF c \in S THEN "dropped" ELSE Fate(c),
         UNCHANGED told
  PROVE  Promise!Drop
<1> DEFINE F == [d \in Captures |-> Fate(d)]
<1>1. S \in SUBSET {c \in Captures : F[c] \in {"open", "writing"}}
  OBVIOUS
<1>2. F' = [c \in Captures |-> IF c \in S THEN "dropped" ELSE F[c]]
  OBVIOUS
<1>3. QED
  BY <1>1, <1>2 DEF Promise!Drop

\* A ring for a capture that is over and was not rung.
LEMMA Announces ==
  ASSUME NEW c \in Captures, told \in [Captures -> Seq(Rings)], told[c] = <<>>,
         NEW id, told' = [told EXCEPT ![c] = Append(@, id)],
         \/ id = "captured" /\ Fate(c) = "kept"
         \/ id \in {"discarded", "failed"} /\ Fate(c) = "dropped",
         \A d \in Captures : Fate(d)' = Fate(d)
  PROVE  Promise!Announce(c)
<1>1. Append(told[c], id) = <<id>>
  OBVIOUS
<1>2. told' = [told EXCEPT ![c] = <<id>>]
  BY <1>1
<1>3. [d \in Captures |-> Fate(d)]' = [d \in Captures |-> Fate(d)]
  OBVIOUS
<1>4. [d \in Captures |-> Fate(d)][c] = Fate(c)
  OBVIOUS
<1>5. QED
  BY <1>2, <1>3, <1>4 DEF Promise!Announce

LEMMA PromiseInit == Init => Promise!Init
<1> SUFFICES ASSUME Init PROVE Promise!Init
  OBVIOUS
<1>1. \A c \in Captures : Fate(c) = "none"
  <2>1. /\ bundles = {} /\ jobs = {} /\ job = {} /\ cap = 0 /\ minted = 0
    BY DEF Init
  <2>2. QED
    BY <2>1 DEF Fate, CapsOf, Captures
<1>2. told = [c \in Captures |-> <<>>]
  BY DEF Init
<1>3. QED
  BY <1>1, <1>2 DEF Promise!Init

LEMMA StartBegins == ASSUME RInv, RInv', Start PROVE \E c \in Captures : Promise!Begin(c)
<1> DEFINE F == [d \in Captures |-> Fate(d)]
<1>1. /\ state = "idle" /\ cap' = minted + 1 /\ minted' = minted + 1 /\ told' = told
      /\ UNCHANGED <<bundles, jobs, job>> /\ minted < MaxCaptures
  BY DEF Start, disk, worker
<1>2. minted \in Nat /\ minted + 1 \in Captures /\ cap = 0
  BY <1>1, RecorderBounds DEF RInv, TypeOK, Captures
<1>3. PICK c \in Captures : c = minted + 1
  BY <1>2
<1>4. Fate(c) = "none"
  <2>1. ~ (c <= minted)
    BY <1>2, <1>3
  <2>2. QED
    BY <1>2, <2>1, FateOf
<1>5. Fate(c)' = "open"
  <2>1. \A x \in Written : x.cap # c
    <3>1. \A x \in Written' : x.cap # cap'
      BY DEF RInv, Minted
    <3>2. Written' = Written
      BY <1>1 DEF Written
    <3>3. QED
      BY <1>1, <1>3, <3>1, <3>2
  <2>2. c \notin CapsOf(bundles) /\ c \notin CapsOf(jobs \cup job)
    BY <2>1 DEF Written, CapsOf
  <2>3. QED
    BY <1>1, <1>3, <2>2 DEF Fate
<1>6. ASSUME NEW d \in Captures, d # c PROVE Fate(d)' = Fate(d)
  <2>1. d # 0 /\ (d <= minted <=> d <= minted')
    BY <1>1, <1>2, <1>3, <1>6 DEF Captures
  <2>2. QED
    BY <1>1, <1>2, <1>3, <1>6, <2>1 DEF Fate, CapsOf
<1>7. \A d \in Captures : Fate(d) # "open"
  <2>1. \A d \in Captures : d # cap
    BY <1>2 DEF Captures
  <2>2. QED
    BY <2>1 DEF Fate
<1>8. F' = [F EXCEPT ![c] = "open"]
  BY <1>5, <1>6, OneFate
<1>9. F[c] = "none" /\ \A d \in Captures : F[d] # "open"
  BY <1>4, <1>7
<1>10. Promise!Begin(c)
  BY <1>1, <1>8, <1>9 DEF Promise!Begin
<1>11. QED
  BY <1>10

LEMMA CollectAnnounces ==
  ASSUME RInv, CollectOne
  PROVE  UNCHANGED Promise!vars \/ \E c \in Captures : Promise!Announce(c)
<1>1. PICK c \in todo :
        \/ UNCHANGED told
        \/ results[c] # "none" /\ told' = [told EXCEPT ![c] = Append(@, results[c])]
  BY DEF CollectOne, Rung, RungAs
<1>2. \A d \in Captures : Fate(d)' = Fate(d)
  <2>1. UNCHANGED <<bundles, cap, minted, jobs, job>>
    BY DEF CollectOne, Elsewhere, disk, episode, process, worker
  <2>2. QED
    BY <2>1, SameFate
<1>3. CASE UNCHANGED told
  BY <1>2, <1>3, Stutters
<1>4. CASE results[c] # "none" /\ told' = [told EXCEPT ![c] = Append(@, results[c])]
  <2>1. c \in Captures /\ told[c] = <<>> /\ c <= minted /\ c # cap
    BY DEF RInv, TypeOK, Awaited
  <2>2. results[c] = "captured" => Fate(c) = "kept"
    BY <2>1, FateOf DEF RInv, Resulted
  <2>3. results[c] \in {"discarded", "failed"} => Fate(c) = "dropped"
    <3>1. ASSUME results[c] \in {"discarded", "failed"} PROVE \A x \in Written : x.cap # c
      BY <3>1 DEF RInv, Resulted, Written
    <3>2. QED
      BY <2>1, <3>1, FateOf
  <2>4. results[c] \in {"captured", "discarded", "failed"}
    BY <1>4, <2>1 DEF RInv, TypeOK
  <2>5. told \in [Captures -> Seq(Rings)]
    BY DEF RInv, TypeOK
  <2>6. Promise!Announce(c)
    BY <1>2, <1>4, <2>1, <2>2, <2>3, <2>4, <2>5, Announces
  <2>7. QED
    BY <2>1, <2>6
<1>5. QED
  BY <1>1, <1>3, <1>4

LEMMA RingAnnounces ==
  ASSUME RInv, RingFailed PROVE \E c \in Captures : Promise!Announce(c)
<1>1. /\ pc = "ring" /\ told' = [told EXCEPT ![ended] = Append(@, "failed")]
      /\ UNCHANGED <<bundles, cap, minted, jobs, job>>
  BY DEF RingFailed, Rung, At, Elsewhere, disk, episode, process, worker
<1>2. \A d \in Captures : Fate(d)' = Fate(d)
  BY <1>1, SameFate
<1>3. /\ ended \in Captures /\ ended <= minted /\ told[ended] = <<>>
      /\ \A x \in Written : x.cap # ended
  BY <1>1 DEF RInv, Aborted, Failing
<1>4. ended # cap
  BY <1>1, <1>3 DEF RInv, Control, TypeOK, Captures
<1>5. Fate(ended) = "dropped"
  BY <1>3, <1>4, FateOf
<1>6. told \in [Captures -> Seq(Rings)]
  BY DEF RInv, TypeOK
<1>7. Promise!Announce(ended)
  BY <1>1, <1>2, <1>3, <1>5, <1>6, Announces
<1>8. QED
  BY <1>3, <1>7

LEMMA FinishHands ==
  ASSUME RInv, RInv', Finish
  PROVE  Promise!Drop \/ \E c \in Captures : Promise!Hand(c)
<1> DEFINE F == [d \in Captures |-> Fate(d)]
<1>1. /\ pc = "read" /\ cap' = 0 /\ UNCHANGED <<bundles, minted, job, told>>
      /\ \/ \E j : j.cap = cap /\ jobs' = jobs \cup {j}
         \/ jobs' = jobs
  <2>1. [cap |-> cap, rows |-> rows, context |-> ContextOf, verdict |-> matched].cap = cap
    OBVIOUS
  <2>2. QED
    BY <2>1 DEF Finish, Reset, At, disk, process
<1>2. cap \in Captures /\ cap <= minted /\ cap # 0
  <2>1. state = "recording"
    BY <1>1 DEF RInv, Control
  <2>2. QED
    BY <2>1, Recording DEF Captures
<1>3. Fate(cap) = "open"
  BY <1>2, FateOf
<1>4. \A x \in Written : x.cap # cap
  BY DEF RInv, Minted
<1>5. CASE jobs' = jobs
  <2>1. ASSUME NEW d \in Captures PROVE Fate(d)' = IF d \in {cap} THEN "dropped" ELSE Fate(d)
    <3>1. d # 0
      BY DEF Captures
    <3>2. QED
      BY <1>1, <1>2, <1>4, <1>5, <3>1 DEF Fate, CapsOf, Written
  <2>2. {cap} \in SUBSET Captures /\ \A c \in {cap} : Fate(c) \in {"open", "writing"}
    BY <1>2, <1>3
  <2>3. Promise!Drop
    BY <1>1, <2>1, <2>2, Drops
  <2>4. QED
    BY <2>3
<1>6. ASSUME NEW j, j.cap = cap, jobs' = jobs \cup {j}
      PROVE  \E c \in Captures : Promise!Hand(c)
  <2>1. PICK c \in Captures : c = cap
    BY <1>2
  <2>2. c \notin CapsOf(bundles) /\ c \in CapsOf(jobs' \cup job')
    BY <1>4, <1>6, <2>1 DEF Written, CapsOf
  <2>3. Fate(c)' = "writing"
    BY <1>1, <2>2 DEF Fate
  <2>4. ASSUME NEW d \in Captures, d # c PROVE Fate(d)' = Fate(d)
    <3>1. d # 0
      BY DEF Captures
    <3>2. d \in CapsOf(jobs' \cup job') <=> d \in CapsOf(jobs \cup job)
      BY <1>1, <1>6, <2>1, <2>4 DEF CapsOf
    <3>3. QED
      BY <1>1, <2>1, <2>4, <3>1, <3>2 DEF Fate
  <2>5. F' = [F EXCEPT ![c] = "writing"]
    BY <2>3, <2>4, OneFate
  <2>6. F[c] = "open"
    BY <1>3, <2>1
  <2>7. Promise!Hand(c)
    BY <1>1, <2>5, <2>6 DEF Promise!Hand
  <2>8. QED
    BY <2>7
<1>7. QED
  BY <1>1, <1>5, <1>6

\* A job that ends without a bundle drops its capture.
LEMMA JobDrops ==
  ASSUME RInv, NEW j \in jobs \cup job, jobs' \cup job' = (jobs \cup job) \ {j},
         UNCHANGED <<bundles, cap, minted, told>>
  PROVE  Promise!Drop
<1>1. PICK c \in Captures : c = j.cap
  BY WrittenTyped DEF RInv, Written
<1>2. Fate(c) = "writing"
  BY <1>1, FateOf
<1>3. /\ c <= minted /\ c # cap /\ \A b \in bundles : b.cap # c
      /\ \A x \in (jobs \cup job) \ {j} : x.cap # c
  BY <1>1 DEF RInv, Minted, Written
<1>4. c \notin CapsOf(bundles) /\ c \notin CapsOf(jobs' \cup job')
  BY <1>3 DEF CapsOf
<1>5. Fate(c)' = "dropped"
  BY <1>3, <1>4 DEF Fate
<1>6. ASSUME NEW d \in Captures, d # c PROVE Fate(d)' = Fate(d)
  <2>1. d \in CapsOf(jobs' \cup job') <=> d \in CapsOf(jobs \cup job)
    BY <1>1, <1>6 DEF CapsOf
  <2>2. QED
    BY <2>1 DEF Fate
<1>7. \A d \in Captures : Fate(d)' = IF d \in {c} THEN "dropped" ELSE Fate(d)
  BY <1>5, <1>6
<1>8. {c} \in SUBSET Captures /\ \A d \in {c} : Fate(d) \in {"open", "writing"}
  BY <1>2
<1>9. QED
  BY <1>7, <1>8, Drops

LEMMA TakeDrops == ASSUME RInv, TakeJob PROVE Promise!Drop \/ UNCHANGED Promise!vars
<1>1. job = {} /\ UNCHANGED <<bundles, cap, minted, told>>
  BY DEF TakeJob, Working, process, episode
<1>2. PICK j \in jobs : jobs' = jobs \ {j} /\ (job' = job \/ job' = {j})
  BY DEF TakeJob
<1>3. CASE job' = job
  <2>1. jobs' \cup job' = (jobs \cup job) \ {j}
    BY <1>1, <1>2, <1>3
  <2>2. QED
    BY <1>1, <2>1, JobDrops
<1>4. CASE job' = {j}
  <2>1. jobs' \cup job' = jobs \cup job
    BY <1>1, <1>2, <1>4
  <2>2. QED
    BY <1>1, <2>1, SameFate, Stutters
<1>5. QED
  BY <1>2, <1>3, <1>4

LEMMA FailDrops == ASSUME RInv, WriteFails PROVE Promise!Drop
<1>1. UNCHANGED <<bundles, cap, minted, told, jobs>> /\ job' = {}
  BY DEF WriteFails, Working, process, episode
<1>2. PICK j \in job : TRUE
  BY DEF WriteFails
<1>3. job = {j} /\ j \notin jobs
  BY DEF RInv, Minted
<1>4. jobs' \cup job' = (jobs \cup job) \ {j}
  BY <1>1, <1>3
<1>5. QED
  BY <1>1, <1>2, <1>4, JobDrops

LEMMA CommitKept == ASSUME RInv, Commit PROVE \E c \in Captures : Promise!Commit(c)
<1> DEFINE F == [d \in Captures |-> Fate(d)]
<1>1. UNCHANGED <<cap, minted, told, jobs>> /\ job' = {}
  BY DEF Commit, Working, process, episode
<1>0. PICK j \in job : \E b : b.cap = j.cap /\ bundles' = bundles \cup {b}
  <2>1. PICK j \in job, d \in tmps :
          bundles' = bundles \cup {[cap |-> j.cap, parts |-> d.parts, rows |-> RowsOf(j),
                                    context |-> j.context, verdict |-> j.verdict]}
    BY DEF Commit
  <2>2. [cap |-> j.cap, parts |-> d.parts, rows |-> RowsOf(j), context |-> j.context,
         verdict |-> j.verdict].cap = j.cap
    OBVIOUS
  <2>3. QED
    BY <2>1, <2>2
<1>2. PICK b : b.cap = j.cap /\ bundles' = bundles \cup {b}
  BY <1>0
<1>3. job = {j}
  BY DEF RInv, Minted
<1>4. PICK c \in Captures : c = j.cap
  BY WrittenTyped DEF RInv, Written
<1>5. Fate(c) = "writing"
  BY <1>4, FateOf
<1>6. Fate(c)' = "kept"
  BY <1>2, <1>4 DEF Fate, CapsOf
<1>7. ASSUME NEW d \in Captures, d # c PROVE Fate(d)' = Fate(d)
  <2>1. d \in CapsOf(jobs' \cup job') <=> d \in CapsOf(jobs \cup job)
    BY <1>1, <1>3, <1>4, <1>7 DEF CapsOf
  <2>2. d \in CapsOf(bundles') <=> d \in CapsOf(bundles)
    BY <1>2, <1>4, <1>7 DEF CapsOf
  <2>3. QED
    BY <1>1, <2>1, <2>2 DEF Fate
<1>8. F' = [F EXCEPT ![c] = "kept"]
  BY <1>6, <1>7, OneFate
<1>9. F[c] = "writing"
  BY <1>5
<1>10. Promise!Commit(c)
  BY <1>1, <1>8, <1>9 DEF Promise!Commit
<1>11. QED
  BY <1>10

\* A process that ends drops what it was recording and, killed, what it was
\* writing.
LEMMA EndDrops == ASSUME RInv, Terminate \/ TellRaises \/ Kill PROVE Promise!Drop
<1>1. /\ cap' = 0 /\ UNCHANGED <<bundles, minted, told>>
      /\ \/ UNCHANGED <<jobs, job>>
         \/ jobs' = {} /\ job' = {}
  BY DEF Terminate, TellRaises, Kill, Forgotten, Reset, disk, worker
<1>2. \A c \in Captures : c # 0
  BY DEF Captures
<1>3. /\ \A x \in Written : x.cap <= minted /\ x.cap # cap
      /\ cap <= minted
      /\ \A x \in jobs \cup job, b \in bundles : x.cap # b.cap
  BY RecorderBounds DEF RInv, Minted, TypeOK
<1>4. PICK S \in SUBSET Captures :
        S = {c \in Captures : \/ c = cap
                              \/ jobs' = {} /\ job' = {} /\ c \in CapsOf(jobs \cup job)}
  OBVIOUS
<1>5. \A c \in S : Fate(c) \in {"open", "writing"}
  BY <1>4, FateOf DEF CapsOf
<1>6. ASSUME NEW c \in Captures PROVE Fate(c)' = IF c \in S THEN "dropped" ELSE Fate(c)
  <2>1. CASE UNCHANGED <<jobs, job>>
    <3>1. CASE c = cap
      <4>1. \A x \in Written : x.cap # c
        BY <1>3, <3>1
      <4>2. c \notin CapsOf(bundles) /\ c \notin CapsOf(jobs \cup job) /\ c <= minted
        BY <1>3, <3>1, <4>1 DEF CapsOf, Written
      <4>3. QED
        BY <1>1, <1>2, <1>4, <2>1, <3>1, <4>2 DEF Fate
    <3>2. CASE c # cap
      <4>1. c \in S => c \in CapsOf(jobs \cup job) /\ jobs \cup job = {}
        BY <1>4, <2>1, <3>2
      <4>2. c \notin S
        BY <4>1 DEF CapsOf
      <4>3. QED
        BY <1>1, <1>2, <2>1, <3>2, <4>2 DEF Fate
    <3>3. QED
      BY <3>1, <3>2
  <2>2. CASE jobs' = {} /\ job' = {}
    <3>1. c \notin CapsOf(jobs' \cup job')
      BY <2>2 DEF CapsOf
    <3>2. c \in S <=> c = cap \/ c \in CapsOf(jobs \cup job)
      BY <1>4, <2>2
    <3>3. c \in S => c \notin CapsOf(bundles) /\ c <= minted
      BY <1>3, <3>2 DEF CapsOf, Written
    <3>4. QED
      BY <1>1, <1>2, <3>1, <3>2, <3>3 DEF Fate
  <2>3. QED
    BY <1>1, <2>1, <2>2
<1>7. QED
  BY <1>1, <1>5, <1>6, Drops

\* Everything else changes no fate and rings nothing.
LEMMA OthersStutter ==
  ASSUME \/ SubmitVerdict \/ SetContext \/ UNCHANGED vars
         \/ Discard \/ Stop \/ Tick \/ CollectDone \/ TickCapture \/ TickCheck \/ ListInbox
         \/ ReadOne \/ Judge \/ Tell \/ WriteSidecar \/ Exit \/ Restart
  PROVE  UNCHANGED Promise!vars
<1>1. UNCHANGED <<bundles, cap, minted, jobs, job, told>>
  BY DEF SubmitVerdict, SetContext, vars, Discard, Stop, Tick, CollectDone, TickCapture,
         CaptureThen, TickCheck, ListInbox, ReadOne, Judge, Tell, WriteSidecar, Exit, Restart,
         Elsewhere, Working, disk, process, episode, worker
<1>2. QED
  BY <1>1, SameFate, Stutters

\* Every step of the recorder is a step of the ledger, or none.
LEMMA PromiseStep == ASSUME RInv, RInv', [Next]_vars PROVE [Promise!Next]_(Promise!vars)
<1>1. CASE \/ SubmitVerdict \/ SetContext \/ UNCHANGED vars
          \/ Discard \/ Stop \/ Tick \/ CollectDone \/ TickCapture \/ TickCheck \/ ListInbox
          \/ ReadOne \/ Judge \/ Tell \/ WriteSidecar \/ Exit \/ Restart
  BY <1>1, OthersStutter
<1>2. CASE Start
  BY <1>2, StartBegins DEF Promise!Next
<1>3. CASE CollectOne
  BY <1>3, CollectAnnounces DEF Promise!Next
<1>4. CASE Finish
  BY <1>4, FinishHands DEF Promise!Next
<1>5. CASE RingFailed
  BY <1>5, RingAnnounces DEF Promise!Next
<1>6. CASE TakeJob
  BY <1>6, TakeDrops DEF Promise!Next
<1>7. CASE Commit
  BY <1>7, CommitKept DEF Promise!Next
<1>8. CASE WriteFails
  BY <1>8, FailDrops DEF Promise!Next
<1>9. CASE Terminate \/ TellRaises \/ Kill
  BY <1>9, EndDrops DEF Promise!Next
<1>10. QED
  BY <1>1, <1>2, <1>3, <1>4, <1>5, <1>6, <1>7, <1>8, <1>9 DEF Next, Reactor, Worker

\* Every capture a recorder mints is recorded alone, handed over at most once,
\* kept or dropped and never both, and rung at most once and truly.
THEOREM RecorderKeepsPromise == Spec => Implements
<1>1. RInv /\ RInv' /\ [Next]_vars => [Promise!Next]_(Promise!vars)
  BY PromiseStep
<1>2. QED
  BY <1>1, PromiseInit, Invariant, PTL DEF Spec, Implements, Promise!Spec

----------------------------------------------------------------------------
(* What was rung stays true *)

\* A ring says what became of its capture.
RingsTrue ==
  \A c \in Captures :
    \/ told[c] = <<>>
    \/ told[c] = <<"captured">> /\ Fate(c) = "kept"
    \/ told[c] \in {<<"discarded">>, <<"failed">>} /\ Fate(c) = "dropped"

\* A capture that was rung is over: neither its rings nor its fate change.
RungIsOver ==
  \A c \in Captures : told[c] # <<>> => told'[c] = told[c] /\ Fate(c)' = Fate(c)

LEMMA RingsStep ==
  ASSUME RInv, RingsTrue, [Promise!Next]_(Promise!vars)
  PROVE  RingsTrue' /\ RungIsOver
<1> DEFINE F == [c \in Captures |-> Fate(c)]
<1>0. told \in [Captures -> Seq(Rings)]
  BY DEF RInv, TypeOK
<1>a. \A c \in Captures : F[c] = Fate(c) /\ F'[c] = Fate(c)'
  OBVIOUS
<1> HIDE DEF F
<1>b. SUFFICES \A c \in Captures :
                 \/ told'[c] = told[c] /\ F'[c] = F[c]
                 \/ told[c] = <<>> /\ told'[c] = <<>>
                 \/ told[c] = <<>> /\ told'[c] = <<"captured">> /\ F'[c] = "kept"
                 \/ /\ told[c] = <<>> /\ told'[c] \in {<<"discarded">>, <<"failed">>}
                    /\ F'[c] = "dropped"
  BY <1>a DEF RingsTrue, RungIsOver
<1>c. \A c \in Captures : F[c] \in {"none", "open", "writing"} => told[c] = <<>>
  BY <1>a DEF RingsTrue
<1>1. CASE Promise!Drop
  <2>1. PICK S \in SUBSET {c \in Captures : F[c] \in {"open", "writing"}} :
          F' = [c \in Captures |-> IF c \in S THEN "dropped" ELSE F[c]]
    BY <1>1 DEF Promise!Drop, F
  <2>2. QED
    BY <1>1, <1>c, <2>1 DEF Promise!Drop
<1>2. ASSUME NEW c \in Captures, Promise!Begin(c), NEW d \in Captures
      PROVE  (told'[d] = told[d] /\ F'[d] = F[d]) \/ (told[d] = <<>> /\ told'[d] = <<>>)
  <2>1. F[c] = "none" /\ F' = [F EXCEPT ![c] = "open"] /\ told' = told
    BY <1>2 DEF Promise!Begin, F
  <2>2. QED
    BY <1>c, <2>1 DEF F
<1>3. ASSUME NEW c \in Captures, Promise!Hand(c), NEW d \in Captures
      PROVE  (told'[d] = told[d] /\ F'[d] = F[d]) \/ (told[d] = <<>> /\ told'[d] = <<>>)
  <2>1. F[c] = "open" /\ F' = [F EXCEPT ![c] = "writing"] /\ told' = told
    BY <1>3 DEF Promise!Hand, F
  <2>2. QED
    BY <1>c, <2>1 DEF F
<1>4. ASSUME NEW c \in Captures, Promise!Commit(c), NEW d \in Captures
      PROVE  (told'[d] = told[d] /\ F'[d] = F[d]) \/ (told[d] = <<>> /\ told'[d] = <<>>)
  <2>1. F[c] = "writing" /\ F' = [F EXCEPT ![c] = "kept"] /\ told' = told
    BY <1>4 DEF Promise!Commit, F
  <2>2. QED
    BY <1>c, <2>1 DEF F
<1>5. ASSUME NEW c \in Captures, Promise!Announce(c), NEW d \in Captures
      PROVE  \/ told'[d] = told[d] /\ F'[d] = F[d]
             \/ told[d] = <<>> /\ told'[d] = <<"captured">> /\ F'[d] = "kept"
             \/ /\ told[d] = <<>> /\ told'[d] \in {<<"discarded">>, <<"failed">>}
                /\ F'[d] = "dropped"
  <2>1. told[c] = <<>> /\ F' = F
    BY <1>5 DEF Promise!Announce, F
  <2>2. \/ F[c] = "kept" /\ told' = [told EXCEPT ![c] = <<"captured">>]
        \/ /\ F[c] = "dropped"
           /\ \E k \in {"discarded", "failed"} : told' = [told EXCEPT ![c] = <<k>>]
    BY <1>5 DEF Promise!Announce, F
  <2>3. CASE d = c
    BY <1>0, <2>1, <2>2, <2>3
  <2>4. CASE d # c
    BY <1>0, <2>1, <2>2, <2>4
  <2>5. QED
    BY <2>3, <2>4
<1>6. CASE UNCHANGED Promise!vars
  BY <1>6 DEF Promise!vars, F
<1>7. QED
  BY <1>1, <1>2, <1>3, <1>4, <1>5, <1>6 DEF Promise!Next

LEMMA RingsStayTrue == Spec => [](RInv /\ RingsTrue)
<1>1. Init => RingsTrue
  BY DEF Init, RingsTrue
<1>2. RInv /\ RInv' /\ RingsTrue /\ [Next]_vars => RingsTrue'
  BY PromiseStep, RingsStep
<1>3. QED
  BY <1>1, <1>2, Invariant, PTL DEF Spec

\* What the outside was rung about a capture is true, for ever: one ring at
\* most, "captured" of a bundle that is there, anything else of one that will
\* never be (_collect, _abort).
THEOREM RingsTellTheTruth == Spec => []RingsTrue /\ [][RungIsOver]_vars
<1>1. RInv /\ RInv' /\ RingsTrue /\ [Next]_vars => [RungIsOver]_vars
  BY PromiseStep, RingsStep
<1>2. QED
  BY <1>1, RingsStayTrue, Invariant, PTL DEF Spec
=============================================================================
