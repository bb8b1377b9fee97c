--------------------------- MODULE CaptureProofs ---------------------------
(* Theorems about Capture, for every value of its constants. *)
EXTENDS Capture, SequenceTheorems, TLAPS

----------------------------------------------------------------------------
(* Lemmas about the helpers *)

\* Enqueue drops at most the oldest sample and puts the new one last.
LEMMA EnqueueShape ==
  ASSUME NEW S, NEW q \in Seq(S), NEW m \in S, NEW d \in Nat \ {0}
  PROVE  /\ Enqueue(q, m, d) \in Seq(S)
         /\ Len(q) <= d => Len(Enqueue(q, m, d)) <= d
         /\ \E off \in {0, 1} :
              /\ off = 0 <=> Len(q) < d
              /\ Len(Enqueue(q, m, d)) = Len(q) + 1 - off
              /\ Enqueue(q, m, d)[Len(q) + 1 - off] = m
              /\ \A i \in 1..(Len(q) - off) : Enqueue(q, m, d)[i] = q[i + off]
<1>1. CASE Len(q) < d
  <2>1. Enqueue(q, m, d) = Append(q, m)
    BY <1>1 DEF Enqueue
  <2>2. QED
    BY <1>1, <2>1
<1>2. CASE ~(Len(q) < d)
  <2>1. Enqueue(q, m, d) = Append(Tail(q), m)
    BY <1>2 DEF Enqueue
  <2>2. q # <<>> /\ Len(q) >= 1
    BY <1>2
  <2>3. /\ Tail(q) \in Seq(S) /\ Len(Tail(q)) = Len(q) - 1
        /\ \A i \in 1..(Len(q) - 1) : Tail(q)[i] = q[i + 1]
    BY <2>2
  <2>4. /\ Enqueue(q, m, d) \in Seq(S)
        /\ Len(Enqueue(q, m, d)) = Len(q)
        /\ Enqueue(q, m, d)[Len(q)] = m
        /\ \A i \in 1..(Len(q) - 1) : Enqueue(q, m, d)[i] = q[i + 1]
    BY <2>1, <2>2, <2>3
  <2>5. QED
    BY <1>2, <2>4
<1>3. QED
  BY <1>1, <1>2

\* The decimation grid: a frame behind it leaves it alone, and a kept frame
\* moves it past the frame, by no more than one period.
LEMMA GateMoves ==
  ASSUME NEW ts \in Nat, NEW due \in Nat, NEW p \in Nat
  PROVE  /\ Gate(ts, due, p).due \in Nat
         /\ ~Gate(ts, due, p).keep => p > 0 /\ ts < due /\ Gate(ts, due, p).due = due
         /\ Gate(ts, due, p).keep /\ p > 0 =>
              /\ due <= ts
              /\ due + p <= Gate(ts, due, p).due
              /\ ts < Gate(ts, due, p).due
              /\ Gate(ts, due, p).due <= ts + p
BY SMT DEF Gate

\* No queue is deeper than CLOCK_BUFFER, nor empty by construction.
LEMMA DepthPositive == ASSUME NEW t PROVE Depth(t) \in 1..CLOCK_BUFFER
BY SizesAssumption DEF Depth

\* The period snapshotted at START is a number, 0 for the native rate.
LEMMA RecordPeriodTyped == \A asked \in AskedPeriods : RecordPeriod(asked) \in Nat
BY TimeAssumption, SizesAssumption DEF RecordPeriod

\* What the recorder holds of the paired topics are answers it held or drained.
LEMMA MergeAnswers ==
  ASSUME NEW h \in SUBSET Answer, NEW q \in Seq(Answer)
  PROVE  /\ Trim(Merge(h, q)) \in SUBSET Answer
         /\ \A a \in Trim(Merge(h, q)) : a \in h \/ \E i \in DOMAIN q : a = q[i]
<1>1. \A a \in Merge(h, q) : a \in h \/ \E i \in DOMAIN q : a = q[i]
  BY DEF Merge
<1>2. \A i \in DOMAIN q : q[i] \in Answer
  OBVIOUS
<1>3. QED
  BY <1>1, <1>2 DEF Trim

----------------------------------------------------------------------------
(* Type correctness *)

\* A frame that lands makes a row of the right type.
LEMMA RowTyped ==
  ASSUME TypeOK, deferred # <<>>, Matched(cur), FreshAt(cur)
  PROVE  RowOf(cur) \in Row
<1>1. cur \in Frame
  BY DEF TypeOK, cur
<1>2. \A s \in Paired : (CHOOSE a \in AnswersTo(s, cur) : TRUE).seq \in Nat
  <2>1. TAKE s \in Paired
  <2>2. (CHOOSE a \in AnswersTo(s, cur) : TRUE) \in AnswersTo(s, cur)
    BY DEF Matched
  <2>3. AnswersTo(s, cur) \subseteq Answer
    BY DEF AnswersTo, TypeOK
  <2>4. QED
    BY <2>2, <2>3 DEF Answer
<1>3. \A s \in Window : (CHOOSE c \in cache[s] : TRUE) \in Nat
  <2>1. TAKE s \in Window
  <2>2. (CHOOSE c \in cache[s] : TRUE) \in cache[s]
    BY DEF FreshAt
  <2>3. cache[s] \subseteq Nat
    BY DEF TypeOK
  <2>4. QED
    BY <2>2, <2>3
<1>4. QED
  BY <1>1, <1>2, <1>3 DEF RowOf, Row, Frame

\* Every end of a recording resets to well-typed, empty buffers.
LEMMA EndTyped == ASSUME TypeOK, NEW how \in {"handed", "failed", "discarded"},
                         EndRecording(how), UNCHANGED <<env, streams>>
                  PROVE  TypeOK'
BY DEF TypeOK, EndRecording, Forget, env, camera, streams

\* Consuming the head of deferred keeps every type.
LEMMA ConsumeTyped == ASSUME TypeOK, deferred # <<>>, Consume, rows' \in Seq(Row),
                             pc = "frames"
                      PROVE  TypeOK'
<1>1. cur \in Frame /\ Tail(deferred) \in Seq(Frame)
  BY DEF TypeOK, cur
<1>2. Gate(cur.ts, next_due, period).due \in Nat
  BY <1>1, GateMoves DEF TypeOK, Frame
<1>3. QED
  BY <1>1, <1>2 DEF TypeOK, Consume, env, camera, streams, control, Frame

\* Draining the clock moves its queue behind the deferred frames, or changes
\* nothing while the clock has not sent to the recorder.
LEMMA DrainClockCases ==
  ASSUME TypeOK, DrainClock
  PROVE  /\ pc = "clock" /\ pc' = "frames" /\ opened' = opened \cup {Clock} /\ quiet' \in Nat
         /\ UNCHANGED <<env, connected, overflowed, rows, held, cache, grid, state, handler,
                        outcome>>
         /\ DOMAIN queue' = Topics /\ \A t \in Topics \ {Clock} : queue'[t] = queue[t]
         /\ Clock \in connected =>
              deferred' = deferred \o queue[Clock] /\ queue'[Clock] = <<>>
         /\ Clock \notin connected =>
              deferred' = deferred /\ quiet' = quiet /\ queue'[Clock] = queue[Clock]
<1>1. /\ DOMAIN queue = Topics /\ Clock \in Topics /\ quiet \in Nat /\ deferred \in Seq(Frame)
      /\ queue[Clock] \in Seq(Frame)
  BY DEF TypeOK, Topics
<1>2. quiet' \in Nat
  BY <1>1 DEF DrainClock, QuietAfter
<1>3. CASE Clock \in connected
  <2>1. deferred' = deferred \o queue[Clock] /\ queue' = [queue EXCEPT ![Clock] = <<>>]
    BY <1>3 DEF DrainClock, DeferredWith, Arrived, Unread
  <2>2. QED
    BY <1>1, <1>2, <1>3, <2>1 DEF DrainClock
<1>4. CASE Clock \notin connected
  <2>1. Arrived(Clock) = <<>> /\ Unread(Clock) = queue[Clock]
    BY <1>4 DEF Arrived, Unread
  <2>2. deferred' = deferred \o <<>> /\ queue' = [queue EXCEPT ![Clock] = queue[Clock]]
        /\ quiet' = quiet
    BY <2>1 DEF DrainClock, DeferredWith, QuietAfter
  <2>3. deferred \o <<>> = deferred
    BY <1>1
  <2>4. QED
    BY <1>1, <1>2, <1>4, <2>2, <2>3 DEF DrainClock
<1>5. QED
  BY <1>3, <1>4

\* What a read leaves of a queue, all or nothing, has the queue's type.
LEMMA LeftTyped ==
  ASSUME NEW S, NEW q \in Seq(S), NEW r, r = <<>> \/ r = q
  PROVE  r \in Seq(S)
<1>1. CASE r = <<>>
  BY <1>1
<1>2. CASE r = q
  BY <1>2
<1>3. QED
  BY <1>1, <1>2

\* The initial state has its types.
LEMMA TypeInit == Init => TypeOK
BY TimeAssumption, BoundsAssumption DEF Init, TypeOK, Topics

\* Every action keeps the types.
LEMMA TypeStep == TypeOK /\ [Next]_vars => TypeOK'
<1> SUFFICES ASSUME TypeOK, [Next]_vars PROVE TypeOK'
  OBVIOUS
<1>1. CASE PublishClock
  <2> DEFINE q == queue[Clock]
  <2>1. NewFrame \in Frame /\ Clock \in Topics /\ q \in Seq(Frame)
    BY DEF NewFrame, Frame, TypeOK, Topics
  <2>2. Depth(Clock) \in Nat \ {0} /\ Len(q) \in Nat
    BY <2>1, DepthPositive, SizesAssumption
  <2>3. Enqueue(q, NewFrame, Depth(Clock)) \in Seq(Frame)
    BY <2>1, <2>2, EnqueueShape
  <2>4. Len(q) >= Depth(Clock) => Head(q).seq \in Nat
    <3>1. Len(q) >= Depth(Clock) => Head(q) \in Frame
      BY <2>1, <2>2
    <3>2. QED
      BY <3>1 DEF Frame
  <2>5. overflowed' \subseteq Nat
    <3>1. CASE Len(q) < Depth(Clock)
      BY <1>1, <3>1 DEF PublishClock, TypeOK
    <3>2. CASE ~(Len(q) < Depth(Clock))
      <4>1. overflowed' = overflowed \cup {Head(q).seq}
        BY <1>1, <3>2 DEF PublishClock
      <4>2. Head(q).seq \in Nat
        BY <2>2, <2>4, <3>2
      <4>3. QED
        BY <4>1, <4>2 DEF TypeOK
    <3>3. QED
      BY <3>1, <3>2
  <2>6. /\ DOMAIN queue' = Topics
        /\ queue'[Clock] \in Seq(Frame)
        /\ \A s \in Paired \cup Window : queue'[s] = queue[s]
    BY <1>1, <2>1, <2>3, TopicsAssumption DEF PublishClock, Send, TypeOK, Topics
  <2>7. QED
    BY <1>1, <2>5, <2>6 DEF PublishClock, Send, TypeOK, capture, control
<1>2. CASE \E s \in Paired : PublishAnswer(s)
  <2>1. PICK s \in Paired : PublishAnswer(s)
    BY <1>2
  <2>2. PICK n \in (base + 1)..sent :
          /\ answered' = [answered EXCEPT ![s] = n]
          /\ queue' = [queue EXCEPT ![s] =
                          Enqueue(@, [seq |-> n, id |-> n - base], Depth(s))]
    BY <2>1 DEF PublishAnswer, Send
  <2>3. [seq |-> n, id |-> n - base] \in Answer /\ n \in Nat
    BY DEF Answer, TypeOK
  <2>4. Enqueue(queue[s], [seq |-> n, id |-> n - base], Depth(s)) \in Seq(Answer)
    BY <2>3, EnqueueShape, DepthPositive DEF TypeOK
  <2>5. /\ DOMAIN queue' = Topics
        /\ queue'[s] \in Seq(Answer)
        /\ \A t \in Topics \ {s} : queue'[t] = queue[t]
    BY <2>2, <2>4 DEF TypeOK, Topics
  <2>6. answered' \in [Paired -> Nat]
    BY <2>2, <2>3 DEF TypeOK
  <2>7. QED
    BY <2>1, <2>5, <2>6, TopicsAssumption
       DEF PublishAnswer, Send, TypeOK, Topics, camera, capture, control
<1>3. CASE \E s \in Window : PublishWindow(s)
  <2>1. PICK s \in Window : PublishWindow(s)
    BY <1>3
  <2>2. Enqueue(queue[s], wall, Depth(s)) \in Seq(Nat)
    <3>1. queue[s] \in Seq(Nat) /\ wall \in Nat /\ Depth(s) \in Nat \ {0}
      BY DepthPositive, SizesAssumption DEF TypeOK
    <3>2. QED
      BY <3>1, EnqueueShape
  <2>3. /\ DOMAIN queue' = Topics
        /\ queue'[s] \in Seq(Nat)
        /\ \A t \in Topics \ {s} : queue'[t] = queue[t]
    BY <2>1, <2>2 DEF PublishWindow, Send, TypeOK, Topics
  <2>4. QED
    BY <2>1, <2>3, TopicsAssumption
       DEF PublishWindow, Send, TypeOK, Topics, env, camera, capture, control
<1>4. CASE CameraRestart
  <2>1. /\ DOMAIN queue' = Topics /\ queue'[Clock] \in Seq(Frame)
        /\ \A s \in Paired \cup Window : queue'[s] = queue[s]
    BY <1>4, TopicsAssumption DEF CameraRestart, TypeOK, Topics
  <2>2. QED
    BY <1>4, <2>1, BoundsAssumption DEF CameraRestart, TypeOK, capture, control
<1>5. CASE Pass
  BY <1>5, TimeAssumption, BoundsAssumption DEF Pass, camera, TypeOK, streams, grid, control
<1>6. CASE BackStep
  BY <1>6, TimeAssumption, BoundsAssumption DEF BackStep, camera, TypeOK, streams, capture, control
<1>7. CASE Start
  <2>1. period' \in Nat
    BY <1>7, RecordPeriodTyped DEF Start
  <2>2. QED
    BY <1>7, <2>1 DEF Start, TypeOK, Forget, env, camera, streams
<1>8. CASE Discard
  BY <1>8, EndTyped DEF Discard
<1>9. CASE Stop \/ Tick
  BY <1>9 DEF Stop, Tick, Enter, TypeOK, env, camera, streams, capture
<1>10. CASE DrainSources
  <2>0. \A s \in Paired : Arrived(s) \in Seq(Answer)
    BY DEF Arrived, TypeOK
  <2>1. held' \in [Paired -> SUBSET Answer]
    BY <1>10, <2>0, MergeAnswers DEF DrainSources, TypeOK
  <2>2. cache' \in [Window -> SUBSET Nat]
    BY <1>10 DEF DrainSources, Arrived, TypeOK
  <2>3. /\ DOMAIN queue' = Topics
        /\ queue'[Clock] = queue[Clock]
        /\ \A s \in Paired \cup Window : (queue'[s] = <<>> \/ queue'[s] = queue[s])
    BY <1>10, TopicsAssumption DEF DrainSources, Unread, Topics
  <2>4. \A s \in Paired : queue'[s] \in Seq(Answer)
    BY <2>3, LeftTyped DEF TypeOK
  <2>5. \A s \in Window : queue'[s] \in Seq(Nat)
    BY <2>3, LeftTyped DEF TypeOK
  <2>6. queue'[Clock] \in Seq(Frame)
    BY <2>3 DEF TypeOK
  <2>7. opened' \subseteq Topics /\ connected' \subseteq opened'
    BY <1>10 DEF DrainSources, TypeOK, Topics
  <2>8. QED
    BY <1>10, <2>1, <2>2, <2>3, <2>4, <2>5, <2>6, <2>7
       DEF DrainSources, TypeOK, env, camera, grid
<1>11. CASE DrainClock
  <2>1. /\ DOMAIN queue' = Topics
        /\ (queue'[Clock] = <<>> \/ queue'[Clock] = queue[Clock])
        /\ \A s \in Paired \cup Window : queue'[s] = queue[s]
    <3>1. DOMAIN queue = Topics
      BY DEF TypeOK
    <3>2. QED
      BY <1>11, <3>1, DrainClockCases, TopicsAssumption DEF Topics
  <2>2. deferred' \in Seq(Frame) /\ quiet' \in Nat
        /\ (Clock \notin connected => deferred' = deferred)
    <3>1. deferred \in Seq(Frame) /\ queue[Clock] \in Seq(Frame)
      BY DEF TypeOK
    <3>2. deferred \o queue[Clock] \in Seq(Frame)
      BY <3>1
    <3>3. QED
      BY <1>11, <3>1, <3>2, DrainClockCases
  <2>3. /\ pc = "clock" /\ pc' = "frames" /\ opened' = opened \cup {Clock}
        /\ UNCHANGED <<env, connected, overflowed, rows, held, cache, grid, state, handler,
                       outcome>>
    BY <1>11, DrainClockCases
  <2>4. queue'[Clock] \in Seq(Frame)
    BY <2>1, LeftTyped DEF TypeOK
  <2>5. opened' \subseteq Topics /\ connected' \subseteq opened'
    BY <2>3 DEF TypeOK, Topics
  <2>6. /\ \A s \in Paired : queue'[s] \in Seq(Answer)
        /\ \A s \in Window : queue'[s] \in Seq(Nat)
    BY <2>1 DEF TypeOK
  <2>7. QED
    BY <2>1, <2>2, <2>3, <2>4, <2>5, <2>6 DEF TypeOK, env, camera, grid
<1>12. CASE FrameWaits
  BY <1>12, EndTyped DEF FrameWaits, Abort, TypeOK, env, camera, streams, capture
<1>13. CASE FrameFenced
  BY <1>13 DEF FrameFenced, Landing, TypeOK, env, camera, streams, control, grid
<1>14. CASE FrameBackwards
  BY <1>14, EndTyped DEF FrameBackwards, Abort
<1>15. CASE FrameGated
  <2>1. rows' \in Seq(Row)
    BY <1>15 DEF FrameGated, TypeOK
  <2>2. QED
    BY <1>15, <2>1, ConsumeTyped DEF FrameGated, InSequence, Landing
<1>16. CASE FrameStale
  <2>1. CASE rows = <<>>
    <3>1. rows' \in Seq(Row)
      BY <1>16, <2>1 DEF FrameStale, TypeOK
    <3>2. QED
      BY <1>16, <2>1, <3>1, ConsumeTyped DEF FrameStale, InSequence, Landing
  <2>2. CASE rows # <<>>
    BY <1>16, <2>2, EndTyped DEF FrameStale, Abort
  <2>3. QED
    BY <2>1, <2>2
<1>17. CASE FrameRow
  <2>1. RowOf(cur) \in Row
    BY <1>17, RowTyped DEF FrameRow, InSequence, Landing
  <2>2. rows' \in Seq(Row)
    BY <1>17, <2>1 DEF FrameRow, TypeOK
  <2>3. QED
    BY <1>17, <2>2, ConsumeTyped DEF FrameRow, InSequence, Landing
<1>18. CASE FramesDone
  BY <1>18 DEF FramesDone, TypeOK, env, camera, streams, capture
<1>19. CASE AfterStop
  BY <1>19, EndTyped DEF AfterStop, SubmitFinalize
<1>20. CASE AfterTick
  BY <1>20, EndTyped DEF AfterTick, SubmitFinalize, Abort, TypeOK, env, camera, streams, capture
<1>21. CASE UNCHANGED vars
  BY <1>21 DEF vars, env, camera, streams, capture, control, TypeOK
<1>22. QED
  BY <1>1, <1>2, <1>3, <1>4, <1>5, <1>6, <1>7, <1>8, <1>9, <1>10, <1>11, <1>12, <1>13,
     <1>14, <1>15, <1>16, <1>17, <1>18, <1>19, <1>20, <1>21
     DEF Next, Environment, HandlerStep

\* Every variable keeps its type, and an idle recorder holds nothing of the
\* last episode.
THEOREM TypeCorrect == Spec => []TypeOK
BY TypeInit, TypeStep, PTL DEF Spec

----------------------------------------------------------------------------
(* The buffers *)

\* BuffersBounded, and what makes it inductive: the slack a burst may use is
\* whole when _capture() begins, and the deferred frames fit again when it ends.
BInv ==
  /\ BuffersBounded
  /\ pc \in {"sources", "clock"} => Len(deferred) <= CLOCK_BUFFER /\ Len(rows) < MAX_FRAMES
  /\ pc = "after" => Len(deferred) <= CLOCK_BUFFER

\* Every end of a recording leaves the bounds intact.
LEMMA EndBounded == ASSUME NEW how, EndRecording(how), UNCHANGED queue, BInv
                    PROVE  BInv'
BY SizesAssumption DEF BInv, BuffersBounded, EndRecording, Forget

\* A frame that leaves deferred adds at most one row in its place.
LEMMA ConsumeBounded ==
  ASSUME TypeOK, BInv, InSequence, Consume,
         rows' = rows \/ rows' = Append(rows, RowOf(cur)), RowOf(cur) \in Row \/ rows' = rows
  PROVE  BInv'
<1>1. /\ Len(deferred') = Len(deferred) - 1 /\ Len(deferred) \in Nat /\ Len(deferred) > 0
      /\ Len(rows) \in Nat
  BY DEF InSequence, Landing, Consume, TypeOK
<1>2. Len(rows') \in Nat /\ Len(rows') <= Len(rows) + 1
  BY DEF TypeOK
<1>3. QED
  BY <1>1, <1>2, SizesAssumption
     DEF BInv, BuffersBounded, Consume, InSequence, Landing, streams, control

\* Every action keeps the strengthened bounds.
LEMMA BoundsStep == TypeOK /\ BInv /\ [Next]_vars => BInv'
<1> SUFFICES ASSUME TypeOK, BInv, [Next]_vars PROVE BInv'
  OBVIOUS
<1> USE SizesAssumption
<1>1. CASE PublishClock
  <2>1. queue[Clock] \in Seq(Frame) /\ NewFrame \in Frame /\ Clock \in DOMAIN queue
    BY DEF NewFrame, Frame, TypeOK, Topics
  <2>2. Depth(Clock) \in Nat \ {0} /\ Depth(Clock) <= CLOCK_BUFFER
    BY DepthPositive
  <2>3. Len(Enqueue(queue[Clock], NewFrame, Depth(Clock))) <= CLOCK_BUFFER
    <3>1. Len(queue[Clock]) \in Nat /\ Len(queue[Clock]) <= CLOCK_BUFFER
      BY <2>1 DEF BInv, BuffersBounded
    <3>2. PICK off \in {0, 1} :
            /\ off = 0 <=> Len(queue[Clock]) < Depth(Clock)
            /\ Len(Enqueue(queue[Clock], NewFrame, Depth(Clock))) = Len(queue[Clock]) + 1 - off
      BY <2>1, <2>2, EnqueueShape
    <3>3. QED
      BY <2>2, <3>1, <3>2
  <2>4. Len(queue'[Clock]) <= CLOCK_BUFFER
    BY <1>1, <2>1, <2>3 DEF PublishClock, Send
  <2>5. QED
    BY <1>1, <2>4 DEF PublishClock, BInv, BuffersBounded, capture, control
<1>2. CASE \E s \in Paired : PublishAnswer(s)
  BY <1>2, TopicsAssumption DEF PublishAnswer, Send, BInv, BuffersBounded, capture, control
<1>3. CASE \E s \in Window : PublishWindow(s)
  BY <1>3, TopicsAssumption DEF PublishWindow, Send, BInv, BuffersBounded, capture, control
<1>4. CASE CameraRestart \/ BackStep
  <2>1. (queue'[Clock] = <<>> \/ queue'[Clock] = queue[Clock])
    BY <1>4 DEF CameraRestart, BackStep, streams, TypeOK, Topics
  <2>2. UNCHANGED <<pc, deferred, rows>>
    BY <1>4 DEF CameraRestart, BackStep, capture, control
  <2>3. QED
    BY <2>1, <2>2 DEF BInv, BuffersBounded
<1>5. CASE Pass
  BY <1>5 DEF Pass, BInv, BuffersBounded, streams, control
<1>6. CASE Start
  BY <1>6 DEF Start, BInv, BuffersBounded, Forget, streams
<1>7. CASE Discard
  BY <1>7, EndBounded DEF Discard, streams
<1>8. CASE Stop \/ Tick
  BY <1>8 DEF Stop, Tick, Enter, BInv, BuffersBounded, streams, capture
<1>9. CASE DrainSources
  <2>1. queue'[Clock] = queue[Clock]
    BY <1>9 DEF DrainSources, Topics
  <2>2. QED
    BY <1>9, <2>1 DEF DrainSources, BInv, BuffersBounded
<1>10. CASE DrainClock
  <2>1. Len(deferred) \in Nat /\ Len(rows) \in Nat /\ Len(queue[Clock]) \in Nat
        /\ Len(deferred \o queue[Clock]) = Len(deferred) + Len(queue[Clock])
    BY DEF TypeOK
  <2>2. /\ pc = "clock" /\ pc' = "frames" /\ rows' = rows
        /\ \/ deferred' = deferred \o queue[Clock] /\ queue'[Clock] = <<>>
           \/ deferred' = deferred /\ queue'[Clock] = queue[Clock]
    BY <1>10, DrainClockCases
  <2>3. QED
    BY <2>1, <2>2 DEF BInv, BuffersBounded
<1>11. CASE FrameWaits
  <2>1. CASE Len(deferred) > CLOCK_BUFFER
    BY <1>11, <2>1, EndBounded DEF FrameWaits, Abort, streams
  <2>2. CASE ~(Len(deferred) > CLOCK_BUFFER)
    <3>1. Len(deferred) \in Nat
      BY DEF TypeOK
    <3>2. QED
      BY <1>11, <2>2, <3>1 DEF FrameWaits, BInv, BuffersBounded, streams, capture
  <2>3. QED
    BY <2>1, <2>2
<1>12. CASE FrameFenced
  <2>1. /\ Len(deferred') = Len(deferred) - 1 /\ Len(deferred) \in Nat
        /\ Len(rows) \in Nat
    BY <1>12 DEF FrameFenced, Landing, TypeOK
  <2>2. QED
    BY <1>12, <2>1 DEF FrameFenced, Landing, BInv, BuffersBounded, streams, control
<1>13. CASE FrameBackwards
  BY <1>13, EndBounded DEF FrameBackwards, Abort, streams
<1>14. CASE FrameGated
  BY <1>14, ConsumeBounded DEF FrameGated
<1>15. CASE FrameStale
  <2>1. CASE rows = <<>>
    BY <1>15, <2>1, ConsumeBounded DEF FrameStale
  <2>2. CASE rows # <<>>
    BY <1>15, <2>2, EndBounded DEF FrameStale, Abort, streams
  <2>3. QED
    BY <2>1, <2>2
<1>16. CASE FrameRow
  <2>1. RowOf(cur) \in Row
    BY <1>16, RowTyped DEF FrameRow, InSequence, Landing
  <2>2. QED
    BY <1>16, <2>1, ConsumeBounded DEF FrameRow
<1>17. CASE FramesDone
  BY <1>17 DEF FramesDone, BInv, BuffersBounded, streams, capture
<1>18. CASE AfterStop
  BY <1>18, EndBounded DEF AfterStop, SubmitFinalize, streams
<1>19. CASE AfterTick
  <2>1. CASE Abort \/ SubmitFinalize
    BY <2>1, EndBounded DEF SubmitFinalize, Abort, streams
  <2>2. CASE ~(Abort \/ SubmitFinalize)
    <3>1. Len(rows) \in Nat
      BY DEF TypeOK
    <3>2. QED
      BY <1>19, <2>2, <3>1 DEF AfterTick, Full, BInv, BuffersBounded, streams, capture
  <2>3. QED
    BY <2>1, <2>2
<1>20. CASE UNCHANGED vars
  BY <1>20 DEF vars, streams, capture, control, BInv, BuffersBounded
<1>21. QED
  BY <1>1, <1>2, <1>3, <1>4, <1>5, <1>6, <1>7, <1>8, <1>9, <1>10, <1>11, <1>12, <1>13,
     <1>14, <1>15, <1>16, <1>17, <1>18, <1>19, <1>20
     DEF Next, Environment, HandlerStep

\* For every buffer size and row cap: no burst makes a queue, the deferred
\* frames or the episode grow past what BuffersBounded allows.
THEOREM BuffersStayBounded == Spec => []BuffersBounded
<1>1. Init => BInv
  BY SizesAssumption DEF Init, BInv, BuffersBounded, Topics
<1>2. BInv => BuffersBounded
  BY DEF BInv
<1>3. QED
  BY <1>1, <1>2, TypeCorrect, BoundsStep, PTL DEF Spec

----------------------------------------------------------------------------
(* The order of rows *)

\* Frames pass from the clock's queue through deferred into rows: each of the
\* three ascends, and each is ahead of the ones behind it in the pipeline.
Ascending(q) == \A i, j \in DOMAIN q : i < j => q[i].seq < q[j].seq
Before(p, q) == \A i \in DOMAIN p : \A j \in DOMAIN q : p[i].seq < q[j].seq
UpTo(q, n) == \A i \in DOMAIN q : q[i].seq <= n

OInv ==
  /\ Ascending(deferred) /\ Ascending(queue[Clock])
  /\ Before(rows, deferred) /\ Before(rows, queue[Clock]) /\ Before(deferred, queue[Clock])
  /\ UpTo(rows, sent) /\ UpTo(deferred, sent) /\ UpTo(queue[Clock], sent)
  /\ RowsInOrder
  /\ \A i \in DOMAIN rows : rows[i].ts <= last_ts

\* The tail of an ascending queue is ascending.
LEMMA TailOrder ==
  ASSUME NEW q \in Seq(Frame), q # <<>>, Ascending(q)
  PROVE  /\ Tail(q) \in Seq(Frame) /\ Ascending(Tail(q))
         /\ \A i \in DOMAIN Tail(q) : Head(q).seq < Tail(q)[i].seq
         /\ \A i \in DOMAIN Tail(q) : \E j \in DOMAIN q : Tail(q)[i] = q[j]
         /\ \E j \in DOMAIN q : Head(q) = q[j]
<1>1. /\ Tail(q) \in Seq(Frame) /\ Len(Tail(q)) = Len(q) - 1 /\ Len(q) \in Nat /\ Len(q) > 0
      /\ \A i \in 1..(Len(q) - 1) : Tail(q)[i] = q[i + 1]
      /\ Head(q) = q[1] /\ DOMAIN q = 1..Len(q) /\ DOMAIN Tail(q) = 1..(Len(q) - 1)
  OBVIOUS
<1>2. Ascending(Tail(q))
  BY <1>1 DEF Ascending
<1>3. \A i \in DOMAIN Tail(q) : Head(q).seq < Tail(q)[i].seq
  BY <1>1 DEF Ascending
<1>4. QED
  BY <1>1, <1>2, <1>3

\* Two ascending queues, one before the other, join into one.
LEMMA ConcatOrder ==
  ASSUME NEW p \in Seq(Frame), NEW q \in Seq(Frame),
         Ascending(p), Ascending(q), Before(p, q)
  PROVE  /\ Ascending(p \o q)
         /\ \A i \in DOMAIN (p \o q) : \/ \E j \in DOMAIN p : (p \o q)[i] = p[j]
                                      \/ \E j \in DOMAIN q : (p \o q)[i] = q[j]
<1> DEFINE r == p \o q
<1>1. /\ Len(r) = Len(p) + Len(q) /\ DOMAIN r = 1..(Len(p) + Len(q))
      /\ Len(p) \in Nat /\ Len(q) \in Nat /\ DOMAIN p = 1..Len(p) /\ DOMAIN q = 1..Len(q)
      /\ \A i \in 1..Len(p) : r[i] = p[i]
      /\ \A i \in (Len(p) + 1)..(Len(p) + Len(q)) : r[i] = q[i - Len(p)]
  OBVIOUS
<1>2. ASSUME NEW i \in DOMAIN r, NEW j \in DOMAIN r, i < j
      PROVE  r[i].seq < r[j].seq
  <2>1. CASE j <= Len(p)
    BY <1>1, <1>2, <2>1 DEF Ascending
  <2>2. CASE i > Len(p)
    <3>1. i - Len(p) \in DOMAIN q /\ j - Len(p) \in DOMAIN q /\ i - Len(p) < j - Len(p)
      BY <1>1, <1>2, <2>2
    <3>2. QED
      BY <1>1, <1>2, <2>2, <3>1 DEF Ascending
  <2>3. CASE i <= Len(p) /\ j > Len(p)
    <3>1. i \in DOMAIN p /\ j - Len(p) \in DOMAIN q
      BY <1>1, <1>2, <2>3
    <3>2. QED
      BY <1>1, <1>2, <2>3, <3>1 DEF Before
  <2>4. QED
    BY <1>1, <2>1, <2>2, <2>3
<1>3. Ascending(r)
  BY <1>2 DEF Ascending
<1>4. \A i \in DOMAIN r : \/ \E j \in DOMAIN p : r[i] = p[j]
                         \/ \E j \in DOMAIN q : r[i] = q[j]
  <2>1. TAKE i \in DOMAIN r
  <2>2. CASE i <= Len(p)
    BY <1>1, <2>2
  <2>3. CASE i > Len(p)
    <3>1. i - Len(p) \in DOMAIN q
      BY <1>1, <2>3
    <3>2. QED
      BY <1>1, <2>3, <3>1
  <2>4. QED
    BY <1>1, <2>2, <2>3
<1>5. QED
  BY <1>3, <1>4

\* What Enqueue makes of a queue, as EnqueueShape has it.
Shape(q, m, d) ==
  \E off \in {0, 1} :
    /\ off = 0 <=> Len(q) < d
    /\ Len(Enqueue(q, m, d)) = Len(q) + 1 - off
    /\ Enqueue(q, m, d)[Len(q) + 1 - off] = m
    /\ \A i \in 1..(Len(q) - off) : Enqueue(q, m, d)[i] = q[i + off]

\* A queue of frames has it too.
LEMMA FramesShape ==
  ASSUME NEW q \in Seq(Frame), NEW m \in Frame, NEW d \in Nat \ {0} PROVE Shape(q, m, d)
<1>1. \E off \in {0, 1} :
        /\ off = 0 <=> Len(q) < d
        /\ Len(Enqueue(q, m, d)) = Len(q) + 1 - off
        /\ Enqueue(q, m, d)[Len(q) + 1 - off] = m
        /\ \A i \in 1..(Len(q) - off) : Enqueue(q, m, d)[i] = q[i + off]
  BY EnqueueShape
<1>2. QED
  BY <1>1, Zenon DEF Shape

\* A new frame keeps the clock's queue ascending and ahead of nothing.
LEMMA EnqueueOrder ==
  ASSUME NEW q \in Seq(Frame), NEW m \in Frame, NEW d \in Nat \ {0}, NEW n \in Nat,
         Ascending(q), UpTo(q, n), m.seq = n + 1
  PROVE  /\ Ascending(Enqueue(q, m, d))
         /\ UpTo(Enqueue(q, m, d), n + 1)
         /\ \A i \in DOMAIN Enqueue(q, m, d) :
              \/ Enqueue(q, m, d)[i] = m
              \/ \E j \in DOMAIN q : Enqueue(q, m, d)[i] = q[j]
<1> DEFINE r == Enqueue(q, m, d)
<1>0. \E off \in {0, 1} :
        /\ off = 0 <=> Len(q) < d
        /\ Len(Enqueue(q, m, d)) = Len(q) + 1 - off
        /\ Enqueue(q, m, d)[Len(q) + 1 - off] = m
        /\ \A i \in 1..(Len(q) - off) : Enqueue(q, m, d)[i] = q[i + off]
  <2> HIDE DEF r
  <2>1. q \in Seq(Frame) /\ m \in Frame /\ d \in Nat \ {0}
    OBVIOUS
  <2>2. Shape(q, m, d)
    BY <2>1, FramesShape
  <2>3. QED
    BY <2>2 DEF Shape
<1>1. PICK off \in {0, 1} :
        /\ off = 0 <=> Len(q) < d
        /\ Len(r) = Len(q) + 1 - off
        /\ r[Len(q) + 1 - off] = m
        /\ \A i \in 1..(Len(q) - off) : r[i] = q[i + off]
  BY <1>0
<1>2. r \in Seq(Frame)
  <2>1. q \in Seq(Frame) /\ m \in Frame /\ d \in Nat \ {0}
    OBVIOUS
  <2> HIDE DEF r
  <2>2. \A S : \A q_ \in Seq(S) : \A m_ \in S : \A d_ \in Nat \ {0} : Enqueue(q_, m_, d_) \in Seq(S)
    BY EnqueueShape
  <2>3. \A q_ \in Seq(Frame) : \A m_ \in Frame : \A d_ \in Nat \ {0} :
          Enqueue(q_, m_, d_) \in Seq(Frame)
    BY <2>2, Zenon
  <2>4. Enqueue(q, m, d) \in Seq(Frame)
    BY <2>1, <2>3, Zenon
  <2>5. QED
    BY <2>4 DEF r
<1> HIDE DEF r
<1>3. /\ DOMAIN r = 1..(Len(q) + 1 - off) /\ Len(q) \in Nat /\ DOMAIN q = 1..Len(q)
      /\ \A i \in DOMAIN q : q[i] \in Frame
  <2>1. DOMAIN r = 1..Len(r)
    BY <1>2, LenProperties
  <2>2. DOMAIN q = 1..Len(q) /\ Len(q) \in Nat /\ \A i \in DOMAIN q : q[i] \in Frame
    BY LenProperties
  <2>3. QED
    BY <1>1, <2>1, <2>2
<1>4. \A i \in DOMAIN r : r[i] = m \/ \E j \in DOMAIN q : r[i] = q[j]
  <2>1. TAKE i \in DOMAIN r
  <2>2. CASE i = Len(q) + 1 - off
    BY <1>1, <2>2
  <2>3. CASE i # Len(q) + 1 - off
    <3>1. i \in 1..(Len(q) - off)
      BY <1>3, <2>3
    <3>2. i + off \in DOMAIN q
      BY <1>3, <3>1
    <3>3. QED
      BY <1>1, <3>1, <3>2
  <2>4. QED
    BY <2>2, <2>3
<1>5. ASSUME NEW i \in DOMAIN r, NEW j \in DOMAIN r, i < j
      PROVE  r[i].seq < r[j].seq
  <2>1. i \in 1..(Len(q) - off) /\ i + off \in DOMAIN q /\ r[i] = q[i + off]
    BY <1>1, <1>3, <1>5, SMTT(30)
  <2>2. CASE j = Len(q) + 1 - off
    <3>1. r[j] = m /\ q[i + off].seq <= n /\ q[i + off].seq \in Nat
      BY <1>1, <1>3, <2>1, <2>2 DEF UpTo, Frame
    <3>2. QED
      BY <2>1, <3>1
  <2>3. CASE j # Len(q) + 1 - off
    <3>0. j \in 1..(Len(q) - off)
      BY <1>3, <2>3
    <3>1. j + off \in DOMAIN q /\ r[j] = q[j + off]
      BY <1>1, <1>3, <3>0, SMTT(30)
    <3>2. i + off < j + off
      BY <1>3, <1>5, <2>1, <3>1
    <3>3. QED
      BY <2>1, <3>1, <3>2 DEF Ascending
  <2>4. QED
    BY <2>2, <2>3
<1>6. UpTo(r, n + 1)
  <2>1. SUFFICES ASSUME NEW i \in DOMAIN r PROVE r[i].seq <= n + 1
    BY DEF UpTo
  <2>2. CASE r[i] = m
    BY <2>2
  <2>3. CASE \E j \in DOMAIN q : r[i] = q[j]
    <3>1. PICK j \in DOMAIN q : r[i] = q[j]
      BY <2>3
    <3>2. q[j].seq \in Nat /\ q[j].seq <= n
      BY <1>3 DEF UpTo, Frame
    <3>3. QED
      BY <3>1, <3>2
  <2>4. QED
    BY <1>4, <2>2, <2>3
<1>7. QED
  BY <1>4, <1>5, <1>6 DEF Ascending, r

\* The elements of the queues are frames and rows.
LEMMA ElementsTyped ==
  ASSUME TypeOK
  PROVE  /\ \A i \in DOMAIN rows : rows[i].seq \in Nat /\ rows[i].ts \in Nat
         /\ \A i \in DOMAIN deferred : deferred[i].seq \in Nat /\ deferred[i].ts \in Nat
         /\ \A i \in DOMAIN queue[Clock] :
              queue[Clock][i].seq \in Nat /\ queue[Clock][i].ts \in Nat
         /\ deferred # <<>> => cur.seq \in Nat /\ cur.ts \in Nat
<1>1. /\ \A i \in DOMAIN rows : rows[i] \in Row
      /\ \A i \in DOMAIN deferred : deferred[i] \in Frame
      /\ \A i \in DOMAIN queue[Clock] : queue[Clock][i] \in Frame
      /\ deferred # <<>> => cur \in Frame
  BY DEF TypeOK, cur
<1>2. QED
  BY <1>1 DEF Row, Frame

\* The order is kept by a step that leaves the pipeline alone.
LEMMA OrderKept ==
  ASSUME OInv, UNCHANGED <<rows, deferred, sent, last_ts, t0>>, queue'[Clock] = queue[Clock]
  PROVE  OInv'
BY DEF OInv, Ascending, Before, UpTo, RowsInOrder

\* The order holds of an empty pipeline.
LEMMA OrderForgotten ==
  ASSUME OInv, Forget, UNCHANGED <<sent, queue>>
  PROVE  OInv'
BY DEF OInv, Ascending, Before, UpTo, RowsInOrder, Forget

\* A frame leaves deferred without becoming a row.
LEMMA OrderTail ==
  ASSUME TypeOK, OInv, deferred # <<>>, deferred' = Tail(deferred),
         UNCHANGED <<rows, sent, t0, queue>>, last_ts' \in Nat, last_ts <= last_ts'
  PROVE  OInv'
<1>1. deferred \in Seq(Frame) /\ Ascending(deferred)
  BY DEF TypeOK, OInv
<1>2. /\ Ascending(deferred')
      /\ \A i \in DOMAIN deferred' : \E j \in DOMAIN deferred : deferred'[i] = deferred[j]
  BY <1>1, TailOrder
<1>3. Before(rows, deferred') /\ Before(deferred', queue[Clock]) /\ UpTo(deferred', sent)
  BY <1>2 DEF OInv, Before, UpTo
<1>4. \A i \in DOMAIN rows : rows[i].ts <= last_ts'
  <2>1. \A i \in DOMAIN rows : rows[i].ts \in Nat
    BY ElementsTyped
  <2>2. QED
    BY <2>1, SMTT(30) DEF OInv, TypeOK
<1>5. QED
  BY <1>2, <1>3, <1>4 DEF OInv, Ascending, Before, UpTo, RowsInOrder

\* The head of deferred becomes the last row.
LEMMA OrderRow ==
  ASSUME TypeOK, OInv, FrameRow
  PROVE  OInv'
<1> DEFINE row == RowOf(cur)
<1>1. /\ deferred # <<>> /\ cur.ts >= t0 /\ cur.ts >= last_ts
      /\ deferred' = Tail(deferred) /\ last_ts' = cur.ts
      /\ UNCHANGED <<sent, t0, queue>>
      /\ rows' = Append(rows, row)
  BY DEF FrameRow, InSequence, Landing, Consume, env, camera, streams
<1>2. row \in Row /\ row.seq = cur.seq /\ row.ts = cur.ts
  BY RowTyped DEF FrameRow, InSequence, Landing, RowOf
<1> HIDE DEF row
<1>3. deferred \in Seq(Frame) /\ Ascending(deferred) /\ rows \in Seq(Row) /\ cur = Head(deferred)
  BY DEF TypeOK, OInv, cur
<1>4. /\ Tail(deferred) \in Seq(Frame) /\ Ascending(Tail(deferred))
      /\ \A i \in DOMAIN Tail(deferred) : cur.seq < Tail(deferred)[i].seq
      /\ \A i \in DOMAIN Tail(deferred) : \E j \in DOMAIN deferred : Tail(deferred)[i] = deferred[j]
      /\ \E j \in DOMAIN deferred : cur = deferred[j]
  BY <1>1, <1>3, TailOrder
<1>5. /\ DOMAIN rows' = 1..(Len(rows) + 1) /\ DOMAIN rows = 1..Len(rows) /\ Len(rows) \in Nat
      /\ rows'[Len(rows) + 1] = row
      /\ \A i \in DOMAIN rows : rows'[i] = rows[i] /\ rows[i] \in Row
  BY <1>1, <1>2, <1>3
<1>6. /\ \A i \in DOMAIN rows : rows[i].seq < row.seq
      /\ row.seq <= sent
      /\ \A i \in DOMAIN queue[Clock] : row.seq < queue[Clock][i].seq
  BY <1>2, <1>4 DEF OInv, Before, UpTo
<1>7. \A i \in DOMAIN rows : rows[i].ts \in Nat /\ rows[i].ts <= row.ts /\ rows[i].ts >= t0
  <2>1. cur.ts \in Nat /\ \A i \in DOMAIN rows : rows[i].ts \in Nat
    BY <1>1, ElementsTyped
  <2>2. last_ts \in Nat /\ t0 \in Nat
    BY DEF TypeOK
  <2>3. \A i \in DOMAIN rows : rows[i].ts <= last_ts /\ rows[i].ts >= t0
    BY DEF OInv, RowsInOrder
  <2>4. QED
    BY <1>1, <1>2, <2>1, <2>2, <2>3
<1>8. \A i \in DOMAIN rows' : i = Len(rows) + 1 \/ i \in DOMAIN rows
  BY <1>5
<1>9. RowsInOrder'
  <2> SUFFICES ASSUME NEW i \in DOMAIN rows', NEW j \in DOMAIN rows'
               PROVE  /\ rows'[i].ts >= t0'
                      /\ i < j => rows'[i].seq < rows'[j].seq /\ rows'[i].ts <= rows'[j].ts
    BY DEF RowsInOrder
  <2>1. rows'[i].ts >= t0'
    BY <1>1, <1>2, <1>5, <1>7, <1>8
  <2>2. ASSUME i < j PROVE rows'[i].seq < rows'[j].seq /\ rows'[i].ts <= rows'[j].ts
    <3>1. i \in DOMAIN rows
      BY <1>5, <2>2
    <3>2. CASE j \in DOMAIN rows
      BY <1>5, <2>2, <3>1, <3>2 DEF OInv, RowsInOrder
    <3>3. CASE j = Len(rows) + 1
      BY <1>5, <1>6, <1>7, <3>1, <3>3
    <3>4. QED
      BY <1>8, <3>2, <3>3
  <2>3. QED
    BY <2>1, <2>2
<1>10. Before(rows', deferred') /\ Before(rows', queue[Clock]) /\ UpTo(rows', sent)
  <2>1. \A i \in DOMAIN rows' : \A j \in DOMAIN deferred' : rows'[i].seq < deferred'[j].seq
    BY <1>1, <1>2, <1>4, <1>5, <1>8 DEF OInv, Before
  <2>2. \A i \in DOMAIN rows' : \A j \in DOMAIN queue[Clock] : rows'[i].seq < queue[Clock][j].seq
    BY <1>5, <1>6, <1>8 DEF OInv, Before
  <2>3. \A i \in DOMAIN rows' : rows'[i].seq <= sent
    BY <1>5, <1>6, <1>8 DEF OInv, UpTo
  <2>4. QED
    BY <2>1, <2>2, <2>3 DEF Before, UpTo
<1>11. Ascending(deferred') /\ Before(deferred', queue[Clock]) /\ UpTo(deferred', sent)
  BY <1>1, <1>4 DEF OInv, Before, UpTo
<1>12. \A i \in DOMAIN rows' : rows'[i].ts <= last_ts'
  <2>1. cur.ts \in Nat
    BY <1>1, ElementsTyped
  <2>2. QED
    BY <1>1, <1>2, <1>5, <1>7, <1>8, <2>1
<1>13. QED
  BY <1>1, <1>9, <1>10, <1>11, <1>12 DEF OInv, Ascending, Before, UpTo

\* Every action keeps the pipeline in the camera's order.
LEMMA OrderStep == TypeOK /\ OInv /\ [Next]_vars => OInv'
<1> SUFFICES ASSUME TypeOK, OInv, [Next]_vars PROVE OInv'
  OBVIOUS
<1>1. CASE PublishClock
  <2> DEFINE q == queue[Clock]
  <2>1. q \in Seq(Frame) /\ NewFrame \in Frame /\ Clock \in DOMAIN queue /\ sent \in Nat
    BY DEF NewFrame, Frame, TypeOK, Topics
  <2>2. Depth(Clock) \in Nat \ {0}
    BY DepthPositive, SizesAssumption
  <2>3. queue'[Clock] = Enqueue(q, NewFrame, Depth(Clock)) /\ sent' = sent + 1
        /\ UNCHANGED <<rows, deferred, last_ts, t0>>
    BY <1>1, <2>1 DEF PublishClock, Send, capture
  <2>4. Ascending(q) /\ UpTo(q, sent) /\ NewFrame.seq = sent + 1
    BY DEF OInv, NewFrame
  <2> HIDE DEF q
  <2>5. /\ Ascending(queue'[Clock]) /\ UpTo(queue'[Clock], sent')
        /\ \A i \in DOMAIN queue'[Clock] :
             queue'[Clock][i] = NewFrame \/ \E j \in DOMAIN q : queue'[Clock][i] = q[j]
    BY <2>1, <2>2, <2>3, <2>4, EnqueueOrder
  <2>6. /\ \A i \in DOMAIN rows : rows[i].seq \in Nat /\ rows[i].seq <= sent
        /\ \A i \in DOMAIN deferred : deferred[i].seq \in Nat /\ deferred[i].seq <= sent
    BY ElementsTyped DEF OInv, UpTo
  <2>7. Before(rows, queue'[Clock]) /\ Before(deferred, queue'[Clock])
    BY <2>1, <2>4, <2>5, <2>6 DEF OInv, Before, q
  <2>8. UpTo(rows, sent') /\ UpTo(deferred, sent')
    BY <2>1, <2>3, <2>6 DEF UpTo
  <2>9. QED
    BY <2>3, <2>5, <2>7, <2>8 DEF OInv, Ascending, Before, UpTo, RowsInOrder
<1>2. CASE \E s \in Paired : PublishAnswer(s)
  BY <1>2, OrderKept, TopicsAssumption DEF PublishAnswer, Send, camera, capture
<1>3. CASE \E s \in Window : PublishWindow(s)
  BY <1>3, OrderKept, TopicsAssumption DEF PublishWindow, Send, env, camera, capture
<1>4. CASE CameraRestart \/ Pass \/ BackStep
  <2>1. CASE Pass \/ BackStep
    BY <2>1, OrderKept DEF Pass, BackStep, camera, streams, capture, grid
  <2>2. CASE CameraRestart
    <3>1. UNCHANGED <<rows, deferred, sent, last_ts, t0>>
      BY <2>2 DEF CameraRestart, capture
    <3>2. queue'[Clock] = queue[Clock] \/ queue'[Clock] = <<>>
      BY <2>2 DEF CameraRestart, TypeOK, Topics
    <3>3. CASE queue'[Clock] = queue[Clock]
      BY <3>1, <3>3, OrderKept
    <3>4. CASE queue'[Clock] = <<>>
      BY <3>1, <3>4 DEF OInv, Ascending, Before, UpTo, RowsInOrder
    <3>5. QED
      BY <3>2, <3>3, <3>4
  <2>3. QED
    BY <1>4, <2>1, <2>2
<1>5. CASE Start
  BY <1>5, OrderForgotten DEF Start, env, camera, streams
<1>6. ASSUME NEW how, EndRecording(how), UNCHANGED <<env, streams>> PROVE OInv'
  BY <1>6, OrderForgotten DEF EndRecording, env, camera, streams
<1>7. CASE Stop \/ Tick
  BY <1>7, OrderKept DEF Stop, Tick, Enter, env, camera, streams, capture
<1>8. CASE DrainSources
  <2>1. queue'[Clock] = queue[Clock]
    BY <1>8 DEF DrainSources, Topics
  <2>2. QED
    BY <1>8, <2>1, OrderKept DEF DrainSources, env, camera, grid
<1>9. CASE DrainClock /\ Clock \notin connected
  <2>1. UNCHANGED <<rows, sent, last_ts, t0>>
    BY <1>9 DEF DrainClock, env, camera, grid
  <2>2. deferred' = deferred /\ queue'[Clock] = queue[Clock]
    BY <1>9, DrainClockCases
  <2>3. QED
    BY <2>1, <2>2, OrderKept
<1>9a. CASE DrainClock /\ Clock \in connected
  <2>1. /\ queue'[Clock] = <<>> /\ deferred' = deferred \o queue[Clock]
        /\ UNCHANGED <<rows, sent, last_ts, t0>>
    BY <1>9a, DrainClockCases DEF env, camera, grid
  <2>2. /\ Ascending(deferred')
        /\ \A i \in DOMAIN deferred' : \/ \E j \in DOMAIN deferred : deferred'[i] = deferred[j]
                                       \/ \E j \in DOMAIN queue[Clock] : deferred'[i] = queue[Clock][j]
    BY <2>1, ConcatOrder DEF OInv, TypeOK
  <2>3. Before(rows, deferred') /\ UpTo(deferred', sent)
    BY <2>2 DEF OInv, Before, UpTo
  <2>4. Ascending(queue'[Clock]) /\ Before(rows, queue'[Clock])
        /\ Before(deferred', queue'[Clock]) /\ UpTo(queue'[Clock], sent)
    BY <2>1 DEF Ascending, Before, UpTo
  <2>5. QED
    BY <2>1, <2>2, <2>3, <2>4 DEF OInv, Ascending, Before, UpTo, RowsInOrder
<1>10. CASE FrameWaits
  BY <1>6, <1>10, OrderKept DEF FrameWaits, Abort, env, camera, streams, capture
<1>11. CASE FrameFenced
  BY <1>11, OrderTail DEF FrameFenced, Landing, TypeOK, env, camera, streams, grid
<1>12. CASE FrameBackwards \/ AfterStop
  BY <1>6, <1>12 DEF FrameBackwards, AfterStop, Abort, SubmitFinalize
<1>13. ASSUME InSequence, Consume, UNCHANGED rows PROVE OInv'
  <2>1. cur.ts \in Nat
    BY <1>13, ElementsTyped DEF InSequence, Landing
  <2>2. QED
    BY <1>13, <2>1, OrderTail DEF InSequence, Landing, Consume, env, camera, streams
<1>14. CASE FrameGated
  BY <1>13, <1>14 DEF FrameGated
<1>15. CASE FrameStale
  BY <1>6, <1>13, <1>15 DEF FrameStale, Abort
<1>16. CASE FrameRow
  BY <1>16, OrderRow
<1>17. CASE FramesDone
  BY <1>17, OrderKept DEF FramesDone, env, camera, streams, capture
<1>18. CASE AfterTick
  BY <1>6, <1>18, OrderKept DEF AfterTick, Abort, SubmitFinalize, env, camera, streams, capture
<1>19. CASE Discard
  BY <1>6, <1>19 DEF Discard
<1>20. CASE UNCHANGED vars
  BY <1>20, OrderKept DEF vars, env, camera, streams, capture
<1>21. QED
  BY <1>1, <1>2, <1>3, <1>4, <1>5, <1>7, <1>8, <1>9, <1>9a, <1>10, <1>11, <1>12, <1>14, <1>15,
     <1>16, <1>17, <1>18, <1>19, <1>20
     DEF Next, Environment, HandlerStep

\* However frames are queued, deferred, gated or fenced, and whatever the wall
\* clock does, an episode's rows are distinct frames in the camera's order and
\* in time order, none older than START.
THEOREM RowsAreOrdered == Spec => []RowsInOrder
<1>1. Init => OInv
  BY DEF Init, OInv, Ascending, Before, UpTo, RowsInOrder, Topics
<1>2. OInv => RowsInOrder
  BY DEF OInv
<1>3. QED
  BY <1>1, <1>2, TypeCorrect, OrderStep, PTL DEF Spec

----------------------------------------------------------------------------
(* Exact pairing *)

\* While the camera lives its first life, frame_id and frame number agree in
\* every queue, in the deferred frames and in the answers held.
PInv ==
  /\ restarts = 0 /\ base = 0
  /\ \A i \in DOMAIN queue[Clock] : queue[Clock][i].id = queue[Clock][i].seq
  /\ \A i \in DOMAIN deferred : deferred[i].id = deferred[i].seq
  /\ \A s \in Paired : \A i \in DOMAIN queue[s] : queue[s][i].id = queue[s][i].seq
  /\ \A s \in Paired : \A a \in held[s] : a.id = a.seq
  /\ PairedExactly

\* Forgetting everything held leaves no wrong pair.
LEMMA PairForgotten ==
  ASSUME PInv, Forget, UNCHANGED <<env, queue>>
  PROVE  PInv'
BY DEF PInv, PairedExactly, Forget, env, camera

\* The pairing is kept by a step that leaves it alone.
LEMMA PairKept ==
  ASSUME PInv, UNCHANGED <<camera, queue, deferred, rows, held>>
  PROVE  PInv'
BY DEF PInv, PairedExactly, camera

\* The pairing is kept when frames leave the queues.
LEMMA PairTail ==
  ASSUME TypeOK, PInv, deferred # <<>>, deferred' = Tail(deferred),
         UNCHANGED <<camera, queue, rows, held>>
  PROVE  PInv'
<1>1. \A i \in DOMAIN deferred' : i + 1 \in DOMAIN deferred /\ deferred'[i] = deferred[i + 1]
  BY DEF TypeOK
<1>2. QED
  BY <1>1 DEF PInv, PairedExactly, camera

\* Any element of a queue that gains m was there before or is m.
LEMMA EnqueueElements ==
  ASSUME NEW S, NEW q \in Seq(S), NEW m \in S, NEW d \in Nat \ {0}
  PROVE  \A i \in DOMAIN Enqueue(q, m, d) :
           Enqueue(q, m, d)[i] = m \/ \E j \in DOMAIN q : Enqueue(q, m, d)[i] = q[j]
<1>1. PICK off \in {0, 1} :
        /\ off = 0 <=> Len(q) < d
        /\ Len(Enqueue(q, m, d)) = Len(q) + 1 - off
        /\ Enqueue(q, m, d)[Len(q) + 1 - off] = m
        /\ \A i \in 1..(Len(q) - off) : Enqueue(q, m, d)[i] = q[i + off]
  BY EnqueueShape
<1>2. Enqueue(q, m, d) \in Seq(S)
  BY EnqueueShape
<1>3. DOMAIN Enqueue(q, m, d) = 1..(Len(q) + 1 - off) /\ DOMAIN q = 1..Len(q) /\ Len(q) \in Nat
  BY <1>1, <1>2, LenProperties
<1>4. TAKE i \in DOMAIN Enqueue(q, m, d)
<1>5. CASE i = Len(q) + 1 - off
  BY <1>1, <1>5
<1>6. CASE i # Len(q) + 1 - off
  <2>1. i \in 1..(Len(q) - off)
    BY <1>3, <1>6
  <2>2. i + off \in DOMAIN q
    BY <1>3, <2>1
  <2>3. QED
    BY <1>1, <2>1, <2>2
<1>7. QED
  BY <1>5, <1>6

\* Without a restart, every action keeps frame_ids and frames in step.
LEMMA PairStep ==
  ASSUME MaxRestarts = 0
  PROVE  TypeOK /\ PInv /\ [Next]_vars => PInv'
<1> SUFFICES ASSUME TypeOK, PInv, [Next]_vars PROVE PInv'
  OBVIOUS
<1>1. CASE PublishClock
  <2>1. queue[Clock] \in Seq(Frame) /\ NewFrame \in Frame /\ Clock \in DOMAIN queue
    BY DEF NewFrame, Frame, TypeOK, Topics
  <2>2. Depth(Clock) \in Nat \ {0}
    BY DepthPositive, SizesAssumption
  <2>3. \A i \in DOMAIN Enqueue(queue[Clock], NewFrame, Depth(Clock)) :
          \/ Enqueue(queue[Clock], NewFrame, Depth(Clock))[i] = NewFrame
          \/ \E j \in DOMAIN queue[Clock] :
               Enqueue(queue[Clock], NewFrame, Depth(Clock))[i] = queue[Clock][j]
    BY <2>1, <2>2, EnqueueElements
  <2>4. NewFrame.id = NewFrame.seq
    BY DEF NewFrame, PInv, TypeOK
  <2>5. /\ queue'[Clock] = Enqueue(queue[Clock], NewFrame, Depth(Clock))
        /\ \A s \in Paired : queue'[s] = queue[s]
    BY <1>1, <2>1, TopicsAssumption DEF PublishClock, Send
  <2>6. UNCHANGED <<restarts, base, deferred, rows, held>>
    BY <1>1 DEF PublishClock, capture
  <2>7. \A i \in DOMAIN queue'[Clock] : queue'[Clock][i].id = queue'[Clock][i].seq
    BY <2>3, <2>4, <2>5 DEF PInv
  <2>8. QED
    BY <2>5, <2>6, <2>7 DEF PInv, PairedExactly
<1>2. CASE \E s \in Paired : PublishAnswer(s)
  <2>1. PICK s \in Paired : PublishAnswer(s)
    BY <1>2
  <2>2. PICK n \in (base + 1)..sent :
          queue' = [queue EXCEPT ![s] =
                      Enqueue(@, [seq |-> n, id |-> n - base], Depth(s))]
    BY <2>1 DEF PublishAnswer, Send
  <2> DEFINE m == [seq |-> n, id |-> n - base]
             r == Enqueue(queue[s], m, Depth(s))
  <2>3. m \in Answer /\ m.id = m.seq
    BY DEF Answer, TypeOK, PInv
  <2>4. queue[s] \in Seq(Answer) /\ Depth(s) \in Nat \ {0} /\ s \in DOMAIN queue
    BY DepthPositive, SizesAssumption DEF TypeOK, Topics
  <2>5. queue'[s] = r /\ \A t \in Topics \ {s} : queue'[t] = queue[t]
    BY <2>2, <2>4 DEF TypeOK
  <2> HIDE DEF m
  <2>6. \A i \in DOMAIN r : r[i] = m \/ \E j \in DOMAIN queue[s] : r[i] = queue[s][j]
    BY <2>3, <2>4, EnqueueElements
  <2>7. \A i \in DOMAIN queue'[s] : queue'[s][i].id = queue'[s][i].seq
    BY <2>3, <2>5, <2>6 DEF PInv
  <2>8. UNCHANGED <<restarts, base, deferred, rows, held>>
    BY <2>1 DEF PublishAnswer, camera, capture
  <2>9. QED
    BY <2>5, <2>7, <2>8, TopicsAssumption DEF PInv, PairedExactly, Topics
<1>3. CASE \E s \in Window : PublishWindow(s)
  <2>1. \A t \in {Clock} \cup Paired : queue'[t] = queue[t]
    BY <1>3, TopicsAssumption DEF PublishWindow, Send
  <2>2. UNCHANGED <<restarts, base, deferred, rows, held>>
    BY <1>3 DEF PublishWindow, env, camera, capture
  <2>3. QED
    BY <2>1, <2>2 DEF PInv, PairedExactly
<1>4. CASE CameraRestart
  BY <1>4, BoundsAssumption DEF CameraRestart, PInv, TypeOK
<1>5. CASE Pass \/ BackStep
  BY <1>5, PairKept DEF Pass, BackStep, streams, capture
<1>6. CASE Start
  BY <1>6, PairForgotten DEF Start, streams
<1>7. ASSUME NEW how, EndRecording(how), UNCHANGED <<env, streams>> PROVE PInv'
  BY <1>7, PairForgotten DEF EndRecording, streams
<1>8. CASE Stop \/ Tick
  BY <1>8, PairKept DEF Stop, Tick, Enter, env, streams, capture
<1>9. CASE DrainSources
  <2>1. \A s \in Paired : \A a \in held'[s] : a.id = a.seq
    <3>1. TAKE s \in Paired
    <3>2. held[s] \in SUBSET Answer /\ Arrived(s) \in Seq(Answer)
      BY DEF Arrived, TypeOK
    <3>3. \A a \in Trim(Merge(held[s], Arrived(s))) :
            a \in held[s] \/ \E i \in DOMAIN Arrived(s) : a = Arrived(s)[i]
      BY <3>2, MergeAnswers
    <3>4. \A i \in DOMAIN Arrived(s) : Arrived(s)[i].id = Arrived(s)[i].seq
      BY DEF Arrived, PInv
    <3>5. QED
      BY <1>9, <3>3, <3>4 DEF DrainSources, PInv
  <2>2. queue'[Clock] = queue[Clock] /\ \A s \in Paired : (queue'[s] = <<>> \/ queue'[s] = queue[s])
    BY <1>9, TopicsAssumption DEF DrainSources, Unread, Topics
  <2>3. UNCHANGED <<restarts, base, deferred, rows>>
    BY <1>9 DEF DrainSources, env, camera
  <2>4. QED
    BY <2>1, <2>2, <2>3 DEF PInv, PairedExactly
<1>10. CASE DrainClock /\ Clock \notin connected
  <2>1. UNCHANGED <<restarts, base, rows, held>>
    BY <1>10 DEF DrainClock, env, camera
  <2>2. deferred' = deferred /\ \A t \in Topics : queue'[t] = queue[t]
    BY <1>10, DrainClockCases
  <2>3. QED
    BY <2>1, <2>2 DEF PInv, PairedExactly, Topics
<1>10a. CASE DrainClock /\ Clock \in connected
  <2>1. deferred' = deferred \o queue[Clock]
    BY <1>10a, DrainClockCases
  <2>2. \A i \in DOMAIN deferred' :
          \/ i \in DOMAIN deferred /\ deferred'[i] = deferred[i]
          \/ i - Len(deferred) \in DOMAIN queue[Clock]
             /\ deferred'[i] = queue[Clock][i - Len(deferred)]
    BY <2>1, SMTT(30) DEF TypeOK
  <2>3. queue'[Clock] = <<>> /\ \A s \in Paired : queue'[s] = queue[s]
    BY <1>10a, DrainClockCases, TopicsAssumption DEF Topics
  <2>4. UNCHANGED <<restarts, base, rows, held>>
    BY <1>10a DEF DrainClock, env, camera
  <2>5. QED
    BY <2>2, <2>3, <2>4 DEF PInv, PairedExactly
<1>11. CASE FrameWaits
  BY <1>7, <1>11, PairKept DEF FrameWaits, Abort, env, streams, capture
<1>12. CASE FrameFenced
  BY <1>12, PairTail DEF FrameFenced, Landing, env, streams
<1>13. CASE FrameBackwards \/ AfterStop
  BY <1>7, <1>13 DEF FrameBackwards, AfterStop, Abort, SubmitFinalize
<1>14. ASSUME InSequence, Consume, UNCHANGED rows PROVE PInv'
  BY <1>14, PairTail DEF InSequence, Landing, Consume, env, streams
<1>15. CASE FrameGated
  BY <1>14, <1>15 DEF FrameGated
<1>16. CASE FrameStale
  BY <1>7, <1>14, <1>16 DEF FrameStale, Abort
<1>17. CASE FrameRow
  <2>1. RowOf(cur) \in Row
    BY <1>17, RowTyped DEF FrameRow, InSequence, Landing
  <2>2. cur.id = cur.seq
    <3>1. cur = deferred[1] /\ 1 \in DOMAIN deferred
      BY <1>17 DEF FrameRow, InSequence, Landing, cur, TypeOK
    <3>2. QED
      BY <3>1 DEF PInv
  <2>3. ASSUME NEW s \in Paired PROVE RowOf(cur).pair[s] = RowOf(cur).seq
    <3>1. (CHOOSE a \in AnswersTo(s, cur) : TRUE) \in AnswersTo(s, cur)
      BY <1>17 DEF FrameRow, InSequence, Landing, Matched
    <3>2. \A a \in AnswersTo(s, cur) : a.seq = cur.seq
      BY <2>2 DEF AnswersTo, PInv
    <3>3. QED
      BY <3>1, <3>2 DEF RowOf
  <2>4. rows' = Append(rows, RowOf(cur)) /\ rows \in Seq(Row)
    BY <1>17 DEF FrameRow, TypeOK
  <2>5. \A i \in DOMAIN rows' : \/ i \in DOMAIN rows /\ rows'[i] = rows[i]
                               \/ rows'[i] = RowOf(cur)
    BY <2>1, <2>4
  <2>6. PairedExactly'
    BY <2>3, <2>5 DEF PInv, PairedExactly
  <2>7. \A i \in DOMAIN deferred' : i + 1 \in DOMAIN deferred /\ deferred'[i] = deferred[i + 1]
    BY <1>17 DEF FrameRow, InSequence, Landing, Consume, TypeOK
  <2>8. QED
    BY <1>17, <2>6, <2>7 DEF PInv, FrameRow, Consume, env, camera, streams
<1>18. CASE FramesDone
  BY <1>18, PairKept DEF FramesDone, env, streams, capture
<1>19. CASE AfterTick
  BY <1>7, <1>19, PairKept DEF AfterTick, Abort, SubmitFinalize, env, streams, capture
<1>20. CASE Discard
  BY <1>7, <1>20 DEF Discard
<1>21. CASE UNCHANGED vars
  BY <1>21, PairKept DEF vars, env, streams, capture
<1>22. QED
  BY <1>1, <1>2, <1>3, <1>4, <1>5, <1>6, <1>8, <1>9, <1>10, <1>10a, <1>11, <1>12, <1>13, <1>15,
     <1>16, <1>17, <1>18, <1>19, <1>20, <1>21
     DEF Next, Environment, HandlerStep

\* As long as the camera's process is not restarted, every row holds the answer
\* to its own frame, for any number of paired topics, any cache size and any
\* delay, skip or burst of answers.
THEOREM PairingIsExact ==
  ASSUME MaxRestarts = 0
  PROVE  Spec => []PairedExactly
<1>1. Init => PInv
  BY DEF Init, PInv, PairedExactly, Topics
<1>2. PInv => PairedExactly
  BY DEF PInv
<1>3. TypeOK /\ PInv /\ [Next]_vars => PInv'
  BY PairStep
<1>4. QED
  BY <1>1, <1>2, <1>3, TypeCorrect, PTL DEF Spec
=============================================================================
