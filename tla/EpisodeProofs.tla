--------------------------- MODULE EpisodeProofs ---------------------------
(* Theorems about the episode that Capture builds: its rate, its gaps, and the *)
(* promise of Session.  They rest on the invariants of CaptureProofs.          *)
EXTENDS CaptureProofs

----------------------------------------------------------------------------
(* The decimation grid *)

\* The grid is past every row by one period for each row since: what keeps the
\* landed rate from exceeding record_hz.
GridAhead ==
  period > 0 => \A i \in DOMAIN rows : rows[i].ts + (Len(rows) - i) * period < next_due

RInv == GridAhead /\ RateHonoured /\ GridWithinPeriod

\* The grid is kept by a step that leaves it alone.
LEMMA GridKept ==
  ASSUME RInv, UNCHANGED <<rows, period, next_due>>
  PROVE  RInv'
BY DEF RInv, GridAhead, RateHonoured, GridWithinPeriod

\* The grid holds of an episode without rows.
LEMMA GridEmpty ==
  ASSUME rows' = <<>>
  PROVE  RInv'
BY DEF RInv, GridAhead, RateHonoured, GridWithinPeriod

\* Multiplication by a successor, which the solver is spared.
LEMMA OneMore == \A n, p \in Int : (n + 1) * p = n * p + p
OBVIOUS

\* A kept frame becomes a row and moves the grid by the rule of gate().
LEMMA GridRow ==
  ASSUME TypeOK, RInv, FrameRow
  PROVE  RInv'
<1> DEFINE row == RowOf(cur)
           n == Len(rows)
           due == Gate(cur.ts, next_due, period).due
<1>1. row \in Row /\ row.ts = cur.ts /\ cur.ts \in Nat
  BY RowTyped, ElementsTyped DEF FrameRow, InSequence, Landing, RowOf
<1>2. /\ rows' = Append(rows, row) /\ next_due' = due /\ period' = period
      /\ Gate(cur.ts, next_due, period).keep
  BY DEF FrameRow, Consume
<1>3. period \in Nat /\ next_due \in Nat /\ rows \in Seq(Row)
  BY DEF TypeOK
<1>4. due \in Nat /\ (period > 0 => /\ next_due <= cur.ts /\ next_due + period <= due
                                  /\ cur.ts < due /\ due <= cur.ts + period)
  BY <1>1, <1>2, <1>3, GateMoves
<1> HIDE DEF row, due
<1>5. /\ n \in Nat /\ DOMAIN rows' = 1..(n + 1) /\ DOMAIN rows = 1..n /\ Len(rows') = n + 1
      /\ rows'[n + 1] = row /\ \A i \in 1..n : rows'[i] = rows[i]
  BY <1>1, <1>2, <1>3
<1>6. \A i \in 1..n : rows[i].ts \in Nat
  BY <1>5, ElementsTyped
<1>7. CASE period = 0
  <2>1. period' = 0
    BY <1>2, <1>7
  <2>2. QED
    BY <2>1 DEF RInv, GridAhead, RateHonoured, GridWithinPeriod
<1>8. CASE period > 0
  <2>1. \A i \in 1..n : rows[i].ts + (n - i) * period < next_due
    BY <1>5, <1>8 DEF RInv, GridAhead
  <2>2. GridAhead'
    <3>1. ASSUME NEW i \in 1..n PROVE rows'[i].ts + ((n + 1) - i) * period < due
      <4>1. ((n + 1) - i) * period = (n - i) * period + period
        <5>1. n - i \in Int /\ (n + 1) - i = (n - i) + 1
          BY <1>5
        <5>2. QED
          BY <1>3, <5>1, OneMore
      <4>2. (n - i) * period \in Int
        BY <1>3, <1>5
      <4> DEFINE k == (n - i) * period
                 l == ((n + 1) - i) * period
      <4>3. l = k + period /\ k \in Int /\ rows[i].ts + k < next_due /\ rows'[i].ts = rows[i].ts
        BY <2>1, <4>1, <4>2, <1>5
      <4> HIDE DEF k, l
      <4>4. rows'[i].ts + l < due
        BY <1>3, <1>4, <1>6, <1>8, <4>3
      <4>5. QED
        BY <4>4 DEF l
    <3>2. rows'[n + 1].ts + ((n + 1) - (n + 1)) * period < due
      <4>1. ((n + 1) - (n + 1)) * period = 0
        BY <1>3, <1>5
      <4>2. QED
        BY <1>1, <1>4, <1>5, <1>8, <4>1
    <3>3. \A i \in DOMAIN rows' : i \in 1..n \/ i = n + 1
      BY <1>5
    <3>4. QED
      BY <1>2, <1>5, <3>1, <3>2, <3>3 DEF GridAhead
  <2>3. RateHonoured'
    <3> SUFFICES ASSUME NEW i \in 1..(n + 1), NEW j \in 1..(n + 1), i < j
                 PROVE  rows'[j].ts > rows'[i].ts + (j - i - 1) * period
      BY <1>2, <1>5 DEF RateHonoured
    <3>1. i \in 1..n
      BY <1>5
    <3>2. CASE j \in 1..n
      <4>1. rows[j].ts > rows[i].ts + (j - i - 1) * period
        <5>1. \A a, b \in DOMAIN rows :
                a < b => rows[b].ts > rows[a].ts + (b - a - 1) * period \/ period = 0
          BY DEF RInv, RateHonoured
        <5>2. i \in DOMAIN rows /\ j \in DOMAIN rows
          BY <1>5, <3>1, <3>2
        <5>3. rows[j].ts > rows[i].ts + (j - i - 1) * period \/ period = 0
          BY <5>1, <5>2, Zenon
        <5>4. period # 0
          BY <1>3, <1>8
        <5>5. QED
          BY <5>3, <5>4
      <4>2. QED
        BY <1>5, <3>1, <3>2, <4>1
    <3>3. CASE j = n + 1
      <4>1. j - i - 1 = n - i
        BY <1>5, <3>3
      <4> DEFINE k == (n - i) * period
      <4>2. rows[i].ts + k < next_due /\ k \in Int
        BY <1>3, <1>5, <2>1, <3>1
      <4>3. (j - i - 1) * period = k
        BY <4>1
      <4> HIDE DEF k
      <4>4. rows'[j].ts > rows'[i].ts + k
        BY <1>1, <1>3, <1>4, <1>5, <1>6, <1>8, <3>1, <3>3, <4>2, SMTT(30)
      <4>5. QED
        BY <4>3, <4>4
    <3>4. QED
      BY <1>5, <3>2, <3>3
  <2>4. GridWithinPeriod'
    BY <1>1, <1>2, <1>4, <1>5, <1>8 DEF GridWithinPeriod
  <2>5. QED
    BY <2>2, <2>3, <2>4 DEF RInv
<1>9. QED
  BY <1>3, <1>7, <1>8

\* Every action keeps the decimation grid.
LEMMA GridStep == TypeOK /\ RInv /\ [Next]_vars => RInv'
<1> SUFFICES ASSUME TypeOK, RInv, [Next]_vars PROVE RInv'
  OBVIOUS
<1>1. CASE Environment
  BY <1>1, GridKept
     DEF Environment, PublishClock, PublishAnswer, PublishWindow, CameraRestart, Pass, BackStep,
         capture, grid
<1>2. CASE Start
  BY <1>2, GridEmpty DEF Start, Forget
<1>3. ASSUME NEW how, EndRecording(how) PROVE RInv'
  BY <1>3, GridEmpty DEF EndRecording, Forget
<1>4. CASE Stop \/ Tick
  BY <1>4, GridKept DEF Stop, Tick, Enter, capture
<1>5. CASE DrainSources \/ DrainClock \/ FrameFenced \/ FramesDone
  BY <1>5, GridKept DEF DrainSources, DrainClock, FrameFenced, FramesDone, grid, capture
<1>6. CASE FrameWaits \/ AfterTick
  BY <1>3, <1>6, GridKept DEF FrameWaits, AfterTick, Abort, SubmitFinalize, capture
<1>7. CASE FrameBackwards \/ AfterStop \/ Discard
  BY <1>3, <1>7 DEF FrameBackwards, AfterStop, Discard, Abort, SubmitFinalize
<1>8. CASE FrameGated
  <2>1. cur.ts \in Nat /\ period \in Nat /\ next_due \in Nat
    BY <1>8, ElementsTyped DEF FrameGated, InSequence, Landing, TypeOK
  <2>2. Gate(cur.ts, next_due, period).due = next_due
    BY <1>8, <2>1, GateMoves DEF FrameGated
  <2>3. QED
    BY <1>8, <2>2, GridKept DEF FrameGated, Consume
<1>9. CASE FrameStale
  BY <1>3, <1>9, GridEmpty DEF FrameStale, Abort
<1>10. CASE FrameRow
  BY <1>10, GridRow
<1>11. CASE UNCHANGED vars
  BY <1>11, GridKept DEF vars, capture
<1>12. QED
  BY <1>1, <1>2, <1>4, <1>5, <1>6, <1>7, <1>8, <1>9, <1>10, <1>11 DEF Next, HandlerStep

\* The grid's invariant holds of every behaviour.
LEMMA GridInvariant == Spec => []RInv
<1>1. Init => RInv
  BY DEF Init, RInv, GridAhead, RateHonoured, GridWithinPeriod
<1>2. QED
  BY <1>1, TypeCorrect, GridStep, PTL DEF Spec

\* The landed rate never exceeds record_hz by more than the grid's one slot:
\* k rows after row i span more than k - 1 periods, for every period, lateness
\* of the clock and pattern of stalls.
THEOREM RateIsHonoured == Spec => []RateHonoured
<1>1. RInv => RateHonoured
  BY DEF RInv
<1>2. QED
  BY <1>1, GridInvariant, PTL

\* Nor does the grid undershoot: the next row is never due more than a period
\* after the last.
THEOREM GridStaysWithinPeriod == Spec => []GridWithinPeriod
<1>1. RInv => GridWithinPeriod
  BY DEF RInv
<1>2. QED
  BY <1>1, GridInvariant, PTL

----------------------------------------------------------------------------
(* Gaps *)

Elements(q) == {q[i] : i \in DOMAIN q}
Pipe == Elements(deferred) \cup Elements(queue[Clock])
Kept(n) == n \in SeqsOf(deferred) \cup SeqsOf(queue[Clock]) \cup overflowed

\* While the wall clock only goes forward, stamps ascend along the pipeline.
\* From any frame that waits, every later frame waits too or was evicted.
GInv ==
  /\ \A x \in Pipe : x.ts <= wall
  /\ \A i \in DOMAIN rows : rows[i].ts <= wall
  /\ \A x, y \in Pipe : x.seq < y.seq => x.ts <= y.ts
  /\ \A i \in DOMAIN rows : \A x \in Pipe : rows[i].ts <= x.ts
  /\ \A x \in Pipe : \A n \in x.seq..sent : Kept(n)
  /\ NoHole

\* The numbers of a queue are those of its elements.
LEMMA SeqsOfElements == ASSUME NEW q PROVE SeqsOf(q) = {x.seq : x \in Elements(q)}
BY DEF SeqsOf, Elements

\* What is in the pipeline is a row or a frame, each with its number.
LEMMA PipeTyped ==
  ASSUME TypeOK
  PROVE  /\ \A x \in Pipe : x \in Frame /\ x.seq \in Nat /\ x.ts \in Nat
         /\ deferred # <<>> => cur \in Elements(deferred)
<1>1. deferred \in Seq(Frame) /\ queue[Clock] \in Seq(Frame)
  BY DEF TypeOK
<1>2. deferred # <<>> => 1 \in DOMAIN deferred /\ cur = deferred[1]
  BY <1>1 DEF cur
<1>3. \A x \in Pipe : x \in Frame
  BY <1>1 DEF Pipe, Elements
<1>4. QED
  BY <1>2, <1>3 DEF Frame, Elements

\* No gap opens in a step that leaves the pipeline alone.
LEMMA GapKept ==
  ASSUME GInv, wall' \in Nat, wall \in Nat, wall <= wall', TypeOK,
         UNCHANGED <<sent, overflowed, deferred, rows, period>>, queue'[Clock] = queue[Clock]
  PROVE  GInv'
<1>1. Pipe' = Pipe /\ \A n : Kept(n)' <=> Kept(n)
  BY DEF Pipe, Kept, Elements, SeqsOf
<1>2. NoHole'
  BY DEF GInv, NoHole, SeqsOf
<1>3. \A x \in Pipe : x.ts <= wall'
  BY PipeTyped DEF GInv
<1>4. \A i \in DOMAIN rows : rows[i].ts <= wall'
  BY ElementsTyped DEF GInv
<1>5. QED
  BY <1>1, <1>2, <1>3, <1>4 DEF GInv

\* An ended recording has no row that a gap could follow.
LEMMA GapForgotten ==
  ASSUME TypeOK, OInv, GInv, Forget, UNCHANGED <<wall, sent, overflowed, queue>>
  PROVE  GInv'
<1>1. deferred' = <<>> /\ rows' = <<>>
  BY DEF Forget
<1>2. Pipe' = Elements(queue[Clock]) /\ Pipe' \subseteq Pipe
  BY <1>1 DEF Pipe, Elements
<1>3. \A x \in Pipe' : \A n \in x.seq..sent : Kept(n)'
  <2> SUFFICES ASSUME NEW x \in Elements(queue[Clock]), NEW n \in x.seq..sent PROVE Kept(n)'
    BY <1>2
  <2>1. Kept(n)
    BY <1>2 DEF GInv
  <2>2. n \notin SeqsOf(deferred)
    <3>1. \A i \in DOMAIN deferred : deferred[i].seq < x.seq /\ deferred[i].seq \in Nat
      BY ElementsTyped DEF OInv, Before, Elements
    <3>2. x.seq \in Nat /\ n \in Int /\ n >= x.seq
      BY PipeTyped, <1>2 DEF TypeOK
    <3>3. QED
      BY <3>1, <3>2 DEF SeqsOf
  <2>3. QED
    BY <2>1, <2>2 DEF Kept
<1>4. NoHole'
  BY <1>1 DEF NoHole
<1>5. QED
  BY <1>1, <1>2, <1>3, <1>4 DEF GInv

\* The head leaves deferred: what waits behind it still lacks nothing.
LEMMA GapTail ==
  ASSUME TypeOK, OInv, GInv, deferred # <<>>, deferred' = Tail(deferred),
         UNCHANGED <<wall, sent, overflowed, queue>>
  PROVE  /\ Pipe' \subseteq Pipe
         /\ \A x \in Pipe' : x.seq > cur.seq /\ \A n \in x.seq..sent : Kept(n)'
         /\ SeqsOf(deferred) \subseteq SeqsOf(deferred') \cup {cur.seq}
<1>1. deferred \in Seq(Frame) /\ Len(deferred) >= 1 /\ Len(deferred) \in Nat /\ cur = deferred[1]
      /\ DOMAIN deferred' = 1..(Len(deferred) - 1) /\ DOMAIN deferred = 1..Len(deferred)
      /\ \A i \in 1..(Len(deferred) - 1) : deferred'[i] = deferred[i + 1]
  BY DEF TypeOK, cur
<1>2. \A i \in DOMAIN deferred : i = 1 \/ (i - 1 \in DOMAIN deferred' /\ deferred'[i - 1] = deferred[i])
  BY <1>1
<1>3. SeqsOf(deferred) \subseteq SeqsOf(deferred') \cup {cur.seq}
  <2>1. \A i \in DOMAIN deferred :
          deferred[i].seq = cur.seq \/ \E j \in DOMAIN deferred' : deferred[i].seq = deferred'[j].seq
    BY <1>1, <1>2
  <2>2. QED
    BY <2>1 DEF SeqsOf
<1>4. Elements(deferred') \subseteq Elements(deferred)
  BY <1>1 DEF Elements
<1>5. Pipe' \subseteq Pipe
  BY <1>4 DEF Pipe
<1>6. \A x \in Pipe' : x.seq > cur.seq
  <2>1. \A x \in Elements(deferred') : x.seq > cur.seq
    <3>1. \A i \in DOMAIN deferred' : deferred'[i].seq > cur.seq
      BY <1>1 DEF OInv, Ascending
    <3>2. QED
      BY <3>1 DEF Elements
  <2>2. \A x \in Elements(queue[Clock]) : x.seq > cur.seq
    BY <1>1 DEF OInv, Before, Elements
  <2>3. QED
    BY <2>1, <2>2 DEF Pipe
<1>7. ASSUME NEW x \in Pipe', NEW n \in x.seq..sent PROVE Kept(n)'
  <2>1. Kept(n)
    BY <1>5 DEF GInv
  <2>2. n # cur.seq
    <3>1. x.seq \in Nat /\ cur.seq \in Nat /\ n \in Int /\ n >= x.seq
      BY <1>5, PipeTyped, ElementsTyped DEF TypeOK
    <3>2. QED
      BY <1>6, <3>1
  <2>3. QED
    BY <1>3, <2>1, <2>2 DEF Kept
<1>8. QED
  BY <1>3, <1>5, <1>6, <1>7

\* The head becomes a row: nothing between it and the last row is missing.
LEMMA GapRow ==
  ASSUME TypeOK, OInv, GInv, FrameRow
  PROVE  GInv'
<1> DEFINE row == RowOf(cur)
<1>1. /\ deferred # <<>> /\ deferred' = Tail(deferred) /\ rows' = Append(rows, row)
      /\ UNCHANGED <<wall, sent, overflowed, queue, period>>
  BY DEF FrameRow, InSequence, Landing, Consume, env, camera, streams
<1>2. row \in Row /\ row.seq = cur.seq /\ row.ts = cur.ts
  BY <1>1, RowTyped DEF FrameRow, InSequence, Landing, RowOf
<1>3. /\ cur \in Pipe /\ cur.seq \in Nat /\ cur.ts \in Nat
  BY <1>1, PipeTyped DEF Pipe
<1> HIDE DEF row
<1>4. /\ Pipe' \subseteq Pipe
      /\ \A x \in Pipe' : x.seq > cur.seq /\ \A n \in x.seq..sent : Kept(n)'
      /\ SeqsOf(deferred) \subseteq SeqsOf(deferred') \cup {cur.seq}
  BY <1>1, GapTail
<1>5. /\ rows \in Seq(Row) /\ Len(rows) \in Nat /\ DOMAIN rows = 1..Len(rows)
      /\ DOMAIN rows' = 1..(Len(rows) + 1) /\ rows'[Len(rows) + 1] = row
      /\ \A i \in 1..Len(rows) : rows'[i] = rows[i]
  BY <1>1, <1>2 DEF TypeOK
<1>6. \A i \in DOMAIN rows' : (i \in DOMAIN rows /\ rows'[i] = rows[i]) \/ rows'[i] = row
  BY <1>5
<1>7. \A x \in Pipe' : cur.ts <= x.ts
  BY <1>3, <1>4, PipeTyped DEF GInv
<1>8. \A i \in DOMAIN rows' : rows'[i].ts <= wall /\ \A x \in Pipe' : rows'[i].ts <= x.ts
  BY <1>2, <1>3, <1>4, <1>6, <1>7 DEF GInv
<1>9. SeqsOf(rows') = SeqsOf(rows) \cup {cur.seq}
  BY <1>2, <1>5 DEF SeqsOf
<1>10. NoHole'
  <2> SUFFICES ASSUME rows' # <<>>, period = 0, NEW n \in rows'[1].seq..sent
               PROVE  n \in SeqsOf(rows') \cup SeqsOf(deferred') \cup SeqsOf(queue[Clock]) \cup overflowed
    BY <1>1 DEF NoHole
  <2>1. CASE rows # <<>>
    <3>1. rows'[1] = rows[1]
      BY <1>5, <2>1
    <3>2. n \in SeqsOf(rows) \cup SeqsOf(deferred) \cup SeqsOf(queue[Clock]) \cup overflowed
      BY <2>1, <3>1 DEF GInv, NoHole
    <3>3. QED
      BY <1>4, <1>9, <3>2
  <2>2. CASE rows = <<>>
    <3>1. rows'[1].seq = cur.seq
      BY <1>2, <1>5, <2>2
    <3>2. Kept(n)
      BY <1>3, <3>1 DEF GInv
    <3>3. QED
      BY <1>4, <1>9, <3>2 DEF Kept
  <2>3. QED
    BY <2>1, <2>2
<1>11. \A x, y \in Pipe' : x.seq < y.seq => x.ts <= y.ts
  BY <1>4 DEF GInv
<1>12. \A x \in Pipe' : x.ts <= wall
  BY <1>4 DEF GInv
<1>13. QED
  BY <1>1, <1>4, <1>8, <1>10, <1>11, <1>12 DEF GInv

\* While the wall clock moves forward, no action opens a gap.
LEMMA GapStep ==
  ASSUME backSteps' = 0
  PROVE  TypeOK /\ OInv /\ GInv /\ [Next]_vars => GInv'
<1> SUFFICES ASSUME TypeOK, OInv, GInv, [Next]_vars PROVE GInv'
  OBVIOUS
<1>0. wall \in Nat
  BY DEF TypeOK
<1>1. CASE PublishClock
  <2> DEFINE q == queue[Clock]
             r == Enqueue(q, NewFrame, Depth(Clock))
  <2>1. q \in Seq(Frame) /\ NewFrame \in Frame /\ Clock \in DOMAIN queue /\ sent \in Nat
    BY DEF NewFrame, Frame, TypeOK, Topics
  <2>2. Depth(Clock) \in Nat \ {0}
    BY DepthPositive, SizesAssumption
  <2>3. queue'[Clock] = r /\ sent' = sent + 1 /\ NewFrame.seq = sent + 1 /\ NewFrame.ts = wall
    BY <1>1, <2>1 DEF PublishClock, Send, NewFrame
  <2>4. UNCHANGED <<wall, deferred, rows, period>>
    BY <1>1 DEF PublishClock, capture
  <2>5. /\ Elements(r) \subseteq Elements(q) \cup {NewFrame} /\ NewFrame \in Elements(r)
        /\ SeqsOf(q) \subseteq SeqsOf(r) \cup overflowed' /\ overflowed \subseteq overflowed'
    <3>1. PICK off \in {0, 1} :
            /\ off = 0 <=> Len(q) < Depth(Clock)
            /\ Len(r) = Len(q) + 1 - off
            /\ r[Len(q) + 1 - off] = NewFrame
            /\ \A i \in 1..(Len(q) - off) : r[i] = q[i + off]
      BY <2>1, <2>2, EnqueueShape
    <3>2. r \in Seq(Frame)
      BY <2>1, <2>2, EnqueueShape
    <3>3. /\ DOMAIN r = 1..(Len(q) + 1 - off) /\ DOMAIN q = 1..Len(q) /\ Len(q) \in Nat
      BY <2>1, <3>1, <3>2, LenProperties
    <3>4. Depth(Clock) >= 1 /\ (off = 1 => Len(q) >= 1)
      BY <2>2, <3>1, <3>3
    <3> HIDE DEF r, q
    <3>5. Elements(r) \subseteq Elements(q) \cup {NewFrame}
      <4>1. \A i \in DOMAIN r : r[i] = NewFrame \/ (i + off \in DOMAIN q /\ r[i] = q[i + off])
        BY <3>1, <3>3
      <4>2. QED
        BY <4>1 DEF Elements
    <3>6. NewFrame \in Elements(r)
      <4>1. Len(q) + 1 - off \in DOMAIN r
        BY <3>3, <3>4
      <4>2. QED
        BY <3>1, <4>1 DEF Elements
    <3>7. overflowed' = IF off = 0 THEN overflowed ELSE overflowed \cup {Head(q).seq}
      BY <1>1, <3>1 DEF PublishClock, q
    <3>8. off = 1 => Head(q) = q[1]
      BY <2>1, <3>3, <3>4
    <3>9. \A i \in DOMAIN q : (off = 1 /\ i = 1) \/ (i - off \in DOMAIN r /\ r[i - off] = q[i])
      BY <3>1, <3>3
    <3>10. SeqsOf(q) \subseteq SeqsOf(r) \cup overflowed'
      BY <3>7, <3>8, <3>9 DEF SeqsOf
    <3>11. QED
      BY <3>5, <3>6, <3>7, <3>10
  <2> HIDE DEF r, q
  <2>6. Pipe' \subseteq Pipe \cup {NewFrame}
    BY <2>3, <2>4, <2>5 DEF Pipe, q, Elements
  <2>7. sent + 1 \in SeqsOf(r)
    BY <2>3, <2>5, SeqsOfElements
  <2>8. \A n : Kept(n) => Kept(n)'
    <3>1. SeqsOf(queue[Clock])' = SeqsOf(r) /\ SeqsOf(deferred)' = SeqsOf(deferred)
      BY <2>3, <2>4 DEF SeqsOf
    <3>2. QED
      BY <2>5, <3>1 DEF Kept, q
  <2>9. \A n : n = sent + 1 => Kept(n)'
    BY <2>3, <2>7 DEF Kept
  <2>10. /\ \A x \in Pipe : x.seq \in Nat /\ x.seq <= sent /\ x.ts \in Nat /\ x.ts <= wall
    <3>1. \A x \in Pipe : x.seq <= sent
      BY DEF OInv, UpTo, Pipe, Elements
    <3>2. QED
      BY <3>1, PipeTyped DEF GInv
  <2>11. \A x \in Pipe' : x.ts <= wall'
    BY <1>0, <2>3, <2>4, <2>6, <2>10
  <2>12. \A i \in DOMAIN rows' : rows'[i].ts <= wall' /\ \A x \in Pipe' : rows'[i].ts <= x.ts
    BY <2>3, <2>4, <2>6 DEF GInv
  <2>13. \A x, y \in Pipe' : x.seq < y.seq => x.ts <= y.ts
    <3>1. TAKE x, y \in Pipe'
    <3>2. CASE x \in Pipe /\ y \in Pipe
      BY <3>2 DEF GInv
    <3>3. CASE x \in Pipe /\ y = NewFrame
      BY <2>3, <2>10, <3>3
    <3>4. CASE x = NewFrame
      <4>1. y.seq <= sent + 1
        BY <2>1, <2>3, <2>6, <2>10
      <4>2. QED
        <5>1. y.seq \in Nat
          BY <2>1, <2>3, <2>6, <2>10
        <5>2. QED
          BY <2>1, <2>3, <3>4, <4>1, <5>1
    <3>5. QED
      BY <2>6, <3>2, <3>3, <3>4
  <2>14. \A x \in Pipe' : \A n \in x.seq..sent' : Kept(n)'
    <3> SUFFICES ASSUME NEW x \in Pipe', NEW n \in x.seq..sent' PROVE Kept(n)'
      OBVIOUS
    <3>0. x.seq \in Nat
      BY <2>1, <2>3, <2>6, <2>10
    <3>1. n \in Nat /\ n >= x.seq /\ n <= sent + 1
      <4>1. n \in x.seq..sent' /\ sent' = sent + 1 /\ sent \in Nat
        BY <2>1, <2>3
      <4>2. QED
        BY <3>0, <4>1
    <3>2. CASE n = sent + 1
      BY <2>9, <3>2
    <3>3. CASE n # sent + 1
      <4>1. x \in Pipe /\ n \in x.seq..sent
        BY <2>1, <2>3, <2>6, <3>0, <3>1, <3>3
      <4>2. QED
        BY <2>8, <4>1 DEF GInv
    <3>4. QED
      BY <3>2, <3>3
  <2>15. NoHole'
    <3> SUFFICES ASSUME rows # <<>>, period = 0, NEW n \in rows[1].seq..(sent + 1)
                 PROVE  n \in SeqsOf(rows) \cup SeqsOf(deferred) \cup SeqsOf(r) \cup overflowed'
      BY <2>3, <2>4 DEF NoHole, SeqsOf
    <3>1. CASE n = sent + 1
      BY <2>7, <3>1
    <3>2. CASE n # sent + 1
      <4>1. 1 \in DOMAIN rows
        BY DEF TypeOK
      <4>2. n \in rows[1].seq..sent
        BY <2>1, <3>2, <4>1, ElementsTyped
      <4>3. n \in SeqsOf(rows) \cup SeqsOf(deferred) \cup SeqsOf(q) \cup overflowed
        BY <4>2 DEF GInv, NoHole, q
      <4>4. QED
        BY <2>5, <4>3
    <3>3. QED
      BY <3>1, <3>2
  <2>16. QED
    BY <2>11, <2>12, <2>13, <2>14, <2>15 DEF GInv
<1>2. CASE \E s \in Paired : PublishAnswer(s)
  BY <1>0, <1>2, GapKept, TopicsAssumption DEF PublishAnswer, Send, camera, capture
<1>3. CASE \E s \in Window : PublishWindow(s)
  BY <1>0, <1>3, GapKept, TopicsAssumption DEF PublishWindow, Send, env, camera, capture
<1>4. CASE CameraRestart
  <2>1. UNCHANGED <<wall, sent, overflowed, deferred, rows, period>>
    BY <1>4 DEF CameraRestart, capture
  <2>2. CASE Clock \in connected
    BY <1>0, <1>4, <2>1, <2>2, GapKept DEF CameraRestart
  <2>3. CASE Clock \notin connected
    <3>1. rows = <<>> /\ deferred = <<>>
      BY <2>3 DEF TypeOK
    <3>2. queue'[Clock] = <<>>
      BY <1>4, <2>3 DEF CameraRestart, TypeOK, Topics
    <3>3. Pipe' = {}
      BY <2>1, <3>1, <3>2 DEF Pipe, Elements
    <3>4. QED
      BY <2>1, <3>1, <3>3 DEF GInv, NoHole
  <2>4. QED
    BY <2>2, <2>3
<1>5. CASE Pass
  <2>1. wall' \in Nat /\ wall <= wall'
    BY <1>0, <1>5 DEF Pass
  <2>2. QED
    BY <1>0, <1>5, <2>1, GapKept DEF Pass, camera, streams, grid
<1>6. CASE BackStep
  BY <1>6 DEF BackStep, TypeOK
<1>7. CASE Start
  BY <1>7, GapForgotten DEF Start, env, camera, streams
<1>8. ASSUME NEW how, EndRecording(how), UNCHANGED <<env, streams>> PROVE GInv'
  BY <1>8, GapForgotten DEF EndRecording, env, camera, streams
<1>9. CASE Stop \/ Tick \/ FramesDone
  BY <1>0, <1>9, GapKept DEF Stop, Tick, Enter, FramesDone, env, camera, streams, capture
<1>10. CASE DrainSources
  <2>1. queue'[Clock] = queue[Clock]
    BY <1>10 DEF DrainSources, Topics
  <2>2. QED
    BY <1>0, <1>10, <2>1, GapKept DEF DrainSources, env, camera, grid
<1>11. CASE DrainClock /\ Clock \notin connected
  <2>1. UNCHANGED <<wall, sent, rows, overflowed, period>>
    BY <1>11 DEF DrainClock, env, camera, grid
  <2>2. deferred' = deferred /\ queue'[Clock] = queue[Clock]
    BY <1>11, DrainClockCases
  <2>3. QED
    BY <1>0, <2>1, <2>2, GapKept DEF env
<1>11a. CASE DrainClock /\ Clock \in connected
  <2>1. /\ queue'[Clock] = <<>> /\ deferred' = deferred \o queue[Clock]
        /\ UNCHANGED <<wall, sent, rows, overflowed, period>>
    BY <1>11a, DrainClockCases DEF env, camera, grid
  <2>2. deferred \in Seq(Frame) /\ queue[Clock] \in Seq(Frame)
    BY DEF TypeOK
  <2>3. /\ \A i \in DOMAIN deferred' :
             \/ i \in DOMAIN deferred /\ deferred'[i] = deferred[i]
             \/ /\ i - Len(deferred) \in DOMAIN queue[Clock]
                /\ deferred'[i] = queue[Clock][i - Len(deferred)]
        /\ \A i \in DOMAIN deferred : i \in DOMAIN deferred' /\ deferred'[i] = deferred[i]
        /\ \A i \in DOMAIN queue[Clock] :
             i + Len(deferred) \in DOMAIN deferred' /\ deferred'[i + Len(deferred)] = queue[Clock][i]
    <3> DEFINE p == deferred
               q == queue[Clock]
               r == deferred'
    <3>1. p \in Seq(Frame) /\ q \in Seq(Frame) /\ r = p \o q
      BY <2>1, <2>2
    <3> HIDE DEF p, q, r
    <3>2. /\ Len(p) \in Nat /\ DOMAIN p = 1..Len(p)
          /\ Len(q) \in Nat /\ DOMAIN q = 1..Len(q)
          /\ DOMAIN r = 1..(Len(p) + Len(q))
          /\ \A i \in 1..Len(p) : r[i] = p[i]
          /\ \A i \in (Len(p) + 1)..(Len(p) + Len(q)) : r[i] = q[i - Len(p)]
      BY <3>1, SMTT(30)
    <3>3. \A i \in DOMAIN q : i + Len(p) \in DOMAIN r /\ r[i + Len(p)] = q[i]
      <4> TAKE i \in DOMAIN q
      <4>1. i + Len(p) \in (Len(p) + 1)..(Len(p) + Len(q)) /\ (i + Len(p)) - Len(p) = i
        BY <3>2
      <4>2. QED
        BY <3>2, <4>1
    <3>4. QED
      BY <3>2, <3>3 DEF p, q, r
  <2>4. Elements(deferred') = Pipe
    BY <2>3 DEF Pipe, Elements
  <2>5. SeqsOf(deferred') = SeqsOf(deferred) \cup SeqsOf(queue[Clock])
    <3>1. Elements(deferred') = Elements(deferred) \cup Elements(queue[Clock])
      BY <2>4 DEF Pipe
    <3>2. QED
      BY <3>1, SeqsOfElements
  <2>6. Pipe' = Pipe /\ SeqsOf(queue'[Clock]) = {}
    <3>1. Elements(queue'[Clock]) = {}
      BY <2>1 DEF Elements
    <3>2. Pipe' = Elements(deferred') \cup Elements(queue'[Clock])
      BY DEF Pipe, Elements
    <3>3. SeqsOf(queue'[Clock]) = {}
      BY <2>1 DEF SeqsOf
    <3>4. QED
      BY <2>4, <3>1, <3>2, <3>3
  <2>7. \A n : Kept(n)' <=> Kept(n)
    BY <2>1, <2>5, <2>6 DEF Kept
  <2>8. NoHole'
    BY <2>1, <2>5, <2>6 DEF GInv, NoHole, SeqsOf
  <2>9. QED
    BY <2>1, <2>6, <2>7, <2>8 DEF GInv
<1>12. ASSUME deferred # <<>>, deferred' = Tail(deferred), rows = <<>> \/ period # 0,
              UNCHANGED <<wall, sent, overflowed, queue, rows, period>>
       PROVE  GInv'
  <2>1. /\ Pipe' \subseteq Pipe
        /\ \A x \in Pipe' : \A n \in x.seq..sent : Kept(n)'
    BY <1>12, GapTail
  <2>2. QED
    BY <1>12, <2>1 DEF GInv, NoHole
<1>13. CASE FrameFenced
  <2>1. deferred # <<>> /\ cur.ts < t0
    BY <1>13 DEF FrameFenced, Landing
  <2>2. rows = <<>>
    <3>1. cur \in Pipe /\ cur.ts \in Nat
      BY <2>1, PipeTyped DEF Pipe
    <3>2. rows # <<>> => 1 \in DOMAIN rows
      BY DEF TypeOK
    <3>3. 1 \in DOMAIN rows => rows[1].ts \in Nat /\ rows[1].ts >= t0 /\ rows[1].ts <= cur.ts
      BY <3>1, ElementsTyped DEF OInv, RowsInOrder, GInv
    <3>4. QED
      BY <2>1, <3>1, <3>2, <3>3 DEF TypeOK
  <2>3. QED
    BY <1>12, <1>13, <2>1, <2>2 DEF FrameFenced, env, camera, streams, grid
<1>14. CASE FrameGated
  <2>1. cur.ts \in Nat /\ period \in Nat /\ next_due \in Nat
    BY <1>14, ElementsTyped DEF FrameGated, InSequence, Landing, TypeOK
  <2>2. period > 0
    BY <1>14, <2>1, GateMoves DEF FrameGated
  <2>3. QED
    BY <1>12, <1>14, <2>1, <2>2
       DEF FrameGated, InSequence, Landing, Consume, env, camera, streams
<1>15. CASE FrameStale
  BY <1>8, <1>12, <1>15
     DEF FrameStale, Abort, InSequence, Landing, Consume, env, camera, streams
<1>16. CASE FrameRow
  BY <1>16, GapRow
<1>17. CASE FrameWaits
  BY <1>0, <1>8, <1>17, GapKept DEF FrameWaits, Abort, env, camera, streams, capture
<1>18. CASE FrameBackwards \/ AfterStop
  BY <1>8, <1>18 DEF FrameBackwards, AfterStop, Abort, SubmitFinalize
<1>19. CASE AfterTick
  BY <1>0, <1>8, <1>19, GapKept
     DEF AfterTick, Abort, SubmitFinalize, env, camera, streams, capture
<1>20. CASE Discard
  BY <1>8, <1>20 DEF Discard
<1>21. CASE UNCHANGED vars
  BY <1>0, <1>21, GapKept DEF vars, env, camera, streams, capture
<1>22. QED
  BY <1>1, <1>2, <1>3, <1>4, <1>5, <1>6, <1>7, <1>9, <1>10, <1>11, <1>11a, <1>13, <1>14, <1>15,
     <1>16, <1>17, <1>18, <1>19, <1>20, <1>21
     DEF Next, Environment, HandlerStep

\* The order's invariant holds of every behaviour.
LEMMA OrderInvariant == Spec => []OInv
<1>1. Init => OInv
  BY DEF Init, OInv, Ascending, Before, UpTo, RowsInOrder, Topics
<1>2. QED
  BY <1>1, TypeCorrect, OrderStep, PTL DEF Spec

\* A backwards step is never forgotten.
LEMMA BackStepsGrow ==
  ASSUME TypeOK, [Next]_vars
  PROVE  backSteps' \in {backSteps, backSteps + 1}
BY DEF Next, Environment, HandlerStep, PublishClock, PublishAnswer, PublishWindow,
       CameraRestart, Pass, BackStep, Start, Discard, Stop, Tick, Enter, DrainSources,
       DrainClock, FrameWaits, FrameFenced, FrameBackwards, FrameGated, FrameStale, FrameRow,
       FramesDone, AfterStop, AfterTick, Abort, SubmitFinalize, Consume, env, vars

\* While the wall clock never steps back, a native-rate episode has no hole the
\* queue did not make: neither the paired wait nor the fence nor a stale window
\* source drops a frame between two rows.
THEOREM NoGapIsSilent ==
  Spec => []NoSilentGap
<1> DEFINE NInv == backSteps = 0 => GInv
<1>1. Init => NInv
  BY DEF Init, GInv, Pipe, Elements, NoHole, Topics
<1>2. NInv => NoSilentGap
  BY DEF GInv, NoSilentGap
<1>3. TypeOK /\ OInv /\ NInv /\ [Next]_vars => NInv'
  <2> SUFFICES ASSUME TypeOK, OInv, NInv, [Next]_vars, backSteps' = 0 PROVE GInv'
    OBVIOUS
  <2>1. backSteps = 0
    BY BackStepsGrow DEF TypeOK
  <2>2. QED
    BY <2>1, GapStep
<1>4. QED
  BY <1>1, <1>2, <1>3, TypeCorrect, OrderInvariant, PTL DEF Spec

----------------------------------------------------------------------------
(* The promise of Session *)

Taken == [i \in DOMAIN rows |-> rows[i].seq]

\* The numbers taken form a sequence of naturals.
LEMMA TakenSequence ==
  ASSUME TypeOK
  PROVE  /\ Taken \in Seq(Nat) /\ Len(Taken) = Len(rows) /\ DOMAIN Taken = DOMAIN rows
         /\ rows = <<>> => Taken = <<>>
<1>1. rows \in Seq(Row) /\ DOMAIN rows = 1..Len(rows) /\ Len(rows) \in Nat
  BY DEF TypeOK
<1>2. Taken = [i \in 1..Len(rows) |-> rows[i].seq] /\ \A i \in 1..Len(rows) : rows[i].seq \in Nat
  BY <1>1, ElementsTyped DEF Taken
<1>3. Taken \in Seq(Nat) /\ Len(Taken) = Len(rows)
  BY <1>1, <1>2
<1>4. rows = <<>> => Taken = <<>>
  BY <1>3, EmptySeq
<1>5. QED
  BY <1>1, <1>3, <1>4 DEF Taken

\* The initial states map to those of Session.
LEMMA PromiseInit == Init => Promise!Init
<1> SUFFICES ASSUME Init PROVE Promise!Init
  OBVIOUS
<1>1. rows = <<>> /\ TypeOK
  BY TypeInit DEF Init
<1>2. Taken = <<>>
  BY <1>1, TakenSequence
<1>3. QED
  BY <1>2 DEF Init, Promise!Init, Taken

\* Every step maps to a step of Session or to a stutter.
LEMMA PromiseStep ==
  TypeOK /\ TypeOK' /\ BInv /\ OInv /\ [Next]_vars => [Promise!Next]_(Promise!vars)
<1> SUFFICES ASSUME TypeOK, TypeOK', BInv, OInv, [Next]_vars
             PROVE  Promise!Next \/ UNCHANGED Promise!vars
  OBVIOUS
<1>1. /\ Taken \in Seq(Nat) /\ Len(Taken) = Len(rows) /\ DOMAIN Taken = DOMAIN rows
      /\ rows = <<>> => Taken = <<>>
  BY TakenSequence
<1>2. rows' = <<>> => Taken' = <<>>
  BY TakenSequence, EmptySeq DEF Taken, TypeOK
<1>3. ASSUME UNCHANGED <<state, rows, outcome>> PROVE UNCHANGED Promise!vars
  BY <1>3 DEF Promise!vars
<1>4. CASE Start
  <2>1. state = "idle" /\ state' = "recording" /\ rows' = <<>> /\ outcome' = "none"
    BY <1>4 DEF Start, Forget
  <2>2. QED
    BY <1>2, <2>1 DEF Promise!Next, Promise!Begin, Taken
<1>5. ASSUME NEW how \in {"handed", "failed", "discarded"}, EndRecording(how), state = "recording"
      PROVE  Promise!Next
  <2>1. state' = "idle" /\ rows' = <<>> /\ outcome' = how
    BY <1>5 DEF EndRecording, Forget
  <2>2. QED
    BY <1>2, <1>5, <2>1 DEF Promise!Next, Promise!End, Taken
<1>6. pc # "wait" => state = "recording"
  BY DEF TypeOK
<1>7. CASE FrameRow
  <2>0. rows \in Seq(Row) /\ deferred \in Seq(Frame)
    BY DEF TypeOK
  <2>1. /\ deferred # <<>> /\ state = "recording" /\ state' = state /\ outcome' = outcome
        /\ rows' = Append(rows, RowOf(cur)) /\ RowOf(cur) \in Row /\ RowOf(cur).seq = cur.seq
    BY <1>6, <1>7, RowTyped DEF FrameRow, InSequence, Landing, Consume, control, RowOf
  <2>2. /\ DOMAIN rows = 1..Len(rows) /\ DOMAIN rows' = 1..(Len(rows) + 1) /\ Len(rows) \in Nat
        /\ Len(rows') = Len(rows) + 1
        /\ rows'[Len(rows) + 1].seq = cur.seq /\ \A i \in DOMAIN rows : rows'[i] = rows[i]
    BY <2>0, <2>1
  <2>3. \A i \in DOMAIN rows : rows[i].seq < cur.seq
    <3>1. 1 \in DOMAIN deferred /\ cur = deferred[1]
      BY <2>0, <2>1 DEF cur
    <3>2. QED
      BY <3>1 DEF OInv, Before
  <2>4. Len(rows) < MAX_FRAMES + 2 * CLOCK_BUFFER - 1
    <3>1. Len(deferred) \in Nat /\ Len(deferred) >= 1
      BY <2>0, <2>1
    <3>2. QED
      BY <2>2, <3>1, SizesAssumption DEF BInv, BuffersBounded
  <2>5. /\ Len(Taken') = Len(Taken) + 1 /\ Taken' = [i \in DOMAIN rows' |-> rows'[i].seq]
    <3>1. Len(Taken') = Len(rows')
      <4>1. Taken' = [i \in 1..(Len(rows) + 1) |-> rows'[i].seq]
        BY <2>2 DEF Taken
      <4>2. QED
        BY <2>2, <4>1
    <3>2. QED
      BY <1>1, <2>2, <3>1 DEF Taken
  <2>6. \A i \in DOMAIN Taken : Taken'[i] = Taken[i] /\ Taken[i] < Taken'[Len(Taken')]
    <3>1. Taken'[Len(Taken')] = cur.seq
      BY <1>1, <2>2, <2>5
    <3>2. \A i \in DOMAIN rows : Taken'[i] = rows[i].seq /\ Taken[i] = rows[i].seq
      BY <2>2, <2>5 DEF Taken
    <3>3. QED
      BY <1>1, <2>3, <3>1, <3>2
  <2>7. Promise!Take
    BY <1>1, <2>1, <2>4, <2>5, <2>6 DEF Promise!Take, Taken
  <2>8. QED
    BY <2>7 DEF Promise!Next
<1>8. CASE Environment
  BY <1>3, <1>8
     DEF Environment, PublishClock, PublishAnswer, PublishWindow, CameraRestart, Pass, BackStep,
         capture, control
<1>9. CASE Stop \/ Tick \/ DrainSources \/ DrainClock \/ FrameFenced \/ FrameGated \/ FramesDone
  BY <1>3, <1>9
     DEF Stop, Tick, Enter, DrainSources, DrainClock, FrameFenced, FrameGated, FramesDone,
         Consume, grid, capture, control
<1>10. CASE Discard \/ FrameBackwards \/ AfterStop
  BY <1>5, <1>6, <1>10
     DEF Discard, FrameBackwards, Landing, AfterStop, Abort, SubmitFinalize
<1>11. CASE FrameWaits \/ AfterTick
  BY <1>3, <1>5, <1>6, <1>11 DEF FrameWaits, AfterTick, Abort, SubmitFinalize, capture
<1>12. CASE FrameStale
  BY <1>3, <1>5, <1>6, <1>12 DEF FrameStale, InSequence, Landing, Abort, Consume, control
<1>13. CASE UNCHANGED vars
  BY <1>3, <1>13 DEF vars, capture, control
<1>14. QED
  BY <1>4, <1>7, <1>8, <1>9, <1>10, <1>11, <1>12, <1>13 DEF Next, HandlerStep

\* The bounds' invariant holds of every behaviour.
LEMMA BuffersInvariant == Spec => []BInv
<1>1. Init => BInv
  BY SizesAssumption DEF Init, BInv, BuffersBounded, Topics
<1>2. QED
  BY <1>1, TypeCorrect, BoundsStep, PTL DEF Spec

\* The capture pipeline keeps the promise of Session: a recording takes later
\* and later frames, at most MAX_FRAMES and two buffers' burst of them, and is
\* handed over, failed or discarded exactly once and as a whole.
THEOREM CaptureKeepsPromise == Spec => Implements
BY PromiseInit, PromiseStep, TypeCorrect, BuffersInvariant, OrderInvariant, PTL
   DEF Spec, Implements, Promise!Spec
=============================================================================
