---------------------------- MODULE BridgeProofs ----------------------------
(* Theorems about Bridge: any topics, channels, bounds. *)
EXTENDS Bridge, TLAPS

----------------------------------------------------------------------------
(* Sequences of increasing numbers *)

Inc(s) == \A i, j \in DOMAIN s : i < j => s[i] < s[j]

\* All of s are less than all of t.
Below(s, t) == \A m \in Items(s), n \in Items(t) : m < n

LEMMA EmptyItems == Items(<<>>) = {}
BY DEF Items

LEMMA AppendItems ==
  ASSUME NEW s \in Seq(Nat), NEW n \in Nat PROVE Items(Append(s, n)) = Items(s) \cup {n}
<1>1. Append(s, n) \in Seq(Nat) /\ Len(Append(s, n)) = Len(s) + 1
  OBVIOUS
<1>2. /\ Append(s, n)[Len(s) + 1] = n
      /\ \A p \in 1..Len(s) : Append(s, n)[p] = s[p]
  OBVIOUS
<1>3. DOMAIN Append(s, n) = 1..Len(s) + 1 /\ DOMAIN s = 1..Len(s) /\ Len(s) \in Nat
  BY <1>1
<1>4. ASSUME NEW x \in Items(Append(s, n)) PROVE x \in Items(s) \cup {n}
  <2>1. PICK p \in 1..Len(s) + 1 : x = Append(s, n)[p]
    BY <1>3, <1>4 DEF Items
  <2>2. CASE p = Len(s) + 1
    BY <1>2, <2>1, <2>2
  <2>3. CASE p \in 1..Len(s)
    BY <1>2, <1>3, <2>1, <2>3 DEF Items
  <2>4. QED
    BY <1>3, <2>2, <2>3
<1>5. ASSUME NEW x \in Items(s) \cup {n} PROVE x \in Items(Append(s, n))
  <2>1. CASE x = n
    BY <1>2, <1>3, <2>1 DEF Items
  <2>2. CASE x \in Items(s)
    <3>1. PICK p \in 1..Len(s) : x = s[p]
      BY <1>3, <2>2 DEF Items
    <3>2. QED
      BY <1>2, <1>3, <3>1 DEF Items
  <2>3. QED
    BY <2>1, <2>2
<1>6. QED
  BY <1>4, <1>5

LEMMA AppendInc ==
  ASSUME NEW s \in Seq(Nat), NEW n \in Nat, Inc(s), \A m \in Items(s) : m < n
  PROVE  Inc(Append(s, n))
<1>1. /\ Append(s, n)[Len(s) + 1] = n /\ Len(s) \in Nat
      /\ \A p \in 1..Len(s) : Append(s, n)[p] = s[p]
      /\ DOMAIN Append(s, n) = 1..Len(s) + 1 /\ DOMAIN s = 1..Len(s)
  OBVIOUS
<1>2. ASSUME NEW i \in 1..Len(s) + 1, NEW j \in 1..Len(s) + 1, i < j
      PROVE  Append(s, n)[i] < Append(s, n)[j]
  <2>1. i \in 1..Len(s)
    BY <1>1, <1>2
  <2>2. s[i] \in Items(s)
    BY <1>1, <2>1 DEF Items
  <2>3. CASE j = Len(s) + 1
    BY <1>1, <2>1, <2>2, <2>3
  <2>4. CASE j \in 1..Len(s)
    BY <1>1, <1>2, <2>1, <2>4 DEF Inc
  <2>5. QED
    BY <1>1, <2>3, <2>4
<1>3. QED
  BY <1>1, <1>2 DEF Inc

LEMMA TailItems ==
  ASSUME NEW s \in Seq(Nat), s # <<>>
  PROVE  /\ Items(s) = {Head(s)} \cup Items(Tail(s))
         /\ Head(s) \in Nat /\ Tail(s) \in Seq(Nat)
<1>1. /\ Len(s) \in Nat /\ Len(s) >= 1 /\ Tail(s) \in Seq(Nat) /\ Len(Tail(s)) = Len(s) - 1
      /\ DOMAIN s = 1..Len(s) /\ DOMAIN Tail(s) = 1..Len(s) - 1
      /\ \A p \in 1..Len(s) - 1 : Tail(s)[p] = s[p + 1]
      /\ Head(s) = s[1] /\ Head(s) \in Nat
  OBVIOUS
<1>2. ASSUME NEW x \in Items(s) PROVE x \in {Head(s)} \cup Items(Tail(s))
  <2>1. PICK p \in 1..Len(s) : x = s[p]
    BY <1>1 DEF Items
  <2>2. CASE p = 1
    BY <1>1, <2>1, <2>2
  <2>3. CASE p # 1
    <3>1. p - 1 \in 1..Len(s) - 1 /\ (p - 1) + 1 = p
      BY <1>1, <2>3
    <3>2. Tail(s)[p - 1] = x
      BY <1>1, <2>1, <3>1
    <3>3. QED
      BY <1>1, <3>1, <3>2 DEF Items
  <2>4. QED
    BY <2>2, <2>3
<1>3. ASSUME NEW x \in {Head(s)} \cup Items(Tail(s)) PROVE x \in Items(s)
  <2>1. CASE x = Head(s)
    <3>1. 1 \in DOMAIN s
      BY <1>1
    <3>2. QED
      BY <1>1, <2>1, <3>1 DEF Items
  <2>2. CASE x \in Items(Tail(s))
    <3>1. PICK p \in 1..Len(s) - 1 : x = Tail(s)[p]
      BY <1>1, <2>2 DEF Items
    <3>2. p + 1 \in 1..Len(s) /\ x = s[p + 1]
      BY <1>1, <3>1
    <3>3. QED
      BY <1>1, <3>2 DEF Items
  <2>3. QED
    BY <2>1, <2>2
<1>4. QED
  BY <1>1, <1>2, <1>3

LEMMA TailInc ==
  ASSUME NEW s \in Seq(Nat), s # <<>>, Inc(s)
  PROVE  Inc(Tail(s)) /\ \A m \in Items(Tail(s)) : Head(s) < m
<1>1. /\ Len(s) \in Nat /\ Len(s) >= 1
      /\ DOMAIN s = 1..Len(s) /\ DOMAIN Tail(s) = 1..Len(s) - 1
      /\ \A p \in 1..Len(s) - 1 : Tail(s)[p] = s[p + 1]
      /\ Head(s) = s[1]
  OBVIOUS
<1>2. ASSUME NEW i \in 1..Len(s) - 1, NEW j \in 1..Len(s) - 1, i < j
      PROVE  Tail(s)[i] < Tail(s)[j]
  <2>1. i + 1 \in 1..Len(s) /\ j + 1 \in 1..Len(s) /\ i + 1 < j + 1
    BY <1>1, <1>2
  <2>2. QED
    BY <1>1, <2>1 DEF Inc
<1>3. ASSUME NEW m \in Items(Tail(s)) PROVE Head(s) < m
  <2>1. PICK p \in 1..Len(s) - 1 : m = Tail(s)[p]
    BY <1>1 DEF Items
  <2>2. p + 1 \in 1..Len(s) /\ 1 \in 1..Len(s) /\ 1 < p + 1 /\ m = s[p + 1]
    BY <1>1, <2>1
  <2>3. QED
    BY <1>1, <2>2 DEF Inc
<1>4. QED
  BY <1>1, <1>2, <1>3 DEF Inc

----------------------------------------------------------------------------
(* What was forwarded, what is in hand and what waits *)

Ordered(h, b, q, top) ==
  /\ Inc(h) /\ Inc(b) /\ Inc(q)
  /\ Below(h, b) /\ Below(h, q) /\ Below(b, q)
  /\ \A m \in Items(h) \cup Items(b) \cup Items(q) : m <= top

LEMMA EmptyInc == Inc(<<>>)
BY DEF Inc

\* What was forwarded alone.
LEMMA HeardOrdered ==
  ASSUME NEW h, NEW b, NEW q, NEW top, Ordered(h, b, q, top)
  PROVE  Ordered(h, <<>>, <<>>, top)
BY EmptyItems, EmptyInc DEF Ordered, Below

\* A new ring.
LEMMA RingOrdered ==
  ASSUME NEW h \in Seq(Nat), NEW b \in Seq(Nat), NEW q \in Seq(Nat), NEW top \in Nat,
         Ordered(h, b, q, top)
  PROVE  Ordered(h, b, Append(q, top + 1), top + 1) /\ Ordered(h, b, q, top + 1)
<1>1. Items(h) \subseteq Nat /\ Items(b) \subseteq Nat /\ Items(q) \subseteq Nat
  BY DEF Items
<1>2. \A m \in Items(h) \cup Items(b) \cup Items(q) : m < top + 1
  BY <1>1 DEF Ordered
<1>3. Items(Append(q, top + 1)) = Items(q) \cup {top + 1}
  BY AppendItems
<1>4. Inc(Append(q, top + 1))
  BY <1>2, AppendInc DEF Ordered
<1>5. \A m \in Items(h) \cup Items(b) \cup Items(q) \cup {top + 1} : m <= top + 1
  BY <1>1, <1>2
<1>6. QED
  BY <1>2, <1>3, <1>4, <1>5 DEF Ordered, Below

\* The first in hand is forwarded.
LEMMA ForwardOrdered ==
  ASSUME NEW h \in Seq(Nat), NEW b \in Seq(Nat), NEW q \in Seq(Nat), NEW top \in Nat,
         b # <<>>, Ordered(h, b, q, top)
  PROVE  Ordered(Append(h, Head(b)), Tail(b), q, top)
<1>1. Items(b) = {Head(b)} \cup Items(Tail(b)) /\ Head(b) \in Nat
  BY TailItems
<1>2. Inc(Tail(b)) /\ \A m \in Items(Tail(b)) : Head(b) < m
  BY TailInc DEF Ordered
<1>3. Items(Append(h, Head(b))) = Items(h) \cup {Head(b)}
  BY <1>1, AppendItems
<1>4. \A m \in Items(h) : m < Head(b)
  BY <1>1 DEF Ordered, Below
<1>5. Inc(Append(h, Head(b)))
  BY <1>1, <1>4, AppendInc DEF Ordered
<1>6. QED
  BY <1>1, <1>2, <1>3, <1>5 DEF Ordered, Below

\* What waits is taken in hand.
LEMMA DrainOrdered ==
  ASSUME NEW h, NEW q, NEW top, Ordered(h, <<>>, q, top) PROVE Ordered(h, q, <<>>, top)
BY EmptyItems, EmptyInc DEF Ordered, Below

----------------------------------------------------------------------------
(* The inductive invariant *)

Active(i) == Live(i) /\ ~cancelled[i]

\* A task is born with its message.
Born ==
  \A i \in Ids : /\ i > msgs => pc[i] = "none"
                 /\ pc[i] # "none" => key[i] \in Keys

Registry ==
  \A k \in Keys : registered[k] # 0 => registered[k] <= msgs /\ key[registered[k]] = k

\* Only a listener that is sending has ids in hand.
Idle ==
  \A i \in Ids : /\ pc[i] \notin {"sleep", "send"} => queue[i] = <<>> /\ batch[i] = <<>>
                 /\ pc[i] = "sleep" \/ key[i] \notin Channels => batch[i] = <<>>

InOrder ==
  /\ \A c \in Channels : Ordered(heard[c], <<>>, <<>>, rung[c])
  /\ \A i \in Ids : Active(i) /\ key[i] \in Channels =>
       Ordered(heard[key[i]], batch[i], queue[i], rung[key[i]])

BInv ==
  TypeOK /\ Born /\ Registry /\ NoStrayTask /\ Idle /\ InOrder /\ NoRingLost

LEMMA InvInit == Init => BInv
<1> SUFFICES ASSUME Init PROVE BInv
  OBVIOUS
<1> USE BridgeAssumption
<1>1. <<>> \in Seq(Nat)
  OBVIOUS
<1>2. TypeOK
  BY <1>1 DEF Init, TypeOK
<1>3. \A i \in Ids : pc[i] = "none"
  BY DEF Init
<1>4. Born /\ Registry /\ NoStrayTask /\ Idle /\ NoRingLost
  BY <1>3 DEF Init, Born, Registry, NoStrayTask, Idle, NoRingLost, Live
<1>5. InOrder
  BY <1>3, EmptyItems, EmptyInc DEF Init, InOrder, Active, Live, Ordered, Below
<1>6. QED
  BY <1>2, <1>4, <1>5 DEF BInv

----------------------------------------------------------------------------
(* Types *)

LEMMA CancelTyped ==
  ASSUME TypeOK, NEW S, Cancel(S) PROVE cancelled' \in [Ids -> BOOLEAN]
BY DEF Cancel, TypeOK

LEMMA SpawnTyped ==
  ASSUME TypeOK, NEW k \in Keys, msgs < MaxMsgs, Spawn(k)
  PROVE  /\ key' \in [Ids -> Keys \cup {None}] /\ registered' \in [Keys -> 0..MaxMsgs]
         /\ pc' \in [Ids -> {"none", "new", "sleep", "send", "done"}]
<1>1. msgs + 1 \in 0..MaxMsgs
  BY BridgeAssumption DEF TypeOK
<1>2. QED
  BY <1>1 DEF Spawn, TypeOK

LEMMA RingsTyped ==
  ASSUME TypeOK, NEW c \in Channels, Rings(c)
  PROVE  /\ rung' \in [Channels -> Nat] /\ queue' \in [Ids -> Seq(Nat)]
         /\ dropped' \in [Ids -> SUBSET Nat]
<1>1. rung[c] + 1 \in Nat
  BY DEF TypeOK
<1>2. \A i \in Ids : Append(queue[i], rung[c] + 1) \in Seq(Nat)
  BY <1>1 DEF TypeOK
<1>3. QED
  BY <1>1, <1>2 DEF Rings, TypeOK

LEMMA EndedTyped ==
  ASSUME TypeOK, NEW i \in Ids, Ended(i) PROVE TypeOK'
<1>1. <<>> \in Seq(Nat)
  OBVIOUS
<1>2. QED
  BY <1>1 DEF Ended, TaskRest, world, link, TypeOK

LEMMA ForwardTyped ==
  ASSUME TypeOK, NEW i \in Ids, key[i] \in Channels, NEW ids \in Seq(Nat), ids # <<>>,
         ForwardOf(i, ids)
  PROVE  /\ batch' \in [Ids -> Seq(Nat)] /\ heard' \in [Channels -> Seq(Nat)]
         /\ pc' \in [Ids -> {"none", "new", "sleep", "send", "done"}]
<1>1. Head(ids) \in Nat /\ Tail(ids) \in Seq(Nat)
  BY TailItems
<1>2. Append(heard[key[i]], Head(ids)) \in Seq(Nat)
  BY <1>1 DEF TypeOK
<1>3. QED
  BY <1>1, <1>2 DEF ForwardOf, TypeOK

LEMMA TypeStep == TypeOK /\ [Next]_vars => TypeOK'
<1> SUFFICES ASSUME TypeOK, [Next]_vars PROVE TypeOK'
  OBVIOUS
<1> USE BridgeAssumption
<1> USE DEF world, link, listener, TaskRest
<1>1. ASSUME NEW t \in Topics, Publish(t) PROVE TypeOK'
  BY <1>1 DEF Publish, TypeOK
<1>m. ASSUME Message
      PROVE  /\ msgs' \in 0..MaxMsgs /\ msgs < MaxMsgs
             /\ UNCHANGED <<ws, conn, value, rung, opaque, last>>
             /\ UNCHANGED <<queue, batch, since, dropped, heard>>
  BY <1>m DEF Message, TypeOK
<1>2. ASSUME NEW t \in Topics, Subscribe(t) PROVE TypeOK'
  <2>1. t \in Keys
    BY DEF Keys
  <2>2. QED
    BY <1>2, <1>m, <2>1, CancelTyped, SpawnTyped DEF Subscribe, TypeOK
<1>3. ASSUME NEW c \in Channels, Ring(c) PROVE TypeOK'
  BY <1>3, RingsTyped DEF Ring, TypeOK
<1>4. ASSUME NEW c \in Channels, Listen(c) PROVE TypeOK'
  <2>1. c \in Keys
    BY DEF Keys
  <2>2. QED
    BY <1>4, <1>m, <2>1, SpawnTyped DEF Listen, TypeOK
<1>5. ASSUME NEW c \in Channels, RingEvent(c) PROVE TypeOK'
  <2>1. msgs' \in 0..MaxMsgs
    BY <1>5 DEF RingEvent, TypeOK
  <2>2. QED
    BY <1>5, <2>1, RingsTyped DEF RingEvent, TypeOK
<1>6. ASSUME NEW k \in Keys, Drop(k) PROVE TypeOK'
  <2>1. registered' \in [Keys -> 0..MaxMsgs]
    BY <1>6 DEF Drop, TypeOK
  <2>2. QED
    BY <1>6, <1>m, <2>1, CancelTyped DEF Drop, TypeOK
<1>7. CASE Close
  BY <1>7 DEF Close, TypeOK
<1>8. CASE End
  BY <1>8, CancelTyped DEF End, TypeOK
<1>9. ASSUME NEW i \in Ids, Ended(i) PROVE TypeOK'
  BY <1>9, EndedTyped
<1>10. ASSUME NEW i \in Ids, PollNothing(i) PROVE TypeOK'
  <2>1. since' \in [Ids -> Nat \cup {-1}]
    BY <1>10 DEF PollNothing, TypeOK
  <2>2. QED
    BY <1>10, <2>1 DEF PollNothing, TypeOK
<1>11. ASSUME NEW i \in Ids, PollSend(i) PROVE TypeOK'
  <2>1. Reads(i) \in Nat
    BY <1>11 DEF PollSend, Reads, TypeOK
  <2>2. QED
    BY <1>11, <2>1 DEF PollSend, TypeOK
<1>12. ASSUME NEW i \in Ids, PollSent(i) PROVE TypeOK'
  BY <1>12 DEF PollSent, TypeOK
<1>13. ASSUME NEW i \in Ids, ListenBegin(i) PROVE TypeOK'
  BY <1>13 DEF ListenBegin, TypeOK
<1>14. ASSUME NEW i \in Ids, ListenDrain(i) PROVE TypeOK'
  <2>1. queue[i] \in Seq(Nat) /\ queue[i] # <<>> /\ <<>> \in Seq(Nat)
    BY <1>14 DEF ListenDrain, TypeOK
  <2>2. QED
    BY <1>14, <2>1, ForwardTyped DEF ListenDrain, Drained, TypeOK
<1>15. ASSUME NEW i \in Ids, ListenSent(i) PROVE TypeOK'
  <2>1. CASE batch[i] # <<>> /\ ForwardOf(i, batch[i])
    <3>1. batch[i] \in Seq(Nat) /\ key[i] \in Channels
      BY <1>15 DEF TypeOK, ListenSent
    <3>2. QED
      BY <1>15, <2>1, <3>1, ForwardTyped DEF ListenSent, TypeOK
  <2>2. CASE pc' = [pc EXCEPT ![i] = "sleep"] /\ UNCHANGED <<batch, heard>>
    BY <1>15, <2>2 DEF ListenSent, TypeOK
  <2>3. QED
    BY <1>15, <2>1, <2>2 DEF ListenSent
<1>16. CASE UNCHANGED vars
  BY <1>16 DEF vars, TypeOK
<1>17. QED
  BY <1>1, <1>2, <1>3, <1>4, <1>5, <1>6, <1>7, <1>8, <1>9, <1>10, <1>11, <1>12, <1>13,
     <1>14, <1>15, <1>16
     DEF Next, TaskStep, Cancelled, SendFails

----------------------------------------------------------------------------
(* Steps of the handler and of other processes *)

\* The order stays where nothing is rung, drained or forwarded and only tasks
\* with nothing in hand become active.
LEMMA OrderKept ==
  ASSUME BInv, UNCHANGED <<rung, heard, queue, batch>>,
         \A i \in Ids : Active(i)' =>
           \/ Active(i) /\ key'[i] = key[i]
           \/ queue[i] = <<>> /\ batch[i] = <<>>
  PROVE  InOrder'
<1>1. ASSUME NEW i \in Ids, Active(i)', key'[i] \in Channels
      PROVE  Ordered(heard'[key'[i]], batch'[i], queue'[i], rung'[key'[i]])
  <2>1. CASE Active(i) /\ key'[i] = key[i]
    BY <1>1, <2>1 DEF BInv, InOrder
  <2>2. CASE queue[i] = <<>> /\ batch[i] = <<>>
    BY <1>1, <2>2 DEF BInv, InOrder
  <2>3. QED
    BY <1>1, <2>1, <2>2
<1>2. \A c \in Channels : Ordered(heard'[c], <<>>, <<>>, rung'[c])
  BY DEF BInv, InOrder
<1>3. QED
  BY <1>1, <1>2 DEF InOrder

\* Nor is a ring lost where no listener begins.
LEMMA LostKept ==
  ASSUME BInv, UNCHANGED <<rung, heard, queue, batch, since, dropped>>,
         \A i \in Ids : pc'[i] \in {"sleep", "send"} /\ ~cancelled'[i] =>
           key'[i] = key[i] /\ pc[i] \in {"sleep", "send"} /\ ~cancelled[i]
  PROVE  NoRingLost'
BY DEF BInv, NoRingLost

\* Steps that leave the connection's tables and tasks alone.
LEMMA OutsideKeeps ==
  ASSUME BInv, TypeOK',
         UNCHANGED <<rung, conn, msgs, registered, key, pc, cancelled, listener, heard>>
  PROVE  BInv'
<1> USE DEF listener
<1>1. Born' /\ Registry' /\ NoStrayTask' /\ Idle'
  BY DEF BInv, Born, Registry, NoStrayTask, Idle, Live
<1>2. InOrder' /\ NoRingLost'
  BY OrderKept, LostKept DEF Active, Live
<1>3. QED
  BY <1>1, <1>2 DEF BInv

\* A task begins where none of its key goes on.
LEMMA SpawnKeeps ==
  ASSUME BInv, TypeOK', NEW k \in Keys, Message, Spawn(k),
         \A i \in Ids : cancelled[i] => cancelled'[i],
         \A i \in Ids : Live(i) /\ ~cancelled'[i] => registered[k] # i
  PROVE  BInv'
<1> USE DEF world, link, listener
<1>1. /\ msgs \in Nat /\ msgs + 1 \in Ids /\ msgs' = msgs + 1 /\ conn = "serving"
      /\ UNCHANGED <<conn, rung, heard, queue, batch, since, dropped>>
  BY BridgeAssumption DEF Message, BInv, TypeOK, Ids
<1>2. /\ \A i \in Ids : key'[i] = IF i = msgs + 1 THEN k ELSE key[i]
      /\ \A i \in Ids : pc'[i] = IF i = msgs + 1 THEN "new" ELSE pc[i]
      /\ \A j \in Keys : registered'[j] = IF j = k THEN msgs + 1 ELSE registered[j]
  BY DEF Spawn, BInv, TypeOK
<1>3. pc[msgs + 1] = "none"
  BY <1>1 DEF BInv, Born
<1>4. Born'
  <2>1. ASSUME NEW i \in Ids, i > msgs' PROVE pc'[i] = "none"
    <3>1. i > msgs /\ i # msgs + 1
      BY <1>1, <2>1 DEF Ids
    <3>2. QED
      BY <1>2, <3>1 DEF BInv, Born
  <2>2. ASSUME NEW i \in Ids, pc'[i] # "none" PROVE key'[i] \in Keys
    BY <1>2, <2>2 DEF BInv, Born
  <2>3. QED
    BY <2>1, <2>2 DEF Born
<1>5. Registry'
  <2>1. ASSUME NEW j \in Keys, registered'[j] # 0
        PROVE  registered'[j] <= msgs' /\ key'[registered'[j]] = j
    <3>1. CASE j = k
      BY <1>1, <1>2, <3>1
    <3>2. CASE j # k
      <4>1. registered'[j] = registered[j] /\ registered[j] <= msgs /\ key[registered[j]] = j
        BY <1>2, <2>1, <3>2 DEF BInv, Registry
      <4>2. registered[j] \in Ids /\ registered[j] # msgs + 1
        BY <1>1, <2>1, <4>1 DEF BInv, TypeOK, Ids
      <4>3. QED
        BY <1>1, <1>2, <4>1, <4>2 DEF Ids
    <3>3. QED
      BY <3>1, <3>2
  <2>2. QED
    BY <2>1 DEF Registry
<1>6. NoStrayTask'
  <2>1. ASSUME NEW i \in Ids, Live(i)', ~cancelled'[i]
        PROVE  registered'[key'[i]] = i /\ conn' = "serving"
    <3>1. CASE i = msgs + 1
      BY <1>1, <1>2, <3>1
    <3>2. CASE i # msgs + 1
      <4>1. Live(i) /\ ~cancelled[i] /\ key'[i] = key[i] /\ registered[k] # i
        BY <1>2, <2>1, <3>2 DEF Live
      <4>2. registered[key[i]] = i /\ key[i] \in Keys
        BY <4>1 DEF BInv, NoStrayTask, Born, Live
      <4>3. QED
        BY <1>1, <1>2, <4>1, <4>2
    <3>3. QED
      BY <3>1, <3>2
  <2>2. QED
    BY <2>1 DEF NoStrayTask
<1>7. Idle'
  BY <1>1, <1>2, <1>3 DEF BInv, Idle
<1>8. InOrder'
  <2>1. ASSUME NEW i \in Ids, Active(i)'
        PROVE  \/ Active(i) /\ key'[i] = key[i]
               \/ queue[i] = <<>> /\ batch[i] = <<>>
    BY <1>2, <1>3, <2>1 DEF Active, Live, BInv, Idle
  <2>2. QED
    BY <1>1, <2>1, OrderKept
<1>9. NoRingLost'
  BY <1>1, <1>2, LostKept
<1>10. QED
  BY <1>4, <1>5, <1>6, <1>7, <1>8, <1>9 DEF BInv

LEMMA SubscribeKeeps ==
  ASSUME BInv, TypeOK', NEW t \in Topics, Subscribe(t) PROVE BInv'
<1>1. \A i \in Ids : cancelled'[i] = (cancelled[i] \/ registered[t] = i)
  BY DEF Subscribe, Cancel
<1>2. t \in Keys
  BY DEF Keys
<1>3. QED
  BY <1>1, <1>2, SpawnKeeps DEF Subscribe

LEMMA ListenKeeps ==
  ASSUME BInv, TypeOK', NEW c \in Channels, Listen(c) PROVE BInv'
<1>1. c \in Keys /\ registered[c] = 0 /\ 0 \notin Ids /\ cancelled' = cancelled
  BY DEF Keys, Listen, NotListening, Ids
<1>2. QED
  BY <1>1, SpawnKeeps DEF Listen

\* A task that is dropped is cancelled first.
LEMMA DropKeeps ==
  ASSUME BInv, TypeOK', NEW k \in Keys, Drop(k) PROVE BInv'
<1> USE DEF world, link, listener
<1>1. /\ msgs \in Nat /\ msgs' = msgs + 1 /\ conn' = conn /\ key' = key /\ pc' = pc
      /\ UNCHANGED <<rung, heard, queue, batch, since, dropped>>
  BY DEF Drop, Message, BInv, TypeOK
<1>2. /\ \A i \in Ids : cancelled'[i] = (cancelled[i] \/ registered[k] = i)
      /\ \A j \in Keys : registered'[j] = IF j = k THEN 0 ELSE registered[j]
  BY DEF Drop, Cancel, BInv, TypeOK
<1>3. Born'
  BY <1>1 DEF BInv, Born, Ids
<1>4. Registry'
  BY <1>1, <1>2 DEF BInv, Registry, TypeOK
<1>5. NoStrayTask'
  BY <1>1, <1>2 DEF BInv, NoStrayTask, Live, Born
<1>6. Idle'
  BY <1>1 DEF BInv, Idle
<1>7. InOrder' /\ NoRingLost'
  BY <1>1, <1>2, OrderKept, LostKept DEF Active, Live
<1>8. QED
  BY <1>3, <1>4, <1>5, <1>6, <1>7 DEF BInv

\* The end of the connection cancels every task there is.
LEMMA EndKeeps ==
  ASSUME BInv, TypeOK', End PROVE BInv'
<1> USE DEF world, link, listener
<1>1. /\ UNCHANGED <<msgs, key, pc, registered, rung, heard, queue, batch, since, dropped>>
      /\ \A i \in Ids : cancelled'[i] = (cancelled[i] \/ \E k \in Keys : registered[k] = i)
  BY DEF End, Cancel, EndKeys
<1>2. Born' /\ Registry' /\ Idle'
  BY <1>1 DEF BInv, Born, Registry, Idle
<1>3. ASSUME NEW i \in Ids, Live(i)', ~cancelled'[i] PROVE FALSE
  <2>1. Live(i) /\ ~cancelled[i] /\ \A k \in Keys : registered[k] # i
    BY <1>1, <1>3 DEF Live
  <2>2. registered[key[i]] = i /\ key[i] \in Keys
    BY <2>1 DEF BInv, NoStrayTask, Live, Born
  <2>3. QED
    BY <2>1, <2>2
<1>n. NoStrayTask'
  BY <1>3 DEF NoStrayTask
<1>4. InOrder' /\ NoRingLost'
  BY <1>1, OrderKept, LostKept DEF Active, Live
<1>5. QED
  BY <1>2, <1>n, <1>4 DEF BInv

\* A ring comes after those that any listener has.
LEMMA RingsKeep ==
  ASSUME BInv, TypeOK', NEW c \in Channels, Rings(c), msgs' \in {msgs, msgs + 1},
         UNCHANGED <<conn, registered, key, pc, cancelled, batch, since, heard>>
  PROVE  BInv'
<1>1. /\ \A d \in Channels : rung'[d] = IF d = c THEN rung[c] + 1 ELSE rung[d]
      /\ \A i \in Ids : queue'[i] = IF Connected(i, c) /\ HasRoom(i)
                                    THEN Append(queue[i], rung[c] + 1) ELSE queue[i]
      /\ \A i \in Ids : dropped'[i] = IF Connected(i, c) /\ ~HasRoom(i)
                                      THEN dropped[i] \cup {rung[c] + 1} ELSE dropped[i]
      /\ rung[c] \in Nat /\ msgs \in Nat
  BY DEF Rings, BInv, TypeOK
<1>2. Born' /\ Registry' /\ NoStrayTask'
  BY <1>1 DEF BInv, Born, Registry, NoStrayTask, Live, Ids, TypeOK
<1>3. Idle'
  BY <1>1 DEF BInv, Idle, Connected
<1>4. \A i \in Ids : queue[i] \in Seq(Nat) /\ batch[i] \in Seq(Nat)
  BY DEF BInv, TypeOK
<1>5. \A d \in Channels : heard[d] \in Seq(Nat) /\ <<>> \in Seq(Nat)
  BY DEF BInv, TypeOK
<1>6. InOrder'
  <2>1. ASSUME NEW d \in Channels PROVE Ordered(heard'[d], <<>>, <<>>, rung'[d])
    BY <1>1, <1>5, RingOrdered DEF BInv, InOrder
  <2>2. ASSUME NEW i \in Ids, Active(i)', key'[i] \in Channels
        PROVE  Ordered(heard'[key'[i]], batch'[i], queue'[i], rung'[key'[i]])
    <3>1. Ordered(heard[key[i]], batch[i], queue[i], rung[key[i]])
      BY <2>2 DEF BInv, InOrder, Active, Live
    <3>2. CASE key[i] = c
      <4>1. /\ Ordered(heard[c], batch[i], Append(queue[i], rung[c] + 1), rung[c] + 1)
            /\ Ordered(heard[c], batch[i], queue[i], rung[c] + 1)
        BY <1>1, <1>4, <1>5, <3>1, <3>2, RingOrdered
      <4>2. /\ heard'[key'[i]] = heard[c] /\ batch'[i] = batch[i]
            /\ rung'[key'[i]] = rung[c] + 1
            /\ queue'[i] \in {queue[i], Append(queue[i], rung[c] + 1)}
        BY <1>1, <3>2
      <4>3. QED
        BY <4>1, <4>2
    <3>3. CASE key[i] # c
      <4>1. queue'[i] = queue[i] /\ rung'[key'[i]] = rung[key[i]]
        BY <1>1, <2>2, <3>3 DEF Connected
      <4>2. QED
        BY <3>1, <4>1
    <3>4. QED
      BY <3>2, <3>3
  <2>3. QED
    BY <2>1, <2>2 DEF InOrder
<1>7. NoRingLost'
  <2>1. ASSUME NEW i \in Ids, key[i] \in Channels, pc[i] \in {"sleep", "send"}, ~cancelled[i],
               NEW n \in since[i] + 1 .. rung'[key[i]]
        PROVE  n \in Items(heard[key[i]]) \cup Items(batch[i]) \cup Items(queue'[i])
                        \cup dropped'[i]
    <3>0. since[i] + 1 .. rung[key[i]]
            \subseteq Items(heard[key[i]]) \cup Items(batch[i]) \cup Items(queue[i])
                        \cup dropped[i]
      BY <2>1 DEF BInv, NoRingLost
    <3>i. since[i] \in Nat \cup {-1} /\ rung[key[i]] \in Nat
      BY <2>1 DEF BInv, TypeOK
    <3>1. CASE key[i] = c
      <4>1. Items(queue'[i]) \cup dropped'[i]
              = Items(queue[i]) \cup dropped[i] \cup {rung[c] + 1}
        <5>0. Connected(i, c)
          BY <2>1, <3>1 DEF Connected
        <5>1. CASE HasRoom(i)
          <6>1. queue'[i] = Append(queue[i], rung[c] + 1) /\ dropped'[i] = dropped[i]
            BY <1>1, <5>0, <5>1
          <6>2. Items(Append(queue[i], rung[c] + 1)) = Items(queue[i]) \cup {rung[c] + 1}
            BY <1>1, <1>4, AppendItems
          <6>3. QED
            BY <6>1, <6>2
        <5>2. CASE ~HasRoom(i)
          BY <1>1, <5>0, <5>2
        <5>3. QED
          BY <5>1, <5>2
      <4>2. n = rung[c] + 1 \/ n \in since[i] + 1 .. rung[key[i]]
        BY <1>1, <2>1, <3>1, <3>i
      <4>3. QED
        BY <3>0, <4>1, <4>2
    <3>2. CASE key[i] # c
      BY <1>1, <2>1, <3>0, <3>2 DEF Connected
    <3>3. QED
      BY <3>1, <3>2
  <2>2. QED
    BY <2>1 DEF NoRingLost
<1>8. QED
  BY <1>2, <1>3, <1>6, <1>7 DEF BInv

----------------------------------------------------------------------------
(* Steps of a task *)

\* Only a task that was born ends.
LEMMA EndedBorn ==
  ASSUME BInv, NEW i \in Ids, Ended(i), Live(i) PROVE Born'
<1>1. \A j \in Ids : pc'[j] = IF j = i THEN "done" ELSE pc[j]
  BY DEF Ended, BInv, TypeOK
<1>2. key' = key /\ msgs' = msgs
  BY DEF Ended, TaskRest, link
<1>3. QED
  BY <1>1, <1>2 DEF BInv, Born, Live

\* A task that ends keeps the invariant.
LEMMA EndedKeeps ==
  ASSUME BInv, TypeOK', NEW i \in Ids, Live(i), Ended(i) PROVE BInv'
<1> USE DEF world, link
<1>1. /\ UNCHANGED <<value, rung, conn, msgs, registered, key, cancelled, heard>>
      /\ \A j \in Ids : /\ pc'[j] = IF j = i THEN "done" ELSE pc[j]
                        /\ queue'[j] = IF j = i THEN <<>> ELSE queue[j]
                        /\ batch'[j] = IF j = i THEN <<>> ELSE batch[j]
                        /\ since'[j] = IF j = i THEN -1 ELSE since[j]
                        /\ dropped'[j] = IF j = i THEN {} ELSE dropped[j]
  BY DEF Ended, TaskRest, BInv, TypeOK
<1>2. Registry'
  BY <1>1 DEF BInv, Registry
<1>3. NoStrayTask' /\ Idle'
  BY <1>1 DEF BInv, NoStrayTask, Idle, Live
<1>4. InOrder'
  BY <1>1 DEF BInv, InOrder, Active, Live
<1>5. NoRingLost'
  BY <1>1 DEF BInv, NoRingLost
<1>6. QED
  BY <1>1, <1>2, <1>3, <1>4, <1>5, EndedBorn DEF BInv

\* Steps of a task that only move it on.
LEMMA MovedKeeps ==
  ASSUME BInv, TypeOK', NEW i \in Ids, NEW next \in {"sleep", "send"},
         pc[i] \in {"new", "sleep", "send"}, pc' = [pc EXCEPT ![i] = next],
         next = "sleep" => batch[i] = <<>>,
         UNCHANGED <<rung, conn, msgs, registered, key, cancelled, queue, batch, dropped, heard>>,
         \A j \in Ids \ {i} : since'[j] = since[j],
         key[i] \in Channels =>
           \/ since'[i] = rung[key[i]]
           \/ since'[i] = since[i] /\ pc[i] \in {"sleep", "send"}
  PROVE  BInv'
<1>1. \A j \in Ids : pc'[j] = IF j = i THEN next ELSE pc[j]
  BY DEF BInv, TypeOK
<1>2. Born' /\ Registry' /\ NoStrayTask' /\ Idle'
  BY <1>1 DEF BInv, Born, Registry, NoStrayTask, Idle, Live
<1>3. \A j \in Ids : Active(j)' => Active(j)
  BY <1>1 DEF Active, Live
<1>4. InOrder'
  BY <1>3, OrderKept
<1>5. NoRingLost'
  <2>1. ASSUME NEW j \in Ids, key[j] \in Channels, pc'[j] \in {"sleep", "send"}, ~cancelled[j]
        PROVE  since'[j] + 1 .. rung[key[j]]
                 \subseteq Items(heard[key[j]]) \cup Items(batch[j]) \cup Items(queue[j])
                             \cup dropped[j]
    <3>1. CASE since'[j] = since[j] /\ pc[j] \in {"sleep", "send"}
      BY <2>1, <3>1 DEF BInv, NoRingLost
    <3>2. CASE since'[j] = rung[key[j]]
      <4>1. rung[key[j]] \in Nat
        BY <2>1 DEF BInv, TypeOK
      <4>2. QED
        BY <3>2, <4>1
    <3>3. QED
      BY <1>1, <2>1, <3>1, <3>2
  <2>2. QED
    BY <2>1 DEF NoRingLost
<1>6. QED
  BY <1>2, <1>4, <1>5 DEF BInv

\* The first of the ids in hand goes to the client; the task is the one its
\* channel is registered with, so nobody else forwards rings of it.
LEMMA ForwardKeeps ==
  ASSUME BInv, TypeOK', NEW i \in Ids, key[i] \in Channels, Resumed(i, {"sleep", "send"}),
         NEW ids \in Seq(Nat), ids # <<>>, NEW rest \in Seq(Nat),
         Ordered(heard[key[i]], ids, rest, rung[key[i]]),
         Items(ids) \cup Items(rest) = Items(batch[i]) \cup Items(queue[i]),
         queue' = [queue EXCEPT ![i] = rest],
         ForwardOf(i, ids), UNCHANGED <<since, dropped>>, TaskRest
  PROVE  BInv'
<1> USE DEF world, link
<1>1. /\ UNCHANGED <<value, rung, conn, msgs, registered, key, cancelled, since, dropped>>
      /\ \A j \in Ids : /\ pc'[j] = IF j = i THEN "send" ELSE pc[j]
                        /\ queue'[j] = IF j = i THEN rest ELSE queue[j]
                        /\ batch'[j] = IF j = i THEN Tail(ids) ELSE batch[j]
      /\ \A c \in Channels : heard'[c] = IF c = key[i] THEN Append(heard[c], Head(ids))
                                       ELSE heard[c]
  BY DEF ForwardOf, TaskRest, BInv, TypeOK
<1>2. pc[i] \in {"sleep", "send"} /\ ~cancelled[i]
  BY DEF Resumed
<1>3. Born' /\ Registry' /\ NoStrayTask' /\ Idle'
  BY <1>1, <1>2 DEF BInv, Born, Registry, NoStrayTask, Idle, Live
<1>4. \A j \in Ids : Active(j) /\ key[j] = key[i] => j = i
  BY <1>2 DEF BInv, NoStrayTask, Active, Live
<1>5. \A j \in Ids : Active(j)' => Active(j)
  BY <1>1, <1>2 DEF Active, Live
<1>6. heard[key[i]] \in Seq(Nat) /\ rung[key[i]] \in Nat
  BY DEF BInv, TypeOK
<1>7. Ordered(heard'[key[i]], Tail(ids), rest, rung[key[i]])
  BY <1>1, <1>6, ForwardOrdered
<1>8. InOrder'
  <2>1. ASSUME NEW c \in Channels PROVE Ordered(heard'[c], <<>>, <<>>, rung[c])
    <3>1. CASE c = key[i]
      BY <1>7, <3>1, HeardOrdered
    <3>2. CASE c # key[i]
      BY <1>1, <3>2 DEF BInv, InOrder
    <3>3. QED
      BY <3>1, <3>2
  <2>2. ASSUME NEW j \in Ids, Active(j)', key[j] \in Channels
        PROVE  Ordered(heard'[key[j]], batch'[j], queue'[j], rung[key[j]])
    <3>1. CASE j = i
      BY <1>1, <1>7, <3>1
    <3>2. CASE j # i
      <4>1. Active(j) /\ key[j] # key[i]
        BY <1>4, <1>5, <2>2, <3>2
      <4>2. QED
        BY <1>1, <2>2, <3>2, <4>1 DEF BInv, InOrder
    <3>3. QED
      BY <3>1, <3>2
  <2>3. QED
    BY <1>1, <2>1, <2>2 DEF InOrder
<1>9. NoRingLost'
  <2>1. /\ Head(ids) \in Nat
        /\ Items(ids) = {Head(ids)} \cup Items(Tail(ids))
        /\ Items(Append(heard[key[i]], Head(ids))) = Items(heard[key[i]]) \cup {Head(ids)}
    BY <1>6, TailItems, AppendItems
  <2>2. ASSUME NEW j \in Ids, key[j] \in Channels, pc'[j] \in {"sleep", "send"}, ~cancelled[j]
        PROVE  since[j] + 1 .. rung[key[j]]
                 \subseteq Items(heard'[key[j]]) \cup Items(batch'[j]) \cup Items(queue'[j])
                             \cup dropped[j]
    <3>0. pc[j] \in {"sleep", "send"}
      BY <1>1, <1>2, <2>2
    <3>1. since[j] + 1 .. rung[key[j]]
            \subseteq Items(heard[key[j]]) \cup Items(batch[j]) \cup Items(queue[j])
                        \cup dropped[j]
      BY <2>2, <3>0 DEF BInv, NoRingLost
    <3>2. CASE j = i
      BY <1>1, <2>1, <3>1, <3>2
    <3>3. CASE j # i
      <4>1. key[j] # key[i]
        BY <1>4, <2>2, <3>0, <3>3 DEF Active, Live
      <4>2. QED
        BY <1>1, <2>2, <3>1, <3>3, <4>1
    <3>4. QED
      BY <3>2, <3>3
  <2>3. QED
    BY <1>1, <2>2 DEF NoRingLost
<1>10. QED
  BY <1>3, <1>8, <1>9 DEF BInv

LEMMA DrainKeeps ==
  ASSUME BInv, TypeOK', NEW i \in Ids, ListenDrain(i) PROVE BInv'
<1>1. /\ key[i] \in Channels /\ Resumed(i, {"sleep"}) /\ queue[i] # <<>>
      /\ queue' = [queue EXCEPT ![i] = <<>>] /\ ForwardOf(i, queue[i])
      /\ UNCHANGED <<since, dropped>> /\ TaskRest
  BY DEF ListenDrain, Drained
<1>2. batch[i] = <<>>
  BY <1>1 DEF Resumed, BInv, Idle
<1>3. Ordered(heard[key[i]], <<>>, queue[i], rung[key[i]])
  BY <1>1, <1>2 DEF Resumed, BInv, InOrder, Active, Live
<1>4. Ordered(heard[key[i]], queue[i], <<>>, rung[key[i]])
  BY <1>3, DrainOrdered
<1>5. queue[i] \in Seq(Nat) /\ <<>> \in Seq(Nat) /\ Resumed(i, {"sleep", "send"})
  BY <1>1 DEF BInv, TypeOK, Resumed
<1>6. Items(queue[i]) \cup Items(<<>>) = Items(batch[i]) \cup Items(queue[i])
  BY <1>2
<1>7. QED
  BY <1>1, <1>4, <1>5, <1>6, ForwardKeeps

LEMMA SentKeeps ==
  ASSUME BInv, TypeOK', NEW i \in Ids, ListenSent(i) PROVE BInv'
<1>1. key[i] \in Channels /\ Resumed(i, {"send"}) /\ UNCHANGED <<queue, since, dropped>> /\ TaskRest
  BY DEF ListenSent
<1>2. CASE batch[i] # <<>> /\ ForwardOf(i, batch[i])
  <2>1. Ordered(heard[key[i]], batch[i], queue[i], rung[key[i]])
    BY <1>1 DEF Resumed, BInv, InOrder, Active, Live
  <2>2. /\ batch[i] \in Seq(Nat) /\ queue[i] \in Seq(Nat) /\ Resumed(i, {"sleep", "send"})
        /\ queue' = [queue EXCEPT ![i] = queue[i]]
    BY <1>1 DEF BInv, TypeOK, Resumed
  <2>3. QED
    BY <1>1, <1>2, <2>1, <2>2, ForwardKeeps
<1>3. CASE batch[i] = <<>> /\ pc' = [pc EXCEPT ![i] = "sleep"] /\ UNCHANGED <<batch, heard>>
  BY <1>1, <1>3, MovedKeeps DEF TaskRest, world, link, Resumed
<1>4. QED
  BY <1>2, <1>3 DEF ListenSent

----------------------------------------------------------------------------
(* The invariant *)

LEMMA InvStep == BInv /\ [Next]_vars => BInv'
<1> SUFFICES ASSUME BInv, [Next]_vars PROVE BInv'
  OBVIOUS
<1>t. TypeOK'
  BY TypeStep DEF BInv
<1> USE <1>t
<1> USE DEF world, link, listener, TaskRest
<1>1. ASSUME NEW t \in Topics, Publish(t) PROVE BInv'
  BY <1>1, OutsideKeeps DEF Publish
<1>2. ASSUME NEW t \in Topics, Subscribe(t) PROVE BInv'
  BY <1>2, SubscribeKeeps
<1>3. ASSUME NEW c \in Channels, Ring(c) PROVE BInv'
  BY <1>3, RingsKeep DEF Ring
<1>4. ASSUME NEW c \in Channels, Listen(c) PROVE BInv'
  BY <1>4, ListenKeeps
<1>5. ASSUME NEW c \in Channels, RingEvent(c) PROVE BInv'
  BY <1>5, RingsKeep DEF RingEvent
<1>6. ASSUME NEW k \in Keys, Drop(k) PROVE BInv'
  BY <1>6, DropKeeps
<1>7. CASE Close
  BY <1>7, OutsideKeeps DEF Close
<1>8. CASE End
  BY <1>8, EndKeeps
<1>9. ASSUME NEW i \in Ids, Cancelled(i) \/ SendFails(i) PROVE BInv'
  BY <1>9, EndedKeeps DEF Cancelled, SendFails
<1>10. ASSUME NEW i \in Ids, key[i] \in Topics PROVE key[i] \notin Channels
  BY <1>10, BridgeAssumption DEF Topics
<1>11. ASSUME NEW i \in Ids, PollNothing(i) PROVE BInv'
  <2>1. \A j \in Ids \ {i} : since'[j] = since[j]
    BY <1>11 DEF PollNothing, BInv, TypeOK
  <2>2. pc[i] \in {"new", "sleep"} /\ batch[i] = <<>>
    BY <1>11 DEF PollNothing, Resumed, BInv, Idle
  <2>3. QED
    BY <1>10, <1>11, <2>1, <2>2, MovedKeeps DEF PollNothing
<1>12. ASSUME NEW i \in Ids, PollSend(i) PROVE BInv'
  BY <1>10, <1>12, MovedKeeps DEF PollSend, Resumed
<1>13. ASSUME NEW i \in Ids, PollSent(i) PROVE BInv'
  <2>1. batch[i] = <<>>
    BY <1>10, <1>13 DEF PollSent, BInv, Idle
  <2>2. QED
    BY <1>10, <1>13, <2>1, MovedKeeps DEF PollSent, Resumed
<1>14. ASSUME NEW i \in Ids, ListenBegin(i) PROVE BInv'
  <2>1. \A j \in Ids : since'[j] = IF j = i THEN rung[key[i]] ELSE since[j]
    BY <1>14 DEF ListenBegin, BInv, TypeOK
  <2>2. pc[i] = "new" /\ batch[i] = <<>>
    BY <1>14 DEF ListenBegin, Resumed, BInv, Idle
  <2>3. QED
    BY <1>14, <2>1, <2>2, MovedKeeps DEF ListenBegin
<1>15. ASSUME NEW i \in Ids, ListenDrain(i) PROVE BInv'
  BY <1>15, DrainKeeps
<1>16. ASSUME NEW i \in Ids, ListenSent(i) PROVE BInv'
  BY <1>16, SentKeeps
<1>17. CASE UNCHANGED vars
  BY <1>17, OutsideKeeps DEF vars
<1>18. QED
  BY <1>1, <1>2, <1>3, <1>4, <1>5, <1>6, <1>7, <1>8, <1>9, <1>11, <1>12, <1>13, <1>14,
     <1>15, <1>16, <1>17
     DEF Next, TaskStep

LEMMA Invariant == Spec => []BInv
BY InvInit, InvStep, PTL DEF Spec

----------------------------------------------------------------------------
(* Results *)

\* Every variable of a connection keeps its type (ws_handler and its tasks).
THEOREM ConnectionTyped == Spec => []TypeOK
BY Invariant, PTL DEF BInv

\* A task nobody cancelled is the one its key is registered with, and only
\* while the handler serves (sub_tasks and listen_tasks of ws_handler).
THEOREM TasksAreRegistered == Spec => []NoStrayTask
BY Invariant, PTL DEF BInv

\* What is sent was asked for, by the last message about it
\* (poll_and_send and listen_and_forward after a cancel()).
THEOREM NothingUnwantedIsSent == Spec => SentOnlyWhileWanted
<1>1. BInv /\ [Next]_vars =>
        [/\ \A i \in Ids : last'[i] > last[i] => registered[key[i]] = i
         /\ \A c \in Channels : heard'[c] # heard[c] => registered[c] # 0]_vars
  <2> SUFFICES ASSUME BInv, Next
               PROVE  /\ \A i \in Ids : last'[i] > last[i] => registered[key[i]] = i
                      /\ \A c \in Channels : heard'[c] # heard[c] => registered[c] # 0
    OBVIOUS
  <2>1. \A i \in Ids : last[i] \in Nat
    BY DEF BInv, TypeOK
  <2>2. CASE UNCHANGED <<last, heard>>
    BY <2>1, <2>2
  <2>3. ASSUME NEW i \in Ids, Ended(i)
        PROVE  heard' = heard /\ \A j \in Ids : ~(last'[j] > last[j])
    <3>1. \A j \in Ids : last'[j] = IF j = i THEN 0 ELSE last[j]
      BY <2>3 DEF Ended, BInv, TypeOK
    <3>2. QED
      BY <2>1, <2>3, <3>1 DEF Ended
  <2>4. ASSUME NEW i \in Ids, PollSend(i)
        PROVE  heard' = heard /\ \A j \in Ids : last'[j] > last[j] => registered[key[j]] = j
    <3>1. \A j \in Ids \ {i} : last'[j] = last[j]
      BY <2>4 DEF PollSend, BInv, TypeOK
    <3>2. registered[key[i]] = i
      BY <2>4 DEF PollSend, Resumed, BInv, NoStrayTask, Live
    <3>3. QED
      BY <2>1, <2>4, <3>1, <3>2 DEF PollSend
  <2>5. ASSUME NEW i \in Ids, ListenDrain(i) \/ ListenSent(i)
        PROVE  last' = last /\ \A c \in Channels : heard'[c] # heard[c] => registered[c] # 0
    <3>1. \A c \in Channels : c # key[i] => heard'[c] = heard[c]
      BY <2>5 DEF ListenDrain, ListenSent, ForwardOf, BInv, TypeOK
    <3>2. registered[key[i]] = i /\ i # 0
      BY <2>5 DEF ListenDrain, ListenSent, Resumed, BInv, NoStrayTask, Live, Ids
    <3>3. QED
      BY <2>5, <3>1, <3>2 DEF ListenDrain, ListenSent
  <2>6. ASSUME NEW t \in Topics, Publish(t) \/ Subscribe(t) PROVE UNCHANGED <<last, heard>>
    BY <2>6 DEF Publish, Subscribe, Message
  <2>7. ASSUME NEW c \in Channels, Ring(c) \/ Listen(c) \/ RingEvent(c)
        PROVE  UNCHANGED <<last, heard>>
    BY <2>7 DEF Ring, Listen, RingEvent, Message
  <2>8. ASSUME NEW k \in Keys, Drop(k) PROVE UNCHANGED <<last, heard>>
    BY <2>8 DEF Drop, Message
  <2>9. ASSUME Close \/ End PROVE UNCHANGED <<last, heard>>
    BY <2>9 DEF Close, End
  <2>10. ASSUME NEW i \in Ids, PollNothing(i) \/ PollSent(i) \/ ListenBegin(i)
         PROVE  UNCHANGED <<last, heard>>
    BY <2>10 DEF PollNothing, PollSent, ListenBegin
  <2>11. ASSUME NEW i \in Ids, TaskStep(i)
         PROVE  \/ UNCHANGED <<last, heard>>
                \/ Ended(i) \/ PollSend(i) \/ ListenDrain(i) \/ ListenSent(i)
    BY <2>10, <2>11 DEF TaskStep, Cancelled, SendFails
  <2>12. \/ UNCHANGED <<last, heard>>
         \/ \E i \in Ids : Ended(i) \/ PollSend(i) \/ ListenDrain(i) \/ ListenSent(i)
    BY <2>6, <2>7, <2>8, <2>9, <2>11 DEF Next
  <2>13. QED
    BY <2>1, <2>2, <2>3, <2>4, <2>5, <2>12
<1>2. QED
  BY <1>1, Invariant, PTL DEF Spec, SentOnlyWhileWanted

\* However often the client listens and stops, each ring since a listener is
\* there is forwarded once and in order, whatever the depth of the queue; the
\* only rings lost are those that met a full one (listen_and_forward's drain()).
THEOREM RingsForwardedOnce == Spec => []EveryRingOnce
<1>1. BInv => EveryRingOnce
  BY DEF BInv, InOrder, Ordered, Inc, EveryRingOnce, RingsInOrder
<1>2. QED
  BY <1>1, Invariant, PTL
=============================================================================
