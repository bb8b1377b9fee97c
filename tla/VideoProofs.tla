---------------------------- MODULE VideoProofs ----------------------------
(* Theorems about Video: any viewers, slots and frames. *)
EXTENDS Video, FiniteSetTheorems, TLAPS

----------------------------------------------------------------------------
(* The inductive invariant *)

\* No picture is newer than the stream.
Numbers ==
  /\ cache <= sent
  /\ \A c \in Clients : got[c] <= sent /\ image[c] <= sent

\* A viewer's thread always has a frame; /frame's may have none.
Encoding(c) == pc[c] \in {"encode", "stored"}
Threads == \A v \in Viewers : Encoding(v) => image[v] # 0

\* While a viewer's frame is being encoded, whatever else is has a frame no
\* older, or was being encoded when the viewer took its own; and so has, once
\* the viewer's picture is stored, whatever the cache holds by then.
Overlaps ==
  \A v \in Viewers :
    /\ Encoding(v) => \A c \in Clients :
         pc[c] = "encode" /\ image[c] # 0 => image[c] >= image[v] \/ image[c] \in older[v]
    /\ pc[v] = "stored" => cache >= image[v] \/ cache \in older[v]

VInv == TypeOK /\ IsFiniteSet(ports) /\ Numbers /\ Threads /\ Overlaps

LEMMA VInit == Init => VInv
<1> SUFFICES ASSUME Init PROVE VInv
  OBVIOUS
<1>1. IsFiniteSet({}) /\ Cardinality({}) = 0
  BY FS_EmptySet
<1>2. TypeOK
  <2>1. 0 \in 0..MaxFrames /\ Slots \in Nat
    BY VideoAssumption
  <2>2. Cardinality(ports) <= Slots
    BY <1>1, <2>1 DEF Init
  <2>3. QED
    BY <2>1, <2>2 DEF Init, TypeOK
<1>3. Numbers /\ Threads /\ Overlaps
  BY VideoAssumption DEF Init, Numbers, Threads, Overlaps, Encoding, Clients
<1>4. QED
  BY <1>1, <1>2, <1>3 DEF Init, VInv

----------------------------------------------------------------------------
(* Slots *)

\* A port is opened only while there is a slot, and ports are given back one
\* by one.
LEMMA SlotsStep ==
  ASSUME VInv, [Next]_vars
  PROVE  ports' \subseteq Clients /\ IsFiniteSet(ports') /\ Cardinality(ports') <= Slots
<1> USE DEF VInv, TypeOK
<1>0. Slots \in Nat /\ Cardinality(ports) \in Nat
  BY VideoAssumption, FS_CardinalityType
<1>1. ASSUME NEW c \in Clients, Ensure(c)
      PROVE  ports' \subseteq Clients /\ IsFiniteSet(ports') /\ Cardinality(ports') <= Slots
  <2>1. CASE c \notin ports /\ Cardinality(ports) < Slots /\ ports' = ports \cup {c}
    <3>1. IsFiniteSet(ports') /\ Cardinality(ports') = Cardinality(ports) + 1
      BY <2>1, FS_AddElement
    <3>2. QED
      BY <1>0, <2>1, <3>1
  <2>2. QED
    BY <1>1, <2>1 DEF Ensure
<1>2. ASSUME NEW v \in Clients, Quit(v)
      PROVE  ports' \subseteq Clients /\ IsFiniteSet(ports') /\ Cardinality(ports') <= Slots
  <2>1. ports' = ports \ {v}
    BY <1>2 DEF Quit
  <2>2. IsFiniteSet(ports') /\ Cardinality(ports') <= Cardinality(ports)
    BY <2>1, FS_RemoveElement, FS_Subset, FS_CardinalityType, ports \ {v} \subseteq ports
  <2>3. Cardinality(ports') \in Nat
    BY <2>2, FS_CardinalityType
  <2>4. QED
    BY <1>0, <2>1, <2>2, <2>3
<1>3. CASE ports' = ports
  BY <1>3
<1>4. QED
  BY <1>1, <1>2, <1>3
     DEF Next, Handler, Request, Publish, Store, EncodeRaises, Join, Greet, LookOpens, Look, Drain,
         Encoded, Keepalive, Pushed, Leave, Hangup, Lost, GiveUp, SnapOpens, SnapLooks,
         SnapReturns, Clients, vars

----------------------------------------------------------------------------
(* Types *)

LEMMA TypeStep == VInv /\ [Next]_vars => TypeOK'
<1> SUFFICES ASSUME VInv, [Next]_vars PROVE TypeOK'
  OBVIOUS
<1> USE DEF VInv, TypeOK
<1>0. ports' \subseteq Clients /\ Cardinality(ports') <= Slots
  BY SlotsStep
<1>a. MaxFrames \in Nat /\ Viewers \subseteq Clients /\ Snap \in Clients
  BY VideoAssumption DEF Clients
<1>1. sent' \in 0..MaxFrames /\ cache' \in 0..MaxFrames
  <2>1. CASE Publish
    BY <1>a, <2>1 DEF Publish
  <2>2. ASSUME NEW c \in Clients, Store(c) PROVE sent' = sent /\ cache' \in 0..MaxFrames
    BY <2>2 DEF Store, Stored
  <2>3. CASE UNCHANGED <<sent, cache>>
    BY <2>3
  <2>4. QED
    BY <2>1, <2>2, <2>3
       DEF Next, Handler, Request, EncodeRaises, Join, Greet, LookOpens, Look, Encoded,
           Keepalive, Pushed, Leave, Hangup, Lost, GiveUp, SnapOpens, SnapLooks, SnapReturns, vars
<1>2. older' \in [Viewers -> SUBSET (1..MaxFrames)]
  <2>1. Older(sent) \subseteq 1..MaxFrames
    BY <1>a DEF Older
  <2>2. QED
    BY <2>1 DEF Next, Handler, Request, Publish, Store, EncodeRaises, Join, Greet, LookOpens,
       Look, Encoded, Keepalive, Pushed, Leave, Hangup, Lost, GiveUp, SnapOpens, SnapLooks,
       SnapReturns, vars
<1>3. got' \in [Clients -> 0..MaxFrames]
  BY <1>a DEF Next, Handler, Request, Publish, Store, EncodeRaises, Join, Greet, LookOpens, Look, Drain,
     Ensure, Encoded, Keepalive, Pushed, Leave, Quit, Hangup, Lost, GiveUp, SnapOpens, SnapLooks,
     SnapReturns, vars
<1>4. image' \in [Clients -> 0..MaxFrames]
  BY <1>a DEF Next, Handler, Request, Publish, Store, EncodeRaises, Join, Greet, LookOpens, Look,
     Encoded, Keepalive, Pushed, Leave, Hangup, Lost, GiveUp, SnapOpens, SnapLooks,
     SnapReturns, Submit, vars
<1>5. pc' \in [Clients -> {"away", "start", "loop", "push", "encode", "stored"}]
  BY <1>a DEF Next, Handler, Request, Publish, Store, EncodeRaises, Join, Greet, LookOpens, Look,
     Encoded, Keepalive, Pushed, Leave, Hangup, Lost, GiveUp, SnapOpens, SnapLooks,
     SnapReturns, Submit, Push, Goto, vars
<1>6. socket' \in [Viewers -> {"open", "lost", "unsent", "closed"}]
  BY DEF Next, Handler, Request, Publish, Store, EncodeRaises, Join, Greet, LookOpens, Look,
     Encoded, Keepalive, Pushed, Leave, Hangup, Lost, GiveUp, SnapOpens, SnapLooks,
     SnapReturns, vars
<1>7. shown' \in [Viewers -> 0..MaxFrames]
  BY <1>a DEF Next, Handler, Request, Publish, Store, EncodeRaises, Join, Greet, LookOpens, Look,
     Encoded, Keepalive, Pushed, Leave, Hangup, Lost, GiveUp, SnapOpens, SnapLooks,
     SnapReturns, Push, Quit, vars
<1>8. QED
  BY <1>0, <1>1, <1>2, <1>3, <1>4, <1>5, <1>6, <1>7

----------------------------------------------------------------------------
(* Numbers and threads *)

LEMMA NumbersStep == VInv /\ [Next]_vars => Numbers' /\ Threads'
<1> SUFFICES ASSUME VInv, [Next]_vars PROVE Numbers' /\ Threads'
  OBVIOUS
<1>a. MaxFrames \in Nat /\ Viewers \subseteq Clients /\ Snap \in Clients /\ Snap \notin Viewers
  BY VideoAssumption DEF Clients
<1> USE DEF VInv, TypeOK, Numbers, Threads
<1>b. sent \in Nat /\ cache \in Nat /\ \A c \in Clients : got[c] \in Nat /\ image[c] \in Nat
  BY <1>a
<1>c. ASSUME NEW c \in Clients, Ensure(c), sent' = sent
      PROVE  \A d \in Clients : got'[d] <= sent'
  BY <1>b, <1>c DEF Ensure
<1>1. CASE Publish
  BY <1>b, <1>1 DEF Publish, Encoding
<1>2. ASSUME NEW c \in Clients, Store(c) PROVE Numbers' /\ Threads'
  BY <1>b, <1>2 DEF Store, Stored, Goto, Encoding
<1>3. ASSUME NEW v \in Viewers, Join(v) PROVE Numbers' /\ Threads'
  BY <1>b, <1>3 DEF Join, Goto, Encoding
<1>4. ASSUME NEW v \in Viewers, Greet(v) PROVE Numbers' /\ Threads'
  BY <1>b, <1>4 DEF Greet, Push, Goto, Encoding
<1>5. ASSUME NEW v \in Viewers, LookOpens(v) PROVE Numbers' /\ Threads'
  BY <1>a, <1>b, <1>c, <1>5 DEF LookOpens, Encoding
<1>6. ASSUME NEW v \in Viewers, Look(v) PROVE Numbers' /\ Threads'
  BY <1>a, <1>b, <1>6 DEF Look, Fresh, Drain, Submit, Goto, Encoding
<1>7. ASSUME NEW v \in Viewers, Encoded(v) PROVE Numbers' /\ Threads'
  BY <1>a, <1>b, <1>7 DEF Encoded, Push, Goto, Encoding
<1>8. ASSUME NEW v \in Viewers, Keepalive(v) PROVE Numbers' /\ Threads'
  BY <1>b, <1>8 DEF Keepalive, Push, Goto, Encoding
<1>9. ASSUME NEW v \in Viewers, Pushed(v) PROVE Numbers' /\ Threads'
  BY <1>b, <1>9 DEF Pushed, Goto, Encoding
<1>10. ASSUME NEW v \in Viewers, Leave(v) PROVE Numbers' /\ Threads'
  BY <1>b, <1>10 DEF Leave, Quit, Goto, Encoding
<1>10a. ASSUME NEW c \in Clients, EncodeRaises(c) PROVE Numbers' /\ Threads'
  BY <1>a, <1>b, <1>10a DEF EncodeRaises, Quit, Goto, Encoding
<1>11. ASSUME NEW v \in Viewers, Hangup(v) \/ Lost(v) \/ GiveUp(v)
       PROVE  Numbers' /\ Threads'
  BY <1>b, <1>11 DEF Hangup, Lost, GiveUp, Encoding
<1>12. CASE SnapOpens
  BY <1>a, <1>b, <1>c, <1>12 DEF SnapOpens, Submit, Goto, Encoding
<1>13. CASE SnapLooks
  BY <1>a, <1>b, <1>13 DEF SnapLooks, Drain, Submit, Goto, Encoding
<1>14. CASE SnapReturns
  BY <1>a, <1>b, <1>14 DEF SnapReturns, Goto, Encoding
<1>15. CASE UNCHANGED vars
  BY <1>15 DEF vars, Encoding
<1>16. QED
  BY <1>1, <1>2, <1>3, <1>4, <1>5, <1>6, <1>7, <1>8, <1>9, <1>10, <1>10a, <1>11, <1>12,
     <1>13, <1>14, <1>15
     DEF Next, Handler, Request

----------------------------------------------------------------------------
(* Encodes beside one another *)

\* Where no thread begins, and nothing is stored, nothing changes for them.
LEMMA OverlapsFrame ==
  ASSUME VInv, cache' = cache,
         \A c \in Clients : Encoding(c)' =>
           pc'[c] = pc[c] /\ image'[c] = image[c] /\ (c \in Viewers => older'[c] = older[c])
  PROVE  Overlaps'
<1>1. Viewers \subseteq Clients
  BY DEF Clients
<1>2. QED
  BY <1>1 DEF VInv, Overlaps, Encoding

\* A thread begins with the newest frame, or with none.
LEMMA SubmitOverlaps ==
  ASSUME VInv, NEW c \in Clients, NEW f \in {0, sent}, Submit(c, f), cache' = cache,
         pc[c] \in {"loop", "away"},
         \A v \in Viewers : older'[v] = IF v = c THEN Older(f) ELSE older[v]
  PROVE  Overlaps'
<1> USE DEF VInv, TypeOK
<1>0. /\ sent \in Nat /\ Viewers \subseteq Clients /\ f \in Nat
      /\ \A d \in Clients : image[d] \in Nat /\ image[d] <= sent
  BY VideoAssumption DEF Numbers, Clients
<1>1. /\ pc' = [pc EXCEPT ![c] = "encode"] /\ image' = [image EXCEPT ![c] = f]
      /\ pc'[c] = "encode" /\ image'[c] = f
      /\ \A d \in Clients \ {c} : pc'[d] = pc[d] /\ image'[d] = image[d]
  BY DEF Submit, Goto
<1>2. ASSUME NEW v \in Viewers, Encoding(v)', NEW d \in Clients, pc'[d] = "encode", image'[d] # 0
      PROVE  image'[d] >= image'[v] \/ image'[d] \in older'[v]
  <2>1. CASE v = c /\ d = c
    BY <1>0, <1>1, <2>1
  <2>2. CASE v = c /\ d # c
    <3>1. pc[d] = "encode" /\ image'[d] = image[d] /\ image[d] \in Nat /\ image[d] # 0
      BY <1>0, <1>1, <1>2, <2>2
    <3>2. image[d] >= f \/ image[d] \in Older(f)
      BY <1>0, <3>1 DEF Older
    <3>3. QED
      BY <1>1, <2>2, <3>1, <3>2
  <2>3. CASE v # c /\ d = c
    <3>1. image'[d] = sent /\ image'[v] <= sent
      BY <1>0, <1>1, <1>2, <2>3
    <3>2. QED
      BY <1>0, <1>1, <2>3, <3>1
  <2>4. CASE v # c /\ d # c
    <3>1. pc[d] = "encode" /\ image'[d] = image[d] /\ image'[v] = image[v] /\ pc'[v] = pc[v]
      BY <1>0, <1>1, <1>2, <2>4
    <3>2. Encoding(v) /\ older'[v] = older[v]
      BY <1>2, <2>4, <3>1 DEF Encoding
    <3>3. QED
      BY <1>2, <3>1, <3>2 DEF Overlaps
  <2>5. QED
    BY <2>1, <2>2, <2>3, <2>4
<1>3. ASSUME NEW v \in Viewers, pc'[v] = "stored"
      PROVE  cache' >= image'[v] \/ cache' \in older'[v]
  <2>1. v # c /\ pc[v] = "stored" /\ image'[v] = image[v] /\ older'[v] = older[v]
    BY <1>0, <1>1, <1>3
  <2>2. QED
    BY <2>1 DEF Overlaps
<1>4. QED
  BY <1>2, <1>3 DEF Overlaps

\* A thread stores its picture, if it has one.
LEMMA StoreOverlaps == ASSUME VInv, NEW c \in Clients, Store(c) PROVE Overlaps'
<1>0. /\ Viewers \subseteq Clients /\ \A d \in Clients : image[d] \in Nat
      /\ pc \in [Clients -> {"away", "start", "loop", "push", "encode", "stored"}]
  BY VideoAssumption DEF Clients, VInv, TypeOK
<1>1. /\ pc[c] = "encode" /\ pc' = [pc EXCEPT ![c] = "stored"] /\ cache' = Stored(c)
      /\ image' = image /\ older' = older
  BY DEF Store, Goto
<1>2. \A d \in Clients : pc'[d] = IF d = c THEN "stored" ELSE pc[d]
  BY <1>0, <1>1
<1>3. ASSUME NEW v \in Viewers, Encoding(v)', NEW d \in Clients, pc'[d] = "encode", image'[d] # 0
      PROVE  image'[d] >= image'[v] \/ image'[d] \in older'[v]
  <2>1. Encoding(v) /\ pc[d] = "encode"
    BY <1>0, <1>1, <1>2, <1>3 DEF Encoding
  <2>2. QED
    BY <1>1, <1>3, <2>1 DEF VInv, Overlaps
<1>4. ASSUME NEW v \in Viewers, pc'[v] = "stored"
      PROVE  cache' >= image'[v] \/ cache' \in older'[v]
  <2>1. CASE image[c] = 0
    <3>1. v # c
      BY <1>1, <2>1 DEF VInv, Threads, Encoding
    <3>2. pc[v] = "stored" /\ cache' = cache
      BY <1>0, <1>1, <1>2, <1>4, <2>1, <3>1 DEF Stored
    <3>3. QED
      BY <1>1, <3>2 DEF VInv, Overlaps
  <2>2. CASE image[c] # 0
    <3>1. cache' = image[c] /\ Encoding(v)
      BY <1>0, <1>1, <1>2, <1>4, <2>2 DEF Stored, Encoding
    <3>2. QED
      BY <1>1, <2>2, <3>1 DEF VInv, Overlaps
  <2>3. QED
    BY <2>1, <2>2
<1>5. QED
  BY <1>3, <1>4 DEF Overlaps

LEMMA OverlapsStep == VInv /\ [Next]_vars => Overlaps'
<1> SUFFICES ASSUME VInv, [Next]_vars PROVE Overlaps'
  OBVIOUS
<1>a. /\ Viewers \subseteq Clients /\ Snap \in Clients /\ Snap \notin Viewers
      /\ pc \in [Clients -> {"away", "start", "loop", "push", "encode", "stored"}]
      /\ image \in [Clients -> 0..MaxFrames] /\ older \in [Viewers -> SUBSET (1..MaxFrames)]
  BY VideoAssumption DEF Clients, VInv, TypeOK
<1>1. CASE Publish \/ UNCHANGED vars
  BY <1>1, OverlapsFrame DEF Publish, Encoding, vars
<1>2. ASSUME NEW c \in Clients, Store(c) PROVE Overlaps'
  BY <1>2, StoreOverlaps
<1>3. ASSUME NEW c \in Clients, EncodeRaises(c) PROVE Overlaps'
  BY <1>3, <1>a, OverlapsFrame DEF EncodeRaises, Goto, Encoding
<1>4. ASSUME NEW v \in Viewers, Join(v) \/ Greet(v) \/ Keepalive(v) \/ Pushed(v) \/ Leave(v)
      PROVE  Overlaps'
  <2>1. /\ UNCHANGED <<cache, image, older>>
        /\ \E step \in {"start", "loop", "push", "away"} : pc' = [pc EXCEPT ![v] = step]
    BY <1>4 DEF Join, Greet, Keepalive, Pushed, Leave, Push, Goto
  <2>2. QED
    BY <1>a, <2>1, OverlapsFrame DEF Encoding
<1>5. ASSUME NEW v \in Viewers, LookOpens(v) \/ Hangup(v) \/ Lost(v) \/ GiveUp(v)
      PROVE  Overlaps'
  BY <1>5, OverlapsFrame DEF LookOpens, Hangup, Lost, GiveUp, Encoding
<1>6. ASSUME NEW v \in Viewers, Look(v) PROVE Overlaps'
  <2>1. \A w \in Viewers : older'[w] = IF w = v THEN Older(sent) ELSE older[w]
    BY <1>6, <1>a DEF Look
  <2>2. QED
    BY <1>6, <1>a, <2>1, SubmitOverlaps DEF Look, Awake
<1>7. ASSUME NEW v \in Viewers, Encoded(v) PROVE Overlaps'
  <2>1. /\ cache' = cache /\ pc'[v] \in {"loop", "push"}
        /\ \A c \in Clients \ {v} : pc'[c] = pc[c] /\ image'[c] = image[c]
        /\ \A w \in Viewers \ {v} : older'[w] = older[w]
    BY <1>7, <1>a DEF Encoded, Push, Goto
  <2>2. QED
    BY <2>1, OverlapsFrame DEF Encoding
<1>8. CASE SnapOpens \/ SnapLooks
  <2>1. PICK f \in {0, sent} : Submit(Snap, f)
    BY <1>8 DEF SnapOpens, SnapLooks
  <2>2. cache' = cache /\ older' = older /\ pc[Snap] = "away"
    BY <1>8 DEF SnapOpens, SnapLooks
  <2>3. QED
    BY <1>a, <2>1, <2>2, SubmitOverlaps
<1>9. CASE SnapReturns
  BY <1>9, <1>a, OverlapsFrame DEF SnapReturns, Goto, Encoding
<1>10. QED
  BY <1>1, <1>2, <1>3, <1>4, <1>5, <1>6, <1>7, <1>8, <1>9 DEF Next, Handler, Request

LEMMA Invariant == Spec => []VInv
<1>1. VInv /\ [Next]_vars => VInv'
  BY SlotsStep, TypeStep, NumbersStep, OverlapsStep DEF VInv
<1>2. QED
  BY <1>1, VInit, PTL DEF Spec

----------------------------------------------------------------------------
(* Theorems *)

\* No variable leaves its type, and never are more subscribers open than the
\* publisher has slots (_LazySubscriber).
THEOREM SlotsRespected == Spec => []TypeOK
<1>1. VInv => TypeOK
  BY DEF VInv
<1>2. QED
  BY <1>1, Invariant, PTL

\* Whatever else is encoded meanwhile and in whatever order the threads end, a
\* viewer is shown no picture older than its own, unless of a frame that was
\* being encoded when it took its own (_encode_jpeg, mjpeg_handler).
THEOREM PicturesOnlyAdvance == Spec => PicturesAdvance
<1>1. ASSUME VInv, [Next]_vars, NEW v \in Viewers, pc[v] = "stored", pc'[v] # "stored"
      PROVE  shown'[v] >= image[v] \/ shown'[v] \in older[v]
  <2>0. /\ Viewers \subseteq Clients /\ Snap \notin Viewers
        /\ pc \in [Clients -> {"away", "start", "loop", "push", "encode", "stored"}]
        /\ older[v] \subseteq 1..MaxFrames /\ cache \in Nat /\ image[v] \in Nat
        /\ shown \in [Viewers -> 0..MaxFrames]
    BY <1>1, VideoAssumption DEF Clients, VInv, TypeOK
  <2>1. Encoded(v)
    <3>1. ~(Publish \/ UNCHANGED vars)
      BY <1>1 DEF Publish, vars
    <3>2. ASSUME NEW c \in Clients, Store(c) \/ EncodeRaises(c) PROVE FALSE
      BY <1>1, <2>0, <3>2 DEF Store, EncodeRaises, Goto
    <3>3. ASSUME NEW w \in Viewers, Hangup(w) \/ Lost(w) \/ GiveUp(w) \/ LookOpens(w) PROVE FALSE
      BY <1>1, <3>3 DEF Hangup, Lost, GiveUp, LookOpens
    <3>4. ASSUME NEW w \in Viewers, Join(w) \/ Greet(w) \/ Look(w) \/ Keepalive(w) \/ Pushed(w)
                 \/ Leave(w)
          PROVE  FALSE
      <4>1. pc[w] # "stored" /\ \E step : pc' = [pc EXCEPT ![w] = step]
        BY <3>4 DEF Join, Greet, Look, Keepalive, Pushed, Leave, Submit, Push, Goto, Awake
      <4>2. QED
        BY <1>1, <2>0, <4>1
    <3>5. ASSUME Request PROVE FALSE
      BY <1>1, <2>0, <3>5 DEF Request, SnapOpens, SnapLooks, SnapReturns, Submit, Goto
    <3>6. PICK w \in Viewers : Encoded(w)
      BY <1>1, <3>1, <3>2, <3>3, <3>4, <3>5 DEF Next, Handler
    <3>7. w = v
      BY <1>1, <2>0, <3>6 DEF Encoded, Push, Goto
    <3>8. QED
      BY <3>6, <3>7
  <2>2. cache >= image[v] \/ cache \in older[v]
    BY <1>1 DEF VInv, Overlaps
  <2>3. cache # 0
    BY <1>1, <2>0, <2>2, VideoAssumption DEF VInv, Threads, Encoding
  <2>4. shown'[v] = cache
    BY <2>0, <2>1, <2>3 DEF Encoded, Push
  <2>5. QED
    BY <2>2, <2>4
<1>2. VInv /\ [Next]_vars =>
        [\A v \in Viewers :
           pc[v] = "stored" /\ pc'[v] # "stored"
             => shown'[v] >= image[v] \/ shown'[v] \in older[v]]_vars
  BY <1>1
<1>3. QED
  BY <1>2, Invariant, PTL DEF Spec, PicturesAdvance
=============================================================================
