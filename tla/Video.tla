-------------------------------- MODULE Video --------------------------------
(***************************************************************************)
(* Pictures of one stream over HTTP (services/bridge.py): /mjpeg viewers,  *)
(* the /frame request, the encoder threads and the cache they share, and   *)
(* the publisher's limit on subscribers (ipc/streams.py).                  *)
(*                                                                         *)
(* A picture is the number of the frame it was made from.  The event loop  *)
(* runs the handlers, the executor's threads encode beside it.  A peer     *)
(* that is lost without a word is noticed only by the fate of data written *)
(* to it.  Rates are left out: a viewer looks when it likes, and the last  *)
(* picture is pushed again at any time the stream has nothing new.         *)
(***************************************************************************)
EXTENDS Integers, FiniteSets

CONSTANTS
  Viewers,        \* connections to /mjpeg
  Snap,           \* the /frame request
  Slots,          \* max_subscribers, less those held by other processes
  MaxFrames       \* bound: frames of the stream

ASSUME VideoAssumption == Snap \notin Viewers /\ Slots \in Nat /\ MaxFrames \in Nat

Clients == Viewers \cup {Snap}

VARIABLES
  sent,           \* the newest frame of the stream; 0 before the first
  ports,          \* clients whose subscriber is open
  got,            \* per client, the newest frame it drained or cannot receive
  cache,          \* _frame_cache: 0 or a picture
  image,          \* per client, the frame its thread encodes; 0 for None
  pc,             \* viewers: away | start | loop | push; with Snap: encode | stored
  socket,         \* per viewer: open | lost | unsent | closed
  shown,          \* per viewer, the picture last written to its socket
  older           \* history: per viewer, the older frames that other threads were
                  \* encoding when it took its own

vars == <<sent, ports, got, cache, image, pc, socket, shown, older>>

Init ==
  /\ sent = 0 /\ ports = {} /\ cache = 0
  /\ got = [c \in Clients |-> 0] /\ image = [c \in Clients |-> 0]
  /\ pc = [c \in Clients |-> "away"]
  /\ socket = [v \in Viewers |-> "closed"] /\ shown = [v \in Viewers |-> 0]
  /\ older = [v \in Viewers |-> {}]

Goto(c, step) == pc' = [pc EXCEPT ![c] = step]

----------------------------------------------------------------------------
(* The stream *)

Publish ==
  /\ sent < MaxFrames /\ sent' = sent + 1
  /\ UNCHANGED <<ports, got, cache, image, pc, socket, shown, older>>

\* _ensure(): a port, if the publisher is there and has a slot.  The history
\* comes with the next sample, which takes its place in a buffer of one.
Ensure(c) ==
  \/ /\ c \notin ports /\ Cardinality(ports) < Slots
     /\ ports' = ports \cup {c} /\ got' = [got EXCEPT ![c] = sent]
  \/ /\ c \notin ports /\ (sent = 0 \/ Cardinality(ports) >= Slots)
     /\ UNCHANGED <<ports, got>>

\* latest() has a sample.
Fresh(c) == c \in ports /\ sent > got[c]

Drain(c) == got' = [got EXCEPT ![c] = sent] /\ UNCHANGED ports

----------------------------------------------------------------------------
(* _encode_jpeg() in a thread *)

\* run_in_executor(): the thread has the frame f, or None.
Submit(c, f) == Goto(c, "encode") /\ image' = [image EXCEPT ![c] = f]

\* What other threads are encoding that is older than the frame f.
Older(f) == {n \in 1..(f - 1) : \E d \in Clients : pc[d] = "encode" /\ image[d] = n}

\* Mutant: the cache keeps its first picture.
StoredOnce(c) == IF cache # 0 THEN cache ELSE image[c]

\* The cache once the thread has put its picture there, if it has one.
Stored(c) == IF image[c] = 0 THEN cache ELSE image[c]

\* A viewer's handler is gone: its subscriber goes with it.
Quit(v) ==
  /\ ports' = ports \ {v}
  /\ got' = [got EXCEPT ![v] = 0] /\ shown' = [shown EXCEPT ![v] = 0]

\* The picture goes into the cache; what the thread returns is read from there.
Store(c) ==
  /\ pc[c] = "encode"
  /\ cache' = Stored(c) /\ Goto(c, "stored")
  /\ UNCHANGED <<sent, ports, got, image, socket, shown, older>>

\* A picture that cannot be made of its frame, of another shape than it says,
\* raises in the handler: a viewer's ends, its connection and its subscriber with
\* it, and the request is answered with an error.
EncodeRaises(c) ==
  /\ pc[c] = "encode" /\ image[c] # 0
  /\ Goto(c, "away") /\ image' = [image EXCEPT ![c] = 0]
  /\ IF c = Snap THEN UNCHANGED <<ports, got, socket, shown, older>>
     ELSE Quit(c) /\ older' = [older EXCEPT ![c] = {}]
          /\ socket' = [socket EXCEPT ![c] = "closed"]
  /\ UNCHANGED <<sent, cache>>

----------------------------------------------------------------------------
(* mjpeg_handler *)

\* A viewer connects.
Join(v) ==
  /\ pc[v] = "away" /\ Goto(v, "start")
  /\ socket' = [socket EXCEPT ![v] = "open"]
  /\ UNCHANGED <<sent, ports, got, cache, image, shown, older>>

\* push() writes the cached picture, if there is one.
Push(v) ==
  /\ shown' = [shown EXCEPT ![v] = IF cache = 0 THEN @ ELSE cache]
  /\ Goto(v, IF cache = 0 THEN "loop" ELSE "push")

\* It opens with the last picture.
Greet(v) ==
  /\ pc[v] = "start" /\ Push(v)
  /\ UNCHANGED <<sent, ports, got, cache, image, socket, older>>

Awake(v) == pc[v] = "loop" /\ socket[v] # "closed"

\* The first look opens the subscriber; until then every look tries.
LookOpens(v) ==
  /\ Awake(v) /\ Ensure(v)
  /\ UNCHANGED <<sent, cache, image, pc, socket, shown, older>>

\* A new frame is encoded, and ...
Look(v) ==
  /\ Awake(v) /\ Fresh(v) /\ Drain(v) /\ Submit(v, sent)
  /\ older' = [older EXCEPT ![v] = Older(sent)]
  /\ UNCHANGED <<sent, cache, socket, shown>>

\* ... what the cache holds by then is pushed.
Encoded(v) ==
  /\ pc[v] = "stored" /\ Push(v)
  /\ image' = [image EXCEPT ![v] = 0] /\ older' = [older EXCEPT ![v] = {}]
  /\ UNCHANGED <<sent, ports, got, cache, socket>>

\* Mutant: an idle stream pushes nothing.
ProbeNever(v) == FALSE

\* There is a picture to push again.
Probes(v) == cache # 0

\* While there is nothing new the last picture is pushed again, which probes
\* the socket.
Keepalive(v) ==
  /\ Awake(v) /\ ~Fresh(v) /\ Probes(v) /\ Push(v)
  /\ UNCHANGED <<sent, ports, got, cache, image, socket, older>>

\* The write is done: taken by the peer, or left unacknowledged.
Pushed(v) ==
  /\ pc[v] = "push" /\ socket[v] # "closed" /\ Goto(v, "loop")
  /\ socket' = [socket EXCEPT ![v] = IF @ = "lost" THEN "unsent" ELSE @]
  /\ UNCHANGED <<sent, ports, got, cache, image, shown, older>>

\* The transport is closing, or push() raises: the handler returns, and its
\* subscriber goes.
Leave(v) ==
  /\ pc[v] \in {"loop", "push"} /\ socket[v] = "closed"
  /\ Goto(v, "away") /\ Quit(v)
  /\ UNCHANGED <<sent, cache, image, socket, older>>

----------------------------------------------------------------------------
(* The peers *)

\* A page is closed, or ...
Hangup(v) ==
  /\ socket[v] = "open" /\ socket' = [socket EXCEPT ![v] = "closed"]
  /\ UNCHANGED <<sent, ports, got, cache, image, pc, shown, older>>

\* ... the peer is lost without a word.
Lost(v) ==
  /\ socket[v] = "open" /\ socket' = [socket EXCEPT ![v] = "lost"]
  /\ UNCHANGED <<sent, ports, got, cache, image, pc, shown, older>>

\* TCP gives up on data that nobody acknowledges.
GiveUp(v) ==
  /\ socket[v] = "unsent" \/ (socket[v] = "lost" /\ pc[v] = "push")
  /\ socket' = [socket EXCEPT ![v] = "closed"]
  /\ UNCHANGED <<sent, ports, got, cache, image, pc, shown, older>>

----------------------------------------------------------------------------
(* frame_handler: one subscriber for every request, which stays *)

SnapOpens ==
  /\ pc[Snap] = "away" /\ Ensure(Snap) /\ Submit(Snap, 0)
  /\ UNCHANGED <<sent, cache, socket, shown, older>>

SnapLooks ==
  /\ pc[Snap] = "away" /\ Snap \in ports
  /\ Drain(Snap) /\ Submit(Snap, IF Fresh(Snap) THEN sent ELSE 0)
  /\ UNCHANGED <<sent, cache, socket, shown, older>>

\* The response is what the cache holds.
SnapReturns ==
  /\ pc[Snap] = "stored" /\ Goto(Snap, "away") /\ image' = [image EXCEPT ![Snap] = 0]
  /\ UNCHANGED <<sent, ports, got, cache, socket, shown, older>>

----------------------------------------------------------------------------
Handler(v) ==
  \/ Greet(v) \/ LookOpens(v) \/ Look(v) \/ Encoded(v) \/ Keepalive(v)
  \/ Pushed(v) \/ Leave(v)

Request == SnapOpens \/ SnapLooks \/ SnapReturns

Next ==
  \/ Publish
  \/ \E c \in Clients : Store(c) \/ EncodeRaises(c)
  \/ \E v \in Viewers : Join(v) \/ Handler(v) \/ Hangup(v) \/ Lost(v) \/ GiveUp(v)
  \/ Request

Spec == Init /\ [][Next]_vars

\* The event loop and the threads go on; a peer that is there takes what is
\* written, TCP gives up on one that is not; nobody owes a request or a frame.
Fair ==
  /\ \A c \in Clients : WF_vars(Store(c))
  /\ \A v \in Viewers :
       /\ WF_vars(Look(v) \/ Keepalive(v)) /\ WF_vars(Encoded(v))
       /\ WF_vars(Pushed(v)) /\ WF_vars(Leave(v)) /\ WF_vars(GiveUp(v))

FairSpec == Spec /\ Fair
----------------------------------------------------------------------------
(* Properties *)

\* Every variable has its type, and nobody has a slot too many.
TypeOK ==
  /\ sent \in 0..MaxFrames /\ cache \in 0..MaxFrames
  /\ ports \subseteq Clients /\ Cardinality(ports) <= Slots
  /\ got \in [Clients -> 0..MaxFrames] /\ image \in [Clients -> 0..MaxFrames]
  /\ pc \in [Clients -> {"away", "start", "loop", "push", "encode", "stored"}]
  /\ socket \in [Viewers -> {"open", "lost", "unsent", "closed"}]
  /\ shown \in [Viewers -> 0..MaxFrames] /\ older \in [Viewers -> SUBSET (1..MaxFrames)]

\* "drains to newest": threads share one cache and end in any order, so that a
\* viewer may be shown another's picture for its own; but never an older one,
\* unless of a frame that was being encoded already when it took its own.
PicturesAdvance ==
  [][\A v \in Viewers :
       pc[v] = "stored" /\ pc'[v] # "stored"
         => shown'[v] >= image[v] \/ shown'[v] \in older[v]]_vars

\* "a slow client only ever drops frames": a viewer that stays comes to be
\* shown each frame it can receive or a later one, unless it takes its frame
\* while an older one is being encoded, which may end last and stay in the cache.
ViewerCatchesUp ==
  \A v \in Viewers : \A n \in 1..MaxFrames :
    v \in ports /\ Fresh(v) /\ sent = n
      ~> shown[v] >= n \/ v \notin ports \/ older[v] # {}

\* "a dead viewer exits and frees its subscriber slot": also of an idle stream,
\* once there is any picture of it.
DeadViewerLeaves ==
  \A v \in Viewers : v \in ports /\ socket[v] = "lost" /\ cache # 0 ~> v \notin ports
=============================================================================
