------------------------------- MODULE Bridge -------------------------------
(***************************************************************************)
(* One WebSocket connection of the bridge (services/bridge.py, ws_handler):*)
(* messages of the client start and cancel tasks, which poll topics and    *)
(* forward events.                                                         *)
(*                                                                         *)
(* One event loop runs the handler and the tasks: a step goes from one     *)
(* await to the next, and everything else moves only in between.  cancel() *)
(* takes effect when the task is resumed.  Values of a topic are numbered, *)
(* as frame_id numbers those of one publisher; rings of a channel carry    *)
(* ids of their own, and wait in a listener's queue, which is bounded and  *)
(* drops what it has no room for (iceoryx2-guide.md).  A stream hands a new*)
(* subscriber its history with the next sample only, where its buffer of   *)
(* one has no room for it.                                                 *)
(***************************************************************************)
EXTENDS Integers, Sequences, FiniteSets

CONSTANTS
  Streams,        \* topics declared as streams
  Boards,         \* topics declared as blackboards
  Channels,
  None,
  QueueDepth,     \* rings a listener's queue has room for
  MaxMsgs,        \* bound: messages of the client
  MaxValues,      \* bound: values of a topic
  MaxRings        \* bound: rings of a channel

ASSUME BridgeAssumption ==
  /\ Streams \cap Boards = {} /\ (Streams \cup Boards) \cap Channels = {}
  /\ None \notin Streams \cup Boards \cup Channels /\ QueueDepth \in Nat \ {0}
  /\ MaxMsgs \in Nat /\ MaxValues \in Nat /\ MaxRings \in Nat

Topics == Streams \cup Boards
Keys == Topics \cup Channels
Ids == 1..MaxMsgs

VARIABLES
  \* other processes
  value,          \* per topic, its newest value; 0 before the first
  rung,           \* per channel, the rings so far
  opaque,         \* topics whose struct JSON has no form for
  \* the connection
  ws,             \* open | closed
  conn,           \* the handler: serving | ended
  msgs,           \* messages so far
  registered,     \* sub_tasks and listen_tasks: per key, a task or 0
  \* per task
  key,            \* what it is for; a task is known by the message that began it
  pc,             \* none | new | sleep | send | done
  cancelled,
  last,           \* poll: the last value sent
  queue,          \* listen: the listener's doorbells, and
  batch,          \* those drained and not yet forwarded
  since,          \* what was newest when the task's port opened; -1 before
  dropped,        \* history: the rings its full queue dropped
  heard           \* history: per channel, the rings forwarded

world == <<value, rung, opaque>>
link == <<ws, conn, msgs>>
listener == <<queue, batch, since, dropped>>
vars == <<world, link, registered, key, pc, cancelled, last, listener, heard>>

\* The task is there and has not ended.
Live(i) == pc[i] \notin {"none", "done"}

Init ==
  /\ value = [t \in Topics |-> 0] /\ rung = [c \in Channels |-> 0]
  /\ opaque \in SUBSET Topics
  /\ ws = "open" /\ conn = "serving" /\ msgs = 0
  /\ registered = [k \in Keys |-> 0]
  /\ key = [i \in Ids |-> None]
  /\ pc = [i \in Ids |-> "none"] /\ cancelled = [i \in Ids |-> FALSE]
  /\ last = [i \in Ids |-> 0]
  /\ queue = [i \in Ids |-> <<>>] /\ batch = [i \in Ids |-> <<>>]
  /\ since = [i \in Ids |-> -1] /\ dropped = [i \in Ids |-> {}]
  /\ heard = [c \in Channels |-> <<>>]

----------------------------------------------------------------------------
(* Other processes *)

Publish(t) ==
  /\ value[t] < MaxValues /\ value' = [value EXCEPT ![t] = @ + 1]
  /\ UNCHANGED <<rung, opaque, link, registered, key, pc, cancelled, last, listener, heard>>

\* The task has a listener on the channel.
Connected(i, c) == key[i] = c /\ pc[i] \in {"sleep", "send"}

HasRoom(i) == Len(queue[i]) < QueueDepth

\* A ring reaches every listener there is whose queue has room.
Rings(c) ==
  /\ rung' = [rung EXCEPT ![c] = @ + 1]
  /\ queue' = [i \in Ids |-> IF Connected(i, c) /\ HasRoom(i)
                             THEN Append(queue[i], rung[c] + 1) ELSE queue[i]]
  /\ dropped' = [i \in Ids |-> IF Connected(i, c) /\ ~HasRoom(i)
                               THEN dropped[i] \cup {rung[c] + 1} ELSE dropped[i]]

Ring(c) ==
  /\ rung[c] < MaxRings /\ Rings(c)
  /\ UNCHANGED <<value, opaque, link, registered, key, pc, cancelled, last, batch, since, heard>>

----------------------------------------------------------------------------
(* The client's messages *)

\* The handler is between two messages; this is the next.
Message ==
  /\ conn = "serving" /\ msgs < MaxMsgs /\ msgs' = msgs + 1
  /\ UNCHANGED <<ws, conn, world, last, listener, heard>>

\* A task of the message's number.
Spawn(k) ==
  /\ key' = [key EXCEPT ![msgs + 1] = k]
  /\ pc' = [pc EXCEPT ![msgs + 1] = "new"]
  /\ registered' = [registered EXCEPT ![k] = msgs + 1]

\* Mutant: the old task is forgotten and goes on.
CancelNone(S) == UNCHANGED cancelled

\* cancel() of the tasks registered for the keys of S.
Cancel(S) ==
  cancelled' = [i \in Ids |-> cancelled[i] \/ \E k \in S : registered[k] = i]

\* subscribe-topic: a task already there is replaced.
Subscribe(t) == Message /\ Cancel({t}) /\ Spawn(t)

\* unsubscribe-topic, unlisten-event.
Drop(k) ==
  /\ Message /\ Cancel({k})
  /\ registered' = [registered EXCEPT ![k] = 0]
  /\ UNCHANGED <<key, pc>>

\* Mutant: a second listen-event starts a second task.
ListenAnyway(c) == TRUE

\* Listening already, also with a task that has failed.
NotListening(c) == registered[c] = 0

\* listen-event.
Listen(c) == Message /\ NotListening(c) /\ Spawn(c) /\ UNCHANGED cancelled

\* ring-event: the bridge rings for the client.
RingEvent(c) ==
  /\ conn = "serving" /\ msgs < MaxMsgs /\ msgs' = msgs + 1
  /\ rung[c] < MaxRings /\ Rings(c)
  /\ UNCHANGED <<ws, conn, value, opaque, registered, key, pc, cancelled, last, batch, since,
                 heard>>

\* The client closes the socket, or is lost.
Close ==
  /\ ws = "open" /\ ws' = "closed"
  /\ UNCHANGED <<world, conn, msgs, registered, key, pc, cancelled, last, listener,
                 heard>>

\* Mutant: only the subscriptions are cancelled.
EndTopics == Topics

\* finally: the tasks to cancel.
EndKeys == Keys

\* The loop ends with the socket, or with a message that raises.
End ==
  /\ conn = "serving" /\ conn' = "ended" /\ ws' = "closed"
  /\ Cancel(EndKeys)
  /\ UNCHANGED <<world, msgs, registered, key, pc, last, listener, heard>>

----------------------------------------------------------------------------
(* The tasks *)

TaskRest == UNCHANGED <<world, link, registered, key, cancelled>>

\* The task ends, its port with it.
Ended(i) ==
  /\ pc' = [pc EXCEPT ![i] = "done"] /\ last' = [last EXCEPT ![i] = 0]
  /\ queue' = [queue EXCEPT ![i] = <<>>] /\ batch' = [batch EXCEPT ![i] = <<>>]
  /\ since' = [since EXCEPT ![i] = -1] /\ dropped' = [dropped EXCEPT ![i] = {}]
  /\ UNCHANGED heard /\ TaskRest

\* A cancelled task ends when it is resumed.
Cancelled(i) == Live(i) /\ cancelled[i] /\ Ended(i)

Resumed(i, steps) == pc[i] \in steps /\ ~cancelled[i]

\* Mutant: without overflow the buffer of one keeps its first sample.
ReadsOldest(i) ==
  IF since[i] \in {-1, value[key[i]]} THEN 0 ELSE since[i] + 1

\* What read() or latest() returns; 0 for None.  A stream gives what was sent
\* since its subscriber opened.
Reads(i) ==
  IF key[i] \in Streams /\ since[i] \in {-1, value[key[i]]} THEN 0 ELSE value[key[i]]

Changed(i) == Reads(i) # 0 /\ Reads(i) # last[i]

\* poll_and_send: nothing new.  A lazy subscriber opens if the publisher is
\* there, which may not have sent anything yet.
PollNothing(i) ==
  /\ key[i] \in Topics /\ Resumed(i, {"new", "sleep"}) /\ ~Changed(i)
  /\ pc' = [pc EXCEPT ![i] = "sleep"]
  /\ \E there \in {TRUE, value[key[i]] # 0} :
       since' = IF there /\ key[i] \in Streams /\ since[i] = -1
                THEN [since EXCEPT ![i] = value[key[i]]] ELSE since
  /\ UNCHANGED <<last, queue, batch, dropped, heard>> /\ TaskRest

\* ... or a value, which is sent.
PollSend(i) ==
  /\ key[i] \in Topics \ opaque /\ Resumed(i, {"new", "sleep"}) /\ Changed(i) /\ ws = "open"
  /\ last' = [last EXCEPT ![i] = Reads(i)] /\ pc' = [pc EXCEPT ![i] = "send"]
  /\ UNCHANGED <<listener, heard>> /\ TaskRest

\* The socket has taken the message.
PollSent(i) ==
  /\ key[i] \in Topics /\ Resumed(i, {"send"})
  /\ pc' = [pc EXCEPT ![i] = "sleep"]
  /\ UNCHANGED <<last, listener, heard>> /\ TaskRest

\* listen_and_forward: the task begins, and with it the listener.
ListenBegin(i) ==
  /\ key[i] \in Channels /\ Resumed(i, {"new"})
  /\ pc' = [pc EXCEPT ![i] = "sleep"]
  /\ since' = [since EXCEPT ![i] = rung[key[i]]]
  /\ UNCHANGED <<last, queue, batch, dropped, heard>> /\ TaskRest

\* The first of the ids in hand is sent.
ForwardOf(i, ids) ==
  /\ ws = "open" /\ pc' = [pc EXCEPT ![i] = "send"]
  /\ batch' = [batch EXCEPT ![i] = Tail(ids)]
  /\ heard' = [heard EXCEPT ![key[i]] = Append(@, Head(ids))]

\* Mutant: only the newest ring is kept.
DrainLast(i) == <<queue[i][Len(queue[i])]>>

\* drain(): every id since the last look.
Drained(i) == queue[i]

ListenDrain(i) ==
  /\ key[i] \in Channels /\ Resumed(i, {"sleep"}) /\ queue[i] # <<>>
  /\ queue' = [queue EXCEPT ![i] = <<>>]
  /\ ForwardOf(i, Drained(i))
  /\ UNCHANGED <<last, since, dropped>> /\ TaskRest

\* One id is sent: the next, or back to sleep.
ListenSent(i) ==
  /\ key[i] \in Channels /\ Resumed(i, {"send"})
  /\ \/ batch[i] # <<>> /\ ForwardOf(i, batch[i])
     \/ batch[i] = <<>> /\ pc' = [pc EXCEPT ![i] = "sleep"] /\ UNCHANGED <<batch, heard>>
  /\ UNCHANGED <<last, queue, since, dropped>> /\ TaskRest

\* There is something to send, or in the middle of being sent.
Sending(i) ==
  \/ pc[i] = "send"
  \/ key[i] \in Topics /\ Changed(i)
  \/ key[i] \in Channels /\ queue[i] # <<>>

\* The socket is closed, or send_json() has no JSON for the struct: it raises,
\* which ends the task and tells nobody.
SendFails(i) ==
  /\ Live(i) /\ ~cancelled[i] /\ Sending(i)
  /\ ws = "closed" \/ key[i] \in opaque
  /\ Ended(i)

TaskStep(i) ==
  \/ Cancelled(i) \/ PollNothing(i) \/ PollSend(i) \/ PollSent(i)
  \/ ListenBegin(i) \/ ListenDrain(i) \/ ListenSent(i) \/ SendFails(i)

Next ==
  \/ \E t \in Topics : Publish(t) \/ Subscribe(t)
  \/ \E c \in Channels : Ring(c) \/ Listen(c) \/ RingEvent(c)
  \/ \E k \in Keys : Drop(k)
  \/ Close \/ End
  \/ \E i \in Ids : TaskStep(i)

Spec == Init /\ [][Next]_vars

\* The event loop resumes every task in its turn, a client that stays takes
\* what it is sent, and the loop of the handler notices the end of the socket.
Fair ==
  /\ \A i \in Ids : WF_vars(TaskStep(i))
  /\ WF_vars(ws = "closed" /\ End)

FairSpec == Spec /\ Fair
----------------------------------------------------------------------------
(* Properties *)

\* Every variable has its type.
TypeOK ==
  /\ value \in [Topics -> Nat] /\ rung \in [Channels -> Nat] /\ opaque \subseteq Topics
  /\ ws \in {"open", "closed"} /\ conn \in {"serving", "ended"} /\ msgs \in 0..MaxMsgs
  /\ registered \in [Keys -> 0..MaxMsgs] /\ key \in [Ids -> Keys \cup {None}]
  /\ pc \in [Ids -> {"none", "new", "sleep", "send", "done"}]
  /\ cancelled \in [Ids -> BOOLEAN] /\ last \in [Ids -> Nat]
  /\ queue \in [Ids -> Seq(Nat)] /\ batch \in [Ids -> Seq(Nat)]
  /\ since \in [Ids -> Nat \cup {-1}]
  /\ dropped \in [Ids -> SUBSET Nat] /\ heard \in [Channels -> Seq(Nat)]

\* A task that nobody cancelled is the one its key is registered with, so
\* that a later message or the end of the connection finds it.
NoStrayTask ==
  \A i \in Ids : Live(i) /\ ~cancelled[i] => registered[key[i]] = i /\ conn = "serving"

\* Once unsubscribe-topic or unlisten-event is handled nothing more of it is
\* sent until it is asked for again, and then by one task only.
SentOnlyWhileWanted ==
  [][/\ \A i \in Ids : last'[i] > last[i] => registered[key[i]] = i
     /\ \A c \in Channels : heard'[c] # heard[c] => registered[c] # 0]_vars

\* However often the client listens and stops, no ring is forwarded twice or
\* after a later one.
RingsInOrder ==
  \A c \in Channels : \A i, j \in DOMAIN heard[c] : i < j => heard[c][i] < heard[c][j]

Items(s) == {s[p] : p \in DOMAIN s}

\* From the moment the listener is there each ring is forwarded, in hand or
\* waiting, until the client stops or leaves; or it came while QueueDepth rings
\* waited, as they do when the client is slow to take what is being sent.
NoRingLost ==
  \A i \in Ids : key[i] \in Channels /\ pc[i] \in {"sleep", "send"} /\ ~cancelled[i] =>
    since[i] + 1 .. rung[key[i]]
      \subseteq Items(heard[key[i]]) \cup Items(batch[i]) \cup Items(queue[i]) \cup dropped[i]

\* "forward event-ids fired after connect": each that the queue had room for,
\* once and in order, however often the client listens and stops.
EveryRingOnce == RingsInOrder /\ NoRingLost

\* What the task i is to send next or later: what the board says, or what the
\* stream has sent since it could be heard.
Due(i) ==
  /\ key[i] \in Topics \ opaque /\ Live(i) /\ ~cancelled[i]
  /\ key[i] \in Streams => since[i] # -1 /\ value[key[i]] > since[i]

UpToDate(i) == key[i] \in Topics /\ last[i] = value[key[i]]

\* A slow client skips values and never the last: as long as it is subscribed
\* and stays it comes to be sent the value that is then the newest, of every topic
\* that JSON can carry.
ClientCatchesUp ==
  \A i \in Ids :
    Due(i) ~> UpToDate(i) \/ cancelled[i] \/ ws = "closed"

\* After the connection every task ends, and lets go of its port.
TasksEnd == conn = "ended" ~> \A i \in Ids : ~Live(i)
=============================================================================
