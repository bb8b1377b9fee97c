---------------------------- MODULE WardenProofs ----------------------------
(* Theorems about Warden, for any commands, services and bounds. *)
EXTENDS Warden, TLAPS

----------------------------------------------------------------------------
(* Types *)

Steps == {"idle", "check", "load", "validate", "sweep", "truncate", "fill", "start", "reread",
          "call", "poll"}

NoShutdown(todo) == \A i \in DOMAIN todo : todo[i].op # "shutdown"

\* TypeOK in two parts: what the commands hold, and what they act on. A command
\* that has groups left to see to is not about to shut supervisord down.
ClientTyped ==
  /\ cmd \in [Clients -> Commands \cup {"none"}] /\ pc \in [Clients -> Steps]
  /\ specs \in [Clients -> Defs]
  /\ calls \in [Clients -> Seq(Call)] /\ left \in [Clients -> Diff]
  /\ said \in [Clients -> BOOLEAN] /\ alone \in [Clients -> BOOLEAN]
  /\ \A c \in Clients : /\ pc[c] = "call" <=> calls[c] # <<>>
                        /\ pc[c] # "call" => left[c] = Same
                        /\ left[c] # Same => NoShutdown(calls[c])

WorldTyped ==
  /\ yaml \in Defs \cup {Broken} /\ conf \in Defs \cup {Torn} /\ edits \in 0..MaxEdits
  /\ daemon \in {"none", "running", "stopping"} /\ read \in Defs /\ groups \in Defs
  /\ alive \subseteq Names /\ stopped \subseteq Grouped /\ wiped \subseteq alive
  /\ deaths \in 0..MaxDeaths

LEMMA TypeParts == ClientTyped /\ WorldTyped => TypeOK
BY DEF TypeOK, ClientTyped, WorldTyped, Steps

LEMMA Constants ==
  /\ None \in Defs /\ Same \in Diff /\ <<>> \in Seq(Call)
  /\ \A n \in Names : None[n] = 0
BY WardenBounds DEF None, Defs, Same, Diff

\* The lists of calls there are.
Todo(todo) == todo \in Seq(Call) /\ todo # <<>>

LEMMA CallsTyped ==
  ASSUME NEW n \in Names
  PROVE  /\ Todo(Retire(n)) /\ Todo(Replace(n)) /\ Todo(Add(n))
         /\ NoShutdown(Retire(n)) /\ NoShutdown(Replace(n)) /\ NoShutdown(Add(n))
         /\ Todo(<<To("restop", n), To("start", n)>>)
<1>1. \A op \in {"stop", "remove", "add", "restop", "start"} : To(op, n) \in Call
  BY DEF Call, To
<1>2. \A op \in {"stop", "remove", "add", "restop", "start"} : To(op, n).op # "shutdown"
  BY DEF To
<1>3. /\ Todo(Retire(n)) /\ Todo(Replace(n)) /\ Todo(Add(n))
      /\ Todo(<<To("restop", n), To("start", n)>>)
  BY <1>1 DEF Retire, Replace, Add, Todo
<1>4. NoShutdown(Retire(n)) /\ NoShutdown(Replace(n)) /\ NoShutdown(Add(n))
  BY <1>2 DEF Retire, Replace, Add, NoShutdown
<1>5. QED
  BY <1>3, <1>4

LEMMA BroadcastsTyped ==
  /\ Todo(<<To("shutdown", Whichever)>>)
  /\ Todo(<<To("stop_all", Whichever), To("start_all", Whichever)>>)
<1>1. Whichever \in Names
  BY WardenBounds DEF Whichever
<1>2. \A op \in {"shutdown", "stop_all", "start_all"} : To(op, Whichever) \in Call
  BY <1>1 DEF Call, To
<1>3. QED
  BY <1>2 DEF Todo

\* What a step of a command does to the commands.
LEMMA ReturnTyped ==
  ASSUME ClientTyped, NEW c \in Clients, NEW ok \in BOOLEAN, Return(c, ok)
  PROVE  ClientTyped'
BY Constants DEF ClientTyped, Return, Goto, Steps

LEMMA GoOnTyped ==
  ASSUME ClientTyped, NEW c \in Clients, NEW step \in Steps, NEW todo \in Seq(Call),
         GoOn(c, step, todo), step = "call" <=> todo # <<>>,
         step # "call" => left[c] = Same, left[c] # Same => NoShutdown(todo),
         specs' \in [Clients -> Defs]
  PROVE  ClientTyped'
BY DEF ClientTyped, GoOn, Goto

LEMMA TurnTyped ==
  ASSUME ClientTyped, NEW c \in Clients, NEW diff \in Diff, NEW n \in Names,
         NEW kind \in {"removed", "changed", "added"}, NEW todo, Todo(todo), NoShutdown(todo),
         Turn(c, diff, kind, n, todo)
  PROVE  ClientTyped'
<1>1. [diff EXCEPT ![kind] = @ \ {n}] \in Diff
  BY DEF Diff
<1>2. /\ pc' = [pc EXCEPT ![c] = "call"] /\ calls' = [calls EXCEPT ![c] = todo]
      /\ left' = [left EXCEPT ![c] = [diff EXCEPT ![kind] = @ \ {n}]]
      /\ UNCHANGED <<cmd, said, alone, specs>>
  BY DEF Turn, Goto
<1>3. pc' \in [Clients -> Steps] /\ calls' \in [Clients -> Seq(Call)]
  BY <1>2 DEF ClientTyped, Steps, Todo
<1>4. left' \in [Clients -> Diff]
  BY <1>1, <1>2 DEF ClientTyped
<1>5. \A d \in Clients : (pc'[d] = "call" <=> calls'[d] # <<>>)
                         /\ (pc'[d] # "call" => left'[d] = Same)
                         /\ (left'[d] # Same => NoShutdown(calls'[d]))
  BY <1>2 DEF ClientTyped, Todo
<1>6. QED
  BY <1>2, <1>3, <1>4, <1>5 DEF ClientTyped

LEMMA NextGroupTyped ==
  ASSUME ClientTyped, NEW c \in Clients, NEW diff \in Diff, NextGroup(c, diff)
  PROVE  ClientTyped'
<1>1. diff.removed \subseteq Names /\ diff.changed \subseteq Names /\ diff.added \subseteq Names
  BY DEF Diff
<1>2. ASSUME NEW n \in diff.removed, Turn(c, diff, "removed", n, Retire(n))
      PROVE  ClientTyped'
  BY <1>1, <1>2, CallsTyped, TurnTyped
<1>3. ASSUME NEW n \in diff.changed, Turn(c, diff, "changed", n, Replace(n))
      PROVE  ClientTyped'
  BY <1>1, <1>3, CallsTyped, TurnTyped
<1>4. ASSUME NEW n \in diff.added, Turn(c, diff, "added", n, Add(n))
      PROVE  ClientTyped'
  BY <1>1, <1>4, CallsTyped, TurnTyped
<1>5. CASE Return(c, TRUE)
  BY <1>5, ReturnTyped
<1>6. QED
  BY <1>2, <1>3, <1>4, <1>5 DEF NextGroup

LEMMA NextCallTyped ==
  ASSUME ClientTyped, NEW c \in Clients, NextCall(c), calls[c] # <<>> PROVE ClientTyped'
<1>1. Tail(calls[c]) \in Seq(Call) /\ left[c] \in Diff
  BY DEF ClientTyped
<1>2. CASE Tail(calls[c]) = <<>>
  BY <1>1, <1>2, NextGroupTyped DEF NextCall
<1>3. CASE Tail(calls[c]) # <<>>
  <2>1. GoOn(c, "call", Tail(calls[c])) /\ specs' = specs
    BY <1>3 DEF NextCall
  <2>2. specs' \in [Clients -> Defs] /\ "call" \in Steps
    BY <2>1 DEF ClientTyped, Steps
  <2>3. left[c] # Same => NoShutdown(Tail(calls[c]))
    BY DEF ClientTyped, NoShutdown
  <2>4. QED
    BY <1>1, <1>3, <2>1, <2>2, <2>3, GoOnTyped
<1>4. QED
  BY <1>2, <1>3

\* The last four of TypeOK's parts, step by step.
LEMMA CommandTyped ==
  ASSUME ClientTyped, WorldTyped, NEW c \in Clients, Command(c) PROVE ClientTyped'
<1> USE Constants
<1>0. specs \in [Clients -> Defs] /\ \A s \in Steps : s # "call" \/ TRUE
  BY DEF ClientTyped
<1>1. ASSUME NEW step \in Steps \ {"call"}, pc[c] # "call", GoOn(c, step, <<>>),
             specs' \in [Clients -> Defs]
      PROVE  ClientTyped'
  <2>1. left[c] = Same
    BY <1>1 DEF ClientTyped
  <2>2. QED
    BY <1>1, <2>1, GoOnTyped
<1>2. ASSUME NEW todo, Todo(todo), GoOn(c, "call", todo), specs' = specs,
             pc[c] # "call"
      PROVE  ClientTyped'
  <2>1. left[c] = Same
    BY <1>2 DEF ClientTyped
  <2>2. QED
    BY <1>0, <1>2, <2>1, GoOnTyped DEF Steps, Todo
<1>3. ASSUME NEW ok, Return(c, ok), ok \in BOOLEAN PROVE ClientTyped'
  BY <1>3, ReturnTyped
<1>4. CASE Check(c)
  <2>1. CASE GoOn(c, "load", <<>>) /\ specs' = specs
    BY <1>0, <1>1, <1>4, <2>1 DEF Check, Steps
  <2>2. CASE \E todo : Todo(todo) /\ GoOn(c, "call", todo) /\ specs' = specs
    <3>1. pc[c] # "call"
      BY <1>4 DEF Check
    <3>2. QED
      BY <1>2, <2>2, <3>1
  <2>3. CASE Return(c, TRUE) \/ Return(c, FALSE)
    BY <1>3, <2>3
  <2>4. QED
    BY <1>4, <2>1, <2>2, <2>3, CallsTyped, BroadcastsTyped DEF Check
<1>5. CASE Load(c)
  <2>1. CASE Return(c, FALSE)
    BY <1>3, <2>1
  <2>2. CASE Loads /\ GoOn(c, "validate", <<>>) /\ specs' = [specs EXCEPT ![c] = yaml]
    <3>1. yaml \in Defs
      BY <2>2 DEF WorldTyped, Loads
    <3>2. specs' \in [Clients -> Defs] /\ pc[c] # "call"
      BY <1>0, <1>5, <2>2, <3>1 DEF Load
    <3>3. QED
      BY <1>1, <2>2, <3>2 DEF Steps
  <2>3. QED
    BY <1>5, <2>1, <2>2 DEF Load
<1>6. CASE Validate(c)
  <2>1. CASE Return(c, FALSE)
    BY <1>3, <2>1
  <2>2. PICK step \in {"sweep", "truncate"} :
          Return(c, FALSE) \/ (GoOn(c, step, <<>>) /\ specs' = specs)
    BY <1>6 DEF Validate
  <2>3. CASE GoOn(c, step, <<>>) /\ specs' = specs
    BY <1>0, <1>1, <1>6, <2>2, <2>3 DEF Validate, Steps
  <2>4. QED
    BY <2>1, <2>2, <2>3
<1>7. CASE Truncate(c)
  BY <1>0, <1>1, <1>7 DEF Truncate, Steps
<1>7a. CASE Sweep(c)
  BY <1>0, <1>1, <1>7a DEF Sweep, Steps
<1>8. CASE Fill(c)
  <2>1. PICK step \in {"start", "reread"} : GoOn(c, step, <<>>)
    BY <1>8 DEF Fill
  <2>2. specs' = specs /\ pc[c] # "call" /\ step \in Steps \ {"call"}
    BY <1>8 DEF Fill, Steps
  <2>3. QED
    BY <1>0, <1>1, <2>1, <2>2
<1>9. CASE StartDaemon(c)
  <2>1. CASE Return(c, FALSE)
    BY <1>3, <2>1
  <2>2. CASE GoOn(c, "poll", <<>>) /\ specs' = specs
    BY <1>0, <1>1, <1>9, <2>2 DEF StartDaemon, Steps
  <2>3. QED
    BY <1>9, <2>1, <2>2 DEF StartDaemon
<1>10. CASE Reread(c)
  <2>1. CASE Return(c, FALSE)
    BY <1>3, <2>1
  <2>2. CASE NextGroup(c, Reconcile(conf))
    <3>1. Reconcile(conf) \in Diff
      BY DEF Reconcile, Diff, Removed, Changed, Added
    <3>2. QED
      BY <2>2, <3>1, NextGroupTyped
  <2>3. QED
    BY <1>10, <2>1, <2>2 DEF Reread
<1>11. CASE MakeCall(c)
  <2>1. calls[c] # <<>>
    BY <1>11 DEF MakeCall, ClientTyped
  <2>2. CASE Return(c, FALSE)
    BY <1>3, <2>2
  <2>3. CASE NextCall(c)
    BY <2>1, <2>3, NextCallTyped
  <2>4. CASE Head(calls[c]).op = "shutdown" /\ GoOn(c, "poll", <<>>) /\ specs' = specs
    <3>1. left[c] = Same
      BY <2>1, <2>4 DEF ClientTyped, NoShutdown
    <3>2. QED
      BY <1>0, <2>4, <3>1, GoOnTyped DEF Steps
  <2>5. QED
    BY <1>11, <2>2, <2>3, <2>4 DEF MakeCall
<1>12. CASE Poll(c)
  <2>1. Awaited(c) \in BOOLEAN
    BY DEF Awaited, IsRunning
  <2>2. QED
    BY <1>3, <1>12, <2>1 DEF Poll
<1>13. QED
  BY <1>4, <1>5, <1>6, <1>7, <1>7a, <1>8, <1>9, <1>10, <1>11, <1>12 DEF Command

\* What a step does to the rest.
LEMMA AcceptedTyped ==
  ASSUME WorldTyped, NEW call \in Call, Accepted(call), UNCHANGED <<files, read, deaths>>
  PROVE  WorldTyped'
<1>1. UNCHANGED <<yaml, conf, edits, read, deaths>>
  BY DEF files
<1>2. WorldTyped' <=> /\ daemon' \in {"none", "running", "stopping"} /\ groups' \in Defs
                      /\ alive' \subseteq Names /\ stopped' \subseteq Grouped'
                      /\ wiped' \subseteq alive'
  BY <1>1 DEF WorldTyped, Grouped
<1>3. ASSUME NEW n \in Names, Stop(n) \/ StartProcess(n) PROVE WorldTyped'
  BY <1>2, <1>3 DEF WorldTyped, Stop, StartProcess, Grouped
<1>4. ASSUME NEW n \in Names, RemoveGroup(n) PROVE WorldTyped'
  BY <1>2, <1>4, WardenBounds DEF WorldTyped, RemoveGroup, Grouped, Defs
<1>5. ASSUME NEW n \in Names, AddGroup(n) PROVE WorldTyped'
  BY <1>2, <1>5 DEF WorldTyped, AddGroup, Grouped, Defs
<1>6. CASE StopAll \/ StartAll \/ Shutdown
  BY <1>2, <1>6 DEF WorldTyped, StopAll, StartAll, Shutdown, Grouped, services
<1>7. call.n \in Names
  BY DEF Call
<1>8. QED
  BY <1>3, <1>4, <1>5, <1>6, <1>7 DEF Accepted

LEMMA CommandWorld ==
  ASSUME ClientTyped, WorldTyped, NEW c \in Clients, Command(c) PROVE WorldTyped'
<1>1. CASE Check(c) \/ Load(c) \/ Validate(c) \/ Poll(c)
  BY <1>1 DEF Check, Load, Validate, Poll, files, supervisor, services, WorldTyped, Grouped
<1>2. CASE Sweep(c)
  BY <1>2 DEF Sweep, files, WorldTyped, Grouped
<1>3. CASE Truncate(c) \/ Fill(c)
  BY <1>3 DEF Truncate, Fill, supervisor, services, WorldTyped, ClientTyped, Grouped
<1>4. CASE StartDaemon(c)
  BY <1>4 DEF StartDaemon, files, WorldTyped, Grouped
<1>5. CASE Reread(c)
  BY <1>5 DEF Reread, files, services, WorldTyped, Grouped
<1>6. CASE MakeCall(c)
  <2>1. UNCHANGED <<files, read, deaths>> /\ calls[c] # <<>> /\ calls[c] \in Seq(Call)
    BY <1>6 DEF MakeCall, ClientTyped
  <2>2. Head(calls[c]) \in Call
    BY <2>1
  <2>3. CASE Accepted(Head(calls[c]))
    BY <2>1, <2>2, <2>3, AcceptedTyped
  <2>4. CASE UNCHANGED <<daemon, groups, services>>
    BY <2>1, <2>4 DEF files, services, WorldTyped, Grouped
  <2>5. QED
    BY <1>6, <2>3, <2>4 DEF MakeCall
<1>7. QED
  BY <1>1, <1>2, <1>3, <1>4, <1>5, <1>6 DEF Command

LEMMA BeginTyped ==
  ASSUME ClientTyped, NEW c \in Clients, Begin(c) PROVE ClientTyped'
<1>1. /\ pc' = [pc EXCEPT ![c] = "check"] /\ pc[c] = "idle"
      /\ said' = [said EXCEPT ![c] = FALSE]
      /\ UNCHANGED <<specs, calls, left>>
  BY DEF Begin, Goto
<1>2. /\ alone' \in [Clients -> BOOLEAN]
      /\ cmd' \in [Clients -> Commands \cup {"none"}]
  BY DEF Begin, ClientTyped
<1>3. pc' \in [Clients -> Steps] /\ said' \in [Clients -> BOOLEAN]
  BY <1>1 DEF ClientTyped, Steps
<1>4. \A d \in Clients : /\ pc'[d] = "call" <=> calls'[d] # <<>>
                         /\ pc'[d] # "call" => left'[d] = Same
                         /\ left'[d] # Same => NoShutdown(calls'[d])
  BY <1>1 DEF ClientTyped
<1>5. QED
  BY <1>1, <1>2, <1>3, <1>4 DEF ClientTyped

\* The steps that are no command's.
Elsewhere == Edit \/ Launch \/ Ends \/ DaemonLeaves \/ DaemonDies \/ UNCHANGED vars

LEMMA ElsewhereTyped ==
  ASSUME ClientTyped, WorldTyped, Elsewhere PROVE ClientTyped' /\ WorldTyped'
<1>1. UNCHANGED clients
  BY DEF Elsewhere, Edit, Launch, Ends, DaemonLeaves, DaemonDies, vars
<1>2. ClientTyped'
  BY <1>1 DEF clients, ClientTyped
<1>3. CASE Edit
  BY <1>2, <1>3, WardenBounds DEF Edit, supervisor, services, WorldTyped, Grouped
<1>4. CASE Launch
  BY <1>2, <1>4 DEF Launch, files, WorldTyped, Grouped
<1>5. CASE Ends
  BY <1>2, <1>5 DEF Ends, files, WorldTyped, Grouped
<1>6. CASE DaemonLeaves
  BY <1>2, <1>6, Constants DEF DaemonLeaves, files, WorldTyped, Grouped
<1>7. CASE DaemonDies
  BY <1>2, <1>7, Constants, WardenBounds DEF DaemonDies, files, WorldTyped, Grouped
<1>8. CASE UNCHANGED vars
  BY <1>2, <1>8 DEF vars, files, supervisor, services, WorldTyped, Grouped
<1>9. QED
  BY <1>2, <1>3, <1>4, <1>5, <1>6, <1>7, <1>8 DEF Elsewhere

LEMMA TypedStep ==
  ASSUME ClientTyped, WorldTyped, [Next]_vars PROVE ClientTyped' /\ WorldTyped'
<1>1. ASSUME NEW c \in Clients, Begin(c) PROVE ClientTyped' /\ WorldTyped'
  <2>1. WorldTyped'
    BY <1>1 DEF Begin, files, supervisor, services, WorldTyped, Grouped
  <2>2. QED
    BY <1>1, <2>1, BeginTyped
<1>2. ASSUME NEW c \in Clients, Command(c) PROVE ClientTyped' /\ WorldTyped'
  BY <1>2, CommandTyped, CommandWorld
<1>3. CASE Interrupted
  <2>1. PICK c \in Clients : Return(c, FALSE)
    BY <1>3 DEF Interrupted
  <2>2. ClientTyped'
    BY <2>1, ReturnTyped
  <2>3. WorldTyped'
    BY <1>3, WardenBounds DEF Interrupted, files, supervisor, services, WorldTyped, Grouped
  <2>4. QED
    BY <2>2, <2>3
<1>4. QED
  BY <1>1, <1>2, <1>3, ElsewhereTyped DEF Next, Elsewhere

\* Every variable has its type; a command that makes no call has none left, no
\* group still to see to, and is left with neither when it fails or is interrupted.
THEOREM CommandsTyped == Spec => []TypeOK
<1>1. Init => ClientTyped /\ WorldTyped
  BY Constants, WardenBounds DEF Init, ClientTyped, WorldTyped, Grouped, Steps, Defs
<1>2. ClientTyped /\ WorldTyped /\ [Next]_vars => ClientTyped' /\ WorldTyped'
  BY TypedStep
<1>3. QED
  BY <1>1, <1>2, TypeParts, PTL DEF Spec

----------------------------------------------------------------------------
(* Beside no other command *)

\* A command that has run beside no other is the only one that runs, so nobody
\* has started a supervisord since it found none.
Alone ==
  /\ DOMAIN pc = Clients /\ DOMAIN cmd = Clients
  /\ alone \in [Clients -> BOOLEAN]
  /\ \A c \in Clients : alone[c] /\ pc[c] # "idle" =>
       \A d \in Clients \ {c} : pc[d] = "idle"

Booting ==
  \A c \in Clients :
    alone[c] /\ cmd[c] = "up" /\ pc[c] \in {"load", "validate", "sweep"} => daemon # "running"

Sweeping == \A c \in Clients : pc[c] = "sweep" => cmd[c] = "up"

WInv == Alone /\ Booting /\ Sweeping

\* The command that runs stays alone, or ends.
LEMMA OwnStep ==
  ASSUME Alone, NEW c \in Clients, NEW step, pc[c] # "idle",
         pc' = [pc EXCEPT ![c] = step],
         \/ UNCHANGED <<cmd, alone>>
         \/ /\ step = "idle" /\ cmd' = [cmd EXCEPT ![c] = "none"]
            /\ alone' = [alone EXCEPT ![c] = TRUE]
  PROVE  Alone'
<1>1. /\ DOMAIN pc' = Clients /\ DOMAIN cmd' = Clients
      /\ alone' \in [Clients -> BOOLEAN]
  BY DEF Alone
<1>2. ASSUME NEW a \in Clients, alone'[a], pc'[a] # "idle", NEW d \in Clients \ {a}
      PROVE  pc'[d] = "idle"
  <2>1. alone[a] /\ pc[a] # "idle"
    BY <1>2 DEF Alone
  <2>2. a = c
    BY <2>1 DEF Alone
  <2>3. QED
    BY <1>2, <2>1, <2>2 DEF Alone
<1>3. QED
  BY <1>1, <1>2 DEF Alone

\* What every step of a command is: it goes on, or returns.
LEMMA ReturnStep ==
  ASSUME Alone, NEW c \in Clients, NEW ok, Return(c, ok), pc[c] # "idle" PROVE Alone'
BY OwnStep DEF Return, Goto

LEMMA GoOnStep ==
  ASSUME Alone, NEW c \in Clients, NEW step, NEW todo, GoOn(c, step, todo),
         pc[c] # "idle"
  PROVE  Alone'
BY OwnStep DEF GoOn, Goto

\* A command that goes from one group or call to the next goes on calling, or
\* returns.
LEMMA NextGroupShape ==
  ASSUME NEW c, NEW diff, NextGroup(c, diff)
  PROVE  \/ pc' = [pc EXCEPT ![c] = "call"] /\ UNCHANGED <<cmd, said, alone, specs>>
         \/ Return(c, TRUE)
BY DEF NextGroup, Turn, Goto

LEMMA NextCallShape ==
  ASSUME NEW c, NextCall(c)
  PROVE  \/ pc' = [pc EXCEPT ![c] = "call"] /\ UNCHANGED <<cmd, said, alone, specs>>
         \/ Return(c, TRUE)
BY NextGroupShape DEF NextCall, GoOn, Goto

\* A command's step keeps who is alone.
LEMMA CommandAlone == ASSUME Alone, NEW c \in Clients, Command(c) PROVE Alone'
<1>0. pc[c] # "idle"
  BY DEF Command, Check, Load, Validate, Sweep, Truncate, Fill, StartDaemon, Reread, MakeCall, Poll
<1>1. ASSUME pc' = [pc EXCEPT ![c] = "call"], UNCHANGED <<cmd, said, alone, specs>>
      PROVE  Alone'
  BY <1>0, <1>1, OwnStep
<1>2. CASE Check(c)
  BY <1>0, <1>2, ReturnStep, GoOnStep DEF Check
<1>3. CASE Load(c)
  BY <1>0, <1>3, ReturnStep, GoOnStep DEF Load
<1>4. CASE Validate(c)
  <2>1. PICK step : Return(c, FALSE) \/ GoOn(c, step, <<>>)
    BY <1>4 DEF Validate
  <2>2. QED
    BY <1>0, <2>1, ReturnStep, GoOnStep
<1>4a. CASE Sweep(c)
  BY <1>0, <1>4a, GoOnStep DEF Sweep
<1>5. CASE Truncate(c)
  BY <1>0, <1>5, GoOnStep DEF Truncate
<1>6. CASE Fill(c)
  <2>1. PICK step : GoOn(c, step, <<>>)
    BY <1>6 DEF Fill
  <2>2. QED
    BY <1>0, <2>1, GoOnStep
<1>7. CASE StartDaemon(c)
  BY <1>0, <1>7, ReturnStep, GoOnStep DEF StartDaemon
<1>8. CASE Reread(c)
  BY <1>0, <1>1, <1>8, NextGroupShape, ReturnStep DEF Reread
<1>9. CASE MakeCall(c)
  BY <1>0, <1>1, <1>9, NextCallShape, ReturnStep, GoOnStep DEF MakeCall
<1>10. CASE Poll(c)
  BY <1>0, <1>10, ReturnStep DEF Poll
<1>11. QED
  BY <1>2, <1>3, <1>4, <1>4a, <1>5, <1>6, <1>7, <1>8, <1>9, <1>10 DEF Command

\* Every step keeps who is alone.
LEMMA AloneStep == ASSUME Alone, [Next]_vars PROVE Alone'
<1>1. ASSUME NEW c \in Clients, Begin(c) PROVE Alone'
  <2>1. /\ pc' = [pc EXCEPT ![c] = "check"]
        /\ alone' = [d \in Clients |-> \A e \in Clients \ {c} : pc[e] = "idle"]
        /\ \E op \in Commands : cmd' = [cmd EXCEPT ![c] = op]
    BY <1>1 DEF Begin, Goto
  <2>2. DOMAIN cmd' = Clients
    BY <2>1 DEF Alone
  <2>3. DOMAIN pc' = Clients /\ alone' \in [Clients -> BOOLEAN]
    BY <2>1 DEF Alone
  <2>4. ASSUME NEW a \in Clients, alone'[a], pc'[a] # "idle", NEW d \in Clients \ {a}
        PROVE  pc'[d] = "idle"
    <3>1. \A e \in Clients \ {c} : pc[e] = "idle"
      BY <2>1, <2>4
    <3>2. a = c
      BY <2>1, <2>4, <3>1 DEF Alone
    <3>3. QED
      BY <2>1, <3>1, <3>2 DEF Alone
  <2>5. QED
    BY <2>2, <2>3, <2>4 DEF Alone
<1>2. CASE \E c \in Clients : Command(c)
  BY <1>2, CommandAlone
<1>3. CASE Edit \/ Launch \/ Ends \/ DaemonLeaves \/ DaemonDies \/ UNCHANGED vars
  <2>1. UNCHANGED clients
    BY <1>3 DEF Edit, Launch, Ends, DaemonLeaves, DaemonDies, vars
  <2>2. QED
    BY <2>1 DEF clients, Alone
<1>4. CASE Interrupted
  <2>1. PICK c \in Clients : pc[c] # "idle" /\ Return(c, FALSE)
    BY <1>4 DEF Interrupted
  <2>2. QED
    BY <2>1, ReturnStep
<1>5. QED
  BY <1>1, <1>2, <1>3, <1>4 DEF Next

\* A supervisord that runs was started by a command, which is then at its last
\* step; anything else leaves the answer of is_running() as it is, or makes it no.
LEMMA DaemonUp ==
  ASSUME [Next]_vars, daemon' = "running", daemon # "running"
  PROVE  \E c \in Clients : StartDaemon(c) /\ pc[c] = "start"
<1>1. CASE \E c \in Clients : Begin(c)
  BY <1>1 DEF Begin, supervisor
<1>2. CASE \E c \in Clients : Command(c)
  <2>1. PICK c \in Clients : Command(c)
    BY <1>2
  <2>2. ~(Check(c) \/ Truncate(c) \/ Fill(c) \/ Poll(c) \/ Load(c))
    BY DEF Check, Truncate, Fill, Poll, Load, supervisor
  <2>3. ~(Validate(c) \/ Sweep(c) \/ Reread(c))
    BY DEF Validate, Sweep, Reread, supervisor
  <2>4. ~MakeCall(c)
    <3>1. ASSUME Accepted(Head(calls[c])) PROVE FALSE
      BY <3>1 DEF Accepted, IsRunning
    <3>2. QED
      BY <3>1 DEF MakeCall
  <2>5. QED
    BY <2>1, <2>2, <2>3, <2>4 DEF Command, StartDaemon
<1>3. CASE Edit \/ Launch \/ Ends \/ DaemonLeaves \/ DaemonDies \/ Interrupted \/ UNCHANGED vars
  BY <1>3 DEF Edit, Launch, Ends, DaemonLeaves, DaemonDies, Interrupted, vars, supervisor
<1>4. QED
  BY <1>1, <1>2, <1>3 DEF Next

\* A command that loads, validates or sweeps for an up was there before, at an earlier
\* step, or has just found no supervisord.
LEMMA LoadStep ==
  ASSUME Alone, [Next]_vars, NEW c \in Clients,
         pc'[c] \in {"load", "validate", "sweep"}, cmd'[c] = "up", alone'[c]
  PROVE  /\ alone[c] /\ cmd[c] = "up"
         /\ \/ pc[c] \in {"load", "validate", "sweep"}
            \/ pc[c] = "check" /\ daemon # "running" /\ daemon' = daemon
<1>0. DOMAIN pc = Clients /\ DOMAIN cmd = Clients /\ DOMAIN alone = Clients
  BY DEF Alone
<1>1. ASSUME NEW d \in Clients, NEW step, pc' = [pc EXCEPT ![d] = step], UNCHANGED <<cmd, alone>>,
             step \notin {"load", "validate", "sweep"}
      PROVE  alone[c] /\ cmd[c] = "up" /\ pc[c] \in {"load", "validate", "sweep"}
  BY <1>0, <1>1
<1>2. ASSUME NEW d \in Clients, NEW ok, Return(d, ok)
      PROVE  alone[c] /\ cmd[c] = "up" /\ pc[c] \in {"load", "validate", "sweep"}
  BY <1>0, <1>2 DEF Return, Goto
<1>3. ASSUME NEW d \in Clients, NextCall(d) \/ \E diff : NextGroup(d, diff)
      PROVE  alone[c] /\ cmd[c] = "up" /\ pc[c] \in {"load", "validate", "sweep"}
  BY <1>1, <1>2, <1>3, NextCallShape, NextGroupShape
<1>4. ASSUME NEW d \in Clients, Begin(d)
      PROVE  alone[c] /\ cmd[c] = "up" /\ pc[c] \in {"load", "validate", "sweep"}
  <2>1. pc' = [pc EXCEPT ![d] = "check"] /\ c # d /\ pc[c] # "idle"
    BY <1>0, <1>4 DEF Begin, Goto
  <2>2. alone'[c] = (\A e \in Clients \ {d} : pc[e] = "idle")
    BY <1>4 DEF Begin
  <2>3. QED
    BY <2>1, <2>2
<1>5. ASSUME NEW d \in Clients, Check(d)
      PROVE  /\ alone[c] /\ cmd[c] = "up"
             /\ \/ pc[c] \in {"load", "validate", "sweep"}
                \/ pc[c] = "check" /\ daemon # "running" /\ daemon' = daemon
  <2>0. daemon' = daemon
    BY <1>5 DEF Check, supervisor
  <2>1. CASE cmd[d] = "up" /\ MayBoot /\ GoOn(d, "load", <<>>)
    BY <1>0, <1>5, <2>0, <2>1 DEF Check, GoOn, Goto, MayBoot, IsRunning
  <2>2. CASE cmd[d] = "apply" /\ GoOn(d, "load", <<>>)
    BY <1>0, <2>2 DEF GoOn, Goto
  <2>3. CASE \E todo : GoOn(d, "call", todo)
    BY <1>1, <2>3 DEF GoOn, Goto
  <2>4. CASE \E ok : Return(d, ok)
    BY <1>2, <2>4
  <2>5. QED
    BY <1>5, <2>1, <2>2, <2>3, <2>4 DEF Check
<1>6. ASSUME NEW d \in Clients, Load(d) \/ Validate(d) \/ Sweep(d)
      PROVE  alone[c] /\ cmd[c] = "up" /\ pc[c] \in {"load", "validate", "sweep"}
  <2>1. CASE \E ok : Return(d, ok)
    BY <1>2, <2>1
  <2>2. CASE pc[d] = "load" /\ GoOn(d, "validate", <<>>)
    BY <1>0, <2>2 DEF GoOn, Goto
  <2>3. CASE GoOn(d, "truncate", <<>>)
    BY <1>1, <2>3 DEF GoOn, Goto
  <2>4. CASE pc[d] = "validate" /\ GoOn(d, "sweep", <<>>)
    BY <1>0, <2>4 DEF GoOn, Goto
  <2>5. QED
    BY <1>6, <2>1, <2>2, <2>3, <2>4 DEF Load, Validate, Sweep
<1>7. ASSUME NEW d \in Clients,
             Truncate(d) \/ Fill(d) \/ StartDaemon(d) \/ Reread(d) \/ MakeCall(d) \/ Poll(d)
      PROVE  alone[c] /\ cmd[c] = "up" /\ pc[c] \in {"load", "validate", "sweep"}
  <2>1. CASE Truncate(d)
    BY <1>1, <2>1 DEF Truncate, GoOn, Goto
  <2>2. CASE Fill(d)
    <3>1. GoOn(d, "start", <<>>) \/ GoOn(d, "reread", <<>>)
      BY <2>2 DEF Fill
    <3>2. QED
      BY <1>1, <3>1 DEF GoOn, Goto
  <2>3. CASE StartDaemon(d)
    BY <1>1, <1>2, <2>3 DEF StartDaemon, GoOn, Goto
  <2>4. CASE Reread(d)
    BY <1>2, <1>3, <2>4 DEF Reread
  <2>5. CASE MakeCall(d)
    BY <1>1, <1>2, <1>3, <2>5 DEF MakeCall, GoOn, Goto
  <2>6. CASE Poll(d)
    BY <1>2, <2>6 DEF Poll
  <2>7. QED
    BY <1>7, <2>1, <2>2, <2>3, <2>4, <2>5, <2>6
<1>8. CASE Edit \/ Launch \/ Ends \/ DaemonLeaves \/ DaemonDies \/ UNCHANGED vars
  <2>1. UNCHANGED clients
    BY <1>8 DEF Edit, Launch, Ends, DaemonLeaves, DaemonDies, vars
  <2>2. QED
    BY <2>1 DEF clients
<1>9. CASE Interrupted
  BY <1>2, <1>9 DEF Interrupted
<1>10. QED
  BY <1>4, <1>5, <1>6, <1>7, <1>8, <1>9 DEF Next, Command

\* Only an up comes to the sweep.
LEMMA SweepingStep == ASSUME Alone, Sweeping, [Next]_vars PROVE Sweeping'
<1>0. DOMAIN pc = Clients /\ DOMAIN cmd = Clients
  BY DEF Alone
<1>1. ASSUME NEW d \in Clients, Command(d)
      PROVE  \/ \E ok : Return(d, ok)
             \/ \E step : /\ pc' = [pc EXCEPT ![d] = step] /\ UNCHANGED cmd
                          /\ step = "sweep" => cmd[d] = "up"
  BY <1>1, NextGroupShape, NextCallShape DEF Command, Check, Load, Validate, Sweep, Truncate,
     Fill, StartDaemon, Reread, MakeCall, Poll, GoOn, Goto
<1>2. CASE \E d \in Clients : Command(d)
  BY <1>0, <1>1, <1>2 DEF Sweeping, Return, Goto
<1>3. CASE \E d \in Clients : Begin(d)
  BY <1>0, <1>3 DEF Begin, Goto, Sweeping
<1>4. CASE Interrupted
  BY <1>0, <1>4 DEF Interrupted, Return, Goto, Sweeping
<1>5. CASE Edit \/ Launch \/ Ends \/ DaemonLeaves \/ DaemonDies \/ UNCHANGED vars
  <2>1. UNCHANGED clients
    BY <1>5 DEF Edit, Launch, Ends, DaemonLeaves, DaemonDies, vars
  <2>2. QED
    BY <2>1 DEF clients, Sweeping
<1>6. QED
  BY <1>2, <1>3, <1>4, <1>5 DEF Next

\* Every step keeps the invariant.
LEMMA BootStep == WInv /\ [Next]_vars => WInv'
<1> SUFFICES ASSUME WInv, [Next]_vars PROVE WInv'
  OBVIOUS
<1>1. Alone'
  BY AloneStep DEF WInv
<1>2. ASSUME NEW c \in Clients, alone'[c], cmd'[c] = "up", pc'[c] \in {"load", "validate", "sweep"},
             daemon' = "running"
      PROVE  FALSE
  <2>1. alone[c] /\ cmd[c] = "up" /\ pc[c] \in {"load", "validate", "sweep"}
    BY <1>2, LoadStep DEF WInv
  <2>2. daemon # "running"
    BY <2>1 DEF WInv, Booting
  <2>3. PICK d \in Clients : pc[d] = "start"
    BY <1>2, <2>2, DaemonUp
  <2>4. QED
    BY <2>1, <2>3 DEF WInv, Alone
<1>3. Booting'
  BY <1>2 DEF Booting
<1>4. Sweeping'
  BY SweepingStep DEF WInv
<1>5. QED
  BY <1>1, <1>3, <1>4 DEF WInv

\* An up that runs beside no other command sweeps no segments under a
\* supervisord that runs: what is_running() said still holds when the cleanups
\* come, however long loading and validating took.
THEOREM SweepsAtBoundary == Spec => SweepAtBoundary
<1>1. Init => WInv
  BY DEF Init, WInv, Alone, Booting, Sweeping
<1>2. WInv /\ [Next]_vars =>
        [ \A c \in Clients :
            wiped' # wiped /\ pc[c] = "sweep" /\ pc'[c] = "truncate" /\ alone[c]
              => daemon # "running" ]_vars
  <2> SUFFICES ASSUME WInv, [Next]_vars, NEW c \in Clients,
                      wiped' # wiped, pc[c] = "sweep", pc'[c] = "truncate", alone[c]
               PROVE  daemon # "running"
    OBVIOUS
  <2>1. \A d \in Clients \ {c} : pc[d] = "idle"
    BY DEF WInv, Alone
  <2>2. Sweep(c)
    <3>1. ~UNCHANGED clients
      BY DEF clients
    <3>2. \A d \in Clients : ~Return(d, FALSE)
      BY DEF Return, Goto, WInv, Alone
    <3>3. QED
      <4>1. ~(Edit \/ Launch \/ Ends \/ DaemonLeaves \/ DaemonDies \/ UNCHANGED vars)
        BY <3>1 DEF Edit, Launch, Ends, DaemonLeaves, DaemonDies, vars
      <4>2. ~Interrupted
        BY <3>2 DEF Interrupted
      <4>3. \A d \in Clients : ~Begin(d)
        BY DEF Begin, supervisor, services
      <4>4. \A d \in Clients : Command(d) => d = c
        BY <2>1 DEF Command, Check, Load, Validate, Sweep, Truncate, Fill, StartDaemon, Reread,
                    MakeCall, Poll
      <4>5. Command(c)
        BY <4>1, <4>2, <4>3, <4>4 DEF Next
      <4>6. QED
        BY <4>5 DEF Command, Check, Load, Validate, Sweep, Truncate, Fill, StartDaemon, Reread,
                    MakeCall, Poll
  <2>3. cmd[c] = "up"
    BY <2>2 DEF Sweep, WInv, Sweeping
  <2>4. QED
    BY <2>3 DEF WInv, Booting
<1>3. QED
  BY <1>1, <1>2, BootStep, PTL DEF Spec, SweepAtBoundary
----------------------------------------------------------------------------
(* An up or an apply on its way *)

\* Where an up or an apply can be; an apply never makes the call of a down.
Walk ==
  \A c \in Clients :
    /\ cmd[c] = "up" => pc[c] \in {"check", "load", "validate", "sweep", "truncate", "fill",
                                   "start", "poll"}
    /\ cmd[c] = "apply" => /\ pc[c] \in {"check", "load", "validate", "sweep", "truncate", "fill",
                                         "reread", "call"}
                           /\ NoShutdown(calls[c])

Pending(diff) == diff.removed \cup diff.changed \cup diff.added

\* The groups of diff are those still to be brought from now to new, each in the
\* list it belongs to.
ToDo(now, new, diff) ==
  /\ \A n \in Pending(diff) : now[n] # new[n]
  /\ diff.changed \cap diff.added = {}
  /\ \A n \in diff.removed : new[n] = 0
  /\ \A n \in diff.changed \cup diff.added : new[n] # 0

\* The calls an apply has left for group n are those that bring it to its new
\* definition.
AtGroup(c, n) ==
  \/ calls[c] \in {Retire(n), <<To("remove", n)>>} /\ specs[c][n] = 0
  \/ /\ calls[c] \in {Replace(n), <<To("remove", n), To("add", n)>>, Add(n)}
     /\ specs[c][n] # 0 /\ groups[n] # specs[c][n]

\* An apply between two calls: it is at one group, has others left, and all the
\* rest are as the conf says.
Reconciling(c) ==
  /\ read = specs[c] /\ ToDo(groups, specs[c], left[c])
  /\ \E n \in Names \ Pending(left[c]) :
       /\ AtGroup(c, n)
       /\ \A m \in Names \ (Pending(left[c]) \cup {n}) : groups[m] = specs[c][m]

\* What a command that runs beside no other knows: the conf is what it wrote, and
\* supervisord, if it still lives, has the groups it was told of so far.
Knows(c) ==
  /\ pc[c] \in {"start", "reread"} => conf = specs[c]
  /\ cmd[c] = "up" /\ pc[c] = "poll" /\ daemon = "running" => groups = specs[c]
  /\ cmd[c] = "apply" /\ pc[c] = "call" /\ daemon = "running" => Reconciling(c)

Underway == \A c \in Clients : alone[c] => Knows(c)

CInv == ClientTyped /\ WorldTyped /\ Alone /\ Walk /\ Underway

\* Walk is kept when a command goes on to a step of its own, or returns.
LEMMA OwnWalk ==
  ASSUME ClientTyped, Walk, NEW c \in Clients, NEW step, NEW todo,
         pc' = [pc EXCEPT ![c] = step], calls' = [calls EXCEPT ![c] = todo],
         \/ cmd' = [cmd EXCEPT ![c] = "none"]
         \/ /\ cmd' = cmd
            /\ cmd[c] = "up" => step \in {"load", "validate", "sweep", "truncate", "fill", "start",
                                          "poll"}
            /\ cmd[c] = "apply" => /\ step \in {"load", "validate", "sweep", "truncate", "fill",
                                                "reread", "call"}
                                   /\ NoShutdown(todo)
  PROVE  Walk'
<1>1. ASSUME NEW d \in Clients \ {c}
      PROVE  pc'[d] = pc[d] /\ calls'[d] = calls[d] /\ cmd'[d] = cmd[d]
  BY DEF ClientTyped
<1>2. pc'[c] = step /\ calls'[c] = todo
  BY DEF ClientTyped
<1>3. \/ cmd'[c] = "none"
      \/ /\ cmd'[c] = cmd[c]
         /\ cmd[c] = "up" => step \in {"load", "validate", "sweep", "truncate", "fill", "start",
                                       "poll"}
         /\ cmd[c] = "apply" => /\ step \in {"load", "validate", "sweep", "truncate", "fill",
                                             "reread", "call"}
                                /\ NoShutdown(todo)
  <2>1. CASE cmd' = [cmd EXCEPT ![c] = "none"]
    BY <2>1 DEF ClientTyped
  <2>2. CASE cmd' # [cmd EXCEPT ![c] = "none"]
    BY <2>2
  <2>3. QED
    BY <2>1, <2>2
<1>4. ASSUME NEW d \in Clients
      PROVE  /\ cmd'[d] = "up" => pc'[d] \in {"check", "load", "validate", "sweep", "truncate", "fill",
                                              "start", "poll"}
             /\ cmd'[d] = "apply" => /\ pc'[d] \in {"check", "load", "validate", "sweep", "truncate",
                                                    "fill", "reread", "call"}
                                     /\ NoShutdown(calls'[d])
  <2>1. CASE d # c
    BY <1>1, <2>1 DEF Walk
  <2>2. CASE d = c
    BY <1>2, <1>3, <2>2
  <2>3. QED
    BY <2>1, <2>2
<1>5. QED
  BY <1>4 DEF Walk

LEMMA ReturnWalk ==
  ASSUME ClientTyped, Walk, NEW c \in Clients, NEW ok, Return(c, ok) PROVE Walk'
BY OwnWalk DEF Return, Goto

LEMMA NextGroupWalk ==
  ASSUME ClientTyped, Walk, NEW c \in Clients, NEW diff \in Diff, NextGroup(c, diff),
         cmd[c] # "up"
  PROVE  Walk'
<1>1. ASSUME NEW n \in Names, NEW kind, NEW todo, NoShutdown(todo),
             Turn(c, diff, kind, n, todo)
      PROVE  Walk'
  BY <1>1, OwnWalk DEF Turn, Goto
<1>2. diff.removed \subseteq Names /\ diff.changed \subseteq Names /\ diff.added \subseteq Names
  BY DEF Diff
<1>3. QED
  BY <1>1, <1>2, CallsTyped, ReturnWalk DEF NextGroup

LEMMA CommandWalk ==
  ASSUME ClientTyped, Walk, NEW c \in Clients, Command(c) PROVE Walk'
<1>1. NoShutdown(<<>>)
  BY DEF NoShutdown
<1>2. CASE Check(c)
  <2>1. CASE \E ok : Return(c, ok)
    BY <2>1, ReturnWalk
  <2>2. CASE GoOn(c, "load", <<>>)
    BY <1>1, <2>2, OwnWalk DEF GoOn, Goto
  <2>3. CASE cmd[c] \notin {"up", "apply"} /\ \E todo : GoOn(c, "call", todo)
    BY <2>3, OwnWalk DEF GoOn, Goto
  <2>4. QED
    BY <1>2, <2>1, <2>2, <2>3 DEF Check
<1>3. CASE Load(c) \/ Validate(c) \/ Sweep(c) \/ Truncate(c)
  <2>1. CASE \E ok : Return(c, ok)
    BY <2>1, ReturnWalk
  <2>2. CASE \E step \in {"validate", "sweep", "truncate", "fill"} : GoOn(c, step, <<>>)
    BY <1>1, <2>2, OwnWalk DEF GoOn, Goto
  <2>3. QED
    BY <1>3, <2>1, <2>2 DEF Load, Validate, Sweep, Truncate
<1>4. CASE Fill(c)
  BY <1>1, <1>4, OwnWalk DEF Fill, GoOn, Goto
<1>5. CASE StartDaemon(c)
  <2>1. cmd[c] # "apply"
    BY <1>5 DEF StartDaemon, Walk
  <2>2. CASE GoOn(c, "poll", <<>>)
    BY <2>1, <2>2, OwnWalk DEF GoOn, Goto
  <2>3. QED
    BY <1>5, <2>2, ReturnWalk DEF StartDaemon
<1>6. CASE Reread(c)
  <2>1. cmd[c] # "up"
    BY <1>6 DEF Reread, Walk
  <2>2. Reconcile(conf) \in Diff
    BY DEF Reconcile, Diff, Removed, Changed, Added
  <2>3. QED
    BY <1>6, <2>1, <2>2, NextGroupWalk, ReturnWalk DEF Reread
<1>7. CASE MakeCall(c)
  <2>1. cmd[c] # "up" /\ calls[c] # <<>> /\ calls[c] \in Seq(Call) /\ left[c] \in Diff
    BY <1>7 DEF MakeCall, Walk, ClientTyped
  <2>2. CASE Return(c, FALSE)
    BY <2>2, ReturnWalk
  <2>3. CASE Head(calls[c]).op = "shutdown" /\ GoOn(c, "poll", <<>>)
    <3>1. cmd[c] # "apply"
      BY <2>1, <2>3 DEF Walk, NoShutdown
    <3>2. QED
      BY <2>1, <2>3, <3>1, OwnWalk DEF GoOn, Goto
  <2>4. CASE Tail(calls[c]) = <<>> /\ NextGroup(c, left[c])
    BY <2>1, <2>4, NextGroupWalk
  <2>5. CASE GoOn(c, "call", Tail(calls[c]))
    <3>1. cmd[c] = "apply" => NoShutdown(Tail(calls[c]))
      BY <2>1 DEF Walk, NoShutdown
    <3>2. QED
      BY <2>1, <2>5, <3>1, OwnWalk DEF GoOn, Goto
  <2>6. QED
    BY <1>7, <2>2, <2>3, <2>4, <2>5 DEF MakeCall, NextCall
<1>8. CASE Poll(c)
  BY <1>8, ReturnWalk DEF Poll
<1>9. QED
  BY <1>2, <1>3, <1>4, <1>5, <1>6, <1>7, <1>8 DEF Command

LEMMA WalkStep == ASSUME ClientTyped, Walk, [Next]_vars PROVE Walk'
<1>1. ASSUME NEW c \in Clients, Begin(c) PROVE Walk'
  <2>1. pc' = [pc EXCEPT ![c] = "check"] /\ calls' = calls /\ pc[c] = "idle"
    BY <1>1 DEF Begin, Goto
  <2>2. PICK op \in Commands : cmd' = [cmd EXCEPT ![c] = op]
    BY <1>1 DEF Begin
  <2>3. calls[c] = <<>>
    BY <2>1 DEF ClientTyped
  <2>4. NoShutdown(calls[c])
    BY <2>3 DEF NoShutdown
  <2>5. QED
    BY <2>1, <2>2, <2>4 DEF Walk, ClientTyped
<1>2. CASE Elsewhere
  <2>1. UNCHANGED clients
    BY <1>2 DEF Elsewhere, Edit, Launch, Ends, DaemonLeaves, DaemonDies, vars
  <2>2. QED
    BY <2>1 DEF clients, Walk
<1>3. CASE Interrupted
  BY <1>3, ReturnWalk DEF Interrupted
<1>4. QED
  BY <1>1, <1>2, <1>3, CommandWalk DEF Next, Elsewhere

\* What reloadConfig() says is exactly what is left to do.
LEMMA ReconcileToDo ==
  ASSUME groups \in Defs, NEW new \in Defs
  PROVE  /\ Reconcile(new) \in Diff /\ ToDo(groups, new, Reconcile(new))
         /\ \A m \in Names \ Pending(Reconcile(new)) : groups[m] = new[m]
BY DEF Reconcile, Diff, Removed, Changed, Added, ToDo, Pending

\* Taking a group from the list keeps the rest to do; with none left all is done.
LEMMA NextGroupKnows ==
  ASSUME ClientTyped, NEW c \in Clients, NEW diff \in Diff, NextGroup(c, diff),
         groups' \in Defs, read' = specs[c], ToDo(groups', specs[c], diff),
         \A m \in Names \ Pending(diff) : groups'[m] = specs[c][m]
  PROVE  Reconciling(c)' \/ (Return(c, TRUE) /\ groups' = specs[c])
<1>0. specs[c] \in Defs
  BY DEF ClientTyped
<1>1. /\ diff.removed \subseteq Names /\ diff.changed \subseteq Names
      /\ diff.added \subseteq Names
      /\ diff = [removed |-> diff.removed, changed |-> diff.changed, added |-> diff.added]
  BY DEF Diff
<1>2. ASSUME NEW kind \in {"removed", "changed", "added"}, NEW n \in diff[kind], NEW todo,
             Turn(c, diff, kind, n, todo),
             \/ todo = Retire(n) /\ specs[c][n] = 0
             \/ todo \in {Replace(n), Add(n)} /\ specs[c][n] # 0
      PROVE  Reconciling(c)'
  <2> DEFINE rest == [diff EXCEPT ![kind] = @ \ {n}]
  <2>1. left'[c] = rest /\ calls'[c] = todo /\ specs' = specs
    BY <1>2 DEF Turn, ClientTyped
  <2>2. /\ rest.removed \subseteq diff.removed /\ rest.changed \subseteq diff.changed
        /\ rest.added \subseteq diff.added
    BY <1>1
  <2>3. Pending(rest) = Pending(diff) \ {n} /\ n \in Names /\ n \in Pending(diff)
    <3>1. n \in Names /\ n \in Pending(diff)
      BY <1>1, <1>2 DEF Pending
    <3>2. CASE kind = "removed"
      <4>1. n \notin diff.changed \cup diff.added
        BY <1>2, <3>2 DEF ToDo
      <4>2. QED
        BY <1>1, <3>1, <3>2, <4>1 DEF Pending
    <3>3. CASE kind = "changed"
      <4>1. n \notin diff.removed \cup diff.added
        BY <1>2, <3>3 DEF ToDo
      <4>2. QED
        BY <1>1, <3>1, <3>3, <4>1 DEF Pending
    <3>4. CASE kind = "added"
      <4>1. n \notin diff.removed \cup diff.changed
        BY <1>2, <3>4 DEF ToDo
      <4>2. QED
        BY <1>1, <3>1, <3>4, <4>1 DEF Pending
    <3>5. QED
      BY <3>1, <3>2, <3>3, <3>4
  <2> HIDE DEF rest
  <2>4. ToDo(groups', specs[c], rest)
    BY <2>2, <2>3 DEF ToDo
  <2>5. groups'[n] # specs[c][n]
    BY <2>3 DEF ToDo
  <2>6. AtGroup(c, n)'
    BY <1>2, <2>1, <2>5 DEF AtGroup
  <2>7. \A m \in Names \ (Pending(rest) \cup {n}) : groups'[m] = specs[c][m]
    BY <2>3
  <2>8. QED
    BY <2>1, <2>3, <2>4, <2>6, <2>7 DEF Reconciling
<1>3. ASSUME NEW n \in diff.removed, Turn(c, diff, "removed", n, Retire(n))
      PROVE  Reconciling(c)'
  <2>1. n \in diff["removed"] /\ specs[c][n] = 0
    BY <1>1, <1>3 DEF ToDo
  <2>2. QED
    BY <1>2, <1>3, <2>1
<1>4. ASSUME NEW n \in diff.changed, Turn(c, diff, "changed", n, Replace(n))
      PROVE  Reconciling(c)'
  <2>1. n \in diff["changed"] /\ specs[c][n] # 0
    BY <1>1, <1>4 DEF ToDo
  <2>2. QED
    BY <1>2, <1>4, <2>1
<1>5. ASSUME NEW n \in diff.added, Turn(c, diff, "added", n, Add(n))
      PROVE  Reconciling(c)'
  <2>1. n \in diff["added"] /\ specs[c][n] # 0
    BY <1>1, <1>5 DEF ToDo
  <2>2. QED
    BY <1>2, <1>5, <2>1
<1>6. CASE diff = Same /\ Return(c, TRUE)
  <2>1. Pending(diff) = {}
    BY <1>6 DEF Pending, Same
  <2>2. \A m \in Names : groups'[m] = specs[c][m]
    BY <2>1
  <2>3. groups' = specs[c]
    BY <1>0, <2>2 DEF Defs
  <2>4. QED
    BY <1>6, <2>3
<1>7. QED
  BY <1>3, <1>4, <1>5, <1>6 DEF NextGroup

\* Each call an apply makes brings the group it is at a step nearer.
LEMMA CallKnows ==
  ASSUME ClientTyped, WorldTyped, WorldTyped', NEW c \in Clients, Reconciling(c), read' = read,
         calls[c] # <<>>, Accepted(Head(calls[c])), NextCall(c)
  PROVE  Reconciling(c)' \/ (Return(c, TRUE) /\ groups' = specs[c])
<1> DEFINE rest == Pending(left[c])
<1>1. PICK n \in Names \ rest :
        AtGroup(c, n) /\ \A m \in Names \ (rest \cup {n}) : groups[m] = specs[c][m]
  BY DEF Reconciling
<1>2. /\ groups \in Defs /\ groups' \in Defs /\ specs[c] \in Defs /\ left[c] \in Diff
      /\ read' = specs[c]
  BY DEF ClientTyped, WorldTyped, Reconciling
<1>3. rest \subseteq Names
  BY <1>2 DEF Diff, Pending
<1>4. ASSUME \A m \in Names \ {n} : groups'[m] = groups[m]
      PROVE  ToDo(groups', specs[c], left[c])
  BY <1>1, <1>3, <1>4 DEF Reconciling, ToDo
<1>5. ASSUME \A m \in Names \ {n} : groups'[m] = groups[m], NEW todo, todo # <<>>,
             Tail(calls[c]) = todo,
             \/ todo = <<To("remove", n)>> /\ specs[c][n] = 0
             \/ /\ todo \in {<<To("remove", n), To("add", n)>>, Add(n)}
                /\ specs[c][n] # 0 /\ groups'[n] # specs[c][n]
      PROVE  Reconciling(c)'
  <2>1. calls' = [calls EXCEPT ![c] = todo] /\ UNCHANGED <<left, specs>>
    BY <1>5 DEF NextCall, GoOn
  <2>2. calls'[c] = todo
    BY <2>1 DEF ClientTyped
  <2>3. AtGroup(c, n)'
    BY <1>5, <2>1, <2>2 DEF AtGroup
  <2>4. \A m \in Names \ (rest \cup {n}) : groups'[m] = specs[c][m]
    BY <1>1, <1>5
  <2>5. QED
    BY <1>1, <1>2, <1>4, <1>5, <2>1, <2>3, <2>4 DEF Reconciling
<1>6. ASSUME \A m \in Names \ {n} : groups'[m] = groups[m], Tail(calls[c]) = <<>>,
             groups'[n] = specs[c][n]
      PROVE  Reconciling(c)' \/ (Return(c, TRUE) /\ groups' = specs[c])
  <2>1. NextGroup(c, left[c])
    BY <1>6 DEF NextCall
  <2>2. \A m \in Names \ rest : groups'[m] = specs[c][m]
    BY <1>1, <1>6
  <2>3. QED
    BY <1>2, <1>4, <1>6, <2>1, <2>2, NextGroupKnows
<1>7. CASE calls[c] = Retire(n) /\ specs[c][n] = 0
  <2>1. Head(calls[c]) = To("stop", n) /\ Tail(calls[c]) = <<To("remove", n)>>
    BY <1>7 DEF Retire
  <2>2. groups' = groups
    BY <2>1 DEF Accepted, Stop, To
  <2>3. <<To("remove", n)>> # <<>>
    OBVIOUS
  <2>4. QED
    BY <1>5, <1>7, <2>1, <2>2, <2>3
<1>8. CASE calls[c] = <<To("remove", n)>> /\ specs[c][n] = 0
  <2>1. Head(calls[c]) = To("remove", n) /\ Tail(calls[c]) = <<>>
    BY <1>8
  <2>2. groups' = [groups EXCEPT ![n] = 0]
    BY <2>1 DEF Accepted, RemoveGroup, To
  <2>3. QED
    BY <1>2, <1>6, <1>8, <2>1, <2>2 DEF Defs
<1>9. CASE calls[c] = Replace(n) /\ specs[c][n] # 0 /\ groups[n] # specs[c][n]
  <2>1. Head(calls[c]) = To("stop", n) /\ Tail(calls[c]) = <<To("remove", n), To("add", n)>>
    BY <1>9 DEF Replace
  <2>2. groups' = groups
    BY <2>1 DEF Accepted, Stop, To
  <2>3. <<To("remove", n), To("add", n)>> # <<>>
    OBVIOUS
  <2>4. QED
    BY <1>5, <1>9, <2>1, <2>2, <2>3
<1>10. CASE calls[c] = <<To("remove", n), To("add", n)>> /\ specs[c][n] # 0
  <2>1. Head(calls[c]) = To("remove", n) /\ Tail(calls[c]) = Add(n)
    BY <1>10 DEF Add
  <2>2. groups' = [groups EXCEPT ![n] = 0]
    BY <2>1 DEF Accepted, RemoveGroup, To
  <2>3. groups'[n] # specs[c][n] /\ \A m \in Names \ {n} : groups'[m] = groups[m]
    BY <1>2, <1>10, <2>2 DEF Defs
  <2>4. Add(n) # <<>>
    BY DEF Add
  <2>5. QED
    BY <1>5, <1>10, <2>1, <2>3, <2>4
<1>11. CASE calls[c] = Add(n)
  <2>1. Head(calls[c]) = To("add", n) /\ Tail(calls[c]) = <<>>
    BY <1>11 DEF Add
  <2>2. groups' = [groups EXCEPT ![n] = read[n]]
    BY <2>1 DEF Accepted, AddGroup, To
  <2>3. read[n] = specs[c][n]
    BY DEF Reconciling
  <2>4. QED
    BY <1>2, <1>6, <2>1, <2>2, <2>3 DEF Defs
<1>12. QED
  BY <1>1, <1>7, <1>8, <1>9, <1>10, <1>11 DEF AtGroup

\* What the command that runs knows after its own step; and when an up or an
\* apply says it is done, it is.
Done(c) ==
  Succeeds(c) /\ cmd[c] \in {"up", "apply"} => daemon' = "running" /\ groups' = specs[c]

LEMMA Failed ==
  ASSUME ClientTyped, NEW c \in Clients, Return(c, FALSE) PROVE Knows(c)' /\ Done(c)
BY DEF ClientTyped, Return, Goto, Knows, Done, Succeeds

LEMMA Onward ==
  ASSUME ClientTyped, NEW c \in Clients, NEW step, NEW todo, GoOn(c, step, todo),
         step \notin {"idle", "start", "reread"},
         cmd[c] = "up" => step # "poll", cmd[c] = "apply" => step # "call"
  PROVE  Knows(c)' /\ Done(c)
BY DEF ClientTyped, GoOn, Goto, Knows, Done, Succeeds

LEMMA OwnKnows ==
  ASSUME ClientTyped, WorldTyped, WorldTyped', Walk, NEW c \in Clients, Knows(c), Command(c)
  PROVE  Knows(c)' /\ Done(c)
<1>0. DOMAIN pc = Clients /\ DOMAIN cmd = Clients /\ specs[c] \in Defs /\ left[c] \in Diff
  BY DEF ClientTyped
<1>1. CASE Check(c)
  <2>1. CASE Return(c, FALSE)
    BY <2>1, Failed
  <2>2. CASE GoOn(c, "load", <<>>)
    BY <2>2, Onward
  <2>3. CASE cmd[c] \notin {"up", "apply"} /\ \E todo : GoOn(c, "call", todo)
    BY <2>3, Onward
  <2>4. CASE cmd[c] = "down" /\ Return(c, TRUE)
    BY <1>0, <2>4 DEF Return, Goto, Knows, Done
  <2>5. QED
    BY <1>1, <2>1, <2>2, <2>3, <2>4 DEF Check
<1>2. CASE Load(c) \/ Validate(c) \/ Sweep(c) \/ Truncate(c)
  <2>1. CASE Return(c, FALSE)
    BY <2>1, Failed
  <2>2. CASE \E step \in {"validate", "sweep", "truncate", "fill"} : GoOn(c, step, <<>>)
    BY <2>2, Onward
  <2>3. QED
    BY <1>2, <2>1, <2>2 DEF Load, Validate, Sweep, Truncate
<1>3. CASE Fill(c)
  BY <1>0, <1>3 DEF Fill, GoOn, Goto, Knows, Done, Succeeds
<1>4. CASE StartDaemon(c)
  <2>1. CASE Return(c, FALSE)
    BY <2>1, Failed
  <2>2. CASE groups' = conf /\ GoOn(c, "poll", <<>>) /\ specs' = specs
    <3>1. conf = specs[c] /\ cmd[c] # "apply"
      BY <1>4 DEF StartDaemon, Knows, Walk
    <3>2. QED
      BY <1>0, <2>2, <3>1 DEF GoOn, Goto, Knows, Done, Succeeds
  <2>3. QED
    BY <1>4, <2>1, <2>2 DEF StartDaemon
<1>5. ASSUME Reconciling(c)' \/ (Return(c, TRUE) /\ groups' = specs[c]),
             \/ pc' = [pc EXCEPT ![c] = "call"] /\ UNCHANGED <<cmd, said, alone, specs>>
             \/ Return(c, TRUE),
             daemon' = "running", cmd[c] # "up"
      PROVE  Knows(c)' /\ Done(c)
  <2>1. CASE Return(c, TRUE) /\ groups' = specs[c]
    BY <1>0, <1>5, <2>1 DEF Return, Goto, Knows, Done
  <2>2. CASE /\ pc' = [pc EXCEPT ![c] = "call"] /\ UNCHANGED <<cmd, said, alone, specs>>
             /\ Reconciling(c)'
    BY <1>0, <1>5, <2>2 DEF Knows, Done, Succeeds
  <2>3. ~(Return(c, TRUE) /\ Reconciling(c)')
    <3>1. ASSUME Return(c, TRUE) PROVE calls'[c] = <<>>
      BY <3>1 DEF Return, ClientTyped
    <3>2. ASSUME NEW n, AtGroup(c, n)' PROVE calls'[c] # <<>>
      BY <3>2 DEF AtGroup, Retire, Replace, Add
    <3>3. QED
      BY <3>1, <3>2 DEF Reconciling
  <2>4. QED
    BY <1>5, <2>1, <2>2, <2>3
<1>6. CASE Reread(c)
  <2>1. CASE Return(c, FALSE)
    BY <2>1, Failed
  <2>2. CASE IsRunning /\ read' = conf /\ NextGroup(c, Reconcile(conf))
    <3>1. conf = specs[c]
      BY <1>6 DEF Reread, Knows
    <3>2. groups' = groups /\ daemon' = "running" /\ groups \in Defs
      BY <1>6, <2>2 DEF Reread, IsRunning, WorldTyped
    <3>3. Reconciling(c)' \/ (Return(c, TRUE) /\ groups' = specs[c])
      BY <1>0, <2>2, <3>1, <3>2, ReconcileToDo, NextGroupKnows
    <3>4. cmd[c] # "up"
      BY <1>6 DEF Reread, Walk
    <3>5. QED
      BY <1>5, <2>2, <3>2, <3>3, <3>4, NextGroupShape
  <2>3. QED
    BY <1>6, <2>1, <2>2 DEF Reread
<1>7. CASE MakeCall(c)
  <2>1. pc[c] = "call" /\ calls[c] # <<>> /\ read' = read
    BY <1>7 DEF MakeCall, ClientTyped
  <2>2. CASE Return(c, FALSE)
    BY <2>2, Failed
  <2>3. CASE Head(calls[c]).op = "shutdown" /\ GoOn(c, "poll", <<>>)
    BY <2>1, <2>3, Onward DEF Walk
  <2>4. CASE Accepted(Head(calls[c])) /\ Head(calls[c]).op # "shutdown" /\ NextCall(c)
    <3>1. daemon = "running" /\ daemon' = "running"
      BY <2>4 DEF Accepted, IsRunning, Stop, RemoveGroup, AddGroup, StartProcess, StopAll,
                  StartAll
    <3>2. CASE cmd[c] = "apply"
      <4>1. Reconciling(c)
        BY <2>1, <3>1, <3>2 DEF Knows
      <4>2. QED
        BY <1>5, <2>1, <2>4, <3>1, <3>2, <4>1, CallKnows, NextCallShape
    <3>3. CASE cmd[c] # "apply"
      <4>1. cmd[c] # "up"
        BY <2>1 DEF Walk
      <4>2. QED
        BY <1>0, <2>4, <3>3, <4>1, NextCallShape DEF Return, Goto, Knows, Done
    <3>4. QED
      BY <3>2, <3>3
  <2>5. QED
    BY <1>7, <2>2, <2>3, <2>4 DEF MakeCall
<1>8. CASE Poll(c)
  <2>1. CASE cmd[c] = "up" /\ Awaited(c)
    BY <1>0, <1>8, <2>1 DEF Poll, Awaited, IsRunning, Return, Goto, Knows, Done, supervisor
  <2>2. CASE cmd[c] # "up"
    <3>1. cmd[c] # "apply"
      BY <1>8 DEF Poll, Walk
    <3>2. QED
      BY <1>0, <1>8, <2>2, <3>1 DEF Poll, Return, Goto, Knows, Done
  <2>3. CASE Return(c, FALSE)
    BY <2>3, Failed
  <2>4. QED
    BY <1>8, <2>1, <2>2, <2>3 DEF Poll, Awaited, IsRunning
<1>9. QED
  BY <1>1, <1>2, <1>3, <1>4, <1>6, <1>7, <1>8 DEF Command

\* What everybody else's step leaves of it.
LEMMA OtherKnows ==
  ASSUME NEW c \in Clients, Knows(c), Elsewhere PROVE Knows(c)'
<1>1. UNCHANGED <<cmd, pc, specs, calls, left, said, alone, conf, read>>
  BY DEF Elsewhere, Edit, Launch, Ends, DaemonLeaves, DaemonDies, vars, clients, files,
         supervisor
<1>2. daemon' # "running" \/ (daemon' = daemon /\ groups' = groups)
  BY DEF Elsewhere, Edit, Launch, Ends, DaemonLeaves, DaemonDies, vars, supervisor
<1>3. CASE daemon' # "running"
  BY <1>1, <1>3 DEF Knows
<1>4. CASE daemon' = daemon /\ groups' = groups
  BY <1>1, <1>4 DEF Knows, Reconciling, AtGroup
<1>5. QED
  BY <1>2, <1>3, <1>4

\* A step of a command is one of its own, or its return.
LEMMA CommandShape ==
  ASSUME NEW d, Command(d)
  PROVE  \/ \E ok : Return(d, ok)
         \/ \E step : pc' = [pc EXCEPT ![d] = step] /\ UNCHANGED alone
BY NextGroupShape, NextCallShape DEF Command, Check, Load, Validate, Sweep, Truncate, Fill, StartDaemon,
   Reread, MakeCall, Poll, GoOn, Goto

\* A command that is alone is the only one that runs, so the step of a command
\* is its own.
LEMMA OthersIdle ==
  ASSUME ClientTyped, Alone, NEW c \in Clients, NEW d \in Clients \ {c}, pc[d] # "idle",
         Command(d) \/ Return(d, FALSE), alone'[c]
  PROVE  pc'[c] = "idle" /\ pc[c] = "idle"
<1>1. \/ \E ok : Return(d, ok)
      \/ \E step : pc' = [pc EXCEPT ![d] = step] /\ UNCHANGED alone
  BY CommandShape
<1>2. pc'[c] = pc[c] /\ alone'[c] = alone[c]
  BY <1>1 DEF Return, Goto, ClientTyped
<1>3. QED
  BY <1>2 DEF Alone

LEMMA UnderwayStep ==
  ASSUME CInv, [Next]_vars PROVE CInv' /\ \A c \in Clients : alone[c] => Done(c)
<1>1. ClientTyped' /\ WorldTyped' /\ Alone' /\ Walk'
  BY TypedStep, AloneStep, WalkStep DEF CInv
<1>2. ASSUME NEW c \in Clients, alone[c] \/ alone'[c], pc'[c] = "idle", pc[c] = "idle"
      PROVE  Knows(c)' /\ Done(c)
  <2>1. cmd'[c] \notin {"up", "apply"}
    BY <1>1, <1>2 DEF Walk
  <2>2. QED
    BY <1>2, <2>1 DEF Knows, Done, Succeeds
<1>3. ASSUME NEW c \in Clients, NEW d \in Clients, Begin(d)
      PROVE  (alone'[c] => Knows(c)') /\ Done(c)
  <2>1. /\ pc' = [pc EXCEPT ![d] = "check"] /\ pc'[d] = "check"
        /\ alone'[c] = (\A e \in Clients \ {d} : pc[e] = "idle")
    BY <1>3 DEF Begin, Goto, CInv, ClientTyped
  <2>2. Done(c)
    BY <2>1 DEF Done, Succeeds, CInv, ClientTyped
  <2>3. CASE c = d
    BY <2>1, <2>2, <2>3 DEF Knows
  <2>4. CASE c # d
    <3>1. alone'[c] => pc[c] = "idle" /\ pc'[c] = "idle"
      BY <2>1, <2>4 DEF CInv, ClientTyped
    <3>2. QED
      BY <1>2, <2>2, <3>1
  <2>5. QED
    BY <2>3, <2>4
<1>4. ASSUME NEW c \in Clients, NEW d \in Clients, Command(d) \/ Return(d, FALSE),
             pc[d] # "idle"
      PROVE  (alone'[c] => Knows(c)') /\ (alone[c] => Done(c))
  <2>1. CASE c # d
    <3>1. alone'[c] => Knows(c)'
      BY <1>2, <1>4, <2>1, OthersIdle DEF CInv
    <3>2. ASSUME alone[c], Succeeds(c) PROVE FALSE
      BY <1>4, <2>1, <3>2 DEF Succeeds, CInv, Alone
    <3>3. QED
      BY <3>1, <3>2 DEF Done
  <2>2. CASE c = d /\ Return(d, FALSE)
    BY <2>2, Failed DEF CInv
  <2>3. CASE c = d /\ Command(d)
    <3>1. CASE alone[c]
      BY <1>1, <2>3, <3>1, OwnKnows DEF CInv, Underway
    <3>2. CASE ~alone[c]
      <4>1. CASE \E ok : Return(c, ok)
        BY <3>2, <4>1 DEF CInv, ClientTyped, Return, Goto, Knows
      <4>2. CASE UNCHANGED alone
        BY <3>2, <4>2
      <4>3. QED
        BY <2>3, <3>2, <4>1, <4>2, CommandShape
    <3>3. QED
      BY <3>1, <3>2
  <2>4. QED
    BY <1>4, <2>1, <2>2, <2>3
<1>5. CASE Elsewhere
  <2>1. UNCHANGED <<pc, alone>>
    BY <1>5 DEF Elsewhere, Edit, Launch, Ends, DaemonLeaves, DaemonDies, vars, clients
  <2>2. QED
    BY <1>1, <1>5, <2>1, OtherKnows DEF CInv, Underway, Done, Succeeds
<1>6. \A d \in Clients : Command(d) => pc[d] # "idle"
  BY DEF Command, Check, Load, Validate, Sweep, Truncate, Fill, StartDaemon, Reread, MakeCall, Poll
<1>7. CASE \E d \in Clients : Begin(d)
  BY <1>1, <1>3, <1>7 DEF CInv, Underway
<1>8. CASE \E d \in Clients : Command(d)
  BY <1>1, <1>4, <1>6, <1>8 DEF CInv, Underway
<1>9. CASE Interrupted
  BY <1>1, <1>4, <1>9 DEF CInv, Underway, Interrupted
<1>10. QED
  BY <1>5, <1>7, <1>8, <1>9 DEF Next, Elsewhere

LEMMA CommandsInit == Init => CInv
<1> SUFFICES ASSUME Init PROVE CInv
  OBVIOUS
<1>1. ClientTyped /\ WorldTyped
  BY Constants, WardenBounds DEF Init, ClientTyped, WorldTyped, Grouped, Steps, Defs
<1>2. Alone /\ Walk /\ Underway
  BY DEF Init, Alone, Walk, Underway, Knows
<1>3. QED
  BY <1>1, <1>2 DEF CInv

\* An up or an apply that runs beside no other command and returns without an
\* error leaves a supervisord that lives with exactly the programs of the
\* services.yaml it loaded, whatever other commands, deaths, kills and torn
\* confs came before it and whatever order it takes the groups in.
THEOREM ReturnedIsApplied == Spec => ReturnMeansApplied
<1>1. ASSUME CInv, Next, NEW c \in Clients, Succeeds(c), alone[c], cmd[c] \in {"up", "apply"}
      PROVE  IsRunning' /\ groups' = specs[c]
  BY <1>1, UnderwayStep DEF Done, IsRunning
<1>2. CInv /\ [Next]_vars => CInv'
  BY UnderwayStep
<1>3. CInv /\ [Next]_vars =>
        [ \A c \in Clients :
            Succeeds(c) /\ alone[c] /\ cmd[c] \in {"up", "apply"}
              => IsRunning' /\ groups' = specs[c] ]_vars
  BY <1>1
<1>4. QED
  BY <1>2, <1>3, CommandsInit, PTL DEF Spec, ReturnMeansApplied

\* Of an apply that is alone only a call of its own stops anything while it
\* moves on, and it calls stop for no group that is as the conf says.
LEMMA StopsChanged ==
  ASSUME CInv, Next, NEW c \in Clients, calls'[c] # calls[c], alone[c], cmd[c] = "apply",
         NEW n \in alive \ alive'
  PROVE  groups[n] # specs[c][n]
<1>0. ClientTyped /\ Knows(c)
  BY DEF CInv, Underway
<1>1. MakeCall(c) /\ Accepted(Head(calls[c]))
  <2>1. ~Elsewhere
    BY DEF Elsewhere, Edit, Launch, Ends, DaemonLeaves, DaemonDies, vars, clients
  <2>2. ~Interrupted
    BY DEF Interrupted, supervisor, services
  <2>3. \A d \in Clients : ~Begin(d)
    BY DEF Begin
  <2>4. PICK d \in Clients : Command(d)
    BY <2>1, <2>2, <2>3 DEF Next, Elsewhere
  <2>5. MakeCall(d) /\ Accepted(Head(calls[d]))
    BY <2>4 DEF Command, Check, Load, Validate, Sweep, Truncate, Fill, StartDaemon, Reread, MakeCall,
                Poll, supervisor, services
  <2>6. d = c
    BY <1>0, <2>5 DEF MakeCall, CInv, Alone, Walk, ClientTyped
  <2>7. QED
    BY <2>5, <2>6
<1>2. Reconciling(c)
  BY <1>0, <1>1 DEF MakeCall, Accepted, IsRunning, Knows
<1>3. PICK g \in Names : AtGroup(c, g)
  BY <1>2 DEF Reconciling
<1>4. CASE calls[c] \in {Retire(g), Replace(g)}
  <2>1. Head(calls[c]) = To("stop", g)
    BY <1>4 DEF Retire, Replace
  <2>2. Stop(g)
    BY <1>1, <2>1 DEF Accepted, To
  <2>3. n = g /\ groups[g] # 0
    BY <2>2 DEF Stop
  <2>4. QED
    BY <1>3, <2>3 DEF AtGroup
<1>5. CASE calls[c] \in {<<To("remove", g)>>, <<To("remove", g), To("add", g)>>, Add(g)}
  <2>1. Head(calls[c]) \in {To("remove", g), To("add", g)}
    BY <1>5 DEF Add
  <2>2. alive' = alive
    BY <1>1, <2>1 DEF Accepted, To, RemoveGroup, AddGroup
  <2>3. QED
    BY <2>2
<1>6. QED
  BY <1>3, <1>4, <1>5 DEF AtGroup

\* An apply that runs beside no other command stops no service that already
\* runs by the new definition.
THEOREM OnlyChangedAreStopped == Spec => OnlyChangedStop
<1>1. CInv /\ [Next]_vars => CInv'
  BY UnderwayStep
<1>2. CInv /\ [Next]_vars =>
        [ \A c \in Clients :
            calls'[c] # calls[c] /\ alone[c] /\ cmd[c] = "apply"
              => \A n \in alive \ alive' : groups[n] # specs[c][n] ]_vars
  BY StopsChanged
<1>3. QED
  BY <1>1, <1>2, CommandsInit, PTL DEF Spec, OnlyChangedStop

=============================================================================
