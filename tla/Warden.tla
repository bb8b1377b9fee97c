------------------------------- MODULE Warden -------------------------------
(***************************************************************************)
(* Bringing a runtime up and down (warden/boot.py,                         *)
(* warden/supervisord_client.py, cli/bring_up.py and the commands of       *)
(* cli/main.py): several koyu commands, each a process of its own, act on  *)
(* one services.yaml, one supervisord.conf and one supervisord.            *)
(*                                                                         *)
(* supervisord is external.  What the commands rely on is: it reads the    *)
(* conf when it starts and at reloadConfig; it refuses a call with a Fault *)
(* when the named group is not there, or already there, or still running;  *)
(* on its way down it stops its services first and answers every call,     *)
(* getState too, with a Fault; a second one cannot take a bound socket.    *)
(***************************************************************************)
EXTENDS Integers, Sequences

CONSTANTS
  Clients,      \* the koyu commands that may run at a time
  Names,        \* services
  Versions,     \* a definition of a service is a number; 0 is none
  Broken,       \* a services.yaml that cannot be loaded
  Invalid,      \* definitions that load, and that a validator refuses
  Torn,         \* a conf that is missing or half-written
  Commands,     \* the commands given: up, down, apply, restart, restart_all
  MaxEdits,     \* bound: edits of services.yaml
  MaxDeaths     \* bound: deaths of supervisord and kills of a command

Defs == [Names -> 0..Versions]

ASSUME WardenBounds ==
  /\ Names # {} /\ Versions \in Nat \ {0} /\ MaxEdits \in Nat /\ MaxDeaths \in Nat
  /\ Commands \subseteq {"up", "down", "apply", "restart", "restart_all"}
  /\ Invalid \subseteq Defs

None == [n \in Names |-> 0]

VARIABLES
  yaml,         \* services.yaml
  conf,         \* .koyu/supervisord.conf
  \* supervisord and the services
  daemon,       \* none | running | stopping
  read,         \* the conf it last read
  groups,       \* the process groups it has, by definition
  alive,        \* services with a live process
  stopped,      \* services stopped on request
  wiped,        \* live services whose segments were removed under them
  \* per command
  cmd, pc,
  specs,        \* the services.yaml it loaded
  calls,        \* the calls it makes, of the group it is at
  left,         \* what reloadConfig() said, less the groups it has been at
  said,         \* it returned without an error
  alone,        \* no other command has run beside it so far
  edits, deaths

files == <<yaml, conf, edits>>
services == <<alive, stopped, wiped>>
supervisor == <<daemon, read, groups, services>>
clients == <<cmd, pc, specs, calls, left, said, alone>>
vars == <<files, supervisor, clients, deaths>>

Whichever == CHOOSE n \in Names : TRUE   \* of a call that names no service
Call == [op : {"stop", "remove", "add", "restop", "start", "stop_all", "start_all",
               "shutdown"}, n : Names]

\* What reloadConfig() tells: the groups to remove, to replace and to add.
Diff == [removed : SUBSET Names, changed : SUBSET Names, added : SUBSET Names]
Same == [removed |-> {}, changed |-> {}, added |-> {}]

Init ==
  /\ yaml = [n \in Names |-> 1] /\ conf = Torn /\ edits = 0
  /\ daemon = "none" /\ read = None /\ groups = None
  /\ alive = {} /\ stopped = {} /\ wiped = {}
  /\ cmd = [c \in Clients |-> "none"] /\ pc = [c \in Clients |-> "idle"]
  /\ specs = [c \in Clients |-> None] /\ calls = [c \in Clients |-> <<>>]
  /\ left = [c \in Clients |-> Same]
  /\ said = [c \in Clients |-> FALSE] /\ alone = [c \in Clients |-> TRUE]
  /\ deaths = 0

----------------------------------------------------------------------------
(* One command *)

\* is_running(): a Fault counts as not running.
IsRunning == daemon = "running"

Goto(c, step) == pc' = [pc EXCEPT ![c] = step]

Return(c, ok) ==
  /\ Goto(c, "idle") /\ said' = [said EXCEPT ![c] = ok]
  /\ specs' = [specs EXCEPT ![c] = None] /\ calls' = [calls EXCEPT ![c] = <<>>]
  /\ left' = [left EXCEPT ![c] = Same]
  /\ cmd' = [cmd EXCEPT ![c] = "none"] /\ alone' = [alone EXCEPT ![c] = TRUE]

\* The command goes on, with these calls to make.
GoOn(c, step, todo) ==
  /\ Goto(c, step) /\ calls' = [calls EXCEPT ![c] = todo]
  /\ UNCHANGED <<cmd, left, said, alone>>

To(op, n) == [op |-> op, n |-> n]

\* An operator gives a command.
Begin(c) ==
  /\ pc[c] = "idle"
  /\ \E op \in Commands : cmd' = [cmd EXCEPT ![c] = op]
  /\ Goto(c, "check") /\ said' = [said EXCEPT ![c] = FALSE]
  /\ alone' = [d \in Clients |-> \A e \in Clients \ {c} : pc[e] = "idle"]
  /\ UNCHANGED <<files, supervisor, specs, calls, left, deaths>>

\* Mutant: up() does not ask.
BootAnyway == TRUE

\* up() goes on only if no supervisord answers.
MayBoot == ~IsRunning

\* What each command does once it has asked is_running().
Check(c) ==
  /\ pc[c] = "check"
  /\ \/ cmd[c] = "up" /\ IF MayBoot THEN GoOn(c, "load", <<>>) /\ UNCHANGED specs
                         ELSE Return(c, FALSE)
     \/ cmd[c] = "apply" /\ IF IsRunning THEN GoOn(c, "load", <<>>) /\ UNCHANGED specs
                            ELSE Return(c, FALSE)
     \/ cmd[c] = "down" /\ IF IsRunning
                           THEN GoOn(c, "call", <<To("shutdown", Whichever)>>) /\ UNCHANGED specs
                           ELSE Return(c, TRUE)
     \/ cmd[c] \in {"restart", "restart_all"} /\ ~IsRunning /\ Return(c, FALSE)
     \/ /\ cmd[c] = "restart" /\ IsRunning /\ UNCHANGED specs
        /\ \E n \in Names : GoOn(c, "call", <<To("restop", n), To("start", n)>>)
     \/ /\ cmd[c] = "restart_all" /\ IsRunning /\ UNCHANGED specs
        /\ GoOn(c, "call", <<To("stop_all", Whichever), To("start_all", Whichever)>>)
  /\ UNCHANGED <<files, supervisor, deaths>>

\* Mutant: a services.yaml that does not parse is taken for what it holds.
LoadsAnything == TRUE

\* load_services() raises on a services.yaml it cannot make services of.
Loads == yaml # Broken

\* load_services() reads services.yaml ...
Load(c) ==
  /\ pc[c] = "load"
  /\ IF Loads THEN GoOn(c, "validate", <<>>) /\ specs' = [specs EXCEPT ![c] = yaml]
     ELSE Return(c, FALSE)
  /\ UNCHANGED <<files, supervisor, deaths>>

\* ... and the validators read it once more, whatever it holds by then.
Validate(c) ==
  /\ pc[c] = "validate"
  /\ IF yaml \in Invalid \cup {Broken} THEN Return(c, FALSE)
     ELSE GoOn(c, IF cmd[c] = "up" THEN "sweep" ELSE "truncate", <<>>) /\ UNCHANGED specs
  /\ UNCHANGED <<files, supervisor, deaths>>

\* up()'s cleanups remove the segments of whatever is alive.
Sweep(c) ==
  /\ pc[c] = "sweep"
  /\ wiped' = alive /\ GoOn(c, "truncate", <<>>)
  /\ UNCHANGED <<files, daemon, read, groups, alive, stopped, specs, deaths>>

\* _write_conf(): write_text() opens the file, emptying it ...
Truncate(c) ==
  /\ pc[c] = "truncate"
  /\ conf' = Torn /\ GoOn(c, "fill", <<>>)
  /\ UNCHANGED <<yaml, edits, supervisor, specs, deaths>>

\* ... and writes it.
Fill(c) ==
  /\ pc[c] = "fill"
  /\ conf' = specs[c]
  /\ GoOn(c, IF cmd[c] = "up" THEN "start" ELSE "reread", <<>>)
  /\ UNCHANGED <<yaml, edits, supervisor, specs, deaths>>

\* _start_supervisord().
StartDaemon(c) ==
  /\ pc[c] = "start"
  /\ IF daemon = "none" /\ conf # Torn
     THEN /\ daemon' = "running" /\ read' = conf /\ groups' = conf /\ stopped' = {}
          /\ GoOn(c, "poll", <<>>) /\ UNCHANGED specs
     ELSE Return(c, FALSE) /\ UNCHANGED <<daemon, read, groups, stopped>>
  /\ UNCHANGED <<files, alive, wiped, deaths>>

\* reloadConfig() compares the conf with the groups there are.
Removed(new) == {n \in Names : groups[n] # 0 /\ new[n] = 0}
Added(new) == {n \in Names : groups[n] = 0 /\ new[n] # 0}

\* Mutant: every program is taken for changed.
ChangedAll(new) == {n \in Names : groups[n] # 0 /\ new[n] # 0}

Changed(new) == {n \in Names : groups[n] # 0 /\ new[n] # 0 /\ groups[n] # new[n]}

\* Mutant: the changed programs are retired and not added again.
ReplaceHalf(n) == <<To("stop", n), To("remove", n)>>

\* The calls that replace a group.
Replace(n) == <<To("stop", n), To("remove", n), To("add", n)>>

Retire(n) == <<To("stop", n), To("remove", n)>>
Add(n) == <<To("add", n)>>

Reconcile(new) ==
  [removed |-> Removed(new), changed |-> Changed(new), added |-> Added(new)]

\* One turn of a loop of SupervisordClient.apply(), for the group n of diff.
Turn(c, diff, kind, n, todo) ==
  /\ Goto(c, "call") /\ calls' = [calls EXCEPT ![c] = todo]
  /\ left' = [left EXCEPT ![c] = [diff EXCEPT ![kind] = @ \ {n}]]
  /\ UNCHANGED <<cmd, said, alone, specs>>

\* Its three loops: each takes its groups in any order and then makes way for
\* the next; a command with nothing left is done.
NextGroup(c, diff) ==
  \/ \E n \in diff.removed : Turn(c, diff, "removed", n, Retire(n))
  \/ /\ diff.removed = {}
     /\ \E n \in diff.changed : Turn(c, diff, "changed", n, Replace(n))
  \/ /\ diff.removed = {} /\ diff.changed = {}
     /\ \E n \in diff.added : Turn(c, diff, "added", n, Add(n))
  \/ diff = Same /\ Return(c, TRUE)

\* After a call comes the next of the same group, or the next group.
NextCall(c) ==
  IF Tail(calls[c]) = <<>> THEN NextGroup(c, left[c])
  ELSE GoOn(c, "call", Tail(calls[c])) /\ UNCHANGED specs

Reread(c) ==
  /\ pc[c] = "reread"
  /\ IF IsRunning /\ conf # Torn
     THEN read' = conf /\ NextGroup(c, Reconcile(conf))
     ELSE Return(c, FALSE) /\ UNCHANGED read
  /\ UNCHANGED <<files, daemon, groups, services, deaths>>

\* What supervisord makes of a call; stop waits until the process is gone.
Stop(n) ==
  /\ groups[n] # 0
  /\ alive' = alive \ {n} /\ stopped' = stopped \cup {n} /\ wiped' = wiped \ {n}
  /\ UNCHANGED <<daemon, groups>>

RemoveGroup(n) ==
  /\ groups[n] # 0 /\ n \notin alive
  /\ groups' = [groups EXCEPT ![n] = 0] /\ stopped' = stopped \ {n}
  /\ UNCHANGED <<daemon, alive, wiped>>

AddGroup(n) ==
  /\ groups[n] = 0 /\ read[n] # 0
  /\ groups' = [groups EXCEPT ![n] = read[n]] /\ stopped' = stopped \ {n}
  /\ UNCHANGED <<daemon, alive, wiped>>

StartProcess(n) ==
  /\ groups[n] # 0 /\ n \notin alive
  /\ alive' = alive \cup {n} /\ stopped' = stopped \ {n}
  /\ UNCHANGED <<daemon, groups, wiped>>

Grouped == {n \in Names : groups[n] # 0}

StopAll ==
  /\ alive' = alive \ Grouped /\ stopped' = Grouped /\ wiped' = wiped \ Grouped
  /\ UNCHANGED <<daemon, groups>>

StartAll ==
  /\ alive' = alive \cup Grouped /\ stopped' = {} /\ UNCHANGED <<daemon, groups, wiped>>

Shutdown == daemon' = "stopping" /\ UNCHANGED <<groups, services>>

Accepted(call) ==
  /\ IsRunning
  /\ \/ call.op \in {"stop", "restop"} /\ Stop(call.n)
     \/ call.op = "remove" /\ RemoveGroup(call.n)
     \/ call.op = "add" /\ AddGroup(call.n)
     \/ call.op = "start" /\ StartProcess(call.n)
     \/ call.op = "stop_all" /\ StopAll
     \/ call.op = "start_all" /\ StartAll
     \/ call.op = "shutdown" /\ Shutdown

\* supervisord is not there, is on its way down, or answers with a Fault.
Refused(call) ==
  \/ ~IsRunning
  \/ call.op \in {"stop", "restop", "remove", "start"} /\ groups[call.n] = 0
  \/ call.op \in {"remove", "start"} /\ call.n \in alive
  \/ call.op = "add" /\ (groups[call.n] # 0 \/ read[call.n] = 0)

\* _call() and _tolerate(): one call; the first that fails ends the command.
MakeCall(c) ==
  /\ pc[c] = "call"
  /\ LET call == Head(calls[c]) IN
       \/ /\ Accepted(call)
          /\ IF call.op = "shutdown" THEN GoOn(c, "poll", <<>>) /\ UNCHANGED specs
             ELSE NextCall(c)
       \/ Refused(call) /\ Return(c, FALSE) /\ UNCHANGED <<daemon, groups, services>>
  /\ UNCHANGED <<files, read, deaths>>

\* What _wait_until_running() and down() wait for.
Awaited(c) == IF cmd[c] = "up" THEN IsRunning ELSE ~IsRunning

\* The wait ends when it is so, or, while it is not, at the deadline.
Poll(c) ==
  /\ pc[c] = "poll"
  /\ Return(c, Awaited(c))
  /\ UNCHANGED <<files, supervisor, deaths>>

Command(c) ==
  \/ Check(c) \/ Load(c) \/ Validate(c) \/ Sweep(c) \/ Truncate(c) \/ Fill(c)
  \/ StartDaemon(c) \/ Reread(c) \/ MakeCall(c) \/ Poll(c)

----------------------------------------------------------------------------
(* Everything else *)

\* Someone edits services.yaml.
Edit ==
  /\ edits < MaxEdits /\ edits' = edits + 1
  /\ yaml' \in Defs \cup {Broken}
  /\ UNCHANGED <<conf, supervisor, clients, deaths>>

\* supervisord starts what should run, at once or after a failure ...
Launch ==
  /\ IsRunning
  /\ \E n \in Grouped \ (stopped \cup alive) : alive' = alive \cup {n}
  /\ UNCHANGED <<files, daemon, read, groups, stopped, wiped, clients, deaths>>

\* ... and a service may end, by itself or because supervisord is stopping.
Ends ==
  /\ \E n \in alive : alive' = alive \ {n} /\ wiped' = wiped \ {n}
  /\ UNCHANGED <<files, daemon, read, groups, stopped, clients, deaths>>

\* On its way down supervisord leaves when its last service has ended.
DaemonLeaves ==
  /\ daemon = "stopping" /\ alive \cap Grouped = {}
  /\ daemon' = "none" /\ groups' = None /\ stopped' = {}
  /\ UNCHANGED <<files, read, alive, wiped, clients, deaths>>

\* supervisord dies and its services run on.
DaemonDies ==
  /\ daemon # "none" /\ deaths < MaxDeaths
  /\ daemon' = "none" /\ groups' = None /\ stopped' = {} /\ deaths' = deaths + 1
  /\ UNCHANGED <<files, read, alive, wiped, clients>>

\* A command is interrupted between two steps.
Interrupted ==
  /\ deaths < MaxDeaths /\ deaths' = deaths + 1
  /\ \E c \in Clients : pc[c] # "idle" /\ Return(c, FALSE)
  /\ UNCHANGED <<files, supervisor>>

Next ==
  \/ \E c \in Clients : Begin(c) \/ Command(c)
  \/ Edit \/ Launch \/ Ends \/ DaemonLeaves \/ DaemonDies \/ Interrupted

Spec == Init /\ [][Next]_vars

----------------------------------------------------------------------------
(* Properties *)

\* Every variable has its type: what a command works from, what the conf says
\* and what supervisord runs is always a set of services that could be loaded;
\* only a command that makes calls has calls left, and only a live process can
\* have lost its segments.
TypeOK ==
  /\ yaml \in Defs \cup {Broken} /\ conf \in Defs \cup {Torn} /\ edits \in 0..MaxEdits
  /\ daemon \in {"none", "running", "stopping"} /\ read \in Defs /\ groups \in Defs
  /\ alive \subseteq Names /\ stopped \subseteq Grouped /\ wiped \subseteq alive
  /\ cmd \in [Clients -> Commands \cup {"none"}]
  /\ pc \in [Clients -> {"idle", "check", "load", "validate", "sweep", "truncate",
                         "fill", "start", "reread", "call", "poll"}]
  /\ specs \in [Clients -> Defs]
  /\ calls \in [Clients -> Seq(Call)] /\ left \in [Clients -> Diff]
  /\ said \in [Clients -> BOOLEAN] /\ alone \in [Clients -> BOOLEAN]
  /\ deaths \in 0..MaxDeaths
  /\ \A c \in Clients : /\ pc[c] = "call" <=> calls[c] # <<>>
                        /\ pc[c] # "call" => left[c] = Same

Succeeds(c) == pc[c] # "idle" /\ pc'[c] = "idle" /\ said'[c]

\* Whatever was interrupted, torn or half-applied before it, an up or an apply
\* that runs beside no other command and returns without an error leaves a
\* supervisord that lives with exactly the programs of the services.yaml it loaded.
ReturnMeansApplied ==
  [][ \A c \in Clients :
        Succeeds(c) /\ alone[c] /\ cmd[c] \in {"up", "apply"}
          => IsRunning' /\ groups' = specs[c] ]_vars

\* "restarting only changed programs": an apply that runs beside no other
\* command stops no service that already runs by the new definition.
OnlyChangedStop ==
  [][ \A c \in Clients :
        calls'[c] # calls[c] /\ alone[c] /\ cmd[c] = "apply"
          => \A n \in alive \ alive' : groups[n] # specs[c][n] ]_vars

\* down() waits "until it's fully gone, so a following up() doesn't race the
\* dying daemon for the socket".
DownMeansGone ==
  [][ \A c \in Clients : Succeeds(c) /\ cmd[c] = "down" => daemon = "none" ]_vars

\* "segment sweep at the generation boundary": an up that runs beside no other
\* command sweeps no segments under a supervisord that runs, though it asks for
\* it before it loads and validates.
SweepAtBoundary ==
  [][ \A c \in Clients :
        wiped' # wiped /\ pc[c] = "sweep" /\ pc'[c] = "truncate" /\ alone[c]
          => daemon # "running" ]_vars
=============================================================================
