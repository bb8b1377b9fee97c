---------------------------- MODULE ParamServer ----------------------------
(***************************************************************************)
(* The parameter server (services/param_server.py) for one topic: requests *)
(* dropped in its file inbox (services/inbox.py) are validated, applied,   *)
(* published on the live blackboard (ipc/blackboard.py) and saved to the   *)
(* JSON file when asked; and a reader that compares frame_ids, as the IPC  *)
(* logger and the bridge do.                                               *)
(*                                                                         *)
(* Topics share nothing, so one is modelled.  Every value carries the      *)
(* number of the request or edit it comes from, which the code does not    *)
(* know.  The server may die between any two steps; the disk and the       *)
(* blackboard's segment, which readers hold, survive it.                   *)
(***************************************************************************)
EXTENDS Integers

CONSTANTS
  Keys,           \* the params of the topic's struct
  Values,         \* what a param may hold; 0, a fresh struct's value, among them
  InRange,        \* per param, the values its min and max admit
  Misfit,         \* any request for an unknown key or of a type that does not fit
  WRITE_FAIL_LIMIT,   \* writes of the board that fail in a row before one raises
  MaxChanges,     \* bound: requests and edits of the file
  MaxStops        \* bound: deaths of the server

ASSUME ParamsAssumption ==
  /\ 0 \in Values /\ Misfit \notin Values
  /\ InRange \in [Keys -> SUBSET Values]
  /\ WRITE_FAIL_LIMIT \in Nat \ {0}
  /\ MaxChanges \in Nat /\ MaxStops \in Nat

VARIABLES
  changes,        \* requests and edits so far
  inbox, parked,  \* the inbox's files, and the quarantine's
  file,           \* the topic's JSON file
  scratch,        \* the .tmp file of a save in progress
  cell, frame,    \* the live blackboard, and the last frame_id used for it
  fails,          \* writes of it that failed in a row
  params,         \* the params in memory
  status, stops,
  pc,             \* the step of the handler in progress
  listed, drained,
  changed, persist,   \* what the batch asks for so far
  last, shown,    \* the reader: the last frame_id seen, and its values
  \* history
  batch,          \* the persisted requests of the batch in progress
  applied,        \* requests applied in this life of the server
  durable,        \* persisted requests whose tick has ended
  done,           \* requests applied in any life
  fresh           \* the reader's last look was at this life of the server

boxes == <<inbox, parked>>
board == <<cell, frame, fails>>
work == <<listed, drained, changed, persist, batch>>
reader == <<last, shown, fresh>>
history == <<applied, durable, done>>
vars == <<changes, boxes, file, scratch, board, params, status, stops, pc, work, reader,
          history>>

Param == [val : Values, by : 0..MaxChanges]
Params == [Keys -> Param]
Request == [n : 1..MaxChanges, key : Keys, val : Values \cup {Misfit}, persist : BOOLEAN]

Blank == [k \in Keys |-> [val |-> 0, by |-> 0]]

\* Files come in the order of their names, which carry the time of submit():
\* r is the first of them.
FirstOf(files, r) == r \in files /\ \A q \in files : r.n <= q.n

\* The server has booted: setup() has loaded the file and published it.
Init ==
  /\ changes = 0 /\ inbox = {} /\ parked = {} /\ scratch = {}
  /\ file \in [Keys -> {[val |-> v, by |-> 0] : v \in Values \ {0}}]
  /\ params = file /\ cell = [fid |-> 1, vals |-> file] /\ frame = 1 /\ fails = 0
  /\ status = "up" /\ stops = 0 /\ pc = "wait"
  /\ listed = {} /\ drained = {} /\ changed = FALSE /\ persist = FALSE
  /\ last = -1 /\ shown = Blank /\ fresh = FALSE
  /\ batch = {} /\ applied = {} /\ durable = {} /\ done = {}

----------------------------------------------------------------------------
(* Other processes *)

\* koyu set, or set-param over the bridge: Inbox.submit().
Submit ==
  /\ changes < MaxChanges
  /\ \E k \in Keys, v \in Values \cup {Misfit}, p \in BOOLEAN :
       inbox' = inbox \cup {[n |-> changes + 1, key |-> k, val |-> v, persist |-> p]}
  /\ changes' = changes + 1
  /\ UNCHANGED <<parked, file, scratch, board, params, status, stops, pc, work, reader,
                 history>>

\* Someone edits the JSON file.
EditFile ==
  /\ changes < MaxChanges
  /\ \E k \in Keys, v \in Values :
       file' = [file EXCEPT ![k] = [val |-> v, by |-> changes + 1]]
  /\ changes' = changes + 1
  /\ UNCHANGED <<boxes, scratch, board, params, status, stops, pc, work, reader, history>>

\* A reader polls the cell and takes it only if the frame_id differs.
Poll ==
  /\ IF cell.fid # last THEN last' = cell.fid /\ shown' = cell.vals /\ fresh' = TRUE
     ELSE UNCHANGED reader
  /\ UNCHANGED <<changes, boxes, file, scratch, board, params, status, stops, pc, work,
                 history>>

----------------------------------------------------------------------------
(* on_tick() *)

At(step) == status = "up" /\ pc = step
Rest == UNCHANGED <<changes, status, stops, reader>>

\* Inbox.drain(): the files there are now ...
Tick ==
  /\ At("wait")
  /\ listed' = inbox /\ pc' = "read" /\ changed' = FALSE /\ persist' = FALSE
  /\ batch' = {}
  /\ UNCHANGED <<boxes, file, scratch, board, params, drained, applied, durable, done>>
  /\ Rest

\* Mutant: the file is not unlinked.
Unremoved(r) == inbox

\* The inbox without a file that was read.
Unlinked(r) == inbox \ {r}

\* ... each read and unlinked.
ReadOne ==
  /\ At("read")
  /\ \E r \in listed :
       /\ FirstOf(listed, r)
       /\ drained' = drained \cup {r} /\ listed' = listed \ {r}
       /\ inbox' = Unlinked(r)
  /\ UNCHANGED <<parked, file, scratch, board, params, pc, changed, persist, batch,
                 applied, durable, done>>
  /\ Rest

\* Mutant: no range check.
ValidType(r) == r.val # Misfit

\* What a request must meet to be applied.
Valid(r) == r.val # Misfit /\ r.val \in InRange[r.key]

\* Mutant: only the last request of a batch decides whether to save.
PersistLast(r) == r.persist

\* Whether the batch is to be saved once r is applied.
PersistAfter(r) == persist \/ r.persist

\* _apply() refuses the request, which is quarantined ...
Reject ==
  /\ At("read") /\ listed = {}
  /\ \E r \in drained :
       /\ FirstOf(drained, r) /\ ~Valid(r)
       /\ parked' = parked \cup {r}
       /\ drained' = drained \ {r}
  /\ UNCHANGED <<inbox, file, scratch, board, params, pc, listed, changed, persist, batch,
                 applied, durable, done>>
  /\ Rest

\* ... or sets the value in memory.
Apply ==
  /\ At("read") /\ listed = {}
  /\ \E r \in drained :
       /\ FirstOf(drained, r) /\ Valid(r)
       /\ drained' = drained \ {r}
       /\ params' = [params EXCEPT ![r.key] = [val |-> r.val, by |-> r.n]]
       /\ changed' = TRUE /\ persist' = PersistAfter(r)
       /\ batch' = IF r.persist THEN batch \cup {r} ELSE batch
       /\ applied' = applied \cup {r} /\ done' = done \cup {r}
  /\ UNCHANGED <<boxes, file, scratch, board, pc, listed, durable>>
  /\ Rest

\* Mutant: the frame_id stays.
NextFrameSame == IF frame = 0 THEN 1 ELSE frame

\* The frame_id of the next publish.
NextFrame == frame + 1

\* Mutant: publish what the file holds.
ContentOfFile == file

\* What is published: every param of memory, in one write of the cell.
Content == params

\* _publish().  Nobody looks at write()'s answer: a write that fails, short of
\* the limit, has used up its frame_id and is not tried again.
PublishParams ==
  /\ frame' = NextFrame
  /\ \/ cell' = [fid |-> NextFrame, vals |-> Content] /\ fails' = 0
     \/ fails + 1 < WRITE_FAIL_LIMIT /\ fails' = fails + 1 /\ UNCHANGED cell

\* The batch is over: publish it if it changed anything.
Publish ==
  /\ At("read") /\ listed = {} /\ drained = {}
  /\ IF changed THEN PublishParams ELSE UNCHANGED board
  /\ pc' = IF persist THEN "save" ELSE "wait"
  /\ durable' = IF persist THEN durable ELSE durable \cup batch
  /\ UNCHANGED <<boxes, file, scratch, params, work, applied, done>>
  /\ Rest

\* _save(): a scratch file, and then one rename over the JSON file.
SaveScratch ==
  /\ At("save")
  /\ scratch' = {params} /\ pc' = "replace"
  /\ UNCHANGED <<boxes, file, board, params, work, applied, durable, done>>
  /\ Rest

SaveReplace ==
  /\ At("replace")
  /\ file' \in scratch /\ scratch' = {} /\ pc' = "wait"
  /\ durable' = durable \cup batch
  /\ UNCHANGED <<boxes, board, params, work, applied, done>>
  /\ Rest

----------------------------------------------------------------------------
(* The process *)

\* What ends with the server: the requests it had read and not applied.
Died ==
  /\ status' = "down" /\ stops' = stops + 1 /\ pc' = "wait"
  /\ listed' = {} /\ drained' = {} /\ changed' = FALSE /\ persist' = FALSE
  /\ batch' = {} /\ applied' = {} /\ fails' = 0
  /\ UNCHANGED <<changes, boxes, file, scratch, cell, frame, params, reader, durable, done>>

Kill == status = "up" /\ stops < MaxStops /\ Died

\* One failed write too many raises, before a batch that asks for it is saved.
PublishRaises ==
  /\ At("boot") \/ (At("read") /\ listed = {} /\ drained = {} /\ changed)
  /\ fails + 1 = WRITE_FAIL_LIMIT /\ stops < MaxStops
  /\ Died

\* setup() loads the file and creates the writer, which blanks the cell ...
Boot ==
  /\ status = "down"
  /\ status' = "up" /\ pc' = "boot"
  /\ params' = file /\ frame' = 0 /\ cell' = [fid |-> 0, vals |-> Blank]
  /\ fails' = 0 /\ fresh' = FALSE
  /\ UNCHANGED <<changes, boxes, file, scratch, stops, work, last, shown, history>>

\* ... and then publishes.
BootPublish ==
  /\ At("boot")
  /\ PublishParams /\ pc' = "wait"
  /\ UNCHANGED <<boxes, file, scratch, params, work, applied, durable, done>>
  /\ Rest

Next ==
  \/ Submit \/ EditFile \/ Poll
  \/ Tick \/ ReadOne \/ Reject \/ Apply \/ Publish \/ SaveScratch \/ SaveReplace
  \/ Kill \/ PublishRaises \/ Boot \/ BootPublish

Spec == Init /\ [][Next]_vars
----------------------------------------------------------------------------
(* Properties *)

\* Every variable has its type.
TypeOK ==
  /\ changes \in 0..MaxChanges /\ stops \in 0..MaxStops
  /\ inbox \subseteq Request /\ parked \subseteq Request
  /\ file \in Params /\ params \in Params /\ scratch \subseteq Params
  /\ fails \in 0..(WRITE_FAIL_LIMIT - 1)
  /\ frame \in Nat /\ cell \in [fid : Nat, vals : Params]
  /\ status \in {"up", "down"} /\ pc \in {"wait", "read", "save", "replace", "boot"}
  /\ listed \subseteq Request /\ drained \subseteq Request
  /\ changed \in BOOLEAN /\ persist \in BOOLEAN
  /\ last \in Nat \cup {-1} /\ shown \in Params /\ fresh \in BOOLEAN
  /\ batch \subseteq Request /\ applied \subseteq Request /\ durable \subseteq Request
  /\ done \subseteq Request

\* A value that a request put in memory, on the board or on disk is in the
\* param's range, through saves and restarts: only an edit of the file, which
\* boot does not check, can bring in another.
RangeKept ==
  \A r \in done, k \in Keys :
    \A p \in {params[k], cell.vals[k], file[k]} : p.by = r.n => p.val \in InRange[k]

\* Between ticks the board shows the newest set applied in this life for each
\* param, whatever else its batch held, unless the last write of the board
\* failed: the next one that lands shows what was missed as well.
LastSetWins ==
  At("wait") /\ fails = 0 => \A r \in applied : cell.vals[r.key].by >= r.n

\* Once the tick that applied a persisted set has ended, neither a crash nor
\* a later save brings an older value of that param back to the disk.
PersistedSurvives == \A r \in durable : file[r.key].by >= r.n

\* A request is applied at most once, and never after it was quarantined,
\* whenever the server dies.
AppliedOnce ==
  done \cap (parked \cup inbox \cup drained) = {}

\* In one life of the server a frame_id stands for one content of the board,
\* so a reader that skips it misses nothing.
FrameNamesContent == fresh /\ last = cell.fid => shown = cell.vals
=============================================================================
