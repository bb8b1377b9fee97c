------------------------------- MODULE Logger -------------------------------
(***************************************************************************)
(* The IPC logger (services/ipc_logger.py) on one image topic: on_tick     *)
(* reads the cell of module Ports, saves on change, and keeps a ring of    *)
(* files within a cap of bytes; and koyu frame, which shows the last file  *)
(* (cli/main.py).                                                          *)
(*                                                                         *)
(* An image is the value it was read as.  The blank first value of a       *)
(* writer has no pixels.  The logger may die between two file operations;  *)
(* the files survive it, its count of them does not.                       *)
(***************************************************************************)
EXTENDS Ports, FiniteSetsExt, Functions, Sequences

CONSTANTS
  Log,            \* the logger, one of the readers
  Bytes,          \* per frame_id, the size of the image's file
  FRAME_CAP       \* the ring's cap of bytes

ASSUME LoggerAssumption ==
  /\ Log \in Readers
  /\ Bytes \in [1..MaxWrites -> Nat \ {0}] /\ FRAME_CAP \in Nat

VARIABLES
  step,           \* on_tick: wait | save | evict
  last,           \* the frame_id of the last look
  count,          \* FrameRing.n
  files,          \* the ring: file number |-> image
  lives,          \* history: lives of the logger
  saved           \* history: images saved, in order

ring == <<count, files, saved>>
logger == <<step, last, ring, lives>>
allvars == <<vars, logger>>

LoggerInit ==
  /\ Init
  /\ step = "wait" /\ last = None
  /\ count = 0 /\ files = [f \in {} |-> None] /\ saved = <<>>
  /\ lives = 1

Size(v) == Bytes[v.n]
Total == FoldFunction(+, 0, [f \in DOMAIN files |-> Size(files[f])])

----------------------------------------------------------------------------
(* on_tick() *)

\* Nothing new: the frame_id is the one of the last look.
Seen(v) == last = v.n

\* Read the topic; a new image is saved, the blank value only remembered.
Tick ==
  /\ step = "wait" /\ Read(Log)
  /\ LET v == Copied(Log) IN
       /\ step' = IF Seen(v) \/ v.n = 0 THEN "wait" ELSE "save"
       /\ last' = v.n
  /\ UNCHANGED <<ring, lives>>

\* Mutant: a file is numbered by the files there are.
NameByFiles == Cardinality(DOMAIN files)

\* The number of the next file, less one.
Numbered == count

\* FrameRing.save(): the file ...
Save ==
  /\ step = "save" /\ step' = "evict"
  /\ count' = Numbered + 1
  /\ files' = [f \in DOMAIN files \cup {Numbered + 1} |->
                 IF f = Numbered + 1 THEN seen[Log] ELSE files[f]]
  /\ saved' = Append(saved, seen[Log])
  /\ UNCHANGED <<vars, last, lives>>

\* sorted(): the first file to go.
FirstName == Min(DOMAIN files)

\* There are files to evict.
Over == Total > FRAME_CAP

\* ... and then, one by one, those over the cap.  The line logged about the image
\* is left out.
Evict ==
  /\ step = "evict"
  /\ IF Over
     THEN /\ files' = Restrict(files, DOMAIN files \ {FirstName})
          /\ UNCHANGED step
     ELSE step' = "wait" /\ UNCHANGED files
  /\ UNCHANGED <<vars, last, count, saved, lives>>

----------------------------------------------------------------------------
(* The process *)

\* Memory is lost; FrameRing counts from 0 again.
StopLogger ==
  /\ Crash(Log) \/ (step = "wait" /\ Exit(Log))
  /\ step' = "wait" /\ last' = None /\ count' = 0 /\ lives' = lives + 1
  /\ UNCHANGED <<files, saved>>

\* Everyone else, the logger's lazy reader, and its next start.
Others ==
  /\ \/ WriterStep \/ OpenPort(Log) \/ StartReader(Log)
     \/ \E r \in Readers \ {Log} : ReaderStep(r)
     \/ \E p \in Procs \ {Log} : Crash(p) \/ Exit(p)
  /\ UNCHANGED logger

LoggerNext ==
  Others \/ Tick \/ Save \/ Evict \/ StopLogger

LoggerSpec == LoggerInit /\ [][LoggerNext]_allvars

Aside(A) == A /\ UNCHANGED logger

\* What the supervisor, the scheduler and the tick owe: a writer that is down is
\* started, a constructor goes on, what was left is torn down, readers poll.
LoggerFair ==
  /\ WF_allvars(Aside(Construct)) /\ WF_allvars(Aside(Raise)) /\ WF_allvars(Aside(Teardown))
  /\ \A r \in Readers : WF_allvars(Aside(OpenPort(r)))
  /\ \A r \in Readers \ {Log} : WF_allvars(Aside(Read(r)))
  /\ WF_allvars(Tick) /\ WF_allvars(Save \/ Evict)

FairLogger == LoggerSpec /\ LoggerFair
----------------------------------------------------------------------------
(* Properties *)

\* Every variable has its type; no file has a number beyond the images saved.
LoggerTypeOK ==
  /\ TypeOK
  /\ step \in {"wait", "save", "evict"}
  /\ last \in Nat \cup {None} /\ lives \in Nat
  /\ saved \in Seq(Value) /\ count \in 0..Len(saved)
  /\ DOMAIN files \subseteq 1..Len(saved) /\ \A f \in DOMAIN files : files[f] \in Value

\* The ring is the newest images saved, in the order of their names.
NewestInOrder ==
  /\ count = Len(saved)
  /\ \E k \in 0..count : DOMAIN files = (k + 1)..count
  /\ \A f \in DOMAIN files : files[f] = saved[f]

\* "oldest evicted, newest kept": while the logger has not been restarted, the
\* ring is the newest images saved, in the order of their names, whatever
\* became of the writer; it fits the cap except while it is being evicted, and
\* is never shorter than that takes: with one image more it would not fit.
RingIsNewest ==
  lives = 1 =>
    /\ NewestInOrder
    /\ step # "evict" => Total <= FRAME_CAP
    /\ DOMAIN files # 1..count =>
         Total + Size(saved[count - Cardinality(DOMAIN files)]) > FRAME_CAP

\* "path to the newest logged frame": at any time koyu frame shows the image
\* saved last, if it fits the ring at all.
NewestShown ==
  saved # <<>> /\ Size(saved[Len(saved)]) <= FRAME_CAP =>
    DOMAIN files # {} /\ files[Max(DOMAIN files)] = saved[Len(saved)]

\* Every live reader comes to read a value of the writer that is up, whatever
\* dead processes left behind and others still hold: a writer that ended is up
\* again and a reader finds it, also one that was there before the topic and
\* one whose port was open before the crash.  The one way out is FATAL: starts
\* that found the last writer's handle used the supervisor's budget up.
ReadersRecover ==
  \A r \in Readers :
    alive[r] ~>
      \/ ~alive[r] \/ pc = "fatal"
      \/ pc = "up" /\ seen[r] # None /\ seen[r].life = life
=============================================================================
