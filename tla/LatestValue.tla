---------------------------- MODULE LatestValue ----------------------------
(***************************************************************************)
(* What a blackboard topic promises (ipc/blackboard.py): one cell, whose   *)
(* value only moves forward, through deaths and successors of its writer;  *)
(* a reader copies out the value the cell has now, and no other.           *)
(***************************************************************************)
EXTENDS Integers

CONSTANTS Readers, None

VARIABLES
  cell,           \* the newest value: the writer's life and the write's number
  seen            \* per reader, the copy it took last

vars == <<cell, seen>>

\* a is older than b.
Older(a, b) == a.life < b.life \/ (a.life = b.life /\ a.n < b.n)

Init ==
  /\ cell = [life |-> 0, n |-> 0]
  /\ seen = [r \in Readers |-> None]

Write == Older(cell, cell') /\ UNCHANGED seen

Copy(r) == seen' = [seen EXCEPT ![r] = cell] /\ UNCHANGED cell

\* The reader's process ends, its copy with it.
Forget(r) == seen' = [seen EXCEPT ![r] = None] /\ UNCHANGED cell

Next == Write \/ \E r \in Readers : Copy(r) \/ Forget(r)

Spec == Init /\ [][Next]_vars
=============================================================================
