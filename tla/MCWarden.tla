------------------------------ MODULE MCWarden ------------------------------
(* Two commands at a time act on a runtime of two services. *)
EXTENDS Warden, TLC

CONSTANTS arm, cam

\* The arm's second definition and the camera's first disagree about a topic's
\* struct.
Disagreeing == {[n \in {arm, cam} |-> IF n = arm THEN 2 ELSE 1]}

\* The commands are alike: any of them may be given anything.
Symmetry == Permutations(Clients)
=============================================================================
