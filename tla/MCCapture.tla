----------------------------- MODULE MCCapture -----------------------------
(* Instances of Capture for TLC. *)
EXTENDS Capture

\* Window sources tolerate samples one unit older than the frame.
MCTol == [s \in Window |-> 1]
=============================================================================
