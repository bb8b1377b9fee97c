------------------------------ MODULE MCLogger ------------------------------
(* Instances of Logger for TLC: every other image is twice the size. *)
EXTENDS Logger

MCBytes == [i \in 1..MaxWrites |-> 1 + (i % 2)]
=============================================================================
