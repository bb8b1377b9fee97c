------------------------------- MODULE Ledger -------------------------------
(***************************************************************************)
(* What the recorder promises about every capture it mints an identity     *)
(* for: it is recorded alone, handed to the writer at most once, kept as a *)
(* bundle or dropped, never both, and the outside is told at most once and *)
(* told the truth (services/data_recorder.py).                             *)
(***************************************************************************)
EXTENDS Integers, Sequences

CONSTANT Captures     \* the identities of captures

VARIABLES
  fate,               \* per capture: none | open | writing | kept | dropped
  told                \* per capture: the rings made for it

vars == <<fate, told>>

Init ==
  /\ fate = [c \in Captures |-> "none"]
  /\ told = [c \in Captures |-> <<>>]

Begin(c) ==
  /\ fate[c] = "none" /\ \A d \in Captures : fate[d] # "open"
  /\ fate' = [fate EXCEPT ![c] = "open"] /\ UNCHANGED told

Hand(c) ==
  /\ fate[c] = "open"
  /\ fate' = [fate EXCEPT ![c] = "writing"] /\ UNCHANGED told

Commit(c) ==
  /\ fate[c] = "writing"
  /\ fate' = [fate EXCEPT ![c] = "kept"] /\ UNCHANGED told

\* A discard, an abort or a failed write drops one capture; a crash may drop
\* several.
Drop ==
  /\ \E S \in SUBSET {c \in Captures : fate[c] \in {"open", "writing"}} :
       fate' = [c \in Captures |-> IF c \in S THEN "dropped" ELSE fate[c]]
  /\ UNCHANGED told

Announce(c) ==
  /\ told[c] = <<>>
  /\ \/ fate[c] = "kept" /\ told' = [told EXCEPT ![c] = <<"captured">>]
     \/ /\ fate[c] = "dropped"
        /\ \E k \in {"discarded", "failed"} : told' = [told EXCEPT ![c] = <<k>>]
  /\ UNCHANGED fate

Next ==
  \/ Drop
  \/ \E c \in Captures : Begin(c) \/ Hand(c) \/ Commit(c) \/ Announce(c)

Spec == Init /\ [][Next]_vars
=============================================================================
