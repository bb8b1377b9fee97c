------------------------------ MODULE Session ------------------------------
(***************************************************************************)
(* What a recording promises to those who ring START and read the episode: *)
(* it takes clock frames one at a time, each later than the one before and *)
(* no more than Cap of them, and it ends once, whole or not at all: handed *)
(* to the writer, failed or discarded (services/data_recorder.py).         *)
(***************************************************************************)
EXTENDS Integers, Sequences

CONSTANT Cap      \* the most rows an episode can have

VARIABLES
  status,         \* idle | recording
  taken,          \* the frames taken, by number
  ended           \* how the last recording ended

vars == <<status, taken, ended>>

Init == status = "idle" /\ taken = <<>> /\ ended = "none"

\* START on an idle recorder; on a busy one it is ignored.
Begin ==
  /\ status = "idle"
  /\ status' = "recording" /\ taken' = <<>> /\ ended' = "none"

\* One more row.
Take ==
  /\ status = "recording" /\ Len(taken) < Cap
  /\ Len(taken') = Len(taken) + 1
  /\ \A i \in DOMAIN taken : taken'[i] = taken[i] /\ taken[i] < taken'[Len(taken')]
  /\ UNCHANGED <<status, ended>>

\* STOP and auto-stop hand over, DISCARD discards, an abort fails.
End ==
  /\ status = "recording"
  /\ status' = "idle" /\ taken' = <<>>
  /\ ended' \in {"handed", "failed", "discarded"}

Next == Begin \/ Take \/ End

Spec == Init /\ [][Next]_vars
=============================================================================
