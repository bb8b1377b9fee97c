--------------------------- MODULE MCParamServer ---------------------------
(* Instances of ParamServer for TLC: one param with a range, one without. *)
EXTENDS ParamServer

CONSTANTS speed, zone

MCKeys == {speed, zone}
MCValues == {0, 1}
MCInRange == [k \in MCKeys |-> IF k = speed THEN {1} ELSE MCValues]
=============================================================================
