------------------------------ MODULE MCFleet ------------------------------
(* Two replicas with two virtual nodes each, interleaved on the ring; one or
   both run at first. *)
EXTENDS Fleet

CONSTANTS r1, r2
TwoReplicas == {r1, r2}
FirstOnly == {r1}
MCPointHash == [r \in Replicas |-> IF r = r1 THEN {1, 5} ELSE {3, 7}]
MCKeys == {0, 2, 5, 6}
=============================================================================
