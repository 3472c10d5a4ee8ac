----------------------------- MODULE MCGateway -----------------------------
(* Two replicas with two virtual nodes each, and one or two requests: the two
   carry the same request_id, as a client's own retry does. *)
EXTENDS Gateway

CONSTANTS r1, r2, q1, q2
TwoReplicas == {r1, r2}
OneRequest == {q1}
TwoRequests == {q1, q2}
SameId == [q \in Requests |-> "id"]
MCPointHash == [r \in Replicas |-> IF r = r1 THEN {1, 5} ELSE {3, 7}]
MCKeyHash == [q \in Requests |-> IF q = q1 THEN 0 ELSE 6]
MCCap == [b \in Buckets |-> IF b = "req" THEN 2 ELSE MaxTokens + 1]
MCRate == [b \in Buckets |-> IF b = "req" THEN 1 ELSE MaxTokens]
NoHalves == {}
SecondIsHalf == {2}
=============================================================================
