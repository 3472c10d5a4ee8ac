--------------------------- MODULE MCAsyncEngine ---------------------------
(* AsyncEngine for TLC: the budgets of the runs. *)
EXTENDS AsyncEngine, TLC

CONSTANTS r1, r2

Budgets == r1 :> 3 @@ r2 :> 1
=============================================================================
