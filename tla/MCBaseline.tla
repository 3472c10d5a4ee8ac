----------------------------- MODULE MCBaseline -----------------------------
(* Baseline for TLC: requests that fit, that outgrow the slot while decoding,
   and whose prompt does not fit. *)
EXTENDS Baseline, TLC

CONSTANTS fits, grows, huge, small

Prompts == fits :> 2 @@ grows :> 3 @@ huge :> 5 @@ small :> 1
Budgets == fits :> 2 @@ grows :> 3 @@ huge :> 1 @@ small :> 1
=============================================================================
