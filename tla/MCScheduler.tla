---------------------------- MODULE MCScheduler ----------------------------
(* Scheduler for TLC: the jobs of the runs. *)
EXTENDS Scheduler, TLC

CONSTANTS x, y, r1, r2, r3

J(p, n, ignore, deadline) ==
    [prompt |-> p, maxTokens |-> n, ignoreEos |-> ignore, deadline |-> deadline]

(* Three requests that share their first block.  Six blocks hold the first
   two until both near their budgets: then the newer one is preempted. *)
SharingJobs == r1 :> J(<<x, x>>, 6, FALSE, FALSE) @@ r2 :> J(<<x, x, x>>, 6, FALSE, TRUE)
               @@ r3 :> J(<<x, x, y, y>>, 1, TRUE, FALSE)

(* r1 leaves two cached blocks behind; r2 alone needs five of the six. *)
PinnedJobs == r1 :> J(<<x, x, x, x>>, 1, FALSE, FALSE) @@ r2 :> J(<<y>>, 9, FALSE, FALSE)

JobPrompts == {Prompt(r) : r \in Requests}
=============================================================================
