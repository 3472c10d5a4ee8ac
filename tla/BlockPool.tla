----------------------------- MODULE BlockPool -----------------------------
(***************************************************************************)
(* What BlockAllocator (src/engine/block_manager.py) promises its callers: *)
(* uniform, interchangeable blocks with reference counts.  A block is      *)
(* handed out only while nobody references it, several blocks are handed   *)
(* out together or not at all, and a block comes back exactly when its     *)
(* last reference is dropped.  There is no free list here: a block is free *)
(* when its count is zero.                                                 *)
(***************************************************************************)
EXTENDS Naturals

CONSTANTS Blocks,   \* the physical blocks of the pool
          MaxRefs   \* bound on a reference count, for model checking

VARIABLE refs       \* block -> number of references

Free == {b \in Blocks : refs[b] = 0}

Init == refs = [b \in Blocks |-> 0]

(* A set of free blocks becomes referenced once, in one step. *)
Take(S) ==
    /\ S # {}
    /\ refs' = [b \in Blocks |-> IF b \in S THEN 1 ELSE refs[b]]

Share(b) ==
    /\ refs[b] \in 1 .. MaxRefs - 1
    /\ refs' = [refs EXCEPT ![b] = @ + 1]

Drop(b) ==
    /\ refs[b] > 0
    /\ refs' = [refs EXCEPT ![b] = @ - 1]

Next ==
    \/ \E S \in SUBSET Free : Take(S)
    \/ \E b \in Blocks : Share(b) \/ Drop(b)

Spec == Init /\ [][Next]_refs
=============================================================================
