--------------------------- MODULE BlockAllocator ---------------------------
(***************************************************************************)
(* BlockAllocator of src/engine/block_manager.py: a LIFO free list over    *)
(* uniform blocks, and a reference count per block.  incref and decref of  *)
(* a block whose count is not positive raise before they change anything,  *)
(* so they are modelled by their guards; so are allocate and allocate_many *)
(* when they return None.                                                  *)
(***************************************************************************)
EXTENDS Naturals, Sequences

CONSTANTS NumBlocks,   \* blocks 0 .. NumBlocks - 1
          MaxRefs      \* bound on a reference count, for model checking

ASSUME NumBlocksAssumption == NumBlocks \in Nat
ASSUME MaxRefsAssumption == MaxRefs \in Nat

Blocks == 0 .. NumBlocks - 1

VARIABLES free,        \* _free: a stack, its top at the end
          refs         \* _refs

vars == <<free, refs>>

(* reversed(range(n)): the first allocation is block 0. *)
Init ==
    /\ free = [i \in 1 .. NumBlocks |-> NumBlocks - i]
    /\ refs = [b \in Blocks |-> 0]

Popped(n) == {free[i] : i \in Len(free) - n + 1 .. Len(free)}

Allocate ==
    /\ free # <<>>
    /\ refs' = [refs EXCEPT ![free[Len(free)]] = 1]
    /\ free' = SubSeq(free, 1, Len(free) - 1)

(* Mutant: n counts are set, one block leaves the list. *)
AllocateManyPopsOne(n) ==
    /\ n <= Len(free)
    /\ refs' = [b \in Blocks |-> IF b \in Popped(n) THEN 1 ELSE refs[b]]
    /\ free' = SubSeq(free, 1, Len(free) - 1)

(* All or nothing: n allocations after one test of the list's length. *)
AllocateMany(n) ==
    /\ n <= Len(free)
    /\ refs' = [b \in Blocks |-> IF b \in Popped(n) THEN 1 ELSE refs[b]]
    /\ free' = SubSeq(free, 1, Len(free) - n)

Incref(b) ==
    /\ refs[b] > 0
    /\ refs[b] < MaxRefs
    /\ refs' = [refs EXCEPT ![b] = @ + 1]
    /\ UNCHANGED free

(* Mutant: the block is listed one reference early. *)
DecrefOffByOne(b) ==
    /\ refs[b] > 0
    /\ refs' = [refs EXCEPT ![b] = @ - 1]
    /\ free' = IF refs[b] = 2 THEN Append(free, b) ELSE free

Decref(b) ==
    /\ refs[b] > 0
    /\ refs' = [refs EXCEPT ![b] = @ - 1]
    /\ free' = IF refs[b] = 1 THEN Append(free, b) ELSE free

Next ==
    \/ Allocate
    \/ \E n \in 1 .. NumBlocks : AllocateMany(n)
    \/ \E b \in Blocks : Incref(b) \/ Decref(b)

Spec == Init /\ [][Next]_vars

-----------------------------------------------------------------------------
(* Every element of the list is a block, every count a natural number. *)
TypeOK ==
    /\ free \in Seq(Blocks)
    /\ refs \in [Blocks -> Nat]

(* The free list and the counts never disagree: a block is on _free exactly
   when _refs says nobody holds it, and it is there once.  A block listed
   twice, or listed while referenced, would be handed to two sequences
   (allocate); one missing from both is lost for good (decref). *)
FreeListExact ==
    /\ \A i, j \in 1 .. Len(free) : free[i] = free[j] => i = j
    /\ \A b \in Blocks : refs[b] = 0 <=> \E i \in 1 .. Len(free) : free[i] = b

(* The list implements the pool its callers reason about: every allocate,
   allocate_many, incref and decref is a step of BlockPool. *)
Pool == INSTANCE BlockPool
PoolSpec == Pool!Spec

=============================================================================
