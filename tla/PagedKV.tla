------------------------------ MODULE PagedKV ------------------------------
(***************************************************************************)
(* PagedCachePool and PagedKVCache of src/engine/block_manager.py: block   *)
(* tables over a shared pool of physical blocks, growth a block at a time, *)
(* fork by reference, and copy-on-write of the tail block.                 *)
(*                                                                         *)
(* The allocator is used through BlockPool, which BlockAllocator           *)
(* implements: any block whose count is zero may be handed out.  A slot of *)
(* a block stores the context of the token whose K and V were written      *)
(* there, the tokens up to and including it: entries computed from         *)
(* different histories differ.  NoKV is garbage: a slot never written, or  *)
(* left over in a block that nobody references any more (no operation may  *)
(* depend on what such a block holds, so free forgets it).  _slots, the    *)
(* device-side image of the block table, is the function Slot below.       *)
(***************************************************************************)
EXTENDS Integers, Sequences, FiniteSets

CONSTANTS Blocks,      \* physical blocks
          Caches,      \* PagedKVCache objects
          Tokens,      \* the vocabulary
          BlockSize,   \* token slots per block
          MaxTokens,   \* bound on the tokens of a sequence
          AnyBlock     \* TRUE: an allocation may return any free block; FALSE:
                       \* one of them, always the same (blocks are uniform)

ASSUME BlockSizeAssumption == BlockSize \in Nat \ {0}
ASSUME BlocksAssumption == IsFiniteSet(Blocks)
ASSUME CachesAssumption == IsFiniteSet(Caches)
ASSUME MaxTokensAssumption == MaxTokens \in Nat
ASSUME AnyBlockAssumption == AnyBlock \in BOOLEAN

VARIABLES
    refs,       \* block -> BlockAllocator._refs
    kv,         \* block -> slot -> stored context
    table,      \* cache -> block_table
    numTokens,  \* cache -> num_tokens
    text,       \* cache -> the tokens fed through update (what the model saw)
    status      \* cache -> "closed", "open", or "failed" (update raised)

kvVars == <<refs, kv, table, numTokens, text, status>>

Texts == UNION {[1 .. n -> Tokens] : n \in 1 .. MaxTokens}
NoKV == <<>>

CeilDiv(n, d) == (n + d - 1) \div d
FreeBlocks == {b \in Blocks : refs[b] = 0}
NumFree == Cardinality(FreeBlocks)

(* Position p (from 1) of cache c is stored in slot Offset(p) of this block. *)
BlockOf(c, p) == table[c][((p - 1) \div BlockSize) + 1]
Offset(p) == ((p - 1) % BlockSize) + 1
Slot(c, p) == kv[BlockOf(c, p)][Offset(p)]

(* What update returns to attention: index_select over the live slots. *)
Gather(c) == [p \in 1 .. numTokens[c] |-> Slot(c, p)]

TableBlocks(c) == {table[c][i] : i \in 1 .. Len(table[c])}
Holders(b) == {c \in Caches : b \in TableBlocks(c)}

(* Blocks the allocator may return for n successive calls, in order. *)
DistinctFree(n) ==
    {f \in [1 .. n -> FreeBlocks] : \A i, j \in 1 .. n : f[i] = f[j] => i = j}
FreshBlocks(n) ==
    {f \in DistinctFree(n) : AnyBlock \/ f = CHOOSE g \in DistinctFree(n) : TRUE}

Garbage == [i \in 1 .. BlockSize |-> NoKV]

KVInit ==
    /\ refs = [b \in Blocks |-> 0]
    /\ kv = [b \in Blocks |-> Garbage]
    /\ table = [c \in Caches |-> <<>>]
    /\ numTokens = [c \in Caches |-> 0]
    /\ text = [c \in Caches |-> <<>>]
    /\ status = [c \in Caches |-> "closed"]

-----------------------------------------------------------------------------
(* PagedCachePool.allocate: None, and nothing happens, without a free block. *)
Allocate(c) ==
    /\ status[c] = "closed"
    /\ FreeBlocks # {}
    /\ status' = [status EXCEPT ![c] = "open"]
    /\ UNCHANGED <<refs, kv, table, numTokens, text>>

(* Mutant: two sequences may share a tail and write it in place. *)
CopiesTailLate(c) ==
    /\ numTokens[c] % BlockSize # 0
    /\ table[c] # <<>>
    /\ refs[table[c][Len(table[c])]] > 2

(* _unshare_tail copies when the tail is partly filled and shared. *)
CopiesTail(c) ==
    /\ numTokens[c] % BlockSize # 0
    /\ table[c] # <<>>
    /\ refs[table[c][Len(table[c])]] > 1

(* The blocks update asks for: one for the copy, then _ensure_capacity's. *)
BlocksWanted(c, n) ==
    LET grow == CeilDiv(numTokens[c] + n, BlockSize) - Len(table[c])
    IN  (IF CopiesTail(c) THEN 1 ELSE 0) + (IF grow > 0 THEN grow ELSE 0)

(* The table once the blocks f were obtained, in order: the first replaces a
   shared tail, the others are appended. *)
GrownTable(c, f) ==
    IF CopiesTail(c) /\ f # <<>>
    THEN [table[c] EXCEPT ![Len(table[c])] = f[1]] \o Tail(f)
    ELSE table[c] \o f

GrownRefs(c, f) ==
    [b \in Blocks |->
        CASE \E i \in 1 .. Len(f) : f[i] = b -> 1
          [] CopiesTail(c) /\ f # <<>> /\ b = table[c][Len(table[c])] -> refs[b] - 1
          [] OTHER -> refs[b]]

(* Mutant: the fresh tail is not filled from the shared one. *)
CopiedKVSkipped(c, f) == kv

(* copy_block: the fresh tail starts as a copy of the shared one. *)
CopiedKV(c, f) ==
    IF CopiesTail(c) /\ f # <<>>
    THEN [kv EXCEPT ![f[1]] = kv[table[c][Len(table[c])]]]
    ELSE kv

(* The scatter: the context of each new token goes to its slot. *)
Scattered(store, t, start, whole) ==
    [b \in Blocks |-> [i \in 1 .. BlockSize |->
        IF \E p \in start + 1 .. Len(whole) :
              t[((p - 1) \div BlockSize) + 1] = b /\ Offset(p) = i
        THEN LET p == CHOOSE p \in start + 1 .. Len(whole) :
                        t[((p - 1) \div BlockSize) + 1] = b /\ Offset(p) = i
             IN  SubSeq(whole, 1, p)
        ELSE store[b][i]]]

(* update, on layer 0, with enough free blocks: copy-on-write, growth, then
   the scatter of the new entries. *)
UpdateFits(c, new) ==
    /\ status[c] = "open"
    /\ numTokens[c] + Len(new) <= MaxTokens
    /\ BlocksWanted(c, Len(new)) <= NumFree
    /\ \E f \in FreshBlocks(BlocksWanted(c, Len(new))) :
         /\ refs' = GrownRefs(c, f)
         /\ table' = [table EXCEPT ![c] = GrownTable(c, f)]
         /\ kv' = Scattered(CopiedKV(c, f), GrownTable(c, f), numTokens[c],
                            text[c] \o new)
    /\ numTokens' = [numTokens EXCEPT ![c] = @ + Len(new)]
    /\ text' = [text EXCEPT ![c] = @ \o new]
    /\ UNCHANGED status

(* update when the pool runs dry.  OutOfBlocks leaves what was already done:
   the copied tail and the blocks obtained before the failing allocation
   stay on the table; num_tokens does not move.  The one caller in the engine
   (_admit) then frees the cache, the only step a failed cache has. *)
UpdateRaises(c, new) ==
    /\ status[c] = "open"
    /\ numTokens[c] + Len(new) <= MaxTokens
    /\ BlocksWanted(c, Len(new)) > NumFree
    /\ \E f \in FreshBlocks(NumFree) :
         /\ refs' = GrownRefs(c, f)
         /\ table' = [table EXCEPT ![c] = GrownTable(c, f)]
         /\ kv' = CopiedKV(c, f)
    /\ status' = [status EXCEPT ![c] = "failed"]
    /\ UNCHANGED <<numTokens, text>>

(* fork: the child shares every block of the parent; no KV is copied. *)
Fork(p, c) ==
    /\ status[p] = "open"
    /\ status[c] = "closed"
    /\ refs' = [b \in Blocks |-> IF b \in TableBlocks(p) THEN refs[b] + 1 ELSE refs[b]]
    /\ table' = [table EXCEPT ![c] = table[p]]
    /\ numTokens' = [numTokens EXCEPT ![c] = numTokens[p]]
    /\ text' = [text EXCEPT ![c] = text[p]]
    /\ status' = [status EXCEPT ![c] = "open"]
    /\ UNCHANGED kv

(* free: one reference dropped per table entry; the object is abandoned. *)
Free(c) ==
    /\ status[c] # "closed"
    /\ refs' = [b \in Blocks |-> IF b \in TableBlocks(c) THEN refs[b] - 1 ELSE refs[b]]
    /\ kv' = [b \in Blocks |-> IF refs'[b] = 0 THEN Garbage ELSE kv[b]]
    /\ table' = [table EXCEPT ![c] = <<>>]
    /\ numTokens' = [numTokens EXCEPT ![c] = 0]
    /\ text' = [text EXCEPT ![c] = <<>>]
    /\ status' = [status EXCEPT ![c] = "closed"]

KVNext ==
    \E c \in Caches :
        \/ Allocate(c)
        \/ \E new \in Texts : UpdateFits(c, new) \/ UpdateRaises(c, new)
        \/ \E p \in Caches : Fork(p, c)
        \/ Free(c)

KVSpec == KVInit /\ [][KVNext]_kvVars

-----------------------------------------------------------------------------
KVTypeOK ==
    /\ refs \in [Blocks -> Nat]
    /\ kv \in [Blocks -> [1 .. BlockSize -> Seq(Tokens)]]
    /\ table \in [Caches -> Seq(Blocks)]
    /\ numTokens \in [Caches -> 0 .. MaxTokens]
    /\ text \in [Caches -> Seq(Tokens)]
    /\ status \in [Caches -> {"closed", "open", "failed"}]

(* No leak and no double free: every block's count is the number of caches
   whose table lists it.  A count above it is a block that never comes back
   (free), one below it a block handed out while a sequence reads it. *)
RefsExact == \A b \in Blocks : refs[b] = Cardinality(Holders(b))

(* The gather of update returns, at every position, the entry computed from
   this sequence's own tokens, whatever was forked, copied, freed and reused
   in between: no aliasing, no missed copy-on-write, no stale slot. *)
ReadsOwnContext ==
    \A c \in Caches : \A p \in 1 .. numTokens[c] : Slot(c, p) = SubSeq(text[c], 1, p)

(* "a 20-token sequence holds 2 blocks, not a 1,024-token reservation"
   (_ensure_capacity): a cache holds exactly the blocks its tokens need, so
   its internal fragmentation stays below BlockSize, and every position it
   can gather is addressable.  Only a raised update may leave blocks over. *)
HoldsWhatItNeeds ==
    \A c \in Caches :
        LET needed == CeilDiv(numTokens[c], BlockSize)
        IN  IF status[c] = "failed" THEN Len(table[c]) >= needed
                                    ELSE Len(table[c]) = needed

(* A block is written only by a cache that holds it alone once the step is
   done: every block that two sequences can read is immutable. *)
NoSharedWrite ==
    [][\A b \in Blocks : kv'[b] # kv[b] => refs'[b] <= 1]_kvVars

(* "Attention cannot tell this apart from a contiguous cache" (PagedKVCache):
   block tables, forks and copy-on-write implement ContiguousKV, the view of
   a cache being what a gather returns. *)
Contiguous == INSTANCE ContiguousKV WITH view <- [c \in Caches |-> Gather(c)]
ImplementsContiguous == Contiguous!Spec
=============================================================================
