------------------------------ MODULE Baseline ------------------------------
(***************************************************************************)
(* BaselineEngine of src/engine/baseline.py over the StaticCachePool of    *)
(* src/engine/kv_cache.py: one request at a time, each in a contiguous     *)
(* slot that is reused without being cleared.                              *)
(*                                                                         *)
(* A forward pass updates the cache layer by layer; an entry is named by   *)
(* the request and the position it was computed for.  A pass that does not *)
(* fit the slot raises RuntimeError.  _generate runs inside the try whose  *)
(* finally frees the slot, the prefill before it.  The caller, like the    *)
(* tests, goes on calling step() after an exception.                       *)
(***************************************************************************)
EXTENDS Naturals, Sequences, FiniteSets, FiniteSetsExt, SequencesExt

CONSTANTS Reqs,        \* requests
          PromptLen,   \* request -> prompt_len
          MaxNew,      \* request -> max_tokens
          NumSlots,    \* num_slots
          MaxSeqLen,   \* max_seq_len: tokens per slot
          NumLayers    \* num_hidden_layers

NoReq == "none"

ASSUME BaselineAssumption ==
    /\ {PromptLen, MaxNew} \subseteq [Reqs -> Nat \ {0}]
    /\ {NumSlots, MaxSeqLen, NumLayers} \subseteq Nat \ {0}
    /\ NoReq \notin Reqs

VARIABLES
    waiting,    \* the queue
    finished,   \* requests recorded as finished
    lost,       \* requests step() raised for: no outcome
    free,       \* _free, popped from its end
    live,       \* slot -> the request whose cache is in _live, or NoReq
    expected,   \* slot -> _expected
    pos,        \* request -> its cache's _pos
    start,      \* request -> its cache's _start
    slab,       \* layer -> slot -> position -> entry
    output,     \* request -> output_len
    pc,         \* "idle", or where step() is
    cur, slot, layer, n   \* the request, its slot, the pass's layer and length

vars == <<waiting, finished, lost, free, live, expected, pos, start, slab, output, pc, cur,
          slot, layer, n>>

NoEntry == <<NoReq, 0>>
Slots == 1 .. NumSlots
Layers == 1 .. NumLayers
TotalLenEstimate(r) == PromptLen[r] + MaxNew[r]

Init ==
    /\ waiting = <<>> /\ finished = {} /\ lost = {}
    /\ free = [i \in Slots |-> i]
    /\ live = [s \in Slots |-> NoReq]
    /\ expected = [s \in Slots |-> 0]
    /\ pos = [r \in Reqs |-> 0] /\ start = [r \in Reqs |-> 0]
    /\ slab = [l \in Layers |-> [s \in Slots |-> [p \in 1 .. MaxSeqLen |-> NoEntry]]]
    /\ output = [r \in Reqs |-> 0]
    /\ pc = "idle" /\ cur = NoReq /\ slot = 0 /\ layer = 0 /\ n = 0

AddRequest(r) ==
    /\ r \notin ToSet(waiting) \cup finished \cup lost \cup {cur}
    /\ waiting' = Append(waiting, r)
    /\ UNCHANGED <<finished, lost, free, live, expected, pos, start, slab, output, pc, cur,
                   slot, layer, n>>

Expected(r) == IF TotalLenEstimate(r) < MaxSeqLen THEN TotalLenEstimate(r) ELSE MaxSeqLen

(* step() takes the head of the queue and a slot, and starts the prefill.
   With no slot free it puts the request back and returns. *)
StepBegin ==
    /\ pc = "idle" /\ waiting # <<>> /\ free # <<>>
    /\ LET r == Head(waiting)
           s == Last(free)
       IN  /\ cur' = r /\ slot' = s
           /\ live' = [live EXCEPT ![s] = r]
           /\ expected' = [expected EXCEPT ![s] = Expected(r)]
           /\ n' = PromptLen[r]
    /\ waiting' = Tail(waiting)
    /\ free' = Front(free)
    /\ pc' = "prefill" /\ layer' = 1
    /\ UNCHANGED <<finished, lost, pos, start, slab, output>>

(* StaticCachePool.free. *)
FreeSlot(s) ==
    /\ live' = [live EXCEPT ![s] = NoReq]
    /\ expected' = [expected EXCEPT ![s] = 0]
    /\ free' = IF live[s] # NoReq THEN Append(free, s) ELSE free

Passing == pc \in {"prefill", "decode"}
Overflows == layer = 1 /\ pos[cur] + n > MaxSeqLen

(* Mutant: every layer advances the position. *)
AdvanceEachLayer ==
    /\ start' = [start EXCEPT ![cur] = pos[cur]]
    /\ pos' = [pos EXCEPT ![cur] = IF @ + n > MaxSeqLen THEN @ ELSE @ + n]

(* "The position advances once, on layer 0". *)
Advance ==
    IF layer = 1
    THEN start' = [start EXCEPT ![cur] = pos[cur]] /\ pos' = [pos EXCEPT ![cur] = @ + n]
    ELSE UNCHANGED <<start, pos>>

(* update of one layer: n entries from _start on. *)
UpdateLayer ==
    /\ Passing /\ ~Overflows
    /\ Advance
    /\ slab' = [slab EXCEPT ![layer][slot] =
                   [p \in 1 .. MaxSeqLen |->
                       IF p \in start'[cur] + 1 .. start'[cur] + n
                       THEN <<cur, PromptLen[cur] + output[cur] - n
                                   + (p - start'[cur])>>
                       ELSE @[p]]]
    /\ IF layer < NumLayers
       THEN layer' = layer + 1 /\ UNCHANGED pc
       ELSE layer' = 0 /\ pc' = "sample"
    /\ UNCHANGED <<waiting, finished, lost, free, live, expected, output, cur, slot, n>>

(* step() is left: its locals are gone. *)
Leave == pc' = "idle" /\ cur' = NoReq /\ slot' = 0 /\ layer' = 0 /\ n' = 0

(* update raises, with the position already advanced, in the prefill: no
   handler, the slot stays live. *)
PrefillRaises ==
    /\ pc = "prefill" /\ Overflows
    /\ pos' = [pos EXCEPT ![cur] = @ + n]
    /\ start' = [start EXCEPT ![cur] = pos[cur]]
    /\ lost' = lost \cup {cur}
    /\ Leave
    /\ UNCHANGED <<waiting, finished, free, live, expected, slab, output>>

(* Mutant: without the finally clause. *)
DecodeRaisesKeeps ==
    /\ pc = "decode" /\ Overflows
    /\ pos' = [pos EXCEPT ![cur] = @ + n]
    /\ start' = [start EXCEPT ![cur] = pos[cur]]
    /\ lost' = lost \cup {cur}
    /\ Leave
    /\ UNCHANGED <<waiting, finished, free, live, expected, slab, output>>

(* update raises inside _generate: the finally clause frees the slot, the
   exception goes on, and the request has no outcome. *)
DecodeRaises ==
    /\ pc = "decode" /\ Overflows
    /\ pos' = [pos EXCEPT ![cur] = @ + n]
    /\ start' = [start EXCEPT ![cur] = pos[cur]]
    /\ FreeSlot(slot)
    /\ lost' = lost \cup {cur}
    /\ Leave
    /\ UNCHANGED <<waiting, finished, slab, output>>

(* The next token of _generate is recorded and fed to the model, the last of
   the budget too. *)
TokenAccepted ==
    /\ pc = "sample" /\ output[cur] < MaxNew[cur]
    /\ output' = [output EXCEPT ![cur] = @ + 1]
    /\ pc' = "decode" /\ layer' = 1 /\ n' = 1
    /\ UNCHANGED <<waiting, finished, lost, free, live, expected, pos, start, slab, cur, slot>>

(* End of sequence, or the budget is spent: freed and recorded. *)
Complete ==
    /\ pc = "sample"
    /\ FreeSlot(slot)
    /\ finished' = finished \cup {cur}
    /\ Leave
    /\ UNCHANGED <<waiting, lost, pos, start, slab, output>>

Next ==
    \/ StepBegin \/ UpdateLayer \/ PrefillRaises \/ DecodeRaises \/ TokenAccepted \/ Complete
    \/ \E r \in Reqs : AddRequest(r)

Spec == Init /\ [][Next]_vars

-----------------------------------------------------------------------------
(* The slots stats() counts. *)
LiveSlots == {s \in Slots : live[s] # NoReq}

(* Requests whose prompt alone does not fit a slot. *)
TooLong == {r \in Reqs : PromptLen[r] > MaxSeqLen}

(* "Freeing must happen on every path" (step): between steps every slot is on
   the free list once, or belongs to a request whose prefill raised; nothing
   else keeps a slot, whatever failed before. *)
SlotsReturned ==
    pc = "idle" =>
        /\ \A s \in LiveSlots : live[s] \in lost \cap TooLong
        /\ ToSet(free) = Slots \ LiveSlots
        /\ Len(free) + Cardinality(LiveSlots) = NumSlots

(* A slot is reused as it is, and every layer of a pass must land at one
   offset: what attention reads in any layer after a pass, the first _pos
   entries of the slot, are the request's own tokens in order. *)
ReadsOwnSlot ==
    pc = "sample" =>
        /\ pos[cur] = PromptLen[cur] + output[cur]
        /\ \A l \in Layers, p \in 1 .. pos[cur] : slab[l][slot][p] = <<cur, p>>
=============================================================================
