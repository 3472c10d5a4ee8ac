----------------------------- MODULE Scheduler -----------------------------
(***************************************************************************)
(* ContinuousBatchingEngine of src/engine/scheduler.py: iteration-level    *)
(* scheduling over the paged pool and the prefix cache.                    *)
(*                                                                         *)
(* Two threads act.  The engine thread runs step(): apply cancellations,   *)
(* admit and prefill, one decode pass, accept the sampled tokens.  Its     *)
(* place in step() is pc; each method it calls on the pool or the prefix   *)
(* cache is one action, so the event loop's calls (add_request,            *)
(* request_cancel) fall between any two of them.  Sampling is a choice     *)
(* among the tokens of Outputs.  Requests and their caches share names: a  *)
(* request has at most one cache.                                          *)
(***************************************************************************)
EXTENDS PrefixCache

CONSTANTS Job,              \* request -> [prompt, maxTokens, ignoreEos, deadline]
          Outputs,          \* the tokens sampling may return
          Eos,              \* eos_token_id
          MaxBatch,         \* max_batch_size
          ReserveBlocks,    \* reserve_blocks
          MaxQueueDepth,    \* AdmissionConfig.max_queue_depth
          MinObservations,  \* AdmissionConfig.min_observations
          Impatient         \* the requests whose client may hang up, once

Requests == Caches
NoRequest == "none"
Prompt(r) == Job[r].prompt

ASSUME JobAssumption ==
    \A r \in Requests :
        /\ Prompt(r) \in Prompts
        /\ Job[r].maxTokens \in 1 .. MaxTokens - Len(Prompt(r))
        /\ Job[r].ignoreEos \in BOOLEAN
        /\ Job[r].deadline \in BOOLEAN
ASSUME LimitsAssumption ==
    /\ MaxBatch \in Nat \ {0}
    /\ {ReserveBlocks, MaxQueueDepth, MinObservations} \subseteq Nat
    /\ Outputs \subseteq Tokens
    /\ NoRequest \notin Requests

VARIABLES
    pc,           \* where the engine thread is in step()
    waiting,      \* the queue
    running,      \* the batch, oldest first
    admitted,     \* _admit's local list
    cur,          \* the request _admit is prefilling
    wanted,       \* apply_cancellations' local copy of the cancelled ids
    idx,          \* the batch position of the loops of _prepare and step
    still,        \* step's still_running
    cancels,      \* _cancel_requested
    hungUp,       \* requests the event loop has asked to cancel
    submitted,    \* requests add_request has seen
    output,       \* request -> output_token_ids
    reason,       \* request -> finish_reason
    outcomes,     \* request -> times _record_finished was called for it
    observed      \* decode steps recorded by the admission controller, capped

engineVars == <<pc, waiting, running, admitted, cur, wanted, idx, still>>
loopVars == <<hungUp, submitted>>
resultVars == <<output, reason, outcomes>>
schedVars == <<pcVars, engineVars, loopVars, resultVars, cancels, observed>>

ToSet(s) == {s[i] : i \in 1 .. Len(s)}

(* list.remove: the entry goes, the others keep their order. *)
Without(s, r) ==
    LET i == CHOOSE j \in 1 .. Len(s) : s[j] = r
    IN  SubSeq(s, 1, i - 1) \o SubSeq(s, i + 1, Len(s))

Init ==
    /\ CacheInit
    /\ pc = "idle"
    /\ waiting = <<>> /\ running = <<>> /\ admitted = <<>> /\ still = <<>>
    /\ cur = NoRequest
    /\ wanted = {} /\ cancels = {} /\ hungUp = {} /\ submitted = {}
    /\ idx = 0
    /\ output = [r \in Requests |-> <<>>]
    /\ reason = [r \in Requests |-> "none"]
    /\ outcomes = [r \in Requests |-> 0]
    /\ observed = 0

(* request.finish and _record_finished. *)
Finish(r, why) ==
    /\ reason' = [reason EXCEPT ![r] = why]
    /\ outcomes' = [outcomes EXCEPT ![r] = @ + 1]

-----------------------------------------------------------------------------
(* The event loop's calls. *)

(* AdmissionController.admit: the queue-depth gate first, then, once enough
   steps were observed, the projection against the request's deadline.  Time
   is not modelled, so the projection may come out either way. *)
QueueFull == Len(waiting) >= MaxQueueDepth
DeadlineGate(r) == Job[r].deadline /\ observed >= MinObservations

AddRequest(r) ==
    /\ r \notin submitted
    /\ submitted' = submitted \cup {r}
    /\ \/ /\ ~QueueFull
          /\ waiting' = Append(waiting, r)
          /\ UNCHANGED <<reason, outcomes>>
       \/ /\ QueueFull \/ DeadlineGate(r)
          /\ Finish(r, "rejected")
          /\ UNCHANGED waiting
    /\ UNCHANGED <<pcVars, pc, running, admitted, cur, wanted, idx, still, hungUp,
                   cancels, output, observed>>

(* request_cancel: recorded only. *)
RequestCancel(r) ==
    /\ r \in (submitted \cap Impatient) \ hungUp
    /\ cancels' = cancels \cup {r}
    /\ hungUp' = hungUp \cup {r}
    /\ UNCHANGED <<pcVars, engineVars, submitted, resultVars, observed>>

-----------------------------------------------------------------------------
(* step(): apply_cancellations. *)

HasWork == waiting # <<>> \/ running # <<>>

(* Mutant: only running requests are looked up. *)
StepBeginRunningOnly ==
    /\ pc = "idle" /\ HasWork
    /\ pc' = "cancel"
    /\ wanted' = cancels \cap ToSet(running)
    /\ cancels' = {}
    /\ UNCHANGED <<pcVars, waiting, running, admitted, cur, idx, still, loopVars,
                   resultVars, observed>>

StepBegin ==
    /\ pc = "idle" /\ HasWork
    /\ pc' = "cancel"
    /\ wanted' = cancels
    /\ cancels' = {}
    /\ UNCHANGED <<pcVars, waiting, running, admitted, cur, idx, still, loopVars,
                   resultVars, observed>>

(* The idle path of the server's loop: nothing runs, the ids are dropped. *)
IdleCancel ==
    /\ pc = "idle" /\ ~HasWork /\ cancels # {}
    /\ cancels' = {}
    /\ UNCHANGED <<pcVars, engineVars, loopVars, resultVars, observed>>

(* Mutant: the cancelled sequence keeps its blocks. *)
CancelRunningLeaks(r) ==
    /\ pc = "cancel" /\ r \in wanted /\ r \in ToSet(running)
    /\ Finish(r, "cancelled")
    /\ running' = Without(running, r)
    /\ UNCHANGED <<pcVars, pc, waiting, admitted, cur, wanted, idx, still, loopVars,
                   output, cancels, observed>>

CancelRunning(r) ==
    /\ pc = "cancel" /\ r \in wanted /\ r \in ToSet(running)
    /\ Release(r)
    /\ Finish(r, "cancelled")
    /\ running' = Without(running, r)
    /\ UNCHANGED <<pc, waiting, admitted, cur, wanted, idx, still, loopVars, output,
                   cancels, observed>>

(* Mutant: the cancelled request stays queued. *)
CancelWaitingKeepsEntry(r) ==
    /\ pc = "cancel" /\ wanted \cap ToSet(running) = {}
    /\ r \in wanted /\ r \in ToSet(waiting)
    /\ Finish(r, "cancelled")
    /\ UNCHANGED <<pcVars, pc, waiting, running, admitted, cur, wanted, idx, still,
                   loopVars, output, cancels, observed>>

CancelWaiting(r) ==
    /\ pc = "cancel" /\ wanted \cap ToSet(running) = {}
    /\ r \in wanted /\ r \in ToSet(waiting)
    /\ waiting' = Without(waiting, r)
    /\ Finish(r, "cancelled")
    /\ UNCHANGED <<pcVars, pc, running, admitted, cur, wanted, idx, still, loopVars,
                   output, cancels, observed>>

CancelDone ==
    /\ pc = "cancel" /\ wanted \cap (ToSet(running) \cup ToSet(waiting)) = {}
    /\ pc' = "admit"
    /\ wanted' = {}
    /\ UNCHANGED <<pcVars, waiting, running, admitted, cur, idx, still, loopVars,
                   resultVars, cancels, observed>>

-----------------------------------------------------------------------------
(* step(): _admit. *)

BatchSize == Len(running) + Len(admitted)
MayAdmit == waiting # <<>> /\ BatchSize < MaxBatch

BlocksNeeded(r) == CeilDiv(Len(Prompt(r)), BlockSize)
Headroom == IF ReserveBlocks > BatchSize + 1 THEN ReserveBlocks ELSE BatchSize + 1
AdmitTarget(r) == BlocksNeeded(r) + 1 + Headroom

(* ensure_free evicts cached prefixes for the head of the queue. *)
AdmitEvict ==
    /\ pc = "admit" /\ MayAdmit
    /\ EnsureFree(AdmitTarget(Head(waiting)))
    /\ UNCHANGED <<engineVars, loopVars, resultVars, cancels, observed>>

(* The loop ends: nothing to admit, or no room even after eviction. *)
AdmitEnd ==
    /\ pc = "admit"
    /\ \/ ~MayAdmit
       \/ MayAdmit /\ NumFree < AdmitTarget(Head(waiting)) /\ Evictable = {}
    /\ running' = running \o admitted
    /\ admitted' = <<>>
    /\ pc' = IF running' = <<>> THEN "idle" ELSE "decode"
    /\ UNCHANGED <<pcVars, waiting, cur, wanted, idx, still, loopVars, resultVars,
                   cancels, observed>>

(* "the pool could never hold this request even when empty": tested once the
   blocks are free, so it never is: such a request blocks the queue. *)
NeverFits(r) == BatchSize = 0 /\ AdmitTarget(r) > Cardinality(Blocks)

(* The blocks are there: the head of the queue gets a cache, or is rejected.
   pool.allocate cannot return None, since a block is free. *)
AdmitStart ==
    /\ pc = "admit" /\ MayAdmit
    /\ NumFree >= AdmitTarget(Head(waiting))
    /\ waiting' = Tail(waiting)
    /\ LET r == Head(waiting)
       IN  IF NeverFits(r)
           THEN Finish(r, "rejected") /\ UNCHANGED <<pcVars, cur, pc>>
           ELSE /\ Open(r) /\ cur' = r /\ pc' = "match"
                /\ UNCHANGED <<reason, outcomes>>
    /\ UNCHANGED <<running, admitted, wanted, idx, still, loopVars, output, cancels, observed>>

(* _prefill: match and attach, the model over the suffix, insert. *)
PrefillMatch ==
    /\ pc = "match"
    /\ Match(cur, Prompt(cur))
    /\ pc' = "prefill"
    /\ UNCHANGED <<waiting, running, admitted, cur, wanted, idx, still, loopVars,
                   resultVars, cancels, observed>>

PrefillModel ==
    /\ pc = "prefill"
    /\ Prefill(cur)
    /\ pc' = "insert"
    /\ UNCHANGED <<waiting, running, admitted, cur, wanted, idx, still, loopVars,
                   resultVars, cancels, observed>>

(* If the model met an empty pool, _admit's handler gives the request up. *)
PrefillInsert ==
    /\ pc = "insert"
    /\ IF status[cur] = "failed"
       THEN /\ Release(cur) /\ Finish(cur, "preempted")
            /\ cur' = NoRequest /\ pc' = "admit"
       ELSE Insert(cur) /\ pc' = "first" /\ UNCHANGED <<cur, reason, outcomes>>
    /\ UNCHANGED <<waiting, running, admitted, wanted, idx, still, loopVars, output,
                   cancels, observed>>

(* _accept_token: an end-of-sequence token is not recorded; the budget is. *)
StopsAt(r, t) == t = Eos /\ ~Job[r].ignoreEos

Accept(r, t) ==
    IF StopsAt(r, t)
    THEN UNCHANGED output
    ELSE output' = [output EXCEPT ![r] = Append(@, t)]

Finished(r, t) == StopsAt(r, t) \/ Len(output[r]) + 1 >= Job[r].maxTokens
FinishWhy(r, t) == IF StopsAt(r, t) THEN "eos" ELSE "length"

(* The token sampled from the prefill; a request may end right there. *)
FirstToken(t) ==
    /\ pc = "first"
    /\ Accept(cur, t)
    /\ IF Finished(cur, t)
       THEN Release(cur) /\ Finish(cur, FinishWhy(cur, t)) /\ UNCHANGED admitted
       ELSE admitted' = Append(admitted, cur) /\ UNCHANGED <<pcVars, reason, outcomes>>
    /\ cur' = NoRequest
    /\ pc' = "admit"
    /\ UNCHANGED <<waiting, running, wanted, idx, still, loopVars, cancels, observed>>

-----------------------------------------------------------------------------
(* step(): the decode pass. *)

(* Mutant: only the copies are counted. *)
NeedsBlockForCopy(r) == CopiesTail(r)

NeedsBlock(r) == numTokens[r] % BlockSize = 0 \/ CopiesTail(r)
DecodeNeed == Cardinality({r \in ToSet(running) : NeedsBlock(r)})

(* _prepare counts before it commits. *)
DecodeBegin ==
    /\ pc = "decode" /\ DecodeNeed <= NumFree
    /\ pc' = "grow"
    /\ idx' = 1
    /\ UNCHANGED <<pcVars, waiting, running, admitted, cur, wanted, still, loopVars,
                   resultVars, cancels, observed>>

(* Mutant: the victim keeps its partial output. *)
PreemptKeepsOutput ==
    /\ pc = "decode" /\ DecodeNeed > NumFree
    /\ LET victim == running[Len(running)]
       IN  /\ Release(victim)
           /\ running' = SubSeq(running, 1, Len(running) - 1)
           /\ waiting' = <<victim>> \o waiting
    /\ pc' = "idle"
    /\ UNCHANGED <<admitted, cur, wanted, idx, still, loopVars, resultVars, cancels,
                   observed>>

(* Mutant: the victim is not put back on the queue. *)
PreemptDropsVictim ==
    /\ pc = "decode" /\ DecodeNeed > NumFree
    /\ LET victim == running[Len(running)]
       IN  /\ Release(victim)
           /\ running' = SubSeq(running, 1, Len(running) - 1)
           /\ output' = [output EXCEPT ![victim] = <<>>]
    /\ pc' = "idle"
    /\ UNCHANGED <<waiting, admitted, cur, wanted, idx, still, loopVars, reason,
                   outcomes, cancels, observed>>

(* _preempt_newest: the last admitted goes back to the head of the queue and
   loses its output; step() returns. *)
Preempt ==
    /\ pc = "decode" /\ DecodeNeed > NumFree
    /\ LET victim == running[Len(running)]
       IN  /\ Release(victim)
           /\ running' = SubSeq(running, 1, Len(running) - 1)
           /\ waiting' = <<victim>> \o waiting
           /\ output' = [output EXCEPT ![victim] = <<>>]
    /\ pc' = "idle"
    /\ UNCHANGED <<admitted, cur, wanted, idx, still, loopVars, reason, outcomes,
                   cancels, observed>>

(* Each sequence of the batch feeds the last token it accepted; the step is
   then recorded by the admission controller (record_step).  NeverRaisesMidway
   shows that no Decode here raises, so the handler is not entered half-way. *)
Grow ==
    /\ pc = "grow"
    /\ LET r == running[idx] IN Decode(r, output[r][Len(output[r])])
    /\ IF idx < Len(running)
       THEN idx' = idx + 1 /\ UNCHANGED <<pc, observed>>
       ELSE /\ idx' = 1 /\ pc' = "sample"
            /\ observed' = IF observed < MinObservations THEN observed + 1 ELSE observed
    /\ UNCHANGED <<waiting, running, admitted, cur, wanted, still, loopVars, resultVars,
                   cancels>>

(* One sampled token per sequence, in batch order; finished ones retire. *)
Sample(t) ==
    /\ pc = "sample" /\ idx <= Len(running)
    /\ LET r == running[idx]
       IN  /\ Accept(r, t)
           /\ IF Finished(r, t)
              THEN Release(r) /\ Finish(r, FinishWhy(r, t)) /\ UNCHANGED still
              ELSE still' = Append(still, r) /\ UNCHANGED <<pcVars, reason, outcomes>>
    /\ idx' = idx + 1
    /\ UNCHANGED <<pc, waiting, running, admitted, cur, wanted, loopVars, cancels, observed>>

StepEnd ==
    /\ pc = "sample" /\ idx > Len(running)
    /\ running' = still
    /\ still' = <<>>
    /\ idx' = 0
    /\ pc' = "idle"
    /\ UNCHANGED <<pcVars, waiting, admitted, cur, wanted, loopVars, resultVars, cancels,
                   observed>>

EngineStep ==
    \/ StepBegin \/ IdleCancel \/ CancelDone
    \/ \E r \in Requests : CancelRunning(r) \/ CancelWaiting(r)
    \/ AdmitEvict \/ AdmitEnd \/ AdmitStart
    \/ PrefillMatch \/ PrefillModel \/ PrefillInsert
    \/ DecodeBegin \/ Preempt \/ Grow \/ StepEnd
    \/ \E t \in Outputs : FirstToken(t) \/ Sample(t)

Next ==
    \/ EngineStep
    \/ \E r \in Requests : AddRequest(r) \/ RequestCancel(r)

Spec == Init /\ [][Next]_schedVars

(* The server's loop keeps calling step(); clients promise nothing. *)
FairSpec == Spec /\ WF_schedVars(EngineStep)

-----------------------------------------------------------------------------
Reasons == {"none", "eos", "length", "cancelled", "rejected", "preempted"}

TypeOK ==
    /\ CacheTypeOK
    /\ pc \in {"idle", "cancel", "admit", "match", "prefill", "insert", "first",
               "decode", "grow", "sample"}
    /\ {waiting, running, admitted, still} \subseteq Seq(Requests)
    /\ cur \in Requests \cup {NoRequest}
    /\ {wanted, cancels, hungUp, submitted} \subseteq SUBSET Requests
    /\ idx \in 0 .. MaxBatch + 1
    /\ output \in [Requests -> Seq(Outputs)]
    /\ reason \in [Requests -> Reasons]
    /\ observed \in 0 .. MinObservations

Count(s, r) == Cardinality({i \in 1 .. Len(s) : s[i] = r})
Places(r) ==
    Count(waiting, r) + Count(running, r) + Count(admitted, r) + (IF cur = r THEN 1 ELSE 0)

(* A request the engine took is, until it has an outcome, in exactly one of
   the queue, the batch and _admit's hands; afterwards in none (step() leaves
   retired sequences in `running` until it replaces the list).  A request in
   two places is generated twice, one in none is lost without an outcome. *)
OnePlace ==
    \A r \in Requests :
        IF r \in submitted /\ reason[r] = "none" THEN Places(r) = 1
        ELSE Places(r) = 0 \/ pc = "sample"

(* "Single place a request becomes an outcome" (_record_finished): exactly
   one outcome per finished request, whatever cancellation, preemption,
   rejection and completion do to it in whatever order. *)
OutcomeOnce ==
    \A r \in Requests : outcomes[r] = IF reason[r] = "none" THEN 0 ELSE 1

(* "A cancelled generation that keeps its blocks is the classic serving leak"
   (apply_cancellations): only a request in the batch or in _admit's hands
   has a cache.  With AllRefsOwned, an engine without a batch holds no block
   except the ones the prefix cache can evict. *)
OnlyBatchHoldsBlocks ==
    \A r \in Requests :
        status[r] # "closed" =>
            reason[r] = "none" /\ r \in ToSet(running) \cup ToSet(admitted) \cup {cur}

(* What attention reads for a sequence is its own prompt and its own output,
   all but the last token, in order: across block sharing, eviction,
   preemption and re-admission, between any two decode passes. *)
FeedsOwnTranscript ==
    \A r \in ToSet(running) \cup ToSet(admitted) :
        pc \notin {"grow", "sample"} =>
            LET fed == Prompt(r) \o SubSeq(output[r], 1, Len(output[r]) - 1)
            IN  Gather(r) = [p \in 1 .. Len(fed) |-> SubSeq(fed, 1, p)]

(* "So count first, commit second" (_prepare), and the reserve of _admit: no
   forward pass ever meets an empty pool half-way, neither a decode that grew
   some of its sequences nor a prefill. *)
NeverRaisesMidway == \A r \in Requests : status[r] # "failed"

(* No cancellation is dropped: a request the event loop asked to cancel has an
   outcome, or its id is still queued or in the hands of apply_cancellations,
   even when the call falls in the middle of its own prefill, of a step that
   preempts it, or of another cancellation. *)
CancelTakesEffect ==
    \A r \in hungUp : reason[r] # "none" \/ r \in cancels \cup wanted

(* "A pool too small for the offered load must still complete everything ...
   so every request still finishes" (tests/test_scheduler.py:291). *)
EveryRequestFinishes ==
    \A r \in Requests : r \in submitted ~> reason[r] # "none"
=============================================================================
