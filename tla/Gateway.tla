------------------------------ MODULE Gateway ------------------------------
(***************************************************************************)
(* One request's way through the router and the replicas: ServeGenerate,   *)
(* stream and attempt of src/router/proxy.go over the Ring and the         *)
(* RateLimiter, and Generate, _follow and Drain of src/engine/replica.py   *)
(* at the other end.                                                       *)
(*                                                                         *)
(* A token is its position in the generation: the token that continues     *)
(* exactly the first n tokens is n + 1, and what continues any other       *)
(* context is Junk.  A token of Halves ends in the middle of a character.  *)
(* The engine's production of a token, its way through the stream and the  *)
(* router's forwarding of it are one step; a connection that breaks loses  *)
(* what the engine went on to produce.  Generations end by length.         *)
(***************************************************************************)
EXTENDS Ring, RateLimiter

CONSTANTS Requests,      \* client requests
          IdOf,          \* request -> its request_id
          KeyHash,       \* request -> the hash of its prefix key
          MaxTokens,     \* max_tokens of every request
          MaxRetries,    \* Proxy.maxRetries
          Halves,        \* positions whose token leaves a character unfinished
          MaxTime,       \* bound on the clock
          MaxFaults      \* bound on what the environment does to a behaviour

Junk == 0
Ids == {IdOf[q] : q \in Requests}

ASSUME GatewayAssumption ==
    /\ IsFiniteSet(Requests) /\ None \notin Requests
    /\ KeyHash \in [Requests -> 0 .. HashSpace - 1]
    /\ MaxTokens \in Nat \ {0} /\ MaxRetries \in Nat
    /\ MaxTime \in Nat /\ MaxFaults \in Nat

VARIABLES
    pc,          \* request -> where ServeGenerate is
    at,          \* request -> the replica its attempt is on
    tried,       \* request -> the replicas it has picked
    delivered,   \* request -> the token ids the router has forwarded
    text,        \* request -> the tokens whose text the client has
    reserved,    \* request -> what Allow charged for it
    up,          \* the running replica processes
    draining,    \* the replicas that refuse new requests
    gen,         \* replica, id -> the entry of _inflight
    followed,    \* requests answered by _follow
    gifts,       \* tokens refunded to requests that had reserved none
    lost,        \* reservations, or parts of them, that Redis never gave back
    faults       \* what the environment has done so far

reqVars == <<pc, at, tried, delivered, text, followed>>
nodeVars == <<up, draining, gen>>
vars == <<ringVars, limitVars, reqVars, reserved, nodeVars, gifts, lost, faults>>

NoGen == [owner |-> None]

Init ==
    /\ RingInit(Replicas)
    /\ LimitInit
    /\ pc = [q \in Requests |-> "idle"]
    /\ at = [q \in Requests |-> None]
    /\ tried = [q \in Requests |-> {}]
    /\ delivered = [q \in Requests |-> <<>>]
    /\ text = [q \in Requests |-> <<>>]
    /\ reserved = [q \in Requests |-> 0]
    /\ up = Replicas /\ draining = {}
    /\ gen = [r \in Replicas |-> [i \in Ids |-> NoGen]]
    /\ followed = {}
    /\ gifts = 0 /\ lost = 0
    /\ faults = 0

-----------------------------------------------------------------------------
(* The router. *)

Goto(q, where) == pc' = [pc EXCEPT ![q] = where]

(* ServeGenerate up to the call of stream: the reservation. *)
Admit(q) ==
    LET verdict == Verdict(MaxTokens)
    IN  /\ pc[q] = "idle"
        /\ bucket' = Reserved(MaxTokens)
        /\ reserved' = [reserved EXCEPT ![q] = IF verdict = "allowed" THEN MaxTokens ELSE 0]
        /\ Goto(q, IF verdict \in {"allowed", "degraded"} THEN "pick" ELSE "refused")
        /\ UNCHANGED <<ringVars, now, redisUp, at, tried, delivered, text, followed,
                       nodeVars, gifts, lost, faults>>

(* The head of stream's loop: another replica, or the end. *)
CanPick(q) == Cardinality(tried[q]) <= MaxRetries /\ Picks(KeyHash[q], tried[q]) # {}

Pick(q) ==
    /\ pc[q] = "pick" /\ CanPick(q)
    /\ \E r \in Picks(KeyHash[q], tried[q]) :
          /\ load' = Picked(r)
          /\ at' = [at EXCEPT ![q] = r]
          /\ tried' = [tried EXCEPT ![q] = @ \cup {r}]
    /\ Goto(q, "dispatch")
    /\ UNCHANGED <<replicas, points, ready, limitVars, reserved, delivered, text,
                   followed, nodeVars, gifts, lost, faults>>

GiveUp(q) ==
    /\ pc[q] = "pick" /\ ~CanPick(q)
    /\ Goto(q, "settle")
    /\ UNCHANGED <<ringVars, limitVars, at, tried, delivered, text, reserved,
                   followed, nodeVars, gifts, lost, faults>>

(* attempt returned: the replica is released, and the request goes on to where. *)
Leave(q, where) ==
    /\ load' = Released(at[q])
    /\ at' = [at EXCEPT ![q] = None]
    /\ Goto(q, where)
    /\ UNCHANGED <<replicas, points, ready, limitVars, tried, reserved, gifts, lost>>

(* attempt fails before a first chunk: the replica is down, or left the ring and
   the pool dropped its connection. *)
DispatchFails(q) ==
    /\ pc[q] = "dispatch"
    /\ at[q] \notin up \/ at[q] \notin replicas
    /\ Leave(q, "pick")
    /\ UNCHANGED <<delivered, text, followed, nodeVars, faults>>

(* A finish chunk with REJECTED, from a draining replica or from the engine's
   admission control: the client is told, and no other replica is tried. *)
Rejected(q) ==
    /\ pc[q] = "dispatch" /\ at[q] \in up
    /\ \/ at[q] \in draining /\ UNCHANGED faults
       \/ faults < MaxFaults /\ faults' = faults + 1 /\ gen[at[q]][IdOf[q]] = NoGen
    /\ Leave(q, "settle")
    /\ UNCHANGED <<delivered, text, followed, nodeVars>>

(* Generate accepts: the router's ids are its context, and what is left of
   max_tokens is at least one. *)
Accepted(q) ==
    /\ pc[q] = "dispatch" /\ at[q] \in up \ draining
    /\ gen[at[q]][IdOf[q]] = NoGen
    /\ gen' = [gen EXCEPT ![at[q]][IdOf[q]] =
                  [owner |-> q, resume |-> delivered[q], produced |-> <<>>,
                   emitted |-> <<>>, sent |-> 0]]
    /\ Goto(q, "stream")
    /\ UNCHANGED <<ringVars, limitVars, at, tried, delivered, text, reserved,
                   followed, up, draining, gifts, lost, faults>>

(* _follow: the id is in flight here for another call.  What that call has sent
   is replayed, and the finish is CANCELLED. *)
Follow(q) ==
    LET g == gen[at[q]][IdOf[q]]
    IN  /\ pc[q] = "dispatch" /\ at[q] \in up \ draining
        /\ g # NoGen
        /\ delivered' = [delivered EXCEPT ![q] = @ \o g.emitted]
        /\ text' = [text EXCEPT ![q] = @ \o SubSeq(g.produced, 1, g.sent)]
        /\ followed' = followed \cup {q}
        /\ Leave(q, "settle")
        /\ UNCHANGED <<nodeVars, faults>>

(* The deferred refund, on every way out of stream.  Mutant: of the whole
   reservation. *)
UnusedAll(q) == MaxTokens
Unused(q) == MaxTokens - Len(delivered[q])
Settle(q) ==
    LET own == AtMost(Unused(q), reserved[q])
    IN  /\ pc[q] = "settle"
        /\ bucket' = Refunded(Unused(q))
        /\ gifts' = IF redisUp /\ Unused(q) > 0 THEN gifts + Unused(q) - own ELSE gifts
        /\ lost' = IF ~redisUp /\ Unused(q) > 0 THEN lost + own ELSE lost
        /\ Goto(q, "done")
        /\ UNCHANGED <<ringVars, now, redisUp, at, tried, delivered, text, reserved,
                       followed, nodeVars, faults>>

-----------------------------------------------------------------------------
(* The replica's Generate. *)

(* The call that owns the entry is still connected. *)
Serving(r, i) ==
    LET g == gen[r][i]
    IN  g # NoGen /\ pc[g.owner] = "stream" /\ at[g.owner] = r
Connected(q) == at[q] \in replicas /\ gen[at[q]][IdOf[q]].owner = q

(* remaining.  Mutant: max_tokens again, whatever was delivered. *)
RemainingAll(g) == MaxTokens
Remaining(g) ==
    IF MaxTokens - Len(g.resume) < 1 THEN 1 ELSE MaxTokens - Len(g.resume)

(* The token the engine generates after a context. *)
IsTrue(context) == context = [n \in 1 .. Len(context) |-> n]
NextToken(context) == IF IsTrue(context) THEN Len(context) + 1 ELSE Junk

(* The next token: a half character is held back, and otherwise everything held
   back goes out as one piece under the last token's id.  Mutant: the
   replacement replica is given the prompt alone. *)
ContextPromptOnly(g) == g.produced
Context(g) == g.resume \o g.produced

Produce(r, i) ==
    LET g == gen[r][i]
        token == NextToken(Context(g))
        grown == Append(g.produced, token)
    IN  /\ Serving(r, i)
        /\ Len(g.produced) < Remaining(g)
        /\ IF token \in Halves
           THEN /\ gen' = [gen EXCEPT ![r][i].produced = grown]
                /\ UNCHANGED <<delivered, text>>
           ELSE /\ gen' = [gen EXCEPT ![r][i] =
                      [g EXCEPT !.produced = grown, !.sent = Len(grown),
                                !.emitted = Append(@, token)]]
                /\ delivered' = [delivered EXCEPT ![g.owner] = Append(@, token)]
                /\ text' = [text EXCEPT ![g.owner] =
                               @ \o SubSeq(grown, g.sent + 1, Len(grown))]
        /\ UNCHANGED <<ringVars, limitVars, pc, at, tried, reserved, followed,
                       up, draining, gifts, lost, faults>>

(* The finish chunk; the entry stays until the generator's finally has run. *)
Finish(r, i) ==
    LET g == gen[r][i]
    IN  /\ Serving(r, i)
        /\ Len(g.produced) = Remaining(g)
        /\ Leave(g.owner, "settle")
        /\ UNCHANGED <<delivered, text, followed, nodeVars, faults>>

(* finally: cancel, release, and the entry is popped.  Mutant: only after the
   last token. *)
CleanupWhenComplete(r, i) ==
    /\ gen[r][i] # NoGen /\ ~Serving(r, i)
    /\ Len(gen[r][i].produced) = Remaining(gen[r][i])
    /\ gen' = [gen EXCEPT ![r][i] = NoGen]
    /\ UNCHANGED <<ringVars, limitVars, reqVars, reserved, up, draining, gifts, lost, faults>>
Cleanup(r, i) ==
    /\ gen[r][i] # NoGen /\ ~Serving(r, i)
    /\ gen' = [gen EXCEPT ![r][i] = NoGen]
    /\ UNCHANGED <<ringVars, limitVars, reqVars, reserved, up, draining, gifts, lost, faults>>

(* The stream ends without a finish chunk because the process that served it is
   gone or its connection was dropped: stream moves the request on. *)
Broken(q) ==
    /\ pc[q] = "stream" /\ ~Connected(q)
    /\ Leave(q, "pick")
    /\ UNCHANGED <<delivered, text, followed, nodeVars, faults>>

-----------------------------------------------------------------------------
(* The environment: at most MaxFaults of these in a behaviour. *)

Fault == faults < MaxFaults /\ faults' = faults + 1

(* The connection fails with the replica alive, or the client goes away, which
   is not a replica's failure and is not retried. *)
Break(q) ==
    /\ Fault /\ pc[q] = "stream"
    /\ Leave(q, "pick")
    /\ UNCHANGED <<delivered, text, followed, nodeVars>>
Disconnect(q) ==
    /\ Fault /\ pc[q] \in {"dispatch", "stream"}
    /\ Leave(q, "settle")
    /\ UNCHANGED <<delivered, text, followed, nodeVars>>

(* Redis ran the script and its reply was lost: Allow takes this for an outage
   whatever the script found.  The request goes on with its reservation, or
   is turned away and the reservation is never refunded. *)
Unanswered(q) ==
    LET charged == IF Verdict(MaxTokens) = "allowed" THEN MaxTokens ELSE 0
    IN  /\ Fault /\ redisUp /\ pc[q] = "idle"
        /\ bucket' = Reserved(MaxTokens)
        /\ reserved' = [reserved EXCEPT ![q] = IF FailOpen THEN charged ELSE 0]
        /\ lost' = IF FailOpen THEN lost ELSE lost + charged
        /\ Goto(q, IF FailOpen THEN "pick" ELSE "refused")
        /\ UNCHANGED <<ringVars, now, redisUp, at, tried, delivered, text, followed,
                       nodeVars, gifts>>

(* Drain, and the first line of serve's shutdown. *)
Drain(r) ==
    /\ Fault /\ r \in up \ draining
    /\ draining' = draining \cup {r}
    /\ UNCHANGED <<ringVars, limitVars, reqVars, reserved, up, gen, gifts, lost>>

(* The process ends, at the end of the grace period or without one, and may be
   started again. *)
Down(r) ==
    /\ Fault /\ r \in up
    /\ up' = up \ {r} /\ draining' = draining \ {r}
    /\ gen' = [gen EXCEPT ![r] = [i \in Ids |-> NoGen]]
    /\ UNCHANGED <<ringVars, limitVars, reqVars, reserved, gifts, lost>>
Restart(r) ==
    /\ Fault /\ r \notin up
    /\ up' = up \cup {r}
    /\ UNCHANGED <<ringVars, limitVars, reqVars, reserved, draining, gen, gifts, lost>>

(* The reconciler and the health checker, which Fleet models. *)
Membership(r) ==
    /\ Fault
    /\ Add(r) \/ Remove(r) \/ SetReady(r, r \notin ready)
    /\ UNCHANGED <<limitVars, reqVars, reserved, nodeVars, gifts, lost>>

Clock ==
    /\ \/ Tick /\ now < MaxTime /\ UNCHANGED faults
       \/ RedisFlip /\ Fault
    /\ UNCHANGED <<ringVars, reqVars, reserved, nodeVars, gifts, lost>>

Step(q) ==
    \/ Admit(q) \/ Pick(q) \/ GiveUp(q) \/ DispatchFails(q) \/ Rejected(q)
    \/ Accepted(q) \/ Follow(q) \/ Broken(q) \/ Settle(q)

Next ==
    \/ \E q \in Requests : Step(q) \/ Break(q) \/ Disconnect(q) \/ Unanswered(q)
    \/ \E r \in Replicas : \E i \in Ids : Produce(r, i) \/ Finish(r, i) \/ Cleanup(r, i)
    \/ \E r \in Replicas : Drain(r) \/ Down(r) \/ Restart(r) \/ Membership(r)
    \/ Clock

(* While a handler or a generator can go on, one of them does: engines produce
   tokens, and gRPC's keepalive notices a replica that is gone. *)
Progress ==
    \/ \E q \in Requests : Step(q) /\ pc[q] # "idle"
    \/ \E r \in Replicas : \E i \in Ids : Produce(r, i) \/ Finish(r, i) \/ Cleanup(r, i)

Spec == Init /\ [][Next]_vars /\ WF_vars(Progress)

-----------------------------------------------------------------------------
(* Properties. *)

InFlight(r) == {q \in Requests : at[q] = r}

(* A replica is never counted busier than it is, however retries, failures and
   removals interleave: a counted request is one in flight (ring.go, Release by
   id).  A phantom load would lower its share of the traffic for ever. *)
NoPhantomLoad == \A r \in replicas : load[r] <= Cardinality(InFlight(r))

(* A request on its first attempt always finds a ready replica under the cap
   (the pigeonhole argument of the package comment, ring.go:22). *)
FirstAttemptUnderCap == ready # {} => UnderCap # {}

(* What the client has is one unbroken generation, across any number of
   migrations: no token twice, none missing, none made up from a context that is
   not what came before (resume_tokens).  Requests answered by _follow are not
   promised this: they get what another call has sent since it migrated. *)
UnbrokenStream == \A q \in Requests \ followed : IsTrue(text[q])

(* A request that already had all its tokens when its replica died gets at most
   one more from each further attempt (remaining is at least one). *)
OverrunBounded ==
    \A q \in Requests \ followed :
        delivered[q] = <<>> \/ Len(delivered[q]) < MaxTokens + Cardinality(tried[q])

(* What the client has used of each bucket: a request costs one and its
   reservation, and once it is settled the tokens that were delivered. *)
Paying == {q \in Requests : reserved[q] > 0}
Cost(q) == IF pc[q] = "done" THEN AtMost(Len(delivered[q]), MaxTokens) ELSE MaxTokens
TokenUnits == {u \in Paying \X (1 .. MaxTokens) : u[2] <= Cost(u[1])}
Used == [req |-> Cardinality(Paying), tok |-> Cardinality(TokenUnits)]

(* Whatever requests, refusals, refunds, idle expiry and outages do, a client
   uses no more than its burst plus what refilled, but for refunds to requests
   that were let in while Redis was away and had reserved nothing. *)
WithinBudget ==
    \A b \in Buckets : Used[b] + Level(b) <= Cap[b] + Rate[b] * now + gifts

(* And it pays for nothing else: a refused request costs neither bucket
   anything, and what a stream did not use comes back, but for refunds that
   never reached Redis and, where the limiter fails closed, for reservations
   whose reply never reached the router. *)
NoOvercharge == \A b \in Buckets : Used[b] + lost + Level(b) >= Cap[b]

(* Every request that was let in ends and is settled, whatever happens to its
   replicas, and no entry of _inflight outlives its call: a leaked one would
   answer every later retry of the id with a stale replay. *)
Quiesces ==
    <>[](/\ \A q \in Requests : pc[q] \in {"idle", "refused", "done"}
         /\ \A r \in Replicas : \A i \in Ids : gen[r][i] = NoGen)
=============================================================================
