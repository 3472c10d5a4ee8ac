# nanoserve: TLA+ models and proofs

nanoserve is an LLM inference server: a PyTorch engine with a paged KV cache, a
content-addressed prefix cache and iteration-level (continuous) batching behind an
HTTP or gRPC transport, and a Go router that spreads requests over replicas, migrates
streams whose replica died, limits rates and scales the fleet. Beside them are the tools
that train the model it serves and a chaos suite that breaks a real cluster. This directory
models the engine, its transports, the router, the control loops around them, the training
pipeline and the chaos suite, checks the models with TLC and proves their safety with TLAPS,
but for what recursive operators compute.

## Inventory

| part | state | operations | what is hard | what makes it correct |
|---|---|---|---|---|
| Block allocator (`engine/block_manager.py`) | LIFO free list, a count per block | allocate, allocate_many, incref, decref | a slip shows many calls later, as two owners of one block | list and counts agree; a block is handed out only when nobody references it |
| Paged KV cache (`block_manager.py`) | block table, token count, slots per sequence; the pool's tensors | update (copy-on-write, growth, scatter, gather), fork, free | sharing of half-full tails; OutOfBlocks in mid-update | counts equal table entries; a gather returns the sequence's own context; attention cannot tell it from a contiguous cache |
| Prefix cache (`engine/prefix_cache.py`) | entries by chained hash, index by block, LRU clock | match, attach, insert, evict, ensure_free, clear | references move between owners; blocks outlive their writers | every reference has an owner; a cached block holds the prefix of its key |
| Scheduler (`engine/scheduler.py`) | queue, batch, pending cancellations, emitted tokens, outcomes | step (cancel, admit, prefill, decode, preempt, retire), add_request, request_cancel | the event loop calls in while a step runs in a worker thread; memory pressure | one place and one outcome per request; no leaked block; no pass that fails half-way; every request finishes |
| Admission controller (`engine/admission.py`) | recent step times, counters | record_step, admit | estimates | queue bound; no deadline rejection before warm-up |
| Async engine and HTTP server (`engine/server.py`) | stream per request, engine task | submit, cancel, _run, _fanout, _token_stream | two threads on one deque, drains in two parts, timeouts | a stream carries every token once; it ends, and its request leaves the engine |
| gRPC replica (`engine/replica.py`) | calls in flight, drain flag | Generate with resume, follow, Health, Drain, shutdown | half characters, duplicates of a running id | a resumed stream continues exactly; no entry outlives its call |
| Registration (`engine/discovery.py`) | lease, keep-alive thread | start, renew, announce, stop | a late announce after stop, leases that lapse | registered while it runs, and in the end not when it does not |
| Ring (`router/ring.go`) | virtual nodes, readiness, load per replica | Add, Remove, SetReady, PickExcluding, Release | release after remove and re-add; caps at the limit | no phantom load; some replica under the cap; the nearest ready point owns a key |
| Proxy (`router/proxy.go`) | tokens forwarded, replicas tried, reservation | ServeGenerate, stream, attempt | replica death in mid-stream, retry | a client sees each token once; reservations settle once |
| Registry, health, etcd (`router/registry.go`, `etcd.go`, `client.go`) | ready sets, failure counts, snapshots | checkOne, apply, reap, consume, send | snapshot races, replay, bounded channel | the ring converges to the live set and never gives up a replica that answers |
| Election, autoscaler, executor (`router/election.go`, `autoscaler.go`, `executor.go`) | session, samples, processes | campaign, Decide, Scale | an expired leader still acting; processes that die | the policy's range, sustained scale-downs, one leader again, rest |
| Rate limiter (`router/ratelimit.go`) | two buckets per client | allow, refund | Redis away between reserve and refund; expiry | burst plus refill is never exceeded, and nothing unused is charged |
| Static batching baseline (`engine/kv_cache.py`, `baseline.py`) | slots, positions, slab | step, update, free | exceptions between allocate and free; reuse of a dirty slot | slots come back; a request reads its own entries |
| Tokenizer (`model/tokenizer.py`) | words as ids, counts of pairs, an index from pairs to words, merges | train, encode, decode | counts patched word by word; ties; overlapping pairs | counts are those of the rewritten corpus; encoding cuts as training did |
| Corpus (`model/train/data.py`, `scripts/prepare_data.py`) | chunk in hand, buffer, two files of tokens | stream_documents, prepare | separators and stories that straddle chunks and the split | whole documents, in order, each in one file at most |
| Training (`model/train/train.py`, `scripts/train.py`) | weights, moments, generators, checkpoints, `best.pt` | launch, fit, evaluate, save, prune | a crash between any two steps, one in mid-save included | a resumed run is the run that never stopped; the best model survives; few steps are lost |
| Chaos suite (`bench/chaos/`, `scripts/chaos.py`) | load threads and their outcomes, processes, containers, a fault proxy | seven scenarios with their finally clauses | verdicts read from a list other threads append to; a step that fails half-way | green means no client reported a failure; nothing is left for the next scenario |

Calls: the server's event loop calls `add_request` and `request_cancel`, and runs
`step()` in a worker thread. `step()` calls the prefix cache and the pool, and both use
the allocator. The router calls replicas over gRPC; replicas and routers meet in etcd,
routers and their clients' budgets in Redis, controllers in etcd's election keys. The
trainer's checkpoints are what the replicas load; the chaos suite starts replicas, a router
and an autoscaler as processes and meets them only through their ports.
`PROJECT.json` lists every component with what is left out of it, and the hazards with
the line where each bites and the properties about it.

## Modules

| module | models | composes |
|---|---|---|
| `BlockPool` | abstract pool: counts only, a block is free when its count is zero | |
| `BlockAllocator` | the allocator: free list and counts | implements `BlockPool` |
| `BlockAllocator_proofs` | theorems, for every pool size | extends `BlockAllocator` |
| `ContiguousKV` | abstract KV cache: each sequence reads its own entries in order | |
| `PagedKV` | pool and block tables: allocate, update, fork, free | uses the pool's promise; implements `ContiguousKV` |
| `PrefixCache` | match/attach, prefill, insert, evict, ensure_free, clear | extends `PagedKV` |
| `PrefixCache_proofs` | theorems on `PagedKV` (counts, what sequences read, the refinement) and on the cached blocks | extends `PrefixCache` |
| `Scheduler` | `step()` in its parts, and the event loop's calls | extends `PrefixCache` |
| `Scheduler_proofs` | theorems on the whole engine's invariants | extends `Scheduler`, `PrefixCache_proofs` |
| `AsyncEngine` | event loop against step thread, streams and connections | a small engine of its own |
| `Baseline` | the sequential engine on contiguous slots | |
| `Ring` | consistent hashing with bounded loads | |
| `RateLimiter` | the buckets of one client in Redis | |
| `Gateway` | requests through router and replicas, with migration, retry and settlement | extends `Ring` and `RateLimiter` |
| `Registration` | a replica's key in etcd under a lease | |
| `Fleet` | etcd watch, reconciler, health checker and pool keep the ring | extends `Ring` and `Registration` |
| `Autoscaler` | election, Decide, Run and both executors | |
| `AsyncEngine_proofs`, `Baseline_proofs`, `Autoscaler_proofs` | theorems on these modules' invariants | each extends its module |
| `Router_proofs` | theorems on the gateway, the ring and the fleet | extends `Gateway` and `Fleet` |
| `Tokenizer` | byte-pair training with its incremental counts, encode, decode | |
| `Corpus` | a text cut into two files of tokens, chunk by chunk | extends `Tokenizer` |
| `Trainer` | the training loop, its files, crashes and resumption | |
| `Training` | from the corpus to the trained model | extends `Corpus` and `Trainer` |
| `Chaos` | the chaos suite beside its own load | |
| `Offline_proofs` | theorems on training and on the chaos suite | extends `Trainer` and `Chaos` |
| `MC...` | instances for TLC | |

### How state and actions correspond to the code

`BlockAllocator`: `free` is `_free` with its top at the end, `refs` is `_refs`. `incref`
and `decref` raise on a free block before they change anything; the model has them as
guards. `MaxRefs` bounds the counts.

`PagedKV`: `table`, `numTokens` are `block_table`, `num_tokens`; `_slots` is the device
image of the table and is the function `Slot`. A slot stores the *context* of the token
written there (the tokens up to and including it), because K and V of a token depend on
all tokens before it: two histories never compare equal. `text` is a history variable,
the tokens fed through the cache. `update` is one action on layer 0 (`UpdateFits`), since
all layers write the same slots; `UpdateRaises` is the same call when the pool runs dry,
with the copy and the blocks already obtained left in place. A block nobody references
holds `Garbage`: no operation may depend on it, so `free` forgets it. The allocator is
used through `BlockPool`: any free block may be returned (`AnyBlock = TRUE`). Runs of the
whole engine fix the choice (`AnyBlock = FALSE`), as blocks are uniform.

`PrefixCache`: `entries`, `byBlock` are `_entries` and `_by_block`. A key is the token
prefix it hashes, which takes Python's `hash` of the chained tuples to be free of
collisions. `last_used` values come from a counter and are distinct, so only their order
is kept, in `lru`. `Match` is `match` followed by `attach` (nothing can come between).
`Insert` is the whole loop of `insert`. `EnsureFree(n)` is the loop of `ensure_free`: its
first `evict` asks for what is missing, and if it gets less, nothing evictable is left.

`Scheduler`: `pc` is where the worker thread is in `step()`; each call into the pool or
the prefix cache is one action, and the event loop's `AddRequest` and `RequestCancel` fall
between any two. `still` is `still_running`, `admitted` and `cur` are locals of `_admit`,
`wanted` of `apply_cancellations`. Sampling is a choice of `Outputs`. Time is not
modelled: once warm, a request with a deadline may be rejected or not. Two branches of
`_admit` are kept although no run enters them: the rejection of a request that never fits
(tested after the blocks were found free) and the handler of OutOfBlocks in a prefill.

`AsyncEngine`: `st` is the step thread, `el` the synchronous section the event loop is in.
Under CPython a single `append`, `set.add` or tuple swap is not interrupted half-way, so
each is part of one action; a comprehension over a deque is not atomic and is two, and
raises if the other thread changed the deque in between. `submit`, `cancel` and `_run`
all end in `_fanout`, whose two drains are two actions. A connection's timeout may fire
whenever the queue is empty; `cancel()`'s only for requests of `Slow`. The engine is
reduced to what this file sees of it: queue, batch, one token per step, preemption.
`emitted` keeps the tokens of the engine's one list by request: `drain_emitted` takes the
whole list at once, so the order between two requests' tokens is nowhere observed.

`Gateway`: a token is its position in the generation, and one generated from any context
but the true one is `Junk`; `delivered` is the list of ids the router will resume from,
`text` what the client could read. `gen[r][i]` is the entry of `_inflight`. Membership of
the ring changes at will here; `Fleet` has the reason why. `Unanswered` is an `Allow` whose
script ran and whose reply was lost. `gifts` and `lost` are history variables: refunds of
what was never reserved, and what Redis charged and never gave back.

`RateLimiter`: a bucket stores tokens and the time they were counted; a key past its TTL
is absent. The two scripts are atomic, as Redis runs them; that the Redis client library may
run one again after a lost reply is left out.

`Registration` and `Fleet`: etcd is a map of leased keys and a log of its changes; a
watcher is a position in the log. `apply` is a look (who goes, who is retained) and then
one step per change of the ring, because the health checker runs between them. A probe is
sent with the answer of that moment and applied later, or lost. `send` is the two selects.

`Autoscaler`: `keys` are the election keys alive in etcd, and `ahead[c]` the older ones that
`Campaign` of `c` waits for; nobody watches the session of a standby, so `c` may be elected
after its own key is gone, and learns of it as a leader (`Notice`). `history` is the samples
with their ages; `asked` keeps them without trimming, for the property. `pending` is a `Scale`
in progress; nothing ties it to the key. `fleet` lists the processes each owner started, dead
ones included: a controller with a process executor, the actuator, or an operator who starts
one by hand. `Registered` counts what `Load` counts, every entry of the ring: ready ones, ill
ones, ones not yet probed, and `ghosts`, dead ones whose lease has not lapsed. `holds` is a
history variable, the counts outside the policy's range that a hold decided. `site` is the
deployment (executor, machines, first demand, budget of faults), chosen at the start.

`Baseline`: one action per layer of a pass; `lost` are the requests `step()` raised for.

`Tokenizer`: `words` maps each distinct piece of the corpus to its ids, `pairCounts` and
`where` are what `train` patches after a merge. A character is a model value with its bytes
in a constant; the pattern cuts where a space or a separator begins, and drops what none of
its alternatives matches (`Dropped`, the underscore).

`Corpus`: `stage` is which script runs; a step is one chunk of `stream_documents` and the
documents it yields. `prepare` is an action for each split, with its buffer and its flushes.

`Trainer`: the weights are the list of the updates made to them, and an update is what it
depends on: the step of the learning rate, the moments, the draws of both generators. So two
runs are equal exactly when they did the same. Computation is taken to be deterministic for
one configuration and seed. A save is a write of the `.tmp` file and a rename, and pruning
unlinks one file at a time; a crash falls between any two actions. It is the process that
dies: files a finished write left are there.
`Training` starts a process only when the scripts before it have left data to train on
(`DataLoads`); the trainer's own specification, `TrainerSpec`, has them always there.

`Chaos`: a scenario is the list of its steps, and `step` the next one; `Finally` is the list
all finally clauses share. The threads of the load driver take part at any moment, so waiting
needs no step; a request ends with an outcome, or its thread with an exception `one_request`
does not catch and no outcome (`Uncaught`). `docker stop` and the flag that has it undone are two steps, as
are the start and the flag's reset. `seen` is a history variable. Any step that calls the
system may raise, and Ctrl-C may come at any step of a body, in the middle of a `docker stop`
or of the cluster's start included.

## Runs

| run | instance | shows |
|---|---|---|
| `allocator` | 4 blocks, counts to 3 | list and counts agree; `BlockPool` is implemented |
| `prefix` | 4 blocks of 2 slots, 3 sequences of up to 5 tokens, 3 prompts that share 0, 1 or 2 blocks | owned references, true cached contexts, prompts cached whole, no shared write; `ContiguousKV` is implemented |
| `engine` | 6 blocks, 3 requests, batch of 2, queue of 2, everyone may hang up | six invariants of the whole engine, and every request ends |
| `engine_pinned` | 6 blocks, 2 requests | violation: a request pinned out by idle prefixes is preempted for ever |
| `stream` | 2 requests of 3 and 1 tokens, a preemption, a client that hangs up, a cancel from outside, a `cancel()` that times out | no token lost or reordered; an abandoned request is gone; every stream is released |
| `gateway` | 2 replicas, 2 requests with one id, 2 tokens, 2 faults of any kind (a lost reply of Redis among them), 2 units of time | no phantom load, a replica under the cap, one unbroken stream, bounded overrun, both sides of the budget, everything settles |
| `gateway_half` | one request, its second token half a character, one fault | violation: after the character is whole the router lacks an id whose text the client has, and a migration continues another context |
| `fleet` | 2 replicas, one running at first, channel of 1, 2 misses to unready, 2 mishaps | the nearest point owns a key; an answering replica is retained; the ring converges |
| `autoscale` | 2 controllers, policy of 1 to 2 replicas, machines for 2 or 3, queues of 2, 5 and 9 at a target of 4 with a tolerance of a quarter, window of 1; 7 groups of deployments, each with its own budget of faults | the policy's range but for holds, sustained scale-down, one leader again, rest |
| `baseline` | 2 slots of 4 tokens, 2 layers, 4 requests | slots returned, own entries |
| `training` | 6 texts, chunks and splits of every length, 10 tokens, 7 steps, an evaluation every 2, a checkpoint every 3, 3 launches | counts and encoding, clean split, exact resumption, best model kept, at most one checkpoint interval lost |
| `chaos` | 2 clients, 3 requests per driver, 2 scenarios in every combination | green means clean; nothing is left behind |

Bounds. Two slots per block give a half-full tail, a boundary and a crossing. In `prefix`,
three sequences and four blocks let a tail be shared by three, copied twice and run out;
the pool is smaller than two prompts' blocks plus the cached ones, so eviction happens with
and without readers; one prompt begins with the tokens of another's second block, which a
key without its parent would confuse. In `engine`, six blocks hold two
sequences until both near their budgets, so admission, eviction and preemption all happen.
In `stream`, two requests are enough for one to submit while the other is scanned,
cancelled or retired. In `gateway`, two faults are a failure during the recovery from
another: a death and a second one, a death and Redis away, a removal and a re-addition
under a request in flight; a clock of two reaches the TTL and the refill of both buckets.
`OverrunBounded` needs a fault after the last token. In `fleet`, two mishaps are an etcd
outage with a crash in it, a termination in the middle of an announce, or a watch that ends
during an outage. In `autoscale`, a deployment's budget says what goes wrong together: two lapsed
sessions (a standby elected without its key), a lapsed session and a change of demand (two
controllers act on different observations), a failed `Scale` and a stop, a replica that dies
or is started by hand; with a ceiling of two, machines for three let a hold exceed it, and a
queue of 9 or 5 is within the tolerance of two replicas or of one, so the dead
band is entered. In `training`, the texts repeat a story, end in a separator, hold a
blank document and an underscore; evaluations and checkpoints fall on the same
and on different steps, and the loss rises once; three launches are a crash during the
recovery from another. In `chaos`, three requests fall before, during and after a fault, and
a second scenario finds what the first one left. `MaxOutcomes`, `MaxScenarios`,
`MaxLaunches`, `MaxTokens`, `MaxRefs`, `MaxPreempts`,
`MaxTime`, `MaxFaults`, `MaxMishaps`, `MinObservations` and a site's `budget` and `machines`
bound counters and appear in guards only.

Fairness. Each assumption is one the code's scheduling gives:

- `Scheduler`: weak fairness of the engine thread, since `_run` calls `step()` as long as
  there is work. Clients promise nothing.
- `AsyncEngine`: weak fairness of the step thread and of the section the event loop is in;
  strong fairness of the engine's task and of each connection, because asyncio serves ready
  callbacks in the order they became ready, however busy the loop is.
- `Gateway`: while a handler or a generator can go on, one of them does.
- `Fleet`: weak fairness of each goroutine and keep-alive thread; a lease nobody renews
  expires; an outage of etcd ends. No fault is fair.
- `Autoscaler`: weak fairness of each controller's loop, of the actuator, of time, of
  processes that load or recover and of leases nobody renews, which lapse; strong fairness of noticing a lost session, whose `select`
  is on a channel that stays closed, while `Scale` may disable it from time to time.

`CHECK_DEADLOCK FALSE` is said where the system may stop: an idle engine, a settled set
of requests, a converged fleet, a suite that has ended.

Symmetry is used for blocks, sequences and load clients in safety runs whose `CHOOSE`s do not
distinguish them; the other runs use none.

## Findings

The runs that expect a violation:

1. *Pinned pool* (`scheduler.py:548`, `engine_pinned`). Decode never evicts cached
   prefixes. A lone sequence that needs a block they hold preempts itself, is re-admitted
   (admission fits, so it evicts nothing) and repeats.
2. *Half characters do not migrate* (`replica.py:157`, `gateway_half`). The id of a token
   that ends in the middle of a character is withheld and never streamed: when the next token
   completes the character, its chunk has the text of both and the id of the second. A replica
   that dies after that leaves the router with `<<1, 3>>` where the client has read the text
   of `<<1, 2, 3>>`, and the replacement continues from `<<1, 3>>`, a context the client never
   saw. (A replica that dies before the character is whole is resumed correctly from `<<1>>`:
   neither the id nor its text was sent.) `proxy.go:27` says of this path "The client sees one
   unbroken stream." and `replica.py:15-16` "The replica continues from there".

Behaviours the models exhibit and the properties allow for, each named where it is allowed:

- `_fanout` may run while a step emits a last token and retires its request between its two
  drains. The stream is then marked done with the token still in the engine, and if its wait
  times out before the next drain it ends one token short (`server.py:150`). `NoTokenLost`
  says that the token is in the engine's buffer.
- A preempted request emits its first tokens again, and its stream carries them twice
  (`scheduler.py:508`): `NoTokenLost` compares with what the engine emitted.
- A prompt that never fits the pool is not rejected: `ensure_free` fails before the test
  is reached, and the queue waits behind it (`scheduler.py:408`).
- `last_used` never ties, so `evict` takes the root of an idle chain before its leaves,
  where the docstring (`prefix_cache.py:210`) has the furthest block go first.
- Both threads iterate the waiting deque. A submit that loses the race is answered 500 and
  leaves its stream entry behind; a step that loses it ends the engine's task
  (`scheduler.py:269`, `317`). `EveryStreamReleased` excepts the second. The ids that step had
  taken over are then never dropped: `AbandonedIsGone` still has their requests in its set,
  where nothing drops them and nothing generates for them.
- `Release` by id lowers the load of a replica that was removed and added again, so a load
  may be too low; `NoPhantomLoad` says it is never too high.
- A replica found draining answers REJECTED, and the router does not try another.
- A request let in while Redis was away is refunded what it never reserved (`gifts`).
- When Redis ran the script and the reply was lost, `Allow` takes this for an outage. Failing
  open, the request goes on and is refunded as if it had been told; failing closed, it is
  answered 503 and stays charged (`lost`, `ratelimit.go:271-275`).
- `send` can wait for ever between its two selects if the reconciler empties the channel
  there, although its comment says that blocking "is how events get missed"
  (`etcd.go:192-197`); `FleetConverges` excepts this state, `Stuck`.
- A replica that became ready after `apply` looked is still removed (`late`), and is added
  again by the next snapshot that lists it.
- A new leader has an empty history: discovery runs on standbys (`cmd/autoscaler/main.go:76`),
  but `Decide` does not, so a scale-down needs no window after a change of leader.
- With no replica ready the autoscaler holds at the number registered, unclamped
  (`autoscaler.go:162-173`). That number counts every entry of the ring: replicas that died
  and whose lease lives on, ones not probed yet, ones started by hand. So the published target
  can exceed `MaxReplicas` or fall below `MinReplicas`, and it grows as replacements register,
  until a lease lapses or a replica is ready. The flag calls its value a "ceiling"
  (`cmd/autoscaler/main.go:37`), and `TestNoReplicaCountIsEverBelowFloorOrAboveCeiling`
  (`autoscaler_test.go:219-236`) only tries loads with a replica ready. `WithinCeiling` allows
  for `holds` and shows that they are the only way out of the range.
- With process executors each controller that believes it leads has a fleet of its own; the
  fleets add up, each counts in the other's `Registered`, and the ceiling is one for each.
- A standby whose session lapsed is elected all the same when the older keys are gone
  (`election.go:94-104`), and leads without a key until it looks at `session.Done`.
- `ProcessExecutor` counts dead processes, so a fleet may rest below its size.
- A prompt longer than a slot raises in the baseline's prefill, outside the `try` that
  frees the slot (`baseline.py:125`): `SlotsReturned` excepts these slots.
- A resumed run starts with the `best_val` of its checkpoint, which may be older than
  `best.pt`, and may overwrite `best.pt` with a worse model on its way (`train.py:371`):
  `BestIsBest` is about the end of `fit()`.
- `--fresh` over older checkpoints: the new run's low-numbered checkpoints are pruned at once,
  a crash resumes the old run, and an old `best.pt` may stay (`overlaid`).
- A process killed between a checkpoint's rename and the pruning leaves one file more than
  `keep_last`, and so does each one after it, since the next to prune may be killed as well
  (`train.py:384-386`): `LittleLost` allows one for each launch.
- The tokenizer's pattern matches no underscore (`tokenizer.py:44-51`: `[^\W\d_]`, `\d`,
  `[^\s\w]` and `\s` all exclude it), and `findall` drops what nothing matches, so an encoded
  text decodes without its underscores. `tokenizer.py:8-11` says "every possible input is
  representable", and `test_tokenizer.py:206` says "The split must be a partition -- lose a
  character here and it is gone" (of five texts without one). `SplitClean` compares with the
  documents less these characters (`Legible`).
- A load thread whose request outlasts its share of the join appends its outcome after the
  verdict (`harness.py:206`): `GreenIsClean` is about the outcomes until the join, while
  `harness.py:11-12` has "Zero dropped requests" mean that no client saw an error. A thread
  that ends with an exception `one_request` does not catch, such as `http.client`'s
  `IncompleteRead` (`harness.py:159-163`), appends no outcome at all.
- `docker("stop", ...)` and `stopped = True` are two statements (`scenarios.py:296-297`,
  `358-359`): Ctrl-C in the first, or between the two, leaves the service stopped and the
  finally clause does not start it again. Ctrl-C ends the suite, so no scenario follows it, but
  the service stays down (`seen.cut`, which `NothingLeftBehind` excepts).
- `one_request` calls a rejection "not a drop" that is "counted separately"
  (`harness.py:137-139`); `summarise` counts it as failed.
- `ready_count` is 0 when the router does not answer, so `wait_until(ready_count() <= 2)`
  takes an unreachable router for an eviction (`harness.py:437`, `ReadyCount`).
- A connection that is open when the fault proxy turns into a black hole is closed by its
  pump at the next chunk (`harness.py:588`, `Pump`); only later connections wait for a
  timeout, which is what the scenario is there to test (`scenarios.py:194-197`).
- `SystemExit` from `Cluster.start` is not an `Exception`: one fleet that is never ready ends
  the suite with no result written, although `scripts/chaos.py:102-103` has a scenario that
  crashes be "a failure, not an absence". `cooldown` is never called.

## Proofs

Each theorem holds for every value of the constants. The assumptions are those the
modules name: natural numbers for the bounds, a block size, batch, budget or depth of at
least 1, finite sets of blocks, caches, requests, replicas and controllers, a policy that
`Validate` accepts, prompts that are not empty, a virtual node or more for every replica and
no two with one hash, and that the values which stand for "none"
(`NoRequest`, `Actuator`) are not members of the sets they are told from.

| module | theorem | states |
|---|---|---|
| `BlockAllocator_proofs` | `TypeCorrect`, `FreeListCorrect` | the free list holds exactly the unreferenced blocks, each once |
| | `AllocatorImplementsPool` | the allocator implements `BlockPool` |
| `PrefixCache_proofs` | `KVTypeCorrect`, `RefsCorrect` | each count is the number of tables that list the block |
| | `TablesExact` | each sequence holds exactly the blocks its tokens need |
| | `ContextCorrect` | each position of a gather is the entry of the sequence's own context |
| | `SharedBlocksImmutable` | no block left with two references is written |
| | `PagedImplementsContiguous` | the paged cache implements `ContiguousKV` |
| | `NoReferenceLost` | each count is the number of tables listing the block, plus one if it is cached |
| | `CachedBlocksTrue` | a cached block holds the entries of its key |
| | `CachedSequencesReadOwnContext` | a sequence that starts from attached blocks reads its own context |
| | `PromptsAlwaysCached` | a prompt just prefilled is cached whole |
| `Scheduler_proofs` | `EngineTypeCorrect`, `InOnePlace`, `OneOutcome` | one place and one outcome per request |
| | `NoBlocksLeaked`, `EngineOwnsReferences` | only the batch holds blocks; every reference has an owner |
| | `TranscriptFed` | a running sequence's cache was fed its own prompt and output |
| | `ForwardNeverRaises` | no forward pass runs out of blocks half-way |
| | `NoCancelDropped` | a recorded cancellation stays until its request is gone |
| `AsyncEngine_proofs` | `TokensDelivered` | no token lost, doubled or reordered between the two threads |
| | `AbandonedLeaves` | a request whose connection closed is out of the engine, or a step has taken its cancellation over |
| `Baseline_proofs` | `SlotsAlwaysReturned`, `AlwaysReadsOwnSlot` | slots come back but for those of prompts too long for one; a reused slot shows nothing of its last owner |
| `Router_proofs` | `LoadIsReal`, `SomeReplicaBelowCap` | no phantom load; some ready replica is below the cap |
| | `OverrunAlwaysBounded`, `StreamUnbroken` | a stream is one generation across migrations, with at most one token too many for each attempt after the first |
| | `BudgetKept`, `NeverOvercharged` | both sides of the rate limiter's budget |
| | `NearestReplicaOwns` | a key belongs to the ready replica with the nearest point clockwise |
| | `AnsweringReplicasStay` | a ready replica leaves for failed checks, or in the gap of the reconciler |
| `Autoscaler_proofs` | `CeilingHolds`, `DownOnlyWhenSustained` | the policy's range is left only on the word of a hold; scale-downs only when the window agrees |
| `Offline_proofs` | `ResumesExactly` | a resumed run and every checkpoint are an uninterrupted run's |
| | `BestModelKept` | when `fit()` returns, `best.pt` is the best of all evaluations |
| | `LittleWorkLost` | a launch is at most `ckpt_every` steps behind, with a bounded number of files |
| | `GreenVerdictsSound` | green means the fault was in place and no client reported a failure until the join |
| | `ScenariosLeaveNothing` | however it ends, a scenario leaves nothing for the next to trip over; a service stays down only if docker refused, or Ctrl-C ended the suite between stop and flag |

*Allocator.* `TypeOK /\ FreeListExact` is inductive: popping n blocks from the end of the
list is one lemma (`PopFacts`), used by `allocate` and `allocate_many` alike.

*Counts.* `RefsExact` alone is not inductive. A table that lists a block twice would have
two entries and one holder, so that `free` drops one reference too few: no table repeats a
block (`NoRepeat`). A closed cache that still had a table would lose it, unreleased, when a
fork reuses the cache: a closed cache has none. And the allocator must not hand out a
listed block: no count is below the number of holders. These are `TablesSound`. The step
itself is a balance: each operation moves a count by as much as it moves the number of
holders, so `Surplus(b)`, their difference, stands still (`Balanced`). `TablesSound` asks
only for a surplus that is not negative, so that the lemmas can be used again where
the prefix cache holds references of its own; `RefsCorrect` is the case of a zero surplus.

*Contexts.* `ContextSound` adds that a sequence holds as much text as tokens, that a closed
one has none, `HoldsWhatItNeeds` and `ReadsOwnContext`. `WritePlace` is the heart of it:
a position being written lies in a fresh block, or in an old block only if that is the last
of the table, partly filled, and then with one reference, because a tail with two would have
been copied. So a step of one sequence leaves alone every block anybody else references
(`UpdateKeeps`); and the positions of one sequence do not overwrite each other, since
position, table index and offset determine one another (`IdxFacts`, `SlotUnique`).
`HoldsWhatItNeeds` is needed in the induction: were there a spare block, a
position past the end could land in a block that is not the tail and was not checked.

*Refinement.* By `ReadsOwnContext` a gather is the list of prefixes of the sequence's text;
appending tokens appends their entries (`PrefixesConcat`). `UpdateFits` is `AppendNew`, a
fork `Copy`, a free `Drop`; allocate and a raised update stutter.

*Prefix cache.* The pool's own steps leave every `Surplus` alone, so what is left to show is
who owns it: `AllRefsOwned` says the cache does, one per cached block. It is inductive with
`IndexSound` (`_entries` and `_by_block` are inverse to each other) and gives
`CachedContextTrue` by the same argument as above: a cached block in a table has two
references, so no update writes it and no free returns it. `insert` needs `PromptSound`: the
sequence was fed a part of its prompt from the start, so its i-th full block holds the
entries of the i-th key.

*Scheduler.* `Inv` places every request: the queue, the batch, the list of `_admit` and the
request in hand hold no request twice and do not overlap, and `Control` says which of them
are empty at each `pc`. Half-way through the sampling loop the batch is cut in two, the part
in `still` and the part not looked at (`Sampling`). A second invariant adds what the caches
hold: `BatchFed` (all but the last token before the pass, all of them after it), `InHandFed`
for the prefill and `QueuedFresh`. `NeverRaisesMidway` rests on the number of blocks counted
before the pass and on `TablesExact`: each update takes at most the block it was counted for.

*Async engine.* For each request the tokens emitted are those sent, then those in its queue,
then those a fan-out holds, then those still buffered; every action moves tokens across one
border or none. `Pursued` follows a recorded cancellation through the step thread's set.

*Baseline.* `PassExact` says how far a pass is: layers already written hold the new tokens,
the others only the old. A slot's leftovers lie behind the position its owner reads up to.

*Gateway.* `Inv` joins the ring's counts to the attempts in flight (`Placed`), each engine
entry to its owner (`EntriesFit`), the overrun to the attempts made, and every context to
the true generation (`StreamsTrue`). The cap is a pigeonhole argument: were every ready
replica at the limit, more requests would be counted than are in flight. The budget is kept
by an inequality between what was used, what the bucket holds and what time has refilled.

*Autoscaler.* `WindowKept`: whatever `Decide` should still remember, `history` has; so the
largest sample bounds a scale-down. `RangeKept` follows each count from `Decide` to the target
and the fleets: all but a hold's are clamped, and a hold's are in `holds`.

*Fleet.* `RingHeld` says what the ring is after any joins and departures: the virtual nodes
of its replicas, sorted, with the ready ones among them. `SortedPoints` is about `sortPoints`
itself: the ranks of n points with hashes of their own are 0 to n - 1 (an injection between
finite sets of one size is onto), so each point is listed once and the hashes rise. From
where `search` starts, the walk of the list and then of its beginning meets the points in
the order of their clockwise distance (`WalkRises`) and misses none (`StepOnto`); so the
first ready one is the nearest. For `RetainsAnswering` the invariant adds `LateOnes`: a
replica that is about to be removed and is ready became ready since the reconciler looked.
It is not enough that the look excludes ready ones, since the removals come one by one after
it, with probes applied in between.

*Training.* `ResumeExact` is inductive with the types, which say what each place in the loop
knows of the step. `BestIsBest` is about the end only, and needs two facts about the way
there. `ValsTrue`: a `best_val` is the least loss up to its step, in the process and in every
checkpoint. `BestHeld`: `best.pt` is a record, better than every evaluation before it, and no
earlier than the evaluation that gave any `best_val` in use; a process that died may have got
further. A resumed run may put an older record in its place, never one older
than its own `best_val`. `LittleLost`
needs `Spaced` (the furthest step is within `ckpt_every` of a checkpoint, and before the next
step with one to spare) and `Few`, the number of files each place in the loop may find.
`TrainerSpec` has the data always there; a step of `Training`'s trainer is a step of it
(`DataOnlyGates`).

*Chaos.* The invariant reads the scripts. `OnScript` says, of each scenario and position in
it, whether the load was marked and joined and the fault made, and that a failure seen since
lies in a phase: behind the first mark and, once the last is taken, before that. So
the verdict's `_phase_stats` cannot miss it. `Tidied` says what the finally clause has
undone by its k-th step, and which services may be down: one whose flag is set, one that is
between command and flag (`Owing`), one docker refused to start, and one Ctrl-C cut off
there (`Lost`). Scripts are finite lists, so the lemmas about them go list by list.

Only model-checked: the liveness properties (`EveryRequestFinishes`, `EveryStreamReleased`,
`Quiesces`, `FleetConverges`, `OneLeaderAgain`, `ComesToRest`), which the prover does not do;
and `MergesSound` and `SplitClean`, which say what recursive operators over texts compute, an
induction over data. Every other property of a passing run is a theorem.

## Not modelled

- `AsyncEngine.stop`, the lifespan hooks and the read-only endpoints: the process ends, or
  nothing changes.
- The projected finish time of the admission controller: arithmetic on measured times. Its
  answer is a choice in `Scheduler`.
- The baseline engine over a paged pool, over `DynamicCache` and without a cache: the paged
  cache is `PagedKV`'s, the others keep no shared state.
- Flags, HTTP serving and validation of request bodies in the two `main.go` and in
  `ServeGenerate`; `clientKey` (one client is modelled, and clients share no bucket).
- Transformer, sampling and quantisation: floating point on one thread. The models take the
  next token as a choice, so nothing they check depends on it.
- Contractions and digits of the tokenizer's pattern, special tokens inside a text, its JSON
  file; logging and throughput of the trainer; loss of files that were written.
- The fragmentation figures of the contiguous pool.
- Metrics in both languages: no decision reads them.
- Benchmarks, plotting and cluster scripts: they drive the system from outside.
- Generated protocol code.

What is left of the modelled files is module documentation, statistics, logging and
construction.
