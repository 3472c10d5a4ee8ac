------------------------------- MODULE Fleet -------------------------------
(***************************************************************************)
(* How the ring follows the fleet.  The replicas register themselves       *)
(* (module Registration); EtcdRegistry.Watch of src/router/etcd.go turns   *)
(* etcd's changes into snapshots on a channel; the Reconciler and the      *)
(* HealthChecker of src/router/registry.go apply snapshots and probes to   *)
(* the Ring; the pool of src/router/client.go follows the ring.  Each is a *)
(* goroutine of its own.                                                   *)
(*                                                                         *)
(* Addresses are left out: an id keeps its address.                        *)
(***************************************************************************)
EXTENDS Ring, Registration

CONSTANTS Keys,                \* hashes of some prefix keys
          ChanCap,             \* capacity of the channel of snapshots
          FailuresToUnready,   \* failuresToUnready
          MaxMishaps            \* bound on what befalls replicas and etcd

ASSUME FleetAssumption ==
    /\ ReplicaIds = Replicas
    /\ Keys \subseteq 0 .. HashSpace - 1
    /\ ChanCap \in Nat \ {0} /\ FailuresToUnready \in Nat \ {0} /\ MaxMishaps \in Nat

VARIABLES
    members,    \* Watch's map
    rev,        \* the revision of the snapshot it came from
    pos,        \* what the current watcher has delivered of the log
    watch,      \* the watch goroutine
    out,        \* the channel
    doomed,     \* what the reconciler is about to remove
    wanted,     \* and to add
    orphaned,   \* the replicas it retains against the registry
    pool,       \* the replicas there is a connection to
    probe,      \* replica -> the health check in flight, by its answer
    late,       \* replicas that became ready while about to be removed
    misses,     \* replica -> failed checks in a row, up to FailuresToUnready
    mishaps

watchVars == <<members, rev, pos, watch>>
recVars == <<doomed, wanted, orphaned>>
checkVars == <<probe, misses, late>>
fleetVars == <<ringVars, regVars, watchVars, out, recVars, pool, checkVars, mishaps>>

FleetInit ==
    /\ RingInit(StartUp) /\ RegInit
    /\ members = StartUp /\ rev = 0 /\ pos = 0
    /\ watch = "watching" /\ out = <<>>
    /\ doomed = {} /\ wanted = {} /\ orphaned = {}
    /\ pool = StartUp
    /\ probe = [r \in Replicas |-> "none"]
    /\ misses = [r \in Replicas |-> 0] /\ late = {}
    /\ mishaps = 0

-----------------------------------------------------------------------------
(* EtcdRegistry.Watch. *)

(* members after the log's entries from i to j.  Mutant: deletes are ignored. *)
ReplayedPuts(S, i, j) == S \cup {log[k].id : k \in i .. j}
Replayed(S, i, j) ==
    LET last(r) == {k \in i .. j : log[k].id = r}
    IN  {r \in Replicas : IF last(r) = {} THEN r \in S ELSE log[Max(last(r))].live}

(* consume receives the next changes; rev stays behind. *)
Consume ==
    /\ watch = "watching" /\ etcdUp /\ pos < Len(log)
    /\ \E upto \in pos + 1 .. Len(log) :
          /\ members' = Replayed(members, pos + 1, upto)
          /\ pos' = upto
    /\ watch' = "sending"
    /\ UNCHANGED <<ringVars, regVars, rev, out, recVars, pool, checkVars, mishaps>>

(* send: put the snapshot on the channel if it has room; otherwise take the
   oldest one off and try again, which blocks while there is none to take. *)
Send ==
    /\ \/ watch = "sending" /\ Len(out) < ChanCap
          /\ out' = Append(out, members) /\ watch' = "watching"
       \/ watch = "sending" /\ Len(out) = ChanCap
          /\ watch' = "dropping" /\ UNCHANGED out
       \/ watch = "dropping" /\ out # <<>>
          /\ out' = Tail(out) /\ watch' = "sending"
    /\ UNCHANGED <<ringVars, regVars, members, rev, pos, recVars, pool, checkVars, mishaps>>

(* snapshot: the registry and the revision it was read at. *)
Snapshot == [members |-> Registered, rev |-> Len(log)]

(* Back from the sleep: a fresh snapshot, or, if etcd does not answer, the old
   watcher again from the old revision. *)
Resume ==
    /\ watch = "ended"
    /\ IF etcdUp
       THEN /\ members' = Snapshot.members
            /\ rev' = Snapshot.rev /\ pos' = Snapshot.rev
            /\ watch' = "sending"
       ELSE /\ pos' = rev /\ watch' = "watching"
            /\ UNCHANGED <<members, rev>>
    /\ UNCHANGED <<ringVars, regVars, out, recVars, pool, checkVars, mishaps>>

-----------------------------------------------------------------------------
(* Reconciler.Run. *)

Reconciling == doomed # {} \/ ~(wanted \subseteq replicas)

(* The head of apply: what the ring looked like decides who goes.  Mutant: the
   registry is believed. *)
DoomedUnregistered(S) == replicas \ S
Doomed(S) == (replicas \ S) \ ready

ApplyLook ==
    /\ ~Reconciling /\ out # <<>>
    /\ out' = Tail(out)
    /\ wanted' = Head(out)
    /\ doomed' = Doomed(Head(out))
    /\ orphaned' = (replicas \ Head(out)) \ doomed'
    /\ UNCHANGED <<ringVars, regVars, watchVars, pool, checkVars, mishaps>>

(* reap, on its timer. *)
ReapLook ==
    /\ ~Reconciling /\ orphaned \ ready # {}
    /\ doomed' = orphaned \ ready
    /\ orphaned' = orphaned \cap ready
    /\ UNCHANGED <<ringVars, regVars, watchVars, out, wanted, pool, checkVars, mishaps>>

(* The ring is changed afterwards, one replica at a time: the removals come
   first, and one of them may have become ready meanwhile. *)
ApplyRemove ==
    /\ \E r \in doomed :
          Remove(r) /\ doomed' = doomed \ {r} /\ late' = late \ {r}
    /\ UNCHANGED <<regVars, watchVars, out, wanted, orphaned, pool, probe, misses, mishaps>>
ApplyAdd ==
    /\ doomed = {}
    /\ \E r \in wanted \ replicas : Add(r)
    /\ UNCHANGED <<regVars, watchVars, out, recVars, pool, checkVars, mishaps>>

-----------------------------------------------------------------------------
(* HealthChecker and pool. *)

(* SyncWith *)
SyncWith ==
    /\ pool # replicas
    /\ pool' = replicas
    /\ UNCHANGED <<ringVars, regVars, watchVars, out, recVars, checkVars, mishaps>>

(* The replica answers, for now. *)
Answers(r) == r \in pool /\ proc[r] = "up"

CheckSend(r) ==
    /\ probe[r] = "none" /\ r \in replicas
    /\ probe' = [probe EXCEPT ![r] = IF Answers(r) THEN "ok" ELSE "failed"]
    /\ UNCHANGED <<ringVars, regVars, watchVars, out, recVars, pool, misses, late, mishaps>>

(* checkOne, once it has the answer or has timed out. *)
CheckApply(r) ==
    LET missed == IF misses[r] < FailuresToUnready THEN misses[r] + 1 ELSE misses[r]
    IN  /\ probe[r] # "none"
        /\ misses' = [misses EXCEPT ![r] = IF probe[r] = "ok" THEN 0 ELSE missed]
        /\ IF probe[r] = "ok" THEN SetReady(r, TRUE)
           ELSE IF missed >= FailuresToUnready THEN SetReady(r, FALSE)
           ELSE UNCHANGED ringVars
        /\ probe' = [probe EXCEPT ![r] = "none"]
        /\ late' = IF r \in doomed /\ r \in ready' THEN late \cup {r} ELSE late
        /\ UNCHANGED <<regVars, watchVars, out, recVars, pool, mishaps>>

-----------------------------------------------------------------------------
(* The world. *)

Mishap == mishaps < MaxMishaps /\ mishaps' = mishaps + 1

(* A check of a live replica is lost. *)
CheckLost(r) ==
    /\ Mishap /\ probe[r] = "ok"
    /\ probe' = [probe EXCEPT ![r] = "failed"]
    /\ UNCHANGED <<ringVars, regVars, watchVars, out, recVars, pool, misses, late>>

(* The watcher's channel closes: an error of the server's, or etcd is away. *)
WatchEnds ==
    /\ watch = "watching"
    /\ (~etcdUp /\ UNCHANGED mishaps) \/ Mishap
    /\ watch' = "ended"
    /\ UNCHANGED <<ringVars, regVars, members, rev, pos, out, recVars, pool, checkVars>>

Replica(r) ==
    /\ \/ Mishap /\ (Start(r) \/ Terminate(r) \/ Crash(r) \/ LeaseLost(r))
       \/ UNCHANGED mishaps /\ (Stop(r) \/ Exit(r) \/ Expire(r) \/ RegThread(r))
    /\ UNCHANGED <<ringVars, watchVars, out, recVars, pool, checkVars>>

Etcd ==
    /\ (Mishap /\ EtcdDown) \/ (UNCHANGED mishaps /\ EtcdBack)
    /\ UNCHANGED <<ringVars, watchVars, out, recVars, pool, checkVars>>

FleetNext ==
    \/ Consume \/ Send \/ Resume
    \/ ApplyLook \/ ReapLook \/ ApplyRemove \/ ApplyAdd
    \/ SyncWith
    \/ \E r \in Replicas : CheckSend(r) \/ CheckApply(r) \/ CheckLost(r) \/ Replica(r)
    \/ WatchEnds \/ Etcd

(* Every goroutine and thread that can run does, tickers tick, select is fair to
   a channel that stays ready, leases nobody renews expire, backoffs are bounded (backoff, sleepCtx), and an
   outage ends. *)
Fairness ==
    /\ WF_fleetVars(Consume \/ Send \/ Resume)
    /\ WF_fleetVars(ApplyLook) /\ WF_fleetVars(ReapLook) /\ WF_fleetVars(ApplyRemove \/ ApplyAdd)
    /\ WF_fleetVars(SyncWith)
    /\ \A r \in Replicas : WF_fleetVars(CheckSend(r) \/ CheckApply(r))
    /\ \A r \in Replicas :
          WF_fleetVars(Replica(r) /\ (Stop(r) \/ Exit(r) \/ Expire(r) \/ RegThread(r)))
    /\ WF_fleetVars(Etcd /\ EtcdBack)

FleetSpec == FleetInit /\ [][FleetNext]_fleetVars /\ Fairness

-----------------------------------------------------------------------------
(* Properties. *)

(* Whatever the registry says, a replica leaves the rotation only for failing
   its health checks, as many in a row as failuresToUnready: an etcd outage that
   deletes every key empties no ring.  The exception is one that was not ready
   when apply took its snapshot and became ready before the Remove. *)
RetainsAnswering ==
    [][\A r \in ready \ ready' : misses'[r] >= FailuresToUnready \/ r \in late]_fleetVars

(* The watch goroutine is caught in send: the reconciler emptied the channel
   between the two selects, and nobody else will ever fill it. *)
Stuck == watch = "dropping" /\ out = <<>>

(* The ring comes to hold exactly the replicas that run, all of them ready:
   crashed and stopped ones leave it, deregistered ones come back, whatever was
   lost or replayed on the way -- unless the watch is stuck in send. *)
Healthy == {r \in Replicas : proc[r] = "up"}
FleetConverges == <>[](replicas = Healthy /\ ready = Healthy) \/ <>[]Stuck

(* The keys a replica serves are those whose clockwise distance to one of its
   points is the smallest among the ready replicas, after any sequence of joins,
   departures and flips.  It depends on the ready set alone, so a change
   elsewhere moves no key and a replica that comes back gets its keys back. *)
OwnerIsNearest ==
    ready # {} =>
        \A h \in Keys :
            /\ Owner(h) \in ready
            /\ \A r \in ready : \A p \in PointHash[r] :
                  \E o \in PointHash[Owner(h)] : Distance(h, o) <= Distance(h, p)
=============================================================================
