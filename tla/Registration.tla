---------------------------- MODULE Registration ----------------------------
(***************************************************************************)
(* ReplicaRegistration of src/engine/discovery.py and the shutdown of      *)
(* serve in src/engine/replica.py: a replica keeps one key in etcd under a *)
(* lease, announces itself again when the lease is lost, and deregisters   *)
(* when it stops.  etcd is a map of leased keys with a log of its changes. *)
(*                                                                         *)
(* A key hangs on the lease its process knows as self._lease ("own"), or   *)
(* on one nobody will renew or revoke any more ("lone").  Renewals that    *)
(* succeed change nothing and are not steps.                               *)
(***************************************************************************)
EXTENDS Integers, Sequences, FiniteSets

CONSTANTS ReplicaIds,   \* replica ids
          StartUp       \* the replicas that run and are registered at first

ASSUME StartUpAssumption == StartUp \subseteq ReplicaIds

VARIABLES
    etcdUp,   \* etcd answers
    key,      \* replica -> the lease its key hangs on
    log,      \* etcd's changes: [id, live]
    proc,     \* replica -> its process
    reg,      \* replica -> its etcd-keepalive thread
    lease     \* replica -> the lease behind self._lease

regVars == <<etcdUp, key, log, proc, reg, lease>>

RegInit ==
    /\ etcdUp = TRUE
    /\ key = [r \in ReplicaIds |-> IF r \in StartUp THEN "own" ELSE "none"]
    /\ log = <<>>
    /\ proc = [r \in ReplicaIds |-> IF r \in StartUp THEN "up" ELSE "off"]
    /\ reg = [r \in ReplicaIds |-> IF r \in StartUp THEN "idle" ELSE "off"]
    /\ lease = [r \in ReplicaIds |-> IF r \in StartUp THEN "alive" ELSE "none"]

Registered == {r \in ReplicaIds : key[r] # "none"}

(* etcd changes a key and logs it. *)
PutKey(r, as) ==
    /\ key' = [key EXCEPT ![r] = as]
    /\ log' = Append(log, [id |-> r, live |-> TRUE])
DeleteKey(r) ==
    /\ key' = [key EXCEPT ![r] = "none"]
    /\ log' = Append(log, [id |-> r, live |-> FALSE])
KeepKey == UNCHANGED <<key, log>>

-----------------------------------------------------------------------------
(* The process: serve. *)

(* start: the first announce is synchronous, and a replica that cannot register
   does not come up. *)
Start(r) ==
    /\ proc[r] = "off" /\ etcdUp
    /\ proc' = [proc EXCEPT ![r] = "up"]
    /\ reg' = [reg EXCEPT ![r] = "idle"]
    /\ lease' = [lease EXCEPT ![r] = "alive"]
    /\ PutKey(r, "own")
    /\ UNCHANGED etcdUp

(* SIGTERM: draining, and stop() tells the thread. *)
Terminate(r) ==
    /\ proc[r] = "up"
    /\ proc' = [proc EXCEPT ![r] = "stopping"]
    /\ UNCHANGED <<etcdUp, key, log, reg, lease>>

(* The rest of stop(): the thread is joined, or after five seconds in the middle
   of an announce is not, and the lease self._lease names is revoked;
   one that cannot be revoked is left to its TTL. *)
Stop(r) ==
    /\ proc[r] = "stopping"
    /\ proc' = [proc EXCEPT ![r] = "draining"]
    /\ reg' = [reg EXCEPT ![r] = IF @ = "put" THEN @ ELSE "off"]
    /\ lease' = [lease EXCEPT ![r] = "none"]
    /\ IF key[r] # "own" THEN KeepKey
       ELSE IF etcdUp THEN DeleteKey(r)
       ELSE key' = [key EXCEPT ![r] = "lone"] /\ UNCHANGED log
    /\ UNCHANGED etcdUp

(* The process ends, after its grace period or by a crash. *)
Gone(r) ==
    /\ proc' = [proc EXCEPT ![r] = "off"]
    /\ reg' = [reg EXCEPT ![r] = "off"]
    /\ lease' = [lease EXCEPT ![r] = "none"]
    /\ key' = [key EXCEPT ![r] = IF @ = "own" THEN "lone" ELSE @]
    /\ UNCHANGED <<etcdUp, log>>
Exit(r) == proc[r] = "draining" /\ Gone(r)
Crash(r) == proc[r] # "off" /\ Gone(r)

-----------------------------------------------------------------------------
(* The etcd-keepalive thread: _renew_forever and _announce. *)

(* keepalive: etcd answers, and with a TTL.  When it raises, or says the lease
   is gone, the replica announces itself again. *)
Renewed(r) == etcdUp /\ lease[r] = "alive"
RenewFails(r) ==
    /\ reg[r] = "idle" /\ proc[r] = "up"
    /\ ~Renewed(r)
    /\ reg' = [reg EXCEPT ![r] = "announce"]
    /\ UNCHANGED <<etcdUp, key, log, proc, lease>>

Grant(r) ==
    /\ reg[r] = "announce" /\ proc[r] = "up" /\ etcdUp
    /\ reg' = [reg EXCEPT ![r] = "put"]
    /\ UNCHANGED <<etcdUp, key, log, proc, lease>>

(* The key moves to the new lease.  If stop() has already revoked the old one,
   nobody will revoke this one. *)
Put(r) ==
    /\ reg[r] = "put" /\ etcdUp
    /\ reg' = [reg EXCEPT ![r] = "idle"]
    /\ IF proc[r] = "draining"
       THEN PutKey(r, "lone") /\ UNCHANGED lease
       ELSE PutKey(r, "own") /\ lease' = [lease EXCEPT ![r] = "alive"]
    /\ UNCHANGED <<etcdUp, proc>>

(* grant or put raises: again after a backoff. *)
PutFails(r) ==
    /\ reg[r] = "put" /\ ~etcdUp
    /\ reg' = [reg EXCEPT ![r] = "announce"]
    /\ UNCHANGED <<etcdUp, key, log, proc, lease>>

-----------------------------------------------------------------------------
(* etcd. *)

(* The lease of a live replica lapses: renewals did not reach etcd in time. *)
LeaseLost(r) ==
    /\ lease[r] = "alive"
    /\ lease' = [lease EXCEPT ![r] = "dead"]
    /\ IF key[r] = "own" THEN DeleteKey(r) ELSE KeepKey
    /\ UNCHANGED <<etcdUp, proc, reg>>

(* A lease nobody renews expires. *)
Expire(r) ==
    /\ key[r] = "lone" /\ etcdUp
    /\ DeleteKey(r)
    /\ UNCHANGED <<etcdUp, proc, reg, lease>>

EtcdDown == etcdUp /\ etcdUp' = FALSE /\ UNCHANGED <<key, log, proc, reg, lease>>
EtcdBack == ~etcdUp /\ etcdUp' = TRUE /\ UNCHANGED <<key, log, proc, reg, lease>>

RegThread(r) == RenewFails(r) \/ Grant(r) \/ Put(r) \/ PutFails(r)
=============================================================================
