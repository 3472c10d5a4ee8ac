------------------------------- MODULE Ring -------------------------------
(***************************************************************************)
(* Ring of src/router/ring.go: consistent hashing with bounded loads.      *)
(* Every method holds the ring's mutex, so each is one step.  The proxy    *)
(* (module Gateway) and the reconciler with the health checker (module     *)
(* Fleet) call it.                                                         *)
(*                                                                         *)
(* Hashes are small numbers; FNV and its finalizer are taken to be         *)
(* injective on the points of the ring.  NewRing gives every replica at    *)
(* least one.                                                              *)
(***************************************************************************)
EXTENDS Integers, Sequences, FiniteSets, FiniteSetsExt

CONSTANTS Replicas,    \* replica ids
          PointHash,   \* replica -> the hashes of its virtual nodes
          HashSpace,   \* one past the largest hash
          EpsNum,      \* epsilon, as the fraction EpsNum / EpsDen
          EpsDen

None == "none"

ASSUME RingAssumption ==
    /\ IsFiniteSet(Replicas) /\ None \notin Replicas
    /\ EpsNum \in Nat /\ EpsDen \in Nat \ {0}
ASSUME HashAssumption ==
    /\ HashSpace \in Nat
    /\ \A a \in Replicas : PointHash[a] # {} /\ PointHash[a] \subseteq 0 .. HashSpace - 1
    /\ \A a, b \in Replicas : a # b => PointHash[a] \cap PointHash[b] = {}

VARIABLES
    replicas,   \* the ids on the ring
    points,     \* its virtual nodes, sorted by hash
    load,       \* replica -> requests in flight on it, as counted
    ready       \* the selectable replicas

ringVars == <<replicas, points, load, ready>>

-----------------------------------------------------------------------------
(* Membership. *)

VirtualNodes(r) == {[hash |-> h, replica |-> r] : h \in PointHash[r]}
PointSet == {points[i] : i \in DOMAIN points}

(* sortPoints.  Mutant: descending. *)
SortPointsDown(S) ==
    [i \in 1 .. Cardinality(S) |->
        CHOOSE p \in S : Cardinality({o \in S : o.hash > p.hash}) = i - 1]
SortPoints(S) ==
    [i \in 1 .. Cardinality(S) |->
        CHOOSE p \in S : Cardinality({o \in S : o.hash < p.hash}) = i - 1]

(* A ring to which S have been added and marked ready. *)
RingInit(S) ==
    /\ replicas = S /\ ready = S
    /\ points = SortPoints(UNION {VirtualNodes(r) : r \in S})
    /\ load = [r \in Replicas |-> 0]

(* Add: a replica already present keeps everything but its address; a new one
   is not selectable until a probe succeeds. *)
Add(r) ==
    /\ r \notin replicas
    /\ replicas' = replicas \cup {r}
    /\ points' = SortPoints(PointSet \cup VirtualNodes(r))
    /\ load' = [load EXCEPT ![r] = 0]
    /\ ready' = ready \ {r}

(* Remove forgets the replica's load, whoever is still streaming from it; the
   points that are left keep their order. *)
Remove(r) ==
    /\ r \in replicas
    /\ replicas' = replicas \ {r}
    /\ points' = SortPoints({p \in PointSet : p.replica # r})
    /\ ready' = ready \ {r}
    /\ load' = [load EXCEPT ![r] = 0]

(* SetReady on an id that is not on the ring does nothing. *)
SetReady(r, isReady) ==
    /\ ready' = IF isReady /\ r \in replicas THEN ready \cup {r} ELSE ready \ {r}
    /\ UNCHANGED <<replicas, points, load>>

-----------------------------------------------------------------------------
(* Placement. *)

(* loadCap: the ceiling of (1 + epsilon) * total / n, and at least 1.
   Mutant: the floor. *)
LoadCapFloor(total, n) ==
    LET floor == ((EpsDen + EpsNum) * total) \div (EpsDen * n)
    IN  IF floor < 1 THEN 1 ELSE floor
LoadCap(total, n) ==
    LET num == (EpsDen + EpsNum) * total
        den == EpsDen * n
        ceil == (num + den - 1) \div den
    IN  IF ceil < 1 THEN 1 ELSE ceil

(* The sum of the ready replicas' loads: as many as there are counted requests. *)
LoadUnits(S) == UNION {{r} \X (1 .. load[r]) : r \in S}
TotalLoad == Cardinality(LoadUnits(ready))
Limit == LoadCap(TotalLoad + 1, Cardinality(ready))

(* search: the first point at or after the hash, wrapping to the first. *)
Search(h) ==
    LET after == {i \in DOMAIN points : points[i].hash >= h}
    IN  IF after = {} THEN 1 ELSE Min(after)

(* The replica owning the i-th point clockwise from hash h. *)
Clockwise(h, i) == points[((Search(h) + i - 2) % Len(points)) + 1].replica

(* The first replica clockwise from h that belongs to S.  Repeated points of a
   replica are skipped by the code and change nothing here. *)
FirstIn(h, S) ==
    LET hits == {i \in DOMAIN points : Clockwise(h, i) \in S}
    IN  IF hits = {} THEN None ELSE Clockwise(h, Min(hits))

UnderCap == {r \in ready : load[r] < Limit}
LeastLoaded(S) == {r \in S : \A o \in S : load[r] <= load[o]}

(* PickExcluding: the walk, and past it the least loaded of what is left; empty
   for ErrNoReplicas. *)
Picks(h, exclude) ==
    LET free == ready \ exclude
        first == FirstIn(h, UnderCap \cap free)
    IN  IF points = <<>> \/ ready = {} THEN {}
        ELSE IF first # None THEN {first}
        ELSE LeastLoaded(free)

(* What Pick adds to the chosen replica, and Release takes from whichever entry
   has the id now.  Mutant: only a ready replica is decremented. *)
Picked(r) == [load EXCEPT ![r] = @ + 1]
ReleasedIfReady(r) == IF r \in ready /\ load[r] > 0 THEN [load EXCEPT ![r] = @ - 1] ELSE load
Released(r) == IF r \in replicas /\ load[r] > 0 THEN [load EXCEPT ![r] = @ - 1] ELSE load

-----------------------------------------------------------------------------
(* What the callers' specifications are checked for. *)

(* The first choice for a hash, were no replica loaded. *)
Owner(h) == IF points = <<>> THEN None ELSE FirstIn(h, ready)

(* The clockwise distance from a key to a point. *)
Distance(h, p) == IF p >= h THEN p - h ELSE p + HashSpace - h
=============================================================================
