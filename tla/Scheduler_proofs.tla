-------------------------- MODULE Scheduler_proofs --------------------------
(***************************************************************************)
(* For every set of requests, jobs, batch size and queue bound: a request  *)
(* the engine took is in one place until it has its one outcome, only the  *)
(* batch holds blocks, and no cancellation is dropped, whatever order      *)
(* step() and the event loop's calls interleave in.                        *)
(***************************************************************************)
EXTENDS Scheduler, PrefixCache_proofs

(* A list of requests without repetition. *)
Uniq(s) == \A i, j \in 1 .. Len(s) : s[i] = s[j] => i = j
List(s) == s \in Seq(Requests) /\ Uniq(s)

Prefilling == {"match", "prefill", "insert", "first"}
Pcs == {"idle", "cancel", "admit", "decode", "grow", "sample"} \cup Prefilling

EngineTypes ==
    /\ pc \in Pcs /\ cur \in Requests \cup {NoRequest} /\ idx \in Nat
    /\ wanted \subseteq submitted /\ cancels \subseteq submitted /\ hungUp \subseteq submitted
    /\ submitted \subseteq Requests
    /\ output \in [Requests -> Seq(Outputs)] /\ reason \in [Requests -> Reasons]
    /\ outcomes \in [Requests -> Nat] /\ observed \in 0 .. MinObservations
    /\ status \in [Requests -> {"closed", "open", "failed"}]

Lists == List(waiting) /\ List(running) /\ List(admitted) /\ List(still)

(* The queue, the batch, _admit's list and its request in hand do not overlap. *)
Apart ==
    /\ ToSet(waiting) \cap ToSet(running) = {} /\ ToSet(waiting) \cap ToSet(admitted) = {}
    /\ ToSet(running) \cap ToSet(admitted) = {}
    /\ cur \notin ToSet(waiting) \cup ToSet(running) \cup ToSet(admitted)

(* What step() has in its hands, by where it is. *)
Control ==
    /\ cur # NoRequest <=> pc \in Prefilling
    /\ admitted # <<>> => pc \in {"admit"} \cup Prefilling
    /\ wanted # {} => pc = "cancel"
    /\ pc = "decode" => running # <<>>
    /\ pc = "grow" => idx \in 1 .. Len(running)
    /\ pc = "sample" => idx \in 1 .. Len(running) + 1
    /\ pc \notin {"grow", "sample"} => idx = 0
    /\ Len(running) + Len(admitted) + (IF cur = NoRequest THEN 0 ELSE 1) <= MaxBatch

(* Half-way through the sampled tokens: the part of the batch that is done with
   is kept or has its outcome, the rest is as it was. *)
Sampling ==
    /\ pc # "sample" => still = <<>>
    /\ pc = "sample" =>
        /\ ToSet(still) \subseteq ToSet(running) /\ Len(still) < idx
        /\ \A i \in 1 .. Len(running) :
              IF i < idx THEN reason[running[i]] = "none" <=> running[i] \in ToSet(still)
              ELSE reason[running[i]] = "none" /\ running[i] \notin ToSet(still)

(* Where a request without an outcome is, and that a listed one has none. *)
Tracked ==
    \A r \in Requests :
        /\ r \in submitted /\ reason[r] = "none" =>
              r \in ToSet(waiting) \cup ToSet(running) \cup ToSet(admitted) \cup {cur}
        /\ r \in ToSet(waiting) \cup ToSet(admitted) \cup {cur} =>
              r \in submitted /\ reason[r] = "none"
        /\ r \in ToSet(running) => r \in submitted /\ (pc # "sample" => reason[r] = "none")
        /\ r \notin submitted => reason[r] = "none"

Inv ==
    /\ EngineTypes /\ Lists /\ Apart /\ Control /\ Sampling /\ Tracked
    /\ OutcomeOnce /\ OnlyBatchHoldsBlocks /\ CancelTakesEffect

-----------------------------------------------------------------------------
(* Lists. *)

LEMMA ListFacts ==
  ASSUME NEW s, List(s)
  PROVE  /\ Len(s) \in Nat /\ DOMAIN s = 1 .. Len(s) /\ s \in Seq(Requests)
         /\ \A i \in 1 .. Len(s) : s[i] \in Requests /\ s[i] \in ToSet(s)
         /\ ToSet(s) \subseteq Requests
         /\ s = <<>> <=> Len(s) = 0
         /\ s = <<>> <=> ToSet(s) = {}
<1>1. Len(s) \in Nat /\ DOMAIN s = 1 .. Len(s) /\ s \in Seq(Requests)
  BY LenProperties DEF List
<1>2. \A i \in 1 .. Len(s) : s[i] \in Requests
  BY <1>1, ElementOfSeq
<1>3. s = <<>> <=> Len(s) = 0
  BY <1>1, EmptySeq
<1>4. ToSet(s) = {} <=> Len(s) = 0
  <2>1. Len(s) # 0 => 1 \in 1 .. Len(s)
    BY <1>1
  <2> QED BY <1>1, <2>1 DEF ToSet
<1> QED BY <1>1, <1>2, <1>3, <1>4 DEF ToSet

LEMMA EmptyList == List(<<>>) /\ ToSet(<<>>) = {} /\ Len(<<>>) = 0
BY EmptySeq DEF List, Uniq, ToSet

LEMMA AppendList ==
  ASSUME NEW s, List(s), NEW x \in Requests, x \notin ToSet(s)
  PROVE  /\ List(Append(s, x)) /\ Len(Append(s, x)) = Len(s) + 1
         /\ ToSet(Append(s, x)) = ToSet(s) \cup {x} /\ Append(s, x) # <<>>
<1>1. PICK t : t = Append(s, x)
  OBVIOUS
<1>2. Len(s) \in Nat /\ s \in Seq(Requests)
  BY ListFacts
<1>3. /\ t \in Seq(Requests) /\ Len(t) = Len(s) + 1 /\ t # <<>>
      /\ \A i \in 1 .. Len(s) : t[i] = s[i]
      /\ t[Len(s) + 1] = x
  BY <1>1, <1>2, AppendProperties
<1>4. \A i \in 1 .. Len(s) : t[i] # x
  BY <1>3 DEF ToSet
<1>5. Uniq(t)
  BY <1>2, <1>3, <1>4 DEF Uniq, List
<1>6. ToSet(t) = ToSet(s) \cup {x}
  BY <1>2, <1>3 DEF ToSet
<1> QED BY <1>1, <1>3, <1>5, <1>6 DEF List

LEMMA ConcatList ==
  ASSUME NEW s, List(s), NEW t, List(t), ToSet(s) \cap ToSet(t) = {}
  PROVE  /\ List(s \o t) /\ Len(s \o t) = Len(s) + Len(t)
         /\ ToSet(s \o t) = ToSet(s) \cup ToSet(t)
<1>1. PICK u : u = s \o t
  OBVIOUS
<1>2. Len(s) \in Nat /\ Len(t) \in Nat /\ s \in Seq(Requests) /\ t \in Seq(Requests)
  BY ListFacts
<1>3. /\ u \in Seq(Requests) /\ Len(u) = Len(s) + Len(t)
      /\ \A i \in 1 .. Len(s) + Len(t) : u[i] = IF i <= Len(s) THEN s[i] ELSE t[i - Len(s)]
  BY <1>1, <1>2, ConcatProperties
<1>4. \A i \in 1 .. Len(s) : u[i] = s[i] /\ u[i] \in ToSet(s)
  BY <1>2, <1>3 DEF ToSet
<1>5. \A i \in 1 .. Len(u) : i > Len(s) =>
         i - Len(s) \in 1 .. Len(t) /\ u[i] = t[i - Len(s)] /\ u[i] \in ToSet(t)
  BY <1>2, <1>3 DEF ToSet
<1>6. Uniq(u)
  <2>1. ASSUME NEW i \in 1 .. Len(u), NEW j \in 1 .. Len(u), u[i] = u[j] PROVE i = j
    <3>1. CASE i <= Len(s) /\ j <= Len(s)
      BY <1>2, <1>3, <1>4, <2>1, <3>1 DEF List, Uniq
    <3>2. CASE i > Len(s) /\ j > Len(s)
      <4>1. i - Len(s) = j - Len(s)
        BY <1>5, <2>1, <3>2 DEF List, Uniq
      <4> QED BY <1>2, <1>3, <4>1
    <3>3. CASE ~ (i <= Len(s) <=> j <= Len(s))
      <4>1. u[i] \in ToSet(s) \cap ToSet(t) \/ u[j] \in ToSet(s) \cap ToSet(t)
        BY <1>2, <1>3, <1>4, <1>5, <2>1, <3>3
      <4> QED BY <4>1
    <3> QED BY <1>2, <1>3, <3>1, <3>2, <3>3
  <2> QED BY <2>1 DEF Uniq
<1>7. ToSet(u) = ToSet(s) \cup ToSet(t)
  <2>1. ASSUME NEW i \in 1 .. Len(u) PROVE u[i] \in ToSet(s) \cup ToSet(t)
    BY <1>2, <1>3, <1>4, <1>5
  <2>2. ASSUME NEW i \in 1 .. Len(s) PROVE s[i] \in ToSet(u)
    BY <1>2, <1>3, <1>4 DEF ToSet
  <2>3. ASSUME NEW i \in 1 .. Len(t) PROVE t[i] \in ToSet(u)
    <3>1. Len(s) + i \in 1 .. Len(u) /\ Len(s) + i > Len(s) /\ (Len(s) + i) - Len(s) = i
      BY <1>2, <1>3
    <3>2. u[Len(s) + i] = t[i]
      BY <1>5, <3>1
    <3> QED BY <3>1, <3>2 DEF ToSet
  <2> QED BY <2>1, <2>2, <2>3 DEF ToSet
<1> QED BY <1>1, <1>3, <1>6, <1>7 DEF List

(* A part of a list. *)
LEMMA PartList ==
  ASSUME NEW s, List(s), NEW m \in Nat \ {0}, NEW n \in Nat, n <= Len(s), m <= n + 1
  PROVE  /\ List(SubSeq(s, m, n)) /\ Len(SubSeq(s, m, n)) = n - m + 1
         /\ ToSet(SubSeq(s, m, n)) = {s[i] : i \in m .. n}
<1>1. PICK t : t = SubSeq(s, m, n)
  OBVIOUS
<1>2. Len(s) \in Nat /\ \A i \in 1 .. Len(s) : s[i] \in Requests
  BY ListFacts
<1>3. \A i \in m .. n : s[i] \in Requests
  BY <1>2
<1>4. /\ t \in Seq(Requests)
      /\ Len(t) = IF m <= n THEN n - m + 1 ELSE 0
      /\ \A i \in 1 .. n - m + 1 : t[i] = s[m + i - 1]
  BY <1>1, <1>3, SubSeqProperties
<1>5. Len(t) = n - m + 1
  BY <1>4
<1>6. Uniq(t)
  <2>1. ASSUME NEW i \in 1 .. Len(t), NEW j \in 1 .. Len(t), t[i] = t[j] PROVE i = j
    <3>1. m + i - 1 \in 1 .. Len(s) /\ m + j - 1 \in 1 .. Len(s) /\ s[m + i - 1] = s[m + j - 1]
      BY <1>2, <1>4, <1>5, <2>1
    <3>2. m + i - 1 = m + j - 1
      BY <3>1 DEF List, Uniq
    <3> QED BY <1>5, <3>2
  <2> QED BY <2>1 DEF Uniq
<1>7. ToSet(t) = {s[i] : i \in m .. n}
  <2>1. ASSUME NEW i \in 1 .. Len(t) PROVE t[i] \in {s[k] : k \in m .. n}
    <3>1. m + i - 1 \in m .. n
      BY <1>5
    <3> QED BY <1>4, <1>5, <3>1
  <2>2. ASSUME NEW k \in m .. n PROVE s[k] \in ToSet(t)
    <3>1. k - m + 1 \in 1 .. Len(t) /\ m + (k - m + 1) - 1 = k
      BY <1>5
    <3>2. t[k - m + 1] = s[k]
      BY <1>4, <1>5, <3>1
    <3> QED BY <3>1, <3>2 DEF ToSet
  <2> QED BY <2>1, <2>2 DEF ToSet
<1> QED BY <1>1, <1>4, <1>5, <1>6, <1>7 DEF List

LEMMA WithoutList ==
  ASSUME NEW s, List(s), NEW r \in ToSet(s)
  PROVE  List(Without(s, r)) /\ ToSet(Without(s, r)) = ToSet(s) \ {r}
         /\ Len(Without(s, r)) = Len(s) - 1
<1>1. PICK i : i = CHOOSE j \in 1 .. Len(s) : s[j] = r
  OBVIOUS
<1>2. i \in 1 .. Len(s) /\ s[i] = r
  BY <1>1 DEF ToSet
<1>3. Len(s) \in Nat
  BY ListFacts
<1>4. PICK a, b : a = SubSeq(s, 1, i - 1) /\ b = SubSeq(s, i + 1, Len(s))
  OBVIOUS
<1>5. List(a) /\ Len(a) = i - 1 /\ ToSet(a) = {s[j] : j \in 1 .. i - 1}
  <2>1. i - 1 \in Nat /\ i - 1 <= Len(s) /\ 1 <= (i - 1) + 1 /\ i - 1 - 1 + 1 = i - 1
    BY <1>2, <1>3
  <2> QED BY <1>4, <2>1, PartList
<1>6. List(b) /\ Len(b) = Len(s) - i /\ ToSet(b) = {s[j] : j \in i + 1 .. Len(s)}
  <2>1. /\ i + 1 \in Nat \ {0} /\ i + 1 <= Len(s) + 1 /\ Len(s) <= Len(s)
        /\ Len(s) - (i + 1) + 1 = Len(s) - i
    BY <1>2, <1>3
  <2>2. PICK m, n : m = i + 1 /\ n = Len(s)
    OBVIOUS
  <2>3. m \in Nat \ {0} /\ n \in Nat /\ n <= Len(s) /\ m <= n + 1
    BY <1>3, <2>1, <2>2
  <2>4. /\ List(SubSeq(s, m, n)) /\ Len(SubSeq(s, m, n)) = n - m + 1
        /\ ToSet(SubSeq(s, m, n)) = {s[j] : j \in m .. n}
    BY <2>3, PartList
  <2> QED BY <1>4, <2>1, <2>2, <2>4
<1>7. \A j, k \in 1 .. Len(s) : s[j] = s[k] => j = k
  BY DEF List, Uniq
<1>8. ToSet(a) \cap ToSet(b) = {}
  <2>1. ASSUME NEW j \in 1 .. i - 1, NEW k \in i + 1 .. Len(s) PROVE s[j] # s[k]
    <3>1. j \in 1 .. Len(s) /\ k \in 1 .. Len(s) /\ j # k
      BY <1>2, <1>3
    <3> QED BY <1>7, <3>1
  <2> QED BY <1>5, <1>6, <2>1
<1>9. /\ List(a \o b) /\ Len(a \o b) = Len(a) + Len(b) /\ ToSet(a \o b) = ToSet(a) \cup ToSet(b)
  BY <1>5, <1>6, <1>8, ConcatList
<1>10. ToSet(a) \cup ToSet(b) = ToSet(s) \ {r}
  <2>1. ASSUME NEW x \in ToSet(a) \cup ToSet(b) PROVE x \in ToSet(s) \ {r}
    <3>1. PICK j \in 1 .. Len(s) : j # i /\ x = s[j]
      BY <1>2, <1>3, <1>5, <1>6
    <3> QED BY <1>2, <1>7, <3>1 DEF ToSet
  <2>2. ASSUME NEW x \in ToSet(s) \ {r} PROVE x \in ToSet(a) \cup ToSet(b)
    <3>1. PICK j \in 1 .. Len(s) : x = s[j]
      BY DEF ToSet
    <3>2. j \in 1 .. i - 1 \/ j \in i + 1 .. Len(s)
      BY <1>2, <1>3, <3>1
    <3> QED BY <1>5, <1>6, <3>1, <3>2
  <2> QED BY <2>1, <2>2
<1>11. Without(s, r) = a \o b
  BY <1>1, <1>4 DEF Without
<1>12. Len(a) + Len(b) = Len(s) - 1
  BY <1>2, <1>3, <1>5, <1>6
<1> QED BY <1>9, <1>10, <1>11, <1>12

LEMMA TailList ==
  ASSUME NEW s, List(s), s # <<>>
  PROVE  /\ List(Tail(s)) /\ Len(Tail(s)) = Len(s) - 1 /\ Head(s) \in ToSet(s)
         /\ Head(s) \in Requests /\ ToSet(Tail(s)) = ToSet(s) \ {Head(s)}
<1>1. Len(s) \in Nat \ {0} /\ s \in Seq(Requests)
  BY ListFacts
<1>2. PICK t : t = Tail(s)
  OBVIOUS
<1>3. /\ t \in Seq(Requests) /\ Len(t) = Len(s) - 1 /\ Head(s) = s[1] /\ Head(s) \in Requests
      /\ \A i \in 1 .. Len(s) - 1 : t[i] = s[i + 1]
  BY <1>1, <1>2, HeadTailProperties
<1>4. \A j, k \in 1 .. Len(s) : s[j] = s[k] => j = k
  BY DEF List, Uniq
<1>5. Uniq(t)
  <2>1. ASSUME NEW i \in 1 .. Len(t), NEW j \in 1 .. Len(t), t[i] = t[j] PROVE i = j
    <3>1. i + 1 \in 1 .. Len(s) /\ j + 1 \in 1 .. Len(s) /\ s[i + 1] = s[j + 1]
      BY <1>1, <1>3, <2>1
    <3>2. i + 1 = j + 1
      BY <1>4, <3>1
    <3> QED BY <1>1, <1>3, <3>2
  <2> QED BY <2>1 DEF Uniq
<1>6. ToSet(t) = ToSet(s) \ {Head(s)}
  <2>1. ASSUME NEW i \in 1 .. Len(t) PROVE t[i] \in ToSet(s) \ {Head(s)}
    <3>1. i + 1 \in 1 .. Len(s) /\ i + 1 # 1 /\ 1 \in 1 .. Len(s) /\ t[i] = s[i + 1]
      BY <1>1, <1>3
    <3> QED BY <1>3, <1>4, <3>1 DEF ToSet
  <2>2. ASSUME NEW k \in 1 .. Len(s), s[k] # Head(s) PROVE s[k] \in ToSet(t)
    <3>1. k - 1 \in 1 .. Len(t) /\ (k - 1) + 1 = k
      BY <1>1, <1>3, <2>2
    <3>2. t[k - 1] = s[k]
      BY <1>3, <3>1
    <3> QED BY <3>1, <3>2 DEF ToSet
  <2> QED BY <2>1, <2>2 DEF ToSet
<1>7. Head(s) \in ToSet(s)
  BY <1>1, <1>3 DEF ToSet
<1> QED BY <1>2, <1>3, <1>5, <1>6, <1>7 DEF List

LEMMA CountList ==
  ASSUME NEW s, List(s), NEW r
  PROVE  Count(s, r) = IF r \in ToSet(s) THEN 1 ELSE 0
<1> DEFINE at == {i \in 1 .. Len(s) : s[i] = r}
<1>1. CASE r \in ToSet(s)
  <2>1. PICK i \in 1 .. Len(s) : s[i] = r
    BY <1>1 DEF ToSet
  <2>2. at = {i}
    BY <2>1 DEF List, Uniq
  <2> QED BY <1>1, <2>2, FS_Singleton DEF Count
<1>2. CASE r \notin ToSet(s)
  <2>1. at = {}
    BY <1>2 DEF ToSet
  <2> QED BY <1>2, <2>1, FS_EmptySet DEF Count
<1> QED BY <1>1, <1>2

-----------------------------------------------------------------------------
(* What the operations on the pool and the prefix cache do to who has a cache. *)

Statuses == {"closed", "open", "failed"}
NoneOpened ==
    /\ status' \in [Requests -> Statuses]
    /\ \A r \in Requests : status'[r] # "closed" => status[r] # "closed"

LEMMA ReleaseStatus ==
  ASSUME EngineTypes, NEW c \in Requests, Release(c)
  PROVE  NoneOpened /\ status'[c] = "closed"
<1>1. status' = [status EXCEPT ![c] = "closed"] /\ status \in [Requests -> Statuses]
  BY DEF Release, Free, EngineTypes, Statuses
<1> QED BY <1>1 DEF NoneOpened, Statuses

LEMMA OpenStatus ==
  ASSUME EngineTypes, NEW c \in Requests, Open(c)
  PROVE  /\ status' \in [Requests -> Statuses]
         /\ \A r \in Requests \ {c} : status'[r] = status[r]
<1>1. status' = [status EXCEPT ![c] = "open"] /\ status \in [Requests -> Statuses]
  BY DEF Open, Allocate, EngineTypes, Statuses
<1> QED BY <1>1 DEF Statuses

LEMMA UpdateStatus ==
  ASSUME EngineTypes, NEW c \in Requests, NEW new, UpdateFits(c, new) \/ UpdateRaises(c, new)
  PROVE  NoneOpened
<1>1. /\ status \in [Requests -> Statuses] /\ status[c] = "open"
      /\ status' = status \/ status' = [status EXCEPT ![c] = "failed"]
  BY DEF UpdateFits, UpdateRaises, EngineTypes, Statuses
<1> QED BY <1>1 DEF NoneOpened, Statuses

LEMMA SameStatus ==
  ASSUME EngineTypes, UNCHANGED status
  PROVE  NoneOpened
BY DEF NoneOpened, EngineTypes, Statuses

-----------------------------------------------------------------------------
(* A step that moves no request.  Only the place of step() in its method, the
   lists of cancellations, the counters and the caches may change. *)
LEMMA SameListsInv ==
  ASSUME Inv, EngineTypes', Control', NoneOpened, pc # "sample", Sampling',
         UNCHANGED <<waiting, running, admitted, cur, still, reason, outcomes, submitted>>,
         CancelTakesEffect'
  PROVE  Inv'
<1>0. /\ ToSet(waiting)' = ToSet(waiting) /\ ToSet(running)' = ToSet(running)
      /\ ToSet(admitted)' = ToSet(admitted)
  BY DEF ToSet
<1>1. Lists'
  BY DEF Inv, Lists, List, Uniq
<1>2. Apart' /\ OutcomeOnce'
  BY <1>0 DEF Inv, Apart, OutcomeOnce
<1>3. Tracked'
  BY <1>0 DEF Inv, Tracked
<1>4. OnlyBatchHoldsBlocks'
  BY <1>0 DEF Inv, OnlyBatchHoldsBlocks, NoneOpened
<1> QED BY <1>1, <1>2, <1>3, <1>4 DEF Inv

LEMMA StillInv ==
  ASSUME Inv, EngineTypes', Control', NoneOpened,
         pc # "sample", pc' # "sample",
         UNCHANGED <<waiting, running, admitted, cur, still, reason, outcomes, submitted>>,
         CancelTakesEffect'
  PROVE  Inv'
<1>1. Sampling'
  BY DEF Inv, Sampling
<1> QED BY <1>1, SameListsInv

(* The event loop. *)
LEMMA AddRequestInv ==
  ASSUME Inv, NEW r \in Requests, AddRequest(r)
  PROVE  Inv'
<1>a. EngineTypes /\ Lists /\ Apart /\ Control /\ Sampling /\ Tracked
      /\ OutcomeOnce /\ OnlyBatchHoldsBlocks /\ CancelTakesEffect
  BY DEF Inv
<1>0. /\ r \notin submitted /\ submitted' = submitted \cup {r} /\ reason[r] = "none"
      /\ UNCHANGED <<pc, running, admitted, cur, wanted, idx, still, hungUp, cancels, output,
                     observed, status>>
      /\ r \notin ToSet(waiting) /\ r \notin ToSet(running) /\ r \notin ToSet(admitted) /\ r # cur
  BY <1>a DEF AddRequest, pcVars, kvVars, Tracked
<1>n. NoRequest \notin Requests /\ r # NoRequest
  BY LimitsAssumption
<1>s. ToSet(running)' = ToSet(running) /\ ToSet(admitted)' = ToSet(admitted)
      /\ ToSet(still)' = ToSet(still)
  BY <1>0 DEF ToSet
<1>1. CASE waiting' = Append(waiting, r) /\ UNCHANGED <<reason, outcomes>>
  <2>1. List(waiting') /\ ToSet(waiting') = ToSet(waiting) \cup {r}
    BY <1>0, <1>1, <1>a, AppendList DEF Lists
  <2>2. ToSet(waiting)' = ToSet(waiting) \cup {r} /\ List(waiting)'
    BY <2>1 DEF ToSet, List, Uniq
  <2>3. EngineTypes'
    BY <1>0, <1>1, <1>a DEF EngineTypes
  <2>4. Lists' /\ Apart' /\ Control' /\ Sampling'
    <3>1. Lists'
      BY <1>0, <1>a, <2>2 DEF Lists, List, Uniq
    <3>2. Apart'
      BY <1>0, <1>s, <1>a, <2>2 DEF Apart
    <3>3. Control' /\ Sampling'
      BY <1>0, <1>1, <1>s, <1>a DEF Control, Sampling
    <3> QED BY <3>1, <3>2, <3>3
  <2>5. Tracked'
    BY <1>0, <1>1, <1>s, <1>a, <2>2 DEF Tracked
  <2>6. OutcomeOnce' /\ OnlyBatchHoldsBlocks' /\ CancelTakesEffect'
    BY <1>0, <1>1, <1>s, <1>a DEF OutcomeOnce, OnlyBatchHoldsBlocks, CancelTakesEffect
  <2> QED BY <2>3, <2>4, <2>5, <2>6 DEF Inv
<1>2. CASE Finish(r, "rejected") /\ UNCHANGED waiting
  <2>1. /\ reason' = [reason EXCEPT ![r] = "rejected"]
        /\ outcomes' = [outcomes EXCEPT ![r] = outcomes[r] + 1]
    BY <1>2 DEF Finish
  <2>2. /\ reason'[r] = "rejected" /\ outcomes[r] = 0 /\ outcomes'[r] = 1
        /\ \A q \in Requests \ {r} : reason'[q] = reason[q] /\ outcomes'[q] = outcomes[q]
    BY <1>0, <1>a, <2>1 DEF EngineTypes, OutcomeOnce
  <2>3. EngineTypes'
    BY <1>0, <1>a, <2>1 DEF EngineTypes, Reasons
  <2>4. ToSet(waiting)' = ToSet(waiting)
    BY <1>2 DEF ToSet
  <2>5. Lists' /\ Apart' /\ Control'
    BY <1>0, <1>2, <1>s, <1>a, <2>4 DEF Lists, List, Uniq, Apart, Control
  <2>6. Sampling'
    <3>1. \A i \in 1 .. Len(running) : running[i] \in Requests \ {r}
      BY <1>0, <1>a, ListFacts DEF Lists
    <3> QED BY <1>0, <1>s, <1>a, <2>2, <3>1 DEF Sampling
  <2>7. Tracked'
    BY <1>0, <1>2, <1>s, <1>a, <2>2, <2>4 DEF Tracked
  <2>8. OutcomeOnce' /\ OnlyBatchHoldsBlocks' /\ CancelTakesEffect'
    BY <1>0, <1>s, <1>a, <2>2, SMTT(40) DEF OutcomeOnce, OnlyBatchHoldsBlocks, CancelTakesEffect, EngineTypes
  <2> QED BY <2>3, <2>5, <2>6, <2>7, <2>8 DEF Inv
<1> QED BY <1>1, <1>2 DEF AddRequest

LEMMA RequestCancelInv ==
  ASSUME Inv, NEW r \in Requests, RequestCancel(r)
  PROVE  Inv'
<1>1. /\ r \in submitted /\ cancels' = cancels \cup {r} /\ hungUp' = hungUp \cup {r}
      /\ UNCHANGED <<pc, waiting, running, admitted, cur, wanted, idx, still, submitted,
                     output, reason, outcomes, observed, status>>
  BY DEF RequestCancel, pcVars, kvVars, engineVars, resultVars
<1>2. EngineTypes'
  BY <1>1 DEF Inv, EngineTypes
<1>s. /\ ToSet(waiting)' = ToSet(waiting) /\ ToSet(running)' = ToSet(running)
      /\ ToSet(admitted)' = ToSet(admitted) /\ ToSet(still)' = ToSet(still)
  BY <1>1 DEF ToSet
<1>3. Lists' /\ Apart' /\ Control' /\ Sampling' /\ Tracked'
  <2>1. Lists'
    BY <1>1 DEF Inv, Lists, List, Uniq
  <2>2. Apart' /\ Tracked'
    BY <1>1, <1>s DEF Inv, Apart, Tracked
  <2>3. Control' /\ Sampling'
    BY <1>1, <1>s DEF Inv, Control, Sampling
  <2> QED BY <2>1, <2>2, <2>3
<1>4. OutcomeOnce' /\ OnlyBatchHoldsBlocks' /\ CancelTakesEffect'
  BY <1>1 DEF Inv, OutcomeOnce, OnlyBatchHoldsBlocks, CancelTakesEffect, ToSet
<1> QED BY <1>2, <1>3, <1>4 DEF Inv

(* apply_cancellations. *)
LEMMA StepBeginInv == ASSUME Inv, StepBegin PROVE Inv'
<1>1. /\ pc = "idle" /\ pc' = "cancel" /\ wanted' = cancels /\ cancels' = {} /\ wanted = {}
      /\ UNCHANGED <<waiting, running, admitted, cur, idx, still, hungUp, submitted,
                     output, reason, outcomes, observed, status>>
  BY DEF StepBegin, pcVars, kvVars, resultVars, loopVars, Inv, Control
<1>2. EngineTypes' /\ Control'
  BY <1>1 DEF Inv, EngineTypes, Control, Pcs, Prefilling
<1>3. CancelTakesEffect'
  BY <1>1 DEF Inv, CancelTakesEffect
<1> QED BY <1>1, <1>2, <1>3, SameStatus, StillInv DEF Inv

LEMMA IdleCancelInv == ASSUME Inv, IdleCancel PROVE Inv'
<1>1. /\ pc = "idle" /\ waiting = <<>> /\ running = <<>> /\ cancels' = {}
      /\ UNCHANGED <<pc, waiting, running, admitted, cur, wanted, idx, still, hungUp, submitted,
                     output, reason, outcomes, observed, status>>
  BY DEF IdleCancel, HasWork, pcVars, kvVars, engineVars, resultVars, loopVars
<1>2. admitted = <<>> /\ cur = NoRequest /\ NoRequest \notin Requests
  BY <1>1, LimitsAssumption DEF Inv, Control, Prefilling
<1>3. EngineTypes' /\ Control'
  BY <1>1 DEF Inv, EngineTypes, Control
<1>4. \A r \in submitted : reason[r] # "none"
  BY <1>1, <1>2, EmptyList DEF Inv, EngineTypes, Tracked
<1>5. CancelTakesEffect'
  BY <1>1, <1>4 DEF Inv, EngineTypes, CancelTakesEffect
<1> QED BY <1>1, <1>3, <1>5, SameStatus, StillInv DEF Inv

LEMMA CancelDoneInv == ASSUME Inv, CancelDone PROVE Inv'
<1>1. /\ pc = "cancel" /\ pc' = "admit" /\ wanted' = {}
      /\ wanted \cap (ToSet(running) \cup ToSet(waiting)) = {}
      /\ UNCHANGED <<waiting, running, admitted, cur, idx, still, hungUp, submitted, cancels,
                     output, reason, outcomes, observed, status>>
  BY DEF CancelDone, pcVars, kvVars, resultVars, loopVars
<1>2. admitted = <<>> /\ cur = NoRequest /\ NoRequest \notin Requests
  BY <1>1, LimitsAssumption DEF Inv, Control, Prefilling
<1>3. EngineTypes' /\ Control'
  BY <1>1 DEF Inv, EngineTypes, Control, Pcs, Prefilling
<1>4. \A r \in wanted : reason[r] # "none"
  BY <1>1, <1>2, EmptyList DEF Inv, EngineTypes, Tracked
<1>5. CancelTakesEffect'
  BY <1>1, <1>4 DEF Inv, CancelTakesEffect
<1> QED BY <1>1, <1>3, <1>5, SameStatus, StillInv DEF Inv

(* Outside of the sampling loop: a request gets its outcome and leaves its place. *)
LEMMA RetireInv ==
  ASSUME Inv, NEW r \in Requests, NEW why \in Reasons \ {"none"}, Finish(r, why),
         r \in submitted, reason[r] = "none", pc # "sample", pc' # "sample",
         EngineTypes', Lists', Control', NoneOpened, status'[r] = "closed",
         ToSet(waiting)' = ToSet(waiting) \ {r}, ToSet(running)' = ToSet(running) \ {r},
         ToSet(admitted)' = ToSet(admitted) \ {r},
         cur' = IF cur = r THEN NoRequest ELSE cur,
         UNCHANGED <<still, submitted, hungUp, wanted, cancels>>
  PROVE  Inv'
<1>a. /\ EngineTypes /\ Apart /\ Sampling /\ Tracked
      /\ OutcomeOnce /\ OnlyBatchHoldsBlocks /\ CancelTakesEffect
  BY DEF Inv
<1>n. NoRequest \notin Requests
  BY LimitsAssumption
<1>1. /\ reason'[r] = why /\ why # "none" /\ outcomes'[r] = outcomes[r] + 1
      /\ \A q \in Requests \ {r} : reason'[q] = reason[q] /\ outcomes'[q] = outcomes[q]
  BY <1>a DEF Finish, EngineTypes
<1>w. ToSet(waiting) \subseteq Requests /\ ToSet(running) \subseteq Requests
      /\ ToSet(admitted) \subseteq Requests
  BY ListFacts DEF Inv, Lists
<1>2. Apart'
  <2>1. CASE cur = r
    BY <1>a, <1>n, <1>w, <2>1 DEF Apart
  <2>2. CASE cur # r
    BY <1>a, <2>2 DEF Apart
  <2> QED BY <2>1, <2>2
<1>3. Sampling'
  BY <1>a DEF Sampling
<1>4. OutcomeOnce'
  BY <1>1, <1>a DEF OutcomeOnce
<1>5. Tracked'
  <2> SUFFICES ASSUME NEW q \in Requests
               PROVE /\ q \in submitted /\ reason'[q] = "none" =>
                          q \in ToSet(waiting)' \cup ToSet(running)' \cup ToSet(admitted)' \cup {cur'}
                     /\ q \in ToSet(waiting)' \cup ToSet(admitted)' \cup {cur'} =>
                          q \in submitted /\ reason'[q] = "none"
                     /\ q \in ToSet(running)' => q \in submitted /\ reason'[q] = "none"
                     /\ q \notin submitted => reason'[q] = "none"
    BY DEF Tracked
  <2>1. CASE q = r
    BY <1>1, <1>n, <2>1
  <2>2. CASE q # r
    <3>1. q = cur' <=> q = cur
      BY <1>n, <2>2
    <3> QED BY <1>1, <1>a, <2>2, <3>1 DEF Tracked
  <2> QED BY <2>1, <2>2
<1>6. OnlyBatchHoldsBlocks'
  <2> SUFFICES ASSUME NEW q \in Requests, status'[q] # "closed"
               PROVE  reason'[q] = "none" /\ q \in ToSet(running)' \cup ToSet(admitted)' \cup {cur'}
    BY DEF OnlyBatchHoldsBlocks
  <2>1. q # r /\ status[q] # "closed"
    BY DEF NoneOpened
  <2> QED BY <1>1, <1>a, <2>1 DEF OnlyBatchHoldsBlocks
<1>7. CancelTakesEffect'
  BY <1>1, <1>a DEF CancelTakesEffect, EngineTypes
<1> QED BY <1>2, <1>3, <1>4, <1>5, <1>6, <1>7 DEF Inv

(* Outside of the sampling loop: a request changes places. *)
LEMMA MoveInv ==
  ASSUME Inv, EngineTypes', Lists', Apart', Control', OnlyBatchHoldsBlocks',
         pc # "sample", pc' # "sample",
         \A r \in Requests :
            r \in ToSet(waiting)' \cup ToSet(running)' \cup ToSet(admitted)' \cup {cur'}
            <=> r \in ToSet(waiting) \cup ToSet(running) \cup ToSet(admitted) \cup {cur},
         UNCHANGED <<still, submitted, hungUp, wanted, cancels, reason, outcomes>>
  PROVE  Inv'
<1>1. Sampling' /\ OutcomeOnce' /\ CancelTakesEffect'
  BY DEF Inv, Sampling, OutcomeOnce, CancelTakesEffect
<1>2. Tracked'
  BY DEF Inv, Tracked
<1> QED BY <1>1, <1>2 DEF Inv

LEMMA CancelRunningInv == ASSUME Inv, NEW r \in Requests, CancelRunning(r) PROVE Inv'
<1>a. EngineTypes /\ Lists /\ Apart /\ Control /\ Tracked
  BY DEF Inv
<1>1. /\ pc = "cancel" /\ r \in ToSet(running) /\ Release(r) /\ Finish(r, "cancelled")
      /\ running' = Without(running, r)
      /\ UNCHANGED <<pc, waiting, admitted, cur, wanted, idx, still, hungUp, submitted,
                     output, cancels, observed>>
  BY DEF CancelRunning, loopVars
<1>2. /\ List(running') /\ ToSet(running') = ToSet(running) \ {r}
      /\ Len(running') = Len(running) - 1
  BY <1>1, <1>a, WithoutList DEF Lists
<1>3. NoneOpened /\ status'[r] = "closed"
  BY <1>1, <1>a, ReleaseStatus
<1>4. r \in submitted /\ reason[r] = "none" /\ r # cur /\ r \notin ToSet(waiting)
      /\ r \notin ToSet(admitted)
  BY <1>1, <1>a DEF Tracked, Apart
<1>5. /\ ToSet(waiting)' = ToSet(waiting) \ {r} /\ ToSet(running)' = ToSet(running) \ {r}
      /\ ToSet(admitted)' = ToSet(admitted) \ {r}
  <2>1. ToSet(waiting)' = ToSet(waiting) /\ ToSet(admitted)' = ToSet(admitted)
    BY <1>1 DEF ToSet
  <2>2. ToSet(running)' = ToSet(running')
    BY DEF ToSet
  <2> QED BY <1>2, <1>4, <2>1, <2>2
<1>6. EngineTypes'
  <2>1. reason' \in [Requests -> Reasons] /\ outcomes' \in [Requests -> Nat]
    BY <1>1, <1>a DEF EngineTypes, Finish, Reasons
  <2>2. status' \in [Requests -> {"closed", "open", "failed"}]
    BY <1>3 DEF NoneOpened, Statuses
  <2> QED BY <1>1, <1>a, <2>1, <2>2 DEF EngineTypes
<1>7. Lists'
  BY <1>1, <1>2, <1>a DEF Lists, List, Uniq
<1>8. Control'
  <2>1. Len(running) \in Nat /\ Len(admitted) \in Nat
    BY <1>a, ListFacts DEF Lists
  <2> QED BY <1>1, <1>2, <1>a, <2>1, LimitsAssumption DEF Control, Prefilling
<1> QED BY <1>1, <1>3, <1>4, <1>5, <1>6, <1>7, <1>8, RetireInv DEF Reasons

(* A queued request has no cache. *)
LEMMA QueuedClosed ==
  ASSUME Inv, NEW r \in ToSet(waiting)
  PROVE  /\ r \in Requests /\ status[r] = "closed" /\ r \in submitted /\ reason[r] = "none"
         /\ r # cur /\ r \notin ToSet(running) /\ r \notin ToSet(admitted)
<1>1. r \in Requests
  BY ListFacts DEF Inv, Lists
<1>2. r # cur /\ r \notin ToSet(running) /\ r \notin ToSet(admitted)
  BY DEF Inv, Apart
<1> QED BY <1>1, <1>2 DEF Inv, Tracked, OnlyBatchHoldsBlocks

LEMMA CancelWaitingInv == ASSUME Inv, NEW r \in Requests, CancelWaiting(r) PROVE Inv'
<1>a. EngineTypes /\ Lists /\ Apart /\ Control /\ Tracked
  BY DEF Inv
<1>1. /\ pc = "cancel" /\ r \in ToSet(waiting) /\ Finish(r, "cancelled")
      /\ waiting' = Without(waiting, r)
      /\ UNCHANGED <<pc, running, admitted, cur, wanted, idx, still, hungUp, submitted,
                     output, cancels, observed, status>>
  BY DEF CancelWaiting, loopVars, pcVars, kvVars
<1>2. List(waiting') /\ ToSet(waiting') = ToSet(waiting) \ {r}
  BY <1>1, <1>a, WithoutList DEF Lists
<1>4. /\ r \in submitted /\ reason[r] = "none" /\ r # cur /\ r \notin ToSet(running)
      /\ r \notin ToSet(admitted) /\ status[r] = "closed"
  BY <1>1, QueuedClosed
<1>3. NoneOpened /\ status'[r] = "closed"
  BY <1>1, <1>4, <1>a, SameStatus
<1>5. /\ ToSet(waiting)' = ToSet(waiting) \ {r} /\ ToSet(running)' = ToSet(running) \ {r}
      /\ ToSet(admitted)' = ToSet(admitted) \ {r}
  BY <1>1, <1>2, <1>4 DEF ToSet
<1>6. EngineTypes'
  BY <1>1, <1>3, <1>a DEF EngineTypes, Finish, Reasons, NoneOpened, Statuses
<1>7. Lists'
  BY <1>1, <1>2, <1>a DEF Lists, List, Uniq
<1>8. Control'
  BY <1>1, <1>a DEF Control, Prefilling
<1> QED BY <1>1, <1>3, <1>4, <1>5, <1>6, <1>7, <1>8, RetireInv DEF Reasons

(* _admit. *)
LEMMA AdmitEvictInv == ASSUME Inv, AdmitEvict PROVE Inv'
<1>1. /\ pc = "admit" /\ UNCHANGED <<pc, waiting, running, admitted, cur, wanted, idx, still,
                                     hungUp, submitted, output, reason, outcomes, cancels, observed, status>>
  BY DEF AdmitEvict, EnsureFree, Forget, engineVars, loopVars, resultVars
<1>2. EngineTypes' /\ Control' /\ CancelTakesEffect'
  BY <1>1 DEF Inv, EngineTypes, Control, CancelTakesEffect
<1> QED BY <1>1, <1>2, SameStatus, StillInv DEF Inv

LEMMA AdmitEndInv == ASSUME Inv, AdmitEnd PROVE Inv'
<1>a. EngineTypes /\ Lists /\ Apart /\ Control /\ OnlyBatchHoldsBlocks
  BY DEF Inv
<1>1. /\ pc = "admit" /\ running' = running \o admitted /\ admitted' = <<>>
      /\ pc' = IF running' = <<>> THEN "idle" ELSE "decode"
      /\ UNCHANGED <<waiting, cur, wanted, idx, still, hungUp, submitted, output, reason,
                     outcomes, cancels, observed, status>>
  BY DEF AdmitEnd, pcVars, kvVars, loopVars, resultVars
<1>2. /\ List(running') /\ Len(running') = Len(running) + Len(admitted)
      /\ ToSet(running') = ToSet(running) \cup ToSet(admitted)
  BY <1>1, <1>a, ConcatList DEF Lists, Apart
<1>3. /\ ToSet(running)' = ToSet(running) \cup ToSet(admitted) /\ ToSet(admitted)' = {}
      /\ ToSet(waiting)' = ToSet(waiting)
  BY <1>1, <1>2, EmptyList DEF ToSet
<1>4. EngineTypes'
  BY <1>1, <1>a DEF EngineTypes, Pcs
<1>5. Lists'
  BY <1>1, <1>2, <1>a, EmptyList DEF Lists, List, Uniq
<1>6. Apart' /\ OnlyBatchHoldsBlocks'
  BY <1>1, <1>3, <1>a DEF Apart, OnlyBatchHoldsBlocks
<1>7. Control'
  <2>1. Len(running) \in Nat /\ Len(admitted) \in Nat /\ Len(admitted') = 0
    BY <1>1, <1>a, ListFacts, EmptyList DEF Lists
  <2> QED BY <1>1, <1>2, <1>a, <2>1, LimitsAssumption DEF Control, Prefilling
<1> QED BY <1>1, <1>3, <1>4, <1>5, <1>6, <1>7, MoveInv

LEMMA AdmitStartInv == ASSUME Inv, AdmitStart PROVE Inv'
<1>a. EngineTypes /\ Lists /\ Apart /\ Control /\ OnlyBatchHoldsBlocks
  BY DEF Inv
<1>b. PICK r : r = Head(waiting)
  OBVIOUS
<1>1. /\ pc = "admit" /\ waiting # <<>> /\ Len(running) + Len(admitted) < MaxBatch
      /\ waiting' = Tail(waiting)
      /\ UNCHANGED <<running, admitted, wanted, idx, still, hungUp, submitted, output,
                     cancels, observed>>
      /\ \/ Finish(r, "rejected") /\ UNCHANGED <<status, cur, pc>>
         \/ Open(r) /\ cur' = r /\ pc' = "match" /\ UNCHANGED <<reason, outcomes>>
  BY <1>b DEF AdmitStart, MayAdmit, BatchSize, pcVars, kvVars, loopVars
<1>2. /\ List(waiting') /\ r \in ToSet(waiting) /\ ToSet(waiting') = ToSet(waiting) \ {r}
  BY <1>1, <1>a, <1>b, TailList DEF Lists
<1>3. /\ r \in Requests /\ r \in submitted /\ reason[r] = "none" /\ r # cur
      /\ r \notin ToSet(running) /\ r \notin ToSet(admitted) /\ status[r] = "closed"
  BY <1>2, QueuedClosed
<1>4. /\ ToSet(waiting)' = ToSet(waiting) \ {r} /\ ToSet(running)' = ToSet(running)
      /\ ToSet(admitted)' = ToSet(admitted)
  BY <1>1, <1>2 DEF ToSet
<1>5. Lists'
  BY <1>1, <1>2, <1>a DEF Lists, List, Uniq
<1>6. cur = NoRequest /\ NoRequest \notin Requests /\ idx = 0 /\ wanted = {}
  BY <1>1, <1>a, LimitsAssumption DEF Control, Prefilling
<1>7. CASE Finish(r, "rejected") /\ UNCHANGED <<status, cur, pc>>
  <2>1. EngineTypes'
    BY <1>1, <1>3, <1>7, <1>a DEF EngineTypes, Finish, Reasons
  <2>2. Control'
    BY <1>1, <1>7, <1>a DEF Control
  <2>3. NoneOpened /\ status'[r] = "closed"
    BY <1>3, <1>7, <1>a, SameStatus
  <2>4. ToSet(running)' = ToSet(running) \ {r} /\ ToSet(admitted)' = ToSet(admitted) \ {r}
    BY <1>3, <1>4
  <2>5. cur' = IF cur = r THEN NoRequest ELSE cur
    BY <1>3, <1>7
  <2> QED BY <1>1, <1>3, <1>4, <1>5, <1>7, <2>1, <2>2, <2>3, <2>4, <2>5, RetireInv DEF Reasons
<1>8. CASE Open(r) /\ cur' = r /\ pc' = "match" /\ UNCHANGED <<reason, outcomes>>
  <2>1. /\ status' \in [Requests -> Statuses]
        /\ \A q \in Requests \ {r} : status'[q] = status[q]
    BY <1>3, <1>8, <1>a, OpenStatus
  <2>2. EngineTypes'
    BY <1>1, <1>3, <1>8, <1>a, <2>1 DEF EngineTypes, Pcs, Prefilling, Statuses
  <2>3. Control'
    <3>1. Len(running) \in Nat /\ Len(admitted) \in Nat /\ MaxBatch \in Nat
      BY <1>a, ListFacts, LimitsAssumption DEF Lists
    <3> QED BY <1>1, <1>3, <1>6, <1>8, <3>1 DEF Control, Prefilling
  <2>4. Apart'
    BY <1>3, <1>4, <1>8, <1>a DEF Apart
  <2>5. OnlyBatchHoldsBlocks'
    BY <1>3, <1>4, <1>6, <1>8, <1>a, <2>1 DEF OnlyBatchHoldsBlocks
  <2>6. \A q \in Requests :
            q \in ToSet(waiting)' \cup ToSet(running)' \cup ToSet(admitted)' \cup {cur'}
            <=> q \in ToSet(waiting) \cup ToSet(running) \cup ToSet(admitted) \cup {cur}
    BY <1>2, <1>4, <1>6, <1>8
  <2> QED BY <1>1, <1>5, <1>8, <2>2, <2>3, <2>4, <2>5, <2>6, MoveInv
<1> QED BY <1>1, <1>7, <1>8

(* _prefill: the request in hand stays in hand. *)
LEMMA InHand ==
  ASSUME Inv, pc \in Prefilling
  PROVE  /\ cur \in Requests /\ cur \in submitted /\ reason[cur] = "none"
         /\ cur \notin ToSet(waiting) /\ cur \notin ToSet(running) /\ cur \notin ToSet(admitted)
         /\ wanted = {} /\ idx = 0 /\ Len(running) + Len(admitted) + 1 <= MaxBatch
<1>1. cur \in Requests /\ cur # NoRequest
  BY LimitsAssumption DEF Inv, EngineTypes, Control
<1>2. cur \in submitted /\ reason[cur] = "none"
  BY <1>1 DEF Inv, Tracked
<1>3. cur \notin ToSet(waiting) /\ cur \notin ToSet(running) /\ cur \notin ToSet(admitted)
  BY DEF Inv, Apart
<1>4. wanted = {} /\ idx = 0 /\ Len(running) + Len(admitted) + 1 <= MaxBatch
  BY <1>1 DEF Inv, Control, Prefilling
<1> QED BY <1>1, <1>2, <1>3, <1>4

LEMMA PrefillMatchInv == ASSUME Inv, PrefillMatch PROVE Inv'
<1>1. /\ pc = "match" /\ pc' = "prefill"
      /\ UNCHANGED <<waiting, running, admitted, cur, wanted, idx, still, hungUp, submitted,
                     output, reason, outcomes, cancels, observed, status>>
  BY DEF PrefillMatch, Match, loopVars, resultVars
<1>2. EngineTypes' /\ Control' /\ CancelTakesEffect'
  BY <1>1 DEF Inv, EngineTypes, Control, CancelTakesEffect, Pcs, Prefilling
<1> QED BY <1>1, <1>2, SameStatus, StillInv DEF Inv

LEMMA PrefillModelInv == ASSUME Inv, PrefillModel PROVE Inv'
<1>1. /\ pc = "prefill" /\ pc' = "insert"
      /\ UpdateFits(cur, Suffix(cur)) \/ UpdateRaises(cur, Suffix(cur))
      /\ UNCHANGED <<waiting, running, admitted, cur, wanted, idx, still, hungUp, submitted,
                     output, reason, outcomes, cancels, observed>>
  BY DEF PrefillModel, Prefill, loopVars, resultVars
<1>2. cur \in Requests /\ EngineTypes
  BY <1>1, InHand DEF Prefilling, Inv
<1>3. PICK new : new = Suffix(cur)
  OBVIOUS
<1>4. NoneOpened
  BY <1>1, <1>2, <1>3, UpdateStatus
<1>5. EngineTypes'
  BY <1>1, <1>2, <1>4 DEF EngineTypes, Pcs, Prefilling, NoneOpened, Statuses
<1>6. Control' /\ CancelTakesEffect'
  BY <1>1 DEF Inv, Control, CancelTakesEffect, Prefilling
<1> QED BY <1>1, <1>4, <1>5, <1>6, StillInv

(* The request in hand gets its outcome and gives its cache back. *)
LEMMA GiveUpInv ==
  ASSUME Inv, pc \in Prefilling, NEW why \in Reasons \ {"none"}, Release(cur), Finish(cur, why),
         cur' = NoRequest, pc' = "admit", output' \in [Requests -> Seq(Outputs)],
         UNCHANGED <<waiting, running, admitted, wanted, idx, still, hungUp, submitted, cancels,
                     observed>>
  PROVE  Inv'
<1>a. EngineTypes /\ Lists /\ Control
  BY DEF Inv
<1>1. PICK r : r = cur
  OBVIOUS
<1>2. /\ r \in Requests /\ r \in submitted /\ reason[r] = "none"
      /\ r \notin ToSet(waiting) /\ r \notin ToSet(running) /\ r \notin ToSet(admitted)
      /\ wanted = {} /\ idx = 0 /\ Len(running) + Len(admitted) + 1 <= MaxBatch
  BY <1>1, InHand
<1>3. NoneOpened /\ status'[r] = "closed"
  BY <1>1, <1>2, <1>a, ReleaseStatus
<1>4. EngineTypes'
  <2>1. reason' \in [Requests -> Reasons] /\ outcomes' \in [Requests -> Nat]
    BY <1>1, <1>2, <1>a DEF EngineTypes, Finish
  <2>2. status' \in [Requests -> {"closed", "open", "failed"}]
    BY <1>3 DEF NoneOpened, Statuses
  <2> QED BY <1>a, <2>1, <2>2 DEF EngineTypes, Pcs
<1>5. Lists'
  BY <1>a DEF Lists, List, Uniq
<1>6. Control'
  <2>1. Len(running) \in Nat /\ Len(admitted) \in Nat /\ MaxBatch \in Nat
    BY <1>a, ListFacts, LimitsAssumption DEF Lists
  <2>2. Len(running) + Len(admitted) + 0 <= MaxBatch
    BY <1>2, <2>1
  <2> QED BY <1>2, <2>2 DEF Control, Prefilling
<1>7. /\ ToSet(waiting)' = ToSet(waiting) /\ ToSet(running)' = ToSet(running)
      /\ ToSet(admitted)' = ToSet(admitted)
  BY DEF ToSet
<1>8. /\ ToSet(waiting)' = ToSet(waiting) \ {r} /\ ToSet(running)' = ToSet(running) \ {r}
      /\ ToSet(admitted)' = ToSet(admitted) \ {r}
  BY <1>2, <1>7
<1>9. pc # "sample" /\ Finish(r, why) /\ cur' = IF cur = r THEN NoRequest ELSE cur
  BY <1>1 DEF Prefilling
<1> QED BY <1>2, <1>3, <1>4, <1>5, <1>6, <1>8, <1>9, RetireInv

LEMMA PrefillInsertInv == ASSUME Inv, PrefillInsert PROVE Inv'
<1>1. /\ pc = "insert"
      /\ UNCHANGED <<waiting, running, admitted, wanted, idx, still, hungUp, submitted,
                     output, cancels, observed>>
      /\ \/ Release(cur) /\ Finish(cur, "preempted") /\ cur' = NoRequest /\ pc' = "admit"
         \/ Insert(cur) /\ pc' = "first" /\ UNCHANGED <<cur, reason, outcomes>>
  BY DEF PrefillInsert, loopVars
<1>2. CASE Release(cur) /\ Finish(cur, "preempted") /\ cur' = NoRequest /\ pc' = "admit"
  <2>1. output' \in [Requests -> Seq(Outputs)]
    BY <1>1 DEF Inv, EngineTypes
  <2> QED BY <1>1, <1>2, <2>1, GiveUpInv DEF Reasons, Prefilling
<1>3. CASE Insert(cur) /\ pc' = "first" /\ UNCHANGED <<cur, reason, outcomes>>
  <2>1. UNCHANGED status
    BY <1>3 DEF Insert
  <2>2. EngineTypes' /\ Control' /\ CancelTakesEffect'
    BY <1>1, <1>3, <2>1 DEF Inv, EngineTypes, Control, CancelTakesEffect, Pcs, Prefilling
  <2> QED BY <1>1, <1>3, <2>1, <2>2, SameStatus, StillInv DEF Inv
<1> QED BY <1>1, <1>2, <1>3

LEMMA AcceptOutput ==
  ASSUME EngineTypes, NEW r \in Requests, NEW t \in Outputs, Accept(r, t)
  PROVE  output' \in [Requests -> Seq(Outputs)]
<1>1. output[r] \in Seq(Outputs)
  BY DEF EngineTypes
<1>2. PICK o : o = Append(output[r], t)
  OBVIOUS
<1>3. o \in Seq(Outputs)
  BY <1>1, <1>2, AppendProperties
<1> QED BY <1>2, <1>3 DEF Accept, EngineTypes

LEMMA FinishReason ==
  ASSUME NEW r, NEW t PROVE FinishWhy(r, t) \in Reasons \ {"none"}
BY DEF FinishWhy, Reasons

LEMMA FirstTokenInv == ASSUME Inv, NEW t \in Outputs, FirstToken(t) PROVE Inv'
<1>a. EngineTypes /\ Lists /\ Apart /\ Control /\ OnlyBatchHoldsBlocks
  BY DEF Inv
<1>1. /\ pc = "first" /\ Accept(cur, t) /\ cur' = NoRequest /\ pc' = "admit"
      /\ UNCHANGED <<waiting, running, wanted, idx, still, hungUp, submitted, cancels, observed>>
      /\ \/ Release(cur) /\ Finish(cur, FinishWhy(cur, t)) /\ UNCHANGED admitted
         \/ admitted' = Append(admitted, cur) /\ UNCHANGED <<status, reason, outcomes>>
  BY DEF FirstToken, loopVars, pcVars, kvVars
<1>2. PICK r : r = cur
  OBVIOUS
<1>3. /\ r \in Requests /\ r \in submitted /\ reason[r] = "none"
      /\ r \notin ToSet(waiting) /\ r \notin ToSet(running) /\ r \notin ToSet(admitted)
      /\ wanted = {} /\ idx = 0 /\ Len(running) + Len(admitted) + 1 <= MaxBatch
  BY <1>1, <1>2, InHand DEF Prefilling
<1>4. output' \in [Requests -> Seq(Outputs)]
  BY <1>1, <1>2, <1>3, <1>a, AcceptOutput
<1>5. CASE Release(cur) /\ Finish(cur, FinishWhy(cur, t)) /\ UNCHANGED admitted
  <2>1. PICK why \in Reasons \ {"none"} : why = FinishWhy(cur, t)
    BY FinishReason
  <2> QED BY <1>1, <1>4, <1>5, <2>1, GiveUpInv DEF Prefilling
<1>6. CASE admitted' = Append(admitted, cur) /\ UNCHANGED <<status, reason, outcomes>>
  <2>1. /\ List(admitted') /\ Len(admitted') = Len(admitted) + 1
        /\ ToSet(admitted') = ToSet(admitted) \cup {r}
    BY <1>2, <1>3, <1>6, <1>a, AppendList DEF Lists
  <2>2. /\ ToSet(waiting)' = ToSet(waiting) /\ ToSet(running)' = ToSet(running)
        /\ ToSet(admitted)' = ToSet(admitted')
    BY <1>1 DEF ToSet
  <2>3. EngineTypes'
    BY <1>1, <1>4, <1>6, <1>a DEF EngineTypes, Pcs
  <2>4. Lists'
    BY <1>1, <1>a, <2>1 DEF Lists, List, Uniq
  <2>5. Control'
    <3>1. Len(running) \in Nat /\ Len(admitted) \in Nat /\ MaxBatch \in Nat
      BY <1>a, ListFacts, LimitsAssumption DEF Lists
    <3>2. Len(running) + (Len(admitted) + 1) + 0 <= MaxBatch
      BY <1>3, <3>1
    <3> QED BY <1>1, <1>3, <2>1, <3>2 DEF Control, Prefilling
  <2>6. NoRequest \notin Requests /\ ToSet(waiting) \subseteq Requests
        /\ ToSet(running) \subseteq Requests /\ ToSet(admitted) \subseteq Requests
    BY <1>a, ListFacts, LimitsAssumption DEF Lists
  <2>7. Apart'
    BY <1>1, <1>3, <1>a, <2>1, <2>2, <2>6 DEF Apart
  <2>8. OnlyBatchHoldsBlocks'
    BY <1>1, <1>2, <1>6, <1>a, <2>1, <2>2 DEF OnlyBatchHoldsBlocks
  <2>9. \A q \in Requests :
            q \in ToSet(waiting)' \cup ToSet(running)' \cup ToSet(admitted)' \cup {cur'}
            <=> q \in ToSet(waiting) \cup ToSet(running) \cup ToSet(admitted) \cup {cur}
    BY <1>1, <1>2, <2>1, <2>2, <2>6
  <2> QED BY <1>1, <1>6, <2>3, <2>4, <2>5, <2>7, <2>8, <2>9, MoveInv
<1> QED BY <1>1, <1>5, <1>6

(* The decode pass. *)
LEMMA DecodeBeginInv == ASSUME Inv, DecodeBegin PROVE Inv'
<1>1. /\ pc = "decode" /\ pc' = "grow" /\ idx' = 1
      /\ UNCHANGED <<waiting, running, admitted, cur, wanted, still, hungUp, submitted,
                     output, reason, outcomes, cancels, observed, status>>
  BY DEF DecodeBegin, pcVars, kvVars, loopVars, resultVars
<1>2. Len(running) \in Nat /\ Len(running) # 0
  BY <1>1, ListFacts DEF Inv, Lists, Control
<1>3. EngineTypes' /\ CancelTakesEffect'
  BY <1>1 DEF Inv, EngineTypes, CancelTakesEffect, Pcs
<1>4. Control'
  BY <1>1, <1>2 DEF Inv, Control, Prefilling
<1> QED BY <1>1, <1>3, <1>4, SameStatus, StillInv DEF Inv

LEMMA PreemptInv == ASSUME Inv, Preempt PROVE Inv'
<1>a. EngineTypes /\ Lists /\ Apart /\ Control /\ OnlyBatchHoldsBlocks /\ Tracked
  BY DEF Inv
<1>b. PICK v, n : v = running[Len(running)] /\ n = Len(running)
  OBVIOUS
<1>1. /\ pc = "decode" /\ pc' = "idle" /\ Release(v)
      /\ running' = SubSeq(running, 1, n - 1) /\ waiting' = <<v>> \o waiting
      /\ output' = [output EXCEPT ![v] = <<>>]
      /\ UNCHANGED <<admitted, cur, wanted, idx, still, hungUp, submitted, reason, outcomes,
                     cancels, observed>>
  BY <1>b DEF Preempt, loopVars
<1>2. n \in Nat \ {0} /\ v = running[n] /\ v \in Requests /\ v \in ToSet(running)
  BY <1>1, <1>a, <1>b, ListFacts DEF Lists, Control
<1>3. /\ List(running') /\ Len(running') = n - 1
      /\ ToSet(running') = {running[i] : i \in 1 .. n - 1}
  <2>1. n - 1 \in Nat /\ n - 1 <= n /\ 1 <= (n - 1) + 1 /\ n - 1 - 1 + 1 = n - 1
    BY <1>2
  <2> QED BY <1>1, <1>a, <1>b, <2>1, PartList, SMTT(40) DEF Lists
<1>4. ToSet(running') = ToSet(running) \ {v}
  <2>1. \A i, j \in 1 .. n : running[i] = running[j] => i = j
    BY <1>a, <1>b DEF Lists, List, Uniq
  <2>2. ASSUME NEW i \in 1 .. n - 1 PROVE running[i] \in ToSet(running) \ {v}
    <3>1. i \in 1 .. n /\ n \in 1 .. n /\ i # n
      BY <1>2
    <3> QED BY <1>2, <1>b, <2>1, <3>1 DEF ToSet
  <2>3. ASSUME NEW i \in 1 .. n, running[i] # v PROVE running[i] \in ToSet(running')
    <3>1. i \in 1 .. n - 1
      BY <1>2, <2>3
    <3> QED BY <1>3, <3>1
  <2>4. ToSet(running) = {running[i] : i \in 1 .. n}
    BY <1>b DEF ToSet
  <2> QED BY <1>3, <2>2, <2>3, <2>4
<1>5. v \notin ToSet(waiting) /\ v \notin ToSet(admitted) /\ cur = NoRequest
      /\ NoRequest \notin Requests /\ v \in submitted /\ reason[v] = "none"
  BY <1>1, <1>2, <1>a, LimitsAssumption DEF Apart, Control, Prefilling, Tracked
<1>6. PICK one : one = <<v>>
  OBVIOUS
<1>7. List(one) /\ ToSet(one) = {v}
  BY <1>2, <1>6 DEF List, Uniq, ToSet
<1>8. List(waiting') /\ ToSet(waiting') = {v} \cup ToSet(waiting)
  <2>1. ToSet(one) \cap ToSet(waiting) = {}
    BY <1>5, <1>7
  <2> QED BY <1>1, <1>6, <1>7, <1>a, <2>1, ConcatList DEF Lists
<1>9. NoneOpened /\ status'[v] = "closed"
  BY <1>1, <1>2, <1>a, ReleaseStatus
<1>10. /\ ToSet(waiting)' = {v} \cup ToSet(waiting) /\ ToSet(running)' = ToSet(running) \ {v}
       /\ ToSet(admitted)' = ToSet(admitted)
  <2>1. /\ ToSet(waiting)' = ToSet(waiting') /\ ToSet(running)' = ToSet(running')
        /\ ToSet(admitted)' = ToSet(admitted)
    BY <1>1 DEF ToSet
  <2> QED BY <1>4, <1>8, <2>1
<1>11. EngineTypes'
  <2>1. output' \in [Requests -> Seq(Outputs)]
    BY <1>1, <1>2, <1>a DEF EngineTypes
  <2>2. status' \in [Requests -> {"closed", "open", "failed"}]
    BY <1>9 DEF NoneOpened, Statuses
  <2> QED BY <1>1, <1>a, <2>1, <2>2 DEF EngineTypes, Pcs
<1>12. Lists'
  BY <1>1, <1>3, <1>8, <1>a DEF Lists, List, Uniq
<1>13. Control'
  <2>1. Len(running) \in Nat /\ Len(admitted) \in Nat /\ MaxBatch \in Nat
    BY <1>a, ListFacts, LimitsAssumption DEF Lists
  <2>2. (n - 1) + Len(admitted) + 0 <= MaxBatch
    BY <1>2, <1>5, <1>a, <1>b, <2>1 DEF Control
  <2> QED BY <1>1, <1>3, <1>5, <1>a, <2>2 DEF Control, Prefilling
<1>14. Apart'
  BY <1>1, <1>2, <1>5, <1>10, <1>a DEF Apart
<1>15. OnlyBatchHoldsBlocks'
  BY <1>1, <1>9, <1>10, <1>a DEF OnlyBatchHoldsBlocks, NoneOpened
<1>16. \A q \in Requests :
          q \in ToSet(waiting)' \cup ToSet(running)' \cup ToSet(admitted)' \cup {cur'}
          <=> q \in ToSet(waiting) \cup ToSet(running) \cup ToSet(admitted) \cup {cur}
  BY <1>1, <1>2, <1>10
<1> QED BY <1>1, <1>11, <1>12, <1>13, <1>14, <1>15, <1>16, MoveInv

LEMMA GrowInv == ASSUME Inv, Grow PROVE Inv'
<1>a. EngineTypes /\ Lists /\ Control /\ Sampling /\ Tracked /\ CancelTakesEffect
  BY DEF Inv
<1>b. PICK r, t : r = running[idx] /\ t = output[r][Len(output[r])]
  OBVIOUS
<1>1. /\ pc = "grow"
      /\ UpdateFits(r, <<t>>) \/ UpdateRaises(r, <<t>>)
      /\ IF idx < Len(running)
         THEN idx' = idx + 1 /\ UNCHANGED <<pc, observed>>
         ELSE /\ idx' = 1 /\ pc' = "sample"
              /\ observed' = IF observed < MinObservations THEN observed + 1 ELSE observed
      /\ UNCHANGED <<waiting, running, admitted, cur, wanted, still, hungUp, submitted,
                     output, reason, outcomes, cancels>>
  <2>1. Decode(r, t)
    BY <1>b DEF Grow
  <2>2. UpdateFits(r, <<t>>) \/ UpdateRaises(r, <<t>>)
    BY <2>1 DEF Decode
  <2> QED BY <2>2 DEF Grow, loopVars, resultVars
<1>2. idx \in 1 .. Len(running) /\ Len(running) \in Nat /\ r \in Requests /\ still = <<>>
  BY <1>1, <1>a, <1>b, ListFacts DEF Lists, Control, Sampling
<1>3. PICK new : new = <<t>>
  OBVIOUS
<1>4. NoneOpened
  BY <1>1, <1>2, <1>3, <1>a, UpdateStatus
<1>5. status' \in [Requests -> {"closed", "open", "failed"}]
  BY <1>4 DEF NoneOpened, Statuses
<1>6. CancelTakesEffect'
  BY <1>1, <1>a DEF CancelTakesEffect
<1>7. CASE idx < Len(running)
  <2>0. idx' = idx + 1 /\ UNCHANGED <<pc, observed>> /\ idx' \in 1 .. Len(running)
    BY <1>1, <1>2, <1>7
  <2>1. EngineTypes'
    BY <1>1, <1>5, <1>a, <2>0 DEF EngineTypes
  <2>2. Control'
    BY <1>1, <1>2, <1>a, <2>0 DEF Control
  <2> QED BY <1>1, <1>4, <1>6, <2>0, <2>1, <2>2, StillInv
<1>8. CASE ~ (idx < Len(running))
  <2>1. observed' \in 0 .. MinObservations /\ idx' = 1 /\ pc' = "sample"
    BY <1>1, <1>8, <1>a, LimitsAssumption DEF EngineTypes
  <2>2. EngineTypes'
    BY <1>1, <1>5, <1>a, <2>1 DEF EngineTypes, Pcs
  <2>3. Control'
    BY <1>1, <1>2, <1>a, <2>1 DEF Control, Prefilling
  <2>4. Sampling'
    <3>1. \A i \in 1 .. Len(running) : reason[running[i]] = "none"
      BY <1>1, <1>a, ListFacts DEF Lists, Tracked
    <3>2. ToSet(still') = {} /\ Len(still') = 0 /\ ToSet(still)' = ToSet(still')
      BY <1>1, <1>2, EmptyList DEF ToSet
    <3> QED BY <1>1, <2>1, <3>1, <3>2 DEF Sampling
  <2> QED BY <1>1, <1>4, <1>6, <2>1, <2>2, <2>3, <2>4, SameListsInv
<1> QED BY <1>7, <1>8

(* The tokens of one batch: the one at idx is kept, or gets its outcome. *)
LEMMA SampleInv == ASSUME Inv, NEW t \in Outputs, Sample(t) PROVE Inv'
<1>a. /\ EngineTypes /\ Lists /\ Apart /\ Control /\ Sampling /\ Tracked
      /\ OutcomeOnce /\ OnlyBatchHoldsBlocks /\ CancelTakesEffect
  BY DEF Inv
<1>b. PICK r : r = running[idx]
  OBVIOUS
<1>1. /\ pc = "sample" /\ idx <= Len(running) /\ Accept(r, t) /\ idx' = idx + 1
      /\ UNCHANGED <<pc, waiting, running, admitted, cur, wanted, hungUp, submitted, cancels,
                     observed>>
      /\ \/ Release(r) /\ Finish(r, FinishWhy(r, t)) /\ UNCHANGED still
         \/ still' = Append(still, r) /\ UNCHANGED <<status, reason, outcomes>>
  BY <1>b DEF Sample, loopVars, pcVars, kvVars
<1>2. /\ Len(running) \in Nat /\ idx \in 1 .. Len(running) /\ r \in Requests
      /\ r \in ToSet(running) /\ Len(still) \in Nat /\ Len(still) < idx
      /\ \A i \in 1 .. Len(running) : running[i] \in Requests
  BY <1>1, <1>a, <1>b, ListFacts DEF Lists, Control, Sampling
<1>3. /\ reason[r] = "none" /\ r \notin ToSet(still) /\ r \in submitted
      /\ r \notin ToSet(waiting) /\ r \notin ToSet(admitted) /\ r # cur
  BY <1>1, <1>2, <1>a, <1>b DEF Sampling, Tracked, Apart
<1>4. \A i \in 1 .. Len(running) : running[i] = r => i = idx
  BY <1>2, <1>a, <1>b DEF Lists, List, Uniq
<1>5. output' \in [Requests -> Seq(Outputs)]
  BY <1>1, <1>2, <1>a, AcceptOutput
<1>6. /\ ToSet(waiting)' = ToSet(waiting) /\ ToSet(running)' = ToSet(running)
      /\ ToSet(admitted)' = ToSet(admitted) /\ ToSet(still)' = ToSet(still')
  BY <1>1 DEF ToSet
<1>7. Apart'
  BY <1>1, <1>6, <1>a DEF Apart
<1>8. Control'
  BY <1>1, <1>2, <1>a DEF Control, Prefilling
<1>9. CASE Release(r) /\ Finish(r, FinishWhy(r, t)) /\ UNCHANGED still
  <2>1. PICK why \in Reasons \ {"none"} : why = FinishWhy(r, t)
    BY FinishReason
  <2>2. /\ reason' \in [Requests -> Reasons] /\ outcomes' \in [Requests -> Nat]
        /\ reason'[r] = why /\ why # "none" /\ outcomes'[r] = outcomes[r] + 1
        /\ \A q \in Requests \ {r} : reason'[q] = reason[q] /\ outcomes'[q] = outcomes[q]
    BY <1>2, <1>9, <1>a, <2>1 DEF Finish, EngineTypes
  <2>3. NoneOpened /\ status'[r] = "closed"
    BY <1>2, <1>9, <1>a, ReleaseStatus
  <2>4. EngineTypes'
    <3>1. status' \in [Requests -> {"closed", "open", "failed"}]
      BY <2>3 DEF NoneOpened, Statuses
    <3> QED BY <1>1, <1>2, <1>5, <1>a, <2>2, <3>1, SMTT(40) DEF EngineTypes
  <2>5. Lists'
    BY <1>1, <1>9, <1>a DEF Lists, List, Uniq
  <2>6. ToSet(still)' = ToSet(still) /\ Len(still') < idx'
    BY <1>1, <1>2, <1>9 DEF ToSet
  <2>7. Sampling'
    <3>1. ASSUME NEW i \in 1 .. Len(running)
          PROVE IF i < idx' THEN reason'[running[i]] = "none" <=> running[i] \in ToSet(still)
                ELSE reason'[running[i]] = "none" /\ running[i] \notin ToSet(still)
      <4>1. CASE i = idx
        BY <1>1, <1>2, <1>3, <1>b, <2>2, <4>1
      <4>2. CASE i # idx
        <5>1. reason'[running[i]] = reason[running[i]]
          BY <1>2, <1>4, <2>2, <4>2
        <5>2. i < idx' <=> i < idx
          BY <1>1, <1>2, <4>2
        <5> QED BY <1>1, <1>a, <5>1, <5>2 DEF Sampling
      <4> QED BY <4>1, <4>2
    <3> QED BY <1>1, <1>6, <1>a, <2>6, <3>1 DEF Sampling
  <2>8. Tracked'
    BY <1>1, <1>3, <1>6, <1>a, <2>2 DEF Tracked
  <2>9. OutcomeOnce'
    BY <1>3, <1>a, <2>2 DEF OutcomeOnce
  <2>10. OnlyBatchHoldsBlocks'
    BY <1>1, <1>6, <1>a, <2>2, <2>3 DEF OnlyBatchHoldsBlocks, NoneOpened
  <2>11. CancelTakesEffect'
    BY <1>1, <1>a, <2>2 DEF CancelTakesEffect, EngineTypes
  <2> QED BY <1>7, <1>8, <2>4, <2>5, <2>7, <2>8, <2>9, <2>10, <2>11 DEF Inv
<1>10. CASE still' = Append(still, r) /\ UNCHANGED <<status, reason, outcomes>>
  <2>1. /\ List(still') /\ Len(still') = Len(still) + 1
        /\ ToSet(still') = ToSet(still) \cup {r}
    BY <1>2, <1>3, <1>10, <1>a, AppendList DEF Lists
  <2>2. EngineTypes'
    BY <1>1, <1>2, <1>5, <1>10, <1>a DEF EngineTypes
  <2>3. Lists'
    BY <1>1, <1>a, <2>1 DEF Lists, List, Uniq
  <2>4. Sampling'
    <3>1. ASSUME NEW i \in 1 .. Len(running)
          PROVE IF i < idx' THEN reason[running[i]] = "none" <=> running[i] \in ToSet(still')
                ELSE reason[running[i]] = "none" /\ running[i] \notin ToSet(still')
      <4>1. CASE i = idx
        BY <1>1, <1>2, <1>3, <1>b, <2>1, <4>1
      <4>2. CASE i # idx
        <5>1. running[i] \in ToSet(still') <=> running[i] \in ToSet(still)
          BY <1>4, <2>1, <4>2
        <5>2. i < idx' <=> i < idx
          BY <1>1, <1>2, <4>2
        <5> QED BY <1>1, <1>a, <5>1, <5>2 DEF Sampling
      <4> QED BY <4>1, <4>2
    <3>2. Len(still') < idx'
      BY <1>1, <1>2, <2>1
    <3>3. ToSet(still') \subseteq ToSet(running)
      BY <1>1, <1>2, <1>a, <2>1 DEF Sampling
    <3> QED BY <1>1, <1>6, <1>10, <3>1, <3>2, <3>3 DEF Sampling
  <2>5. Tracked' /\ OutcomeOnce'
    BY <1>1, <1>6, <1>10, <1>a DEF Tracked, OutcomeOnce
  <2>6. OnlyBatchHoldsBlocks' /\ CancelTakesEffect'
    BY <1>1, <1>6, <1>10, <1>a DEF OnlyBatchHoldsBlocks, CancelTakesEffect
  <2> QED BY <1>7, <1>8, <2>2, <2>3, <2>4, <2>5, <2>6 DEF Inv
<1> QED BY <1>1, <1>9, <1>10

(* The batch becomes what was kept of it. *)
LEMMA StepEndInv == ASSUME Inv, StepEnd PROVE Inv'
<1>a. /\ EngineTypes /\ Lists /\ Apart /\ Control /\ Sampling /\ Tracked
      /\ OutcomeOnce /\ OnlyBatchHoldsBlocks /\ CancelTakesEffect
  BY DEF Inv
<1>1. /\ pc = "sample" /\ pc' = "idle" /\ idx > Len(running) /\ idx' = 0
      /\ running' = still /\ still' = <<>>
      /\ UNCHANGED <<waiting, admitted, cur, wanted, hungUp, submitted, output, reason, outcomes,
                     cancels, observed, status>>
  BY DEF StepEnd, pcVars, kvVars, loopVars, resultVars
<1>2. /\ Len(running) \in Nat /\ Len(still) \in Nat /\ Len(admitted) \in Nat
      /\ Len(still) <= Len(running) /\ idx \in Nat
  BY <1>1, <1>a, ListFacts DEF Lists, Control, Sampling, EngineTypes
<1>3. ToSet(still) \subseteq ToSet(running)
      /\ \A q \in ToSet(running) : reason[q] = "none" <=> q \in ToSet(still)
  <2>1. \A i \in 1 .. Len(running) : i < idx
    BY <1>1, <1>2
  <2> QED BY <1>1, <1>a, <2>1 DEF Sampling, ToSet
<1>4. /\ ToSet(waiting)' = ToSet(waiting) /\ ToSet(running)' = ToSet(still)
      /\ ToSet(admitted)' = ToSet(admitted)
  BY <1>1 DEF ToSet
<1>5. EngineTypes'
  BY <1>1, <1>a DEF EngineTypes, Pcs
<1>6. Lists'
  BY <1>1, <1>a, EmptyList DEF Lists, List, Uniq
<1>7. Apart'
  BY <1>1, <1>3, <1>4, <1>a DEF Apart
<1>8. Control'
  <2>1. cur = NoRequest /\ MaxBatch \in Nat
    BY <1>1, <1>a, LimitsAssumption DEF Control, Prefilling
  <2>2. Len(still) + Len(admitted) + 0 <= MaxBatch
    BY <1>2, <1>a, <2>1 DEF Control
  <2> QED BY <1>1, <1>a, <2>1, <2>2 DEF Control, Prefilling
<1>9. Sampling'
  BY <1>1 DEF Sampling
<1>10. Tracked'
  BY <1>1, <1>3, <1>4, <1>a DEF Tracked
<1>11. OutcomeOnce' /\ CancelTakesEffect'
  BY <1>1, <1>a DEF OutcomeOnce, CancelTakesEffect
<1>12. OnlyBatchHoldsBlocks'
  BY <1>1, <1>3, <1>4, <1>a DEF OnlyBatchHoldsBlocks
<1> QED BY <1>5, <1>6, <1>7, <1>8, <1>9, <1>10, <1>11, <1>12 DEF Inv

-----------------------------------------------------------------------------
LEMMA InitInv == Init => Inv
<1> SUFFICES ASSUME Init PROVE Inv
  OBVIOUS
<1>1. ToSet(waiting) = {} /\ ToSet(running) = {} /\ ToSet(admitted) = {} /\ Lists
      /\ Len(running) = 0 /\ Len(admitted) = 0
  BY EmptyList DEF Init, Lists
<1>2. status = [c \in Caches |-> "closed"] /\ NoRequest \notin Requests
  BY LimitsAssumption DEF Init, CacheInit, KVInit
<1>3. EngineTypes
  BY <1>2, LimitsAssumption DEF Init, EngineTypes, Pcs, Requests, Reasons
<1>4. Apart /\ Sampling /\ Tracked
  BY <1>1, <1>2 DEF Init, Apart, Sampling, Tracked
<1>5. Control
  BY <1>1, LimitsAssumption DEF Init, Control, Prefilling
<1>6. OutcomeOnce /\ OnlyBatchHoldsBlocks /\ CancelTakesEffect
  BY <1>2 DEF Init, OutcomeOnce, OnlyBatchHoldsBlocks, CancelTakesEffect, Requests
<1> QED BY <1>1, <1>3, <1>4, <1>5, <1>6 DEF Inv

LEMMA StutterInv == ASSUME Inv, UNCHANGED schedVars PROVE Inv'
<1>1. UNCHANGED <<pc, waiting, running, admitted, cur, wanted, idx, still, hungUp, submitted,
                  output, reason, outcomes, cancels, observed, status>>
  BY DEF schedVars, pcVars, kvVars, engineVars, loopVars, resultVars
<1>2. /\ ToSet(waiting)' = ToSet(waiting) /\ ToSet(running)' = ToSet(running)
      /\ ToSet(admitted)' = ToSet(admitted) /\ ToSet(still)' = ToSet(still)
  BY <1>1 DEF ToSet
<1>3. EngineTypes' /\ Control' /\ Apart'
  BY <1>1, <1>2 DEF Inv, EngineTypes, Control, Apart
<1>4. Lists'
  BY <1>1 DEF Inv, Lists, List, Uniq
<1>5. Sampling' /\ Tracked'
  BY <1>1, <1>2 DEF Inv, Sampling, Tracked
<1>6. OutcomeOnce' /\ OnlyBatchHoldsBlocks' /\ CancelTakesEffect'
  BY <1>1, <1>2 DEF Inv, OutcomeOnce, OnlyBatchHoldsBlocks, CancelTakesEffect
<1> QED BY <1>3, <1>4, <1>5, <1>6 DEF Inv

LEMMA StepInv == ASSUME Inv, [Next]_schedVars PROVE Inv'
<1>1. CASE Next
  <2>1. ASSUME NEW r \in Requests, AddRequest(r) \/ RequestCancel(r) PROVE Inv'
    BY <2>1, AddRequestInv, RequestCancelInv
  <2>2. ASSUME NEW r \in Requests, CancelRunning(r) \/ CancelWaiting(r) PROVE Inv'
    BY <2>2, CancelRunningInv, CancelWaitingInv
  <2>3. ASSUME NEW t \in Outputs, FirstToken(t) \/ Sample(t) PROVE Inv'
    BY <2>3, FirstTokenInv, SampleInv
  <2>4. CASE StepBegin \/ IdleCancel \/ CancelDone \/ AdmitEvict \/ AdmitEnd \/ AdmitStart
    BY <2>4, StepBeginInv, IdleCancelInv, CancelDoneInv, AdmitEvictInv, AdmitEndInv,
       AdmitStartInv
  <2>5. CASE \/ PrefillMatch \/ PrefillModel \/ PrefillInsert
             \/ DecodeBegin \/ Preempt \/ Grow \/ StepEnd
    BY <2>5, PrefillMatchInv, PrefillModelInv, PrefillInsertInv, DecodeBeginInv, PreemptInv,
       GrowInv, StepEndInv
  <2> QED BY <1>1, <2>1, <2>2, <2>3, <2>4, <2>5 DEF Next, EngineStep
<1> QED BY <1>1, StutterInv

LEMMA Invariance == Spec => []Inv
<1>1. Inv /\ [Next]_schedVars => Inv'
  BY StepInv
<1> QED BY InitInv, <1>1, PTL DEF Spec

LEMMA InvOnePlace == Inv => OnePlace
<1> SUFFICES ASSUME Inv, NEW r \in Requests
             PROVE IF r \in submitted /\ reason[r] = "none" THEN Places(r) = 1
                   ELSE Places(r) = 0 \/ pc = "sample"
  BY DEF OnePlace
<1>1. /\ Count(waiting, r) = IF r \in ToSet(waiting) THEN 1 ELSE 0
      /\ Count(running, r) = IF r \in ToSet(running) THEN 1 ELSE 0
      /\ Count(admitted, r) = IF r \in ToSet(admitted) THEN 1 ELSE 0
  BY CountList DEF Inv, Lists
<1>2. /\ ~(r \in ToSet(waiting) /\ r \in ToSet(running))
      /\ ~(r \in ToSet(waiting) /\ r \in ToSet(admitted))
      /\ ~(r \in ToSet(running) /\ r \in ToSet(admitted))
      /\ cur = r => /\ r \notin ToSet(waiting) /\ r \notin ToSet(running)
                    /\ r \notin ToSet(admitted)
  BY DEF Inv, Apart
<1>3. CASE r \in submitted /\ reason[r] = "none"
  <2>1. r \in ToSet(waiting) \/ r \in ToSet(running) \/ r \in ToSet(admitted) \/ cur = r
    BY <1>3 DEF Inv, Tracked
  <2> QED BY <1>1, <1>2, <1>3, <2>1 DEF Places
<1>4. CASE ~ (r \in submitted /\ reason[r] = "none")
  <2>1. /\ r \notin ToSet(waiting) /\ r \notin ToSet(admitted) /\ cur # r
        /\ r \notin ToSet(running) \/ pc = "sample"
    BY <1>4 DEF Inv, Tracked
  <2> QED BY <1>1, <1>4, <2>1 DEF Places
<1> QED BY <1>3, <1>4

(* For every load, a request the engine took and has not answered is in exactly
   one of the queue, the batch and _admit's hands. *)
THEOREM InOnePlace == Spec => []OnePlace
BY Invariance, InvOnePlace, PTL

(* For every load, a request gets one outcome: _record_finished is called once
   for each that has a finish reason and never for another. *)
THEOREM OneOutcome == Spec => []OutcomeOnce
<1>1. Inv => OutcomeOnce
  BY DEF Inv
<1> QED BY <1>1, Invariance, PTL

(* For every load, a request that was cancelled, rejected, preempted or
   finished holds no cache, so no block. *)
THEOREM NoBlocksLeaked == Spec => []OnlyBatchHoldsBlocks
<1>1. Inv => OnlyBatchHoldsBlocks
  BY DEF Inv
<1> QED BY <1>1, Invariance, PTL

(* For every load, a cancellation the event loop recorded reaches the request
   or is still on its way, whatever step() was doing. *)
THEOREM NoCancelDropped == Spec => []CancelTakesEffect
<1>1. Inv => CancelTakesEffect
  BY DEF Inv
<1> QED BY <1>1, Invariance, PTL

-----------------------------------------------------------------------------
(* What the engine's sequences hold: the cache of a sequence was fed its own
   prompt and its own output, and no forward pass meets an empty pool
   half-way. *)

(* A sequence of the batch: it has a cache, its prefill is over, and it
   accepted a token. *)
Seated(r) == status[r] = "open" /\ prompt[r] = <<>> /\ output[r] # <<>>

(* What its cache was fed: everything, or all but the last token. *)
FedAll(r) == text[r] = Prompt(r) \o output[r]
FedButLast(r) == text[r] = Prompt(r) \o SubSeq(output[r], 1, Len(output[r]) - 1)
Behind(r) == Seated(r) /\ FedButLast(r)
CaughtUp(r) == Seated(r) /\ FedAll(r)

BatchFed ==
    /\ \A r \in ToSet(admitted) : Behind(r)
    /\ pc \notin {"grow", "sample"} => \A r \in ToSet(running) : Behind(r)
    /\ pc = "grow" => \A i \in 1 .. Len(running) :
                         IF i < idx THEN CaughtUp(running[i]) ELSE Behind(running[i])
    /\ pc = "sample" => /\ \A i \in idx .. Len(running) : CaughtUp(running[i])
                        /\ \A r \in ToSet(still) : Behind(r)

(* The request in _admit's hands, by where its prefill is, and the blocks that
   were free when it was admitted. *)
InHandFed ==
    /\ pc \in Prefilling => status[cur] = "open" /\ output[cur] = <<>>
    /\ pc \in {"match", "prefill"} => BlocksNeeded(cur) <= NumFree
    /\ pc = "prefill" => prompt[cur] = Prompt(cur) /\ numTokens[cur] % BlockSize = 0
    /\ pc = "insert" => prompt[cur] = Prompt(cur) /\ numTokens[cur] = Len(Prompt(cur))
    /\ pc = "first" => prompt[cur] = <<>> /\ text[cur] = Prompt(cur)

(* A request that is not admitted has no output. *)
QueuedFresh ==
    \A r \in Requests : r \in ToSet(waiting) \/ r \notin submitted => output[r] = <<>>

(* The sequences the decode pass has not grown yet, and the blocks they need. *)
Rest == {running[i] : i \in idx .. Len(running)}
RestNeeds == {r \in Rest : NeedsBlock(r)}
RoomToGrow == pc = "grow" => Cardinality(RestNeeds) <= NumFree

DataInv ==
    /\ Inv /\ CacheInv /\ BatchFed /\ InHandFed /\ QueuedFresh /\ RoomToGrow
    /\ NeverRaisesMidway

-----------------------------------------------------------------------------
(* Tokens. *)

LEMMA JobFacts ==
  ASSUME NEW r \in Requests
  PROVE  /\ Prompt(r) \in Prompts /\ Prompt(r) \in Seq(Tokens) /\ Len(Prompt(r)) \in Nat \ {0}
         /\ Prompt(r) # <<>> /\ BlocksNeeded(r) \in Nat
<1>1. Prompt(r) \in Prompts
  BY JobAssumption
<1>2. Prompt(r) \in Seq(Tokens) /\ Len(Prompt(r)) \in Nat \ {0} /\ Prompt(r) # <<>>
  BY <1>1, PromptFacts
<1> QED BY <1>1, <1>2, CeilNat DEF BlocksNeeded

LEMMA OutputFacts ==
  ASSUME EngineTypes, NEW r \in Requests
  PROVE  /\ output[r] \in Seq(Outputs) /\ output[r] \in Seq(Tokens) /\ Len(output[r]) \in Nat
         /\ Outputs \subseteq Tokens
<1>1. output[r] \in Seq(Outputs) /\ Outputs \subseteq Tokens
  BY LimitsAssumption DEF EngineTypes
<1> QED BY <1>1, SeqMonotonic

(* Feeding the last token. *)
LEMMA FeedLast ==
  ASSUME NEW p \in Seq(Tokens), NEW o \in Seq(Tokens), o # <<>>
  PROVE  /\ o[Len(o)] \in Tokens /\ Len(o) \in Nat \ {0}
         /\ (p \o SubSeq(o, 1, Len(o) - 1)) \o <<o[Len(o)]>> = p \o o
<1>1. Len(o) \in Nat \ {0} /\ Len(p) \in Nat
  BY EmptySeq
<1>2. PICK n, m : n = Len(o) - 1 /\ m = Len(p)
  OBVIOUS
<1>3. n \in 0 .. Len(o) /\ n \in Nat /\ Len(o) = n + 1 /\ m \in Nat
  BY <1>1, <1>2
<1>4. PICK a, z : a = SubSeq(o, 1, n) /\ z = <<o[Len(o)]>>
  OBVIOUS
<1>5. a \in Seq(Tokens) /\ Len(a) = n /\ \A i \in 1 .. n : a[i] = o[i]
  BY <1>3, <1>4, PartFacts
<1>6. o[Len(o)] \in Tokens
  BY <1>1, ElementOfSeq
<1>7. z \in Seq(Tokens) /\ Len(z) = 1 /\ z[1] = o[Len(o)]
  BY <1>4, <1>6
<1>8. PICK b : b = p \o a
  OBVIOUS
<1>9. /\ b \in Seq(Tokens) /\ Len(b) = Len(p) + Len(a)
      /\ \A i \in 1 .. Len(p) + Len(a) : b[i] = IF i <= Len(p) THEN p[i] ELSE a[i - Len(p)]
  BY <1>5, <1>8, ConcatProperties
<1>10. PICK u, v : u = b \o z /\ v = p \o o
  OBVIOUS
<1>11. /\ u \in Seq(Tokens) /\ Len(u) = Len(b) + Len(z)
       /\ \A i \in 1 .. Len(b) + Len(z) : u[i] = IF i <= Len(b) THEN b[i] ELSE z[i - Len(b)]
  <2>1. b \in Seq(Tokens) /\ z \in Seq(Tokens)
    BY <1>7, <1>9
  <2> QED BY <1>10, <2>1, ConcatProperties
<1>12. /\ v \in Seq(Tokens) /\ Len(v) = Len(p) + Len(o)
       /\ \A i \in 1 .. Len(p) + Len(o) : v[i] = IF i <= Len(p) THEN p[i] ELSE o[i - Len(p)]
  BY <1>10, ConcatProperties
<1>13. Len(u) = Len(v) /\ Len(u) = m + n + 1 /\ Len(b) = m + n /\ Len(p) = m
  BY <1>2, <1>3, <1>5, <1>7, <1>9, <1>11, <1>12
<1>14. ASSUME NEW i \in 1 .. Len(u) PROVE u[i] = v[i]
  <2>1. i \in 1 .. m + n + 1 /\ i \in 1 .. Len(b) + Len(z) /\ i \in 1 .. Len(p) + Len(o)
    BY <1>3, <1>7, <1>13
  <2>2. CASE i <= m
    <3>1. i <= Len(b) /\ i <= Len(p) /\ i \in 1 .. Len(p) + Len(a)
      BY <1>3, <1>5, <1>13, <2>1, <2>2
    <3>2. u[i] = b[i] /\ b[i] = p[i] /\ v[i] = p[i]
      BY <1>9, <1>11, <1>12, <2>1, <3>1
    <3> QED BY <3>2
  <2>3. CASE ~ (i <= m) /\ i <= m + n
    <3>1. i <= Len(b) /\ ~ (i <= Len(p)) /\ i \in 1 .. Len(p) + Len(a) /\ i - Len(p) \in 1 .. n
      BY <1>3, <1>5, <1>13, <2>1, <2>3
    <3>2. u[i] = b[i] /\ b[i] = a[i - Len(p)] /\ v[i] = o[i - Len(p)]
      BY <1>9, <1>11, <1>12, <2>1, <3>1
    <3> QED BY <1>5, <3>1, <3>2
  <2>4. CASE ~ (i <= m + n)
    <3>1. ~ (i <= Len(b)) /\ ~ (i <= Len(p)) /\ i - Len(b) = 1 /\ i - Len(p) = Len(o)
      BY <1>3, <1>13, <2>1, <2>4
    <3>2. u[i] = z[i - Len(b)] /\ v[i] = o[i - Len(p)]
      BY <1>11, <1>12, <2>1, <3>1
    <3> QED BY <1>7, <3>1, <3>2
  <2> QED BY <1>3, <2>1, <2>2, <2>3, <2>4
<1>15. u = v
  BY <1>11, <1>12, <1>13, <1>14, SeqEqual
<1> QED BY <1>1, <1>2, <1>4, <1>6, <1>8, <1>10, <1>15

(* Accepting a token leaves it to be fed. *)
LEMMA ButLastOfAppend ==
  ASSUME NEW o \in Seq(Tokens), NEW t \in Tokens
  PROVE  /\ Append(o, t) # <<>>
         /\ SubSeq(Append(o, t), 1, Len(Append(o, t)) - 1) = o
<1>1. PICK a, n : a = Append(o, t) /\ n = Len(o)
  OBVIOUS
<1>2. /\ a \in Seq(Tokens) /\ Len(a) = n + 1 /\ a # <<>> /\ n \in Nat
      /\ \A i \in 1 .. n : a[i] = o[i]
  BY <1>1, AppendProperties
<1>3. n \in 0 .. Len(a) /\ Len(a) - 1 = n
  BY <1>2
<1>4. PICK s : s = SubSeq(a, 1, n)
  OBVIOUS
<1>5. s \in Seq(Tokens) /\ Len(s) = n /\ \A i \in 1 .. n : s[i] = a[i]
  BY <1>2, <1>3, <1>4, PartFacts
<1>6. s = o
  BY <1>1, <1>2, <1>5, SeqEqual
<1> QED BY <1>1, <1>2, <1>3, <1>4, <1>6

(* The first token: the prompt was fed and nothing else. *)
LEMMA FedPrompt ==
  ASSUME NEW p \in Seq(Tokens)
  PROVE  p \o <<>> = p
  BY ConcatEmptySeq

-----------------------------------------------------------------------------
(* What an operation on one cache leaves alone. *)

OthersKept(r) ==
    \A d \in Requests \ {r} :
        status'[d] = status[d] /\ prompt'[d] = prompt[d] /\ text'[d] = text[d]

LEMMA ReleaseKeeps ==
  ASSUME CacheInv, NEW r \in Requests, Release(r) PROVE OthersKept(r) /\ status'[r] = "closed"
<1>1. /\ prompt' = [prompt EXCEPT ![r] = <<>>] /\ text' = [text EXCEPT ![r] = <<>>]
      /\ status' = [status EXCEPT ![r] = "closed"]
  BY DEF Release, Free
<1> QED BY <1>1 DEF OthersKept, CacheInv, KVInv, KVTypeOK, PromptSound, Requests

LEMMA OpenKeeps ==
  ASSUME CacheInv, NEW r \in Requests, Open(r)
  PROVE  OthersKept(r) /\ status'[r] = "open" /\ NumFree' = NumFree
<1>1. UNCHANGED <<prompt, text, refs>> /\ status' = [status EXCEPT ![r] = "open"]
  BY DEF Open, Allocate
<1> QED BY <1>1 DEF OthersKept, CacheInv, KVInv, KVTypeOK, Requests, NumFree, FreeBlocks

LEMMA KeptBehind ==
  ASSUME NEW r, Behind(r), status'[r] = status[r], prompt'[r] = prompt[r], text'[r] = text[r],
         output'[r] = output[r]
  PROVE  Behind(r)'
  BY DEF Behind, Seated, FedButLast, Prompt

LEMMA KeptCaughtUp ==
  ASSUME NEW r, CaughtUp(r), status'[r] = status[r], prompt'[r] = prompt[r], text'[r] = text[r],
         output'[r] = output[r]
  PROVE  CaughtUp(r)'
  BY DEF CaughtUp, Seated, FedAll, Prompt

LEMMA SamePool ==
  ASSUME CacheInv, UNCHANGED pcVars
  PROVE  /\ CacheInv' /\ NumFree' = NumFree
         /\ UNCHANGED <<refs, table, numTokens, text, status, prompt>>
<1>1. UNCHANGED <<refs, table, numTokens, text, status, prompt>>
  BY DEF pcVars, kvVars
<1>2. CacheInv'
  BY CacheInvStep
<1> QED BY <1>1, <1>2 DEF NumFree, FreeBlocks

-----------------------------------------------------------------------------
(* The event loop's calls fall anywhere in step(): they touch no sequence. *)
LEMMA LoopCallData ==
  ASSUME DataInv, Inv', QueuedFresh',
         UNCHANGED <<pcVars, pc, running, admitted, still, cur, idx, output>>
  PROVE  DataInv'
<1>1. /\ CacheInv' /\ NumFree' = NumFree
      /\ UNCHANGED <<refs, table, numTokens, text, status, prompt>>
  BY SamePool DEF DataInv
<1>2. BatchFed'
  <2>1. \A r : (Behind(r) => Behind(r)') /\ (CaughtUp(r) => CaughtUp(r)')
    BY <1>1, KeptBehind, KeptCaughtUp
  <2>2. UNCHANGED <<ToSet(admitted), ToSet(running), ToSet(still)>>
    BY DEF ToSet
  <2>3. /\ \A r \in ToSet(admitted)' : Behind(r)'
        /\ pc' \notin {"grow", "sample"} => \A r \in ToSet(running)' : Behind(r)'
    BY <2>1, <2>2 DEF DataInv, BatchFed
  <2>4. ASSUME pc' = "grow", NEW i \in 1 .. Len(running)
        PROVE  IF i < idx THEN CaughtUp(running[i])' ELSE Behind(running[i])'
    BY <2>1, <2>4 DEF DataInv, BatchFed
  <2>5. ASSUME pc' = "sample"
        PROVE  /\ \A i \in idx .. Len(running) : CaughtUp(running[i])'
               /\ \A r \in ToSet(still) : Behind(r)'
    BY <2>1, <2>5 DEF DataInv, BatchFed
  <2> QED BY <2>2, <2>3, <2>4, <2>5 DEF BatchFed
<1>3. InHandFed'
  BY <1>1 DEF DataInv, InHandFed, BlocksNeeded, CeilDiv, Prompt
<1>4. RoomToGrow'
  <2>1. RestNeeds' = RestNeeds
    BY <1>1 DEF RestNeeds, Rest, NeedsBlock, CopiesTail
  <2> QED BY <1>1, <2>1 DEF DataInv, RoomToGrow
<1>5. NeverRaisesMidway'
  BY <1>1 DEF DataInv, NeverRaisesMidway
<1> QED BY <1>1, <1>2, <1>3, <1>4, <1>5 DEF DataInv

LEMMA AddRequestData == ASSUME DataInv, Inv', NEW r \in Requests, AddRequest(r) PROVE DataInv'
<1>1. /\ r \notin submitted /\ submitted' = submitted \cup {r}
      /\ waiting' = waiting \/ waiting' = Append(waiting, r)
      /\ UNCHANGED <<pcVars, pc, running, admitted, still, cur, idx, output>>
  BY DEF AddRequest
<1>2. ToSet(waiting)' \subseteq ToSet(waiting) \cup {r}
  <2>1. List(waiting)
    BY DEF DataInv, Inv, Lists
  <2>2. CASE waiting' = waiting
    BY <2>2 DEF ToSet
  <2>3. CASE waiting' = Append(waiting, r)
    <3>1. r \notin ToSet(waiting)
      BY <1>1 DEF DataInv, Inv, Tracked
    <3>2. ToSet(Append(waiting, r)) = ToSet(waiting) \cup {r}
      BY <2>1, <3>1, AppendList
    <3>3. ToSet(waiting)' = ToSet(waiting')
      BY DEF ToSet
    <3> QED BY <2>3, <3>2, <3>3
  <2> QED BY <1>1, <2>2, <2>3
<1>3. QueuedFresh'
  BY <1>1, <1>2 DEF DataInv, QueuedFresh
<1> QED BY <1>1, <1>3, LoopCallData

LEMMA RequestCancelData ==
  ASSUME DataInv, Inv', NEW r \in Requests, RequestCancel(r) PROVE DataInv'
<1>1. UNCHANGED <<pcVars, pc, running, admitted, still, cur, idx, output, waiting, submitted>>
  BY DEF RequestCancel, engineVars, resultVars
<1>2. QueuedFresh'
  BY <1>1 DEF DataInv, QueuedFresh, ToSet
<1> QED BY <1>1, <1>2, LoopCallData

(* Outside the decode pass, the batch is one token behind. *)
LEMMA CalmData ==
  ASSUME DataInv, Inv', CacheInv', pc' \notin {"grow", "sample"}, InHandFed',
         \A r \in ToSet(running)' \cup ToSet(admitted)' : Behind(r)',
         QueuedFresh', NeverRaisesMidway'
  PROVE  DataInv'
<1>1. BatchFed' /\ RoomToGrow'
  BY DEF BatchFed, RoomToGrow
<1> QED BY <1>1 DEF DataInv

LEMMA StillData ==
  ASSUME DataInv, Inv', pc \notin {"grow", "sample"}, pc' \notin {"grow", "sample"} \cup Prefilling,
         UNCHANGED <<pcVars, output, submitted>>,
         ToSet(running)' \cup ToSet(admitted)' \subseteq ToSet(running) \cup ToSet(admitted),
         ToSet(waiting)' \subseteq ToSet(waiting)
  PROVE  DataInv'
<1>1. CacheInv' /\ UNCHANGED <<text, status, prompt>>
  BY SamePool DEF DataInv
<1>2. \A r \in ToSet(running) \cup ToSet(admitted) : Behind(r)'
  BY <1>1, KeptBehind DEF DataInv, BatchFed
<1>3. InHandFed'
  BY DEF InHandFed, Prefilling
<1>4. QueuedFresh' /\ NeverRaisesMidway'
  BY <1>1 DEF DataInv, QueuedFresh, NeverRaisesMidway
<1> QED BY <1>1, <1>2, <1>3, <1>4, CalmData

LEMMA StepBeginData == ASSUME DataInv, Inv', StepBegin PROVE DataInv'
<1>1. /\ pc = "idle" /\ pc' = "cancel"
      /\ UNCHANGED <<pcVars, output, submitted, waiting, running, admitted>>
  BY DEF StepBegin, loopVars, resultVars
<1>2. UNCHANGED <<ToSet(waiting), ToSet(running), ToSet(admitted)>>
  BY <1>1 DEF ToSet
<1> QED BY <1>1, <1>2, StillData DEF Prefilling

LEMMA IdleCancelData == ASSUME DataInv, Inv', IdleCancel PROVE DataInv'
<1>1. /\ pc = "idle" /\ pc' = "idle"
      /\ UNCHANGED <<pcVars, output, submitted, waiting, running, admitted>>
  BY DEF IdleCancel, loopVars, resultVars, engineVars
<1>2. UNCHANGED <<ToSet(waiting), ToSet(running), ToSet(admitted)>>
  BY <1>1 DEF ToSet
<1> QED BY <1>1, <1>2, StillData DEF Prefilling

LEMMA CancelDoneData == ASSUME DataInv, Inv', CancelDone PROVE DataInv'
<1>1. /\ pc = "cancel" /\ pc' = "admit"
      /\ UNCHANGED <<pcVars, output, submitted, waiting, running, admitted>>
  BY DEF CancelDone, loopVars, resultVars
<1>2. UNCHANGED <<ToSet(waiting), ToSet(running), ToSet(admitted)>>
  BY <1>1 DEF ToSet
<1> QED BY <1>1, <1>2, StillData DEF Prefilling

LEMMA CancelWaitingData ==
  ASSUME DataInv, Inv', NEW r \in Requests, CancelWaiting(r) PROVE DataInv'
<1>1. /\ pc = "cancel" /\ pc' = "cancel" /\ r \in ToSet(waiting)
      /\ waiting' = Without(waiting, r)
      /\ UNCHANGED <<pcVars, output, submitted, running, admitted>>
  BY DEF CancelWaiting, loopVars
<1>2. List(waiting)
  BY DEF DataInv, Inv, Lists
<1>3. ToSet(waiting') = ToSet(waiting) \ {r}
  BY <1>1, <1>2, WithoutList
<1>4. /\ UNCHANGED <<ToSet(running), ToSet(admitted)>>
      /\ ToSet(waiting)' = ToSet(waiting')
  BY <1>1 DEF ToSet
<1> QED BY <1>1, <1>3, <1>4, StillData DEF Prefilling

LEMMA AdmitEndData == ASSUME DataInv, Inv', AdmitEnd PROVE DataInv'
<1>1. /\ pc = "admit" /\ pc' \in {"idle", "decode"}
      /\ running' = running \o admitted /\ admitted' = <<>>
      /\ UNCHANGED <<pcVars, output, submitted, waiting>>
  BY DEF AdmitEnd, loopVars, resultVars
<1>2. List(running) /\ List(admitted) /\ ToSet(running) \cap ToSet(admitted) = {}
  BY DEF DataInv, Inv, Lists, Apart
<1>3. ToSet(running') = ToSet(running) \cup ToSet(admitted) /\ ToSet(admitted') = {}
  BY <1>1, <1>2, ConcatList, EmptyList
<1>4. /\ ToSet(waiting)' = ToSet(waiting) /\ ToSet(running)' = ToSet(running')
      /\ ToSet(admitted)' = ToSet(admitted')
  BY <1>1 DEF ToSet
<1> QED BY <1>1, <1>3, <1>4, StillData DEF Prefilling

(* A sequence leaves the batch with its cache. *)
LEMMA ReleasedData ==
  ASSUME DataInv, Inv', NEW r \in Requests, Release(r),
         pc \notin {"grow", "sample"}, pc' \notin {"grow", "sample"} \cup Prefilling,
         ToSet(running)' \cup ToSet(admitted)' \subseteq
            (ToSet(running) \cup ToSet(admitted)) \ {r},
         \A d \in Requests \ {r} : output'[d] = output[d],
         QueuedFresh'
  PROVE  DataInv'
<1>1. CacheInv' /\ OthersKept(r) /\ status'[r] = "closed"
  BY ReleaseStep, ReleaseKeeps DEF DataInv, Requests
<1>2. ToSet(running) \cup ToSet(admitted) \subseteq Requests
  BY ListFacts DEF DataInv, Inv, Lists
<1>3. ASSUME NEW d \in (ToSet(running) \cup ToSet(admitted)) \ {r} PROVE Behind(d)'
  <2>1. Behind(d)
    BY DEF DataInv, BatchFed
  <2>2. /\ status'[d] = status[d] /\ prompt'[d] = prompt[d] /\ text'[d] = text[d]
        /\ output'[d] = output[d]
    BY <1>1, <1>2 DEF OthersKept
  <2> QED BY <2>1, <2>2, KeptBehind
<1>4. InHandFed'
  BY DEF InHandFed, Prefilling
<1>5. NeverRaisesMidway'
  BY <1>1 DEF DataInv, NeverRaisesMidway, OthersKept
<1> QED BY <1>1, <1>3, <1>4, <1>5, CalmData

LEMMA CancelRunningData ==
  ASSUME DataInv, Inv', NEW r \in Requests, CancelRunning(r) PROVE DataInv'
<1>1. /\ pc = "cancel" /\ pc' = "cancel" /\ r \in ToSet(running) /\ Release(r)
      /\ running' = Without(running, r)
      /\ UNCHANGED <<output, submitted, waiting, admitted>>
  BY DEF CancelRunning, loopVars
<1>2. List(running) /\ ToSet(running) \cap ToSet(admitted) = {}
  BY DEF DataInv, Inv, Lists, Apart
<1>3. ToSet(running') = ToSet(running) \ {r}
  BY <1>1, <1>2, WithoutList
<1>4. /\ UNCHANGED <<ToSet(waiting), ToSet(admitted)>>
      /\ ToSet(running)' = ToSet(running')
  BY <1>1 DEF ToSet
<1>5. QueuedFresh'
  BY <1>1, <1>4 DEF DataInv, QueuedFresh
<1> QED BY <1>1, <1>2, <1>3, <1>4, <1>5, ReleasedData DEF Prefilling

-----------------------------------------------------------------------------
(* _admit. *)

LEMMA AdmitEvictData == ASSUME DataInv, Inv', AdmitEvict PROVE DataInv'
<1>1. /\ pc = "admit" /\ pc' = "admit"
      /\ UNCHANGED <<text, status, prompt, output, waiting, running, admitted, submitted>>
  BY DEF AdmitEvict, EnsureFree, Forget, engineVars, loopVars, resultVars
<1>2. CacheInv'
  BY EnsureFreeStep DEF AdmitEvict, DataInv
<1>3. UNCHANGED <<ToSet(waiting), ToSet(running), ToSet(admitted)>>
  BY <1>1 DEF ToSet
<1>4. \A r \in ToSet(running) \cup ToSet(admitted) : Behind(r)'
  BY <1>1, KeptBehind DEF DataInv, BatchFed
<1>5. InHandFed' /\ QueuedFresh' /\ NeverRaisesMidway'
  BY <1>1, <1>3 DEF InHandFed, Prefilling, DataInv, QueuedFresh, NeverRaisesMidway
<1> QED BY <1>1, <1>2, <1>3, <1>4, <1>5, CalmData

(* A step of the prefill of the request in hand. *)
LEMMA HandData ==
  ASSUME DataInv, Inv', CacheInv', NEW r \in Requests, OthersKept(r), status'[r] = "open",
         pc \notin {"grow", "sample"}, pc' \in Prefilling, InHandFed',
         r \notin ToSet(running) \cup ToSet(admitted),
         UNCHANGED <<running, admitted, output, submitted>>,
         ToSet(waiting)' \subseteq ToSet(waiting)
  PROVE  DataInv'
<1>1. UNCHANGED <<ToSet(running), ToSet(admitted)>>
  BY DEF ToSet
<1>2. ToSet(running) \cup ToSet(admitted) \subseteq Requests
  BY ListFacts DEF DataInv, Inv, Lists
<1>3. \A d \in ToSet(running) \cup ToSet(admitted) : Behind(d)'
  BY <1>2, KeptBehind DEF DataInv, BatchFed, OthersKept
<1>4. QueuedFresh' /\ NeverRaisesMidway'
  BY DEF DataInv, QueuedFresh, NeverRaisesMidway, OthersKept
<1> QED BY <1>1, <1>3, <1>4, CalmData DEF Prefilling

LEMMA AdmitStartData == ASSUME DataInv, Inv', AdmitStart PROVE DataInv'
<1>a. List(waiting) /\ Lists /\ Apart
  BY DEF DataInv, Inv, Lists
<1>b. PICK r : r = Head(waiting)
  OBVIOUS
<1>1. /\ pc = "admit" /\ waiting # <<>> /\ NumFree >= AdmitTarget(r) /\ waiting' = Tail(waiting)
      /\ UNCHANGED <<running, admitted, output, submitted>>
      /\ \/ UNCHANGED <<pcVars, pc>>
         \/ Open(r) /\ cur' = r /\ pc' = "match"
  BY <1>b DEF AdmitStart, MayAdmit, loopVars
<1>2. r \in Requests /\ r \in ToSet(waiting) /\ ToSet(waiting') = ToSet(waiting) \ {r}
  BY <1>1, <1>a, <1>b, TailList
<1>3. ToSet(waiting)' = ToSet(waiting') /\ UNCHANGED <<ToSet(running), ToSet(admitted)>>
  BY <1>1 DEF ToSet
<1>4. CASE UNCHANGED <<pcVars, pc>>
  BY <1>1, <1>2, <1>3, <1>4, StillData DEF Prefilling
<1>5. CASE Open(r) /\ cur' = r /\ pc' = "match"
  <2>1. CacheInv' /\ OthersKept(r) /\ status'[r] = "open" /\ NumFree' = NumFree
    BY <1>2, <1>5, OpenStep, OpenKeeps DEF DataInv, Requests
  <2>2. output[r] = <<>>
    BY <1>2 DEF DataInv, QueuedFresh
  <2>3. BlocksNeeded(r) <= NumFree
    <3>1. BlocksNeeded(r) \in Nat /\ ReserveBlocks \in Nat
      BY <1>2, JobFacts, LimitsAssumption
    <3>2. BatchSize \in Nat
      BY <1>a, ListFacts DEF Lists, BatchSize
    <3>3. Headroom \in Nat
      BY <3>1, <3>2 DEF Headroom
    <3>4. NumFree \in Nat
      <4>1. FreeBlocks \in SUBSET Blocks
        BY DEF FreeBlocks
      <4> QED BY <4>1, BlocksAssumption, FS_Subset, FS_CardinalityType DEF NumFree
    <3> QED BY <1>1, <3>1, <3>3, <3>4 DEF AdmitTarget
  <2>4. InHandFed'
    BY <1>1, <1>5, <2>1, <2>2, <2>3 DEF InHandFed, BlocksNeeded, Prompt, CeilDiv
  <2>5. r \notin ToSet(running) \cup ToSet(admitted)
    BY <1>2, <1>a DEF Apart
  <2> QED BY <1>1, <1>2, <1>3, <1>5, <2>1, <2>4, <2>5, HandData DEF Prefilling
<1> QED BY <1>1, <1>4, <1>5

(* The blocks match hands over were not free. *)
LEMMA MatchKeeps ==
  ASSUME CacheInv, NEW r \in Requests, NEW ids \in Prompts, Match(r, ids)
  PROVE  /\ OthersKept(r) /\ status'[r] = "open" /\ NumFree' = NumFree /\ prompt'[r] = ids
         /\ numTokens'[r] % BlockSize = 0
<1>1. PICK m, s : m = MatchLength(ids) /\ s = [j \in 1 .. m |-> entries[KeyAt(ids, j)]]
  OBVIOUS
<1>2. PICK t : t = SubSeq(ids, 1, m * BlockSize)
  OBVIOUS
<1>3. /\ status[r] = "open"
      /\ refs' = [b \in Blocks |-> IF \E j \in 1 .. m : s[j] = b THEN refs[b] + 1 ELSE refs[b]]
      /\ numTokens' = [numTokens EXCEPT ![r] = m * BlockSize] /\ text' = [text EXCEPT ![r] = t]
      /\ prompt' = [prompt EXCEPT ![r] = ids] /\ UNCHANGED status
  BY <1>1, <1>2 DEF Match, Attached
<1>4. m \in Nat /\ \A j \in 1 .. m : s[j] \in DOMAIN byBlock
  BY <1>1, MatchedBlocks
<1>5. OthersKept(r) /\ status'[r] = "open" /\ prompt'[r] = ids /\ numTokens'[r] = m * BlockSize
  BY <1>3 DEF OthersKept, CacheInv, KVInv, KVTypeOK, PromptSound, Requests
<1>6. FreeBlocks' = FreeBlocks
  <2>1. ASSUME NEW b \in Blocks PROVE refs'[b] = 0 <=> refs[b] = 0
    <3>1. CASE \E j \in 1 .. m : s[j] = b
      <4>1. b \in DOMAIN byBlock
        BY <1>4, <3>1
      <4>2. refs[b] \in Nat /\ Cardinality(Holders(b)) \in Nat
            /\ refs[b] = Cardinality(Holders(b)) + 1
        BY <4>1, CachedNotOnly
      <4>3. refs'[b] = refs[b] + 1
        BY <1>3, <3>1
      <4> QED BY <4>2, <4>3
    <3>2. CASE ~ \E j \in 1 .. m : s[j] = b
      BY <1>3, <3>2
    <3> QED BY <3>1, <3>2
  <2> QED BY <2>1 DEF FreeBlocks
<1>7. (m * BlockSize) % BlockSize = 0
  <2>1. BlockSize \in Nat \ {0} /\ 0 \in 0 .. BlockSize - 1
    BY BlockSizeAssumption
  <2>2. (BlockSize * m + 0) % BlockSize = 0
    BY <1>4, <2>1, DivUnique
  <2>3. BlockSize * m + 0 = m * BlockSize
    BY <1>4, <2>1
  <2> QED BY <2>2, <2>3
<1> QED BY <1>5, <1>6, <1>7 DEF NumFree

(* The request in hand is in no list. *)
LEMMA HandApart ==
  ASSUME DataInv, pc \in Prefilling
  PROVE  /\ cur \in Requests /\ cur \in submitted
         /\ cur \notin ToSet(waiting) /\ cur \notin ToSet(running) /\ cur \notin ToSet(admitted)
         /\ status[cur] = "open" /\ output[cur] = <<>> /\ EngineTypes
         /\ Prompt(cur) \in Prompts
<1>1. EngineTypes /\ Apart /\ Control /\ Tracked /\ InHandFed
  BY DEF DataInv, Inv
<1>2. cur \in Requests
  BY <1>1, LimitsAssumption DEF EngineTypes, Control
<1> QED BY <1>1, <1>2, JobFacts DEF Apart, Tracked, InHandFed

LEMMA PrefillMatchData == ASSUME DataInv, Inv', PrefillMatch PROVE DataInv'
<1>a. PICK r : r = cur
  OBVIOUS
<1>1. /\ pc = "match" /\ pc' = "prefill" /\ Match(r, Prompt(r))
      /\ UNCHANGED <<running, admitted, output, submitted, waiting, cur>>
  BY <1>a DEF PrefillMatch, loopVars, resultVars
<1>2. /\ r \in Requests /\ r \notin ToSet(running) \cup ToSet(admitted) /\ output[r] = <<>>
      /\ Prompt(r) \in Prompts
  BY <1>1, <1>a, HandApart DEF Prefilling
<1>3. PICK ids : ids = Prompt(r)
  OBVIOUS
<1>4. CacheInv'
  BY <1>1, <1>2, <1>3, MatchStep DEF DataInv, Requests
<1>5. /\ OthersKept(r) /\ status'[r] = "open" /\ NumFree' = NumFree /\ prompt'[r] = ids
      /\ numTokens'[r] % BlockSize = 0
  BY <1>1, <1>2, <1>3, MatchKeeps DEF DataInv
<1>6. BlocksNeeded(r) <= NumFree
  BY <1>1, <1>a DEF DataInv, InHandFed
<1>7. InHandFed'
  BY <1>1, <1>2, <1>3, <1>5, <1>6, <1>a DEF InHandFed, BlocksNeeded, Prompt, CeilDiv
<1>8. UNCHANGED ToSet(waiting)
  BY <1>1 DEF ToSet
<1> QED BY <1>1, <1>2, <1>4, <1>5, <1>7, <1>8, HandData DEF Prefilling

(* An update that fits. *)
LEMMA FitsKeeps ==
  ASSUME CacheInv, NEW r \in Requests, NEW new, UpdateFits(r, new), UNCHANGED prompt
  PROVE  /\ OthersKept(r) /\ status[r] = "open" /\ status'[r] = "open"
         /\ numTokens'[r] = numTokens[r] + Len(new) /\ text'[r] = text[r] \o new
         /\ \A d \in Requests \ {r} : table'[d] = table[d] /\ numTokens'[d] = numTokens[d]
<1>1. /\ status[r] = "open" /\ UNCHANGED status
      /\ numTokens' = [numTokens EXCEPT ![r] = numTokens[r] + Len(new)]
      /\ text' = [text EXCEPT ![r] = text[r] \o new]
      /\ \E t : table' = [table EXCEPT ![r] = t]
  BY DEF UpdateFits
<1>2. KVTypeOK
  BY DEF CacheInv, KVInv
<1> QED BY <1>1, <1>2 DEF OthersKept, KVTypeOK, Requests

(* The prefill was admitted with the blocks it asks for free. *)
LEMMA PrefillFits ==
  ASSUME DataInv, pc = "prefill", Prefill(cur)
  PROVE  /\ UpdateFits(cur, Suffix(cur)) /\ cur \in Requests
         /\ numTokens[cur] + Len(Suffix(cur)) = Len(Prompt(cur)) /\ Suffix(cur) \in Seq(Tokens)
<1>1. PICK r, new : r = cur /\ new = Suffix(cur)
  OBVIOUS
<1>2. /\ r \in Requests /\ prompt[r] = Prompt(r) /\ numTokens[r] % BlockSize = 0
      /\ BlocksNeeded(r) <= NumFree /\ numTokens[r] < Len(prompt[r])
      /\ UpdateFits(r, new) \/ UpdateRaises(r, new)
  BY <1>1, HandApart DEF DataInv, InHandFed, Prefilling, Prefill
<1>3. Prompt(r) # <<>> /\ Len(Prompt(r)) \in Nat /\ BlocksNeeded(r) \in Nat
  BY <1>2, JobFacts
<1>4. new \in Seq(Tokens) /\ Len(new) = Len(prompt[r]) - numTokens[r]
  BY <1>1, <1>2, <1>3, SuffixFacts DEF DataInv, Requests
<1>5. numTokens[r] \in Nat /\ Len(table[r]) \in Nat
  BY <1>2, MaxTokensAssumption DEF DataInv, CacheInv, KVInv, KVTypeOK, Requests
<1>6. numTokens[r] + Len(new) = Len(Prompt(r))
  BY <1>2, <1>3, <1>4, <1>5
<1>7. NumFree \in Nat
  <2>1. FreeBlocks \in SUBSET Blocks
    BY DEF FreeBlocks
  <2> QED BY <2>1, BlocksAssumption, FS_Subset, FS_CardinalityType DEF NumFree
<1>8. BlocksWanted(r, Len(new)) <= NumFree
  <2>1. CeilDiv(numTokens[r] + Len(new), BlockSize) = BlocksNeeded(r)
    BY <1>6 DEF BlocksNeeded
  <2>2. ~ CopiesTail(r)
    BY <1>2 DEF CopiesTail
  <2>3. BlocksWanted(r, Len(new))
          = IF BlocksNeeded(r) - Len(table[r]) > 0 THEN BlocksNeeded(r) - Len(table[r]) ELSE 0
    BY <1>3, <1>5, <2>1, <2>2 DEF BlocksWanted
  <2> QED BY <1>2, <1>3, <1>5, <1>7, <2>3
<1>9. BlocksWanted(r, Len(new)) \in Int
  BY <1>3, <1>5, <1>6 DEF BlocksWanted, BlocksNeeded
<1>10. ~ UpdateRaises(r, new)
  BY <1>7, <1>8, <1>9 DEF UpdateRaises
<1> QED BY <1>1, <1>2, <1>4, <1>6, <1>10

LEMMA PrefillModelData == ASSUME DataInv, Inv', PrefillModel PROVE DataInv'
<1>a. PICK r, new : r = cur /\ new = Suffix(cur)
  OBVIOUS
<1>1. /\ pc = "prefill" /\ pc' = "insert" /\ Prefill(r)
      /\ UNCHANGED <<running, admitted, output, submitted, waiting, cur, prompt>>
  BY <1>a DEF PrefillModel, loopVars, resultVars, Prefill
<1>2. /\ r \in Requests /\ r \notin ToSet(running) \cup ToSet(admitted) /\ output[r] = <<>>
  BY <1>1, <1>a, HandApart DEF Prefilling
<1>3. prompt[r] = Prompt(r) /\ Prompt(r) # <<>>
  BY <1>1, <1>2, <1>a, JobFacts DEF DataInv, InHandFed
<1>4. CacheInv'
  BY <1>1, <1>2, <1>3, PrefillStep DEF DataInv, Requests
<1>5. UpdateFits(r, new) /\ numTokens[r] + Len(new) = Len(Prompt(r))
  BY <1>1, <1>a, PrefillFits
<1>6. OthersKept(r) /\ status'[r] = "open" /\ numTokens'[r] = numTokens[r] + Len(new)
  BY <1>1, <1>2, <1>5, FitsKeeps DEF DataInv
<1>7. InHandFed'
  BY <1>1, <1>2, <1>3, <1>5, <1>6, <1>a DEF InHandFed, Prompt
<1>8. UNCHANGED ToSet(waiting)
  BY <1>1 DEF ToSet
<1> QED BY <1>1, <1>2, <1>4, <1>6, <1>7, <1>8, HandData DEF Prefilling

LEMMA PrefillInsertData == ASSUME DataInv, Inv', PrefillInsert PROVE DataInv'
<1>a. PICK r : r = cur
  OBVIOUS
<1>1. pc = "insert" /\ UNCHANGED <<running, admitted, output, submitted, waiting>>
  BY DEF PrefillInsert, loopVars
<1>2. /\ r \in Requests /\ r \notin ToSet(running) \cup ToSet(admitted) /\ output[r] = <<>>
      /\ status[r] = "open" /\ CacheInv
      /\ prompt[r] = Prompt(r) /\ numTokens[r] = Len(Prompt(r))
  BY <1>1, <1>a, HandApart DEF Prefilling, DataInv, InHandFed
<1>3. Insert(r) /\ pc' = "first" /\ UNCHANGED cur
  BY <1>1, <1>2, <1>a DEF PrefillInsert
<1>4. CacheInv'
  BY <1>2, <1>3, InsertStep DEF Requests
<1>5. prompt' = [prompt EXCEPT ![r] = <<>>] /\ UNCHANGED <<text, status>>
  BY <1>3 DEF Insert
<1>6. OthersKept(r) /\ status'[r] = "open" /\ prompt'[r] = <<>>
  BY <1>2, <1>5 DEF OthersKept, CacheInv, PromptSound, Requests
<1>7. text'[r] = Prompt(r)
  <2>1. Prompt(r) \in Seq(Tokens) /\ Prompt(r) # <<>>
    BY <1>2, JobFacts
  <2>2. text[r] = SubSeq(Prompt(r), 1, Len(Prompt(r)))
    BY <1>2, <2>1 DEF CacheInv, PromptSound, Requests
  <2> QED BY <1>5, <2>1, <2>2, SubSeqFull
<1>8. InHandFed'
  BY <1>1, <1>2, <1>3, <1>6, <1>7, <1>a DEF InHandFed, Prompt
<1>9. UNCHANGED ToSet(waiting)
  BY <1>1 DEF ToSet
<1> QED BY <1>1, <1>2, <1>3, <1>4, <1>6, <1>8, <1>9, HandData DEF Prefilling

(* A token that ends nothing is appended. *)
LEMMA AcceptFacts ==
  ASSUME EngineTypes, NEW r \in Requests, NEW t \in Outputs, Accept(r, t)
  PROVE  /\ \A d \in Requests \ {r} : output'[d] = output[d]
         /\ ~ Finished(r, t) => output'[r] = Append(output[r], t)
<1>1. output' = output \/ output' = [output EXCEPT ![r] = Append(output[r], t)]
  BY DEF Accept
<1>2. ~ Finished(r, t) => output' = [output EXCEPT ![r] = Append(output[r], t)]
  BY DEF Accept, Finished
<1> QED BY <1>1, <1>2 DEF EngineTypes

LEMMA FirstTokenData == ASSUME DataInv, Inv', NEW t \in Outputs, FirstToken(t) PROVE DataInv'
<1>a. PICK r : r = cur
  OBVIOUS
<1>1. /\ pc = "first" /\ pc' = "admit" /\ Accept(r, t)
      /\ UNCHANGED <<running, submitted, waiting>>
      /\ IF Finished(r, t) THEN Release(r) /\ UNCHANGED admitted
         ELSE admitted' = Append(admitted, r) /\ UNCHANGED pcVars
  BY <1>a DEF FirstToken, loopVars
<1>2. /\ r \in Requests /\ r \in submitted /\ output[r] = <<>> /\ status[r] = "open"
      /\ r \notin ToSet(waiting) /\ r \notin ToSet(running) /\ r \notin ToSet(admitted)
      /\ EngineTypes /\ prompt[r] = <<>> /\ text[r] = Prompt(r)
  BY <1>1, <1>a, HandApart DEF Prefilling, DataInv, InHandFed
<1>3. UNCHANGED <<ToSet(running), ToSet(waiting)>>
  BY <1>1 DEF ToSet
<1>4. \A d \in Requests \ {r} : output'[d] = output[d]
  BY <1>1, <1>2, AcceptFacts
<1>5. QueuedFresh'
  BY <1>1, <1>2, <1>3, <1>4 DEF DataInv, QueuedFresh
<1>6. CASE Finished(r, t)
  <2>1. Release(r) /\ UNCHANGED ToSet(admitted)
    BY <1>1, <1>6 DEF ToSet
  <2> QED BY <1>1, <1>2, <1>3, <1>4, <1>5, <2>1, ReleasedData DEF Prefilling
<1>7. CASE ~ Finished(r, t)
  <2>1. admitted' = Append(admitted, r) /\ UNCHANGED pcVars
    BY <1>1, <1>7
  <2>2. CacheInv' /\ UNCHANGED <<text, status, prompt>>
    BY <2>1, SamePool DEF DataInv
  <2>3. ToSet(admitted)' = ToSet(admitted) \cup {r}
    <3>1. ToSet(Append(admitted, r)) = ToSet(admitted) \cup {r}
      BY <1>2, AppendList DEF DataInv, Inv, Lists
    <3>2. ToSet(admitted)' = ToSet(admitted')
      BY DEF ToSet
    <3> QED BY <2>1, <3>1, <3>2
  <2>4. Behind(r)'
    <3>1. output'[r] = Append(<<>>, t)
      BY <1>1, <1>2, <1>7, AcceptFacts
    <3>2. <<>> \in Seq(Tokens) /\ t \in Tokens /\ Prompt(r) \in Seq(Tokens)
      BY <1>2, JobFacts, LimitsAssumption, EmptySeq
    <3>3. output'[r] # <<>> /\ SubSeq(output'[r], 1, Len(output'[r]) - 1) = <<>>
      BY <3>1, <3>2, ButLastOfAppend
    <3>4. Prompt(r) \o <<>> = Prompt(r)
      BY <3>2, FedPrompt
    <3>5. Seated(r)'
      BY <1>2, <2>2, <3>3 DEF Seated
    <3>6. FedButLast(r)'
      BY <1>2, <2>2, <3>3, <3>4 DEF FedButLast, Prompt
    <3> QED BY <3>5, <3>6 DEF Behind
  <2>5. ToSet(running) \cup ToSet(admitted) \subseteq Requests
    BY ListFacts DEF DataInv, Inv, Lists
  <2>6. ASSUME NEW d \in ToSet(running) \cup ToSet(admitted) PROVE Behind(d)'
    <3>1. Behind(d) /\ output'[d] = output[d]
      BY <1>1, <1>2, <1>4, <2>5 DEF DataInv, BatchFed
    <3> QED BY <2>2, <3>1, KeptBehind
  <2>7. InHandFed' /\ NeverRaisesMidway'
    BY <1>1, <2>2 DEF InHandFed, Prefilling, DataInv, NeverRaisesMidway
  <2> QED BY <1>1, <1>3, <1>5, <2>2, <2>3, <2>4, <2>6, <2>7, CalmData
<1> QED BY <1>6, <1>7

-----------------------------------------------------------------------------
(* The decode pass. *)

(* _prepare counted the blocks of the whole batch. *)
LEMMA DecodeBeginData == ASSUME DataInv, Inv', DecodeBegin PROVE DataInv'
<1>1. /\ pc = "decode" /\ DecodeNeed <= NumFree /\ pc' = "grow" /\ idx' = 1
      /\ UNCHANGED <<pcVars, running, admitted, output, submitted, waiting>>
  BY DEF DecodeBegin, loopVars, resultVars
<1>2. /\ CacheInv' /\ NumFree' = NumFree
      /\ UNCHANGED <<refs, table, numTokens, text, status, prompt>>
  BY <1>1, SamePool DEF DataInv
<1>3. UNCHANGED <<ToSet(running), ToSet(waiting), ToSet(admitted)>> /\ List(running)
  BY <1>1 DEF ToSet, DataInv, Inv, Lists
<1>4. BatchFed'
  <2>1. \A r \in ToSet(running) \cup ToSet(admitted) : Behind(r)'
    BY <1>1, <1>2, KeptBehind DEF DataInv, BatchFed
  <2>2. \A i \in 1 .. Len(running) : running[i] \in ToSet(running) /\ ~ (i < 1)
    BY <1>3, ListFacts
  <2>3. \A i \in 1 .. Len(running') :
           IF i < idx' THEN CaughtUp(running[i])' ELSE Behind(running[i])'
    BY <1>1, <2>1, <2>2
  <2> QED BY <1>1, <1>3, <2>1, <2>3 DEF BatchFed
<1>5. RoomToGrow'
  <2>1. Rest' = ToSet(running)
    BY <1>1 DEF Rest, ToSet
  <2>2. RestNeeds' = {r \in ToSet(running) : NeedsBlock(r)}
    BY <1>2, <2>1 DEF RestNeeds, NeedsBlock, CopiesTail
  <2> QED BY <1>1, <1>2, <2>2 DEF RoomToGrow, DecodeNeed
<1>6. InHandFed' /\ QueuedFresh' /\ NeverRaisesMidway'
  BY <1>1, <1>2, <1>3 DEF InHandFed, Prefilling, DataInv, QueuedFresh, NeverRaisesMidway
<1> QED BY <1>2, <1>4, <1>5, <1>6 DEF DataInv

(* The victim of a preemption. *)
LEMMA VictimFacts ==
  ASSUME Inv, Preempt
  PROVE  LET v == running[Len(running)]
         IN  /\ v \in Requests /\ v \in ToSet(running) /\ v \notin ToSet(admitted)
             /\ ToSet(running)' = ToSet(running) \ {v} /\ ToSet(waiting)' = {v} \cup ToSet(waiting)
<1>a. EngineTypes /\ Lists /\ Apart /\ Control
  BY DEF Inv
<1>b. PICK v, n : v = running[Len(running)] /\ n = Len(running)
  OBVIOUS
<1>1. /\ pc = "decode"
      /\ running' = SubSeq(running, 1, n - 1) /\ waiting' = <<v>> \o waiting
  BY <1>b DEF Preempt
<1>2. n \in Nat \ {0} /\ v = running[n] /\ v \in Requests /\ v \in ToSet(running)
  BY <1>1, <1>a, <1>b, ListFacts DEF Lists, Control
<1>3. ToSet(running') = {running[i] : i \in 1 .. n - 1}
  <2>1. n - 1 \in Nat /\ n - 1 <= n /\ 1 <= (n - 1) + 1
    BY <1>2
  <2> QED BY <1>1, <1>a, <1>b, <2>1, PartList DEF Lists
<1>4. ToSet(running') = ToSet(running) \ {v}
  <2>1. \A i, j \in 1 .. n : running[i] = running[j] => i = j
    BY <1>a, <1>b DEF Lists, List, Uniq
  <2>2. ASSUME NEW i \in 1 .. n - 1 PROVE running[i] \in ToSet(running) \ {v}
    <3>1. i \in 1 .. n /\ n \in 1 .. n /\ i # n
      BY <1>2
    <3> QED BY <1>2, <1>b, <2>1, <3>1 DEF ToSet
  <2>3. ASSUME NEW i \in 1 .. n, running[i] # v PROVE running[i] \in ToSet(running')
    <3>1. i \in 1 .. n - 1
      BY <1>2, <2>3
    <3> QED BY <1>3, <3>1
  <2>4. ToSet(running) = {running[i] : i \in 1 .. n}
    BY <1>b DEF ToSet
  <2> QED BY <1>3, <2>2, <2>3, <2>4
<1>5. PICK one : one = <<v>>
  OBVIOUS
<1>6. List(one) /\ ToSet(one) = {v}
  BY <1>2, <1>5 DEF List, Uniq, ToSet
<1>7. v \notin ToSet(waiting) /\ v \notin ToSet(admitted)
  BY <1>2, <1>a DEF Apart
<1>8. ToSet(waiting') = {v} \cup ToSet(waiting)
  <2>1. ToSet(one) \cap ToSet(waiting) = {}
    BY <1>6, <1>7
  <2> QED BY <1>1, <1>5, <1>6, <1>a, <2>1, ConcatList DEF Lists
<1>9. ToSet(waiting)' = ToSet(waiting') /\ ToSet(running)' = ToSet(running')
  BY DEF ToSet
<1> QED BY <1>2, <1>4, <1>7, <1>8, <1>9, <1>b

LEMMA PreemptData == ASSUME DataInv, Inv', Preempt PROVE DataInv'
<1>a. PICK v : v = running[Len(running)]
  OBVIOUS
<1>1. /\ pc = "decode" /\ pc' = "idle" /\ Release(v)
      /\ output' = [output EXCEPT ![v] = <<>>] /\ UNCHANGED <<admitted, submitted>>
  BY <1>a DEF Preempt, loopVars
<1>2. /\ v \in Requests /\ v \in ToSet(running) /\ v \notin ToSet(admitted)
      /\ ToSet(running)' = ToSet(running) \ {v} /\ ToSet(waiting)' = {v} \cup ToSet(waiting)
  BY <1>a, VictimFacts DEF DataInv
<1>3. UNCHANGED ToSet(admitted) /\ output \in [Requests -> Seq(Outputs)]
  BY <1>1 DEF ToSet, DataInv, Inv, EngineTypes
<1>4. output'[v] = <<>> /\ \A d \in Requests \ {v} : output'[d] = output[d]
  BY <1>1, <1>2, <1>3
<1>5. QueuedFresh'
  BY <1>1, <1>2, <1>4 DEF DataInv, QueuedFresh
<1>6. /\ ToSet(running)' \cup ToSet(admitted)' \subseteq (ToSet(running) \cup ToSet(admitted)) \ {v}
  BY <1>2, <1>3
<1> QED BY <1>1, <1>2, <1>4, <1>5, <1>6, ReleasedData DEF Prefilling

LEMMA StepEndData == ASSUME DataInv, Inv', StepEnd PROVE DataInv'
<1>1. /\ pc = "sample" /\ pc' = "idle" /\ running' = still
      /\ UNCHANGED <<pcVars, output, submitted, waiting, admitted>>
  BY DEF StepEnd, loopVars, resultVars
<1>2. CacheInv' /\ UNCHANGED <<text, status, prompt>>
  BY <1>1, SamePool DEF DataInv
<1>3. UNCHANGED <<ToSet(waiting), ToSet(admitted)>> /\ ToSet(running)' = ToSet(still)
  BY <1>1 DEF ToSet
<1>4. \A r \in ToSet(still) \cup ToSet(admitted) : Behind(r)'
  BY <1>1, <1>2, KeptBehind DEF DataInv, BatchFed
<1>5. InHandFed' /\ QueuedFresh' /\ NeverRaisesMidway'
  BY <1>1, <1>2, <1>3 DEF InHandFed, Prefilling, DataInv, QueuedFresh, NeverRaisesMidway
<1> QED BY <1>1, <1>2, <1>3, <1>4, <1>5, CalmData

LEMMA SampleData == ASSUME DataInv, Inv', NEW t \in Outputs, Sample(t) PROVE DataInv'
<1>a. EngineTypes /\ Lists /\ Apart /\ Control /\ Sampling /\ Tracked /\ CacheInv
  BY DEF DataInv, Inv
<1>b. PICK r, n : r = running[idx] /\ n = Len(running)
  OBVIOUS
<1>1. /\ pc = "sample" /\ pc' = "sample" /\ idx <= n /\ Accept(r, t) /\ idx' = idx + 1
      /\ UNCHANGED <<running, submitted, waiting, admitted>>
      /\ IF Finished(r, t) THEN Release(r) /\ UNCHANGED still
         ELSE still' = Append(still, r) /\ UNCHANGED pcVars
  BY <1>b DEF Sample, loopVars
<1>2. /\ n \in Nat /\ idx \in 1 .. n /\ r \in Requests /\ r \in ToSet(running)
      /\ \A i \in 1 .. n : running[i] \in Requests
  <2>1. n \in Nat /\ \A i \in 1 .. n : running[i] \in Requests /\ running[i] \in ToSet(running)
    BY <1>a, <1>b, ListFacts DEF Lists
  <2>2. idx \in 1 .. n
    BY <1>1, <1>a, <1>b, <2>1 DEF Control
  <2> QED BY <1>b, <2>1, <2>2
<1>3. /\ r \in submitted /\ r \notin ToSet(waiting) /\ r \notin ToSet(still) /\ admitted = <<>>
  <2>1. r \in submitted /\ r \notin ToSet(waiting)
    BY <1>2, <1>a DEF Tracked, Apart
  <2>2. r \notin ToSet(still)
    BY <1>1, <1>2, <1>a, <1>b DEF Sampling
  <2> QED BY <1>1, <1>a, <2>1, <2>2 DEF Control, Prefilling
<1>4. UNCHANGED <<ToSet(waiting), ToSet(admitted)>> /\ ToSet(admitted) = {}
      /\ ToSet(still) \subseteq Requests /\ ToSet(still)' = ToSet(still')
  BY <1>1, <1>3, <1>a, EmptyList, ListFacts DEF ToSet, Lists
<1>5. \A d \in Requests \ {r} : output'[d] = output[d]
  BY <1>1, <1>2, <1>a, AcceptFacts
<1>6. QueuedFresh'
  BY <1>1, <1>2, <1>3, <1>4, <1>5 DEF DataInv, QueuedFresh
<1>7. /\ CacheInv' /\ OthersKept(r) /\ status'[r] # "failed"
      /\ ~ Finished(r, t) => status'[r] = status[r] /\ prompt'[r] = prompt[r] /\ text'[r] = text[r]
  <2>1. CASE Finished(r, t)
    <3>1. Release(r)
      BY <1>1, <2>1
    <3>2. CacheInv' /\ OthersKept(r) /\ status'[r] = "closed"
      BY <1>2, <1>a, <3>1, ReleaseStep, ReleaseKeeps DEF Requests
    <3> QED BY <2>1, <3>2
  <2>2. CASE ~ Finished(r, t)
    <3>1. UNCHANGED pcVars
      BY <1>1, <2>2
    <3>2. CacheInv' /\ UNCHANGED <<text, status, prompt>>
      BY <1>a, <3>1, SamePool
    <3> QED BY <1>2, <3>2 DEF OthersKept, DataInv, NeverRaisesMidway
  <2> QED BY <2>1, <2>2
<1>8. \A d \in Requests \ {r} : (Behind(d) => Behind(d)') /\ (CaughtUp(d) => CaughtUp(d)')
  BY <1>5, <1>7, KeptBehind, KeptCaughtUp DEF OthersKept
<1>9. ASSUME NEW i \in idx + 1 .. n PROVE CaughtUp(running[i])'
  <2>1. i \in idx .. n /\ i \in 1 .. n /\ i # idx
    BY <1>2
  <2>2. running[i] # r
    BY <1>2, <1>a, <1>b, <2>1 DEF Lists, List, Uniq
  <2>3. CaughtUp(running[i])
    BY <1>1, <1>b, <2>1 DEF DataInv, BatchFed
  <2>4. PICK d : d = running[i]
    OBVIOUS
  <2>5. d \in Requests \ {r} /\ CaughtUp(d) /\ d = running'[i]
    BY <1>1, <1>2, <2>1, <2>2, <2>3, <2>4
  <2>6. CaughtUp(d)'
    BY <1>8, <2>5
  <2> QED BY <2>5, <2>6 DEF CaughtUp, Seated, FedAll, Prompt
<1>10. \A d \in ToSet(still) : Behind(d)'
  BY <1>1, <1>3, <1>4, <1>8 DEF DataInv, BatchFed
<1>11. \A d \in ToSet(still)' : Behind(d)'
  <2>1. CASE Finished(r, t)
    <3>1. ToSet(still)' = ToSet(still)
      BY <1>1, <1>4, <2>1
    <3> QED BY <1>10, <3>1
  <2>2. CASE ~ Finished(r, t)
    <3>1. still' = Append(still, r) /\ output'[r] = Append(output[r], t)
      BY <1>1, <1>2, <1>a, <2>2, AcceptFacts
    <3>2. ToSet(still)' = ToSet(still) \cup {r}
      BY <1>2, <1>3, <1>4, <1>a, <3>1, AppendList DEF Lists
    <3>3. CaughtUp(r)
      <4>1. idx \in idx .. n
        BY <1>2
      <4> QED BY <1>1, <1>b, <4>1 DEF DataInv, BatchFed
    <3>4. output[r] \in Seq(Tokens) /\ t \in Tokens
      BY <1>2, <1>a, OutputFacts
    <3>5. output'[r] # <<>> /\ SubSeq(output'[r], 1, Len(output'[r]) - 1) = output[r]
      BY <3>1, <3>4, ButLastOfAppend
    <3>6. Seated(r)'
      BY <1>7, <2>2, <3>3, <3>5 DEF Seated, CaughtUp
    <3>7. FedButLast(r)'
      BY <1>7, <2>2, <3>3, <3>5 DEF FedButLast, FedAll, CaughtUp, Prompt
    <3> QED BY <1>10, <3>2, <3>6, <3>7 DEF Behind
  <2> QED BY <2>1, <2>2
<1>12. BatchFed'
  BY <1>1, <1>4, <1>9, <1>11, <1>b DEF BatchFed
<1>13. InHandFed' /\ RoomToGrow'
  BY <1>1 DEF InHandFed, Prefilling, RoomToGrow
<1>14. NeverRaisesMidway'
  BY <1>7 DEF DataInv, NeverRaisesMidway, OthersKept
<1> QED BY <1>6, <1>7, <1>12, <1>13, <1>14 DEF DataInv

(* A sequence that decodes asks for one block, or for none. *)
LEMMA OneBlock ==
  ASSUME CacheInv, NEW r \in Requests, status[r] = "open"
  PROVE  BlocksWanted(r, 1) = IF NeedsBlock(r) THEN 1 ELSE 0
<1>1. PICK n, l : n = numTokens[r] /\ l = Len(table[r])
  OBVIOUS
<1>2. n \in Nat /\ BlockSize \in Nat \ {0} /\ l = CeilDiv(n, BlockSize)
  BY <1>1, MaxTokensAssumption, BlockSizeAssumption
     DEF CacheInv, KVInv, KVTypeOK, ContextSound, HoldsWhatItNeeds, Requests
<1>3. PICK q, o : q = n \div BlockSize /\ o = n % BlockSize
  OBVIOUS
<1>4. q \in Nat /\ o \in 0 .. BlockSize - 1 /\ n = BlockSize * q + o
  BY <1>2, <1>3, DivMod
<1>5. CeilDiv(n + 1, BlockSize) = q + 1
  <2>1. n + 1 \in Nat /\ n + 1 # 0 /\ (n + 1) - 1 = n
    BY <1>2
  <2>2. CeilDiv(n + 1, BlockSize) = Idx(n + 1)
    BY <2>1, CeilDivIdx
  <2> QED BY <1>3, <2>1, <2>2 DEF Idx
<1>6. CASE o = 0
  <2>1. n = q * BlockSize
    BY <1>2, <1>4, <1>6
  <2>2. l = q
    BY <1>2, <1>4, <2>1, CeilOfMultiple
  <2>3. ~ CopiesTail(r) /\ NeedsBlock(r)
    BY <1>1, <1>3, <1>6 DEF CopiesTail, NeedsBlock
  <2> QED BY <1>1, <1>4, <1>5, <2>2, <2>3 DEF BlocksWanted
<1>7. CASE o # 0
  <2>1. o - 1 \in 0 .. BlockSize - 1 /\ n # 0 /\ n - 1 = BlockSize * q + (o - 1)
    <3>1. BlockSize * q \in Nat
      BY <1>2, <1>4
    <3> QED BY <1>2, <1>4, <1>7, <3>1
  <2>2. (BlockSize * q + (o - 1)) \div BlockSize = q
    BY <1>2, <1>4, <2>1, DivUnique
  <2>3. l = q + 1
    <3>1. l = Idx(n)
      BY <1>2, <2>1, CeilDivIdx
    <3> QED BY <2>1, <2>2, <3>1 DEF Idx
  <2>4. NeedsBlock(r) <=> CopiesTail(r)
    BY <1>1, <1>3, <1>7 DEF NeedsBlock
  <2> QED BY <1>1, <1>4, <1>5, <2>3, <2>4 DEF BlocksWanted
<1> QED BY <1>6, <1>7

(* The blocks an update takes are the ones it asked for, no block becomes
   free, and a sequence that needed none still needs none. *)
LEMMA FitsTakes ==
  ASSUME CacheInv, NEW r \in Requests, NEW new, UpdateFits(r, new), BlocksWanted(r, Len(new)) \in {0, 1}
  PROVE  /\ NumFree \in Nat /\ NumFree' = NumFree - BlocksWanted(r, Len(new))
         /\ \A d \in Requests \ {r} : NeedsBlock(d)' => NeedsBlock(d)
<1>a. KVTypeOK /\ TablesSound
  BY DEF CacheInv, KVInv
<1>b. PICK n : n = BlocksWanted(r, Len(new))
  OBVIOUS
<1>1. n \in {0, 1} /\ n \in Nat
  BY <1>b
<1>2. PICK f \in DistinctFree(n) :
         /\ refs' = GrownRefs(r, f) /\ table' = [table EXCEPT ![r] = GrownTable(r, f)]
  BY <1>b DEF UpdateFits, FreshBlocks
<1>3. numTokens' = [numTokens EXCEPT ![r] = numTokens[r] + Len(new)]
  BY DEF UpdateFits
<1>4. /\ f \in Seq(Blocks) /\ Len(f) = n
      /\ \A b : b \in Elements(f) <=> \E i \in 1 .. Len(f) : f[i] = b
      /\ \A b \in Elements(f) : b \in Blocks /\ refs[b] = 0 /\ Holders(b) = {}
  BY <1>1, <1>a, FreshFacts
<1>5. ASSUME NEW b \in Blocks
      PROVE  /\ refs[b] \in Nat
             /\ b \in Elements(f) => refs'[b] = 1
             /\ b \notin Elements(f) => refs'[b] <= refs[b] /\ (refs'[b] = 0 <=> refs[b] = 0)
  <2>1. refs[b] \in Nat
    BY <1>a DEF KVTypeOK
  <2>2. CASE b \in Elements(f)
    <3>1. \E i \in 1 .. Len(f) : f[i] = b
      BY <1>4, <2>2
    <3>2. ~ (CopiesTail(r) /\ f # <<>> /\ b = table[r][Len(table[r])])
      <4>1. refs[b] = 0
        BY <1>4, <2>2
      <4> QED BY <4>1 DEF CopiesTail
    <3> QED BY <1>2, <2>1, <2>2, <3>1, <3>2 DEF GrownRefs
  <2>3. CASE b \notin Elements(f)
    <3>1. ~ \E i \in 1 .. Len(f) : f[i] = b
      BY <1>4, <2>3
    <3>2. CASE CopiesTail(r) /\ f # <<>> /\ b = table[r][Len(table[r])]
      <4>1. refs'[b] = refs[b] - 1
        BY <1>2, <3>1, <3>2 DEF GrownRefs
      <4>2. refs[b] > 1
        BY <3>2 DEF CopiesTail
      <4> QED BY <2>1, <2>3, <4>1, <4>2
    <3>3. CASE ~ (CopiesTail(r) /\ f # <<>> /\ b = table[r][Len(table[r])])
      <4>1. refs'[b] = refs[b]
        BY <1>2, <3>1, <3>3 DEF GrownRefs
      <4> QED BY <2>1, <2>3, <4>1
    <3> QED BY <3>2, <3>3
  <2> QED BY <2>2, <2>3
<1>6. FreeBlocks' = FreeBlocks \ Elements(f) /\ Elements(f) \subseteq FreeBlocks
  BY <1>4, <1>5 DEF FreeBlocks
<1>7. IsFiniteSet(FreeBlocks) /\ NumFree \in Nat
  <2>1. FreeBlocks \in SUBSET Blocks
    BY DEF FreeBlocks
  <2> QED BY <2>1, BlocksAssumption, FS_Subset, FS_CardinalityType DEF NumFree
<1>8. NumFree' = NumFree - n
  <2>1. CASE n = 0
    <3>1. Elements(f) = {}
      BY <1>4, <2>1 DEF Elements
    <3> QED BY <1>6, <1>7, <2>1, <3>1 DEF NumFree
  <2>2. CASE n = 1
    <3>1. Elements(f) = {f[1]}
      BY <1>4, <2>2 DEF Elements
    <3>2. f[1] \in FreeBlocks
      BY <1>6, <3>1
    <3>3. Cardinality(FreeBlocks \ {f[1]}) = Cardinality(FreeBlocks) - 1
      BY <1>7, <3>2, FS_RemoveElement
    <3> QED BY <1>6, <2>2, <3>1, <3>3 DEF NumFree
  <2> QED BY <1>1, <2>1, <2>2
<1>9. ASSUME NEW d \in Requests \ {r}, NeedsBlock(d)' PROVE NeedsBlock(d)
  <2>1. numTokens'[d] = numTokens[d] /\ table'[d] = table[d]
    BY <1>2, <1>3, <1>a DEF KVTypeOK, Requests
  <2>2. CASE numTokens'[d] % BlockSize = 0
    BY <2>1, <2>2 DEF NeedsBlock
  <2>3. CASE ~ (numTokens'[d] % BlockSize = 0)
    <3>1. PICK b : b = table[d][Len(table[d])]
      OBVIOUS
    <3>2. numTokens[d] % BlockSize # 0 /\ table[d] # <<>> /\ refs'[b] > 1
      BY <1>9, <2>1, <2>3, <3>1 DEF NeedsBlock, CopiesTail
    <3>3. table[d] \in Seq(Blocks) /\ Len(table[d]) \in Nat \ {0}
      BY <1>a, <3>2, EmptySeq DEF KVTypeOK, Requests
    <3>4. b \in Blocks /\ b \in TableBlocks(d)
      BY <3>1, <3>3 DEF TableBlocks
    <3>5. b \notin Elements(f)
      <4>1. d \in Holders(b)
        BY <3>4 DEF Holders, Requests
      <4> QED BY <1>4, <4>1
    <3>6. refs[b] > 1
      <4>1. refs'[b] <= refs[b] /\ refs[b] \in Nat /\ refs'[b] \in Int
        <5>1. refs'[b] <= refs[b] /\ refs[b] \in Nat
          BY <1>5, <3>4, <3>5
        <5>2. refs'[b] \in Int
          BY <1>2, <1>a, <3>4 DEF GrownRefs, KVTypeOK
        <5> QED BY <5>1, <5>2
      <4> QED BY <3>2, <4>1
    <3> QED BY <3>1, <3>2, <3>6 DEF NeedsBlock, CopiesTail
  <2> QED BY <2>2, <2>3
<1> QED BY <1>7, <1>8, <1>9, <1>b

LEMMA GrowData == ASSUME DataInv, Inv', Grow PROVE DataInv'
<1>a. EngineTypes /\ Lists /\ Apart /\ Control /\ Sampling /\ CacheInv
  BY DEF DataInv, Inv
<1>b. PICK r, n : r = running[idx] /\ n = Len(running)
  OBVIOUS
<1>c. PICK o, t : o = output[r] /\ t = o[Len(o)]
  OBVIOUS
<1>d. PICK new : new = <<t>>
  OBVIOUS
<1>1. /\ pc = "grow" /\ Decode(r, t)
      /\ \/ idx < n /\ idx' = idx + 1 /\ pc' = "grow"
         \/ ~ (idx < n) /\ idx' = 1 /\ pc' = "sample"
      /\ UNCHANGED <<running, admitted, output, submitted, waiting, still>>
  BY <1>b, <1>c DEF Grow, loopVars, resultVars
<1>2. /\ n \in Nat /\ idx \in 1 .. n /\ r \in Requests /\ r \in ToSet(running)
      /\ \A i \in 1 .. n : running[i] \in Requests
  <2>1. n \in Nat /\ \A i \in 1 .. n : running[i] \in Requests /\ running[i] \in ToSet(running)
    BY <1>a, <1>b, ListFacts DEF Lists
  <2>2. idx \in 1 .. n
    BY <1>1, <1>a, <1>b, <2>1 DEF Control
  <2> QED BY <1>b, <2>1, <2>2
<1>3. Behind(r)
  <2>1. ~ (idx < idx)
    BY <1>2
  <2> QED BY <1>1, <1>2, <1>b, <2>1 DEF DataInv, BatchFed
<1>4. /\ status[r] = "open" /\ prompt[r] = <<>> /\ o # <<>>
      /\ text[r] = Prompt(r) \o SubSeq(o, 1, Len(o) - 1)
  BY <1>3, <1>c DEF Behind, Seated, FedButLast
<1>5. o \in Seq(Tokens) /\ Prompt(r) \in Seq(Tokens)
  BY <1>2, <1>a, <1>c, OutputFacts, JobFacts
<1>6. /\ t \in Tokens /\ new \in Seq(Tokens) /\ Len(new) = 1
      /\ (Prompt(r) \o SubSeq(o, 1, Len(o) - 1)) \o new = Prompt(r) \o o
  <2>1. t \in Tokens /\ (Prompt(r) \o SubSeq(o, 1, Len(o) - 1)) \o <<t>> = Prompt(r) \o o
    BY <1>4, <1>5, <1>c, FeedLast
  <2>2. new \in Seq(Tokens) /\ Len(new) = 1
    BY <1>d, <2>1
  <2> QED BY <1>d, <2>1, <2>2
<1>7. CacheInv'
  BY <1>1, <1>2, <1>6, <1>a, DecodeStep DEF Requests
<1>8. BlocksWanted(r, Len(new)) = IF NeedsBlock(r) THEN 1 ELSE 0
  BY <1>2, <1>4, <1>6, <1>a, OneBlock
<1>9. /\ IsFiniteSet(RestNeeds) /\ Cardinality(RestNeeds) \in Nat /\ RestNeeds \subseteq Requests
      /\ Cardinality(RestNeeds) <= NumFree
      /\ NeedsBlock(r) => r \in RestNeeds
  <2>1. RestNeeds \subseteq Requests
    <3>1. \A i \in idx .. Len(running) : i \in 1 .. n
      BY <1>2, <1>b
    <3> QED BY <1>2, <3>1 DEF RestNeeds, Rest
  <2>2. IsFiniteSet(Requests)
    BY CachesAssumption DEF Requests
  <2>3. idx \in idx .. Len(running)
    BY <1>2, <1>b
  <2>4. NeedsBlock(r) => r \in RestNeeds
    BY <1>b, <2>3 DEF RestNeeds, Rest
  <2> QED BY <1>1, <2>1, <2>2, <2>4, FS_Subset, FS_CardinalityType DEF DataInv, RoomToGrow
<1>10. NumFree \in Nat
  <2>1. FreeBlocks \in SUBSET Blocks
    BY DEF FreeBlocks
  <2> QED BY <2>1, BlocksAssumption, FS_Subset, FS_CardinalityType DEF NumFree
<1>11. BlocksWanted(r, Len(new)) <= NumFree /\ BlocksWanted(r, Len(new)) \in {0, 1}
  <2>1. CASE NeedsBlock(r)
    <3>1. Cardinality(RestNeeds) # 0
      BY <1>9, <2>1, FS_EmptySet
    <3> QED BY <1>8, <1>9, <1>10, <2>1, <3>1
  <2>2. CASE ~ NeedsBlock(r)
    BY <1>8, <1>10, <2>2
  <2> QED BY <2>1, <2>2
<1>12. UpdateFits(r, new) /\ UNCHANGED prompt
  <2>1. (UpdateFits(r, new) \/ UpdateRaises(r, new)) /\ UNCHANGED prompt
    BY <1>1, <1>d DEF Decode
  <2>2. ~ UpdateRaises(r, new)
    BY <1>10, <1>11 DEF UpdateRaises
  <2> QED BY <2>1, <2>2
<1>13. OthersKept(r) /\ status'[r] = "open" /\ text'[r] = text[r] \o new
  BY <1>2, <1>12, <1>a, FitsKeeps
<1>14. CaughtUp(r)'
  <2>1. FedAll(r)'
    BY <1>1, <1>4, <1>6, <1>13, <1>c DEF FedAll, Prompt
  <2>2. Seated(r)'
    BY <1>1, <1>4, <1>12, <1>13, <1>c DEF Seated
  <2> QED BY <2>1, <2>2 DEF CaughtUp
<1>15. \A d \in Requests \ {r} : (Behind(d) => Behind(d)') /\ (CaughtUp(d) => CaughtUp(d)')
  BY <1>1, <1>13, KeptBehind, KeptCaughtUp DEF OthersKept
<1>16. ASSUME NEW i \in 1 .. n
       PROVE  IF i <= idx THEN CaughtUp(running[i])' ELSE Behind(running[i])'
  <2>1. PICK d : d = running[i]
    OBVIOUS
  <2>2. d \in Requests /\ d = running'[i]
    BY <1>1, <1>2, <2>1
  <2>3. CASE i = idx
    <3>1. d = r /\ i <= idx
      BY <1>2, <1>b, <2>1, <2>3
    <3> QED BY <1>14, <2>2, <3>1 DEF CaughtUp, Seated, FedAll, Prompt
  <2>4. CASE i # idx
    <3>1. d # r
      BY <1>2, <1>a, <1>b, <2>1, <2>4 DEF Lists, List, Uniq
    <3>2. IF i < idx THEN CaughtUp(d) ELSE Behind(d)
      BY <1>1, <1>b, <2>1 DEF DataInv, BatchFed
    <3>3. i < idx <=> i <= idx
      BY <1>2, <2>4
    <3>4. IF i <= idx THEN CaughtUp(d)' ELSE Behind(d)'
      BY <1>15, <2>2, <3>1, <3>2, <3>3
    <3> QED BY <2>2, <3>4 DEF CaughtUp, Behind, Seated, FedAll, FedButLast, Prompt
  <2> QED BY <2>3, <2>4
<1>17. admitted = <<>> /\ still = <<>> /\ ToSet(admitted)' = {} /\ ToSet(still)' = {}
       /\ UNCHANGED ToSet(waiting)
  BY <1>1, <1>a, EmptyList DEF Control, Sampling, Prefilling, ToSet
<1>18. BatchFed'
  <2>1. CASE idx < n /\ idx' = idx + 1 /\ pc' = "grow"
    <3>1. \A i \in 1 .. n : i < idx + 1 <=> i <= idx
      BY <1>2
    <3>2. \A i \in 1 .. Len(running') :
             IF i < idx' THEN CaughtUp(running[i])' ELSE Behind(running[i])'
      BY <1>1, <1>16, <1>b, <2>1, <3>1
    <3> QED BY <1>17, <2>1, <3>2 DEF BatchFed
  <2>2. CASE ~ (idx < n) /\ idx' = 1 /\ pc' = "sample"
    <3>1. \A i \in 1 .. n : i <= idx
      BY <1>2, <2>2
    <3>2. \A i \in idx' .. Len(running') : CaughtUp(running[i])'
      BY <1>1, <1>16, <1>b, <2>2, <3>1
    <3> QED BY <1>17, <2>2, <3>2 DEF BatchFed
  <2> QED BY <1>1, <2>1, <2>2
<1>19. RoomToGrow'
  <2> SUFFICES ASSUME pc' = "grow" PROVE Cardinality(RestNeeds') <= NumFree'
    BY DEF RoomToGrow
  <2>1. idx' = idx + 1
    BY <1>1
  <2>2. /\ NumFree' = NumFree - BlocksWanted(r, Len(new))
        /\ \A d \in Requests \ {r} : NeedsBlock(d)' => NeedsBlock(d)
    BY <1>2, <1>11, <1>12, <1>a, FitsTakes
  <2>3. Rest' \subseteq Rest \ {r} /\ Rest' \subseteq Requests
    <3>1. ASSUME NEW i \in idx + 1 .. n PROVE running[i] \in Rest \ {r} /\ running[i] \in Requests
      <4>1. i \in 1 .. n /\ i # idx /\ i \in idx .. Len(running)
        BY <1>2, <1>b
      <4>2. running[i] # r
        BY <1>2, <1>a, <1>b, <4>1 DEF Lists, List, Uniq
      <4> QED BY <1>2, <4>1, <4>2 DEF Rest
    <3>2. Rest' = {running[i] : i \in idx + 1 .. n}
      BY <1>1, <1>b, <2>1 DEF Rest
    <3> QED BY <3>1, <3>2
  <2>4. RestNeeds' \subseteq RestNeeds \ {r}
    BY <2>2, <2>3 DEF RestNeeds
  <2>5. IsFiniteSet(RestNeeds \ {r}) /\ Cardinality(RestNeeds') <= Cardinality(RestNeeds \ {r})
        /\ Cardinality(RestNeeds') \in Nat /\ Cardinality(RestNeeds \ {r}) \in Nat
    <3>1. IsFiniteSet(RestNeeds \ {r})
      BY <1>9, FS_Subset
    <3> QED BY <2>4, <3>1, FS_Subset, FS_CardinalityType
  <2>6. CASE NeedsBlock(r)
    <3>1. Cardinality(RestNeeds \ {r}) = Cardinality(RestNeeds) - 1
      BY <1>9, <2>6, FS_RemoveElement
    <3> QED BY <1>8, <1>9, <1>10, <2>2, <2>5, <2>6, <3>1
  <2>7. CASE ~ NeedsBlock(r)
    <3>1. Cardinality(RestNeeds \ {r}) <= Cardinality(RestNeeds)
      BY <1>9, FS_Subset
    <3> QED BY <1>8, <1>9, <1>10, <2>2, <2>5, <2>7, <3>1
  <2> QED BY <2>6, <2>7
<1>20. InHandFed' /\ QueuedFresh' /\ NeverRaisesMidway'
  <2>1. InHandFed'
    BY <1>1 DEF InHandFed, Prefilling
  <2>2. QueuedFresh'
    BY <1>1, <1>17 DEF DataInv, QueuedFresh
  <2>3. NeverRaisesMidway'
    BY <1>13 DEF DataInv, NeverRaisesMidway, OthersKept
  <2> QED BY <2>1, <2>2, <2>3
<1> QED BY <1>7, <1>18, <1>19, <1>20 DEF DataInv

-----------------------------------------------------------------------------
LEMMA DataInit == Init => DataInv
<1> SUFFICES ASSUME Init PROVE DataInv
  OBVIOUS
<1>1. Inv /\ CacheInv
  BY InitInv, CacheInitInv DEF Init
<1>2. /\ pc = "idle" /\ ToSet(running) = {} /\ ToSet(admitted) = {}
      /\ status = [c \in Caches |-> "closed"] /\ output = [r \in Requests |-> <<>>]
  BY EmptyList DEF Init, CacheInit, KVInit
<1> QED BY <1>1, <1>2 DEF DataInv, BatchFed, InHandFed, Prefilling, QueuedFresh, RoomToGrow,
                         NeverRaisesMidway, Requests

LEMMA DataStep == ASSUME DataInv, [Next]_schedVars PROVE DataInv'
<1>1. Inv'
  BY StepInv DEF DataInv
<1>2. CASE Next
  <2>1. ASSUME NEW r \in Requests, AddRequest(r) \/ RequestCancel(r) PROVE DataInv'
    BY <1>1, <2>1, AddRequestData, RequestCancelData
  <2>2. ASSUME NEW r \in Requests, CancelRunning(r) \/ CancelWaiting(r) PROVE DataInv'
    BY <1>1, <2>2, CancelRunningData, CancelWaitingData
  <2>3. ASSUME NEW t \in Outputs, FirstToken(t) \/ Sample(t) PROVE DataInv'
    BY <1>1, <2>3, FirstTokenData, SampleData
  <2>4. CASE StepBegin \/ IdleCancel \/ CancelDone \/ AdmitEvict \/ AdmitEnd \/ AdmitStart
    BY <1>1, <2>4, StepBeginData, IdleCancelData, CancelDoneData, AdmitEvictData, AdmitEndData,
       AdmitStartData
  <2>5. CASE \/ PrefillMatch \/ PrefillModel \/ PrefillInsert
             \/ DecodeBegin \/ Preempt \/ Grow \/ StepEnd
    BY <1>1, <2>5, PrefillMatchData, PrefillModelData, PrefillInsertData, DecodeBeginData,
       PreemptData, GrowData, StepEndData
  <2> QED BY <1>2, <2>1, <2>2, <2>3, <2>4, <2>5 DEF Next, EngineStep
<1>3. CASE UNCHANGED schedVars
  <2>1. UNCHANGED <<pcVars, pc, running, admitted, still, cur, idx, output, waiting, submitted>>
    BY <1>3 DEF schedVars, engineVars, loopVars, resultVars
  <2>2. QueuedFresh'
    BY <2>1 DEF DataInv, QueuedFresh, ToSet
  <2> QED BY <1>1, <2>1, <2>2, LoopCallData
<1> QED BY <1>2, <1>3

LEMMA DataAlways == Spec => []DataInv
<1>1. DataInv /\ [Next]_schedVars => DataInv'
  BY DataStep
<1> QED BY <1>1, DataInit, PTL DEF Spec

(* Every variable of the engine, the pool and the prefix cache keeps its type. *)
THEOREM EngineTypeCorrect == Spec => []TypeOK
<1>1. ASSUME DataInv PROVE TypeOK
  <2>a. EngineTypes /\ Lists /\ Control /\ CacheInv
    BY <1>1 DEF DataInv, Inv
  <2>1. CacheTypeOK
    BY <2>a DEF CacheTypeOK, CacheInv, KVInv, IndexSound, PromptSound
  <2>2. {waiting, running, admitted, still} \subseteq Seq(Requests)
    BY <2>a DEF Lists, List
  <2>3. idx \in 0 .. MaxBatch + 1
    <3>1. Len(running) \in Nat /\ Len(admitted) \in Nat /\ MaxBatch \in Nat /\ idx \in Nat
      BY <2>a, ListFacts, LimitsAssumption DEF Lists, EngineTypes
    <3>2. Len(running) <= MaxBatch
      BY <2>a, <3>1 DEF Control
    <3> QED BY <2>a, <3>1, <3>2 DEF Control
  <2>4. {wanted, cancels, hungUp, submitted} \subseteq SUBSET Requests
    BY <2>a DEF EngineTypes
  <2>5. pc \in {"idle", "cancel", "admit", "match", "prefill", "insert", "first",
                "decode", "grow", "sample"}
    BY <2>a DEF EngineTypes, Pcs, Prefilling
  <2> QED BY <2>a, <2>1, <2>2, <2>3, <2>4, <2>5 DEF TypeOK, EngineTypes
<1> QED BY <1>1, DataAlways, PTL

(* What attention reads for a sequence of the batch, between two decode
   passes, is its prompt and its output but for the last token. *)
THEOREM TranscriptFed == Spec => []FeedsOwnTranscript
<1>1. ASSUME DataInv PROVE FeedsOwnTranscript
  <2> SUFFICES ASSUME NEW r \in ToSet(running) \cup ToSet(admitted), pc \notin {"grow", "sample"}
               PROVE  LET fed == Prompt(r) \o SubSeq(output[r], 1, Len(output[r]) - 1)
                      IN  Gather(r) = [p \in 1 .. Len(fed) |-> SubSeq(fed, 1, p)]
    BY DEF FeedsOwnTranscript
  <2>1. Behind(r)
    BY <1>1 DEF DataInv, BatchFed
  <2>2. r \in Caches
    BY <1>1, ListFacts DEF DataInv, Inv, Lists, Requests
  <2>3. Gather(r) = Prefixes(text[r])
    BY <1>1, <2>2, GatherPrefixes DEF DataInv, CacheInv, KVInv
  <2> QED BY <2>1, <2>3 DEF Behind, FedButLast, Prefixes
<1> QED BY <1>1, DataAlways, PTL

(* No forward pass meets an empty pool half-way: the blocks counted by _admit
   and by _prepare are enough for the prefill and for every sequence of the
   decode pass, whatever the others took before it. *)
THEOREM ForwardNeverRaises == Spec => []NeverRaisesMidway
<1>1. DataInv => NeverRaisesMidway
  BY DEF DataInv
<1> QED BY <1>1, DataAlways, PTL

(* Under the engine too, every reference is a table's or the prefix cache's. *)
THEOREM EngineOwnsReferences == Spec => []AllRefsOwned
<1>1. DataInv => AllRefsOwned
  BY DEF DataInv, CacheInv
<1> QED BY <1>1, DataAlways, PTL

=============================================================================
