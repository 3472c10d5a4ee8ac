---------------------------- MODULE Router_proofs ----------------------------
(***************************************************************************)
(* For every set of requests, replicas and limits: the router counts no    *)
(* phantom load and always has a ready replica under the cap, a client's   *)
(* stream is one unbroken generation across migrations and is bounded, and *)
(* a client uses, and pays for, neither more nor less than its buckets     *)
(* allow.  And for every fleet: the ring is its replicas' points in order, *)
(* a key belongs to the ready replica nearest to it, and a replica that    *)
(* answers its checks stays.                                               *)
(***************************************************************************)
EXTENDS Gateway, Fleet, SequenceTheorems, FiniteSetTheorems, TLAPS

Tokens == Seq(Nat)
Gens == [owner : Requests, resume : Tokens, produced : Tokens, emitted : Tokens, sent : Nat]
Places == {"idle", "pick", "refused", "dispatch", "stream", "settle", "done"}

RingTypes ==
    /\ replicas \subseteq Replicas /\ ready \subseteq replicas
    /\ load \in [Replicas -> Nat]
    /\ \E k \in Nat : DOMAIN points = 1 .. k

LimitTypes ==
    /\ now \in Nat /\ redisUp \in BOOLEAN /\ gifts \in Nat /\ lost \in Nat
    /\ bucket \in [Buckets -> [tokens : Nat, ts : Int]]
    /\ \A b \in Buckets : bucket[b].tokens <= Cap[b] /\ bucket[b].ts <= now

RouterTypes ==
    /\ pc \in [Requests -> Places] /\ at \in [Requests -> Replicas \cup {None}]
    /\ tried \in [Requests -> SUBSET Replicas]
    /\ delivered \in [Requests -> Tokens] /\ text \in [Requests -> Tokens]
    /\ reserved \in [Requests -> {0, MaxTokens}] /\ followed \subseteq Requests

NodeTypes ==
    /\ up \subseteq Replicas /\ draining \subseteq Replicas
    /\ gen \in [Replicas -> [Ids -> Gens \cup {NoGen}]]

(* A request is on a replica from Pick to Leave, and never on one twice. *)
Placed ==
    \A q \in Requests :
        /\ at[q] # None <=> pc[q] \in {"dispatch", "stream"}
        /\ at[q] # None => at[q] \in tried[q]
        /\ q \in followed => pc[q] \in {"settle", "done"}
        /\ pc[q] = "idle" => reserved[q] = 0

(* An entry of _inflight: whose it is, and how far its call has come. *)
EntryFits(r, i) ==
    LET g == gen[r][i]
    IN  g # NoGen =>
        /\ IdOf[g.owner] = i /\ r \in tried[g.owner]
        /\ ~ (pc[g.owner] = "dispatch" /\ at[g.owner] = r)
        /\ Len(g.emitted) <= Len(g.produced) /\ g.sent <= Len(g.produced)
        /\ Len(g.produced) <= Remaining(g)
        /\ Serving(r, i) =>
              /\ delivered[g.owner] = g.resume \o g.emitted
              /\ Len(g.resume) = 0 \/ Len(g.resume) <= MaxTokens + Cardinality(tried[g.owner]) - 2
EntriesFit == \A r \in Replicas : \A i \in Ids : EntryFits(r, i)

(* A request picked once more may be given one token more. *)
Overrun(q) ==
    \/ Len(delivered[q]) = 0
    \/ Len(delivered[q]) <= MaxTokens + Cardinality(tried[q])
                            - (IF pc[q] = "dispatch" THEN 2 ELSE 1)
OverrunFits == \A q \in Requests \ followed : Overrun(q)

(* Every context an engine works on, and everything the client has, is a prefix
   of one generation. *)
EntryTrue(r, i) ==
    LET g == gen[r][i]
    IN  g # NoGen =>
        IsTrue(g.resume \o g.produced) /\ g.emitted = g.produced /\ g.sent = Len(g.produced)
StreamsTrue ==
    /\ \A r \in Replicas : \A i \in Ids : EntryTrue(r, i)
    /\ \A q \in Requests \ followed : text[q] = delivered[q] /\ IsTrue(delivered[q])

Inv ==
    /\ RingTypes /\ LimitTypes /\ RouterTypes /\ NodeTypes
    /\ Placed /\ EntriesFit /\ OverrunFits
    /\ NoPhantomLoad /\ WithinBudget /\ NoOvercharge

-----------------------------------------------------------------------------
(* The constants. *)

LEMMA Constants ==
  /\ IsFiniteSet(Replicas) /\ None \notin Replicas
  /\ EpsNum \in Nat /\ EpsDen \in Nat \ {0}
  /\ IsFiniteSet(Requests) /\ None \notin Requests
  /\ KeyHash \in [Requests -> 0 .. HashSpace - 1]
  /\ MaxTokens \in Nat \ {0} /\ MaxRetries \in Nat
  /\ \A q \in Requests : IdOf[q] \in Ids
  /\ MaxFaults \in Nat /\ TTL \in Nat \ {0}
  /\ \A b \in Buckets : Cap[b] \in Nat \ {0} /\ Rate[b] \in Nat \ {0} /\ TTL * Rate[b] >= Cap[b]
BY RingAssumption, GatewayAssumption, LimitAssumption DEF ValidLimits, Ids

-----------------------------------------------------------------------------
(* The buckets. *)

(* A product of naturals, one step apart. *)
LEMMA Products ==
  ASSUME NEW a \in Nat, NEW b \in Nat
  PROVE  a * b \in Nat /\ (a + 1) * b = a * b + b
OBVIOUS

LEMMA LevelType ==
  ASSUME LimitTypes, NEW b \in Buckets
  PROVE  Level(b) \in 0 .. Cap[b]
<1>1. /\ now - bucket[b].ts \in Nat /\ Rate[b] \in Nat /\ Cap[b] \in Nat
      /\ bucket[b].tokens \in Nat
  BY Constants DEF LimitTypes
<1>2. (now - bucket[b].ts) * Rate[b] \in Nat
  BY <1>1, Products
<1> QED BY <1>1, <1>2 DEF Level, AtMost

(* A bucket just written holds what was written. *)
LEMMA LevelWritten ==
  ASSUME LimitTypes, NEW b \in Buckets, NEW x \in 0 .. Cap[b],
         bucket'[b] = [tokens |-> x, ts |-> now], UNCHANGED now
  PROVE  Level(b)' = x
<1>1. /\ bucket'[b].tokens = x /\ bucket'[b].ts = now /\ now' = now /\ now \in Nat
      /\ TTL \in Nat \ {0} /\ Rate[b] \in Nat /\ Cap[b] \in Nat
  BY Constants DEF LimitTypes
<1>2. Present(b)'
  BY <1>1 DEF Present
<1>3. now' - bucket'[b].ts = 0 /\ (now' - bucket'[b].ts) * Rate[b] = 0
  BY <1>1
<1> QED BY <1>1, <1>2, <1>3 DEF Level, AtMost

(* Time refills a bucket by at most its rate, and an idle one that Redis forgets
   was about to be full. *)
LEMMA LevelTick ==
  ASSUME LimitTypes, Tick, NEW b \in Buckets
  PROVE  Level(b) <= Level(b)' /\ Level(b)' <= Level(b) + Rate[b]
<1> DEFINE age == now - bucket[b].ts
<1>1. /\ age \in Nat /\ Rate[b] \in Nat \ {0} /\ Cap[b] \in Nat /\ TTL \in Nat \ {0}
      /\ bucket[b].tokens \in Nat /\ now' = now + 1 /\ bucket' = bucket /\ now \in Nat
      /\ bucket[b].ts \in Int
  BY Constants DEF LimitTypes, Tick
<1>2. age * Rate[b] \in Nat /\ (age + 1) * Rate[b] = age * Rate[b] + Rate[b]
  BY <1>1, Products
<1>3. now' - bucket'[b].ts = age + 1
  BY <1>1
<1>4. CASE Present(b)'
  <2>1. Present(b)
    BY <1>1, <1>4 DEF Present
  <2>2. Level(b) = AtMost(bucket[b].tokens + age * Rate[b], Cap[b])
    BY <2>1 DEF Level
  <2>3. Level(b)' = AtMost(bucket[b].tokens + (age + 1) * Rate[b], Cap[b])
    BY <1>1, <1>3, <1>4 DEF Level
  <2> HIDE DEF age
  <2> QED BY <1>1, <1>2, <2>2, <2>3 DEF AtMost
<1>5. CASE ~ Present(b)'
  <2>1. Level(b)' = Cap[b]
    BY <1>5 DEF Level
  <2>2. CASE Present(b)
    <3>1. age + 1 = TTL
      BY <1>1, <1>5, <2>2 DEF Present
    <3>2. age * Rate[b] + Rate[b] >= Cap[b]
      BY <1>2, <3>1, Constants
    <3>3. Level(b) = AtMost(bucket[b].tokens + age * Rate[b], Cap[b])
      BY <2>2 DEF Level
    <3> HIDE DEF age
    <3> QED BY <1>1, <1>2, <2>1, <3>2, <3>3 DEF AtMost
  <2>3. CASE ~ Present(b)
    BY <1>1, <2>1, <2>3 DEF Level
  <2> QED BY <2>2, <2>3
<1> QED BY <1>4, <1>5

-----------------------------------------------------------------------------
(* What the client has used. *)

LEMMA UnitsFinite ==
  /\ IsFiniteSet(Paying) /\ IsFiniteSet(TokenUnits)
  /\ Cardinality(Paying) \in Nat /\ Cardinality(TokenUnits) \in Nat
  /\ Cardinality(Paying') \in Nat /\ Cardinality(TokenUnits') \in Nat
<1>1. IsFiniteSet(Paying) /\ IsFiniteSet(Paying')
  BY Constants, FS_Subset DEF Paying
<1>2. IsFiniteSet(1 .. MaxTokens)
  BY Constants, FS_Interval
<1>3. IsFiniteSet(Paying \X (1 .. MaxTokens)) /\ IsFiniteSet(Paying' \X (1 .. MaxTokens))
  BY <1>1, <1>2, FS_Product
<1>4. IsFiniteSet(TokenUnits) /\ IsFiniteSet(TokenUnits')
  BY <1>3, FS_Subset DEF TokenUnits
<1> QED BY <1>1, <1>4, FS_CardinalityType

(* The units of one request. *)
Units(q, n) == {q} \X (1 .. n)

LEMMA UnitsCount ==
  ASSUME NEW q, NEW n \in Nat
  PROVE  IsFiniteSet(Units(q, n)) /\ Cardinality(Units(q, n)) = n
<1>1. IsFiniteSet({q}) /\ Cardinality({q}) = 1
  BY FS_Singleton
<1>2. IsFiniteSet(1 .. n) /\ Cardinality(1 .. n) = n
  BY FS_Interval
<1>3. /\ IsFiniteSet({q} \X (1 .. n))
      /\ Cardinality({q} \X (1 .. n)) = Cardinality({q}) * Cardinality(1 .. n)
  BY <1>1, <1>2, FS_Product
<1> QED BY <1>1, <1>2, <1>3 DEF Units

(* What nobody reserves or settles, nobody uses. *)
LEMMA UsedSame ==
  ASSUME UNCHANGED reserved, \A q \in Requests : Cost(q)' = Cost(q)
  PROVE  UNCHANGED Used
<1>1. Paying' = Paying
  BY DEF Paying
<1>2. TokenUnits' = TokenUnits
  BY <1>1 DEF TokenUnits, Paying
<1> QED BY <1>1, <1>2 DEF Used

(* A reservation uses one request and all its tokens. *)
LEMMA UsedReserved ==
  ASSUME RouterTypes, NEW q \in Requests, reserved[q] = 0,
         reserved' = [reserved EXCEPT ![q] = MaxTokens],
         Cost(q)' = MaxTokens, \A p \in Requests \ {q} : Cost(p)' = Cost(p)
  PROVE  /\ Used'["req"] = Used["req"] + 1
         /\ Used'["tok"] = Used["tok"] + MaxTokens
<1>1. Paying' = Paying \cup {q} /\ q \notin Paying
  BY Constants DEF Paying, RouterTypes
<1>2. Cardinality(Paying') = Cardinality(Paying) + 1
  BY <1>1, UnitsFinite, FS_AddElement
<1>3. TokenUnits' = TokenUnits \cup Units(q, MaxTokens)
  BY <1>1, Constants DEF TokenUnits, Units, Paying
<1>4. TokenUnits \cap Units(q, MaxTokens) = {}
  BY <1>1 DEF TokenUnits, Units
<1>5. Cardinality(TokenUnits') = Cardinality(TokenUnits) + MaxTokens
  <2>1. Cardinality(TokenUnits \cup Units(q, MaxTokens)) =
          Cardinality(TokenUnits) + Cardinality(Units(q, MaxTokens))
             - Cardinality(TokenUnits \cap Units(q, MaxTokens))
    BY UnitsFinite, UnitsCount, Constants, FS_Union
  <2>2. Cardinality(TokenUnits \cap Units(q, MaxTokens)) = 0
    BY <1>4, FS_EmptySet
  <2>3. Cardinality(Units(q, MaxTokens)) = MaxTokens /\ MaxTokens \in Nat
    BY UnitsCount, Constants
  <2> QED BY <1>3, <2>1, <2>2, <2>3, UnitsFinite
<1> QED BY <1>2, <1>5 DEF Used

(* Settling a request that had reserved gives back what it did not use. *)
LEMMA UsedSettled ==
  ASSUME RouterTypes, NEW q \in Requests, reserved[q] = MaxTokens, UNCHANGED reserved,
         Cost(q) = MaxTokens, NEW n \in 0 .. MaxTokens, Cost(q)' = n,
         \A p \in Requests \ {q} : Cost(p)' = Cost(p)
  PROVE  /\ Used'["req"] = Used["req"]
         /\ Used'["tok"] = Used["tok"] - (MaxTokens - n)
<1>1. Paying' = Paying /\ q \in Paying
  BY Constants DEF Paying, RouterTypes
<1> DEFINE back == {q} \X (n + 1 .. MaxTokens)
<1>2. back \subseteq TokenUnits /\ TokenUnits' = TokenUnits \ back
  BY <1>1, Constants DEF TokenUnits, Paying
<1>3. IsFiniteSet(back) /\ Cardinality(back) = MaxTokens - n
  <2>1. /\ IsFiniteSet(n + 1 .. MaxTokens)
        /\ Cardinality(n + 1 .. MaxTokens) = IF n + 1 > MaxTokens THEN 0 ELSE MaxTokens - (n + 1) + 1
    <3>1. n + 1 \in Int /\ MaxTokens \in Int
      BY Constants
    <3> QED BY <3>1, FS_Interval
  <2>2. IsFiniteSet({q}) /\ Cardinality({q}) = 1
    BY FS_Singleton
  <2>3. IsFiniteSet(back) /\ Cardinality(back) = Cardinality({q}) * Cardinality(n + 1 .. MaxTokens)
    BY <2>1, <2>2, FS_Product
  <2> QED BY <2>1, <2>2, <2>3, Constants
<1>4. Cardinality(TokenUnits \ back) = Cardinality(TokenUnits) - Cardinality(TokenUnits \cap back)
  BY UnitsFinite, FS_Difference
<1>5. TokenUnits \cap back = back
  BY <1>2
<1>6. Cardinality(TokenUnits') = Cardinality(TokenUnits) - (MaxTokens - n)
  BY <1>2, <1>3, <1>4, <1>5
<1> QED BY <1>1, <1>6 DEF Used

-----------------------------------------------------------------------------
(* The ring. *)

(* A set of naturals that is not empty has a smallest. *)
LEMMA MinOfNats ==
  ASSUME NEW S \in SUBSET Nat, S # {}
  PROVE  Min(S) \in S /\ \A x \in S : Min(S) <= x
<1>1. PICK m \in S : \A y \in S : ~ (<<y, m>> \in OpToRel(<, Nat))
  BY NatLessThanWellFounded, WFMin
<1>2. \A y \in S : m <= y
  <2>1. ASSUME NEW y \in S PROVE m <= y
    <3>1. y \in Nat /\ m \in Nat
      OBVIOUS
    <3>2. y < m => <<y, m>> \in OpToRel(<, Nat)
      BY <3>1 DEF OpToRel
    <3>3. ~ (y < m)
      BY <1>1, <3>2
    <3> QED BY <3>1, <3>3
  <2> QED BY <2>1
<1> QED BY <1>2 DEF Min

(* The walk ends on a replica of the set it looks for. *)
LEMMA FirstInFacts ==
  ASSUME RingTypes, NEW h, NEW S
  PROVE  FirstIn(h, S) = None \/ FirstIn(h, S) \in S
<1> DEFINE hits == {i \in DOMAIN points : Clockwise(h, i) \in S}
<1>1. hits \in SUBSET Nat
  BY DEF RingTypes
<1>2. CASE hits = {}
  BY <1>2 DEF FirstIn
<1>3. CASE hits # {}
  <2>1. Min(hits) \in hits
    BY <1>1, <1>3, MinOfNats
  <2>2. FirstIn(h, S) = Clockwise(h, Min(hits))
    BY <1>3 DEF FirstIn
  <2> QED BY <2>1, <2>2
<1> QED BY <1>2, <1>3

LEMMA PicksFacts ==
  ASSUME RingTypes, NEW h, NEW exclude, NEW r \in Picks(h, exclude)
  PROVE  r \in Replicas /\ r \in ready /\ r \notin exclude
<1>1. \/ FirstIn(h, UnderCap \cap (ready \ exclude)) # None
            /\ r = FirstIn(h, UnderCap \cap (ready \ exclude))
      \/ r \in LeastLoaded(ready \ exclude)
  BY DEF Picks
<1>2. r \in ready \ exclude
  BY <1>1, FirstInFacts DEF LeastLoaded
<1> QED BY <1>2 DEF RingTypes

(* What sortPoints returns is a list. *)
LEMMA SortPointsList ==
  ASSUME NEW S, IsFiniteSet(S)
  PROVE  \E k \in Nat : DOMAIN SortPoints(S) = 1 .. k
<1>1. Cardinality(S) \in Nat
  BY FS_CardinalityType
<1> QED BY <1>1 DEF SortPoints

LEMMA NodesFinite ==
  ASSUME NEW r \in Replicas
  PROVE  IsFiniteSet(VirtualNodes(r))
<1>1. IsFiniteSet(PointHash[r])
  <2>1. IsFiniteSet(0 .. HashSpace - 1)
    <3>1. 0 \in Int /\ HashSpace - 1 \in Int
      BY HashAssumption
    <3> QED BY <3>1, FS_Interval
  <2> QED BY <2>1, HashAssumption, FS_Subset
<1> DEFINE f == [h \in PointHash[r] |-> [hash |-> h, replica |-> r]]
<1>2. f \in Surjection(PointHash[r], VirtualNodes(r))
  BY DEF Surjection, VirtualNodes
<1> QED BY <1>1, <1>2, FS_Surjection

LEMMA PointsFinite ==
  ASSUME RingTypes
  PROVE  IsFiniteSet(PointSet)
<1>1. IsFiniteSet(DOMAIN points)
  BY FS_Interval DEF RingTypes
<1> DEFINE f == [i \in DOMAIN points |-> points[i]]
<1>2. f \in Surjection(DOMAIN points, PointSet)
  BY DEF Surjection, PointSet
<1> QED BY <1>1, <1>2, FS_Surjection

(* The counted requests of some ready replicas. *)
LEMMA LoadUnitsFinite ==
  ASSUME RingTypes
  PROVE  IsFiniteSet(LoadUnits(ready)) /\ Cardinality(LoadUnits(ready)) \in Nat
<1> DEFINE G == {{r} \X (1 .. load[r]) : r \in ready}
           f == [r \in ready |-> {r} \X (1 .. load[r])]
<1>1. IsFiniteSet(ready)
  BY Constants, FS_Subset DEF RingTypes
<1>2. IsFiniteSet(G)
  <2>1. f \in Surjection(ready, G)
    BY DEF Surjection
  <2> QED BY <1>1, <2>1, FS_Surjection
<1>3. \A T \in G : IsFiniteSet(T)
  <2>1. ASSUME NEW r \in ready PROVE IsFiniteSet({r} \X (1 .. load[r]))
    <3>1. load[r] \in Nat
      BY DEF RingTypes
    <3> QED BY <3>1, UnitsCount DEF Units
  <2> QED BY <2>1
<1>4. IsFiniteSet(UNION G)
  BY <1>2, <1>3, FS_UNION
<1> QED BY <1>4, FS_CardinalityType DEF LoadUnits

(* A quotient rounded up is no less than the fraction. *)
LEMMA CeilingFacts ==
  ASSUME NEW num \in Nat, NEW den \in Nat \ {0}
  PROVE  (num + den - 1) \div den \in Nat /\ den * ((num + den - 1) \div den) >= num
<1>1. ASSUME NEW top \in Nat
      PROVE  top \div den \in Nat /\ top < den * (top \div den) + den
  OBVIOUS
<1>2. num + den - 1 \in Nat
  OBVIOUS
<1> DEFINE q == (num + den - 1) \div den
<1>3. q \in Nat /\ num + den - 1 < den * q + den
  BY <1>1, <1>2
<1> HIDE DEF q
<1>4. den * q \in Nat
  BY <1>3
<1>5. den * q >= num
  BY <1>3, <1>4
<1> QED BY <1>3, <1>5 DEF q

(* The cap times the ready replicas is more than all that is counted. *)
LEMMA CapFacts ==
  ASSUME NEW total \in Nat, NEW n \in Nat \ {0}
  PROVE  LoadCap(total + 1, n) \in Nat \ {0} /\ n * LoadCap(total + 1, n) > total
<1> DEFINE num == (EpsDen + EpsNum) * (total + 1)
           den == EpsDen * n
           ceil == (num + den - 1) \div den
           cap == LoadCap(total + 1, n)
<1>1. EpsDen \in Nat \ {0} /\ EpsNum \in Nat
  BY Constants
<1>2. num \in Nat /\ den \in Nat \ {0}
  BY <1>1
<1>3. ceil \in Nat /\ den * ceil >= num
  BY <1>2, CeilingFacts
<1>4. cap = IF ceil < 1 THEN 1 ELSE ceil
  BY DEF LoadCap
<1> HIDE DEF ceil, cap
<1>5. cap \in Nat \ {0} /\ cap >= ceil
  BY <1>3, <1>4
<1>6. num >= EpsDen * (total + 1)
  BY <1>1
<1>7. den * cap >= EpsDen * (total + 1)
  <2>1. den * cap >= den * ceil
    BY <1>2, <1>3, <1>5
  <2>2. den * cap \in Nat /\ den * ceil \in Nat /\ EpsDen * (total + 1) \in Nat
    BY <1>1, <1>2, <1>3, <1>5
  <2> HIDE DEF num, den
  <2> QED BY <1>2, <1>3, <1>6, <2>1, <2>2
<1>8. EpsDen * (n * cap) >= EpsDen * (total + 1)
  BY <1>1, <1>5, <1>7
<1>9. n * cap >= total + 1
  BY <1>1, <1>5, <1>8
<1> QED BY <1>5, <1>9 DEF cap

(* The pigeonhole argument: were every ready replica at the cap, more requests
   would be counted than there are. *)
LEMMA SomeoneUnderCap == RingTypes => FirstAttemptUnderCap
<1> SUFFICES ASSUME RingTypes, ready # {}, UnderCap = {} PROVE FALSE
  BY DEF FirstAttemptUnderCap
<1>1. IsFiniteSet(ready) /\ Cardinality(ready) \in Nat \ {0}
  BY Constants, FS_Subset, FS_CardinalityType, FS_EmptySet DEF RingTypes
<1>2. TotalLoad \in Nat
  BY LoadUnitsFinite DEF TotalLoad
<1>3. Limit \in Nat \ {0} /\ Cardinality(ready) * Limit > TotalLoad
  BY <1>1, <1>2, CapFacts DEF Limit
<1>4. \A r \in ready : load[r] \in Nat /\ load[r] >= Limit
  BY <1>3 DEF UnderCap, RingTypes
<1>5. ready \X (1 .. Limit) \subseteq LoadUnits(ready)
  BY <1>3, <1>4 DEF LoadUnits
<1>6. /\ IsFiniteSet(1 .. Limit) /\ Cardinality(1 .. Limit) = Limit
  BY <1>3, FS_Interval
<1>7. /\ IsFiniteSet(ready \X (1 .. Limit))
      /\ Cardinality(ready \X (1 .. Limit)) = Cardinality(ready) * Limit
  BY <1>1, <1>6, FS_Product
<1>8. Cardinality(ready \X (1 .. Limit)) <= TotalLoad
  BY <1>5, LoadUnitsFinite, FS_Subset DEF TotalLoad
<1> QED BY <1>1, <1>2, <1>3, <1>7, <1>8

-----------------------------------------------------------------------------
(* The steps, by what they do to a request. *)

(* The request's attempt is over, with nothing delivered by this step unless it
   was answered by _follow. *)
Left(q) ==
    /\ pc[q] \in {"dispatch", "stream"}
    /\ \E where \in {"pick", "settle"} : Leave(q, where)
    /\ UNCHANGED nodeVars
    /\ \/ UNCHANGED <<delivered, text, followed>>
       \/ /\ pc'[q] = "settle" /\ followed' = followed \cup {q}
          /\ delivered' \in [Requests -> Tokens] /\ text' \in [Requests -> Tokens]
          /\ \A p \in Requests \ {q} : delivered'[p] = delivered[p] /\ text'[p] = text[p]

(* The first tokens of a list are a list of tokens. *)
LEMMA PrefixIsTokens ==
  ASSUME NEW s \in Tokens, NEW n \in Nat, n <= Len(s)
  PROVE  SubSeq(s, 1, n) \in Tokens
<1>1. Len(s) \in Nat /\ \A j \in 1 .. Len(s) : s[j] \in Nat
  BY LenProperties, ElementOfSeq DEF Tokens
<1>2. \A j \in 1 .. n : s[j] \in Nat
  BY <1>1
<1> QED BY <1>2, SubSeqProperties DEF Tokens

(* What an entry and the request at its end are. *)
LEMMA EntryFacts ==
  ASSUME Inv, NEW r \in Replicas, NEW i \in Ids, gen[r][i] # NoGen
  PROVE  /\ gen[r][i] \in Gens /\ EntryFits(r, i)
         /\ gen[r][i].owner \in Requests
         /\ gen[r][i].resume \in Tokens /\ gen[r][i].produced \in Tokens
         /\ gen[r][i].emitted \in Tokens /\ gen[r][i].sent \in Nat
BY DEF Inv, NodeTypes, EntriesFit, Gens

LEMMA FollowLeaves ==
  ASSUME Inv, NEW q \in Requests, Follow(q)
  PROVE  Left(q)
<1> DEFINE g == gen[at[q]][IdOf[q]]
<1>1. pc[q] = "dispatch" /\ at[q] \in Replicas /\ IdOf[q] \in Ids /\ g # NoGen
  BY Constants DEF Follow, Inv, NodeTypes
<1>2. /\ g.emitted \in Tokens /\ g.produced \in Tokens /\ g.sent \in Nat
      /\ g.sent <= Len(g.produced) /\ EntryFits(at[q], IdOf[q])
  BY <1>1, EntryFacts DEF EntryFits
<1>3. delivered \in [Requests -> Tokens] /\ text \in [Requests -> Tokens]
  BY DEF Inv, RouterTypes
<1>4. delivered[q] \o g.emitted \in Tokens
  BY <1>2, <1>3, ConcatProperties DEF Tokens
<1>5. SubSeq(g.produced, 1, g.sent) \in Tokens
  BY <1>2, PrefixIsTokens
<1>6. text[q] \o SubSeq(g.produced, 1, g.sent) \in Tokens
  BY <1>3, <1>5, ConcatProperties DEF Tokens
<1>7. /\ delivered' = [delivered EXCEPT ![q] = delivered[q] \o g.emitted]
      /\ text' = [text EXCEPT ![q] = text[q] \o SubSeq(g.produced, 1, g.sent)]
      /\ followed' = followed \cup {q} /\ Leave(q, "settle") /\ UNCHANGED nodeVars
  BY DEF Follow
<1>8. /\ delivered' \in [Requests -> Tokens] /\ text' \in [Requests -> Tokens]
      /\ \A p \in Requests \ {q} : delivered'[p] = delivered[p] /\ text'[p] = text[p]
  BY <1>3, <1>4, <1>6, <1>7
<1>9. pc'[q] = "settle"
  BY <1>7 DEF Leave, Goto, Inv, RouterTypes
<1> QED BY <1>1, <1>7, <1>8, <1>9 DEF Left

(* Every step of the specification is one of these. *)
LEMMA StepCases ==
  ASSUME Inv, Next
  PROVE  \/ \E q \in Requests : \/ Admit(q) \/ Pick(q) \/ GiveUp(q) \/ Accepted(q) \/ Settle(q)
                                \/ Left(q) \/ Unanswered(q)
         \/ \E r \in Replicas : \E i \in Ids : Produce(r, i) \/ Cleanup(r, i)
         \/ \E r \in Replicas : Drain(r) \/ Down(r) \/ Restart(r) \/ Membership(r)
         \/ Clock
<1>1. ASSUME NEW q \in Requests, Step(q)
      PROVE  Admit(q) \/ Pick(q) \/ GiveUp(q) \/ Accepted(q) \/ Settle(q) \/ Left(q)
  <2>1. CASE DispatchFails(q)
    BY <2>1 DEF DispatchFails, Left
  <2>2. CASE Rejected(q)
    BY <2>2 DEF Rejected, Left
  <2>3. CASE Broken(q)
    BY <2>3 DEF Broken, Left
  <2>4. CASE Follow(q)
    BY <2>4, FollowLeaves
  <2> QED BY <1>1, <2>1, <2>2, <2>3, <2>4 DEF Step
<1>2. ASSUME NEW q \in Requests, Break(q) \/ Disconnect(q)
      PROVE  Left(q)
  BY <1>2 DEF Break, Disconnect, Left
<1>3. ASSUME NEW r \in Replicas, NEW i \in Ids, Finish(r, i)
      PROVE  \E q \in Requests : Left(q)
  <2>1. gen[r][i] # NoGen /\ pc[gen[r][i].owner] = "stream"
    BY <1>3 DEF Finish, Serving
  <2>2. gen[r][i].owner \in Requests
    BY <2>1, EntryFacts
  <2>3. Left(gen[r][i].owner)
    BY <1>3, <2>1 DEF Finish, Left
  <2> QED BY <2>2, <2>3
<1> QED BY <1>1, <1>2, <1>3 DEF Next

(* The request's own place after Leave. *)
LEMMA LeftFacts ==
  ASSUME Inv, NEW q \in Requests, Left(q)
  PROVE  /\ at[q] \in Replicas /\ at' = [at EXCEPT ![q] = None]
         /\ pc'[q] \in {"pick", "settle"} /\ pc' = [pc EXCEPT ![q] = pc'[q]]
         /\ load' = Released(at[q]) /\ q \notin followed
         /\ UNCHANGED <<replicas, points, ready, limitVars, tried, reserved, gifts, lost,
                        up, draining, gen>>
<1>1. at[q] \in Replicas /\ q \notin followed
  BY DEF Left, Inv, Placed, RouterTypes
<1>2. PICK where \in {"pick", "settle"} : Leave(q, where)
  BY DEF Left
<1>3. pc' = [pc EXCEPT ![q] = where] /\ pc \in [Requests -> Places]
  BY <1>2 DEF Leave, Goto, Inv, RouterTypes
<1>4. pc'[q] = where
  BY <1>3
<1> QED BY <1>1, <1>2, <1>3, <1>4 DEF Leave, Left, nodeVars

-----------------------------------------------------------------------------
(* The ring stays well formed. *)
LEMMA RingNext == Inv /\ [Next]_vars => RingTypes'
<1> SUFFICES ASSUME Inv, [Next]_vars PROVE RingTypes'
  OBVIOUS
<1>a. RingTypes /\ RouterTypes /\ Placed
  BY DEF Inv
<1>b. ASSUME UNCHANGED ringVars PROVE RingTypes'
  BY <1>a, <1>b DEF ringVars, RingTypes
<1>1. ASSUME NEW q \in Requests, Pick(q) PROVE RingTypes'
  <2>1. PICK r \in Picks(KeyHash[q], tried[q]) : load' = Picked(r)
    BY <1>1 DEF Pick
  <2>2. r \in Replicas
    BY <1>a, <2>1, PicksFacts
  <2> QED BY <1>1, <1>a, <2>1, <2>2, SMTT(40) DEF Pick, Picked, RingTypes
<1>2. ASSUME NEW q \in Requests, Left(q) PROVE RingTypes'
  <2>1. at[q] \in Replicas /\ load' = Released(at[q]) /\ UNCHANGED <<replicas, points, ready>>
    BY <1>2, LeftFacts
  <2> QED BY <1>a, <2>1 DEF Released, RingTypes
<1>3. ASSUME NEW r \in Replicas, Membership(r) PROVE RingTypes'
  <2>0. IsFiniteSet(PointSet)
    BY <1>a, PointsFinite
  <2>1. CASE Add(r)
    <3>1. IsFiniteSet(PointSet \cup VirtualNodes(r))
      BY <2>0, NodesFinite, FS_Union
    <3>2. \E k \in Nat : DOMAIN points' = 1 .. k
      BY <2>1, <3>1, SortPointsList DEF Add
    <3> QED BY <1>a, <2>1, <3>2 DEF Add, RingTypes
  <2>2. CASE Remove(r)
    <3>1. IsFiniteSet({p \in PointSet : p.replica # r})
      BY <2>0, FS_Subset
    <3>2. \E k \in Nat : DOMAIN points' = 1 .. k
      BY <2>2, <3>1, SortPointsList DEF Remove
    <3> QED BY <1>a, <2>2, <3>2 DEF Remove, RingTypes
  <2>3. CASE SetReady(r, r \notin ready)
    BY <1>a, <2>3 DEF SetReady, RingTypes
  <2> QED BY <1>3, <2>1, <2>2, <2>3 DEF Membership
<1>4. ASSUME NEW q \in Requests, Unanswered(q) \/ Admit(q) \/ GiveUp(q) \/ Accepted(q) \/ Settle(q)
      PROVE  RingTypes'
  BY <1>4, <1>b DEF Admit, Unanswered, GiveUp, Accepted, Settle
<1>5. ASSUME NEW r \in Replicas, NEW i \in Ids, Produce(r, i) \/ Cleanup(r, i)
      PROVE  RingTypes'
  BY <1>5, <1>b DEF Produce, Cleanup
<1>6. ASSUME NEW r \in Replicas, Drain(r) \/ Down(r) \/ Restart(r) PROVE RingTypes'
  BY <1>6, <1>b DEF Drain, Down, Restart
<1>7. CASE Clock \/ UNCHANGED vars
  BY <1>7, <1>b DEF Clock, vars
<1> QED BY <1>1, <1>2, <1>3, <1>4, <1>5, <1>6, <1>7, StepCases

-----------------------------------------------------------------------------
(* What Produce does to the entry and to its owner. *)

LEMMA NextTokenNat ==
  ASSUME NEW context \in Tokens
  PROVE  NextToken(context) \in Nat
<1>1. Len(context) \in Nat
  BY LenProperties DEF Tokens
<1> QED BY <1>1 DEF NextToken, Junk

Token(g) == NextToken(Context(g))
Grown(g) == Append(g.produced, Token(g))

(* The entry after its next token. *)
Held(g) == [g EXCEPT !.produced = Grown(g)]
Sent(g) == [g EXCEPT !.produced = Grown(g), !.sent = Len(Grown(g)),
                     !.emitted = Append(@, Token(g))]

(* The token is held back, or sent with all that was. *)
HoldsBack(r, i, g) ==
    /\ Token(g) \in Halves /\ UNCHANGED <<delivered, text>>
    /\ gen' = [gen EXCEPT ![r][i] = Held(g)]
SendsOut(r, i, g) ==
    /\ Token(g) \notin Halves
    /\ gen' = [gen EXCEPT ![r][i] = Sent(g)]
    /\ delivered' = [delivered EXCEPT ![g.owner] = Append(@, Token(g))]
    /\ text' = [text EXCEPT ![g.owner] = @ \o SubSeq(Grown(g), g.sent + 1, Len(Grown(g)))]

LEMMA ProduceFacts ==
  ASSUME Inv, NEW r \in Replicas, NEW i \in Ids, Produce(r, i), NEW g, g = gen[r][i]
  PROVE  /\ Serving(r, i) /\ g \in Gens /\ g.owner \in Requests /\ g # NoGen
         /\ pc[g.owner] = "stream" /\ at[g.owner] = r
         /\ Token(g) \in Nat /\ Grown(g) \in Tokens /\ Len(Grown(g)) = Len(g.produced) + 1
         /\ Len(g.produced) < Remaining(g)
         /\ HoldsBack(r, i, g) \/ SendsOut(r, i, g)
         /\ UNCHANGED <<ringVars, limitVars, pc, at, tried, reserved, followed,
                        up, draining, gifts, lost, faults>>
<1>1. Serving(r, i) /\ g # NoGen /\ pc[g.owner] = "stream" /\ at[g.owner] = r
  BY DEF Produce, Serving
<1>2. g \in Gens /\ g.owner \in Requests /\ g.resume \in Tokens /\ g.produced \in Tokens
  BY <1>1, EntryFacts
<1>3. Context(g) \in Tokens
  BY <1>2, ConcatProperties DEF Context, Tokens
<1>4. Token(g) \in Nat
  BY <1>3, NextTokenNat DEF Token
<1>5. Grown(g) \in Tokens /\ Len(Grown(g)) = Len(g.produced) + 1
  BY <1>2, <1>4, AppendProperties DEF Grown, Tokens
<1>6. gen \in [Replicas -> [Ids -> Gens \cup {NoGen}]]
  BY DEF Inv, NodeTypes
<1>7. [gen EXCEPT ![r][i].produced = Grown(g)] = [gen EXCEPT ![r][i] = Held(g)]
  BY <1>6 DEF Held
<1>8. \/ /\ Token(g) \in Halves /\ UNCHANGED <<delivered, text>>
         /\ gen' = [gen EXCEPT ![r][i].produced = Grown(g)]
      \/ /\ Token(g) \notin Halves
         /\ gen' = [gen EXCEPT ![r][i] = Sent(g)]
         /\ delivered' = [delivered EXCEPT ![g.owner] = Append(@, Token(g))]
         /\ text' = [text EXCEPT ![g.owner] =
                        @ \o SubSeq(Grown(g), g.sent + 1, Len(Grown(g)))]
  BY DEF Produce, Token, Grown, Sent
<1>9. /\ Len(g.produced) < Remaining(g)
      /\ UNCHANGED <<ringVars, limitVars, pc, at, tried, reserved, followed,
                     up, draining, gifts, lost, faults>>
  BY DEF Produce
<1>10. HoldsBack(r, i, g) \/ SendsOut(r, i, g)
  BY <1>7, <1>8 DEF HoldsBack, SendsOut
<1> QED BY <1>1, <1>2, <1>4, <1>5, <1>9, <1>10

(* The text that goes out with a token. *)
LEMMA PieceIsTokens ==
  ASSUME NEW s \in Tokens, NEW n \in Nat
  PROVE  SubSeq(s, n + 1, Len(s)) \in Tokens
<1>1. Len(s) \in Nat /\ \A j \in 1 .. Len(s) : s[j] \in Nat
  BY LenProperties, ElementOfSeq DEF Tokens
<1>2. \A j \in n + 1 .. Len(s) : s[j] \in Nat
  BY <1>1
<1>3. n + 1 \in Int /\ Len(s) \in Int
  BY <1>1
<1> QED BY <1>2, <1>3, SubSeqProperties DEF Tokens

(* Types of the router's state, and where each request is. *)
LEMMA RouterNext == Inv /\ [Next]_vars => (RouterTypes /\ Placed)'
<1> SUFFICES ASSUME Inv, [Next]_vars PROVE (RouterTypes /\ Placed)'
  OBVIOUS
<1>a. RingTypes /\ RouterTypes /\ Placed
  BY DEF Inv
<1>b. ASSUME UNCHANGED <<pc, at, tried, reserved, followed>>,
             delivered' \in [Requests -> Tokens], text' \in [Requests -> Tokens]
      PROVE  (RouterTypes /\ Placed)'
  BY <1>a, <1>b DEF RouterTypes, Placed
<1>c. ASSUME UNCHANGED reqVars, UNCHANGED reserved PROVE (RouterTypes /\ Placed)'
  BY <1>a, <1>c DEF RouterTypes, Placed, reqVars
<1>d. ASSUME NEW q \in Requests, NEW where \in Places, Goto(q, where),
             pc[q] \notin {"dispatch", "stream"}, where \notin {"idle", "dispatch", "stream"},
             pc[q] # "done", pc[q] = "settle" => where = "done",
             reserved' \in [Requests -> {0, MaxTokens}],
             \A p \in Requests \ {q} : reserved'[p] = reserved[p],
             UNCHANGED <<at, tried, delivered, text, followed>>
      PROVE  (RouterTypes /\ Placed)'
  <2>1. pc' \in [Requests -> Places] /\ pc'[q] = where /\ \A p \in Requests \ {q} : pc'[p] = pc[p]
    BY <1>a, <1>d DEF Goto, RouterTypes
  <2>2. RouterTypes'
    BY <1>a, <1>d, <2>1 DEF RouterTypes
  <2> QED BY <1>a, <1>d, <2>1, <2>2 DEF Placed
<1>1. ASSUME NEW q \in Requests, Admit(q) \/ Unanswered(q) PROVE (RouterTypes /\ Placed)'
  <2>1. PICK where \in {"pick", "refused"} : Goto(q, where)
    BY <1>1 DEF Admit, Unanswered
  <2>2. /\ reserved' \in [Requests -> {0, MaxTokens}]
        /\ \A p \in Requests \ {q} : reserved'[p] = reserved[p]
    BY <1>1, <1>a DEF Admit, Unanswered, RouterTypes
  <2> QED BY <1>1, <1>d, <2>1, <2>2 DEF Admit, Unanswered, Places
<1>2. ASSUME NEW q \in Requests, Pick(q) PROVE (RouterTypes /\ Placed)'
  <2>1. PICK r \in Picks(KeyHash[q], tried[q]) :
           at' = [at EXCEPT ![q] = r] /\ tried' = [tried EXCEPT ![q] = @ \cup {r}]
    BY <1>2 DEF Pick
  <2>2. r \in Replicas /\ r # None
    BY <1>a, <2>1, PicksFacts, Constants
  <2>3. /\ pc' = [pc EXCEPT ![q] = "dispatch"] /\ pc[q] = "pick"
        /\ UNCHANGED <<reserved, delivered, text, followed>>
    BY <1>2 DEF Pick, Goto
  <2>4. RouterTypes'
    BY <1>a, <2>1, <2>2, <2>3 DEF RouterTypes, Places
  <2>5. Placed'
    BY <1>a, <2>1, <2>2, <2>3 DEF RouterTypes, Placed
  <2> QED BY <2>4, <2>5
<1>3. ASSUME NEW q \in Requests, GiveUp(q) PROVE (RouterTypes /\ Placed)'
  BY <1>3, <1>a, <1>d DEF GiveUp, Places, RouterTypes
<1>4. ASSUME NEW q \in Requests, Accepted(q) PROVE (RouterTypes /\ Placed)'
  BY <1>4, <1>a DEF Accepted, Goto, RouterTypes, Placed, Places
<1>5. ASSUME NEW q \in Requests, Settle(q) PROVE (RouterTypes /\ Placed)'
  BY <1>5, <1>a, <1>d DEF Settle, Places, RouterTypes
<1>6. ASSUME NEW q \in Requests, Left(q) PROVE (RouterTypes /\ Placed)'
  <2>1. /\ at' = [at EXCEPT ![q] = None] /\ pc'[q] \in {"pick", "settle"}
        /\ pc' = [pc EXCEPT ![q] = pc'[q]] /\ q \notin followed /\ UNCHANGED <<tried, reserved>>
    BY <1>6, LeftFacts
  <2>2. /\ delivered' \in [Requests -> Tokens] /\ text' \in [Requests -> Tokens]
        /\ followed' \in {followed, followed \cup {q}}
        /\ q \in followed' => pc'[q] = "settle"
    BY <1>6, <1>a, <2>1 DEF Left, RouterTypes
  <2>3. RouterTypes'
    BY <1>a, <2>1, <2>2 DEF RouterTypes, Places
  <2>4. pc[q] # "idle"
    BY <1>6 DEF Left
  <2>5. Placed'
    BY <1>a, <2>1, <2>2, <2>4 DEF RouterTypes, Placed
  <2> QED BY <2>3, <2>5
<1>7. ASSUME NEW r \in Replicas, NEW i \in Ids, Produce(r, i) PROVE (RouterTypes /\ Placed)'
  <2>0. PICK g : g = gen[r][i]
    OBVIOUS
  <2>1. /\ g \in Gens /\ g.owner \in Requests /\ Token(g) \in Nat /\ Grown(g) \in Tokens
        /\ UNCHANGED <<pc, at, tried, reserved, followed>>
    BY <1>7, <2>0, ProduceFacts
  <2>a. \/ UNCHANGED <<delivered, text>>
        \/ /\ delivered' = [delivered EXCEPT ![g.owner] = Append(@, Token(g))]
           /\ text' = [text EXCEPT ![g.owner] =
                          @ \o SubSeq(Grown(g), g.sent + 1, Len(Grown(g)))]
    <3>1. HoldsBack(r, i, g) \/ SendsOut(r, i, g)
      BY <1>7, <2>0, ProduceFacts
    <3> QED BY <3>1 DEF HoldsBack, SendsOut
  <2>2. /\ Append(delivered[g.owner], Token(g)) \in Tokens
        /\ text[g.owner] \in Tokens /\ g.sent \in Nat
    BY <1>a, <2>1, AppendProperties DEF RouterTypes, Tokens, Gens
  <2>3. text[g.owner] \o SubSeq(Grown(g), g.sent + 1, Len(Grown(g))) \in Tokens
    <3>1. SubSeq(Grown(g), g.sent + 1, Len(Grown(g))) \in Tokens
      BY <2>1, <2>2, PieceIsTokens
    <3> QED BY <2>2, <3>1, ConcatProperties DEF Tokens
  <2>4. delivered' \in [Requests -> Tokens] /\ text' \in [Requests -> Tokens]
    BY <1>a, <2>1, <2>a, <2>2, <2>3, ZenonT(40) DEF RouterTypes
  <2> QED BY <1>b, <2>1, <2>4
<1>8. ASSUME NEW r \in Replicas, NEW i \in Ids, Cleanup(r, i) PROVE (RouterTypes /\ Placed)'
  BY <1>8, <1>c DEF Cleanup
<1>9. ASSUME NEW r \in Replicas, Drain(r) \/ Down(r) \/ Restart(r) \/ Membership(r)
      PROVE  (RouterTypes /\ Placed)'
  BY <1>9, <1>c DEF Drain, Down, Restart, Membership
<1>10. CASE Clock \/ UNCHANGED vars
  BY <1>10, <1>c DEF Clock, vars
<1> QED BY <1>1, <1>2, <1>3, <1>4, <1>5, <1>6, <1>7, <1>8, <1>9, <1>10, StepCases

-----------------------------------------------------------------------------
(* The entries of _inflight. *)

LEMMA AppendConcat ==
  ASSUME NEW s \in Tokens, NEW t \in Tokens, NEW x \in Nat
  PROVE  Append(s \o t, x) = s \o Append(t, x)
<1>1. /\ s \o t \in Seq(Nat) /\ <<x>> \in Seq(Nat)
  BY ConcatProperties DEF Tokens
<1>2. Append(s \o t, x) = (s \o t) \o <<x>> /\ Append(t, x) = t \o <<x>>
  BY <1>1, AppendIsConcat DEF Tokens
<1>3. (s \o t) \o <<x>> = s \o (t \o <<x>>)
  BY <1>1, ConcatAssociative DEF Tokens
<1> QED BY <1>2, <1>3

(* An entry that a step leaves alone still fits, if its owner is as it was or is
   no longer on that replica. *)
LEMMA EntryKept ==
  ASSUME NEW r \in Replicas, NEW i \in Ids, EntryFits(r, i), gen'[r][i] = gen[r][i],
         NEW q, q = gen[r][i].owner, tried[q] \subseteq tried'[q],
         \/ at'[q] # r
         \/ /\ pc'[q] = pc[q] /\ at'[q] = at[q]
            /\ tried'[q] = tried[q] /\ delivered'[q] = delivered[q]
  PROVE  EntryFits(r, i)'
<1>1. CASE at'[q] # r
  <2>1. ~ Serving(r, i)'
    BY <1>1 DEF Serving
  <2> QED BY <1>1, <2>1 DEF EntryFits, Remaining
<1>2. CASE /\ pc'[q] = pc[q] /\ at'[q] = at[q]
           /\ tried'[q] = tried[q] /\ delivered'[q] = delivered[q]
  BY <1>2 DEF EntryFits, Serving, Remaining
<1> QED BY <1>1, <1>2

LEMMA RemainingFacts ==
  ASSUME NEW g \in Gens
  PROVE  Remaining(g) \in Nat \ {0} /\ Len(g.resume) \in Nat
         /\ Len(g.resume) + Remaining(g) = (IF MaxTokens - Len(g.resume) < 1
                                            THEN Len(g.resume) + 1 ELSE MaxTokens)
<1>1. Len(g.resume) \in Nat
  BY LenProperties DEF Gens, Tokens
<1>2. MaxTokens \in Nat \ {0}
  BY Constants
<1>3. CASE MaxTokens - Len(g.resume) < 1
  <2>1. Remaining(g) = 1
    BY <1>3 DEF Remaining
  <2> QED BY <1>1, <1>2, <1>3, <2>1
<1>4. CASE ~ (MaxTokens - Len(g.resume) < 1)
  <2>1. Remaining(g) = MaxTokens - Len(g.resume)
    BY <1>4 DEF Remaining
  <2> QED BY <1>1, <1>2, <1>4, <2>1
<1> QED BY <1>3, <1>4

LEMMA NodesNext == Inv /\ [Next]_vars => (NodeTypes /\ EntriesFit)'
<1> SUFFICES ASSUME Inv, [Next]_vars PROVE (NodeTypes /\ EntriesFit)'
  OBVIOUS
<1>a. RingTypes /\ RouterTypes /\ NodeTypes /\ Placed /\ EntriesFit /\ OverrunFits
  BY DEF Inv
<1>b. ASSUME UNCHANGED <<gen, up, draining>>, NEW q \in Requests,
             \A p \in Requests : tried[p] \subseteq tried'[p],
             \A r \in Replicas : r \in tried[q] => at'[q] # r,
             \A p \in Requests \ {q} :
                /\ pc'[p] = pc[p] /\ at'[p] = at[p]
                /\ tried'[p] = tried[p] /\ delivered'[p] = delivered[p]
      PROVE  (NodeTypes /\ EntriesFit)'
  <2>1. NodeTypes'
    BY <1>a, <1>b DEF NodeTypes
  <2>2. ASSUME NEW r \in Replicas, NEW i \in Ids PROVE EntryFits(r, i)'
    <3>1. CASE gen[r][i] = NoGen
      BY <1>b, <3>1 DEF EntryFits
    <3>2. CASE gen[r][i] # NoGen
      <4>1. EntryFits(r, i) /\ gen[r][i].owner \in Requests /\ r \in tried[gen[r][i].owner]
        BY <3>2, EntryFacts DEF EntryFits
      <4> QED BY <1>b, <4>1, EntryKept
    <3> QED BY <3>1, <3>2
  <2> QED BY <2>1, <2>2 DEF EntriesFit
<1>c. ASSUME UNCHANGED <<pc, at, tried, delivered>>,
             up' \subseteq Replicas, draining' \subseteq Replicas,
             gen' \in [Replicas -> [Ids -> Gens \cup {NoGen}]],
             \A r \in Replicas : \A i \in Ids : gen'[r][i] = NoGen \/ gen'[r][i] = gen[r][i]
      PROVE  (NodeTypes /\ EntriesFit)'
  <2>1. NodeTypes'
    BY <1>c DEF NodeTypes
  <2>2. ASSUME NEW r \in Replicas, NEW i \in Ids PROVE EntryFits(r, i)'
    <3>1. CASE gen'[r][i] = NoGen
      BY <3>1 DEF EntryFits
    <3>2. CASE gen'[r][i] = gen[r][i]
      BY <1>a, <1>c, <3>2, EntryKept DEF EntriesFit
    <3> QED BY <1>c, <3>1, <3>2
  <2> QED BY <2>1, <2>2 DEF EntriesFit
<1>1. ASSUME NEW q \in Requests, Unanswered(q) \/ Admit(q) \/ GiveUp(q) \/ Settle(q)
      PROVE  (NodeTypes /\ EntriesFit)'
  <2>1. /\ UNCHANGED <<gen, up, draining, at, tried, delivered>>
        /\ pc[q] \notin {"dispatch", "stream"}
        /\ \A p \in Requests \ {q} : pc'[p] = pc[p]
    BY <1>1, <1>a DEF Admit, Unanswered, GiveUp, Settle, Goto, nodeVars, RouterTypes
  <2>2. \A r \in Replicas : at'[q] # r
    BY <1>a, <2>1, Constants DEF Placed
  <2> QED BY <1>b, <2>1, <2>2
<1>2. ASSUME NEW q \in Requests, Pick(q) PROVE (NodeTypes /\ EntriesFit)'
  <2>1. PICK r \in Picks(KeyHash[q], tried[q]) :
           at' = [at EXCEPT ![q] = r] /\ tried' = [tried EXCEPT ![q] = @ \cup {r}]
    BY <1>2 DEF Pick
  <2>2. r \in Replicas /\ r \notin tried[q]
    BY <1>a, <2>1, PicksFacts
  <2>3. /\ pc' = [pc EXCEPT ![q] = "dispatch"] /\ UNCHANGED <<delivered, gen, up, draining>>
    BY <1>2 DEF Pick, Goto, nodeVars
  <2>4. /\ at'[q] = r /\ \A p \in Requests : tried[p] \subseteq tried'[p]
        /\ \A p \in Requests \ {q} :
                /\ pc'[p] = pc[p] /\ at'[p] = at[p]
                /\ tried'[p] = tried[p] /\ delivered'[p] = delivered[p]
    BY <1>a, <2>1, <2>3 DEF RouterTypes
  <2> QED BY <1>b, <2>2, <2>3, <2>4
<1>3. ASSUME NEW q \in Requests, Left(q) PROVE (NodeTypes /\ EntriesFit)'
  <2>1. /\ at' = [at EXCEPT ![q] = None] /\ pc' = [pc EXCEPT ![q] = pc'[q]]
        /\ UNCHANGED <<tried, up, draining, gen>>
    BY <1>3, LeftFacts
  <2>2. \A p \in Requests \ {q} : delivered'[p] = delivered[p]
    BY <1>3 DEF Left
  <2>3. /\ at'[q] = None
        /\ \A p \in Requests \ {q} : pc'[p] = pc[p] /\ at'[p] = at[p]
    BY <1>a, <2>1 DEF RouterTypes
  <2> QED BY <1>b, <2>1, <2>2, <2>3, Constants
<1>4. ASSUME NEW q \in Requests, Accepted(q) PROVE (NodeTypes /\ EntriesFit)'
  <2> DEFINE h == [owner |-> q, resume |-> delivered[q], produced |-> <<>>,
                   emitted |-> <<>>, sent |-> 0]
  <2>1. /\ pc[q] = "dispatch" /\ at[q] \in Replicas /\ IdOf[q] \in Ids
        /\ gen' = [gen EXCEPT ![at[q]][IdOf[q]] = h]
        /\ pc' = [pc EXCEPT ![q] = "stream"]
        /\ UNCHANGED <<at, tried, delivered, up, draining>>
    BY <1>4, <1>a, Constants DEF Accepted, NodeTypes, Goto
  <2>2. <<>> \in Tokens /\ delivered[q] \in Tokens /\ Len(<<>>) = 0
    BY <1>a, EmptySeq DEF Tokens, RouterTypes
  <2>3. /\ h \in Gens /\ h.owner = q /\ h.resume = delivered[q] /\ h.produced = <<>>
        /\ h.emitted = <<>> /\ h.sent = 0
    BY <2>2 DEF Gens
  <2> HIDE DEF h
  <2>4. NodeTypes'
    BY <1>a, <2>1, <2>3 DEF NodeTypes
  <2>5. ASSUME NEW r \in Replicas, NEW i \in Ids PROVE EntryFits(r, i)'
    <3>1. CASE r = at[q] /\ i = IdOf[q]
      <4>1. gen'[r][i] = h
        BY <1>a, <2>1, <3>1 DEF NodeTypes
      <4>2. delivered'[q] = h.resume \o h.emitted
        BY <2>1, <2>2, <2>3, ConcatEmptySeq DEF Tokens
      <4>3. q \notin followed /\ r \in tried'[q] /\ pc'[q] = "stream"
        BY <1>a, <2>1, <3>1, Constants DEF Placed, RouterTypes
      <4>4. Len(h.resume) = 0 \/ Len(h.resume) <= MaxTokens + Cardinality(tried'[q]) - 2
        BY <1>a, <2>1, <2>3, <4>3 DEF OverrunFits, Overrun
      <4>5. Remaining(h) \in Nat \ {0} /\ Len(h.emitted) = 0 /\ Len(h.produced) = 0
        BY <2>2, <2>3, RemainingFacts
      <4>6. Remaining(h) = Remaining(gen[r][i])'
        BY <4>1 DEF Remaining
      <4>7. /\ Len(h.emitted) <= Len(h.produced) /\ h.sent <= Len(h.produced)
            /\ Len(h.produced) <= Remaining(h)
        BY <2>3, <4>5
      <4>8. IdOf[h.owner] = i /\ r \in tried'[h.owner] /\ pc'[h.owner] # "dispatch"
        BY <2>3, <3>1, <4>3
      <4> QED BY <2>3, <4>1, <4>2, <4>4, <4>6, <4>7, <4>8 DEF EntryFits
    <3>2. CASE ~ (r = at[q] /\ i = IdOf[q])
      <4>1. gen'[r][i] = gen[r][i]
        BY <1>a, <2>1, <3>2 DEF NodeTypes
      <4>2. CASE gen[r][i] = NoGen
        BY <4>1, <4>2 DEF EntryFits
      <4>3. CASE gen[r][i] # NoGen
        <5>1. /\ EntryFits(r, i) /\ gen[r][i].owner \in Requests
              /\ IdOf[gen[r][i].owner] = i
          BY <4>3, EntryFacts DEF EntryFits
        <5>2. CASE gen[r][i].owner = q
          <6>1. at'[q] # r
            BY <2>1, <3>2, <5>1, <5>2
          <6> QED BY <2>1, <4>1, <5>1, <5>2, <6>1, EntryKept
        <5>3. CASE gen[r][i].owner # q
          <6>1. pc'[gen[r][i].owner] = pc[gen[r][i].owner]
            BY <1>a, <2>1, <5>1, <5>3 DEF RouterTypes
          <6> QED BY <2>1, <4>1, <5>1, <6>1, EntryKept
        <5> QED BY <5>2, <5>3
      <4> QED BY <4>2, <4>3
    <3> QED BY <3>1, <3>2
  <2> QED BY <2>4, <2>5 DEF EntriesFit
<1>5. ASSUME NEW r \in Replicas, NEW i \in Ids, Produce(r, i) PROVE (NodeTypes /\ EntriesFit)'
  <2>0. PICK g : g = gen[r][i]
    OBVIOUS
  <2>1. /\ g \in Gens /\ g.owner \in Requests /\ g # NoGen /\ Serving(r, i)
        /\ pc[g.owner] = "stream" /\ at[g.owner] = r
        /\ Token(g) \in Nat /\ Grown(g) \in Tokens /\ Len(Grown(g)) = Len(g.produced) + 1
        /\ Len(g.produced) < Remaining(g)
        /\ UNCHANGED <<pc, at, tried, up, draining>>
    BY <1>5, <2>0, ProduceFacts
  <2>2. HoldsBack(r, i, g) \/ SendsOut(r, i, g)
    BY <1>5, <2>0, ProduceFacts
  <2>3. /\ EntryFits(r, i) /\ g.emitted \in Tokens /\ g.resume \in Tokens /\ g.sent \in Nat
        /\ Len(g.emitted) \in Nat /\ Len(g.produced) \in Nat /\ g.produced \in Tokens
    BY <2>0, <2>1, EntryFacts, LenProperties DEF Tokens
  <2>4. /\ Append(g.emitted, Token(g)) \in Tokens
        /\ Len(Append(g.emitted, Token(g))) = Len(g.emitted) + 1
    BY <2>1, <2>3, AppendProperties DEF Tokens
  <2>5. PICK h : /\ gen' = [gen EXCEPT ![r][i] = h]
                 /\ \/ h = Held(g) /\ HoldsBack(r, i, g)
                    \/ h = Sent(g) /\ SendsOut(r, i, g)
    <3>1. CASE HoldsBack(r, i, g)
      <4>1. gen' = [gen EXCEPT ![r][i] = Held(g)]
        BY <3>1 DEF HoldsBack
      <4> QED BY <3>1, <4>1
    <3>2. CASE SendsOut(r, i, g)
      <4>1. gen' = [gen EXCEPT ![r][i] = Sent(g)]
        BY <3>2 DEF SendsOut
      <4> QED BY <3>2, <4>1
    <3> QED BY <2>2, <3>1, <3>2
  <2>6. /\ h \in Gens /\ h.owner = g.owner /\ h.resume = g.resume /\ h.produced = Grown(g)
        /\ h.sent <= Len(h.produced)
        /\ \/ h.emitted = g.emitted /\ HoldsBack(r, i, g)
           \/ h.emitted = Append(g.emitted, Token(g)) /\ SendsOut(r, i, g)
    <3>1. CASE h = Held(g) /\ HoldsBack(r, i, g)
      <4>1. /\ h \in Gens /\ h.owner = g.owner /\ h.resume = g.resume /\ h.produced = Grown(g)
            /\ h.sent = g.sent /\ h.emitted = g.emitted
        BY <2>1, <3>1 DEF Held, Gens
      <4>2. g.sent <= Len(g.produced)
        BY <2>0, <2>1, <2>3 DEF EntryFits
      <4> QED BY <2>1, <2>3, <3>1, <4>1, <4>2
    <3>2. CASE h = Sent(g) /\ SendsOut(r, i, g)
      <4>0. Len(Grown(g)) \in Nat
        BY <2>1, <2>3
      <4>1. /\ h \in Gens /\ h.owner = g.owner /\ h.resume = g.resume /\ h.produced = Grown(g)
            /\ h.sent = Len(Grown(g)) /\ h.emitted = Append(g.emitted, Token(g))
        BY <2>1, <2>4, <3>2, <4>0 DEF Sent, Gens
      <4> QED BY <3>2, <4>0, <4>1
    <3> QED BY <2>5, <3>1, <3>2
  <2>7. NodeTypes'
    BY <1>a, <2>1, <2>5, <2>6 DEF NodeTypes
  <2>8. \A p \in Requests \ {g.owner} : delivered'[p] = delivered[p]
    BY <1>a, <2>2 DEF HoldsBack, SendsOut, RouterTypes
  <2>9. EntryFits(r, i)'
    <3>1. gen'[r][i] = h
      BY <1>a, <2>5 DEF NodeTypes
    <3>2. Len(h.emitted) <= Len(h.produced)
      <4>1. Len(g.emitted) <= Len(g.produced)
        BY <2>0, <2>1, <2>3 DEF EntryFits
      <4>2. /\ Len(h.produced) = Len(g.produced) + 1
            /\ Len(h.emitted) = Len(g.emitted) \/ Len(h.emitted) = Len(g.emitted) + 1
            /\ Len(g.emitted) \in Nat /\ Len(g.produced) \in Nat
        BY <2>1, <2>3, <2>4, <2>6, SMTT(40)
      <4> QED BY <4>1, <4>2
    <3>3. delivered'[g.owner] = h.resume \o h.emitted
      <4>1. delivered[g.owner] = g.resume \o g.emitted
        BY <2>0, <2>1, <2>3 DEF EntryFits
      <4>2. CASE h.emitted = g.emitted /\ HoldsBack(r, i, g)
        BY <2>6, <4>1, <4>2 DEF HoldsBack
      <4>3. CASE h.emitted = Append(g.emitted, Token(g)) /\ SendsOut(r, i, g)
        <5>1. delivered'[g.owner] = Append(delivered[g.owner], Token(g))
          BY <1>a, <2>1, <4>3 DEF SendsOut, RouterTypes
        <5>2. Append(g.resume \o g.emitted, Token(g)) = g.resume \o Append(g.emitted, Token(g))
          BY <2>1, <2>3, AppendConcat
        <5> QED BY <2>6, <4>1, <4>3, <5>1, <5>2
      <4> QED BY <2>6, <4>2, <4>3
    <3>4. Remaining(h) = Remaining(g) /\ Remaining(g) \in Nat
      BY <2>1, <2>6, RemainingFacts DEF Remaining
    <3>5. Len(h.produced) <= Remaining(h)
      BY <2>1, <2>3, <2>6, <3>4
    <3>6. /\ IdOf[h.owner] = i /\ r \in tried'[h.owner] /\ pc'[h.owner] # "dispatch"
          /\ Len(h.resume) = 0 \/ Len(h.resume) <= MaxTokens + Cardinality(tried'[h.owner]) - 2
      BY <2>0, <2>1, <2>3, <2>6 DEF EntryFits
    <3>7. Remaining(h) = Remaining(gen[r][i])'
      BY <3>1 DEF Remaining
    <3> QED BY <2>6, <3>1, <3>2, <3>3, <3>5, <3>6, <3>7 DEF EntryFits
  <2>10. ASSUME NEW r2 \in Replicas, NEW i2 \in Ids, ~ (r2 = r /\ i2 = i)
         PROVE  EntryFits(r2, i2)'
    <3>1. gen'[r2][i2] = gen[r2][i2]
      BY <1>a, <2>5, <2>10 DEF NodeTypes
    <3>2. CASE gen[r2][i2] = NoGen
      BY <3>1, <3>2 DEF EntryFits
    <3>3. CASE gen[r2][i2] # NoGen
      <4>1. /\ EntryFits(r2, i2) /\ gen[r2][i2].owner \in Requests
            /\ IdOf[gen[r2][i2].owner] = i2 /\ IdOf[g.owner] = i
        BY <2>0, <2>1, <2>3, <3>3, EntryFacts DEF EntryFits
      <4>2. CASE gen[r2][i2].owner = g.owner
        BY <2>1, <2>10, <3>1, <4>1, <4>2, EntryKept
      <4>3. CASE gen[r2][i2].owner # g.owner
        BY <2>1, <2>8, <3>1, <4>1, <4>3, EntryKept
      <4> QED BY <4>2, <4>3
    <3> QED BY <3>2, <3>3
  <2> QED BY <2>7, <2>9, <2>10 DEF EntriesFit
<1>6. ASSUME NEW r \in Replicas, NEW i \in Ids, Cleanup(r, i) PROVE (NodeTypes /\ EntriesFit)'
  <2>1. /\ gen' = [gen EXCEPT ![r][i] = NoGen]
        /\ UNCHANGED <<pc, at, tried, delivered, up, draining>>
    BY <1>6 DEF Cleanup, reqVars
  <2>2. /\ gen' \in [Replicas -> [Ids -> Gens \cup {NoGen}]]
        /\ \A a \in Replicas : \A b \in Ids : gen'[a][b] = NoGen \/ gen'[a][b] = gen[a][b]
    BY <1>a, <2>1 DEF NodeTypes
  <2> QED BY <1>a, <1>c, <2>1, <2>2 DEF NodeTypes
<1>7. ASSUME NEW r \in Replicas, Down(r) PROVE (NodeTypes /\ EntriesFit)'
  <2>1. /\ gen' = [gen EXCEPT ![r] = [j \in Ids |-> NoGen]]
        /\ up' = up \ {r} /\ draining' = draining \ {r}
        /\ UNCHANGED <<pc, at, tried, delivered>>
    BY <1>7 DEF Down, reqVars
  <2>2. /\ gen' \in [Replicas -> [Ids -> Gens \cup {NoGen}]]
        /\ \A a \in Replicas : \A b \in Ids : gen'[a][b] = NoGen \/ gen'[a][b] = gen[a][b]
    BY <1>a, <2>1 DEF NodeTypes
  <2> QED BY <1>a, <1>c, <2>1, <2>2 DEF NodeTypes
<1>8. ASSUME UNCHANGED <<pc, at, tried, delivered, gen>>,
             up' \subseteq Replicas, draining' \subseteq Replicas
      PROVE  (NodeTypes /\ EntriesFit)'
  BY <1>a, <1>c, <1>8 DEF NodeTypes
<1>9. ASSUME NEW r \in Replicas, Drain(r) \/ Restart(r) \/ Membership(r)
      PROVE  (NodeTypes /\ EntriesFit)'
  BY <1>9, <1>a, <1>8 DEF Drain, Restart, Membership, reqVars, nodeVars, NodeTypes
<1>10. CASE Clock \/ UNCHANGED vars
  BY <1>10, <1>a, <1>8 DEF Clock, vars, reqVars, nodeVars, NodeTypes
<1> QED BY <1>1, <1>2, <1>3, <1>4, <1>5, <1>6, <1>7, <1>9, <1>10, StepCases

-----------------------------------------------------------------------------
(* The tokens a request may still be given. *)

LEMMA AddBelow ==
  ASSUME NEW a \in Nat, NEW b \in Nat, NEW c \in Nat, b + 1 <= c
  PROVE  a + b + 1 <= a + c /\ a + b + 1 \in Nat /\ a + c \in Nat
OBVIOUS

LEMMA TriedFinite ==
  ASSUME RouterTypes, NEW q \in Requests
  PROVE  IsFiniteSet(tried[q]) /\ Cardinality(tried[q]) \in Nat
<1>1. IsFiniteSet(tried[q])
  BY Constants, FS_Subset DEF RouterTypes
<1> QED BY <1>1, FS_CardinalityType

LEMMA OverrunKept ==
  ASSUME RouterTypes, NEW q \in Requests, Overrun(q), delivered'[q] = delivered[q],
         tried'[q] = tried[q], pc'[q] = "dispatch" => pc[q] = "dispatch"
  PROVE  Overrun(q)'
<1>1. Cardinality(tried[q]) \in Nat /\ MaxTokens \in Nat
  BY TriedFinite, Constants
<1>2. Len(delivered[q]) \in Nat
  BY LenProperties DEF RouterTypes, Tokens
<1> QED BY <1>1, <1>2 DEF Overrun

LEMMA OverrunNext == Inv /\ [Next]_vars => OverrunFits'
<1> SUFFICES ASSUME Inv, [Next]_vars PROVE OverrunFits'
  OBVIOUS
<1>a. RingTypes /\ RouterTypes /\ NodeTypes /\ Placed /\ EntriesFit /\ OverrunFits
  BY DEF Inv
<1>b. ASSUME UNCHANGED <<delivered, tried, followed>>,
             \A p \in Requests : pc'[p] = "dispatch" => pc[p] = "dispatch"
      PROVE  OverrunFits'
  BY <1>a, <1>b, OverrunKept DEF OverrunFits
<1>1. ASSUME NEW q \in Requests, Unanswered(q) \/ Admit(q) \/ GiveUp(q) \/ Settle(q) \/ Accepted(q)
      PROVE  OverrunFits'
  <2>1. /\ UNCHANGED <<delivered, tried, followed>>
        /\ \A p \in Requests : pc'[p] = "dispatch" => pc[p] = "dispatch"
    BY <1>1, <1>a DEF Admit, Unanswered, GiveUp, Settle, Accepted, Goto, RouterTypes
  <2> QED BY <1>b, <2>1
<1>2. ASSUME NEW q \in Requests, Pick(q) PROVE OverrunFits'
  <2>1. PICK r \in Picks(KeyHash[q], tried[q]) : tried' = [tried EXCEPT ![q] = @ \cup {r}]
    BY <1>2 DEF Pick
  <2>2. r \notin tried[q]
    BY <1>a, <2>1, PicksFacts
  <2>3. /\ pc[q] = "pick" /\ pc' = [pc EXCEPT ![q] = "dispatch"]
        /\ UNCHANGED <<delivered, followed>>
    BY <1>2 DEF Pick, Goto
  <2>4. /\ tried'[q] = tried[q] \cup {r} /\ pc'[q] = "dispatch"
        /\ \A p \in Requests \ {q} : tried'[p] = tried[p] /\ pc'[p] = pc[p]
    BY <1>a, <2>1, <2>3 DEF RouterTypes
  <2>5. Cardinality(tried'[q]) = Cardinality(tried[q]) + 1
    BY <1>a, <2>2, <2>4, TriedFinite, FS_AddElement
  <2>6. Overrun(q) => Overrun(q)'
    <3>1. /\ Cardinality(tried[q]) \in Nat /\ MaxTokens \in Nat /\ Len(delivered[q]) \in Nat
      BY <1>a, TriedFinite, Constants, LenProperties DEF RouterTypes, Tokens
    <3> QED BY <2>3, <2>4, <2>5, <3>1 DEF Overrun
  <2>7. \A p \in Requests \ {q} : Overrun(p) => Overrun(p)'
    BY <1>a, <2>3, <2>4, OverrunKept
  <2> QED BY <1>a, <2>3, <2>6, <2>7 DEF OverrunFits
<1>3. ASSUME NEW q \in Requests, Left(q) PROVE OverrunFits'
  <2>1. /\ pc'[q] \in {"pick", "settle"} /\ pc' = [pc EXCEPT ![q] = pc'[q]] /\ UNCHANGED tried
    BY <1>3, LeftFacts
  <2>2. \A p \in Requests : pc'[p] = "dispatch" => pc[p] = "dispatch"
    BY <1>a, <2>1 DEF RouterTypes
  <2>3. CASE UNCHANGED <<delivered, followed>>
    BY <1>b, <2>1, <2>2, <2>3
  <2>4. CASE /\ followed' = followed \cup {q}
             /\ \A p \in Requests \ {q} : delivered'[p] = delivered[p]
    <3>1. \A p \in Requests \ {q} : Overrun(p) => Overrun(p)'
      BY <1>a, <2>1, <2>2, <2>4, OverrunKept
    <3> QED BY <1>a, <2>4, <3>1 DEF OverrunFits
  <2> QED BY <1>3, <2>3, <2>4 DEF Left
<1>4. ASSUME NEW r \in Replicas, NEW i \in Ids, Produce(r, i) PROVE OverrunFits'
  <2>0. PICK g : g = gen[r][i]
    OBVIOUS
  <2>1. /\ g \in Gens /\ g.owner \in Requests /\ g # NoGen /\ Serving(r, i)
        /\ pc[g.owner] = "stream" /\ Token(g) \in Nat
        /\ Len(g.produced) < Remaining(g)
        /\ UNCHANGED <<pc, at, tried, followed>>
    BY <1>4, <2>0, ProduceFacts
  <2>2. HoldsBack(r, i, g) \/ SendsOut(r, i, g)
    BY <1>4, <2>0, ProduceFacts
  <2>3. CASE HoldsBack(r, i, g)
    BY <1>b, <2>1, <2>3 DEF HoldsBack
  <2>4. CASE SendsOut(r, i, g)
    <3>1. /\ delivered'[g.owner] = Append(delivered[g.owner], Token(g))
          /\ \A p \in Requests \ {g.owner} : delivered'[p] = delivered[p]
      BY <1>a, <2>1, <2>4 DEF SendsOut, RouterTypes
    <3>2. /\ EntryFits(r, i) /\ g.emitted \in Tokens /\ g.resume \in Tokens
          /\ g.produced \in Tokens
      BY <2>0, <2>1, EntryFacts
    <3>3. /\ delivered[g.owner] = g.resume \o g.emitted /\ Len(g.emitted) <= Len(g.produced)
          /\ Len(g.resume) = 0 \/ Len(g.resume) <= MaxTokens + Cardinality(tried[g.owner]) - 2
          /\ r \in tried[g.owner]
      BY <2>0, <2>1, <3>2 DEF EntryFits
    <3>4. /\ Len(g.resume) \in Nat /\ Len(g.emitted) \in Nat /\ Len(g.produced) \in Nat
          /\ Len(g.resume \o g.emitted) = Len(g.resume) + Len(g.emitted)
          /\ g.resume \o g.emitted \in Tokens
      BY <3>2, LenProperties, ConcatProperties DEF Tokens
    <3>5. Len(delivered'[g.owner]) = Len(g.resume) + Len(g.emitted) + 1
      BY <2>1, <3>1, <3>3, <3>4, AppendProperties DEF Tokens
    <3>6. Cardinality(tried[g.owner]) \in Nat \ {0} /\ MaxTokens \in Nat \ {0}
      <4>1. Cardinality(tried[g.owner]) # 0
        BY <1>a, <2>1, <3>3, TriedFinite, FS_EmptySet
      <4> QED BY <1>a, <2>1, <4>1, TriedFinite, Constants
    <3>7. /\ Remaining(g) \in Nat
          /\ Len(g.resume) + Remaining(g) = (IF MaxTokens - Len(g.resume) < 1
                                             THEN Len(g.resume) + 1 ELSE MaxTokens)
      BY <2>1, RemainingFacts
    <3>8. Len(g.emitted) + 1 <= Remaining(g)
      <4>1. Len(g.emitted) <= Len(g.produced) /\ Len(g.produced) < Remaining(g)
        BY <2>1, <3>3
      <4> QED BY <3>4, <3>7, <4>1
    <3>9. Len(g.resume) + Remaining(g) <= MaxTokens + Cardinality(tried[g.owner]) - 1
      <4>1. CASE MaxTokens - Len(g.resume) < 1
        <5>1. Len(g.resume) # 0
          BY <3>4, <3>6, <4>1
        <5> QED BY <3>3, <3>4, <3>6, <3>7, <4>1, <5>1
      <4>2. CASE ~ (MaxTokens - Len(g.resume) < 1)
        BY <3>6, <3>7, <4>2
      <4> QED BY <4>1, <4>2
    <3>10. Overrun(g.owner)'
      <4>1. PICK d, n : d = Len(delivered'[g.owner]) /\ n = Len(g.resume) + Remaining(g)
        OBVIOUS
      <4>2. /\ Len(g.resume) \in Nat /\ Len(g.emitted) \in Nat /\ Remaining(g) \in Nat
            /\ d = Len(g.resume) + Len(g.emitted) + 1
        BY <3>4, <3>5, <3>7, <4>1
      <4>3. d <= n /\ d \in Nat /\ n \in Nat
        <5>1. n = Len(g.resume) + Remaining(g)
          BY <4>1
        <5> QED BY <3>8, <4>2, <5>1, AddBelow
      <4>4. n <= MaxTokens + Cardinality(tried[g.owner]) - 1
        BY <3>9, <4>1
      <4>5. d <= MaxTokens + Cardinality(tried[g.owner]) - 1
        <5>1. MaxTokens + Cardinality(tried[g.owner]) - 1 \in Int
          BY <3>6
        <5> QED BY <4>3, <4>4, <5>1
      <4>6. pc'[g.owner] # "dispatch" /\ tried'[g.owner] = tried[g.owner]
        BY <2>1
      <4> QED BY <4>1, <4>5, <4>6 DEF Overrun
    <3>11. \A p \in Requests \ {g.owner} : Overrun(p) => Overrun(p)'
      BY <1>a, <2>1, <3>1, OverrunKept
    <3> QED BY <1>a, <2>1, <3>10, <3>11 DEF OverrunFits
  <2> QED BY <2>2, <2>3, <2>4
<1>5. ASSUME NEW r \in Replicas, NEW i \in Ids, Cleanup(r, i) PROVE OverrunFits'
  BY <1>5, <1>b DEF Cleanup, reqVars
<1>6. ASSUME NEW r \in Replicas, Drain(r) \/ Down(r) \/ Restart(r) \/ Membership(r)
      PROVE  OverrunFits'
  BY <1>6, <1>b DEF Drain, Down, Restart, Membership, reqVars
<1>7. CASE Clock \/ UNCHANGED vars
  BY <1>7, <1>b DEF Clock, vars, reqVars
<1> QED BY <1>1, <1>2, <1>3, <1>4, <1>5, <1>6, <1>7, StepCases

-----------------------------------------------------------------------------
(* The counted load. *)

LEMMA InFlightFinite ==
  ASSUME NEW r
  PROVE  IsFiniteSet(InFlight(r)) /\ Cardinality(InFlight(r)) \in Nat
<1>1. IsFiniteSet(InFlight(r))
  BY Constants, FS_Subset DEF InFlight
<1> QED BY <1>1, FS_CardinalityType

LEMMA PhantomNext == Inv /\ [Next]_vars => NoPhantomLoad'
<1> SUFFICES ASSUME Inv, [Next]_vars PROVE NoPhantomLoad'
  OBVIOUS
<1>a. RingTypes /\ RouterTypes /\ Placed /\ NoPhantomLoad
  BY DEF Inv
<1>b. ASSUME UNCHANGED <<at, load, replicas>> PROVE NoPhantomLoad'
  BY <1>a, <1>b DEF NoPhantomLoad, InFlight
<1>1. ASSUME NEW q \in Requests, Pick(q) PROVE NoPhantomLoad'
  <2>1. PICK r \in Picks(KeyHash[q], tried[q]) :
           load' = Picked(r) /\ at' = [at EXCEPT ![q] = r]
    BY <1>1 DEF Pick
  <2>a. pc[q] = "pick" /\ UNCHANGED replicas
    BY <1>1 DEF Pick
  <2>2. r \in Replicas /\ at[q] = None /\ UNCHANGED replicas /\ None \notin Replicas
    <3>1. at[q] = None
      BY <1>a, <2>a DEF Placed
    <3> QED BY <1>a, <2>1, <2>a, <3>1, PicksFacts, Constants
  <2>3. InFlight(r)' = InFlight(r) \cup {q} /\ q \notin InFlight(r)
    BY <1>a, <2>1, <2>2 DEF InFlight, RouterTypes
  <2>4. \A o \in Replicas \ {r} : InFlight(o)' = InFlight(o) /\ load'[o] = load[o]
    BY <1>a, <2>1, <2>2 DEF InFlight, Picked, RouterTypes, RingTypes
  <2>5. Cardinality(InFlight(r)') = Cardinality(InFlight(r)) + 1
    BY <2>3, InFlightFinite, FS_AddElement
  <2>6. load'[r] = load[r] + 1 /\ load[r] \in Nat
    BY <1>a, <2>1, <2>2 DEF Picked, RingTypes
  <2>7. r \in replicas => load'[r] <= Cardinality(InFlight(r)')
    BY <1>a, <2>5, <2>6, InFlightFinite DEF NoPhantomLoad
  <2> QED BY <1>a, <2>2, <2>4, <2>7 DEF NoPhantomLoad, RingTypes
<1>2. ASSUME NEW q \in Requests, Left(q) PROVE NoPhantomLoad'
  <2>1. PICK r : r = at[q]
    OBVIOUS
  <2>2. /\ r \in Replicas /\ load' = Released(r) /\ UNCHANGED replicas
        /\ at' = [at EXCEPT ![q] = None] /\ None \notin Replicas
    BY <1>2, <2>1, LeftFacts, Constants
  <2>3. InFlight(r)' = InFlight(r) \ {q} /\ q \in InFlight(r)
    BY <1>a, <2>1, <2>2 DEF InFlight, RouterTypes
  <2>4. \A o \in Replicas \ {r} : InFlight(o)' = InFlight(o) /\ load'[o] = load[o]
    BY <1>a, <2>1, <2>2 DEF InFlight, Released, RouterTypes, RingTypes
  <2>5. Cardinality(InFlight(r)') = Cardinality(InFlight(r)) - 1 /\ Cardinality(InFlight(r)') \in Nat
    BY <2>3, InFlightFinite, FS_RemoveElement, FS_CardinalityType
  <2>6. load[r] \in Nat /\ (r \in replicas => load'[r] = IF load[r] > 0 THEN load[r] - 1 ELSE load[r])
    BY <1>a, <2>2 DEF Released, RingTypes
  <2>7. r \in replicas => load'[r] <= Cardinality(InFlight(r)')
    BY <1>a, <2>5, <2>6, InFlightFinite DEF NoPhantomLoad
  <2> QED BY <1>a, <2>2, <2>4, <2>7 DEF NoPhantomLoad, RingTypes
<1>3. ASSUME NEW r \in Replicas, Membership(r) PROVE NoPhantomLoad'
  <2>1. /\ UNCHANGED at /\ replicas' \subseteq replicas \cup {r} /\ replicas' \subseteq Replicas
        /\ load'[r] \in {0, load[r]} /\ \A o \in Replicas \ {r} : load'[o] = load[o]
        /\ r \in replicas \/ load'[r] = 0 \/ r \notin replicas'
    BY <1>3, <1>a DEF Membership, Add, Remove, SetReady, reqVars, RingTypes
  <2>2. \A o \in Replicas : InFlight(o)' = InFlight(o) /\ Cardinality(InFlight(o)) \in Nat
    BY <2>1, InFlightFinite DEF InFlight
  <2>3. ASSUME NEW o \in replicas' PROVE load'[o] <= Cardinality(InFlight(o)')
    <3>1. o \in Replicas /\ load[o] \in Nat
      BY <1>a, <2>1 DEF RingTypes
    <3>2. CASE o \in replicas
      <4>1. load'[o] <= load[o]
        BY <2>1, <3>1
      <4> QED BY <1>a, <2>1, <2>2, <3>1, <3>2, <4>1 DEF NoPhantomLoad
    <3>3. CASE o \notin replicas
      <4>1. load'[o] = 0
        BY <2>1, <2>3, <3>3
      <4> QED BY <2>2, <3>1, <4>1
    <3> QED BY <3>2, <3>3
  <2> QED BY <2>3 DEF NoPhantomLoad
<1>4. ASSUME NEW q \in Requests, Unanswered(q) \/ Admit(q) \/ GiveUp(q) \/ Accepted(q) \/ Settle(q)
      PROVE  NoPhantomLoad'
  BY <1>4, <1>b DEF Admit, Unanswered, GiveUp, Accepted, Settle, ringVars
<1>5. ASSUME NEW r \in Replicas, NEW i \in Ids, Produce(r, i) \/ Cleanup(r, i)
      PROVE  NoPhantomLoad'
  BY <1>5, <1>b DEF Produce, Cleanup, ringVars, reqVars
<1>6. ASSUME NEW r \in Replicas, Drain(r) \/ Down(r) \/ Restart(r) PROVE NoPhantomLoad'
  BY <1>6, <1>b DEF Drain, Down, Restart, ringVars, reqVars
<1>7. CASE Clock \/ UNCHANGED vars
  BY <1>7, <1>b DEF Clock, vars, ringVars, reqVars
<1> QED BY <1>1, <1>2, <1>3, <1>4, <1>5, <1>6, <1>7, StepCases

-----------------------------------------------------------------------------
(* The client's budget. *)

Limits == LimitTypes /\ WithinBudget /\ NoOvercharge

LEMMA UsedTypes == \A b \in Buckets : Used[b] \in Nat /\ Used'[b] \in Nat
BY UnitsFinite DEF Used, Buckets

LEMMA CostRange ==
  ASSUME RouterTypes, NEW q \in Requests
  PROVE  Cost(q) \in 0 .. MaxTokens
<1>1. Len(delivered[q]) \in Nat
  BY LenProperties DEF RouterTypes, Tokens
<1> QED BY <1>1, Constants DEF Cost, AtMost

(* A request's cost is settled once. *)
LEMMA CostSame ==
  ASSUME NEW q \in Requests, pc[q] = "done" <=> pc'[q] = "done",
         pc[q] = "done" => delivered'[q] = delivered[q]
  PROVE  Cost(q)' = Cost(q)
BY DEF Cost

(* The four numbers of a bucket, before and after a step. *)
LEMMA BudgetMoves ==
  ASSUME Inv, NEW b \in Buckets, Level(b)' \in Nat, UNCHANGED now,
         gifts' \in Nat, lost' \in Nat, gifts <= gifts', lost <= lost',
         Used'[b] \in Nat,
         Used'[b] + Level(b)' <= Used[b] + Level(b) + (gifts' - gifts),
         \/ Used'[b] + lost' + Level(b)' >= Used[b] + lost + Level(b)
         \/ Level(b)' = Cap[b]
  PROVE  /\ Used'[b] + Level(b)' <= Cap[b] + Rate[b] * now' + gifts'
         /\ Used'[b] + lost' + Level(b)' >= Cap[b]
<1>1. /\ Used[b] \in Nat /\ Level(b) \in Nat /\ Cap[b] \in Nat /\ Rate[b] * now \in Nat
      /\ gifts \in Nat /\ lost \in Nat
  <2>1. /\ Rate[b] \in Nat /\ now \in Nat /\ gifts \in Nat /\ lost \in Nat /\ Cap[b] \in Nat
        /\ LimitTypes
    BY Constants DEF Inv, LimitTypes
  <2>2. Rate[b] * now \in Nat
    BY <2>1, Products
  <2>3. Level(b) \in 0 .. Cap[b]
    BY <2>1, LevelType
  <2> QED BY <2>1, <2>2, <2>3, UsedTypes
<1>2. /\ Used[b] + Level(b) <= Cap[b] + Rate[b] * now + gifts
      /\ Used[b] + lost + Level(b) >= Cap[b]
  BY DEF Inv, WithinBudget, NoOvercharge
<1>3. PICK m : m = Rate[b] * now
  OBVIOUS
<1>4. m \in Nat /\ Used[b] + Level(b) <= Cap[b] + m + gifts
  BY <1>1, <1>2, <1>3
<1>5. Used'[b] + Level(b)' <= Cap[b] + m + gifts'
  BY <1>1, <1>4
<1>6. Used'[b] + lost' + Level(b)' >= Cap[b]
  BY <1>1, <1>2
<1> QED BY <1>3, <1>5, <1>6

(* Nobody reserves, settles or waits. *)
LEMMA BudgetSame ==
  ASSUME Inv, UNCHANGED <<bucket, now, gifts, lost, reserved>>, redisUp' \in BOOLEAN,
         \A q \in Requests : Cost(q)' = Cost(q)
  PROVE  Limits'
<1>1. UNCHANGED Used
  BY UsedSame
<1>2. \A b \in Buckets : Level(b)' = Level(b)
  BY DEF Level, Present
<1>3. LimitTypes'
  BY DEF Inv, LimitTypes
<1> QED BY <1>1, <1>2, <1>3 DEF Inv, Limits, WithinBudget, NoOvercharge

(* A reservation is kept by its request, or given up for lost. *)
LEMMA ReserveBudget ==
  ASSUME Inv, NEW q \in Requests, NEW kept \in BOOLEAN,
         pc[q] = "idle", reserved[q] = 0, bucket' = Reserved(MaxTokens),
         UNCHANGED <<now, redisUp, delivered, gifts>>,
         pc'[q] # "done", \A p \in Requests \ {q} : pc'[p] = pc[p],
         reserved' = [reserved EXCEPT ![q] =
                        IF kept /\ Verdict(MaxTokens) = "allowed" THEN MaxTokens ELSE 0],
         lost' = IF ~kept /\ Verdict(MaxTokens) = "allowed" THEN lost + MaxTokens ELSE lost
  PROVE  Limits'
<1>a. LimitTypes /\ RouterTypes /\ Placed
  BY DEF Inv
<1>0. /\ pc[q] = "idle" /\ bucket' = Reserved(MaxTokens)
      /\ UNCHANGED <<now, redisUp, delivered, gifts>>
      /\ pc'[q] # "done" /\ \A p \in Requests \ {q} : pc'[p] = pc[p]
      /\ reserved' = [reserved EXCEPT ![q] =
                         IF kept /\ Verdict(MaxTokens) = "allowed" THEN MaxTokens ELSE 0]
      /\ lost' = IF ~kept /\ Verdict(MaxTokens) = "allowed" THEN lost + MaxTokens ELSE lost
      /\ reserved[q] = 0
  OBVIOUS
<1>1. \A p \in Requests : Cost(p)' = Cost(p)
  BY <1>0, CostSame
<1>2. /\ Level("req") \in 0 .. Cap["req"] /\ Level("tok") \in 0 .. Cap["tok"]
      /\ "req" \in Buckets /\ "tok" \in Buckets /\ now \in Nat /\ MaxTokens \in Nat \ {0}
      /\ Cap["req"] \in Nat /\ Cap["tok"] \in Nat
  BY <1>a, LevelType, Constants DEF Buckets, LimitTypes
<1>3. ASSUME NEW x \in 0 .. Cap["req"], NEW y \in 0 .. Cap["tok"], bucket' = Write(x, y)
      PROVE  LimitTypes' /\ Level("req")' = x /\ Level("tok")' = y
  <2>1. bucket'["req"] = [tokens |-> x, ts |-> now] /\ bucket'["tok"] = [tokens |-> y, ts |-> now]
    BY <1>3 DEF Write, Buckets
  <2>2. Level("req")' = x /\ Level("tok")' = y
    BY <1>0, <1>2, <1>3, <1>a, <2>1, LevelWritten
  <2>3. bucket' \in [Buckets -> [tokens : Nat, ts : Int]]
    BY <1>2, <1>3 DEF Write, Buckets
  <2>4. \A b \in Buckets : bucket'[b].tokens <= Cap[b] /\ bucket'[b].ts <= now'
    BY <1>0, <1>2, <2>1 DEF Buckets
  <2>5. lost' \in Nat
    <3>1. lost' = lost \/ lost' = lost + MaxTokens
      BY <1>0
    <3> QED BY <1>2, <1>a, <3>1 DEF LimitTypes
  <2> QED BY <1>0, <1>a, <2>2, <2>3, <2>4, <2>5 DEF LimitTypes
<1>4. CASE Verdict(MaxTokens) = "allowed"
  <2>1. /\ Level("req") >= 1 /\ Level("tok") >= MaxTokens
    BY <1>2, <1>4 DEF Verdict
  <2>2. bucket' = Write(Level("req") - 1, Level("tok") - MaxTokens)
    BY <1>0, <1>4 DEF Reserved
  <2>3. /\ LimitTypes' /\ Level("req")' = Level("req") - 1
        /\ Level("tok")' = Level("tok") - MaxTokens
    BY <1>2, <1>3, <2>1, <2>2
  <2>4. Cost(q)' = MaxTokens
    BY <1>0 DEF Cost
  <2>6. Used["req"] \in Nat /\ Used["tok"] \in Nat /\ gifts \in Nat /\ lost \in Nat
    BY <1>2, <1>a, UsedTypes DEF LimitTypes
  <2>5. /\ Used'["req"] \in Nat /\ Used'["tok"] \in Nat /\ lost' \in Nat /\ lost <= lost'
        /\ Used'["req"] <= Used["req"] + 1 /\ Used'["req"] + lost' >= Used["req"] + lost + 1
        /\ Used'["tok"] <= Used["tok"] + MaxTokens
        /\ Used'["tok"] + lost' >= Used["tok"] + lost + MaxTokens
    <3>1. CASE kept
      <4>1. reserved' = [reserved EXCEPT ![q] = MaxTokens] /\ lost' = lost
        BY <1>0, <1>4, <3>1
      <4>2. /\ Used'["req"] = Used["req"] + 1 /\ Used'["tok"] = Used["tok"] + MaxTokens
        BY <1>0, <1>1, <1>a, <2>4, <4>1, UsedReserved
      <4> QED BY <1>2, <2>6, <4>1, <4>2
    <3>2. CASE ~kept
      <4>1. reserved' = reserved /\ lost' = lost + MaxTokens
        BY <1>0, <1>4, <1>a, <3>2 DEF RouterTypes
      <4>2. UNCHANGED Used
        BY <1>1, <4>1, UsedSame
      <4> QED BY <1>2, <2>6, <4>1, <4>2
    <3> QED BY <3>1, <3>2
  <2>7. ASSUME NEW b \in Buckets
        PROVE  /\ Used'[b] + Level(b)' <= Cap[b] + Rate[b] * now' + gifts'
               /\ Used'[b] + lost' + Level(b)' >= Cap[b]
    <3>1. CASE b = "req"
      <4>1. /\ Level(b)' \in Nat /\ Used'[b] \in Nat /\ gifts' \in Nat /\ lost' \in Nat
            /\ gifts <= gifts' /\ lost <= lost'
            /\ Used'[b] + Level(b)' <= Used[b] + Level(b) + (gifts' - gifts)
            /\ Used'[b] + lost' + Level(b)' >= Used[b] + lost + Level(b)
        BY <1>0, <1>2, <2>1, <2>3, <2>5, <2>6, <3>1
      <4> QED BY <1>0, <4>1, BudgetMoves
    <3>2. CASE b = "tok"
      <4>1. /\ Level(b)' \in Nat /\ Used'[b] \in Nat /\ gifts' \in Nat /\ lost' \in Nat
            /\ gifts <= gifts' /\ lost <= lost'
            /\ Used'[b] + Level(b)' <= Used[b] + Level(b) + (gifts' - gifts)
            /\ Used'[b] + lost' + Level(b)' >= Used[b] + lost + Level(b)
        BY <1>0, <1>2, <2>1, <2>3, <2>5, <2>6, <3>2
      <4> QED BY <1>0, <4>1, BudgetMoves
    <3> QED BY <3>1, <3>2 DEF Buckets
  <2> QED BY <2>3, <2>7 DEF Limits, WithinBudget, NoOvercharge
<1>5. ASSUME Verdict(MaxTokens) # "allowed" PROVE UNCHANGED Used
  <2>1. reserved' = reserved
    BY <1>0, <1>5, <1>a DEF RouterTypes
  <2> QED BY <1>1, <2>1, UsedSame
<1>6. CASE Verdict(MaxTokens) = "retry"
  <2>1. bucket' = Write(Level("req"), Level("tok"))
    BY <1>0, <1>6 DEF Reserved
  <2>2. LimitTypes' /\ Level("req")' = Level("req") /\ Level("tok")' = Level("tok")
    BY <1>2, <1>3, <2>1
  <2>3. \A b \in Buckets : Level(b)' = Level(b)
    BY <2>2 DEF Buckets
  <2>4. UNCHANGED Used /\ lost' = lost
    BY <1>0, <1>5, <1>6
  <2> QED BY <1>0, <2>2, <2>3, <2>4 DEF Inv, Limits, WithinBudget, NoOvercharge
<1>7. CASE Verdict(MaxTokens) \notin {"allowed", "retry"}
  <2>1. bucket' = bucket
    BY <1>0, <1>7 DEF Reserved
  <2>2. reserved' = reserved /\ lost' = lost
    BY <1>0, <1>7, <1>a DEF RouterTypes
  <2>3. redisUp' \in BOOLEAN
    BY <1>0, <1>a DEF LimitTypes
  <2> QED BY <1>0, <1>1, <2>1, <2>2, <2>3, BudgetSame
<1> QED BY <1>4, <1>6, <1>7

LEMMA AdmitBudget ==
  ASSUME Inv, NEW q \in Requests, Admit(q) \/ Unanswered(q)
  PROVE  Limits'
<1>a. LimitTypes /\ RouterTypes /\ Placed
  BY DEF Inv
<1>1. CASE Admit(q)
  <2>1. /\ pc[q] = "idle" /\ reserved[q] = 0 /\ bucket' = Reserved(MaxTokens)
        /\ UNCHANGED <<now, redisUp, delivered, gifts, lost>>
        /\ pc'[q] # "done" /\ \A p \in Requests \ {q} : pc'[p] = pc[p]
        /\ reserved' = [reserved EXCEPT ![q] =
                           IF Verdict(MaxTokens) = "allowed" THEN MaxTokens ELSE 0]
    BY <1>1, <1>a DEF Admit, Goto, RouterTypes, Placed
  <2> QED BY <2>1, ReserveBudget, TRUE \in BOOLEAN
<1>2. CASE Unanswered(q)
  <2>1. /\ pc[q] = "idle" /\ reserved[q] = 0 /\ bucket' = Reserved(MaxTokens)
        /\ UNCHANGED <<now, redisUp, delivered, gifts>>
        /\ pc'[q] # "done" /\ \A p \in Requests \ {q} : pc'[p] = pc[p]
    BY <1>2, <1>a DEF Unanswered, Goto, RouterTypes, Placed
  <2>2. /\ reserved' = [reserved EXCEPT ![q] =
                 IF FailOpen /\ Verdict(MaxTokens) = "allowed" THEN MaxTokens ELSE 0]
        /\ lost' = IF ~FailOpen /\ Verdict(MaxTokens) = "allowed" THEN lost + MaxTokens ELSE lost
        /\ FailOpen \in BOOLEAN
    <3>1. /\ lost \in Nat /\ FailOpen \in BOOLEAN
          /\ \/ Verdict(MaxTokens) = "allowed" \/ Verdict(MaxTokens) # "allowed"
      BY <1>a, LimitAssumption DEF LimitTypes
    <3>2. lost + 0 = lost
      BY <3>1
    <3>3. CASE Verdict(MaxTokens) = "allowed"
      BY <1>2, <3>1, <3>3 DEF Unanswered
    <3>4. CASE Verdict(MaxTokens) # "allowed"
      BY <1>2, <3>1, <3>2, <3>4 DEF Unanswered
    <3> QED BY <3>1, <3>3, <3>4
  <2> QED BY <2>1, <2>2, ReserveBudget
<1> QED BY <1>1, <1>2

LEMMA SettleBudget ==
  ASSUME Inv, NEW q \in Requests, Settle(q)
  PROVE  Limits'
<1>a. LimitTypes /\ RouterTypes
  BY DEF Inv
<1>b. PICK n : n = Len(delivered[q])
  OBVIOUS
<1>c. PICK own : own = AtMost(MaxTokens - n, reserved[q])
  OBVIOUS
<1>0. /\ pc[q] = "settle" /\ UNCHANGED <<now, redisUp, delivered, reserved>>
      /\ bucket' = Refunded(MaxTokens - n)
      /\ gifts' = IF redisUp /\ MaxTokens - n > 0 THEN gifts + (MaxTokens - n) - own ELSE gifts
      /\ lost' = IF ~redisUp /\ MaxTokens - n > 0 THEN lost + own ELSE lost
      /\ pc'[q] = "done" /\ \A p \in Requests \ {q} : pc'[p] = pc[p]
  BY <1>a, <1>b, <1>c DEF Settle, Goto, Unused, RouterTypes
<1>1. /\ n \in Nat /\ MaxTokens \in Nat \ {0} /\ reserved[q] \in {0, MaxTokens}
      /\ gifts \in Nat /\ lost \in Nat /\ now \in Nat /\ redisUp \in BOOLEAN
  BY <1>a, <1>b, Constants, LenProperties DEF RouterTypes, LimitTypes, Tokens
<1>2. /\ Level("tok") \in 0 .. Cap["tok"] /\ Cap["tok"] \in Nat
      /\ Level("req") \in 0 .. Cap["req"] /\ Cap["req"] \in Nat
      /\ "tok" \in Buckets /\ "req" \in Buckets
  BY <1>a, LevelType, Constants DEF Buckets
<1>3. \A p \in Requests \ {q} : Cost(p)' = Cost(p)
  BY <1>0, CostSame
<1>4. Cost(q) = MaxTokens /\ Cost(q)' = AtMost(n, MaxTokens)
  BY <1>0, <1>b DEF Cost
<1>5. Used["req"] \in Nat /\ Used["tok"] \in Nat /\ Used'["req"] \in Nat /\ Used'["tok"] \in Nat
  BY <1>2, UsedTypes
<1>6. /\ Used'["req"] = Used["req"]
      /\ Used'["tok"] = Used["tok"] - (IF reserved[q] = 0 THEN 0
                                       ELSE MaxTokens - AtMost(n, MaxTokens))
  <2>1. CASE reserved[q] = 0
    <3>1. Paying' = Paying
      BY <1>0 DEF Paying
    <3>2. q \notin Paying
      BY <2>1 DEF Paying
    <3>3. TokenUnits' = TokenUnits
      BY <1>3, <3>1, <3>2 DEF TokenUnits, Paying
    <3> QED BY <1>5, <2>1, <3>1, <3>3 DEF Used
  <2>2. CASE reserved[q] = MaxTokens
    <3>1. AtMost(n, MaxTokens) \in 0 .. MaxTokens
      BY <1>1 DEF AtMost
    <3> QED BY <1>0, <1>1, <1>3, <1>4, <1>a, <2>2, <3>1, UsedSettled
  <2> QED BY <1>1, <2>1, <2>2
<1>7. /\ bucket'["req"] = bucket["req"]
      /\ bucket'["tok"] = IF redisUp /\ MaxTokens - n > 0
                          THEN [tokens |-> AtMost(Level("tok") + (MaxTokens - n), Cap["tok"]), ts |-> now]
                          ELSE bucket["tok"]
      /\ bucket' \in [Buckets -> [tokens : Nat, ts : Int]]
      /\ bucket'["tok"].tokens <= Cap["tok"] /\ bucket'["tok"].ts <= now
  <2>1. AtMost(Level("tok") + (MaxTokens - n), Cap["tok"]) \in 0 .. Cap["tok"]
        \/ ~ (MaxTokens - n > 0)
    BY <1>1, <1>2 DEF AtMost
  <2> QED BY <1>0, <1>1, <1>2, <1>a, <2>1 DEF Refunded, LimitTypes
<1>8. Level("req")' = Level("req")
  BY <1>0, <1>7 DEF Level, Present
<1>9. Level("tok")' = IF redisUp /\ MaxTokens - n > 0
                      THEN AtMost(Level("tok") + (MaxTokens - n), Cap["tok"]) ELSE Level("tok")
  <2>1. CASE redisUp /\ MaxTokens - n > 0
    <3>1. AtMost(Level("tok") + (MaxTokens - n), Cap["tok"]) \in 0 .. Cap["tok"]
      BY <1>1, <1>2, <2>1 DEF AtMost
    <3>2. Level("tok")' = AtMost(Level("tok") + (MaxTokens - n), Cap["tok"])
      BY <1>0, <1>2, <1>7, <1>a, <2>1, <3>1, LevelWritten
    <3> QED BY <2>1, <3>2
  <2>2. CASE ~ (redisUp /\ MaxTokens - n > 0)
    BY <1>0, <1>7, <2>2 DEF Level, Present
  <2> QED BY <2>1, <2>2
<1>10. own \in Int /\ (MaxTokens - n > 0 => own = IF reserved[q] = 0 THEN 0 ELSE MaxTokens - n)
  BY <1>1, <1>c DEF AtMost
<1>11. gifts' \in Nat /\ lost' \in Nat /\ gifts <= gifts' /\ lost <= lost'
  BY <1>0, <1>1, <1>10
<1>12. LimitTypes'
  <2>1. \A b \in Buckets : bucket'[b].tokens <= Cap[b] /\ bucket'[b].ts <= now'
    BY <1>0, <1>7, <1>a DEF Buckets, LimitTypes
  <2> QED BY <1>0, <1>1, <1>7, <1>11, <2>1 DEF LimitTypes
<1>13. /\ Used'["req"] + Level("req")' <= Cap["req"] + Rate["req"] * now' + gifts'
       /\ Used'["req"] + lost' + Level("req")' >= Cap["req"]
  <2>1. /\ Used'["req"] + Level("req")' <= Used["req"] + Level("req") + (gifts' - gifts)
        /\ Used'["req"] + lost' + Level("req")' >= Used["req"] + lost + Level("req")
        /\ Level("req")' \in Nat
    BY <1>1, <1>2, <1>5, <1>6, <1>8, <1>11
  <2> QED BY <1>0, <1>2, <1>5, <1>11, <2>1, BudgetMoves
<1>14. /\ Used'["tok"] + Level("tok")' <= Cap["tok"] + Rate["tok"] * now' + gifts'
       /\ Used'["tok"] + lost' + Level("tok")' >= Cap["tok"]
  <2>1. /\ Used'["tok"] + Level("tok")' <= Used["tok"] + Level("tok") + (gifts' - gifts)
        /\ Level("tok")' \in Nat
        /\ \/ Used'["tok"] + lost' + Level("tok")' >= Used["tok"] + lost + Level("tok")
           \/ Level("tok")' = Cap["tok"]
    <3>1. CASE MaxTokens - n > 0
      <4>1. Used'["tok"] = Used["tok"] - (IF reserved[q] = 0 THEN 0 ELSE MaxTokens - n)
        BY <1>1, <1>6, <3>1 DEF AtMost
      <4>2. Used'["tok"] = Used["tok"] - own
        BY <1>10, <3>1, <4>1
      <4>3. CASE redisUp
        <5>1. /\ gifts' = gifts + (MaxTokens - n) - own /\ lost' = lost
              /\ Level("tok")' = AtMost(Level("tok") + (MaxTokens - n), Cap["tok"])
          BY <1>0, <1>9, <3>1, <4>3
        <5>2. /\ Level("tok")' <= Level("tok") + (MaxTokens - n) /\ Level("tok")' \in Nat
              /\ Level("tok")' = Level("tok") + (MaxTokens - n) \/ Level("tok")' = Cap["tok"]
          BY <1>1, <1>2, <3>1, <5>1 DEF AtMost
        <5>3. own <= MaxTokens - n
          BY <1>1, <1>10, <3>1
        <5> QED BY <1>1, <1>2, <1>5, <1>10, <4>2, <5>1, <5>2, <5>3
      <4>4. CASE ~ redisUp
        <5>1. gifts' = gifts /\ lost' = lost + own /\ Level("tok")' = Level("tok")
          BY <1>0, <1>9, <3>1, <4>4
        <5>2. own >= 0
          BY <1>1, <1>10, <3>1
        <5> QED BY <1>1, <1>2, <1>5, <1>10, <4>2, <5>1, <5>2
      <4> QED BY <4>3, <4>4
    <3>2. CASE ~ (MaxTokens - n > 0)
      <4>1. Used'["tok"] = Used["tok"]
        BY <1>1, <1>5, <1>6, <3>2 DEF AtMost
      <4>2. gifts' = gifts /\ lost' = lost /\ Level("tok")' = Level("tok")
        BY <1>0, <1>9, <3>2
      <4> QED BY <1>1, <1>2, <1>5, <4>1, <4>2
    <3> QED BY <3>1, <3>2
  <2> QED BY <1>0, <1>2, <1>5, <1>11, <2>1, BudgetMoves
<1> QED BY <1>12, <1>13, <1>14 DEF Limits, WithinBudget, NoOvercharge, Buckets

LEMMA TickBudget ==
  ASSUME Inv, Tick, UNCHANGED <<gifts, lost, reserved, pc, delivered>>
  PROVE  Limits'
<1>a. LimitTypes /\ WithinBudget /\ NoOvercharge
  BY DEF Inv
<1>1. UNCHANGED Used
  BY UsedSame DEF Cost
<1>2. LimitTypes'
  <2>1. now' = now + 1 /\ UNCHANGED <<bucket, redisUp>>
    BY DEF Tick
  <2> QED BY <1>a, <2>1 DEF LimitTypes
<1>3. ASSUME NEW b \in Buckets
      PROVE  /\ Used'[b] + Level(b)' <= Cap[b] + Rate[b] * now' + gifts'
             /\ Used'[b] + lost' + Level(b)' >= Cap[b]
  <2>1. Level(b) <= Level(b)' /\ Level(b)' <= Level(b) + Rate[b]
    BY <1>a, LevelTick
  <2>2. Level(b) \in 0 .. Cap[b] /\ Level(b)' \in 0 .. Cap[b]
    <3>1. Level(b) \in 0 .. Cap[b]
      BY <1>a, LevelType
    <3>2. Level(b)' \in 0 .. Cap[b]
      <4>1. /\ now' - bucket'[b].ts \in Nat /\ Rate[b] \in Nat /\ Cap[b] \in Nat
            /\ bucket'[b].tokens \in Nat
        BY <1>2, Constants DEF LimitTypes
      <4>2. (now' - bucket'[b].ts) * Rate[b] \in Nat
        BY <4>1, Products
      <4> QED BY <4>1, <4>2 DEF Level, AtMost
    <3> QED BY <3>1, <3>2
  <2>3. /\ Used[b] \in Nat /\ Cap[b] \in Nat /\ Rate[b] \in Nat /\ now \in Nat
        /\ gifts \in Nat /\ lost \in Nat /\ now' = now + 1
    BY <1>a, UsedTypes, Constants DEF LimitTypes, Tick
  <2>4. Rate[b] * now \in Nat /\ Rate[b] * now' = Rate[b] * now + Rate[b]
    <3>1. now * Rate[b] \in Nat /\ (now + 1) * Rate[b] = now * Rate[b] + Rate[b]
      BY <2>3, Products
    <3>2. Rate[b] * now = now * Rate[b] /\ Rate[b] * (now + 1) = (now + 1) * Rate[b]
      BY <2>3
    <3> QED BY <2>3, <3>1, <3>2
  <2>5. PICK m : m = Rate[b] * now
    OBVIOUS
  <2>6. Used[b] + Level(b) <= Cap[b] + m + gifts /\ Used[b] + lost + Level(b) >= Cap[b]
    BY <1>a, <2>5 DEF WithinBudget, NoOvercharge
  <2>7. m \in Nat /\ Rate[b] * now' = m + Rate[b]
    BY <2>4, <2>5
  <2>8. Used[b] + Level(b)' <= Cap[b] + (m + Rate[b]) + gifts /\ Used[b] + lost + Level(b)' >= Cap[b]
    BY <2>1, <2>2, <2>3, <2>6, <2>7
  <2> QED BY <1>1, <2>7, <2>8
<1> QED BY <1>2, <1>3 DEF Limits, WithinBudget, NoOvercharge

LEMMA LimitNext == Inv /\ [Next]_vars => Limits'
<1> SUFFICES ASSUME Inv, [Next]_vars PROVE Limits'
  OBVIOUS
<1>a. LimitTypes /\ RouterTypes /\ Placed
  BY DEF Inv
<1>b. ASSUME UNCHANGED <<limitVars, gifts, lost, reserved>>,
             \A p \in Requests : pc[p] = "done" <=> pc'[p] = "done",
             \A p \in Requests : pc[p] = "done" => delivered'[p] = delivered[p]
      PROVE  Limits'
  BY <1>a, <1>b, CostSame, BudgetSame DEF limitVars, LimitTypes
<1>1. ASSUME NEW q \in Requests, Admit(q) \/ Unanswered(q) \/ Settle(q) PROVE Limits'
  BY <1>1, AdmitBudget, SettleBudget
<1>2. ASSUME NEW q \in Requests, Pick(q) \/ GiveUp(q) \/ Accepted(q) PROVE Limits'
  <2>1. \A p \in Requests : pc[p] = "done" <=> pc'[p] = "done"
    BY <1>2, <1>a DEF Pick, GiveUp, Accepted, Goto, RouterTypes
  <2> QED BY <1>2, <1>b, <2>1 DEF Pick, GiveUp, Accepted
<1>3. ASSUME NEW q \in Requests, Left(q) PROVE Limits'
  <2>1. /\ pc'[q] \in {"pick", "settle"} /\ pc' = [pc EXCEPT ![q] = pc'[q]]
        /\ pc[q] # "done" /\ UNCHANGED <<limitVars, reserved, gifts, lost>>
    BY <1>3, LeftFacts DEF Left
  <2>2. \A p \in Requests \ {q} : delivered'[p] = delivered[p]
    BY <1>3 DEF Left
  <2>3. \A p \in Requests : pc[p] = "done" <=> pc'[p] = "done"
    BY <1>a, <2>1 DEF RouterTypes
  <2> QED BY <1>b, <2>1, <2>2, <2>3
<1>4. ASSUME NEW r \in Replicas, NEW i \in Ids, Produce(r, i) PROVE Limits'
  <2>0. PICK g : g = gen[r][i]
    OBVIOUS
  <2>1. /\ pc[g.owner] = "stream" /\ g.owner \in Requests
        /\ UNCHANGED <<limitVars, pc, reserved, gifts, lost>>
        /\ HoldsBack(r, i, g) \/ SendsOut(r, i, g)
    BY <1>4, <2>0, ProduceFacts
  <2>2. \A p \in Requests \ {g.owner} : delivered'[p] = delivered[p]
    BY <1>a, <2>1 DEF HoldsBack, SendsOut, RouterTypes
  <2> QED BY <1>b, <2>1, <2>2
<1>5. ASSUME NEW r \in Replicas, NEW i \in Ids, Cleanup(r, i) PROVE Limits'
  BY <1>5, <1>b DEF Cleanup, reqVars
<1>6. ASSUME NEW r \in Replicas, Drain(r) \/ Down(r) \/ Restart(r) \/ Membership(r)
      PROVE  Limits'
  BY <1>6, <1>b DEF Drain, Down, Restart, Membership, reqVars
<1>7. CASE Clock
  <2>1. UNCHANGED <<reserved, gifts, lost, pc, delivered>>
    BY <1>7 DEF Clock, reqVars
  <2>2. CASE Tick
    BY <2>1, <2>2, TickBudget
  <2>3. CASE RedisFlip
    BY <1>a, <2>1, <2>3, CostSame, BudgetSame DEF RedisFlip, LimitTypes
  <2> QED BY <1>7, <2>2, <2>3 DEF Clock
<1>8. CASE UNCHANGED vars
  BY <1>8, <1>b DEF vars, reqVars
<1> QED BY <1>1, <1>2, <1>3, <1>4, <1>5, <1>6, <1>7, <1>8, StepCases

-----------------------------------------------------------------------------
(* The invariant. *)

LEMMA AllNodesFinite == IsFiniteSet(UNION {VirtualNodes(r) : r \in Replicas})
<1> DEFINE f == [r \in Replicas |-> VirtualNodes(r)]
<1>1. f \in Surjection(Replicas, {VirtualNodes(r) : r \in Replicas})
  BY DEF Surjection
<1>2. IsFiniteSet({VirtualNodes(r) : r \in Replicas})
  BY <1>1, Constants, FS_Surjection
<1> QED BY <1>2, NodesFinite, FS_UNION

LEMMA InitInv == Init => Inv
<1> SUFFICES ASSUME Init PROVE Inv
  OBVIOUS
<1>1. RingTypes
  <2>1. \E k \in Nat : DOMAIN points = 1 .. k
    BY AllNodesFinite, SortPointsList DEF Init, RingInit
  <2> QED BY <2>1 DEF Init, RingInit, RingTypes
<1>2. LimitTypes
  <2>1. -TTL \in Int /\ -TTL <= 0 /\ \A b \in Buckets : Cap[b] \in Nat
    BY Constants
  <2>2. \A b \in Buckets : bucket[b] = [tokens |-> 0, ts |-> -TTL]
    BY DEF Init, LimitInit
  <2> QED BY <2>1, <2>2 DEF Init, LimitInit, LimitTypes
<1>3. RouterTypes /\ Placed
  <2>1. <<>> \in Tokens
    BY EmptySeq DEF Tokens
  <2> QED BY <2>1 DEF Init, RouterTypes, Placed, Places
<1>4. NodeTypes /\ EntriesFit
  BY DEF Init, NodeTypes, EntriesFit, EntryFits
<1>5. OverrunFits
  BY EmptySeq DEF Init, OverrunFits, Overrun
<1>6. NoPhantomLoad
  BY InFlightFinite DEF Init, RingInit, NoPhantomLoad
<1>7. \A b \in Buckets : Used[b] = 0 /\ Level(b) = Cap[b]
  <2>1. Paying = {} /\ TokenUnits = {}
    BY DEF Init, Paying, TokenUnits
  <2>2. \A b \in Buckets : Used[b] = 0
    BY <2>1, FS_EmptySet DEF Used, Buckets
  <2>3. \A b \in Buckets : ~ Present(b)
    <3>1. \A b \in Buckets : bucket[b].ts = -TTL
      BY DEF Init, LimitInit
    <3>2. now = 0 /\ TTL \in Nat
      BY Constants DEF Init, LimitInit
    <3> QED BY <3>1, <3>2 DEF Present
  <2> QED BY <2>2, <2>3 DEF Level
<1>8. WithinBudget /\ NoOvercharge
  <2>1. now = 0 /\ gifts = 0 /\ lost = 0
    BY DEF Init, LimitInit
  <2>2. \A b \in Buckets : Cap[b] \in Nat /\ Rate[b] \in Nat
    BY Constants
  <2> QED BY <1>7, <2>1, <2>2 DEF WithinBudget, NoOvercharge
<1> QED BY <1>1, <1>2, <1>3, <1>4, <1>5, <1>6, <1>8 DEF Inv

LEMMA Invariance == Spec => []Inv
<1>1. Inv /\ [Next]_vars => Inv'
  BY RingNext, RouterNext, NodesNext, OverrunNext, PhantomNext, LimitNext DEF Inv, Limits
<1> QED BY InitInv, <1>1, PTL DEF Spec

(* The ring's count of a replica's requests never exceeds the requests on it,
   whatever retries, failures and removals do (ring.go, Pick and Release). *)
THEOREM LoadIsReal == Spec => []NoPhantomLoad
<1>1. Inv => NoPhantomLoad
  BY DEF Inv
<1> QED BY Invariance, <1>1, PTL

(* The pigeonhole argument of ring.go: with the cap rounded up, some ready replica
   is below it, for every load, epsilon and number of replicas. *)
THEOREM SomeReplicaBelowCap == Spec => []FirstAttemptUnderCap
<1>1. Inv => FirstAttemptUnderCap
  BY SomeoneUnderCap DEF Inv
<1> QED BY Invariance, <1>1, PTL

(* A client is sent at most the tokens it asked for and one more for each attempt
   after the first (remaining in replica.py, _resume_request). *)
THEOREM OverrunAlwaysBounded == Spec => []OverrunBounded
<1>1. Inv => OverrunBounded
  <2> SUFFICES ASSUME Inv, NEW q \in Requests \ followed
               PROVE  delivered[q] = <<>> \/ Len(delivered[q]) < MaxTokens + Cardinality(tried[q])
    BY DEF OverrunBounded
  <2>1. /\ delivered[q] \in Tokens /\ Overrun(q) /\ MaxTokens \in Nat
        /\ Cardinality(tried[q]) \in Nat
    BY TriedFinite, Constants DEF Inv, RouterTypes, OverrunFits
  <2>2. Len(delivered[q]) \in Nat
    BY <2>1, LenProperties DEF Tokens
  <2>3. CASE Len(delivered[q]) = 0
    BY <2>1, <2>3, EmptySeq DEF Tokens
  <2>4. CASE Len(delivered[q]) # 0
    BY <2>1, <2>2, <2>4 DEF Overrun
  <2> QED BY <2>3, <2>4
<1> QED BY Invariance, <1>1, PTL

(* A client never uses more than its burst and the refill, gifts aside
   (ratelimit.go, the two scripts). *)
THEOREM BudgetKept == Spec => []WithinBudget
<1>1. Inv => WithinBudget
  BY DEF Inv
<1> QED BY Invariance, <1>1, PTL

(* And it never pays for more than it used, lost refunds and, where the limiter
   fails closed, lost reservations aside. *)
THEOREM NeverOvercharged == Spec => []NoOvercharge
<1>1. Inv => NoOvercharge
  BY DEF Inv
<1> QED BY Invariance, <1>1, PTL

-----------------------------------------------------------------------------
(* The stream, where no token ends in the middle of a character. *)

LEMMA TrueAppend ==
  ASSUME NEW s \in Tokens, IsTrue(s)
  PROVE  NextToken(s) = Len(s) + 1 /\ IsTrue(Append(s, Len(s) + 1))
<1>1. Len(s) \in Nat /\ \A j \in 1 .. Len(s) : s[j] = j
  <2>1. Len(s) \in Nat
    BY LenProperties DEF Tokens
  <2>2. s = [n \in 1 .. Len(s) |-> n]
    BY DEF IsTrue
  <2> QED BY <2>1, <2>2
<1>2. PICK t : t = Append(s, Len(s) + 1)
  OBVIOUS
<1>3. /\ t \in Seq(Nat) /\ Len(t) = Len(s) + 1 /\ t[Len(s) + 1] = Len(s) + 1
      /\ \A j \in 1 .. Len(s) : t[j] = s[j]
  <2>1. Len(s) + 1 \in Nat
    BY <1>1
  <2> QED BY <1>2, <2>1, AppendProperties DEF Tokens
<1>4. DOMAIN t = 1 .. Len(t) /\ t = [n \in DOMAIN t |-> t[n]]
  BY <1>3, LenProperties
<1>5. \A j \in 1 .. Len(t) : t[j] = j
  BY <1>1, <1>3
<1>6. t = [n \in 1 .. Len(t) |-> n]
  BY <1>4, <1>5
<1> QED BY <1>2, <1>6 DEF IsTrue, NextToken

LEMMA LastPiece ==
  ASSUME NEW s \in Tokens, NEW x \in Nat, NEW t, t = Append(s, x)
  PROVE  SubSeq(t, Len(s) + 1, Len(t)) = <<x>>
<1>1. Len(s) \in Nat /\ t \in Seq(Nat) /\ Len(t) = Len(s) + 1 /\ t[Len(s) + 1] = x
  BY LenProperties, AppendProperties DEF Tokens
<1>2. PICK m : m = Len(s) + 1
  OBVIOUS
<1>3. m \in Int /\ Len(t) = m /\ t[m] = x /\ m - m + 1 = 1 /\ m + 1 - 1 = m
  BY <1>1, <1>2
<1>4. \A i \in m .. m : t[i] \in Nat
  BY <1>3
<1>5. PICK u : u = SubSeq(t, m, m)
  OBVIOUS
<1>6. u \in Seq(Nat) /\ Len(u) = 1 /\ u[1] = x
  BY <1>3, <1>4, <1>5, SubSeqProperties
<1>7. u = <<x>>
  <2>1. <<x>> \in Seq(Nat) /\ Len(<<x>>) = 1 /\ <<x>>[1] = x
    OBVIOUS
  <2>2. \A i \in 1 .. 1 : u[i] = <<x>>[i]
    BY <1>6, <2>1
  <2> QED BY <1>6, <2>1, <2>2, SeqEqual
<1> QED BY <1>2, <1>3, <1>5, <1>7

LEMMA StreamsInit == Init => StreamsTrue
<1>1. IsTrue(<<>>)
  BY EmptySeq DEF IsTrue
<1> QED BY <1>1 DEF Init, StreamsTrue, EntryTrue

LEMMA StreamsNext ==
  ASSUME Halves = {}, Inv, StreamsTrue, [Next]_vars
  PROVE  StreamsTrue'
<1>a. RouterTypes /\ NodeTypes /\ Placed
  BY DEF Inv
<1>b. ASSUME UNCHANGED <<delivered, text, followed>>,
             \A r \in Replicas : \A i \in Ids : gen'[r][i] = NoGen \/ gen'[r][i] = gen[r][i]
      PROVE  StreamsTrue'
  <2>1. ASSUME NEW r \in Replicas, NEW i \in Ids PROVE EntryTrue(r, i)'
    <3>1. CASE gen'[r][i] = NoGen
      BY <3>1 DEF EntryTrue
    <3>2. CASE gen'[r][i] = gen[r][i]
      BY <3>2 DEF EntryTrue, StreamsTrue
    <3> QED BY <1>b, <3>1, <3>2
  <2> QED BY <1>b, <2>1 DEF StreamsTrue
<1>1. ASSUME NEW q \in Requests, Unanswered(q) \/ Admit(q) \/ Pick(q) \/ GiveUp(q) \/ Settle(q)
      PROVE  StreamsTrue'
  BY <1>1, <1>b DEF Admit, Unanswered, Pick, GiveUp, Settle, nodeVars
<1>2. ASSUME NEW q \in Requests, Left(q) PROVE StreamsTrue'
  <2>1. UNCHANGED gen
    BY <1>2, LeftFacts
  <2>2. CASE UNCHANGED <<delivered, text, followed>>
    BY <1>b, <2>1, <2>2
  <2>3. CASE /\ followed' = followed \cup {q}
             /\ \A p \in Requests \ {q} : delivered'[p] = delivered[p] /\ text'[p] = text[p]
    BY <2>1, <2>3 DEF StreamsTrue, EntryTrue
  <2> QED BY <1>2, <2>2, <2>3 DEF Left
<1>3. ASSUME NEW q \in Requests, Accepted(q) PROVE StreamsTrue'
  <2>1. PICK h : h = [owner |-> q, resume |-> delivered[q], produced |-> <<>>,
                      emitted |-> <<>>, sent |-> 0]
    OBVIOUS
  <2>2. /\ pc[q] = "dispatch" /\ gen' = [gen EXCEPT ![at[q]][IdOf[q]] = h]
        /\ UNCHANGED <<delivered, text, followed>>
    BY <1>3, <2>1 DEF Accepted
  <2>3. q \notin followed /\ delivered[q] \in Tokens
    BY <1>a, <2>2 DEF Placed, RouterTypes
  <2>4. IsTrue(delivered[q])
    BY <2>3 DEF StreamsTrue
  <2>5. /\ h.resume \o h.produced = delivered[q] /\ h.emitted = h.produced
        /\ h.sent = Len(h.produced)
    <3>1. /\ h.resume = delivered[q] /\ h.produced = <<>> /\ h.emitted = <<>> /\ h.sent = 0
      BY <2>1
    <3> QED BY <2>3, <3>1, ConcatEmptySeq, EmptySeq DEF Tokens
  <2>6. ASSUME NEW r \in Replicas, NEW i \in Ids PROVE EntryTrue(r, i)'
    <3>1. CASE gen'[r][i] = h
      BY <2>4, <2>5, <3>1 DEF EntryTrue
    <3>2. CASE gen'[r][i] = gen[r][i]
      BY <3>2 DEF EntryTrue, StreamsTrue
    <3> QED BY <1>a, <2>2, <3>1, <3>2 DEF NodeTypes
  <2> QED BY <2>2, <2>6 DEF StreamsTrue
<1>4. ASSUME NEW r \in Replicas, NEW i \in Ids, Produce(r, i) PROVE StreamsTrue'
  <2>0. PICK g : g = gen[r][i]
    OBVIOUS
  <2>1. /\ g \in Gens /\ g.owner \in Requests /\ g # NoGen /\ Serving(r, i)
        /\ pc[g.owner] = "stream" /\ Token(g) \in Nat /\ UNCHANGED followed
        /\ Grown(g) \in Tokens /\ Len(Grown(g)) \in Nat
    BY <1>4, <2>0, ProduceFacts, LenProperties DEF Tokens
  <2>2. SendsOut(r, i, g)
    BY <1>4, <2>0, ProduceFacts DEF HoldsBack
  <2>3. /\ g.resume \in Tokens /\ g.produced \in Tokens /\ g.emitted \in Tokens
        /\ delivered[g.owner] = g.resume \o g.emitted /\ g.owner \notin followed
    <3>1. /\ g.resume \in Tokens /\ g.produced \in Tokens /\ g.emitted \in Tokens
          /\ EntryFits(r, i)
      BY <2>0, <2>1, EntryFacts
    <3>2. delivered[g.owner] = g.resume \o g.emitted
      BY <2>0, <2>1, <3>1 DEF EntryFits
    <3>3. g.owner \notin followed
      BY <1>a, <2>1 DEF Placed
    <3> QED BY <3>1, <3>2, <3>3
  <2>4. /\ IsTrue(g.resume \o g.produced) /\ g.emitted = g.produced
        /\ g.sent = Len(g.produced) /\ text[g.owner] = delivered[g.owner]
    BY <2>0, <2>1, <2>3 DEF StreamsTrue, EntryTrue
  <2>5. PICK c : c = g.resume \o g.produced
    OBVIOUS
  <2>6. c \in Tokens /\ IsTrue(c) /\ delivered[g.owner] = c /\ text[g.owner] = c
    BY <2>3, <2>4, <2>5, ConcatProperties DEF Tokens
  <2>7. Token(g) = Len(c) + 1 /\ IsTrue(Append(c, Token(g)))
    BY <2>5, <2>6, TrueAppend DEF Token, Context
  <2>8. g.resume \o Grown(g) = Append(c, Token(g))
    BY <2>1, <2>3, <2>5, AppendConcat DEF Grown
  <2>9. SubSeq(Grown(g), g.sent + 1, Len(Grown(g))) = <<Token(g)>>
    <3>1. Grown(g) = Append(g.produced, Token(g))
      BY DEF Grown
    <3>2. SubSeq(Grown(g), Len(g.produced) + 1, Len(Grown(g))) = <<Token(g)>>
      BY <2>1, <2>3, <3>1, LastPiece
    <3> QED BY <2>4, <3>2
  <2>10. delivered'[g.owner] = Append(c, Token(g)) /\ text'[g.owner] = Append(c, Token(g))
    <3>1. /\ delivered'[g.owner] = Append(delivered[g.owner], Token(g))
          /\ text'[g.owner] = text[g.owner] \o <<Token(g)>>
      BY <1>a, <2>1, <2>2, <2>9 DEF SendsOut, RouterTypes
    <3>2. Append(c, Token(g)) = c \o <<Token(g)>>
      BY <2>1, <2>6, AppendIsConcat DEF Tokens
    <3> QED BY <2>6, <3>1, <3>2
  <2>11. \A p \in Requests \ {g.owner} : delivered'[p] = delivered[p] /\ text'[p] = text[p]
    BY <1>a, <2>2 DEF SendsOut, RouterTypes
  <2>12. PICK h : h = Sent(g)
    OBVIOUS
  <2>13. /\ h.resume = g.resume /\ h.produced = Grown(g) /\ h.sent = Len(h.produced)
         /\ h.emitted = Append(g.emitted, Token(g))
    BY <2>1, <2>12 DEF Sent, Gens
  <2>14. ASSUME NEW r2 \in Replicas, NEW i2 \in Ids PROVE EntryTrue(r2, i2)'
    <3>1. CASE gen'[r2][i2] = h
      <4>1. h.emitted = h.produced /\ IsTrue(h.resume \o h.produced)
        BY <2>4, <2>7, <2>8, <2>13 DEF Grown
      <4> QED BY <2>13, <3>1, <4>1 DEF EntryTrue
    <3>2. CASE gen'[r2][i2] = gen[r2][i2]
      BY <3>2 DEF EntryTrue, StreamsTrue
    <3>3. gen' = [gen EXCEPT ![r][i] = h]
      BY <2>2, <2>12 DEF SendsOut
    <3> QED BY <1>a, <3>1, <3>2, <3>3 DEF NodeTypes
  <2> QED BY <2>1, <2>7, <2>10, <2>11, <2>14 DEF StreamsTrue
<1>5. ASSUME NEW r \in Replicas, NEW i \in Ids, Cleanup(r, i) PROVE StreamsTrue'
  <2>1. \A a \in Replicas : \A b \in Ids : gen'[a][b] = NoGen \/ gen'[a][b] = gen[a][b]
    BY <1>5, <1>a DEF Cleanup, NodeTypes
  <2> QED BY <1>5, <1>b, <2>1 DEF Cleanup, reqVars
<1>6. ASSUME NEW r \in Replicas, Down(r) PROVE StreamsTrue'
  <2>1. \A a \in Replicas : \A b \in Ids : gen'[a][b] = NoGen \/ gen'[a][b] = gen[a][b]
    BY <1>6, <1>a DEF Down, NodeTypes
  <2> QED BY <1>6, <1>b, <2>1 DEF Down, reqVars
<1>7. ASSUME NEW r \in Replicas, Drain(r) \/ Restart(r) \/ Membership(r) PROVE StreamsTrue'
  BY <1>7, <1>b DEF Drain, Restart, Membership, reqVars, nodeVars
<1>8. CASE Clock \/ UNCHANGED vars
  BY <1>8, <1>b DEF Clock, vars, reqVars, nodeVars
<1> QED BY <1>1, <1>2, <1>3, <1>4, <1>5, <1>6, <1>7, <1>8, StepCases

(* Across any number of migrations the client has one unbroken generation, for a
   tokenizer whose every token ends a character; with one that does not, the
   model checker finds the counterexample (proxy.go, delivered, and replica.py,
   resume_tokens). *)
THEOREM StreamUnbroken ==
  ASSUME Halves = {}
  PROVE  Spec => []UnbrokenStream
<1>1. Inv /\ StreamsTrue /\ [Next]_vars => StreamsTrue'
  BY StreamsNext
<1>2. StreamsTrue => UnbrokenStream
  BY DEF StreamsTrue, UnbrokenStream
<1> QED BY Invariance, StreamsInit, <1>1, <1>2, PTL DEF Spec

-----------------------------------------------------------------------------
(* The ring's order. *)

(* A remainder of less than twice the divisor. *)
LEMMA Wrapped ==
  ASSUME NEW n \in Nat, n > 0, NEW x \in 0 .. 2 * n - 1
  PROVE  x % n = IF x < n THEN x ELSE x - n
<1>1. ASSUME NEW q \in Nat, NEW r \in 0 .. n - 1 PROVE (n * q + r) % n = r
  OBVIOUS
<1>2. CASE x < n
  <2>1. x \in 0 .. n - 1 /\ x = n * 0 + x /\ 0 \in Nat
    BY <1>2
  <2>2. (n * 0 + x) % n = x
    BY <1>1, <2>1
  <2> QED BY <1>2, <2>1, <2>2
<1>3. CASE ~(x < n)
  <2>1. x - n \in 0 .. n - 1 /\ x = n * 1 + (x - n) /\ 1 \in Nat
    BY <1>3
  <2>2. (n * 1 + (x - n)) % n = x - n
    BY <1>1, <2>1
  <2> QED BY <1>3, <2>1, <2>2
<1> QED BY <1>2, <1>3

(* Points with hashes of their own. *)
Distinct(S) ==
    /\ IsFiniteSet(S) /\ \A p \in S : p.hash \in Nat
    /\ \A p, q \in S : p.hash = q.hash => p = q

Rank(S, p) == Cardinality({o \in S : o.hash < p.hash})

(* The ranks of n points are 0 to n - 1, in the order of the hashes. *)
LEMMA RanksRise ==
  ASSUME NEW S, Distinct(S), NEW p \in S
  PROVE  /\ Rank(S, p) \in 0 .. Cardinality(S) - 1 /\ Cardinality(S) \in Nat
         /\ \A q \in S : p.hash < q.hash => Rank(S, p) < Rank(S, q)
<1> DEFINE Low(q) == {o \in S : o.hash < q.hash}
<1>1. IsFiniteSet(S) /\ (\A q \in S : q.hash \in Nat) /\ Cardinality(S) \in Nat
  BY FS_CardinalityType DEF Distinct
<1>2. ASSUME NEW q \in S
      PROVE  IsFiniteSet(Low(q)) /\ Cardinality(Low(q)) \in Nat /\ Rank(S, q) = Cardinality(Low(q))
  BY <1>1, FS_Subset, FS_CardinalityType DEF Rank
<1>3. Cardinality(Low(p)) + 1 <= Cardinality(S)
  <2>1. p \notin Low(p) /\ Low(p) \cup {p} \in SUBSET S
    BY <1>1
  <2>2. Cardinality(Low(p) \cup {p}) = Cardinality(Low(p)) + 1
    BY <1>2, <2>1, FS_AddElement
  <2>3. Cardinality(Low(p) \cup {p}) <= Cardinality(S)
    BY <1>1, <2>1, FS_Subset
  <2> QED BY <2>2, <2>3
<1>4. ASSUME NEW q \in S, p.hash < q.hash PROVE Cardinality(Low(p)) + 1 <= Cardinality(Low(q))
  <2>1. p \notin Low(p) /\ p \in Low(q)
    BY <1>1, <1>4
  <2>2. \A o \in Low(p) : o \in Low(q)
    BY <1>1, <1>4
  <2>3. Low(p) \cup {p} \in SUBSET Low(q)
    BY <2>1, <2>2
  <2>4. Cardinality(Low(p) \cup {p}) = Cardinality(Low(p)) + 1
    BY <1>2, <2>1, FS_AddElement
  <2>5. Cardinality(Low(p) \cup {p}) <= Cardinality(Low(q))
    BY <1>2, <2>3, FS_Subset
  <2> QED BY <2>4, <2>5
<1> HIDE DEF Low
<1>5. Rank(S, p) \in 0 .. Cardinality(S) - 1
  BY <1>1, <1>2, <1>3
<1>6. ASSUME NEW q \in S, p.hash < q.hash PROVE Rank(S, p) < Rank(S, q)
  BY <1>2, <1>4, <1>6
<1> QED BY <1>1, <1>5, <1>6

LEMMA RanksDiffer ==
  ASSUME NEW S, Distinct(S), NEW p \in S, NEW q \in S, Rank(S, p) = Rank(S, q)
  PROVE  p = q
<1>1. p.hash \in Nat /\ q.hash \in Nat /\ (p.hash = q.hash => p = q)
  BY DEF Distinct
<1>2. Rank(S, p) \in Nat /\ Rank(S, q) \in Nat
  BY RanksRise
<1>3. ~(p.hash < q.hash) /\ ~(q.hash < p.hash)
  BY <1>2, RanksRise
<1> QED BY <1>1, <1>3

(* sortPoints returns every point once, in the order of the hashes. *)
LEMMA SortedPoints ==
  ASSUME NEW S, Distinct(S)
  PROVE  LET pts == SortPoints(S) n == Cardinality(S)
         IN  /\ n \in Nat /\ DOMAIN pts = 1 .. n /\ Len(pts) = n
             /\ \A i \in 1 .. n : pts[i] \in S
             /\ \A p \in S : \E i \in 1 .. n : pts[i] = p
             /\ \A i, j \in 1 .. n : i < j => pts[i].hash < pts[j].hash
<1> DEFINE pts == SortPoints(S)
           n == Cardinality(S)
           f == [p \in S |-> Rank(S, p)]
<1>1. n \in Nat /\ IsFiniteSet(S)
  BY FS_CardinalityType DEF Distinct
<1>2. f \in Injection(S, 0 .. n - 1)
  <2>1. \A p \in S : Rank(S, p) \in 0 .. n - 1
    BY RanksRise
  <2>2. \A p, q \in S : Rank(S, p) = Rank(S, q) => p = q
    BY RanksDiffer
  <2> QED BY <2>1, <2>2 DEF Injection, IsInjective
<1>3. IsFiniteSet(0 .. n - 1) /\ Cardinality(0 .. n - 1) = n
  <2>1. 0 \in Int /\ n - 1 \in Int
    BY <1>1
  <2>2. /\ IsFiniteSet(0 .. n - 1)
        /\ Cardinality(0 .. n - 1) = IF 0 > n - 1 THEN 0 ELSE (n - 1) - 0 + 1
    BY ONLY <2>1, FS_Interval
  <2> HIDE DEF n
  <2> QED BY <1>1, <2>2
<1>4. f \in Surjection(S, 0 .. n - 1)
  BY <1>2, <1>3, FS_Injection
<1>5. \A v \in 0 .. n - 1 : \E p \in S : Rank(S, p) = v
  BY <1>4 DEF Surjection
<1>6. pts = [i \in 1 .. n |-> CHOOSE p \in S : Rank(S, p) = i - 1]
  BY DEF SortPoints, Rank
<1> HIDE DEF n, f, pts
<1>7. ASSUME NEW i \in 1 .. n PROVE pts[i] \in S /\ Rank(S, pts[i]) = i - 1
  <2>1. i - 1 \in 0 .. n - 1
    BY <1>1
  <2>2. \E p \in S : Rank(S, p) = i - 1
    BY <1>5, <2>1
  <2>3. pts[i] = CHOOSE p \in S : Rank(S, p) = i - 1
    BY <1>6
  <2> QED BY <2>2, <2>3
<1>8. ASSUME NEW p \in S PROVE \E i \in 1 .. n : pts[i] = p
  <2>1. Rank(S, p) \in 0 .. n - 1
    BY RanksRise DEF n
  <2>2. Rank(S, p) + 1 \in 1 .. n /\ (Rank(S, p) + 1) - 1 = Rank(S, p)
    BY <1>1, <2>1
  <2>3. Rank(S, pts[Rank(S, p) + 1]) = Rank(S, p) /\ pts[Rank(S, p) + 1] \in S
    BY <1>7, <2>2
  <2>4. pts[Rank(S, p) + 1] = p
    BY <2>3, RanksDiffer
  <2> QED BY <2>2, <2>4
<1>9. ASSUME NEW i \in 1 .. n, NEW j \in 1 .. n, i < j PROVE pts[i].hash < pts[j].hash
  <2>1. /\ pts[i] \in S /\ pts[j] \in S /\ Rank(S, pts[i]) = i - 1 /\ Rank(S, pts[j]) = j - 1
    BY <1>7
  <2>2. pts[i].hash \in Nat /\ pts[j].hash \in Nat
    BY <2>1 DEF Distinct
  <2>3. ~(pts[j].hash < pts[i].hash)
    <3>1. pts[j].hash < pts[i].hash => Rank(S, pts[j]) < Rank(S, pts[i])
      BY <2>1, RanksRise
    <3> QED BY <1>1, <1>9, <2>1, <3>1
  <2>4. pts[i].hash # pts[j].hash
    <3>1. pts[i].hash = pts[j].hash => pts[i] = pts[j]
      BY <2>1 DEF Distinct
    <3> QED BY <1>1, <1>9, <2>1, <3>1
  <2> QED BY <2>2, <2>3, <2>4
<1>10. DOMAIN pts = 1 .. n /\ Len(pts) = n
  BY <1>1, <1>6
<1> QED BY <1>1, <1>7, <1>8, <1>9, <1>10 DEF n, pts

(* The index of the i-th point of a walk of n points that starts at s. *)
AtStep(s, i, n) == ((s + i - 2) % n) + 1

(* Where the walk is before and after it passes the end of the list. *)
LEMMA StepFacts ==
  ASSUME NEW n \in Nat, n > 0, NEW s \in 1 .. n, NEW i \in 1 .. n
  PROVE  /\ AtStep(s, i, n) = IF s + i - 1 <= n THEN s + i - 1 ELSE (s + i - 1) - n
         /\ AtStep(s, i, n) \in 1 .. n
<1> DEFINE x == s + i - 2
<1>1. x \in 0 .. 2 * n - 1
  OBVIOUS
<1>2. x % n = IF x < n THEN x ELSE x - n
  BY <1>1, Wrapped
<1>3. AtStep(s, i, n) = (x % n) + 1
  BY DEF AtStep
<1>4. x = s + i - 2
  OBVIOUS
<1> HIDE DEF x
<1>5. AtStep(s, i, n) = IF x < n THEN x + 1 ELSE (x - n) + 1
  BY <1>2, <1>3
<1>6. CASE x < n
  BY <1>1, <1>4, <1>5, <1>6
<1>7. CASE ~(x < n)
  <2>1. AtStep(s, i, n) = (x - n) + 1 /\ ~(s + i - 1 <= n)
    BY <1>1, <1>4, <1>5, <1>7
  <2> QED BY <1>1, <1>4, <1>7, <2>1
<1> QED BY <1>6, <1>7

(* The walk visits every point. *)
LEMMA StepOnto ==
  ASSUME NEW n \in Nat, n > 0, NEW s \in 1 .. n, NEW k \in 1 .. n
  PROVE  \E i \in 1 .. n : AtStep(s, i, n) = k
<1>1. CASE k >= s
  <2>1. (k - s) + 1 \in 1 .. n /\ s + ((k - s) + 1) - 1 = k
    BY <1>1
  <2>2. AtStep(s, (k - s) + 1, n) = k
    BY <2>1, StepFacts
  <2> QED BY <2>1, <2>2
<1>2. CASE k < s
  <2>1. (k - s) + 1 + n \in 1 .. n /\ (s + ((k - s) + 1 + n) - 1) - n = k
    BY <1>2
  <2>2. ~(s + ((k - s) + 1 + n) - 1 <= n)
    BY <2>1
  <2>3. AtStep(s, (k - s) + 1 + n, n) = k
    BY <2>1, <2>2, StepFacts
  <2> QED BY <2>1, <2>3
<1> QED BY <1>1, <1>2

(* Where search starts the walk for a hash h on the sorted list p: behind it are
   the points before h, and ahead either the points from h on or none. *)
Starts(p, n, h, s) ==
    /\ \A i \in 1 .. n : i < s => p[i].hash < h
    /\ \/ \A i \in 1 .. n : i >= s => p[i].hash >= h
       \/ s = 1 /\ \A i \in 1 .. n : p[i].hash < h

(* The walk meets the points in the order of their clockwise distance. *)
LEMMA WalkRises ==
  ASSUME NEW p, NEW n \in Nat, n > 0, NEW h \in 0 .. HashSpace - 1, NEW s \in 1 .. n,
         \A k \in 1 .. n : p[k].hash \in 0 .. HashSpace - 1,
         \A k, l \in 1 .. n : k < l => p[k].hash < p[l].hash,
         Starts(p, n, h, s),
         NEW i \in 1 .. n, NEW j \in 1 .. n, i <= j
  PROVE  Distance(h, p[AtStep(s, i, n)].hash) <= Distance(h, p[AtStep(s, j, n)].hash)
<1> DEFINE k == AtStep(s, i, n)
           l == AtStep(s, j, n)
           a == p[k].hash
           b == p[l].hash
<1>1. /\ k = IF s + i - 1 <= n THEN s + i - 1 ELSE (s + i - 1) - n
      /\ l = IF s + j - 1 <= n THEN s + j - 1 ELSE (s + j - 1) - n
      /\ k \in 1 .. n /\ l \in 1 .. n
  BY StepFacts
<1>2. /\ a \in 0 .. HashSpace - 1 /\ b \in 0 .. HashSpace - 1 /\ HashSpace \in Nat
      /\ k < l => a < b
      /\ k = l => a = b
  BY <1>1, HashAssumption
<1> HIDE DEF k, l
<1>3. \/ k <= l /\ (k >= s <=> l >= s)
      \/ k >= s /\ l < s
  BY <1>1
<1>4. /\ k < s => a < h
      /\ l < s => b < h
      /\ \/ (k >= s => a >= h) /\ (l >= s => b >= h)
         \/ s = 1 /\ a < h /\ b < h
  BY <1>1 DEF Starts
<1> HIDE DEF a, b
<1>5. (a <= b /\ (a >= h <=> b >= h)) \/ (a >= h /\ b < h)
  <2>1. CASE k <= l /\ (k >= s <=> l >= s)
    <3>1. a <= b
      BY <1>1, <1>2, <2>1
    <3> QED BY <1>1, <1>2, <1>4, <2>1, <3>1
  <2>2. CASE k >= s /\ l < s
    BY <1>1, <1>2, <1>4, <2>2
  <2> QED BY <1>3, <2>1, <2>2
<1>6. Distance(h, a) <= Distance(h, b)
  BY <1>2, <1>5 DEF Distance
<1> QED BY <1>6 DEF a, b, k, l

-----------------------------------------------------------------------------
(* The fleet's ring. *)

Nodes(S) == UNION {VirtualNodes(r) : r \in S}

(* The virtual nodes of some replicas: whose they are, and that no two share a
   hash. *)
LEMMA NodesDistinct ==
  ASSUME NEW S \in SUBSET Replicas
  PROVE  /\ Distinct(Nodes(S))
         /\ \A p \in Nodes(S) : /\ p.replica \in S /\ p.hash \in PointHash[p.replica]
                                /\ p.hash \in 0 .. HashSpace - 1
         /\ \A r \in S : \A h \in PointHash[r] : [hash |-> h, replica |-> r] \in Nodes(S)
<1>1. ASSUME NEW p \in Nodes(S)
      PROVE  /\ p.replica \in S /\ p.hash \in PointHash[p.replica]
             /\ p.hash \in 0 .. HashSpace - 1
             /\ p = [hash |-> p.hash, replica |-> p.replica]
  <2>1. PICK r \in S : p \in VirtualNodes(r)
    BY DEF Nodes
  <2>2. PICK h \in PointHash[r] : p = [hash |-> h, replica |-> r]
    BY <2>1 DEF VirtualNodes
  <2> QED BY <2>2, HashAssumption
<1>2. IsFiniteSet(Nodes(S))
  <2>1. Nodes(S) \subseteq UNION {VirtualNodes(r) : r \in Replicas}
    BY DEF Nodes
  <2> QED BY <2>1, AllNodesFinite, FS_Subset
<1>3. \A p, q \in Nodes(S) : p.hash = q.hash => p = q
  <2> SUFFICES ASSUME NEW p \in Nodes(S), NEW q \in Nodes(S), p.hash = q.hash PROVE p = q
    OBVIOUS
  <2>1. p.replica = q.replica
    BY <1>1, HashAssumption
  <2> QED BY <1>1, <2>1
<1>4. \A p \in Nodes(S) : p.hash \in Nat
  BY <1>1, HashAssumption
<1>5. ASSUME NEW r \in S, NEW h \in PointHash[r]
      PROVE  [hash |-> h, replica |-> r] \in Nodes(S)
  BY DEF Nodes, VirtualNodes
<1> QED BY <1>1, <1>2, <1>3, <1>4, <1>5 DEF Distinct

(* What the ring is: the virtual nodes of its replicas, sorted. *)
RingHeld ==
    /\ replicas \subseteq Replicas /\ ready \subseteq replicas
    /\ points = SortPoints(Nodes(replicas))

LEMMA RingPoints ==
  ASSUME RingHeld
  PROVE  /\ PointSet = Nodes(replicas)
         /\ Cardinality(Nodes(replicas)) \in Nat
         /\ DOMAIN points = 1 .. Cardinality(Nodes(replicas))
         /\ Len(points) = Cardinality(Nodes(replicas))
         /\ \A i \in DOMAIN points : points[i] \in Nodes(replicas)
         /\ \A p \in Nodes(replicas) : \E i \in DOMAIN points : points[i] = p
         /\ \A i, j \in DOMAIN points : i < j => points[i].hash < points[j].hash
<1> DEFINE S == Nodes(replicas)
           n == Cardinality(S)
<1>1. Distinct(S) /\ points = SortPoints(S)
  BY NodesDistinct DEF RingHeld
<1> HIDE DEF S
<1>2. /\ n \in Nat /\ DOMAIN points = 1 .. n /\ Len(points) = n
      /\ \A i \in 1 .. n : points[i] \in S
      /\ \A p \in S : \E i \in 1 .. n : points[i] = p
      /\ \A i, j \in 1 .. n : i < j => points[i].hash < points[j].hash
  BY <1>1, SortedPoints
<1>3. \A p : p \in PointSet <=> p \in S
  BY <1>2 DEF PointSet
<1> QED BY <1>2, <1>3 DEF S

(* search finds where the walk starts. *)
LEMMA SearchStarts ==
  ASSUME RingHeld, points # <<>>, NEW h \in 0 .. HashSpace - 1
  PROVE  /\ Len(points) > 0 /\ Search(h) \in 1 .. Len(points)
         /\ Starts(points, Len(points), h, Search(h))
<1> DEFINE n == Len(points)
           after == {i \in DOMAIN points : points[i].hash >= h}
           s == Search(h)
<1>1. /\ n \in Nat /\ DOMAIN points = 1 .. n
      /\ \A i, j \in 1 .. n : i < j => points[i].hash < points[j].hash
  BY RingPoints
<1>2. \A i \in 1 .. n : points[i].hash \in Nat
  BY RingPoints, NodesDistinct, HashAssumption DEF RingHeld
<1>3. n > 0
  <2>1. points = [i \in 1 .. Cardinality(Nodes(replicas)) |-> points[i]]
    BY RingPoints DEF RingHeld, SortPoints
  <2>2. n = 0 => points = <<>>
    BY <2>1, RingPoints
  <2> QED BY <1>1, <2>2
<1>4. CASE after = {}
  <2>1. s = 1
    BY <1>4 DEF Search
  <2>2. \A i \in 1 .. n : points[i].hash < h
    BY <1>1, <1>2, <1>4
  <2> HIDE DEF n, s
  <2>3. Starts(points, n, h, s)
    BY <2>1, <2>2 DEF Starts
  <2> QED BY <1>1, <1>3, <2>1, <2>3 DEF n, s
<1>5. CASE after # {}
  <2>1. s = Min(after) /\ after \in SUBSET Nat
    BY <1>1, <1>5 DEF Search
  <2>2. s \in after /\ \A i \in after : s <= i
    BY <1>5, <2>1, MinOfNats
  <2>3. ASSUME NEW i \in 1 .. n, i < s PROVE points[i].hash < h
    BY <1>1, <1>2, <2>2, <2>3
  <2>4. ASSUME NEW i \in 1 .. n, i >= s PROVE points[i].hash >= h
    <3>1. s \in 1 .. n /\ points[s].hash >= h /\ points[s].hash \in Nat
      BY <1>1, <1>2, <2>2
    <3>2. points[i].hash \in Nat /\ (i = s \/ points[s].hash < points[i].hash)
      BY <1>1, <1>2, <2>4, <3>1
    <3> QED BY <3>1, <3>2
  <2>5. s \in 1 .. n
    BY <1>1, <2>2
  <2> HIDE DEF n, s, after
  <2>6. Starts(points, n, h, s)
    BY <2>3, <2>4 DEF Starts
  <2> QED BY <1>3, <2>5, <2>6 DEF n, s
<1> QED BY <1>4, <1>5

(* The first ready replica of the walk has a point no farther from the key than
   any point of a ready replica. *)
LEMMA NearestOwns ==
  ASSUME RingHeld, ready # {}, NEW h \in 0 .. HashSpace - 1
  PROVE  /\ Owner(h) \in ready
         /\ \A r \in ready : \A p \in PointHash[r] :
               \E o \in PointHash[Owner(h)] : Distance(h, o) <= Distance(h, p)
<1> DEFINE n == Len(points)
           s == Search(h)
           hits == {i \in DOMAIN points : Clockwise(h, i) \in ready}
<1>1. /\ n \in Nat /\ DOMAIN points = 1 .. n
      /\ \A i \in 1 .. n : points[i] \in Nodes(replicas)
      /\ \A p \in Nodes(replicas) : \E i \in 1 .. n : points[i] = p
      /\ \A i, j \in 1 .. n : i < j => points[i].hash < points[j].hash
  BY RingPoints
<1>2. replicas \in SUBSET Replicas /\ ready \subseteq replicas
  BY DEF RingHeld
<1>3. ASSUME NEW r \in ready, NEW p \in PointHash[r]
      PROVE  \E i \in 1 .. n : points[i] = [hash |-> p, replica |-> r]
  BY <1>1, <1>2, NodesDistinct
<1>4. \A i \in 1 .. n : /\ points[i].hash \in PointHash[points[i].replica]
                        /\ points[i].hash \in 0 .. HashSpace - 1
  BY <1>1, <1>2, NodesDistinct
<1>5. points # <<>>
  <2>1. PICK r \in ready : TRUE
    OBVIOUS
  <2>2. PICK p \in PointHash[r] : TRUE
    BY <1>2, HashAssumption
  <2>3. \E i \in DOMAIN points : TRUE
    BY <1>1, <1>3
  <2> QED BY <2>3
<1>6. n > 0 /\ s \in 1 .. n /\ Starts(points, n, h, s)
  BY <1>5, SearchStarts
<1>7. \A i \in 1 .. n : Clockwise(h, i) = points[AtStep(s, i, n)].replica
  BY DEF Clockwise, AtStep
<1>8. hits = {i \in 1 .. n : points[AtStep(s, i, n)].replica \in ready}
  BY <1>1, <1>7
<1>9. Owner(h) = IF hits = {} THEN None ELSE Clockwise(h, Min(hits))
  BY <1>5 DEF Owner, FirstIn
<1> HIDE DEF n, s, hits
<1>10. ASSUME NEW r \in ready, NEW p \in PointHash[r]
       PROVE  \E i \in hits : points[AtStep(s, i, n)] = [hash |-> p, replica |-> r]
  <2>1. PICK k \in 1 .. n : points[k] = [hash |-> p, replica |-> r]
    BY <1>3, <1>10
  <2>2. PICK i \in 1 .. n : AtStep(s, i, n) = k
    BY <1>1, <1>6, StepOnto
  <2> QED BY <1>8, <2>1, <2>2
<1>11. hits # {} /\ hits \in SUBSET Nat
  <2>1. PICK r \in ready : TRUE
    OBVIOUS
  <2>2. PICK p \in PointHash[r] : TRUE
    BY <1>2, HashAssumption
  <2>3. \E i \in hits : TRUE
    BY <1>10
  <2>4. \A i \in hits : i \in Nat
    BY <1>1, <1>8
  <2> QED BY <2>3, <2>4
<1> DEFINE m == Min(hits)
<1>12. m \in hits /\ \A i \in hits : m <= i
  BY <1>11, MinOfNats
<1> HIDE DEF m
<1>13. /\ Owner(h) = points[AtStep(s, m, n)].replica
       /\ Owner(h) \in ready /\ m \in 1 .. n
  BY <1>7, <1>8, <1>9, <1>11, <1>12 DEF m
<1>14. points[AtStep(s, m, n)].hash \in PointHash[Owner(h)]
  BY <1>1, <1>4, <1>6, <1>13, StepFacts
<1>15. ASSUME NEW r \in ready, NEW p \in PointHash[r]
       PROVE  Distance(h, points[AtStep(s, m, n)].hash) <= Distance(h, p)
  <2>1. PICK i \in hits : points[AtStep(s, i, n)] = [hash |-> p, replica |-> r]
    BY <1>10, <1>15
  <2>2. i \in 1 .. n /\ m <= i /\ points[AtStep(s, i, n)].hash = p
    BY <1>8, <1>12, <2>1
  <2>3. Distance(h, points[AtStep(s, m, n)].hash) <= Distance(h, points[AtStep(s, i, n)].hash)
    BY <1>1, <1>4, <1>6, <1>13, <2>2, WalkRises
  <2> QED BY <2>2, <2>3
<1> QED BY <1>13, <1>14, <1>15

(* The fleet: the ring follows its replicas, the snapshots name replicas, and a
   replica the reconciler is about to remove that is ready has become so since it
   looked. *)
FleetTypes ==
    /\ members \subseteq Replicas /\ wanted \subseteq Replicas
    /\ out \in Seq(SUBSET Replicas)
    /\ misses \in [Replicas -> Nat]

LateOnes == doomed \cap ready \subseteq late

FleetInv == RingHeld /\ FleetTypes /\ LateOnes

LEMMA FleetStarts == FleetInit => FleetInv
<1> SUFFICES ASSUME FleetInit PROVE FleetInv
  OBVIOUS
<1>1. StartUp \subseteq Replicas
  BY StartUpAssumption, FleetAssumption
<1>2. RingHeld
  BY <1>1 DEF FleetInit, RingInit, RingHeld, Nodes
<1>3. FleetTypes
  <2>1. out \in Seq(SUBSET Replicas)
    BY DEF FleetInit
  <2> QED BY <1>1, <2>1 DEF FleetInit, FleetTypes
<1>4. LateOnes
  BY DEF FleetInit, LateOnes
<1> QED BY <1>2, <1>3, <1>4 DEF FleetInv

(* What a step may do to the ring. *)
LEMMA RingSteps ==
  ASSUME FleetInv, [FleetNext]_fleetVars
  PROVE  \/ UNCHANGED ringVars
         \/ \E r \in doomed : Remove(r) /\ doomed' = doomed \ {r} /\ late' = late \ {r}
         \/ doomed = {} /\ doomed' = {} /\ \E r \in Replicas : Add(r)
         \/ \E r \in Replicas :
               /\ SetReady(r, TRUE) \/ (SetReady(r, FALSE) /\ misses'[r] >= FailuresToUnready)
               /\ late' = IF r \in doomed /\ r \in ready' THEN late \cup {r} ELSE late
               /\ UNCHANGED doomed
<1>1. CASE UNCHANGED fleetVars
  BY <1>1 DEF fleetVars
<1>2. CASE Consume \/ Send \/ Resume \/ ApplyLook \/ ReapLook \/ SyncWith \/ WatchEnds \/ Etcd
  BY <1>2 DEF Consume, Send, Resume, ApplyLook, ReapLook, SyncWith, WatchEnds, Etcd
<1>3. CASE ApplyRemove
  BY <1>3 DEF ApplyRemove
<1>4. CASE ApplyAdd
  <2>1. PICK r \in wanted \ replicas : Add(r)
    BY <1>4 DEF ApplyAdd
  <2>2. r \in Replicas
    BY <2>1 DEF FleetInv, FleetTypes
  <2>3. doomed = {} /\ doomed' = {}
    BY <1>4 DEF ApplyAdd, recVars
  <2> QED BY <2>1, <2>2, <2>3
<1>5. ASSUME NEW r \in Replicas, CheckSend(r) \/ CheckLost(r) \/ Replica(r)
      PROVE  UNCHANGED ringVars
  BY <1>5 DEF CheckSend, CheckLost, Replica
<1>6. ASSUME NEW r \in Replicas, CheckApply(r)
      PROVE  \/ UNCHANGED ringVars
             \/ /\ SetReady(r, TRUE) \/ (SetReady(r, FALSE) /\ misses'[r] >= FailuresToUnready)
                /\ late' = IF r \in doomed /\ r \in ready' THEN late \cup {r} ELSE late
                /\ UNCHANGED doomed
  <2> DEFINE missed == IF misses[r] < FailuresToUnready THEN misses[r] + 1 ELSE misses[r]
  <2>1. /\ misses' = [misses EXCEPT ![r] = IF probe[r] = "ok" THEN 0 ELSE missed]
        /\ IF probe[r] = "ok" THEN SetReady(r, TRUE)
           ELSE IF missed >= FailuresToUnready THEN SetReady(r, FALSE)
           ELSE UNCHANGED ringVars
        /\ late' = IF r \in doomed /\ r \in ready' THEN late \cup {r} ELSE late
        /\ UNCHANGED doomed
    BY <1>6 DEF CheckApply, recVars
  <2>2. misses'[r] = IF probe[r] = "ok" THEN 0 ELSE missed
    BY <2>1 DEF FleetInv, FleetTypes
  <2> HIDE DEF missed
  <2>3. CASE probe[r] = "ok"
    BY <2>1, <2>3
  <2>4. CASE probe[r] # "ok" /\ missed >= FailuresToUnready
    BY <2>1, <2>2, <2>4
  <2>5. CASE probe[r] # "ok" /\ ~(missed >= FailuresToUnready)
    BY <2>1, <2>5
  <2> QED BY <2>3, <2>4, <2>5
<1> QED BY <1>1, <1>2, <1>3, <1>4, <1>5, <1>6 DEF FleetNext

(* The ring follows every step. *)
LEMMA RingHeldNext ==
  ASSUME FleetInv, [FleetNext]_fleetVars
  PROVE  RingHeld'
<1>1. RingHeld /\ PointSet = Nodes(replicas)
  BY RingPoints DEF FleetInv
<1>2. CASE UNCHANGED ringVars
  BY <1>1, <1>2 DEF RingHeld, ringVars
<1>3. ASSUME NEW r \in doomed, Remove(r) PROVE RingHeld'
  <2>1. ASSUME NEW p
        PROVE  p \in {o \in PointSet : o.replica # r} <=> p \in Nodes(replicas \ {r})
    <3>1. ASSUME p \in PointSet, p.replica # r PROVE p \in Nodes(replicas \ {r})
      BY <1>1, <3>1 DEF Nodes, VirtualNodes
    <3>2. ASSUME p \in Nodes(replicas \ {r}) PROVE p \in PointSet /\ p.replica # r
      BY <1>1, <3>2 DEF Nodes, VirtualNodes
    <3> QED BY <3>1, <3>2
  <2>2. {o \in PointSet : o.replica # r} = Nodes(replicas \ {r})
    BY <2>1
  <2>3. /\ replicas' = replicas \ {r} /\ ready' = ready \ {r}
        /\ points' = SortPoints(Nodes(replicas \ {r}))
    BY <1>3, <2>2 DEF Remove
  <2> QED BY <1>1, <2>3 DEF RingHeld
<1>4. ASSUME NEW r \in Replicas, Add(r) PROVE RingHeld'
  <2>1. ASSUME NEW p
        PROVE  p \in PointSet \cup VirtualNodes(r) <=> p \in Nodes(replicas \cup {r})
    BY <1>1 DEF Nodes
  <2>2. PointSet \cup VirtualNodes(r) = Nodes(replicas \cup {r})
    BY <2>1
  <2>3. /\ replicas' = replicas \cup {r} /\ ready' = ready \ {r}
        /\ points' = SortPoints(Nodes(replicas \cup {r}))
    BY <1>4, <2>2 DEF Add
  <2> QED BY <1>1, <2>3 DEF RingHeld
<1>5. ASSUME NEW r \in Replicas, NEW b, SetReady(r, b) PROVE RingHeld'
  <2>1. /\ replicas' = replicas /\ points' = points
        /\ (ready' = ready \cup {r} /\ r \in replicas) \/ ready' = ready \ {r}
    BY <1>5 DEF SetReady
  <2> QED BY <1>1, <2>1 DEF RingHeld
<1> QED BY <1>2, <1>3, <1>4, <1>5, RingSteps

LEMMA FleetTypesNext ==
  ASSUME FleetInv, [FleetNext]_fleetVars
  PROVE  FleetTypes'
<1>1. FleetTypes
  BY DEF FleetInv
<1>2. CASE UNCHANGED fleetVars
  BY <1>1, <1>2 DEF fleetVars, watchVars, recVars, checkVars, FleetTypes
<1>3. CASE Consume
  <2>1. members' \subseteq Replicas
    BY <1>3 DEF Consume, Replayed
  <2> QED BY <1>1, <1>3, <2>1 DEF Consume, recVars, checkVars, FleetTypes
<1>4. CASE Send
  <2>1. out' = out \/ out' = Append(out, members) \/ (out # <<>> /\ out' = Tail(out))
    BY <1>4 DEF Send
  <2>2. out \in Seq(SUBSET Replicas) /\ members \in SUBSET Replicas
    BY <1>1 DEF FleetTypes
  <2>3. Append(out, members) \in Seq(SUBSET Replicas)
    BY <2>2, AppendProperties
  <2>4. out # <<>> => Tail(out) \in Seq(SUBSET Replicas)
    BY <2>2, HeadTailProperties
  <2>5. out' \in Seq(SUBSET Replicas)
    BY <2>1, <2>2, <2>3, <2>4
  <2> QED BY <1>1, <1>4, <2>5 DEF Send, recVars, checkVars, FleetTypes
<1>5. CASE Resume
  <2>1. members' \subseteq Replicas
    BY <1>1, <1>5, FleetAssumption DEF Resume, Snapshot, Registered, FleetTypes
  <2> QED BY <1>1, <1>5, <2>1 DEF Resume, recVars, checkVars, FleetTypes
<1>6. CASE ApplyLook
  <2>1. out # <<>> /\ out' = Tail(out) /\ wanted' = Head(out)
    BY <1>6 DEF ApplyLook
  <2>2. out' \in Seq(SUBSET Replicas) /\ wanted' \subseteq Replicas
    BY <1>1, <2>1 DEF FleetTypes
  <2> QED BY <1>1, <1>6, <2>2 DEF ApplyLook, watchVars, checkVars, FleetTypes
<1>7. CASE ReapLook \/ ApplyRemove \/ ApplyAdd \/ SyncWith \/ WatchEnds \/ Etcd
  BY <1>1, <1>7 DEF ReapLook, ApplyRemove, ApplyAdd, SyncWith, WatchEnds, Etcd,
                    watchVars, recVars, checkVars, FleetTypes
<1>8. ASSUME NEW r \in Replicas, CheckSend(r) \/ CheckLost(r) \/ Replica(r)
      PROVE  FleetTypes'
  BY <1>1, <1>8 DEF CheckSend, CheckLost, Replica, watchVars, recVars, checkVars, FleetTypes
<1>9. ASSUME NEW r \in Replicas, CheckApply(r)
      PROVE  FleetTypes'
  <2> DEFINE count == IF probe[r] = "ok" THEN 0
                      ELSE IF misses[r] < FailuresToUnready THEN misses[r] + 1 ELSE misses[r]
  <2>1. misses' = [misses EXCEPT ![r] = count]
    BY <1>9 DEF CheckApply
  <2>2. count \in Nat
    BY <1>1 DEF FleetTypes
  <2> HIDE DEF count
  <2>3. misses' \in [Replicas -> Nat]
    BY <1>1, <2>1, <2>2 DEF FleetTypes
  <2> QED BY <1>1, <1>9, <2>3 DEF CheckApply, watchVars, recVars, FleetTypes
<1> QED BY <1>2, <1>3, <1>4, <1>5, <1>6, <1>7, <1>8, <1>9 DEF FleetNext

LEMMA LateOnesNext ==
  ASSUME FleetInv, [FleetNext]_fleetVars
  PROVE  LateOnes'
<1>1. LateOnes
  BY DEF FleetInv
<1>2. CASE ApplyLook
  BY <1>2 DEF ApplyLook, Doomed, ringVars, LateOnes
<1>3. CASE ReapLook
  BY <1>3 DEF ReapLook, ringVars, LateOnes
<1>4. CASE UNCHANGED <<ringVars, doomed, late>>
  BY <1>1, <1>4 DEF ringVars, LateOnes
<1>5. ASSUME NEW r \in doomed, Remove(r), doomed' = doomed \ {r}, late' = late \ {r}
      PROVE  LateOnes'
  BY <1>1, <1>5 DEF Remove, LateOnes
<1>6. CASE doomed' = {}
  BY <1>6 DEF LateOnes
<1>7. ASSUME NEW r \in Replicas, CheckApply(r) PROVE LateOnes'
  <2>1. /\ late' = IF r \in doomed /\ r \in ready' THEN late \cup {r} ELSE late
        /\ doomed' = doomed
    BY <1>7 DEF CheckApply, recVars
  <2>2. \A x \in ready' : x \in ready \/ x = r
    BY <1>7 DEF CheckApply, SetReady, ringVars
  <2> QED BY <1>1, <2>1, <2>2 DEF LateOnes
<1>8. CASE UNCHANGED fleetVars
  BY <1>4, <1>8 DEF fleetVars, recVars, checkVars
<1>9. CASE Consume \/ Send \/ Resume \/ SyncWith \/ WatchEnds \/ Etcd
  <2>1. UNCHANGED <<ringVars, doomed, late>>
    BY <1>9 DEF Consume, Send, Resume, SyncWith, WatchEnds, Etcd, recVars, checkVars
  <2> QED BY <1>4, <2>1
<1>10. ASSUME NEW r \in Replicas, CheckSend(r) \/ CheckLost(r) \/ Replica(r) PROVE LateOnes'
  <2>1. UNCHANGED <<ringVars, doomed, late>>
    BY <1>10 DEF CheckSend, CheckLost, Replica, recVars, checkVars
  <2> QED BY <1>4, <2>1
<1>11. CASE ApplyRemove
  BY <1>5, <1>11 DEF ApplyRemove
<1>12. CASE ApplyAdd
  BY <1>6, <1>12 DEF ApplyAdd, recVars
<1> QED BY <1>2, <1>3, <1>7, <1>8, <1>9, <1>10, <1>11, <1>12 DEF FleetNext

LEMMA FleetInvariance == FleetSpec => []FleetInv
<1>1. FleetInv /\ [FleetNext]_fleetVars => FleetInv'
  BY RingHeldNext, FleetTypesNext, LateOnesNext DEF FleetInv
<1> QED BY <1>1, FleetStarts, PTL DEF FleetSpec

(* The keys of a replica are those nearest to its points: whatever replicas join
   and leave, however the snapshots and the probes interleave, a key is placed on
   the ready replica with the closest point clockwise (sortPoints, search and the
   walk of src/router/ring.go). *)
THEOREM NearestReplicaOwns == FleetSpec => []OwnerIsNearest
<1>1. FleetInv => OwnerIsNearest
  <2> SUFFICES ASSUME FleetInv, ready # {}, NEW h \in Keys
               PROVE  /\ Owner(h) \in ready
                      /\ \A r \in ready : \A p \in PointHash[r] :
                            \E o \in PointHash[Owner(h)] : Distance(h, o) <= Distance(h, p)
    BY DEF OwnerIsNearest
  <2>1. h \in 0 .. HashSpace - 1 /\ RingHeld
    BY FleetAssumption DEF FleetInv
  <2> QED BY <2>1, NearestOwns
<1> QED BY <1>1, FleetInvariance, PTL

(* A replica leaves the rotation for failing failuresToUnready checks in a row,
   or because it became ready between the reconciler's look and its Remove, and
   never on the registry's word alone (apply and reap of src/router/registry.go). *)
THEOREM AnsweringReplicasStay == FleetSpec => RetainsAnswering
<1> DEFINE Kept == \A r \in ready \ ready' : misses'[r] >= FailuresToUnready \/ r \in late
<1>1. FleetInv /\ [FleetNext]_fleetVars => [Kept]_fleetVars
  <2> SUFFICES ASSUME FleetInv, [FleetNext]_fleetVars, NEW r \in ready \ ready'
               PROVE  misses'[r] >= FailuresToUnready \/ r \in late
    OBVIOUS
  <2>1. RingHeld /\ LateOnes
    BY DEF FleetInv
  <2>2. CASE UNCHANGED ringVars
    BY <2>2 DEF ringVars
  <2>3. ASSUME NEW d \in doomed, Remove(d) PROVE r \in late
    BY <2>1, <2>3 DEF Remove, LateOnes
  <2>4. ASSUME NEW a \in Replicas, Add(a) PROVE FALSE
    BY <2>1, <2>4 DEF Add, RingHeld
  <2>5. ASSUME NEW c \in Replicas, SetReady(c, TRUE) PROVE FALSE
    BY <2>1, <2>5 DEF SetReady, RingHeld
  <2>6. ASSUME NEW c \in Replicas, SetReady(c, FALSE), misses'[c] >= FailuresToUnready
        PROVE  misses'[r] >= FailuresToUnready
    BY <2>6 DEF SetReady
  <2> QED BY <2>2, <2>3, <2>4, <2>5, <2>6, RingSteps
<1> QED BY <1>1, FleetInvariance, PTL DEF FleetSpec, RetainsAnswering

=============================================================================
