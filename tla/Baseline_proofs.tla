--------------------------- MODULE Baseline_proofs ---------------------------
(***************************************************************************)
(* For every set of requests, slot count, slot length and depth: the       *)
(* baseline engine gives every slot back, and attention reads nothing but  *)
(* the request's own tokens from a slot that is reused without clearing.   *)
(***************************************************************************)
EXTENDS Baseline, SequenceTheorems, FiniteSetTheorems, TLAPS

Positions == 1 .. MaxSeqLen
Total(r) == PromptLen[r] + output[r]

QueueTypes ==
    /\ waiting \in Seq(Reqs) /\ finished \subseteq Reqs /\ lost \subseteq Reqs
    /\ cur \in Reqs \cup {NoReq} /\ output \in [Reqs -> Nat]

PoolTypes ==
    /\ free \in Seq(Slots) /\ live \in [Slots -> Reqs \cup {NoReq}]
    /\ expected \in [Slots -> Nat] /\ slot \in Slots \cup {0}

CacheTypes ==
    /\ pos \in [Reqs -> Nat] /\ start \in [Reqs -> Nat]
    /\ slab \in [Layers -> [Slots -> [Positions -> (Reqs \cup {NoReq}) \X Int]]]
    /\ layer \in Nat /\ n \in Nat

StepTypes ==
    /\ pc \in {"idle", "prefill", "decode", "sample"}
    /\ pc = "idle" => cur = NoReq
    /\ pc # "idle" => cur \in Reqs /\ slot \in Slots
    /\ Passing => layer \in Layers

(* A request is in one place: queued once, being served, or done with. *)
OnceEach ==
    /\ \A i, j \in DOMAIN waiting : waiting[i] = waiting[j] => i = j
    /\ \A i \in DOMAIN waiting : waiting[i] \notin finished \cup lost \cup {cur}
    /\ cur \notin finished \cup lost

(* A request that no step() has touched has an empty cache. *)
Untouched ==
    \A r \in Reqs : r \notin finished \cup lost \cup {cur} => pos[r] = 0 /\ output[r] = 0

(* Every slot is on the free list once, or live; a live slot is the one being
   served or was left behind by a prefill that could not fit. *)
SlotsExact ==
    /\ \A i, j \in DOMAIN free : free[i] = free[j] => i = j
    /\ \A s \in Slots : live[s] = NoReq <=> \E i \in DOMAIN free : free[i] = s
    /\ \A s \in Slots : live[s] # NoReq =>
          \/ pc # "idle" /\ s = slot
          \/ live[s] \in lost \cap TooLong
    /\ pc # "idle" => live[slot] = cur

(* Layer l of the slot holds the request's first k tokens in order. *)
HoldsPrefix(l, k) == \A p \in 1 .. k : slab[l][slot][p] = <<cur, p>>

(* Where a pass is: the layers it has written hold the new tokens too, the
   others what they held before, and the position moved with the first. *)
PassExact ==
    /\ pc = "prefill" => n = PromptLen[cur] /\ output[cur] = 0
    /\ pc = "decode" => n = 1 /\ output[cur] > 0
    /\ Passing /\ layer = 1 =>
          /\ pos[cur] = Total(cur) - n /\ pos[cur] <= MaxSeqLen
          /\ \A l \in Layers : HoldsPrefix(l, pos[cur])
    /\ Passing /\ layer # 1 =>
          /\ pos[cur] = Total(cur) /\ start[cur] = Total(cur) - n
          /\ pos[cur] <= MaxSeqLen
          /\ \A l \in Layers : HoldsPrefix(l, IF l < layer THEN pos[cur] ELSE start[cur])
    /\ pc = "sample" =>
          /\ pos[cur] = Total(cur) /\ pos[cur] <= MaxSeqLen
          /\ \A l \in Layers : HoldsPrefix(l, pos[cur])

Inv ==
    /\ QueueTypes /\ PoolTypes /\ CacheTypes /\ StepTypes
    /\ OnceEach /\ Untouched /\ SlotsExact /\ PassExact

-----------------------------------------------------------------------------
(* Lists. *)

(* A list with an element added at its end. *)
LEMMA AppendFacts ==
  ASSUME NEW S, NEW s \in Seq(S), NEW x \in S
  PROVE  /\ Append(s, x) \in Seq(S) /\ Len(s) \in Nat
         /\ DOMAIN s = 1 .. Len(s) /\ DOMAIN Append(s, x) = 1 .. Len(s) + 1
         /\ \A i \in 1 .. Len(s) : Append(s, x)[i] = s[i]
         /\ Append(s, x)[Len(s) + 1] = x
BY AppendProperties

(* A list without its last element, which is what the list lost. *)
LEMMA FrontFacts ==
  ASSUME NEW S, NEW s \in Seq(S), s # <<>>
  PROVE  /\ Front(s) \in Seq(S) /\ Len(s) \in Nat \ {0}
         /\ DOMAIN s = 1 .. Len(s) /\ DOMAIN Front(s) = 1 .. Len(s) - 1
         /\ \A i \in 1 .. Len(s) - 1 : Front(s)[i] = s[i]
         /\ Last(s) = s[Len(s)] /\ Last(s) \in S
<1>1. Len(s) \in Nat /\ Len(s) # 0 /\ DOMAIN s = 1 .. Len(s)
  BY EmptySeq, LenProperties
<1>2. \A i \in 1 .. Len(s) : s[i] \in S
  BY <1>1, ElementOfSeq
<1>3. Last(s) = s[Len(s)] /\ Last(s) \in S
  BY <1>1, <1>2 DEF Last
<1> DEFINE t == SubSeq(s, 1, Len(s) - 1)
<1>4. \A i \in 1 .. Len(s) - 1 : s[i] \in S
  BY <1>1, <1>2
<1>5. /\ t \in Seq(S)
      /\ Len(t) = IF 1 <= Len(s) - 1 THEN Len(s) - 1 - 1 + 1 ELSE 0
      /\ \A i \in 1 .. Len(s) - 1 - 1 + 1 : t[i] = s[1 + i - 1]
  BY <1>1, <1>4, SubSeqProperties
<1>6. Len(t) = Len(s) - 1 /\ \A i \in 1 .. Len(s) - 1 : t[i] = s[i]
  BY <1>1, <1>5
<1>7. DOMAIN t = 1 .. Len(t) /\ Front(s) = t
  BY <1>5, LenProperties DEF Front
<1> QED BY <1>1, <1>3, <1>5, <1>6, <1>7

(* A list without its first element, which is what the list lost. *)
LEMMA TailFacts ==
  ASSUME NEW S, NEW s \in Seq(S), s # <<>>
  PROVE  /\ Tail(s) \in Seq(S) /\ Len(s) \in Nat \ {0}
         /\ DOMAIN s = 1 .. Len(s) /\ DOMAIN Tail(s) = 1 .. Len(s) - 1
         /\ \A i \in 1 .. Len(s) - 1 : Tail(s)[i] = s[i + 1]
         /\ Head(s) = s[1] /\ Head(s) \in S
<1>1. Len(s) \in Nat /\ Len(s) # 0 /\ DOMAIN s = 1 .. Len(s)
  BY EmptySeq, LenProperties
<1>2. Tail(s) \in Seq(S) /\ Len(Tail(s)) = Len(s) - 1 /\ Head(s) \in S
  BY HeadTailProperties
<1>3. DOMAIN Tail(s) = 1 .. Len(s) - 1
  BY <1>2, LenProperties
<1>4. \A i \in 1 .. Len(s) - 1 : Tail(s)[i] = s[i + 1]
  BY <1>1, <1>2, HeadTailProperties
<1> QED BY <1>1, <1>2, <1>3, <1>4

-----------------------------------------------------------------------------
(* The invariant. *)

(* The constants, and that no request is the absent one. *)
LEMMA Constants ==
  /\ \A r \in Reqs : PromptLen[r] \in Nat \ {0} /\ MaxNew[r] \in Nat \ {0}
  /\ NumSlots \in Nat \ {0} /\ MaxSeqLen \in Nat \ {0} /\ NumLayers \in Nat \ {0}
  /\ NoReq \notin Reqs
BY BaselineAssumption

LEMMA InitInv == Init => Inv
<1> SUFFICES ASSUME Init PROVE Inv
  OBVIOUS
<1> USE Constants
<1>1. QueueTypes /\ Untouched /\ OnceEach
  BY DEF Init, QueueTypes, Untouched, OnceEach
<1>2. free \in Seq(Slots) /\ Len(free) = NumSlots /\ DOMAIN free = Slots
      /\ \A i \in Slots : free[i] = i
  BY IsASeq, LenProperties DEF Init, Slots
<1>3. PoolTypes
  BY <1>2 DEF Init, PoolTypes
<1>4. CacheTypes
  BY DEF Init, CacheTypes, Positions, NoEntry
<1>5. StepTypes /\ PassExact
  BY DEF Init, StepTypes, PassExact, Passing
<1>6. SlotsExact
  BY <1>2 DEF Init, SlotsExact
<1> QED BY <1>1, <1>3, <1>4, <1>5, <1>6 DEF Inv

(* What a step leaves of the queue, the outcomes and the step's locals. *)
LEMMA QueueNext == Inv /\ [Next]_vars => (QueueTypes /\ OnceEach /\ StepTypes)'
<1> SUFFICES ASSUME Inv, [Next]_vars PROVE (QueueTypes /\ OnceEach /\ StepTypes)'
  OBVIOUS
<1> USE Constants DEF QueueTypes, StepTypes, Passing, Layers
<1>a. QueueTypes /\ OnceEach /\ StepTypes /\ PoolTypes
  BY DEF Inv
<1>b. ASSUME UNCHANGED waiting, UNCHANGED output, pc # "idle", cur' = NoReq, pc' = "idle",
             finished' \in {finished, finished \cup {cur}},
             lost' \in {lost, lost \cup {cur}}
      PROVE  (QueueTypes /\ OnceEach /\ StepTypes)'
  BY <1>a, <1>b DEF OnceEach
<1>c. ASSUME UNCHANGED <<waiting, finished, lost, cur, slot>>, pc # "idle", pc' # "idle",
             output' \in [Reqs -> Nat], pc' \in {"prefill", "decode", "sample"},
             pc' # "sample" => layer' \in Layers
      PROVE  (QueueTypes /\ OnceEach /\ StepTypes)'
  BY <1>a, <1>c DEF OnceEach
<1>1. CASE StepBegin
  <2>1. /\ Tail(waiting) \in Seq(Reqs) /\ DOMAIN waiting = 1 .. Len(waiting)
        /\ Len(waiting) \in Nat \ {0} /\ DOMAIN Tail(waiting) = 1 .. Len(waiting) - 1
        /\ \A i \in 1 .. Len(waiting) - 1 : Tail(waiting)[i] = waiting[i + 1]
        /\ Head(waiting) = waiting[1] /\ Head(waiting) \in Reqs
    BY <1>1, <1>a, TailFacts DEF StepBegin
  <2>2. Last(free) \in Slots
    BY <1>1, <1>a, FrontFacts DEF StepBegin, PoolTypes
  <2>3. /\ waiting' = Tail(waiting) /\ cur' = Head(waiting) /\ slot' = Last(free)
        /\ pc' = "prefill" /\ layer' = 1 /\ UNCHANGED <<finished, lost, output>>
    BY <1>1 DEF StepBegin
  <2>4. QueueTypes' /\ StepTypes'
    BY <1>a, <2>1, <2>2, <2>3
  <2>5. \A i, j \in DOMAIN waiting' : waiting'[i] = waiting'[j] => i = j
    BY <1>a, <2>1, <2>3, SMTT(40) DEF OnceEach
  <2>6. \A i \in DOMAIN waiting' : waiting'[i] \notin finished' \cup lost' \cup {cur'}
    BY <1>a, <2>1, <2>3 DEF OnceEach
  <2>7. cur' \notin finished' \cup lost'
    BY <1>a, <2>1, <2>3 DEF OnceEach
  <2> QED BY <2>4, <2>5, <2>6, <2>7 DEF OnceEach
<1>2. CASE UpdateLayer
  BY <1>2, <1>a, <1>c DEF UpdateLayer
<1>3. CASE PrefillRaises
  BY <1>3, <1>b DEF PrefillRaises, Leave
<1>4. CASE DecodeRaises
  BY <1>4, <1>b DEF DecodeRaises, Leave
<1>5. CASE TokenAccepted
  BY <1>5, <1>a, <1>c DEF TokenAccepted
<1>6. CASE Complete
  BY <1>6, <1>b DEF Complete, Leave
<1>7. ASSUME NEW r \in Reqs, AddRequest(r)
      PROVE  (QueueTypes /\ OnceEach /\ StepTypes)'
  <2>1. /\ Append(waiting, r) \in Seq(Reqs) /\ Len(waiting) \in Nat
        /\ DOMAIN waiting = 1 .. Len(waiting)
        /\ DOMAIN Append(waiting, r) = 1 .. Len(waiting) + 1
        /\ \A i \in 1 .. Len(waiting) : Append(waiting, r)[i] = waiting[i]
        /\ Append(waiting, r)[Len(waiting) + 1] = r
    BY <1>a, AppendFacts
  <2>2. /\ waiting' = Append(waiting, r)
        /\ UNCHANGED <<finished, lost, output, pc, cur, slot, layer>>
        /\ r \notin finished \cup lost \cup {cur}
        /\ \A i \in DOMAIN waiting : waiting[i] # r
    BY <1>7 DEF AddRequest, ToSet
  <2>3. QueueTypes' /\ StepTypes'
    BY <1>a, <2>1, <2>2
  <2>4. \A i, j \in DOMAIN waiting' : waiting'[i] = waiting'[j] => i = j
    BY <1>a, <2>1, <2>2 DEF OnceEach
  <2>5. \A i \in DOMAIN waiting' : waiting'[i] \notin finished' \cup lost' \cup {cur'}
    BY <1>a, <2>1, <2>2 DEF OnceEach
  <2> QED BY <1>a, <2>2, <2>3, <2>4, <2>5 DEF OnceEach
<1>8. CASE UNCHANGED vars
  BY <1>8, <1>a DEF vars, OnceEach
<1> QED BY <1>1, <1>2, <1>3, <1>4, <1>5, <1>6, <1>7, <1>8 DEF Next

(* What a step leaves of the caches: the types, and that a request nobody has
   served has written nothing. *)
LEMMA CacheNext == Inv /\ [Next]_vars => (CacheTypes /\ Untouched)'
<1> SUFFICES ASSUME Inv, [Next]_vars PROVE (CacheTypes /\ Untouched)'
  OBVIOUS
<1> USE Constants
<1>a. QueueTypes /\ CacheTypes /\ StepTypes /\ Untouched /\ OnceEach /\ PoolTypes
  BY DEF Inv
<1>b. ASSUME pc # "idle", cur' = NoReq, pos' = [pos EXCEPT ![cur] = @ + n],
             start' = [start EXCEPT ![cur] = pos[cur]],
             lost' = lost \cup {cur}, layer' = 0, n' = 0,
             UNCHANGED <<finished, output, slab>>
      PROVE  (CacheTypes /\ Untouched)'
  <2>1. CacheTypes'
    BY <1>a, <1>b DEF CacheTypes, StepTypes
  <2>2. Untouched'
    BY <1>a, <1>b DEF CacheTypes, StepTypes, Untouched, QueueTypes
  <2> QED BY <2>1, <2>2
<1>1. CASE StepBegin
  <2>1. Head(waiting) = waiting[1] /\ Head(waiting) \in Reqs
    BY <1>1, <1>a, TailFacts DEF StepBegin, QueueTypes
  <2>2. CacheTypes'
    BY <1>1, <1>a, <2>1 DEF StepBegin, CacheTypes
  <2>3. Untouched'
    BY <1>1, <1>a, <2>1 DEF StepBegin, Untouched, StepTypes
  <2> QED BY <2>2, <2>3
<1>2. CASE UpdateLayer
  <2>1. cur \in Reqs /\ slot \in Slots /\ layer \in Layers /\ layer \in Nat /\ n \in Nat
    BY <1>2, <1>a DEF UpdateLayer, StepTypes, Passing, CacheTypes
  <2>2. start' \in [Reqs -> Nat] /\ pos' \in [Reqs -> Nat]
        /\ \A r \in Reqs : r # cur => pos'[r] = pos[r]
    <3>1. Advance /\ pos \in [Reqs -> Nat] /\ start \in [Reqs -> Nat]
      BY <1>2, <1>a DEF UpdateLayer, CacheTypes
    <3> QED BY <2>1, <3>1 DEF Advance
  <2>3. start'[cur] \in Nat /\ PromptLen[cur] \in Nat /\ output[cur] \in Nat
    BY <2>1, <2>2, <1>a DEF QueueTypes
  <2> DEFINE row == [p \in 1 .. MaxSeqLen |->
                       IF p \in start'[cur] + 1 .. start'[cur] + n
                       THEN <<cur, PromptLen[cur] + output[cur] - n + (p - start'[cur])>>
                       ELSE slab[layer][slot][p]]
  <2>4. row \in [Positions -> (Reqs \cup {NoReq}) \X Int]
    <3>1. \A p \in 1 .. MaxSeqLen :
             PromptLen[cur] + output[cur] - n + (p - start'[cur]) \in Int
      BY <2>1, <2>3
    <3>2. \A p \in Positions : slab[layer][slot][p] \in (Reqs \cup {NoReq}) \X Int
      BY <1>a, <2>1 DEF CacheTypes
    <3> QED BY <2>1, <3>1, <3>2 DEF Positions
  <2>5. slab' = [slab EXCEPT ![layer][slot] = row]
    BY <1>2 DEF UpdateLayer
  <2> HIDE DEF row
  <2>6. slab' \in [Layers -> [Slots -> [Positions -> (Reqs \cup {NoReq}) \X Int]]]
    BY <1>a, <2>1, <2>4, <2>5 DEF CacheTypes
  <2>7. CacheTypes'
    BY <1>2, <2>1, <2>2, <2>6 DEF UpdateLayer, CacheTypes
  <2>8. Untouched'
    BY <1>2, <1>a, <2>2 DEF UpdateLayer, Untouched
  <2> QED BY <2>7, <2>8
<1>3. CASE PrefillRaises
  BY <1>3, <1>b DEF PrefillRaises, Leave
<1>4. CASE DecodeRaises
  BY <1>4, <1>b DEF DecodeRaises, Leave
<1>5. CASE TokenAccepted
  BY <1>5, <1>a DEF TokenAccepted, CacheTypes, Untouched, QueueTypes
<1>6. CASE Complete
  BY <1>6, <1>a DEF Complete, Leave, CacheTypes, Untouched, QueueTypes
<1>7. ASSUME NEW r \in Reqs, AddRequest(r)
      PROVE  (CacheTypes /\ Untouched)'
  BY <1>7, <1>a DEF AddRequest, CacheTypes, Untouched
<1>8. CASE UNCHANGED vars
  BY <1>8, <1>a DEF vars, CacheTypes, Untouched
<1> QED BY <1>1, <1>2, <1>3, <1>4, <1>5, <1>6, <1>7, <1>8 DEF Next

(* Every path out of step() gives the slot back, except a prefill that cannot
   fit, which happens only to a prompt longer than a slot. *)
LEMMA SlotsNext == Inv /\ [Next]_vars => (PoolTypes /\ SlotsExact)'
<1> SUFFICES ASSUME Inv, [Next]_vars PROVE (PoolTypes /\ SlotsExact)'
  OBVIOUS
<1> USE Constants
<1>a. QueueTypes /\ PoolTypes /\ CacheTypes /\ StepTypes /\ OnceEach /\ SlotsExact /\ PassExact
  BY DEF Inv
<1>b. ASSUME pc # "idle", FreeSlot(slot), pc' = "idle", slot' = 0, lost \subseteq lost'
      PROVE  (PoolTypes /\ SlotsExact)'
  <2>1. slot \in Slots /\ cur \in Reqs /\ live[slot] = cur /\ cur # NoReq
    BY <1>a, <1>b DEF StepTypes, SlotsExact
  <2>2. /\ live' = [live EXCEPT ![slot] = NoReq]
        /\ expected' = [expected EXCEPT ![slot] = 0]
        /\ free' = Append(free, slot)
    BY <1>b, <2>1 DEF FreeSlot
  <2>3. /\ free' \in Seq(Slots) /\ Len(free) \in Nat
        /\ DOMAIN free = 1 .. Len(free) /\ DOMAIN free' = 1 .. Len(free) + 1
        /\ \A i \in 1 .. Len(free) : free'[i] = free[i]
        /\ free'[Len(free) + 1] = slot
    BY <1>a, <2>1, <2>2, AppendFacts DEF PoolTypes
  <2>4. PoolTypes'
    BY <1>a, <1>b, <2>1, <2>2, <2>3 DEF PoolTypes
  <2>5. \A i \in DOMAIN free : free[i] # slot
    BY <1>a, <2>1 DEF SlotsExact
  <2>6. \A i, j \in DOMAIN free' : free'[i] = free'[j] => i = j
    BY <1>a, <2>3, <2>5 DEF SlotsExact
  <2>7. ASSUME NEW s \in Slots
        PROVE  live'[s] = NoReq <=> \E i \in DOMAIN free' : free'[i] = s
    <3>1. CASE s = slot
      <4>1. live'[s] = NoReq
        BY <3>1, <1>a, <2>2 DEF PoolTypes
      <4>2. Len(free) + 1 \in DOMAIN free' /\ free'[Len(free) + 1] = s
        BY <3>1, <2>3
      <4> QED BY <4>1, <4>2
    <3>2. CASE s # slot
      <4>1. live'[s] = live[s]
        BY <3>2, <1>a, <2>1, <2>2 DEF PoolTypes
      <4>2. (\E i \in DOMAIN free' : free'[i] = s) <=> \E i \in DOMAIN free : free[i] = s
        BY <3>2, <2>3
      <4> QED BY <4>1, <4>2, <1>a DEF SlotsExact
    <3> QED BY <3>1, <3>2
  <2>8. \A s \in Slots : live'[s] # NoReq => live'[s] \in lost' \cap TooLong
    BY <1>a, <1>b, <2>1, <2>2 DEF PoolTypes, SlotsExact
  <2> QED BY <1>b, <2>4, <2>6, <2>7, <2>8 DEF SlotsExact
<1>c. ASSUME UNCHANGED <<free, live, expected, slot, lost, cur>>, pc # "idle", pc' # "idle"
      PROVE  (PoolTypes /\ SlotsExact)'
  BY <1>a, <1>c DEF PoolTypes, SlotsExact
<1>1. CASE StepBegin
  <2>1. Head(waiting) \in Reqs /\ pc = "idle" /\ pc' = "prefill"
    BY <1>1, <1>a, TailFacts DEF StepBegin, QueueTypes
  <2>2. /\ Front(free) \in Seq(Slots) /\ Len(free) \in Nat \ {0}
        /\ DOMAIN free = 1 .. Len(free) /\ DOMAIN Front(free) = 1 .. Len(free) - 1
        /\ \A i \in 1 .. Len(free) - 1 : Front(free)[i] = free[i]
        /\ Last(free) = free[Len(free)] /\ Last(free) \in Slots
    BY <1>1, <1>a, FrontFacts DEF StepBegin, PoolTypes
  <2>3. /\ free' = Front(free) /\ slot' = Last(free) /\ cur' = Head(waiting)
        /\ live' = [live EXCEPT ![Last(free)] = Head(waiting)]
        /\ expected' = [expected EXCEPT ![Last(free)] = Expected(Head(waiting))]
        /\ lost' = lost
    BY <1>1 DEF StepBegin
  <2>4. Expected(Head(waiting)) \in Nat
    BY <2>1 DEF Expected, TotalLenEstimate
  <2>5. PoolTypes'
    BY <1>a, <2>1, <2>2, <2>3, <2>4 DEF PoolTypes
  <2>6. \A i, j \in DOMAIN free' : free'[i] = free'[j] => i = j
    BY <1>a, <2>2, <2>3 DEF SlotsExact
  <2>7. ASSUME NEW s \in Slots
        PROVE  live'[s] = NoReq <=> \E i \in DOMAIN free' : free'[i] = s
    <3>1. CASE s = Last(free)
      <4>1. live'[s] = Head(waiting) /\ live'[s] # NoReq
        BY <3>1, <1>a, <2>1, <2>3 DEF PoolTypes
      <4>2. \A i \in DOMAIN free' : free'[i] # s
        BY <3>1, <1>a, <2>2, <2>3 DEF SlotsExact
      <4> QED BY <4>1, <4>2
    <3>2. CASE s # Last(free)
      <4>1. live'[s] = live[s]
        BY <3>2, <1>a, <2>3 DEF PoolTypes
      <4>2. (\E i \in DOMAIN free' : free'[i] = s) <=> \E i \in DOMAIN free : free[i] = s
        BY <3>2, <2>2, <2>3
      <4> QED BY <4>1, <4>2, <1>a DEF SlotsExact
    <3> QED BY <3>1, <3>2
  <2>8. \A s \in Slots : live'[s] # NoReq => s = slot' \/ live'[s] \in lost' \cap TooLong
    BY <1>a, <2>1, <2>3 DEF PoolTypes, SlotsExact
  <2>9. live'[slot'] = cur'
    BY <1>a, <2>2, <2>3 DEF PoolTypes
  <2> QED BY <2>1, <2>5, <2>6, <2>7, <2>8, <2>9 DEF SlotsExact
<1>2. CASE UpdateLayer
  BY <1>2, <1>c DEF UpdateLayer, Passing
<1>3. CASE PrefillRaises
  <2>1. cur \in Reqs /\ slot \in Slots /\ n = PromptLen[cur] /\ output[cur] = 0
        /\ pos[cur] = Total(cur) - n /\ pos[cur] + n > MaxSeqLen
    BY <1>3, <1>a DEF PrefillRaises, Overflows, StepTypes, PassExact, Passing
  <2>2. cur \in TooLong
    BY <2>1, <1>a DEF TooLong, Total, CacheTypes
  <2> QED BY <1>3, <1>a, <2>1, <2>2 DEF PrefillRaises, Leave, PoolTypes, SlotsExact
<1>4. CASE DecodeRaises
  BY <1>4, <1>b DEF DecodeRaises, Leave
<1>5. CASE TokenAccepted
  BY <1>5, <1>c DEF TokenAccepted
<1>6. CASE Complete
  BY <1>6, <1>b DEF Complete, Leave
<1>7. ASSUME NEW r \in Reqs, AddRequest(r)
      PROVE  (PoolTypes /\ SlotsExact)'
  BY <1>7, <1>a DEF AddRequest, PoolTypes, SlotsExact
<1>8. CASE UNCHANGED vars
  BY <1>8, <1>a DEF vars, PoolTypes, SlotsExact
<1> QED BY <1>1, <1>2, <1>3, <1>4, <1>5, <1>6, <1>7, <1>8 DEF Next

(* A pass writes the same tokens at the same offset in every layer. *)
LEMMA PassNext == Inv /\ [Next]_vars => PassExact'
<1> SUFFICES ASSUME Inv, [Next]_vars PROVE PassExact'
  OBVIOUS
<1> USE Constants
<1>a. QueueTypes /\ PoolTypes /\ CacheTypes /\ StepTypes /\ OnceEach /\ Untouched /\ PassExact
  BY DEF Inv
<1>b. ASSUME pc' = "idle" PROVE PassExact'
  BY <1>b DEF PassExact, Passing
<1>1. CASE StepBegin
  <2>1. Head(waiting) = waiting[1] /\ Head(waiting) \in Reqs /\ 1 \in DOMAIN waiting
    BY <1>1, <1>a, TailFacts DEF StepBegin, QueueTypes
  <2>2. pos[Head(waiting)] = 0 /\ output[Head(waiting)] = 0
    BY <2>1, <1>a DEF Untouched, OnceEach
  <2>3. /\ cur' = Head(waiting) /\ n' = PromptLen[Head(waiting)]
        /\ pc' = "prefill" /\ layer' = 1 /\ UNCHANGED <<pos, output, slab>>
    BY <1>1 DEF StepBegin
  <2>4. pos'[cur'] = 0 /\ Total(cur)' = n' /\ n' \in Nat
    BY <2>1, <2>2, <2>3 DEF Total
  <2>5. \A l \in Layers : HoldsPrefix(l, 0)'
    BY DEF HoldsPrefix
  <2> QED BY <2>2, <2>3, <2>4, <2>5 DEF PassExact, Passing
<1>2. CASE UpdateLayer
  <2>1. /\ cur \in Reqs /\ slot \in Slots /\ layer \in Layers /\ layer \in Nat /\ n \in Nat
        /\ pos[cur] \in Nat /\ start[cur] \in Nat /\ output[cur] \in Nat
        /\ Total(cur) \in Nat
    BY <1>2, <1>a DEF UpdateLayer, StepTypes, Passing, CacheTypes, QueueTypes, Total
  <2>2. /\ UNCHANGED <<cur, slot, n, output>> /\ Total(cur)' = Total(cur)
        /\ \/ layer < NumLayers /\ layer' = layer + 1 /\ pc' = pc
           \/ layer = NumLayers /\ layer' = 0 /\ pc' = "sample"
    BY <1>2, <2>1 DEF UpdateLayer, Total, Layers
  <2>3. /\ pos'[cur] = Total(cur) /\ start'[cur] = Total(cur) - n
        /\ start'[cur] \in Nat /\ pos'[cur] \in Nat /\ pos'[cur] <= MaxSeqLen
    <3>1. Advance /\ ~Overflows /\ Passing /\ pos \in [Reqs -> Nat] /\ start \in [Reqs -> Nat]
      BY <1>2, <1>a DEF UpdateLayer, CacheTypes
    <3>2. CASE layer = 1
      BY <2>1, <3>1, <3>2, <1>a DEF Advance, Overflows, PassExact
    <3>3. CASE layer # 1
      BY <2>1, <3>1, <3>3, <1>a DEF Advance, PassExact
    <3> QED BY <3>2, <3>3
  <2>4. \A l \in Layers : HoldsPrefix(l, IF l < layer THEN Total(cur) ELSE Total(cur) - n)
    <3>1. CASE layer = 1
      BY <2>1, <3>1, <1>2, <1>a DEF UpdateLayer, PassExact, Layers
    <3>2. CASE layer # 1
      BY <2>1, <3>2, <1>2, <1>a DEF UpdateLayer, PassExact
    <3> QED BY <3>1, <3>2
  <2> DEFINE row == [p \in 1 .. MaxSeqLen |->
                       IF p \in start'[cur] + 1 .. start'[cur] + n
                       THEN <<cur, PromptLen[cur] + output[cur] - n + (p - start'[cur])>>
                       ELSE slab[layer][slot][p]]
  <2>5. \A p \in 1 .. Total(cur) : row[p] = <<cur, p>>
    <3> SUFFICES ASSUME NEW p \in 1 .. Total(cur) PROVE row[p] = <<cur, p>>
      OBVIOUS
    <3>0. p \in 1 .. MaxSeqLen /\ Total(cur) = PromptLen[cur] + output[cur]
      BY <2>1, <2>3 DEF Total
    <3>1. CASE p \in 1 .. Total(cur) - n
      <4>1. p \notin start'[cur] + 1 .. start'[cur] + n
        BY <3>1, <2>1, <2>3
      <4>2. slab[layer][slot][p] = <<cur, p>>
        BY <3>1, <2>1, <2>4 DEF HoldsPrefix
      <4> QED BY <3>0, <4>1, <4>2
    <3>2. CASE p \notin 1 .. Total(cur) - n
      <4>1. p \in start'[cur] + 1 .. start'[cur] + n
        BY <3>2, <2>1, <2>3
      <4>2. PromptLen[cur] + output[cur] - n + (p - start'[cur]) = p
        BY <3>0, <2>1, <2>3
      <4> QED BY <3>0, <4>1, <4>2
    <3> QED BY <3>1, <3>2
  <2>6. slab' = [slab EXCEPT ![layer][slot] = row]
    BY <1>2 DEF UpdateLayer
  <2> HIDE DEF row
  <2>7. /\ slab'[layer][slot] = row
        /\ \A l \in Layers : l # layer => slab'[l] = slab[l]
    BY <2>1, <2>6, <1>a DEF CacheTypes
  <2>8. ASSUME NEW l \in Layers,
               NEW p \in 1 .. (IF l <= layer THEN Total(cur) ELSE Total(cur) - n)
        PROVE  slab'[l][slot'][p] = <<cur', p>>
    <3>1. CASE l = layer
      <4>1. p \in 1 .. Total(cur)
        BY <3>1, <2>1
      <4> QED BY <3>1, <4>1, <2>2, <2>5, <2>7
    <3>2. CASE l # layer
      <4>1. HoldsPrefix(l, IF l < layer THEN Total(cur) ELSE Total(cur) - n)
        BY <2>4
      <4>2. p \in 1 .. (IF l < layer THEN Total(cur) ELSE Total(cur) - n)
        BY <3>2, <2>1 DEF Layers
      <4>3. slab[l][slot][p] = <<cur, p>>
        BY <4>1, <4>2 DEF HoldsPrefix
      <4> QED BY <4>3, <3>2, <2>2, <2>7
    <3> QED BY <3>1, <3>2
  <2>9. CASE layer < NumLayers
    <3>1. layer' = layer + 1 /\ pc' = pc /\ layer' # 1 /\ pc \in {"prefill", "decode"}
      BY <2>9, <2>1, <2>2, <1>2 DEF UpdateLayer, Passing, Layers
    <3>2. \A l \in Layers : HoldsPrefix(l, IF l < layer THEN pos[cur] ELSE start[cur])'
      <4> SUFFICES ASSUME NEW l \in Layers,
                          NEW p \in 1 .. (IF l < layer' THEN pos'[cur'] ELSE start'[cur'])
                   PROVE  slab'[l][slot'][p] = <<cur', p>>
        BY DEF HoldsPrefix
      <4>1. l < layer' <=> l <= layer
        BY <3>1, <2>1 DEF Layers
      <4>2. p \in 1 .. (IF l <= layer THEN Total(cur) ELSE Total(cur) - n)
        BY <4>1, <2>2, <2>3
      <4> QED BY <4>2, <2>8
    <3>3. pc' = "prefill" => n' = PromptLen[cur'] /\ output'[cur'] = 0
      BY <1>a, <2>2, <3>1 DEF PassExact
    <3>4. pc' = "decode" => n' = 1 /\ output'[cur'] > 0
      BY <1>a, <2>2, <3>1 DEF PassExact
    <3>5. pos'[cur'] = Total(cur)' /\ start'[cur'] = Total(cur)' - n' /\ pos'[cur'] <= MaxSeqLen
      BY <2>2, <2>3
    <3> QED BY <3>1, <3>2, <3>3, <3>4, <3>5 DEF PassExact
  <2>10. CASE layer = NumLayers
    <3>1. pc' = "sample"
      BY <2>10, <2>1, <2>2
    <3>2. \A l \in Layers : HoldsPrefix(l, pos[cur])'
      <4> SUFFICES ASSUME NEW l \in Layers, NEW p \in 1 .. pos'[cur']
                   PROVE  slab'[l][slot'][p] = <<cur', p>>
        BY DEF HoldsPrefix
      <4>1. l <= layer /\ p \in 1 .. Total(cur)
        BY <2>10, <2>1, <2>2, <2>3 DEF Layers
      <4> QED BY <4>1, <2>8
    <3>3. pos'[cur'] = Total(cur)' /\ pos'[cur'] <= MaxSeqLen
      BY <2>2, <2>3
    <3> QED BY <3>1, <3>2, <3>3 DEF PassExact, Passing
  <2> QED BY <2>1, <2>2, <2>9, <2>10
<1>3. CASE PrefillRaises \/ DecodeRaises \/ Complete
  BY <1>3, <1>b DEF PrefillRaises, DecodeRaises, Complete, Leave
<1>4. CASE TokenAccepted
  <2>1. cur \in Reqs /\ pos[cur] \in Nat /\ output[cur] \in Nat /\ PromptLen[cur] \in Nat
    BY <1>4, <1>a DEF TokenAccepted, StepTypes, CacheTypes, QueueTypes
  <2>2. /\ output' = [output EXCEPT ![cur] = @ + 1] /\ pc' = "decode" /\ layer' = 1 /\ n' = 1
        /\ UNCHANGED <<pos, start, slab, cur, slot>> /\ pc = "sample"
    BY <1>4 DEF TokenAccepted
  <2>3. output'[cur'] = output[cur] + 1
    BY <2>1, <2>2, <1>a DEF QueueTypes
  <2>4. Total(cur)' = Total(cur) + 1 /\ Total(cur) \in Nat
    BY <2>1, <2>2, <2>3 DEF Total
  <2> QED BY <1>a, <2>1, <2>2, <2>3, <2>4 DEF PassExact, Passing, HoldsPrefix
<1>5. ASSUME NEW r \in Reqs, AddRequest(r) PROVE PassExact'
  BY <1>5, <1>a DEF AddRequest, PassExact, Passing, HoldsPrefix, Total
<1>6. CASE UNCHANGED vars
  BY <1>6, <1>a DEF vars, PassExact, Passing, HoldsPrefix, Total
<1> QED BY <1>1, <1>2, <1>3, <1>4, <1>5, <1>6 DEF Next

LEMMA NextInv == Inv /\ [Next]_vars => Inv'
BY QueueNext, CacheNext, SlotsNext, PassNext DEF Inv

LEMMA Invariance == Spec => []Inv
<1>1. Init => Inv
  BY InitInv
<1>2. Inv /\ [Next]_vars => Inv'
  BY NextInv
<1> QED BY <1>1, <1>2, PTL DEF Spec

-----------------------------------------------------------------------------
(* The free list and the live slots together are all the slots. *)
LEMMA SlotCount ==
  ASSUME Inv
  PROVE  Len(free) + Cardinality(LiveSlots) = NumSlots
<1> USE Constants
<1>1. /\ free \in Seq(Slots) /\ Len(free) \in Nat /\ DOMAIN free = 1 .. Len(free)
      /\ \A i, j \in DOMAIN free : free[i] = free[j] => i = j
      /\ \A s \in Slots : live[s] = NoReq <=> \E i \in DOMAIN free : free[i] = s
  BY LenProperties DEF Inv, PoolTypes, SlotsExact
<1> DEFINE F == Slots \ LiveSlots
<1>2. \A s \in Slots : s \in F <=> \E i \in 1 .. Len(free) : free[i] = s
  BY <1>1 DEF LiveSlots
<1>3. \A i \in 1 .. Len(free) : free[i] \in Slots
  BY <1>1, ElementOfSeq
<1>4. free \in [1 .. Len(free) -> F]
  BY <1>1, <1>2, <1>3, LenProperties
<1>a. \A s \in F : \E i \in 1 .. Len(free) : free[i] = s
  BY <1>2
<1> HIDE DEF F
<1>5. free \in Bijection(1 .. Len(free), F)
  <2>1. free \in Surjection(1 .. Len(free), F)
    BY <1>4, <1>a DEF Surjection
  <2>2. free \in Injection(1 .. Len(free), F)
    <3>1. IsInjective(free)
      BY <1>1 DEF IsInjective
    <3> QED BY <1>4, <3>1 DEF Injection
  <2> QED BY <2>1, <2>2 DEF Bijection
<1>6. Cardinality(F) = Len(free)
  BY <1>1, <1>5, FS_CountingElements DEF ExistsBijection
<1>7. IsFiniteSet(Slots) /\ Cardinality(Slots) = NumSlots
  BY FS_Interval DEF Slots
<1>8. LiveSlots \in SUBSET Slots /\ IsFiniteSet(LiveSlots)
  BY <1>7, FS_Subset DEF LiveSlots
<1> USE DEF F
<1>9. Cardinality(F) = NumSlots - Cardinality(LiveSlots) /\ Cardinality(LiveSlots) \in Nat
  <2>1. Slots \cap LiveSlots = LiveSlots
    BY <1>8
  <2>2. Cardinality(Slots \ LiveSlots) = Cardinality(Slots) - Cardinality(Slots \cap LiveSlots)
    BY <1>7, FS_Difference
  <2> QED BY <1>7, <1>8, <2>1, <2>2, FS_CardinalityType
<1> QED BY <1>1, <1>6, <1>9

(* SlotsReturned: whatever failed before, between two steps every slot of the
   pool is on the free list once or was left behind by a prompt longer than a
   slot. *)
THEOREM SlotsAlwaysReturned == Spec => []SlotsReturned
<1>1. Inv => SlotsReturned
  <2> SUFFICES ASSUME Inv, pc = "idle"
               PROVE  /\ \A s \in LiveSlots : live[s] \in lost \cap TooLong
                      /\ ToSet(free) = Slots \ LiveSlots
                      /\ Len(free) + Cardinality(LiveSlots) = NumSlots
    BY DEF SlotsReturned
  <2>1. \A s \in LiveSlots : live[s] \in lost \cap TooLong
    BY DEF Inv, SlotsExact, LiveSlots
  <2>2. \A i \in DOMAIN free : free[i] \in Slots
    BY ElementOfSeq, LenProperties DEF Inv, PoolTypes
  <2>3. ToSet(free) = Slots \ LiveSlots
    BY <2>2 DEF Inv, SlotsExact, LiveSlots, ToSet
  <2> QED BY <2>1, <2>3, SlotCount
<1> QED BY <1>1, Invariance, PTL

(* ReadsOwnSlot: after a pass, what any layer reads of the slot are the
   request's own tokens in order, whoever used the slot before. *)
THEOREM AlwaysReadsOwnSlot == Spec => []ReadsOwnSlot
<1>1. Inv => ReadsOwnSlot
  BY DEF Inv, PassExact, ReadsOwnSlot, HoldsPrefix, Total
<1> QED BY <1>1, Invariance, PTL
=============================================================================
