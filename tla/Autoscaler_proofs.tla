-------------------------- MODULE Autoscaler_proofs --------------------------
(***************************************************************************)
(* For every policy, window and set of controllers: what a controller      *)
(* publishes and what runs for it stay in the policy's range or at the     *)
(* count of a hold, and a controller gives up replicas only when nothing   *)
(* it saw in the window asked for more.                                    *)
(***************************************************************************)
EXTENDS Autoscaler, SequenceTheorems, FiniteSetTheorems, TLAPS

States == {"loading", "unready", "ready", "dead"}
Samples == [age : Nat, desired : Counts]

Types ==
    /\ fleet \in [Owners -> Seq(States)] /\ ghosts \in Nat
    /\ pending \in [Controllers -> Nat] /\ target \in Nat /\ holds \in SUBSET Nat
    /\ demand \in Nat /\ kvHigh \in BOOLEAN
    /\ history \in [Controllers -> SUBSET Samples]
    /\ asked \in [Controllers -> SUBSET Samples]

(* What the window should hold, it holds. *)
WindowKept ==
    \A c \in Controllers :
        /\ asked[c] \subseteq history[c]
        /\ \A s \in asked[c] : s.age <= Window

(* Every count on its way to an executor is the policy's or a hold's, and no
   executor has grown its fleet past what such a count allows. *)
Decided(n) == n \in {0} \cup Counts \cup holds
Allowed(n) == n <= MaxReplicas \/ \E k \in holds : n <= k

RangeKept ==
    /\ \A c \in Controllers : Decided(pending[c])
    /\ Decided(target)
    /\ \A o \in Owners \ {Operator} : Allowed(Len(fleet[o]))

Inv == Types /\ WindowKept /\ RangeKept

-----------------------------------------------------------------------------
(* Lemmas about the operators. *)

LEMMA Policy ==
  /\ MinReplicas \in Nat \ {0} /\ MaxReplicas \in Nat /\ MinReplicas <= MaxReplicas
  /\ TargetQueueDepth \in Nat \ {0} /\ TolNum \in Nat /\ TolDen \in Nat
  /\ Window \in Nat /\ Demands \subseteq Nat /\ Sites \subseteq Site
  /\ IsFiniteSet(Controllers) /\ Actuator \notin Controllers /\ Operator \notin Controllers
BY PolicyAssumption DEF ValidPolicy

(* A set of counts that is not empty has a largest. *)
LEMMA MaxOfCounts ==
  ASSUME NEW S \in SUBSET Nat, NEW n \in Nat, \A x \in S : x <= n, S # {}
  PROVE  Max(S) \in S /\ \A x \in S : x <= Max(S)
<1> DEFINE T == {n - x : x \in S}
<1>1. T \subseteq Nat /\ T # {}
  <2>1. \A x \in S : n - x \in Nat
    OBVIOUS
  <2>2. \A y \in T : y \in Nat
    BY <2>1
  <2> QED BY <2>2
<1>2. PICK m \in T : \A y \in T : ~ (<<y, m>> \in OpToRel(<, Nat))
  BY <1>1, NatLessThanWellFounded, WFMin
<1>3. m \in Nat /\ \A y \in T : y \in Nat /\ ~ (y < m)
  <2>1. ASSUME NEW y \in T PROVE y \in Nat /\ ~ (y < m)
    <3>1. y \in Nat /\ m \in Nat
      BY <1>1
    <3>2. y < m => <<y, m>> \in OpToRel(<, Nat)
      BY <3>1 DEF OpToRel
    <3> QED BY <1>2, <3>1, <3>2
  <2> QED BY <1>1, <2>1
<1>4. PICK x \in S : m = n - x
  OBVIOUS
<1>5. \A y \in S : x >= y
  <2>1. ASSUME NEW y \in S PROVE x >= y
    <3>1. n - y \in T
      OBVIOUS
    <3>2. x \in Nat /\ y \in Nat /\ ~ (n - y < n - x)
      BY <1>3, <1>4, <3>1
    <3> QED BY <3>2
  <2> QED BY <2>1
<1>6. Max(S) \in S /\ \A y \in S : Max(S) >= y
  BY <1>5 DEF Max
<1> QED BY <1>6

(* The processes of one owner that are in a given state. *)
Marked(o, S) == {<<o, i>> : i \in {k \in DOMAIN fleet[o] : fleet[o][k] \in S}}

LEMMA MarkedBound ==
  ASSUME Types, NEW o \in Owners, NEW S
  PROVE  IsFiniteSet(Marked(o, S)) /\ Cardinality(Marked(o, S)) <= Len(fleet[o])
<1> DEFINE D == {k \in DOMAIN fleet[o] : fleet[o][k] \in S}
           f == [i \in D |-> <<o, i>>]
<1>1. Len(fleet[o]) \in Nat /\ DOMAIN fleet[o] = 1 .. Len(fleet[o])
  BY LenProperties DEF Types
<1>2. /\ IsFiniteSet(1 .. Len(fleet[o]))
      /\ Cardinality(1 .. Len(fleet[o])) = Len(fleet[o])
  BY <1>1, FS_Interval
<1>3. IsFiniteSet(D) /\ Cardinality(D) <= Len(fleet[o]) /\ Cardinality(D) \in Nat
  BY <1>1, <1>2, FS_Subset, FS_CardinalityType
<1>4. f \in Surjection(D, Marked(o, S))
  BY DEF Surjection, Marked
<1>5. IsFiniteSet(Marked(o, S)) /\ Cardinality(Marked(o, S)) <= Cardinality(D)
  BY <1>3, <1>4, FS_Surjection
<1> QED BY <1>1, <1>3, <1>5, FS_CardinalityType

(* The fleet is finite, so its counts are numbers. *)
LEMMA CountsAreNumbers ==
  ASSUME Types, NEW S
  PROVE  IsFiniteSet(InState(S)) /\ Cardinality(InState(S)) \in Nat
<1> DEFINE g == [o \in Owners |-> Marked(o, S)]
           G == {Marked(o, S) : o \in Owners}
<1>1. IsFiniteSet(Owners)
  <2>1. IsFiniteSet(Controllers \cup {Actuator})
    BY Policy, FS_AddElement
  <2>2. IsFiniteSet((Controllers \cup {Actuator}) \cup {Operator})
    BY <2>1, FS_AddElement
  <2>3. Owners = (Controllers \cup {Actuator}) \cup {Operator}
    BY DEF Owners
  <2> QED BY <2>2, <2>3
<1>2. g \in Surjection(Owners, G)
  BY DEF Surjection
<1>3. IsFiniteSet(G)
  BY <1>1, <1>2, FS_Surjection
<1>4. \A T \in G : IsFiniteSet(T)
  BY MarkedBound
<1>5. IsFiniteSet(UNION G)
  BY <1>3, <1>4, FS_UNION
<1>6. InState(S) = UNION G
  BY DEF InState, Marked
<1> QED BY <1>5, <1>6, FS_CardinalityType

(* What the policy asks for is a legal count. *)
LEMMA RawIsClamped ==
  ASSUME Types, NEW current \in Nat
  PROVE  Raw(current) \in Counts
<1> DEFINE prop == IF OffTarget(current)
                   THEN (demand + TargetQueueDepth - 1) \div TargetQueueDepth ELSE current
           want == IF kvHigh /\ prop <= current THEN current + 1 ELSE prop
<1>1. (demand + TargetQueueDepth - 1) \div TargetQueueDepth \in Int
  BY Policy DEF Types
<1>2. want \in Int
  BY <1>1
<1>3. Clamp(want) \in Counts
  BY <1>2, Policy DEF Clamp, Counts
<1> QED BY <1>3 DEF Raw

(* A scale-down leaves at least what every sample of the window asked for. *)
LEMMA StabilizedFacts ==
  ASSUME NEW raw \in Counts, NEW S \in SUBSET Samples, NEW current \in Nat
  PROVE  /\ Stabilized(raw, S, current) \in Nat /\ Stabilized(raw, S, current) <= current
         /\ Stabilized(raw, S, current) = current \/ Stabilized(raw, S, current) \in Counts
         /\ Stabilized(raw, S, current) < current =>
               \A s \in S : s.desired <= Stabilized(raw, S, current)
<1> DEFINE W == {s.desired : s \in S} \cup {raw}
<1>1. W \in SUBSET Nat /\ W # {} /\ \A x \in W : x <= MaxReplicas
  BY Policy DEF Samples, Counts
<1>2. Max(W) \in W /\ \A x \in W : x <= Max(W)
  BY <1>1, MaxOfCounts, Policy
<1>3. /\ Max(W) \in Nat /\ Max(W) \in Counts
      /\ \A s \in S : s.desired <= Max(W)
  <2>1. \A x \in W : x \in Counts
    BY DEF Samples
  <2> QED BY <1>1, <1>2, <2>1
<1>4. Stabilized(raw, S, current) = IF Max(W) >= current THEN current ELSE Max(W)
  BY DEF Stabilized
<1> HIDE DEF W
<1> QED BY <1>3, <1>4

-----------------------------------------------------------------------------
(* The decision. *)

(* What Tick(c) decides, and what it writes down. *)
LEMMA TickFacts ==
  ASSUME Inv, NEW c \in Controllers, Tick(c)
  PROVE  /\ pending'[c] \in Nat /\ holds' \in SUBSET Nat /\ holds \subseteq holds'
         /\ pending'[c] \in {0} \cup Counts \cup holds'
         /\ \A o \in Controllers \ {c} : pending'[o] = pending[o]
         /\ pending' \in [Controllers -> Nat]
         /\ history' \in [Controllers -> SUBSET Samples]
         /\ asked' \in [Controllers -> SUBSET Samples]
         /\ WindowKept'
         /\ 0 < pending'[c] /\ pending'[c] < ReadyReplicas =>
               \A s \in asked'[c] : s.desired <= pending'[c]
<1> DEFINE current == ReadyReplicas
           raw == Raw(current)
           sample == [age |-> 0, desired |-> raw]
           kept == Trim(history[c] \cup {sample})
           desired == IF current = 0 THEN Blind
                      ELSE IF raw >= current THEN raw ELSE Stabilized(raw, kept, current)
<1>0. Types /\ WindowKept /\ RangeKept
  BY DEF Inv
<1>1. current \in Nat /\ Registered \in Nat
  BY <1>0, CountsAreNumbers DEF ReadyReplicas, Registered, Types
<1>2. raw \in Counts
  BY <1>0, <1>1, RawIsClamped
<1>3. sample \in Samples /\ sample.age = 0 /\ sample.desired = raw
  BY <1>2 DEF Samples
<1>4. kept \in SUBSET Samples /\ sample \in kept /\ asked[c] \subseteq kept
  BY <1>0, <1>3, Policy DEF Types, WindowKept, Trim
<1>5. /\ Stabilized(raw, kept, current) \in Nat /\ Stabilized(raw, kept, current) <= current
      /\ Stabilized(raw, kept, current) = current \/ Stabilized(raw, kept, current) \in Counts
      /\ Stabilized(raw, kept, current) < current =>
            \A s \in kept : s.desired <= Stabilized(raw, kept, current)
  BY <1>1, <1>2, <1>4, StabilizedFacts
<1>6. Blind \in Nat
  BY <1>1, Policy DEF Blind
<1>7. raw \in Nat /\ raw <= MaxReplicas
  BY <1>2, Policy DEF Counts
<1>9. /\ pending' = [pending EXCEPT ![c] = IF desired # current THEN desired ELSE 0]
      /\ IF current = 0 THEN UNCHANGED <<history, asked>>
         ELSE /\ history' = [history EXCEPT ![c] = kept]
              /\ asked' = [asked EXCEPT ![c] = @ \cup {sample}]
      /\ holds' = IF current = 0 THEN holds \cup ({desired} \ Counts) ELSE holds
  BY DEF Tick
<1> HIDE DEF current, raw, sample, kept
<1>10. /\ desired \in Nat
       /\ current # 0 => desired = current \/ desired \in Counts
  BY <1>1, <1>2, <1>5, <1>6, <1>7
<1>11. desired < current => current # 0 /\ \A s \in kept : s.desired <= desired
  BY <1>1, <1>5, <1>6, <1>7
<1> HIDE DEF desired
<1>12. /\ pending'[c] = IF desired # current THEN desired ELSE 0
       /\ \A o \in Controllers \ {c} : pending'[o] = pending[o]
       /\ pending' \in [Controllers -> Nat]
  BY <1>0, <1>9, <1>10 DEF Types
<1>13. /\ history' \in [Controllers -> SUBSET Samples]
       /\ asked' \in [Controllers -> SUBSET Samples]
  <2>1. /\ history \in [Controllers -> SUBSET Samples]
        /\ asked \in [Controllers -> SUBSET Samples]
        /\ asked[c] \cup {sample} \in SUBSET Samples
    BY <1>0, <1>3 DEF Types
  <2>2. CASE current = 0
    BY <1>9, <2>1, <2>2
  <2>3. CASE current # 0
    BY <1>4, <1>9, <2>1, <2>3
  <2> QED BY <2>2, <2>3
<1>14. asked'[c] \subseteq asked[c] \cup {sample}
  BY <1>0, <1>9 DEF Types
<1>15. WindowKept'
  <2> SUFFICES ASSUME NEW o \in Controllers
               PROVE  asked'[o] \subseteq history'[o] /\ \A s \in asked'[o] : s.age <= Window
    BY DEF WindowKept
  <2>1. CASE current # 0 /\ o = c
    <3>1. history'[o] = kept /\ asked'[o] = asked[c] \cup {sample}
      BY <1>0, <1>9, <2>1 DEF Types
    <3> QED BY <1>0, <1>3, <1>4, <3>1, Policy DEF WindowKept
  <2>2. CASE current = 0 \/ o # c
    <3>1. history'[o] = history[o] /\ asked'[o] = asked[o]
      BY <1>0, <1>9, <2>2 DEF Types
    <3> QED BY <1>0, <3>1 DEF WindowKept
  <2> QED BY <2>1, <2>2
<1>16. ASSUME 0 < pending'[c], pending'[c] < current
       PROVE  \A s \in asked'[c] : s.desired <= pending'[c]
  BY <1>1, <1>4, <1>10, <1>11, <1>12, <1>14, <1>16
<1>17. /\ pending'[c] \in Nat /\ holds' \in SUBSET Nat /\ holds \subseteq holds'
       /\ pending'[c] \in {0} \cup Counts \cup holds'
  <2>1. holds \in SUBSET Nat
    BY <1>0 DEF Types
  <2>2. CASE current = 0
    BY <1>9, <1>10, <1>12, <2>1, <2>2
  <2>3. CASE current # 0
    BY <1>9, <1>10, <1>12, <2>1, <2>3
  <2> QED BY <2>2, <2>3
<1>18. ReadyReplicas = current
  BY DEF current
<1> QED BY <1>12, <1>13, <1>15, <1>16, <1>17, <1>18

-----------------------------------------------------------------------------
(* The invariant. *)

(* A list of processes one step closer to n. *)
LEMMA CloserFacts ==
  ASSUME NEW procs \in Seq(States), NEW k \in Nat, Len(procs) # k
  PROVE  /\ Closer(procs, k) \in Seq(States)
         /\ Len(Closer(procs, k)) <= k \/ Len(Closer(procs, k)) <= Len(procs)
<1>1. Len(procs) \in Nat /\ \A i \in 1 .. Len(procs) : procs[i] \in States
  BY LenProperties, ElementOfSeq
<1>2. CASE Len(procs) < k
  <2>1. Append(procs, "loading") \in Seq(States) /\ Len(Append(procs, "loading")) = Len(procs) + 1
    BY AppendProperties DEF States
  <2> QED BY <1>1, <1>2, <2>1 DEF Closer
<1>3. CASE ~ (Len(procs) < k)
  <2>1. \A i \in 1 .. Len(procs) - 1 : procs[i] \in States
    BY <1>1
  <2>2. /\ SubSeq(procs, 1, Len(procs) - 1) \in Seq(States)
        /\ Len(SubSeq(procs, 1, Len(procs) - 1)) =
              IF 1 <= Len(procs) - 1 THEN Len(procs) - 1 - 1 + 1 ELSE 0
    BY <1>1, <2>1, SubSeqProperties
  <2>3. Len(SubSeq(procs, 1, Len(procs) - 1)) <= Len(procs)
    BY <1>1, <2>2
  <2> QED BY <1>3, <2>2, <2>3 DEF Closer
<1> QED BY <1>2, <1>3

(* A list of processes without its i-th. *)
LEMMA RemoveAtFacts ==
  ASSUME NEW procs \in Seq(States), NEW i \in DOMAIN procs
  PROVE  RemoveAt(procs, i) \in Seq(States) /\ Len(RemoveAt(procs, i)) <= Len(procs)
<1>1. /\ Len(procs) \in Nat /\ DOMAIN procs = 1 .. Len(procs)
      /\ \A j \in 1 .. Len(procs) : procs[j] \in States
  BY LenProperties, ElementOfSeq
<1> DEFINE left == SubSeq(procs, 1, i - 1)
           right == SubSeq(procs, i + 1, Len(procs))
<1>2. left \in Seq(States) /\ Len(left) = IF 1 <= i - 1 THEN i - 1 - 1 + 1 ELSE 0
  <2>1. i - 1 \in Int /\ \A j \in 1 .. i - 1 : procs[j] \in States
    BY <1>1
  <2> QED BY <2>1, SubSeqProperties
<1>3. /\ right \in Seq(States)
      /\ Len(right) = IF i + 1 <= Len(procs) THEN Len(procs) - (i + 1) + 1 ELSE 0
  <2>1. i + 1 \in Int /\ \A j \in i + 1 .. Len(procs) : procs[j] \in States
    BY <1>1
  <2> QED BY <1>1, <2>1, SubSeqProperties
<1>4. left \o right \in Seq(States) /\ Len(left \o right) = Len(left) + Len(right)
  BY <1>2, <1>3, ConcatProperties
<1>5. RemoveAt(procs, i) = left \o right
  BY DEF RemoveAt
<1>6. Len(left) = i - 1 /\ Len(right) = Len(procs) - i
  BY <1>1, <1>2, <1>3
<1> HIDE DEF left, right
<1> QED BY <1>1, <1>4, <1>5, <1>6

LEMMA InitInv == Init => Inv
<1> SUFFICES ASSUME Init PROVE Inv
  OBVIOUS
<1>1. <<>> \in Seq(States) /\ Len(<<>>) = 0
  BY EmptySeq
<1>2. demand \in Nat
  BY Policy DEF Init, Site
<1>3. Types
  BY <1>1, <1>2 DEF Init, Types
<1>4. WindowKept
  BY DEF Init, WindowKept
<1>5. RangeKept
  BY <1>1, Policy DEF Init, RangeKept, Decided, Allowed, Owners
<1> QED BY <1>3, <1>4, <1>5 DEF Inv

(* Every action keeps the window and the range; only Tick decides. *)
LEMMA NextInv == Inv /\ [Next]_vars => Inv'
<1> SUFFICES ASSUME Inv, [Next]_vars PROVE Inv'
  OBVIOUS
<1> USE Policy
<1>a. Types /\ WindowKept /\ RangeKept
  BY DEF Inv
<1>b. ASSUME UNCHANGED <<history, asked, pending, target, fleet, holds>>, ghosts' \in Nat,
             demand' \in Nat, kvHigh' \in BOOLEAN
      PROVE  Inv'
  BY <1>a, <1>b DEF Inv, Types, WindowKept, RangeKept, Decided, Allowed
<1>c. ASSUME UNCHANGED <<history, asked, pending, target, holds, demand, kvHigh>>, ghosts' \in Nat,
             fleet' \in [Owners -> Seq(States)],
             \A o \in Owners \ {Operator} : Allowed(Len(fleet'[o]))
      PROVE  Inv'
  BY <1>a, <1>c DEF Inv, Types, WindowKept, RangeKept, Decided, Allowed
<1>d. ASSUME NEW c \in Controllers, pending' = [pending EXCEPT ![c] = 0],
             target' = target \/ target' = pending[c],
             UNCHANGED <<history, asked, fleet, ghosts, holds, demand, kvHigh>>
      PROVE  Inv'
  BY <1>a, <1>d DEF Inv, Types, WindowKept, RangeKept, Decided, Allowed
<1>e. ASSUME NEW o \in Owners, NEW list \in Seq(States), NEW k, Decided(k), k \in Nat,
             fleet' = [fleet EXCEPT ![o] = list],
             Len(list) <= Len(fleet[o]) \/ Len(list) <= k,
             UNCHANGED <<history, asked, pending, target, holds, demand, kvHigh>>, ghosts' \in Nat
      PROVE  Inv'
  <2>1. Len(list) \in Nat /\ Len(fleet[o]) \in Nat
    BY <1>a, <1>e, LenProperties DEF Types
  <2>2. /\ fleet' \in [Owners -> Seq(States)] /\ fleet'[o] = list
        /\ \A q \in Owners : q # o => fleet'[q] = fleet[q]
    BY <1>a, <1>e DEF Types
  <2>3. o # Operator => Allowed(Len(list))
    <3>1. o # Operator => Allowed(Len(fleet[o]))
      BY <1>a DEF RangeKept
    <3>2. Allowed(Len(fleet[o])) /\ Len(list) <= Len(fleet[o]) => Allowed(Len(list))
      BY <1>a, <2>1 DEF Allowed, Types
    <3>3. Len(list) <= k => Allowed(Len(list))
      BY <1>a, <1>e, <2>1 DEF Allowed, Decided, Counts, Types
    <3> QED BY <1>e, <3>1, <3>2, <3>3
  <2>4. \A q \in Owners \ {Operator} : Allowed(Len(fleet'[q]))
    BY <1>a, <2>2, <2>3 DEF RangeKept
  <2> QED BY <1>c, <1>e, <2>2, <2>4
<1>1. ASSUME NEW c \in Controllers, Tick(c) PROVE Inv'
  <2>1. UNCHANGED <<target, fleet, ghosts, demand, kvHigh>>
    BY <1>1 DEF Tick
  <2>2. /\ pending'[c] \in {0} \cup Counts \cup holds'
        /\ holds' \in SUBSET Nat /\ holds \subseteq holds'
        /\ \A o \in Controllers \ {c} : pending'[o] = pending[o]
        /\ pending' \in [Controllers -> Nat]
        /\ history' \in [Controllers -> SUBSET Samples]
        /\ asked' \in [Controllers -> SUBSET Samples]
        /\ WindowKept'
    BY <1>1, TickFacts
  <2>3. Types'
    BY <1>a, <2>1, <2>2 DEF Types
  <2>4. \A o \in Controllers : pending'[o] \in {0} \cup Counts \cup holds'
    BY <1>a, <2>2 DEF RangeKept, Decided
  <2>5. RangeKept'
    BY <1>a, <2>1, <2>2, <2>4 DEF RangeKept, Decided, Allowed
  <2> QED BY <2>2, <2>3, <2>5 DEF Inv
<1>2. ASSUME NEW c \in Controllers, Publish(c) PROVE Inv'
  BY <1>2, <1>d DEF Publish
<1>3. ASSUME NEW c \in Controllers, StartOrStop(c) PROVE Inv'
  <2>0. /\ c \in Owners /\ fleet[c] \in Seq(States)
        /\ pending[c] \in Nat /\ Decided(pending[c])
    BY <1>a DEF Types, RangeKept, Owners
  <2>1. CASE Len(fleet[c]) = pending[c] \/ Full(fleet[c], pending[c])
    BY <1>3, <1>d, <2>1 DEF StartOrStop
  <2>2. CASE ~(Len(fleet[c]) = pending[c] \/ Full(fleet[c], pending[c]))
    <3>1. /\ Closer(fleet[c], pending[c]) \in Seq(States)
          /\ \/ Len(Closer(fleet[c], pending[c])) <= pending[c]
             \/ Len(Closer(fleet[c], pending[c])) <= Len(fleet[c])
      BY <2>0, <2>2, CloserFacts
    <3>2. /\ fleet' = [fleet EXCEPT ![c] = Closer(fleet[c], pending[c])]
          /\ UNCHANGED <<history, asked, pending, target, holds, demand, kvHigh, ghosts>>
          /\ ghosts' \in Nat
      BY <1>3, <1>a, <2>2 DEF StartOrStop, Types
    <3> QED BY <1>e, <2>0, <3>1, <3>2
  <2> QED BY <2>1, <2>2
<1>4. ASSUME NEW c \in Controllers, Campaign(c) \/ Elected(c) \/ SessionExpires(c) PROVE Inv'
  BY <1>4, <1>a, <1>b DEF Campaign, Elected, SessionExpires, tickVars, Types
<1>5. ASSUME NEW c \in Controllers, Notice(c) \/ ScaleFails(c) PROVE Inv'
  BY <1>5, <1>d DEF Notice, ScaleFails
<1>6. ASSUME NEW c \in Controllers, Shutdown(c) PROVE Inv'
  <2>1. /\ fleet' = [fleet EXCEPT ![c] = <<>>] /\ <<>> \in Seq(States) /\ Len(<<>>) = 0
        /\ UNCHANGED <<history, asked, pending, target, holds, demand, kvHigh>> /\ ghosts' \in Nat
        /\ c \in Owners /\ Decided(0)
    BY <1>6, <1>a, EmptySeq DEF Shutdown, tickVars, Owners, Decided, Types
  <2>2. Len(<<>>) <= 0
    BY <2>1
  <2> QED BY <1>e, <2>1, <2>2
<1>7. ASSUME NEW o \in Owners, NEW i \in DOMAIN fleet[o], NEW s \in States,
             fleet' = [fleet EXCEPT ![o][i] = s], ghosts' \in Nat,
             UNCHANGED <<history, asked, pending, target, holds, demand, kvHigh>>
      PROVE  Inv'
  <2>1. fleet[o] \in Seq(States) /\ i \in 1 .. Len(fleet[o]) /\ Len(fleet[o]) \in Nat
    BY <1>a, LenProperties DEF Types
  <2>2. /\ [fleet[o] EXCEPT ![i] = s] \in Seq(States)
        /\ Len([fleet[o] EXCEPT ![i] = s]) = Len(fleet[o])
    BY <2>1, ExceptSeq
  <2>3. fleet' = [fleet EXCEPT ![o] = [fleet[o] EXCEPT ![i] = s]]
    BY <1>7
  <2>4. Decided(0) /\ Len([fleet[o] EXCEPT ![i] = s]) <= Len(fleet[o])
    BY <2>1, <2>2 DEF Decided
  <2> QED BY <1>e, <1>7, <2>2, <2>3, <2>4
<1>8. ASSUME NEW i \in 1 .. Most, Registers(i) \/ Serves(i) PROVE Inv'
  BY <1>7, <1>8, <1>a DEF Registers, Serves, Advances, States, tickVars, Types
<1>9. CASE Fails
  <2>0. PICK o \in Owners : \E j \in DOMAIN fleet[o] : \E t \in {"unready", "dead"} :
           /\ fleet' = [fleet EXCEPT ![o][j] = t]
           /\ ghosts' = IF t = "dead" /\ fleet[o][j] # "loading" THEN ghosts + 1 ELSE ghosts
    BY <1>9 DEF Fails
  <2>1. PICK i \in DOMAIN fleet[o], s \in {"unready", "dead"} :
           /\ fleet' = [fleet EXCEPT ![o][i] = s]
           /\ ghosts' = IF s = "dead" /\ fleet[o][i] # "loading" THEN ghosts + 1 ELSE ghosts
    BY <2>0
  <2>2. ghosts' \in Nat /\ s \in States
    BY <1>a, <2>1 DEF Types, States
  <2>3. UNCHANGED <<history, asked, pending, target, holds, demand, kvHigh>>
    BY <1>9 DEF Fails, tickVars
  <2> QED BY <1>7, <2>1, <2>2, <2>3
<1>10. CASE Actuate
  <2>0. /\ UNCHANGED <<history, asked, pending, target, holds, demand, kvHigh>> /\ ghosts' \in Nat
        /\ Actuator \in Owners /\ fleet[Actuator] \in Seq(States)
        /\ target \in Nat /\ Decided(target)
    BY <1>10, <1>a DEF Actuate, tickVars, Types, Owners, RangeKept
  <2>1. ASSUME NEW i \in DOMAIN fleet[Actuator],
               fleet' = [fleet EXCEPT ![Actuator] = RemoveAt(fleet[Actuator], i)]
        PROVE  Inv'
    BY <1>e, <2>0, <2>1, RemoveAtFacts
  <2>2. ASSUME Len(fleet[Actuator]) # target,
               fleet' = [fleet EXCEPT ![Actuator] = Closer(fleet[Actuator], target)]
        PROVE  Inv'
    BY <1>e, <2>0, <2>2, CloserFacts
  <2> QED BY <1>10, <2>1, <2>2 DEF Actuate
<1>11. CASE DemandChanges
  BY <1>11, <1>a, <1>b DEF DemandChanges, tickVars, Types
<1>12. CASE LeaseLapses
  BY <1>12, <1>a, <1>b DEF LeaseLapses, tickVars, Types
<1>13. CASE StartedByHand
  <2>1. Operator \in Owners /\ fleet[Operator] \in Seq(States)
    BY <1>a DEF Types, Owners
  <2>2. Append(fleet[Operator], "loading") \in Seq(States)
    BY <2>1, AppendProperties DEF States
  <2>3. /\ fleet' \in [Owners -> Seq(States)]
        /\ \A o \in Owners \ {Operator} : fleet'[o] = fleet[o]
    BY <1>13, <1>a, <2>2 DEF StartedByHand, Types
  <2>4. \A o \in Owners \ {Operator} : Allowed(Len(fleet'[o]))
    BY <1>a, <2>3 DEF RangeKept
  <2> QED BY <1>13, <1>a, <1>c, <2>3, <2>4 DEF StartedByHand, tickVars, Types
<1>14. CASE TimePasses
  <2>1. ASSUME NEW S \in SUBSET Samples PROVE Aged(S) \in SUBSET Samples
    <3>1. ASSUME NEW s \in S
          PROVE  [s EXCEPT !.age = IF @ <= Window THEN @ + 1 ELSE @] \in Samples
      BY DEF Samples
    <3> QED BY <3>1 DEF Aged
  <2>2. \A S, T : S \subseteq T => Aged(S) \subseteq Aged(T)
    BY DEF Aged
  <2>3. /\ history' = [c \in Controllers |-> Aged(history[c])]
        /\ asked' = [c \in Controllers |-> {s \in Aged(asked[c]) : s.age <= Window}]
        /\ UNCHANGED <<pending, target, fleet, ghosts, holds, demand, kvHigh>>
    BY <1>14 DEF TimePasses
  <2>4. /\ history' \in [Controllers -> SUBSET Samples]
        /\ asked' \in [Controllers -> SUBSET Samples]
    BY <1>a, <2>1, <2>3 DEF Types
  <2>5. WindowKept'
    BY <1>a, <2>2, <2>3 DEF WindowKept
  <2> QED BY <1>a, <2>3, <2>4, <2>5 DEF Inv, Types, RangeKept, Decided, Allowed
<1>15. CASE UNCHANGED vars
  BY <1>15, <1>a, <1>b DEF vars, tickVars, Types
<1> QED
  BY <1>1, <1>2, <1>3, <1>4, <1>5, <1>6, <1>8, <1>9, <1>10, <1>11, <1>12, <1>13, <1>14, <1>15
  DEF Next, Controller

LEMMA Invariance == Spec => []Inv
<1>1. Init => Inv
  BY InitInv
<1>2. Inv /\ [Next]_vars => Inv'
  BY NextInv
<1> QED BY <1>1, <1>2, PTL DEF Spec

(* WithinCeiling: however many controllers believe they lead, a count outside
   MinReplicas..MaxReplicas is published, or a fleet grown past the ceiling, only
   on the word of a hold, the one result of Decide that no clamp bounds. *)
THEOREM CeilingHolds == Spec => []WithinCeiling
<1>1. Inv => WithinCeiling
  BY DEF Inv, RangeKept, Decided, Allowed, WithinCeiling
<1> QED BY <1>1, Invariance, PTL

(* SustainedDown: Decide gives up replicas only when no sample it took within
   the stabilization window asked for more than it leaves. *)
THEOREM DownOnlyWhenSustained == Spec => SustainedDown
<1> DEFINE Down == \A c \in Controllers :
                      pending[c] = 0 /\ 0 < pending'[c] /\ pending'[c] < ReadyReplicas =>
                          \A s \in asked'[c] : s.desired <= pending'[c]
<1>1. Inv /\ [Next]_vars => [Down]_vars
  <2> SUFFICES ASSUME Inv, Next, NEW c \in Controllers,
                      pending[c] = 0, 0 < pending'[c], pending'[c] < ReadyReplicas
               PROVE  \A s \in asked'[c] : s.desired <= pending'[c]
    OBVIOUS
  <2>1. pending \in [Controllers -> Nat]
    BY DEF Inv, Types
  <2>2. CASE Tick(c)
    BY <2>2, TickFacts
  <2>3. ASSUME NEW o \in Controllers, o # c, Tick(o) PROVE FALSE
    <3>1. pending'[c] = pending[c]
      BY <2>3, TickFacts
    <3> QED BY <3>1
  <2>4. ASSUME NEW o \in Controllers,
               Publish(o) \/ StartOrStop(o) \/ Notice(o) \/ ScaleFails(o)
        PROVE  FALSE
    <3>1. pending' = [pending EXCEPT ![o] = 0] \/ pending' = pending
      BY <2>4 DEF Publish, StartOrStop, Notice, ScaleFails
    <3> QED BY <2>1, <3>1
  <2>5. ASSUME UNCHANGED pending PROVE FALSE
    BY <2>5
  <2>6. ASSUME NEW o \in Controllers,
               Campaign(o) \/ Elected(o) \/ SessionExpires(o) \/ Shutdown(o)
        PROVE  FALSE
    BY <2>5, <2>6 DEF Campaign, Elected, SessionExpires, Shutdown, tickVars
  <2>7. CASE \/ \E i \in 1..Most : Registers(i) \/ Serves(i)
             \/ Actuate \/ Fails \/ LeaseLapses \/ StartedByHand \/ DemandChanges \/ TimePasses
    BY <2>5, <2>7
    DEF Registers, Serves, Advances, Actuate, Fails, LeaseLapses, StartedByHand, DemandChanges,
        TimePasses, tickVars
  <2> QED BY <2>2, <2>3, <2>4, <2>6, <2>7 DEF Next, Controller
<1> QED BY <1>1, Invariance, PTL DEF Spec, SustainedDown
=============================================================================
