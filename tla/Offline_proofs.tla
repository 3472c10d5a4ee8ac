---------------------------- MODULE Offline_proofs ----------------------------
(***************************************************************************)
(* What is proved of the two programs beside the serving system: a         *)
(* training run that dies anywhere resumes exactly, loses little and       *)
(* leaves its best model behind (module Trainer), and a green chaos        *)
(* scenario was clean and left nothing behind (module Chaos).              *)
(***************************************************************************)
EXTENDS Trainer, Chaos, FiniteSetTheorems, SequenceTheorems, NaturalsInduction,
        WellFoundedInduction, TLAPS

-----------------------------------------------------------------------------
(* Training: the inductive invariant. *)

Updates == [lr : Nat, moments : Nat, batches : [1 .. GradAccum -> Nat], dropout : Nat]

States == [step : 0 .. MaxSteps, bestVal : 0 .. Infinity, weights : Seq(Updates),
           moments : Nat, drawn : Nat, rng : Nat]

(* In the body of the loop, and after it. *)
BodyPoints == {"eval", "best", "best_tmp", "ckpt", "step_tmp"}
LastPoints == {"last_tmp", "last_eval", "last_best", "last_best_tmp", "done"}

TrainTypes ==
    /\ at \in {"down", "loop", "prune"} \cup BodyPoints \cup LastPoints
    /\ trainer \in States
    /\ DOMAIN ckpts \subseteq 1 .. MaxSteps
    /\ \A n \in DOMAIN ckpts : ckpts[n] \in States
    /\ launches \in Nat /\ reached \in Nat /\ overlaid \in BOOLEAN
    /\ at # "down" => launches > 0
    /\ at \in BodyPoints => trainer.step > 0
    /\ at \in LastPoints => trainer.step = MaxSteps
    /\ at \in {"eval", "best", "best_tmp"} => trainer.step % EvalEvery = 0
    /\ at = "step_tmp" => trainer.step % CkptEvery = 0

EvalSteps == {n \in 1 .. MaxSteps : n % EvalEvery = 0}

(* What this process, and those whose checkpoints it continues, have evaluated. *)
EvaluatedSteps ==
    IF at = "eval" THEN {n \in EvalSteps : n < trainer.step}
    ELSE IF at \in {"last_best", "last_best_tmp", "done"} THEN Evaluations
    ELSE {n \in EvalSteps : n <= trainer.step}

IsBestOf(v, E) ==
    /\ \A n \in E : v <= Val[n]
    /\ v = Infinity \/ \E n \in E : Val[n] = v

(* Each best_val is the least of what was evaluated up to there. *)
ValsTrue ==
    /\ at # "down" => IsBestOf(trainer.bestVal, EvaluatedSteps)
    /\ \A n \in DOMAIN ckpts : IsBestOf(ckpts[n].bestVal, {k \in EvalSteps : k <= n})

(* Better than everything evaluated before it. *)
Record(n) == n \in Evaluations /\ \A k \in Evaluations : k < n => Val[n] < Val[k]

(* b is a record of an uninterrupted run, and no earlier than the evaluation that
   gave v: a process that died may have got further. *)
Held(b, v) ==
    /\ Record(b.step) /\ b.bestVal = Val[b.step] /\ Uninterrupted(b)
    /\ \E n \in Evaluations : n <= b.step /\ Val[n] = v

Unsaved == at \in {"best", "best_tmp", "last_best", "last_best_tmp"}

BestHeld ==
    /\ Unsaved => Record(trainer.step) /\ trainer.bestVal = Val[trainer.step]
    /\ ~overlaid /\ at # "down" /\ ~Unsaved /\ trainer.bestVal # Infinity
         => Held(best, trainer.bestVal)
    /\ ~overlaid =>
         \A n \in DOMAIN ckpts : ckpts[n].bestVal # Infinity => Held(best, ckpts[n].bestVal)

(* A checkpoint, or the start, is at most an interval behind s. *)
Near(s) == s <= CkptEvery \/ \E n \in DOMAIN ckpts : s <= n + CkptEvery

Spaced ==
    /\ \A n \in DOMAIN ckpts : n % CkptEvery = 0 \/ n = MaxSteps
    /\ ~overlaid =>
         /\ Near(reached)
         /\ at # "down" => /\ reached <= trainer.step + CkptEvery
                           /\ \A n \in DOMAIN ckpts : n <= trainer.step
         /\ at \in BodyPoints => Near(trainer.step)
         /\ at \in {"loop", "prune"} => Near(trainer.step + 1)

(* The checkpoints a process may find when it starts to save one. *)
Few ==
    KeepLast > 0 =>
        Cardinality(DOMAIN ckpts)
          <= IF at \in {"loop", "last_tmp"} \cup BodyPoints
             THEN KeepLast + launches - 1 ELSE KeepLast + launches

TrainInv == TrainTypes /\ ResumeExact /\ ValsTrue /\ BestHeld /\ Spaced /\ Few

-----------------------------------------------------------------------------
LEMMA TrainConstants ==
  /\ MaxSteps \in Nat /\ MaxSteps > 0 /\ GradAccum \in Nat /\ GradAccum > 0
  /\ EvalEvery \in Nat /\ EvalEvery > 0 /\ CkptEvery \in Nat /\ CkptEvery > 0
  /\ KeepLast \in Nat /\ Infinity \in Nat
BY TrainAssumption

LEMMA ValType ==
  ASSUME NEW n \in 0 .. MaxSteps
  PROVE  Val[n] \in Nat /\ Val[n] < Infinity
BY TrainAssumption

(* A set of numbers up to n that is not empty has a largest ... *)
LEMMA LargestOf ==
  ASSUME NEW S \in SUBSET Nat, NEW n \in Nat, \A x \in S : x <= n, S # {}
  PROVE  Max(S) \in S /\ \A x \in S : x <= Max(S)
<1> DEFINE T == {n - x : x \in S}
<1>1. T \subseteq Nat /\ T # {}
  <2>1. \A x \in S : n - x \in Nat
    OBVIOUS
  <2>2. \A y \in T : y \in Nat
    BY <2>1
  <2> QED BY <2>2
<1>2. PICK m \in T : \A y \in T : ~ (<<y, m>> \in OpToRel(<, Nat))
  BY <1>1, NatLessThanWellFounded, WFMin
<1>3. m \in Nat /\ \A y \in T : y \in Nat /\ ~ (y < m)
  <2>1. ASSUME NEW y \in T PROVE y \in Nat /\ ~ (y < m)
    <3>1. y \in Nat /\ m \in Nat
      BY <1>1
    <3>2. y < m => <<y, m>> \in OpToRel(<, Nat)
      BY <3>1 DEF OpToRel
    <3> QED BY <1>2, <3>1, <3>2
  <2> QED BY <1>1, <2>1
<1>4. PICK x \in S : m = n - x
  OBVIOUS
<1>5. \A y \in S : x >= y
  <2>1. ASSUME NEW y \in S PROVE x >= y
    <3>1. n - y \in T
      OBVIOUS
    <3>2. x \in Nat /\ y \in Nat /\ ~ (n - y < n - x)
      BY <1>3, <1>4, <3>1
    <3> QED BY <3>2
  <2> QED BY <2>1
<1>6. Max(S) \in S /\ \A y \in S : Max(S) >= y
  BY <1>5 DEF Max
<1> QED BY <1>6

(* ... and a smallest. *)
LEMMA SmallestOf ==
  ASSUME NEW S \in SUBSET Nat, S # {}
  PROVE  Min(S) \in S /\ \A x \in S : Min(S) <= x
<1>1. PICK m \in S : \A y \in S : ~ (<<y, m>> \in OpToRel(<, Nat))
  BY NatLessThanWellFounded, WFMin
<1>2. \A y \in S : m <= y
  <2>1. ASSUME NEW y \in S PROVE m <= y
    <3>1. y \in Nat /\ m \in Nat
      OBVIOUS
    <3>2. y < m => <<y, m>> \in OpToRel(<, Nat)
      BY <3>1 DEF OpToRel
    <3>3. ~ (y < m)
      BY <1>1, <3>2
    <3> QED BY <3>1, <3>3
  <2> QED BY <2>1
<1> QED BY <1>2 DEF Min

(* The remainder is determined. *)
LEMMA RemainderUnique ==
  ASSUME NEW d \in Nat, d > 0, NEW q \in Nat, NEW r \in 0 .. d - 1
  PROVE  (d * q + r) % d = r
OBVIOUS

(* The multiples of an interval are an interval apart. *)
LEMMA NextMultiple ==
  ASSUME NEW n \in Nat, NEW d \in Nat, d > 0, n % d = 0
  PROVE  (n + d) % d = 0
<1> DEFINE q == n \div d
           r == n - d * q
<1>a. q \in Nat /\ d * q <= n /\ n < d * q + d
  OBVIOUS
<1>b. d * q \in Int
  BY <1>a
<1> HIDE DEF q
<1>c. r \in 0 .. d - 1 /\ n = d * q + r
  BY <1>a, <1>b
<1> HIDE DEF r
<1>d. n % d = r
  BY <1>a, <1>c, RemainderUnique
<1>1. q \in Nat /\ n = d * q
  BY <1>a, <1>b, <1>c, <1>d
<1>2. q + 1 \in Nat /\ n + d = d * (q + 1) + 0
  BY <1>1
<1>3. (d * (q + 1) + 0) % d = 0
  BY <1>2, RemainderUnique, SMTT(40)
<1> QED BY <1>2, <1>3

LEMMA OneMoreProduct ==
  ASSUME NEW n \in Nat
  PROVE  /\ n * GradAccum \in Nat
         /\ (n + 1) * GradAccum = n * GradAccum + GradAccum
BY TrainConstants

-----------------------------------------------------------------------------
(* Training: its steps. *)

(* Steps that move no state. *)
Passes ==
    /\ UNCHANGED <<trainer, ckpts, best, launches, reached, overlaid>>
    /\ \/ UNCHANGED at
       \/ at = "best" /\ at' = "best_tmp"
       \/ at = "last_best" /\ at' = "last_best_tmp"
       \/ at = "ckpt" /\ trainer.step % CkptEvery = 0 /\ at' = "step_tmp"
       \/ at = "ckpt" /\ trainer.step % CkptEvery # 0 /\ at' = "loop"
       \/ at = "loop" /\ trainer.step >= MaxSteps /\ at' = "last_tmp"

BestRenamed == RenameBest("best_tmp", "ckpt") \/ RenameBest("last_best_tmp", "done")
StepRenamed ==
    \/ trainer.step % CkptEvery = 0 /\ RenameStep("step_tmp", "prune")
    \/ RenameStep("last_tmp", "last_eval")

LEMMA TrainCases ==
  ASSUME [TrainNext(TRUE)]_trainVars
  PROVE  \/ Passes
         \/ \E fresh \in BOOLEAN : Launch(fresh)
         \/ TrainStep
         \/ Evaluate \/ FinalEvaluate
         \/ BestRenamed \/ StepRenamed
         \/ Prune \/ Crash
<1>1. CASE UNCHANGED trainVars
  BY <1>1 DEF trainVars, Passes
<1>2. CASE SaveBest \/ FinalBest
  BY <1>2 DEF SaveBest, FinalBest, BestRenamed, WriteBest, WriteTmp, Passes
<1>3. CASE Checkpoint \/ FinalSave
  BY <1>3 DEF Checkpoint, FinalSave, StepRenamed, WriteStep, WriteTmp, Passes
<1> QED BY <1>1, <1>2, <1>3 DEF TrainNext

(* The state of a process, field by field. *)
LEMMA StateFields ==
  ASSUME NEW s \in States
  PROVE  /\ s.step \in 0 .. MaxSteps /\ s.bestVal \in 0 .. Infinity
         /\ s.weights \in Seq(Updates)
         /\ s.moments \in Nat /\ s.drawn \in Nat /\ s.rng \in Nat
         /\ s = [step |-> s.step, bestVal |-> s.bestVal, weights |-> s.weights,
                 moments |-> s.moments, drawn |-> s.drawn, rng |-> s.rng]
BY DEF States

LEMMA StateMade ==
  ASSUME NEW a \in 0 .. MaxSteps, NEW b \in 0 .. Infinity, NEW w \in Seq(Updates),
         NEW m \in Nat, NEW d \in Nat, NEW r \in Nat
  PROVE  [step |-> a, bestVal |-> b, weights |-> w, moments |-> m, drawn |-> d, rng |-> r]
           \in States
BY DEF States

(* A process is as far as its weights. *)
LEMMA WeightsCounted ==
  ASSUME NEW s \in States, Uninterrupted(s)
  PROVE  Len(s.weights) = s.step
<1>1. s.step \in Nat /\ s.weights = [i \in 1 .. s.step |-> TrueUpdate(i)]
  BY TrainConstants DEF States, Uninterrupted
<1> QED BY <1>1

(* train_step makes the update that an uninterrupted run would make next. *)
LEMMA StepEffect ==
  ASSUME TrainTypes, TrainStep
  PROVE  /\ trainer' \in States
         /\ trainer'.step = trainer.step + 1 /\ trainer'.bestVal = trainer.bestVal
         /\ trainer.step \in Nat /\ trainer.step < MaxSteps
         /\ Uninterrupted(trainer) => Uninterrupted(trainer')
<1> USE TrainConstants
<1> DEFINE n == trainer.step
           u == Update
<1>1. /\ trainer \in States /\ n \in Nat /\ n < MaxSteps
      /\ trainer.weights \in Seq(Updates)
      /\ trainer.moments \in Nat /\ trainer.drawn \in Nat /\ trainer.rng \in Nat
      /\ trainer.bestVal \in 0 .. Infinity
  BY DEF TrainTypes, States, TrainStep
<1>2. trainer' = [trainer EXCEPT !.step = n + 1, !.weights = Append(trainer.weights, u),
                     !.moments = trainer.moments + 1, !.drawn = trainer.drawn + GradAccum,
                     !.rng = trainer.rng + GradAccum]
  BY DEF TrainStep
<1>3. u \in Updates
  BY <1>1 DEF Update, Updates, Batches, LearningRate
<1>4. Append(trainer.weights, u) \in Seq(Updates)
  BY <1>1, <1>3
<1> HIDE DEF n, u
<1>a. trainer' = [step |-> n + 1, bestVal |-> trainer.bestVal,
                  weights |-> Append(trainer.weights, u), moments |-> trainer.moments + 1,
                  drawn |-> trainer.drawn + GradAccum, rng |-> trainer.rng + GradAccum]
  <2>1. trainer = [step |-> trainer.step, bestVal |-> trainer.bestVal,
                   weights |-> trainer.weights, moments |-> trainer.moments,
                   drawn |-> trainer.drawn, rng |-> trainer.rng]
    BY <1>1, StateFields
  <2> QED BY ONLY <1>2, <2>1, Zenon
<1>b. trainer' \in States
  <2>1. /\ n + 1 \in 0 .. MaxSteps /\ trainer.moments + 1 \in Nat
        /\ trainer.drawn + GradAccum \in Nat /\ trainer.rng + GradAccum \in Nat
    BY ONLY <1>1, TrainConstants
  <2> QED BY ONLY <1>1, <1>4, <1>a, <2>1, StateMade
<1>5. /\ trainer'.step = n + 1 /\ trainer'.bestVal = trainer.bestVal
      /\ trainer'.weights = Append(trainer.weights, u)
      /\ trainer'.moments = trainer.moments + 1
      /\ trainer'.drawn = trainer.drawn + GradAccum
      /\ trainer'.rng = trainer.rng + GradAccum
      /\ trainer' \in States
  BY <1>a, <1>b
<1>6. ASSUME Uninterrupted(trainer) PROVE Uninterrupted(trainer')
  <2>1. /\ trainer.weights = [i \in 1 .. n |-> TrueUpdate(i)]
        /\ trainer.moments = n /\ trainer.drawn = n * GradAccum /\ trainer.rng = n * GradAccum
    BY <1>6 DEF Uninterrupted, n
  <2>2. u = TrueUpdate(n + 1)
    <3>1. (n + 1) - 1 = n /\ trainer.step = n
      BY <1>1 DEF n
    <3>2. u = [lr |-> n, moments |-> n, batches |-> [i \in 1 .. GradAccum |-> n * GradAccum + i],
               dropout |-> n * GradAccum]
      BY <2>1, <3>1 DEF u, Update, Batches, LearningRate
    <3>3. TrueUpdate(n + 1) =
            [lr |-> (n + 1) - 1, moments |-> (n + 1) - 1,
             batches |-> [k \in 1 .. GradAccum |-> ((n + 1) - 1) * GradAccum + k],
             dropout |-> ((n + 1) - 1) * GradAccum]
      BY DEF TrueUpdate
    <3> QED BY ONLY <3>1, <3>2, <3>3, Zenon
  <2>3. Append(trainer.weights, u) = [i \in 1 .. n + 1 |-> TrueUpdate(i)]
    BY <1>1, <2>1, <2>2
  <2>4. trainer'.step = n + 1 /\ trainer'.moments = n + 1
        /\ trainer'.drawn = (n + 1) * GradAccum /\ trainer'.rng = (n + 1) * GradAccum
    BY <1>1, <1>5, <2>1, OneMoreProduct
  <2> QED BY <1>5, <2>3, <2>4 DEF Uninterrupted
<1> QED BY <1>1, <1>5, <1>6 DEF n

(* An evaluation finds a better model, or changes nothing. *)
LEMMA EvalEffect ==
  ASSUME TrainTypes, Uninterrupted(trainer), NEW better, NEW otherwise,
         Evaluated(better, otherwise)
  PROVE  /\ trainer' \in States /\ trainer'.step = trainer.step /\ Uninterrupted(trainer')
         /\ trainer.step \in 0 .. MaxSteps
         /\ \/ /\ Val[trainer.step] < trainer.bestVal /\ at' = better
               /\ trainer'.bestVal = Val[trainer.step]
            \/ Val[trainer.step] >= trainer.bestVal /\ at' = otherwise /\ trainer' = trainer
         /\ UNCHANGED <<ckpts, best, launches, reached, overlaid>>
<1> USE TrainConstants
<1>1. trainer \in States /\ trainer.step \in 0 .. MaxSteps /\ trainer.bestVal \in 0 .. Infinity
  BY DEF TrainTypes, States
<1>2. Len(trainer.weights) = trainer.step
  BY <1>1, WeightsCounted
<1> DEFINE val == Val[trainer.step]
<1>3. val \in 0 .. Infinity - 1
  BY <1>1, ValType
<1>4. \/ val < trainer.bestVal /\ trainer' = [trainer EXCEPT !.bestVal = val] /\ at' = better
      \/ ~(val < trainer.bestVal) /\ at' = otherwise /\ trainer' = trainer
  BY <1>2 DEF Evaluated
<1>5. CASE trainer' = [trainer EXCEPT !.bestVal = val]
  <2>a. trainer' = [step |-> trainer.step, bestVal |-> val, weights |-> trainer.weights,
                    moments |-> trainer.moments, drawn |-> trainer.drawn, rng |-> trainer.rng]
    BY <1>1, <1>5, StateFields
  <2>b. val \in 0 .. Infinity
    BY <1>3
  <2>c. trainer' \in States
    BY <1>1, <2>a, <2>b, StateFields, StateMade
  <2>1. /\ trainer' \in States /\ trainer'.bestVal = val
        /\ trainer'.step = trainer.step /\ trainer'.weights = trainer.weights
        /\ trainer'.moments = trainer.moments /\ trainer'.drawn = trainer.drawn
        /\ trainer'.rng = trainer.rng
    BY <2>a, <2>c
  <2> QED BY <1>1, <1>3, <1>4, <2>1 DEF Uninterrupted, Evaluated
<1>6. CASE trainer' = trainer /\ ~(val < trainer.bestVal)
  BY <1>1, <1>3, <1>4, <1>6 DEF Evaluated
<1> QED BY <1>4, <1>5, <1>6

LEMMA FreshState == Fresh \in States /\ Fresh.step = 0 /\ Fresh.bestVal = Infinity /\ Uninterrupted(Fresh)
<1>1. 0 \in 0 .. MaxSteps /\ Infinity \in 0 .. Infinity /\ <<>> \in Seq(Updates)
  BY TrainConstants
<1>2. Fresh \in States
  BY <1>1, StateMade DEF Fresh
<1>3. <<>> = [i \in 1 .. 0 |-> TrueUpdate(i)]
  OBVIOUS
<1>4. 0 * GradAccum = 0
  BY TrainConstants
<1> QED BY <1>2, <1>3, <1>4 DEF Fresh, Uninterrupted

LEMMA LargerOfTwo ==
  ASSUME NEW a \in Nat, NEW b \in Nat
  PROVE  Max({a, b}) = IF a >= b THEN a ELSE b
<1>1. {a, b} \in SUBSET Nat /\ \A x \in {a, b} : x <= a + b
  OBVIOUS
<1>2. Max({a, b}) \in {a, b} /\ \A x \in {a, b} : x <= Max({a, b})
  BY <1>1, LargestOf
<1> QED BY <1>2

(* A resumed process starts from a checkpoint that is no older than any other. *)
LEMMA LaunchEffect ==
  ASSUME TrainTypes, NEW fresh \in BOOLEAN, Launch(fresh)
  PROVE  \/ /\ trainer' = Fresh
            /\ overlaid' \/ DOMAIN ckpts = {}
         \/ /\ LatestCheckpoint \in DOMAIN ckpts /\ trainer' = ckpts[LatestCheckpoint]
            /\ \A n \in DOMAIN ckpts : n <= LatestCheckpoint
<1>1. CASE fresh \/ DOMAIN ckpts = {}
  BY <1>1 DEF Launch
<1>2. CASE ~fresh /\ DOMAIN ckpts # {}
  <2>1. MaxSteps \in Nat /\ DOMAIN ckpts \in SUBSET Nat /\ \A n \in DOMAIN ckpts : n <= MaxSteps
    BY TrainConstants DEF TrainTypes
  <2>2. /\ LatestCheckpoint \in DOMAIN ckpts
        /\ \A n \in DOMAIN ckpts : n <= LatestCheckpoint
    BY <1>2, <2>1, LargestOf DEF LatestCheckpoint
  <2>3. trainer' = ckpts[LatestCheckpoint]
    BY <1>2 DEF Launch, Loaded
  <2> QED BY <2>2, <2>3
<1> QED BY <1>1, <1>2

(* The rename of a step file. *)
LEMMA RenameEffect ==
  ASSUME TrainTypes, StepRenamed
  PROVE  /\ DOMAIN ckpts' = DOMAIN ckpts \cup {trainer.step}
         /\ ckpts'[trainer.step] = trainer
         /\ \A n \in DOMAIN ckpts : n # trainer.step => ckpts'[n] = ckpts[n]
         /\ UNCHANGED <<trainer, best, launches, reached, overlaid>>
         /\ trainer \in States /\ trainer.step \in 1 .. MaxSteps
         /\ \/ at = "step_tmp" /\ at' = "prune" /\ trainer.step % CkptEvery = 0
            \/ at = "last_tmp" /\ at' = "last_eval" /\ trainer.step = MaxSteps
<1>1. trainer \in States /\ trainer.step \in 0 .. MaxSteps
  BY StateFields DEF TrainTypes
<1>2. \/ at = "step_tmp" /\ at' = "prune" /\ trainer.step % CkptEvery = 0
      \/ at = "last_tmp" /\ at' = "last_eval" /\ trainer.step = MaxSteps
  BY DEF StepRenamed, RenameStep, TrainTypes, LastPoints
<1>3. trainer.step \in 1 .. MaxSteps
  <2>1. at = "step_tmp" => trainer.step > 0
    BY DEF TrainTypes, BodyPoints
  <2> QED BY <1>1, <1>2, <2>1, TrainConstants
<1>4. /\ ckpts' = [n \in DOMAIN ckpts \cup {trainer.step} |->
                      IF n = trainer.step THEN trainer ELSE ckpts[n]]
      /\ UNCHANGED <<trainer, best, launches, reached, overlaid>>
  BY DEF StepRenamed, RenameStep
<1> QED BY <1>1, <1>2, <1>3, <1>4

(* prune_checkpoints removes checkpoints, never the latest. *)
LEMMA PruneEffect ==
  ASSUME TrainTypes, Prune
  PROVE  /\ DOMAIN ckpts' \subseteq DOMAIN ckpts
         /\ \A n \in DOMAIN ckpts' : ckpts'[n] = ckpts[n]
         /\ \A n \in DOMAIN ckpts : \E k \in DOMAIN ckpts' : n <= k
         /\ at = "prune" /\ at' \in {"prune", "loop"}
         /\ UNCHANGED <<trainer, best, launches, reached, overlaid>>
<1>0. DOMAIN ckpts \in SUBSET Nat
  BY TrainConstants DEF TrainTypes
<1>1. CASE Superseded = {} /\ at' = "loop" /\ UNCHANGED ckpts
  BY <1>0, <1>1 DEF Prune
<1>2. CASE /\ Superseded # {} /\ at' = at
           /\ ckpts' = [n \in DOMAIN ckpts \ {Min(Superseded)} |-> ckpts[n]]
  <2> DEFINE m == Max(DOMAIN ckpts)
             old == Min(Superseded)
  <2>1. MaxSteps \in Nat /\ \A k \in DOMAIN ckpts : k <= MaxSteps
    BY TrainConstants DEF TrainTypes
  <2>2. Superseded \in SUBSET Nat /\ Superseded \subseteq DOMAIN ckpts /\ DOMAIN ckpts # {}
    BY <1>0, <1>2 DEF Superseded
  <2>3. m \in DOMAIN ckpts /\ m \in Nat /\ \A k \in DOMAIN ckpts : k <= m
    BY <1>0, <2>1, <2>2, LargestOf
  <2>4. old \in Superseded
    BY <1>2, <2>2, SmallestOf
  <2> HIDE DEF m, old
  <2>5. {k \in DOMAIN ckpts : k > m} = {}
    BY <1>0, <2>3
  <2>6. KeepLast # 0 => m \in Kept
    BY <2>3, <2>5, FS_EmptySet, TrainConstants DEF Kept
  <2>7. old # m
    BY <2>4, <2>6 DEF Superseded
  <2>8. ckpts' = [n \in DOMAIN ckpts \ {old} |-> ckpts[n]]
    BY <1>2 DEF old
  <2>9. m \in DOMAIN ckpts' /\ DOMAIN ckpts' = DOMAIN ckpts \ {old}
    BY <2>3, <2>7, <2>8
  <2> QED BY <1>2, <2>3, <2>8, <2>9 DEF Prune
<1> QED BY <1>1, <1>2 DEF Prune

-----------------------------------------------------------------------------
(* Training: each part of the invariant is kept. *)

LEMMA TrainTypesNext == TrainInv /\ [TrainNext(TRUE)]_trainVars => TrainTypes'
<1> SUFFICES ASSUME TrainInv, [TrainNext(TRUE)]_trainVars PROVE TrainTypes'
  OBVIOUS
<1>a. TrainTypes /\ (at # "down" => Uninterrupted(trainer))
  BY DEF TrainInv, ResumeExact
<1>b. /\ trainer \in States /\ trainer.step \in 0 .. MaxSteps
      /\ DOMAIN ckpts \subseteq 1 .. MaxSteps /\ \A n \in DOMAIN ckpts : ckpts[n] \in States
      /\ launches \in Nat /\ reached \in Nat /\ overlaid \in BOOLEAN
  BY <1>a, StateFields DEF TrainTypes
<1> USE TrainConstants
<1>1. CASE Passes
  BY <1>1, <1>a, <1>b DEF Passes, TrainTypes, BodyPoints, LastPoints
<1>2. ASSUME NEW fresh \in BOOLEAN, Launch(fresh) PROVE TrainTypes'
  <2>1. trainer' \in States
    BY <1>2, <1>a, <1>b, LaunchEffect, FreshState
  <2>2. /\ at' = "loop" /\ launches' = launches + 1 /\ ckpts' = ckpts /\ reached' = reached
        /\ overlaid' \in BOOLEAN
    BY <1>2, <1>b DEF Launch
  <2> QED BY <1>b, <2>1, <2>2 DEF TrainTypes, BodyPoints, LastPoints
<1>3. CASE TrainStep
  <2>1. trainer' \in States /\ trainer'.step = trainer.step + 1 /\ trainer.step \in Nat
    BY <1>3, <1>a, StepEffect
  <2>2. reached' \in Nat
    <3>1. reached' = Max({reached, trainer.step + 1}) /\ trainer.step + 1 \in Nat
      BY <1>3, <2>1 DEF TrainStep
    <3> QED BY ONLY <1>b, <3>1, LargerOfTwo
  <2>3. /\ ckpts' = ckpts /\ launches' = launches /\ overlaid' = overlaid /\ at = "loop"
        /\ \/ at' = "eval" /\ (trainer.step + 1) % EvalEvery = 0
           \/ at' = "ckpt"
    BY <1>3 DEF TrainStep
  <2>4. launches > 0
    BY <1>a, <2>3 DEF TrainTypes
  <2> QED BY <1>b, <2>1, <2>2, <2>3, <2>4 DEF TrainTypes, BodyPoints, LastPoints
<1>4. CASE Evaluate
  <2>1. at = "eval" /\ Evaluated("best", "ckpt")
    BY <1>4 DEF Evaluate
  <2>2. /\ trainer' \in States /\ trainer'.step = trainer.step
        /\ at' \in {"best", "ckpt"} /\ UNCHANGED <<ckpts, launches, reached, overlaid>>
    BY <1>a, <2>1, EvalEffect
  <2>3. trainer.step > 0 /\ trainer.step % EvalEvery = 0 /\ launches > 0
    BY <1>a, <2>1 DEF TrainTypes, BodyPoints
  <2> QED BY <1>b, <2>2, <2>3 DEF TrainTypes, BodyPoints, LastPoints
<1>5. CASE FinalEvaluate
  <2>1. at = "last_eval" /\ Evaluated("last_best", "done")
    BY <1>5 DEF FinalEvaluate
  <2>2. /\ trainer' \in States /\ trainer'.step = trainer.step
        /\ at' \in {"last_best", "done"} /\ UNCHANGED <<ckpts, launches, reached, overlaid>>
    BY <1>a, <2>1, EvalEffect
  <2>3. trainer.step = MaxSteps /\ launches > 0
    BY <1>a, <2>1 DEF TrainTypes, LastPoints
  <2> QED BY <1>b, <2>2, <2>3 DEF TrainTypes, BodyPoints, LastPoints
<1>6. CASE BestRenamed
  BY <1>6, <1>a DEF BestRenamed, RenameBest, TrainTypes, BodyPoints, LastPoints
<1>7. CASE StepRenamed
  <2>1. /\ DOMAIN ckpts' \subseteq 1 .. MaxSteps
        /\ \A n \in DOMAIN ckpts' : ckpts'[n] \in States
    <3>1. /\ DOMAIN ckpts' = DOMAIN ckpts \cup {trainer.step} /\ ckpts'[trainer.step] = trainer
          /\ \A n \in DOMAIN ckpts : n # trainer.step => ckpts'[n] = ckpts[n]
          /\ trainer.step \in 1 .. MaxSteps
      BY <1>7, <1>a, RenameEffect
    <3> QED BY ONLY <1>b, <3>1
  <2>2. /\ UNCHANGED <<trainer, best, launches, reached, overlaid>>
        /\ \/ at = "step_tmp" /\ at' = "prune"
           \/ at = "last_tmp" /\ at' = "last_eval" /\ trainer.step = MaxSteps
    BY <1>7, <1>a, RenameEffect
  <2>3. launches > 0
    BY <1>a, <2>2 DEF TrainTypes
  <2> QED BY <1>b, <2>1, <2>2, <2>3 DEF TrainTypes, BodyPoints, LastPoints
<1>8. CASE Prune
  <2>1. /\ DOMAIN ckpts' \subseteq 1 .. MaxSteps
        /\ \A n \in DOMAIN ckpts' : ckpts'[n] \in States
        /\ at = "prune" /\ at' \in {"prune", "loop"}
        /\ UNCHANGED <<trainer, best, launches, reached, overlaid>>
    BY <1>8, <1>a, <1>b, PruneEffect
  <2>2. launches > 0
    BY <1>a, <2>1 DEF TrainTypes
  <2> QED BY <1>b, <2>1, <2>2 DEF TrainTypes, BodyPoints, LastPoints
<1>9. CASE Crash
  BY <1>9, <1>b, FreshState DEF Crash, TrainTypes, BodyPoints, LastPoints
<1> QED BY <1>1, <1>2, <1>3, <1>4, <1>5, <1>6, <1>7, <1>8, <1>9, TrainCases

(* Whatever is loaded, stepped, saved or lost is a state of an uninterrupted run. *)
LEMMA ResumeExactNext == TrainInv /\ [TrainNext(TRUE)]_trainVars => ResumeExact'
<1> SUFFICES ASSUME TrainInv, [TrainNext(TRUE)]_trainVars PROVE ResumeExact'
  OBVIOUS
<1>a. /\ TrainTypes /\ (at # "down" => Uninterrupted(trainer))
      /\ \A n \in DOMAIN ckpts : ckpts[n].step = n /\ Uninterrupted(ckpts[n])
  BY DEF TrainInv, ResumeExact
<1>b. SUFFICES /\ at' # "down" => Uninterrupted(trainer')
               /\ \A n \in DOMAIN ckpts' : ckpts'[n].step = n /\ Uninterrupted(ckpts'[n])
  BY DEF ResumeExact
<1>1. CASE Passes
  BY <1>1, <1>a DEF Passes
<1>2. ASSUME NEW fresh \in BOOLEAN, Launch(fresh) PROVE Uninterrupted(trainer') /\ ckpts' = ckpts
  <2>1. ckpts' = ckpts
    BY <1>2 DEF Launch
  <2> QED BY <1>2, <1>a, <2>1, LaunchEffect, FreshState
<1>3. CASE TrainStep
  <2>1. at = "loop" /\ ckpts' = ckpts
    BY <1>3 DEF TrainStep
  <2> QED BY <1>3, <1>a, <2>1, StepEffect
<1>4. CASE Evaluate
  <2>1. at = "eval" /\ Evaluated("best", "ckpt")
    BY <1>4 DEF Evaluate
  <2> QED BY <1>a, <2>1, EvalEffect
<1>5. CASE FinalEvaluate
  <2>1. at = "last_eval" /\ Evaluated("last_best", "done")
    BY <1>5 DEF FinalEvaluate
  <2> QED BY <1>a, <2>1, EvalEffect
<1>6. CASE BestRenamed
  <2>1. UNCHANGED <<trainer, ckpts>> /\ at # "down"
    BY <1>6 DEF BestRenamed, RenameBest
  <2> QED BY <1>a, <2>1
<1>7. CASE StepRenamed
  <2>1. /\ DOMAIN ckpts' = DOMAIN ckpts \cup {trainer.step} /\ ckpts'[trainer.step] = trainer
        /\ \A n \in DOMAIN ckpts : n # trainer.step => ckpts'[n] = ckpts[n]
        /\ trainer' = trainer /\ at # "down"
    BY <1>7, <1>a, RenameEffect
  <2>2. ASSUME NEW n \in DOMAIN ckpts' PROVE ckpts'[n].step = n /\ Uninterrupted(ckpts'[n])
    <3>1. CASE n = trainer.step
      BY <1>a, <2>1, <3>1
    <3>2. CASE n # trainer.step
      BY <1>a, <2>1, <3>2
    <3> QED BY <3>1, <3>2
  <2> QED BY <1>a, <2>1, <2>2
<1>8. CASE Prune
  <2>1. /\ DOMAIN ckpts' \subseteq DOMAIN ckpts /\ \A n \in DOMAIN ckpts' : ckpts'[n] = ckpts[n]
        /\ at # "down" /\ trainer' = trainer
    BY <1>8, <1>a, PruneEffect
  <2> QED BY <1>a, <2>1
<1>9. CASE Crash
  BY <1>9, <1>a DEF Crash
<1> QED BY <1>1, <1>2, <1>3, <1>4, <1>5, <1>6, <1>7, <1>8, <1>9, <1>a, TrainCases

(* The evaluations, and those inside the loop. *)
LEMMA EvaluationFacts ==
  /\ EvalSteps \subseteq 1 .. MaxSteps /\ Evaluations \subseteq 1 .. MaxSteps
  /\ EvalSteps \subseteq Evaluations /\ MaxSteps \in Evaluations
  /\ \A n \in Evaluations : n \in EvalSteps \/ n = MaxSteps
  /\ \A n \in Evaluations : n \in 0 .. MaxSteps /\ n \in Nat /\ n <= MaxSteps
BY TrainConstants DEF EvalSteps, Evaluations

(* A better value is the best of one evaluation more, and a value that is as good
   stays the best. *)
LEMMA OneMoreEvaluation ==
  ASSUME NEW v \in 0 .. Infinity, NEW E \in SUBSET (0 .. MaxSteps), NEW n \in 0 .. MaxSteps,
         IsBestOf(v, E)
  PROVE  /\ Val[n] < v => IsBestOf(Val[n], E \cup {n}) /\ \A k \in E : Val[n] < Val[k]
         /\ Val[n] >= v => IsBestOf(v, E \cup {n})
<1>1. Infinity \in Nat /\ Val[n] \in Nat /\ \A k \in E : Val[k] \in Nat
  BY TrainConstants, ValType
<1>2. (\A k \in E : v <= Val[k]) /\ (v = Infinity \/ \E k \in E : Val[k] = v)
  BY DEF IsBestOf
<1>3. ASSUME Val[n] < v PROVE \A k \in E : Val[n] < Val[k]
  BY <1>1, <1>2, <1>3
<1>4. ASSUME Val[n] < v PROVE IsBestOf(Val[n], E \cup {n})
  BY <1>1, <1>3, <1>4 DEF IsBestOf
<1>5. ASSUME Val[n] >= v PROVE IsBestOf(v, E \cup {n})
  BY <1>1, <1>2, <1>5 DEF IsBestOf
<1> QED BY <1>3, <1>4, <1>5

(* What an evaluation finds. *)
LEMMA EvaluateFacts ==
  ASSUME TrainInv,
         \/ at = "eval" /\ Evaluated("best", "ckpt")
         \/ at = "last_eval" /\ Evaluated("last_best", "done")
  PROVE  /\ trainer'.step = trainer.step
         /\ IsBestOf(trainer'.bestVal, EvaluatedSteps')
         /\ \/ /\ at' \in {"best", "last_best"} /\ trainer'.bestVal = Val[trainer.step]
               /\ Record(trainer.step)
            \/ at' \in {"ckpt", "done"} /\ trainer' = trainer
         /\ UNCHANGED <<ckpts, best, launches, reached, overlaid>>
<1> DEFINE n == trainer.step
           E == EvaluatedSteps
<1>1. /\ TrainTypes /\ at # "down" /\ Uninterrupted(trainer) /\ IsBestOf(trainer.bestVal, E)
      /\ trainer \in States /\ n \in 0 .. MaxSteps /\ trainer.bestVal \in 0 .. Infinity
  BY StateFields DEF TrainInv, ResumeExact, ValsTrue, TrainTypes
<1>2. \E better, otherwise :
        /\ Evaluated(better, otherwise)
        /\ \/ at = "eval" /\ better = "best" /\ otherwise = "ckpt"
           \/ at = "last_eval" /\ better = "last_best" /\ otherwise = "done"
  OBVIOUS
<1>3. PICK better, otherwise :
        /\ Evaluated(better, otherwise)
        /\ \/ at = "eval" /\ better = "best" /\ otherwise = "ckpt"
           \/ at = "last_eval" /\ better = "last_best" /\ otherwise = "done"
  BY <1>2
<1>4. /\ trainer'.step = n
      /\ \/ Val[n] < trainer.bestVal /\ at' = better /\ trainer'.bestVal = Val[n]
         \/ Val[n] >= trainer.bestVal /\ at' = otherwise /\ trainer' = trainer
      /\ UNCHANGED <<ckpts, best, launches, reached, overlaid>>
  BY <1>1, <1>3, EvalEffect
<1>5. EvaluatedSteps' = E \cup {n} /\ E \subseteq 0 .. MaxSteps /\ n \in Evaluations
      /\ \A k \in Evaluations : k < n => k \in E
  <2>1. CASE at = "eval"
    <3>1. at' \in {"best", "ckpt"} /\ E = {k \in EvalSteps : k < n}
      BY <1>3, <1>4, <2>1 DEF EvaluatedSteps
    <3>2. EvaluatedSteps' = {k \in EvalSteps : k <= n}
      BY <1>4, <3>1 DEF EvaluatedSteps, EvalSteps
    <3>3. n \in EvalSteps
      BY <1>1, <2>1, TrainConstants DEF TrainTypes, BodyPoints, EvalSteps
    <3>4. \A k \in EvalSteps : k \in Nat /\ (k <= n <=> k < n \/ k = n)
      BY <1>1, EvaluationFacts
    <3>5. \A k : k \in EvaluatedSteps' <=> k \in E \cup {n}
      BY <1>1, <3>1, <3>2, <3>3, <3>4
    <3>6. E \subseteq 0 .. MaxSteps /\ n \in Evaluations
      BY <3>1, <3>3, EvaluationFacts
    <3>7. \A k \in Evaluations : k < n => k \in E
      <4>1. ASSUME NEW k \in Evaluations, k < n PROVE k \in EvalSteps
        BY <1>1, <4>1, EvaluationFacts, TrainConstants
      <4> QED BY <3>1, <4>1
    <3> QED BY <3>5, <3>6, <3>7
  <2>2. CASE at = "last_eval"
    <3>1. n = MaxSteps
      BY <1>1, <2>2 DEF TrainTypes, LastPoints
    <3>2. E = {k \in EvalSteps : k <= n} /\ EvaluatedSteps' = Evaluations
      BY <1>3, <1>4, <2>2 DEF EvaluatedSteps, Evaluations
    <3>3. \A k \in EvalSteps : k <= n
      BY <3>1, EvaluationFacts
    <3>4. E = EvalSteps
      BY <3>2, <3>3
    <3>5. \A k \in Evaluations : k < n => k \in E
      <4>1. ASSUME NEW k \in Evaluations, k < n PROVE k # MaxSteps
        BY <3>1, <4>1, TrainConstants
      <4> QED BY <3>4, <4>1, EvaluationFacts
    <3>6. \A k : k \in Evaluations <=> k \in EvalSteps \cup {MaxSteps}
      BY EvaluationFacts
    <3> QED BY <3>1, <3>2, <3>4, <3>5, <3>6, EvaluationFacts
  <2> QED BY <1>3, <2>1, <2>2
<1> HIDE DEF n, E
<1>6. CASE Val[n] < trainer.bestVal
  <2>1. IsBestOf(Val[n], E \cup {n}) /\ \A k \in E : Val[n] < Val[k]
    BY <1>1, <1>5, <1>6, OneMoreEvaluation
  <2>2. Record(n)
    BY <1>5, <2>1 DEF Record
  <2>3. Val[n] \in Nat /\ trainer.bestVal \in Nat
    BY <1>1, ValType
  <2> QED BY <1>3, <1>4, <1>5, <1>6, <2>1, <2>2, <2>3 DEF n
<1>7. CASE Val[n] >= trainer.bestVal
  <2>1. IsBestOf(trainer.bestVal, E \cup {n})
    BY <1>1, <1>5, <1>7, OneMoreEvaluation
  <2>2. Val[n] \in Nat /\ trainer.bestVal \in Nat
    BY <1>1, ValType
  <2>3. trainer' = trainer /\ at' = otherwise
    BY <1>4, <1>7, <2>2
  <2> QED BY <1>3, <1>4, <1>5, <2>1, <2>3
<1> QED BY <1>4, <1>6, <1>7

LEMMA ValsTrueNext == TrainInv /\ [TrainNext(TRUE)]_trainVars => ValsTrue'
<1> SUFFICES ASSUME TrainInv, [TrainNext(TRUE)]_trainVars PROVE ValsTrue'
  OBVIOUS
<1> DEFINE UpTo(n) == {k \in EvalSteps : k <= n}
           CkptsTrue(c) == \A n \in DOMAIN c : IsBestOf(c[n].bestVal, UpTo(n))
<1>a. /\ TrainTypes /\ trainer \in States /\ trainer.step \in 0 .. MaxSteps
      /\ at # "down" => IsBestOf(trainer.bestVal, EvaluatedSteps)
      /\ CkptsTrue(ckpts)
      /\ \A n \in DOMAIN ckpts : ckpts[n].step = n
  BY StateFields DEF TrainInv, TrainTypes, ValsTrue, ResumeExact
<1>b. SUFFICES /\ at' # "down" => IsBestOf(trainer'.bestVal, EvaluatedSteps')
               /\ CkptsTrue(ckpts')
  BY DEF ValsTrue, EvalSteps
<1>c. ASSUME at' \notin {"eval", "last_best", "last_best_tmp", "done"}
      PROVE  EvaluatedSteps' = UpTo(trainer'.step)
  BY <1>c DEF EvaluatedSteps, EvalSteps
<1>d. ASSUME at \notin {"eval", "last_best", "last_best_tmp", "done"}
      PROVE  EvaluatedSteps = UpTo(trainer.step)
  BY <1>d DEF EvaluatedSteps
<1>e. at' \in {"last_best", "last_best_tmp", "done"} => EvaluatedSteps' = Evaluations
  BY DEF EvaluatedSteps, Evaluations
<1>1. CASE Passes
  <2>1. trainer' = trainer /\ ckpts' = ckpts
    BY <1>1 DEF Passes
  <2>2. at' = at \/ (at = "last_best" /\ at' = "last_best_tmp")
        \/ (/\ at \notin {"down", "eval", "last_best", "last_best_tmp", "done"}
            /\ at' \notin {"down", "eval", "last_best", "last_best_tmp", "done"})
    BY <1>1 DEF Passes
  <2>3. (at' = "down" <=> at = "down") /\ EvaluatedSteps' = EvaluatedSteps
    BY <2>1, <2>2, <1>c, <1>d DEF EvaluatedSteps, EvalSteps, Evaluations
  <2> QED BY <1>a, <2>1, <2>3
<1>2. ASSUME NEW fresh \in BOOLEAN, Launch(fresh)
      PROVE  IsBestOf(trainer'.bestVal, EvaluatedSteps') /\ ckpts' = ckpts
  <2>1. at' = "loop" /\ ckpts' = ckpts
    BY <1>2 DEF Launch
  <2>2. EvaluatedSteps' = UpTo(trainer'.step)
    BY <1>c, <2>1
  <2>3. CASE trainer' = Fresh
    <3>1. \A k \in EvalSteps : ~ (k <= 0)
      BY EvaluationFacts
    <3>2. EvaluatedSteps' = {}
      BY <2>2, <2>3, <3>1, FreshState
    <3>3. trainer'.bestVal = Infinity
      BY <2>3, FreshState
    <3> QED BY <2>1, <3>2, <3>3 DEF IsBestOf
  <2>4. CASE LatestCheckpoint \in DOMAIN ckpts /\ trainer' = ckpts[LatestCheckpoint]
    BY <1>a, <2>1, <2>2, <2>4
  <2> QED BY <1>2, <1>a, <2>3, <2>4, LaunchEffect
<1>3. CASE TrainStep
  <2>1. /\ at = "loop" /\ ckpts' = ckpts
        /\ at' = IF (trainer.step + 1) % EvalEvery = 0 THEN "eval" ELSE "ckpt"
    BY <1>3 DEF TrainStep
  <2>2. trainer'.step = trainer.step + 1 /\ trainer'.bestVal = trainer.bestVal
    BY <1>3, <1>a, StepEffect
  <2>3. EvaluatedSteps = UpTo(trainer.step)
    BY <1>d, <2>1
  <2>4. \A k \in EvalSteps : k \in Nat /\ k % EvalEvery = 0
    BY EvaluationFacts DEF EvalSteps
  <2>5. CASE at' = "eval"
    <3>1. EvaluatedSteps' = {k \in EvalSteps : k < trainer.step + 1}
      BY <2>2, <2>5 DEF EvaluatedSteps, EvalSteps
    <3>2. \A k \in EvalSteps : k < trainer.step + 1 <=> k <= trainer.step
      BY <1>a, <2>4
    <3>3. EvaluatedSteps' = EvaluatedSteps
      BY <2>3, <3>1, <3>2
    <3> QED BY <1>a, <2>1, <2>2, <3>3
  <2>6. CASE at' = "ckpt" /\ (trainer.step + 1) % EvalEvery # 0
    <3>1. EvaluatedSteps' = UpTo(trainer.step + 1)
      BY <1>c, <2>2, <2>6
    <3>2. \A k \in EvalSteps : k <= trainer.step + 1 <=> k <= trainer.step
      BY <1>a, <2>4, <2>6
    <3>3. EvaluatedSteps' = EvaluatedSteps
      BY <2>3, <3>1, <3>2
    <3> QED BY <1>a, <2>1, <2>2, <3>3
  <2> QED BY <2>1, <2>5, <2>6
<1>4. CASE Evaluate \/ FinalEvaluate
  BY <1>4, <1>a, EvaluateFacts DEF Evaluate, FinalEvaluate
<1>5. CASE BestRenamed
  <2>1. /\ trainer' = trainer /\ ckpts' = ckpts
        /\ \/ at = "best_tmp" /\ at' = "ckpt"
           \/ at = "last_best_tmp" /\ at' = "done"
    BY <1>5 DEF BestRenamed, RenameBest
  <2>2. EvaluatedSteps' = EvaluatedSteps
    BY <2>1, <1>c, <1>d, <1>e DEF EvaluatedSteps
  <2> QED BY <1>a, <2>1, <2>2
<1>6. CASE StepRenamed
  <2>1. /\ DOMAIN ckpts' = DOMAIN ckpts \cup {trainer.step} /\ ckpts'[trainer.step] = trainer
        /\ \A n \in DOMAIN ckpts : n # trainer.step => ckpts'[n] = ckpts[n]
        /\ trainer' = trainer
        /\ \/ at = "step_tmp" /\ at' = "prune"
           \/ at = "last_tmp" /\ at' = "last_eval"
    BY <1>6, <1>a, RenameEffect
  <2>2. EvaluatedSteps = UpTo(trainer.step) /\ EvaluatedSteps' = UpTo(trainer.step)
    BY <2>1, <1>c, <1>d
  <2>3. IsBestOf(trainer.bestVal, UpTo(trainer.step))
    BY <1>a, <2>1, <2>2
  <2>4. ASSUME NEW n \in DOMAIN ckpts' PROVE IsBestOf(ckpts'[n].bestVal, UpTo(n))
    BY <1>a, <2>1, <2>3
  <2> QED BY <2>1, <2>2, <2>3, <2>4
<1>7. CASE Prune
  <2>1. /\ DOMAIN ckpts' \subseteq DOMAIN ckpts /\ \A n \in DOMAIN ckpts' : ckpts'[n] = ckpts[n]
        /\ at = "prune" /\ at' \in {"prune", "loop"} /\ trainer' = trainer
    BY <1>7, <1>a, PruneEffect
  <2>2. EvaluatedSteps' = EvaluatedSteps
    BY <2>1, <1>c, <1>d
  <2> QED BY <1>a, <2>1, <2>2
<1>8. CASE Crash
  BY <1>8, <1>a DEF Crash
<1> QED BY <1>1, <1>2, <1>3, <1>4, <1>5, <1>6, <1>7, <1>8, <1>a, TrainCases

LEMMA BestHeldNext == TrainInv /\ [TrainNext(TRUE)]_trainVars => BestHeld'
<1> SUFFICES ASSUME TrainInv, [TrainNext(TRUE)]_trainVars PROVE BestHeld'
  OBVIOUS
<1>a. /\ TrainTypes /\ BestHeld
      /\ \A n \in DOMAIN ckpts : IsBestOf(ckpts[n].bestVal, {k \in EvalSteps : k <= n})
  BY DEF TrainInv, ValsTrue
<1> DEFINE Pending(p) == p \in {"best", "best_tmp", "last_best", "last_best_tmp"}
<1>b. /\ Pending(at) => Record(trainer.step) /\ trainer.bestVal = Val[trainer.step]
      /\ ~overlaid /\ at # "down" /\ ~Pending(at) /\ trainer.bestVal # Infinity
           => Held(best, trainer.bestVal)
      /\ ~overlaid =>
           \A n \in DOMAIN ckpts : ckpts[n].bestVal # Infinity => Held(best, ckpts[n].bestVal)
  BY <1>a DEF BestHeld, Unsaved
<1>c. SUFFICES
      /\ Pending(at') => Record(trainer'.step) /\ trainer'.bestVal = Val[trainer'.step]
      /\ ~overlaid' /\ at' # "down" /\ ~Pending(at') /\ trainer'.bestVal # Infinity
           => Held(best', trainer'.bestVal)
      /\ ~overlaid' =>
           \A n \in DOMAIN ckpts' : ckpts'[n].bestVal # Infinity => Held(best', ckpts'[n].bestVal)
  BY DEF BestHeld, Unsaved
<1>1. CASE Passes
  <2>1. UNCHANGED <<trainer, ckpts, best, overlaid>>
    BY <1>1 DEF Passes
  <2>2. (Pending(at') <=> Pending(at)) /\ (at' = "down" <=> at = "down")
    BY <1>1 DEF Passes
  <2> QED BY <1>b, <2>1, <2>2
<1>2. ASSUME NEW fresh \in BOOLEAN, Launch(fresh)
      PROVE  /\ at' = "loop" /\ ckpts' = ckpts /\ best' = best
             /\ ~overlaid' => ~overlaid
             /\ ~overlaid' /\ trainer'.bestVal # Infinity => Held(best', trainer'.bestVal)
  <2>1. /\ at' = "loop" /\ ckpts' = ckpts /\ best' = best /\ (~overlaid' => ~overlaid)
    BY <1>2 DEF Launch
  <2>2. \/ trainer' = Fresh
        \/ LatestCheckpoint \in DOMAIN ckpts /\ trainer' = ckpts[LatestCheckpoint]
    BY <1>2, <1>a, LaunchEffect
  <2> QED BY <1>b, <2>1, <2>2, FreshState
<1>3. CASE TrainStep
  <2>1. at = "loop" /\ at' \in {"eval", "ckpt"} /\ UNCHANGED <<ckpts, best, overlaid>>
    BY <1>3 DEF TrainStep
  <2>2. trainer'.bestVal = trainer.bestVal
    BY <1>3, <1>a, StepEffect
  <2> QED BY <1>b, <2>1, <2>2
<1>4. CASE Evaluate \/ FinalEvaluate
  <2>1. at \in {"eval", "last_eval"}
    BY <1>4 DEF Evaluate, FinalEvaluate
  <2>2. /\ trainer'.step = trainer.step
        /\ \/ /\ at' \in {"best", "last_best"} /\ trainer'.bestVal = Val[trainer.step]
              /\ Record(trainer.step)
           \/ at' \in {"ckpt", "done"} /\ trainer' = trainer
        /\ UNCHANGED <<ckpts, best, overlaid>>
    BY <1>4, EvaluateFacts DEF Evaluate, FinalEvaluate
  <2> QED BY <1>b, <2>1, <2>2
<1>5. CASE BestRenamed
  <2>1. /\ UNCHANGED <<trainer, ckpts, overlaid>> /\ best' = trainer
        /\ Pending(at) /\ at' \in {"ckpt", "done"} /\ at # "down"
    BY <1>5 DEF BestRenamed, RenameBest
  <2>2. /\ Record(trainer.step) /\ trainer.bestVal = Val[trainer.step] /\ Uninterrupted(trainer)
        /\ trainer.step \in Nat
    BY <1>b, <2>1, EvaluationFacts DEF TrainInv, ResumeExact, Record
  <2>3. Held(trainer, trainer.bestVal)
    BY <2>2 DEF Held, Record
  <2>4. ASSUME ~overlaid, NEW n \in DOMAIN ckpts, ckpts[n].bestVal # Infinity
        PROVE  Held(trainer, ckpts[n].bestVal)
    <3>1. PICK k \in EvalSteps : k <= n /\ Val[k] = ckpts[n].bestVal
      BY <1>a, <2>4 DEF IsBestOf
    <3>2. n \in Nat /\ n <= trainer.step
      BY <2>1, <2>4, <1>a DEF TrainInv, Spaced, TrainTypes
    <3>3. k \in Evaluations /\ k <= trainer.step
      BY <2>2, <3>1, <3>2, EvaluationFacts
    <3> QED BY <2>2, <3>1, <3>3 DEF Held
  <2> QED BY <2>1, <2>3, <2>4
<1>6. CASE StepRenamed
  <2>1. /\ DOMAIN ckpts' = DOMAIN ckpts \cup {trainer.step} /\ ckpts'[trainer.step] = trainer
        /\ \A n \in DOMAIN ckpts : n # trainer.step => ckpts'[n] = ckpts[n]
        /\ UNCHANGED <<trainer, best, overlaid>>
        /\ at \in {"step_tmp", "last_tmp"} /\ at' \in {"prune", "last_eval"}
    BY <1>6, <1>a, RenameEffect
  <2>2. ASSUME ~overlaid, NEW n \in DOMAIN ckpts', ckpts'[n].bestVal # Infinity
        PROVE  Held(best, ckpts'[n].bestVal)
    <3>1. CASE n = trainer.step
      BY <1>b, <2>1, <2>2, <3>1
    <3>2. CASE n # trainer.step
      BY <1>b, <2>1, <2>2, <3>2
    <3> QED BY <3>1, <3>2
  <2> QED BY <1>b, <2>1, <2>2
<1>7. CASE Prune
  <2>1. /\ DOMAIN ckpts' \subseteq DOMAIN ckpts /\ \A n \in DOMAIN ckpts' : ckpts'[n] = ckpts[n]
        /\ at = "prune" /\ at' \in {"prune", "loop"} /\ UNCHANGED <<trainer, best, overlaid>>
    BY <1>7, <1>a, PruneEffect
  <2> QED BY <1>b, <2>1
<1>8. CASE Crash
  BY <1>8, <1>b DEF Crash
<1> QED BY <1>1, <1>2, <1>3, <1>4, <1>5, <1>6, <1>7, <1>8, <1>b, TrainCases

(* A step that is no multiple of the interval has the next one as near. *)
LEMMA NearNext ==
  ASSUME NEW D \in SUBSET Nat, \A n \in D : n % CkptEvery = 0 \/ n = MaxSteps,
         NEW s \in 0 .. MaxSteps, s % CkptEvery # 0,
         s <= CkptEvery \/ \E n \in D : s <= n + CkptEvery
  PROVE  s + 1 <= CkptEvery \/ \E n \in D : s + 1 <= n + CkptEvery
<1> USE TrainConstants
<1>1. CASE s <= CkptEvery
  <2>1. 0 % CkptEvery = 0 /\ 0 + CkptEvery = CkptEvery
    OBVIOUS
  <2>2. CkptEvery % CkptEvery = 0
    BY <2>1, NextMultiple
  <2>3. s # CkptEvery
    BY <2>2
  <2> QED BY <1>1, <2>3
<1>2. ASSUME NEW n \in D, s <= n + CkptEvery PROVE s + 1 <= n + CkptEvery
  <2>1. n \in Nat
    OBVIOUS
  <2>2. s # n + CkptEvery
    <3>1. CASE n % CkptEvery = 0
      <4>1. (n + CkptEvery) % CkptEvery = 0
        BY ONLY <2>1, <3>1, NextMultiple, TrainConstants
      <4> QED BY <4>1
    <3>2. CASE n = MaxSteps
      BY <3>2
    <3> QED BY <3>1, <3>2
  <2> QED BY <1>2, <2>1, <2>2
<1> QED BY <1>1, <1>2

LEMMA SpacedNext == TrainInv /\ [TrainNext(TRUE)]_trainVars => Spaced'
<1> SUFFICES ASSUME TrainInv, [TrainNext(TRUE)]_trainVars PROVE Spaced'
  OBVIOUS
<1> USE TrainConstants
<1> DEFINE NearIn(D, s) == s <= CkptEvery \/ \E n \in D : s <= n + CkptEvery
           Regular(D) == \A n \in D : n % CkptEvery = 0 \/ n = MaxSteps
           Close(p, D, s, r) ==
               /\ NearIn(D, r)
               /\ p # "down" => r <= s + CkptEvery /\ \A n \in D : n <= s
               /\ p \in BodyPoints => NearIn(D, s)
               /\ p \in {"loop", "prune"} => NearIn(D, s + 1)
           D0 == DOMAIN ckpts
           s0 == trainer.step
<1>a. /\ TrainTypes /\ Regular(D0) /\ (~overlaid => Close(at, D0, s0, reached))
      /\ s0 \in 0 .. MaxSteps /\ s0 \in Nat /\ reached \in Nat
      /\ D0 \subseteq 1 .. MaxSteps /\ D0 \in SUBSET Nat
      /\ \A n \in D0 : ckpts[n].step = n
  BY StateFields DEF TrainInv, TrainTypes, Spaced, Near, ResumeExact
<1>b. SUFFICES Regular(DOMAIN ckpts') /\ (~overlaid' => Close(at', DOMAIN ckpts', trainer'.step, reached'))
  BY DEF Spaced, Near, BodyPoints
<1>1. CASE Passes
  <2>1. UNCHANGED <<trainer, ckpts, reached, overlaid>>
    BY <1>1 DEF Passes
  <2>2. \/ at' = at
        \/ at \in BodyPoints /\ at' \in BodyPoints
        \/ at = "ckpt" /\ s0 % CkptEvery # 0 /\ at' = "loop"
        \/ /\ at # "down" /\ at' # "down" /\ at' \notin BodyPoints /\ at' \notin {"loop", "prune"}
    BY <1>1 DEF Passes, BodyPoints
  <2>3. CASE at = "ckpt" /\ s0 % CkptEvery # 0 /\ at' = "loop"
    <3>1. ~overlaid => NearIn(D0, s0)
      BY <1>a, <2>3 DEF BodyPoints
    <3>2. ~overlaid => NearIn(D0, s0 + 1)
      BY <1>a, <2>3, <3>1, NearNext
    <3> QED BY <1>a, <2>1, <2>3, <3>2 DEF BodyPoints
  <2>4. CASE at' = at \/ (at \in BodyPoints /\ at' \in BodyPoints)
    BY <1>a, <2>1, <2>4 DEF BodyPoints
  <2>5. CASE at # "down" /\ at' # "down" /\ at' \notin BodyPoints /\ at' \notin {"loop", "prune"}
    BY <1>a, <2>1, <2>5
  <2> QED BY <2>2, <2>3, <2>4, <2>5
<1>2. ASSUME NEW fresh \in BOOLEAN, Launch(fresh)
      PROVE  DOMAIN ckpts' = D0 /\ (~overlaid' => Close(at', D0, trainer'.step, reached'))
  <2>1. at' = "loop" /\ ckpts' = ckpts /\ reached' = reached /\ (~overlaid' => ~overlaid)
    BY <1>2 DEF Launch
  <2>2. ASSUME ~overlaid' PROVE Close("loop", D0, trainer'.step, reached)
    <3>0. NearIn(D0, reached)
      BY <1>a, <2>1, <2>2
    <3>1. CASE trainer' = Fresh /\ D0 = {}
      <4>1. trainer'.step = 0
        BY <3>1, FreshState
      <4>2. reached <= 0 + CkptEvery /\ NearIn(D0, 0 + 1)
        BY <1>a, <3>0, <3>1
      <4> QED BY <3>0, <3>1, <4>1, <4>2 DEF BodyPoints
    <3>2. CASE /\ LatestCheckpoint \in D0 /\ trainer' = ckpts[LatestCheckpoint]
               /\ \A n \in D0 : n <= LatestCheckpoint
      <4>1. trainer'.step = LatestCheckpoint /\ LatestCheckpoint \in Nat
        BY <1>a, <3>2
      <4>2. reached <= LatestCheckpoint + CkptEvery
        BY <1>a, <3>0, <3>2, <4>1
      <4>3. NearIn(D0, LatestCheckpoint + 1)
        BY <3>2, <4>1
      <4> QED BY <3>0, <3>2, <4>1, <4>2, <4>3 DEF BodyPoints
    <3> QED BY <1>2, <1>a, <2>2, <3>1, <3>2, LaunchEffect
  <2> QED BY <2>1, <2>2
<1>3. CASE TrainStep
  <2>1. /\ at = "loop" /\ at' \in {"eval", "ckpt"} /\ ckpts' = ckpts /\ overlaid' = overlaid
        /\ reached' = Max({reached, s0 + 1})
    BY <1>3 DEF TrainStep
  <2>2. trainer'.step = s0 + 1
    BY <1>3, <1>a, StepEffect
  <2>3. reached' = IF reached >= s0 + 1 THEN reached ELSE s0 + 1
    BY <1>a, <2>1, LargerOfTwo
  <2>4. ASSUME ~overlaid PROVE Close(at', D0, s0 + 1, reached')
    <3>1. NearIn(D0, reached) /\ NearIn(D0, s0 + 1) /\ reached <= s0 + CkptEvery /\ \A n \in D0 : n <= s0
      BY <1>a, <2>1, <2>4
    <3>2. NearIn(D0, reached') /\ reached' <= (s0 + 1) + CkptEvery /\ \A n \in D0 : n <= s0 + 1
      BY <1>a, <2>3, <3>1
    <3> QED BY <2>1, <3>1, <3>2
  <2> QED BY <1>a, <2>1, <2>2, <2>4
<1>4. CASE Evaluate \/ FinalEvaluate
  <2>1. /\ trainer'.step = s0 /\ UNCHANGED <<ckpts, reached, overlaid>>
        /\ at' \in {"best", "last_best", "ckpt", "done"}
    BY <1>4, EvaluateFacts DEF Evaluate, FinalEvaluate
  <2>2. \/ at = "eval" /\ at' \in {"best", "ckpt"}
        \/ at = "last_eval" /\ at' \in {"last_best", "done"}
    BY <1>4 DEF Evaluate, FinalEvaluate, Evaluated
  <2> QED BY <1>a, <2>1, <2>2 DEF BodyPoints
<1>5. CASE BestRenamed
  <2>1. /\ UNCHANGED <<trainer, ckpts, reached, overlaid>>
        /\ \/ at = "best_tmp" /\ at' = "ckpt"
           \/ at = "last_best_tmp" /\ at' = "done"
    BY <1>5 DEF BestRenamed, RenameBest
  <2> QED BY <1>a, <2>1 DEF BodyPoints
<1>6. CASE StepRenamed
  <2>1. /\ DOMAIN ckpts' = D0 \cup {s0} /\ UNCHANGED <<trainer, reached, overlaid>>
        /\ \/ at = "step_tmp" /\ at' = "prune" /\ s0 % CkptEvery = 0
           \/ at = "last_tmp" /\ at' = "last_eval" /\ s0 = MaxSteps
    BY <1>6, <1>a, RenameEffect
  <2>2. Regular(D0 \cup {s0})
    BY <1>a, <2>1
  <2>3. ASSUME ~overlaid PROVE Close(at', D0 \cup {s0}, s0, reached)
    <3>1. NearIn(D0, reached) /\ reached <= s0 + CkptEvery /\ \A n \in D0 : n <= s0
      BY <1>a, <2>1, <2>3
    <3>2. NearIn(D0 \cup {s0}, reached) /\ NearIn(D0 \cup {s0}, s0 + 1)
      BY <1>a, <3>1
    <3>3. \A n \in D0 \cup {s0} : n <= s0
      BY <1>a, <3>1
    <3> QED BY <2>1, <3>1, <3>2, <3>3 DEF BodyPoints
  <2> QED BY <2>1, <2>2, <2>3
<1>7. CASE Prune
  <2>1. /\ DOMAIN ckpts' \subseteq D0 /\ \A n \in D0 : \E k \in DOMAIN ckpts' : n <= k
        /\ at = "prune" /\ at' \in {"prune", "loop"} /\ UNCHANGED <<trainer, reached, overlaid>>
    BY <1>7, <1>a, PruneEffect
  <2>2. ASSUME NEW s \in Nat, NearIn(D0, s) PROVE NearIn(DOMAIN ckpts', s)
    <3>1. CASE s <= CkptEvery
      BY <3>1
    <3>2. ASSUME NEW n \in D0, s <= n + CkptEvery PROVE \E k \in DOMAIN ckpts' : s <= k + CkptEvery
      <4>1. PICK k \in DOMAIN ckpts' : n <= k
        BY <2>1
      <4>2. n \in Nat /\ k \in Nat
        BY <1>a, <2>1
      <4> QED BY <3>2, <4>1, <4>2
    <3> QED BY <2>2, <3>1, <3>2
  <2>3. Regular(DOMAIN ckpts')
    BY <1>a, <2>1
  <2>4. ASSUME ~overlaid PROVE Close(at', DOMAIN ckpts', s0, reached)
    <3>1. /\ NearIn(D0, reached) /\ NearIn(D0, s0 + 1) /\ reached <= s0 + CkptEvery
          /\ \A n \in D0 : n <= s0
      BY <1>a, <2>1, <2>4
    <3>2. NearIn(DOMAIN ckpts', reached) /\ NearIn(DOMAIN ckpts', s0 + 1)
      BY <1>a, <2>2, <3>1
    <3> QED BY <2>1, <3>1, <3>2 DEF BodyPoints
  <2> QED BY <2>1, <2>3, <2>4
<1>8. CASE Crash
  <2>1. at' = "down" /\ UNCHANGED <<ckpts, reached, overlaid>>
    BY <1>8 DEF Crash
  <2> QED BY <1>a, <2>1 DEF BodyPoints
<1> QED BY <1>1, <1>2, <1>3, <1>4, <1>5, <1>6, <1>7, <1>8, <1>a, TrainCases

(* prune_checkpoints leaves no more than keep_last. *)
LEMMA KeptFew ==
  ASSUME TrainTypes, KeepLast > 0
  PROVE  IsFiniteSet(Kept) /\ Cardinality(Kept) <= KeepLast
<1> USE TrainConstants
<1>1. DOMAIN ckpts \in SUBSET Nat /\ IsFiniteSet(DOMAIN ckpts)
  <2>1. IsFiniteSet(1 .. MaxSteps)
    BY FS_Interval
  <2> QED BY <2>1, FS_Subset DEF TrainTypes
<1>2. Kept \subseteq DOMAIN ckpts /\ IsFiniteSet(Kept) /\ Kept \in SUBSET Nat
  BY <1>1, FS_Subset DEF Kept
<1>3. CASE Kept = {}
  BY <1>3, FS_EmptySet
<1>4. CASE Kept # {}
  <2> DEFINE m == Min(Kept)
             Above == {k \in DOMAIN ckpts : k > m}
  <2>1. m \in Kept /\ \A x \in Kept : m <= x
    BY <1>2, <1>4, SmallestOf
  <2> HIDE DEF m
  <2>2. Cardinality(Above) < KeepLast
    BY <2>1 DEF Kept
  <2>3. IsFiniteSet(Above) /\ Cardinality(Above) \in Nat
    BY <1>1, FS_Subset, FS_CardinalityType
  <2>4. \A x \in Kept \ {m} : x \in Above
    BY <1>2, <2>1
  <2>5. Kept \ {m} \subseteq Above
    BY <2>4
  <2>6. IsFiniteSet(Kept \ {m}) /\ Cardinality(Kept \ {m}) <= Cardinality(Above)
    BY <2>3, <2>5, FS_Subset
  <2>7. Cardinality(Kept \ {m}) = Cardinality(Kept) - 1 /\ Cardinality(Kept) \in Nat
    BY <1>2, <2>1, FS_RemoveElement, FS_CardinalityType
  <2>8. Cardinality(Kept \ {m}) \in Nat
    BY <2>6, FS_CardinalityType
  <2> HIDE DEF Above
  <2> QED BY <1>2, <2>2, <2>3, <2>6, <2>7, <2>8
<1> QED BY <1>3, <1>4

LEMMA FewNext == TrainInv /\ [TrainNext(TRUE)]_trainVars => Few'
<1> SUFFICES ASSUME TrainInv, [TrainNext(TRUE)]_trainVars, KeepLast > 0 PROVE Few'
  BY DEF Few
<1> USE TrainConstants
<1> DEFINE Room(p, k) == IF p \in {"loop", "last_tmp"} \cup BodyPoints THEN KeepLast + k - 1
                         ELSE KeepLast + k
           card == Cardinality(DOMAIN ckpts)
<1>a. /\ TrainTypes /\ launches \in Nat /\ (at # "down" => launches > 0)
      /\ IsFiniteSet(DOMAIN ckpts) /\ card \in Nat
      /\ card <= Room(at, launches)
  <2>1. IsFiniteSet(1 .. MaxSteps)
    BY FS_Interval
  <2>2. IsFiniteSet(DOMAIN ckpts)
    BY <2>1, FS_Subset DEF TrainInv, TrainTypes
  <2> QED BY <2>2, FS_CardinalityType DEF TrainInv, TrainTypes, Few
<1>b. SUFFICES Cardinality(DOMAIN ckpts') <= Room(at', launches')
  BY DEF Few, BodyPoints
<1>1. CASE Passes
  <2>1. UNCHANGED <<ckpts, launches>>
    BY <1>1 DEF Passes
  <2>2. Room(at', launches) = Room(at, launches)
        \/ (at' = "last_best_tmp" /\ at = "last_best")
    BY <1>1 DEF Passes, BodyPoints
  <2> QED BY <1>a, <2>1, <2>2 DEF BodyPoints
<1>2. ASSUME NEW fresh \in BOOLEAN, Launch(fresh)
      PROVE  Cardinality(DOMAIN ckpts') <= Room(at', launches')
  <2>1. /\ at \in {"down", "done"} /\ at' = "loop" /\ ckpts' = ckpts /\ launches' = launches + 1
    BY <1>2 DEF Launch
  <2> QED BY <1>a, <2>1 DEF BodyPoints
<1>3. CASE TrainStep
  <2>1. at = "loop" /\ at' \in {"eval", "ckpt"} /\ ckpts' = ckpts /\ launches' = launches
    BY <1>3 DEF TrainStep
  <2> QED BY <1>a, <2>1 DEF BodyPoints
<1>4. CASE Evaluate \/ FinalEvaluate
  <2>1. /\ UNCHANGED <<ckpts, launches>>
        /\ \/ at = "eval" /\ at' \in {"best", "ckpt"}
           \/ at = "last_eval" /\ at' \in {"last_best", "done"}
    BY <1>4 DEF Evaluate, FinalEvaluate, Evaluated
  <2> QED BY <1>a, <2>1 DEF BodyPoints
<1>5. CASE BestRenamed
  <2>1. /\ UNCHANGED <<ckpts, launches>>
        /\ \/ at = "best_tmp" /\ at' = "ckpt"
           \/ at = "last_best_tmp" /\ at' = "done"
    BY <1>5 DEF BestRenamed, RenameBest
  <2> QED BY <1>a, <2>1 DEF BodyPoints
<1>6. CASE StepRenamed
  <2>1. /\ DOMAIN ckpts' = DOMAIN ckpts \cup {trainer.step} /\ launches' = launches
        /\ \/ at = "step_tmp" /\ at' = "prune"
           \/ at = "last_tmp" /\ at' = "last_eval"
    BY <1>6, <1>a, RenameEffect
  <2>2. Cardinality(DOMAIN ckpts') \in {card, card + 1}
    BY <1>a, <2>1, FS_AddElement
  <2>3. card <= KeepLast + launches - 1
    BY <1>a, <2>1 DEF BodyPoints
  <2>4. Room(at', launches') = KeepLast + launches
    BY <2>1 DEF BodyPoints
  <2> QED BY <1>a, <2>2, <2>3, <2>4
<1>7. CASE Prune
  <2>1. at = "prune" /\ launches' = launches
    BY <1>7 DEF Prune
  <2>2. CASE Superseded = {} /\ at' = "loop" /\ UNCHANGED ckpts
    <3>0. Kept \subseteq DOMAIN ckpts
      BY DEF Kept
    <3>1. DOMAIN ckpts' = Kept
      BY <2>2, <3>0 DEF Superseded
    <3>2. Cardinality(Kept) <= KeepLast /\ Cardinality(Kept) \in Nat
      BY <1>a, KeptFew, FS_CardinalityType
    <3> QED BY <1>a, <2>1, <2>2, <3>1, <3>2
  <2>3. CASE /\ at' = at
             /\ ckpts' = [n \in DOMAIN ckpts \ {Min(Superseded)} |-> ckpts[n]]
    <3>1. DOMAIN ckpts' \subseteq DOMAIN ckpts
      BY <2>3
    <3>2. IsFiniteSet(DOMAIN ckpts') /\ Cardinality(DOMAIN ckpts') <= card
      BY <1>a, <3>1, FS_Subset
    <3>3. Cardinality(DOMAIN ckpts') \in Nat
      BY <3>2, FS_CardinalityType
    <3> QED BY <1>a, <2>1, <2>3, <3>2, <3>3
  <2> QED BY <1>7, <2>2, <2>3 DEF Prune
<1>8. CASE Crash
  <2>1. at' = "down" /\ UNCHANGED <<ckpts, launches>>
    BY <1>8 DEF Crash
  <2> QED BY <1>a, <2>1 DEF BodyPoints
<1> QED BY <1>1, <1>2, <1>3, <1>4, <1>5, <1>6, <1>7, <1>8, TrainCases

-----------------------------------------------------------------------------
LEMMA TrainInvInit == TrainInit => TrainInv
<1> SUFFICES ASSUME TrainInit PROVE TrainInv
  OBVIOUS
<1> USE TrainConstants
<1>1. /\ at = "down" /\ trainer = Fresh /\ DOMAIN ckpts = {}
      /\ launches = 0 /\ reached = 0 /\ overlaid = FALSE
  BY DEF TrainInit
<1>2. TrainTypes
  BY <1>1, FreshState DEF TrainTypes, BodyPoints, LastPoints
<1>3. ResumeExact /\ ValsTrue
  BY <1>1 DEF ResumeExact, ValsTrue
<1>4. BestHeld
  BY <1>1 DEF BestHeld, Unsaved
<1>5. Spaced
  BY <1>1 DEF Spaced, Near, BodyPoints
<1>6. Few
  BY <1>1, FS_EmptySet DEF Few, BodyPoints
<1> QED BY <1>2, <1>3, <1>4, <1>5, <1>6 DEF TrainInv

(* At the end nothing better than best.pt was evaluated. *)
LEMMA BestAtEnd == TrainInv => BestIsBest
<1> SUFFICES ASSUME TrainInv, at = "done", ~overlaid
             PROVE  /\ Val[best.step] = Min({Val[n] : n \in Evaluations})
                    /\ best.bestVal = Val[best.step] /\ Uninterrupted(best)
  BY DEF BestIsBest
<1> DEFINE v == trainer.bestVal
           Vs == {Val[n] : n \in Evaluations}
<1>1. /\ \A n \in Evaluations : v <= Val[n]
      /\ v = Infinity \/ \E n \in Evaluations : Val[n] = v
  BY DEF TrainInv, ValsTrue, EvaluatedSteps, IsBestOf
<1>2. \A n \in Evaluations : Val[n] \in Nat /\ Val[n] < Infinity
  BY EvaluationFacts, ValType
<1>3. v \in Nat /\ Infinity \in Nat
  BY StateFields, TrainConstants DEF TrainInv, TrainTypes
<1>4. v # Infinity
  BY <1>1, <1>2, <1>3, EvaluationFacts
<1>5. Held(best, v)
  BY <1>4 DEF TrainInv, BestHeld, Unsaved
<1>6. PICK n \in Evaluations : n <= best.step /\ Val[n] = v
  BY <1>5 DEF Held
<1>7. best.step \in Evaluations /\ \A k \in Evaluations : k < best.step => Val[best.step] < Val[k]
  BY <1>5 DEF Held, Record
<1>8. Val[best.step] = v
  <2>1. n \in Nat /\ best.step \in Nat
    BY <1>6, <1>7, EvaluationFacts
  <2>2. n < best.step \/ n = best.step
    BY <1>6, <2>1
  <2>3. CASE n < best.step
    BY <1>1, <1>2, <1>3, <1>6, <1>7, <2>3
  <2> QED BY <1>6, <2>2, <2>3
<1>9. Vs \in SUBSET Nat /\ v \in Vs /\ \A x \in Vs : v <= x
  BY <1>1, <1>2, <1>7, <1>8
<1>10. Min(Vs) \in Vs /\ \A x \in Vs : Min(Vs) <= x
  BY <1>9, SmallestOf
<1>11. Min(Vs) = v
  <2>1. Min(Vs) \in Nat /\ Min(Vs) <= v /\ v <= Min(Vs)
    BY <1>9, <1>10
  <2> HIDE DEF Vs
  <2> QED BY <1>3, <2>1
<1> QED BY <1>5, <1>8, <1>11 DEF Held

LEMMA LittleLostHeld == TrainInv => LittleLost
<1> SUFFICES ASSUME TrainInv PROVE LittleLost
  OBVIOUS
<1>1. at # "down" /\ ~overlaid => trainer.step + CkptEvery >= reached
  <2>1. trainer.step \in Nat /\ reached \in Nat
    BY StateFields, TrainConstants DEF TrainInv, TrainTypes
  <2> QED BY <2>1, TrainConstants DEF TrainInv, Spaced
<1>2. KeepLast > 0 => Cardinality(DOMAIN ckpts) <= KeepLast + launches
  <2>1. launches \in Nat
    BY DEF TrainInv, TrainTypes
  <2>2. IsFiniteSet(1 .. MaxSteps)
    BY TrainConstants, FS_Interval
  <2>3. Cardinality(DOMAIN ckpts) \in Nat
    BY <2>2, FS_Subset, FS_CardinalityType DEF TrainInv, TrainTypes
  <2> QED BY <2>1, <2>3, TrainConstants DEF TrainInv, Few
<1> QED BY <1>1, <1>2 DEF LittleLost

(* Whether the data are there decides when a process starts, and nothing else: a step
   of module Training's trainer is one of TrainerSpec. *)
LEMMA DataOnlyGates ==
  ASSUME NEW loads, TrainNext(loads)
  PROVE  TrainNext(TRUE)
BY DEF TrainNext

LEMMA TrainInvariant == TrainerSpec => []TrainInv
<1>1. TrainInv /\ [TrainNext(TRUE)]_trainVars => TrainInv'
  BY TrainTypesNext, ResumeExactNext, ValsTrueNext, BestHeldNext, SpacedNext, FewNext DEF TrainInv
<1> QED BY <1>1, TrainInvInit, PTL DEF TrainerSpec

(* ResumeExact: a process, and every checkpoint that load_state_dict may be given, is
   where an uninterrupted run of as many steps is, for every length of the run, every
   interval and any number of crashes. *)
THEOREM ResumesExactly == TrainerSpec => []ResumeExact
<1>1. TrainInv => ResumeExact
  BY DEF TrainInv
<1> QED BY <1>1, TrainInvariant, PTL

(* BestIsBest: when fit() returns, best.pt is the best model of all evaluations of the
   run, those of the processes that died included, whatever the losses are. *)
THEOREM BestModelKept == TrainerSpec => []BestIsBest
BY BestAtEnd, TrainInvariant, PTL

(* LittleLost: a launch takes up at most ckpt_every steps behind the furthest process,
   although prune_checkpoints removes files and a crash may come between any two
   steps; there is at most one file per process beyond keep_last. *)
THEOREM LittleWorkLost == TrainerSpec => []LittleLost
BY LittleLostHeld, TrainInvariant, PTL

-----------------------------------------------------------------------------
(* The chaos suite: the inductive invariant. *)

Drivers == [stop : BOOLEAN, joined : BOOLEAN, log : Seq(BOOLEAN), marks : Seq(Nat)]
Proxies == [mode : {"pass", "blackhole", "delay"}, on : BOOLEAN,
            link : {"none", "accepted", "held", "piped", "closed"}]
Views == [fault : BOOLEAN, drop : BOOLEAN, refused : SUBSET Services,
          cut : SUBSET Services]

Body == Running /\ verdict = "open"
Clause == Running /\ verdict # "open"

ChaosTypes ==
    /\ scenario \in DOMAIN ALL \cup {"none", "over"}
    /\ verdict \in {"open", "pass", "fail", "raised", "exit"}
    /\ Body => step \in 1 .. Len(ALL[scenario])
    /\ Clause => step \in 1 .. 7
    /\ driver \in Drivers /\ worker \in [Workers -> {"loop", "busy", "gone"}]
    /\ proxy \in Proxies /\ seen \in Views
    /\ up \subseteq Services /\ stopped \in BOOLEAN

(* No client that would send again. *)
Quiet == driver.stop \/ \A w \in Workers : worker[w] = "gone"

(* The services that may be down when nothing is left for the finally clause to do. *)
Lost(v) == v.refused \cup v.cut

(* What the finally clause has undone before its k-th step. *)
Tidy(k) ==
    /\ k > 1 => Quiet
    /\ k > 3 => ~proxy.on /\ proxy.link # "piped"
    /\ k > 4 => "extra" \notin procs
    /\ k > 5 => procs = {}
    /\ k > 6 => Services \ up \subseteq Lost(seen)

(* The scenario has a service to start again: its flag says so, or is about to. *)
Owing == Running /\ (stopped \/ At("set"))

Tidied ==
    /\ Services \ up \subseteq Lost(seen) \cup (IF Owing THEN {Service} ELSE {})
    /\ At("clear") => Service \in up
    /\ seen.cut # {} => verdict = "exit" /\ scenario # "none"
    /\ Clause => Tidy(step)
    /\ ~Running => Tidy(7)

(* Where a script takes its first mark, makes its fault, and joins the last driver. *)
FirstMark(name) == IF name \in {"network_partition", "slow_replica"} THEN 6 ELSE 3
FaultAt(name) == IF name = "traffic_spike" THEN 8 ELSE FirstMark(name) + 1
JoinAt(name) == IF name = "traffic_spike" THEN 11 ELSE Len(ALL[name]) - 2

(* A failure that lies in a phase, or will when the last mark is taken. *)
InPhase(d, i, marked) ==
    /\ i \in DOMAIN d.log /\ ~d.log[i]
    /\ d.marks # <<>> => i > d.marks[1]
    /\ marked => i <= d.marks[Len(d.marks)]

(* The script of name, before its k-th step, with driver d, fault f and drop x. *)
OnScript(name, k, d, f, x) ==
    /\ k > JoinAt(name) => d.joined
    /\ k > FaultAt(name) => f
    /\ \A j \in DOMAIN d.marks : d.marks[j] <= Len(d.log)
    /\ x => \E i \in DOMAIN d.log :
                InPhase(d, i, name # "traffic_spike" /\ k = Len(ALL[name]))
    /\ name = "traffic_spike" => d.marks = <<>> /\ (k = 8 => d.joined)
    /\ name # "traffic_spike" =>
         /\ k <= JoinAt(name) => ~d.joined
         /\ k <= FirstMark(name) => ~f /\ ~x /\ d.marks = <<>>
         /\ k > FirstMark(name) => d.marks # <<>>

Judged ==
    /\ verdict = "pass" => driver.joined /\ seen.fault /\ ~seen.drop
    /\ Body => OnScript(scenario, step, driver, seen.fault, seen.drop)

ChaosInv == ChaosTypes /\ Tidied /\ Judged

-----------------------------------------------------------------------------
(* The chaos suite: its scripts. *)

FaultSteps == {"kill", "term", "blackhole", "delay", "docker_stop"}
PlainSteps == {"start", "proxy", "spawn", "binary", "ready", "probe", "evicted", "baseline",
               "sample", "share", "docker_start", "set", "clear", "stop"}

(* What the script of name, n steps long, may have at k. *)
OrderedAt(name, n, k, s) ==
    /\ s = "judge" <=> k = n
    /\ s = "drive" => IF name = "traffic_spike" THEN k \in {4, 8} ELSE k < FirstMark(name)
    /\ s = "mark" => /\ name # "traffic_spike" /\ k < n
                     /\ k = FirstMark(name) \/ k > FirstMark(name) + 1
    /\ s = "join" => IF name = "traffic_spike" THEN k \in {7, 11} ELSE k = n - 2
    /\ s \in FaultSteps => name # "traffic_spike" /\ k = FirstMark(name) + 1
    /\ k = FaultAt(name) => IF name = "traffic_spike" THEN s = "drive" ELSE s \in FaultSteps
    /\ name = "traffic_spike" /\ k \in {7, 11} => s = "join"
    /\ name # "traffic_spike" => /\ k = FirstMark(name) => s = "mark"
                                 /\ k = n - 2 => s = "join"
                                 /\ k = n - 1 => s = "mark"

(* Where the scripts that stop a service have their commands and their flag. *)
DockerAt(name, k, s) ==
    /\ s = "docker_stop" <=> name \in {"redis_down", "etcd_down"} /\ k = 4
    /\ s = "set" <=> name \in {"redis_down", "etcd_down"} /\ k = 5
    /\ s = "docker_start" <=> name = "etcd_down" /\ k = 7
    /\ s = "clear" <=> name = "etcd_down" /\ k = 8

Ordered(name, t) ==
    /\ Len(t) \in Nat /\ Len(t) >= FirstMark(name) + 5 /\ Len(t) >= 9
    /\ name = "traffic_spike" => Len(t) = 12
    /\ \A k \in 1 .. Len(t) : OrderedAt(name, Len(t), k, t[k]) /\ DockerAt(name, k, t[k])

LEMMA Scripts ==
  /\ DOMAIN ALL = {"sigkill_replica", "sigterm_replica", "network_partition", "redis_down",
                   "etcd_down", "traffic_spike", "slow_replica"}
  /\ ALL["sigkill_replica"] = SigkillReplica /\ ALL["sigterm_replica"] = SigtermReplica
  /\ ALL["network_partition"] = NetworkPartition /\ ALL["redis_down"] = RedisDown
  /\ ALL["etcd_down"] = EtcdDown /\ ALL["traffic_spike"] = TrafficSpike
  /\ ALL["slow_replica"] = SlowReplica
BY DEF ALL

LEMMA ScriptOrder ==
  ASSUME NEW name \in DOMAIN ALL
  PROVE  Ordered(name, ALL[name])
<1>1. CASE name = "sigkill_replica"
  <2> DEFINE t == SigkillReplica
  <2>1. Len(t) = 10 /\ \A k \in 1 .. 10 : OrderedAt("sigkill_replica", 10, k, t[k]) /\ DockerAt("sigkill_replica", k, t[k])
    <3>1. Len(t) = 10
      BY DEF SigkillReplica
    <3>2. t[1] = "start" /\ t[2] = "drive" /\ t[3] = "mark" /\ t[4] = "kill" /\ t[5] = "mark"
          /\ t[6] = "evicted" /\ t[7] = "stop" /\ t[8] = "join" /\ t[9] = "mark"
          /\ t[10] = "judge"
      BY DEF SigkillReplica
    <3>3. /\ OrderedAt("sigkill_replica", 10, 1, "start") /\ DockerAt("sigkill_replica", 1, "start")
          /\ OrderedAt("sigkill_replica", 10, 2, "drive") /\ DockerAt("sigkill_replica", 2, "drive")
          /\ OrderedAt("sigkill_replica", 10, 3, "mark") /\ DockerAt("sigkill_replica", 3, "mark")
          /\ OrderedAt("sigkill_replica", 10, 4, "kill") /\ DockerAt("sigkill_replica", 4, "kill")
          /\ OrderedAt("sigkill_replica", 10, 5, "mark") /\ DockerAt("sigkill_replica", 5, "mark")
          /\ OrderedAt("sigkill_replica", 10, 6, "evicted") /\ DockerAt("sigkill_replica", 6, "evicted")
          /\ OrderedAt("sigkill_replica", 10, 7, "stop") /\ DockerAt("sigkill_replica", 7, "stop")
          /\ OrderedAt("sigkill_replica", 10, 8, "join") /\ DockerAt("sigkill_replica", 8, "join")
          /\ OrderedAt("sigkill_replica", 10, 9, "mark") /\ DockerAt("sigkill_replica", 9, "mark")
          /\ OrderedAt("sigkill_replica", 10, 10, "judge") /\ DockerAt("sigkill_replica", 10, "judge")
      BY DEF OrderedAt, DockerAt, FirstMark, FaultAt, FaultSteps
    <3>4. \A k \in 1 .. 10 : k = 1 \/ k = 2 \/ k = 3 \/ k = 4 \/ k = 5 \/ k = 6 \/ k = 7
             \/ k = 8 \/ k = 9 \/ k = 10
      OBVIOUS
    <3> HIDE DEF t
    <3> QED BY <3>1, <3>2, <3>3, <3>4
  <2> HIDE DEF t
  <2>2. Ordered("sigkill_replica", t)
    BY <2>1 DEF Ordered, FirstMark
  <2> QED BY <1>1, <2>2, Scripts DEF t
<1>2. CASE name = "sigterm_replica"
  <2> DEFINE t == SigtermReplica
  <2>1. Len(t) = 9 /\ \A k \in 1 .. 9 : OrderedAt("sigterm_replica", 9, k, t[k]) /\ DockerAt("sigterm_replica", k, t[k])
    <3>1. Len(t) = 9
      BY DEF SigtermReplica
    <3>2. t[1] = "start" /\ t[2] = "drive" /\ t[3] = "mark" /\ t[4] = "term"
          /\ t[5] = "evicted" /\ t[6] = "stop" /\ t[7] = "join" /\ t[8] = "mark"
          /\ t[9] = "judge"
      BY DEF SigtermReplica
    <3>3. /\ OrderedAt("sigterm_replica", 9, 1, "start") /\ DockerAt("sigterm_replica", 1, "start")
          /\ OrderedAt("sigterm_replica", 9, 2, "drive") /\ DockerAt("sigterm_replica", 2, "drive")
          /\ OrderedAt("sigterm_replica", 9, 3, "mark") /\ DockerAt("sigterm_replica", 3, "mark")
          /\ OrderedAt("sigterm_replica", 9, 4, "term") /\ DockerAt("sigterm_replica", 4, "term")
          /\ OrderedAt("sigterm_replica", 9, 5, "evicted") /\ DockerAt("sigterm_replica", 5, "evicted")
          /\ OrderedAt("sigterm_replica", 9, 6, "stop") /\ DockerAt("sigterm_replica", 6, "stop")
          /\ OrderedAt("sigterm_replica", 9, 7, "join") /\ DockerAt("sigterm_replica", 7, "join")
          /\ OrderedAt("sigterm_replica", 9, 8, "mark") /\ DockerAt("sigterm_replica", 8, "mark")
          /\ OrderedAt("sigterm_replica", 9, 9, "judge") /\ DockerAt("sigterm_replica", 9, "judge")
      BY DEF OrderedAt, DockerAt, FirstMark, FaultAt, FaultSteps
    <3>4. \A k \in 1 .. 9 : k = 1 \/ k = 2 \/ k = 3 \/ k = 4 \/ k = 5 \/ k = 6 \/ k = 7
             \/ k = 8 \/ k = 9
      OBVIOUS
    <3> HIDE DEF t
    <3> QED BY <3>1, <3>2, <3>3, <3>4
  <2> HIDE DEF t
  <2>2. Ordered("sigterm_replica", t)
    BY <2>1 DEF Ordered, FirstMark
  <2> QED BY <1>2, <2>2, Scripts DEF t
<1>3. CASE name = "network_partition"
  <2> DEFINE t == NetworkPartition
  <2>1. Len(t) = 12 /\ \A k \in 1 .. 12 : OrderedAt("network_partition", 12, k, t[k]) /\ DockerAt("network_partition", k, t[k])
    <3>1. Len(t) = 12
      BY DEF NetworkPartition
    <3>2. t[1] = "start" /\ t[2] = "proxy" /\ t[3] = "spawn" /\ t[4] = "ready"
          /\ t[5] = "drive" /\ t[6] = "mark" /\ t[7] = "blackhole" /\ t[8] = "evicted"
          /\ t[9] = "stop" /\ t[10] = "join" /\ t[11] = "mark" /\ t[12] = "judge"
      BY DEF NetworkPartition
    <3>3. /\ OrderedAt("network_partition", 12, 1, "start") /\ DockerAt("network_partition", 1, "start")
          /\ OrderedAt("network_partition", 12, 2, "proxy") /\ DockerAt("network_partition", 2, "proxy")
          /\ OrderedAt("network_partition", 12, 3, "spawn") /\ DockerAt("network_partition", 3, "spawn")
          /\ OrderedAt("network_partition", 12, 4, "ready") /\ DockerAt("network_partition", 4, "ready")
          /\ OrderedAt("network_partition", 12, 5, "drive") /\ DockerAt("network_partition", 5, "drive")
          /\ OrderedAt("network_partition", 12, 6, "mark") /\ DockerAt("network_partition", 6, "mark")
          /\ OrderedAt("network_partition", 12, 7, "blackhole") /\ DockerAt("network_partition", 7, "blackhole")
          /\ OrderedAt("network_partition", 12, 8, "evicted") /\ DockerAt("network_partition", 8, "evicted")
          /\ OrderedAt("network_partition", 12, 9, "stop") /\ DockerAt("network_partition", 9, "stop")
          /\ OrderedAt("network_partition", 12, 10, "join") /\ DockerAt("network_partition", 10, "join")
          /\ OrderedAt("network_partition", 12, 11, "mark") /\ DockerAt("network_partition", 11, "mark")
          /\ OrderedAt("network_partition", 12, 12, "judge") /\ DockerAt("network_partition", 12, "judge")
      BY DEF OrderedAt, DockerAt, FirstMark, FaultAt, FaultSteps
    <3>4. \A k \in 1 .. 12 : k = 1 \/ k = 2 \/ k = 3 \/ k = 4 \/ k = 5 \/ k = 6 \/ k = 7
             \/ k = 8 \/ k = 9 \/ k = 10 \/ k = 11 \/ k = 12
      OBVIOUS
    <3> HIDE DEF t
    <3> QED BY <3>1, <3>2, <3>3, <3>4
  <2> HIDE DEF t
  <2>2. Ordered("network_partition", t)
    BY <2>1 DEF Ordered, FirstMark
  <2> QED BY <1>3, <2>2, Scripts DEF t
<1>4. CASE name = "redis_down"
  <2> DEFINE t == RedisDown
  <2>1. Len(t) = 10 /\ \A k \in 1 .. 10 : OrderedAt("redis_down", 10, k, t[k]) /\ DockerAt("redis_down", k, t[k])
    <3>1. Len(t) = 10
      BY DEF RedisDown
    <3>2. t[1] = "start" /\ t[2] = "drive" /\ t[3] = "mark" /\ t[4] = "docker_stop"
          /\ t[5] = "set" /\ t[6] = "probe" /\ t[7] = "stop" /\ t[8] = "join" /\ t[9] = "mark"
          /\ t[10] = "judge"
      BY DEF RedisDown
    <3>3. /\ OrderedAt("redis_down", 10, 1, "start") /\ DockerAt("redis_down", 1, "start")
          /\ OrderedAt("redis_down", 10, 2, "drive") /\ DockerAt("redis_down", 2, "drive")
          /\ OrderedAt("redis_down", 10, 3, "mark") /\ DockerAt("redis_down", 3, "mark")
          /\ OrderedAt("redis_down", 10, 4, "docker_stop") /\ DockerAt("redis_down", 4, "docker_stop")
          /\ OrderedAt("redis_down", 10, 5, "set") /\ DockerAt("redis_down", 5, "set")
          /\ OrderedAt("redis_down", 10, 6, "probe") /\ DockerAt("redis_down", 6, "probe")
          /\ OrderedAt("redis_down", 10, 7, "stop") /\ DockerAt("redis_down", 7, "stop")
          /\ OrderedAt("redis_down", 10, 8, "join") /\ DockerAt("redis_down", 8, "join")
          /\ OrderedAt("redis_down", 10, 9, "mark") /\ DockerAt("redis_down", 9, "mark")
          /\ OrderedAt("redis_down", 10, 10, "judge") /\ DockerAt("redis_down", 10, "judge")
      BY DEF OrderedAt, DockerAt, FirstMark, FaultAt, FaultSteps
    <3>4. \A k \in 1 .. 10 : k = 1 \/ k = 2 \/ k = 3 \/ k = 4 \/ k = 5 \/ k = 6 \/ k = 7
             \/ k = 8 \/ k = 9 \/ k = 10
      OBVIOUS
    <3> HIDE DEF t
    <3> QED BY <3>1, <3>2, <3>3, <3>4
  <2> HIDE DEF t
  <2>2. Ordered("redis_down", t)
    BY <2>1 DEF Ordered, FirstMark
  <2> QED BY <1>4, <2>2, Scripts DEF t
<1>5. CASE name = "etcd_down"
  <2> DEFINE t == EtcdDown
  <2>1. Len(t) = 12 /\ \A k \in 1 .. 12 : OrderedAt("etcd_down", 12, k, t[k]) /\ DockerAt("etcd_down", k, t[k])
    <3>1. Len(t) = 12
      BY DEF EtcdDown
    <3>2. t[1] = "start" /\ t[2] = "drive" /\ t[3] = "mark" /\ t[4] = "docker_stop"
          /\ t[5] = "set" /\ t[6] = "mark" /\ t[7] = "docker_start" /\ t[8] = "clear"
          /\ t[9] = "stop" /\ t[10] = "join" /\ t[11] = "mark" /\ t[12] = "judge"
      BY DEF EtcdDown
    <3>3. /\ OrderedAt("etcd_down", 12, 1, "start") /\ DockerAt("etcd_down", 1, "start")
          /\ OrderedAt("etcd_down", 12, 2, "drive") /\ DockerAt("etcd_down", 2, "drive")
          /\ OrderedAt("etcd_down", 12, 3, "mark") /\ DockerAt("etcd_down", 3, "mark")
          /\ OrderedAt("etcd_down", 12, 4, "docker_stop") /\ DockerAt("etcd_down", 4, "docker_stop")
          /\ OrderedAt("etcd_down", 12, 5, "set") /\ DockerAt("etcd_down", 5, "set")
          /\ OrderedAt("etcd_down", 12, 6, "mark") /\ DockerAt("etcd_down", 6, "mark")
          /\ OrderedAt("etcd_down", 12, 7, "docker_start") /\ DockerAt("etcd_down", 7, "docker_start")
          /\ OrderedAt("etcd_down", 12, 8, "clear") /\ DockerAt("etcd_down", 8, "clear")
          /\ OrderedAt("etcd_down", 12, 9, "stop") /\ DockerAt("etcd_down", 9, "stop")
          /\ OrderedAt("etcd_down", 12, 10, "join") /\ DockerAt("etcd_down", 10, "join")
          /\ OrderedAt("etcd_down", 12, 11, "mark") /\ DockerAt("etcd_down", 11, "mark")
          /\ OrderedAt("etcd_down", 12, 12, "judge") /\ DockerAt("etcd_down", 12, "judge")
      BY DEF OrderedAt, DockerAt, FirstMark, FaultAt, FaultSteps
    <3>4. \A k \in 1 .. 12 : k = 1 \/ k = 2 \/ k = 3 \/ k = 4 \/ k = 5 \/ k = 6 \/ k = 7
             \/ k = 8 \/ k = 9 \/ k = 10 \/ k = 11 \/ k = 12
      OBVIOUS
    <3> HIDE DEF t
    <3> QED BY <3>1, <3>2, <3>3, <3>4
  <2> HIDE DEF t
  <2>2. Ordered("etcd_down", t)
    BY <2>1 DEF Ordered, FirstMark
  <2> QED BY <1>5, <2>2, Scripts DEF t
<1>6. CASE name = "traffic_spike"
  <2> DEFINE t == TrafficSpike
  <2>1. Len(t) = 12 /\ \A k \in 1 .. 12 : OrderedAt("traffic_spike", 12, k, t[k]) /\ DockerAt("traffic_spike", k, t[k])
    <3>1. Len(t) = 12
      BY DEF TrafficSpike
    <3>2. t[1] = "binary" /\ t[2] = "start" /\ t[3] = "spawn" /\ t[4] = "drive"
          /\ t[5] = "baseline" /\ t[6] = "stop" /\ t[7] = "join" /\ t[8] = "drive"
          /\ t[9] = "sample" /\ t[10] = "stop" /\ t[11] = "join" /\ t[12] = "judge"
      BY DEF TrafficSpike
    <3>3. /\ OrderedAt("traffic_spike", 12, 1, "binary") /\ DockerAt("traffic_spike", 1, "binary")
          /\ OrderedAt("traffic_spike", 12, 2, "start") /\ DockerAt("traffic_spike", 2, "start")
          /\ OrderedAt("traffic_spike", 12, 3, "spawn") /\ DockerAt("traffic_spike", 3, "spawn")
          /\ OrderedAt("traffic_spike", 12, 4, "drive") /\ DockerAt("traffic_spike", 4, "drive")
          /\ OrderedAt("traffic_spike", 12, 5, "baseline") /\ DockerAt("traffic_spike", 5, "baseline")
          /\ OrderedAt("traffic_spike", 12, 6, "stop") /\ DockerAt("traffic_spike", 6, "stop")
          /\ OrderedAt("traffic_spike", 12, 7, "join") /\ DockerAt("traffic_spike", 7, "join")
          /\ OrderedAt("traffic_spike", 12, 8, "drive") /\ DockerAt("traffic_spike", 8, "drive")
          /\ OrderedAt("traffic_spike", 12, 9, "sample") /\ DockerAt("traffic_spike", 9, "sample")
          /\ OrderedAt("traffic_spike", 12, 10, "stop") /\ DockerAt("traffic_spike", 10, "stop")
          /\ OrderedAt("traffic_spike", 12, 11, "join") /\ DockerAt("traffic_spike", 11, "join")
          /\ OrderedAt("traffic_spike", 12, 12, "judge") /\ DockerAt("traffic_spike", 12, "judge")
      BY DEF OrderedAt, DockerAt, FirstMark, FaultAt, FaultSteps
    <3>4. \A k \in 1 .. 12 : k = 1 \/ k = 2 \/ k = 3 \/ k = 4 \/ k = 5 \/ k = 6 \/ k = 7
             \/ k = 8 \/ k = 9 \/ k = 10 \/ k = 11 \/ k = 12
      OBVIOUS
    <3> HIDE DEF t
    <3> QED BY <3>1, <3>2, <3>3, <3>4
  <2> HIDE DEF t
  <2>2. Ordered("traffic_spike", t)
    BY <2>1 DEF Ordered, FirstMark
  <2> QED BY <1>6, <2>2, Scripts DEF t
<1>7. CASE name = "slow_replica"
  <2> DEFINE t == SlowReplica
  <2>1. Len(t) = 12 /\ \A k \in 1 .. 12 : OrderedAt("slow_replica", 12, k, t[k]) /\ DockerAt("slow_replica", k, t[k])
    <3>1. Len(t) = 12
      BY DEF SlowReplica
    <3>2. t[1] = "start" /\ t[2] = "proxy" /\ t[3] = "spawn" /\ t[4] = "ready"
          /\ t[5] = "drive" /\ t[6] = "mark" /\ t[7] = "delay" /\ t[8] = "share"
          /\ t[9] = "stop" /\ t[10] = "join" /\ t[11] = "mark" /\ t[12] = "judge"
      BY DEF SlowReplica
    <3>3. /\ OrderedAt("slow_replica", 12, 1, "start") /\ DockerAt("slow_replica", 1, "start")
          /\ OrderedAt("slow_replica", 12, 2, "proxy") /\ DockerAt("slow_replica", 2, "proxy")
          /\ OrderedAt("slow_replica", 12, 3, "spawn") /\ DockerAt("slow_replica", 3, "spawn")
          /\ OrderedAt("slow_replica", 12, 4, "ready") /\ DockerAt("slow_replica", 4, "ready")
          /\ OrderedAt("slow_replica", 12, 5, "drive") /\ DockerAt("slow_replica", 5, "drive")
          /\ OrderedAt("slow_replica", 12, 6, "mark") /\ DockerAt("slow_replica", 6, "mark")
          /\ OrderedAt("slow_replica", 12, 7, "delay") /\ DockerAt("slow_replica", 7, "delay")
          /\ OrderedAt("slow_replica", 12, 8, "share") /\ DockerAt("slow_replica", 8, "share")
          /\ OrderedAt("slow_replica", 12, 9, "stop") /\ DockerAt("slow_replica", 9, "stop")
          /\ OrderedAt("slow_replica", 12, 10, "join") /\ DockerAt("slow_replica", 10, "join")
          /\ OrderedAt("slow_replica", 12, 11, "mark") /\ DockerAt("slow_replica", 11, "mark")
          /\ OrderedAt("slow_replica", 12, 12, "judge") /\ DockerAt("slow_replica", 12, "judge")
      BY DEF OrderedAt, DockerAt, FirstMark, FaultAt, FaultSteps
    <3>4. \A k \in 1 .. 12 : k = 1 \/ k = 2 \/ k = 3 \/ k = 4 \/ k = 5 \/ k = 6 \/ k = 7
             \/ k = 8 \/ k = 9 \/ k = 10 \/ k = 11 \/ k = 12
      OBVIOUS
    <3> HIDE DEF t
    <3> QED BY <3>1, <3>2, <3>3, <3>4
  <2> HIDE DEF t
  <2>2. Ordered("slow_replica", t)
    BY <2>1 DEF Ordered, FirstMark
  <2> QED BY <1>7, <2>2, Scripts DEF t
<1> QED BY <1>1, <1>2, <1>3, <1>4, <1>5, <1>6, <1>7, Scripts

-----------------------------------------------------------------------------
(* The chaos suite: its steps. *)

(* A step of the body that moves neither the driver nor what its clients saw. *)
Plain ==
    /\ Body /\ ALL[scenario][step] \in PlainSteps /\ Continue
    /\ UNCHANGED <<scenario, driver, worker, seen>> /\ proxy' \in Proxies
    /\ \/ UNCHANGED <<up, stopped>> /\ ALL[scenario][step] \notin {"docker_start", "set", "clear"}
       \/ ALL[scenario][step] = "docker_start" /\ up' = up \cup {Service} /\ UNCHANGED stopped
       \/ ALL[scenario][step] = "set" /\ stopped' = TRUE /\ UNCHANGED up
       \/ ALL[scenario][step] = "clear" /\ stopped' = FALSE /\ UNCHANGED up

(* The step that makes the fault. *)
Faulted ==
    /\ Body /\ ALL[scenario][step] \in FaultSteps /\ Continue
    /\ seen' = [seen EXCEPT !.fault = TRUE]
    /\ UNCHANGED <<scenario, driver, worker, stopped>> /\ proxy' \in Proxies
    /\ \/ UNCHANGED up /\ ALL[scenario][step] # "docker_stop"
       \/ ALL[scenario][step] = "docker_stop" /\ up' = up \ {Service}

(* A scenario that does not get as far as its verdict, or fails. *)
Left ==
    /\ Body /\ \E v \in {"fail", "raised", "exit"} : Leave(v)
    /\ ~At("set") \/ Service \in up
    /\ UNCHANGED <<scenario, driver, worker, seen, up, stopped>> /\ proxy' \in Proxies

(* Ctrl-C with the service stopped and the flag not yet set. *)
CutShort ==
    /\ Body /\ Leave("exit")
    /\ up' \in {up, up \ {Service}} /\ seen' = [seen EXCEPT !.cut = seen.cut \cup {Service}]
    /\ UNCHANGED <<scenario, driver, worker, proxy, stopped>>

Passed ==
    /\ At("judge") /\ Leave("pass") /\ \A p \in Phases : ~Has(p, FALSE)
    /\ UNCHANGED <<scenario, driver, worker, seen, procs, proxy, up, stopped>>

ProxyThread == Accept \/ Connect \/ Pump

(* A step of a client thread that appends nothing. *)
ThreadAlone == \E w \in Workers : Send(w) \/ Uncaught(w)

LEMMA ProxyKept ==
  ASSUME proxy \in Proxies
  PROVE  /\ ProxyStart \/ SetMode \/ ProxyThread \/ ProxyStop => proxy' \in Proxies
         /\ ProxyThread /\ ~proxy.on => proxy'.on = proxy.on /\ (proxy'.link = "piped" => proxy.link = "piped")
         /\ ProxyStop => ~proxy'.on /\ proxy'.link # "piped"
<1>1. ASSUME ProxyStart \/ SetMode PROVE proxy' \in Proxies
  BY <1>1 DEF ProxyStart, SetMode, Proxies
<1>2. ASSUME Accept \/ Pump
      PROVE  /\ proxy' \in Proxies
             /\ ~proxy.on => proxy'.on = proxy.on /\ (proxy'.link = "piped" => proxy.link = "piped")
  BY <1>2 DEF Accept, Pump, Proxies
<1>3. ASSUME Connect
      PROVE  /\ proxy' \in Proxies
             /\ ~proxy.on => proxy'.on = proxy.on /\ (proxy'.link = "piped" => proxy.link = "piped")
  <2> DEFINE l == IF proxy.mode = "blackhole" THEN "held"
                  ELSE IF "extra" \in procs /\ proxy.on THEN "piped" ELSE "closed"
  <2>1. l \in {"held", "piped", "closed"} /\ (~proxy.on => l # "piped")
    OBVIOUS
  <2>2. proxy' = [proxy EXCEPT !.link = l]
    BY <1>3 DEF Connect
  <2> HIDE DEF l
  <2> QED BY <2>1, <2>2 DEF Proxies
<1>4. ASSUME ProxyStop PROVE proxy' \in Proxies /\ ~proxy'.on /\ proxy'.link # "piped"
  <2> DEFINE l == IF proxy.link \in {"held", "piped"} THEN "closed" ELSE proxy.link
  <2>1. l \in {"none", "accepted", "held", "piped", "closed"} /\ l # "piped"
    BY DEF Proxies
  <2>2. proxy' = [proxy EXCEPT !.on = FALSE, !.link = l]
    BY <1>4 DEF ProxyStop
  <2> HIDE DEF l
  <2> QED BY <2>1, <2>2 DEF Proxies
<1> QED BY <1>1, <1>2, <1>3, <1>4 DEF ProxyThread

LEMMA ChaosCases ==
  ASSUME ChaosTypes, [ChaosNext]_chaosVars
  PROVE  \/ UNCHANGED chaosVars
         \/ \E name \in DOMAIN ALL : Begin(name)
         \/ Plain \/ Faulted \/ Left \/ CutShort \/ Passed
         \/ StartDriver \/ Mark \/ StopDriver \/ Join
         \/ ProxyStop \/ Reap \/ StopCluster \/ Restore \/ End \/ Report
         \/ ThreadAlone
         \/ \E w \in Workers, ok \in BOOLEAN : Answer(w, ok)
         \/ ProxyThread
<1> USE DEF SuiteSame, DriverSame, WorldSame, At, Body
<1>0. proxy \in Proxies
  BY DEF ChaosTypes
<1>1. CASE StartCluster
  BY <1>0, <1>1 DEF StartCluster, Plain, Left, PlainSteps
<1>2. CASE ProxyStart
  <2>1. proxy' \in Proxies
    BY <1>0, <1>2, ProxyKept
  <2> QED BY <1>2, <2>1 DEF ProxyStart, Plain, Left, PlainSteps
<1>3. CASE Spawn
  BY <1>0, <1>3 DEF Spawn, Plain, Left, PlainSteps
<1>4. CASE Signal
  BY <1>0, <1>4 DEF Signal, Faulted, FaultSteps
<1>5. CASE SetMode
  <2>1. proxy' \in Proxies
    BY <1>0, <1>5, ProxyKept
  <2> QED BY <1>5, <2>1 DEF SetMode, Faulted, FaultSteps
<1>6. CASE CheckBinary \/ WaitReady \/ Probe
  BY <1>0, <1>6 DEF CheckBinary, WaitReady, Probe, Check, Plain, Left, PlainSteps
<1>7. ASSUME NEW s \in {"evicted", "sample", "share"}, NEW good, Measure(s, good) PROVE Plain
  BY <1>0, <1>7 DEF Measure, Plain, PlainSteps
<1>8. CASE AwaitEviction \/ LoadShare
  BY <1>7, <1>8 DEF AwaitEviction, LoadShare
<1>9. CASE ReadBaseline \/ SampleTarget \/ Undecodable
  <2>1. CASE ReadBaseline
    BY <1>0, <2>1 DEF ReadBaseline, Plain, PlainSteps
  <2>2. CASE SampleTarget
    BY <1>7, <2>2 DEF SampleTarget
  <2>3. CASE Undecodable
    BY <1>0, <2>3 DEF Undecodable, Left
  <2> QED BY <1>9, <2>1, <2>2, <2>3
<1>10. CASE DockerStop
  BY <1>0, <1>10 DEF DockerStop, Faulted, Left, FaultSteps
<1>11. CASE DockerStart
  BY <1>0, <1>11 DEF DockerStart, Plain, Left, PlainSteps
<1>12. CASE Judge
  BY <1>0, <1>12 DEF Judge, Passed, Left, Leave
<1>13. CASE Interrupt
  <2>1. /\ Body /\ Leave("exit") /\ up' \in {up, up \ {Service}}
        /\ up' # up => At("docker_stop")
        /\ UNCHANGED <<scenario, driver, worker, proxy, stopped>>
    BY <1>13 DEF Interrupt
  <2>2. CASE (At("docker_stop") \/ At("set")) /\ Service \notin up'
    <3>1. seen' = [seen EXCEPT !.cut = seen.cut \cup {Service}]
      BY <1>13, <2>2 DEF Interrupt
    <3> QED BY <2>1, <3>1 DEF CutShort
  <2>3. CASE ~((At("docker_stop") \/ At("set")) /\ Service \notin up')
    <3>1. seen' = seen
      BY <1>13, <2>3 DEF Interrupt
    <3>2. up' = up
      BY <2>1, <2>3
    <3>3. ~At("set") \/ Service \in up
      BY <2>3, <3>2
    <3> QED BY <1>0, <2>1, <3>1, <3>2, <3>3 DEF Left
  <2> QED BY <2>2, <2>3
<1>15. CASE Flag
  BY <1>0, <1>15 DEF Flag, Plain, PlainSteps
<1>14. CASE \/ UNCHANGED chaosVars
            \/ \E name \in DOMAIN ALL : Begin(name)
            \/ StartDriver \/ Mark \/ StopDriver \/ Join
            \/ ProxyStop \/ Reap \/ StopCluster \/ Restore \/ End \/ Report
            \/ \E w \in Workers : Send(w)
            \/ \E w \in Workers : Uncaught(w)
            \/ \E w \in Workers, ok \in BOOLEAN : Answer(w, ok)
            \/ Accept \/ Connect \/ Pump
  BY <1>14 DEF ProxyThread, ThreadAlone
<1> HIDE DEF SuiteSame, DriverSame, WorldSame, At, Body
<1> QED
  BY <1>1, <1>2, <1>3, <1>4, <1>5, <1>6, <1>8, <1>9, <1>10, <1>11, <1>12, <1>13, <1>14, <1>15
  DEF ChaosNext

(* The steps of the finally clause. *)
LEMMA ClauseStep ==
  ASSUME ChaosTypes, NEW s, Ending(s)
  PROVE  /\ Clause /\ step \in 1 .. 7 /\ Finally[step] = s
         /\ s = "stop" <=> step = 1
         /\ s = "join" <=> step = 2
         /\ s = "proxy stop" <=> step = 3
         /\ s = "reap" <=> step = 4
         /\ s = "cluster stop" <=> step = 5
         /\ s = "restore" <=> step = 6
         /\ s = "end" <=> step = 7
<1>1. Clause /\ step \in 1 .. 7 /\ Finally[step] = s
  BY DEF ChaosTypes, Ending, Clause
<1>2. step = 1 \/ step = 2 \/ step = 3 \/ step = 4 \/ step = 5 \/ step = 6 \/ step = 7
  BY <1>1
<1>3. /\ Finally[1] = "stop" /\ Finally[2] = "join" /\ Finally[3] = "proxy stop"
      /\ Finally[4] = "reap" /\ Finally[5] = "cluster stop" /\ Finally[6] = "restore"
      /\ Finally[7] = "end"
  BY DEF Finally
<1> QED BY <1>1, <1>2, <1>3

(* The steps of the body: only the verdict is the last. *)
LEMMA BodyStep ==
  ASSUME ChaosTypes, Body
  PROVE  /\ scenario \in DOMAIN ALL /\ step \in 1 .. Len(ALL[scenario])
         /\ Len(ALL[scenario]) \in Nat
         /\ Len(ALL[scenario]) >= FirstMark(scenario) + 5 /\ Len(ALL[scenario]) >= 9
         /\ scenario = "traffic_spike" => Len(ALL[scenario]) = 12
         /\ OrderedAt(scenario, Len(ALL[scenario]), step, ALL[scenario][step])
         /\ ALL[scenario][step] # "judge" => step + 1 \in 1 .. Len(ALL[scenario])
<1>1. scenario \in DOMAIN ALL /\ step \in 1 .. Len(ALL[scenario])
  BY DEF ChaosTypes, Body, Running
<1>2. Ordered(scenario, ALL[scenario])
  BY <1>1, ScriptOrder
<1>3. /\ Len(ALL[scenario]) \in Nat
      /\ Len(ALL[scenario]) >= FirstMark(scenario) + 5 /\ Len(ALL[scenario]) >= 9
      /\ scenario = "traffic_spike" => Len(ALL[scenario]) = 12
      /\ OrderedAt(scenario, Len(ALL[scenario]), step, ALL[scenario][step])
  BY <1>1, <1>2 DEF Ordered
<1>4. ALL[scenario][step] = "judge" <=> step = Len(ALL[scenario])
  BY <1>3 DEF OrderedAt
<1> QED BY <1>1, <1>3, <1>4

LEMMA DriverFields ==
  ASSUME NEW d \in Drivers
  PROVE  /\ d.stop \in BOOLEAN /\ d.joined \in BOOLEAN
         /\ d.log \in Seq(BOOLEAN) /\ d.marks \in Seq(Nat) /\ Len(d.log) \in Nat
         /\ LET e == [d EXCEPT !.marks = Append(@, Len(d.log))]
            IN  /\ e \in Drivers /\ e.stop = d.stop /\ e.joined = d.joined /\ e.log = d.log
                /\ e.marks = Append(d.marks, Len(d.log))
         /\ LET e == [d EXCEPT !.stop = TRUE]
            IN  /\ e \in Drivers /\ e.stop /\ e.joined = d.joined /\ e.log = d.log
                /\ e.marks = d.marks
         /\ LET e == [d EXCEPT !.joined = TRUE]
            IN  /\ e \in Drivers /\ e.stop = d.stop /\ e.joined /\ e.log = d.log
                /\ e.marks = d.marks
<1>1. /\ d.stop \in BOOLEAN /\ d.joined \in BOOLEAN
      /\ d.log \in Seq(BOOLEAN) /\ d.marks \in Seq(Nat) /\ Len(d.log) \in Nat
  BY DEF Drivers
<1>2. Append(d.marks, Len(d.log)) \in Seq(Nat)
  BY <1>1
<1>5. LET e == [d EXCEPT !.marks = Append(@, Len(d.log))]
      IN  /\ e \in Drivers /\ e.stop = d.stop /\ e.joined = d.joined /\ e.log = d.log
          /\ e.marks = Append(d.marks, Len(d.log))
  BY <1>2 DEF Drivers
<1>6. LET e == [d EXCEPT !.stop = TRUE]
      IN  e \in Drivers /\ e.stop /\ e.joined = d.joined /\ e.log = d.log /\ e.marks = d.marks
  BY DEF Drivers
<1>7. LET e == [d EXCEPT !.joined = TRUE]
      IN  e \in Drivers /\ e.stop = d.stop /\ e.joined /\ e.log = d.log /\ e.marks = d.marks
  BY DEF Drivers
<1> QED BY <1>1, <1>5, <1>6, <1>7

LEMMA IdleDriver ==
  /\ Idle \in Drivers /\ Idle.stop = FALSE /\ Idle.joined = FALSE
  /\ Idle.log = <<>> /\ Idle.marks = <<>>
  /\ Unused \in Proxies /\ Unused.on = FALSE /\ Unused.link = "none"
BY DEF Idle, Drivers, Unused, Proxies

LEMMA ViewFields ==
  ASSUME NEW v \in Views
  PROVE  /\ v.fault \in BOOLEAN /\ v.drop \in BOOLEAN
         /\ v.refused \subseteq Services /\ v.cut \subseteq Services
BY DEF Views

LEMMA FaultSeen ==
  ASSUME NEW v \in Views, NEW u, u = [v EXCEPT !.fault = TRUE]
  PROVE  u \in Views /\ u.fault = TRUE /\ u.drop = v.drop /\ u.refused = v.refused /\ u.cut = v.cut
BY DEF Views

LEMMA LogAppended ==
  ASSUME NEW d \in Drivers, NEW ok \in BOOLEAN, NEW e, e = [d EXCEPT !.log = Append(d.log, ok)]
  PROVE  /\ e \in Drivers /\ e.stop = d.stop /\ e.joined = d.joined
         /\ e.marks = d.marks /\ e.log = Append(d.log, ok)
<1>1. Append(d.log, ok) \in Seq(BOOLEAN)
  BY DEF Drivers
<1> QED BY <1>1 DEF Drivers

LEMMA DropSeen ==
  ASSUME NEW v \in Views, NEW x \in BOOLEAN, NEW u, u = [v EXCEPT !.drop = x]
  PROVE  u \in Views /\ u.drop = x /\ u.fault = v.fault /\ u.refused = v.refused /\ u.cut = v.cut
BY DEF Views

LEMMA ViewReset ==
  ASSUME NEW v \in Views, NEW f \in BOOLEAN, NEW u, u = [v EXCEPT !.fault = f, !.drop = FALSE]
  PROVE  u \in Views /\ u.fault = f /\ u.drop = FALSE /\ u.refused = v.refused /\ u.cut = v.cut
BY DEF Views

LEMMA RefusalSeen ==
  ASSUME NEW v \in Views, NEW s \in Services, NEW u, u = [v EXCEPT !.refused = v.refused \cup {s}]
  PROVE  /\ u \in Views /\ u.fault = v.fault /\ u.drop = v.drop
         /\ u.refused = v.refused \cup {s} /\ u.cut = v.cut
<1>1. v.refused \cup {s} \in SUBSET Services
  BY DEF Views
<1> QED BY <1>1 DEF Views

LEMMA CutSeen ==
  ASSUME NEW v \in Views, NEW s \in Services, NEW u, u = [v EXCEPT !.cut = v.cut \cup {s}]
  PROVE  /\ u \in Views /\ u.fault = v.fault /\ u.drop = v.drop
         /\ u.refused = v.refused /\ u.cut = v.cut \cup {s}
<1>1. v.cut \cup {s} \in SUBSET Services
  BY DEF Views
<1> QED BY <1>1 DEF Views

(* What becomes of the flag's steps when the body goes on. *)
LEMMA DockerStep ==
  ASSUME ChaosTypes, Body, ALL[scenario][step] # "judge", Continue, scenario' = scenario
  PROVE  /\ Running' /\ verdict' = "open" /\ Service' = Service
         /\ At("set")' <=> ALL[scenario][step] = "docker_stop"
         /\ At("clear")' <=> ALL[scenario][step] = "docker_start"
<1>1. /\ scenario \in DOMAIN ALL /\ step \in 1 .. Len(ALL[scenario])
      /\ step + 1 \in 1 .. Len(ALL[scenario]) /\ Len(ALL[scenario]) \in Nat
  BY BodyStep
<1>2. Ordered(scenario, ALL[scenario])
  BY <1>1, ScriptOrder
<1>3. /\ DockerAt(scenario, step, ALL[scenario][step])
      /\ DockerAt(scenario, step + 1, ALL[scenario][step + 1])
  BY <1>1, <1>2 DEF Ordered
<1>4. /\ ALL[scenario][step + 1] = "set" <=> ALL[scenario][step] = "docker_stop"
      /\ ALL[scenario][step + 1] = "clear" <=> ALL[scenario][step] = "docker_start"
  BY <1>1, <1>3 DEF DockerAt
<1>5. step' = step + 1 /\ verdict' = "open"
  BY DEF Continue, Body
<1>6. Running' /\ Service' = Service
  BY <1>1 DEF Running, Service, ALL
<1>7. \A s : At(s)' <=> ALL[scenario][step + 1] = s
  BY <1>5, <1>6 DEF At, ALL, SigkillReplica, SigtermReplica, NetworkPartition, RedisDown, EtcdDown,
     TrafficSpike, SlowReplica
<1> QED BY <1>4, <1>5, <1>6, <1>7

(* What an answer appends, and what the client is seen to have got. *)
LEMMA AnswerEffect ==
  ASSUME ChaosTypes, NEW w \in Workers, NEW ok \in BOOLEAN, Answer(w, ok)
  PROVE  /\ driver' \in Drivers /\ driver'.stop = driver.stop
         /\ driver'.joined = driver.joined /\ driver'.marks = driver.marks
         /\ driver'.log = Append(driver.log, ok)
         /\ seen' \in Views /\ seen'.fault = seen.fault
         /\ seen'.refused = seen.refused /\ seen'.cut = seen.cut
         /\ seen'.drop <=> (seen.drop \/ (seen.fault /\ ~ok /\ ~driver.joined))
         /\ worker' = [worker EXCEPT ![w] = "loop"] /\ worker[w] = "busy"
         /\ UNCHANGED <<scenario, step, verdict, procs, proxy, up, stopped>>
<1>1. driver \in Drivers /\ seen \in Views
  BY DEF ChaosTypes
<1>2. driver' = [driver EXCEPT !.log = Append(@, ok)]
  BY DEF Answer
<1> DEFINE x == seen.drop \/ (seen.fault /\ ~ok /\ ~driver.joined)
<1>3. seen' = [seen EXCEPT !.drop = x]
  BY DEF Answer
<1>4. x \in BOOLEAN
  OBVIOUS
<1>5. /\ driver' \in Drivers /\ driver'.stop = driver.stop
      /\ driver'.joined = driver.joined /\ driver'.marks = driver.marks
      /\ driver'.log = Append(driver.log, ok)
  BY <1>1, <1>2, LogAppended
<1>6. seen' \in Views /\ seen'.fault = seen.fault /\ seen'.refused = seen.refused
      /\ seen'.cut = seen.cut /\ seen'.drop = x
  <2> HIDE DEF x
  <2> QED BY <1>1, <1>3, <1>4, DropSeen
<1> QED BY <1>5, <1>6 DEF Answer, SuiteSame, WorldSame

-----------------------------------------------------------------------------
(* The chaos suite: each part of the invariant is kept. *)

LEMMA ChaosTypesNext == ChaosInv /\ [ChaosNext]_chaosVars => ChaosTypes'
<1> SUFFICES ASSUME ChaosTypes, [ChaosNext]_chaosVars PROVE ChaosTypes'
  BY DEF ChaosInv
<1> DEFINE Places(sc, v, k) ==
               /\ sc \in DOMAIN ALL \cup {"none", "over"}
               /\ v \in {"open", "pass", "fail", "raised", "exit"}
               /\ sc \in DOMAIN ALL /\ v = "open" => k \in 1 .. Len(ALL[sc])
               /\ sc \in DOMAIN ALL /\ v # "open" => k \in 1 .. 7
           Things(d, wk, px, sn, u, st) ==
               /\ d \in Drivers /\ wk \in [Workers -> {"loop", "busy", "gone"}]
               /\ px \in Proxies /\ sn \in Views /\ u \subseteq Services /\ st \in BOOLEAN
<1>a. Places(scenario, verdict, step) /\ Things(driver, worker, proxy, seen, up, stopped)
  BY DEF ChaosTypes, Body, Clause, Running
<1>b. SUFFICES Places(scenario', verdict', step') /\ Things(driver', worker', proxy', seen', up', stopped')
  BY DEF ChaosTypes, Body, Clause, Running, ALL
<1>c. Service \in Services
  BY DEF Service, Services
<1>d. ASSUME Body, ALL[scenario][step] # "judge", Continue, scenario' = scenario
      PROVE  Places(scenario', verdict', step')
  <2>1. scenario \in DOMAIN ALL /\ step + 1 \in 1 .. Len(ALL[scenario])
    BY <1>d, BodyStep
  <2> QED BY <1>d, <2>1 DEF Continue, Body
<1>e. ASSUME Body, NEW v \in {"pass", "fail", "raised", "exit"}, Leave(v), scenario' = scenario
      PROVE  Places(scenario', verdict', step')
  <2>1. Len(ALL[scenario]) \in Nat /\ scenario \in DOMAIN ALL
    BY <1>e, BodyStep
  <2> QED BY <1>e, <2>1 DEF Leave
<1>f. ASSUME NEW s, Ending(s), s # "end", Continue, scenario' = scenario
      PROVE  Places(scenario', verdict', step')
  <2>1. Clause /\ step \in 1 .. 7 /\ step # 7
    BY <1>f, ClauseStep
  <2> QED BY <1>a, <1>f, <2>1 DEF Continue, Clause
<1>1. CASE UNCHANGED chaosVars
  BY <1>1, <1>a DEF chaosVars
<1>2. ASSUME NEW name \in DOMAIN ALL, Begin(name)
      PROVE  Places(scenario', verdict', step') /\ Things(driver', worker', proxy', seen', up', stopped')
  <2>1. Len(ALL[name]) \in Nat /\ Len(ALL[name]) >= 9
    BY ScriptOrder DEF Ordered
  <2>2. Places(scenario', verdict', step')
    BY <1>2, <2>1 DEF Begin
  <2>3. seen' \in Views
    BY <1>2, <1>a, ViewReset DEF Begin
  <2> QED BY <1>2, <1>a, <2>2, <2>3, IdleDriver DEF Begin
<1>3. CASE Plain
  <2>1. Places(scenario', verdict', step')
    BY <1>3, <1>d DEF Plain, PlainSteps
  <2> QED BY <1>3, <1>a, <1>c, <2>1 DEF Plain
<1>4. CASE Faulted
  <2>1. Places(scenario', verdict', step')
    BY <1>4, <1>d DEF Faulted, FaultSteps
  <2>2. seen' \in Views
    BY <1>4, <1>a, FaultSeen DEF Faulted
  <2> QED BY <1>4, <1>a, <1>c, <2>1, <2>2 DEF Faulted
<1>5. CASE Left
  <2>1. Places(scenario', verdict', step')
    BY <1>5, <1>e DEF Left
  <2> QED BY <1>5, <1>a, <2>1 DEF Left
<1>18. CASE CutShort
  <2>1. Places(scenario', verdict', step')
    BY <1>18, <1>e DEF CutShort
  <2>2. seen' \in Views /\ up' \subseteq Services
    BY <1>18, <1>a, <1>c, CutSeen DEF CutShort
  <2> QED BY <1>18, <1>a, <2>1, <2>2 DEF CutShort
<1>6. CASE Passed
  <2>1. Places(scenario', verdict', step')
    BY <1>6, <1>e DEF Passed, At, Body
  <2> QED BY <1>6, <1>a, <2>1 DEF Passed
<1>7. CASE StartDriver
  <2>1. Places(scenario', verdict', step')
    BY <1>7, <1>d DEF StartDriver, At, Body, SuiteSame
  <2>2. seen' \in Views
    <3>1. driver.joined \in BOOLEAN
      BY <1>a, DriverFields
    <3> QED BY <1>7, <1>a, <3>1, ViewReset DEF StartDriver
  <2>3. driver' \in Drivers /\ worker' \in [Workers -> {"loop", "busy", "gone"}]
    BY <1>7, IdleDriver DEF StartDriver
  <2> QED BY <1>7, <1>a, <2>1, <2>2, <2>3 DEF StartDriver, WorldSame
<1>8. CASE Mark
  <2>1. Places(scenario', verdict', step')
    BY <1>8, <1>d DEF Mark, At, Body, SuiteSame
  <2>2. driver' \in Drivers
    BY <1>8, <1>a, DriverFields DEF Mark
  <2> QED BY <1>8, <1>a, <2>1, <2>2 DEF Mark, WorldSame
<1>9. CASE StopDriver
  <2>1. Places(scenario', verdict', step')
    BY <1>9, <1>d, <1>f DEF StopDriver, At, Body, SuiteSame
  <2>2. driver' \in Drivers
    BY <1>9, <1>a, DriverFields DEF StopDriver
  <2> QED BY <1>9, <1>a, <2>1, <2>2 DEF StopDriver, WorldSame
<1>10. CASE Join
  <2>1. Places(scenario', verdict', step')
    BY <1>10, <1>d, <1>f DEF Join, At, Body, SuiteSame
  <2>2. driver' \in Drivers
    BY <1>10, <1>a, DriverFields DEF Join
  <2> QED BY <1>10, <1>a, <2>1, <2>2 DEF Join, WorldSame
<1>11. CASE ProxyStop
  <2>1. Places(scenario', verdict', step')
    BY <1>11, <1>f DEF ProxyStop, SuiteSame
  <2>2. proxy' \in Proxies
    BY <1>11, <1>a, ProxyKept
  <2> QED BY <1>11, <1>a, <2>1, <2>2 DEF ProxyStop, DriverSame
<1>12. CASE Reap \/ StopCluster
  <2>1. Places(scenario', verdict', step')
    BY <1>12, <1>f DEF Reap, StopCluster, SuiteSame
  <2> QED BY <1>12, <1>a, <2>1 DEF Reap, StopCluster, DriverSame
<1>13. CASE Restore
  <2>1. Places(scenario', verdict', step')
    BY <1>13, <1>f DEF Restore, SuiteSame
  <2>2. up' \subseteq Services
    BY <1>13, <1>a, <1>c DEF Restore
  <2>3. seen' \in Views
    <3>1. seen' = seen \/ seen' = [seen EXCEPT !.refused = seen.refused \cup {Service}]
      BY <1>13 DEF Restore
    <3> QED BY <1>a, <1>c, <3>1, RefusalSeen
  <2> QED BY <1>13, <1>a, <2>1, <2>2, <2>3 DEF Restore, DriverSame
<1>14. CASE End \/ Report
  <2>1. /\ scenario' \in {"none", "over"} /\ UNCHANGED verdict
        /\ UNCHANGED <<driver, worker, proxy, seen, up, stopped>>
    BY <1>14 DEF End, Report, DriverSame, WorldSame
  <2>2. "none" \notin DOMAIN ALL /\ "over" \notin DOMAIN ALL
    BY Scripts
  <2> QED BY <1>a, <2>1, <2>2
<1>15. CASE ThreadAlone
  <2>1. worker' \in [Workers -> {"loop", "busy", "gone"}]
    BY <1>15, <1>a DEF ThreadAlone, Send, Uncaught
  <2> QED BY <1>15, <1>a, <2>1 DEF ThreadAlone, Send, Uncaught, SuiteSame, WorldSame
<1>16. ASSUME NEW w \in Workers, NEW ok \in BOOLEAN, Answer(w, ok)
       PROVE  Places(scenario', verdict', step') /\ Things(driver', worker', proxy', seen', up', stopped')
  BY <1>16, <1>a, AnswerEffect
<1>17. CASE ProxyThread
  <2>1. proxy' \in Proxies
    BY <1>17, <1>a, ProxyKept
  <2> QED BY <1>17, <1>a, <2>1 DEF ProxyThread, Accept, Connect, Pump, SuiteSame, DriverSame
<1> QED
  BY <1>1, <1>2, <1>3, <1>4, <1>5, <1>6, <1>7, <1>8, <1>9, <1>10, <1>11, <1>12, <1>13, <1>14,
     <1>15, <1>16, <1>17, <1>18, ChaosCases

LEMMA TidiedNext == ChaosInv /\ [ChaosNext]_chaosVars => Tidied'
<1> SUFFICES ASSUME ChaosTypes, Tidied, [ChaosNext]_chaosVars PROVE Tidied'
  BY DEF ChaosInv
<1> DEFINE Down(u) == Services \ u
           Owes(l, st) == l \cup (IF st THEN {Service} ELSE {})
           TidyOf(k, q, px, ps, u, l) ==
               /\ k > 1 => q
               /\ k > 3 => ~px.on /\ px.link # "piped"
               /\ k > 4 => "extra" \notin ps
               /\ k > 5 => ps = {}
               /\ k > 6 => Down(u) \subseteq l
<1>a. /\ Running => Down(up) \subseteq Owes(Lost(seen), stopped \/ At("set"))
      /\ At("clear") => Service \in up
      /\ seen.cut # {} => verdict = "exit" /\ scenario # "none"
      /\ Clause => TidyOf(step, Quiet, proxy, procs, up, Lost(seen))
      /\ ~Running => TidyOf(7, Quiet, proxy, procs, up, Lost(seen))
  BY DEF Tidied, Tidy, Owing
<1>g. "none" \notin DOMAIN ALL /\ "over" \notin DOMAIN ALL
  BY Scripts
<1>b. ASSUME Running, scenario' = scenario, verdict' # "open",
             Down(up') \subseteq Owes(Lost(seen'), stopped'),
             seen'.cut # {} => verdict' = "exit",
             TidyOf(step', Quiet', proxy', procs', up', Lost(seen'))
      PROVE  Tidied'
  <2>1. Running' /\ Service' = Service /\ scenario' # "none"
    BY <1>b, <1>g DEF Running, Service, ALL
  <2>2. ~At("set")' /\ ~At("clear")'
    BY <1>b DEF At
  <2>3. (Services \ up \subseteq Lost(seen) \cup (IF Owing THEN {Service} ELSE {}))'
    BY <1>b, <2>1, <2>2 DEF Owing, Services
  <2>4. (Clause => Tidy(step))' /\ (~Running => Tidy(7))'
    BY <1>b, <2>1 DEF Tidy, Services
  <2> QED BY <1>b, <2>1, <2>2, <2>3, <2>4 DEF Tidied
<1>c. ASSUME ~Running', TidyOf(7, Quiet', proxy', procs', up', Lost(seen')),
             seen'.cut # {} => verdict' = "exit" /\ scenario' # "none"
      PROVE  Tidied'
  <2>1. ~Clause' /\ ~Owing' /\ ~At("clear")'
    BY <1>c DEF Clause, Owing, At
  <2>2. Down(up') \subseteq Lost(seen')
    BY <1>c
  <2>3. (Services \ up \subseteq Lost(seen) \cup (IF Owing THEN {Service} ELSE {}))'
    BY <2>1, <2>2 DEF Services
  <2>4. Tidy(7)'
    BY <1>c DEF Tidy, Services
  <2> QED BY <1>c, <2>1, <2>3, <2>4 DEF Tidied
(* A step of the body that goes on. *)
<1>h. ASSUME Body, ALL[scenario][step] # "judge", Continue, scenario' = scenario,
             seen'.refused = seen.refused, seen'.cut = seen.cut,
             Down(up') \subseteq Owes(Lost(seen), stopped' \/ ALL[scenario][step] = "docker_stop"),
             ALL[scenario][step] = "docker_start" => Service \in up'
      PROVE  Tidied'
  <2>1. /\ Running' /\ verdict' = "open" /\ Service' = Service
        /\ At("set")' <=> ALL[scenario][step] = "docker_stop"
        /\ At("clear")' <=> ALL[scenario][step] = "docker_start"
    BY <1>h, DockerStep
  <2>2. seen'.cut = {} /\ Lost(seen') = Lost(seen)
    BY <1>a, <1>h DEF Body, Lost
  <2>3. Lost(seen)' = Lost(seen') /\ (Owing' <=> (stopped' \/ ALL[scenario][step] = "docker_stop"))
    BY <2>1 DEF Owing, Lost
  <2>4. (Services \ up \subseteq Lost(seen) \cup (IF Owing THEN {Service} ELSE {}))'
    BY <1>h, <2>1, <2>2, <2>3 DEF Services
  <2>5. (At("clear") => Service \in up)'
    BY <1>h, <2>1
  <2> QED BY <2>1, <2>2, <2>4, <2>5 DEF Tidied, Clause
<1>i. ASSUME Body, ALL[scenario][step] \notin {"judge", "docker_stop", "docker_start", "set", "clear"},
             Continue, UNCHANGED <<scenario, up, stopped>>,
             seen'.refused = seen.refused, seen'.cut = seen.cut
      PROVE  Tidied'
  <2>1. Running /\ ~At("set")
    BY <1>i DEF Body, At
  <2> QED BY <1>a, <1>h, <1>i, <2>1
<1>j. ASSUME Clause
      PROVE  Running /\ verdict # "open" /\ Down(up) \subseteq Owes(Lost(seen), stopped)
  <2>1. Running /\ verdict # "open" /\ ~At("set")
    BY <1>j DEF Clause, At
  <2> QED BY <1>a, <2>1
<1>d. driver \in Drivers /\ seen \in Views /\ proxy \in Proxies
      /\ worker \in [Workers -> {"loop", "busy", "gone"}] /\ stopped \in BOOLEAN
  BY DEF ChaosTypes
<1>k. seen \in Views
  BY DEF ChaosTypes
<1>e. ASSUME UNCHANGED <<driver, worker>> PROVE Quiet' = Quiet
  BY <1>e DEF Quiet
<1>f. ASSUME UNCHANGED <<scenario, step, verdict, procs, up, stopped>>,
             Quiet => Quiet', seen'.refused = seen.refused, seen'.cut = seen.cut,
             ~proxy.on /\ proxy.link # "piped" => ~proxy'.on /\ proxy'.link # "piped"
      PROVE  Tidied'
  <2>1. /\ Running' = Running /\ Service' = Service /\ Clause' = Clause
        /\ At("set")' = At("set") /\ At("clear")' = At("clear")
    BY <1>f DEF Running, Service, Clause, At, ALL, SigkillReplica, SigtermReplica, NetworkPartition,
       RedisDown, EtcdDown, TrafficSpike, SlowReplica
  <2>2. Lost(seen)' = Lost(seen) /\ Owing' = Owing /\ Services' = Services
    BY <1>f, <2>1 DEF Lost, Owing, Services
  <2>3. (Services \ up \subseteq Lost(seen) \cup (IF Owing THEN {Service} ELSE {}))'
    BY <1>f, <2>1, <2>2 DEF Tidied
  <2>4. Clause => Tidy(step)'
    BY <1>f, <2>2 DEF Tidied, Tidy
  <2>5. ~Running => Tidy(7)'
    BY <1>f, <2>2 DEF Tidied, Tidy
  <2> QED BY <1>a, <1>f, <2>1, <2>3, <2>4, <2>5 DEF Tidied
<1>1. CASE UNCHANGED chaosVars
  <2>1. UNCHANGED <<scenario, step, verdict, driver, worker, procs, proxy, up, stopped, seen>>
    BY <1>1 DEF chaosVars
  <2> QED BY <1>f, <1>e, <2>1
<1>2. ASSUME NEW name \in DOMAIN ALL, Begin(name) PROVE Tidied'
  <2>1. ~Running /\ scenario = "none" /\ scenario' = name
    BY <1>2, <1>g DEF Begin, Running
  <2>2. Down(up) \subseteq Lost(seen) /\ seen.cut = {}
    BY <1>a, <2>1
  <2>3. seen'.refused = seen.refused /\ seen'.cut = seen.cut
    <3>1. seen' = [seen EXCEPT !.fault = FALSE, !.drop = FALSE]
      BY <1>2 DEF Begin
    <3>2. /\ seen' \in Views /\ seen'.fault = FALSE /\ seen'.drop = FALSE
          /\ seen'.refused = seen.refused /\ seen'.cut = seen.cut
      BY ONLY <1>k, <3>1 DEF Views
    <3> QED BY <3>2
  <2>4. Running' /\ verdict' = "open" /\ up' = up /\ step' = 1
    BY <1>2, <2>1 DEF Begin, Running, ALL
  <2>5. ~At("clear")'
    <3>1. Ordered(name, ALL[name])
      BY ScriptOrder
    <3>4. DockerAt(name, 1, ALL[name][1])
      BY <3>1 DEF Ordered
    <3>2. ALL[name][1] # "clear"
      BY <3>4 DEF DockerAt
    <3>3. At("clear")' => ALL[name][1] = "clear"
      BY <2>1, <2>4 DEF At, ALL, SigkillReplica, SigtermReplica, NetworkPartition, RedisDown,
         EtcdDown, TrafficSpike, SlowReplica
    <3> QED BY <3>2, <3>3
  <2>6. (Services \ up \subseteq Lost(seen) \cup (IF Owing THEN {Service} ELSE {}))'
    BY <2>2, <2>3, <2>4 DEF Services, Lost
  <2> QED BY <2>2, <2>3, <2>4, <2>5, <2>6 DEF Tidied, Clause
<1>3. CASE Plain
  <2> DEFINE s == ALL[scenario][step]
  <2>1. /\ Body /\ s \in PlainSteps /\ Continue /\ scenario' = scenario /\ seen' = seen
        /\ \/ UNCHANGED <<up, stopped>> /\ s \notin {"docker_start", "set", "clear"}
           \/ s = "docker_start" /\ up' = up \cup {Service} /\ UNCHANGED stopped
           \/ s = "set" /\ stopped' = TRUE /\ UNCHANGED up
           \/ s = "clear" /\ stopped' = FALSE /\ UNCHANGED up
    BY <1>3 DEF Plain
  <2>2. s \notin {"judge", "docker_stop"} /\ Running /\ (At("set") <=> s = "set") /\ (s = "clear" => At("clear"))
    BY <2>1 DEF PlainSteps, Body, At
  <2> HIDE DEF s
  <2>3. CASE s = "docker_start" /\ up' = up \cup {Service} /\ UNCHANGED stopped
    <3>1. Down(up') \subseteq Lost(seen)
      BY <1>a, <2>2, <2>3
    <3> QED BY <1>h, <2>1, <2>2, <2>3, <3>1 DEF s
  <2>4. CASE s = "set" /\ stopped' = TRUE /\ UNCHANGED up
    BY <1>a, <1>h, <2>1, <2>2, <2>4 DEF s
  <2>5. CASE s = "clear" /\ stopped' = FALSE /\ UNCHANGED up
    <3>1. Down(up') \subseteq Lost(seen)
      BY <1>a, <2>2, <2>5
    <3> QED BY <1>h, <2>1, <2>2, <2>5, <3>1 DEF s
  <2>6. CASE UNCHANGED <<up, stopped>> /\ s \notin {"docker_start", "set", "clear"}
    BY <1>i, <2>1, <2>2, <2>6 DEF s
  <2> QED BY <2>1, <2>3, <2>4, <2>5, <2>6
<1>4. CASE Faulted
  <2> DEFINE s == ALL[scenario][step]
  <2>1. /\ Body /\ s \in FaultSteps /\ Continue /\ scenario' = scenario /\ stopped' = stopped
        /\ (up' = up /\ s # "docker_stop") \/ (s = "docker_stop" /\ up' = up \ {Service})
    BY <1>4 DEF Faulted
  <2>2. seen'.refused = seen.refused /\ seen'.cut = seen.cut
    BY <1>4, <1>d, FaultSeen DEF Faulted
  <2>3. s \notin {"judge", "docker_start", "set", "clear"} /\ Running /\ (At("set") <=> s = "set")
    BY <2>1 DEF FaultSteps, Body, At
  <2> HIDE DEF s
  <2>4. CASE up' = up /\ s # "docker_stop"
    BY <1>i, <2>1, <2>2, <2>3, <2>4 DEF s
  <2>5. CASE s = "docker_stop" /\ up' = up \ {Service}
    <3>1. Down(up') \subseteq Owes(Lost(seen), TRUE)
      BY <1>a, <2>3, <2>5
    <3> QED BY <1>h, <2>1, <2>2, <2>3, <2>5, <3>1 DEF s
  <2> QED BY <2>1, <2>4, <2>5
<1>5. CASE Left \/ Passed
  <2>1. /\ Running /\ verdict = "open" /\ verdict' # "open" /\ step' = 1 /\ scenario' = scenario
        /\ ~At("set") \/ Service \in up
        /\ UNCHANGED <<up, stopped, seen>>
    BY <1>5 DEF Left, Passed, At, Body, Leave
  <2>2. Down(up') \subseteq Owes(Lost(seen'), stopped')
    BY <1>a, <2>1
  <2>3. TidyOf(step', Quiet', proxy', procs', up', Lost(seen')) /\ seen'.cut = {}
    BY <1>a, <2>1
  <2> QED BY <1>b, <2>1, <2>2, <2>3
<1>19. CASE CutShort
  <2>1. /\ Running /\ verdict' = "exit" /\ step' = 1 /\ scenario' = scenario /\ stopped' = stopped
        /\ up' \in {up, up \ {Service}}
    BY <1>19 DEF CutShort, Body, Leave
  <2>2. seen'.refused = seen.refused /\ seen'.cut = seen.cut \cup {Service}
    <3>1. Service \in Services
      BY DEF Service, Services
    <3> QED BY <1>19, <1>d, <3>1, CutSeen DEF CutShort
  <2>3. Down(up') \subseteq Owes(Lost(seen'), stopped')
    BY <1>a, <2>1, <2>2 DEF Lost
  <2>4. TidyOf(step', Quiet', proxy', procs', up', Lost(seen'))
    BY <2>1
  <2> QED BY <1>b, <2>1, <2>3, <2>4
<1>6. CASE StartDriver
  <2>1. /\ Body /\ ALL[scenario][step] = "drive" /\ Continue /\ UNCHANGED <<scenario, up, stopped>>
    BY <1>6 DEF StartDriver, At, Body, SuiteSame, WorldSame
  <2>2. seen'.refused = seen.refused /\ seen'.cut = seen.cut
    <3> DEFINE f == driver.joined
    <3>1. f \in BOOLEAN
      BY <1>d, DriverFields
    <3>2. seen' = [seen EXCEPT !.fault = f, !.drop = FALSE]
      BY <1>6 DEF StartDriver
    <3> HIDE DEF f
    <3>3. /\ seen' \in Views /\ seen'.fault = f /\ seen'.drop = FALSE
          /\ seen'.refused = seen.refused /\ seen'.cut = seen.cut
      BY ONLY <1>k, <3>1, <3>2 DEF Views
    <3> QED BY <3>3
  <2> QED BY <1>i, <2>1, <2>2
<1>7. CASE Mark
  <2>1. /\ Body /\ ALL[scenario][step] = "mark" /\ Continue /\ UNCHANGED <<scenario, up, stopped, seen>>
    BY <1>7 DEF Mark, At, Body, SuiteSame, WorldSame
  <2> QED BY <1>i, <2>1
<1>8. CASE StopDriver
  <2>1. Continue /\ UNCHANGED <<scenario, procs, proxy, up, stopped, seen>>
    BY <1>8 DEF StopDriver, SuiteSame, WorldSame
  <2>2. CASE At("stop")
    <3>1. Body /\ ALL[scenario][step] = "stop"
      BY <2>2 DEF At, Body
    <3> QED BY <1>i, <2>1, <3>1
  <2>3. CASE Ending("stop")
    <3>0. Clause /\ step = 1
      BY <2>3, ClauseStep
    <3>1. Clause /\ step = 1 /\ step' = 2 /\ verdict' = verdict
      BY <2>1, <3>0 DEF Continue
    <3>2. Quiet'
      BY <1>8, <1>d, DriverFields DEF StopDriver, Quiet
    <3>3. TidyOf(step', Quiet', proxy', procs', up', Lost(seen'))
      BY <3>1, <3>2
    <3> QED BY <1>a, <1>b, <1>j, <2>1, <3>1, <3>3
  <2> QED BY <1>8, <2>2, <2>3 DEF StopDriver
<1>9. CASE Join
  <2>1. Continue /\ UNCHANGED <<scenario, worker, procs, proxy, up, stopped, seen>>
    BY <1>9 DEF Join, SuiteSame, WorldSame
  <2>2. CASE At("join")
    <3>1. Body /\ ALL[scenario][step] = "join"
      BY <2>2 DEF At, Body
    <3> QED BY <1>i, <2>1, <3>1
  <2>3. CASE Ending("join")
    <3>0. Clause /\ step = 2
      BY <2>3, ClauseStep
    <3>1. Clause /\ step = 2 /\ step' = 3 /\ verdict' = verdict
      BY <2>1, <3>0 DEF Continue
    <3>2. driver'.stop = driver.stop
      BY <1>9, <1>d, DriverFields DEF Join
    <3>3. Quiet => Quiet'
      BY <2>1, <3>2 DEF Quiet
    <3>4. TidyOf(step', Quiet', proxy', procs', up', Lost(seen'))
      BY <1>a, <3>1, <3>3
    <3> QED BY <1>a, <1>b, <1>j, <2>1, <3>1, <3>4
  <2> QED BY <1>9, <2>2, <2>3 DEF Join
<1>10. CASE ProxyStop
  <2>1. /\ Running /\ scenario' = scenario /\ verdict' = verdict /\ step' = step + 1
        /\ UNCHANGED <<driver, worker, procs, up, stopped, seen>>
    BY <1>10 DEF ProxyStop, Ending, Continue, SuiteSame, DriverSame
  <2>2. step = 3 /\ Clause
    BY <1>10, ClauseStep DEF ProxyStop
  <2>3. ~proxy'.on /\ proxy'.link # "piped"
    BY <1>10, <1>d, ProxyKept
  <2>5. step > 1 /\ step' = 4 /\ ~(4 > 4) /\ ~(4 > 5) /\ ~(4 > 6)
    BY <2>1, <2>2
  <2>7. Quiet
    BY <1>a, <2>2, <2>5
  <2>6. Quiet'
    BY <1>e, <2>1, <2>7
  <2>4. TidyOf(step', Quiet', proxy', procs', up', Lost(seen'))
    BY <2>3, <2>5, <2>6, Zenon
  <2> QED BY <1>a, <1>b, <1>j, <2>1, <2>2, <2>4
<1>11. CASE Reap
  <2>1. /\ Running /\ scenario' = scenario /\ verdict' = verdict /\ step' = step + 1 /\ Ending("reap")
        /\ UNCHANGED <<driver, worker, proxy, up, stopped, seen>> /\ procs' = procs \ {"extra"}
    BY <1>11 DEF Reap, Ending, Continue, SuiteSame, DriverSame
  <2>2. step = 4 /\ Clause
    BY <2>1, ClauseStep
  <2>3. TidyOf(step', Quiet', proxy', procs', up', Lost(seen'))
    BY <1>a, <1>e, <2>1, <2>2
  <2> QED BY <1>a, <1>b, <1>j, <2>1, <2>2, <2>3
<1>12. CASE StopCluster
  <2>1. /\ Running /\ scenario' = scenario /\ verdict' = verdict /\ step' = step + 1
        /\ UNCHANGED <<driver, worker, proxy, up, stopped, seen>> /\ procs' = procs \cap {"extra"}
    BY <1>12 DEF StopCluster, Ending, Continue, SuiteSame, DriverSame
  <2>2. step = 5 /\ Clause
    BY <1>12, ClauseStep DEF StopCluster
  <2>4. step > 1 /\ step > 3 /\ step > 4 /\ step' = 6 /\ ~(6 > 6)
    BY <2>1, <2>2
  <2>5. Quiet /\ ~proxy.on /\ proxy.link # "piped" /\ "extra" \notin procs
    BY <1>a, <2>2, <2>4
  <2>6. Quiet' /\ procs' = {}
    BY <1>e, <2>1, <2>5
  <2>3. TidyOf(step', Quiet', proxy', procs', up', Lost(seen'))
    BY <2>1, <2>4, <2>5, <2>6, Zenon
  <2> QED BY <1>a, <1>b, <1>j, <2>1, <2>2, <2>3
<1>13. CASE Restore
  <2>1. /\ Running /\ scenario' = scenario /\ verdict' = verdict /\ step' = step + 1 /\ Ending("restore")
        /\ UNCHANGED <<driver, worker, procs, proxy, stopped>>
        /\ \/ stopped /\ up' = up \cup {Service} /\ seen' = seen
           \/ stopped /\ up' = up /\ seen' = [seen EXCEPT !.refused = seen.refused \cup {Service}]
           \/ ~stopped /\ up' = up /\ seen' = seen
    BY <1>13 DEF Restore, Ending, Continue, SuiteSame, DriverSame
  <2>2. step = 6 /\ Clause
    BY <2>1, ClauseStep
  <2>3. Service \in Services
    BY DEF Service, Services
  <2>4. Down(up') \subseteq Lost(seen') /\ seen'.cut = seen.cut
    <3>1. CASE stopped /\ up' = up \cup {Service} /\ seen' = seen
      BY <1>j, <2>2, <3>1
    <3>2. CASE stopped /\ up' = up /\ seen' = [seen EXCEPT !.refused = seen.refused \cup {Service}]
      <4>1. seen'.refused = seen.refused \cup {Service} /\ seen'.cut = seen.cut
        BY <1>d, <2>3, <3>2, RefusalSeen
      <4> QED BY <1>j, <2>2, <3>2, <4>1 DEF Lost
    <3>3. CASE ~stopped /\ up' = up /\ seen' = seen
      BY <1>j, <2>2, <3>3
    <3> QED BY <2>1, <3>1, <3>2, <3>3
  <2>5. TidyOf(step', Quiet', proxy', procs', up', Lost(seen'))
    BY <1>a, <1>e, <2>1, <2>2, <2>4
  <2> QED BY <1>a, <1>b, <1>j, <2>1, <2>2, <2>4, <2>5
<1>14. CASE End
  <2>1. /\ Ending("end") /\ scenario' = (IF verdict = "exit" THEN "over" ELSE "none")
        /\ UNCHANGED <<verdict, driver, worker, procs, proxy, up, stopped, seen>>
    BY <1>14 DEF End, DriverSame, WorldSame
  <2>2. step = 7 /\ Clause
    BY <2>1, ClauseStep
  <2>3. ~Running'
    BY <1>g, <2>1 DEF Running, ALL
  <2>4. seen'.cut # {} => verdict' = "exit" /\ scenario' # "none"
    BY <1>a, <2>1
  <2> QED BY <1>a, <1>c, <1>e, <2>1, <2>2, <2>3, <2>4
<1>15. CASE Report
  <2>1. /\ scenario = "none" /\ scenario' = "over"
        /\ UNCHANGED <<driver, worker, procs, proxy, up, stopped, seen>>
    BY <1>15 DEF Report, DriverSame, WorldSame
  <2>2. ~Running /\ ~Running'
    BY <1>g, <2>1 DEF Running, ALL
  <2>3. seen'.cut = {}
    BY <1>a, <2>1
  <2> QED BY <1>a, <1>c, <1>e, <2>1, <2>2, <2>3
<1>16. CASE ThreadAlone
  <2>1. PICK w \in Workers : Send(w) \/ Uncaught(w)
    BY <1>16 DEF ThreadAlone
  <2>2. /\ UNCHANGED <<scenario, step, verdict, driver, procs, proxy, up, stopped, seen>>
        /\ worker[w] # "gone"
    BY <2>1 DEF Send, Uncaught, SuiteSame, WorldSame
  <2>3. Quiet => Quiet'
    BY <2>2 DEF Quiet
  <2> QED BY <1>f, <2>2, <2>3
<1>17. ASSUME NEW w \in Workers, NEW ok \in BOOLEAN, Answer(w, ok) PROVE Tidied'
  <2>1. /\ driver'.stop = driver.stop /\ seen'.refused = seen.refused /\ seen'.cut = seen.cut
        /\ worker[w] = "busy"
        /\ UNCHANGED <<scenario, step, verdict, procs, proxy, up, stopped>>
    BY <1>17, AnswerEffect
  <2>2. Quiet => Quiet'
    BY <2>1 DEF Quiet
  <2> QED BY <1>f, <2>1, <2>2
<1>18. CASE ProxyThread
  <2>1. UNCHANGED <<scenario, step, verdict, driver, worker, procs, up, stopped, seen>>
    BY <1>18 DEF ProxyThread, Accept, Connect, Pump, SuiteSame, DriverSame
  <2>2. ~proxy.on /\ proxy.link # "piped" => ~proxy'.on /\ proxy'.link # "piped"
    BY <1>18, <1>d, ProxyKept
  <2> QED BY <1>e, <1>f, <2>1, <2>2
<1> QED
  BY <1>1, <1>2, <1>3, <1>4, <1>5, <1>6, <1>7, <1>8, <1>9, <1>10, <1>11, <1>12, <1>13, <1>14,
     <1>15, <1>16, <1>17, <1>18, <1>19, ChaosCases

(* What a step of a script needs to know of its place. *)
LEMMA ScriptPlace ==
  ASSUME NEW name \in DOMAIN ALL, NEW k \in 1 .. Len(ALL[name])
  PROVE  /\ k \in Nat /\ Len(ALL[name]) \in Nat /\ k >= 1 /\ k <= Len(ALL[name])
         /\ FirstMark(name) \in Nat /\ FirstMark(name) + 5 <= Len(ALL[name])
         /\ name = "traffic_spike" => /\ Len(ALL[name]) = 12
                                      /\ FaultAt(name) = 8 /\ JoinAt(name) = 11
         /\ name # "traffic_spike" => /\ FaultAt(name) = FirstMark(name) + 1
                                      /\ JoinAt(name) = Len(ALL[name]) - 2
         /\ OrderedAt(name, Len(ALL[name]), k, ALL[name][k])
<1>1. Ordered(name, ALL[name])
  BY ScriptOrder
<1>2. /\ Len(ALL[name]) \in Nat /\ Len(ALL[name]) >= FirstMark(name) + 5
      /\ name = "traffic_spike" => Len(ALL[name]) = 12
      /\ OrderedAt(name, Len(ALL[name]), k, ALL[name][k])
  BY <1>1 DEF Ordered
<1>3. FirstMark(name) \in Nat
  BY DEF FirstMark
<1> QED BY <1>2, <1>3 DEF FaultAt, JoinAt

(* A step with no part in the measurement. *)
LEMMA PlainAdvance ==
  ASSUME NEW name \in DOMAIN ALL, NEW k \in 1 .. Len(ALL[name]), NEW d \in Drivers,
         NEW f \in BOOLEAN, NEW x \in BOOLEAN, OnScript(name, k, d, f, x),
         ALL[name][k] \in PlainSteps
  PROVE  OnScript(name, k + 1, d, f, x)
<1> DEFINE n == Len(ALL[name])
           s == ALL[name][k]
<1>1. /\ k \in Nat /\ n \in Nat /\ k <= n /\ FirstMark(name) \in Nat
      /\ name = "traffic_spike" => n = 12 /\ FaultAt(name) = 8 /\ JoinAt(name) = 11
      /\ name # "traffic_spike" => FaultAt(name) = FirstMark(name) + 1 /\ JoinAt(name) = n - 2
      /\ OrderedAt(name, n, k, s)
  BY ScriptPlace
<1>2. s \notin {"judge", "drive", "mark", "join"} /\ s \notin FaultSteps
  BY DEF PlainSteps, FaultSteps
<1> HIDE DEF n, s
<1>3. /\ k # n /\ k # FaultAt(name)
      /\ name = "traffic_spike" => k # 7 /\ k # 11
      /\ name # "traffic_spike" => k # FirstMark(name) /\ k # n - 2 /\ k # n - 1
  BY <1>1, <1>2 DEF OrderedAt
<1>4. /\ k + 1 > JoinAt(name) => k > JoinAt(name)
      /\ k + 1 > FaultAt(name) => k > FaultAt(name)
      /\ name # "traffic_spike" => k # n /\ k + 1 # n
      /\ name = "traffic_spike" => k + 1 # 8
      /\ name # "traffic_spike" =>
           /\ k + 1 <= JoinAt(name) => k <= JoinAt(name)
           /\ k + 1 <= FirstMark(name) => k <= FirstMark(name)
           /\ k + 1 > FirstMark(name) => k > FirstMark(name)
  BY <1>1, <1>3, SMTT(40)
<1>5. x => \E i \in DOMAIN d.log : InPhase(d, i, name # "traffic_spike" /\ k + 1 = n)
  <2>1. x => \E i \in DOMAIN d.log : InPhase(d, i, name # "traffic_spike" /\ k = n)
    BY DEF OnScript, n
  <2>2. ASSUME NEW i \in DOMAIN d.log, InPhase(d, i, name # "traffic_spike" /\ k = n)
        PROVE  InPhase(d, i, name # "traffic_spike" /\ k + 1 = n)
    BY <1>4, <2>2 DEF InPhase
  <2> QED BY <2>1, <2>2
<1> QED BY <1>4, <1>5 DEF OnScript, n

(* The step that makes the fault. *)
LEMMA FaultAdvance ==
  ASSUME NEW name \in DOMAIN ALL, NEW k \in 1 .. Len(ALL[name]), NEW d \in Drivers,
         NEW f \in BOOLEAN, NEW x \in BOOLEAN, OnScript(name, k, d, f, x),
         ALL[name][k] \in FaultSteps
  PROVE  OnScript(name, k + 1, d, TRUE, x)
<1> DEFINE n == Len(ALL[name])
           s == ALL[name][k]
<1>1. /\ k \in Nat /\ n \in Nat /\ k <= n /\ FirstMark(name) \in Nat /\ FirstMark(name) + 5 <= n
      /\ name # "traffic_spike" => FaultAt(name) = FirstMark(name) + 1 /\ JoinAt(name) = n - 2
      /\ OrderedAt(name, n, k, s)
  BY ScriptPlace
<1> HIDE DEF n
<1>2. name # "traffic_spike" /\ k = FirstMark(name) + 1
  BY <1>1 DEF OrderedAt
<1>3. /\ k + 1 <= JoinAt(name) /\ k <= JoinAt(name) /\ k > FirstMark(name) /\ k + 1 > FirstMark(name)
      /\ k # n /\ k + 1 # n
  BY <1>1, <1>2
<1>5. x => \E i \in DOMAIN d.log : InPhase(d, i, name # "traffic_spike" /\ k + 1 = n)
  <2>1. x => \E i \in DOMAIN d.log : InPhase(d, i, name # "traffic_spike" /\ k = n)
    BY DEF OnScript, n
  <2>2. ASSUME NEW i \in DOMAIN d.log, InPhase(d, i, name # "traffic_spike" /\ k = n)
        PROVE  InPhase(d, i, name # "traffic_spike" /\ k + 1 = n)
    BY <1>3, <2>2 DEF InPhase
  <2> QED BY <2>1, <2>2
<1>6. /\ ~(k + 1 > JoinAt(name)) /\ ~(k + 1 <= FirstMark(name))
  BY <1>1, <1>2, <1>3
<1> QED BY <1>2, <1>3, <1>5, <1>6 DEF OnScript, n

(* A new driver: the fault is in place when an earlier one was joined. *)
LEMMA DriveAdvance ==
  ASSUME NEW name \in DOMAIN ALL, NEW k \in 1 .. Len(ALL[name]), NEW d \in Drivers,
         NEW f \in BOOLEAN, NEW x \in BOOLEAN, OnScript(name, k, d, f, x),
         ALL[name][k] = "drive"
  PROVE  OnScript(name, k + 1, Idle, d.joined, FALSE)
<1> DEFINE n == Len(ALL[name])
<1>1. /\ k \in Nat /\ n \in Nat /\ k <= n /\ FirstMark(name) \in Nat /\ FirstMark(name) + 5 <= n
      /\ name = "traffic_spike" => n = 12 /\ FaultAt(name) = 8 /\ JoinAt(name) = 11
      /\ name # "traffic_spike" => FaultAt(name) = FirstMark(name) + 1 /\ JoinAt(name) = n - 2
      /\ OrderedAt(name, n, k, "drive")
  BY ScriptPlace
<1> HIDE DEF n
<1>2. IF name = "traffic_spike" THEN k \in {4, 8} ELSE k < FirstMark(name)
  BY <1>1 DEF OrderedAt
<1>3. /\ ~(k + 1 > JoinAt(name))
      /\ name = "traffic_spike" => k + 1 # 8 /\ (k + 1 > FaultAt(name) => k = 8)
      /\ name # "traffic_spike" => ~(k + 1 > FaultAt(name)) /\ k <= JoinAt(name) /\ ~(k + 1 > FirstMark(name))
  BY <1>1, <1>2
<1>4. k + 1 > FaultAt(name) => d.joined
  BY <1>3 DEF OnScript
<1>5. name # "traffic_spike" => ~d.joined
  BY <1>3 DEF OnScript
<1>6. /\ Idle.joined = FALSE /\ Idle.marks = <<>> /\ DOMAIN Idle.marks = {}
  BY IdleDriver
<1> QED BY <1>3, <1>4, <1>5, <1>6 DEF OnScript

LEMMA MarkAppended ==
  ASSUME NEW s \in Seq(Nat), NEW v \in Nat, NEW u, u = Append(s, v)
  PROVE  /\ DOMAIN u = 1 .. Len(s) + 1 /\ Len(u) = Len(s) + 1 /\ u[Len(s) + 1] = v
         /\ \A j \in 1 .. Len(s) : u[j] = s[j] /\ j \in DOMAIN s
         /\ s # <<>> => 1 \in 1 .. Len(s)
         /\ u # <<>>
OBVIOUS

(* A mark ends a phase: a failure that was in an open one is now in a closed one. *)
LEMMA MarkAdvance ==
  ASSUME NEW name \in DOMAIN ALL, NEW k \in 1 .. Len(ALL[name]), NEW d \in Drivers,
         NEW f \in BOOLEAN, NEW x \in BOOLEAN, OnScript(name, k, d, f, x),
         ALL[name][k] = "mark",
         NEW e \in Drivers, e.joined = d.joined, e.log = d.log,
         e.marks = Append(d.marks, Len(d.log))
  PROVE  OnScript(name, k + 1, e, f, x)
<1> DEFINE n == Len(ALL[name])
           L == Len(d.log)
           M == Len(d.marks)
<1>1. /\ k \in Nat /\ n \in Nat /\ k <= n /\ FirstMark(name) \in Nat /\ FirstMark(name) + 5 <= n
      /\ name # "traffic_spike" => FaultAt(name) = FirstMark(name) + 1 /\ JoinAt(name) = n - 2
      /\ OrderedAt(name, n, k, "mark")
  BY ScriptPlace
<1>a. d.marks \in Seq(Nat) /\ d.log \in Seq(BOOLEAN) /\ L \in Nat
  BY DriverFields
<1>2. d.marks \in Seq(Nat) /\ d.log \in Seq(BOOLEAN) /\ L \in Nat /\ M \in Nat
  BY <1>a
<1>3. /\ DOMAIN e.marks = 1 .. M + 1 /\ Len(e.marks) = M + 1 /\ e.marks[M + 1] = L
      /\ \A j \in 1 .. M : e.marks[j] = d.marks[j] /\ j \in DOMAIN d.marks
      /\ d.marks # <<>> => 1 \in 1 .. M
      /\ e.marks # <<>> /\ DOMAIN d.log = 1 .. L
  BY <1>2, MarkAppended, SMTT(40)
<1> HIDE DEF n
<1>4. /\ name # "traffic_spike" /\ k < n
      /\ k = FirstMark(name) \/ k > FirstMark(name) + 1
      /\ k # FaultAt(name) /\ k # JoinAt(name)
  BY <1>1 DEF OrderedAt, FaultSteps
<1>5. /\ k + 1 > JoinAt(name) => k > JoinAt(name)
      /\ k + 1 > FaultAt(name) => k > FaultAt(name)
      /\ k + 1 <= JoinAt(name) => k <= JoinAt(name)
      /\ ~(k + 1 <= FirstMark(name)) /\ k # n
      /\ k <= FirstMark(name) \/ k > FirstMark(name)
  BY <1>1, <1>4
<1>6. \A j \in DOMAIN e.marks : e.marks[j] <= Len(e.log)
  <2>1. \A j \in DOMAIN d.marks : d.marks[j] <= L
    BY DEF OnScript
  <2>2. ASSUME NEW j \in 1 .. M + 1 PROVE e.marks[j] <= L
    <3>1. CASE j = M + 1
      BY <1>2, <1>3, <3>1
    <3>2. CASE j \in 1 .. M
      BY <1>3, <2>1, <3>2
    <3> QED BY <1>2, <3>1, <3>2
  <2> QED BY <1>3, <2>2
<1>7. ASSUME x = TRUE
      PROVE  \E i \in DOMAIN e.log : InPhase(e, i, name # "traffic_spike" /\ k + 1 = n)
  <2>1. PICK i \in DOMAIN d.log : InPhase(d, i, name # "traffic_spike" /\ k = n)
    BY <1>7 DEF OnScript, n
  <2>2. k > FirstMark(name)
    BY <1>4, <1>5, <1>7 DEF OnScript
  <2>3. d.marks # <<>>
    BY <1>4, <2>2 DEF OnScript
  <2>4. i > e.marks[1]
    BY <1>3, <2>1, <2>3 DEF InPhase
  <2>5. i <= e.marks[Len(e.marks)]
    BY <1>2, <1>3
  <2> QED BY <2>1, <2>4, <2>5 DEF InPhase
<1> QED BY <1>3, <1>4, <1>5, <1>6, <1>7 DEF OnScript, n

(* The join: the last one of a script comes before its last mark. *)
LEMMA JoinAdvance ==
  ASSUME NEW name \in DOMAIN ALL, NEW k \in 1 .. Len(ALL[name]), NEW d \in Drivers,
         NEW f \in BOOLEAN, NEW x \in BOOLEAN, OnScript(name, k, d, f, x),
         ALL[name][k] = "join",
         NEW e \in Drivers, e.joined, e.log = d.log, e.marks = d.marks
  PROVE  OnScript(name, k + 1, e, f, x)
<1> DEFINE n == Len(ALL[name])
<1>1. /\ k \in Nat /\ n \in Nat /\ k <= n /\ FirstMark(name) \in Nat /\ FirstMark(name) + 5 <= n
      /\ name = "traffic_spike" => n = 12 /\ FaultAt(name) = 8 /\ JoinAt(name) = 11
      /\ name # "traffic_spike" => FaultAt(name) = FirstMark(name) + 1 /\ JoinAt(name) = n - 2
      /\ OrderedAt(name, n, k, "join")
  BY ScriptPlace
<1> HIDE DEF n
<1>2. /\ IF name = "traffic_spike" THEN k \in {7, 11} ELSE k = n - 2
      /\ k # FaultAt(name)
  BY <1>1 DEF OrderedAt, FaultSteps
<1>3. /\ k + 1 > FaultAt(name) => k > FaultAt(name)
      /\ name # "traffic_spike" => /\ ~(k + 1 <= JoinAt(name)) /\ ~(k + 1 <= FirstMark(name))
                                   /\ k > FirstMark(name) /\ k # n /\ k + 1 # n
  BY <1>1, <1>2
<1>4. x => \E i \in DOMAIN e.log : InPhase(e, i, name # "traffic_spike" /\ k + 1 = n)
  <2>1. x => \E i \in DOMAIN d.log : InPhase(d, i, name # "traffic_spike" /\ k = n)
    BY DEF OnScript, n
  <2>2. ASSUME NEW i \in DOMAIN d.log, InPhase(d, i, name # "traffic_spike" /\ k = n)
        PROVE  InPhase(e, i, name # "traffic_spike" /\ k + 1 = n)
    BY <1>3, <2>2 DEF InPhase
  <2> QED BY <2>1, <2>2
<1> QED BY <1>3, <1>4 DEF OnScript, n

(* An answer: a failure that counts comes before the join, and so before the last mark. *)
LEMMA AnswerOnScript ==
  ASSUME NEW name \in DOMAIN ALL, NEW k \in 1 .. Len(ALL[name]), NEW d \in Drivers,
         NEW f \in BOOLEAN, NEW x \in BOOLEAN, OnScript(name, k, d, f, x),
         NEW ok \in BOOLEAN, NEW e \in Drivers, e.joined = d.joined, e.marks = d.marks,
         e.log = Append(d.log, ok),
         NEW y \in BOOLEAN, y <=> (x \/ (f /\ ~ok /\ ~d.joined))
  PROVE  OnScript(name, k, e, f, y)
<1> DEFINE n == Len(ALL[name])
           L == Len(d.log)
<1>1. /\ k \in Nat /\ n \in Nat /\ k <= n
      /\ name # "traffic_spike" => JoinAt(name) = n - 2
  BY ScriptPlace
<1>2. d.marks \in Seq(Nat) /\ d.log \in Seq(BOOLEAN) /\ L \in Nat
  BY DriverFields
<1>3. /\ DOMAIN e.log = 1 .. L + 1 /\ Len(e.log) = L + 1 /\ e.log[L + 1] = ok
      /\ DOMAIN d.log = 1 .. L /\ \A i \in 1 .. L : e.log[i] = d.log[i] /\ i \in 1 .. L + 1
      /\ \A j \in DOMAIN d.marks : d.marks[j] \in Nat
      /\ d.marks # <<>> => 1 \in DOMAIN d.marks
  BY <1>2
<1> HIDE DEF n
<1>4. \A j \in DOMAIN d.marks : d.marks[j] <= L
  BY DEF OnScript
<1>5. \A j \in DOMAIN e.marks : e.marks[j] <= Len(e.log)
  BY <1>2, <1>3, <1>4
<1>6. ASSUME y = TRUE
      PROVE  \E i \in DOMAIN e.log : InPhase(e, i, name # "traffic_spike" /\ k = n)
  <2>1. CASE x = TRUE
    <3>1. PICK i \in DOMAIN d.log : InPhase(d, i, name # "traffic_spike" /\ k = n)
      BY <2>1 DEF OnScript, n
    <3>2. i \in DOMAIN e.log /\ e.log[i] = d.log[i]
      BY <1>3
    <3> QED BY <3>1, <3>2 DEF InPhase
  <2>2. CASE f /\ ~ok /\ ~d.joined
    <3>1. ~(name # "traffic_spike" /\ k = n)
      <4>1. name # "traffic_spike" /\ k = n => k > JoinAt(name)
        BY <1>1
      <4> QED BY <2>2, <4>1 DEF OnScript
    <3>2. L + 1 \in DOMAIN e.log /\ ~e.log[L + 1]
      BY <1>2, <1>3, <2>2
    <3>3. e.marks # <<>> => L + 1 > e.marks[1]
      BY <1>2, <1>3, <1>4
    <3> QED BY <3>1, <3>2, <3>3 DEF InPhase
  <2> QED BY <1>6, <2>1, <2>2
<1>7. name # "traffic_spike" /\ k <= FirstMark(name) => ~f /\ ~y
  BY DEF OnScript
<1> QED BY <1>5, <1>6, <1>7 DEF OnScript, n

(* A failure between two marks lies in the phase they bound. *)
LEMMA PhaseOf ==
  ASSUME NEW log \in Seq(BOOLEAN), NEW a \in Nat, NEW b \in Nat, NEW i \in Nat,
         a < i, i <= b, b <= Len(log), log[i] = FALSE
  PROVE  Has(SubSeq(log, a + 1, b), FALSE)
<1> DEFINE p == SubSeq(log, a + 1, b)
<1>1. \A j \in (a + 1) .. b : log[j] \in BOOLEAN
  OBVIOUS
<1>2. p = [j \in 1 .. (b - a) |-> log[j + a]]
  OBVIOUS
<1> HIDE DEF p
<1>3. i - a \in 1 .. (b - a) /\ (i - a) + a = i
  OBVIOUS
<1>4. i - a \in DOMAIN p /\ p[i - a] = FALSE
  BY <1>2, <1>3
<1> QED BY <1>4 DEF Has, p

(* A green verdict is about every failure a client saw. *)
LEMMA PassedClean ==
  ASSUME ChaosTypes, Judged, Passed
  PROVE  driver.joined /\ seen.fault /\ ~seen.drop
<1> DEFINE n == Len(ALL[scenario])
           m == driver.marks
           log == driver.log
<1>1. Body /\ ALL[scenario][step] = "judge"
  BY DEF Passed, At, Body
<1>2. scenario \in DOMAIN ALL /\ step \in 1 .. n
  BY <1>1, BodyStep
<1>3. /\ step \in Nat /\ n \in Nat /\ FirstMark(scenario) \in Nat /\ FirstMark(scenario) + 5 <= n
      /\ scenario = "traffic_spike" => n = 12 /\ FaultAt(scenario) = 8 /\ JoinAt(scenario) = 11
      /\ scenario # "traffic_spike" =>
           FaultAt(scenario) = FirstMark(scenario) + 1 /\ JoinAt(scenario) = n - 2
      /\ OrderedAt(scenario, n, step, "judge")
  BY <1>1, <1>2, ScriptPlace
<1> HIDE DEF n
<1>4. step = n
  BY <1>3 DEF OrderedAt
<1>5. step > JoinAt(scenario) /\ step > FaultAt(scenario)
      /\ (scenario # "traffic_spike" => step > FirstMark(scenario))
  BY <1>3, <1>4
<1>6. OnScript(scenario, step, driver, seen.fault, seen.drop)
  BY <1>1 DEF Judged
<1>7. driver.joined /\ seen.fault
  BY <1>5, <1>6 DEF OnScript
<1>8. m \in Seq(Nat) /\ log \in Seq(BOOLEAN) /\ Len(log) \in Nat
  BY DriverFields DEF ChaosTypes
<1>9. ASSUME seen.drop PROVE FALSE
  <2>1. PICK i \in DOMAIN log : InPhase(driver, i, scenario # "traffic_spike" /\ step = n)
    BY <1>6, <1>9 DEF OnScript, n
  <2>2. i \in Nat /\ log[i] = FALSE
    BY <1>8, <2>1 DEF InPhase
  <2>3. CASE scenario = "traffic_spike"
    <3>1. m = <<>>
      BY <1>6, <2>3 DEF OnScript
    <3>2. log \in Phases
      BY <3>1 DEF Phases
    <3>3. Has(log, FALSE)
      BY <2>2 DEF Has
    <3> QED BY <3>2, <3>3 DEF Passed
  <2>4. CASE scenario # "traffic_spike"
    <3>1. m # <<>>
      BY <1>5, <1>6, <2>4 DEF OnScript
    <3>2. i > m[1] /\ i <= m[Len(m)]
      BY <1>4, <2>1, <2>4, <3>1 DEF InPhase
    <3>3. \A j \in 1 .. Len(m) : m[j] \in Nat /\ m[j] <= Len(log)
      <4>1. \A j \in DOMAIN m : m[j] <= Len(log)
        BY <1>6 DEF OnScript
      <4> QED BY <1>8, <4>1
    <3> DEFINE S == {j \in 1 .. Len(m) : m[j] >= i}
               k == Min(S)
    <3>4. Len(m) \in 1 .. Len(m) /\ 1 \in 1 .. Len(m)
      BY <1>8, <3>1
    <3>5. S \in SUBSET Nat /\ Len(m) \in S
      BY <2>2, <3>2, <3>3, <3>4
    <3>6. k \in S /\ \A j \in S : k <= j
      <4>1. S # {}
        BY <3>5
      <4> HIDE DEF S
      <4> QED BY <3>5, <4>1, SmallestOf
    <3> HIDE DEF k
    <3>7. k \in 1 .. Len(m) /\ m[k] >= i /\ k # 1
      BY <2>2, <3>2, <3>3, <3>4, <3>6
    <3>8. k - 1 \in 1 .. (Len(m) - 1) /\ (k - 1) + 1 = k /\ k - 1 \in 1 .. Len(m) /\ ~(k <= k - 1)
      BY <3>4, <3>7
    <3>9. m[k - 1] < i
      <4>1. k - 1 \notin S
        BY <3>6, <3>8
      <4> QED BY <2>2, <3>3, <3>8, <4>1
    <3>10. Has(SubSeq(log, m[k - 1] + 1, m[k]), FALSE)
      <4>1. m[k - 1] \in Nat /\ m[k] \in Nat /\ m[k] <= Len(log) /\ i <= m[k]
        BY <2>2, <3>3, <3>7, <3>8
      <4> QED BY <1>8, <2>2, <3>9, <4>1, PhaseOf
    <3>11. SubSeq(log, m[k - 1] + 1, m[k]) \in Phases
      <4>1. Phases = {SubSeq(log, m[j] + 1, m[j + 1]) : j \in 1 .. (Len(m) - 1)}
        BY <3>1 DEF Phases
      <4>2. SubSeq(log, m[k - 1] + 1, m[(k - 1) + 1]) \in Phases
        BY <3>8, <4>1
      <4> QED BY <3>8, <4>2
    <3> QED BY <3>10, <3>11 DEF Passed
  <2> QED BY <2>3, <2>4
<1> QED BY <1>7, <1>9

LEMMA JudgedNext == ChaosInv /\ [ChaosNext]_chaosVars => Judged'
<1> SUFFICES ASSUME ChaosTypes, Judged, [ChaosNext]_chaosVars PROVE Judged'
  BY DEF ChaosInv
<1>a. /\ verdict = "pass" => driver.joined /\ seen.fault /\ ~seen.drop
      /\ Body => OnScript(scenario, step, driver, seen.fault, seen.drop)
  BY DEF Judged
<1>b. /\ driver \in Drivers /\ seen \in Views
      /\ seen.fault \in BOOLEAN /\ seen.drop \in BOOLEAN /\ driver.joined \in BOOLEAN
  BY DriverFields, ViewFields DEF ChaosTypes
<1>c. Body => scenario \in DOMAIN ALL /\ step \in 1 .. Len(ALL[scenario])
  BY BodyStep
<1>d. ASSUME Body', scenario' = scenario, verdict' = verdict PROVE Body
  BY <1>d DEF Body, Running, ALL
<1>e. SUFFICES /\ verdict' = "pass" => driver'.joined /\ seen'.fault /\ ~seen'.drop
               /\ Body' => OnScript(scenario', step', driver', seen'.fault, seen'.drop)
  <2>1. OnScript(scenario, step, driver, seen.fault, seen.drop)'
          <=> OnScript(scenario', step', driver', seen'.fault, seen'.drop)
    BY DEF OnScript, InPhase, JoinAt, FaultAt, FirstMark, ALL, SigkillReplica, SigtermReplica,
           NetworkPartition, RedisDown, EtcdDown, TrafficSpike, SlowReplica
  <2> QED BY <1>e, <2>1 DEF Judged
<1>1. ASSUME UNCHANGED <<scenario, step, verdict, driver, seen>>
      PROVE  /\ verdict' = "pass" => driver'.joined /\ seen'.fault /\ ~seen'.drop
             /\ Body' => OnScript(scenario', step', driver', seen'.fault, seen'.drop)
  BY <1>1, <1>a, <1>d
<1>2. ASSUME NEW name \in DOMAIN ALL, Begin(name)
      PROVE  verdict' # "pass" /\ OnScript(scenario', step', driver', seen'.fault, seen'.drop)
  <2>1. /\ scenario' = name /\ step' = 1 /\ verdict' = "open" /\ driver' = Idle
    BY <1>2 DEF Begin
  <2>2. seen'.fault = FALSE /\ seen'.drop = FALSE
    BY <1>2, <1>b, ViewReset DEF Begin
  <2>3. /\ ~(1 > JoinAt(name)) /\ ~(1 > FaultAt(name)) /\ 1 # 8
        /\ ~(1 > FirstMark(name))
    <3>1. Len(ALL[name]) \in Nat /\ Len(ALL[name]) >= 9
      BY ScriptOrder DEF Ordered
    <3> QED BY <3>1 DEF JoinAt, FaultAt, FirstMark
  <2>4. Idle.joined = FALSE /\ Idle.marks = <<>> /\ DOMAIN Idle.marks = {}
    BY IdleDriver
  <2>5. OnScript(name, 1, Idle, FALSE, FALSE)
    BY <2>3, <2>4 DEF OnScript
  <2> QED BY <2>1, <2>2, <2>5
<1>3. CASE Plain
  <2>1. /\ Body /\ ALL[scenario][step] \in PlainSteps /\ step' = step + 1 /\ verdict' = "open"
        /\ UNCHANGED <<scenario, driver, seen>>
    BY <1>3 DEF Plain, Continue, Body
  <2>2. OnScript(scenario, step + 1, driver, seen.fault, seen.drop)
    BY <1>a, <1>b, <1>c, <2>1, PlainAdvance
  <2> QED BY <2>1, <2>2
<1>4. CASE Faulted
  <2>1. /\ Body /\ ALL[scenario][step] \in FaultSteps /\ step' = step + 1 /\ verdict' = "open"
        /\ UNCHANGED <<scenario, driver>>
    BY <1>4 DEF Faulted, Continue, Body
  <2>2. seen'.fault = TRUE /\ seen'.drop = seen.drop
    BY <1>4, <1>b, FaultSeen DEF Faulted
  <2>3. OnScript(scenario, step + 1, driver, TRUE, seen.drop)
    BY <1>a, <1>b, <1>c, <2>1, FaultAdvance
  <2> QED BY <2>1, <2>2, <2>3
<1>5. CASE Left \/ CutShort
  BY <1>5 DEF Left, CutShort, Leave, Body
<1>6. CASE Passed
  <2>1. UNCHANGED <<driver, seen>> /\ verdict' = "pass"
    BY <1>6 DEF Passed, Leave
  <2>2. driver.joined /\ seen.fault /\ ~seen.drop
    BY <1>6, PassedClean
  <2> QED BY <2>1, <2>2 DEF Body
<1>7. CASE StartDriver
  <2>1. /\ Body /\ ALL[scenario][step] = "drive" /\ step' = step + 1 /\ verdict' = "open"
        /\ scenario' = scenario /\ driver' = Idle
    BY <1>7 DEF StartDriver, At, Body, Continue, SuiteSame
  <2>2. seen'.fault = driver.joined /\ seen'.drop = FALSE
    <3> DEFINE f == driver.joined
    <3>1. f \in BOOLEAN
      BY <1>b
    <3>2. seen' = [seen EXCEPT !.fault = f, !.drop = FALSE]
      BY <1>7 DEF StartDriver
    <3>3. seen'.fault = f /\ seen'.drop = FALSE
      <4> HIDE DEF f
      <4> QED BY <1>b, <3>1, <3>2, ViewReset
    <3> QED BY <3>3
  <2>3. OnScript(scenario, step + 1, Idle, driver.joined, FALSE)
    BY <1>a, <1>b, <1>c, <2>1, DriveAdvance
  <2> QED BY <2>1, <2>2, <2>3
<1>8. CASE Mark
  <2>1. /\ Body /\ ALL[scenario][step] = "mark" /\ step' = step + 1 /\ verdict' = "open"
        /\ UNCHANGED <<scenario, seen>>
    BY <1>8 DEF Mark, At, Body, Continue, SuiteSame
  <2>2. /\ driver' \in Drivers /\ driver'.joined = driver.joined /\ driver'.log = driver.log
        /\ driver'.marks = Append(driver.marks, Len(driver.log))
    BY <1>8, <1>b, DriverFields DEF Mark
  <2>3. OnScript(scenario, step + 1, driver', seen.fault, seen.drop)
    BY <1>a, <1>b, <1>c, <2>1, <2>2, MarkAdvance
  <2> QED BY <2>1, <2>3
<1>9. CASE StopDriver
  <2>1. /\ step' = step + 1 /\ verdict' = verdict /\ UNCHANGED <<scenario, seen>>
        /\ verdict = "open" => Body /\ ALL[scenario][step] = "stop"
    BY <1>9 DEF StopDriver, At, Ending, Body, Continue, SuiteSame
  <2>2. /\ driver' \in Drivers /\ driver'.joined = driver.joined /\ driver'.log = driver.log
        /\ driver'.marks = driver.marks
    BY <1>9, <1>b, DriverFields DEF StopDriver
  <2>3. CASE verdict = "open"
    <3>1. OnScript(scenario, step + 1, driver, seen.fault, seen.drop)
      BY <1>a, <1>b, <1>c, <2>1, <2>3, PlainAdvance DEF PlainSteps
    <3>2. OnScript(scenario, step + 1, driver', seen.fault, seen.drop)
      BY <2>2, <3>1 DEF OnScript, InPhase
    <3> QED BY <2>1, <2>3, <3>2
  <2>4. CASE verdict # "open"
    BY <1>a, <2>1, <2>2, <2>4 DEF Body
  <2> QED BY <2>3, <2>4
<1>10. CASE Join
  <2>1. /\ step' = step + 1 /\ verdict' = verdict /\ UNCHANGED <<scenario, seen>>
        /\ verdict = "open" => Body /\ ALL[scenario][step] = "join"
    BY <1>10 DEF Join, At, Ending, Body, Continue, SuiteSame
  <2>2. /\ driver' \in Drivers /\ driver'.joined /\ driver'.log = driver.log
        /\ driver'.marks = driver.marks
    BY <1>10, <1>b, DriverFields DEF Join
  <2>3. CASE verdict = "open"
    <3>1. OnScript(scenario, step + 1, driver', seen.fault, seen.drop)
      BY <1>a, <1>b, <1>c, <2>1, <2>2, <2>3, JoinAdvance
    <3> QED BY <2>1, <2>3, <3>1
  <2>4. CASE verdict # "open"
    BY <1>a, <2>1, <2>2, <2>4 DEF Body
  <2> QED BY <2>3, <2>4
<1>11. CASE ProxyStop \/ Reap \/ StopCluster
  <2>1. UNCHANGED <<verdict, driver, seen>> /\ verdict # "open"
    BY <1>11 DEF ProxyStop, Reap, StopCluster, Ending, Continue, DriverSame
  <2> QED BY <1>a, <2>1 DEF Body
<1>12. CASE Restore
  <2>1. UNCHANGED <<verdict, driver>> /\ verdict # "open"
    BY <1>12 DEF Restore, Ending, Continue, DriverSame
  <2>2. seen'.fault = seen.fault /\ seen'.drop = seen.drop
    <3>1. seen' = seen \/ seen' = [seen EXCEPT !.refused = seen.refused \cup {Service}]
      BY <1>12 DEF Restore
    <3>2. Service \in Services
      BY DEF Service, Services
    <3> QED BY <1>b, <3>1, <3>2, RefusalSeen
  <2> QED BY <1>a, <2>1, <2>2 DEF Body
<1>13. CASE End \/ Report
  <2>1. UNCHANGED <<verdict, driver, seen>> /\ scenario' \in {"none", "over"}
    BY <1>13 DEF End, Report, DriverSame
  <2>2. ~Body'
    <3>1. "none" \notin DOMAIN ALL /\ "over" \notin DOMAIN ALL
      BY Scripts
    <3> QED BY <2>1, <3>1 DEF Body, Running, ALL
  <2> QED BY <1>a, <2>1, <2>2
<1>14. ASSUME ThreadAlone
       PROVE  UNCHANGED <<scenario, step, verdict, driver, seen>>
  BY <1>14 DEF ThreadAlone, Send, Uncaught, SuiteSame
<1>15. ASSUME NEW w \in Workers, NEW ok \in BOOLEAN, Answer(w, ok)
       PROVE  /\ verdict' = "pass" => driver'.joined /\ seen'.fault /\ ~seen'.drop
              /\ Body' => OnScript(scenario', step', driver', seen'.fault, seen'.drop)
  <2>1. /\ driver' \in Drivers /\ driver'.joined = driver.joined /\ driver'.marks = driver.marks
        /\ driver'.log = Append(driver.log, ok) /\ seen' \in Views /\ seen'.fault = seen.fault
        /\ seen'.drop <=> (seen.drop \/ (seen.fault /\ ~ok /\ ~driver.joined))
        /\ UNCHANGED <<scenario, step, verdict>>
    BY <1>15, AnswerEffect
  <2>2. seen'.drop \in BOOLEAN
    BY <2>1, ViewFields
  <2>3. ASSUME Body PROVE OnScript(scenario, step, driver', seen.fault, seen'.drop)
    BY <1>a, <1>b, <1>c, <2>1, <2>2, <2>3, AnswerOnScript
  <2> QED BY <1>a, <1>d, <2>1, <2>3
<1>16. CASE ProxyThread
  <2>1. UNCHANGED <<scenario, step, verdict, driver, seen>>
    BY <1>16 DEF ProxyThread, Accept, Connect, Pump, SuiteSame, DriverSame
  <2> QED BY <1>1, <2>1
<1>17. CASE UNCHANGED chaosVars
  <2>1. UNCHANGED <<scenario, step, verdict, driver, seen>>
    BY <1>17 DEF chaosVars
  <2> QED BY <1>1, <2>1
<1> QED
  BY <1>1, <1>2, <1>3, <1>4, <1>5, <1>6, <1>7, <1>8, <1>9, <1>10, <1>11, <1>12, <1>13, <1>14,
     <1>15, <1>16, <1>17, ChaosCases

-----------------------------------------------------------------------------
LEMMA ChaosInvInit == ChaosInit => ChaosInv
<1> SUFFICES ASSUME ChaosInit PROVE ChaosInv
  OBVIOUS
<1>1. /\ scenario = "none" /\ step = 1 /\ verdict = "open" /\ driver = Idle
      /\ worker = [w \in Workers |-> "gone"] /\ procs = {} /\ proxy = Unused /\ up = Services
      /\ stopped = FALSE /\ seen = [fault |-> FALSE, drop |-> FALSE, refused |-> {}, cut |-> {}]
  BY DEF ChaosInit
<1>2. ~Running
  BY <1>1, Scripts DEF Running
<1>3. seen \in Views
  BY <1>1 DEF Views
<1>4. ChaosTypes
  BY <1>1, <1>2, <1>3, IdleDriver DEF ChaosTypes, Body, Clause
<1>5. Tidied
  BY <1>1, <1>2, IdleDriver DEF Tidied, Tidy, Quiet, Clause, At
<1>6. Judged
  BY <1>1, <1>2 DEF Judged, Body
<1> QED BY <1>4, <1>5, <1>6 DEF ChaosInv

LEMMA ChaosInvariant == ChaosSpec => []ChaosInv
<1>1. ChaosInv /\ [ChaosNext]_chaosVars => ChaosInv'
  BY ChaosTypesNext, TidiedNext, JudgedNext DEF ChaosInv
<1> QED BY <1>1, ChaosInvInit, PTL DEF ChaosSpec

(* GreenIsClean: for every number of client threads and of requests, a scenario is
   green only if the clients of its last driver reported no failure from the fault to the
   join, wherever between two marks a thread appended its outcome. *)
THEOREM GreenVerdictsSound == ChaosSpec => []GreenIsClean
<1>1. ChaosInv => GreenIsClean
  BY DEF ChaosInv, Judged, GreenIsClean
<1> QED BY <1>1, ChaosInvariant, PTL

(* NothingLeftBehind: after any number of scenarios, each ended by its verdict, an
   exception, SystemExit or Ctrl-C at any step of its body, the finally clause has undone
   all that the next scenario would trip over; a service is left stopped only where docker
   refused to start it, or where Ctrl-C ended the suite between the stop and the flag. *)
THEOREM ScenariosLeaveNothing == ChaosSpec => []NothingLeftBehind
<1>1. ASSUME ChaosInv, ~Running
      PROVE  /\ procs = {} /\ ~proxy.on /\ proxy.link # "piped"
             /\ \A w \in Workers : worker[w] = "loop" => driver.stop
             /\ Services \ up \subseteq
                    seen.refused \cup (IF scenario = "over" THEN seen.cut ELSE {})
  <2>1. Tidy(7) /\ (seen.cut # {} => scenario # "none")
    BY <1>1 DEF ChaosInv, Tidied
  <2>2. Quiet /\ ~proxy.on /\ proxy.link # "piped" /\ procs = {} /\ Services \ up \subseteq Lost(seen)
    BY <2>1 DEF Tidy
  <2>3. scenario = "none" \/ scenario = "over"
    BY <1>1 DEF ChaosInv, ChaosTypes, Running
  <2>4. Services \ up \subseteq seen.refused \cup (IF scenario = "over" THEN seen.cut ELSE {})
    BY <2>1, <2>2, <2>3 DEF Lost
  <2> QED BY <2>2, <2>4 DEF Quiet
<1>2. ChaosInv => NothingLeftBehind
  BY <1>1 DEF NothingLeftBehind
<1> QED BY <1>2, ChaosInvariant, PTL

=============================================================================
