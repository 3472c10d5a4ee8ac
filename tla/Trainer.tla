------------------------------- MODULE Trainer ------------------------------
(***************************************************************************)
(* Resumable training (model/train/train.py, scripts/train.py): the loop   *)
(* of fit() with its evaluations and checkpoints, a process that may die   *)
(* between any two of its steps, and the launch that resumes from what it  *)
(* left in out_dir.                                                        *)
(*                                                                         *)
(* The weights are the list of the updates made to them.  An update is all *)
(* that it depends on: the learning rate's step, the optimizer's moments,  *)
(* the positions of the generator its micro-batches were drawn at, and of  *)
(* the global generator that dropout uses.  The validation loss of weights *)
(* is the constant Val.                                                    *)
(***************************************************************************)
EXTENDS Naturals, Sequences, FiniteSets, FiniteSetsExt

CONSTANTS
    MaxSteps, GradAccum, EvalEvery, CkptEvery, KeepLast,   \* TrainConfig
    Val,          \* number of updates -> loss
    Infinity,     \* float("inf")
    MaxLaunches   \* bound on the processes

ASSUME TrainAssumption ==
    /\ {MaxSteps, GradAccum, EvalEvery, CkptEvery, MaxLaunches} \subseteq Nat \ {0}
    /\ KeepLast \in Nat /\ Infinity \in Nat
    /\ Val \in [0 .. MaxSteps -> 0 .. Infinity - 1]

VARIABLES
    at,         \* where fit() is; "down" without a process
    trainer,    \* what is lost with the process: see Fresh
    ckpts,      \* step -> the state in step_<n>.pt
    best,       \* the state in best.pt, or <<>>
    tmp,        \* the .tmp files that were left behind
    launches,   \* how many processes were started
    reached,    \* history: the most steps any process made in this out_dir
    overlaid    \* history: a --fresh run was started over older checkpoints

trainVars == <<at, trainer, ckpts, best, tmp, launches, reached, overlaid>>

(* Trainer(cfg): generators are seeded, step 0. *)
Fresh == [step |-> 0, bestVal |-> Infinity, weights |-> <<>>, moments |-> 0,
          drawn |-> 0, rng |-> 0]

(* Mutant: the data sampler's generator is not restored. *)
LoadedReseeded(saved) == [saved EXCEPT !.drawn = 0]

(* load_state_dict of what state_dict saved. *)
Loaded(saved) == saved

LatestCheckpoint == Max(DOMAIN ckpts)

TrainInit ==
    /\ at = "down" /\ trainer = Fresh
    /\ ckpts = << >> /\ best = <<>> /\ tmp = {}
    /\ launches = 0 /\ reached = 0 /\ overlaid = FALSE

(* scripts/train.py, by hand after a crash or once more after the end; without its
   data it raises here, and nothing has changed. *)
Launch(fresh) ==
    /\ at \in {"down", "done"} /\ launches < MaxLaunches
    /\ trainer' = IF fresh \/ DOMAIN ckpts = {} THEN Fresh ELSE Loaded(ckpts[LatestCheckpoint])
    /\ at' = "loop"
    /\ launches' = launches + 1
    /\ overlaid' = (overlaid \/ (fresh /\ DOMAIN ckpts # {}))
    /\ UNCHANGED <<ckpts, best, tmp, reached>>

-----------------------------------------------------------------------------
(* cosine_lr depends on the step only. *)
LearningRate == trainer.step

(* The windows that TokenDataset.batch draws next, one draw per micro-batch. *)
Batches == [i \in 1 .. GradAccum |-> trainer.drawn + i]

Update == [lr |-> LearningRate, moments |-> trainer.moments, batches |-> Batches,
           dropout |-> trainer.rng]

(* train_step: grad_accum micro-batches, one update. *)
TrainStep ==
    /\ at = "loop" /\ trainer.step < MaxSteps
    /\ trainer' = [trainer EXCEPT !.step = @ + 1, !.weights = Append(@, Update),
                     !.moments = @ + 1, !.drawn = @ + GradAccum, !.rng = @ + GradAccum]
    /\ reached' = Max({reached, trainer.step + 1})
    /\ at' = IF (trainer.step + 1) % EvalEvery = 0 THEN "eval" ELSE "ckpt"
    /\ UNCHANGED <<ckpts, best, tmp, launches, overlaid>>

(* evaluate draws its windows from a generator of its own. *)
Evaluated(better, otherwise) ==
    /\ LET val == Val[Len(trainer.weights)]
       IN  IF val < trainer.bestVal
           THEN trainer' = [trainer EXCEPT !.bestVal = val] /\ at' = better
           ELSE at' = otherwise /\ UNCHANGED trainer
    /\ UNCHANGED <<ckpts, best, tmp, launches, reached, overlaid>>

Evaluate == at = "eval" /\ Evaluated("best", "ckpt")

StepFile == <<"step", trainer.step>>
BestFile == <<"best", 0>>

(* save: the state goes to a .tmp file ... *)
WriteTmp(from, name, to) ==
    /\ at = from
    /\ tmp' = tmp \cup {name}
    /\ at' = to
    /\ UNCHANGED <<trainer, ckpts, best, launches, reached, overlaid>>

WriteStep(from, to) == WriteTmp(from, StepFile, to)
WriteBest(from, to) == WriteTmp(from, BestFile, to)

(* ... which is then renamed. *)
RenameStep(from, to) ==
    /\ at = from
    /\ tmp' = tmp \ {StepFile}
    /\ ckpts' = [n \in DOMAIN ckpts \cup {trainer.step} |->
                    IF n = trainer.step THEN trainer ELSE ckpts[n]]
    /\ at' = to
    /\ UNCHANGED <<trainer, best, launches, reached, overlaid>>

RenameBest(from, to) ==
    /\ at = from
    /\ tmp' = tmp \ {BestFile}
    /\ best' = trainer
    /\ at' = to
    /\ UNCHANGED <<trainer, ckpts, launches, reached, overlaid>>

(* Mutant: the oldest ones are kept. *)
KeptOldest == {n \in DOMAIN ckpts : Cardinality({k \in DOMAIN ckpts : k < n}) < KeepLast}

(* prune_checkpoints: the keep_last highest steps stay. *)
Kept == {n \in DOMAIN ckpts : Cardinality({k \in DOMAIN ckpts : k > n}) < KeepLast}

Superseded == IF KeepLast = 0 THEN {} ELSE DOMAIN ckpts \ Kept

(* The others are unlinked one by one, the oldest first. *)
Prune ==
    /\ at = "prune"
    /\ \/ /\ Superseded = {}
          /\ at' = "loop" /\ UNCHANGED ckpts
       \/ /\ Superseded # {}
          /\ ckpts' = [n \in DOMAIN ckpts \ {Min(Superseded)} |-> ckpts[n]]
          /\ UNCHANGED at
    /\ UNCHANGED <<trainer, best, tmp, launches, reached, overlaid>>

SaveBest == WriteBest("best", "best_tmp") \/ RenameBest("best_tmp", "ckpt")

Checkpoint ==
    \/ /\ trainer.step % CkptEvery = 0
       /\ WriteStep("ckpt", "step_tmp") \/ RenameStep("step_tmp", "prune")
    \/ /\ at = "ckpt" /\ trainer.step % CkptEvery # 0
       /\ at' = "loop"
       /\ UNCHANGED <<trainer, ckpts, best, tmp, launches, reached, overlaid>>

(* After the loop: a last checkpoint, which is not followed by a prune, and an
   evaluation that can win. *)
FinalSave ==
    \/ trainer.step >= MaxSteps /\ WriteStep("loop", "last_tmp")
    \/ RenameStep("last_tmp", "last_eval")

(* Mutant: the last evaluation is only reported. *)
FinalEvaluateReports ==
    /\ at = "last_eval" /\ at' = "done"
    /\ UNCHANGED <<trainer, ckpts, best, tmp, launches, reached, overlaid>>

FinalEvaluate == at = "last_eval" /\ Evaluated("last_best", "done")
FinalBest == WriteBest("last_best", "last_best_tmp") \/ RenameBest("last_best_tmp", "done")

(* The process dies and takes its memory with it. *)
Crash ==
    /\ at \notin {"down", "done"}
    /\ at' = "down" /\ trainer' = Fresh
    /\ UNCHANGED <<ckpts, best, tmp, launches, reached, overlaid>>

(* loads: the data are there. *)
TrainNext(loads) ==
    \/ \E fresh \in BOOLEAN : loads /\ Launch(fresh)
    \/ TrainStep \/ Evaluate \/ SaveBest \/ Checkpoint \/ Prune
    \/ FinalSave \/ FinalEvaluate \/ FinalBest
    \/ Crash

(* Training on data that are always there. *)
TrainerSpec == TrainInit /\ [][TrainNext(TRUE)]_trainVars

-----------------------------------------------------------------------------
(* The i-th update of a run nobody interrupted. *)
TrueUpdate(i) == [lr |-> i - 1, moments |-> i - 1,
                  batches |-> [k \in 1 .. GradAccum |-> (i - 1) * GradAccum + k],
                  dropout |-> (i - 1) * GradAccum]

Uninterrupted(s) ==
    /\ s.weights = [i \in 1 .. s.step |-> TrueUpdate(i)]
    /\ s.moments = s.step
    /\ s.drawn = s.step * GradAccum /\ s.rng = s.step * GradAccum

(* "produces bit-identical weights to training 2N steps straight through"
   (train.py).  Whatever crashes, half-written files and resumes lie behind it, a
   process, and every checkpoint it may resume from, is where an uninterrupted
   run is after as many steps, the batches still to be drawn included. *)
ResumeExact ==
    /\ at # "down" => Uninterrupted(trainer)
    /\ \A n \in DOMAIN ckpts : ckpts[n].step = n /\ Uninterrupted(ckpts[n])

Evaluations == {n \in 1 .. MaxSteps : n % EvalEvery = 0 \/ n = MaxSteps}

(* "The final evaluation has to be able to win. Without this, a run whose last
   steps improve on the previous eval leaves best.pt pointing at a strictly worse
   model" (fit).  When fit() returns, best.pt is the best model of all that the
   run evaluated, although a resumed run starts from an older best_val and may
   overwrite best.pt with a worse one on its way.  A --fresh run over older
   checkpoints is excepted: it takes best.pt for itself. *)
BestIsBest ==
    at = "done" /\ ~overlaid =>
        /\ Val[best.step] = Min({Val[n] : n \in Evaluations})
        /\ best.bestVal = Val[best.step] /\ Uninterrupted(best)

(* "how a thermal event at hour four turns into starting again from zero"
   (scripts/train.py): a restart loses at most ckpt_every steps, whatever was
   being written or pruned, and the checkpoints do not pile up: a process leaves at
   most one more than keep_last, when it dies before it prunes or at its end.  A
   --fresh run over older checkpoints may lose more: its own are pruned first. *)
LittleLost ==
    /\ at # "down" /\ ~overlaid => trainer.step + CkptEvery >= reached
    /\ KeepLast > 0 => Cardinality(DOMAIN ckpts) <= KeepLast + launches
=============================================================================
