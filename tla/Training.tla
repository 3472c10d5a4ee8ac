------------------------------ MODULE Training ------------------------------
(***************************************************************************)
(* From the corpus to a trained model: the scripts train_tokenizer.py and  *)
(* prepare_data.py (module Corpus), then train.py (module Trainer), which  *)
(* reads the token files they wrote.                                       *)
(***************************************************************************)
EXTENDS Corpus, Trainer

CONSTANT SeqLen    \* TrainConfig

ASSUME SeqLenAssumption == SeqLen \in Nat \ {0}

vars == <<tokVars, corpusVars, trainVars>>

Init == CorpusInit /\ TrainInit

(* TokenDataset raises on a file that is too short for one window. *)
DataLoads == stage = "ready" /\ \A split \in DOMAIN bin : Len(bin[split]) > SeqLen

Next ==
    \/ CorpusNext /\ UNCHANGED trainVars
    \/ TrainNext(DataLoads) /\ UNCHANGED <<tokVars, corpusVars>>

Spec == Init /\ [][Next]_vars
=============================================================================
