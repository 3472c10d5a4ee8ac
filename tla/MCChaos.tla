------------------------------ MODULE MCChaos ------------------------------
(* The chaos suite with interchangeable clients. *)
EXTENDS Chaos, TLC

Symmetry == Permutations(Workers)
=============================================================================
