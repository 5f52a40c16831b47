------------------------------ MODULE MCStaging ------------------------------
(* Runs are alike: each only has a stage of its own.                       *)
EXTENDS Staging, TLC

MCSymmetry == Permutations(Runs)
=============================================================================
