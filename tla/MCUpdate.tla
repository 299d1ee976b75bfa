------------------------------ MODULE MCUpdate ------------------------------
(* Update for TLC; the symmetry is for the run without fairness. *)
EXTENDS Update, TLC

Symmetry == Permutations(Workers)
=============================================================================
