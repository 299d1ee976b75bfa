---------------------------- MODULE MCForeground ----------------------------
(* Foreground for TLC; the symmetry is for the run without fairness. *)
EXTENDS Foreground, TLC

Symmetry == Permutations(Agents)
=============================================================================
