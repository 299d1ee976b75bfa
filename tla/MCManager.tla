----------------------------- MODULE MCManager -----------------------------
(* Manager for TLC: the symmetry of the Agent identities and of the RPC slots, *)
(* sound for the safety runs, which mention neither by name.                   *)
EXTENDS Manager, TLC

Symmetry == Permutations(Agents) \cup Permutations(RPCIds)
=============================================================================
