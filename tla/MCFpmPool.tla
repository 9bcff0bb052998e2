------------------------------ MODULE MCFpmPool ------------------------------
(* FpmPool for TLC: children are interchangeable. *)
EXTENDS FpmPool, TLC

Symmetry == Permutations(Pids)
==============================================================================
