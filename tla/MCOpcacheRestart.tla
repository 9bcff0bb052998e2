------------------------- MODULE MCOpcacheRestart -------------------------
(* Model checking instances of OpcacheRestart. *)
EXTENDS OpcacheRestart, TLC

Sym == Permutations(Procs) \cup Permutations(Scripts)
=============================================================================
