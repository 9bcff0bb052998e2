--------------------------- MODULE MCZendSignal ---------------------------
(* Model checking instances of ZendSignal. *)
EXTENDS ZendSignal
=============================================================================
