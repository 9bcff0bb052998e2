--------------------------- MODULE MCFpmEmergency ---------------------------
(* FpmEmergency for TLC; the constants are given in the configurations. *)
EXTENDS FpmEmergency
=============================================================================
