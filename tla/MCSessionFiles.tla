--------------------------- MODULE MCSessionFiles ----------------------------
(* Two processes and two session ids.                                      *)
EXTENDS SessionFiles
=============================================================================
