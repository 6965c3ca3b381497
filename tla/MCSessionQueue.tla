--------------------------- MODULE MCSessionQueue ---------------------------
(* An instance of SessionQueue for TLC. *)
EXTENDS SessionQueue, TLC

CONSTANT a

OneTarget == <<a, a>>
=============================================================================
