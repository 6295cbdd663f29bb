--------------------------- MODULE MCOmpBootstrap ---------------------------
(* A launch, two switches, two sessions and two tool calls. *)
EXTENDS OmpBootstrap, TLC

CONSTANTS s1, s2, i1, i2
=============================================================================
