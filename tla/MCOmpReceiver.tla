--------------------------- MODULE MCOmpReceiver ---------------------------
(* A host that carries one of two citizens at a time. *)
EXTENDS OmpReceiver, TLC

CONSTANTS s1, s2
=============================================================================
