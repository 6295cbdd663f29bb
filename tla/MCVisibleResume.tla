-------------------------- MODULE MCVisibleResume --------------------------
(* Resume calls on one citizen. *)
EXTENDS VisibleResume, TLC

CONSTANTS c1, c2, op

=============================================================================
