----------------------------- MODULE MCDispatch -----------------------------
(* Two calls aimed at one target. *)
EXTENDS Dispatch, TLC

CONSTANTS c1, c2

MCSymmetry == Permutations({c1, c2})
=============================================================================
