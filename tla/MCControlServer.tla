-------------------------- MODULE MCControlServer --------------------------
(* Two pi processes and two garden ids. *)
EXTENDS ControlServer, TLC

CONSTANTS p1, p2, g1, g2

MCSymmetry == Permutations({p1, p2}) \cup Permutations({g1, g2})
=============================================================================
