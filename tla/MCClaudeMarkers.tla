--------------------------- MODULE MCClaudeMarkers ---------------------------
(***************************************************************************)
(* A small instance of ClaudeMarkers: two processes and two gardens, so    *)
(* that a session may go over to another process and back.                 *)
(***************************************************************************)
EXTENDS ClaudeMarkers, TLC

CONSTANTS p1, p2, g1, g2

MCProcs == {p1, p2}
MCGardens == {g1, g2}
MCSymmetry == Permutations(MCProcs) \cup Permutations(MCGardens)
=============================================================================
