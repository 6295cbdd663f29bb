--------------------------- MODULE MCDispatchLock ---------------------------
(* Three processes of one host with one call each. *)
EXTENDS DispatchLock, TLC

CONSTANTS c1, c2, c3, p1, p2, p3, h1

MCProcOf == c1 :> p1 @@ c2 :> p2 @@ c3 :> p3
MCHostOf == p1 :> h1 @@ p2 :> h1 @@ p3 :> h1
=============================================================================
