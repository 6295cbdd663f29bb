----------------------------- MODULE TargetLock -----------------------------
(***************************************************************************)
(* What the per-garden-id dispatch lock promises its callers: the lock of  *)
(* one garden id is with at most one running call, and it passes from one  *)
(* call to another only through a moment in which nobody has it.           *)
(*                                                                         *)
(* DispatchLock implements this with a lock file, a reclaim marker and     *)
(* kill(pid, 0); the modules that use the lock rely on this much only.     *)
(***************************************************************************)
CONSTANT Calls      \* the entwurf_v2 calls aimed at one garden id

VARIABLE holders    \* the running calls to which the lock was granted

TypeOK == holders \in SUBSET Calls

Init == holders = {}

Grant(c) ==
  /\ holders = {}
  /\ holders' = {c}

\* The holder released the lock, or its process died.
Leave ==
  /\ holders # {}
  /\ holders' = {}

Next == Leave \/ \E c \in Calls : Grant(c)

Spec == Init /\ [][Next]_holders
=============================================================================
