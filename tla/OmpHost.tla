------------------------------ MODULE OmpHost ------------------------------
(***************************************************************************)
(* What the units of a visible omp host share: the vendor's session        *)
(* manager says which native session the process carries now.  The birth   *)
(* unit (meta-bridge-omp.ts) and the receiver unit                         *)
(* (meta-bridge-receive-omp.ts) each ask it, and hear of its changes.      *)
(***************************************************************************)

CONSTANTS
  Sessions,   \* the native sessions this host may carry
  None        \* no session

VARIABLE
  session     \* what the vendor reports; None while no host runs
=============================================================================
