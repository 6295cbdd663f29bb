----------------------------- MODULE MCMailbox -----------------------------
(* A mailbox with two messages, two reads and one doorbell at a time. *)
EXTENDS Mailbox, TLC

CONSTANTS m1, m2, r1, r2, d1
=============================================================================
