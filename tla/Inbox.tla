------------------------------- MODULE Inbox -------------------------------
(***************************************************************************)
(* What a citizen's mailbox promises the callers of readMetaInbox: a       *)
(* message is taken by at most one read, only after it was sent, and what  *)
(* a read took stays with it.  It does not promise that the read that took *)
(* a message returns it.                                                   *)
(*                                                                         *)
(* Mailbox implements this with file names that are listed first and       *)
(* renamed later, while doorbells rename the same files.                   *)
(***************************************************************************)
CONSTANTS
  Messages,   \* the messages of one mailbox
  Readers     \* the reads of it

VARIABLES
  sent,       \* the messages that are in the mailbox or were
  taken       \* the messages each read took

Init ==
  /\ sent = {}
  /\ taken = [r \in Readers |-> {}]

Send(m) ==
  /\ m \notin sent
  /\ sent' = sent \cup {m}
  /\ UNCHANGED taken

Take(r, m) ==
  /\ m \in sent /\ \A s \in Readers : m \notin taken[s]
  /\ taken' = [taken EXCEPT ![r] = @ \cup {m}]
  /\ UNCHANGED sent

Next == \E m \in Messages : Send(m) \/ \E r \in Readers : Take(r, m)

Spec == Init /\ [][Next]_<<sent, taken>>
=============================================================================
