------------------------------ MODULE Mailbox ------------------------------
(***************************************************************************)
(* The mailbox of one garden citizen: enqueueMetaMessage, readMetaInbox    *)
(* and stampMailboxReceipt (meta-session.ts) and the doorbell hook         *)
(* (doorbell.sh), as processes of different programs on one directory.     *)
(* Each file-system call is an action.  A message's file name suffix is    *)
(* its receipt: .msg, .msg.delivered, then either with .read.              *)
(***************************************************************************)
EXTENDS Naturals, FiniteSets

CONSTANTS
  Messages,   \* one enqueue call each
  Readers,    \* readMetaInbox calls
  Doorbells,  \* doorbell hook processes that may run at once
  NoFile      \* no file in hand

ASSUME MailboxConstants ==
  /\ NoFile \notin Messages \X {"msg", "delivered"}
  /\ Messages \cap Readers = {} /\ Messages \cap Doorbells = {} /\ Readers \cap Doorbells = {}

VARIABLES
  suffix,    \* of each message's file
  body,      \* the messages whose body is in the file
  rung,      \* the signal changed since a doorbell was last started
  announced, \* the messages some doorbell notice counted
  pc,        \* of every enqueue, read and doorbell
  todo,      \* files a reader or a doorbell has listed and not handled, as <<message, suffix>>
  current,   \* the file a reader has read and not archived
  got,       \* the messages a reader has archived
  torn       \* the messages that were read before their body was there

mailboxVars == <<suffix, body, rung, announced, pc, todo, current, got, torn>>

Actors == Messages \cup Readers \cup Doorbells
Unread == {"msg", "delivered"}
Suffixes == Unread \cup {"none", "read"}
Files == Messages \X Unread

MailboxTypeOK ==
  /\ suffix \in [Messages -> Suffixes]
  /\ body \in SUBSET Messages
  /\ rung \in BOOLEAN
  /\ announced \in SUBSET Messages
  /\ pc \in [Actors -> {"idle", "write", "stamp", "poke", "list", "read", "archive",
                        "move", "announce", "done", "threw"}]
  /\ todo \in [Readers \cup Doorbells -> SUBSET Files]
  /\ current \in [Readers -> Files \cup {NoFile}]
  /\ got \in [Readers -> SUBSET Messages]
  /\ torn \in SUBSET Messages

MailboxInit ==
  /\ suffix = [m \in Messages |-> "none"]
  /\ body = {}
  /\ rung = FALSE
  /\ announced = {}
  /\ pc = [a \in Actors |-> "idle"]
  /\ todo = [a \in Readers \cup Doorbells |-> {}]
  /\ current = [r \in Readers |-> NoFile]
  /\ got = [r \in Readers |-> {}]
  /\ torn = {}

Goto(a, label) == pc' = [pc EXCEPT ![a] = label]
Rename(m, new) == suffix' = [suffix EXCEPT ![m] = new]

-----------------------------------------------------------------------------
(* enqueueMetaMessage *)

\* writeFileSync creates the file, then fills it.
Create(m) ==
  /\ pc[m] = "idle"
  /\ Rename(m, "msg")
  /\ Goto(m, "write")
  /\ UNCHANGED <<body, rung, announced, todo, current, got, torn>>

Write(m) ==
  /\ pc[m] = "write"
  /\ body' = body \cup {m}
  /\ Goto(m, "stamp")
  /\ UNCHANGED <<suffix, rung, announced, todo, current, got, torn>>

\* stampMailboxReceipt: the garden-wide state.json, which no code decides on
Stamp(m) ==
  /\ pc[m] = "stamp"
  /\ Goto(m, "poke")
  /\ UNCHANGED <<suffix, body, rung, announced, todo, current, got, torn>>

\* mutant: a mailbox that was announced once is not poked again
Poke_OnlyFirst(m) ==
  /\ pc[m] = "poke"
  /\ rung' = (rung \/ announced = {})
  /\ Goto(m, "done")
  /\ UNCHANGED <<suffix, body, announced, todo, current, got, torn>>

Poke(m) ==
  /\ pc[m] = "poke"
  /\ rung' = TRUE
  /\ Goto(m, "done")
  /\ UNCHANGED <<suffix, body, announced, todo, current, got, torn>>

\* A call throws, or its process dies: nothing is rolled back.
EnqueueFails(m) ==
  /\ pc[m] \in {"write", "stamp", "poke"}
  /\ Goto(m, "threw")
  /\ UNCHANGED <<suffix, body, rung, announced, todo, current, got, torn>>

-----------------------------------------------------------------------------
(* readMetaInbox *)

Listing == {<<m, suffix[m]>> : m \in {n \in Messages : suffix[n] \in Unread}}

\* an empty inbox returns at once
ListInbox(r) ==
  /\ pc[r] = "idle"
  /\ todo' = [todo EXCEPT ![r] = Listing]
  /\ Goto(r, IF Listing = {} THEN "done" ELSE "read")
  /\ UNCHANGED <<suffix, body, rung, announced, current, got, torn>>

\* readFileSync by the listed name; a file that was renamed since throws
ReadFile(r) ==
  /\ pc[r] = "read" /\ todo[r] # {}
  /\ \E f \in todo[r] :
       /\ todo' = [todo EXCEPT ![r] = @ \ {f}]
       /\ IF suffix[f[1]] = f[2]
          THEN /\ current' = [current EXCEPT ![r] = f]
               /\ torn' = torn \cup ({f[1]} \ body)
               /\ Goto(r, "archive")
          ELSE Goto(r, "threw") /\ UNCHANGED <<current, torn>>
  /\ UNCHANGED <<suffix, body, rung, announced, got>>

\* mutant: a file that was renamed meanwhile is not worth an error
Archive_Tolerates(r) ==
  /\ pc[r] = "archive"
  /\ LET m == current[r][1] IN
       /\ Rename(m, "read")
       /\ got' = [got EXCEPT ![r] = @ \cup {m}]
       /\ Goto(r, "read")
  /\ current' = [current EXCEPT ![r] = NoFile]
  /\ UNCHANGED <<body, rung, announced, todo, torn>>

\* renameSync to *.read; it throws when somebody else renamed the file first
Archive(r) ==
  /\ pc[r] = "archive"
  /\ LET m == current[r][1] IN
       IF suffix[m] = current[r][2]
       THEN /\ Rename(m, "read")
            /\ got' = [got EXCEPT ![r] = @ \cup {m}]
            /\ Goto(r, "read")
       ELSE Goto(r, "threw") /\ UNCHANGED <<suffix, got>>
  /\ current' = [current EXCEPT ![r] = NoFile]
  /\ UNCHANGED <<body, rung, announced, todo, torn>>

ReadAll(r) ==
  /\ pc[r] = "read" /\ todo[r] = {}
  /\ Goto(r, "stamp")
  /\ UNCHANGED <<suffix, body, rung, announced, todo, current, got, torn>>

\* the same stamp; if it throws, the messages are archived and not returned
StampRead(r) ==
  /\ pc[r] = "stamp"
  /\ Goto(r, "done") \/ Goto(r, "threw")
  /\ UNCHANGED <<suffix, body, rung, announced, todo, current, got, torn>>

-----------------------------------------------------------------------------
(* doorbell.sh *)

\* The watch fires; changes while no hook was started are one event.
Ring(d) ==
  /\ pc[d] = "idle" /\ rung
  /\ rung' = FALSE
  /\ Goto(d, "list")
  /\ UNCHANGED <<suffix, body, announced, todo, current, got, torn>>

\* nothing fresh: no wake
ListFresh(d) ==
  LET fresh == {f \in Listing : f[2] = "msg"} IN
  /\ pc[d] = "list"
  /\ todo' = [todo EXCEPT ![d] = fresh]
  /\ Goto(d, IF fresh = {} THEN "idle" ELSE "move")
  /\ UNCHANGED <<suffix, body, rung, announced, current, got, torn>>

\* mv; under set -e a file that is gone ends the hook, with no announcement
Move(d) ==
  /\ pc[d] = "move" /\ todo[d] # {}
  /\ \E f \in todo[d] :
       IF suffix[f[1]] = "msg"
       THEN /\ Rename(f[1], "delivered")
            /\ todo' = [todo EXCEPT ![d] = @ \ {f}]
            /\ UNCHANGED pc
       ELSE /\ Goto(d, "idle")
            /\ todo' = [todo EXCEPT ![d] = {}]
            /\ UNCHANGED suffix
  /\ UNCHANGED <<body, rung, announced, current, got, torn>>

\* The notice counts every delivered file, earlier ones too.
Announce(d) ==
  /\ pc[d] = "move" /\ todo[d] = {}
  /\ announced' = announced \cup {m \in Messages : suffix[m] = "delivered"}
  /\ Goto(d, "idle")
  /\ UNCHANGED <<suffix, body, rung, todo, current, got, torn>>

-----------------------------------------------------------------------------

EnqueueStep(m) == Write(m) \/ Stamp(m) \/ Poke(m)
ReadStep(r) == ReadFile(r) \/ Archive(r) \/ ReadAll(r) \/ StampRead(r)
DoorbellStep(d) == Ring(d) \/ ListFresh(d) \/ Move(d) \/ Announce(d)

MailboxNext ==
  \/ \E m \in Messages : Create(m) \/ EnqueueStep(m) \/ EnqueueFails(m)
  \/ \E r \in Readers : ListInbox(r) \/ ReadStep(r)
  \/ \E d \in Doorbells : DoorbellStep(d)

MailboxSpec == MailboxInit /\ [][MailboxNext]_mailboxVars

\* The watch is armed and its hook runs; a started read finishes.
MailboxFairSpec ==
  /\ MailboxSpec
  /\ \A d \in Doorbells : WF_mailboxVars(DoorbellStep(d))
  /\ \A r \in Readers : WF_mailboxVars(ReadStep(r))

-----------------------------------------------------------------------------
(* Properties *)

Returned(r) == IF pc[r] = "done" THEN got[r] ELSE {}

\* No message is handed to two reads, also when doorbells and reads take the same
\* file at the same time.
ReturnedOnce == \A r, s \in Readers : Returned(r) \cap Returned(s) # {} => r = s

\* With one doorbell at a time, every enqueue that succeeded is announced, also when
\* pokes coalesce and a neighbour's enqueue fails, unless a read takes messages first.
SentIsAnnounced ==
  \A m \in Messages : pc[m] = "done" ~> m \in announced \/ \E n \in Messages : suffix[n] = "read"

\* The suffix is the receipt.  .read: this message was handed to a reader, or one is
\* about to return it, body and all.  .msg.delivered: the doorbell rang for it, or is about to.
SuffixIsReceipt ==
  \A m \in Messages :
    /\ suffix[m] = "read" => m \notin torn /\ \E r \in Readers : pc[r] # "threw" /\ m \in got[r]
    /\ suffix[m] = "delivered" => m \in announced \/ \E d \in Doorbells : pc[d] = "move"

-----------------------------------------------------------------------------
(* Why no message is returned twice: an inductive invariant, and the abstract inbox. *)

\* A file is created once; what a read archived is marked read and nobody else's.
MailboxInv ==
  /\ MailboxTypeOK
  /\ \A m \in Messages : pc[m] = "idle" => suffix[m] = "none"
  /\ \A r \in Readers : pc[r] = "archive" => current[r] \in Files
  /\ \A r \in Readers : \A m \in got[r] : suffix[m] = "read"
  /\ \A r, s \in Readers : got[r] \cap got[s] # {} => r = s

Box == INSTANCE Inbox WITH sent <- {m \in Messages : suffix[m] # "none"}, taken <- got

\* The files implement the inbox: a read takes a message as it archives its file.
ImplementsInbox == Box!Spec

\* Why every enqueue is announced: what one doorbell owes while no read takes messages.
OneDoorbell == \A d, e \in Doorbells : d = e

\* A file that a doorbell listed stays fresh until its mv.
ListedIsFresh == \A d \in Doorbells : \A f \in todo[d] : f[2] = "msg" /\ suffix[f[1]] = "msg"

\* What was delivered was announced, or is about to be; for a fresh file whose poke is done
\* the signal has changed, or the doorbell is yet to list, or has it in its list.
FileDue(m) ==
  /\ suffix[m] = "none" => pc[m] = "idle"
  /\ suffix[m] = "delivered" => m \in announced \/ \E d \in Doorbells : pc[d] = "move"
  /\ suffix[m] = "msg" /\ pc[m] = "done" =>
       \/ rung
       \/ \E d \in Doorbells : \/ pc[d] = "list"
                               \/ pc[d] = "move" /\ <<m, "msg">> \in todo[d]

NothingRead == \A m \in Messages : suffix[m] # "read"

DoorbellInv == NothingRead => ListedIsFresh /\ \A m \in Messages : FileDue(m)

\* The safety half of SentIsAnnounced: at no time is an enqueue that succeeded neither
\* announced nor on its way to be, by a changed signal or by a doorbell at work.
NoticeIsUnderWay ==
  \A m \in Messages :
    NothingRead /\ pc[m] = "done" /\ m \notin announced =>
      \/ rung
      \/ \E d \in Doorbells :
           \/ pc[d] = "list"
           \/ pc[d] = "move" /\ (suffix[m] = "delivered" \/ <<m, "msg">> \in todo[d])
=============================================================================
