---------------------------- MODULE ClaudeMarkers ----------------------------
(***************************************************************************)
(* The presence markers of Claude Code sessions.  The hook                 *)
(* (meta-bridge-hook.ts) runs when a session starts, changes its directory *)
(* or is prompted; it says in the sender marker of its process which       *)
(* garden that serves, and in the receiver marker of the garden who        *)
(* watches its mailbox.  A dispatcher joins the two                        *)
(* (lib/entwurf-deliverability.ts).  A native session stands for its       *)
(* garden id.                                                              *)
(*                                                                         *)
(* A process waits for its hook; hooks of different processes, and the     *)
(* dispatchers, interleave at every file-system call.  A marker whose      *)
(* process is gone has a start key that is no longer its pid's.            *)
(***************************************************************************)
EXTENDS Naturals

CONSTANTS
  Procs,    \* pids of Claude Code
  Gardens,
  MaxFaults,  \* bound on what may go wrong in hooks
  None

ASSUME MarkerConstants == MaxFaults \in Nat /\ None \notin Procs \cup Gardens

VARIABLES
  serves,    \* the garden of the session each process carries, None while there is no process
  watch,     \* the garden whose signal file the host watches for it
  sender,    \* the sender markers, one for each pid: a garden, and whether the start key is right
  receiver,  \* the receiver markers, one for each garden: a pid, and whether the start key is right
  hook,      \* the hook each process waits for
  lapses,    \* what went wrong in the hooks of a process and has not been put right
  look,      \* what the dispatcher has found
  contested, \* gardens that two processes carried at one time, or whose marker was
             \* replaced between a read and the unlink
  faults     \* how often something went wrong

files == <<sender, receiver>>
vars == <<serves, watch, files, hook, lapses, look, contested, faults>>

\* A hook: the call that comes next, whether it may arm, and the owner it read in the
\* marker it is about to remove.
Hook == [pc : {"none", "begin", "unlink", "sender", "receiver", "emit"},
         arms : BOOLEAN, seen : Procs \cup {None}]

Lapses == {"hook", "sender", "receiver"}

TypeOK ==
  /\ serves \in [Procs -> Gardens \cup {None}]
  /\ watch \in [Procs -> Gardens \cup {None}]
  /\ sender \in [Procs -> [garden : Gardens \cup {None}, live : BOOLEAN]]
  /\ receiver \in [Gardens -> [owner : Procs \cup {None}, live : BOOLEAN]]
  /\ hook \in [Procs -> Hook]
  /\ lapses \in [Procs -> SUBSET Lapses]
  /\ look \in [garden : Gardens \cup {None}, owner : Procs \cup {None}]
  /\ contested \subseteq Gardens
  /\ faults \in 0..MaxFaults

NoHook == [pc |-> "none", arms |-> FALSE, seen |-> None]
Nothing == [garden |-> None, owner |-> None]

Init ==
  /\ serves = [p \in Procs |-> None]
  /\ watch = [p \in Procs |-> None]
  /\ sender = [p \in Procs |-> [garden |-> None, live |-> FALSE]]
  /\ receiver = [g \in Gardens |-> [owner |-> None, live |-> FALSE]]
  /\ hook = [p \in Procs |-> NoHook]
  /\ lapses = [p \in Procs |-> {}]
  /\ look = Nothing
  /\ contested = {} /\ faults = 0

At(p, label, arms, seen) ==
  hook' = [hook EXCEPT ![p] = [pc |-> label, arms |-> arms, seen |-> seen]]

-----------------------------------------------------------------------------
(* The host: sessions and the events of its hook *)

Starts(p, arms) == At(p, "begin", arms, None)

\* A process starts with a session, or goes over to another one (/resume, /clear) and
\* leaves its watch behind.
SessionStart(p, g) ==
  /\ hook[p].pc = "none" /\ serves[p] # g
  /\ serves' = [serves EXCEPT ![p] = g]
  /\ watch' = [watch EXCEPT ![p] = None]
  /\ Starts(p, TRUE)
  /\ contested' = contested \cup {h \in {g} : \E q \in Procs \ {p} : serves[q] = g}
  /\ UNCHANGED <<files, lapses, look, faults>>

\* A prompt does not arm a watch; a changed directory or file, or the SessionStart of a
\* compaction, does.
Event(p, arms) ==
  /\ hook[p].pc = "none" /\ serves[p] # None
  /\ Starts(p, arms)
  /\ UNCHANGED <<serves, watch, files, lapses, look, contested, faults>>

\* The process ends, a hook that it waits for with it; its pid may come again.
Exit(p) ==
  /\ serves[p] # None
  /\ serves' = [serves EXCEPT ![p] = None]
  /\ watch' = [watch EXCEPT ![p] = None]
  /\ sender' = [sender EXCEPT ![p] = [garden |-> @.garden, live |-> FALSE]]
  /\ receiver' = [g \in Gardens |->
       IF receiver[g].owner = p THEN [owner |-> p, live |-> FALSE] ELSE receiver[g]]
  /\ hook' = [hook EXCEPT ![p] = NoHook]
  /\ lapses' = [lapses EXCEPT ![p] = {}]
  /\ UNCHANGED <<look, contested, faults>>

-----------------------------------------------------------------------------
(* The hook *)

Goto(p, label) == At(p, label, hook[p].arms, None)
Ends(p) == hook' = [hook EXCEPT ![p] = NoHook]

\* mishaps are bounded
Fault == faults < MaxFaults /\ faults' = faults + 1

\* A bad envelope, a record or a signal file that cannot be had, the host's time limit.
\* It ends without a watch, which matters if it was to arm one.
HookFails(p) ==
  /\ hook[p].pc # "none" /\ Fault
  /\ Ends(p)
  /\ lapses' = [lapses EXCEPT ![p] = IF hook[p].arms THEN @ \cup {"hook"} ELSE @]
  /\ UNCHANGED <<serves, watch, files, look, contested>>

\* the launcher's token is missing: a record, a watch, and no markers
Unowned(p) ==
  /\ hook[p].pc = "begin" /\ Fault
  /\ IF hook[p].arms THEN Goto(p, "emit") ELSE Ends(p)
  /\ lapses' = [lapses EXCEPT ![p] = @ \cup {"sender", "receiver"}]
  /\ UNCHANGED <<serves, watch, files, look, contested>>

\* previous && previous.gardenId !== gardenId, whoever had the pid
Left(p) == sender[p].garden \notin {None, serves[p]}

\* mutant: whoever owns the marker
Owns_Anyone(p, g) == receiver[g].owner # None

\* marker.ownerPid === opts.ownerPid
Owns(p, g) == receiver[g].owner = p

\* With the record at hand, an arming hook reads its own sender marker, which nobody else
\* writes, and then the receiver marker of the garden it left, to remove it.
Reads(p) ==
  LET old == sender[p].garden IN
  /\ hook[p].pc = "begin"
  /\ IF hook[p].arms /\ Left(p) /\ Owns(p, old)
     THEN At(p, "unlink", TRUE, receiver[old].owner)
     ELSE Goto(p, "sender")
  /\ UNCHANGED <<serves, watch, files, lapses, look, contested, faults>>

\* It removes whatever is there now, and any error is swallowed.
Unlink(p) ==
  LET g == sender[p].garden IN
  /\ hook[p].pc = "unlink"
  /\ Goto(p, "sender")
  /\ \/ /\ receiver' = [receiver EXCEPT ![g] = [owner |-> None, live |-> FALSE]]
        /\ contested' = IF receiver[g].owner \in {None, hook[p].seen} THEN contested
                                                                      ELSE contested \cup {g}
        /\ UNCHANGED faults
     \/ Fault /\ UNCHANGED <<receiver, contested>>
  /\ UNCHANGED <<serves, watch, sender, lapses, look>>

\* writeMetaSenderMarker; a failure is logged
Sender(p) ==
  /\ hook[p].pc = "sender"
  /\ IF hook[p].arms THEN Goto(p, "receiver") ELSE Ends(p)
  /\ \/ /\ sender' = [sender EXCEPT ![p] = [garden |-> serves[p], live |-> TRUE]]
        /\ lapses' = [lapses EXCEPT ![p] = @ \ {"sender"}]
        /\ UNCHANGED faults
     \/ /\ lapses' = [lapses EXCEPT ![p] = @ \cup {"sender"}]
        /\ Fault /\ UNCHANGED sender
  /\ UNCHANGED <<serves, watch, receiver, look, contested>>

\* writeMetaReceiverMarker; a failure is logged
Receiver(p) ==
  /\ hook[p].pc = "receiver"
  /\ Goto(p, "emit")
  /\ \/ /\ receiver' = [receiver EXCEPT ![serves[p]] = [owner |-> p, live |-> TRUE]]
        /\ lapses' = [lapses EXCEPT ![p] = @ \ {"receiver"}]
        /\ UNCHANGED faults
     \/ /\ lapses' = [lapses EXCEPT ![p] = @ \cup {"receiver"}]
        /\ Fault /\ UNCHANGED receiver
  /\ UNCHANGED <<serves, watch, sender, look, contested>>

\* watchPaths on stdout: the host watches
Emit(p) ==
  /\ hook[p].pc = "emit"
  /\ Ends(p)
  /\ watch' = [watch EXCEPT ![p] = serves[p]]
  /\ lapses' = [lapses EXCEPT ![p] = @ \ {"hook"}]
  /\ UNCHANGED <<serves, files, look, contested, faults>>

-----------------------------------------------------------------------------
(* resolveMailboxReceiverFacts *)

\* the receiver marker, if its owner lives
ReadReceiver(g) ==
  /\ look = Nothing
  /\ receiver[g].live
  /\ look' = [garden |-> g, owner |-> receiver[g].owner]
  /\ UNCHANGED <<serves, watch, files, hook, lapses, contested, faults>>

\* mutant: a live owner is enough
ServesGarden_OwnerAlive(p, g) == TRUE

\* receiverOwnerServesGarden: the owner's sender marker names the garden
ServesGarden(p, g) == sender[p].live /\ sender[p].garden = g

\* With the answer the dispatch enqueues or refuses.
JoinSender ==
  /\ look # Nothing
  /\ look' = Nothing
  /\ UNCHANGED <<serves, watch, files, hook, lapses, contested, faults>>

-----------------------------------------------------------------------------

HookStep(p) ==
  Unowned(p) \/ Reads(p) \/ Unlink(p) \/ Sender(p) \/ Receiver(p) \/ Emit(p)

Next ==
  \/ \E p \in Procs :
       \/ \E g \in Gardens : SessionStart(p, g)
       \/ \E arms \in BOOLEAN : Event(p, arms)
       \/ HookStep(p) \/ HookFails(p) \/ Exit(p)
  \/ \E g \in Gardens : ReadReceiver(g)
  \/ JoinSender

Spec == Init /\ [][Next]_vars

-----------------------------------------------------------------------------
(* Properties *)

\* Mail is not put where nobody watches: whenever the join finds a garden armed, its
\* owner watches that garden's mailbox, over switches in place, back and forth, reused pids
\* and markers that could not be removed or written.  Not so while the owner waits for its
\* hook, and where a hook failed on the way to its sender marker or its watch.
ArmedIsWatched ==
  LET p == look.owner IN
  look # Nothing /\ ServesGarden(p, look.garden) =>
    watch[p] = look.garden \/ hook[p].pc # "none" \/ lapses[p] \cap {"hook", "sender"} # {}

\* A session whose hooks work can be reached: its markers stay as its hook left them,
\* whatever the hooks of other processes retire, unless two processes carried it at one
\* time or a removal took a marker other than the one it had read.
ReachableStays ==
  \A p \in Procs :
    LET g == serves[p] IN
    g # None /\ hook[p].pc = "none" /\ lapses[p] = {} /\ g \notin contested =>
      /\ receiver[g] = [owner |-> p, live |-> TRUE]
      /\ sender[p] = [garden |-> g, live |-> TRUE]
=============================================================================
