---------------------------- MODULE DispatchLock ----------------------------
(***************************************************************************)
(* The per-garden-id dispatch lock: acquireLock and releaseLock of         *)
(* pi-extensions/lib/entwurf-v2-lock.ts, one action per system call.       *)
(*                                                                         *)
(* A call is one entwurf_v2 invocation for the one garden id the module is *)
(* about.  Each makes a single acquire and draws a fresh random nonce, so  *)
(* the call itself stands for its nonce.  Calls run in processes on hosts  *)
(* that share the lock directory.  Both functions are synchronous: the     *)
(* calls of one process do not interleave inside them, those of different  *)
(* processes do, and a process may die between any two system calls.       *)
(***************************************************************************)
EXTENDS Naturals

CONSTANTS
  Calls,      \* the calls
  Procs,      \* process ids; a pid names one process of one host
  Hosts,
  ProcOf,     \* the process a call runs in
  HostOf,     \* the host of a process
  None        \* no file, no call

ASSUME LockConstants ==
  /\ ProcOf \in [Calls -> Procs]
  /\ HostOf \in [Procs -> Hosts]
  /\ None \notin Calls

VARIABLES
  pc,         \* where each call is
  lock,       \* the file <gid>.lock: None, or the call that created it
  written,    \* the calls whose claim is whole in the file they created
  marker,     \* the file <gid>.lock.reclaim: None, or who created it
  seen,       \* the holder a call read and judged
  alive       \* the pids kill(pid, 0) finds

vars == <<pc, lock, written, marker, seen, alive>>

-----------------------------------------------------------------------------
(* Program counters *)

\* acquireLock outside the reclaim section
Plain == {"write", "undo", "read", "retry", "probe", "mark"}

\* acquireLock between creating the reclaim marker and removing it; the last
\* three carry what acquireLock answers once the marker is gone
Reclaiming == {"reread", "unlink", "recreate", "rewrite", "reundo",
               "unmarkHeld", "unmarkConflict", "unmarkFailed"}

Acquiring == Plain \cup Reclaiming

Holding == {"held", "release"}

\* how a call ends: refused with target-locked, threw, released its lock,
\* found it gone or not its own, or died with its process
Ended == {"conflict", "failed", "released", "absent", "notOwned", "crashed"}

PCs == {"idle"} \cup Acquiring \cup Holding \cup Ended

TypeOK ==
  /\ pc \in [Calls -> PCs]
  /\ lock \in Calls \cup {None}
  /\ written \in SUBSET Calls
  /\ marker \in Calls \cup {None}
  /\ seen \in [Calls -> Calls \cup {None}]
  /\ alive \in SUBSET Procs

Init ==
  /\ pc = [c \in Calls |-> "idle"]
  /\ lock = None
  /\ written = {}
  /\ marker = None
  /\ seen = [c \in Calls |-> None]
  /\ alive = Procs

Goto(c, label) == pc' = [pc EXCEPT ![c] = label]

\* No other call of this process is inside acquireLock or releaseLock.
ThreadFree(c) ==
  /\ ProcOf[c] \in alive
  /\ \A d \in Calls \ {c} :
        ProcOf[d] = ProcOf[c] => pc[d] \notin Acquiring \cup {"release"}

\* parseLockClaim of the file: the call it names, None for an absent, empty or
\* half-written file.
Claim == IF lock \in written THEN lock ELSE None

-----------------------------------------------------------------------------
(* acquireLock *)

\* openSync(lockPath, "wx"): create the file, or find that there is one.
Open(c, opened, exists) ==
  \/ /\ lock = None
     /\ lock' = c
     /\ Goto(c, opened)
  \/ /\ lock # None
     /\ Goto(c, exists)
     /\ UNCHANGED lock

\* writeSync and closeSync of the claim.  When either throws the file is
\* unlinked; a failed close leaves the claim whole until then.
Write(c, done, failed) ==
  \/ written' = written \cup {c} /\ Goto(c, done)
  \/ written' \in {written, written \cup {c}} /\ Goto(c, failed)

\* The unlink of our own file after a failed write is best-effort.
Undo(c, done) ==
  /\ lock' \in {None, lock}
  /\ Goto(c, done)

Start(c) ==
  /\ pc[c] = "idle"
  /\ ThreadFree(c)
  /\ \/ Open(c, "write", "read")
     \/ Goto(c, "failed") /\ UNCHANGED lock      \* EACCES, ENOSPC, ...
  /\ UNCHANGED <<written, marker, seen, alive>>

WriteClaim(c) ==
  /\ pc[c] = "write"
  /\ Write(c, "held", "undo")
  /\ UNCHANGED <<lock, marker, seen, alive>>

UndoCreate(c) ==
  /\ pc[c] = "undo"
  /\ Undo(c, "failed")
  /\ UNCHANGED <<written, marker, seen, alive>>

\* EEXIST: read the file and see whose it is.
ReadHolder(c) ==
  /\ pc[c] = "read"
  /\ \/ /\ lock = None
        /\ Goto(c, "retry")
        /\ UNCHANGED seen
     \/ /\ lock # None /\ Claim = None
        /\ Goto(c, "conflict")
        /\ UNCHANGED seen
     \/ /\ Claim # None
        /\ seen' = [seen EXCEPT ![c] = Claim]
        /\ Goto(c, "probe")
     \/ Goto(c, "failed") /\ UNCHANGED seen      \* an error other than ENOENT
  /\ UNCHANGED <<lock, written, marker, alive>>

\* The holder released between our open and our read: try once more.  Any
\* failure of this open, EEXIST or not, is a conflict.
RetryCreate(c) ==
  /\ pc[c] = "retry"
  /\ \/ Open(c, "write", "conflict")
     \/ Goto(c, "conflict") /\ UNCHANGED lock
  /\ UNCHANGED <<written, marker, seen, alive>>

ProbeHolder(c) ==
  LET p == ProcOf[seen[c]] IN
  /\ pc[c] = "probe"
  /\ \/ /\ HostOf[p] = HostOf[ProcOf[c]]
        /\ p \notin alive
        /\ Goto(c, "mark")
     \/ Goto(c, "conflict")
  /\ UNCHANGED <<lock, written, marker, seen, alive>>

\* mutant: the marker is opened without "x", so it excludes nobody
OpenMarker_NotExclusive(c) ==
  /\ pc[c] = "mark"
  /\ marker' = c
  /\ Goto(c, "reread")
  /\ UNCHANGED <<lock, written, seen, alive>>

\* mutant: EEXIST waits for the other reclaimer to finish
OpenMarker_Waits(c) ==
  /\ pc[c] = "mark"
  /\ marker = None
  /\ marker' = c
  /\ Goto(c, "reread")
  /\ UNCHANGED <<lock, written, seen, alive>>

\* openSync(reclaimMarkerPath, "wx")
OpenMarker(c) ==
  /\ pc[c] = "mark"
  /\ \/ /\ marker = None
        /\ marker' = c
        /\ Goto(c, "reread")
     \/ /\ marker # None
        /\ Goto(c, "conflict")
        /\ UNCHANGED marker
     \/ Goto(c, "failed") /\ UNCHANGED marker
  /\ UNCHANGED <<lock, written, seen, alive>>

\* mutant: the stale file is unlinked without the second look
RereadHolder_Trusting(c) ==
  /\ pc[c] = "reread"
  /\ Goto(c, "unlink")
  /\ UNCHANGED <<lock, written, marker, seen, alive>>

\* mutant: any readable claim under the marker passes for the judged one
RereadHolder_NoNonce(c) ==
  /\ pc[c] = "reread"
  /\ \/ Claim # None /\ Goto(c, "unlink")
     \/ Goto(c, "unmarkConflict")
  /\ UNCHANGED <<lock, written, marker, seen, alive>>

\* Under the marker the file must still carry the nonce that was judged; a
\* file that cannot be read is a conflict too.
RereadHolder(c) ==
  /\ pc[c] = "reread"
  /\ \/ /\ Claim = seen[c]
        /\ Goto(c, "unlink")
     \/ Goto(c, "unmarkConflict")
  /\ UNCHANGED <<lock, written, marker, seen, alive>>

UnlinkStale(c) ==
  /\ pc[c] = "unlink"
  /\ \/ /\ lock' = None
        /\ Goto(c, "recreate")
     \/ Goto(c, "unmarkFailed") /\ UNCHANGED lock
  /\ UNCHANGED <<written, marker, seen, alive>>

\* A fresh call may have created the file in the gap: an honest conflict.
Recreate(c) ==
  /\ pc[c] = "recreate"
  /\ \/ Open(c, "rewrite", "unmarkConflict")
     \/ Goto(c, "unmarkConflict") /\ UNCHANGED lock
  /\ UNCHANGED <<written, marker, seen, alive>>

RewriteClaim(c) ==
  /\ pc[c] = "rewrite"
  /\ Write(c, "unmarkHeld", "reundo")
  /\ UNCHANGED <<lock, marker, seen, alive>>

UndoRecreate(c) ==
  /\ pc[c] = "reundo"
  /\ Undo(c, "unmarkFailed")
  /\ UNCHANGED <<written, marker, seen, alive>>

Answer == [unmarkHeld |-> "held", unmarkConflict |-> "conflict", unmarkFailed |-> "failed"]

\* The finally block: the marker is removed, best-effort, on every way out.
RemoveMarker(c) ==
  /\ pc[c] \in DOMAIN Answer
  /\ marker' \in {None, marker}
  /\ Goto(c, Answer[pc[c]])
  /\ UNCHANGED <<lock, written, seen, alive>>

-----------------------------------------------------------------------------
(* releaseLock *)

ReleaseRead(c) ==
  /\ pc[c] = "held"
  /\ ThreadFree(c)
  /\ \/ lock = None /\ Goto(c, "absent")
     \/ lock # None /\ Claim # c /\ Goto(c, "notOwned")
     \/ Claim = c /\ Goto(c, "release")
     \/ Goto(c, "failed")                        \* the read threw: the file stays
  /\ UNCHANGED <<lock, written, marker, seen, alive>>

\* mutant: a failed unlink is reported as released
ReleaseUnlink_Swallows(c) ==
  /\ pc[c] = "release"
  /\ lock' \in {None, lock}
  /\ Goto(c, "released")
  /\ UNCHANGED <<written, marker, seen, alive>>

ReleaseUnlink(c) ==
  /\ pc[c] = "release"
  /\ \/ lock = None /\ Goto(c, "absent") /\ UNCHANGED lock
     \/ lock # None /\ Goto(c, "released") /\ lock' = None
     \/ Goto(c, "failed") /\ UNCHANGED lock
  /\ UNCHANGED <<written, marker, seen, alive>>

-----------------------------------------------------------------------------
(* Processes, and the human the messages address *)

\* A process dies: its calls stop where they are, the files stay.
Crash(p) ==
  /\ p \in alive
  /\ alive' = alive \ {p}
  /\ pc' = [c \in Calls |->
              IF ProcOf[c] = p /\ pc[c] \notin Ended \cup {"idle"} THEN "crashed" ELSE pc[c]]
  /\ UNCHANGED <<lock, written, marker, seen>>

\* The pid is given to a new process, which may make calls of its own.
ReusePid(p) ==
  /\ p \notin alive
  /\ alive' = alive \cup {p}
  /\ UNCHANGED <<pc, lock, written, marker, seen>>

\* "confirm no dispatcher is mid-reclaim, then clear it by hand"
ClearMarker ==
  /\ marker # None
  /\ \A c \in Calls : pc[c] \notin Reclaiming
  /\ marker' = None
  /\ UNCHANGED <<pc, lock, written, seen, alive>>

\* "clear it by hand after confirming no dispatcher is mid-spawn"
ClearCorrupt ==
  /\ lock # None /\ Claim = None
  /\ \A c \in Calls : pc[c] \notin Acquiring \cup Holding
  /\ lock' = None
  /\ UNCHANGED <<pc, written, marker, seen, alive>>

-----------------------------------------------------------------------------

AcquireStep(c) ==
  \/ WriteClaim(c) \/ UndoCreate(c) \/ ReadHolder(c) \/ RetryCreate(c)
  \/ ProbeHolder(c) \/ OpenMarker(c) \/ RereadHolder(c) \/ UnlinkStale(c)
  \/ Recreate(c) \/ RewriteClaim(c) \/ UndoRecreate(c) \/ RemoveMarker(c)

CallStep(c) == Start(c) \/ AcquireStep(c) \/ ReleaseRead(c) \/ ReleaseUnlink(c)

Next ==
  \/ \E c \in Calls : CallStep(c)
  \/ \E p \in Procs : Crash(p) \/ ReusePid(p)
  \/ ClearMarker \/ ClearCorrupt

Spec == Init /\ [][Next]_vars

\* A process that lives runs its synchronous code to the end.
FairSpec == Spec /\ \A c \in Calls : WF_vars(AcquireStep(c) \/ ReleaseUnlink(c))

-----------------------------------------------------------------------------
(* Properties *)

Holders == {c \in Calls : pc[c] \in Holding}

\* Two calls never have the lock of one garden id at once, whatever the
\* interleaving of acquire, stale reclaim and release and wherever a process
\* dies: the double spawn the reclaim mutex and the nonces exist to exclude.
MutualExclusion == \A c, d \in Holders : c = d

\* While a call has the lock, the file on disk is its own whole claim: every
\* other dispatcher, on any host, can see who holds the id.
HolderIsOnDisk == \A c \in Holders : Claim = c

\* No step removes or replaces the file of a running call except a step of that
\* call: neither a late release nor a slow reclaimer deletes a successor's lock.
NoClobber ==
  [][lock # None /\ pc[lock] \notin Ended /\ lock' # lock => pc'[lock] # pc[lock]]_vars

\* A call that ends without an error and without dying leaves no lock file of
\* its own behind: only crashes and failed system calls strand an id.
CleanExit ==
  \A c \in Calls : pc[c] \in {"conflict", "released", "absent", "notOwned"} => lock # c

\* acquireLock answers: it neither spins on a busy lock nor waits for a marker
\* that a dead reclaimer left behind.
AcquireAnswers ==
  \A c \in Calls : pc[c] \in Acquiring ~> pc[c] \in Holding \cup Ended

\* The lock files implement the abstract lock.
Abstract == INSTANCE TargetLock WITH holders <- Holders
ImplementsTargetLock == Abstract!Spec

-----------------------------------------------------------------------------
(* The inductive invariant behind the safety properties *)

\* where a call is while the file at lockPath is its own
Owning == {"write", "undo", "rewrite", "reundo", "unmarkHeld", "held", "release"}

\* where a call can be while a file it created is still at lockPath
Created == Owning \cup {"unmarkFailed", "failed", "crashed"}

\* a call that owns the file finds it there, whole once it was written
OwnerInv ==
  \A c \in Calls :
    /\ pc[c] \in Owning => lock = c
    /\ pc[c] \in Holding \cup {"unmarkHeld"} => c \in written

CreatorInv == lock # None => pc[lock] \in Created

MarkerInv == \A c \in Calls : pc[c] \in Reclaiming => marker = c

DeadInv == \A c \in Calls : ProcOf[c] \notin alive => pc[c] \in Ended \cup {"idle"}

\* a reclaimer that got past the probe judged a call that has ended, and past
\* the reread the file it is about to unlink is that call's
JudgedInv ==
  \A c \in Calls :
    /\ pc[c] \in {"probe", "mark", "reread", "unlink"} =>
         seen[c] \in Calls /\ pc[seen[c]] \in Created \cup Ended
    /\ pc[c] \in {"mark", "reread", "unlink"} => pc[seen[c]] \in Ended
    /\ pc[c] = "unlink" => lock = seen[c]

\* The inductive invariant: the file belongs to whoever is writing or holding
\* it, and only an ended call's file is ever judged stale.
LockInv ==
  /\ TypeOK
  /\ OwnerInv
  /\ CreatorInv
  /\ MarkerInv
  /\ DeadInv
  /\ JudgedInv

-----------------------------------------------------------------------------
(* Why acquireLock answers *)

\* The order of the system calls of a call; whatever one finds, no later call is before it.
Rank == [label \in PCs |->
  CASE label = "idle"    -> 0
    [] label = "read"    -> 1
    [] label = "retry"   -> 2
    [] label = "probe"   -> 2
    [] label = "mark"    -> 3
    [] label = "reread"  -> 4
    [] label = "unlink"  -> 5
    [] label = "recreate" -> 6
    [] label \in {"write", "rewrite"} -> 7
    [] label \in {"undo", "reundo"}   -> 8
    [] label \in {"unmarkHeld", "unmarkConflict", "unmarkFailed"} -> 9
    [] label = "held"    -> 10
    [] label = "release" -> 11
    [] OTHER             -> 12]

\* The safety half of AcquireAnswers: neither a lock that changes hands under a call nor
\* another reclaimer sends the call back, so an acquire is a bounded number of steps.
AcquireAdvances == [][\A c \in Calls : pc'[c] # pc[c] => Rank[pc[c]] < Rank[pc'[c]]]_vars
=============================================================================
