------------------------ MODULE DispatchLock_proofs ------------------------
(***************************************************************************)
(* Proofs about DispatchLock, for any calls, processes and hosts.  LockInv *)
(* is inductive; every safety property follows from it.                    *)
(***************************************************************************)
EXTENDS DispatchLock, TLAPS

\* No call, process or file exists before the first acquire, so the invariant
\* holds of the initial state.
LEMMA LockInit == Init => LockInv
  BY LockConstants DEF Init, LockInv, TypeOK, OwnerInv, CreatorInv, MarkerInv, DeadInv,
     JudgedInv, PCs, Owning, Created, Holding, Acquiring, Plain, Reclaiming, Ended

\* Every system call of acquireLock and releaseLock, every process death and
\* the two harmless manual clean-ups preserve the invariant.
LEMMA LockStep == LockInv /\ [Next]_vars => LockInv'
  <1> SUFFICES ASSUME LockInv, [Next]_vars PROVE LockInv'
    OBVIOUS
  <1> USE LockConstants DEF LockInv, TypeOK, OwnerInv, CreatorInv, MarkerInv, DeadInv,
     JudgedInv, PCs, Owning, Created, Holding, Acquiring, Plain, Reclaiming, Ended, Goto
  <1>1. ASSUME NEW c \in Calls, Start(c) PROVE LockInv'
    BY <1>1 DEF Start, Open, ThreadFree
  <1>2. ASSUME NEW c \in Calls, WriteClaim(c) PROVE LockInv'
    BY <1>2 DEF WriteClaim, Write
  <1>3. ASSUME NEW c \in Calls, UndoCreate(c) PROVE LockInv'
    BY <1>3 DEF UndoCreate, Undo
  <1>4. ASSUME NEW c \in Calls, ReadHolder(c) PROVE LockInv'
    BY <1>4 DEF ReadHolder, Claim
  <1>5. ASSUME NEW c \in Calls, RetryCreate(c) PROVE LockInv'
    BY <1>5 DEF RetryCreate, Open
  <1>6. ASSUME NEW c \in Calls, ProbeHolder(c) PROVE LockInv'
    BY <1>6 DEF ProbeHolder
  <1>7. ASSUME NEW c \in Calls, OpenMarker(c) PROVE LockInv'
    BY <1>7 DEF OpenMarker
  <1>8. ASSUME NEW c \in Calls, RereadHolder(c) PROVE LockInv'
    BY <1>8 DEF RereadHolder, Claim
  <1>9. ASSUME NEW c \in Calls, UnlinkStale(c) PROVE LockInv'
    BY <1>9 DEF UnlinkStale
  <1>10. ASSUME NEW c \in Calls, Recreate(c) PROVE LockInv'
    BY <1>10 DEF Recreate, Open
  <1>11. ASSUME NEW c \in Calls, RewriteClaim(c) PROVE LockInv'
    BY <1>11 DEF RewriteClaim, Write
  <1>12. ASSUME NEW c \in Calls, UndoRecreate(c) PROVE LockInv'
    BY <1>12 DEF UndoRecreate, Undo
  <1>13. ASSUME NEW c \in Calls, RemoveMarker(c) PROVE LockInv'
    BY <1>13 DEF RemoveMarker, Answer
  <1>14. ASSUME NEW c \in Calls, ReleaseRead(c) PROVE LockInv'
    BY <1>14 DEF ReleaseRead, Claim
  <1>15. ASSUME NEW c \in Calls, ReleaseUnlink(c) PROVE LockInv'
    BY <1>15 DEF ReleaseUnlink
  <1>16. ASSUME NEW p \in Procs, Crash(p) PROVE LockInv'
    BY <1>16 DEF Crash
  <1>17. ASSUME NEW p \in Procs, ReusePid(p) PROVE LockInv'
    BY <1>17 DEF ReusePid
  <1>18. CASE ClearMarker
    BY <1>18 DEF ClearMarker
  <1>19. CASE ClearCorrupt
    BY <1>19 DEF ClearCorrupt
  <1>20. CASE UNCHANGED vars
    BY <1>20 DEF vars
  <1> QED
    BY <1>1, <1>2, <1>3, <1>4, <1>5, <1>6, <1>7, <1>8, <1>9, <1>10, <1>11, <1>12, <1>13,
       <1>14, <1>15, <1>16, <1>17, <1>18, <1>19, <1>20 DEF Next, CallStep, AcquireStep

\* The invariant holds throughout every behaviour of the lock.
THEOREM LockInvariant == Spec => []LockInv
  BY LockInit, LockStep, PTL DEF Spec

\* All state components stay in their types.
THEOREM TypeCorrect == Spec => []TypeOK
  <1>1. LockInv => TypeOK
    BY DEF LockInv
  <1> QED BY <1>1, LockInvariant, PTL

\* The file at lockPath is the claim of whoever has the lock, and there is one
\* file, so two calls cannot have it.
LEMMA LockInvExclusive == LockInv => HolderIsOnDisk /\ MutualExclusion
  BY DEF LockInv, TypeOK, OwnerInv, HolderIsOnDisk, MutualExclusion, Holders, Holding, Owning, Claim

\* At most one running call has the dispatch lock of a garden id, for any number
\* of calls, processes and hosts, any crashes and any pid reuse.
THEOREM LockMutex == Spec => []MutualExclusion
  BY LockInvExclusive, LockInvariant, PTL

\* A holder's whole claim is what every other dispatcher reads.
THEOREM LockOnDisk == Spec => []HolderIsOnDisk
  BY LockInvExclusive, LockInvariant, PTL

\* Calls that end in order leave no lock file behind.
THEOREM LockCleanExit == Spec => []CleanExit
  <1>1. LockInv => CleanExit
    BY LockConstants DEF LockInv, TypeOK, CreatorInv, CleanExit, Created, Owning
  <1> QED BY <1>1, LockInvariant, PTL

\* No step takes away the file of a running call but that call's own: the reread
\* under the marker and the nonce check of releaseLock protect a successor.
THEOREM LockNoClobber == Spec => NoClobber
  <1>1. LockInv /\ [Next]_vars
          => [lock # None /\ pc[lock] \notin Ended /\ lock' # lock => pc'[lock] # pc[lock]]_vars
    <2> SUFFICES ASSUME LockInv, Next, lock # None, pc[lock] \notin Ended, lock' # lock
                 PROVE  pc'[lock] # pc[lock]
      OBVIOUS
    <2> USE LockConstants DEF LockInv, TypeOK, OwnerInv, MarkerInv, JudgedInv, Owning, Reclaiming,
         Ended, PCs, Goto
    <2>1. ASSUME NEW c \in Calls, CallStep(c) PROVE pc'[lock] # pc[lock]
      <3>1. pc[c] \in {"undo", "reundo", "release"} => lock = c /\ pc'[c] # pc[c]
        BY <2>1 DEF CallStep, AcquireStep, Start, WriteClaim, UndoCreate, ReadHolder, RetryCreate,
           ProbeHolder, OpenMarker, RereadHolder, UnlinkStale, Recreate, RewriteClaim,
           UndoRecreate, RemoveMarker, ReleaseRead, ReleaseUnlink, Undo, Answer
      <3>2. pc[c] # "unlink"
        BY <2>1
      <3>3. pc[c] \notin {"undo", "reundo", "release", "unlink"} => lock' = lock
        BY <2>1 DEF CallStep, AcquireStep, Start, WriteClaim, UndoCreate, ReadHolder, RetryCreate,
           ProbeHolder, OpenMarker, RereadHolder, UnlinkStale, Recreate, RewriteClaim,
           UndoRecreate, RemoveMarker, ReleaseRead, ReleaseUnlink, Open
      <3> QED BY <3>1, <3>2, <3>3
    <2>2. ASSUME NEW p \in Procs, Crash(p) \/ ReusePid(p) PROVE FALSE
      BY <2>2 DEF Crash, ReusePid
    <2>3. CASE ClearMarker \/ ClearCorrupt
      BY <2>3 DEF ClearMarker, ClearCorrupt, Acquiring, Plain, Holding, CreatorInv, Created, Ended
    <2> QED BY <2>1, <2>2, <2>3 DEF Next
  <1> QED BY <1>1, LockInvariant, PTL DEF Spec, NoClobber

\* The lock files implement the abstract lock: a call gets the lock only while
\* nobody has it, and it is given up before the next call gets it.
THEOREM LockImplements == Spec => ImplementsTargetLock
  <1>1. Init => Abstract!Init
    BY DEF Init, Abstract!Init, Holders, Holding
  <1>2. LockInv /\ [Next]_vars => [Abstract!Next]_Holders
    <2> SUFFICES ASSUME LockInv, [Next]_vars, Holders' # Holders
                 PROVE  Abstract!Next
      OBVIOUS
    <2> USE DEF LockInv, TypeOK, OwnerInv, Owning, Holding, Holders, PCs, Goto
    <2>1. ASSUME NEW c \in Calls, WriteClaim(c) \/ RemoveMarker(c) PROVE Abstract!Next
      <3>1. lock = c /\ pc'[c] = "held" /\ \A d \in Calls \ {c} : pc'[d] = pc[d]
        BY <2>1 DEF WriteClaim, Write, RemoveMarker, Answer
      <3>2. Holders = {} /\ Holders' = {c}
        BY <2>1, <3>1 DEF WriteClaim, RemoveMarker, Answer
      <3> QED BY <3>2 DEF Abstract!Next, Abstract!Grant
    <2>2. ASSUME NEW c \in Calls, ReleaseRead(c) \/ ReleaseUnlink(c) PROVE Abstract!Next
      <3>1. lock = c /\ c \in Holders /\ pc'[c] \notin Holding /\ \A d \in Calls \ {c} : pc'[d] = pc[d]
        BY <2>2 DEF ReleaseRead, ReleaseUnlink
      <3>2. Holders = {c} /\ Holders' = {}
        BY <3>1
      <3> QED BY <3>2 DEF Abstract!Next, Abstract!Leave
    <2>3. ASSUME NEW p \in Procs, Crash(p) PROVE Abstract!Next
      <3>1. Holders' \subseteq Holders
        BY <2>3 DEF Crash
      <3>2. PICK c \in Holders : c \notin Holders'
        BY <3>1
      <3>3. Holders = {c}
        BY <3>2
      <3> QED BY <3>1, <3>2, <3>3 DEF Abstract!Next, Abstract!Leave
    <2>4. ASSUME NEW c \in Calls,
                 Start(c) \/ UndoCreate(c) \/ ReadHolder(c) \/ RetryCreate(c) \/ ProbeHolder(c)
                 \/ OpenMarker(c) \/ RereadHolder(c) \/ UnlinkStale(c) \/ Recreate(c)
                 \/ RewriteClaim(c) \/ UndoRecreate(c)
          PROVE  FALSE
      <3>1. pc[c] \notin Holding /\ pc'[c] \notin Holding /\ \A d \in Calls \ {c} : pc'[d] = pc[d]
        BY <2>4 DEF Start, Open, UndoCreate, Undo, ReadHolder, RetryCreate, ProbeHolder, OpenMarker,
           RereadHolder, UnlinkStale, Recreate, RewriteClaim, Write, UndoRecreate
      <3> QED BY <3>1
    <2>5. CASE ClearMarker \/ ClearCorrupt \/ (\E p \in Procs : ReusePid(p)) \/ UNCHANGED vars
      BY <2>5 DEF ClearMarker, ClearCorrupt, ReusePid, vars
    <2> QED
      BY <2>1, <2>2, <2>3, <2>4, <2>5 DEF Next, CallStep, AcquireStep
  <1> QED BY <1>1, <1>2, LockInvariant, PTL DEF Spec, ImplementsTargetLock, Abstract!Spec

\* acquireLock and releaseLock: whatever a call finds on disk, its next system call is
\* a later one, so it neither spins on a busy lock nor starts over after a lost race.
THEOREM LockAdvances == Spec => AcquireAdvances
  <1>1. TypeOK /\ [Next]_vars => [\A c \in Calls : pc'[c] # pc[c] => Rank[pc[c]] < Rank[pc'[c]]]_vars
    <2> SUFFICES ASSUME TypeOK, Next, NEW c \in Calls, pc'[c] # pc[c]
                 PROVE  Rank[pc[c]] < Rank[pc'[c]]
      OBVIOUS
    <2>0. pc \in [Calls -> PCs]
      BY DEF TypeOK
    <2> USE <2>0 DEF Rank, PCs, Plain, Reclaiming, Acquiring, Holding, Ended, Goto
    <2>1. ASSUME NEW d \in Calls, Start(d) \/ WriteClaim(d) \/ UndoCreate(d) \/ RetryCreate(d)
          PROVE  Rank[pc[c]] < Rank[pc'[c]]
      BY <2>1 DEF Start, WriteClaim, UndoCreate, RetryCreate, Open, Write, Undo
    <2>2. ASSUME NEW d \in Calls, ReadHolder(d) \/ ProbeHolder(d) \/ OpenMarker(d) \/ RereadHolder(d)
          PROVE  Rank[pc[c]] < Rank[pc'[c]]
      BY <2>2 DEF ReadHolder, ProbeHolder, OpenMarker, RereadHolder
    <2>3. ASSUME NEW d \in Calls, UnlinkStale(d) \/ Recreate(d) \/ RewriteClaim(d) \/ UndoRecreate(d)
          PROVE  Rank[pc[c]] < Rank[pc'[c]]
      BY <2>3 DEF UnlinkStale, Recreate, RewriteClaim, UndoRecreate, Open, Write, Undo
    <2>4. ASSUME NEW d \in Calls, RemoveMarker(d) \/ ReleaseRead(d) \/ ReleaseUnlink(d)
          PROVE  Rank[pc[c]] < Rank[pc'[c]]
      BY <2>4 DEF RemoveMarker, Answer, ReleaseRead, ReleaseUnlink
    <2>5. ASSUME NEW p \in Procs, Crash(p) PROVE Rank[pc[c]] < Rank[pc'[c]]
      BY <2>5 DEF Crash
    <2>6. ASSUME NEW p \in Procs, ReusePid(p) PROVE FALSE
      BY <2>6 DEF ReusePid
    <2>7. ASSUME ClearMarker \/ ClearCorrupt PROVE FALSE
      BY <2>7 DEF ClearMarker, ClearCorrupt
    <2> QED BY <2>1, <2>2, <2>3, <2>4, <2>5, <2>6, <2>7 DEF Next, CallStep, AcquireStep
  <1> QED BY <1>1, TypeCorrect, PTL DEF Spec, AcquireAdvances
=============================================================================
