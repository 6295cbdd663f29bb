-------------------------- MODULE Dispatch_proofs --------------------------
(***************************************************************************)
(* Proofs about Dispatch, for any calls and any kinds of record:           *)
(* DispatchInv is inductive, and the safety properties follow from it.     *)
(***************************************************************************)
EXTENDS Dispatch, TLAPS

\* A reject is never a send, whatever its reason.
LEMMA RejectVerdict ==
  ASSUME NEW reason0 \in RejectReasons, NEW observed \in FactLiveness \cup {"null"}
  PROVE  /\ RejectReceipt(reason0, observed) \in Receipts
         /\ RejectReceipt(reason0, observed).kind # "send"
         /\ RejectReceipt(reason0, observed).by = reason0
  BY DEF RejectReceipt, Receipts

\* The in-domain table sends over the control socket only.
LEMMA DomainVerdict ==
  ASSUME NEW liveness \in SocketLiveness
  PROVE  LET r == ResolveDispatch(liveness, FALSE) IN
         /\ r \in Receipts
         /\ r.kind = "send" => r.by = "control-socket"
         /\ r.kind # "send" => r.by \in RejectReasons
  <1>1. CASE liveness = "alive"
    BY <1>1 DEF ResolveDispatch, Verdict, DispatchTable, DispatchLivenessOf, SendReceipt,
       Transports, Receipts, FactLiveness, SocketLiveness
  <1>2. CASE liveness = "dead"
    BY <1>2 DEF ResolveDispatch, Verdict, DispatchTable, DispatchLivenessOf, RejectReceipt,
       Transports, Receipts, FactLiveness, SocketLiveness, RejectReasons, ResolverRejects
  <1>3. CASE liveness = "indeterminate"
    BY <1>3 DEF ResolveDispatch, Verdict, DispatchTable, DispatchLivenessOf, RejectReceipt,
       Transports, Receipts, FactLiveness, SocketLiveness, RejectReasons, ResolverRejects
  <1> QED BY <1>1, <1>2, <1>3 DEF SocketLiveness

\* A backend outside the control-socket domain is sent to over its mailbox only.
LEMMA MailboxVerdict ==
  ASSUME NEW deliverable \in BOOLEAN
  PROVE  LET r == ResolveDispatch("unsupported", deliverable) IN
         /\ r \in Receipts
         /\ r.kind = "send" => r.by = "meta-mailbox"
         /\ r.kind # "send" => r.by \in RejectReasons
  BY DEF ResolveDispatch, SendReceipt, RejectReceipt, Receipts, Transports, FactLiveness,
     RejectReasons, ResolverRejects

\* The native-push table sends into the conversation only.
LEMMA PushVerdict ==
  ASSUME NEW liveness \in SocketLiveness
  PROVE  LET r == ResolveNativePush(liveness) IN
         /\ r \in Receipts
         /\ r.kind = "send" => r.by = "native-push"
  <1>1. CASE liveness = "alive"
    BY <1>1 DEF ResolveNativePush, Verdict, NativePushTable, SendReceipt,
       Transports, Receipts, FactLiveness, SocketLiveness
  <1>2. CASE liveness # "alive"
    BY <1>2 DEF ResolveNativePush, Verdict, NativePushTable, RejectReceipt,
       Transports, Receipts, FactLiveness, SocketLiveness, RejectReasons, NativePushRejects
  <1> QED BY <1>1, <1>2

\* Nothing has happened to any call at the start.
LEMMA DispatchInit == Init => DispatchInv
  BY DispatchConstants DEF Init, DispatchInv, TypeOK, HoldersInv, ReceiptInv, CopiesInv,
     AtMostOnce, HonestResult, NoLockLeak, Over, NoReceipt, PCs, Unlocked, Locked, Results,
     Undecided, Executing, Pushing, Finals, AllRecords

\* A probe answers with a socket liveness.
LEMMA ProbedIsLiveness == Probed \subseteq SocketLiveness
  BY DEF Probed, SocketLiveness

\* A decision under the lock keeps the invariant: a send goes to its hand with
\* the lock, anything else to the release.
LEMMA DomainDecision ==
  ASSUME DispatchInv, NEW c \in Calls, pc[c] \in {"inspect", "probe"},
         NEW r \in Receipts, r.kind = "send" => r.by = "control-socket",
         DecideInDomain(c, r),
         UNCHANGED <<target, identity, holders, reason, copies, releases, result>>
  PROVE  DispatchInv'
  BY DEF DecideInDomain, DispatchInv, TypeOK, HoldersInv, ReceiptInv, CopiesInv,
     AtMostOnce, HonestResult, NoLockLeak, Over, PCs, Unlocked, Locked, Results,
     Undecided, Executing, Pushing, Finals, Goto, target

\* A decision without the lock keeps it too: a send goes to the hand of its
\* transport, anything else ends the call.
LEMMA EarlyDecision ==
  ASSUME DispatchInv, NEW c \in Calls, pc[c] \in {"idle", "lock", "deliverable", "convProbe"},
         NEW r \in Receipts, NEW hand, Decide(c, r, hand),
         r.kind = "send" => \/ hand = "enqueue" /\ r.by = "meta-mailbox"
                            \/ hand = "push" /\ r.by = "native-push",
         identity' \in [Calls -> AllRecords],
         UNCHANGED <<target, holders, reason, copies, releases>>
  PROVE  DispatchInv'
  <1> USE DEF DispatchInv, TypeOK, Over, PCs, Unlocked, Locked, Results,
      Undecided, Executing, Pushing, Finals, Goto
  <1>1. TypeOK'
    BY DEF Decide, End, target
  <1>2. /\ UNCHANGED <<holders, copies, releases>>
        /\ \/ /\ r.kind = "send" /\ UNCHANGED result
              /\ pc' = [pc EXCEPT ![c] = hand] /\ receipt' = [receipt EXCEPT ![c] = r]
           \/ /\ r.kind # "send"
              /\ pc' = [pc EXCEPT ![c] = "ended"] /\ receipt' = [receipt EXCEPT ![c] = r]
              /\ result' \in {[result EXCEPT ![c] = res] : res \in {"rejected", "threw"}}
    BY DEF Decide, End
  <1>3. HoldersInv' /\ NoLockLeak'
    BY <1>2 DEF HoldersInv, NoLockLeak
  <1>4. ReceiptInv' /\ CopiesInv' /\ AtMostOnce' /\ HonestResult'
    BY <1>2 DEF ReceiptInv, CopiesInv, AtMostOnce, HonestResult
  <1> QED BY <1>1, <1>3, <1>4

\* The second decision of a dead path ends in the one retry or in a refusal.
LEMMA FallbackDecision ==
  ASSUME DispatchInv, NEW c \in Calls,
         pc[c] \in {"redeliverable", "reinspect", "reprobeSocket"},
         \/ (Goto(c, "resend") \/ Goto(c, "reenqueue")) /\ UNCHANGED reason
         \/ \E why \in RejectReasons : Refuse(c, why),
         UNCHANGED <<target, identity, holders, receipt, copies, releases, result>>
  PROVE  DispatchInv'
  BY DEF Refuse, target, DispatchInv, TypeOK, HoldersInv, ReceiptInv, CopiesInv,
     AtMostOnce, HonestResult, NoLockLeak, Over, PCs, Unlocked, Locked, Results,
     Undecided, Executing, Pushing, Finals, Goto

\* A liveness found again is mapped by the same table.
LEMMA RemappedDecides ==
  ASSUME NEW c \in Calls, NEW liveness \in SocketLiveness, Remapped(c, liveness)
  PROVE  \/ Goto(c, "resend") /\ UNCHANGED reason
         \/ \E why \in RejectReasons : Refuse(c, why)
  BY DomainVerdict DEF Remapped

\* Every step of a call, its death and every move of the target preserve the invariant.
LEMMA DispatchStep == DispatchInv /\ [Next]_vars => DispatchInv'
  <1> SUFFICES ASSUME DispatchInv, [Next]_vars PROVE DispatchInv'
    OBVIOUS
  <1> USE DispatchConstants DEF DispatchInv, TypeOK, HoldersInv, ReceiptInv, CopiesInv,
     AtMostOnce, HonestResult, NoLockLeak, Over, PCs, Unlocked, Locked, Results,
     Undecided, Executing, Pushing, Finals, Goto, End, target
  <1>1. ASSUME NEW c \in Calls, Resolve(c) PROVE DispatchInv'
    <2>1. CASE \E why \in PreProbeRejects : Decide(c, RejectReceipt(why, "null"), "ended")
      BY <1>1, <2>1, RejectVerdict, EarlyDecision DEF Resolve, RejectReasons
    <2>2. CASE End(c, "threw") /\ UNCHANGED receipt
      BY <1>1, <2>2 DEF Resolve
    <2>3. CASE /\ \E label \in {"lock", "convProbe", "deliverable"} : Goto(c, label)
               /\ UNCHANGED <<receipt, result>>
      BY <1>1, <2>3 DEF Resolve
    <2> QED BY <1>1, <2>1, <2>2, <2>3 DEF Resolve, PreProbeRejects
  <1>2. ASSUME NEW c \in Calls, CheckDeliverable(c) PROVE DispatchInv'
    BY <1>2, MailboxVerdict, EarlyDecision DEF CheckDeliverable
  <1>3. ASSUME NEW c \in Calls, ProbeConversation(c) PROVE DispatchInv'
    BY <1>3, PushVerdict, EarlyDecision DEF ProbeConversation
  <1>4. ASSUME NEW c \in Calls, AcquireLock(c) PROVE DispatchInv'
    <2>1. CASE Lock!Grant(c) /\ Goto(c, "inspect") /\ UNCHANGED <<receipt, result>>
      BY <1>4, <2>1 DEF AcquireLock, Lock!Grant
    <2>2. CASE Decide(c, RejectReceipt("target-locked", "null"), "ended") /\ UNCHANGED holders
      BY <1>4, <2>2, RejectVerdict, EarlyDecision DEF AcquireLock, PreProbeRejects, RejectReasons
    <2>3. CASE End(c, "threw") /\ UNCHANGED <<receipt, holders>>
      BY <1>4, <2>3 DEF AcquireLock
    <2> QED BY <1>4, <2>1, <2>2, <2>3 DEF AcquireLock
  <1>5. ASSUME NEW c \in Calls, Inspect(c) PROVE DispatchInv'
    <2>1. CASE path \in SocketFiles /\ Goto(c, "probe") /\ UNCHANGED receipt
      BY <1>5, <2>1 DEF Inspect
    <2>2. CASE DecideInDomain(c, RejectReceipt("target-address-conflict", "null"))
      BY <1>5, <2>2, RejectVerdict, DomainDecision DEF Inspect, PreProbeRejects, RejectReasons
    <2>3. CASE \E liveness \in SocketLiveness : DecideInDomain(c, ResolveDispatch(liveness, FALSE))
      BY <1>5, <2>3, DomainVerdict, DomainDecision DEF Inspect
    <2> QED BY <1>5, <2>1, <2>2, <2>3 DEF Inspect, SocketLiveness
  <1>6. ASSUME NEW c \in Calls, Probe(c) PROVE DispatchInv'
    <2>1. PICK liveness \in SocketLiveness : DecideInDomain(c, ResolveDispatch(liveness, FALSE))
      BY <1>6, ProbedIsLiveness DEF Probe
    <2> QED BY <1>6, <2>1, DomainVerdict, DomainDecision DEF Probe
  <1>7. ASSUME NEW c \in Calls, RejectAfterRelease(c) PROVE DispatchInv'
    BY <1>7 DEF RejectAfterRelease, Release
  <1>8. ASSUME NEW c \in Calls, CatchRelease(c) PROVE DispatchInv'
    BY <1>8 DEF CatchRelease, Release
  <1>9. ASSUME NEW c \in Calls, SendMailbox(c) PROVE DispatchInv'
    BY <1>9 DEF SendMailbox, EnqueueOutcomes, Deliver
  <1>10. ASSUME NEW c \in Calls, Push(c) PROVE DispatchInv'
    BY <1>10 DEF Push, PushOutcomes, Deliver
  <1>11. ASSUME NEW c \in Calls, Reprobe(c) PROVE DispatchInv'
    BY <1>11 DEF Reprobe
  <1>12. ASSUME NEW c \in Calls, Repush(c) PROVE DispatchInv'
    BY <1>12 DEF Repush, PushOutcomes, Deliver
  <1>13. ASSUME NEW c \in Calls, Send(c) PROVE DispatchInv'
    BY <1>13 DEF Send, RpcOutcomes, Deliver
  <1>14. ASSUME NEW c \in Calls, Reresolve(c) PROVE DispatchInv'
    BY <1>14 DEF Reresolve, Refuse, RejectReasons, PreProbeRejects
  <1>15. ASSUME NEW c \in Calls, Redeliverable(c) PROVE DispatchInv'
    <2>1. (identity[c] = "selfFetch" /\ receiver) \in BOOLEAN
      OBVIOUS
    <2>2. \/ Goto(c, "reenqueue") /\ UNCHANGED reason
          \/ \E why \in RejectReasons : Refuse(c, why)
      BY <1>15, <2>1, MailboxVerdict DEF Redeliverable
    <2> QED BY <1>15, <2>2, FallbackDecision DEF Redeliverable
  <1>16. ASSUME NEW c \in Calls, Reinspect(c) PROVE DispatchInv'
    <2>1. CASE path \in SocketFiles /\ Goto(c, "reprobeSocket") /\ UNCHANGED reason
      BY <1>16, <2>1 DEF Reinspect
    <2>2. CASE Refuse(c, "target-address-conflict")
      BY <1>16, <2>2 DEF Reinspect, Refuse, RejectReasons, PreProbeRejects
    <2>3. CASE \E liveness \in SocketLiveness : Remapped(c, liveness)
      BY <1>16, <2>3, RemappedDecides, FallbackDecision DEF Reinspect
    <2> QED BY <1>16, <2>1, <2>2, <2>3 DEF Reinspect, SocketLiveness
  <1>17. ASSUME NEW c \in Calls, ReprobeSocket(c) PROVE DispatchInv'
    BY <1>17, ProbedIsLiveness, RemappedDecides, FallbackDecision DEF ReprobeSocket
  <1>18. ASSUME NEW c \in Calls, Resend(c) PROVE DispatchInv'
    BY <1>18 DEF Resend, RpcOutcomes, Deliver
  <1>19. ASSUME NEW c \in Calls, Reenqueue(c) PROVE DispatchInv'
    BY <1>19 DEF Reenqueue, EnqueueOutcomes, Deliver
  <1>20. ASSUME NEW c \in Calls, Finalize(c) PROVE DispatchInv'
    BY SMTT(30), <1>20 DEF Finalize, Release, Outcome, Dirty
  <1>21. ASSUME NEW c \in Calls, Die(c) PROVE DispatchInv'
    BY <1>21 DEF Die
  <1>22. CASE TargetMoves
    BY <1>22 DEF TargetMoves
  <1>23. CASE UNCHANGED vars
    BY <1>23 DEF vars
  <1> QED
    BY <1>1, <1>2, <1>3, <1>4, <1>5, <1>6, <1>7, <1>8, <1>9, <1>10, <1>11, <1>12, <1>13,
       <1>14, <1>15, <1>16, <1>17, <1>18, <1>19, <1>20, <1>21, <1>22, <1>23
       DEF Next, CallStep

\* The invariant holds throughout every behaviour.
THEOREM DispatchInvariant == Spec => []DispatchInv
  BY DispatchInit, DispatchStep, PTL DEF Spec

\* A message sent over the control socket or the mailbox reaches a receiver at
\* most once, whatever is retried and whatever the target does meanwhile.
THEOREM SentAtMostOnce == Spec => []AtMostOnce
  <1>1. DispatchInv => AtMostOnce
    BY DEF DispatchInv
  <1> QED BY <1>1, DispatchInvariant, PTL

\* What the caller is told about the copies of its message is true.
THEOREM ToldTheTruth == Spec => []HonestResult
  <1>1. DispatchInv => HonestResult
    BY DEF DispatchInv
  <1> QED BY <1>1, DispatchInvariant, PTL

\* Every call gives the lock back, once, unless releaseLock itself fails.
THEOREM LockGivenBack == Spec => []NoLockLeak
  <1>1. DispatchInv => NoLockLeak
    BY DEF DispatchInv
  <1> QED BY <1>1, DispatchInvariant, PTL

\* Two calls are never both between the inspection and the final outcome: each
\* has the abstract lock throughout.
THEOREM TargetIsForOne == Spec => []AloneWithTarget
  <1>1. DispatchInv => AloneWithTarget
    BY DEF DispatchInv, HoldersInv, AloneWithTarget
  <1> QED BY <1>1, DispatchInvariant, PTL

\* Only a call's own step takes it into the fallback.
LEMMA OneCallMoves ==
  ASSUME pc \in [Calls -> PCs], Next, NEW c \in Calls, pc'[c] # pc[c],
         pc'[c] \in {"reresolve", "redeliverable", "reenqueue"}
  PROVE  CallStep(c)
  <1>1. ASSUME NEW d \in Calls, d # c, CallStep(d) PROVE pc'[c] = pc[c]
    <2> USE <1>1 DEF Goto, End
    <2>1. CASE CheckDeliverable(d) \/ ProbeConversation(d) \/ AcquireLock(d)
      BY <2>1 DEF CheckDeliverable, ProbeConversation, AcquireLock, Decide
    <2>2. CASE Inspect(d) \/ Probe(d) \/ RejectAfterRelease(d) \/ CatchRelease(d)
      BY <2>2 DEF Inspect, Probe, DecideInDomain, RejectAfterRelease, CatchRelease
    <2>3. CASE SendMailbox(d) \/ Push(d) \/ Reprobe(d) \/ Repush(d)
      BY <2>3 DEF SendMailbox, Push, Reprobe, Repush
    <2>4. CASE Send(d) \/ Resend(d) \/ Reenqueue(d) \/ Finalize(d)
      BY <2>4 DEF Send, Resend, Reenqueue, Finalize
    <2>5. CASE Reresolve(d) \/ Redeliverable(d) \/ Reinspect(d) \/ ReprobeSocket(d)
      BY <2>5 DEF Reresolve, Redeliverable, Reinspect, ReprobeSocket, Remapped, Refuse
    <2> QED BY <2>1, <2>2, <2>3, <2>4, <2>5 DEF CallStep
  <1>2. ASSUME NEW d \in Calls, Resolve(d) PROVE FALSE
    BY <1>2 DEF Resolve, Decide, End, Goto
  <1>3. ASSUME NEW d \in Calls, Die(d) PROVE FALSE
    BY <1>3 DEF Die, Goto
  <1>4. CASE TargetMoves
    BY <1>4 DEF TargetMoves
  <1> QED BY <1>1, <1>2, <1>3, <1>4 DEF Next

\* A second attempt follows only a path nobody listened on, and reaches a mailbox
\* only when the call's own second look found a self-fetch citizen with nothing at
\* its socket path.
THEOREM FallbackJustified == Spec => FallbackIsHonest
  <1>1. ASSUME DispatchInv, Next, NEW c \in Calls
        PROVE  /\ pc[c] = "send" /\ pc'[c] = "reresolve"
                    => copies'[c] = 0 /\ path # "live" /\ path # "stuck"
               /\ pc[c] # "redeliverable" /\ pc'[c] = "redeliverable"
                    => record # "pi" /\ path = "absent" /\ identity'[c] = record
               /\ pc[c] # "reenqueue" /\ pc'[c] = "reenqueue"
                    => pc[c] = "redeliverable" /\ identity[c] = "selfFetch" /\ copies[c] = 0
    <2>1. /\ pc \in [Calls -> PCs] /\ copies \in [Calls -> 0..MaxCopies]
          /\ identity \in [Calls -> AllRecords]
          /\ pc[c] \in {"send", "redeliverable"} => copies[c] = 0
      BY <1>1 DEF DispatchInv, TypeOK, CopiesInv, Executing, Locked, Finals
    <2>2. pc'[c] \in {"reresolve", "redeliverable", "reenqueue"} /\ pc'[c] # pc[c]
            => Send(c) \/ Reresolve(c) \/ Redeliverable(c)
      <3>1. ASSUME CallStep(c), ~Send(c), ~Reresolve(c), ~Redeliverable(c)
            PROVE  pc'[c] \notin {"reresolve", "redeliverable", "reenqueue"}
        <4> USE <2>1 DEF Goto, End
        <4>1. CASE CheckDeliverable(c) \/ ProbeConversation(c) \/ AcquireLock(c)
          BY <4>1 DEF CheckDeliverable, ProbeConversation, AcquireLock, Decide
        <4>2. CASE Inspect(c) \/ Probe(c) \/ RejectAfterRelease(c) \/ CatchRelease(c)
          BY <4>2 DEF Inspect, Probe, DecideInDomain, RejectAfterRelease, CatchRelease
        <4>3. CASE SendMailbox(c) \/ Push(c) \/ Reprobe(c) \/ Repush(c)
          BY <4>3 DEF SendMailbox, Push, Reprobe, Repush
        <4>4. CASE Resend(c) \/ Reenqueue(c) \/ Finalize(c)
          BY <4>4 DEF Resend, Reenqueue, Finalize, Outcome
        <4>5. CASE Reinspect(c) \/ ReprobeSocket(c)
          BY <4>5 DEF Reinspect, ReprobeSocket, Remapped, Refuse
        <4> QED BY <3>1, <4>1, <4>2, <4>3, <4>4, <4>5 DEF CallStep
      <3> QED BY <1>1, <2>1, <3>1, OneCallMoves
    <2>3. CASE Send(c)
      BY <2>1, <2>3 DEF Send, RpcOutcomes, Deliver, Goto
    <2>4. CASE Reresolve(c)
      BY <2>1, <2>4 DEF Reresolve, AddressConflict, Refuse, Goto
    <2>5. CASE Redeliverable(c)
      BY <2>1, <2>5 DEF Redeliverable, ResolveDispatch, RejectReceipt, Refuse, Goto
    <2> QED BY <2>2, <2>3, <2>4, <2>5
  <1>2. DispatchInv /\ [Next]_vars
          => [\A c \in Calls :
                /\ pc[c] = "send" /\ pc'[c] = "reresolve"
                     => copies'[c] = 0 /\ path # "live" /\ path # "stuck"
                /\ pc[c] # "redeliverable" /\ pc'[c] = "redeliverable"
                     => record # "pi" /\ path = "absent" /\ identity'[c] = record
                /\ pc[c] # "reenqueue" /\ pc'[c] = "reenqueue"
                     => pc[c] = "redeliverable" /\ identity[c] = "selfFetch" /\ copies[c] = 0]_vars
    BY <1>1
  <1> QED BY <1>2, DispatchInvariant, PTL DEF Spec, FallbackIsHonest

\* The calls use the lock as TargetLock allows, which is what DispatchLock
\* implements: it is granted when free, and only its holder gives it back.
THEOREM KeepsLockProtocol == Spec => Lock!Spec
  <1>1. Init => Lock!Init
    BY DEF Init, Lock!Init
  <1>2. DispatchInv /\ [Next]_vars => [Lock!Next]_holders
    <2> SUFFICES ASSUME DispatchInv, Next, holders' # holders PROVE Lock!Next
      BY DEF vars
    <2>1. ASSUME NEW c \in Calls, Lock!Grant(c) PROVE Lock!Next
      BY <2>1 DEF Lock!Next
    <2>2. ASSUME NEW c \in Calls, holders' = holders \ {c} PROVE Lock!Next
      BY <2>2 DEF Lock!Next, Lock!Leave, DispatchInv, HoldersInv
    <2>3. PICK c \in Calls : AcquireLock(c) \/ RejectAfterRelease(c) \/ CatchRelease(c)
                               \/ Finalize(c) \/ Die(c)
      BY DEF Next, CallStep, Resolve, CheckDeliverable, ProbeConversation, Inspect, Probe,
         SendMailbox, Push, Reprobe, Repush, Send, Reresolve, Redeliverable, Reinspect,
         ReprobeSocket, Resend, Reenqueue, TargetMoves
    <2> QED
      BY <2>1, <2>2, <2>3 DEF AcquireLock, RejectAfterRelease, CatchRelease, Finalize, Die, Release
  <1> QED BY <1>1, <1>2, DispatchInvariant, PTL DEF Spec, Lock!Spec

-----------------------------------------------------------------------------

\* Type correctness is part of the invariant.
THEOREM DispatchTypeCorrect == Spec => []TypeOK
  <1>1. DispatchInv => TypeOK
    BY DEF DispatchInv
  <1> QED BY <1>1, DispatchInvariant, PTL

\* What the two tables and the resolver's reject mint is honest.
LEMMA VerdictsAreHonest ==
  /\ \A why \in PreProbeRejects : Honest(RejectReceipt(why, "null"))
  /\ \A liveness \in SocketLiveness : Honest(ResolveDispatch(liveness, FALSE))
  /\ \A liveness \in SocketLiveness : Honest(ResolveNativePush(liveness))
  /\ \A deliverable \in BOOLEAN : Honest(ResolveDispatch("unsupported", deliverable))
  <1> USE DEF Honest, RejectReceipt, SendReceipt, WellFormedReject, SocketLiveness, FactLiveness
  <1>1. \A why \in PreProbeRejects : Honest(RejectReceipt(why, "null"))
    OBVIOUS
  <1>2. ASSUME NEW liveness \in SocketLiveness PROVE Honest(ResolveDispatch(liveness, FALSE))
    <2>1. CASE liveness = "alive"
      BY <2>1 DEF ResolveDispatch, Verdict, DispatchTable, DispatchLivenessOf, Transports
    <2>2. CASE liveness = "dead"
      BY <2>2 DEF ResolveDispatch, Verdict, DispatchTable, DispatchLivenessOf, Transports, PreProbeRejects
    <2>3. CASE liveness = "indeterminate"
      BY <2>3 DEF ResolveDispatch, Verdict, DispatchTable, DispatchLivenessOf, Transports, PreProbeRejects
    <2> QED BY <2>1, <2>2, <2>3
  <1>3. ASSUME NEW liveness \in SocketLiveness PROVE Honest(ResolveNativePush(liveness))
    <2>1. CASE liveness = "alive"
      BY <2>1 DEF ResolveNativePush, Verdict, NativePushTable, Transports
    <2>2. CASE liveness = "dead"
      BY <2>2 DEF ResolveNativePush, Verdict, NativePushTable, Transports, PreProbeRejects
    <2>3. CASE liveness = "indeterminate"
      BY <2>3 DEF ResolveNativePush, Verdict, NativePushTable, Transports, PreProbeRejects
    <2> QED BY <2>1, <2>2, <2>3
  <1>4. ASSUME NEW deliverable \in BOOLEAN PROVE Honest(ResolveDispatch("unsupported", deliverable))
    BY DEF ResolveDispatch, PreProbeRejects
  <1> QED BY <1>1, <1>2, <1>3, <1>4

\* A step leaves the receipts alone or mints an honest one.
LEMMA MintsHonestly ==
  ASSUME TypeOK, Next
  PROVE  \/ UNCHANGED receipt
         \/ \E c \in Calls, r \in {s \in Receipts : Honest(s)} :
              receipt' = [receipt EXCEPT ![c] = r]
  <1> DEFINE Minted(c, r) == receipt' = [receipt EXCEPT ![c] = r]
  <1>1. ASSUME NEW c \in Calls, Resolve(c) PROVE UNCHANGED receipt \/ \E why \in PreProbeRejects : Minted(c, RejectReceipt(why, "null"))
    BY <1>1 DEF Resolve, Decide, PreProbeRejects
  <1>2. ASSUME NEW c \in Calls, AcquireLock(c) PROVE UNCHANGED receipt \/ \E why \in PreProbeRejects : Minted(c, RejectReceipt(why, "null"))
    BY <1>2 DEF AcquireLock, Decide, PreProbeRejects
  <1>3. ASSUME NEW c \in Calls, CheckDeliverable(c) PROVE Minted(c, ResolveDispatch("unsupported", receiver))
    BY <1>3 DEF CheckDeliverable, Decide
  <1>4. ASSUME NEW c \in Calls, ProbeConversation(c) PROVE Minted(c, ResolveNativePush(conv))
    BY <1>4 DEF ProbeConversation, Decide
  <1>5. ASSUME NEW c \in Calls, Inspect(c)
        PROVE \/ UNCHANGED receipt
              \/ \E why \in PreProbeRejects : Minted(c, RejectReceipt(why, "null"))
              \/ \E liveness \in SocketLiveness : Minted(c, ResolveDispatch(liveness, FALSE))
    BY <1>5 DEF Inspect, DecideInDomain, PreProbeRejects, SocketLiveness
  <1>6. ASSUME NEW c \in Calls, Probe(c)
        PROVE \E liveness \in SocketLiveness : Minted(c, ResolveDispatch(liveness, FALSE))
    BY <1>6, ProbedIsLiveness DEF Probe, DecideInDomain
  <1>7. ASSUME NEW c \in Calls, CallStep(c) \/ Die(c)
        PROVE \/ AcquireLock(c) \/ CheckDeliverable(c) \/ ProbeConversation(c) \/ Inspect(c) \/ Probe(c)
              \/ UNCHANGED receipt
    BY <1>7 DEF CallStep, Die, RejectAfterRelease, CatchRelease, SendMailbox, Push, Reprobe, Repush, Send,
       Reresolve, Redeliverable, Reinspect, ReprobeSocket, Resend, Reenqueue, Finalize
  <1>8. CASE TargetMoves
    BY <1>8 DEF TargetMoves
  <1>9. ASSUME NEW c \in Calls, Resolve(c) \/ CallStep(c) \/ Die(c)
        PROVE \/ UNCHANGED receipt
              \/ \E r \in {s \in Receipts : Honest(s)} : Minted(c, r)
    <2>1. \A why \in PreProbeRejects : RejectReceipt(why, "null") \in {s \in Receipts : Honest(s)}
      BY RejectVerdict, VerdictsAreHonest DEF RejectReasons
    <2>2. \A liveness \in SocketLiveness : ResolveDispatch(liveness, FALSE) \in {s \in Receipts : Honest(s)}
      BY DomainVerdict, VerdictsAreHonest
    <2>3. ResolveNativePush(conv) \in {s \in Receipts : Honest(s)}
      BY PushVerdict, VerdictsAreHonest DEF TypeOK
    <2>4. ResolveDispatch("unsupported", receiver) \in {s \in Receipts : Honest(s)}
      BY MailboxVerdict, VerdictsAreHonest DEF TypeOK
    <2> HIDE DEF Minted
    <2> QED BY <1>1, <1>2, <1>3, <1>4, <1>5, <1>6, <1>7, <1>9, <2>1, <2>2, <2>3, <2>4
  <1> QED BY <1>8, <1>9 DEF Next

\* Every receipt a caller gets is well formed and says what was observed.
THEOREM ReceiptsAreHonest == Spec => []HonestReceipt
  <1>1. Init => HonestReceipt
    BY DEF Init, HonestReceipt, Honest, NoReceipt
  <1>2. TypeOK /\ HonestReceipt /\ [Next]_vars => HonestReceipt'
    <2>1. ASSUME TypeOK, HonestReceipt, Next PROVE HonestReceipt'
      BY <2>1, MintsHonestly DEF HonestReceipt, TypeOK
    <2>2. ASSUME HonestReceipt, UNCHANGED vars PROVE HonestReceipt'
      BY <2>2 DEF HonestReceipt, vars
    <2> QED BY <2>1, <2>2
  <1> QED BY <1>1, <1>2, DispatchTypeCorrect, PTL DEF Spec

\* A call ends after a bounded number of its own steps, whatever the target does.
THEOREM CallsMoveForward == Spec => OnlyForward
  <1>1. DispatchInv /\ [Next]_vars
          => [\A c \in Calls : pc'[c] # pc[c] => Stage[pc[c]] < Stage[pc'[c]]]_vars
    <2> SUFFICES ASSUME DispatchInv, Next, NEW c \in Calls, pc'[c] # pc[c]
                 PROVE  Stage[pc[c]] < Stage[pc'[c]]
      OBVIOUS
    <2>0. pc \in [Calls -> PCs] /\ receipt \in [Calls -> Receipts \cup {NoReceipt}]
      BY DEF DispatchInv, TypeOK
    <2>1. ASSUME NEW d \in Calls, NEW to, pc' = [pc EXCEPT ![d] = to] PROVE d = c /\ pc'[c] = to
      BY <2>0, <2>1
    <2> USE DEF Goto, End
    <2>2. ASSUME NEW d \in Calls, Resolve(d) \/ CallStep(d) \/ Die(d)
          PROVE  Stage[pc[c]] < Stage[pc'[c]]
      <3>1. \E to : pc' = [pc EXCEPT ![d] = to]
        <4>1. CASE Resolve(d) \/ CheckDeliverable(d) \/ ProbeConversation(d) \/ AcquireLock(d)
          BY <4>1 DEF Resolve, CheckDeliverable, ProbeConversation, AcquireLock, Decide
        <4>2. CASE Inspect(d) \/ Probe(d) \/ RejectAfterRelease(d) \/ CatchRelease(d) \/ Die(d)
          BY <4>2 DEF Inspect, Probe, DecideInDomain, RejectAfterRelease, CatchRelease, Die
        <4>3. CASE SendMailbox(d) \/ Push(d) \/ Reprobe(d) \/ Repush(d)
          BY <4>3 DEF SendMailbox, Push, Reprobe, Repush
        <4>4. CASE Send(d) \/ Resend(d) \/ Reenqueue(d) \/ Finalize(d)
          BY <4>4 DEF Send, Resend, Reenqueue, Finalize
        <4>5. CASE Reresolve(d) \/ Redeliverable(d) \/ Reinspect(d) \/ ReprobeSocket(d)
          BY <4>5 DEF Reresolve, Redeliverable, Reinspect, ReprobeSocket, Remapped, Refuse
        <4> QED BY <2>2, <4>1, <4>2, <4>3, <4>4, <4>5 DEF CallStep
      <3>2. d = c
        BY <2>1, <3>1
      <3> USE <2>0, <3>2 DEF Stage, PCs, Unlocked, Locked, Outcome
      <3>3. CASE Resolve(d)
        BY <3>3 DEF Resolve, Decide, RejectReceipt
      <3>4. CASE CheckDeliverable(d) \/ ProbeConversation(d) \/ AcquireLock(d)
        BY <3>4 DEF CheckDeliverable, ProbeConversation, AcquireLock, Decide
      <3>5. CASE Inspect(d) \/ Probe(d)
        <4>1. ASSUME NEW r, DecideInDomain(d, r) PROVE pc'[c] \in {"send", "rejecting", "catch"}
          BY <4>1 DEF DecideInDomain
        <4>2. CASE Inspect(d)
          <5>1. pc[c] = "inspect" /\ pc'[c] \in {"probe", "send", "rejecting", "catch"}
            BY <4>1, <4>2 DEF Inspect
          <5> QED BY <5>1
        <4>3. CASE Probe(d)
          <5>1. pc[c] = "probe" /\ pc'[c] \in {"send", "rejecting", "catch"}
            BY <4>1, <4>3 DEF Probe
          <5> QED BY <5>1
        <4> QED BY <3>5, <4>2, <4>3
      <3>6. CASE RejectAfterRelease(d) \/ CatchRelease(d) \/ Die(d)
        <4>1. CASE RejectAfterRelease(d)
          <5>1. pc[c] = "rejecting" /\ pc'[c] \in {"ended", "catch"}
            BY <4>1 DEF RejectAfterRelease
          <5> QED BY <5>1
        <4>2. CASE CatchRelease(d)
          BY <4>2 DEF CatchRelease
        <4>3. CASE Die(d)
          <5>1. pc[c] \notin {"ended", "crashed"} /\ pc'[c] = "crashed"
            BY <4>3 DEF Die
          <5> QED BY <5>1
        <4> QED BY <3>6, <4>1, <4>2, <4>3
      <3>7. CASE SendMailbox(d) \/ Push(d) \/ Reprobe(d) \/ Repush(d)
        BY <3>7 DEF SendMailbox, Push, Reprobe, Repush
      <3>8. CASE Send(d) \/ Resend(d) \/ Reenqueue(d)
        BY <3>8 DEF Send, Resend, Reenqueue
      <3>9. CASE Reresolve(d) \/ Redeliverable(d) \/ Reinspect(d) \/ ReprobeSocket(d)
        <4>1. CASE Reresolve(d)
          <5>1. pc[c] = "reresolve" /\ pc'[c] \in {"finalRefused", "reinspect", "redeliverable", "finalFailed"}
            BY <4>1 DEF Reresolve, Refuse
          <5> QED BY <5>1
        <4>2. CASE Redeliverable(d)
          <5>1. pc[c] = "redeliverable" /\ pc'[c] \in {"reenqueue", "finalRefused"}
            BY <4>2 DEF Redeliverable, Refuse
          <5> QED BY <5>1
        <4>3. CASE Reinspect(d)
          <5>1. pc[c] = "reinspect" /\ pc'[c] \in {"resend", "finalRefused", "reprobeSocket"}
            BY <4>3 DEF Reinspect, Remapped, Refuse
          <5> QED BY <5>1
        <4>4. CASE ReprobeSocket(d)
          <5>1. pc[c] = "reprobeSocket" /\ pc'[c] \in {"resend", "finalRefused"}
            BY <4>4 DEF ReprobeSocket, Remapped, Refuse
          <5> QED BY <5>1
        <4> QED BY <3>9, <4>1, <4>2, <4>3, <4>4
      <3>10. CASE Finalize(d)
        <4>1. pc[c] \in {"finalSent", "finalFallback", "finalRefused", "finalFailed"} /\ pc'[c] = "ended"
          BY <3>10 DEF Finalize
        <4> QED BY <4>1
      <3> QED BY <2>2, <3>3, <3>4, <3>5, <3>6, <3>7, <3>8, <3>9, <3>10 DEF CallStep
    <2>3. CASE TargetMoves
      BY <2>3 DEF TargetMoves
    <2> QED BY <2>2, <2>3 DEF Next
  <1> QED BY <1>1, DispatchInvariant, PTL DEF Spec, OnlyForward
=============================================================================
