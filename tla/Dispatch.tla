------------------------------ MODULE Dispatch ------------------------------
(***************************************************************************)
(* entwurf_v2 aimed at one garden id, from decideDispatch to the final     *)
(* release: the decider (entwurf-v2-decider.ts), the runner and its three  *)
(* hands (entwurf-v2-runner.ts, -send.ts, -send-fallback.ts, -mailbox.ts,  *)
(* -native-push.ts), the release reducer (-release.ts) and the production  *)
(* target resolution (-production.ts).                                     *)
(*                                                                         *)
(* Calls run concurrently; the target changes under them between any two   *)
(* awaits.  The lock is the abstract TargetLock that DispatchLock          *)
(* implements.                                                             *)
(***************************************************************************)
EXTENDS Naturals, DispatchContract

CONSTANTS
  Calls,      \* concurrent entwurf_v2 calls
  Records,    \* what the target's meta-record may become, a subset of AllRecords
  MaxCopies   \* bound on the copies counted per call

\* a pi citizen, a self-fetch citizen with a mailbox, a native-push citizen
AllRecords == {"none", "pi", "selfFetch", "native"}

ASSUME DispatchConstants ==
  /\ Records \subseteq AllRecords
  /\ MaxCopies \in Nat

VARIABLES
  record,     \* the meta-record of the garden id
  path,       \* what is at its control-socket path
  receiver,   \* whether a live receiver drains its mailbox
  conv,       \* the native conversation, as an adapter probe finds it
  holders,    \* who has the dispatch lock
  pc,         \* where each call is
  identity,   \* what its last resolveTarget found, kept across the awaits after it
  receipt,    \* the receipt the decider minted for it
  reason,     \* the reject reason a dead-path re-resolve carried out
  copies,     \* how often its message reached a receiver
  releases,   \* how often it called releaseLock
  result      \* what the caller is told

target == <<record, path, receiver, conv>>
vars == <<record, path, receiver, conv, holders, pc, identity, receipt, reason, copies, releases, result>>

Lock == INSTANCE TargetLock

-----------------------------------------------------------------------------

\* no entry; a listener that answers; one that is stuck; a socket file nobody
\* listens on; something that is not a socket, with no listener behind it
Paths == {"absent", "live", "stuck", "dead", "corrupt"}
SocketFiles == {"live", "stuck", "dead"}

Unlocked == {"idle", "lock", "deliverable", "convProbe", "enqueue", "push", "reprobe", "repush"}
Locked == {"inspect", "probe", "rejecting", "send", "reresolve", "redeliverable",
           "reinspect", "reprobeSocket", "resend", "reenqueue",
           "finalSent", "finalFallback", "finalRefused", "finalFailed"}
PCs == Unlocked \cup Locked \cup {"catch", "ended", "crashed"}

\* rejected: the decider refused.  threw: no decision was made.  sent,
\* fallback-sent, refused: executed to that outcome.  failed: execution-failed.
\* finalized: execution-failed with a finalized outcome and a dirty lock.
Results == {"none", "rejected", "threw", "sent", "fallback-sent", "refused", "failed",
            "finalizedSent", "finalizedRefused"}

NoReceipt == [kind |-> "none", by |-> "none", observed |-> "null"]

TypeOK ==
  /\ record \in Records
  /\ path \in Paths
  /\ receiver \in BOOLEAN
  /\ conv \in SocketLiveness
  /\ holders \in SUBSET Calls
  /\ pc \in [Calls -> PCs]
  /\ identity \in [Calls -> AllRecords]
  /\ receipt \in [Calls -> Receipts \cup {NoReceipt}]
  /\ reason \in [Calls -> RejectReasons \cup {"none"}]
  /\ copies \in [Calls -> 0..MaxCopies]
  /\ releases \in [Calls -> 0..2]
  /\ result \in [Calls -> Results]

Init ==
  /\ record \in Records
  /\ path \in Paths
  /\ receiver \in BOOLEAN
  /\ conv \in SocketLiveness
  /\ holders = {}
  /\ pc = [c \in Calls |-> "idle"]
  /\ identity = [c \in Calls |-> "none"]
  /\ receipt = [c \in Calls |-> NoReceipt]
  /\ reason = [c \in Calls |-> "none"]
  /\ copies = [c \in Calls |-> 0]
  /\ releases = [c \in Calls |-> 0]
  /\ result = [c \in Calls |-> "none"]

Goto(c, label) == pc' = [pc EXCEPT ![c] = label]

\* The call returns to its caller, without having touched the lock.
End(c, res) ==
  /\ Goto(c, "ended")
  /\ result' = [result EXCEPT ![c] = res]

\* A send attempt leaves n copies with a receiver.
Deliver(c, n) ==
  /\ copies[c] + n <= MaxCopies
  /\ copies' = [copies EXCEPT ![c] = @ + n]

-----------------------------------------------------------------------------
(* decideDispatch *)

\* Mint a receipt for a call that holds no lock: a send goes on to its hand,
\* a reject is returned, an ill-formed reject throws.
Decide(c, r, hand) ==
  /\ receipt' = [receipt EXCEPT ![c] = r]
  /\ CASE r.kind = "send"   -> Goto(c, hand) /\ UNCHANGED result
       [] r.kind = "reject" -> End(c, "rejected")
       [] OTHER             -> End(c, "threw")

\* What the production resolveTarget makes of the target: nothing behind the id
\* but a socket, or a citizen outside the control-socket domain with something at
\* the socket path of its id.
RecordLessSocket == record = "none" /\ path \in SocketFiles
AddressConflict == record \in {"selfFetch", "native"} /\ path # "absent"

\* resolveTarget and decideDispatch steps 1-3.  Only targets outside the
\* control-socket domain are looked at before the lock.
Resolve(c) ==
  /\ pc[c] = "idle"
  /\ \/ /\ record = "none"
        /\ Decide(c, RejectReceipt(IF RecordLessSocket THEN "record-less-socket"
                                                       ELSE "bad-target", "null"), "ended")
     \/ record = "pi" /\ Goto(c, "lock") /\ UNCHANGED <<receipt, result>>
     \/ /\ record \in {"selfFetch", "native"}
        /\ IF AddressConflict
           THEN Decide(c, RejectReceipt("target-address-conflict", "null"), "ended")
           ELSE /\ Goto(c, IF record = "native" THEN "convProbe" ELSE "deliverable")
                /\ UNCHANGED <<receipt, result>>
     \/ End(c, "threw") /\ UNCHANGED receipt      \* corrupt record, unprovable lstat
  /\ identity' = [identity EXCEPT ![c] = record]
  /\ UNCHANGED <<target, holders, reason, copies, releases>>

\* step 6: a self-fetch citizen, if somebody drains its mailbox
CheckDeliverable(c) ==
  /\ pc[c] = "deliverable"
  /\ Decide(c, ResolveDispatch("unsupported", receiver), "enqueue")
  /\ UNCHANGED <<target, identity, holders, reason, copies, releases>>

\* step 2d: the native-push rail takes no lock
ProbeConversation(c) ==
  /\ pc[c] = "convProbe"
  /\ Decide(c, ResolveNativePush(conv), "push")
  /\ UNCHANGED <<target, identity, holders, reason, copies, releases>>

\* mutant: a conflict is logged and the dispatch goes on
AcquireLock_Proceeds(c) ==
  /\ pc[c] = "lock"
  /\ holders' = holders \cup {c}
  /\ Goto(c, "inspect")
  /\ UNCHANGED <<target, identity, receipt, reason, copies, releases, result>>

\* step 4; acquireLock may refuse an id that nobody running holds (a stale
\* marker, another host) and may throw
AcquireLock(c) ==
  /\ pc[c] = "lock"
  /\ \/ Lock!Grant(c) /\ Goto(c, "inspect") /\ UNCHANGED <<receipt, result>>
     \/ Decide(c, RejectReceipt("target-locked", "null"), "ended") /\ UNCHANGED holders
     \/ End(c, "threw") /\ UNCHANGED <<receipt, holders>>
  /\ UNCHANGED <<target, identity, reason, copies, releases>>

\* The receipt of decideInDomain: send keeps the lock, a reject releases it.
DecideInDomain(c, r) ==
  /\ receipt' = [receipt EXCEPT ![c] = r]
  /\ Goto(c, CASE r.kind = "send"   -> "send"
               [] r.kind = "reject" -> "rejecting"
               [] OTHER             -> "catch")

\* mutant: an address conflict reports a liveness nobody measured
Inspect_StampsConflict(c) ==
  /\ pc[c] = "inspect"
  /\ \/ path = "absent" /\ DecideInDomain(c, ResolveDispatch("dead", FALSE))
     \/ path \in SocketFiles /\ Goto(c, "probe") /\ UNCHANGED receipt
     \/ path = "corrupt" /\ DecideInDomain(c, RejectReceipt("target-address-conflict", "indeterminate"))
  /\ UNCHANGED <<target, identity, holders, reason, copies, releases, result>>

\* step 5: lstat the path under the lock
Inspect(c) ==
  /\ pc[c] = "inspect"
  /\ \/ path = "absent" /\ DecideInDomain(c, ResolveDispatch("dead", FALSE))
     \/ path \in SocketFiles /\ Goto(c, "probe") /\ UNCHANGED receipt
     \/ path = "corrupt" /\ DecideInDomain(c, RejectReceipt("target-address-conflict", "null"))
     \/ DecideInDomain(c, ResolveDispatch("indeterminate", FALSE))    \* EACCES
  /\ UNCHANGED <<target, identity, holders, reason, copies, releases, result>>

\* What probeSocketLiveness may find: a slow answer is a timeout.
Probed == CASE path = "live"              -> {"alive", "indeterminate"}
            [] path \in {"absent", "dead"} -> {"dead", "indeterminate"}
            [] path = "corrupt"           -> {"dead", "indeterminate"}
            [] OTHER                      -> {"indeterminate"}

Probe(c) ==
  /\ pc[c] = "probe"
  /\ \E liveness \in Probed : DecideInDomain(c, ResolveDispatch(liveness, FALSE))
  /\ UNCHANGED <<target, identity, holders, reason, copies, releases, result>>

\* releaseLock by the holder; when it throws the file stays
Release(c, ok) ==
  /\ releases' = [releases EXCEPT ![c] = @ + 1]
  /\ IF ok THEN holders' = holders \ {c} ELSE UNCHANGED holders

\* mutant: a reject under the lock returns like one before it
RejectAfterRelease_Forgets(c) ==
  /\ pc[c] = "rejecting"
  /\ End(c, "rejected")
  /\ UNCHANGED <<target, identity, holders, receipt, reason, copies, releases>>

\* rejectAfterRelease; a throw lands in decideInDomain's catch
RejectAfterRelease(c) ==
  /\ pc[c] = "rejecting"
  /\ \/ Release(c, TRUE) /\ End(c, "rejected")
     \/ Release(c, FALSE) /\ Goto(c, "catch") /\ UNCHANGED result
  /\ UNCHANGED <<target, identity, receipt, reason, copies>>

\* The catch releases best-effort and rethrows.
CatchRelease(c) ==
  /\ pc[c] = "catch"
  /\ \E ok \in BOOLEAN : Release(c, ok)
  /\ End(c, "threw")
  /\ UNCHANGED <<target, identity, receipt, reason, copies>>

-----------------------------------------------------------------------------
(* The lock-free hands *)

\* mutant: a write that failed counts as enqueued
EnqueueOutcomes_Optimistic == {[ok |-> TRUE, n |-> n] : n \in {0, 1}}

\* enqueueMetaMessage: it throws when the record is gone, and may throw after
\* the .msg was written (receipt stamp or signal poke).
EnqueueOutcomes ==
  (IF record # "none" THEN {[ok |-> TRUE, n |-> 1], [ok |-> FALSE, n |-> 1]} ELSE {})
    \cup {[ok |-> FALSE, n |-> 0]}

SendMailbox(c) ==
  /\ pc[c] = "enqueue"
  /\ \E o \in EnqueueOutcomes : Deliver(c, o.n) /\ End(c, IF o.ok THEN "sent" ELSE "failed")
  /\ UNCHANGED <<target, identity, holders, receipt, reason, releases>>

\* adapter.send into the conversation: an error does not prove non-delivery
PushOutcomes ==
  (IF conv # "dead" THEN {[ok |-> TRUE, n |-> 1], [ok |-> FALSE, n |-> 1]} ELSE {})
    \cup {[ok |-> FALSE, n |-> 0]}

\* deliverViaNativePush: the first send over the planted route
Push(c) ==
  /\ pc[c] = "push"
  /\ \E o \in PushOutcomes :
       /\ Deliver(c, o.n)
       /\ IF o.ok THEN End(c, "sent") ELSE Goto(c, "reprobe") /\ UNCHANGED result
  /\ UNCHANGED <<target, identity, holders, receipt, reason, releases>>

Reprobe(c) ==
  /\ pc[c] = "reprobe"
  /\ IF conv = "alive" THEN Goto(c, "repush") /\ UNCHANGED result ELSE End(c, "failed")
  /\ UNCHANGED <<target, identity, holders, receipt, reason, copies, releases>>

\* the one retry; a second failure propagates
Repush(c) ==
  /\ pc[c] = "repush"
  /\ \E o \in PushOutcomes : Deliver(c, o.n) /\ End(c, IF o.ok THEN "sent" ELSE "failed")
  /\ UNCHANGED <<target, identity, holders, receipt, reason, releases>>

-----------------------------------------------------------------------------
(* executeControlSocketSend *)

\* mutant: a timeout counts as a dead socket
RpcOutcomes_TimeoutIsDead ==
  CASE path = "live" -> {[says |-> "ack", n |-> 1], [says |-> "refused", n |-> 0],
                         [says |-> "dead", n |-> 0], [says |-> "dead", n |-> 1]}
    [] OTHER         -> {[says |-> "dead", n |-> 0]}

\* sendRpcCommand and classifyConnectError.  A refused or missing path proves
\* non-delivery; a timeout or an early close proves nothing.
RpcOutcomes ==
  CASE path = "live"              -> {[says |-> "ack", n |-> 1], [says |-> "refused", n |-> 0],
                                      [says |-> "stall", n |-> 0], [says |-> "stall", n |-> 1]}
    [] path = "stuck"             -> {[says |-> "stall", n |-> 0], [says |-> "stall", n |-> 1]}
    [] path \in {"absent", "dead"} -> {[says |-> "dead", n |-> 0]}
    [] OTHER                      -> {[says |-> "dead", n |-> 0], [says |-> "stall", n |-> 0]}

\* mutant: an in-band refusal looks for another route too
Send_RefusalFallsBack(c) ==
  /\ pc[c] = "send"
  /\ \E o \in RpcOutcomes :
       /\ Deliver(c, o.n)
       /\ Goto(c, CASE o.says = "ack"   -> "finalSent"
                    [] o.says = "stall" -> "finalFailed"
                    [] OTHER            -> "reresolve")
  /\ UNCHANGED <<target, identity, holders, receipt, reason, releases, result>>

\* driveSend: only a dead path re-resolves, under the same lock
Send(c) ==
  /\ pc[c] = "send"
  /\ \E o \in RpcOutcomes :
       /\ Deliver(c, o.n)
       /\ Goto(c, CASE o.says = "ack"     -> "finalSent"
                    [] o.says = "refused" -> "finalRefused"
                    [] o.says = "dead"    -> "reresolve"
                    [] OTHER              -> "finalFailed")
  /\ UNCHANGED <<target, identity, holders, receipt, reason, releases, result>>

\* The re-resolve ends in a reject that executes nothing more.
Refuse(c, why) ==
  /\ Goto(c, "finalRefused")
  /\ reason' = [reason EXCEPT ![c] = why]

\* resolveDeadControlSendFallback over the target as it is now
Reresolve(c) ==
  /\ pc[c] = "reresolve"
  /\ \/ /\ record = "none"
        /\ Refuse(c, IF RecordLessSocket THEN "record-less-socket" ELSE "bad-target")
     \/ record = "pi" /\ Goto(c, "reinspect") /\ UNCHANGED reason
     \/ /\ record \in {"selfFetch", "native"}
        /\ IF AddressConflict THEN Refuse(c, "target-address-conflict")
                              ELSE Goto(c, "redeliverable") /\ UNCHANGED reason
     \/ Goto(c, "finalFailed") /\ UNCHANGED reason
  /\ identity' = [identity EXCEPT ![c] = record]
  /\ UNCHANGED <<target, holders, receipt, copies, releases, result>>

\* The identity is the one the re-resolve found, whatever the record says by now.
\* A native-push citizen has no mailbox and is refused here like any citizen whose
\* mailbox nobody drains.
Redeliverable(c) ==
  LET r == ResolveDispatch("unsupported", identity[c] = "selfFetch" /\ receiver) IN
  /\ pc[c] = "redeliverable"
  /\ IF r.kind = "send" THEN Goto(c, "reenqueue") /\ UNCHANGED reason ELSE Refuse(c, r.by)
  /\ UNCHANGED <<target, identity, holders, receipt, copies, releases, result>>

Remapped(c, liveness) ==
  LET r == ResolveDispatch(liveness, FALSE) IN
  IF r.kind = "send" THEN Goto(c, "resend") /\ UNCHANGED reason ELSE Refuse(c, r.by)

Reinspect(c) ==
  /\ pc[c] = "reinspect"
  /\ \/ path = "absent" /\ Remapped(c, "dead")
     \/ path \in SocketFiles /\ Goto(c, "reprobeSocket") /\ UNCHANGED reason
     \/ path = "corrupt" /\ Refuse(c, "target-address-conflict")
     \/ Remapped(c, "indeterminate")
  /\ UNCHANGED <<target, identity, holders, receipt, copies, releases, result>>

ReprobeSocket(c) ==
  /\ pc[c] = "reprobeSocket"
  /\ \E liveness \in Probed : Remapped(c, liveness)
  /\ UNCHANGED <<target, identity, holders, receipt, copies, releases, result>>

\* mutant: a failed retry re-resolves again
Resend_Loops(c) ==
  /\ pc[c] = "resend"
  /\ \E o \in RpcOutcomes :
       /\ Deliver(c, o.n)
       /\ Goto(c, CASE o.says = "ack"     -> "finalFallback"
                    [] o.says = "refused" -> "finalRefused"
                    [] OTHER              -> "reresolve")
  /\ UNCHANGED <<target, identity, holders, receipt, reason, releases, result>>

\* The retry is one-shot: any connect failure now is final.
Resend(c) ==
  /\ pc[c] = "resend"
  /\ \E o \in RpcOutcomes :
       /\ Deliver(c, o.n)
       /\ Goto(c, CASE o.says = "ack"     -> "finalFallback"
                    [] o.says = "refused" -> "finalRefused"
                    [] OTHER              -> "finalFailed")
  /\ UNCHANGED <<target, identity, holders, receipt, reason, releases, result>>

Reenqueue(c) ==
  /\ pc[c] = "reenqueue"
  /\ \E o \in EnqueueOutcomes :
       Deliver(c, o.n) /\ Goto(c, IF o.ok THEN "finalFallback" ELSE "finalFailed")
  /\ UNCHANGED <<target, identity, holders, receipt, reason, releases, result>>

\* finalizeRelease and the runner's mapping of its outcome
Outcome == [finalSent |-> "sent", finalFallback |-> "fallback-sent",
            finalRefused |-> "refused", finalFailed |-> "failed"]
Dirty == [finalSent |-> "finalizedSent", finalFallback |-> "finalizedSent",
          finalRefused |-> "finalizedRefused", finalFailed |-> "failed"]

Finalize(c) ==
  /\ pc[c] \in DOMAIN Outcome
  /\ \/ Release(c, TRUE) /\ End(c, Outcome[pc[c]])
     \/ Release(c, FALSE) /\ End(c, Dirty[pc[c]])
  /\ UNCHANGED <<target, identity, receipt, reason, copies>>

-----------------------------------------------------------------------------
(* The caller's process may die, and the target lives its own life. *)

\* With its process a call's lock becomes reclaimable, a dirty one too.
Die(c) ==
  /\ pc[c] \notin {"idle", "crashed"}
  /\ pc[c] # "ended" \/ c \in holders
  /\ Goto(c, IF pc[c] = "ended" THEN "ended" ELSE "crashed")
  /\ holders' = holders \ {c}
  /\ UNCHANGED <<target, identity, receipt, reason, copies, releases, result>>

\* The target's session starts, hangs, stops or dies; its record appears,
\* vanishes or is rewritten; its receiver arms or retires; the conversation moves.
TargetMoves ==
  /\ \/ path' \in Paths /\ UNCHANGED <<record, receiver, conv>>
     \/ record' \in Records /\ UNCHANGED <<path, receiver, conv>>
     \/ receiver' \in BOOLEAN /\ UNCHANGED <<record, path, conv>>
     \/ conv' \in SocketLiveness /\ UNCHANGED <<record, path, receiver>>
  /\ UNCHANGED <<holders, pc, identity, receipt, reason, copies, releases, result>>

CallStep(c) ==
  \/ CheckDeliverable(c) \/ ProbeConversation(c) \/ AcquireLock(c) \/ Inspect(c) \/ Probe(c)
  \/ RejectAfterRelease(c) \/ CatchRelease(c)
  \/ SendMailbox(c) \/ Push(c) \/ Reprobe(c) \/ Repush(c)
  \/ Send(c) \/ Reresolve(c) \/ Redeliverable(c) \/ Reinspect(c) \/ ReprobeSocket(c)
  \/ Resend(c) \/ Reenqueue(c) \/ Finalize(c)

Next ==
  \/ \E c \in Calls : Resolve(c) \/ CallStep(c) \/ Die(c)
  \/ TargetMoves

Spec == Init /\ [][Next]_vars

-----------------------------------------------------------------------------
(* Properties *)

Over(c, transport) == receipt[c].kind = "send" /\ receipt[c].by = transport

\* A message sent over the control socket or the mailbox reaches a receiver at
\* most once, with every retry, re-resolve and fallback: a stalled send, which may
\* have arrived, is never followed by another attempt.
AtMostOnce == \A c \in Calls : Over(c, "native-push") \/ copies[c] <= 1

\* What the caller is told is true: "sent" means one copy arrived (at least one
\* over native push), a reject, refusal or exception before the decision means
\* none did, and a finalized outcome is as reliable as the outcome itself.
HonestResult ==
  \A c \in Calls :
    /\ result[c] \in {"sent", "fallback-sent", "finalizedSent"} => copies[c] >= 1
    /\ result[c] \in {"rejected", "threw", "refused", "finalizedRefused"} => copies[c] = 0

\* No call returns with the lock still in hand, unless a releaseLock of its own
\* threw; and the execute path calls releaseLock exactly once.
NoLockLeak ==
  \A c \in Calls : pc[c] = "ended" =>
    /\ c \in holders => releases[c] >= 1 /\ result[c] \in {"threw", "failed", "finalizedSent", "finalizedRefused"}
    /\ Over(c, "control-socket") => releases[c] = 1
    /\ result[c] # "threw" => releases[c] <= 1

\* A well-formed receipt, whose observation is the one its transport depends on.
Honest(r) ==
  /\ r.kind # "throw"
  /\ r.kind = "reject" => WellFormedReject(r.by, r.observed)
  /\ r.kind = "send" => r.observed = IF r.by = "meta-mailbox" THEN "unsupported" ELSE "alive"

\* Every receipt the decider returns is well formed, and what it says was observed
\* is what the hand that ran depends on.
HonestReceipt == \A c \in Calls : Honest(receipt[c])

\* From its lstat to its final outcome a call is alone with the target: no other
\* dispatch probes or sends in between.
AloneWithTarget ==
  \A c, d \in Calls : pc[c] \in Locked /\ pc[d] \in Locked => c = d

\* Only a proven non-delivery starts a fallback, and only a look of its own, taken
\* after it, moves the message to the other rail: the second resolve found a citizen
\* outside the control-socket domain with nothing at its socket path, and it is a
\* self-fetch one.  A record that turns back into a pi citizen's after that look is
\* still sent to by mailbox; nothing is re-read after it.
FallbackIsHonest ==
  [][\A c \in Calls :
       /\ pc[c] = "send" /\ pc'[c] = "reresolve" => copies'[c] = 0 /\ path # "live" /\ path # "stuck"
       /\ pc[c] # "redeliverable" /\ pc'[c] = "redeliverable"
            => record # "pi" /\ path = "absent" /\ identity'[c] = record
       /\ pc[c] # "reenqueue" /\ pc'[c] = "reenqueue"
            => pc[c] = "redeliverable" /\ identity[c] = "selfFetch" /\ copies[c] = 0]_vars

\* How far a call has come, along the longest way through its rail.
Stage == [label \in PCs |->
  CASE label = "idle"                                   -> 0
    [] label \in {"lock", "deliverable", "convProbe"}   -> 1
    [] label \in {"inspect", "enqueue", "push"}         -> 2
    [] label \in {"probe", "reprobe"}                   -> 3
    [] label \in {"send", "repush"}                     -> 4
    [] label \in {"rejecting", "reresolve"}             -> 5
    [] label \in {"reinspect", "redeliverable"}         -> 6
    [] label = "reprobeSocket"                          -> 7
    [] label \in {"resend", "reenqueue"}                -> 8
    [] label = "catch"                                  -> 9
    [] label \in DOMAIN Outcome                         -> 9
    [] OTHER                                            -> 10]

\* A call only moves forward, so it is answered after ten awaits at the most, however
\* often the target changes under it: a second look never leads back to a first one,
\* and a target that flaps between socket and mailbox is not chased.
OnlyForward ==
  [][\A c \in Calls : pc'[c] # pc[c] => Stage[pc[c]] < Stage[pc'[c]]]_vars

-----------------------------------------------------------------------------
(* Why they hold: an inductive invariant, by where a call is. *)

Finals == {"finalSent", "finalFallback", "finalRefused", "finalFailed"}

\* before a decision; while the hand under the lock works, before and after its
\* last send; the hands without a lock
Undecided == {"idle", "lock", "deliverable", "convProbe", "inspect", "probe", "rejecting", "catch"}
Executing == Locked \ {"inspect", "probe", "rejecting"}
Pushing == {"push", "reprobe", "repush"}

\* A call under the lock has it, alone, and has not tried to release it.
HoldersInv ==
  /\ \A c, d \in holders : c = d
  /\ \A c \in Calls :
       /\ pc[c] \in Locked \cup {"catch"} => c \in holders
       /\ pc[c] \in Unlocked \cup {"crashed"} => c \notin holders
       /\ pc[c] \in Unlocked \cup Locked => releases[c] = 0
       /\ pc[c] = "catch" => releases[c] <= 1

\* The send receipt is minted on the way to the hand of its transport.
ReceiptInv ==
  \A c \in Calls :
    /\ pc[c] \in Undecided => receipt[c].kind # "send"
    /\ pc[c] \in Executing => Over(c, "control-socket")
    /\ pc[c] = "enqueue" => Over(c, "meta-mailbox")
    /\ pc[c] \in Pushing => Over(c, "native-push")

\* Outside native push nothing was sent before the one send that may succeed.
CopiesInv ==
  \A c \in Calls :
    /\ pc[c] \in Undecided \cup (Executing \ Finals) \cup {"enqueue", "push"} => copies[c] = 0
    /\ pc[c] \in {"finalSent", "finalFallback"} => copies[c] >= 1
    /\ pc[c] = "finalRefused" => copies[c] = 0
    /\ pc[c] # "ended" => result[c] = "none"

\* The parts together, with the properties they are there for.
DispatchInv ==
  /\ TypeOK
  /\ HoldersInv
  /\ ReceiptInv
  /\ CopiesInv
  /\ AtMostOnce
  /\ HonestResult
  /\ NoLockLeak
=============================================================================
