-------------------------- MODULE DispatchContract --------------------------
(***************************************************************************)
(* The frozen verdict tables of entwurf_v2 and the receipts they mint      *)
(* (pi-extensions/lib/entwurf-v2-contract.ts).  The one intent left is     *)
(* fire-and-forget, so the tables are functions of liveness alone.         *)
(***************************************************************************)

SocketLiveness == {"alive", "dead", "indeterminate"}

\* what a receipt may say was observed; "null" before any probe ran
FactLiveness == SocketLiveness \cup {"unsupported"}

DispatchLiveness == {"live", "dormant", "indeterminate"}

Transports == {"control-socket", "meta-mailbox", "native-push"}

PreProbeRejects ==
  {"bad-target", "target-locked", "target-address-conflict", "record-less-socket"}

ResolverRejects ==
  {"indeterminate-no-spawn", "dormant-fire-forget-unsupported", "mailbox-undeliverable"}

NativePushRejects == {"native-push-target-dead", "native-push-probe-indeterminate"}

RejectReasons == PreProbeRejects \cup ResolverRejects \cup NativePushRejects

DispatchLivenessOf(socket) ==
  CASE socket = "alive" -> "live"
    [] socket = "dead"  -> "dormant"
    [] OTHER            -> "indeterminate"

\* rejectObservedLivenessWellFormed: a reject decided before any probe carries
\* no liveness, every other reject carries one.
WellFormedReject(reason, observed) ==
  IF reason \in PreProbeRejects THEN observed = "null" ELSE observed \in FactLiveness

\* A receipt: a send over a transport, a reject with its reason, or the
\* exception that makeRejectReceipt throws for an ill-formed reject.
Receipts ==
  [kind : {"send"}, by : Transports, observed : FactLiveness]
    \cup [kind : {"reject"}, by : RejectReasons, observed : FactLiveness \cup {"null"}]
    \cup [kind : {"throw"}, by : RejectReasons, observed : FactLiveness \cup {"null"}]

SendReceipt(transport, observed) == [kind |-> "send", by |-> transport, observed |-> observed]

RejectReceipt(reason, observed) ==
  [kind |-> IF WellFormedReject(reason, observed) THEN "reject" ELSE "throw",
   by |-> reason, observed |-> observed]

\* the in-domain table: the one allowing cell is a live target
DispatchTable ==
  [live          |-> "control-socket",
   dormant       |-> "dormant-fire-forget-unsupported",
   indeterminate |-> "indeterminate-no-spawn"]

\* A cell is a transport or a reject reason.
Verdict(cell, observed) ==
  IF cell \in Transports THEN SendReceipt(cell, observed) ELSE RejectReceipt(cell, observed)

\* resolveDispatch: an unsupported backend goes to its mailbox if somebody
\* drains it; for an in-domain backend deliverability is not consulted.
ResolveDispatch(liveness, deliverable) ==
  IF liveness = "unsupported"
  THEN IF deliverable THEN SendReceipt("meta-mailbox", liveness)
                      ELSE RejectReceipt("mailbox-undeliverable", liveness)
  ELSE Verdict(DispatchTable[DispatchLivenessOf(liveness)], liveness)

NativePushTable ==
  [alive         |-> "native-push",
   dead          |-> "native-push-target-dead",
   indeterminate |-> "native-push-probe-indeterminate"]

ResolveNativePush(liveness) == Verdict(NativePushTable[liveness], liveness)
=============================================================================
