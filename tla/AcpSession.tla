----------------------------- MODULE AcpSession -----------------------------
(***************************************************************************)
(* The ACP provider's conversations with one backend child                 *)
(* (lib/acp/backend.ts): every pi turn of a session key either opens a     *)
(* child and sends it the whole transcript, or reuses the retained child   *)
(* and sends it only the new message.                                      *)
(*                                                                         *)
(* pi is one JavaScript thread: what runs between two awaits is one        *)
(* action.  The child is a process of its own: it dies when it likes, and  *)
(* the end of its stdout and its exit event arrive in either order.  A new *)
(* turn opens at most one child, which has the turn's number.              *)
(***************************************************************************)
EXTENDS Naturals, Sequences, SequencesExt

CONSTANTS
  MaxTurns,   \* bound on the turns pi asks for
  Models, Configs,  \* what a turn may ask for: the model, and the bridge config signature
  Summaries,  \* messages that compaction may put in place of a history
  Policies,   \* lifecycle policies the process may run under
  None

Turns == 1..MaxTurns

ASSUME AcpConstants ==
  /\ MaxTurns \in Nat
  /\ Policies \subseteq {"turn-scoped", "process-scoped"}
  /\ None \notin Turns /\ Summaries \cap Turns = {}

VARIABLES
  policy,      \* deps.lifecyclePolicy()
  history,     \* pi's context: the user's messages, each named after its turn
  turns,       \* the turns
  children,    \* the children with their BridgeSession
  current,     \* bridgeSessions.get(key)
  retained,    \* retainedChildren
  inFlight,    \* inFlightKeys holds the key
  unreported,  \* unreportedChildEnds.get(key)
  told,        \* how often the end of each child was told to the operator
  early        \* the children whose exit came before their turn's prompt was out

vars == <<policy, history, turns, children, current, retained, inFlight, unreported, told, early>>

Messages == Turns \cup Summaries

\* A turn: where it is (refused: over before a child was touched), its context, the
\* child it talks to, and whether pi aborted it.
Turn == [pc : {"idle", "boot", "hook", "prompt", "settling", "refused", "over"},
         ctx : Seq(Messages), child : Turns \cup {None}, aborted : BOOLEAN]

Child == [proc : {"none", "live", "dead"},
          closed : BOOLEAN,     \* the connection is closed
          seen : BOOLEAN,       \* onChildGone has run
          retiring : BOOLEAN, reporting : BOOLEAN,
          model : Models \cup {None}, config : Configs \cup {None},
          sigs : Seq(Messages),       \* contextMessageSignatures
          mem : SUBSET Messages]      \* the messages the child has been sent

\* a turn that has not begun, or whose stream has ended
Rest(pc) == [pc |-> pc, ctx |-> <<>>, child |-> None, aborted |-> FALSE]

Init ==
  /\ policy \in Policies
  /\ history = <<>>
  /\ turns = [t \in Turns |-> Rest("idle")]
  /\ children = [c \in Turns |-> [proc |-> "none", closed |-> FALSE, seen |-> FALSE,
                                  retiring |-> FALSE, reporting |-> FALSE,
                                  model |-> None, config |-> None, sigs |-> <<>>, mem |-> {}]]
  /\ current = None /\ retained = {} /\ inFlight = FALSE /\ unreported = None
  /\ told = [c \in Turns |-> 0] /\ early = {}

TypeOK ==
  /\ policy \in Policies
  /\ history \in Seq(Messages)
  /\ turns \in [Turns -> Turn]
  /\ children \in [Turns -> Child]
  /\ current \in Turns \cup {None}
  /\ retained \subseteq Turns
  /\ inFlight \in BOOLEAN
  /\ unreported \in Turns \cup {None}
  /\ told \in [Turns -> 0..2]
  /\ early \subseteq Turns

-----------------------------------------------------------------------------
(* pi's side: the context, and the operator's abort *)

\* What the history may have become since: compacted, or taken back in the tree.
Edited == {history} \cup {SubSeq(history, 1, k) : k \in 0..Len(history)}
                    \cup {<<m>> : m \in Summaries}

\* Before the prompt is out, SIGTERM is all that an abort does; with the prompt out,
\* session/cancel, which the child may ignore.
Abort(t) ==
  /\ turns[t].pc \in {"boot", "hook", "prompt"} /\ ~turns[t].aborted
  /\ turns' = [turns EXCEPT ![t].aborted = TRUE]
  /\ UNCHANGED <<policy, history, children, current, retained, inFlight, unreported, told, early>>

-----------------------------------------------------------------------------
(* Pieces of a turn *)

Working == {"boot", "hook", "prompt"}

\* session.busy
Busy(c) == \E t \in Turns : turns[t].child = c /\ turns[t].pc \in Working

\* teardown on purpose: retiring, the connection closed, SIGTERM to the group; what
\* the session held goes with it
Retired(kids, c) ==
  [kids EXCEPT ![c] = [@ EXCEPT !.retiring = TRUE, !.closed = TRUE, !.sigs = <<>>, !.mem = {},
                                !.model = None, !.config = None]]

\* mutant: reuse whatever became of the history
Compatible_AnyHistory(c, ctx, m, g) == children[c].model = m /\ children[c].config = g

\* isCompatible and hasPrefix
Compatible(c, ctx, m, g) ==
  children[c].model = m /\ children[c].config = g /\ IsPrefix(children[c].sigs, ctx)

\* mutant: the in-flight first turn is not looked at
Occupied_SessionsOnly == current # None /\ Busy(current)

\* existing?.busy || inFlightKeys.has(sessionKey)
Occupied == (current # None /\ Busy(current)) \/ inFlight

\* decideBootstrap: the model lock of a live session
Locked(m) == current # None /\ ~children[current].seen /\ children[current].model # m

Reusable(ctx, m, g) ==
  /\ policy = "process-scoped"
  /\ current # None /\ ~children[current].seen /\ Compatible(current, ctx, m, g)

-----------------------------------------------------------------------------
(* A turn begins *)

\* The turns come in order; each has the history and its own message.
Asks(t, ctx) ==
  /\ turns[t].pc = "idle"
  /\ \A u \in Turns : u < t => turns[u].pc # "idle"
  /\ \E h \in Edited : ctx = Append(h, t)
  /\ history' = ctx

\* The adapter, the configuration, the tool surface or the carrier is bad, the key is
\* occupied, or the live child answers with another model: nothing is touched.
Refuse(t, ctx, m) ==
  /\ Asks(t, ctx)
  /\ \/ TRUE  \* what loadConfig, assertExcludeToolsHonored and loadCarrier throw
     \/ Occupied
     \/ Locked(m)
  /\ turns' = [turns EXCEPT ![t] = Rest("refused")]
  /\ UNCHANGED <<policy, children, current, retained, inFlight, unreported, told, early>>

\* a "new" decision abandons the session that is there
Abandoned == IF current = None THEN children ELSE Retired(children, current)

\* mutant: the end nobody saw is not asked for
Announced_Never == UNCHANGED <<told, unreported>>

\* takeUnreportedChildEnd: read and clear
Announced ==
  /\ unreported' = None
  /\ told' = IF unreported = None THEN told ELSE [told EXCEPT ![unreported] = @ + 1]

\* runNewTurn up to its first await, with a signal that may be aborted already.
\* The child is not in the map while its first turn runs.
Launch(t, ctx, m, g) ==
  /\ Asks(t, ctx)
  /\ ~Occupied /\ ~Locked(m) /\ ~Reusable(ctx, m, g)
  /\ current' = None
  /\ retained' = retained \ {current}
  /\ \/ /\ turns' = [turns EXCEPT ![t] = Rest("over")]
        /\ children' = Abandoned
        /\ UNCHANGED <<inFlight, unreported, told>>
     \/ /\ Announced
        /\ \/ \* the overlay or the spawn throws
              /\ turns' = [turns EXCEPT ![t] = Rest("over")]
              /\ children' = Abandoned
              /\ UNCHANGED inFlight
           \/ /\ turns' = [turns EXCEPT ![t] = [@ EXCEPT !.pc = "boot", !.ctx = ctx, !.child = t]]
              /\ children' = [Abandoned EXCEPT ![t] = [@ EXCEPT !.proc = "live", !.model = m,
                                                                !.config = g, !.sigs = ctx]]
              /\ inFlight' = TRUE
  /\ UNCHANGED <<policy, early>>

\* runReuseTurn up to its first await; an abort before the prompt costs the child.
Reuse(t, ctx, m, g) ==
  /\ Asks(t, ctx)
  /\ ~Occupied /\ ~Locked(m) /\ Reusable(ctx, m, g)
  /\ \/ /\ turns' = [turns EXCEPT ![t] = Rest("over")]
        /\ children' = Retired(children, current)
        /\ current' = None
        /\ retained' = retained \ {current}
        /\ UNCHANGED inFlight
     \/ /\ turns' = [turns EXCEPT ![t] = [@ EXCEPT !.pc = "hook", !.ctx = ctx, !.child = current]]
        /\ inFlight' = TRUE
        /\ UNCHANGED <<children, current, retained>>
  /\ UNCHANGED <<policy, unreported, told, early>>

-----------------------------------------------------------------------------
(* How a turn fails: the catch of both kinds of turn *)

\* settle, then seal, then tear down: only a closed connection is looked into
Settling(t, kids) ==
  /\ turns' = [turns EXCEPT ![t].pc = "settling"]
  /\ children' = [kids EXCEPT ![turns[t].child].reporting = TRUE]
  /\ UNCHANGED <<retained, inFlight>>

\* finishError and the teardown
Sealed(t, kids) ==
  LET c == turns[t].child IN
  /\ turns' = [turns EXCEPT ![t] = Rest("over")]
  /\ children' = Retired(kids, c)
  /\ retained' = retained \ {c}
  /\ inFlight' = FALSE

Dropped(c) == current' = IF current = c THEN None ELSE current

Fail(t, kids, closure) ==
  /\ IF closure /\ ~turns[t].aborted THEN Settling(t, kids) ELSE Sealed(t, kids)
  /\ Dropped(turns[t].child)

\* The bounded wait is over: the exit was seen, or CHILD_END_SETTLE_MS have passed.
SettleEnds(t) ==
  /\ turns[t].pc = "settling"
  /\ turns' = [turns EXCEPT ![t] = Rest("over")]
  /\ children' = Retired(children, turns[t].child)
  /\ retained' = retained \ {turns[t].child}
  /\ inFlight' = FALSE
  /\ told' = [told EXCEPT ![turns[t].child] = @ + 1]
  /\ UNCHANGED <<policy, history, current, unreported, early>>

-----------------------------------------------------------------------------
(* The awaits of a turn *)

\* initialize, newSession and enforceModel have answered
BootDone(t) ==
  /\ turns[t].pc = "boot" /\ ~children[turns[t].child].closed
  /\ turns' = [turns EXCEPT ![t].pc = "hook"]
  /\ UNCHANGED <<policy, history, children, current, retained, inFlight, unreported, told, early>>

\* one of them refused, or took longer than its timeout
BootFails(t) ==
  /\ turns[t].pc = "boot"
  /\ Fail(t, children, FALSE)
  /\ UNCHANGED <<policy, history, unreported, told, early>>

\* The payload hook returns: it may throw, the turn may be aborted meanwhile, and the
\* connection may be closed.  A new turn sends its context, a reuse its own message.
HookEnds(t) ==
  LET c == turns[t].child
      carried == IF c = t THEN Range(turns[t].ctx) ELSE {t}
  IN
  /\ turns[t].pc = "hook"
  /\ \/ Fail(t, children, FALSE)  \* it throws, or "aborted during payload hook"
     \/ ~turns[t].aborted /\ children[c].closed /\ Fail(t, children, TRUE)
     \/ /\ ~turns[t].aborted /\ ~children[c].closed
        /\ turns' = [turns EXCEPT ![t].pc = "prompt"]
        /\ children' = [children EXCEPT ![c].mem = @ \cup carried]
        /\ UNCHANGED <<current, retained, inFlight>>
  /\ UNCHANGED <<policy, history, unreported, told, early>>

\* The child answers.  A reuse keeps its child; a new turn keeps it if the process is
\* long-lived, the turn was not aborted and the child is alive: it is in the map
\* before the stream ends.
Answer(t) ==
  LET c == turns[t].child
      retain == policy = "process-scoped" /\ ~turns[t].aborted /\ ~children[c].seen
  IN
  /\ turns[t].pc = "prompt" /\ children[c].proc = "live" /\ ~children[c].closed
  /\ turns' = [turns EXCEPT ![t] = Rest("over")]
  /\ inFlight' = FALSE
  /\ IF c # t
     THEN /\ children' = [children EXCEPT ![c].sigs = turns[t].ctx]
          /\ UNCHANGED <<current, retained>>
     ELSE IF retain
     THEN current' = c /\ retained' = retained \cup {c} /\ UNCHANGED children
     ELSE children' = Retired(children, c) /\ UNCHANGED <<current, retained>>
  /\ UNCHANGED <<policy, history, unreported, told, early>>

\* mutant: the grace signals the child and leaves the turn to it
Grace_SignalOnly(t) ==
  /\ turns[t].pc = "prompt" /\ turns[t].aborted
  /\ UNCHANGED vars

\* escalateAbort: the grace after the cancel is over
Grace(t) ==
  /\ turns[t].pc = "prompt" /\ turns[t].aborted
  /\ Fail(t, children, FALSE)
  /\ UNCHANGED <<policy, history, unreported, told, early>>

-----------------------------------------------------------------------------
(* The child's end *)

Dies(c) ==
  /\ children[c].proc = "live"
  /\ children' = [children EXCEPT ![c].proc = "dead"]
  /\ UNCHANGED <<policy, history, turns, current, retained, inFlight, unreported, told, early>>

\* Its stdout ends, which may be all that happens: pending requests are rejected with
\* "ACP connection closed".
StdoutEnds(c) ==
  LET kids == [children EXCEPT ![c].closed = TRUE]
      waiting == {t \in Turns : turns[t].child = c /\ turns[t].pc \in {"boot", "prompt"}}
  IN
  /\ children[c].proc # "none" /\ ~children[c].closed
  /\ IF waiting = {}
     THEN children' = kids /\ UNCHANGED <<turns, current, retained, inFlight>>
     ELSE \E t \in waiting : Fail(t, kids, TRUE)
  /\ UNCHANGED <<policy, history, unreported, told, early>>

\* mutant: a teardown on purpose is news as well
News_Always(c) == TRUE

\* nobody tears the child down, and no turn is reporting its end
News(c) == ~children[c].retiring /\ ~children[c].reporting

\* onChildGone: a turn that waits for its answer fails with the exit status;
\* otherwise the end waits for the next turn, unless it is no news.
Exit(c) ==
  LET kids == [children EXCEPT ![c].seen = TRUE]
      waiting == {t \in Turns : turns[t].child = c /\ turns[t].pc = "prompt"}
      before == {t \in Turns : turns[t].child = c /\ turns[t].pc \in {"boot", "hook"}}
  IN
  /\ children[c].proc = "dead" /\ ~children[c].seen
  /\ early' = IF before = {} THEN early ELSE early \cup {c}
  /\ IF waiting # {}
     THEN /\ \E t \in waiting : Fail(t, kids, FALSE)
          /\ told' = [told EXCEPT ![c] = @ + 1]
          /\ UNCHANGED unreported
     ELSE /\ children' = kids
          /\ Dropped(c)
          /\ retained' = retained \ {c}
          /\ unreported' = IF News(c) THEN c ELSE unreported
          /\ UNCHANGED <<turns, inFlight, told>>
  /\ UNCHANGED <<policy, history>>

-----------------------------------------------------------------------------

Next ==
  \/ \E t \in Turns, h \in Edited, m \in Models :
       \/ Refuse(t, Append(h, t), m)
       \/ \E g \in Configs : Launch(t, Append(h, t), m, g) \/ Reuse(t, Append(h, t), m, g)
  \/ \E t \in Turns :
       \/ Abort(t) \/ BootDone(t) \/ BootFails(t) \/ HookEnds(t) \/ Answer(t) \/ Grace(t)
       \/ SettleEnds(t)
       \/ Dies(t) \/ StdoutEnds(t) \/ Exit(t)

Spec == Init /\ [][Next]_vars

\* The timers fire (each request of the bootstrap has its timeout), the hook returns,
\* and node delivers the exit of a dead child.  Not the end of its stdout, which a
\* grandchild may hold open; and no fairness for a child that lives: a silent turn is
\* not a failed one.
FairSpec ==
  /\ Spec
  /\ \A t \in Turns :
       /\ WF_vars(BootDone(t) \/ BootFails(t) \/ HookEnds(t) \/ Grace(t) \/ SettleEnds(t))
       /\ WF_vars(Exit(t))

-----------------------------------------------------------------------------
(* Properties *)

\* One conversation: at most one child of the key lives that nobody has torn down,
\* and it is in hand: retained and in the map, or its own turn is at work on it.
OneConversation ==
  LET loose == {c \in Turns : children[c].proc = "live" /\ ~children[c].retiring}
      held(c) == \/ c = current /\ c \in retained
                 \/ \E t \in Turns : turns[t].child = c /\ turns[t].pc \in Working \cup {"settling"}
  IN \A c \in loose : held(c) /\ \A d \in loose : d = c

\* A prompt is answered by a child that holds the turn's whole context: every message
\* was sent to it, in this turn or before.  Not so the messages of refused turns, which
\* no child was given: a reuse does not send them.
HeardInFull ==
  LET unsent == {t \in Turns : turns[t].pc = "refused"}
  IN \A t \in Turns : turns[t].pc = "prompt" =>
       Range(turns[t].ctx) \subseteq children[turns[t].child].mem \cup unsent

\* A child's end is told once: what waits to be announced ended on its own, and no
\* turn failed on it.  Not so for an exit that came before the turn's prompt was out:
\* that turn fails on it and the next announces it.
ToldOnce ==
  /\ \A c \in Turns \ early : told[c] <= 1
  /\ unreported \notin early \cup {None} =>
       told[unreported] = 0 /\ ~children[unreported].retiring

\* The end of a conversation is not hidden by the next one: once a child is in the
\* map, no earlier end waits to be told.
NoHiddenEnd == current # None => unreported = None

\* The exit of the turn's child came before its prompt was out, so nobody told the
\* turn; as long as a grandchild holds the stdout open, only an abort ends it.
Stranded(t) ==
  turns[t].pc = "prompt" /\ ~turns[t].aborted /\ turns[t].child \in early

\* An aborted turn ends, and so does one whose child is dead, unless it is stranded.
TurnsEnd ==
  \A t \in Turns :
    (/\ turns[t].pc \in Working \cup {"settling"}
     /\ turns[t].aborted \/ children[turns[t].child].proc = "dead")
      ~> turns[t].pc = "over" \/ Stranded(t)

-----------------------------------------------------------------------------
(* Why the safety properties hold: an inductive invariant. *)

Active(t) == turns[t].pc \in Working \cup {"settling"}

\* The messages no child was given.
Unsent == {t \in Turns : turns[t].pc = "refused"}

\* One turn at a time is under way.  Its child is not torn down and its end not told;
\* it is the child in the map, or none is: a first turn is at work, or the child was dropped.
FlightInv ==
  /\ \A t \in Turns : Active(t) =>
       /\ inFlight
       /\ \A u \in Turns : Active(u) => u = t
       /\ LET c == turns[t].child IN
            /\ c \in Turns
            /\ children[c].proc # "none" /\ ~children[c].retiring /\ told[c] = 0
            /\ current \in {c, None}
            /\ c = t => current = None /\ unreported \in {t, None}
            /\ c # t /\ turns[t].pc \in Working => current = c \/ children[c].seen
            /\ turns[t].pc = "settling" => current = None /\ children[c].reporting
  /\ inFlight => \E t \in Turns : Active(t)

\* The child in the map is up and retained, and no end waits to be told.  Every child
\* that is up is in hand.
HandInv ==
  /\ current # None =>
       /\ current \in retained
       /\ children[current].proc # "none" /\ ~children[current].seen
       /\ ~children[current].retiring /\ told[current] = 0
       /\ unreported = None
  /\ \A c \in Turns :
       children[c].proc # "none" /\ ~children[c].retiring /\ ~children[c].seen =>
         c = current \/ \E t \in Turns : Active(t) /\ turns[t].child = c

\* What waits to be announced was seen to end and is told once at most; if its exit
\* did not come early, it was not told, nobody tore it down and no turn reports it.
EndInv ==
  /\ \A c \in Turns :
       /\ children[c].proc = "none" => told[c] = 0 /\ ~children[c].retiring
       /\ children[c].seen => children[c].proc = "dead"
       /\ c \in early => children[c].seen
       /\ turns[c].pc = "idle" => children[c].proc = "none"
       /\ c \notin early => told[c] <= 1
  /\ unreported # None =>
       /\ children[unreported].seen /\ told[unreported] <= 1
       /\ unreported \notin early =>
            /\ told[unreported] = 0 /\ ~children[unreported].retiring
            /\ \A t \in Turns : Active(t) => turns[t].child # unreported

\* A summary can only open a history.
OneSummary(h) == \A i \in DOMAIN h : i > 1 => h[i] \in Turns

\* What pi's history holds went to the child in hand, this turn sends it, or a refused
\* turn lost it.
MemoryInv ==
  /\ OneSummary(history)
  /\ \A t \in Turns : turns[t].pc \in Working =>
       LET c == turns[t].child
           ctx == turns[t].ctx
       IN
       /\ ctx # <<>>
       /\ Range(history) \subseteq Range(ctx) \cup Unsent \cup Summaries
       /\ c = t => children[c].sigs = ctx
       /\ c # t => Range(ctx) \subseteq children[c].mem \cup {t} \cup Unsent
  /\ current # None /\ ~Busy(current) =>
       LET sigs == children[current].sigs IN
       /\ sigs # <<>>
       /\ Range(history) \subseteq Range(sigs) \cup Unsent \cup Summaries
       /\ Range(sigs) \subseteq children[current].mem \cup Unsent

AcpInv ==
  /\ TypeOK
  /\ FlightInv
  /\ HandInv
  /\ EndInv
  /\ MemoryInv
  /\ HeardInFull

\* The safety half of TurnsEnd: nobody waits for an answer on a closed connection, which
\* would never end.  A stranded turn at least has the end of the stdout still to come.
PromptIsHeard == \A t \in Turns : turns[t].pc = "prompt" => ~children[turns[t].child].closed
=============================================================================
