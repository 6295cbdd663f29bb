---------------------------- MODULE OmpBootstrap ----------------------------
(***************************************************************************)
(* The first task of an omp session that entwurf_fresh_call opened         *)
(* (meta-bridge-omp.ts): the launch flag carries a nonce and a task.  The  *)
(* birth unit waits until the bridge's callback tool is there, prompts for *)
(* the callback, and sends the task only at a turn end after the callback  *)
(* succeeded.                                                              *)
(*                                                                         *)
(* One module state serves every session and subagent of the process, and  *)
(* the flag stays readable after /new, fork and resume.  A birth edge      *)
(* starts an epoch, whatever id it carries.  The host is one JavaScript    *)
(* thread, so a handler is one action; the vendor emits the edge with the  *)
(* switch itself.                                                          *)
(***************************************************************************)
EXTENDS Naturals, OmpHost

CONSTANTS
  CallIds,   \* tool call ids
  MaxEdges,  \* bound on birth edges
  MaxPolls   \* polls within OMP_BOOTSTRAP_READY_TIMEOUT_MS

ASSUME BootstrapConstants ==
  /\ MaxEdges \in Nat \ {0} /\ MaxPolls \in Nat
  /\ None \notin Sessions \cup CallIds

VARIABLES
  epoch,    \* how many birth edges there were
  bailed,   \* the edges that failed before the launch's flag was read
  unit,     \* the module's state: bootstrapConsumed, activeBootstrap and its handle
  calls,    \* the tool calls of this process
  proved,   \* the epochs in which the host's own callback succeeded
  prompts,  \* callback prompts that reached the conversation of each epoch
  tasks     \* tasks that reached it

bootstrapVars == <<session, epoch, bailed, unit, calls, proved, prompts, tasks>>

Epochs == 1..MaxEdges
Phases == {"none", "waiting", "callback-sent", "released", "task-sent", "failed"}
Modes == {"tui", "print"}

Unit == [consumed : BOOLEAN, bound : Sessions \cup {None}, phase : Phases,
         callId : CallIds \cup {None},
         held : BOOLEAN,      \* the handle of a scheduled poll is kept
         due : BOOLEAN,       \* a poll will fire
         polls : 0..MaxPolls]

\* A call: not made, running or over; in which mode and epoch, and whether it is the
\* callback with this launch's target and nonce.
Call == [at : {"fresh", "running", "over"}, mode : Modes, epoch : 0..MaxEdges, ours : BOOLEAN]

BootstrapTypeOK ==
  /\ session \in Sessions \cup {None}
  /\ epoch \in 0..MaxEdges
  /\ bailed \in SUBSET Epochs
  /\ unit \in Unit
  /\ calls \in [CallIds -> Call]
  /\ proved \in SUBSET Epochs
  /\ prompts \in [Epochs -> 0..2]
  /\ tasks \in [Epochs -> 0..2]

BootstrapInit ==
  /\ session = None /\ epoch = 0 /\ bailed = {} /\ proved = {}
  /\ unit = [consumed |-> FALSE, bound |-> None, phase |-> "none", callId |-> None,
             held |-> FALSE, due |-> FALSE, polls |-> 0]
  /\ calls = [i \in CallIds |-> [at |-> "fresh", mode |-> "tui", epoch |-> 0, ours |-> FALSE]]
  /\ prompts = [e \in Epochs |-> 0]
  /\ tasks = [e \in Epochs |-> 0]

-----------------------------------------------------------------------------
(* The handle's methods: the states each may leave of u *)

Final(u) == u.phase \in {"task-sent", "failed"}

\* a timer that cannot be cleared still fires once
StopTimer(u) ==
  IF u.held THEN {[u EXCEPT !.held = FALSE, !.due = d] : d \in BOOLEAN} ELSE {u}

\* fail and invalidate; what was sent stays sent
Failed(u) ==
  {[v EXCEPT !.phase = IF Final(u) THEN @ ELSE "failed"] : v \in StopTimer(u)}

\* schedule the next poll; a vendor that throws fails the bootstrap
Scheduled(u) ==
  {[u EXCEPT !.held = TRUE, !.due = TRUE, !.polls = @ + 1]} \cup Failed(u)

\* mutant: the deadline starts over at each poll round
NotReady_Forever(u) == Scheduled([u EXCEPT !.polls = IF @ = MaxPolls THEN 0 ELSE @])

\* the callback tool is not callable yet
NotReady(u) == IF u.polls < MaxPolls THEN Scheduled(u) ELSE Failed(u)

\* tick: the callback tool may be callable, and then the phase moves before the
\* send; the send may throw.
Tick(u, e) ==
  \/ u.phase # "waiting" /\ unit' = u /\ UNCHANGED prompts
  \/ /\ u.phase = "waiting"
     /\ \/ /\ unit' = [u EXCEPT !.phase = "callback-sent"]
           /\ prompts' = [prompts EXCEPT ![e] = @ + 1]
        \/ unit' \in NotReady(u) \cup Failed(u) /\ UNCHANGED prompts

-----------------------------------------------------------------------------
(* Birth edges: session_start and session_switch of the visible host.  A      *)
(* subagent's edge is turned away by its mode and changes nothing.            *)

\* mutant: a bootstrap ends only when the session id changes
Ended_OnIdChange(s) ==
  IF unit.consumed /\ unit.bound # None /\ unit.bound # s
  THEN {[u EXCEPT !.bound = None] : u \in Failed(unit)}
  ELSE {unit}

\* endBootstrapEpochOnLaterEdge: whatever the id, before anything that can bail
Ended(s) ==
  IF unit.consumed /\ unit.bound # None
  THEN {[u EXCEPT !.bound = None] : u \in Failed(unit)}
  ELSE {unit}

\* startOmpBootstrap for a launch with a usable flag.  Without a timer it may
\* cancel, the launch is spent and nothing is armed.
Started(u, s, e) ==
  IF u.consumed THEN unit' = u /\ UNCHANGED prompts
  ELSE LET spent == [u EXCEPT !.consumed = TRUE] IN
    \/ unit' = spent /\ UNCHANGED prompts
    \/ Tick([spent EXCEPT !.bound = s, !.phase = "waiting"], e)

\* onBirthEdge: the epoch ends first; then the envelope, the upsert or the flag may
\* fail, which leaves the launch unspent.
BirthEdge(s) ==
  /\ epoch < MaxEdges
  /\ epoch' = epoch + 1
  /\ session' = s
  /\ \E u \in Ended(s) :
       \/ unit' = u /\ bailed' = bailed \cup {epoch'} /\ UNCHANGED prompts
       \/ Started(u, s, epoch') /\ UNCHANGED bailed
  /\ UNCHANGED <<calls, proved, tasks>>

\* the vendor's timer fires
Poll ==
  /\ unit.due
  /\ Tick([unit EXCEPT !.held = FALSE, !.due = FALSE], epoch)
  /\ UNCHANGED <<session, epoch, bailed, calls, proved, tasks>>

-----------------------------------------------------------------------------
(* Tool and turn events, of the host, of a replaced session or of a subagent *)

\* mutant: the session id alone decides, a subagent's events pass
Accepts_AnyMode(mode, id) == id = unit.bound

\* ompBootstrapCtxAccepts and bootstrapFor
Accepts(mode, id) == mode = "tui" /\ id = unit.bound

ToolCall(i, mode, id, ours) ==
  /\ epoch > 0 /\ calls[i].at = "fresh"
  /\ calls' = [calls EXCEPT ![i] = [at |-> "running", mode |-> mode, epoch |-> epoch, ours |-> ours]]
  /\ unit' = IF Accepts(mode, id) /\ unit.phase = "callback-sent" /\ unit.callId = None /\ ours
             THEN [unit EXCEPT !.callId = i]
             ELSE unit
  /\ UNCHANGED <<session, epoch, bailed, proved, prompts, tasks>>

\* onToolResult: only the success of the very call it saw releases the task.
ToolResult(i, id, ok) ==
  LET c == calls[i] IN
  /\ c.at = "running"
  /\ calls' = [calls EXCEPT ![i].at = "over"]
  /\ IF /\ Accepts(c.mode, id) /\ unit.phase = "callback-sent" /\ unit.callId = i
        /\ c.ours /\ ok
     THEN unit' \in StopTimer([unit EXCEPT !.phase = "released"])
     ELSE UNCHANGED unit
  /\ proved' = IF c.mode = "tui" /\ c.epoch = epoch /\ id = session /\ c.ours /\ ok
               THEN proved \cup {epoch} ELSE proved
  /\ UNCHANGED <<session, epoch, bailed, prompts, tasks>>

\* onTurnEnd: the phase moves first; a send that throws is not made again.
TurnEnd(mode, id) ==
  /\ Accepts(mode, id) /\ unit.phase = "released"
  /\ unit' = [unit EXCEPT !.phase = "task-sent"]
  /\ \/ tasks' = [tasks EXCEPT ![epoch] = @ + 1]
     \/ UNCHANGED tasks
  /\ UNCHANGED <<session, epoch, bailed, calls, proved, prompts>>

-----------------------------------------------------------------------------

BootstrapNext ==
  \/ \E s \in Sessions : BirthEdge(s)
  \/ Poll
  \/ \E mode \in Modes, id \in Sessions :
       \/ \E i \in CallIds, ours \in BOOLEAN : ToolCall(i, mode, id, ours)
       \/ TurnEnd(mode, id)
  \/ \E i \in CallIds, id \in Sessions, ok \in BOOLEAN : ToolResult(i, id, ok)

BootstrapSpec == BootstrapInit /\ [][BootstrapNext]_bootstrapVars

\* The vendor's timer fires.
BootstrapFairSpec == BootstrapSpec /\ WF_bootstrapVars(Poll)

-----------------------------------------------------------------------------
(* Properties *)

\* The caller's task reaches one conversation, once: the one the launch opened.  An
\* edge of the same id is another conversation.  Only if every earlier edge failed
\* before it read the flag may a later one have it, a session nobody opened for it.
TaskStaysHome ==
  \A e \in Epochs : tasks[e] > 0 =>
    /\ tasks[e] = 1
    /\ \A d \in Epochs \ {e} : tasks[d] = 0
    /\ \A d \in Epochs : d < e => d \in bailed

\* No task without its proof: the conversation it reaches was prompted once, and the
\* visible host's own callback succeeded there, not a subagent's, not another
\* session's and not an earlier attempt's.
TaskNeedsProof ==
  \A e \in Epochs : tasks[e] > 0 => prompts[e] = 1 /\ e \in proved

\* The readiness poll ends: with the prompt, at its deadline, or with its epoch.
WaitingEnds == unit.phase = "waiting" ~> unit.phase # "waiting"

-----------------------------------------------------------------------------
(* Why the first two hold: an inductive invariant. *)

\* The launch is unspent only while every edge bailed.
LaunchInv ==
  ~unit.consumed =>
    unit.phase = "none" /\ unit.bound = None /\ \A d \in Epochs : d <= epoch => d \in bailed

\* A live bootstrap belongs to the epoch that runs, and no earlier edge read the flag.
EpochInv ==
  /\ session # None => epoch \in Epochs
  /\ unit.phase \in {"waiting", "callback-sent", "released"} => unit.bound # None
  /\ unit.phase = "none" => unit.bound = None
  /\ unit.bound # None =>
       /\ unit.bound = session /\ epoch \in Epochs
       /\ \A d \in Epochs : d < epoch => d \in bailed

\* The call it waits for is the host's own callback, made in this epoch.
CallInv ==
  /\ unit.phase \in {"none", "waiting"} => unit.callId = None
  /\ unit.callId # None /\ unit.phase = "callback-sent" =>
       LET c == calls[unit.callId] IN c.at # "fresh" /\ c.mode = "tui" /\ c.ours /\ c.epoch = epoch
  /\ unit.phase = "released" => epoch \in proved

\* What was sent agrees with the phase.
SentInv ==
  /\ unit.phase \in {"none", "waiting"} => \A e \in Epochs : prompts[e] = 0
  /\ unit.phase \in {"callback-sent", "released"} => prompts[epoch] = 1
  /\ unit.phase # "task-sent" => \A e \in Epochs : tasks[e] = 0

BootstrapInv ==
  /\ BootstrapTypeOK
  /\ LaunchInv
  /\ EpochInv
  /\ CallInv
  /\ SentInv
  /\ TaskStaysHome
  /\ TaskNeedsProof

\* The safety half of WaitingEnds: a bootstrap that waits has a poll scheduled that nobody
\* has cancelled; the polls are counted.
WaitingIsPolled == unit.phase = "waiting" => unit.held /\ unit.due
=============================================================================
