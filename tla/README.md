# Entwurf in TLA+

Entwurf gives coding agents of different vendors (pi, Claude Code, Copilot CLI,
omp, agy and others) a common address, the *garden id*, and lets one session
message, resume or open another. There is no server: everything happens between
processes that share directories. Records, lock files, mailboxes, presence
markers and Unix sockets are all read, judged and changed by whoever comes
along, with nothing but file-system calls between them. What is hard about this
code is what may happen between two of those calls, and that is what the modules
here model.

## The system and its parts

| Part | Source | State | Operations | What is hard |
|---|---|---|---|---|
| Dispatch lock | `entwurf-v2-lock.ts` | `<gid>.lock`, `<gid>.lock.reclaim` | `acquireLock`, `releaseLock` | two reclaimers of one dead holder, deaths between calls, reused pids, half-written files |
| Dispatch contract | `entwurf-v2-contract.ts` | none | verdict tables, receipts | a verdict must not claim a liveness nobody observed |
| Dispatch | `entwurf-v2-decider.ts`, `-runner.ts`, `-send.ts`, `-send-fallback.ts`, `-release.ts`, `-mailbox.ts`, `-native-push.ts`, `-production.ts`, `entwurf-control-rpc.ts` | the lock, the call's receipt | `decideDispatch`, `executeDispatch` | the target changes between every two awaits; a failing release; timeouts of sends that were delivered |
| Socket discovery | `socket-discovery.ts`, `socket-probe.ts` | the socket directory | `inspectTargetControlSocket`, `probeSocketLiveness` | a stalled listener is neither alive nor dead |
| Control server | `entwurf-control.ts` | a listener and its socket path | `session_start`, `turn_end`, `session_shutdown`, sweep; RPC | sweeps of other processes, a listener that outlives its address, a directory call that is refused half-way |
| Visible resume | `entwurf-v2-visible-resume.ts` | the lock, a window | `visibleResume`, `observeSameGidSocket` | two windows on one transcript |
| Launch and placement | `mux-*.ts`, `resume-launch-identity.ts` | tmux windows | fresh call, resume launcher | correlating a launch with the citizen that answers |
| Mailbox | `meta-session.ts`, `doorbell.sh` | `.msg` files, `state.json`, `inbox.signal` | `enqueueMetaMessage`, `readMetaInbox`, doorbell | readers and doorbells rename the same files |
| Meta-record store | `meta-session.ts`, `meta-bridge-fresh-cut.ts` | one record per citizen | `upsertMetaSession`, certification, `readAddressableMetaIdentity`, the cut | concurrent births mint two ids for one session; a cut between any two calls |
| Presence markers | `meta-session.ts`, `meta-bridge-hook.ts`, `entwurf-deliverability.ts` | sender and receiver markers | write, read with start-key guard, retire | a live process that no longer serves the garden a marker names |
| OMP receiver | `meta-bridge-receive-omp.ts` | a file watch, a marker, a retry timer | `onEdge`, `arm`, `ring`, `unarm` | order against the birth unit, `/new`, watches that die |
| OMP bootstrap | `meta-bridge-omp.ts` | a staged first task | birth edge, readiness poll | a task sent into a session that replaced its own |
| Claude and Copilot hooks | `meta-bridge-hook*.ts`, `extension.mjs` | markers | session start and end | as for the OMP receiver, across processes |
| ACP provider | `acp/*.ts` | child process, ACP session | turns, reuse, cancellation | the child's end races the turn's |
| MCP bridge, facts, rendering | `mcp/entwurf-bridge`, `entwurf-facts.ts`, ... | none | tools | none of its own |

How they interact: a *dispatch* resolves a garden id in the store, takes the
lock if the target is a pi citizen, inspects and probes the *control socket*,
and sends over it; for other citizens it asks the *markers* whether a receiver
is armed and enqueues into the *mailbox*, or pushes through a native adapter. A
send to a socket that has just died may fall back once, under the same lock.
*Visible resume* takes the same lock and ends by watching for the control socket
to come up. A *doorbell* (a hook script for Claude Code, the *OMP receiver* for
omp) notices the mailbox's signal file and tells the model to read; the read
archives the files. The suffix of a file in the mailbox is its receipt.

What makes each part correct:

- lock: one holder, never a successor's file removed, no call hangs, and only a
  death or a failed system call strands an id;
- dispatch: one copy, a truthful answer, the lock released exactly once, receipts
  that say what was observed, one fallback at most;
- control server: whoever is announced listens, whoever has stopped does not,
  and a sweep spares the living;
- visible resume: no second window without a cause outside the protocol, and a
  rejection that opened nothing;
- mailbox: no message returned twice, none lost between a receipt and a reader,
  every enqueue announced;
- record store: never two addresses for one native session, and no birth that
  succeeded without its record;
- markers and receivers: a marker is backed by a watch, mail at a watch is rung for,
  whoever works as it should stays reachable, nothing is left running in the
  operator's process;
- OMP bootstrap: the first task goes to the conversation that was opened for it, once,
  and after the proof that it can answer;
- ACP provider: one child for a conversation, which has heard all of it; every turn
  and every child's end is answered for once.

## The modules

| Module | Models | Extends / instantiates |
|---|---|---|
| `TargetLock` | what a dispatch lock promises | |
| `DispatchLock` | the lock files, system call by system call | refines `TargetLock` |
| `DispatchContract` | verdict tables and receipts as functions | |
| `Dispatch` | whole `entwurf_v2` calls at one target | `DispatchContract`, `TargetLock` |
| `ControlServer` | pi processes and their control sockets | |
| `VisibleResume` | concurrent resumes of one citizen | `TargetLock` |
| `MetaStore` | births, addresses and the fresh cut on one store | |
| `ClaudeMarkers` | Claude Code's hooks and the join of its two markers | |
| `Inbox` | what a mailbox promises its readers | |
| `Mailbox` | enqueues, reads and doorbells on one mailbox | refines `Inbox` |
| `OmpHost` | the session that the units of one omp host follow | |
| `OmpReceiver` | the receiver of one omp host | `OmpHost` |
| `OmpBootstrap` | the first task of a fresh omp session | `OmpHost` |
| `AcpSession` | the turns of one session key and their children | |
| `MC*` | instances for TLC | the module of that name |
| `MetaSession_proofs` | theorems about the two stores of `meta-session.ts` | `MetaStore`, `Mailbox` |
| `Omp_proofs` | theorems about the two units of an omp host | `OmpReceiver`, `OmpBootstrap` |
| other `*_proofs` | theorems about `DispatchLock`, `Dispatch`, `ControlServer`, `VisibleResume`, `ClaudeMarkers`, `AcpSession` | the module of that name |

`OmpReceiver` and `OmpBootstrap`, and `MetaStore` and `Mailbox`, are extended by one
module of proofs each, so the specifications of the first two and of `Mailbox` carry their
names: `ReceiverSpec`, `BootstrapSpec`, `MailboxSpec`.

`Dispatch` and `VisibleResume` use the abstract lock: its only step is to grant
a free lock or to give it back, `DispatchLock` is shown, and proved, to implement
it, and both of its users are proved to follow it. `Mailbox` implements `Inbox` in the
same way. The control server's processes
appear in `VisibleResume` and `Dispatch` as an environment that may do at any moment
what `ControlServer` lets it do to a path. `Dispatch`'s resolution and deliverability
are outcomes there; how the first comes about is `MetaStore`, how the second does is
`ClaudeMarkers` and `OmpReceiver`.

### DispatchLock

One garden id. A call makes one acquire and draws one random nonce, so the call
stands for its nonce and its claim; `written` says which calls have their claim
whole on disk, and `Claim` is `parseLockClaim`: the owner of a whole file, or
nothing. Every `openSync`, `readFileSync`, `kill(pid, 0)`, `writeSync` and
`unlinkSync` is an action that may also fail, unless the code cannot tell the
failure apart. The program counter names the call that comes next, so
`AcquireStep` reads like `acquireLock`. Processes die between any two actions and
their pids are reused. `ThreadFree` says that the code is synchronous: two calls
of one process do not interleave inside it. `ClearMarker` and `ClearCorrupt` are
the human who follows two of the conflict messages.

### DispatchContract and Dispatch

The contract's tables are functions from intent and liveness to a transport or a
reject. `Dispatch` has an action per await of a call: resolve, deliverability or
conversation probe, lock, inspect, probe, send, the fallback's second look and
second attempt, release. The target (record, socket path, receiver, native
conversation) is free to change between any two (`TargetMoves`), which is more
than the programs behind it can do. `copies` counts how often a call's message
reached a receiver: it is what the caller cannot know. A timed-out RPC, a failed
enqueue and a failed native push may or may not have left a copy, and an answer
is judged against that. `identity` is what the call last resolved, kept over the awaits
that follow: the fallback decides on it whether the letter can be delivered again, while
the record may have changed since. The three ways a release can go wrong are all there:
inside `rejectAfterRelease`, where the catch releases a second time, after a send,
and after a failed send, whose error wins. `Stage` orders the awaits; `OnlyForward`
says that no second look leads back to a first one, so a flapping target cannot keep
a call going, whatever the environment's fairness.

### ControlServer

A process runs one handler at a time (pi awaits them), and a handler is the list
of its system calls: the sweep's `readdir`, a probe and an unlink for each dead
socket, the close of the old server, the unlinks by name, `bind` and then
`listen`. Socket files name the listener bound to them, so removing a name leaves
a listener that nobody can reach. `disputed` remembers the ids that two processes
had at one time (`Has`: announced, held or still being removed) and those a sweep took
from a live process: for these the code promises nothing. Any call on the directory may
be refused. What throws ends the handler where it is (`Throws`), and `astray` remembers
the process until its next event: it may announce the new id while its old listener is
still up. `orphaned` remembers the ids whose file was left by a kill or a refused removal.
`NoAddress` is a session the store gives no id, `TurnEnd` the refresh that may give it
another one. Left out: symlinks at a socket path, and the RPC commands a connected client
can send.

### VisibleResume

A call's steps are `visibleResume`'s; `Liveness` is what inspection and probe can
make of the path, a live session that does not answer included. Each call can
open one window, `starting` until its pi process has its socket and then `up`.
`excuses` records what has happened that may explain a second window; `Mishaps`
selects what an instance lets happen. Two excuses are the protocol's own: `"unobserved"`,
a start slower than the 30 s observation is let go; and `"orphan"`, the launch throws with
the window open because tmux's answer cannot be read. Either releases the lock, and the
next resume may open a second window. `LockComesBack` counts: a call releases what it
acquired once, unless its process dies.

### MetaStore

A record is a garden id and the native session it stands for. A birth
(`upsertMetaSession`) makes the directory, lists, certifies, decides, writes its
temporary file and publishes it with `link(2)` (new) or `rename` (attach), and may fail
or die at each. A dispatch (`readAddressableMetaIdentity`) reads its own record, lists,
and looks for rivals. The reads of the listed records are one step: only a cut
removes a record, and that removes all of them. `Cut` and `Reopen` are the fresh cut, at
any moment, since its gates look for live owners and a birth under way is none yet.
A minted id carries the second and a random suffix, so it may collide with one of its
own generation, never with one that is archived: `spent`. `overlaps` and `writer` are
history for `TwinsOverlapped`.

### ClaudeMarkers

Two markers make a Claude Code session reachable: its process's *sender* marker names
the garden it serves, the garden's *receiver* marker names the process that watches its
mailbox. Both carry the start key of the process; a marker whose process is gone is
`live = FALSE`, as the reused pid's key differs. A hook is a sequence of file-system calls,
which the host waits for: an arming one removes the receiver marker of the garden its
process left (a read, then an unlink), writes both markers, and hands the watch path to
the host. Every write may fail and the hook may end anywhere; `lapses` keeps what has
gone wrong and not been put right, `contested` the gardens that two processes carried at
one time, or whose marker was replaced between a read and an unlink. The hook reads its
own sender marker, which nobody else writes, in one step with the receiver marker. A
process's exit ends its hook.

### Mailbox

Names and suffixes only: a body matters as written or not, and `torn` collects the
messages that were read before it was. `todo` holds the names a reader or a doorbell
has listed, with the suffix they had then, so a rename in between makes the next call
fail as it does on disk. The order of a listing is left open. `Ring` stands for the
host's `FileChanged` watch: changes with no hook started in between are one event. The
stamps go to the garden's `state.json`, which no code decides on: they are a step that
may throw.

### OmpReceiver

One thread, so a handler is one action; `rx` is what the handlers work on, and
`Unarmed`, `Rung`, `Armed` and `TryArm` give the states each method may leave,
composed as the code composes them: `onEdge` cancels, unarms, tries to arm and
starts a retry in one step. A native session stands for its garden id. `Cancelled(1)` is a
`clearTimer` that throws: the code drops the handle, and the timer, counted by `refused`,
goes on ticking, and arms over whatever is armed. The watches it adds (`open`) ring too
(`StrayEvent`), and `MaxWatches` is where `fs.watch` throws. `kept` remembers the markers
that stayed behind, by a failed removal or such an arm. An enqueue is `Write` (the letter),
then `Poke` or `Abandon` (the stamp or the poke throws, or the sender dies). Mail is
`"written"` until its poke, and `"quiet"` when there is none or it has been rung for; a
marker of a process that is gone counts as `"none"`. `watcher.close` and the registration of
the exit guard are taken not to throw. Because
ring is synchronous and a watch callback cannot run inside it, `ringing` and
`pending` never differ from their initial values between handlers and are left
out. Other processes' steps fall between handlers, not between two system calls
of one handler.

### OmpBootstrap

One module state serves every session and subagent of the process. `BirthEdge` ends the
running epoch first, whatever id the edge carries, and then may fail before the flag is
read (`bailed`) or start the launch; `Tick` is the readiness poll, whose prompt may
throw; tool calls and turn ends come from the visible host, a replaced session or a
subagent, in any order. `unit` is the module's state, the other variables are the host's
and history: in which epoch a prompt or a task was sent, and where the callback
succeeded.

### AcpSession

The turns of one session key. What runs between two awaits is one action: `Launch` and
`Reuse` begin a turn, `BootDone`, `HookEnds` and `Answer` are its awaits, `Grace` is the
timer after a cancel, `StdoutEnds` and `Exit` are the two events of a child's end, in
either order. A failing turn that finds a closed connection waits for the exit status
(`settling`) before it reports. `history` is pi's context, which may be compacted or taken
back between turns; a child's `sigs` is what `isCompatible` compares, its `mem` what it was
really sent. Every new turn has a child with its own number. `Retired` forgets a child's
signatures and memory, which nobody reads again.

## What TLC checks

All runs are exhaustive for their instance.

| Run | Instance | Shows |
|---|---|---|
| `lock` | 3 calls in 3 processes of a host | `MutualExclusion`, `CleanExit`, `NoClobber`, `ImplementsTargetLock`, `AcquireAnswers` |
| `dispatch` | 2 calls, a target of any backend | `AtMostOnce`, `HonestResult`, `NoLockLeak`, `HonestReceipt`, `AloneWithTarget`, `FallbackIsHonest`, `OnlyForward` |
| `control` | 2 processes, 2 ids | `ListensWhereAnnounced`, `DeadFilesHaveACause`, `UpIsReachable`, `StartComesUp` |
| `control_sweep` | 2 processes, 2 ids | violated: `SweepSparesTheLiving`; a sweep removes a live peer's socket |
| `resume` | 2 calls, an operator, every mishap | `SecondWindowIsExcused`, `RejectOpenedNothing`, `LockComesBack`, `LaunchIsLocked`, `CallsEnd` |
| `mailbox` | 2 enqueues, 2 reads, 1 doorbell | `ReturnedOnce`, `SentIsAnnounced` |
| `mailbox_receipts` | 2 enqueues, 1 read, 1 doorbell | violated: `SuffixIsReceipt`; a message is archived as read and nobody has it |
| `omp_receiver` | 2 sessions, 2 ticks, 2 watches, 1 refused clear, 1 sender a mailbox | `MarkerIsAPromise`, `NothingLeaks`, `RetryEnds`, `WakeIsOwed` |
| `omp_bootstrap` | 3 edges, 2 sessions, 2 tool calls, 2 polls | `TaskStaysHome`, `TaskNeedsProof`, `WaitingEnds` |
| `acp_session` | 3 turns, 2 models, a compaction | `OneConversation`, `HeardInFull`, `ToldOnce`, `NoHiddenEnd`, `TurnsEnd` |
| `meta_store` | 3 births, 2 dispatches, 3 ids, 2 native sessions, 1 cut | `OneAddress`, `TwinsOverlapped`, `BornIsRecorded` |
| `claude_markers` | 2 processes, 2 gardens, 2 failures | `ArmedIsWatched`, `ReachableStays` |

The type invariants, and the inductive invariants the proofs below rest on, were checked
in the same instances before they were proved; where a proof has one, no run repeats it.

Why the bounds are enough:

- Three processes are the fewest for the lock's hard case: a dead holder and two
  reclaimers; the proofs below cover any number, several calls of one process and
  several hosts.
- Two dispatches of every kind against a target that changes arbitrarily: they meet at
  the lock only. `MaxCopies = 2` lets a duplicate happen and be seen.
- A control server contends with its predecessor, its successor and a sweeper, two
  at a time. Two ids make a session switch.
- Two resume calls, an operator's window and one probe per observation before the
  deadline are every combination of "answered", "not yet" and "gave up".
- Two messages are the fewest in which one is handled and the other fails; pokes
  coalesce with two.
- For the receiver, `MaxTicks = 2` tells the last tick from the others; the code has
  40. Two sessions are a switch and a switch back. One uncleared timer is enough to run
  beside the held one and to arm over a watch; two watches are that one and the stray, and
  a third arm meets the limit. One sender at a mailbox beside those of the past is enough
  for mail that is there before its poke.
- Three birth edges are a launch, a replacement, and a return to the first id; two tool
  calls are the callback and another; two polls tell the last from the others.
- Three turns are the fewest in which a child is opened, lost or refused, and replaced
  while an end still waits to be told; the config signature is compared like the model
  and has one value.
- Two births make a twin; the third makes the writer of one twin overlap neither, and
  two generations one cut. Two dispatches are the fewest that can disagree.
- Two failures let a removal and a later write both fail; two processes on two gardens
  switch past each other, and take each other's pid.

Deadlock is checked, except in the runs whose calls are bounded and all end: the two
of the mailbox, `meta_store`, `omp_bootstrap` and `acp_session`.

### Fairness

- `DispatchLock`: a process that lives runs its synchronous code to the end (weak
  fairness of a call's steps). Starting a call or a release is not fair.
- `VisibleResume`: probes and launches have timeouts, so each await of a started call
  returns; weak fairness per call. A call whose process dies ends that way. Nothing is
  assumed of the citizen.
- `ControlServer`: handlers' system calls return; crashes and session events are
  free.
- `Mailbox`: the host runs the hook for a changed file and a started read goes on.
  Enqueues are not fair: they may die half-way.
- `OmpReceiver`: the vendor's interval timer fires and its watch reports changes,
  both measured in `scripts/raw-omp-measure/README.md`. Session events, births and
  all other processes are free.
- `OmpBootstrap`: the vendor's timer fires. Edges, tools and turns are free.
- `AcpSession`: the timers of a turn fire, the payload hook returns, and node delivers the
  exit of a dead child. The end of its stdout is owed to nobody: a grandchild may hold the
  pipe. A child that lives owes nothing.
- `Dispatch`, `MetaStore`, `ClaudeMarkers`: none; what they must reach is said as an
  action property (`OnlyForward`) or not at all.

### Where the code and its documentation differ

1. `control_sweep`: `gcStaleSockets` says a live peer's socket survives. It probes
   and then unlinks by name; a citizen that starts in between is cut off.
2. `mailbox_receipts`: a suffix `.read` is documented to mean that the message was
   handed to a reader. A `.msg` is created and filled under its final name, so a read in
   between archives an empty letter; and a read that fails half-way, because a doorbell
   renamed the next file, keeps what it has already archived.

### What the properties excuse

A property's exception is behaviour of the code that somebody should know of:

- `FallbackIsHonest`: the fallback decides on what its second look resolved and reads the
  record no more, so one that turns into a pi citizen's after that look is still sent a
  letter.
- `SecondWindowIsExcused`: an observation that gives up on a slow start lets a second
  window open, and so does a launch that throws with its window open; next to an operator,
  a lost socket and a death.
- `ListensWhereAnnounced`, `UpIsReachable`, `StartComesUp`: a process gone `astray`. The new
  id is announced before the sweep reads the directory, and the old server is stopped only
  after it; a refused call in between leaves the old listener up under the new id. A turn
  end that finds the record cut announces another id, and starts nothing there.
- `DeadFilesHaveACause`: a removal the system refuses leaves a dead file, as a kill does.
- `UpIsReachable`: `removeSocket` on start and after a slow stop removes whatever has
  the name, and a sweep can take a live socket; hence `disputed`.
- `OneAddress`: a dispatch that a cut overtakes between its own read and its scan may
  miss a rival. `AttachInv` has the other trace of a cut: a lagging attach may put an
  archived record back.
- `ArmedIsWatched`: when a hook fails on a session switch, before its sender marker is
  written, the garden the process left reads as armed until a later hook writes it.
- `ReachableStays`: the removal of a receiver marker is by name, so it can take one that
  another process has put there since it was read.
- `MarkerIsAPromise`: a marker whose removal fails is logged and stays, and since its pid
  lives, dispatch takes the citizen for armed until the process exits; so does a marker that
  an uncleared timer leaves behind when it arms over another watch.
- `NothingLeaks`, `RetryEnds`: a timer the vendor refuses to clear runs on with no handle to
  stop it, and arms watch after watch.
- `WakeIsOwed`: a letter whose sender ended before its poke, or whose ring threw, waits for
  the next event or arm.
- `TaskStaysHome`: when the first birth edge fails before the flag is read, the launch
  stays unspent and a later session of the process may take its task.
- `HeardInFull`: a message of a turn that was refused before any child was touched is
  not sent again by a later reuse.
- `TurnsEnd`: a turn whose child exited while the payload hook ran, before the turn could be
  told of it, waits for the end of a stdout that a grandchild holds (`Stranded`).
- `ToldOnce`: a child that exits before its turn's prompt is out is reported by the
  failing turn and announced again by the next one.

## What TLAPS proves

`DispatchLock_proofs` proves, for any set of calls, processes and hosts
(`LockConstants`: each call runs in a process, each process on a host, and `None` is
not a call):

- `TypeCorrect`, `LockInvariant`: `Spec => []TypeOK`, `Spec => []LockInv`;
- `LockMutex`, `LockOnDisk`, `LockCleanExit`: the safety invariants of the `lock` run;
- `LockNoClobber`: no step removes a running call's file but its own;
- `LockImplements`: the files implement `TargetLock`.

`MutualExclusion` is not inductive: a state in which one call holds the lock and a
reclaimer is about to unlink the file satisfies it and leads to two holders. `LockInv`
adds what rules such states out. `OwnerInv`: a call that is writing, holding or
releasing finds its own file at the path; so two such calls are one. `CreatorInv`:
whoever's file is there is one of those, or has failed or died. `MarkerInv`: the
reclaim section belongs to the marker's creator, so there is one reclaimer.
`DeadInv` and `JudgedInv`: whoever was judged dead has ended and cannot come back,
since calls never resume after a death, and past the reread the file is still that
call's: nobody else may unlink it (its owner is dead, other reclaimers are kept out
by the marker) and nobody can create it while it exists. The proof of `LockInv` has
one step per action. The invariants follow from it at once, and each step either
grants, gives back or leaves the abstract lock alone.

`Dispatch_proofs` proves, for any set of calls, any `Records \subseteq AllRecords` and
any `MaxCopies`, from the abstract lock:

- `SentAtMostOnce`, `ToldTheTruth`, `LockGivenBack`, `TargetIsForOne`: the invariants
  `AtMostOnce`, `HonestResult`, `NoLockLeak`, `AloneWithTarget`;
- `FallbackJustified`: the action property `FallbackIsHonest`;
- `KeepsLockProtocol`: the calls use the lock only as `TargetLock` allows, so the two
  modules meet at that specification: `DispatchLock` implements it, `Dispatch` needs
  no more than it.

None of the four is inductive, because each speaks of the end of a call. `DispatchInv`
follows a call through its stages. `HoldersInv`: one holder, a call under the lock is
it, and has not yet tried to release. `ReceiptInv`: no send receipt before a decision,
and in each hand a receipt for that hand's transport, which follows from the verdict
tables (`DomainVerdict`, `MailboxVerdict`, `PushVerdict`, `RejectVerdict`). `CopiesInv`:
nothing has arrived while another attempt may still be made outside native push, and
the final label agrees with the count. `EarlyDecision`, `DomainDecision` and
`FallbackDecision` are the three kinds of decision step, before the lock, under it and
after a dead path.

`ReceiptsAreHonest` proves `HonestReceipt` from the verdict tables, `CallsMoveForward`
proves `OnlyForward` from `DispatchInv` and the order of the labels, and
`DispatchTypeCorrect` is the type invariant.

`ControlServer_proofs` proves `ListensAsAnnounced`, `OrderlyEndsAreClean` and
`UpStaysReachable` for any number of processes and ids. `UpIsReachable` speaks of processes
between handlers, while the unlinks that threaten a path are in the middle of others'.
`ControlInv` follows the handler: `ProcInv` says which server and path a process has at
each label (a draining one has neither, only the name it will remove), and that only an
`astray` one differs from what it announces; `BoundInv` that a
path stays with whoever bound it up to its own stop, and `HasInv` that two processes which
have an id, be it to remove it, have made it disputed: so an unlink by name in the stop or
the start of another process never meets an undisputed path.

`VisibleResume_proofs` proves `SecondWindowExcused`, `RejectsOpenNothing`, `LockReturns`,
`LaunchesAreLocked` and `FollowsTheLock` (the calls use the lock as `TargetLock` allows) for
any number of calls, mishaps and rounds. `ResumeInv` has `LockInv` (whoever is between
acquire and release is the one holder), `AnswerInv` (a call answers once, and one that
rejects has no window) and `WindowInv` (without an excuse there is at most one window, the
path tells whether it is up, a starting one belongs to the call that observes it, and a
call about to open one is right that there is none), which turns `Cardinality` into an
argument about one element.

`MetaSession_proofs` proves, of the records, `NoSecondAddress`, `TwinsWereConcurrent` and
`BirthsKeepTheirRecord` for any number of births, dispatches, ids and cuts. `OneAddress` is
about pairs of finished dispatches, so `AddressInv` speaks of pairs under way: of two that
have listed, the later has the other's record in its list, and a record read stays for its
generation. `OverlapInv` says the same of births and the records they did not list.
`AttachInv` keeps the meaning of an id: those that attach to it agree with its record, even
over a cut. `CallInv` knows what each call has decided.

`ClaudeMarkers_proofs` proves `MailIsWatched` and `StaysReachable` for any number of
processes, gardens and failures. The properties hold between hooks; `MarkersInv` follows
a hook through its writes. `SenderInv` and `ReceiverInv`: once written, a marker is right
until the next arming hook begins, the write's failure or the contest recorded.
`RemovalInv`: a removal aims at another garden than its process serves, at a marker it read
as its own. `ContestInv`: two processes on one garden have contested it. `ProcessInv` and
`OwnerInv`: markers of processes that are gone do not count.

`Omp_proofs` proves, of the receiver, `TypeCorrect`, `PromiseKept` and `NoLeak` for any number of
sessions, ticks, watches, refused clears and senders. `ReceiverInv`: `HostInv` (a host
without a session owes no handler and has no watch), `RxInv` (the armed watch is open, and a
marker of this process is the armed citizen's or `kept`), `ArmInv` (the watch is the current
citizen's, or the handler of its switch is still to run), `RetryInv` (what runs is the held
timer and the refused ones, and a held one has no watch yet and is within its limit),
`LeakInv` (a watch beside the armed one needs a refused clear).

Of the bootstrap it proves `TaskOnlyHome` and `TaskOnlyProved` for any number of edges,
polls, calls and sessions. The properties look back from a task; `BootstrapInv` looks
forward to it: `LaunchInv` (an unspent launch means that every edge bailed), `EpochInv` (a
live bootstrap belongs to the running epoch), `CallInv` (the call it waits for is the
host's own callback of this epoch), `SentInv` (what was sent agrees with the phase).

`AcpSession_proofs` proves `OneLiveConversation`, `PromptsHeardInFull`, `EndToldOnce` and
`NoEndHidden` for any number of turns, models and summaries. `AcpInv` has four parts.
`FlightInv`: one turn is in flight, and its child is the one in the map unless the turn
opened it, or saw it end. The last case is needed, and was found by the proof: a reuse
turn whose child's exit is seen goes on without it in the map, and only `seen` tells that
from a live child that was dropped. `HandInv`: whatever is up is in the map or the turn's,
and the child in the map has no end to tell. `EndInv`: what waits to be announced was
seen to end and, if not early, was neither told nor torn down, and no turn will report it.
`MemoryInv`: `HeardInFull` looks at a prompt, while what makes it true happens in earlier
turns and in pi's tree; so the messages of pi's history are related at all times to what
the child in hand was sent. That a summary can only open a history (`OneSummary`) makes
a compacted history one that no child's signatures are a prefix of.

`MetaSession_proofs` proves, of the mailbox, `ReturnedToOneRead` and `MailboxImplements`
for any number of messages, reads and doorbells that are different processes
(`MailboxConstants`). `ReturnedOnce` speaks of reads that returned; `MailboxInv` speaks of
what each read archived: it is marked read, so nobody's rename finds it again, and no two
reads have it. Each step sends a message, takes one, or leaves the `Inbox` alone.

The liveness properties have a safety half that is proved, for all values of the
constants: what a step may never do, or must have arranged, so that fairness brings the
rest.

| liveness (TLC) | safety half (proved) | what it says |
|---|---|---|
| `AcquireAnswers` | `LockAdvances` | a call's next system call is a later one in `Rank`, so it cannot go round |
| `StartComesUp` | `BindsFindItFree` | a path that the start cleared is free at its bind, unless contested |
| `CallsEnd` | `CallsGoForward` | no await is returned to, and the probes of `observe` are counted |
| `SentIsAnnounced` | `NoticesUnderWay` | an enqueue that succeeded has a changed signal or a doorbell at work on it |
| `WakeIsOwed` | `MailHasItsEvent` | mail at an armed watch whose enqueue returned has its event pending |
| `WaitingEnds` | `WaitersArePolled` | a bootstrap that waits has a live poll; `BootstrapTypeOK` bounds the polls |
| `TurnsEnd` | `PromptsAreHeard` | nobody waits on a closed connection, which nothing would end any more |

`RetryEnds` has its half in `RetryInv`: a held retry runs within its limit of ticks.
`NoticesUnderWay` assumes one doorbell at a time, as `SentIsAnnounced` and its run do: a
second doorbell, or a read, may rename a file that the first has listed. It rests on
`DoorbellInv`: a listed file stays fresh until its `mv`, and what is fresh after its poke
has a signal, a list to come or an entry in the list. These seven have no run of their own;
each was checked by TLC on its module's instance before its proof.

Only model-checked: the `~>` itself, since fairness and `ENABLED` are out of the prover's
reach, in `AcquireAnswers`, `StartComesUp`, `CallsEnd`, `SentIsAnnounced`, `RetryEnds`,
`WakeIsOwed`, `WaitingEnds`, `TurnsEnd`. What the two violated runs show needs no proof.

## What is not modelled

- ACP provider: stop reasons, usage accounting, the mapping of events, persisted session
  pointers, and the exit hook, which kills retained children only.
- Markers of Copilot CLI and its extension; the archive readers of mailboxes.
- The fresh cut's gates and its clearing of mailboxes and markers.
- RPC commands of the control server beyond `send`'s outcomes.
- tmux: launching is an outcome (a window, a refusal, a throw); the correlation of a
  fresh launch with the citizen that answers.
- Native push adapters: outcomes of `probe` and `send`.
- In `OmpReceiver`, other processes' steps between two system calls of one handler.
- Tool surfaces, rendering, prompts, configuration, model lock, project trust: no state
  that two actors share.
- Installers, gates and measurements under `scripts/`.

## Plan

1. The RPC commands of the control server: `send` during a turn, `get_message`,
   subscriptions of clients that go away.
2. `Copilot`: the hook and the extension of Copilot CLI, which share the marker files with
   `ClaudeMarkers`, and the gates of the fresh cut over both.
3. `FreshCall`: the correlation of an opened window with its citizen's callback, composed
   with `OmpBootstrap`.
4. `OmpReceiver` with `unarm` in two system calls, next to a second host.
5. Proofs: the modules of items 1 to 3 as they come. Of the present modules every invariant
   and action property that a run checks and that holds is proved.
