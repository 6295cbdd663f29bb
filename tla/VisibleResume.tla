--------------------------- MODULE VisibleResume ---------------------------
(***************************************************************************)
(* entwurf_resume_call (entwurf-v2-visible-resume.ts): concurrent calls    *)
(* that stand one dormant pi citizen back up in a visible window.  The     *)
(* lock is the TargetLock shared with entwurf_v2; the citizen's own        *)
(* processes and their socket are the environment, with the steps          *)
(* ControlServer gives them.                                               *)
(***************************************************************************)
EXTENDS Naturals, FiniteSets

CONSTANTS
  Calls,      \* concurrent resume calls; each may open one window
  Operator,   \* a window somebody opened by hand
  Mishaps,    \* what else may happen, a subset of AllMishaps
  MaxRounds   \* probes within one observation

\* the operator opens a window by hand; a caller's process dies; a peer's sweep
\* takes the socket of a running session; releaseLock fails
AllMishaps == {"operator", "callerDies", "socketLost", "releaseFails"}

ASSUME ResumeConstants ==
  /\ Operator \notin Calls
  /\ Mishaps \subseteq AllMishaps
  /\ MaxRounds \in Nat

VARIABLES
  path,      \* what is at the citizen's control-socket path
  starting,  \* windows in which pi has not served its socket yet
  up,        \* windows whose session is up
  excuses,   \* the reasons there have been for a second window
  holders,   \* who has the dispatch lock
  pc,        \* where each call is
  result,    \* what it decided to answer
  rounds,    \* the probes its observation has made
  releases   \* how often it released

citizen == <<path, starting, up>>
vars == <<citizen, excuses, holders, pc, result, rounds, releases>>

Lock == INSTANCE TargetLock

Windows == Calls \cup {Operator}
Paths == {"absent", "dead", "live", "corrupt"}
PCs == {"idle", "identity", "preflight", "launch", "observe", "release", "ended", "died"}
Rejects == {"target-locked", "target-not-pi", "target-live", "target-indeterminate",
            "target-address-conflict", "launch-refused"}
\* A window nobody observes any more, and one whose launcher could not name it, may
\* outlive the call's lock.
Excuses == AllMishaps \cup {"unobserved", "orphan"}
Results == Rejects \cup {"none", "threw", "socket-alive", "resume-unobserved"}

TypeOK ==
  /\ path \in Paths
  /\ starting \in SUBSET Windows
  /\ up \in SUBSET Windows
  /\ excuses \in SUBSET Excuses
  /\ holders \in SUBSET Calls
  /\ pc \in [Calls -> PCs]
  /\ result \in [Calls -> Results]
  /\ rounds \in [Calls -> 0..MaxRounds]
  /\ releases \in [Calls -> 0..2]

Init ==
  /\ \/ up = {} /\ path \in Paths \ {"live"}
     \/ up = {Operator} /\ path = "live"
  /\ starting = {}
  /\ excuses = {}
  /\ holders = {}
  /\ pc = [c \in Calls |-> "idle"]
  /\ result = [c \in Calls |-> "none"]
  /\ rounds = [c \in Calls |-> 0]
  /\ releases = [c \in Calls |-> 0]

Goto(c, label) == pc' = [pc EXCEPT ![c] = label]
Answer(c, res) == result' = [result EXCEPT ![c] = res]

-----------------------------------------------------------------------------
(* visibleResume *)

\* mutant: the lock is taken after the preflight has answered
Acquire_Late(c) ==
  /\ pc[c] = "idle"
  /\ Goto(c, "identity")
  /\ UNCHANGED <<citizen, excuses, holders, result, rounds, releases>>

\* the lock first; it may refuse or throw
Acquire(c) ==
  /\ pc[c] = "idle"
  /\ \/ Lock!Grant(c) /\ Goto(c, "identity") /\ UNCHANGED result
     \/ \E res \in {"target-locked", "threw"} : Answer(c, res) /\ Goto(c, "ended") /\ UNCHANGED holders
  /\ UNCHANGED <<citizen, excuses, rounds, releases>>

\* under the lock everything ends in the finally block
Finally(c, res) == Answer(c, res) /\ Goto(c, "release")

\* resolveIdentity: a foreign backend is refused, a broken record throws
ResolveIdentity(c) ==
  /\ pc[c] = "identity"
  /\ \/ Goto(c, "preflight") /\ UNCHANGED result
     \/ \E res \in {"target-not-pi", "threw"} : Finally(c, res)
  /\ UNCHANGED <<citizen, excuses, holders, rounds, releases>>

\* What an lstat and a probe make of the path.  A loaded session may not answer.
Liveness == CASE path = "live"    -> {"alive", "indeterminate"}
              [] path = "corrupt" -> {"conflict", "indeterminate"}
              [] OTHER            -> {"dead", "indeterminate"}

\* mutant: a session that does not answer counts as dormant
Preflight_StallIsDormant(c) ==
  /\ pc[c] = "preflight"
  /\ \E liveness \in Liveness :
       CASE liveness = "conflict" -> Finally(c, "target-address-conflict")
         [] liveness = "alive"    -> Finally(c, "target-live")
         [] OTHER                 -> Goto(c, "launch") /\ UNCHANGED result
  /\ UNCHANGED <<citizen, excuses, holders, rounds, releases>>

\* only a provably dormant citizen is resumed
Preflight(c) ==
  /\ pc[c] = "preflight"
  /\ \E liveness \in Liveness :
       CASE liveness = "conflict"      -> Finally(c, "target-address-conflict")
         [] liveness = "alive"         -> Finally(c, "target-live")
         [] liveness = "indeterminate" -> Finally(c, "target-indeterminate")
         [] OTHER                      -> Goto(c, "launch") /\ UNCHANGED result
  /\ UNCHANGED <<citizen, excuses, holders, rounds, releases>>

\* mutant: a launcher that could not report its window is a refusal
Launch_RefusesAfterOpening(c) ==
  /\ pc[c] = "launch"
  /\ starting' = starting \cup {c}
  /\ \/ Goto(c, "observe") /\ UNCHANGED result
     \/ Finally(c, "launch-refused")
  /\ UNCHANGED <<path, up, excuses, holders, rounds, releases>>

\* the injected launcher opens a window, refuses, or throws: before tmux was asked,
\* or after, when the handle tmux printed cannot be read and a window is open that no
\* one can name
Launch(c) ==
  /\ pc[c] = "launch"
  /\ \/ starting' = starting \cup {c} /\ Goto(c, "observe") /\ UNCHANGED <<result, excuses>>
     \/ \E res \in {"launch-refused", "threw"} : Finally(c, res) /\ UNCHANGED <<starting, excuses>>
     \/ /\ starting' = starting \cup {c}
        /\ excuses' = excuses \cup {"orphan"}
        /\ Finally(c, "threw")
  /\ UNCHANGED <<path, up, holders, rounds, releases>>

\* mutant: the observation has no deadline
Observe_Forever(c) ==
  /\ pc[c] = "observe"
  /\ \E liveness \in Liveness :
       IF liveness = "alive" THEN Finally(c, "socket-alive")
                             ELSE UNCHANGED <<pc, result>>
  /\ UNCHANGED <<citizen, excuses, holders, rounds, releases>>

\* The call lets go of a window that may still be starting.
GiveUp(c, res) ==
  /\ Finally(c, res)
  /\ excuses' = IF c \in starting THEN excuses \cup {"unobserved"} ELSE excuses
  /\ UNCHANGED rounds

\* observeSameGidSocket: alive is the only early exit; a probe that throws
\* propagates.
Observe(c) ==
  /\ pc[c] = "observe"
  /\ \/ \E liveness \in Liveness :
          IF liveness = "alive" THEN Finally(c, "socket-alive") /\ UNCHANGED <<rounds, excuses>>
          ELSE IF rounds[c] = MaxRounds THEN GiveUp(c, "resume-unobserved")
          ELSE /\ rounds' = [rounds EXCEPT ![c] = @ + 1]
               /\ UNCHANGED <<pc, result, excuses>>
     \/ GiveUp(c, "threw")
  /\ UNCHANGED <<citizen, holders, releases>>

\* mutant: a failed release keeps the answer
Release_Silent(c) ==
  /\ pc[c] = "release"
  /\ releases' = [releases EXCEPT ![c] = @ + 1]
  /\ \/ holders' = holders \ {c} /\ UNCHANGED result
     \/ "releaseFails" \in Mishaps /\ UNCHANGED <<holders, result>>
  /\ Goto(c, "ended")
  /\ UNCHANGED <<citizen, excuses, rounds>>

\* release: anything but "released" turns the answer into an error
Release(c) ==
  /\ pc[c] = "release"
  /\ releases' = [releases EXCEPT ![c] = @ + 1]
  /\ \/ holders' = holders \ {c} /\ UNCHANGED result
     \/ "releaseFails" \in Mishaps /\ Answer(c, "threw") /\ UNCHANGED holders
  /\ Goto(c, "ended")
  /\ UNCHANGED <<citizen, excuses, rounds>>

-----------------------------------------------------------------------------
(* The citizen's processes *)

\* pi starts its control server: the path is taken over
ComesUp(w) ==
  /\ w \in starting
  /\ starting' = starting \ {w}
  /\ up' = up \cup {w}
  /\ path' = "live"
  /\ UNCHANGED <<excuses, holders, pc, result, rounds, releases>>

\* pi fails to start, is closed, or is killed; a stop removes the path by name
GoesDown(w) ==
  /\ \/ w \in starting /\ starting' = starting \ {w} /\ UNCHANGED <<up, path>>
     \/ w \in up /\ up' = up \ {w} /\ path' \in {"absent", "dead"} /\ UNCHANGED starting
  /\ UNCHANGED <<excuses, holders, pc, result, rounds, releases>>

OperatorOpens ==
  /\ "operator" \in Mishaps
  /\ Operator \notin starting \cup up
  /\ starting' = starting \cup {Operator}
  /\ excuses' = excuses \cup {"operator"}
  /\ UNCHANGED <<path, up, holders, pc, result, rounds, releases>>

SocketLost ==
  /\ "socketLost" \in Mishaps
  /\ path = "live"
  /\ path' = "absent"
  /\ excuses' = excuses \cup {"socketLost"}
  /\ UNCHANGED <<starting, up, holders, pc, result, rounds, releases>>

\* the caller's process dies, its lock with it; its window stays
CallerDies(c) ==
  /\ "callerDies" \in Mishaps
  /\ pc[c] \notin {"idle", "died"}
  /\ pc[c] # "ended" \/ c \in holders
  /\ Goto(c, IF pc[c] = "ended" THEN "ended" ELSE "died")
  /\ holders' = holders \ {c}
  /\ excuses' = IF c \in starting THEN excuses \cup {"callerDies"} ELSE excuses
  /\ UNCHANGED <<citizen, result, rounds, releases>>

CallStep(c) ==
  \/ ResolveIdentity(c) \/ Preflight(c) \/ Launch(c) \/ Observe(c) \/ Release(c)

Next ==
  \/ \E c \in Calls : Acquire(c) \/ CallStep(c) \/ CallerDies(c)
  \/ \E w \in Windows : ComesUp(w) \/ GoesDown(w)
  \/ OperatorOpens \/ SocketLost

Spec == Init /\ [][Next]_vars

\* System calls, probes and tmux return; the observation counts its rounds.
FairSpec == Spec /\ \A c \in Calls : WF_vars(CallStep(c))

-----------------------------------------------------------------------------
(* Properties *)

\* Two windows on one citizen need a reason outside the protocol, an observation that
\* gave up or a launcher that threw with its window open: neither a race of resumes
\* nor a stalled probe opens a second one.
SecondWindowIsExcused == Cardinality(starting \cup up) > 1 => excuses # {}

\* Every rejection tells its reader "No window was opened", and none was.
RejectOpenedNothing ==
  \A c \in Calls : result[c] \in Rejects => c \notin starting \cup up

\* A call that has answered released its lock exactly once if it got it, never twice,
\* and has given it back or answered with an error that says it did not.
LockComesBack ==
  \A c \in Calls :
    /\ releases[c] <= 1
    /\ pc[c] = "ended" =>
         /\ c \in holders => result[c] = "threw"
         /\ result[c] \notin {"target-locked", "threw"} => releases[c] = 1

\* A window appears only under the lock of the call that opens it, and under the
\* lock of no other.
LaunchIsLocked ==
  [][\A c \in Calls : c \notin starting /\ c \in starting' => holders = {c}]_vars

\* Every call answers, also when its window never comes up.
CallsEnd == \A c \in Calls : pc[c] # "idle" ~> pc[c] \in {"ended", "died"}

\* The order of a call's awaits.
Await == [label \in PCs |->
  CASE label = "idle"      -> 0
    [] label = "identity"  -> 1
    [] label = "preflight" -> 2
    [] label = "launch"    -> 3
    [] label = "observe"   -> 4
    [] label = "release"   -> 5
    [] OTHER               -> 6]

\* The safety half of CallsEnd: a call's steps lead to its end, or are one of the
\* bounded probes of its observation, whatever becomes of the window.
CallsAdvance ==
  [][\A c \in Calls :
       /\ pc'[c] # pc[c] => Await[pc[c]] < Await[pc'[c]]
       /\ rounds'[c] # rounds[c] =>
            pc[c] = "observe" /\ rounds[c] < MaxRounds /\ rounds'[c] = rounds[c] + 1]_vars
=============================================================================
