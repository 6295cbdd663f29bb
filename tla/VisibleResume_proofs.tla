------------------------ MODULE VisibleResume_proofs ------------------------
(***************************************************************************)
(* Proofs about VisibleResume, for any number of resume calls, any rounds  *)
(* and any mishaps: ResumeInv is inductive, so a second window has its     *)
(* excuse, a rejection opened nothing and the lock comes back.             *)
(***************************************************************************)
EXTENDS VisibleResume, FiniteSetTheorems, TLAPS

Windowed == starting \cup up
Early == {"idle", "identity", "preflight", "launch"}
Locked == {"identity", "preflight", "launch", "observe", "release"}

\* Between its grant and its release a call has the lock to itself.
LockInv ==
  /\ \A c \in holders : holders = {c}
  /\ \A c \in Calls : pc[c] \in Locked => holders = {c}
  /\ \A c \in Calls : pc[c] \in {"idle", "died"} => c \notin holders
  /\ \A c \in Calls : pc[c] = "ended" /\ c \in holders => result[c] = "threw"

\* A call answers once, and one that rejects has no window.
AnswerInv ==
  /\ \A c \in Calls : pc[c] \in Early => c \notin Windowed
  /\ \A c \in Calls : pc[c] \in Early \cup {"observe"} => result[c] = "none"
  /\ \A c \in Calls : pc[c] \notin {"ended", "died"} => releases[c] = 0
  /\ \A c \in Calls : releases[c] <= 1
  /\ \A c \in Calls : pc[c] = "ended" /\ result[c] \notin {"target-locked", "threw"} => releases[c] = 1
  /\ \A c \in Calls : result[c] \in Rejects => c \notin Windowed
  /\ starting \cap up = {}

\* As long as nothing excuses a second window, there is at most one, its path tells
\* whether it is up, the call that opened a starting one observes it, and a call about
\* to open one is right that there is none.
WindowInv ==
  excuses = {} =>
    /\ \E w \in Windows : Windowed \subseteq {w}
    /\ path = "live" <=> up # {}
    /\ \A w \in starting : w \in Calls /\ pc[w] = "observe"
    /\ \A c \in Calls : pc[c] = "launch" => up = {}

\* The inductive invariant.
ResumeInv == TypeOK /\ LockInv /\ AnswerInv /\ WindowInv

LEMMA InitResume == Init => ResumeInv
  <1> SUFFICES ASSUME Init PROVE ResumeInv
    OBVIOUS
  <1>1. TypeOK
    BY ResumeConstants DEF Init, TypeOK, Paths, Windows, PCs, Results
  <1>2. LockInv /\ AnswerInv
    BY ResumeConstants DEF Init, LockInv, AnswerInv, Windowed, Early, Locked, Rejects
  <1>3. WindowInv
    <2>1. Operator \in Windows /\ Windowed \subseteq {Operator}
      BY DEF Init, Windowed, Windows
    <2> QED BY <2>1 DEF Init, WindowInv, Paths
  <1> QED BY <1>1, <1>2, <1>3 DEF ResumeInv

-----------------------------------------------------------------------------
(* The calls *)

LEMMA AcquireKeeps == ASSUME ResumeInv, NEW c \in Calls, Acquire(c) PROVE ResumeInv'
  <1> USE DEF ResumeInv
  <1>1. pc[c] = "idle" /\ UNCHANGED <<path, starting, up, excuses, rounds, releases>>
    BY DEF Acquire, citizen
  <1>2. \/ holders = {} /\ holders' = {c} /\ pc' = [pc EXCEPT ![c] = "identity"] /\ result' = result
        \/ \E res \in {"target-locked", "threw"} :
             /\ result' = [result EXCEPT ![c] = res] /\ pc' = [pc EXCEPT ![c] = "ended"]
             /\ holders' = holders
    BY DEF Acquire, Lock!Grant, Goto, Answer
  <1>3. TypeOK'
    BY <1>1, <1>2 DEF TypeOK, PCs, Results, Rejects
  <1>4. LockInv'
    BY <1>1, <1>2 DEF TypeOK, LockInv, Locked
  <1>5. AnswerInv'
    BY <1>1, <1>2 DEF TypeOK, AnswerInv, Windowed, Early, Rejects
  <1>6. WindowInv'
    BY <1>1, <1>2 DEF TypeOK, WindowInv, Windowed
  <1> QED BY <1>3, <1>4, <1>5, <1>6

\* A step under the lock that opens no window and excuses none: the call goes on, or
\* its answer waits for the release.
LEMMA JudgeKeeps ==
  ASSUME ResumeInv, NEW c \in Calls, pc[c] \in {"identity", "preflight", "launch"},
         UNCHANGED <<citizen, excuses, holders, rounds, releases>>,
         \/ /\ result' = result
            /\ \E label \in {"preflight", "launch"} :
                 /\ pc' = [pc EXCEPT ![c] = label]
                 /\ label = "launch" => path \in {"absent", "dead"}
         \/ \E res \in Results \ {"none"} :
              result' = [result EXCEPT ![c] = res] /\ pc' = [pc EXCEPT ![c] = "release"]
  PROVE  ResumeInv'
  <1> USE DEF ResumeInv
  <1>1. UNCHANGED <<path, starting, up>>
    BY DEF citizen
  <1>2. TypeOK'
    BY <1>1 DEF TypeOK, PCs
  <1>3. LockInv'
    BY <1>1 DEF TypeOK, LockInv, Locked
  <1>4. AnswerInv'
    BY <1>1 DEF TypeOK, AnswerInv, Windowed, Early
  <1>5. WindowInv'
    BY <1>1 DEF TypeOK, WindowInv, Windowed
  <1> QED BY <1>2, <1>3, <1>4, <1>5

LEMMA ResolveIdentityKeeps ==
  ASSUME ResumeInv, NEW c \in Calls, ResolveIdentity(c) PROVE ResumeInv'
  <1>1. {"target-not-pi", "threw"} \subseteq Results \ {"none"}
    BY DEF Results, Rejects
  <1> QED BY <1>1, JudgeKeeps DEF ResolveIdentity, Finally, Goto, Answer

LEMMA PreflightKeeps ==
  ASSUME ResumeInv, NEW c \in Calls, Preflight(c) PROVE ResumeInv'
  <1>1. PICK liveness \in Liveness :
          CASE liveness = "conflict"      -> Finally(c, "target-address-conflict")
            [] liveness = "alive"         -> Finally(c, "target-live")
            [] liveness = "indeterminate" -> Finally(c, "target-indeterminate")
            [] OTHER                      -> Goto(c, "launch") /\ UNCHANGED result
    BY DEF Preflight
  <1>2. pc[c] = "preflight" /\ UNCHANGED <<citizen, excuses, holders, rounds, releases>>
    BY DEF Preflight
  <1>3. CASE liveness \in {"conflict", "alive", "indeterminate"}
    <2>1. \E res \in {"target-address-conflict", "target-live", "target-indeterminate"} :
            Finally(c, res)
      BY <1>1, <1>3
    <2>2. {"target-address-conflict", "target-live", "target-indeterminate"} \subseteq Results \ {"none"}
      BY DEF Results, Rejects
    <2> QED BY <1>2, <2>1, <2>2, JudgeKeeps DEF Finally, Goto, Answer
  <1>4. CASE liveness \notin {"conflict", "alive", "indeterminate"}
    <2>1. Goto(c, "launch") /\ result' = result
      BY <1>1, <1>4
    <2>2. path \in {"absent", "dead"}
      BY <1>4 DEF Liveness, ResumeInv, TypeOK, Paths
    <2> QED BY <1>2, <2>1, <2>2, JudgeKeeps DEF Goto
  <1> QED BY <1>3, <1>4

LEMMA LaunchKeeps == ASSUME ResumeInv, NEW c \in Calls, Launch(c) PROVE ResumeInv'
  <1> USE DEF ResumeInv
  <1>1. pc[c] = "launch" /\ UNCHANGED <<path, up, holders, rounds, releases>>
    BY DEF Launch
  <1>2. CASE starting' = starting \cup {c} /\ Goto(c, "observe") /\ UNCHANGED <<result, excuses>>
    <2>1. /\ pc' = [pc EXCEPT ![c] = "observe"] /\ starting' = starting \cup {c}
          /\ result' = result /\ excuses' = excuses
      BY <1>2 DEF Goto
    <2>2. TypeOK'
      BY <1>1, <2>1 DEF TypeOK, PCs, Windows
    <2>3. LockInv'
      BY <1>1, <2>1 DEF TypeOK, LockInv, Locked
    <2>4. c \notin Windowed /\ result[c] = "none"
      BY <1>1 DEF AnswerInv, Early
    <2>5. AnswerInv'
      BY <1>1, <2>1, <2>4 DEF TypeOK, AnswerInv, Windowed, Early, Rejects
    <2>6. ASSUME excuses = {} PROVE Windowed = {}
      <3>1. up = {}
        BY <1>1, <2>6 DEF WindowInv
      <3>2. ASSUME NEW w \in starting PROVE FALSE
        <4>1. w \in Calls /\ pc[w] = "observe"
          BY <2>6 DEF WindowInv
        <4>2. holders = {w} /\ holders = {c}
          BY <1>1, <4>1 DEF LockInv, Locked
        <4> QED BY <1>1, <4>1, <4>2
      <3> QED BY <3>1, <3>2 DEF Windowed
    <2>7. WindowInv'
      <3>1. c \in Windows
        BY DEF Windows
      <3>2. \A d \in Calls : pc[d] = "launch" => d = c
        BY <1>1 DEF LockInv, Locked
      <3>3. \A d \in Calls : pc'[d] # "launch"
        BY <2>1, <3>2 DEF TypeOK
      <3>4. excuses = {} => starting' = {c} /\ Windowed' \subseteq {c}
        BY <1>1, <2>1, <2>6 DEF Windowed
      <3>5. pc'[c] = "observe"
        BY <2>1 DEF TypeOK
      <3> QED BY <1>1, <2>1, <3>1, <3>3, <3>4, <3>5 DEF WindowInv
    <2> QED BY <2>2, <2>3, <2>5, <2>7
  <1>3. CASE \E res \in {"launch-refused", "threw"} : Finally(c, res) /\ UNCHANGED <<starting, excuses>>
    <2>1. {"launch-refused", "threw"} \subseteq Results \ {"none"}
      BY DEF Results, Rejects
    <2> QED BY <1>1, <1>3, <2>1, JudgeKeeps DEF Finally, Goto, Answer, citizen
  <1>4. CASE /\ starting' = starting \cup {c} /\ excuses' = excuses \cup {"orphan"}
             /\ Finally(c, "threw")
    <2>1. pc' = [pc EXCEPT ![c] = "release"] /\ result' = [result EXCEPT ![c] = "threw"]
      BY <1>4 DEF Finally, Goto, Answer
    <2>2. TypeOK'
      BY <1>1, <1>4, <2>1 DEF TypeOK, PCs, Windows, Results, Excuses
    <2>3. LockInv'
      BY <1>1, <2>1 DEF TypeOK, LockInv, Locked
    <2>4. AnswerInv'
      BY <1>1, <1>4, <2>1 DEF TypeOK, AnswerInv, Windowed, Early, Rejects
    <2>5. WindowInv'
      BY <1>4 DEF WindowInv
    <2> QED BY <2>2, <2>3, <2>4, <2>5
  <1> QED BY <1>2, <1>3, <1>4 DEF Launch

LEMMA ObserveKeeps == ASSUME ResumeInv, NEW c \in Calls, Observe(c) PROVE ResumeInv'
  <1> USE DEF ResumeInv
  <1>1. pc[c] = "observe" /\ UNCHANGED <<path, starting, up, holders, releases>>
    BY DEF Observe, citizen
  <1>2. holders = {c} /\ result[c] = "none"
    BY <1>1 DEF LockInv, AnswerInv, Locked
  <1>3. ASSUME NEW res \in {"socket-alive", "resume-unobserved", "threw"},
               pc' = [pc EXCEPT ![c] = "release"], result' = [result EXCEPT ![c] = res],
               rounds' = rounds,
               excuses' \in SUBSET Excuses,
               excuses' = {} => excuses = {} /\ c \notin starting
        PROVE  ResumeInv'
    <2>1. TypeOK'
      BY <1>1, <1>3 DEF TypeOK, PCs, Results
    <2>2. LockInv'
      BY <1>1, <1>2, <1>3 DEF TypeOK, LockInv, Locked
    <2>3. res \notin Rejects
      BY <1>3 DEF Rejects
    <2>4. AnswerInv'
      BY <1>1, <1>3, <2>3 DEF TypeOK, AnswerInv, Windowed, Early
    <2>5. WindowInv'
      BY <1>1, <1>3 DEF TypeOK, WindowInv, Windowed
    <2> QED BY <2>1, <2>2, <2>4, <2>5
  <1>4. CASE \E res \in {"resume-unobserved", "threw"} : GiveUp(c, res)
    <2>1. PICK res \in {"resume-unobserved", "threw"} : GiveUp(c, res)
      BY <1>4
    <2>2. /\ pc' = [pc EXCEPT ![c] = "release"] /\ result' = [result EXCEPT ![c] = res]
          /\ rounds' = rounds
          /\ excuses' = IF c \in starting THEN excuses \cup {"unobserved"} ELSE excuses
      BY <2>1 DEF GiveUp, Finally, Goto, Answer
    <2>3. /\ excuses' \in SUBSET Excuses
          /\ excuses' = {} => excuses = {} /\ c \notin starting
      BY <2>2 DEF TypeOK, Excuses
    <2> QED BY <1>3, <2>2, <2>3
  <1>5. CASE /\ "alive" \in Liveness /\ Finally(c, "socket-alive")
             /\ UNCHANGED <<rounds, excuses>>
    <2>1. path = "live"
      BY <1>5 DEF Liveness
    <2>2. excuses = {} => c \notin starting
      BY <2>1 DEF WindowInv, AnswerInv, Windowed
    <2>3. excuses' \in SUBSET Excuses
      BY <1>5 DEF TypeOK
    <2> QED BY <1>3, <1>5, <2>2, <2>3 DEF Finally, Goto, Answer
  <1>6. CASE /\ rounds[c] # MaxRounds /\ rounds' = [rounds EXCEPT ![c] = @ + 1]
             /\ UNCHANGED <<pc, result, excuses>>
    <2>1. rounds' \in [Calls -> 0..MaxRounds]
      BY <1>6, ResumeConstants DEF TypeOK
    <2>2. TypeOK' /\ LockInv' /\ AnswerInv' /\ WindowInv'
      BY <1>1, <1>6, <2>1 DEF TypeOK, LockInv, AnswerInv, WindowInv, Windowed
    <2> QED BY <2>2
  <1> QED BY <1>4, <1>5, <1>6 DEF Observe

LEMMA ReleaseKeeps == ASSUME ResumeInv, NEW c \in Calls, Release(c) PROVE ResumeInv'
  <1> USE DEF ResumeInv
  <1>1. /\ pc[c] = "release" /\ UNCHANGED <<path, starting, up, excuses, rounds>>
        /\ releases' = [releases EXCEPT ![c] = @ + 1] /\ pc' = [pc EXCEPT ![c] = "ended"]
        /\ \/ holders' = holders \ {c} /\ result' = result
           \/ result' = [result EXCEPT ![c] = "threw"] /\ holders' = holders
    BY DEF Release, citizen, Goto, Answer
  <1>2. holders = {c} /\ releases[c] = 0
    BY <1>1 DEF LockInv, AnswerInv, Locked
  <1>3. TypeOK'
    BY <1>1, <1>2 DEF TypeOK, PCs, Results
  <1>4. LockInv'
    BY <1>1, <1>2 DEF TypeOK, LockInv, Locked
  <1>5. AnswerInv'
    BY <1>1, <1>2 DEF TypeOK, AnswerInv, Windowed, Early, Rejects
  <1>6. WindowInv'
    BY <1>1 DEF TypeOK, WindowInv, Windowed
  <1> QED BY <1>3, <1>4, <1>5, <1>6

LEMMA CallerDiesKeeps == ASSUME ResumeInv, NEW c \in Calls, CallerDies(c) PROVE ResumeInv'
  <1> USE DEF ResumeInv
  <1>1. /\ pc[c] \notin {"idle", "died"} /\ (pc[c] # "ended" \/ c \in holders)
        /\ pc' = [pc EXCEPT ![c] = IF pc[c] = "ended" THEN "ended" ELSE "died"]
        /\ holders' = holders \ {c}
        /\ excuses' = IF c \in starting THEN excuses \cup {"callerDies"} ELSE excuses
        /\ UNCHANGED <<path, starting, up, result, rounds, releases>>
    BY DEF CallerDies, citizen, Goto
  <1>2. TypeOK'
    BY <1>1 DEF TypeOK, PCs, AllMishaps, Excuses
  <1>3. LockInv'
    BY <1>1 DEF TypeOK, LockInv, Locked
  <1>4. AnswerInv'
    BY <1>1 DEF TypeOK, AnswerInv, Windowed, Early
  <1>5. WindowInv'
    <2>1. excuses' = {} => excuses = {} /\ c \notin starting
      BY <1>1
    <2> QED BY <1>1, <2>1 DEF TypeOK, WindowInv, Windowed
  <1> QED BY <1>2, <1>3, <1>4, <1>5

-----------------------------------------------------------------------------
(* The citizen's processes *)

LEMMA ComesUpKeeps == ASSUME ResumeInv, NEW w \in Windows, ComesUp(w) PROVE ResumeInv'
  <1> USE DEF ResumeInv
  <1>1. /\ w \in starting /\ starting' = starting \ {w} /\ up' = up \cup {w} /\ path' = "live"
        /\ UNCHANGED <<excuses, holders, pc, result, rounds, releases>>
    BY DEF ComesUp
  <1>2. TypeOK' /\ Windowed' = Windowed
    BY <1>1 DEF TypeOK, Paths, Windowed
  <1>3. LockInv' /\ AnswerInv'
    BY <1>1, <1>2 DEF TypeOK, LockInv, AnswerInv
  <1>4. ASSUME excuses = {}, NEW c \in Calls, pc[c] = "launch" PROVE FALSE
    <2>1. w \in Calls /\ pc[w] = "observe"
      BY <1>1, <1>4 DEF WindowInv
    <2>2. holders = {w} /\ holders = {c}
      BY <1>4, <2>1 DEF LockInv, Locked
    <2> QED BY <1>4, <2>1, <2>2
  <1>5. WindowInv'
    BY <1>1, <1>2, <1>4 DEF WindowInv
  <1> QED BY <1>2, <1>3, <1>5

LEMMA GoesDownKeeps == ASSUME ResumeInv, NEW w \in Windows, GoesDown(w) PROVE ResumeInv'
  <1> USE DEF ResumeInv
  <1>1. /\ UNCHANGED <<excuses, holders, pc, result, rounds, releases>>
        /\ \/ w \in starting /\ starting' = starting \ {w} /\ up' = up /\ path' = path
           \/ w \in up /\ up' = up \ {w} /\ path' \in {"absent", "dead"} /\ starting' = starting
    BY DEF GoesDown
  <1>2. TypeOK' /\ Windowed' \subseteq Windowed
    BY <1>1 DEF TypeOK, Paths, Windowed
  <1>3. LockInv' /\ AnswerInv'
    BY <1>1, <1>2 DEF TypeOK, LockInv, AnswerInv
  <1>4. WindowInv'
    <2>1. CASE up' = up /\ path' = path
      BY <1>1, <1>2, <2>1 DEF WindowInv
    <2>2. CASE w \in up /\ up' = up \ {w} /\ path' \in {"absent", "dead"} /\ starting' = starting
      <3>1. excuses = {} => up' = {}
        BY <2>2 DEF WindowInv, Windowed
      <3> QED BY <1>1, <1>2, <2>2, <3>1 DEF WindowInv
    <2> QED BY <1>1, <2>1, <2>2
  <1> QED BY <1>2, <1>3, <1>4

LEMMA MishapKeeps == ASSUME ResumeInv, OperatorOpens \/ SocketLost PROVE ResumeInv'
  <1> USE DEF ResumeInv
  <1>1. CASE OperatorOpens
    <2>1. /\ Operator \notin Windowed /\ starting' = starting \cup {Operator}
          /\ excuses' = excuses \cup {"operator"}
          /\ UNCHANGED <<path, up, holders, pc, result, rounds, releases>>
      BY <1>1 DEF OperatorOpens, Windowed
    <2>2. TypeOK'
      BY <2>1 DEF TypeOK, Windows, AllMishaps, Excuses
    <2>3. LockInv' /\ AnswerInv'
      BY <2>1, ResumeConstants DEF LockInv, AnswerInv, Windowed
    <2>4. WindowInv'
      BY <2>1 DEF WindowInv
    <2> QED BY <2>2, <2>3, <2>4
  <1>2. CASE SocketLost
    <2>1. /\ path' = "absent" /\ excuses' = excuses \cup {"socketLost"}
          /\ UNCHANGED <<starting, up, holders, pc, result, rounds, releases>>
      BY <1>2 DEF SocketLost
    <2>2. TypeOK'
      BY <2>1 DEF TypeOK, Paths, AllMishaps, Excuses
    <2>3. LockInv' /\ AnswerInv' /\ WindowInv'
      BY <2>1 DEF LockInv, AnswerInv, WindowInv, Windowed
    <2> QED BY <2>2, <2>3
  <1> QED BY <1>1, <1>2

LEMMA NextResume == ResumeInv /\ [Next]_vars => ResumeInv'
  <1> SUFFICES ASSUME ResumeInv, [Next]_vars PROVE ResumeInv'
    OBVIOUS
  <1>1. CASE \E c \in Calls : Acquire(c) \/ CallerDies(c)
    BY <1>1, AcquireKeeps, CallerDiesKeeps
  <1>2. CASE \E c \in Calls : CallStep(c)
    BY <1>2, ResolveIdentityKeeps, PreflightKeeps, LaunchKeeps, ObserveKeeps, ReleaseKeeps
       DEF CallStep
  <1>3. CASE \E w \in Windows : ComesUp(w) \/ GoesDown(w)
    BY <1>3, ComesUpKeeps, GoesDownKeeps
  <1>4. CASE OperatorOpens \/ SocketLost
    BY <1>4, MishapKeeps
  <1>5. CASE UNCHANGED vars
    BY <1>5 DEF vars, citizen, ResumeInv, TypeOK, LockInv, AnswerInv, WindowInv, Windowed
  <1> QED BY <1>1, <1>2, <1>3, <1>4, <1>5 DEF Next

-----------------------------------------------------------------------------
(* The theorems *)

\* The invariant behind the theorems below: the lock is its holder's alone, a call
\* answers once, and without an excuse there is at most the window of the call that
\* observes it.
THEOREM ResumeInvariant == Spec => []ResumeInv
  <1> QED BY InitResume, NextResume, PTL DEF Spec

\* visibleResume's lock, preflight and observation: a second window on one citizen has
\* a reason outside the protocol, an observation that gave up or an orphan behind it.
THEOREM SecondWindowExcused == Spec => []SecondWindowIsExcused
  <1>1. ResumeInv => SecondWindowIsExcused
    <2> SUFFICES ASSUME ResumeInv, excuses = {} PROVE ~(Cardinality(Windowed) > 1)
      BY DEF SecondWindowIsExcused, Windowed
    <2>1. PICK w \in Windows : Windowed \subseteq {w}
      BY DEF ResumeInv, WindowInv
    <2>2. Windowed = {} \/ Windowed = {w}
      BY <2>1
    <2>3. Cardinality({}) = 0 /\ Cardinality({w}) = 1
      BY FS_EmptySet, FS_Singleton
    <2> QED BY <2>2, <2>3
  <1> QED BY <1>1, ResumeInvariant, PTL

\* Every reject code of visibleResume: the call opened no window.
THEOREM RejectsOpenNothing == Spec => []RejectOpenedNothing
  <1>1. ResumeInv => RejectOpenedNothing
    BY DEF ResumeInv, AnswerInv, RejectOpenedNothing, Windowed
  <1> QED BY <1>1, ResumeInvariant, PTL

\* The finally block: the lock is released once, and given back or the answer is an
\* error.
THEOREM LockReturns == Spec => []LockComesBack
  <1>1. ResumeInv => LockComesBack
    BY DEF ResumeInv, LockInv, AnswerInv, LockComesBack
  <1> QED BY <1>1, ResumeInvariant, PTL

\* The launcher runs under the lock: a call's window appears while it alone holds it.
THEOREM LaunchesAreLocked == Spec => LaunchIsLocked
  <1>1. ASSUME ResumeInv, [Next]_vars, NEW c \in Calls, c \notin starting, c \in starting'
        PROVE  holders = {c}
    <2>1. pc[c] = "launch"
      BY <1>1, ResumeConstants
         DEF Next, CallStep, Acquire, ResolveIdentity, Preflight, Launch, Observe, Release,
             CallerDies, ComesUp, GoesDown, OperatorOpens, SocketLost, vars, citizen
    <2> QED BY <1>1, <2>1 DEF ResumeInv, LockInv, Locked
  <1>2. ResumeInv /\ [Next]_vars
          => [\A c \in Calls : c \notin starting /\ c \in starting' => holders = {c}]_vars
    BY <1>1
  <1> QED BY <1>2, ResumeInvariant, PTL DEF Spec, LaunchIsLocked

\* acquireLock and releaseLock as the resume uses them: its steps are steps of the
\* TargetLock it shares with the dispatches of entwurf_v2.
THEOREM FollowsTheLock == Spec => Lock!Spec
  <1>1. Init => Lock!Init
    BY DEF Init, Lock!Init
  <1>2. ASSUME ResumeInv, [Next]_vars PROVE [Lock!Next]_holders
    <2>1. CASE \E c \in Calls : Acquire(c)
      BY <2>1 DEF Acquire, Lock!Next
    <2>2. CASE \E c \in Calls : CallStep(c) \/ CallerDies(c)
      <3>1. \/ UNCHANGED holders
            \/ \E c \in Calls : holders' = holders \ {c}
        BY <2>2 DEF CallStep, ResolveIdentity, Preflight, Launch, Observe, Release, CallerDies
      <3> QED BY <1>2, <3>1 DEF ResumeInv, LockInv, Lock!Next, Lock!Leave
    <2>3. CASE \/ \E w \in Windows : ComesUp(w) \/ GoesDown(w)
               \/ OperatorOpens \/ SocketLost \/ UNCHANGED vars
      BY <2>3 DEF ComesUp, GoesDown, OperatorOpens, SocketLost, vars
    <2> QED BY <1>2, <2>1, <2>2, <2>3 DEF Next
  <1> QED BY <1>1, <1>2, ResumeInvariant, PTL DEF Spec, Lock!Spec

\* Acquire, the awaits and observeSameGidSocket: a call never returns to an await, and
\* its probes are counted, so no window that flaps keeps it going.
THEOREM CallsGoForward == Spec => CallsAdvance
  <1> DEFINE Forward == \A c \in Calls :
        /\ pc'[c] # pc[c] => Await[pc[c]] < Await[pc'[c]]
        /\ rounds'[c] # rounds[c] =>
             pc[c] = "observe" /\ rounds[c] < MaxRounds /\ rounds'[c] = rounds[c] + 1
  <1>1. TypeOK /\ [Next]_vars => [Forward]_vars
    <2> SUFFICES ASSUME TypeOK, Next PROVE Forward
      OBVIOUS
    <2>0. pc \in [Calls -> PCs] /\ rounds \in [Calls -> 0..MaxRounds] /\ MaxRounds \in Nat
      BY ResumeConstants DEF TypeOK
    <2> USE <2>0 DEF Await, PCs, Goto, Answer, Finally
    <2>1. ASSUME NEW d \in Calls, Acquire(d) PROVE Forward
      BY <2>1 DEF Acquire
    <2>2. ASSUME NEW d \in Calls, ResolveIdentity(d) PROVE Forward
      BY <2>2 DEF ResolveIdentity
    <2>3. ASSUME NEW d \in Calls, Preflight(d) PROVE Forward
      <3>1. UNCHANGED rounds /\ pc[d] = "preflight"
            /\ \E l \in {"release", "launch"} : pc' = [pc EXCEPT ![d] = l]
        BY <2>3 DEF Preflight
      <3> QED BY <3>1
    <2>4. ASSUME NEW d \in Calls, Launch(d) PROVE Forward
      BY <2>4 DEF Launch
    <2>5. ASSUME NEW d \in Calls, Observe(d) PROVE Forward
      <3>1. pc[d] = "observe"
            /\ \/ UNCHANGED rounds /\ pc' = [pc EXCEPT ![d] = "release"]
               \/ UNCHANGED pc /\ rounds[d] # MaxRounds /\ rounds' = [rounds EXCEPT ![d] = @ + 1]
        BY <2>5 DEF Observe, GiveUp
      <3> QED BY <3>1
    <2>6. ASSUME NEW d \in Calls, Release(d) PROVE Forward
      BY <2>6 DEF Release
    <2>7. ASSUME NEW d \in Calls, CallerDies(d) PROVE Forward
      BY <2>7 DEF CallerDies
    <2>8. CASE \/ \E w \in Windows : ComesUp(w) \/ GoesDown(w)
               \/ OperatorOpens \/ SocketLost
      BY <2>8 DEF ComesUp, GoesDown, OperatorOpens, SocketLost
    <2> HIDE DEF Forward
    <2> QED BY <2>1, <2>2, <2>3, <2>4, <2>5, <2>6, <2>7, <2>8 DEF Next, CallStep
  <1>2. Spec => []TypeOK
    BY ResumeInvariant, PTL DEF ResumeInv
  <1> QED BY <1>1, <1>2, PTL DEF Spec, CallsAdvance
=============================================================================
