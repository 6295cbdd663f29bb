------------------------ MODULE ControlServer_proofs ------------------------
(***************************************************************************)
(* Proofs about ControlServer, for any number of pi processes and garden   *)
(* ids: ControlInv is inductive, so nobody listens elsewhere than it says, *)
(* only a crash or a refusal leaves a dead socket, and who is up is        *)
(* reachable.                                                              *)
(***************************************************************************)
EXTENDS ControlServer, TLAPS

LEMMA InitControl == Init => ControlInv
  BY ControlConstants
     DEF Init, ControlInv, TypeOK, PCs, ProcInv, DeadFilesHaveACause, HasInv, Has, BoundInv

-----------------------------------------------------------------------------
(* The session's events *)

\* Giving a process an id keeps the ids apart: one that another process has is disputed.
LEMMA AddressKeeps ==
  ASSUME ControlInv, NEW p \in Procs, NEW g \in Gids, Contested(p, g),
         resident' = [resident EXCEPT ![p] = g],
         pc' = pc \/ pc' = [pc EXCEPT ![p] = "readdir"], pc[p] = "idle",
         UNCHANGED <<sockPath, victim>>
  PROVE  HasInv'
  <1> USE DEF ControlInv
  <1>1. disputed' = disputed \cup {h \in {g} : \E q \in Procs \ {p} : Has(q, g)}
    BY DEF Contested
  <1> SUFFICES ASSUME NEW q \in Procs, NEW r \in Procs, NEW h \in Gids,
                      q # r, Has(q, h)', Has(r, h)', h \notin disputed
               PROVE  h \in disputed'
    BY <1>1 DEF HasInv
  <1>2. \A s \in Procs : Has(s, h)' => Has(s, h) \/ (s = p /\ h = g)
    BY DEF TypeOK, Has
  <1>3. h = g /\ \E s \in Procs \ {p} : Has(s, g)
    BY <1>2 DEF HasInv
  <1> QED BY <1>1, <1>3

LEMMA SessionStartKeeps ==
  ASSUME ControlInv, NEW p \in Procs, NEW g \in Gids, SessionStart(p, g)
  PROVE  ControlInv'
  <1> USE DEF ControlInv
  <1>1. /\ p \in alive /\ pc[p] = "idle"
        /\ want' = [want EXCEPT ![p] = g] /\ resident' = [resident EXCEPT ![p] = g]
        /\ pc' = [pc EXCEPT ![p] = "readdir"]
        /\ inSession' = inSession \cup {p} /\ astray' = astray \ {p}
        /\ Contested(p, g)
        /\ UNCHANGED <<entry, listening, alive, unswept, victim, server, sockPath, orphaned>>
    BY DEF SessionStart, Set, Goto
  <1>2. TypeOK'
    BY <1>1 DEF TypeOK, PCs, Contested
  <1>3. ProcInv'
    BY <1>1, ControlConstants DEF TypeOK, ProcInv
  <1>4. DeadFilesHaveACause'
    BY <1>1 DEF TypeOK, DeadFilesHaveACause
  <1>5. HasInv'
    BY <1>1, AddressKeeps
  <1>6. BoundInv'
    BY <1>1 DEF TypeOK, BoundInv, Contested
  <1> QED BY <1>2, <1>3, <1>4, <1>5, <1>6

LEMMA TurnEndKeeps ==
  ASSUME ControlInv, NEW p \in Procs, NEW g \in Gids, TurnEnd(p, g)
  PROVE  ControlInv'
  <1> USE DEF ControlInv
  <1>1. /\ pc[p] = "idle" /\ resident' = [resident EXCEPT ![p] = g]
        /\ astray' = IF resident[p] = None THEN astray ELSE astray \cup {p}
        /\ Contested(p, g)
        /\ UNCHANGED <<entry, listening, alive, pc, want, unswept, victim, server, sockPath, inSession, orphaned>>
    BY DEF TurnEnd, Set
  <1>2. TypeOK'
    BY <1>1 DEF TypeOK, Contested
  <1>3. ProcInv'
    BY <1>1, ControlConstants DEF TypeOK, ProcInv
  <1>4. DeadFilesHaveACause'
    BY <1>1 DEF DeadFilesHaveACause
  <1>5. HasInv'
    BY <1>1, AddressKeeps
  <1>6. BoundInv'
    BY <1>1 DEF BoundInv, Contested
  <1> QED BY <1>2, <1>3, <1>4, <1>5, <1>6

LEMMA SessionStopKeeps ==
  ASSUME ControlInv, NEW p \in Procs, SessionEnd(p) \/ NoAddress(p)
  PROVE  ControlInv'
  <1> USE DEF ControlInv
  <1>1. /\ p \in alive /\ pc[p] = "idle"
        /\ want' = [want EXCEPT ![p] = None]
        /\ resident' \in {resident, [resident EXCEPT ![p] = None]}
        /\ pc' = [pc EXCEPT ![p] = "stop"]
        /\ inSession' \in {inSession \cup {p}, inSession \ {p}} /\ astray' = astray \ {p}
        /\ UNCHANGED <<entry, listening, alive, unswept, victim, server, sockPath, orphaned, disputed>>
    BY DEF SessionEnd, NoAddress, Set, Goto, ProcInv
  <1>2. TypeOK'
    BY <1>1 DEF TypeOK, PCs
  <1>3. ProcInv'
    BY <1>1, ControlConstants DEF TypeOK, ProcInv
  <1>4. DeadFilesHaveACause'
    BY <1>1 DEF TypeOK, DeadFilesHaveACause
  <1>5. \A q \in Procs, h \in Gids : Has(q, h)' => Has(q, h)
    BY <1>1, ControlConstants DEF TypeOK, Has
  <1>6. HasInv' /\ BoundInv'
    BY <1>1, <1>5 DEF TypeOK, HasInv, BoundInv
  <1> QED BY <1>2, <1>3, <1>4, <1>6

-----------------------------------------------------------------------------
(* A handler that throws *)

\* A refused call that leaves the directory and the process's own state alone
GivesUp(p) == Throws(p) /\ UNCHANGED <<entry, unswept, sockPath, resident>>

\* A process that gives up where it is keeps the invariant: it has no server, or still
\* the old one, which listens on its path.
LEMMA GivesUpKeeps ==
  ASSUME ControlInv, NEW p \in Procs, GivesUp(p),
         Readdir(p) \/ StopWithout(p) \/ RemoveTarget(p) \/ Bind(p)
  PROVE  ControlInv'
  <1> USE DEF ControlInv
  <1>1. /\ pc' = [pc EXCEPT ![p] = "idle"] /\ astray' = astray \cup {p}
        /\ pc[p] \in {"readdir", "stop", "removeTarget", "bind"}
        /\ pc[p] # "readdir" => p \notin server
        /\ UNCHANGED <<entry, listening, alive, want, unswept, victim, server, sockPath, resident,
                      inSession, orphaned, disputed>>
    BY DEF GivesUp, Throws, Goto, state, Readdir, StopWithout, RemoveTarget, Bind, ProcInv
  <1>2. TypeOK'
    BY <1>1 DEF TypeOK, PCs
  <1>3. ProcInv'
    BY <1>1, ControlConstants DEF TypeOK, ProcInv
  <1>4. DeadFilesHaveACause'
    BY <1>1 DEF TypeOK, DeadFilesHaveACause
  <1>5. HasInv' /\ BoundInv'
    BY <1>1 DEF TypeOK, HasInv, Has, BoundInv
  <1> QED BY <1>2, <1>3, <1>4, <1>5

-----------------------------------------------------------------------------
(* The sweep *)

LEMMA SweepKeeps ==
  ASSUME ControlInv, NEW p \in Procs,
         (Readdir(p) /\ ~GivesUp(p)) \/ SweepProbe(p) \/ SweepDone(p)
  PROVE  ControlInv'
  <1> USE DEF ControlInv
  <1>1. /\ pc[p] \in {"readdir", "sweep"}
        /\ UNCHANGED <<entry, listening, alive, want, server, sockPath, resident, inSession,
                      astray, orphaned, disputed>>
    <2>1. CASE Readdir(p) /\ ~GivesUp(p)
      BY <2>1 DEF Readdir, GivesUp, state
    <2>2. CASE SweepProbe(p) \/ SweepDone(p)
      BY <2>2 DEF SweepProbe, SweepDone, state, history
    <2> QED BY <2>1, <2>2
  <1>2. /\ unswept' \in [Procs -> SUBSET Gids]
        /\ victim' \in [Procs -> Gids \cup {None}]
        /\ \A q \in Procs \ {p} : victim'[q] = victim[q]
    <2>1. CASE SweepProbe(p)
      BY <2>1 DEF SweepProbe, Set, TypeOK
    <2>2. CASE Readdir(p) \/ SweepDone(p)
      BY <2>2 DEF Readdir, SweepDone, Set, TypeOK
    <2> QED BY <2>1, <2>2
  <1>3. PICK label \in {"sweep", "unlinkDead", "idle", "stop"} :
          /\ pc' = [pc EXCEPT ![p] = label]
          /\ label = "unlinkDead" => victim'[p] # None
          /\ label = "idle" => p \in server /\ sockPath[p] = want[p]
    <2>1. CASE SweepProbe(p)
      <3>1. PICK g \in unswept[p] :
              (victim' = [victim EXCEPT ![p] = g] /\ pc' = [pc EXCEPT ![p] = "unlinkDead"])
              \/ (pc[p] = "sweep" /\ pc' = pc)
        BY <2>1 DEF SweepProbe, Set, Goto
      <3>2. g \in Gids
        BY DEF TypeOK
      <3>3. CASE victim' = [victim EXCEPT ![p] = g] /\ pc' = [pc EXCEPT ![p] = "unlinkDead"]
        BY <3>2, <3>3, ControlConstants DEF TypeOK
      <3>4. CASE pc[p] = "sweep" /\ pc' = pc
        <4>1. pc' = [pc EXCEPT ![p] = "sweep"]
          BY <3>4 DEF TypeOK
        <4> QED BY <4>1
      <3> QED BY <3>1, <3>3, <3>4
    <2>2. CASE Readdir(p) /\ ~GivesUp(p)
      BY <2>2 DEF Readdir, GivesUp, Goto, state
    <2>3. CASE SweepDone(p)
      BY <2>3 DEF SweepDone, Goto
    <2> QED BY <2>1, <2>2, <2>3
  <1>4. TypeOK'
    BY <1>1, <1>2, <1>3 DEF TypeOK, PCs
  <1>5. ProcInv'
    BY <1>1, <1>2, <1>3 DEF TypeOK, ProcInv
  <1>6. DeadFilesHaveACause'
    BY <1>1, <1>3 DEF TypeOK, DeadFilesHaveACause
  <1>7. \A q \in Procs, h \in Gids : Has(q, h)' => Has(q, h)
    BY <1>1, <1>2, <1>3 DEF TypeOK, Has
  <1>8. HasInv' /\ BoundInv'
    BY <1>1, <1>3, <1>7 DEF TypeOK, HasInv, BoundInv
  <1> QED BY <1>4, <1>5, <1>6, <1>8

LEMMA SweepUnlinkKeeps == ASSUME ControlInv, NEW p \in Procs, SweepUnlink(p) PROVE ControlInv'
  <1> USE DEF ControlInv
  <1>1. /\ pc[p] = "unlinkDead"
        /\ \/ /\ entry' = [entry EXCEPT ![victim[p]] = None]
              /\ disputed' = disputed \cup {g \in {victim[p]} : entry[g] \in Procs}
           \/ entry' = entry /\ disputed' = disputed
        /\ victim' = [victim EXCEPT ![p] = None]
        /\ pc' = [pc EXCEPT ![p] = "sweep"]
        /\ UNCHANGED <<listening, alive, unswept, want, server, sockPath, resident, inSession,
                      astray, orphaned>>
    BY DEF SweepUnlink, Set, Goto, Unlink, state
  <1>2. victim[p] \in Gids
    BY <1>1 DEF TypeOK, ProcInv
  <1>3. TypeOK'
    BY <1>1, <1>2 DEF TypeOK, PCs
  <1>4. ProcInv'
    BY <1>1 DEF TypeOK, ProcInv
  <1>5. DeadFilesHaveACause'
    BY <1>1, <1>2, ControlConstants DEF TypeOK, DeadFilesHaveACause
  <1>6. \A q \in Procs, h \in Gids : Has(q, h)' => Has(q, h)
    BY <1>1 DEF TypeOK, Has
  <1>7. HasInv'
    BY <1>1, <1>6 DEF HasInv
  <1>8. BoundInv'
    <2>1. CASE entry' = entry /\ disputed' = disputed
      BY <1>1, <2>1 DEF TypeOK, BoundInv
    <2>2. CASE /\ entry' = [entry EXCEPT ![victim[p]] = None]
               /\ disputed' = disputed \cup {g \in {victim[p]} : entry[g] \in Procs}
      BY <1>1, <1>2, <2>2 DEF TypeOK, BoundInv
    <2> QED BY <1>1, <2>1, <2>2
  <1> QED BY <1>3, <1>4, <1>5, <1>7, <1>8

-----------------------------------------------------------------------------
(* The stop *)

LEMMA StopWithoutKeeps ==
  ASSUME ControlInv, NEW p \in Procs, StopWithout(p), ~GivesUp(p)
  PROVE  ControlInv'
  <1> USE DEF ControlInv
  <1>1. /\ pc[p] = "stop" /\ p \notin server
        /\ IF sockPath[p] = None THEN entry' = entry ELSE entry' = [entry EXCEPT ![sockPath[p]] = None]
        /\ sockPath' = [sockPath EXCEPT ![p] = None]
        /\ resident' = [resident EXCEPT ![p] = want[p]]
        /\ pc' = [pc EXCEPT ![p] = IF want[p] = None THEN "idle" ELSE "removeTarget"]
        /\ UNCHANGED <<listening, alive, want, unswept, victim, server, inSession,
                      astray, orphaned, disputed>>
    BY DEF StopWithout, GivesUp, AfterStop, Set, Goto, Unlink
  <1>2. /\ entry' \in [Gids -> Procs \cup {None, Residue}]
        /\ \A g \in Gids : entry'[g] = entry[g] \/ (entry'[g] = None /\ sockPath[p] = g)
    BY <1>1 DEF TypeOK
  <1>3. TypeOK'
    BY <1>1, <1>2 DEF TypeOK, PCs
  <1>4. ProcInv'
    BY <1>1 DEF TypeOK, ProcInv
  <1>5. DeadFilesHaveACause'
    BY <1>1, <1>2, ControlConstants DEF TypeOK, DeadFilesHaveACause
  <1>6. \A q \in Procs, h \in Gids : Has(q, h)' => Has(q, h)
    <2>1. want[p] = None \/ want[p] = resident[p]
      BY <1>1 DEF ProcInv
    <2> QED BY <1>1, <2>1, ControlConstants DEF TypeOK, Has
  <1>7. HasInv'
    BY <1>1, <1>6 DEF HasInv
  <1>8. BoundInv'
    <2> SUFFICES ASSUME NEW q \in Procs, (q \in server /\ pc'[q] # "draining") \/ pc'[q] = "listen"
                 PROVE  entry'[sockPath'[q]] = q \/ sockPath'[q] \in disputed
      BY <1>1 DEF BoundInv
    <2>1. q # p /\ sockPath'[q] = sockPath[q] /\ pc'[q] = pc[q]
      BY <1>1 DEF TypeOK
    <2>2. sockPath[q] \in Gids
      BY <2>1, ControlConstants DEF TypeOK, ProcInv
    <2>3. sockPath[p] = sockPath[q] => sockPath[q] \in disputed
      BY <2>1, <2>2 DEF HasInv, Has
    <2> QED BY <1>2, <2>1, <2>2, <2>3 DEF BoundInv
  <1> QED BY <1>3, <1>4, <1>5, <1>7, <1>8

LEMMA CloseServerKeeps == ASSUME ControlInv, NEW p \in Procs, CloseServer(p) PROVE ControlInv'
  <1> USE DEF ControlInv
  <1>1. /\ pc[p] = "stop" /\ p \in server
        /\ victim' = [victim EXCEPT ![p] = sockPath[p]]
        /\ sockPath' = [sockPath EXCEPT ![p] = None]
        /\ \/ entry' = [entry EXCEPT ![sockPath[p]] = None] /\ orphaned' = orphaned
           \/ /\ entry' = [g \in Gids |-> IF entry[g] = p THEN Residue ELSE entry[g]]
              /\ orphaned' = orphaned \cup {g \in Gids : entry[g] = p}
        /\ listening' = [listening EXCEPT ![p] = None]
        /\ pc' = [pc EXCEPT ![p] = "draining"]
        /\ UNCHANGED <<alive, want, unswept, server, resident, inSession, astray, disputed>>
    BY DEF CloseServer, Set, Goto, Unlink
  <1>2. sockPath[p] \in Gids /\ listening[p] = sockPath[p]
    BY <1>1 DEF TypeOK, ProcInv
  <1>3. TypeOK'
    BY <1>1, <1>2 DEF TypeOK, PCs
  <1>4. ProcInv'
    BY <1>1, <1>2, ControlConstants DEF TypeOK, ProcInv
  <1>5. DeadFilesHaveACause'
    BY <1>1, <1>2, ControlConstants DEF TypeOK, DeadFilesHaveACause
  <1>6. \A q \in Procs, h \in Gids : Has(q, h)' => Has(q, h)
    BY <1>1, ControlConstants DEF TypeOK, Has
  <1>7. HasInv'
    BY <1>1, <1>6 DEF HasInv
  <1>8. BoundInv'
    <2> SUFFICES ASSUME NEW q \in Procs, (q \in server /\ pc'[q] # "draining") \/ pc'[q] = "listen"
                 PROVE  entry'[sockPath'[q]] = q \/ sockPath'[q] \in disputed
      BY <1>1 DEF BoundInv
    <2>1. q # p /\ sockPath'[q] = sockPath[q] /\ pc'[q] = pc[q]
      BY <1>1 DEF TypeOK
    <2>2. sockPath[q] \in Gids
      BY <2>1, ControlConstants DEF TypeOK, ProcInv
    <2>3. sockPath[p] = sockPath[q] => sockPath[q] \in disputed
      BY <2>1, <2>2 DEF HasInv, Has
    <2> QED BY <1>1, <1>2, <2>1, <2>2, <2>3 DEF TypeOK, BoundInv
  <1> QED BY <1>3, <1>4, <1>5, <1>7, <1>8

LEMMA DrainedKeeps == ASSUME ControlInv, NEW p \in Procs, Drained(p) PROVE ControlInv'
  <1> USE DEF ControlInv
  <1>1. /\ pc[p] = "draining" /\ server' = server \ {p}
        /\ victim' = [victim EXCEPT ![p] = None]
        /\ \/ /\ entry' = [entry EXCEPT ![victim[p]] = None]
              /\ resident' = [resident EXCEPT ![p] = want[p]] /\ astray' = astray
              /\ pc' = [pc EXCEPT ![p] = IF want[p] = None THEN "idle" ELSE "removeTarget"]
           \/ /\ entry' = entry /\ resident' = resident /\ astray' = astray \cup {p}
              /\ pc' = [pc EXCEPT ![p] = "idle"]
        /\ UNCHANGED <<listening, alive, want, unswept, sockPath, inSession, orphaned, disputed>>
    BY DEF Drained, AfterStop, Throws, Set, Goto, Unlink
  <1>2. victim[p] \in Gids /\ listening[p] = None /\ sockPath[p] = None
        /\ (want[p] = None \/ want[p] = resident[p])
    BY <1>1 DEF TypeOK, ProcInv
  <1>3. TypeOK'
    BY <1>1, <1>2 DEF TypeOK, PCs
  <1>4. ProcInv'
    BY <1>1, <1>2 DEF TypeOK, ProcInv
  <1>5. DeadFilesHaveACause'
    BY <1>1, <1>2, ControlConstants DEF TypeOK, DeadFilesHaveACause
  <1>6. \A q \in Procs, h \in Gids : Has(q, h)' => Has(q, h)
    BY <1>1, <1>2, ControlConstants DEF TypeOK, Has
  <1>7. HasInv'
    BY <1>1, <1>6 DEF HasInv
  <1>8. BoundInv'
    <2> SUFFICES ASSUME NEW q \in Procs, (q \in server' /\ pc'[q] # "draining") \/ pc'[q] = "listen"
                 PROVE  entry'[sockPath'[q]] = q \/ sockPath'[q] \in disputed
      BY <1>1 DEF BoundInv
    <2>1. q # p /\ sockPath'[q] = sockPath[q] /\ pc'[q] = pc[q] /\ (q \in server' => q \in server)
      BY <1>1 DEF TypeOK
    <2>2. sockPath[q] \in Gids
      BY <2>1, ControlConstants DEF TypeOK, ProcInv
    <2>3. victim[p] = sockPath[q] => sockPath[q] \in disputed
      BY <1>1, <2>1, <2>2 DEF HasInv, Has
    <2> QED BY <1>1, <1>2, <2>1, <2>2, <2>3 DEF TypeOK, BoundInv
  <1> QED BY <1>3, <1>4, <1>5, <1>7, <1>8

-----------------------------------------------------------------------------
(* The new server *)

LEMMA RemoveTargetKeeps ==
  ASSUME ControlInv, NEW p \in Procs, RemoveTarget(p), ~GivesUp(p)
  PROVE  ControlInv'
  <1> USE DEF ControlInv
  <1>1. /\ pc[p] = "removeTarget"
        /\ entry' = [entry EXCEPT ![want[p]] = None]
        /\ sockPath' = [sockPath EXCEPT ![p] = want[p]]
        /\ pc' = [pc EXCEPT ![p] = "bind"]
        /\ UNCHANGED <<listening, alive, want, unswept, victim, server, resident, inSession,
                      astray, orphaned, disputed>>
    BY DEF RemoveTarget, GivesUp, Set, Goto, Unlink
  <1>2. want[p] \in Gids /\ want[p] = resident[p] /\ listening[p] = None /\ p \notin server
    BY <1>1 DEF TypeOK, ProcInv
  <1>3. TypeOK'
    BY <1>1, <1>2 DEF TypeOK, PCs
  <1>4. ProcInv'
    BY <1>1, <1>2 DEF TypeOK, ProcInv
  <1>5. DeadFilesHaveACause'
    BY <1>1, <1>2, ControlConstants DEF TypeOK, DeadFilesHaveACause
  <1>6. \A q \in Procs, h \in Gids : Has(q, h)' => Has(q, h)
    BY <1>1, <1>2 DEF TypeOK, Has
  <1>7. HasInv'
    BY <1>1, <1>6 DEF HasInv
  <1>8. BoundInv'
    <2> SUFFICES ASSUME NEW q \in Procs, (q \in server /\ pc'[q] # "draining") \/ pc'[q] = "listen"
                 PROVE  entry'[sockPath'[q]] = q \/ sockPath'[q] \in disputed
      BY <1>1 DEF BoundInv
    <2>1. q # p /\ sockPath'[q] = sockPath[q] /\ pc'[q] = pc[q]
      BY <1>1, <1>2 DEF TypeOK
    <2>2. sockPath[q] \in Gids
      BY <2>1, ControlConstants DEF TypeOK, ProcInv
    <2>3. want[p] = sockPath[q] => sockPath[q] \in disputed
      BY <1>2, <2>1, <2>2 DEF HasInv, Has
    <2> QED BY <1>1, <1>2, <2>1, <2>2, <2>3 DEF TypeOK, BoundInv
  <1> QED BY <1>3, <1>4, <1>5, <1>7, <1>8

LEMMA BindKeeps == ASSUME ControlInv, NEW p \in Procs, Bind(p), ~GivesUp(p) PROVE ControlInv'
  <1> USE DEF ControlInv
  <1>1. /\ pc[p] = "bind"
        /\ UNCHANGED <<listening, alive, unswept, victim, want, server, sockPath, resident, inSession,
                      astray, orphaned, disputed>>
    BY DEF Bind, GivesUp, state
  <1>2. want[p] \in Gids /\ want[p] = sockPath[p] /\ want[p] = resident[p]
        /\ listening[p] = None /\ p \notin server /\ p \in alive
    BY <1>1 DEF TypeOK, ProcInv
  <1>3. CASE entry[want[p]] = None
    <2>1. entry' = [entry EXCEPT ![want[p]] = p] /\ pc' = [pc EXCEPT ![p] = "listen"]
      BY <1>3 DEF Bind, GivesUp, Goto, state
    <2>2. TypeOK'
      BY <1>1, <1>2, <2>1 DEF TypeOK, PCs
    <2>3. ProcInv'
      BY <1>1, <1>2, <2>1 DEF TypeOK, ProcInv
    <2>4. DeadFilesHaveACause'
      BY <1>1, <1>2, <2>1, ControlConstants DEF TypeOK, DeadFilesHaveACause
    <2>5. HasInv'
      BY <1>1, <2>1 DEF TypeOK, HasInv, Has
    <2>6. BoundInv'
      <3> SUFFICES ASSUME NEW q \in Procs, (q \in server /\ pc'[q] # "draining") \/ pc'[q] = "listen"
                   PROVE  entry'[sockPath[q]] = q \/ sockPath[q] \in disputed
        BY <1>1 DEF BoundInv
      <3>1. CASE q = p
        BY <1>2, <2>1, <3>1 DEF TypeOK
      <3>2. CASE q # p
        <4>1. pc'[q] = pc[q]
          BY <2>1, <3>2 DEF TypeOK
        <4>2. sockPath[q] \in Gids
          BY <4>1, ControlConstants DEF TypeOK, ProcInv
        <4>3. entry[sockPath[q]] = q => entry'[sockPath[q]] = q
          BY <1>2, <1>3, <2>1, <4>2, ControlConstants DEF TypeOK
        <4> QED BY <4>1, <4>3 DEF BoundInv
      <3> QED BY <3>1, <3>2
    <2> QED BY <2>2, <2>3, <2>4, <2>5, <2>6
  <1>4. CASE entry[want[p]] # None
    <2>1. entry' = entry /\ pc' = [pc EXCEPT ![p] = "idle"]
      BY <1>4 DEF Bind, Throws, Goto
    <2>2. TypeOK'
      BY <1>1, <2>1 DEF TypeOK, PCs
    <2>3. ProcInv'
      BY <1>1, <1>2, <2>1, ControlConstants DEF TypeOK, ProcInv
    <2>4. DeadFilesHaveACause'
      BY <1>1, <2>1 DEF TypeOK, DeadFilesHaveACause
    <2>5. HasInv' /\ BoundInv'
      BY <1>1, <1>2, <2>1 DEF TypeOK, HasInv, Has, BoundInv
    <2> QED BY <2>2, <2>3, <2>4, <2>5
  <1> QED BY <1>3, <1>4

LEMMA ListenKeeps == ASSUME ControlInv, NEW p \in Procs, Listen(p) PROVE ControlInv'
  <1> USE DEF ControlInv
  <1>1. /\ pc[p] = "listen"
        /\ listening' = [listening EXCEPT ![p] = want[p]]
        /\ server' = server \cup {p} /\ pc' = [pc EXCEPT ![p] = "idle"]
        /\ UNCHANGED <<entry, alive, want, unswept, victim, sockPath, resident, inSession,
                      astray, orphaned, disputed>>
    BY DEF Listen, Set, Goto, history
  <1>2. want[p] \in Gids /\ want[p] = sockPath[p] /\ want[p] = resident[p]
        /\ listening[p] = None /\ p \in alive
    BY <1>1 DEF TypeOK, ProcInv
  <1>3. TypeOK'
    BY <1>1, <1>2 DEF TypeOK, PCs
  <1>4. ProcInv'
    BY <1>1, <1>2, ControlConstants DEF TypeOK, ProcInv
  <1>5. DeadFilesHaveACause'
    BY <1>1, <1>2, ControlConstants DEF TypeOK, DeadFilesHaveACause
  <1>6. HasInv' /\ BoundInv'
    BY <1>1 DEF TypeOK, HasInv, Has, BoundInv
  <1> QED BY <1>3, <1>4, <1>5, <1>6

-----------------------------------------------------------------------------
(* Processes *)

LEMMA CrashKeeps == ASSUME ControlInv, NEW p \in Procs, Crash(p) PROVE ControlInv'
  <1> USE DEF ControlInv
  <1>1. /\ alive' = alive \ {p}
        /\ entry' = [g \in Gids |-> IF entry[g] = p THEN Residue ELSE entry[g]]
        /\ orphaned' = orphaned \cup {g \in Gids : entry[g] = p}
        /\ listening' = [listening EXCEPT ![p] = None] /\ pc' = [pc EXCEPT ![p] = "idle"]
        /\ want' = [want EXCEPT ![p] = None] /\ unswept' = [unswept EXCEPT ![p] = {}]
        /\ victim' = [victim EXCEPT ![p] = None] /\ server' = server \ {p}
        /\ sockPath' = [sockPath EXCEPT ![p] = None]
        /\ resident' = [resident EXCEPT ![p] = None]
        /\ inSession' = inSession \ {p} /\ astray' = astray \ {p}
        /\ disputed' = disputed
    BY DEF Crash, Set, Goto
  <1>2. TypeOK'
    BY <1>1 DEF TypeOK, PCs
  <1>3. ProcInv'
    BY <1>1 DEF TypeOK, ProcInv
  <1>4. DeadFilesHaveACause'
    BY <1>1, ControlConstants DEF TypeOK, DeadFilesHaveACause
  <1>5. \A q \in Procs, h \in Gids : Has(q, h)' => Has(q, h)
    BY <1>1, ControlConstants DEF TypeOK, Has
  <1>6. HasInv'
    BY <1>1, <1>5 DEF HasInv
  <1>7. BoundInv'
    <2> SUFFICES ASSUME NEW q \in Procs, (q \in server' /\ pc'[q] # "draining") \/ pc'[q] = "listen"
                 PROVE  entry'[sockPath'[q]] = q \/ sockPath'[q] \in disputed
      BY <1>1 DEF BoundInv
    <2>1. q # p /\ sockPath'[q] = sockPath[q] /\ pc'[q] = pc[q] /\ (q \in server' => q \in server)
      BY <1>1 DEF TypeOK
    <2>2. sockPath[q] \in Gids
      BY <2>1, ControlConstants DEF TypeOK, ProcInv
    <2> QED BY <1>1, <2>1, <2>2 DEF BoundInv
  <1> QED BY <1>2, <1>3, <1>4, <1>6, <1>7

LEMMA BootKeeps == ASSUME ControlInv, NEW p \in Procs, Boot(p) PROVE ControlInv'
  BY DEF Boot, state, history, ControlInv, TypeOK, ProcInv, DeadFilesHaveACause, HasInv, Has, BoundInv

LEMMA NextControl == ControlInv /\ [Next]_vars => ControlInv'
  <1> SUFFICES ASSUME ControlInv, [Next]_vars PROVE ControlInv'
    OBVIOUS
  <1>1. ASSUME NEW p \in Procs, HandlerStep(p), ~GivesUp(p) PROVE ControlInv'
    BY <1>1, SweepKeeps, SweepUnlinkKeeps, StopWithoutKeeps, CloseServerKeeps, DrainedKeeps,
       RemoveTargetKeeps, BindKeeps, ListenKeeps DEF HandlerStep
  <1>2. ASSUME NEW p \in Procs, HandlerStep(p), GivesUp(p) PROVE ControlInv'
    BY <1>2, GivesUpKeeps, SweepKeeps, SweepUnlinkKeeps, CloseServerKeeps, DrainedKeeps,
       ListenKeeps DEF HandlerStep
  <1>3. ASSUME NEW p \in Procs, SessionEvent(p) \/ Crash(p) \/ Boot(p)
        PROVE  ControlInv'
    BY <1>3, SessionStartKeeps, TurnEndKeeps, SessionStopKeeps, CrashKeeps, BootKeeps DEF SessionEvent
  <1>4. CASE UNCHANGED vars
    BY <1>4 DEF vars, state, history, ControlInv, TypeOK, ProcInv, DeadFilesHaveACause, HasInv, Has, BoundInv
  <1> QED BY <1>1, <1>2, <1>3, <1>4 DEF Next

-----------------------------------------------------------------------------
(* The theorems *)

\* The invariant behind the theorems below: a process keeps its path from its bind to
\* its own stop, unless somebody else has the id.
THEOREM ControlInvariant == Spec => []ControlInv
  <1> QED BY InitControl, NextControl, PTL DEF Spec

\* refreshServer and stopControlServer: between handlers a process listens on the
\* address it announces, and an ended session leaves nothing behind.
THEOREM ListensAsAnnounced == Spec => []ListensWhereAnnounced
  <1>1. ControlInv => ListensWhereAnnounced
    BY DEF ControlInv, ProcInv, ListensWhereAnnounced
  <1> QED BY <1>1, ControlInvariant, PTL

\* removeSocket and the close of a server: only a killed process or a refused removal
\* leaves a dead socket.
THEOREM OrderlyEndsAreClean == Spec => []DeadFilesHaveACause
  <1>1. ControlInv => DeadFilesHaveACause
    BY DEF ControlInv
  <1> QED BY <1>1, ControlInvariant, PTL

\* startControlServer: a process that is up is reachable at its path, over crashes,
\* switches and failed starts, unless its id is disputed.
THEOREM UpStaysReachable == Spec => []UpIsReachable
  <1>1. ControlInv => UpIsReachable
    BY DEF ControlInv, ProcInv, BoundInv, UpIsReachable, Up
  <1> QED BY <1>1, ControlInvariant, PTL

\* Only a bind puts something at a free path, and only removeSocket leads to a bind.
LEMMA PathsStayFree ==
  ASSUME ControlInv, NEW p \in Procs,
         \/ SessionEvent(p) \/ Crash(p) \/ Boot(p)
         \/ Readdir(p) \/ SweepProbe(p) \/ SweepUnlink(p) \/ SweepDone(p)
         \/ StopWithout(p) \/ CloseServer(p) \/ Drained(p) \/ Listen(p)
  PROVE  /\ pc'[p] # "bind"
         /\ \A q \in Procs \ {p} : pc'[q] = pc[q] /\ want'[q] = want[q]
         /\ disputed \subseteq disputed'
         /\ \A g \in Gids : entry[g] = None => entry'[g] = None
  <1> USE ControlConstants DEF ControlInv, TypeOK, Goto, Set, Unlink, Throws, state, history
  <1>1. CASE SessionEvent(p)
    BY <1>1 DEF SessionEvent, SessionStart, TurnEnd, NoAddress, SessionEnd, Contested
  <1>2. CASE Crash(p)
    BY <1>2 DEF Crash
  <1>3. CASE Boot(p)
    BY <1>3 DEF Boot, ProcInv
  <1>4. CASE Readdir(p) \/ SweepProbe(p) \/ SweepUnlink(p) \/ SweepDone(p)
    BY <1>4 DEF Readdir, SweepProbe, SweepUnlink, SweepDone
  <1>5. CASE StopWithout(p) \/ CloseServer(p) \/ Drained(p)
    BY <1>5 DEF StopWithout, CloseServer, Drained, AfterStop
  <1>6. CASE Listen(p)
    BY <1>6 DEF Listen
  <1> QED BY <1>1, <1>2, <1>3, <1>4, <1>5, <1>6

\* startControlServer: what removeSocket has cleared stays free up to the bind, so a start
\* fails on EADDRINUSE only where two processes had the id.
THEOREM BindsFindItFree == Spec => []BindFindsItFree
  <1>1. Init => BindFindsItFree
    BY DEF Init, BindFindsItFree
  <1>2. ControlInv /\ BindFindsItFree /\ [Next]_vars => BindFindsItFree'
    <2> SUFFICES ASSUME ControlInv, BindFindsItFree, NEW p \in Procs,
                        SessionEvent(p) \/ HandlerStep(p) \/ Crash(p) \/ Boot(p),
                        NEW q \in Procs, pc'[q] = "bind"
                 PROVE  entry'[want'[q]] = None \/ want'[q] \in disputed'
      BY DEF Next, vars, state, history, BindFindsItFree
    <2>0. /\ pc \in [Procs -> PCs] /\ entry \in [Gids -> Procs \cup {None, Residue}]
          /\ \A r \in Procs : pc[r] \in {"removeTarget", "bind"} => want[r] = resident[r] /\ want[r] \in Gids
      BY DEF ControlInv, TypeOK, ProcInv
    <2>1. CASE RemoveTarget(p)
      <3>1. /\ UNCHANGED <<want, disputed>> /\ pc[p] = "removeTarget"
            /\ \/ entry' = [entry EXCEPT ![want[p]] = None] /\ pc' = [pc EXCEPT ![p] = "bind"]
               \/ entry' = entry /\ pc' = [pc EXCEPT ![p] = "idle"]
        BY <2>1 DEF RemoveTarget, Throws, Goto, Unlink
      <3> QED BY <2>0, <3>1 DEF BindFindsItFree
    <2>2. CASE Bind(p)
      <3>1. /\ pc[p] = "bind" /\ UNCHANGED <<want, disputed>>
            /\ pc'[p] # "bind" /\ \A r \in Procs \ {p} : pc'[r] = pc[r]
            /\ entry' = [entry EXCEPT ![want[p]] = p] \/ entry' = entry
        BY <2>0, <2>2 DEF Bind, Throws, state, Goto
      <3>2. q # p /\ pc[q] = "bind"
        BY <3>1
      <3>3. want[q] = want[p] => want[q] \in disputed
        BY <2>0, <3>1, <3>2 DEF ControlInv, HasInv, Has
      <3> QED BY <2>0, <3>1, <3>2, <3>3 DEF BindFindsItFree
    <2>3. CASE ~RemoveTarget(p) /\ ~Bind(p)
      <3>1. /\ pc'[p] # "bind"
            /\ \A r \in Procs \ {p} : pc'[r] = pc[r] /\ want'[r] = want[r]
            /\ disputed \subseteq disputed'
            /\ \A g \in Gids : entry[g] = None => entry'[g] = None
        BY <2>3, PathsStayFree DEF HandlerStep
      <3> QED BY <2>0, <3>1 DEF BindFindsItFree
    <2> QED BY <2>1, <2>2, <2>3
  <1> QED BY <1>1, <1>2, ControlInvariant, PTL DEF Spec
=============================================================================
