--------------------------- MODULE ControlServer ---------------------------
(***************************************************************************)
(* The control sockets of the resident pi sessions (entwurf-control.ts):   *)
(* refreshServer, startControlServer with its stale-socket sweep,          *)
(* stopControlServer, session_shutdown and the turn-end refresh.  One      *)
(* directory entry per garden id; every system call is an action, so that  *)
(* the sweeps, starts and stops of different pi processes interleave, and  *)
(* every one may be refused: what throws ends the handler where it is.     *)
(*                                                                         *)
(* Nothing stops two processes from attaching to one garden id: the record *)
(* gives the same native session the same id.                              *)
(***************************************************************************)
EXTENDS Naturals, FiniteSets

CONSTANTS
  Procs,   \* pi processes with --entwurf-control
  Gids,    \* garden ids, one per pi session
  None

\* a socket file without its process
Residue == "residue"

ASSUME ControlConstants == None \notin Gids \cup Procs /\ Residue \notin Procs \cup {None}

VARIABLES
  entry,     \* per garden id the directory entry: None, the process that bound it, or Residue
  listening, \* per process the id its listener is bound to, None without a listener
  alive,     \* the running processes
  pc,        \* what each process's lifecycle handler is doing
  want,      \* the id the running handler starts on, None when it only stops
  unswept,   \* the entries its sweep has yet to probe
  victim,    \* the id whose socket its sweep found dead, or the one a stop removes
  server,    \* the processes with a server object in their SocketState
  sockPath,  \* the socketPath of their SocketState
  resident,  \* the garden id each process announces as its address
  inSession  \* the processes between a session_start and its shutdown

\* what happened so far, for the properties only
VARIABLES
  astray,    \* the processes whose last session event ended on a refused call, or whose
             \* address a turn's end moved away from their listener
  orphaned,  \* the ids whose socket a killed process or a refused removal left behind
  disputed   \* the ids two processes had at one time, or a sweep took from a live one

state == <<want, server, sockPath, resident, inSession>>
history == <<astray, orphaned, disputed>>
vars == <<entry, listening, alive, pc, unswept, victim, state, history>>

PCs == {"idle", "readdir", "sweep", "unlinkDead", "stop", "draining", "removeTarget", "bind", "listen"}

TypeOK ==
  /\ entry \in [Gids -> Procs \cup {None, Residue}]
  /\ listening \in [Procs -> Gids \cup {None}]
  /\ alive \in SUBSET Procs
  /\ pc \in [Procs -> PCs]
  /\ want \in [Procs -> Gids \cup {None}]
  /\ unswept \in [Procs -> SUBSET Gids]
  /\ victim \in [Procs -> Gids \cup {None}]
  /\ server \in SUBSET Procs
  /\ sockPath \in [Procs -> Gids \cup {None}]
  /\ resident \in [Procs -> Gids \cup {None}]
  /\ inSession \in SUBSET Procs
  /\ astray \in SUBSET Procs
  /\ orphaned \in SUBSET Gids
  /\ disputed \in SUBSET Gids

Init ==
  /\ entry = [g \in Gids |-> None]
  /\ listening = [p \in Procs |-> None]
  /\ alive = Procs
  /\ pc = [p \in Procs |-> "idle"]
  /\ want = [p \in Procs |-> None]
  /\ unswept = [p \in Procs |-> {}]
  /\ victim = [p \in Procs |-> None]
  /\ server = {}
  /\ sockPath = [p \in Procs |-> None]
  /\ resident = [p \in Procs |-> None]
  /\ inSession = {}
  /\ astray = {}
  /\ orphaned = {}
  /\ disputed = {}

Goto(p, label) == pc' = [pc EXCEPT ![p] = label]

\* unlink of a socket path: whatever is there goes, ENOENT is fine
Unlink(g) == entry' = [entry EXCEPT ![g] = None]

Set(f, p, v) == [f EXCEPT ![p] = v]

-----------------------------------------------------------------------------
(* The session's events: refreshServer, session_shutdown, turn_end *)

\* what a process still has to do with an id, until its stop is over
Has(q, g) ==
  \/ resident[q] = g \/ sockPath[q] = g
  \/ pc[q] = "draining" /\ victim[q] = g

\* an id another process has as well
Contested(p, g) == disputed' = disputed \cup {h \in {g} : \E q \in Procs \ {p} : Has(q, g)}

\* birthResidentCitizen gave the session its address, announced before the start.
SessionStart(p, g) ==
  /\ p \in alive /\ pc[p] = "idle"
  /\ want' = Set(want, p, g)
  /\ resident' = Set(resident, p, g)
  /\ inSession' = inSession \cup {p}
  /\ astray' = astray \ {p}
  /\ Goto(p, "readdir")
  /\ Contested(p, g)
  /\ UNCHANGED <<entry, listening, alive, unswept, victim, server, sockPath, orphaned>>

\* The store gives the session no address: the old one goes once the stop is over.
NoAddress(p) ==
  /\ p \in alive /\ pc[p] = "idle"
  /\ want' = Set(want, p, None)
  /\ inSession' = inSession \cup {p}
  /\ astray' = astray \ {p}
  /\ Goto(p, "stop")
  /\ UNCHANGED <<entry, listening, alive, unswept, victim, server, sockPath, resident, orphaned, disputed>>

\* mutant: the shutdown does not wait for the stop, the process exits under it
SessionEnd_Unawaited(p) ==
  /\ pc[p] = "idle" /\ p \in inSession
  /\ alive' = alive \ {p}
  /\ entry' = [g \in Gids |-> IF entry[g] = p THEN Residue ELSE entry[g]]
  /\ listening' = Set(listening, p, None)
  /\ server' = server \ {p}
  /\ resident' = Set(resident, p, None)
  /\ sockPath' = Set(sockPath, p, None)
  /\ inSession' = inSession \ {p}
  /\ UNCHANGED <<pc, want, unswept, victim, history>>

\* session_shutdown: the address goes first
SessionEnd(p) ==
  /\ pc[p] = "idle" /\ p \in inSession
  /\ want' = Set(want, p, None)
  /\ resident' = Set(resident, p, None)
  /\ inSession' = inSession \ {p}
  /\ astray' = astray \ {p}
  /\ Goto(p, "stop")
  /\ UNCHANGED <<entry, listening, alive, unswept, victim, server, sockPath, orphaned, disputed>>

\* turn_end attaches the session to its record again and starts nothing.  The id is
\* the one it has, the first one of a session that was born without, or another one
\* when the record was cut from under it.
TurnEnd(p, g) ==
  /\ pc[p] = "idle" /\ p \in inSession /\ resident[p] # g
  /\ resident' = Set(resident, p, g)
  /\ astray' = IF resident[p] = None THEN astray ELSE astray \cup {p}
  /\ Contested(p, g)
  /\ UNCHANGED <<entry, listening, alive, pc, want, unswept, victim, server, sockPath, inSession, orphaned>>

-----------------------------------------------------------------------------
(* A directory call is refused (EACCES, EPERM, EROFS): the handler rejects. *)

Throws(p) ==
  /\ astray' = astray \cup {p}
  /\ Goto(p, "idle")

-----------------------------------------------------------------------------
(* startControlServer: gcStaleSockets *)

\* mkdir and readdir; a throw leaves the old server up under the new address
Readdir(p) ==
  /\ pc[p] = "readdir"
  /\ \/ /\ unswept' = Set(unswept, p, {g \in Gids : entry[g] # None})
        /\ Goto(p, "sweep")
        /\ UNCHANGED astray
     \/ Throws(p) /\ UNCHANGED unswept
  /\ UNCHANGED <<entry, listening, alive, victim, state, orphaned, disputed>>

\* A connect is refused where nobody listens, also between a peer's bind and its
\* listen; a loaded peer may time out.
Refused(g) == ~ \E q \in Procs : entry[g] = q /\ listening[q] = g

\* a slow answer is inconclusive and leaves the entry alone
SweepProbe(p) ==
  /\ pc[p] = "sweep"
  /\ \E g \in unswept[p] :
       /\ unswept' = Set(unswept, p, unswept[p] \ {g})
       /\ \/ Refused(g) /\ victim' = Set(victim, p, g) /\ Goto(p, "unlinkDead")
          \/ UNCHANGED <<victim, pc>>
  /\ UNCHANGED <<entry, listening, alive, state, history>>

\* a refused unlink is swallowed
SweepUnlink(p) ==
  /\ pc[p] = "unlinkDead"
  /\ \/ /\ Unlink(victim[p])
        /\ disputed' = disputed \cup {g \in {victim[p]} : entry[g] \in Procs}
     \/ UNCHANGED <<entry, disputed>>
  /\ victim' = Set(victim, p, None)
  /\ Goto(p, "sweep")
  /\ UNCHANGED <<listening, alive, unswept, state, astray, orphaned>>

\* mutant: any running server is good enough, whatever its address
SweepDone_KeepsServer(p) ==
  /\ pc[p] = "sweep" /\ unswept[p] = {}
  /\ Goto(p, IF p \in server THEN "idle" ELSE "stop")
  /\ UNCHANGED <<entry, listening, alive, unswept, victim, state, history>>

\* A server already on this address is kept, any other is stopped first.
SweepDone(p) ==
  /\ pc[p] = "sweep" /\ unswept[p] = {}
  /\ Goto(p, IF p \in server /\ sockPath[p] = want[p] THEN "idle" ELSE "stop")
  /\ UNCHANGED <<entry, listening, alive, unswept, victim, state, history>>

-----------------------------------------------------------------------------
(* stopControlServer *)

\* The stop is over: go on to the start, if there is one, or give the address up.
AfterStop(p) ==
  /\ Goto(p, IF want[p] = None THEN "idle" ELSE "removeTarget")
  /\ resident' = Set(resident, p, want[p])
  /\ UNCHANGED astray

\* without a server object: remove what an earlier failed start left behind
StopWithout(p) ==
  /\ pc[p] = "stop" /\ p \notin server
  /\ \/ /\ IF sockPath[p] = None THEN UNCHANGED entry ELSE Unlink(sockPath[p])
        /\ sockPath' = Set(sockPath, p, None)
        /\ AfterStop(p)
     \/ /\ sockPath[p] # None
        /\ Throws(p)
        /\ UNCHANGED <<entry, sockPath, resident>>
  /\ UNCHANGED <<listening, alive, want, unswept, victim, server, inSession, orphaned, disputed>>

\* server.close(): the listener goes at once and takes the path it was bound to
\* with it, whoever bound that since, unless the unlink is refused, which close()
\* does not tell; open connections delay the callback
CloseServer(p) ==
  /\ pc[p] = "stop" /\ p \in server
  /\ victim' = Set(victim, p, sockPath[p])
  /\ sockPath' = Set(sockPath, p, None)
  /\ \/ Unlink(sockPath[p]) /\ UNCHANGED orphaned
     \/ /\ entry' = [g \in Gids |-> IF entry[g] = p THEN Residue ELSE entry[g]]
        /\ orphaned' = orphaned \cup {g \in Gids : entry[g] = p}
  /\ listening' = Set(listening, p, None)
  /\ Goto(p, "draining")
  /\ UNCHANGED <<alive, want, unswept, server, resident, inSession, astray, disputed>>

\* mutant: the server object is kept after its close
Drained_KeepsServer(p) ==
  /\ pc[p] = "draining"
  /\ Unlink(victim[p])
  /\ victim' = Set(victim, p, None)
  /\ AfterStop(p)
  /\ UNCHANGED <<listening, alive, want, unswept, server, sockPath, inSession, orphaned, disputed>>

\* the last connection is gone; removeSocket of the old path
Drained(p) ==
  /\ pc[p] = "draining"
  /\ server' = server \ {p}
  /\ victim' = Set(victim, p, None)
  /\ \/ Unlink(victim[p]) /\ AfterStop(p)
     \/ Throws(p) /\ UNCHANGED <<entry, resident>>
  /\ UNCHANGED <<listening, alive, want, unswept, sockPath, inSession, orphaned, disputed>>

-----------------------------------------------------------------------------
(* startControlServer: the new server *)

\* mutant: the path of a dead predecessor is not cleared first
RemoveTarget_Skips(p) ==
  /\ pc[p] = "removeTarget"
  /\ sockPath' = Set(sockPath, p, want[p])
  /\ Goto(p, "bind")
  /\ UNCHANGED <<entry, listening, alive, want, unswept, victim, server, resident, inSession, history>>

\* removeSocket, whoever has the path; then the state takes the new path
RemoveTarget(p) ==
  /\ pc[p] = "removeTarget"
  /\ \/ /\ Unlink(want[p])
        /\ sockPath' = Set(sockPath, p, want[p])
        /\ Goto(p, "bind")
        /\ UNCHANGED astray
     \/ Throws(p) /\ UNCHANGED <<entry, sockPath>>
  /\ UNCHANGED <<listening, alive, want, unswept, victim, server, resident, inSession, orphaned, disputed>>

\* A bind that fails rejects, on EADDRINUSE or on a directory that refuses it: the
\* handler throws with socketPath set and no server.
Bind(p) ==
  /\ pc[p] = "bind"
  /\ \/ /\ entry[want[p]] = None
        /\ entry' = [entry EXCEPT ![want[p]] = p]
        /\ Goto(p, "listen")
        /\ UNCHANGED astray
     \/ entry[want[p]] # None /\ Goto(p, "idle") /\ UNCHANGED <<entry, astray>>
     \/ Throws(p) /\ UNCHANGED entry
  /\ UNCHANGED <<listening, alive, unswept, victim, state, orphaned, disputed>>

Listen(p) ==
  /\ pc[p] = "listen"
  /\ listening' = Set(listening, p, want[p])
  /\ server' = server \cup {p}
  /\ Goto(p, "idle")
  /\ UNCHANGED <<entry, alive, want, unswept, victim, sockPath, resident, inSession, history>>

-----------------------------------------------------------------------------

\* A killed process leaves its socket file behind.
Crash(p) ==
  /\ p \in alive
  /\ alive' = alive \ {p}
  /\ entry' = [g \in Gids |-> IF entry[g] = p THEN Residue ELSE entry[g]]
  /\ orphaned' = orphaned \cup {g \in Gids : entry[g] = p}
  /\ listening' = Set(listening, p, None)
  /\ Goto(p, "idle")
  /\ want' = Set(want, p, None)
  /\ unswept' = Set(unswept, p, {})
  /\ victim' = Set(victim, p, None)
  /\ server' = server \ {p}
  /\ sockPath' = Set(sockPath, p, None)
  /\ resident' = Set(resident, p, None)
  /\ inSession' = inSession \ {p}
  /\ astray' = astray \ {p}
  /\ UNCHANGED disputed

\* a new pi process
Boot(p) ==
  /\ p \notin alive
  /\ alive' = alive \cup {p}
  /\ UNCHANGED <<entry, listening, pc, unswept, victim, state, history>>

HandlerStep(p) ==
  \/ Readdir(p) \/ SweepProbe(p) \/ SweepUnlink(p) \/ SweepDone(p)
  \/ StopWithout(p) \/ CloseServer(p) \/ Drained(p)
  \/ RemoveTarget(p) \/ Bind(p) \/ Listen(p)

SessionEvent(p) ==
  \/ \E g \in Gids : SessionStart(p, g) \/ TurnEnd(p, g)
  \/ NoAddress(p) \/ SessionEnd(p)

Next == \E p \in Procs : SessionEvent(p) \/ HandlerStep(p) \/ Crash(p) \/ Boot(p)

Spec == Init /\ [][Next]_vars

\* Every await of a handler settles: system calls return, and clients close or
\* time out, so that a closing server drains.
FairSpec == Spec /\ \A p \in Procs : WF_vars(HandlerStep(p))

-----------------------------------------------------------------------------
(* Properties *)

Up(p) == pc[p] = "idle" /\ p \in server

\* Between handlers a process listens on the address it announces and on no other,
\* so a replaced session leaves no listener behind that receives for it; a session
\* that ended keeps no listener, no server object and no claim to a path.  Only a
\* process gone astray has a listener elsewhere, still its only one.
ListensWhereAnnounced ==
  \A p \in Procs : pc[p] = "idle" =>
    /\ listening[p] # None =>
         /\ p \in server /\ listening[p] = sockPath[p]
         /\ listening[p] = resident[p] \/ p \in astray
    /\ resident[p] = None =>
         /\ listening[p] = None /\ p \notin server
         /\ sockPath[p] = None \/ p \in astray

\* Every socket file has a listener behind it, or one about to listen; only a
\* killed process or a removal the system refused leaves a dead one, so an orderly
\* shutdown needs no sweep.
DeadFilesHaveACause ==
  \A g \in Gids :
    /\ entry[g] = Residue => g \in orphaned
    /\ entry[g] \in Procs => LET p == entry[g] IN
         p \in alive /\ (listening[p] = g \/ (pc[p] = "listen" /\ want[p] = g))

\* A process that is up can be reached at its path, over crashes, session switches,
\* refused calls and failed starts, of its predecessors too, unless two processes had
\* its id at one time or a sweep took the path from a live one; and that path is the
\* one it announces, unless it went astray.
UpIsReachable ==
  \A p \in Procs : Up(p) =>
    /\ entry[sockPath[p]] = p \/ sockPath[p] \in disputed
    /\ sockPath[p] = resident[p] \/ p \in astray

\* The sweep reclaims dead sockets only: a live peer's socket survives it.
SweepSparesTheLiving ==
  [][\A p \in Procs : pc[p] = "unlinkDead" /\ pc'[p] = "sweep" => Refused(victim[p])]_vars

\* A start comes up on its path, whatever a dead predecessor left there, unless its
\* own process dies, a call of its own is refused or another one has the id as well.
StartComesUp ==
  \A p \in Procs : pc[p] = "removeTarget" ~>
    Up(p) \/ p \notin alive \/ p \in astray \/ resident[p] \in disputed

-----------------------------------------------------------------------------
(* Why the first three hold: an inductive invariant. *)

\* A handler knows its session, the server it has and the path that goes with it.
ProcInv ==
  \A p \in Procs :
    /\ pc[p] # "idle" => p \in alive
    /\ p \in inSession => p \in alive
    /\ pc[p] # "idle" /\ want[p] # None => want[p] = resident[p]
    /\ p \in server /\ pc[p] # "draining" => sockPath[p] # None /\ listening[p] = sockPath[p]
    /\ p \notin server \/ pc[p] = "draining" => listening[p] = None
    /\ pc[p] = "idle" /\ p \in server => sockPath[p] = resident[p] \/ p \in astray
    /\ pc[p] = "idle" /\ resident[p] = None =>
         p \notin server /\ (sockPath[p] = None \/ p \in astray)
    /\ pc[p] \notin {"idle", "stop", "draining"} => want[p] # None
    /\ pc[p] \in {"removeTarget", "bind", "listen"} => p \notin server
    /\ pc[p] \in {"bind", "listen"} => sockPath[p] = want[p]
    /\ pc[p] = "draining" => p \in server /\ sockPath[p] = None
    /\ pc[p] \in {"draining", "unlinkDead"} => victim[p] # None

\* Two processes have an id only if it is disputed.
HasInv ==
  \A p, q \in Procs, g \in Gids : p # q /\ Has(p, g) /\ Has(q, g) => g \in disputed

\* Whoever has bound its path keeps it up to its own stop, unless it is disputed.
BoundInv ==
  \A p \in Procs :
    (p \in server /\ pc[p] # "draining") \/ pc[p] = "listen" =>
      entry[sockPath[p]] = p \/ sockPath[p] \in disputed

ControlInv ==
  /\ TypeOK
  /\ ProcInv
  /\ DeadFilesHaveACause
  /\ HasInv
  /\ BoundInv

\* The safety half of StartComesUp: a bind finds its path free, so a start that was not
\* contested never ends in EADDRINUSE, whatever was at the path before.
BindFindsItFree ==
  \A p \in Procs : pc[p] = "bind" => entry[want[p]] = None \/ want[p] \in disputed
=============================================================================
