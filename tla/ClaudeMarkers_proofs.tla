------------------------ MODULE ClaudeMarkers_proofs ------------------------
(***************************************************************************)
(* Proofs about ClaudeMarkers, for any number of processes, gardens and    *)
(* failures: MarkersInv is inductive, so a garden that reads as armed is   *)
(* watched and a session whose hooks work can be reached.                  *)
(***************************************************************************)
EXTENDS ClaudeMarkers, TLAPS

Right(g) == [garden |-> g, live |-> TRUE]
Held(p) == [owner |-> p, live |-> TRUE]

\* The hook has put in order what it is there for: it ran to its watch, and no later
\* one that is to arm has begun.
Settled(p) == serves[p] # None /\ ~hook[p].arms /\ "hook" \notin lapses[p]

\* No marker of a process that is gone counts, and what waits for a hook is a session.
ProcessInv ==
  \A p \in Procs :
    /\ hook[p].pc = "none" => ~hook[p].arms
    /\ hook[p].pc # "none" => serves[p] # None
    /\ sender[p].live => serves[p] # None

\* A live receiver marker, and what the dispatcher took from one, names a process.
OwnerInv ==
  /\ \A g \in Gardens : receiver[g].live => receiver[g].owner \in Procs
  /\ look = Nothing \/ look.owner \in Procs

\* A removal aims at another garden than the one the process serves, whose marker it
\* has read as its own.
RemovalInv ==
  \A p \in Procs :
    /\ hook[p].pc \in {"unlink", "receiver", "emit"} => hook[p].arms
    /\ hook[p].pc = "unlink" => hook[p].seen = p /\ sender[p].garden \notin {None, serves[p]}

\* Two processes on one garden, at any time, leave it contested.
ContestInv ==
  \A p, q \in Procs : p # q /\ serves[p] = serves[q] /\ serves[p] # None => serves[p] \in contested

\* Once settled, or once its hook has passed the write, the process's sender marker is
\* right; once settled it is watched.
SenderInv ==
  \A p \in Procs :
    /\ Settled(p) => watch[p] = serves[p]
    /\ Settled(p) \/ hook[p].pc \in {"receiver", "emit"} =>
         "sender" \in lapses[p] \/ sender[p] = Right(serves[p])

\* The same of the receiver marker, as long as nobody contests the garden.
ReceiverInv ==
  \A p \in Procs :
    Settled(p) \/ hook[p].pc = "emit" =>
      "receiver" \in lapses[p] \/ serves[p] \in contested \/ receiver[serves[p]] = Held(p)

\* The inductive invariant.
MarkersInv == TypeOK /\ ProcessInv /\ OwnerInv /\ RemovalInv /\ ContestInv /\ SenderInv /\ ReceiverInv

LEMMA InitMarkers == Init => MarkersInv
  BY MarkerConstants
     DEF Init, MarkersInv, TypeOK, Hook, NoHook, Nothing, Lapses, ProcessInv, OwnerInv, RemovalInv,
         ContestInv, SenderInv, ReceiverInv, Settled

-----------------------------------------------------------------------------
(* The host *)

LEMMA SessionStartKeeps ==
  ASSUME MarkersInv, NEW p \in Procs, NEW g \in Gardens, SessionStart(p, g)
  PROVE  MarkersInv'
  <1> USE DEF MarkersInv
  <1>1. /\ hook[p].pc = "none" /\ serves[p] # g
        /\ serves' = [serves EXCEPT ![p] = g] /\ watch' = [watch EXCEPT ![p] = None]
        /\ hook' = [hook EXCEPT ![p] = [pc |-> "begin", arms |-> TRUE, seen |-> None]]
        /\ contested' = contested \cup {h \in {g} : \E q \in Procs \ {p} : serves[q] = g}
        /\ UNCHANGED <<sender, receiver, lapses, look, faults>>
    BY DEF SessionStart, Starts, At, files
  <1>2. TypeOK'
    BY <1>1 DEF TypeOK, Hook
  <1>3. ProcessInv' /\ OwnerInv' /\ RemovalInv'
    BY <1>1, MarkerConstants DEF TypeOK, ProcessInv, OwnerInv, RemovalInv
  <1>4. ContestInv'
    BY <1>1 DEF TypeOK, ContestInv
  <1>5. SenderInv'
    BY <1>1 DEF TypeOK, SenderInv, Settled
  <1>6. ReceiverInv'
    BY <1>1 DEF TypeOK, ReceiverInv, Settled
  <1> QED BY <1>2, <1>3, <1>4, <1>5, <1>6

LEMMA EventKeeps ==
  ASSUME MarkersInv, NEW p \in Procs, NEW arms \in BOOLEAN, Event(p, arms)
  PROVE  MarkersInv'
  <1> USE DEF MarkersInv
  <1>1. /\ hook[p].pc = "none" /\ serves[p] # None
        /\ hook' = [hook EXCEPT ![p] = [pc |-> "begin", arms |-> arms, seen |-> None]]
        /\ UNCHANGED <<serves, watch, sender, receiver, lapses, look, contested, faults>>
    BY DEF Event, Starts, At, files
  <1>2. TypeOK'
    BY <1>1 DEF TypeOK, Hook
  <1>3. ProcessInv' /\ OwnerInv' /\ RemovalInv' /\ ContestInv'
    BY <1>1 DEF TypeOK, ProcessInv, OwnerInv, RemovalInv, ContestInv
  <1>4. \A q \in Procs : Settled(q)' => Settled(q)
    BY <1>1 DEF TypeOK, ProcessInv, Settled
  <1>5. SenderInv'
    BY <1>1, <1>4 DEF TypeOK, SenderInv
  <1>6. ReceiverInv'
    BY <1>1, <1>4 DEF TypeOK, ReceiverInv
  <1> QED BY <1>2, <1>3, <1>5, <1>6

LEMMA ExitKeeps == ASSUME MarkersInv, NEW p \in Procs, Exit(p) PROVE MarkersInv'
  <1> USE DEF MarkersInv
  <1>1. /\ serves' = [serves EXCEPT ![p] = None] /\ watch' = [watch EXCEPT ![p] = None]
        /\ sender' = [sender EXCEPT ![p] = [garden |-> sender[p].garden, live |-> FALSE]]
        /\ receiver' = [g \in Gardens |->
             IF receiver[g].owner = p THEN [owner |-> p, live |-> FALSE] ELSE receiver[g]]
        /\ hook' = [hook EXCEPT ![p] = [pc |-> "none", arms |-> FALSE, seen |-> None]]
        /\ lapses' = [lapses EXCEPT ![p] = {}]
        /\ UNCHANGED <<look, contested, faults>>
    BY DEF Exit, NoHook
  <1>2. TypeOK'
    BY <1>1 DEF TypeOK, Hook, Lapses
  <1>3. ProcessInv' /\ OwnerInv' /\ RemovalInv' /\ ContestInv'
    BY <1>1 DEF TypeOK, ProcessInv, OwnerInv, RemovalInv, ContestInv
  <1>4. SenderInv'
    BY <1>1 DEF TypeOK, SenderInv, Settled
  <1>5. ReceiverInv'
    <2> SUFFICES ASSUME NEW q \in Procs, Settled(q)' \/ hook'[q].pc = "emit"
                 PROVE  "receiver" \in lapses'[q] \/ serves'[q] \in contested'
                          \/ receiver'[serves'[q]] = Held(q)
      BY DEF ReceiverInv, Held
    <2>1. q # p
      BY <1>1 DEF TypeOK, Settled
    <2>2. Settled(q) \/ hook[q].pc = "emit"
      BY <1>1, <2>1 DEF TypeOK, Settled
    <2>3. serves[q] \in Gardens
      BY <2>2 DEF TypeOK, ProcessInv, Settled
    <2>4. receiver[serves[q]] = Held(q) => receiver'[serves[q]] = Held(q)
      BY <1>1, <2>1, <2>3 DEF Held
    <2> QED BY <1>1, <2>1, <2>2, <2>4 DEF TypeOK, ReceiverInv
  <1> QED BY <1>2, <1>3, <1>4, <1>5

-----------------------------------------------------------------------------
(* The hook *)

\* A hook that ends or goes on without a write: what was right stays right.
LEMMA HookFailsKeeps == ASSUME MarkersInv, NEW p \in Procs, HookFails(p) PROVE MarkersInv'
  <1> USE DEF MarkersInv
  <1>1. /\ hook[p].pc # "none" /\ faults < MaxFaults /\ faults' = faults + 1
        /\ hook' = [hook EXCEPT ![p] = [pc |-> "none", arms |-> FALSE, seen |-> None]]
        /\ lapses' = [lapses EXCEPT ![p] =
                        IF hook[p].arms THEN lapses[p] \cup {"hook"} ELSE lapses[p]]
        /\ UNCHANGED <<serves, watch, sender, receiver, look, contested>>
    BY DEF HookFails, Fault, Ends, NoHook, files
  <1>2. TypeOK'
    BY <1>1, MarkerConstants DEF TypeOK, Hook, Lapses
  <1>3. ProcessInv' /\ OwnerInv' /\ RemovalInv' /\ ContestInv'
    BY <1>1 DEF TypeOK, ProcessInv, OwnerInv, RemovalInv, ContestInv
  <1>4. \A q \in Procs : Settled(q)' => Settled(q) /\ lapses'[q] = lapses[q]
    BY <1>1 DEF TypeOK, Settled
  <1>5. SenderInv' /\ ReceiverInv'
    BY <1>1, <1>4 DEF TypeOK, SenderInv, ReceiverInv
  <1> QED BY <1>2, <1>3, <1>5

LEMMA UnownedKeeps == ASSUME MarkersInv, NEW p \in Procs, Unowned(p) PROVE MarkersInv'
  <1> USE DEF MarkersInv
  <1>1. /\ hook[p].pc = "begin" /\ faults < MaxFaults /\ faults' = faults + 1
        /\ hook' = [hook EXCEPT ![p] =
             IF hook[p].arms THEN [pc |-> "emit", arms |-> hook[p].arms, seen |-> None]
                             ELSE [pc |-> "none", arms |-> FALSE, seen |-> None]]
        /\ lapses' = [lapses EXCEPT ![p] = lapses[p] \cup {"sender", "receiver"}]
        /\ UNCHANGED <<serves, watch, sender, receiver, look, contested>>
    BY DEF Unowned, Fault, Goto, At, Ends, NoHook, files
  <1>2. TypeOK'
    BY <1>1, MarkerConstants DEF TypeOK, Hook, Lapses
  <1>3. ProcessInv' /\ OwnerInv' /\ RemovalInv' /\ ContestInv'
    BY <1>1 DEF TypeOK, ProcessInv, OwnerInv, RemovalInv, ContestInv
  <1>4. \A q \in Procs : Settled(q)' => Settled(q)
    BY <1>1 DEF TypeOK, Settled
  <1>5. SenderInv' /\ ReceiverInv'
    BY <1>1, <1>4 DEF TypeOK, SenderInv, ReceiverInv
  <1> QED BY <1>2, <1>3, <1>5

LEMMA ReadsKeeps == ASSUME MarkersInv, NEW p \in Procs, Reads(p) PROVE MarkersInv'
  <1> USE DEF MarkersInv
  <1>1. hook[p].pc = "begin" /\ UNCHANGED <<serves, watch, sender, receiver, lapses, look, contested, faults>>
    BY DEF Reads, files
  <1>2. hook[p] \in Hook
    BY DEF TypeOK
  <1>3. PICK r \in Hook : /\ hook' = [hook EXCEPT ![p] = r]
                          /\ r.pc \in {"unlink", "sender"} /\ (r.arms <=> hook[p].arms)
                          /\ r.pc = "unlink" => /\ r.arms /\ r.seen = p
                                                /\ sender[p].garden \notin {None, serves[p]}
    <2>1. CASE hook[p].arms /\ Left(p) /\ Owns(p, sender[p].garden)
      <3> DEFINE r == [pc |-> "unlink", arms |-> TRUE, seen |-> p]
      <3>1. hook' = [hook EXCEPT ![p] = r]
        BY <2>1 DEF Reads, Owns, At
      <3>2. r \in Hook
        BY DEF Hook
      <3> QED BY <2>1, <3>1, <3>2 DEF Left
    <2>2. CASE ~(hook[p].arms /\ Left(p) /\ Owns(p, sender[p].garden))
      <3> DEFINE r == [pc |-> "sender", arms |-> hook[p].arms, seen |-> None]
      <3>1. hook' = [hook EXCEPT ![p] = r]
        BY <2>2 DEF Reads, Goto, At
      <3>2. r \in Hook
        BY <1>2 DEF Hook
      <3> QED BY <3>1, <3>2
    <2> QED BY <2>1, <2>2
  <1>4. TypeOK'
    BY <1>1, <1>3 DEF TypeOK
  <1>5. ProcessInv' /\ OwnerInv' /\ RemovalInv' /\ ContestInv'
    BY <1>1, <1>3 DEF TypeOK, ProcessInv, OwnerInv, RemovalInv, ContestInv
  <1>6. \A q \in Procs : Settled(q)' => Settled(q)
    BY <1>1, <1>3 DEF TypeOK, Settled
  <1>7. SenderInv' /\ ReceiverInv'
    BY <1>1, <1>3, <1>6 DEF TypeOK, SenderInv, ReceiverInv
  <1> QED BY <1>4, <1>5, <1>7

\* The removal is of another garden's marker; whoever else's it is has company.
LEMMA UnlinkKeeps == ASSUME MarkersInv, NEW p \in Procs, Unlink(p) PROVE MarkersInv'
  <1> USE DEF MarkersInv
  <1> DEFINE g == sender[p].garden
  <1>1. /\ hook[p].pc = "unlink" /\ UNCHANGED <<serves, watch, sender, lapses, look>>
        /\ hook' = [hook EXCEPT ![p] = [pc |-> "sender", arms |-> hook[p].arms, seen |-> None]]
    BY DEF Unlink, Goto, At
  <1>2. hook[p].arms /\ hook[p].seen = p /\ g \in Gardens /\ g # serves[p]
    BY <1>1 DEF RemovalInv, TypeOK
  <1>3. /\ \/ /\ receiver' = [receiver EXCEPT ![g] = [owner |-> None, live |-> FALSE]]
              /\ contested' = IF receiver[g].owner \in {None, p} THEN contested
                                                                 ELSE contested \cup {g}
              /\ faults' = faults
           \/ /\ faults < MaxFaults /\ faults' = faults + 1
              /\ UNCHANGED <<receiver, contested>>
    BY <1>2 DEF Unlink, Fault
  <1> HIDE DEF g
  <1>4. TypeOK'
    <2>1. hook' \in [Procs -> Hook]
      BY <1>1 DEF TypeOK, Hook
    <2>2. receiver' \in [Gardens -> [owner : Procs \cup {None}, live : BOOLEAN]]
      <3>1. [owner |-> None, live |-> FALSE] \in [owner : Procs \cup {None}, live : BOOLEAN]
        OBVIOUS
      <3> QED BY <1>3, <3>1 DEF TypeOK
    <2>3. faults' \in 0..MaxFaults /\ contested' \subseteq Gardens
      BY <1>2, <1>3, MarkerConstants DEF TypeOK
    <2> QED BY <1>1, <2>1, <2>2, <2>3 DEF TypeOK
  <1>5. ProcessInv' /\ OwnerInv' /\ RemovalInv' /\ ContestInv'
    <2>1. ProcessInv' /\ RemovalInv'
      BY <1>1 DEF TypeOK, ProcessInv, RemovalInv
    <2>2. \A h \in Gardens : receiver'[h].live => receiver'[h] = receiver[h]
      BY <1>3 DEF TypeOK
    <2>3. OwnerInv'
      BY <1>1, <2>2 DEF OwnerInv
    <2>4. contested \subseteq contested'
      BY <1>3
    <2>5. ContestInv'
      BY <1>1, <2>4 DEF ContestInv
    <2> QED BY <2>1, <2>3, <2>5
  <1>6. \A q \in Procs : Settled(q)' => Settled(q) /\ q # p
    BY <1>1, <1>2 DEF TypeOK, Settled
  <1>7. SenderInv'
    BY <1>1, <1>6 DEF TypeOK, SenderInv
  <1>8. ReceiverInv'
    <2> SUFFICES ASSUME NEW q \in Procs, Settled(q)' \/ hook'[q].pc = "emit"
                 PROVE  "receiver" \in lapses'[q] \/ serves'[q] \in contested'
                          \/ receiver'[serves'[q]] = Held(q)
      BY DEF ReceiverInv, Held
    <2>1. q # p /\ (Settled(q) \/ hook[q].pc = "emit")
      BY <1>1, <1>6 DEF TypeOK
    <2>2. serves[q] \in Gardens
      BY <2>1 DEF TypeOK, ProcessInv, Settled
    <2>3. \/ "receiver" \in lapses[q] \/ serves[q] \in contested
          \/ receiver[serves[q]] = Held(q)
      BY <2>1 DEF ReceiverInv
    <2>4. contested \subseteq contested'
      BY <1>3
    <2>5. CASE receiver[serves[q]] = Held(q) /\ serves[q] = g
      <3>1. receiver[g].owner \notin {None, p}
        BY <2>1, <2>5, MarkerConstants DEF Held
      <3>2. receiver' = receiver \/ g \in contested'
        BY <1>3, <3>1
      <3> QED BY <1>1, <2>5, <3>2
    <2>6. CASE receiver[serves[q]] = Held(q) /\ serves[q] # g
      BY <1>1, <1>2, <1>3, <2>2, <2>6 DEF TypeOK
    <2> QED BY <1>1, <2>3, <2>4, <2>5, <2>6
  <1> QED BY <1>4, <1>5, <1>7, <1>8

LEMMA SenderKeeps == ASSUME MarkersInv, NEW p \in Procs, Sender(p) PROVE MarkersInv'
  <1> USE DEF MarkersInv
  <1>1. /\ hook[p].pc = "sender" /\ UNCHANGED <<serves, watch, receiver, look, contested>>
        /\ hook' = [hook EXCEPT ![p] =
             IF hook[p].arms THEN [pc |-> "receiver", arms |-> hook[p].arms, seen |-> None]
                             ELSE [pc |-> "none", arms |-> FALSE, seen |-> None]]
        /\ \/ /\ sender' = [sender EXCEPT ![p] = Right(serves[p])]
              /\ lapses' = [lapses EXCEPT ![p] = lapses[p] \ {"sender"}]
              /\ faults' = faults
           \/ /\ lapses' = [lapses EXCEPT ![p] = lapses[p] \cup {"sender"}]
              /\ faults < MaxFaults /\ faults' = faults + 1 /\ sender' = sender
    BY DEF Sender, Fault, Goto, At, Ends, NoHook, Right
  <1>2. serves[p] \in Gardens
    BY <1>1 DEF TypeOK, ProcessInv
  <1>3. TypeOK'
    <2>1. hook' \in [Procs -> Hook]
      BY <1>1 DEF TypeOK, Hook
    <2>2. Right(serves[p]) \in [garden : Gardens \cup {None}, live : BOOLEAN]
      BY <1>2 DEF Right
    <2>3. sender' \in [Procs -> [garden : Gardens \cup {None}, live : BOOLEAN]]
      BY <1>1, <2>2 DEF TypeOK
    <2>4. faults' \in 0..MaxFaults /\ lapses' \in [Procs -> SUBSET Lapses]
      BY <1>1, MarkerConstants DEF TypeOK, Lapses
    <2> QED BY <1>1, <2>1, <2>3, <2>4 DEF TypeOK
  <1>4. ProcessInv' /\ OwnerInv' /\ RemovalInv' /\ ContestInv'
    BY <1>1, <1>2, MarkerConstants DEF TypeOK, ProcessInv, OwnerInv, RemovalInv, ContestInv, Right
  <1>5. \A q \in Procs : /\ Settled(q)' <=> Settled(q)
                         /\ q # p => lapses'[q] = lapses[q] /\ sender'[q] = sender[q]
                                     /\ hook'[q] = hook[q]
                         /\ "receiver" \in lapses[q] => "receiver" \in lapses'[q]
    BY <1>1 DEF TypeOK, Settled
  <1>6. "sender" \in lapses'[p] \/ sender'[p] = Right(serves[p])
    BY <1>1 DEF TypeOK
  <1>7. SenderInv'
    BY <1>1, <1>5, <1>6 DEF SenderInv, Right
  <1>8. ReceiverInv'
    BY <1>1, <1>5 DEF TypeOK, ReceiverInv, Held
  <1> QED BY <1>3, <1>4, <1>7, <1>8

LEMMA ReceiverKeeps == ASSUME MarkersInv, NEW p \in Procs, Receiver(p) PROVE MarkersInv'
  <1> USE DEF MarkersInv
  <1>1. /\ hook[p].pc = "receiver" /\ UNCHANGED <<serves, watch, sender, look, contested>>
        /\ hook' = [hook EXCEPT ![p] = [pc |-> "emit", arms |-> hook[p].arms, seen |-> None]]
        /\ \/ /\ receiver' = [receiver EXCEPT ![serves[p]] = Held(p)]
              /\ lapses' = [lapses EXCEPT ![p] = lapses[p] \ {"receiver"}]
              /\ faults' = faults
           \/ /\ lapses' = [lapses EXCEPT ![p] = lapses[p] \cup {"receiver"}]
              /\ faults < MaxFaults /\ faults' = faults + 1 /\ receiver' = receiver
    BY DEF Receiver, Fault, Goto, At, Held
  <1>2. serves[p] \in Gardens /\ hook[p].arms
    BY <1>1 DEF TypeOK, ProcessInv, RemovalInv
  <1>3. TypeOK'
    <2>1. hook' \in [Procs -> Hook]
      BY <1>1 DEF TypeOK, Hook
    <2>2. Held(p) \in [owner : Procs \cup {None}, live : BOOLEAN]
      BY DEF Held
    <2>3. receiver' \in [Gardens -> [owner : Procs \cup {None}, live : BOOLEAN]]
      BY <1>1, <2>2 DEF TypeOK
    <2>4. faults' \in 0..MaxFaults /\ lapses' \in [Procs -> SUBSET Lapses]
      BY <1>1, MarkerConstants DEF TypeOK, Lapses
    <2> QED BY <1>1, <2>1, <2>3, <2>4 DEF TypeOK
  <1>4. ProcessInv' /\ OwnerInv' /\ RemovalInv' /\ ContestInv'
    <2>1. ProcessInv' /\ RemovalInv' /\ ContestInv'
      BY <1>1, <1>2 DEF TypeOK, ProcessInv, RemovalInv, ContestInv
    <2>2. Held(p).owner = p
      BY DEF Held
    <2>3. \A h \in Gardens : receiver'[h].owner = p \/ receiver'[h] = receiver[h]
      BY <1>1, <2>2 DEF TypeOK
    <2>4. OwnerInv'
      BY <1>1, <2>3 DEF OwnerInv
    <2> QED BY <2>1, <2>4
  <1>5. \A q \in Procs : /\ Settled(q)' <=> Settled(q)
                         /\ q # p => lapses'[q] = lapses[q] /\ hook'[q] = hook[q]
                         /\ "sender" \in lapses[q] => "sender" \in lapses'[q]
    BY <1>1 DEF TypeOK, Settled
  <1>6. SenderInv'
    BY <1>1, <1>5 DEF TypeOK, SenderInv, Right
  <1>7. ReceiverInv'
    <2> SUFFICES ASSUME NEW q \in Procs, Settled(q)' \/ hook'[q].pc = "emit"
                 PROVE  "receiver" \in lapses'[q] \/ serves'[q] \in contested'
                          \/ receiver'[serves'[q]] = Held(q)
      BY DEF ReceiverInv, Held
    <2>1. CASE q = p
      BY <1>1, <1>2, <2>1 DEF TypeOK
    <2>2. CASE q # p /\ serves[q] = serves[p]
      BY <1>1, <1>2, <2>2, MarkerConstants DEF ContestInv
    <2>3. CASE q # p /\ serves[q] # serves[p]
      <3>1. Settled(q) \/ hook[q].pc = "emit"
        BY <1>5, <2>3
      <3>2. serves[q] \in Gardens
        BY <3>1 DEF TypeOK, ProcessInv, Settled
      <3> QED BY <1>1, <1>5, <2>3, <3>1, <3>2 DEF TypeOK, ReceiverInv
    <2> QED BY <2>1, <2>2, <2>3
  <1> QED BY <1>3, <1>4, <1>6, <1>7

LEMMA EmitKeeps == ASSUME MarkersInv, NEW p \in Procs, Emit(p) PROVE MarkersInv'
  <1> USE DEF MarkersInv
  <1>1. /\ hook[p].pc = "emit" /\ UNCHANGED <<serves, sender, receiver, look, contested, faults>>
        /\ hook' = [hook EXCEPT ![p] = [pc |-> "none", arms |-> FALSE, seen |-> None]]
        /\ watch' = [watch EXCEPT ![p] = serves[p]]
        /\ lapses' = [lapses EXCEPT ![p] = lapses[p] \ {"hook"}]
    BY DEF Emit, Ends, NoHook, files
  <1>2. TypeOK'
    BY <1>1 DEF TypeOK, Hook, Lapses
  <1>3. ProcessInv' /\ OwnerInv' /\ RemovalInv' /\ ContestInv'
    BY <1>1 DEF TypeOK, ProcessInv, OwnerInv, RemovalInv, ContestInv
  <1>4. \A q \in Procs : /\ q # p => lapses'[q] = lapses[q] /\ hook'[q] = hook[q] /\ watch'[q] = watch[q]
                         /\ {"sender", "receiver"} \cap lapses[q] \subseteq lapses'[q]
    BY <1>1 DEF TypeOK
  <1>5. watch'[p] = serves[p]
    BY <1>1 DEF TypeOK
  <1>6. SenderInv'
    BY <1>1, <1>4, <1>5 DEF SenderInv, Settled, Right
  <1>7. ReceiverInv'
    BY <1>1, <1>4 DEF ReceiverInv, Settled, Held
  <1> QED BY <1>2, <1>3, <1>6, <1>7

LEMMA LookKeeps ==
  ASSUME MarkersInv, (\E g \in Gardens : ReadReceiver(g)) \/ JoinSender
  PROVE  MarkersInv'
  <1> USE DEF MarkersInv
  <1>1. UNCHANGED <<serves, watch, sender, receiver, hook, lapses, contested, faults>>
    BY DEF ReadReceiver, JoinSender, files
  <1>2. look' \in [garden : Gardens \cup {None}, owner : Procs \cup {None}]
    <2>1. CASE JoinSender
      BY <2>1 DEF JoinSender, Nothing
    <2>2. CASE \E g \in Gardens : ReadReceiver(g)
      BY <2>2 DEF ReadReceiver, TypeOK
    <2> QED BY <2>1, <2>2
  <1>3. TypeOK'
    BY <1>1, <1>2 DEF TypeOK
  <1>4. OwnerInv'
    BY <1>1 DEF OwnerInv, ReadReceiver, JoinSender, Nothing
  <1>5. ProcessInv' /\ RemovalInv' /\ ContestInv' /\ SenderInv' /\ ReceiverInv'
    BY <1>1 DEF ProcessInv, RemovalInv, ContestInv, SenderInv, ReceiverInv, Settled, Right, Held
  <1> QED BY <1>3, <1>4, <1>5

LEMMA NextMarkers == MarkersInv /\ [Next]_vars => MarkersInv'
  <1> SUFFICES ASSUME MarkersInv, [Next]_vars PROVE MarkersInv'
    OBVIOUS
  <1>1. ASSUME NEW p \in Procs, HookStep(p) \/ HookFails(p) \/ Exit(p) PROVE MarkersInv'
    BY <1>1, UnownedKeeps, ReadsKeeps, UnlinkKeeps, SenderKeeps, ReceiverKeeps, EmitKeeps,
       HookFailsKeeps, ExitKeeps DEF HookStep
  <1>2. ASSUME NEW p \in Procs,
               (\E g \in Gardens : SessionStart(p, g)) \/ (\E arms \in BOOLEAN : Event(p, arms))
        PROVE  MarkersInv'
    BY <1>2, SessionStartKeeps, EventKeeps
  <1>3. CASE UNCHANGED vars
    BY <1>3 DEF vars, files, MarkersInv, TypeOK, ProcessInv, OwnerInv, RemovalInv, ContestInv,
                SenderInv, ReceiverInv, Settled
  <1> QED BY <1>1, <1>2, <1>3, LookKeeps DEF Next

-----------------------------------------------------------------------------
(* The theorems *)

\* The invariant behind the theorems below: what a hook has put in order stays in order
\* until the next arming hook begins, the session ends, or somebody contests the garden.
THEOREM MarkersInvariant == Spec => []MarkersInv
  <1> QED BY InitMarkers, NextMarkers, PTL DEF Spec

\* resolveMailboxReceiverFacts: whenever the join of the two markers finds a garden
\* armed, the owner watches it, or waits for its hook, or its hook failed.
THEOREM MailIsWatched == Spec => []ArmedIsWatched
  <1>1. MarkersInv => ArmedIsWatched
    <2> SUFFICES ASSUME MarkersInv, look # Nothing,
                        ServesGarden(look.owner, look.garden), hook[look.owner].pc = "none",
                        lapses[look.owner] \cap {"hook", "sender"} = {}
                 PROVE  watch[look.owner] = look.garden
      BY DEF ArmedIsWatched
    <2>1. look.owner \in Procs
      BY DEF MarkersInv, OwnerInv
    <2>2. Settled(look.owner)
      BY <2>1 DEF MarkersInv, ProcessInv, Settled, ServesGarden
    <2>3. watch[look.owner] = serves[look.owner] /\ sender[look.owner] = Right(serves[look.owner])
      BY <2>1, <2>2 DEF MarkersInv, SenderInv
    <2> QED BY <2>3 DEF ServesGarden, Right
  <1> QED BY <1>1, MarkersInvariant, PTL

\* removeMetaReceiverMarker and the writes of the hook: a session whose hooks work keeps
\* both its markers, whatever the hooks of other processes retire.
THEOREM StaysReachable == Spec => []ReachableStays
  <1>1. MarkersInv => ReachableStays
    BY DEF MarkersInv, ProcessInv, SenderInv, ReceiverInv, Settled, ReachableStays, Right, Held
  <1> QED BY <1>1, MarkersInvariant, PTL
=============================================================================
