------------------------- MODULE MetaSession_proofs -------------------------
(***************************************************************************)
(* Proofs about the two stores of meta-session.ts.  MetaStore, for any     *)
(* births, dispatches, ids and cuts: StoreInv is inductive, so no          *)
(* generation gives a native session two addresses, twins were written by  *)
(* births that overlapped, and a birth that was told of its success keeps  *)
(* its record.  Mailbox, for any messages, reads and doorbells: MailboxInv *)
(* is inductive, so the files implement an inbox whose messages are taken  *)
(* once.                                                                   *)
(***************************************************************************)
EXTENDS MetaStore, Mailbox, TLAPS

-----------------------------------------------------------------------------
(* Mailbox *)

\* The mailbox is empty at the start.
LEMMA MailboxStart == MailboxInit => MailboxInv
  <1> SUFFICES ASSUME MailboxInit PROVE MailboxInv
    OBVIOUS
  <1>1. MailboxTypeOK
    BY DEF MailboxInit, MailboxTypeOK, Actors, Suffixes
  <1>2. \A r \in Readers : got[r] = {} /\ pc[r] = "idle"
    BY DEF MailboxInit, Actors
  <1>3. \A m \in Messages : suffix[m] = "none"
    BY DEF MailboxInit
  <1> QED BY <1>1, <1>2, <1>3 DEF MailboxInv

\* An enqueue, a read or a doorbell moves a file forward, and no read takes what another took.
LEMMA MailboxStep == MailboxInv /\ [MailboxNext]_mailboxVars => MailboxInv'
  <1> SUFFICES ASSUME MailboxInv, [MailboxNext]_mailboxVars PROVE MailboxInv'
    OBVIOUS
  <1> USE MailboxConstants DEF MailboxInv, MailboxTypeOK, Actors, Suffixes, Unread, Files, Goto, Rename
  <1>1. ASSUME NEW m \in Messages,
               Create(m) \/ EnqueueStep(m) \/ EnqueueFails(m)
        PROVE  MailboxInv'
    <2>1. CASE Create(m)
      BY <2>1 DEF Create
    <2>2. CASE EnqueueStep(m) \/ EnqueueFails(m)
      <3>1. /\ UNCHANGED <<suffix, todo, current, got, torn, announced>>
            /\ body' \in SUBSET Messages /\ rung' \in BOOLEAN
            /\ \E l \in {"stamp", "poke", "done", "threw"} : pc' = [pc EXCEPT ![m] = l]
        BY <2>2 DEF EnqueueStep, Write, Stamp, Poke, EnqueueFails
      <3> QED BY <3>1
    <2> QED BY <1>1, <2>1, <2>2
  <1>2. ASSUME NEW r \in Readers, ListInbox(r) PROVE MailboxInv'
    BY <1>2 DEF ListInbox, Listing
  <1>3. ASSUME NEW r \in Readers, ReadFile(r) PROVE MailboxInv'
    BY <1>3 DEF ReadFile
  <1>4. ASSUME NEW r \in Readers, Archive(r) PROVE MailboxInv'
    BY SMTT(30), <1>4 DEF Archive
  <1>5. ASSUME NEW r \in Readers, ReadAll(r) \/ StampRead(r) PROVE MailboxInv'
    BY <1>5 DEF ReadAll, StampRead
  <1>6. ASSUME NEW d \in Doorbells, Ring(d) \/ Announce(d) PROVE MailboxInv'
    <2>1. /\ UNCHANGED <<suffix, body, todo, current, got, torn>>
          /\ announced' \in SUBSET Messages /\ rung' \in BOOLEAN
          /\ \E l \in {"list", "idle"} : pc' = [pc EXCEPT ![d] = l]
      BY <1>6 DEF Ring, Announce
    <2> QED BY <2>1
  <1>7. ASSUME NEW d \in Doorbells, ListFresh(d) PROVE MailboxInv'
    BY <1>7 DEF ListFresh, Listing
  <1>8. ASSUME NEW d \in Doorbells, Move(d) PROVE MailboxInv'
    BY <1>8 DEF Move
  <1>9. CASE UNCHANGED mailboxVars
    BY <1>9 DEF mailboxVars
  <1> QED BY <1>1, <1>2, <1>3, <1>4, <1>5, <1>6, <1>7, <1>8, <1>9 DEF MailboxNext, ReadStep, DoorbellStep

\* MailboxInv holds in every state of a mailbox, for any messages, reads and doorbells.
THEOREM MailboxInvariant == MailboxSpec => []MailboxInv
  <1> QED BY MailboxStart, MailboxStep, PTL DEF MailboxSpec

\* No message is returned by two calls of readMetaInbox, whatever doorbells do between
\* its listing and its renames.
THEOREM ReturnedToOneRead == MailboxSpec => []ReturnedOnce
  <1>1. MailboxInv => ReturnedOnce
    BY DEF MailboxInv, ReturnedOnce, Returned
  <1> QED BY <1>1, MailboxInvariant, PTL

\* The files implement the inbox: the only steps that callers can tell are the creation of
\* a file by enqueueMetaMessage and its rename to .read by readMetaInbox.
THEOREM MailboxImplements == MailboxSpec => ImplementsInbox
  <1> DEFINE Sent == {m \in Messages : suffix[m] # "none"}
  <1>1. MailboxInit => Box!Init
    BY DEF MailboxInit, Box!Init
  <1>2. MailboxInv /\ [MailboxNext]_mailboxVars => [Box!Next]_<<Sent, got>>
    <2> SUFFICES ASSUME MailboxInv, [MailboxNext]_mailboxVars, UNCHANGED <<Sent, got>> => FALSE
                 PROVE  Box!Next
      OBVIOUS
    <2> USE MailboxConstants DEF MailboxInv, MailboxTypeOK, Actors, Suffixes, Unread, Files, Goto, Rename
    <2>1. ASSUME NEW m \in Messages, Create(m) PROVE Box!Next
      <3>1. Sent' = Sent \cup {m} /\ m \notin Sent /\ UNCHANGED got
        BY <2>1 DEF Create
      <3> QED BY <3>1 DEF Box!Next, Box!Send
    <2>2. ASSUME NEW r \in Readers, Archive(r) PROVE Box!Next
      <3> DEFINE m == current[r][1]
      <3>1. m \in Messages /\ current[r][2] \in Unread
        BY <2>2 DEF Archive
      <3>2. CASE suffix[m] = current[r][2]
        <4>1. got' = [got EXCEPT ![r] = @ \cup {m}] /\ suffix' = [suffix EXCEPT ![m] = "read"]
          BY <2>2, <3>2 DEF Archive
        <4>2. m \in Sent /\ Sent' = Sent
          BY <3>1, <3>2, <4>1
        <4>3. \A s \in Readers : m \notin got[s]
          BY <3>1, <3>2
        <4> HIDE DEF m, Sent
        <4> QED BY <3>1, <4>1, <4>2, <4>3 DEF Box!Next, Box!Take, Sent
      <3>3. CASE suffix[m] # current[r][2]
        BY <2>2, <3>3 DEF Archive
      <3> QED BY <3>2, <3>3
    <2>3. ASSUME NEW d \in Doorbells, Move(d) PROVE FALSE
      <3>1. Sent' = Sent
        BY <2>3 DEF Move
      <3> QED BY <2>3, <3>1 DEF Move
    <2>4. ASSUME \/ \E m \in Messages : EnqueueStep(m) \/ EnqueueFails(m)
                 \/ \E r \in Readers : ListInbox(r) \/ ReadFile(r) \/ ReadAll(r) \/ StampRead(r)
                 \/ \E d \in Doorbells : Ring(d) \/ ListFresh(d) \/ Announce(d)
                 \/ UNCHANGED mailboxVars
          PROVE  FALSE
      <3>1. UNCHANGED <<suffix, got>>
        BY <2>4 DEF EnqueueStep, Write, Stamp, Poke, EnqueueFails, ListInbox, ReadFile, ReadAll,
           StampRead, Ring, ListFresh, Announce, mailboxVars
      <3> QED BY <3>1
    <2> QED BY <2>1, <2>2, <2>3, <2>4 DEF MailboxNext, ReadStep, DoorbellStep
  <1> QED BY <1>1, <1>2, MailboxInvariant, PTL DEF MailboxSpec, ImplementsInbox, Box!Spec

\* The doorbell.  What is read stays read.
LEMMA ReadStays ==
  ASSUME MailboxInv, [MailboxNext]_mailboxVars, NothingRead'
  PROVE  NothingRead
  <1> SUFFICES ASSUME NEW m \in Messages, suffix[m] = "read" PROVE FALSE
    BY DEF NothingRead
  <1> USE MailboxConstants DEF MailboxInv, MailboxTypeOK, Files, Unread, Rename
  <1>1. suffix'[m] = "read"
    <2>1. ASSUME NEW n \in Messages, Create(n) PROVE suffix'[m] = "read"
      BY <2>1 DEF Create
    <2>2. ASSUME NEW r \in Readers, Archive(r) PROVE suffix'[m] = "read"
      <3>1. current[r] \in Files
        BY <2>2 DEF Archive
      <3>2. current[r][1] \in Messages
        BY <3>1
      <3>3. suffix' = suffix \/ suffix' = [suffix EXCEPT ![current[r][1]] = "read"]
        BY <2>2 DEF Archive
      <3> QED BY <3>2, <3>3
    <2>3. ASSUME NEW d \in Doorbells, Move(d) PROVE suffix'[m] = "read"
      <3>1. PICK f \in todo[d] : \/ suffix[f[1]] = "msg" /\ suffix' = [suffix EXCEPT ![f[1]] = "delivered"]
                                 \/ suffix' = suffix
        BY <2>3 DEF Move
      <3> QED BY <3>1
    <2>4. ASSUME \/ \E n \in Messages : EnqueueStep(n) \/ EnqueueFails(n)
                 \/ \E r \in Readers : ListInbox(r) \/ ReadFile(r) \/ ReadAll(r) \/ StampRead(r)
                 \/ \E d \in Doorbells : Ring(d) \/ ListFresh(d) \/ Announce(d)
                 \/ UNCHANGED mailboxVars
          PROVE  suffix' = suffix
      BY <2>4 DEF EnqueueStep, Write, Stamp, Poke, EnqueueFails, ListInbox, ReadFile, ReadAll,
         StampRead, Ring, ListFresh, Announce, mailboxVars
    <2> QED BY <2>1, <2>2, <2>3, <2>4 DEF MailboxNext, ReadStep, DoorbellStep
  <1> QED BY <1>1 DEF NothingRead

\* Enqueues and reads keep what the doorbell owes.
LEMMA OthersKeepNotices ==
  ASSUME MailboxInv, NothingRead', ListedIsFresh, \A m \in Messages : FileDue(m),
         \/ \E m \in Messages : Create(m) \/ EnqueueStep(m) \/ EnqueueFails(m)
         \/ \E r \in Readers : ListInbox(r) \/ ReadStep(r)
  PROVE  ListedIsFresh' /\ \A m \in Messages : FileDue(m)'
  <1> USE MailboxConstants DEF MailboxInv, MailboxTypeOK, Actors, Goto, Rename
  <1>1. ASSUME NEW n \in Messages, Create(n)
        PROVE  ListedIsFresh' /\ \A m \in Messages : FileDue(m)'
    <2>1. /\ suffix[n] = "none" /\ suffix' = [suffix EXCEPT ![n] = "msg"]
          /\ pc' = [pc EXCEPT ![n] = "write"] /\ UNCHANGED <<rung, announced, todo>>
      BY <1>1 DEF Create
    <2>2. ListedIsFresh'
      BY <2>1 DEF ListedIsFresh
    <2>3. ASSUME NEW m \in Messages PROVE FileDue(m)'
      BY <2>1 DEF FileDue
    <2> QED BY <2>2, <2>3
  <1>2. ASSUME NEW n \in Messages, EnqueueStep(n) \/ EnqueueFails(n)
        PROVE  ListedIsFresh' /\ \A m \in Messages : FileDue(m)'
    <2>1. /\ UNCHANGED <<suffix, announced, todo>> /\ pc[n] # "idle" /\ (rung => rung')
          /\ \E l \in {"stamp", "poke", "done", "threw"} :
               pc' = [pc EXCEPT ![n] = l] /\ (l = "done" => rung')
      BY <1>2 DEF EnqueueStep, Write, Stamp, Poke, EnqueueFails
    <2>2. ListedIsFresh'
      BY <2>1 DEF ListedIsFresh
    <2>3. ASSUME NEW m \in Messages PROVE FileDue(m)'
      BY <2>1 DEF FileDue
    <2> QED BY <2>2, <2>3
  <1>3. ASSUME NEW r \in Readers, ListInbox(r) \/ ReadStep(r)
        PROVE  ListedIsFresh' /\ \A m \in Messages : FileDue(m)'
    <2>1. /\ UNCHANGED <<rung, announced>>
          /\ \A a \in Actors \ {r} : pc'[a] = pc[a]
          /\ \A d \in Doorbells : todo'[d] = todo[d]
      BY <1>3 DEF ListInbox, ReadStep, ReadFile, Archive, ReadAll, StampRead
    <2>2. suffix' = suffix
      <3>1. ASSUME Archive(r) PROVE suffix' = suffix
        <4>1. current[r][1] \in Messages
          BY <3>1 DEF Archive, Files
        <4>2. suffix' = suffix \/ suffix' = [suffix EXCEPT ![current[r][1]] = "read"]
          BY <3>1 DEF Archive
        <4> QED BY <4>1, <4>2 DEF NothingRead
      <3> QED BY <1>3, <3>1 DEF ListInbox, ReadStep, ReadFile, ReadAll, StampRead
    <2>3. ListedIsFresh'
      BY <2>1, <2>2 DEF ListedIsFresh
    <2>4. ASSUME NEW m \in Messages PROVE FileDue(m)'
      BY <2>1, <2>2 DEF FileDue
    <2> QED BY <2>3, <2>4
  <1> QED BY <1>1, <1>2, <1>3

\* The doorbell itself: it announces all it has delivered before it rests.
LEMMA DoorbellKeepsNotices ==
  ASSUME OneDoorbell, MailboxInv, NothingRead, ListedIsFresh, \A m \in Messages : FileDue(m),
         NEW d \in Doorbells, DoorbellStep(d)
  PROVE  ListedIsFresh' /\ \A m \in Messages : FileDue(m)'
  <1> USE MailboxConstants DEF MailboxInv, MailboxTypeOK, Actors, Goto, Rename
  <1>0. \A e \in Doorbells : e = d
    BY DEF OneDoorbell
  <1>1. CASE Ring(d)
    <2>1. /\ UNCHANGED <<suffix, announced, todo>> /\ pc[d] = "idle"
          /\ pc' = [pc EXCEPT ![d] = "list"]
      BY <1>1 DEF Ring
    <2>2. ListedIsFresh'
      BY <2>1 DEF ListedIsFresh
    <2>3. ASSUME NEW m \in Messages PROVE FileDue(m)'
      BY <1>0, <2>1 DEF FileDue
    <2> QED BY <2>2, <2>3
  <1>2. CASE ListFresh(d)
    <2> DEFINE fresh == {f \in Listing : f[2] = "msg"}
    <2>1. /\ UNCHANGED <<suffix, announced, rung>> /\ pc[d] = "list"
          /\ todo' = [todo EXCEPT ![d] = fresh]
          /\ pc' = [pc EXCEPT ![d] = IF fresh = {} THEN "idle" ELSE "move"]
      BY <1>2 DEF ListFresh
    <2>2. \A m \in Messages : suffix[m] = "msg" => <<m, "msg">> \in fresh
      BY DEF Listing, Unread
    <2>3. \A f \in fresh : f[2] = "msg" /\ suffix[f[1]] = "msg"
      BY DEF Listing
    <2> HIDE DEF fresh
    <2>4. ListedIsFresh'
      BY <1>0, <2>1, <2>3 DEF ListedIsFresh
    <2>5. ASSUME NEW m \in Messages PROVE FileDue(m)'
      <3>1. pc'[m] = pc[m] /\ suffix' = suffix /\ announced' = announced
        BY <2>1
      <3>2. suffix[m] = "delivered" => m \in announced
        BY <1>0, <2>1 DEF FileDue
      <3>3. suffix[m] = "msg" => pc'[d] = "move" /\ <<m, "msg">> \in todo'[d]
        BY <2>1, <2>2
      <3> QED BY <3>1, <3>2, <3>3 DEF FileDue
    <2> QED BY <2>4, <2>5
  <1>3. CASE Move(d)
    <2>1. PICK f \in todo[d] :
            /\ suffix' = [suffix EXCEPT ![f[1]] = "delivered"]
            /\ todo' = [todo EXCEPT ![d] = @ \ {f}]
            /\ UNCHANGED <<pc, rung, announced>> /\ pc[d] = "move"
      BY <1>3 DEF Move, ListedIsFresh
    <2>2. \A g \in todo[d] : g \in Files /\ g[2] = "msg" /\ suffix[g[1]] = "msg"
      BY DEF ListedIsFresh
    <2>3. \A g \in todo[d] \ {f} : g[1] # f[1]
      BY <2>2 DEF Files
    <2>4. ListedIsFresh'
      <3>1. todo'[d] = todo[d] \ {f}
        BY <2>1
      <3>2. ASSUME NEW g \in todo[d] \ {f} PROVE g[2] = "msg" /\ suffix'[g[1]] = "msg"
        BY <2>1, <2>2, <2>3 DEF Files
      <3> QED BY <1>0, <3>1, <3>2 DEF ListedIsFresh
    <2>5. ASSUME NEW m \in Messages PROVE FileDue(m)'
      <3>1. CASE m = f[1]
        BY <2>1, <2>2, <3>1 DEF FileDue, Files
      <3>2. CASE m # f[1]
        <4>1. suffix'[m] = suffix[m]
          BY <2>1, <3>2
        <4>2. <<m, "msg">> \in todo[d] => <<m, "msg">> \in todo'[d]
          BY <2>1, <3>2
        <4>3. FileDue(m)
          OBVIOUS
        <4> QED BY <1>0, <2>1, <4>1, <4>2, <4>3 DEF FileDue
      <3> QED BY <3>1, <3>2
    <2> QED BY <2>4, <2>5
  <1>4. CASE Announce(d)
    <2>1. /\ UNCHANGED <<suffix, rung, todo>> /\ pc[d] = "move" /\ todo[d] = {}
          /\ announced' = announced \cup {m \in Messages : suffix[m] = "delivered"}
          /\ pc' = [pc EXCEPT ![d] = "idle"]
      BY <1>4 DEF Announce
    <2>2. ListedIsFresh'
      BY <2>1 DEF ListedIsFresh
    <2>3. ASSUME NEW m \in Messages PROVE FileDue(m)'
      BY <1>0, <2>1 DEF FileDue
    <2> QED BY <2>2, <2>3
  <1> QED BY <1>1, <1>2, <1>3, <1>4 DEF DoorbellStep

\* With one doorbell at a time, and as long as no read takes messages, every enqueue that
\* succeeded is announced or on its way to be: no poke that fell together with another, no
\* failed neighbour and no doorbell that had listed already leaves it behind.
THEOREM NoticesUnderWay == ASSUME OneDoorbell PROVE MailboxSpec => []NoticeIsUnderWay
  <1>1. MailboxInit => DoorbellInv
    BY MailboxConstants DEF MailboxInit, DoorbellInv, ListedIsFresh, FileDue, Actors
  <1>2. MailboxInv /\ DoorbellInv /\ [MailboxNext]_mailboxVars => DoorbellInv'
    <2> SUFFICES ASSUME MailboxInv, DoorbellInv, [MailboxNext]_mailboxVars, NothingRead'
                 PROVE  ListedIsFresh' /\ \A m \in Messages : FileDue(m)'
      BY DEF DoorbellInv
    <2>1. NothingRead /\ ListedIsFresh /\ \A m \in Messages : FileDue(m)
      BY ReadStays DEF DoorbellInv
    <2>2. CASE \E d \in Doorbells : DoorbellStep(d)
      BY <2>1, <2>2, DoorbellKeepsNotices
    <2>3. CASE \/ \E m \in Messages : Create(m) \/ EnqueueStep(m) \/ EnqueueFails(m)
               \/ \E r \in Readers : ListInbox(r) \/ ReadStep(r)
      BY <2>1, <2>3, OthersKeepNotices
    <2>4. CASE UNCHANGED mailboxVars
      BY <2>1, <2>4 DEF mailboxVars, ListedIsFresh, FileDue
    <2> QED BY <2>2, <2>3, <2>4 DEF MailboxNext
  <1>3. MailboxInv /\ DoorbellInv => NoticeIsUnderWay
    <2> SUFFICES ASSUME MailboxInv, DoorbellInv, NothingRead, NEW m \in Messages,
                        pc[m] = "done", m \notin announced
                 PROVE  \/ rung
                        \/ \E d \in Doorbells :
                             \/ pc[d] = "list"
                             \/ pc[d] = "move" /\ (suffix[m] = "delivered" \/ <<m, "msg">> \in todo[d])
      BY DEF NoticeIsUnderWay
    <2>1. FileDue(m)
      BY DEF DoorbellInv
    <2>2. suffix[m] \in {"none", "msg", "delivered"}
      BY DEF MailboxInv, MailboxTypeOK, Suffixes, Unread, NothingRead
    <2> QED BY <2>1, <2>2 DEF FileDue
  <1> QED BY <1>1, <1>2, <1>3, MailboxInvariant, PTL DEF MailboxSpec

-----------------------------------------------------------------------------
(* MetaStore *)

USE StoreConstants

LEMMA InitInv == Init => StoreInv
  <1> SUFFICES ASSUME Init PROVE StoreInv
    OBVIOUS
  <1>1. TypeOK
    <2>1. 0 \in 0..(MaxCuts + 1) /\ 1 \in 1..(MaxCuts + 1)
      OBVIOUS
    <2>2. BirthAt("idle") \in Birth /\ DispatchAt("idle") \in Dispatch
      BY <2>1 DEF Birth, Dispatch, BirthAt, DispatchAt
    <2> QED BY <2>1, <2>2 DEF Init, TypeOK
  <1>2. Records = {} /\ UnderWay = {} /\ Addressed = {}
    BY DEF Init, Records, UnderWay, Addressed, BirthAt, DispatchAt
  <1>3. CallInv /\ AttachInv /\ OverlapInv /\ AddressInv
    BY <1>2 DEF Init, CallInv, AttachInv, Attaching, OverlapInv, AddressInv, BirthAt, DispatchAt
  <1>4. OneAddress /\ TwinsOverlapped /\ BornIsRecorded
    BY <1>2 DEF Init, OneAddress, TwinsOverlapped, BornIsRecorded, BirthAt
  <1> QED BY <1>1, <1>3, <1>4 DEF StoreInv

-----------------------------------------------------------------------------
(* Types *)

LEMMA DecidedRecord ==
  ASSUME NEW u \in Birth, NEW g \in Gids, NEW a \in {"create", "attach"}, NEW v,
         v = [u EXCEPT !.pc = "decided", !.list = {}, !.gid = g, !.action = a]
  PROVE  v = [pc |-> "decided", native |-> u.native, list |-> {},
              action |-> a, gid |-> g, gen |-> u.gen]
  BY DEF Birth

\* What a decision leaves of a birth.
LEMMA DecideFacts ==
  ASSUME TypeOK, NEW b \in Births, Decide(b)
  PROVE  \/ births' = [births EXCEPT ![b] = BirthAt("failed")]
         \/ /\ Certified(b)
            /\ \E g \in Gids, a \in {"create", "attach"} :
                 /\ births' = [births EXCEPT ![b] =
                      [pc |-> "decided", native |-> births[b].native, list |-> {},
                       action |-> a, gid |-> g, gen |-> births[b].gen]]
                 /\ a = "attach" => g \in Existing(b)
                 /\ a = "create" => Existing(b) = {}
  <1>0. births[b] \in Birth /\ Existing(b) \subseteq Gids
    BY DEF TypeOK, Birth, Existing
  <1>1. SUFFICES ASSUME births' # [births EXCEPT ![b] = BirthAt("failed")]
        PROVE  /\ Certified(b)
               /\ \E g \in Gids, a \in {"create", "attach"} :
                    /\ births' = [births EXCEPT ![b] =
                         [pc |-> "decided", native |-> births[b].native, list |-> {},
                          action |-> a, gid |-> g, gen |-> births[b].gen]]
                    /\ a = "attach" => g \in Existing(b)
                    /\ a = "create" => Existing(b) = {}
    OBVIOUS
  <1> DEFINE a == IF Existing(b) # {} THEN "attach" ELSE "create"
  <1>2. PICK g \in IF Existing(b) # {} THEN Existing(b) ELSE Gids \ spent :
          births' = [births EXCEPT ![b] =
            [@ EXCEPT !.pc = "decided", !.list = {}, !.gid = g, !.action = a]]
    BY <1>1 DEF Decide
  <1>3. births' = [births EXCEPT ![b] =
          [pc |-> "decided", native |-> births[b].native, list |-> {},
           action |-> a, gid |-> g, gen |-> births[b].gen]]
    <2>1. [births[b] EXCEPT !.pc = "decided", !.list = {}, !.gid = g, !.action = a]
            = [pc |-> "decided", native |-> births[b].native, list |-> {},
               action |-> a, gid |-> g, gen |-> births[b].gen]
      <3> g \in Gids /\ a \in {"create", "attach"}
        BY <1>0, <1>2
      <3> HIDE DEF a
      <3> QED BY ZenonT(30), <1>0, DecidedRecord
    <2> QED BY <1>2, <2>1 DEF TypeOK
  <1>4. Certified(b)
    BY <1>1 DEF Decide
  <1>5. /\ g \in Gids /\ a \in {"create", "attach"}
        /\ a = "attach" => g \in Existing(b)
        /\ a = "create" => Existing(b) = {}
    BY <1>0, <1>2
  <1> HIDE DEF a
  <1> QED BY <1>3, <1>4, <1>5

LEMMA BirthType ==
  ASSUME TypeOK, NEW b \in Births,
         \/ \E n \in Natives : Begin(b, n)
         \/ List(b) \/ Decide(b) \/ WriteTmp(b) \/ Publish(b) \/ Crash(b)
  PROVE  TypeOK'
  <1>0. /\ births[b] \in Birth /\ Records \subseteq Gids
        /\ BirthAt("failed") \in Birth /\ gen \in 0..(MaxCuts + 1)
    BY DEF TypeOK, Records, BirthAt, Birth
  <1>1. ASSUME NEW n \in Natives, Begin(b, n) PROVE TypeOK'
    BY ZenonT(30), <1>0, <1>1 DEF Begin, TypeOK, Birth, UnderWay
  <1>2. CASE List(b)
    BY <1>0, <1>2 DEF List, TypeOK, Birth
  <1>3. CASE Decide(b)
    <2>1. births' \in [Births -> Birth]
      <3>1. CASE births' = [births EXCEPT ![b] = BirthAt("failed")]
        BY <1>0, <3>1 DEF TypeOK
      <3>2. ASSUME NEW g \in Gids, NEW a \in {"create", "attach"},
                   births' = [births EXCEPT ![b] =
                      [pc |-> "decided", native |-> births[b].native, list |-> {},
                       action |-> a, gid |-> g, gen |-> births[b].gen]]
            PROVE  births' \in [Births -> Birth]
        BY <1>0, <3>2 DEF TypeOK, Birth
      <3> QED BY <1>3, <3>1, <3>2, DecideFacts
    <2> QED BY <1>3, <2>1 DEF Decide, TypeOK
  <1>4. CASE WriteTmp(b)
    BY SMTT(30), <1>0, <1>4 DEF WriteTmp, TypeOK, Birth
  <1>5. CASE Publish(b)
    <2>1. births' \in [Births -> Birth]
      <3>1. births' = [births EXCEPT ![b] = BirthAt("failed")] \/ births' = [births EXCEPT ![b].pc = "done"]
        BY <1>5 DEF Publish
      <3> QED BY SMTT(30), <1>0, <3>1 DEF TypeOK, Birth
    <2>2. store' \in [Gids -> Natives \cup {None}] /\ writer' \in [Gids -> Births \cup {None}]
      <3>1. \/ UNCHANGED <<store, writer>>
            \/ /\ store' = [store EXCEPT ![births[b].gid] = births[b].native]
               /\ writer' = [writer EXCEPT ![births[b].gid] = b]
        BY <1>5 DEF Publish
      <3>2. births[b].native \in Natives \cup {None}
        BY <1>0 DEF Birth
      <3> QED BY <3>1, <3>2 DEF TypeOK
    <2> QED BY <1>5, <2>1, <2>2 DEF Publish, TypeOK
  <1>6. CASE Crash(b)
    BY <1>0, <1>6 DEF Crash, TypeOK
  <1> QED BY <1>1, <1>2, <1>3, <1>4, <1>5, <1>6

LEMMA DispatchType ==
  ASSUME TypeOK, NEW d \in Dispatches,
         (\E g \in Gids : ReadOwn(d, g)) \/ ListRivals(d) \/ Scan(d)
  PROVE  TypeOK'
  <1>0. /\ dispatches[d] \in Dispatch /\ Records \subseteq Gids
        /\ DispatchAt("refused") \in Dispatch /\ gen \in 0..(MaxCuts + 1)
    BY DEF TypeOK, Records, DispatchAt, Dispatch
  <1>1. ASSUME NEW g \in Gids, ReadOwn(d, g) PROVE TypeOK'
    BY <1>0, <1>1 DEF ReadOwn, TypeOK, Dispatch
  <1>2. CASE ListRivals(d)
    BY <1>0, <1>2 DEF ListRivals, TypeOK, Dispatch
  <1>3. CASE Scan(d)
    BY <1>0, <1>3 DEF Scan, TypeOK, Dispatch
  <1> QED BY <1>1, <1>2, <1>3

LEMMA CutType == ASSUME TypeOK, Cut \/ Reopen PROVE TypeOK'
  <1>1. CASE Cut
    <2>1. gen + 1 \in 1..(MaxCuts + 1) /\ Records \subseteq Gids
      BY <1>1 DEF Cut, TypeOK, Records
    <2> QED BY <1>1, <2>1 DEF Cut, TypeOK
  <1>2. CASE Reopen
    BY <1>2 DEF Reopen, TypeOK
  <1> QED BY <1>1, <1>2

-----------------------------------------------------------------------------
(* What each step leaves of the birth or the dispatch that takes it *)

Upsert(b) ==
  \/ \E n \in Natives : Begin(b, n)
  \/ List(b) \/ Decide(b) \/ WriteTmp(b) \/ Publish(b) \/ Crash(b)

LEMMA OtherBirths ==
  ASSUME TypeOK, NEW b \in Births, Upsert(b)
  PROVE  /\ \A c \in Births \ {b} : births'[c] = births[c]
         /\ births[b].pc # "done"
         /\ UNCHANGED <<gen, spent, dispatches>>
  <1>1. CASE \E n \in Natives : Begin(b, n)
    BY <1>1 DEF Begin, TypeOK
  <1>2. CASE List(b)
    BY <1>2 DEF List, TypeOK
  <1>3. CASE Decide(b)
    BY <1>3, DecideFacts DEF Decide, TypeOK
  <1>4. CASE WriteTmp(b)
    BY <1>4 DEF WriteTmp, TypeOK
  <1>5. CASE Publish(b)
    <2>1. births' = [births EXCEPT ![b] = BirthAt("failed")] \/ births' = [births EXCEPT ![b].pc = "done"]
      BY <1>5 DEF Publish
    <2> QED BY <1>5, <2>1 DEF Publish, TypeOK
  <1>6. CASE Crash(b)
    BY <1>6 DEF Crash, UnderWay, TypeOK
  <1> QED BY <1>1, <1>2, <1>3, <1>4, <1>5, <1>6 DEF Upsert

\* A birth that begins, lists or writes its file: what it knows grows by one thing.
LEMMA BirthMoves ==
  ASSUME TypeOK, NEW b \in Births
  PROVE  /\ \A n \in Natives : Begin(b, n) =>
              births'[b].pc = "begun" /\ births'[b].native = n /\ births'[b].gen = births[b].gen
         /\ List(b) =>
              /\ births'[b].pc = "listed" /\ births'[b].native = births[b].native
              /\ births'[b].list = Records /\ births'[b].gen = births[b].gen
         /\ WriteTmp(b) =>
              \/ births'[b] = BirthAt("failed")
              \/ /\ births'[b].pc = "tmp" /\ births'[b].native = births[b].native
                 /\ births'[b].gid = births[b].gid /\ births'[b].action = births[b].action
                 /\ births'[b].gen = gen
         /\ Crash(b) => births'[b] = BirthAt("failed")
  <1> births[b] \in Birth
    BY DEF TypeOK
  <1>1. ASSUME NEW n \in Natives, Begin(b, n)
        PROVE  births'[b].pc = "begun" /\ births'[b].native = n /\ births'[b].gen = births[b].gen
    BY <1>1 DEF Begin, TypeOK, Birth
  <1>2. ASSUME List(b)
        PROVE  /\ births'[b].pc = "listed" /\ births'[b].native = births[b].native
               /\ births'[b].list = Records /\ births'[b].gen = births[b].gen
    BY <1>2 DEF List, TypeOK, Birth
  <1>3. ASSUME WriteTmp(b), births' # [births EXCEPT ![b] = BirthAt("failed")]
        PROVE  /\ births'[b].pc = "tmp" /\ births'[b].native = births[b].native
               /\ births'[b].gid = births[b].gid /\ births'[b].action = births[b].action
               /\ births'[b].gen = gen
    BY <1>3 DEF WriteTmp, TypeOK, Birth
  <1> QED BY <1>1, <1>2, <1>3 DEF WriteTmp, Crash, TypeOK

LEMMA PublishFacts ==
  ASSUME TypeOK, NEW b \in Births, Publish(b)
  PROVE  \/ births'[b] = BirthAt("failed") /\ UNCHANGED <<store, writer>>
         \/ /\ births[b].pc = "tmp" /\ births[b].gen = gen
            /\ births[b].action = "create" =>
                 store[births[b].gid] = None /\ births[b].gid \notin spent
            /\ store' = [store EXCEPT ![births[b].gid] = births[b].native]
            /\ writer' = [writer EXCEPT ![births[b].gid] = b]
            /\ \/ births'[b] = BirthAt("failed")
               \/ /\ births'[b].pc = "done" /\ births'[b].native = births[b].native
                  /\ births'[b].gid = births[b].gid /\ births'[b].gen = births[b].gen
  <1>0. births[b] \in Birth
    BY DEF TypeOK
  <1>1. births' = [births EXCEPT ![b] = BirthAt("failed")] \/ births' = [births EXCEPT ![b].pc = "done"]
    BY DEF Publish
  <1>2. \/ births'[b] = BirthAt("failed")
        \/ /\ births'[b].pc = "done" /\ births'[b].native = births[b].native
           /\ births'[b].gid = births[b].gid /\ births'[b].gen = births[b].gen
    BY <1>0, <1>1 DEF TypeOK, Birth
  <1>3. CASE UNCHANGED <<store, writer>> /\ births' = [births EXCEPT ![b] = BirthAt("failed")]
    BY <1>3 DEF TypeOK
  <1>4. CASE ~(UNCHANGED <<store, writer>> /\ births' = [births EXCEPT ![b] = BirthAt("failed")])
    BY <1>2, <1>4 DEF Publish, Free
  <1> QED BY <1>3, <1>4

LEMMA DispatchMoves ==
  ASSUME TypeOK, NEW d \in Dispatches,
         (\E g \in Gids : ReadOwn(d, g)) \/ ListRivals(d) \/ Scan(d)
  PROVE  /\ \A c \in Dispatches \ {d} : dispatches'[c] = dispatches[c]
         /\ UNCHANGED <<open, store, gen, spent, births, writer, overlaps>>
         /\ \/ dispatches'[d] = DispatchAt("refused")
            \/ /\ dispatches'[d].pc = "own" /\ dispatches'[d].gid \in Gids
               /\ dispatches'[d].native = store[dispatches'[d].gid]
               /\ dispatches'[d].native # None /\ dispatches'[d].gen = gen
            \/ /\ dispatches[d].pc = "own" /\ dispatches'[d].pc = "listed"
               /\ dispatches'[d].list = Records
               /\ dispatches'[d].gid = dispatches[d].gid
               /\ dispatches'[d].native = dispatches[d].native
               /\ dispatches'[d].gen = dispatches[d].gen
            \/ /\ dispatches[d].pc = "listed" /\ dispatches'[d].pc = "addressed"
               /\ Rivals(d) = {}
               /\ dispatches'[d].gid = dispatches[d].gid
               /\ dispatches'[d].native = dispatches[d].native
               /\ dispatches'[d].gen = dispatches[d].gen
               /\ dispatches'[d].overtaken = (gen # dispatches[d].gen)
  <1> dispatches[d] \in Dispatch
    BY DEF TypeOK
  <1>1. ASSUME NEW g \in Gids, ReadOwn(d, g)
        PROVE  \/ dispatches'[d] = DispatchAt("refused")
               \/ /\ dispatches'[d].pc = "own" /\ dispatches'[d].gid = g
                  /\ dispatches'[d].native = store[g]
                  /\ store[g] # None /\ dispatches'[d].gen = gen
    BY <1>1 DEF ReadOwn, TypeOK, Dispatch
  <1>2. ASSUME ListRivals(d)
        PROVE  /\ dispatches[d].pc = "own" /\ dispatches'[d].pc = "listed"
               /\ dispatches'[d].list = Records
               /\ dispatches'[d].gid = dispatches[d].gid
               /\ dispatches'[d].native = dispatches[d].native
               /\ dispatches'[d].gen = dispatches[d].gen
    BY <1>2 DEF ListRivals, TypeOK, Dispatch
  <1>3. ASSUME Scan(d), dispatches' # [dispatches EXCEPT ![d] = DispatchAt("refused")]
        PROVE  /\ dispatches[d].pc = "listed" /\ dispatches'[d].pc = "addressed"
               /\ Rivals(d) = {}
               /\ dispatches'[d].gid = dispatches[d].gid
               /\ dispatches'[d].native = dispatches[d].native
               /\ dispatches'[d].gen = dispatches[d].gen
               /\ dispatches'[d].overtaken = (gen # dispatches[d].gen)
    BY <1>3 DEF Scan, TypeOK, Dispatch
  <1>4. /\ \A c \in Dispatches \ {d} : dispatches'[c] = dispatches[c]
        /\ UNCHANGED <<open, store, gen, spent, births, writer, overlaps>>
    BY DEF ReadOwn, ListRivals, Scan, TypeOK
  <1>5. dispatches' = [dispatches EXCEPT ![d] = DispatchAt("refused")] =>
          dispatches'[d] = DispatchAt("refused")
    BY DEF TypeOK
  <1> QED BY <1>1, <1>2, <1>3, <1>4, <1>5

Readdress(d) == (\E g \in Gids : ReadOwn(d, g)) \/ ListRivals(d) \/ Scan(d)

-----------------------------------------------------------------------------
(* What the calls know *)

LEMMA CallByBirth ==
  ASSUME TypeOK, CallInv, NEW b \in Births, Upsert(b)
  PROVE  CallInv'
  <1>1. /\ births[b] \in Birth /\ births' \in [Births -> Birth]
        /\ gen \in Nat /\ 0 <= gen
    BY BirthType DEF TypeOK, Upsert
  <1>2. /\ births'[b].pc \notin {"idle", "failed"} => births'[b].native \in Natives
        /\ births'[b].pc \in {"decided", "tmp", "done"} => births'[b].gid \in Gids
        /\ births'[b].gen <= gen
    <2>1. CASE births'[b] = BirthAt("failed")
      BY <1>1, <2>1 DEF BirthAt
    <2>2. CASE \E n \in Natives : Begin(b, n)
      BY <1>1, <2>2, BirthMoves DEF CallInv
    <2>3. CASE List(b)
      BY <1>1, <2>3, BirthMoves DEF CallInv, List
    <2>4. CASE WriteTmp(b)
      BY <1>1, <2>1, <2>4, BirthMoves DEF CallInv, WriteTmp
    <2>5. CASE Crash(b)
      BY <1>1, <2>1, <2>5, BirthMoves
    <2>6. CASE Publish(b)
      BY <1>1, <2>1, <2>6, PublishFacts DEF CallInv, Publish
    <2>7. CASE Decide(b) /\ births'[b] # BirthAt("failed")
      <3>1. PICK g \in Gids, a \in {"create", "attach"} :
              births' = [births EXCEPT ![b] =
                [pc |-> "decided", native |-> births[b].native, list |-> {},
                 action |-> a, gid |-> g, gen |-> births[b].gen]]
        BY <1>1, <2>7, DecideFacts DEF TypeOK
      <3>2. births[b].native \in Natives /\ births[b].gen <= gen
        BY <2>7 DEF CallInv, Decide
      <3> QED BY <3>1, <3>2 DEF TypeOK
    <2> QED BY <2>1, <2>2, <2>3, <2>4, <2>5, <2>6, <2>7 DEF Upsert
  <1> QED BY <1>2, OtherBirths DEF CallInv

LEMMA CallByDispatch ==
  ASSUME TypeOK, CallInv, NEW d \in Dispatches, Readdress(d)
  PROVE  CallInv'
  <1>1. gen \in Nat /\ 0 <= gen /\ store \in [Gids -> Natives \cup {None}]
    BY DEF TypeOK
  <1>2. /\ dispatches'[d].pc \notin {"idle", "refused"} =>
             dispatches'[d].native \in Natives /\ dispatches'[d].gid \in Gids
        /\ dispatches'[d].gen <= gen
    BY <1>1, DispatchMoves DEF Readdress, CallInv, DispatchAt
  <1> QED BY <1>2, DispatchMoves DEF Readdress, CallInv

LEMMA CallByCut == ASSUME TypeOK, CallInv, Cut \/ Reopen PROVE CallInv'
  <1>1. /\ \A b \in Births : births[b].gen \in Nat
        /\ \A d \in Dispatches : dispatches[d].gen \in Nat
        /\ gen \in Nat
    BY DEF TypeOK, Birth, Dispatch
  <1>2. gen' \in Nat /\ gen <= gen'
    BY <1>1 DEF Cut, Reopen
  <1> QED BY <1>1, <1>2 DEF Cut, Reopen, CallInv

-----------------------------------------------------------------------------
(* An id means one native session *)

\* A publication changes the record of no id that another birth attaches to, except to
\* what that birth would have written itself.
LEMMA Published ==
  ASSUME TypeOK, CallInv, AttachInv, NEW b \in Births, Publish(b)
  PROVE  /\ \A g \in Gids : store[g] # None => store'[g] = store[g]
         /\ \A c \in Births \ {b} : Attaching(c) =>
              \/ store'[births[c].gid] = births[c].native
              \/ store'[births[c].gid] = None /\ births[c].gid \in spent
  <1>0. /\ store \in [Gids -> Natives \cup {None}] /\ births[b] \in Birth
        /\ \A c \in Births : Attaching(c) => births[c].gid \in Gids /\ births[c].native # None
    BY DEF TypeOK, CallInv, Attaching
  <1>1. CASE UNCHANGED store
    BY <1>1 DEF AttachInv
  <1>2. CASE /\ births[b].pc = "tmp"
             /\ births[b].action = "create" => store[births[b].gid] = None /\ births[b].gid \notin spent
             /\ store' = [store EXCEPT ![births[b].gid] = births[b].native]
    <2>1. births[b].gid \in Gids
      BY <1>2 DEF CallInv
    <2>2. CASE births[b].action = "create"
      BY <1>0, <1>2, <2>1, <2>2 DEF AttachInv
    <2>3. CASE births[b].action = "attach"
      <3>1. Attaching(b)
        BY <1>2, <2>3 DEF Attaching
      <3> QED BY <1>0, <1>2, <2>1, <3>1 DEF AttachInv
    <2> QED BY <1>0, <2>2, <2>3 DEF Birth
  <1> QED BY <1>1, <1>2, PublishFacts

LEMMA AttachByBirth ==
  ASSUME TypeOK, CallInv, AttachInv, NEW b \in Births, Upsert(b)
  PROVE  AttachInv'
  <1>0. /\ births[b] \in Birth /\ store \in [Gids -> Natives \cup {None}]
        /\ \A c \in Births \ {b} : births'[c] = births[c]
        /\ spent' = spent
    BY OtherBirths DEF TypeOK
  <1>1. CASE UNCHANGED store /\ births'[b].pc \notin {"decided", "tmp"}
    BY <1>0, <1>1 DEF AttachInv, Attaching
  <1>2. CASE \E n \in Natives : Begin(b, n)
    BY <1>1, <1>2, BirthMoves DEF Begin
  <1>3. CASE List(b)
    BY <1>1, <1>3, BirthMoves DEF List
  <1>4. CASE Crash(b)
    <2>1. births'[b].pc = "failed" /\ store' = store
      <3>1. births'[b] = BirthAt("failed")
        BY <1>4, BirthMoves
      <3> QED BY <1>4, <3>1 DEF Crash, BirthAt
    <2> QED BY <1>1, <2>1
  <1>5. CASE WriteTmp(b)
    <2>1. CASE births'[b] = BirthAt("failed")
      BY <1>1, <1>5, <2>1 DEF WriteTmp, BirthAt
    <2>2. CASE births'[b] # BirthAt("failed")
      BY SMTT(30), <1>0, <1>5, <2>2, BirthMoves DEF WriteTmp, AttachInv, Attaching
    <2> QED BY <2>1, <2>2
  <1>6. CASE Publish(b)
    <2>1. births'[b].pc \notin {"decided", "tmp"}
      BY <1>6, PublishFacts DEF BirthAt
    <2> QED BY <1>0, <1>6, <2>1, Published DEF AttachInv, Attaching
  <1>7. CASE Decide(b)
    <2>0. store' = store
      BY <1>7 DEF Decide
    <2>1. CASE births' = [births EXCEPT ![b] = BirthAt("failed")]
      BY <1>1, <2>0, <2>1 DEF TypeOK, BirthAt
    <2>2. CASE births' # [births EXCEPT ![b] = BirthAt("failed")]
      <3>1. PICK g \in Gids, a \in {"create", "attach"} :
              /\ births' = [births EXCEPT ![b] =
                   [pc |-> "decided", native |-> births[b].native, list |-> {},
                    action |-> a, gid |-> g, gen |-> births[b].gen]]
              /\ a = "attach" => g \in Existing(b)
        BY <1>7, <2>2, DecideFacts
      <3>2. /\ births'[b].action = a /\ births'[b].gid = g
            /\ births'[b].native = births[b].native
        BY <3>1 DEF TypeOK
      <3>3. births[b].native # None
        BY <1>7 DEF CallInv, Decide
      <3>4. a = "attach" => store[g] = births[b].native
        BY <3>1 DEF Existing
      <3> QED BY <1>0, <2>0, <3>2, <3>3, <3>4 DEF AttachInv, Attaching
    <2> QED BY <2>1, <2>2
  <1> QED BY <1>2, <1>3, <1>4, <1>5, <1>6, <1>7 DEF Upsert

LEMMA AttachByOthers ==
  ASSUME TypeOK, CallInv, AttachInv, (\E d \in Dispatches : Readdress(d)) \/ Cut \/ Reopen
  PROVE  AttachInv'
  <1>1. CASE \E d \in Dispatches : Readdress(d)
    BY <1>1, DispatchMoves DEF Readdress, AttachInv, Attaching
  <1>2. CASE Cut
    <2>1. \A b \in Births : Attaching(b) =>
            births[b].gid \in Gids /\ births[b].native \in Natives
      BY DEF CallInv, Attaching
    <2>2. \A b \in Births : Attaching(b) => births[b].gid \in spent \cup Records
      BY <2>1 DEF AttachInv, Records
    <2> QED BY <1>2, <2>1, <2>2 DEF Cut, AttachInv, Attaching
  <1>3. CASE Reopen
    BY <1>3 DEF Reopen, AttachInv, Attaching
  <1> QED BY <1>1, <1>2, <1>3

-----------------------------------------------------------------------------
(* Births that overlap *)

\* A birth that begins overlaps all that are under way.
LEMMA OverlapByBegin ==
  ASSUME TypeOK, OverlapInv, NEW b \in Births, NEW n \in Natives, Begin(b, n)
  PROVE  OverlapInv' /\ overlaps \subseteq overlaps'
  <1>1. /\ births'[b].pc = "begun" /\ b \notin UnderWay
        /\ \A c \in Births \ {b} : births'[c] = births[c]
        /\ store' = store /\ writer' = writer
        /\ overlaps' = overlaps \cup ({b} \X UnderWay) \cup (UnderWay \X {b})
    BY BirthMoves, OtherBirths DEF Begin, UnderWay, Upsert
  <1>2. UnderWay' = UnderWay \cup {b}
    BY <1>1 DEF UnderWay
  <1>3. \A c, e \in UnderWay' : c # e => <<c, e>> \in overlaps'
    BY <1>1, <1>2 DEF OverlapInv
  <1>4. \A c, e \in Births : <<c, e>> \in overlaps' => <<e, c>> \in overlaps'
    BY <1>1 DEF OverlapInv
  <1>5. Records' = Records
    BY <1>1 DEF Records
  <1> QED BY <1>1, <1>3, <1>4, <1>5 DEF OverlapInv

\* A birth that decided has found no record of its native session but its own.
LEMMA OverlapByDecide ==
  ASSUME TypeOK, OverlapInv, NEW b \in Births, Decide(b)
  PROVE  OverlapInv'
  <1>1. /\ \A c \in Births \ {b} : births'[c] = births[c]
        /\ store' = store /\ writer' = writer /\ overlaps' = overlaps
        /\ b \in UnderWay
    BY OtherBirths DEF Decide, Upsert, UnderWay
  <1>2. UnderWay' \subseteq UnderWay /\ Records' = Records
    BY <1>1 DEF UnderWay, Records
  <1>3. CASE births' = [births EXCEPT ![b] = BirthAt("failed")]
    <2>1. births'[b].pc = "failed"
      BY <1>3 DEF TypeOK, BirthAt
    <2> QED BY <1>1, <1>2, <2>1 DEF OverlapInv
  <1>4. CASE births' # [births EXCEPT ![b] = BirthAt("failed")]
    <2>1. PICK g \in Gids, a \in {"create", "attach"} :
            /\ births' = [births EXCEPT ![b] =
                 [pc |-> "decided", native |-> births[b].native, list |-> {},
                  action |-> a, gid |-> g, gen |-> births[b].gen]]
            /\ Certified(b)
            /\ a = "attach" => g \in Existing(b)
            /\ a = "create" => Existing(b) = {}
      BY <1>4, DecideFacts
    <2>2. /\ births'[b].pc = "decided" /\ births'[b].gid = g
          /\ births'[b].native = births[b].native
      BY <2>1 DEF TypeOK
    <2>3. \A h \in Records : h # g /\ store[h] = births[b].native => h \notin births[b].list
      BY <2>1 DEF Existing, Certified
    <2>4. births[b].pc = "listed"
      BY DEF Decide
    <2> QED BY <1>1, <1>2, <2>2, <2>3, <2>4 DEF OverlapInv
  <1> QED BY <1>3, <1>4

\* The writer of a record overlaps every birth that is under way.
LEMMA OverlapByPublish ==
  ASSUME TypeOK, CallInv, OverlapInv, TwinsOverlapped, NEW b \in Births, Publish(b)
  PROVE  OverlapInv' /\ TwinsOverlapped'
  <1>1. /\ \A c \in Births \ {b} : births'[c] = births[c]
        /\ overlaps' = overlaps /\ births[b].pc = "tmp"
        /\ b \in UnderWay /\ births[b].gid \in Gids
        /\ store \in [Gids -> Natives \cup {None}] /\ writer \in [Gids -> Births \cup {None}]
        /\ overlaps \subseteq Births \X Births
    BY OtherBirths DEF Publish, Upsert, UnderWay, CallInv, TypeOK
  <1>2. births'[b].pc \in {"done", "failed"}
    BY PublishFacts DEF BirthAt
  <1>3. UnderWay' = UnderWay \ {b}
    BY <1>1, <1>2 DEF UnderWay
  <1>4. CASE UNCHANGED <<store, writer>>
    <2>1. Records' = Records
      BY <1>4 DEF Records
    <2> QED BY <1>1, <1>2, <1>3, <1>4, <2>1 DEF OverlapInv, TwinsOverlapped
  <1>5. CASE /\ store' = [store EXCEPT ![births[b].gid] = births[b].native]
             /\ writer' = [writer EXCEPT ![births[b].gid] = b]
    <2> DEFINE w == births[b].gid
    <2>1. /\ store'[w] = births[b].native /\ writer'[w] = b
          /\ \A h \in Gids \ {w} : store'[h] = store[h] /\ writer'[h] = writer[h]
      BY <1>1, <1>5
    <2>2. \A h \in Records' : h \in Gids /\ (h = w \/ h \in Records)
      BY <2>1 DEF Records
    <2>3. \A c \in UnderWay \ {b} : <<c, b>> \in overlaps
      BY <1>1 DEF OverlapInv
    <2>4. ASSUME NEW c \in Births, NEW h \in Records',
                 \/ births'[c].pc = "listed" /\ h \notin births'[c].list
                 \/ /\ births'[c].pc \in {"decided", "tmp"}
                    /\ h # births'[c].gid /\ store'[h] = births'[c].native
          PROVE  <<c, writer'[h]>> \in overlaps
      <3>1. c # b /\ births'[c] = births[c] /\ c \in UnderWay
        BY <1>1, <1>2, <2>4 DEF UnderWay
      <3>2. CASE h = w
        BY <2>1, <2>3, <3>1, <3>2
      <3>3. CASE h # w
        BY <2>1, <2>2, <2>4, <3>1, <3>3 DEF OverlapInv
      <3> QED BY <3>2, <3>3
    <2>5. OverlapInv'
      BY <1>1, <1>3, <2>4 DEF OverlapInv
    <2>6. \A h \in Records' \ {w} : store'[h] = births[b].native =>
            <<b, writer[h]>> \in overlaps /\ <<writer[h], b>> \in overlaps
      <3> SUFFICES ASSUME NEW h \in Records' \ {w}, store'[h] = births[b].native
                   PROVE  <<b, writer[h]>> \in overlaps /\ <<writer[h], b>> \in overlaps
        OBVIOUS
      <3>1. <<b, writer[h]>> \in overlaps
        BY <1>1, <2>1, <2>2 DEF OverlapInv
      <3>2. writer[h] \in Births
        BY <1>1, <3>1
      <3> QED BY <3>1, <3>2 DEF OverlapInv
    <2>7. TwinsOverlapped'
      <3> SUFFICES ASSUME NEW g \in Records', NEW h \in Records',
                          store'[g] = store'[h], g # h
                   PROVE  <<writer'[g], writer'[h]>> \in overlaps
        BY <1>1 DEF TwinsOverlapped
      <3>1. CASE g = w
        BY <2>1, <2>2, <2>6, <3>1
      <3>2. CASE h = w
        BY <2>1, <2>2, <2>6, <3>2
      <3>3. CASE g # w /\ h # w
        BY <2>1, <2>2, <3>3 DEF TwinsOverlapped
      <3> QED BY <3>1, <3>2, <3>3
    <2> QED BY <2>5, <2>7
  <1> QED BY <1>4, <1>5, PublishFacts

LEMMA OverlapByBirth ==
  ASSUME TypeOK, CallInv, OverlapInv, TwinsOverlapped, NEW b \in Births, Upsert(b)
  PROVE  OverlapInv' /\ TwinsOverlapped'
  <1>1. CASE \E n \in Natives : Begin(b, n)
    <2>1. OverlapInv' /\ overlaps \subseteq overlaps' /\ UNCHANGED <<store, writer>>
      BY <1>1, OverlapByBegin DEF Begin
    <2> QED BY <2>1 DEF TwinsOverlapped, Records
  <1>2. CASE Decide(b)
    BY <1>2, OverlapByDecide DEF Decide, TwinsOverlapped, Records
  <1>3. CASE Publish(b)
    BY <1>3, OverlapByPublish
  <1>4. CASE List(b) \/ WriteTmp(b) \/ Crash(b)
    <2>1. /\ \A c \in Births \ {b} : births'[c] = births[c]
          /\ UNCHANGED <<store, writer, overlaps>>
      BY <1>4, OtherBirths DEF Upsert, List, WriteTmp, Crash
    <2>2. /\ Records' = Records
          /\ TwinsOverlapped'
      BY <2>1 DEF Records, TwinsOverlapped
    <2>3. \/ births'[b].pc = "failed"
          \/ births'[b].pc = "listed" /\ births'[b].list = Records
          \/ /\ births'[b].pc = "tmp" /\ births[b].pc = "decided"
             /\ births'[b].gid = births[b].gid /\ births'[b].native = births[b].native
      <3>1. CASE List(b)
        BY <3>1, BirthMoves
      <3>2. CASE WriteTmp(b)
        <4>1. births[b].pc = "decided"
          BY <3>2 DEF WriteTmp
        <4> QED BY <3>2, <4>1, BirthMoves DEF BirthAt
      <3>3. CASE Crash(b)
        BY <3>3, BirthMoves DEF BirthAt
      <3> QED BY <1>4, <3>1, <3>2, <3>3
    <2>4. b \in UnderWay
      BY <1>4 DEF List, WriteTmp, Crash, UnderWay
    <2>5. UnderWay' \subseteq UnderWay
      BY <2>1, <2>4 DEF UnderWay
    <2> QED BY <2>1, <2>2, <2>3, <2>5 DEF OverlapInv
  <1> QED BY <1>1, <1>2, <1>3, <1>4 DEF Upsert

LEMMA OverlapByOthers ==
  ASSUME TypeOK, OverlapInv, TwinsOverlapped,
         (\E d \in Dispatches : Readdress(d)) \/ Cut \/ Reopen
  PROVE  OverlapInv' /\ TwinsOverlapped'
  <1>1. births' = births /\ overlaps' = overlaps
    BY DispatchMoves DEF Readdress, Cut, Reopen
  <1>2. UnderWay' = UnderWay
    BY <1>1 DEF UnderWay
  <1>3. CASE UNCHANGED <<store, writer>>
    BY <1>1, <1>2, <1>3 DEF OverlapInv, TwinsOverlapped, Records
  <1>4. CASE Cut
    <2>1. Records' = {}
      BY <1>4 DEF Cut, Records
    <2> QED BY <1>1, <1>2, <2>1 DEF OverlapInv, TwinsOverlapped
  <1> QED BY <1>3, <1>4, DispatchMoves DEF Readdress, Reopen

-----------------------------------------------------------------------------
(* Records that stay, and the dispatches that read them *)

\* A birth leaves the native session of every record as it is.
LEMMA RecordsStay ==
  ASSUME TypeOK, CallInv, AttachInv, NEW b \in Births, Upsert(b)
  PROVE  \A g \in Gids : store[g] # None => store'[g] = store[g]
  <1>1. CASE Publish(b)
    BY <1>1, Published
  <1>2. CASE ~Publish(b)
    BY <1>2 DEF Upsert, Begin, List, Decide, WriteTmp, Crash
  <1> QED BY <1>1, <1>2

LEMMA AddressByBirth ==
  ASSUME TypeOK, CallInv, AttachInv, AddressInv, OneAddress, BornIsRecorded,
         NEW b \in Births, Upsert(b)
  PROVE  AddressInv' /\ OneAddress' /\ BornIsRecorded'
  <1>1. /\ dispatches' = dispatches /\ gen' = gen
        /\ \A c \in Births \ {b} : births'[c] = births[c]
        /\ \A g \in Gids : store[g] # None => store'[g] = store[g]
    BY OtherBirths, RecordsStay
  <1>2. /\ \A d \in Dispatches : dispatches[d].pc \in {"own", "listed", "addressed"} =>
              dispatches[d].gid \in Gids /\ dispatches[d].native # None
        /\ \A c \in Births : births[c].pc = "done" => births[c].gid \in Gids /\ births[c].native # None
    BY DEF CallInv
  <1>3. Addressed' = Addressed
    BY <1>1 DEF Addressed
  <1>4. AddressInv' /\ OneAddress'
    BY <1>1, <1>2, <1>3 DEF AddressInv, OneAddress
  <1>5. births'[b].pc = "done" /\ births'[b].gen = gen => store'[births'[b].gid] = births'[b].native
    <2>1. CASE Publish(b)
      <3>1. births[b].gid \in Gids /\ store \in [Gids -> Natives \cup {None}]
        BY <2>1 DEF Publish, CallInv, TypeOK
      <3> QED BY <2>1, <3>1, PublishFacts DEF BirthAt
    <2>2. CASE ~Publish(b)
      <3>1. CASE Decide(b)
        <4>1. births' = [births EXCEPT ![b] = BirthAt("failed")] \/ births'[b].pc = "decided"
          BY <3>1, DecideFacts DEF TypeOK
        <4> QED BY <4>1 DEF TypeOK, BirthAt
      <3>2. CASE ~Decide(b)
        BY <2>2, <3>2, BirthMoves DEF Upsert, BirthAt
      <3> QED BY <3>1, <3>2
    <2> QED BY <2>1, <2>2
  <1>6. BornIsRecorded'
    BY <1>1, <1>2, <1>5 DEF BornIsRecorded
  <1> QED BY <1>4, <1>6

\* A scan lets no second address through: it has listed the record of the first.
LEMMA AddressByDispatch ==
  ASSUME TypeOK, CallInv, AddressInv, OneAddress, NEW e \in Dispatches, Readdress(e)
  PROVE  AddressInv' /\ OneAddress'
  <1>1. /\ \A c \in Dispatches \ {e} : dispatches'[c] = dispatches[c]
        /\ store' = store /\ gen' = gen
        /\ Addressed \subseteq Dispatches
    BY DispatchMoves DEF Readdress, Addressed
  <1>2. \A d \in Dispatches : dispatches[d].pc \in {"own", "listed", "addressed"} =>
          dispatches[d].gid \in Gids /\ dispatches[d].native \in Natives
    BY DEF CallInv
  <1>3. \A d \in Dispatches :
          dispatches[d].pc \in {"own", "listed", "addressed"} /\ dispatches[d].gen = gen =>
            dispatches[d].gid \in Records
    BY <1>2 DEF AddressInv, Records
  <1>4. CASE dispatches'[e] = DispatchAt("refused")
    <2>1. dispatches'[e].pc = "refused"
      BY <1>4 DEF DispatchAt
    <2>2. Addressed' = Addressed \ {e}
      BY <1>1, <2>1 DEF Addressed
    <2>3. OneAddress'
      BY <1>1, <2>2 DEF OneAddress
    <2> QED BY <1>1, <2>1, <2>2, <2>3 DEF AddressInv
  <1>5. CASE dispatches'[e].pc = "own" /\ dispatches'[e].native = store[dispatches'[e].gid]
    <2>1. Addressed' = Addressed \ {e}
      BY <1>1, <1>5 DEF Addressed
    <2>2. OneAddress'
      BY <1>1, <2>1 DEF OneAddress
    <2> QED BY <1>1, <1>5, <2>1, <2>2 DEF AddressInv
  <1>6. CASE /\ dispatches[e].pc = "own" /\ dispatches'[e].pc = "listed"
             /\ dispatches'[e].list = Records
             /\ dispatches'[e].gid = dispatches[e].gid
             /\ dispatches'[e].native = dispatches[e].native
             /\ dispatches'[e].gen = dispatches[e].gen
    <2>1. Addressed' = Addressed /\ e \notin Addressed
      BY <1>1, <1>6 DEF Addressed
    <2>2. \A c \in Addressed : dispatches[c].pc = "addressed"
      BY DEF Addressed
    <2>3. OneAddress'
      BY <1>1, <2>1 DEF OneAddress
    <2> QED BY <1>1, <1>3, <1>6, <2>1, <2>2, <2>3 DEF AddressInv
  <1>7. CASE /\ dispatches[e].pc = "listed" /\ dispatches'[e].pc = "addressed"
             /\ Rivals(e) = {}
             /\ dispatches'[e].gid = dispatches[e].gid
             /\ dispatches'[e].native = dispatches[e].native
             /\ dispatches'[e].gen = dispatches[e].gen
             /\ dispatches'[e].overtaken = (gen # dispatches[e].gen)
    <2>1. /\ Addressed' \subseteq Addressed \cup {e}
          /\ e \in Addressed' => dispatches[e].gen = gen
          /\ \A c \in Addressed : dispatches[c].pc = "addressed"
          /\ e \notin Addressed
      BY <1>1, <1>7 DEF Addressed
    <2>2. \A c \in Dispatches :
            /\ dispatches[c].pc \in {"listed", "addressed"}
            /\ dispatches[c].gen = gen /\ dispatches[c].native = dispatches[e].native
            /\ dispatches[c].gid \in dispatches[e].list
            => dispatches[c].gid = dispatches[e].gid
      BY <1>7 DEF Rivals, AddressInv
    <2>3. \A c \in Addressed :
            (/\ dispatches[c].gen = gen /\ dispatches[e].gen = gen
             /\ dispatches[c].native = dispatches[e].native) => dispatches[c].gid = dispatches[e].gid
      BY <1>7, <2>1, <2>2 DEF AddressInv, Addressed
    <2>4. OneAddress'
      <3>1. \A c, d \in Addressed \cup {e} :
              (c = e \/ d = e) /\ dispatches[e].gen = gen
                /\ dispatches[c].gen = dispatches[d].gen
                /\ dispatches[c].native = dispatches[d].native => dispatches[c].gid = dispatches[d].gid
        BY <2>3
      <3>2. \A c \in Addressed \cup {e} :
              /\ dispatches'[c].gid = dispatches[c].gid
              /\ dispatches'[c].native = dispatches[c].native
              /\ dispatches'[c].gen = dispatches[c].gen
        BY <1>1, <1>7
      <3> QED BY <2>1, <3>1, <3>2 DEF OneAddress
    <2>5. AddressInv'
      <3>1. \A d \in Dispatches :
              dispatches'[d].pc \in {"own", "listed", "addressed"} /\ dispatches'[d].gen = gen =>
                store[dispatches'[d].gid] = dispatches'[d].native
        BY <1>1, <1>7 DEF AddressInv
      <3>2. ASSUME NEW c \in Dispatches, NEW d \in Dispatches,
                   c \in Addressed' \/ dispatches'[c].pc = "listed",
                   dispatches'[d].pc = "listed",
                   dispatches'[c].gen = gen, dispatches'[d].gen = gen,
                   dispatches'[c].native = dispatches'[d].native,
                   dispatches'[c].gid # dispatches'[d].gid
            PROVE  \/ dispatches'[c].gid \in dispatches'[d].list
                   \/ dispatches'[c].pc = "listed" /\ dispatches'[d].gid \in dispatches'[c].list
        <4>1. d # e /\ dispatches'[d] = dispatches[d]
          BY <1>1, <1>7, <3>2
        <4>2. CASE c = e
          <5>1. dispatches[e].gid \in dispatches[d].list \/ dispatches[d].gid \in dispatches[e].list
            BY <1>7, <3>2, <4>1, <4>2 DEF AddressInv
          <5> QED BY <1>7, <2>2, <3>2, <4>1, <4>2, <5>1
        <4>3. CASE c # e
          BY <1>1, <2>1, <3>2, <4>1, <4>3 DEF AddressInv
        <4> QED BY <4>2, <4>3
      <3> QED BY <1>1, <3>1, <3>2 DEF AddressInv
    <2> QED BY <2>4, <2>5
  <1> QED BY <1>4, <1>5, <1>6, <1>7, DispatchMoves DEF Readdress

\* A cut is younger than all that was read and born.
LEMMA AddressByCut ==
  ASSUME TypeOK, CallInv, AddressInv, OneAddress, BornIsRecorded, Cut \/ Reopen
  PROVE  AddressInv' /\ OneAddress' /\ BornIsRecorded'
  <1>1. /\ births' = births /\ dispatches' = dispatches /\ Addressed' = Addressed
    BY DEF Cut, Reopen, Addressed
  <1>2. CASE Cut
    <2>1. /\ \A d \in Dispatches : dispatches[d].gen # gen'
          /\ \A b \in Births : births[b].gen # gen'
      <3>1. /\ gen \in Nat /\ gen' = gen + 1
            /\ \A b \in Births : births[b].gen \in Nat
            /\ \A d \in Dispatches : dispatches[d].gen \in Nat
        BY <1>2 DEF Cut, TypeOK, Birth, Dispatch
      <3> QED BY <3>1 DEF CallInv
    <2> QED BY <1>1, <2>1 DEF AddressInv, OneAddress, BornIsRecorded
  <1>3. CASE Reopen
    BY <1>1, <1>3 DEF Reopen, AddressInv, OneAddress, BornIsRecorded
  <1> QED BY <1>2, <1>3

-----------------------------------------------------------------------------
(* The theorems *)

LEMMA Step == StoreInv /\ [Next]_vars => StoreInv'
  <1> SUFFICES ASSUME StoreInv, [Next]_vars PROVE StoreInv'
    OBVIOUS
  <1> USE DEF StoreInv
  <1>1. ASSUME NEW b \in Births, Upsert(b) PROVE StoreInv'
    <2>1. TypeOK'
      BY <1>1, BirthType DEF Upsert
    <2> QED BY <1>1, <2>1, CallByBirth, AttachByBirth, OverlapByBirth, AddressByBirth
  <1>2. ASSUME NEW d \in Dispatches, Readdress(d) PROVE StoreInv'
    <2>1. TypeOK' /\ births' = births /\ store' = store /\ gen' = gen
      BY <1>2, DispatchType, DispatchMoves DEF Readdress
    <2>2. BornIsRecorded'
      BY <2>1 DEF BornIsRecorded
    <2> QED BY <1>2, <2>1, <2>2, CallByDispatch, AttachByOthers, OverlapByOthers, AddressByDispatch
  <1>3. CASE Cut \/ Reopen
    BY <1>3, CutType, CallByCut, AttachByOthers, OverlapByOthers, AddressByCut
  <1>4. CASE UNCHANGED vars
    BY <1>4 DEF vars, TypeOK, CallInv, AttachInv, Attaching, OverlapInv, UnderWay, Records,
                AddressInv, Addressed, OneAddress, TwinsOverlapped, BornIsRecorded
  <1> QED BY <1>1, <1>2, <1>3, <1>4 DEF Next, Upsert, Readdress

\* Everything the model knows of the store is true in all of its states.
THEOREM StoreInvariant == Spec => []StoreInv
  BY InitInv, Step, PTL DEF Spec

\* However births and dispatches interleave, no generation of the store ever gives one
\* native session two addresses.
THEOREM NoSecondAddress == Spec => []OneAddress
  BY StoreInvariant, PTL DEF StoreInv

\* Two records of one native session come of births that overlapped, never of a birth
\* that followed another.
THEOREM TwinsWereConcurrent == Spec => []TwinsOverlapped
  BY StoreInvariant, PTL DEF StoreInv

\* No later birth, and no colliding id, takes over the record of a birth that was told
\* of its success.
THEOREM BirthsKeepTheirRecord == Spec => []BornIsRecorded
  BY StoreInvariant, PTL DEF StoreInv
=============================================================================
