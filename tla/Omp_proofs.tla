----------------------------- MODULE Omp_proofs -----------------------------
(***************************************************************************)
(* Proofs about the two units of a visible omp host, which follow one      *)
(* session.  OmpReceiver, for any sessions and any length of the retry:    *)
(* ReceiverInv is inductive, so the marker is a promise and a leak has the *)
(* vendor's refusal for its cause.                                         *)
(* OmpBootstrap, for any sessions, calls, edges and polls: BootstrapInv is *)
(* inductive, so the task stays home and needs its proof.                  *)
(***************************************************************************)
EXTENDS OmpReceiver, OmpBootstrap, TLAPS

-----------------------------------------------------------------------------
(* OmpReceiver *)


\* The watches that are open beside the armed one
Surplus(r) == r.open - IF r.armed = None THEN 0 ELSE 1

\* The armed watch is open, and of this process's markers only the armed citizen's did
\* not stay behind.
RxInv(r) ==
  /\ r \in Receiver
  /\ Surplus(r) >= 0
  /\ \A s \in Sessions : r.marker[s] = "mine" /\ s \notin r.kept => r.armed = s

\* Mail whose enqueue returned has its event pending at an armed watch.
WakeDue(r) ==
  \A s \in Sessions : r.armed = s /\ r.view = "current" /\ r.mail[s] = "fresh" => r.poked

HostInv ==
  /\ session \in Sessions \cup {None}
  /\ owed \in SUBSET Handlers
  /\ sender \in Sessions \cup {None}
  /\ session = None => owed = {} /\ timers = 0 /\ rx.armed = None

\* The watch is the current citizen's, or its handler is still to run.
ArmInv == rx.armed # None => session = rx.armed \/ "receiver" \in owed

\* A timer runs as long as it is held, without a watch and within its limit, or because
\* the vendor refused to clear it.
RetryInv ==
  /\ held \in BOOLEAN
  /\ refused \in 0..MaxRefused
  /\ (held => timers = refused + 1) /\ (~held => timers = refused)
  /\ held => rx.armed = None /\ ticks < MaxTicks
  /\ ticks \in 0..MaxTicks

\* Only such a timer arms over an armed watch.
LeakInv == refused = 0 => Surplus(rx) = 0

\* The inductive invariant.
ReceiverInv ==
  /\ HostInv /\ RxInv(rx) /\ ArmInv /\ RetryInv /\ LeakInv
  /\ sending \in [Sessions -> 0..MaxSenders]

-----------------------------------------------------------------------------
(* The receiver's methods *)

\* The fields of a receiver's state
LEMMA Fields ==
  ASSUME NEW r \in Receiver
  PROVE  /\ r = [armed |-> r.armed, open |-> r.open, view |-> r.view, poked |-> r.poked,
                 marker |-> r.marker, kept |-> r.kept, mail |-> r.mail]
         /\ r.armed \in Sessions \cup {None} /\ r.open \in 0..MaxWatches
         /\ r.view \in Views /\ r.poked \in BOOLEAN /\ r.marker \in [Sessions -> Markers]
         /\ r.kept \in SUBSET Sessions /\ r.mail \in [Sessions -> Mails]
         /\ r.open \in Int /\ MaxWatches \in Nat
  BY ReceiverConstants DEF Receiver

\* The records that the methods leave, field by field.
LEMMA ClosedRecord ==
  ASSUME NEW r \in Receiver, NEW k, k = Closed(r)
  PROVE  k = [armed |-> None, open |-> r.open - 1, view |-> "current", poked |-> FALSE,
              marker |-> r.marker, kept |-> r.kept, mail |-> r.mail]
  BY DEF Closed, Receiver

\* Unarming closes the armed watch and gives up its marker, or keeps note of it.
LEMMA UnarmedRecord ==
  ASSUME NEW r \in Receiver, r.armed # None, NEW u \in Unarmed(r)
  PROVE  \E m \in [Sessions -> Markers], k \in SUBSET Sessions :
           /\ u = [armed |-> None, open |-> r.open - 1, view |-> "current", poked |-> FALSE,
                   marker |-> m, kept |-> k, mail |-> r.mail]
           /\ \A q \in Sessions : m[q] = "mine" /\ q \notin k
                => r.marker[q] = "mine" /\ q \notin r.kept /\ q # r.armed
  <1> DEFINE s == r.armed
             c == Closed(r)
  <1>1. c = [armed |-> None, open |-> r.open - 1, view |-> "current", poked |-> FALSE,
             marker |-> r.marker, kept |-> r.kept, mail |-> r.mail]
    BY ClosedRecord
  <1>2. /\ s \in Sessions /\ r.marker \in [Sessions -> Markers]
        /\ r.kept \in SUBSET Sessions
    BY Fields
  <1>3. \/ r.marker[s] # "mine" /\ u = c
        \/ u = [c EXCEPT !.marker[s] = "none"]
        \/ u = [c EXCEPT !.kept = @ \cup {s}]
    BY DEF Unarmed
  <1>4. s = r.armed
    OBVIOUS
  <1> HIDE DEF c, s
  <1>5. CASE r.marker[s] # "mine" /\ u = c
    BY ZenonT(30), <1>1, <1>2, <1>4, <1>5
  <1>6. CASE u = [c EXCEPT !.marker[s] = "none"]
    <2> DEFINE m == [r.marker EXCEPT ![s] = "none"]
    <2>1. u = [armed |-> None, open |-> r.open - 1, view |-> "current", poked |-> FALSE,
               marker |-> m, kept |-> r.kept, mail |-> r.mail]
      BY <1>1, <1>6
    <2>2. m \in [Sessions -> Markers]
          /\ \A q \in Sessions : m[q] = "mine" => r.marker[q] = "mine" /\ q # s
      BY <1>2 DEF Markers
    <2> HIDE DEF m
    <2> QED BY <1>2, <1>4, <2>1, <2>2
  <1>7. CASE u = [c EXCEPT !.kept = @ \cup {s}]
    <2> DEFINE k == r.kept \cup {s}
    <2>1. u = [armed |-> None, open |-> r.open - 1, view |-> "current", poked |-> FALSE,
               marker |-> r.marker, kept |-> k, mail |-> r.mail]
      BY <1>1, <1>7
    <2>2. k \in SUBSET Sessions
      BY <1>2
    <2>3. \A q \in Sessions : r.marker[q] = "mine" /\ q \notin k
            => r.marker[q] = "mine" /\ q \notin r.kept /\ q # r.armed
      BY <1>4
    <2> HIDE DEF k
    <2> QED BY ONLY <1>2, <2>1, <2>2, <2>3
  <1> QED BY <1>3, <1>5, <1>6, <1>7

LEMMA UnarmedFacts ==
  ASSUME NEW r, RxInv(r), NEW u \in Unarmed(r)
  PROVE  RxInv(u) /\ u.armed = None /\ Surplus(u) = Surplus(r)
  <1>1. CASE r.armed = None
    BY <1>1 DEF Unarmed
  <1>2. CASE r.armed # None
    <2>1. r \in Receiver /\ Surplus(r) >= 0
      BY DEF RxInv
    <2>2. PICK m \in [Sessions -> Markers], k \in SUBSET Sessions :
            /\ u = [armed |-> None, open |-> r.open - 1, view |-> "current", poked |-> FALSE,
                    marker |-> m, kept |-> k, mail |-> r.mail]
            /\ \A q \in Sessions : m[q] = "mine" /\ q \notin k
                 => r.marker[q] = "mine" /\ q \notin r.kept /\ q # r.armed
      BY <1>2, <2>1, UnarmedRecord
    <2>3. r.open \in 0..MaxWatches /\ MaxWatches \in Nat /\ r.mail \in [Sessions -> Mails]
      BY <2>1, Fields
    <2>4. Surplus(r) = r.open - 1 /\ Surplus(u) = r.open - 1 /\ u.armed = None
      BY <1>2, <2>2, <2>3 DEF Surplus
    <2>5. r.open - 1 \in 0..MaxWatches
      BY <2>1, <2>3, <2>4
    <2>6. u \in Receiver
      BY <2>2, <2>3, <2>5 DEF Receiver, Views
    <2>7. ASSUME NEW q \in Sessions, u.marker[q] = "mine", q \notin u.kept PROVE FALSE
      BY <2>2, <2>7 DEF RxInv
    <2> QED BY <2>1, <2>4, <2>6, <2>7 DEF RxInv
  <1> QED BY <1>1, <1>2

\* A change of the mail alone keeps what the watch and the markers promise.
LEMMA MailFacts ==
  ASSUME NEW r, RxInv(r), NEW s \in Sessions, NEW m \in Mails,
         NEW q, q = [r EXCEPT !.mail[s] = m]
  PROVE  RxInv(q) /\ q.armed = r.armed /\ Surplus(q) = Surplus(r)
  <1>1. q = [armed |-> r.armed, open |-> r.open, view |-> r.view, poked |-> r.poked,
             marker |-> r.marker, kept |-> r.kept, mail |-> [r.mail EXCEPT ![s] = m]]
    BY DEF RxInv, Receiver
  <1>2. q \in Receiver
    BY <1>1 DEF RxInv, Receiver
  <1>3. q.armed = r.armed /\ Surplus(q) = Surplus(r)
    BY <1>1 DEF Surplus
  <1> QED BY <1>1, <1>2, <1>3 DEF RxInv

\* A ring leaves the watch armed or unarms it, and leaves no mail there that is fresh.
LEMMA RungFacts ==
  ASSUME NEW r, RxInv(r), NEW q \in Rung(r)
  PROVE  RxInv(q) /\ q.armed \in {r.armed, None} /\ WakeDue(q) /\ Surplus(q) = Surplus(r)
  <1> DEFINE s == r.armed
  <1>0. ASSUME q.armed = None PROVE WakeDue(q)
    BY <1>0, ReceiverConstants DEF WakeDue
  <1>1. CASE s = None
    BY <1>0, <1>1 DEF Rung
  <1>2. CASE s # None /\ r.view = "vanished"
    <2>1. q \in Unarmed(r)
      BY <1>2 DEF Rung
    <2> QED BY <1>0, <2>1, UnarmedFacts
  <1>3. CASE s # None /\ r.view # "vanished"
    <2>1. s \in Sessions
      BY <1>3 DEF RxInv, Receiver
    <2>2. PICK m \in {"quiet", "written"} : q = [r EXCEPT !.mail[s] = m]
      BY <1>3 DEF Rung
    <2>3. q.armed = s /\ q.mail[s] # "fresh"
      BY <2>1, <2>2 DEF RxInv, Receiver
    <2>4. WakeDue(q)
      BY <2>3 DEF WakeDue
    <2>5. m \in Mails
      BY DEF Mails
    <2>6. RxInv(q) /\ q.armed = r.armed /\ Surplus(q) = Surplus(r)
      BY <2>1, <2>2, <2>5, MailFacts
    <2> QED BY <2>4, <2>6
  <1> QED BY <1>1, <1>2, <1>3

\* Arming puts a watch and a marker in place, for the citizen of now.
LEMMA RearmedFacts ==
  ASSUME NEW r, RxInv(r), session \in Sessions, r.open # MaxWatches,
         NEW a, a = Rearmed(r)
  PROVE  /\ RxInv(a) /\ a.armed = session
         /\ r.armed = None => Surplus(a) = Surplus(r)
  <1> DEFINE mine == [r.marker EXCEPT ![session] = "mine"]
             k == (r.kept \cup Mine(r, r.armed)) \ {session}
  <1>1. r \in Receiver /\ Surplus(r) >= 0 /\ session # None
    BY ReceiverConstants DEF RxInv
  <1>2. a = [armed |-> session, open |-> r.open + 1, view |-> "current", poked |-> FALSE,
             marker |-> mine, kept |-> k, mail |-> r.mail]
    BY <1>1 DEF Rearmed, Receiver
  <1>3. /\ r.marker \in [Sessions -> Markers] /\ r.kept \in SUBSET Sessions
        /\ r.mail \in [Sessions -> Mails] /\ r.open \in 0..MaxWatches /\ MaxWatches \in Nat
    BY <1>1, Fields
  <1>4. mine \in [Sessions -> Markers] /\ k \in SUBSET Sessions
    BY <1>3 DEF Markers, Mine
  <1>5. ASSUME NEW s \in Sessions, mine[s] = "mine", s \notin k PROVE s = session
    <2> SUFFICES ASSUME s # session PROVE FALSE
      OBVIOUS
    <2>1. r.marker[s] = "mine" /\ s \notin r.kept /\ s \notin Mine(r, r.armed)
      BY <1>3, <1>5
    <2> QED BY <2>1 DEF RxInv, Mine
  <1> HIDE DEF mine, k
  <1>6. r.open + 1 \in 0..MaxWatches
    BY <1>3
  <1>7. a \in Receiver
    BY <1>2, <1>3, <1>4, <1>6 DEF Receiver, Views
  <1>8. Surplus(a) = r.open /\ (r.armed = None => Surplus(r) = r.open)
    BY <1>1, <1>2, <1>3 DEF Surplus
  <1> QED BY <1>2, <1>3, <1>5, <1>7, <1>8 DEF RxInv

\* An attempt that did not handle the event changed nothing.
LEMMA TryArmFacts ==
  ASSUME NEW r, RxInv(r), session \in Sessions, NEW t \in TryArm(r)
  PROVE  /\ RxInv(t[1]) /\ t[1].armed \in {session, None, r.armed}
         /\ WakeDue(r) => WakeDue(t[1])
         /\ r.armed = None => Surplus(t[1]) = Surplus(r)
         /\ t[2] \in BOOLEAN
         /\ ~t[2] => t[1] = r
  <1>1. CASE t = <<r, FALSE>>
    BY <1>1
  <1>2. CASE t # <<r, FALSE>>
    <2>1. PICK q \in ArmFailed(r) \cup IF sender = session THEN Armed(r) ELSE {} : t = <<q, TRUE>>
      BY <1>2 DEF TryArm
    <2>2. CASE q = r
      BY <2>1, <2>2
    <2>3. CASE q # r
      <3> DEFINE a == Rearmed(r)
      <3>1. q \in Armed(r)
        BY <2>1, <2>3 DEF ArmFailed
      <3>2. r.open # MaxWatches /\ q \in Rung(a)
        BY <3>1 DEF Armed
      <3>3. a = Rearmed(r)
        OBVIOUS
      <3> HIDE DEF a
      <3>4. /\ RxInv(a) /\ a.armed = session
            /\ r.armed = None => Surplus(a) = Surplus(r)
        BY <3>2, <3>3, RearmedFacts
      <3>5. RxInv(q) /\ q.armed \in {session, None} /\ WakeDue(q) /\ Surplus(q) = Surplus(a)
        BY <3>2, <3>4, RungFacts
      <3> QED BY <2>1, <3>4, <3>5
    <2> QED BY <2>2, <2>3
  <1> QED BY <1>1, <1>2

\* What cancelRetry leaves runs because the vendor refused to clear it.
LEMMA CancelFacts ==
  ASSUME RetryInv, NEW n \in 0..1, Cancelled(n)
  PROVE  refused' \in 0..MaxRefused /\ refused' >= refused /\ Running(n) = refused'
  <1>1. MaxRefused \in Nat /\ refused \in 0..MaxRefused
    BY ReceiverConstants DEF RetryInv
  <1>2. CASE held
    <2>1. timers = refused + 1 /\ Running(n) = timers - 1 + n
      BY <1>2 DEF RetryInv, Running
    <2> QED BY <1>1, <2>1 DEF Cancelled
  <1>3. CASE ~held
    <2>1. timers = refused /\ Running(n) = timers + n /\ n = 0
      BY <1>3 DEF RetryInv, Running, Cancelled
    <2> QED BY <1>1, <2>1 DEF Cancelled
  <1> QED BY <1>2, <1>3

-----------------------------------------------------------------------------
(* The invariant *)

LEMMA InitReceiver == ReceiverInit => ReceiverInv
  <1> SUFFICES ASSUME ReceiverInit PROVE ReceiverInv
    OBVIOUS
  <1>1. /\ MaxTicks \in Nat /\ 0 < MaxTicks /\ MaxWatches \in Nat /\ MaxRefused \in Nat
        /\ MaxSenders \in Nat
    BY ReceiverConstants
  <1>2. rx \in Receiver
    BY <1>1 DEF ReceiverInit, Receiver, Views, Markers, Mails
  <1>3. rx.open = 0 /\ rx.armed = None /\ \A s \in Sessions : rx.marker[s] = "none"
    BY DEF ReceiverInit
  <1>4. RxInv(rx) /\ LeakInv /\ ArmInv
    BY <1>2, <1>3 DEF RxInv, LeakInv, Surplus, ArmInv
  <1>5. HostInv
    BY DEF ReceiverInit, HostInv
  <1>6. RetryInv
    <2>1. held \in BOOLEAN /\ ~held
      BY Zenon DEF ReceiverInit
    <2> QED BY <1>1, <2>1 DEF ReceiverInit, RetryInv
  <1>7. sending \in [Sessions -> 0..MaxSenders]
    BY <1>1 DEF ReceiverInit
  <1> QED BY <1>4, <1>5, <1>6, <1>7 DEF ReceiverInv

LEMMA OnEdgeKeeps == ReceiverInv /\ OnEdge => ReceiverInv'
  <1> SUFFICES ASSUME ReceiverInv, OnEdge PROVE ReceiverInv'
    OBVIOUS
  <1>1. session \in Sessions /\ RetryInv
    BY DEF ReceiverInv, HostInv, OnEdge
  <1>2. PICK u \in Unarmed(rx) : \E t \in TryArm(u) : \E n \in 0..1 :
          /\ rx' = t[1]
          /\ Cancelled(n)
          /\ \/ held' = FALSE /\ timers' = Running(n)
             \/ ~t[2] /\ held' = TRUE /\ timers' = Running(n) + 1
    BY DEF OnEdge
  <1>3. RxInv(u) /\ u.armed = None /\ Surplus(u) = Surplus(rx)
    BY <1>2, UnarmedFacts DEF ReceiverInv
  <1>4. PICK t \in TryArm(u), n \in 0..1 :
          /\ rx' = t[1]
          /\ Cancelled(n)
          /\ \/ held' = FALSE /\ timers' = Running(n)
             \/ ~t[2] /\ held' = TRUE /\ timers' = Running(n) + 1
    BY <1>2
  <1>5. /\ RxInv(rx') /\ rx'.armed \in {session, None} /\ Surplus(rx') = Surplus(rx)
        /\ ~t[2] => rx'.armed = None
    BY <1>1, <1>3, <1>4, TryArmFacts
  <1>6. refused' \in 0..MaxRefused /\ refused' >= refused /\ Running(n) = refused'
    BY <1>1, <1>4, CancelFacts
  <1>7. /\ UNCHANGED <<session, sender, sending>>
        /\ ticks' = 0 /\ owed' = owed \ {"receiver"}
    BY DEF OnEdge
  <1>8. HostInv'
    BY <1>1, <1>5, <1>7, ReceiverConstants DEF ReceiverInv, HostInv
  <1>9. RetryInv'
    <2>1. MaxTicks \in Nat /\ 0 < MaxTicks /\ MaxRefused \in Nat
      BY ReceiverConstants
    <2>2. CASE held' = FALSE /\ timers' = Running(n)
      <3>1. timers' = refused'
        BY <1>6, <2>1, <2>2
      <3>2. (held \in BOOLEAN)' /\ ~held'
        BY <2>2, Zenon
      <3>3. ticks' \in 0..MaxTicks
        BY <1>7, <2>1
      <3> QED BY ONLY <1>6, <3>1, <3>2, <3>3, Zenon DEF RetryInv
    <2>3. CASE ~t[2] /\ held' = TRUE /\ timers' = Running(n) + 1
      BY <1>5, <1>6, <1>7, <2>1, <2>3 DEF RetryInv
    <2> QED BY <1>4, <2>2, <2>3
  <1>10. ArmInv'
    BY <1>5, <1>7 DEF ArmInv
  <1>11. LeakInv'
    <2>1. refused' = 0 => refused = 0
      BY <1>1, <1>6, ReceiverConstants DEF RetryInv
    <2>2. refused = 0 => Surplus(rx) = 0
      BY DEF ReceiverInv, LeakInv
    <2> QED BY <1>5, <2>1, <2>2 DEF LeakInv, Surplus
  <1> QED BY <1>5, <1>7, <1>8, <1>9, <1>10, <1>11 DEF ReceiverInv, RxInv, Surplus

LEMMA TickKeeps == ReceiverInv /\ RetryTick => ReceiverInv'
  <1> SUFFICES ASSUME ReceiverInv, RetryTick PROVE ReceiverInv'
    OBVIOUS
  <1>1. session \in Sessions /\ RetryInv /\ RxInv(rx)
    BY DEF ReceiverInv, HostInv, RetryTick
  <1>2. PICK t \in TryArm(rx) :
          /\ rx' = t[1]
          /\ IF t[2] \/ ticks' = MaxTicks
             THEN \E n \in 0..1 : Cancelled(n) /\ held' = FALSE /\ timers' = Running(n)
             ELSE UNCHANGED <<held, timers, refused>>
    BY DEF RetryTick
  <1>3. /\ RxInv(rx') /\ rx'.armed \in {session, None, rx.armed}
        /\ rx.armed = None => Surplus(rx') = Surplus(rx)
        /\ ~t[2] => rx' = rx
    BY <1>1, <1>2, TryArmFacts
  <1>4. /\ UNCHANGED <<session, owed, sender, sending>>
        /\ ticks' = IF ticks < MaxTicks THEN ticks + 1 ELSE ticks
    BY DEF RetryTick, host
  <1>5. /\ ticks' \in 0..MaxTicks /\ refused \in 0..MaxRefused
        /\ MaxTicks \in Nat /\ MaxRefused \in Nat
    BY <1>1, <1>4, ReceiverConstants DEF RetryInv
  <1>6. rx.armed # None => refused > 0
    <2> SUFFICES ASSUME rx.armed # None PROVE refused > 0
      OBVIOUS
    <2>1. ~held
      BY <1>1 DEF RetryInv
    <2>2. timers = refused
      BY <1>1, <2>1 DEF RetryInv
    <2> QED BY <1>5, <2>2 DEF RetryTick
  <1>7. HostInv'
    BY <1>1, <1>3, <1>4, ReceiverConstants DEF ReceiverInv, HostInv
  <1>8. RetryInv' /\ refused' >= refused
    <2>1. CASE t[2] \/ ticks' = MaxTicks
      <3>1. PICK n \in 0..1 : Cancelled(n) /\ held' = FALSE /\ timers' = Running(n)
        BY <1>2, <2>1
      <3>2. refused' \in 0..MaxRefused /\ refused' >= refused /\ Running(n) = refused'
        BY <1>1, <3>1, CancelFacts
      <3>3. timers' = refused'
        BY <1>5, <3>1, <3>2
      <3> QED BY <1>5, <3>1, <3>2, <3>3 DEF RetryInv
    <2>2. CASE ~(t[2] \/ ticks' = MaxTicks)
      <3>1. UNCHANGED <<held, timers, refused>> /\ rx' = rx
        BY <1>2, <1>3, <2>2
      <3>2. ticks' < MaxTicks
        BY <1>5, <2>2
      <3> QED BY <1>1, <1>5, <3>1, <3>2 DEF RetryInv
    <2> QED BY <2>1, <2>2
  <1>9. ArmInv'
    BY <1>3, <1>4 DEF ArmInv, ReceiverInv
  <1>10. LeakInv'
    <2> SUFFICES ASSUME refused' = 0 PROVE Surplus(rx') = 0
      BY DEF LeakInv, Surplus
    <2>1. refused = 0 /\ rx.armed = None
      BY <1>5, <1>6, <1>8
    <2> QED BY <1>3, <2>1 DEF ReceiverInv, LeakInv
  <1> QED BY <1>3, <1>4, <1>7, <1>8, <1>9, <1>10 DEF ReceiverInv, RxInv, Surplus

\* A handler that changes no more than the watch, the markers and the mail.
LEMMA RxStepKeeps ==
  ASSUME ReceiverInv, RxInv(rx'), rx'.armed \in {rx.armed, None}, Surplus(rx') = Surplus(rx),
         UNCHANGED <<host, retry>>, sending' \in [Sessions -> 0..MaxSenders]
  PROVE  ReceiverInv'
  <1>1. HostInv' /\ ArmInv' /\ RetryInv' /\ LeakInv'
    BY DEF ReceiverInv, HostInv, ArmInv, RetryInv, LeakInv, Surplus, host, retry
  <1> QED BY <1>1 DEF ReceiverInv, RxInv, Surplus

\* An event that was heard leaves the rest as it was.
LEMMA HeardFacts ==
  ASSUME NEW r, RxInv(r), NEW q, q = [r EXCEPT !.poked = FALSE]
  PROVE  RxInv(q) /\ q.armed = r.armed /\ Surplus(q) = Surplus(r)
  <1>1. q = [armed |-> r.armed, open |-> r.open, view |-> r.view, poked |-> FALSE,
             marker |-> r.marker, kept |-> r.kept, mail |-> r.mail]
    BY DEF RxInv, Receiver
  <1>2. q \in Receiver /\ q.armed = r.armed /\ Surplus(q) = Surplus(r)
    BY <1>1 DEF RxInv, Receiver, Surplus
  <1> QED BY <1>1, <1>2 DEF RxInv

LEMMA WatchKeeps == ReceiverInv /\ (WatchEvent \/ StrayEvent \/ WatchError) => ReceiverInv'
  <1> SUFFICES ASSUME ReceiverInv, WatchEvent \/ StrayEvent \/ WatchError PROVE ReceiverInv'
    OBVIOUS
  <1> DEFINE r == [rx EXCEPT !.poked = FALSE]
  <1>1. RxInv(rx) /\ RxInv(r) /\ r.armed = rx.armed /\ Surplus(r) = Surplus(rx)
    BY HeardFacts DEF ReceiverInv
  <1>2. /\ UNCHANGED <<host, retry>> /\ sending' \in [Sessions -> 0..MaxSenders]
    BY DEF WatchEvent, StrayEvent, WatchError, ReceiverInv
  <1>3. rx' \in Rung(r) \/ rx' \in Rung(rx) \/ rx' \in Unarmed(rx)
    BY DEF WatchEvent, StrayEvent, WatchError
  <1> HIDE DEF r
  <1>4. RxInv(rx') /\ rx'.armed \in {rx.armed, None} /\ Surplus(rx') = Surplus(rx)
    BY <1>1, <1>3, RungFacts, UnarmedFacts
  <1> QED BY <1>2, <1>4, RxStepKeeps

\* The end of the process closes what is open, and its markers are a dead process's.
LEMMA ExitKeeps == ReceiverInv /\ Exit => ReceiverInv'
  <1> SUFFICES ASSUME ReceiverInv, Exit PROVE ReceiverInv'
    OBVIOUS
  <1>1. PICK r \in Unarmed(rx) \cup {Closed(rx)} :
          rx' = [r EXCEPT !.open = 0, !.marker = Orphaned(r.marker), !.kept = {}]
    BY DEF Exit
  <1>2. RxInv(rx) /\ rx \in Receiver
    BY DEF ReceiverInv, RxInv
  <1>3. /\ r = [armed |-> None, open |-> r.open, view |-> r.view, poked |-> r.poked,
                marker |-> r.marker, kept |-> r.kept, mail |-> r.mail]
        /\ r.view \in Views /\ r.poked \in BOOLEAN
        /\ r.marker \in [Sessions -> Markers] /\ r.mail \in [Sessions -> Mails]
    <2>1. CASE r \in Unarmed(rx)
      <3>1. r \in Receiver /\ r.armed = None
        BY <1>2, <2>1, UnarmedFacts DEF RxInv
      <3> QED BY <3>1, Fields
    <2>2. CASE r = Closed(rx)
      <3>1. r = [armed |-> None, open |-> rx.open - 1, view |-> "current", poked |-> FALSE,
                 marker |-> rx.marker, kept |-> rx.kept, mail |-> rx.mail]
        BY <1>2, <2>2, ClosedRecord
      <3>2. rx.marker \in [Sessions -> Markers] /\ rx.mail \in [Sessions -> Mails]
        BY <1>2, Fields
      <3> QED BY <3>1, <3>2 DEF Views
    <2> QED BY <1>1, <2>1, <2>2
  <1> DEFINE dead == Orphaned(r.marker)
  <1>5. rx' = [armed |-> None, open |-> 0, view |-> r.view, poked |-> r.poked,
               marker |-> dead, kept |-> {}, mail |-> r.mail]
    <2> DEFINE m == r.marker
               k == r.kept
               l == r.mail
               o == r.open
               v == r.view
               p == r.poked
    <2>1. r = [armed |-> None, open |-> o, view |-> v, poked |-> p, marker |-> m,
               kept |-> k, mail |-> l]
      BY <1>3
    <2>2. rx' = [r EXCEPT !.open = 0, !.marker = Orphaned(m), !.kept = {}]
      BY <1>1
    <2> HIDE DEF m, k, l, o, v, p
    <2>3. rx' = [armed |-> None, open |-> 0, view |-> v, poked |-> p,
                 marker |-> Orphaned(m), kept |-> {}, mail |-> l]
      BY ONLY <2>1, <2>2
    <2> QED BY ONLY <2>3 DEF m, l, v, p
  <1>6. dead \in [Sessions -> Markers] /\ \A s \in Sessions : dead[s] # "mine"
    BY <1>3 DEF Orphaned, Markers
  <1> HIDE DEF dead
  <1>7. MaxTicks \in Nat /\ MaxWatches \in Nat /\ MaxRefused \in Nat
    BY ReceiverConstants
  <1>8. rx' \in Receiver
    BY <1>3, <1>5, <1>6, <1>7 DEF Receiver
  <1>9. RxInv(rx') /\ rx'.armed = None /\ Surplus(rx') = 0
    BY <1>5, <1>6, <1>8 DEF RxInv, Surplus
  <1>10. session' = None /\ owed' = {} /\ sender' = None /\ UNCHANGED sending
         /\ held' = FALSE /\ timers' = 0 /\ refused' = 0 /\ ticks' = 0
    BY DEF Exit
  <1>11. HostInv' /\ ArmInv'
    BY <1>9, <1>10 DEF HostInv, ArmInv
  <1>12. RetryInv'
    <2>1. (held \in BOOLEAN)' /\ ~held'
      BY <1>10, Zenon
    <2> QED BY <1>7, <1>10, <2>1 DEF RetryInv
  <1>13. LeakInv'
    BY <1>9 DEF LeakInv, Surplus
  <1> QED BY <1>9, <1>10, <1>11, <1>12, <1>13 DEF ReceiverInv, RxInv, Surplus

FileSteps(s) == \/ Write(s) \/ Poke(s) \/ Abandon(s)
                \/ InboxRead(s) \/ Archive(s) \/ OtherHost(s)

\* Senders, readers, operators and other hosts touch the files and no watch.
LEMMA FilesKeep ==
  ASSUME ReceiverInv, NEW s \in Sessions, FileSteps(s)
  PROVE  ReceiverInv'
  <1>1. RxInv(rx) /\ rx \in Receiver
    BY DEF ReceiverInv, RxInv
  <1>2. UNCHANGED <<host, retry>>
    BY DEF FileSteps, Write, Poke, Abandon, InboxRead, Archive, OtherHost
  <1>3. /\ rx' = [armed |-> rx.armed, open |-> rx.open, view |-> rx'.view, poked |-> rx'.poked,
                  marker |-> rx'.marker, kept |-> rx'.kept, mail |-> rx'.mail]
        /\ rx'.view \in Views /\ rx'.poked \in BOOLEAN
        /\ rx'.marker \in [Sessions -> Markers] /\ rx'.mail \in [Sessions -> Mails]
        /\ rx'.kept \in SUBSET Sessions
        /\ \A q \in Sessions : rx'.marker[q] = "mine" /\ q \notin rx'.kept
             => rx.marker[q] = "mine" /\ q \notin rx.kept
    <2>1. CASE Write(s)
      BY <1>1, <2>1 DEF Write, Receiver, Mails
    <2>2. CASE Poke(s)
      BY <1>1, <2>2 DEF Poke, Receiver, Views, Mails
    <2>3. CASE Abandon(s)
      BY <1>1, <2>3, Fields DEF Abandon
    <2>4. CASE InboxRead(s)
      BY <1>1, <2>4 DEF InboxRead, Receiver, Mails
    <2>5. CASE Archive(s)
      <3>1. PICK seen \in BOOLEAN :
              rx' = [rx EXCEPT !.mail[s] = "quiet",
                       !.view = IF rx.armed = s THEN "vanished" ELSE @,
                       !.poked = @ \/ (rx.armed = s /\ seen)]
        BY <2>5 DEF Archive
      <3>2. rx' = [armed |-> rx.armed, open |-> rx.open,
                   view |-> IF rx.armed = s THEN "vanished" ELSE rx.view,
                   poked |-> (rx.poked \/ (rx.armed = s /\ seen)),
                   marker |-> rx.marker, kept |-> rx.kept,
                   mail |-> [rx.mail EXCEPT ![s] = "quiet"]]
        BY <1>1, <3>1 DEF Receiver
      <3>3. /\ rx.view \in Views /\ rx.marker \in [Sessions -> Markers]
            /\ rx.kept \in SUBSET Sessions
            /\ [rx.mail EXCEPT ![s] = "quiet"] \in [Sessions -> Mails]
        BY <1>1 DEF Receiver, Mails
      <3> QED BY <3>2, <3>3 DEF Views
    <2>6. CASE OtherHost(s)
      <3>1. CASE rx' = [rx EXCEPT !.marker[s] = "other", !.kept = @ \ {s}]
        BY <1>1, <3>1 DEF Receiver, Markers
      <3>2. CASE rx' = [rx EXCEPT !.marker[s] = "none"]
        BY <1>1, <3>2 DEF Receiver, Markers
      <3>3. CASE rx' = [rx EXCEPT !.mail[s] = "quiet"]
        BY <1>1, <3>3 DEF Receiver, Mails
      <3> QED BY <2>6, <3>1, <3>2, <3>3 DEF OtherHost
    <2> QED BY <2>1, <2>2, <2>3, <2>4, <2>5, <2>6 DEF FileSteps
  <1>4. rx' \in Receiver /\ rx'.armed = rx.armed /\ rx'.open = rx.open
    BY <1>1, <1>3 DEF Receiver
  <1>5. RxInv(rx') /\ Surplus(rx') = Surplus(rx)
    BY <1>1, <1>3, <1>4 DEF RxInv, Surplus
  <1>6. sending' \in [Sessions -> 0..MaxSenders]
    <2>1. sending \in [Sessions -> 0..MaxSenders] /\ MaxSenders \in Nat
      BY ReceiverConstants DEF ReceiverInv
    <2>2. CASE sending' = sending
      BY <2>1, <2>2
    <2>3. CASE Write(s)
      <3>1. sending[s] + 1 \in 0..MaxSenders
        BY <2>1, <2>3 DEF Write
      <3> QED BY <2>1, <2>3, <3>1 DEF Write
    <2>4. CASE Poke(s) \/ Abandon(s)
      <3>1. sending[s] - 1 \in 0..MaxSenders
        BY <2>1, <2>4 DEF Poke, Abandon
      <3> QED BY <2>1, <2>4, <3>1 DEF Poke, Abandon
    <2> QED BY <2>2, <2>3, <2>4 DEF FileSteps, InboxRead, Archive, OtherHost
  <1> QED BY <1>2, <1>4, <1>5, <1>6, RxStepKeeps

\* An enqueue that returns at a current watch has poked it.
LEMMA FilesWake ==
  ASSUME rx \in Receiver, WakeDue(rx), NEW s \in Sessions, FileSteps(s)
  PROVE  WakeDue(rx')
  <1>1. CASE Write(s)
    BY <1>1 DEF Write, WakeDue, Receiver
  <1>2. CASE Poke(s)
    <2>1. rx' = [armed |-> rx.armed, open |-> rx.open,
                 view |-> IF rx.armed = s /\ rx.view = "vanished" THEN "replaced" ELSE rx.view,
                 poked |-> (rx.poked \/ (rx.armed = s /\ rx.view = "current")),
                 marker |-> rx.marker, kept |-> rx.kept,
                 mail |-> [rx.mail EXCEPT ![s] = IF @ = "written" THEN "fresh" ELSE @]]
      BY <1>2 DEF Poke, Receiver
    <2> QED BY <2>1 DEF WakeDue, Receiver
  <1>3. CASE Archive(s)
    <2>1. PICK seen \in BOOLEAN :
            rx' = [rx EXCEPT !.mail[s] = "quiet",
                     !.view = IF rx.armed = s THEN "vanished" ELSE @,
                     !.poked = @ \/ (rx.armed = s /\ seen)]
      BY <1>3 DEF Archive
    <2>2. rx' = [armed |-> rx.armed, open |-> rx.open,
                 view |-> IF rx.armed = s THEN "vanished" ELSE rx.view,
                 poked |-> (rx.poked \/ (rx.armed = s /\ seen)),
                 marker |-> rx.marker, kept |-> rx.kept,
                 mail |-> [rx.mail EXCEPT ![s] = "quiet"]]
      BY <2>1 DEF Receiver
    <2> QED BY <2>2 DEF WakeDue, Receiver
  <1>4. CASE OtherHost(s)
    BY <1>4 DEF OtherHost, WakeDue, Receiver
  <1>5. CASE InboxRead(s)
    BY <1>5 DEF InboxRead, WakeDue, Receiver
  <1>6. CASE Abandon(s)
    BY <1>6 DEF Abandon
  <1> QED BY <1>1, <1>2, <1>3, <1>4, <1>5, <1>6 DEF FileSteps

LEMMA ExitUnarms == ReceiverInv /\ Exit => rx'.armed = None
  <1> SUFFICES ASSUME ReceiverInv, Exit PROVE rx'.armed = None
    OBVIOUS
  <1>1. PICK r \in Unarmed(rx) \cup {Closed(rx)} :
          rx' = [r EXCEPT !.open = 0, !.marker = Orphaned(r.marker), !.kept = {}]
    BY DEF Exit
  <1>2. CASE r \in Unarmed(rx)
    BY <1>1, <1>2, UnarmedFacts DEF ReceiverInv, RxInv, Receiver
  <1>3. CASE r = Closed(rx)
    BY <1>1, <1>3 DEF Closed, ReceiverInv, RxInv, Receiver
  <1> QED BY <1>1, <1>2, <1>3

\* The vendor's sessions and the birth unit.
LEMMA SessionsKeep ==
  ASSUME ReceiverInv,
         Birth \/ \E s \in Sessions : Boot(s) \/ Switch(s)
  PROVE  ReceiverInv'
  <1>1. UNCHANGED <<rx, retry, sending>>
    BY DEF Birth, Boot, Switch
  <1>2. RxInv(rx') /\ RetryInv' /\ LeakInv'
    BY <1>1 DEF ReceiverInv, RxInv, RetryInv, LeakInv, Surplus, retry
  <1>3. HostInv' /\ ArmInv'
    <2>1. CASE Birth
      BY <1>1, <2>1 DEF Birth, ReceiverInv, HostInv, ArmInv, retry, Handlers
    <2>2. CASE \E s \in Sessions : Boot(s) \/ Switch(s)
      <3>1. /\ session' \in Sessions /\ owed' = Handlers /\ sender' = sender
        BY <2>2 DEF Boot, Switch
      <3> QED BY <1>1, <3>1, ReceiverConstants DEF ReceiverInv, HostInv, ArmInv, Handlers
    <2> QED BY <2>1, <2>2
  <1> QED BY <1>1, <1>2, <1>3 DEF ReceiverInv, RxInv, Surplus

LEMMA NextReceiver == ReceiverInv /\ [ReceiverNext]_receiverVars => ReceiverInv'
  <1> SUFFICES ASSUME ReceiverInv, [ReceiverNext]_receiverVars PROVE ReceiverInv'
    OBVIOUS
  <1>1. CASE OnEdge
    BY <1>1, OnEdgeKeeps
  <1>2. CASE RetryTick
    BY <1>2, TickKeeps
  <1>3. CASE WatchEvent \/ StrayEvent \/ WatchError
    BY <1>3, WatchKeeps
  <1>4. CASE Exit
    BY <1>4, ExitKeeps
  <1>5. CASE Birth \/ \E s \in Sessions : Boot(s) \/ Switch(s)
    BY <1>5, SessionsKeep
  <1>6. CASE \E s \in Sessions : FileSteps(s)
    BY <1>6, FilesKeep
  <1>7. CASE UNCHANGED receiverVars
    BY <1>7 DEF receiverVars, host, retry, ReceiverInv, HostInv, ArmInv, RetryInv, RxInv,
              LeakInv, Surplus
  <1> QED BY <1>1, <1>2, <1>3, <1>4, <1>5, <1>6, <1>7 DEF ReceiverNext, FileSteps

\* The invariant behind the theorems below: the armed watch is open, each marker of this
\* process is the armed citizen's or known to have stayed behind, the armed citizen is the
\* current one or about to be replaced, and each timer is held or was refused.
THEOREM ReceiverInvariant == ReceiverSpec => []ReceiverInv
  <1> QED BY InitReceiver, NextReceiver, PTL DEF ReceiverSpec

\* The receiver's state stays within its types: no tick beyond the limit, no timer beside
\* the held one and those the vendor refused to clear.
THEOREM TypeCorrect == ReceiverSpec => []ReceiverTypeOK
  <1>1. ReceiverInv => ReceiverTypeOK
    <2> SUFFICES ASSUME ReceiverInv PROVE ReceiverTypeOK
      OBVIOUS
    <2>1. RetryInv /\ MaxRefused \in Nat
      BY ReceiverConstants DEF ReceiverInv
    <2>2. timers \in 0..MaxRefused + 1
      <3>1. CASE held
        BY <2>1, <3>1 DEF RetryInv
      <3>2. CASE ~held
        <4>1. timers = refused
          BY <2>1, <3>2 DEF RetryInv
        <4> QED BY <2>1, <4>1 DEF RetryInv
      <3> QED BY <3>1, <3>2
    <2> QED BY <2>1, <2>2 DEF ReceiverInv, HostInv, RxInv, RetryInv, ReceiverTypeOK
  <1> QED BY <1>1, ReceiverInvariant, PTL

\* onEdge, unarm and the exit guard: through any /new and /resume, a marker that names
\* this process means that it carries that citizen now and watches its mailbox, unless
\* its removal failed or an uncleared timer armed over its watch.
THEOREM PromiseKept == ReceiverSpec => []MarkerIsAPromise
  <1>1. ReceiverInv => MarkerIsAPromise
    <2> SUFFICES ASSUME ReceiverInv, NEW s \in Sessions,
                        rx.marker[s] = "mine", s \notin rx.kept, "receiver" \notin owed
                 PROVE  session = s /\ rx.armed = s /\ rx.open > 0
      BY DEF MarkerIsAPromise
    <2>1. rx.armed = s /\ s # None
      BY ReceiverConstants DEF ReceiverInv, RxInv
    <2>2. session = s
      BY <2>1 DEF ReceiverInv, ArmInv
    <2>3. rx.open \in Int /\ Surplus(rx) >= 0
      BY Fields DEF ReceiverInv, RxInv
    <2>4. Surplus(rx) = rx.open - 1
      BY <2>1 DEF Surplus
    <2> QED BY <2>1, <2>2, <2>3, <2>4
  <1> QED BY <1>1, ReceiverInvariant, PTL

\* arm, unarm, the retry and a vendor that may refuse to clear its timer: every timer that
\* runs is held or was refused, and no watch is beside the armed one before a refusal.
THEOREM NoLeak == ReceiverSpec => []NothingLeaks
  <1>1. ReceiverInv => NothingLeaks
    <2> SUFFICES ASSUME ReceiverInv PROVE NothingLeaks
      OBVIOUS
    <2>1. rx.open \in Int
      BY Fields DEF ReceiverInv, RxInv
    <2>2. ASSUME refused = 0 PROVE rx.open = IF rx.armed = None THEN 0 ELSE 1
      BY <2>1, <2>2 DEF ReceiverInv, LeakInv, Surplus
    <2> QED BY <2>2 DEF ReceiverInv, RetryInv, NothingLeaks
  <1> QED BY <1>1, ReceiverInvariant, PTL

\* arm, ring, the watch's callback and an enqueue that writes before it pokes: mail whose
\* enqueue returned has its event pending at an armed watch, so a doorbell that waits for
\* an event never sleeps over such a letter.
THEOREM MailHasItsEvent == ReceiverSpec => []WakeIsPending
  <1>1. ReceiverInit => WakeIsPending
    BY ReceiverConstants DEF ReceiverInit, WakeIsPending
  <1>2. ReceiverInv /\ WakeIsPending /\ [ReceiverNext]_receiverVars => WakeIsPending'
    <2> SUFFICES ASSUME ReceiverInv, WakeIsPending, [ReceiverNext]_receiverVars
                 PROVE  WakeDue(rx)'
      BY DEF WakeIsPending, WakeDue
    <2>0. RxInv(rx) /\ rx \in Receiver /\ WakeDue(rx)
      BY DEF ReceiverInv, RxInv, WakeIsPending, WakeDue
    <2>1. CASE OnEdge
      <3>1. session \in Sessions
        BY <2>1 DEF ReceiverInv, HostInv, OnEdge
      <3>2. PICK u \in Unarmed(rx) : \E t \in TryArm(u) : rx' = t[1]
        BY <2>1 DEF OnEdge
      <3>3. RxInv(u) /\ u.armed = None
        BY <2>0, <3>2, UnarmedFacts
      <3>4. PICK t \in TryArm(u) : rx' = t[1]
        BY <3>2
      <3>5. WakeDue(u)
        BY <3>3, ReceiverConstants DEF WakeDue
      <3>6. WakeDue(rx')
        BY <3>1, <3>3, <3>4, <3>5, TryArmFacts
      <3> QED BY <3>6 DEF WakeDue
    <2>2. CASE RetryTick
      <3>1. session \in Sessions
        BY <2>2 DEF ReceiverInv, HostInv, RetryTick
      <3>2. PICK t \in TryArm(rx) : rx' = t[1]
        BY <2>2 DEF RetryTick
      <3>3. WakeDue(rx')
        BY <2>0, <3>1, <3>2, TryArmFacts
      <3> QED BY <3>3 DEF WakeDue
    <2>3. CASE WatchEvent \/ StrayEvent
      <3> DEFINE r == [rx EXCEPT !.poked = FALSE]
      <3>1. RxInv(r)
        BY <2>0, HeardFacts
      <3>2. rx' \in Rung(r) \/ rx' \in Rung(rx)
        BY <2>3 DEF WatchEvent, StrayEvent
      <3> HIDE DEF r
      <3>3. WakeDue(rx')
        BY <2>0, <3>1, <3>2, RungFacts
      <3> QED BY <3>3 DEF WakeDue
    <2>4. CASE WatchError
      <3>1. rx'.armed = None
        BY <2>0, <2>4, UnarmedFacts DEF WatchError
      <3> QED BY <3>1, ReceiverConstants DEF WakeDue
    <2>5. CASE Exit
      <3>1. (rx.armed = None)'
        BY <2>5, ExitUnarms
      <3> QED BY <3>1, ReceiverConstants DEF WakeDue
    <2>6. ASSUME NEW s \in Sessions, FileSteps(s) PROVE WakeDue(rx)'
      BY <2>0, <2>6, FilesWake DEF WakeDue
    <2>7. CASE Birth \/ (\E s \in Sessions : Boot(s) \/ Switch(s)) \/ UNCHANGED receiverVars
      <3>1. rx' = rx
        BY <2>7 DEF Birth, Boot, Switch, receiverVars
      <3> QED BY <2>0, <3>1 DEF WakeDue
    <2> QED BY <2>1, <2>2, <2>3, <2>4, <2>5, <2>6, <2>7 DEF ReceiverNext, FileSteps
  <1> QED BY <1>1, <1>2, ReceiverInvariant, PTL DEF ReceiverSpec

-----------------------------------------------------------------------------
(* OmpBootstrap *)


\* Stopping the timer touches nothing but the timer.
LEMMA StopFacts ==
  ASSUME NEW u \in Unit, NEW v \in StopTimer(u)
  PROVE  /\ v \in Unit
         /\ v.consumed = u.consumed /\ v.bound = u.bound
         /\ v.callId = u.callId /\ v.phase = u.phase
  <1>1. CASE u.held
    <2>1. PICK d \in BOOLEAN : v = [u EXCEPT !.held = FALSE, !.due = d]
      BY <1>1 DEF StopTimer
    <2>2. v = [consumed |-> u.consumed, bound |-> u.bound, phase |-> u.phase,
               callId |-> u.callId, held |-> FALSE, due |-> d, polls |-> u.polls]
      BY <2>1 DEF Unit
    <2> QED BY <2>2 DEF Unit
  <1>2. CASE ~u.held
    BY <1>2 DEF StopTimer
  <1> QED BY <1>1, <1>2

\* A failure keeps a final phase and the session it was bound to.
LEMMA FailFacts ==
  ASSUME NEW u \in Unit, NEW v \in Failed(u)
  PROVE  /\ v \in Unit
         /\ v.consumed = u.consumed /\ v.bound = u.bound /\ v.callId = u.callId
         /\ v.phase = IF Final(u) THEN u.phase ELSE "failed"
  <1>1. PICK w \in StopTimer(u) : v = [w EXCEPT !.phase = IF Final(u) THEN @ ELSE "failed"]
    BY DEF Failed
  <1>2. w \in Unit /\ w.consumed = u.consumed /\ w.bound = u.bound /\ w.callId = u.callId
        /\ w.phase = u.phase
    BY StopFacts
  <1> QED BY <1>1, <1>2 DEF Unit, Phases

\* A poll that finds no tool waits on or fails.
LEMMA NotReadyFacts ==
  ASSUME NEW u \in Unit, u.phase = "waiting", NEW v \in NotReady(u) \cup Failed(u)
  PROVE  /\ v \in Unit
         /\ v.consumed = u.consumed /\ v.bound = u.bound /\ v.callId = u.callId
         /\ v.phase \in {"waiting", "failed"}
  <1>1. CASE v \in Failed(u)
    BY <1>1, FailFacts DEF Final
  <1>2. CASE u.polls < MaxPolls /\ v = [u EXCEPT !.held = TRUE, !.due = TRUE, !.polls = @ + 1]
    <2>1. v = [consumed |-> u.consumed, bound |-> u.bound, phase |-> u.phase,
               callId |-> u.callId, held |-> TRUE, due |-> TRUE, polls |-> u.polls + 1]
      BY <1>2 DEF Unit
    <2>2. u.polls + 1 \in 0..MaxPolls
      BY <1>2, BootstrapConstants DEF Unit
    <2> QED BY <2>1, <2>2 DEF Unit
  <1> QED BY <1>1, <1>2 DEF NotReady, Scheduled

\* The end of an epoch leaves no live bootstrap behind.
LEMMA EndFacts ==
  ASSUME BootstrapInv, NEW s \in Sessions, NEW u \in Ended(s)
  PROVE  /\ u \in Unit
         /\ u.consumed = unit.consumed /\ u.bound = None
         /\ u.phase \in {"none", "task-sent", "failed"}
         /\ u.phase = "task-sent" <=> unit.phase = "task-sent"
         /\ u.phase = "none" <=> unit.phase = "none"
         /\ u.callId = unit.callId
  <1> USE DEF BootstrapInv, BootstrapTypeOK, LaunchInv, EpochInv
  <1>1. CASE unit.consumed /\ unit.bound # None
    <2>1. PICK w \in Failed(unit) : u = [w EXCEPT !.bound = None]
      BY <1>1 DEF Ended
    <2>2. /\ w \in Unit /\ w.consumed = unit.consumed /\ w.callId = unit.callId
          /\ w.phase = IF Final(unit) THEN unit.phase ELSE "failed"
      BY FailFacts
    <2>3. unit.phase # "none"
      BY <1>1
    <2> QED BY <2>1, <2>2, <2>3 DEF Unit, Final, Phases
  <1>2. CASE ~(unit.consumed /\ unit.bound # None)
    <2>1. u = unit
      BY <1>2 DEF Ended
    <2> QED BY <1>2, <2>1 DEF Unit, Phases
  <1> QED BY <1>1, <1>2

\* Nothing was sent and no edge came at the start.
LEMMA BootstrapInvInit == BootstrapInit => BootstrapInv
  BY BootstrapConstants DEF BootstrapInit, BootstrapInv, BootstrapTypeOK, Unit, Call, Phases, Modes, Epochs,
     LaunchInv, EpochInv, CallInv, SentInv, TaskStaysHome, TaskNeedsProof

\* Every handler and every event keeps the invariant.
LEMMA BootstrapInvStep == BootstrapInv /\ [BootstrapNext]_bootstrapVars => BootstrapInv'
  <1> SUFFICES ASSUME BootstrapInv, [BootstrapNext]_bootstrapVars PROVE BootstrapInv'
    OBVIOUS
  <1> USE BootstrapConstants DEF BootstrapInv, BootstrapTypeOK, Epochs, LaunchInv, EpochInv, CallInv,
     SentInv, TaskStaysHome, TaskNeedsProof
  <1>1. ASSUME NEW u \in Unit, u.phase = "waiting", u.callId = None, u.consumed,
               u.bound # None, NEW e \in Epochs, Tick(u, e)
        PROVE  /\ unit' \in Unit /\ unit'.consumed /\ unit'.bound = u.bound /\ unit'.callId = None
               /\ \/ /\ unit'.phase = "callback-sent"
                     /\ prompts' = [prompts EXCEPT ![e] = @ + 1]
                  \/ unit'.phase \in {"waiting", "failed"} /\ UNCHANGED prompts
    <2>1. CASE unit' = [u EXCEPT !.phase = "callback-sent"] /\ prompts' = [prompts EXCEPT ![e] = @ + 1]
      BY <1>1, <2>1 DEF Unit, Phases
    <2>2. CASE unit' \in NotReady(u) \cup Failed(u) /\ UNCHANGED prompts
      BY <1>1, <2>2, NotReadyFacts
    <2> QED BY <1>1, <2>1, <2>2 DEF Tick
  <1>2. ASSUME NEW s \in Sessions, BirthEdge(s) PROVE BootstrapInv'
    <2>1. PICK u \in Ended(s) :
            \/ unit' = u /\ bailed' = bailed \cup {epoch'} /\ UNCHANGED prompts
            \/ Started(u, s, epoch') /\ UNCHANGED bailed
      BY <1>2 DEF BirthEdge
    <2>2. /\ u \in Unit /\ u.consumed = unit.consumed /\ u.bound = None /\ u.callId = unit.callId
          /\ u.phase \in {"none", "task-sent", "failed"}
          /\ u.phase = "task-sent" <=> unit.phase = "task-sent"
          /\ u.phase = "none" <=> unit.phase = "none"
      BY <2>1, EndFacts
    <2>3. /\ epoch' = epoch + 1 /\ epoch' \in Epochs /\ session' = s
          /\ UNCHANGED <<calls, proved, tasks>>
      BY <1>2 DEF BirthEdge
    <2>4. CASE unit' = u /\ bailed' = bailed \cup {epoch'} /\ UNCHANGED prompts
      BY <2>2, <2>3, <2>4
    <2>5. CASE u.consumed /\ unit' = u /\ UNCHANGED <<prompts, bailed>>
      BY <2>2, <2>3, <2>5
    <2>6. CASE ~u.consumed /\ unit' = [u EXCEPT !.consumed = TRUE] /\ UNCHANGED <<prompts, bailed>>
      <3>1. unit' \in Unit /\ unit'.consumed /\ unit'.bound = None /\ unit'.phase = "none"
            /\ unit'.callId = unit.callId
        BY <2>2, <2>6 DEF Unit
      <3> QED BY <2>2, <2>3, <2>6, <3>1
    <2>7. CASE /\ ~u.consumed /\ UNCHANGED bailed
               /\ Tick([[u EXCEPT !.consumed = TRUE] EXCEPT !.bound = s, !.phase = "waiting"], epoch')
      <3> DEFINE w == [[u EXCEPT !.consumed = TRUE] EXCEPT !.bound = s, !.phase = "waiting"]
      <3>1. w \in Unit /\ w.phase = "waiting" /\ w.callId = None /\ w.consumed /\ w.bound = s
        BY <2>2, <2>7 DEF Unit, Phases
      <3>2. Tick(w, epoch')
        BY <2>7
      <3> HIDE DEF w
      <3>3. /\ unit' \in Unit /\ unit'.consumed /\ unit'.bound = s /\ unit'.callId = None
            /\ \/ /\ unit'.phase = "callback-sent"
                  /\ prompts' = [prompts EXCEPT ![epoch'] = @ + 1]
               \/ unit'.phase \in {"waiting", "failed"} /\ UNCHANGED prompts
        BY <1>1, <2>3, <3>1, <3>2
      <3> QED BY <2>2, <2>3, <2>7, <3>3
    <2> QED BY <2>1, <2>4, <2>5, <2>6, <2>7 DEF Started
  <1>3. CASE Poll
    <2> DEFINE w == [unit EXCEPT !.held = FALSE, !.due = FALSE]
    <2>1. /\ w \in Unit /\ w.phase = unit.phase /\ w.callId = unit.callId
          /\ w.consumed = unit.consumed /\ w.bound = unit.bound
      BY DEF Unit
    <2>2. Tick(w, epoch) /\ UNCHANGED <<session, epoch, bailed, calls, proved, tasks>>
      BY <1>3 DEF Poll
    <2> HIDE DEF w
    <2>3. CASE unit.phase # "waiting"
      <3>1. unit' = w /\ UNCHANGED prompts
        BY <2>1, <2>2, <2>3 DEF Tick
      <3> QED BY <2>1, <2>2, <3>1
    <2>4. CASE unit.phase = "waiting"
      <3>1. /\ unit' \in Unit /\ unit'.consumed /\ unit'.bound = unit.bound /\ unit'.callId = None
            /\ \/ /\ unit'.phase = "callback-sent"
                  /\ prompts' = [prompts EXCEPT ![epoch] = @ + 1]
               \/ unit'.phase \in {"waiting", "failed"} /\ UNCHANGED prompts
        BY <1>1, <2>1, <2>2, <2>4
      <3> QED BY <2>2, <2>4, <3>1
    <2> QED BY <2>3, <2>4
  <1>4. ASSUME NEW mode \in Modes, NEW id \in Sessions, NEW i \in CallIds, NEW ours \in BOOLEAN,
               ToolCall(i, mode, id, ours)
        PROVE  BootstrapInv'
    <2> unit.callId \in CallIds \cup {None}
      BY DEF Unit
    <2>1. /\ calls' \in [CallIds -> Call]
          /\ calls'[i].at = "running" /\ calls'[i].mode = mode /\ calls'[i].epoch = epoch /\ calls'[i].ours = ours
          /\ calls[i].at = "fresh"
          /\ \A j \in CallIds \ {i} : calls'[j] = calls[j]
      BY <1>4 DEF ToolCall, Call
    <2>2. CASE /\ Accepts(mode, id) /\ unit.phase = "callback-sent" /\ unit.callId = None /\ ours
               /\ unit' = [unit EXCEPT !.callId = i]
      <3>1. /\ unit' \in Unit /\ unit'.callId = i /\ unit'.phase = "callback-sent" /\ mode = "tui"
            /\ unit'.bound = unit.bound /\ unit'.consumed = unit.consumed
        BY <2>2 DEF Unit, Accepts
      <3> QED BY <1>4, <2>1, <2>2, <3>1 DEF ToolCall
    <2>3. CASE UNCHANGED unit
      <3>1. unit.callId # None /\ unit.phase = "callback-sent" => calls'[unit.callId] = calls[unit.callId]
        BY <2>1
      <3>2. UNCHANGED <<session, epoch, bailed, prompts, proved, tasks>>
        BY <1>4 DEF ToolCall
      <3>3. CallInv'
        BY <2>1, <2>3, <3>1, <3>2
      <3> HIDE DEF CallInv
      <3> QED BY <2>1, <2>3, <3>2, <3>3
    <2> QED BY <1>4, <2>2, <2>3 DEF ToolCall
  <1>5. ASSUME NEW i \in CallIds, NEW id \in Sessions, NEW ok \in BOOLEAN, ToolResult(i, id, ok)
        PROVE  BootstrapInv'
    <2>1. /\ calls' \in [CallIds -> Call]
          /\ \A j \in CallIds : /\ calls'[j].at # "fresh" \/ calls[j].at = "fresh"
                                /\ calls'[j].mode = calls[j].mode /\ calls'[j].epoch = calls[j].epoch
                                /\ calls'[j].ours = calls[j].ours
      BY <1>5 DEF ToolResult, Call
    <2>2. CASE /\ Accepts(calls[i].mode, id) /\ unit.phase = "callback-sent" /\ unit.callId = i
               /\ calls[i].ours /\ ok
               /\ unit' \in StopTimer([unit EXCEPT !.phase = "released"])
      <3>1. [unit EXCEPT !.phase = "released"] \in Unit
        BY DEF Unit, Phases
      <3>2. /\ unit' \in Unit /\ unit'.phase = "released" /\ unit'.bound = unit.bound
            /\ unit'.consumed = unit.consumed /\ unit'.callId = unit.callId
        BY <2>2, <3>1, StopFacts DEF Unit
      <3>3. proved' = proved \cup {epoch}
        BY <1>5, <2>2 DEF ToolResult, Accepts
      <3> QED BY <1>5, <2>1, <2>2, <3>2, <3>3 DEF ToolResult
    <2>3. CASE UNCHANGED unit
      <3>1. proved' = proved \/ (epoch \in Epochs /\ proved' = proved \cup {epoch})
        BY <1>5 DEF ToolResult, Call
      <3> QED BY <1>5, <2>1, <2>3, <3>1 DEF ToolResult
    <2> QED BY <1>5, <2>2, <2>3 DEF ToolResult
  <1>6. ASSUME NEW mode \in Modes, NEW id \in Sessions, TurnEnd(mode, id) PROVE BootstrapInv'
    <2>1. /\ unit' \in Unit /\ unit'.phase = "task-sent" /\ unit'.bound = unit.bound
          /\ unit'.consumed = unit.consumed /\ unit'.callId = unit.callId
      BY <1>6 DEF TurnEnd, Unit, Phases
    <2>2. tasks' = [tasks EXCEPT ![epoch] = @ + 1] \/ UNCHANGED tasks
      BY <1>6 DEF TurnEnd
    <2>3. /\ epoch \in Epochs /\ prompts[epoch] = 1 /\ epoch \in proved
          /\ \A e \in Epochs : tasks[e] = 0
          /\ \A d \in Epochs : d < epoch => d \in bailed
      BY <1>6 DEF TurnEnd
    <2>4. /\ tasks' \in [Epochs -> 0..2] /\ tasks'[epoch] \in {0, 1}
          /\ \A e \in Epochs \ {epoch} : tasks'[e] = 0
      BY <2>2, <2>3
    <2>5. TaskStaysHome' /\ TaskNeedsProof'
      <3>1. ASSUME NEW e \in Epochs, tasks'[e] > 0 PROVE e = epoch /\ tasks'[e] = 1
        BY <3>1, <2>4
      <3>2. UNCHANGED <<bailed, prompts, proved>>
        BY <1>6 DEF TurnEnd
      <3> QED BY <2>3, <2>4, <3>1, <3>2
    <2> QED BY <1>6, <2>1, <2>3, <2>4, <2>5 DEF TurnEnd
  <1>7. CASE UNCHANGED bootstrapVars
    BY <1>7 DEF bootstrapVars
  <1> QED BY <1>2, <1>3, <1>4, <1>5, <1>6, <1>7 DEF BootstrapNext

\* The invariant holds in every launch.
THEOREM BootstrapInvariant == BootstrapSpec => []BootstrapInv
  BY BootstrapInvInit, BootstrapInvStep, PTL DEF BootstrapSpec

\* The caller's task reaches one conversation, the one its launch opened.
THEOREM TaskOnlyHome == BootstrapSpec => []TaskStaysHome
  <1>1. BootstrapInv => TaskStaysHome
    BY DEF BootstrapInv
  <1> QED BY <1>1, BootstrapInvariant, PTL

\* It reaches it only after the host's own callback succeeded there.
THEOREM TaskOnlyProved == BootstrapSpec => []TaskNeedsProof
  <1>1. BootstrapInv => TaskNeedsProof
    BY DEF BootstrapInv
  <1> QED BY <1>1, BootstrapInvariant, PTL

\* A poll that leaves the bootstrap waiting has scheduled the next one.
LEMMA TickIsPolled ==
  ASSUME NEW u \in Unit, NEW e, Tick(u, e), u.phase = "waiting"
  PROVE  unit'.phase = "waiting" => unit'.held /\ unit'.due
  <1>1. CASE unit' = [u EXCEPT !.phase = "callback-sent"]
    BY <1>1 DEF Unit
  <1>2. CASE unit' \in Failed(u)
    BY <1>2, FailFacts DEF Final
  <1>3. CASE unit' = [u EXCEPT !.held = TRUE, !.due = TRUE, !.polls = @ + 1]
    BY <1>3 DEF Unit
  <1> QED BY <1>1, <1>2, <1>3 DEF Tick, NotReady, Scheduled

\* schedule, tick and stopTimer: a bootstrap that waits has a poll scheduled that nobody has
\* cancelled, whatever edges and tool events came in between.
THEOREM WaitersArePolled == BootstrapSpec => []WaitingIsPolled
  <1>1. BootstrapInit => WaitingIsPolled
    BY DEF BootstrapInit, WaitingIsPolled
  <1>2. BootstrapInv /\ WaitingIsPolled /\ [BootstrapNext]_bootstrapVars => WaitingIsPolled'
    <2> SUFFICES ASSUME BootstrapInv, WaitingIsPolled, [BootstrapNext]_bootstrapVars,
                        unit'.phase = "waiting"
                 PROVE  unit'.held /\ unit'.due
      BY DEF WaitingIsPolled
    <2>0. unit \in Unit
      BY DEF BootstrapInv, BootstrapTypeOK
    <2>1. ASSUME NEW s \in Sessions, BirthEdge(s) PROVE unit'.held /\ unit'.due
      <3>1. PICK u \in Ended(s) : unit' = u \/ Started(u, s, epoch')
        BY <2>1 DEF BirthEdge
      <3>2. u \in Unit /\ u.phase \in {"none", "task-sent", "failed"}
        BY <3>1, EndFacts
      <3> DEFINE spent == [u EXCEPT !.consumed = TRUE]
                 w == [spent EXCEPT !.bound = s, !.phase = "waiting"]
      <3>3. spent.phase = u.phase /\ spent \in Unit
        BY <3>2 DEF Unit
      <3>4. unit' = u \/ unit' = spent \/ Tick(w, epoch')
        BY <3>1 DEF Started
      <3>5. w \in Unit /\ w.phase = "waiting"
        BY <3>3 DEF Unit, Phases
      <3> HIDE DEF w, spent
      <3> QED BY <3>2, <3>3, <3>4, <3>5, TickIsPolled
    <2>2. CASE Poll
      <3> DEFINE w == [unit EXCEPT !.held = FALSE, !.due = FALSE]
      <3>1. w \in Unit /\ w.phase = unit.phase
        BY <2>0 DEF Unit
      <3>2. Tick(w, epoch)
        BY <2>2 DEF Poll
      <3> HIDE DEF w
      <3>3. w.phase = "waiting"
        BY <3>1, <3>2 DEF Tick
      <3> QED BY <3>1, <3>2, <3>3, TickIsPolled
    <2>3. ASSUME NEW i \in CallIds, NEW mode, NEW id, NEW ours, ToolCall(i, mode, id, ours)
          PROVE  unit'.held /\ unit'.due
      <3>1. unit' = unit \/ (unit.phase = "callback-sent" /\ unit' = [unit EXCEPT !.callId = i])
        BY <2>3 DEF ToolCall
      <3>2. unit' = unit
        BY <2>0, <3>1 DEF Unit
      <3> QED BY <3>2 DEF WaitingIsPolled
    <2>4. ASSUME NEW i \in CallIds, NEW id, NEW ok, ToolResult(i, id, ok)
          PROVE  unit'.held /\ unit'.due
      <3>1. unit' = unit \/ unit' \in StopTimer([unit EXCEPT !.phase = "released"])
        BY <2>4 DEF ToolResult
      <3>2. [unit EXCEPT !.phase = "released"] \in Unit /\ [unit EXCEPT !.phase = "released"].phase = "released"
        BY <2>0 DEF Unit, Phases
      <3>3. unit' = unit
        BY <3>1, <3>2, StopFacts
      <3> QED BY <3>3 DEF WaitingIsPolled
    <2>5. ASSUME NEW mode, NEW id, TurnEnd(mode, id) PROVE FALSE
      BY <2>0, <2>5 DEF TurnEnd, Unit
    <2>6. CASE UNCHANGED bootstrapVars
      BY <2>6 DEF bootstrapVars, WaitingIsPolled
    <2> QED BY <2>1, <2>2, <2>3, <2>4, <2>5, <2>6 DEF BootstrapNext
  <1> QED BY <1>1, <1>2, BootstrapInvariant, PTL DEF BootstrapSpec
=============================================================================
