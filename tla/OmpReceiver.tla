---------------------------- MODULE OmpReceiver ----------------------------
(***************************************************************************)
(* The receiver of a visible omp host (meta-bridge-receive-omp.ts): it     *)
(* watches the mailbox of the citizen the host carries now, advertises the *)
(* watch with a receiver marker and rings when mail arrives.  The host is  *)
(* one JavaScript thread, so a handler is one action.  Between any two     *)
(* handlers the citizen changes (/new, /resume), and senders, readers,     *)
(* other hosts and operators touch the files.  A sender writes its letter  *)
(* and pokes the signal in two steps, and may stop between them.  A native *)
(* session stands for its garden id.                                       *)
(***************************************************************************)
EXTENDS Integers, OmpHost

CONSTANTS
  MaxTicks,    \* ARM_RETRY_MAX_TICKS
  MaxWatches,  \* bound on open watches: the inotify budget, at which fs.watch throws
  MaxRefused,  \* bound on the timers that the vendor refuses to clear
  MaxSenders   \* bound on the senders that are busy at one mailbox

ASSUME ReceiverConstants ==
  /\ MaxTicks \in Nat \ {0} /\ MaxWatches \in Nat \ {0}
  /\ MaxRefused \in Nat /\ MaxSenders \in Nat \ {0}
  /\ None \notin Sessions

VARIABLES
  owed,       \* the handlers of the last session event that have not run
  sender,     \* the session the birth unit's marker names for this process
  rx,         \* the receiver's watch, and the files it works on
  held,       \* this.retryCancel is set
  timers,     \* how many retry timers run
  refused,    \* how many of them the vendor refused to clear
  ticks,      \* this.retryTicks
  sending     \* the senders that have written their letter and not poked yet

host == <<session, owed, sender>>
retry == <<held, timers, refused, ticks>>
receiverVars == <<host, rx, retry, sending>>

Handlers == {"birth", "receiver"}

\* no marker, or one whose pid has another start key; this process's; another live
\* host's
Markers == {"none", "mine", "other"}

\* empty or rung for; not rung for, and no event is owed: its sender has not poked (and
\* may never), or the ring failed half-way; not rung for, and its enqueue returned
Mails == {"quiet", "written", "fresh"}

\* What the armed watch is on: the signal file senders poke, one that was archived
\* with its mailbox, or an archived one in whose place a sender created another.
Views == {"current", "vanished", "replaced"}

\* "open" counts the watches, "kept" (a history variable) the markers of this process
\* that stayed behind: a failed removal, or the arm of a timer that was not cleared.
Receiver == [armed : Sessions \cup {None}, open : 0..MaxWatches, view : Views,
             poked : BOOLEAN, marker : [Sessions -> Markers], kept : SUBSET Sessions,
             mail : [Sessions -> Mails]]

ReceiverTypeOK ==
  /\ session \in Sessions \cup {None}
  /\ owed \in SUBSET Handlers
  /\ sender \in Sessions \cup {None}
  /\ rx \in Receiver
  /\ held \in BOOLEAN
  /\ refused \in 0..MaxRefused
  /\ timers \in 0..MaxRefused + 1
  /\ ticks \in 0..MaxTicks
  /\ sending \in [Sessions -> 0..MaxSenders]

ReceiverInit ==
  /\ session = None /\ owed = {} /\ sender = None
  /\ rx = [armed |-> None, open |-> 0, view |-> "current", poked |-> FALSE,
           marker |-> [s \in Sessions |-> "none"], kept |-> {},
           mail |-> [s \in Sessions |-> "quiet"]]
  /\ held = FALSE /\ timers = 0 /\ refused = 0 /\ ticks = 0
  /\ sending = [s \in Sessions |-> 0]

-----------------------------------------------------------------------------
(* The receiver's methods: the states each may leave of r *)

\* Without a watch there is nothing to report.
Closed(r) == [r EXCEPT !.armed = None, !.open = @ - 1, !.view = "current", !.poked = FALSE]

\* mutant: unarm closes the watch and leaves the marker to the next owner
Unarmed_KeepsMarker(r) == IF r.armed = None THEN {r} ELSE {Closed(r)}

\* unarm closes the watch, and removes the marker if it names this process; a
\* removal that fails is only logged, and the marker stays.
Unarmed(r) ==
  LET s == r.armed
      c == Closed(r)
  IN IF s = None THEN {r}
     ELSE IF r.marker[s] # "mine" THEN {c}
     ELSE {[c EXCEPT !.marker[s] = "none"], [c EXCEPT !.kept = @ \cup {s}]}

\* ring: a signal that is gone ends the arm; fresh mail is renamed and announced
\* with everything renamed before.  A rename or the vendor's send may throw, which
\* leaves some of it renamed and not announced, or not renamed.
Rung(r) ==
  LET s == r.armed IN
  IF s = None THEN {r}
  ELSE IF r.view = "vanished" THEN Unarmed(r)
  ELSE {[r EXCEPT !.mail[s] = m] :
          m \in IF r.mail[s] = "quiet" THEN {"quiet"} ELSE {"quiet", "written"}}

\* The citizen that is or was armed, as long as the marker there is this process's
Mine(r, s) == {q \in Sessions : q = s /\ r.marker[q] = "mine"}

\* A new watch and marker.  Only a timer that was not cleared arms over an armed
\* watch, which then stays open, and its marker behind.
Rearmed(r) ==
  [r EXCEPT !.armed = session, !.open = @ + 1, !.view = "current", !.poked = FALSE,
            !.marker[session] = "mine", !.kept = (@ \cup Mine(r, r.armed)) \ {session}]

\* mutant: only watch events ring
Armed_Silently(r) == IF r.open = MaxWatches THEN {} ELSE {Rearmed(r)}

\* arm: mailbox, signal, watch, marker; then a ring for mail that came before.
Armed(r) == IF r.open = MaxWatches THEN {} ELSE Rung(Rearmed(r))

\* mutant: a watch whose marker could not be written stays open
ArmFailed_Leaks(r) == {r, [r EXCEPT !.open = @ + 1]}

\* A watch whose marker could not be written is closed.
ArmFailed(r) == {r}

\* tryArm, as <<state, handled>>.  Handled without a watch: the vendor cannot send,
\* the record is another session's, arm failed.  Not handled: the vendor does not
\* say its session, the record cannot be read, or the birth unit has not got there.
TryArm(r) ==
  {<<r, FALSE>>} \cup
  {<<q, TRUE>> : q \in ArmFailed(r) \cup IF sender = session THEN Armed(r) ELSE {}}

\* cancelRetry forgets the timer, also when the vendor throws (n = 1) and it runs on.
Cancelled(n) ==
  /\ n = 1 => held /\ refused < MaxRefused
  /\ refused' = refused + n

\* The timers that run once it returned
Running(n) == (IF held THEN timers - 1 ELSE timers) + n

-----------------------------------------------------------------------------
(* The receiver's handlers *)

\* session_start and session_switch: onEdge.  A subagent's event is turned away by its
\* mode and changes nothing.
OnEdge ==
  /\ "receiver" \in owed
  /\ owed' = owed \ {"receiver"}
  /\ \E u \in Unarmed(rx) : \E t \in TryArm(u) : \E n \in 0..1 :
       /\ rx' = t[1]
       /\ Cancelled(n)
       /\ \/ held' = FALSE /\ timers' = Running(n)      \* armed, or no usable timers
          \/ ~t[2] /\ held' = TRUE /\ timers' = Running(n) + 1
  /\ ticks' = 0
  /\ UNCHANGED <<session, sender, sending>>

\* mutant: the tick count starts over instead of giving up
RetryTick_NoLimit ==
  /\ timers > 0
  /\ \E t \in TryArm(rx) :
       /\ rx' = t[1]
       /\ IF t[2]
          THEN \E n \in 0..1 : Cancelled(n) /\ held' = FALSE /\ timers' = Running(n)
          ELSE UNCHANGED <<held, timers, refused>>
  /\ ticks' = IF ticks + 1 < MaxTicks THEN ticks + 1 ELSE 0
  /\ UNCHANGED <<host, sending>>

\* the retry's interval callback, of the timer that is held or of one that was not
\* cleared
RetryTick ==
  /\ timers > 0
  /\ ticks' = IF ticks < MaxTicks THEN ticks + 1 ELSE ticks
  /\ \E t \in TryArm(rx) :
       /\ rx' = t[1]
       /\ IF t[2] \/ ticks' = MaxTicks
          THEN \E n \in 0..1 : Cancelled(n) /\ held' = FALSE /\ timers' = Running(n)
          ELSE UNCHANGED <<held, timers, refused>>
  /\ UNCHANGED <<host, sending>>

WatchEvent ==
  /\ rx.poked
  /\ rx' \in Rung([rx EXCEPT !.poked = FALSE])
  /\ UNCHANGED <<host, retry, sending>>

\* A watch that stayed open beside the armed one rings at the armed one's mailbox.
StrayEvent ==
  /\ rx.open > 1
  /\ rx' \in Rung(rx)
  /\ UNCHANGED <<host, retry, sending>>

WatchError ==
  /\ rx.armed # None
  /\ rx' \in Unarmed(rx)
  /\ UNCHANGED <<host, retry, sending>>

-----------------------------------------------------------------------------
(* The host, its birth unit and the other users of the files *)

Boot(s) ==
  /\ session = None
  /\ session' = s /\ owed' = Handlers
  /\ UNCHANGED <<sender, rx, retry, sending>>

\* /new, /resume, /fork in the same process
Switch(s) ==
  /\ session # None /\ owed = {}
  /\ session' = s /\ owed' = Handlers
  /\ UNCHANGED <<sender, rx, retry, sending>>

\* The birth unit writes its marker when it has its record, or logs a failure.
Birth ==
  /\ "birth" \in owed
  /\ owed' = owed \ {"birth"}
  /\ sender' \in {sender, session}
  /\ UNCHANGED <<session, rx, retry, sending>>

\* The start key of this process's markers is no longer their pid's.
Orphaned(marker) ==
  [s \in Sessions |-> IF marker[s] = "mine" THEN "none" ELSE marker[s]]

\* The process exits, through the exit guard or without it.
Exit ==
  /\ session # None
  /\ \E r \in Unarmed(rx) \cup {Closed(rx)} :
       rx' = [r EXCEPT !.open = 0, !.marker = Orphaned(r.marker), !.kept = {}]
  /\ session' = None /\ owed' = {} /\ sender' = None
  /\ held' = FALSE /\ timers' = 0 /\ refused' = 0 /\ ticks' = 0
  /\ UNCHANGED sending

\* A sender writes its letter.
Write(s) ==
  /\ sending[s] < MaxSenders
  /\ sending' = [sending EXCEPT ![s] = @ + 1]
  /\ rx' = [rx EXCEPT !.mail[s] = IF @ = "fresh" THEN @ ELSE "written"]
  /\ UNCHANGED <<host, retry>>

\* Its receipt is stamped, and it pokes the signal file, creating it if need be.
Poke(s) ==
  /\ sending[s] > 0
  /\ sending' = [sending EXCEPT ![s] = @ - 1]
  /\ rx' = [rx EXCEPT !.mail[s] = IF @ = "written" THEN "fresh" ELSE @,
              !.poked = @ \/ (rx.armed = s /\ rx.view = "current"),
              !.view = IF rx.armed = s /\ @ = "vanished" THEN "replaced" ELSE @]
  /\ UNCHANGED <<host, retry>>

\* The stamp or the poke throws, or the sender dies: the letter stays, nobody rings.
Abandon(s) ==
  /\ sending[s] > 0
  /\ sending' = [sending EXCEPT ![s] = @ - 1]
  /\ UNCHANGED <<host, rx, retry>>

InboxRead(s) ==
  /\ rx.mail[s] # "quiet"
  /\ rx' = [rx EXCEPT !.mail[s] = "quiet"]
  /\ UNCHANGED <<host, retry, sending>>

\* The mailbox tree is moved away; the watch follows the file and may or may not
\* report it.
Archive(s) ==
  /\ \E seen \in BOOLEAN :
       rx' = [rx EXCEPT !.mail[s] = "quiet",
                !.view = IF rx.armed = s THEN "vanished" ELSE @,
                !.poked = @ \/ (rx.armed = s /\ seen)]
  /\ UNCHANGED <<host, retry, sending>>

\* Another host arms the same citizen, rings for it, gives its marker back or dies.
OtherHost(s) ==
  /\ \/ rx.marker[s] # "other" /\ rx' = [rx EXCEPT !.marker[s] = "other", !.kept = @ \ {s}]
     \/ rx.marker[s] = "other" /\ rx' = [rx EXCEPT !.marker[s] = "none"]
     \/ rx.marker[s] = "other" /\ rx' = [rx EXCEPT !.mail[s] = "quiet"]
  /\ UNCHANGED <<host, retry, sending>>

-----------------------------------------------------------------------------

ReceiverNext ==
  \/ OnEdge \/ RetryTick \/ WatchEvent \/ StrayEvent \/ WatchError \/ Birth \/ Exit
  \/ \E s \in Sessions :
       \/ Boot(s) \/ Switch(s) \/ Write(s) \/ Poke(s) \/ Abandon(s)
       \/ InboxRead(s) \/ Archive(s) \/ OtherHost(s)

ReceiverSpec == ReceiverInit /\ [][ReceiverNext]_receiverVars

\* The vendor's timer fires and its watch reports.
ReceiverFairSpec == ReceiverSpec /\ WF_receiverVars(RetryTick) /\ WF_receiverVars(WatchEvent)

-----------------------------------------------------------------------------
(* Properties *)

\* A marker that names this process is a promise: once the receiver has handled the
\* last session event, the process carries that citizen now and watches its mailbox.
\* Dispatch trusts it, and the start key cannot catch a switched session.  The code
\* breaks the promise in two cases, which "kept" names: the marker's removal failed and
\* was logged, or a timer the vendor would not clear armed over the watch.
MarkerIsAPromise ==
  \A s \in Sessions :
    rx.marker[s] = "mine" /\ s \notin rx.kept /\ "receiver" \notin owed
      => session = s /\ rx.armed = s /\ rx.open > 0

\* However birth edges overlap and arms fail, a timer that runs is the held one or one
\* the vendor refused to clear; a held one has something left to do; and as long as the
\* vendor refused none, no watch is open that is not the armed one.
NothingLeaks ==
  /\ timers = refused + IF held THEN 1 ELSE 0
  /\ held => rx.armed = None
  /\ refused = 0 => (rx.open = IF rx.armed = None THEN 0 ELSE 1)

\* A retry ends: it arms, gives up, or the next session event takes over.  Only a timer
\* the vendor refused to clear runs on.
RetryEnds == timers > refused ~> timers = refused \/ owed # {}

\* Mail whose enqueue returned is rung for at an armed watch, also when it came before
\* the arm; unless it is read, the watch ends, or the mailbox is moved from under it.  A
\* ring that throws leaves it "written" for the next event, and so does a sender that
\* died before its poke.
WakeIsOwed ==
  \A s \in Sessions :
    rx.armed = s /\ rx.view = "current" /\ rx.mail[s] = "fresh"
      ~> rx.armed # s \/ rx.view # "current" \/ rx.mail[s] # "fresh"

\* The safety half of WakeIsOwed: such mail has its event pending, however the watch came
\* to be armed and whenever the mail came.
WakeIsPending ==
  \A s \in Sessions :
    rx.armed = s /\ rx.view = "current" /\ rx.mail[s] = "fresh" => rx.poked
=============================================================================
