------------------------- MODULE AcpSession_proofs -------------------------
(***************************************************************************)
(* Proofs about AcpSession, for any number of turns and any models,        *)
(* configurations, summaries and policies: AcpInv is inductive, so there   *)
(* is one conversation, its child hears the whole context, and the end of  *)
(* a child is told once and not hidden.                                    *)
(***************************************************************************)
EXTENDS AcpSession, TLAPS

-----------------------------------------------------------------------------
(* Sequences of messages *)

\* What a sequence holds, and one that is longer by a message.
LEMMA RangeOfAppend ==
  ASSUME NEW S, NEW s \in Seq(S), NEW m \in S
  PROVE  /\ Append(s, m) \in Seq(S) /\ Append(s, m) # <<>>
         /\ Range(Append(s, m)) = Range(s) \cup {m}
  <1>1. /\ Append(s, m) \in Seq(S) /\ Append(s, m) # <<>>
        /\ Len(Append(s, m)) = Len(s) + 1 /\ Len(s) \in Nat
        /\ Append(s, m)[Len(s) + 1] = m
        /\ \A i \in 1..Len(s) : Append(s, m)[i] = s[i]
    OBVIOUS
  <1>2. DOMAIN s = 1..Len(s) /\ DOMAIN Append(s, m) = 1..Len(Append(s, m))
    BY <1>1
  <1> HIDE DEF Range
  <1>3. ASSUME NEW x \in Range(Append(s, m)) PROVE x \in Range(s) \cup {m}
    <2>1. PICK i \in 1..(Len(s) + 1) : x = Append(s, m)[i]
      BY <1>1, <1>2, <1>3 DEF Range
    <2>2. CASE i = Len(s) + 1
      BY <1>1, <2>1, <2>2
    <2>3. CASE i \in 1..Len(s)
      BY <1>1, <1>2, <2>1, <2>3 DEF Range
    <2> QED BY <1>1, <2>1, <2>2, <2>3
  <1>4. m \in Range(Append(s, m))
    BY <1>1, <1>2 DEF Range
  <1>5. ASSUME NEW x \in Range(s) PROVE x \in Range(Append(s, m))
    <2>1. PICK i \in 1..Len(s) : x = s[i]
      BY <1>2, <1>5 DEF Range
    <2>2. x = Append(s, m)[i] /\ i \in 1..Len(Append(s, m))
      BY <1>1, <2>1
    <2> QED BY <1>2, <2>2 DEF Range
  <1> QED BY <1>1, <1>3, <1>4, <1>5

\* Reuse sends nothing of the context but what follows the prefix, which no summary does.
LEMMA PrefixHoldsSummary ==
  ASSUME NEW s \in Seq(Messages), NEW ctx \in Seq(Messages), s # <<>>, IsPrefix(s, ctx),
         OneSummary(ctx)
  PROVE  Range(ctx) \cap Summaries \subseteq Range(s)
  BY AcpConstants DEF OneSummary, Range, IsPrefix, Messages

\* pi edits its history to what it held, or to one summary.
LEMMA EditedFacts ==
  ASSUME TypeOK, MemoryInv, NEW h \in Edited
  PROVE  /\ h \in Seq(Messages)
         /\ Range(h) \subseteq Range(history) \cup Summaries
         /\ OneSummary(h)
  <1>1. history \in Seq(Messages) /\ OneSummary(history)
    BY DEF TypeOK, MemoryInv
  <1>2. CASE h = history
    BY <1>1, <1>2
  <1>3. ASSUME NEW k \in 0..Len(history), h = SubSeq(history, 1, k)
        PROVE  h \in Seq(Messages) /\ Range(h) \subseteq Range(history) /\ OneSummary(h)
    <2>1. /\ h \in Seq(Messages) /\ Len(h) = k
          /\ \A i \in 1..k : h[i] = history[i] /\ i \in DOMAIN history
      BY <1>1, <1>3
    <2>2. DOMAIN h = 1..k
      BY <2>1
    <2> QED BY <1>1, <2>1, <2>2 DEF Range, OneSummary
  <1>4. ASSUME NEW m \in Summaries, h = <<m>>
        PROVE  h \in Seq(Messages) /\ Range(h) \subseteq Summaries /\ OneSummary(h)
    <2>1. h \in Seq(Messages) /\ DOMAIN h = {1} /\ h[1] = m
      BY <1>4 DEF Messages
    <2> QED BY <2>1 DEF Range, OneSummary
  <1> QED BY <1>1, <1>2, <1>3, <1>4 DEF Edited

-----------------------------------------------------------------------------
(* Steps that keep the invariant, each kind once *)

\* A teardown touches one child, and neither its process nor its exit.
LEMMA RetiredFacts ==
  ASSUME NEW kids \in [Turns -> Child], NEW c \in Turns
  PROVE  /\ Retired(kids, c) \in [Turns -> Child]
         /\ \A d \in Turns \ {c} : Retired(kids, c)[d] = kids[d]
         /\ Retired(kids, c)[c].retiring
         /\ Retired(kids, c)[c].proc = kids[c].proc
         /\ Retired(kids, c)[c].seen = kids[c].seen
  <1>1. ASSUME NEW k \in Child, NEW e \in Seq(Messages)
        PROVE  LET r == [k EXCEPT !.retiring = TRUE, !.closed = TRUE, !.sigs = e, !.mem = {},
                                  !.model = None, !.config = None]
               IN r \in Child /\ r.retiring /\ r.proc = k.proc /\ r.seen = k.seen
    BY DEF Child
  <1> DEFINE r == [kids[c] EXCEPT !.retiring = TRUE, !.closed = TRUE, !.sigs = <<>>, !.mem = {},
                                  !.model = None, !.config = None]
  <1>2. r \in Child /\ r.retiring /\ r.proc = kids[c].proc /\ r.seen = kids[c].seen
    <2>1. <<>> \in Seq(Messages) /\ kids[c] \in Child
      OBVIOUS
    <2> QED BY <1>1, <2>1
  <1>3. Retired(kids, c) = [kids EXCEPT ![c] = r]
    BY DEF Retired
  <1> HIDE DEF r
  <1> QED BY <1>2, <1>3

\* A turn that moves on is a turn.
LEMMA TurnTyped ==
  ASSUME NEW u \in Turn, NEW p \in {"boot", "hook", "prompt", "settling"}
  PROVE  [u EXCEPT !.pc = p] \in Turn /\ [u EXCEPT !.aborted = TRUE] \in Turn
  BY DEF Turn

\* The turn under way ends and its child is torn down, its end told or not.
LEMMA TurnOver ==
  ASSUME AcpInv, NEW t \in Turns, Active(t), NEW c \in Turns, c = turns[t].child,
         turns' = [turns EXCEPT ![t] = Rest("over")],
         children' \in [Turns -> Child],
         \A d \in Turns \ {c} : children'[d] = children[d],
         children'[c].retiring, children'[c].proc = children[c].proc,
         children'[c].seen => children[c].proc = "dead",
         children[c].seen => children'[c].seen,
         current' = None, retained' \subseteq retained, inFlight' = FALSE,
         told' \in {told, [told EXCEPT ![c] = @ + 1]},
         UNCHANGED <<policy, history, unreported, early>>
  PROVE  AcpInv'
  <1> USE AcpConstants
  <1>1. /\ children[c].proc # "none" /\ told[c] = 0 /\ current \in {c, None}
        /\ \A u \in Turns : Active(u) => u = t
    BY DEF AcpInv, FlightInv
  <1>2. /\ told' \in [Turns -> 0..2] /\ told'[c] <= 1
        /\ \A d \in Turns \ {c} : told'[d] = told[d]
    BY <1>1 DEF AcpInv, TypeOK
  <1>3. /\ turns' \in [Turns -> Turn] /\ turns'[t].pc = "over"
        /\ \A u \in Turns \ {t} : turns'[u] = turns[u]
    <2>1. <<>> \in Seq(Messages)
      OBVIOUS
    <2> QED BY <2>1 DEF AcpInv, TypeOK, Turn, Rest
  <1>4. \A u \in Turns : ~Active(u)'
    BY <1>1, <1>3 DEF Active, Working
  <1>5. TypeOK'
    BY <1>2, <1>3 DEF AcpInv, TypeOK
  <1>6. FlightInv'
    BY <1>4 DEF FlightInv
  <1>7. HandInv'
    <2> SUFFICES ASSUME NEW d \in Turns, children'[d].proc # "none",
                        ~children'[d].retiring, ~children'[d].seen
                 PROVE  FALSE
      BY DEF HandInv
    <2>1. d # c /\ children'[d] = children[d]
      OBVIOUS
    <2>2. d = current \/ \E u \in Turns : Active(u) /\ turns[u].child = d
      BY <2>1 DEF AcpInv, HandInv
    <2> QED BY <1>1, <2>1, <2>2
  <1>8. EndInv'
    <2>1. ASSUME NEW d \in Turns
          PROVE  /\ children'[d].proc = "none" => told'[d] = 0 /\ ~children'[d].retiring
                 /\ children'[d].seen => children'[d].proc = "dead"
                 /\ d \in early => children'[d].seen
                 /\ turns'[d].pc = "idle" => children'[d].proc = "none"
                 /\ d \notin early => told'[d] <= 1
      <3>1. turns'[d].pc = "idle" => turns[d].pc = "idle"
        BY <1>3
      <3>2. CASE d = c
        BY <1>1, <1>2, <3>1, <3>2 DEF AcpInv, EndInv
      <3>3. CASE d # c
        BY <1>2, <3>1, <3>3 DEF AcpInv, EndInv
      <3> QED BY <3>2, <3>3
    <2>2. ASSUME unreported # None
          PROVE  /\ children'[unreported].seen /\ told'[unreported] <= 1
                 /\ unreported \notin early =>
                      told'[unreported] = 0 /\ ~children'[unreported].retiring
      <3>1. unreported \in Turns
        BY <2>2 DEF AcpInv, TypeOK
      <3>2. CASE unreported = c
        BY <1>2, <2>2, <3>2 DEF AcpInv, EndInv
      <3>3. CASE unreported # c
        BY <1>2, <2>2, <3>1, <3>3 DEF AcpInv, EndInv
      <3> QED BY <3>2, <3>3
    <2> QED BY <1>4, <2>1, <2>2 DEF EndInv
  <1>9. MemoryInv'
    BY <1>4 DEF AcpInv, MemoryInv, Active
  <1>10. HeardInFull'
    BY <1>4 DEF HeardInFull, Active, Working
  <1> QED BY <1>5, <1>6, <1>7, <1>8, <1>9, <1>10 DEF AcpInv

\* The turn under way starts to report a closed connection.
LEMMA ReportStarts ==
  ASSUME AcpInv, NEW t \in Turns, Active(t), NEW c \in Turns, c = turns[t].child,
         turns' = [turns EXCEPT ![t].pc = "settling"],
         children' \in [Turns -> Child],
         \A d \in Turns \ {c} : children'[d] = children[d],
         children'[c].reporting, children'[c].proc = children[c].proc,
         children'[c].retiring = children[c].retiring, children'[c].seen = children[c].seen,
         current' = None,
         UNCHANGED <<policy, history, retained, inFlight, unreported, told, early>>
  PROVE  AcpInv'
  <1> USE AcpConstants
  <1>1. /\ current \in {c, None}
        /\ \A u \in Turns : Active(u) => u = t
    BY DEF AcpInv, FlightInv
  <1>2. turns' \in [Turns -> Turn]
    <2>1. turns \in [Turns -> Turn]
      BY DEF AcpInv, TypeOK
    <2>2. [turns[t] EXCEPT !.pc = "settling"] \in Turn
      BY <2>1, TurnTyped
    <2>3. turns' = [turns EXCEPT ![t] = [turns[t] EXCEPT !.pc = "settling"]]
      OBVIOUS
    <2> QED BY <2>1, <2>2, <2>3
  <1>3. /\ turns'[t].pc = "settling" /\ turns'[t].child = c
        /\ \A u \in Turns \ {t} : turns'[u] = turns[u]
    BY DEF AcpInv, TypeOK, Turn
  <1>4. \A u \in Turns : Active(u)' <=> u = t
    BY <1>1, <1>3 DEF Active, Working
  <1>5. TypeOK'
    BY <1>2 DEF AcpInv, TypeOK
  <1>6. FlightInv'
    <2>1. /\ inFlight /\ children'[c].proc # "none" /\ ~children'[c].retiring /\ told[c] = 0
          /\ c = t => unreported \in {t, None}
      BY DEF AcpInv, FlightInv
    <2>2. turns'[t].pc \notin Working
      BY <1>3 DEF Working
    <2> QED BY <1>3, <1>4, <2>1, <2>2 DEF FlightInv
  <1>7. HandInv'
    <2> SUFFICES ASSUME NEW d \in Turns, children'[d].proc # "none",
                        ~children'[d].retiring, ~children'[d].seen
                 PROVE  d = turns'[t].child
      BY <1>4 DEF HandInv
    <2>1. children[d].proc # "none" /\ ~children[d].retiring /\ ~children[d].seen
      OBVIOUS
    <2>2. d = current \/ \E u \in Turns : Active(u) /\ turns[u].child = d
      BY <2>1 DEF AcpInv, HandInv
    <2> QED BY <1>1, <1>3, <2>2
  <1>8. EndInv'
    <2>1. \A d \in Turns : /\ children'[d].proc = children[d].proc
                           /\ children'[d].retiring = children[d].retiring
                           /\ children'[d].seen = children[d].seen
                           /\ turns'[d].pc = "idle" => turns[d].pc = "idle"
      BY <1>3
    <2>2. unreported \in Turns \cup {None}
      BY DEF AcpInv, TypeOK
    <2> QED BY <1>3, <1>4, <2>1, <2>2 DEF AcpInv, EndInv
  <1>9. MemoryInv'
    BY <1>3, <1>4 DEF AcpInv, MemoryInv, Active, Working
  <1>10. HeardInFull'
    BY <1>3, <1>4 DEF HeardInFull, Active, Working
  <1> QED BY <1>5, <1>6, <1>7, <1>8, <1>9, <1>10 DEF AcpInv

\* A step between the beginnings and the ends of turns, or a refusal.
LEMMA QuietStep ==
  ASSUME AcpInv, TypeOK', HeardInFull',
         \A u \in Turns :
           /\ turns'[u].pc \in Working <=> turns[u].pc \in Working
           /\ turns'[u].pc = "settling" <=> turns[u].pc = "settling"
           /\ Active(u) => turns'[u].child = turns[u].child /\ turns'[u].ctx = turns[u].ctx
           /\ turns'[u].pc = "idle" => turns[u].pc = "idle"
           /\ turns[u].pc = "refused" => turns'[u].pc = "refused",
         \A d \in Turns :
           /\ children'[d].proc = "none" <=> children[d].proc = "none"
           /\ children'[d].seen = children[d].seen
           /\ children[d].proc = "dead" => children'[d].proc = "dead"
           /\ children'[d].retiring = children[d].retiring
           /\ children'[d].reporting = children[d].reporting
           /\ children'[d].sigs = children[d].sigs
           /\ children[d].mem \subseteq children'[d].mem,
         OneSummary(history'),
         Range(history') \subseteq Range(history) \cup Summaries \cup Unsent',
         UNCHANGED <<current, retained, inFlight, unreported, told, early>>
  PROVE  AcpInv'
  <1> USE AcpConstants
  <1>1. \A u \in Turns : Active(u)' <=> Active(u)
    BY DEF Active
  <1>2. /\ current \in Turns \cup {None} /\ unreported \in Turns \cup {None}
        /\ \A u \in Turns : Active(u) => turns[u].child \in Turns
    BY DEF AcpInv, TypeOK, FlightInv
  <1>3. FlightInv'
    BY <1>1, <1>2 DEF AcpInv, FlightInv
  <1>4. HandInv'
    BY <1>1, <1>2 DEF AcpInv, HandInv
  <1>5. EndInv'
    BY <1>1, <1>2 DEF AcpInv, EndInv
  <1>6. MemoryInv'
    <2>1. Unsent \subseteq Unsent'
      BY DEF Unsent
    <2>2. ASSUME NEW t \in Turns, turns'[t].pc \in Working
          PROVE  /\ turns'[t].ctx # <<>>
                 /\ Range(history') \subseteq Range(turns'[t].ctx) \cup Unsent' \cup Summaries
                 /\ turns'[t].child = t => children'[t].sigs = turns'[t].ctx
                 /\ turns'[t].child # t =>
                      Range(turns'[t].ctx) \subseteq children'[turns'[t].child].mem \cup {t} \cup Unsent'
      <3>1. turns[t].pc \in Working /\ Active(t)
        BY <2>2 DEF Active
      <3>2. /\ turns'[t].ctx = turns[t].ctx /\ turns'[t].child = turns[t].child
            /\ turns[t].child \in Turns
        BY <1>2, <3>1
      <3> QED BY <2>1, <3>1, <3>2 DEF AcpInv, MemoryInv
    <2>3. ASSUME current # None, ~Busy(current)'
          PROVE  LET sigs == children'[current].sigs IN
                   /\ sigs # <<>>
                   /\ Range(history') \subseteq Range(sigs) \cup Unsent' \cup Summaries
                   /\ Range(sigs) \subseteq children'[current].mem \cup Unsent'
      <3>1. ~Busy(current)
        <4> SUFFICES ASSUME NEW u \in Turns, turns[u].child = current, turns[u].pc \in Working
                     PROVE  FALSE
          BY DEF Busy
        <4>1. turns'[u].child = current /\ turns'[u].pc \in Working
          BY DEF Active
        <4> QED BY <2>3, <4>1 DEF Busy
      <3> QED BY <1>2, <2>1, <2>3, <3>1 DEF AcpInv, MemoryInv
    <2> QED BY <2>2, <2>3 DEF MemoryInv
  <1> QED BY <1>3, <1>4, <1>5, <1>6 DEF AcpInv

\* What is told when a child is launched, or not told: no end twice.
LEMMA TellFacts ==
  ASSUME AcpInv, ~inFlight, Announced \/ UNCHANGED <<told, unreported>>
  PROVE  /\ told' \in [Turns -> 0..2] /\ unreported' \in {unreported, None}
         /\ \A c \in Turns :
              /\ c \notin early => told'[c] <= 1
              /\ children[c].proc = "none" => told'[c] = 0
         /\ unreported' # None => told' = told
  <1>1. unreported \in Turns \cup {None} /\ told \in [Turns -> 0..2]
    BY DEF AcpInv, TypeOK
  <1>2. CASE UNCHANGED <<told, unreported>>
    BY <1>1, <1>2 DEF AcpInv, EndInv
  <1>3. CASE Announced /\ unreported = None
    BY <1>1, <1>3 DEF AcpInv, EndInv, Announced
  <1>4. CASE Announced /\ unreported # None
    <2>1. /\ unreported' = None /\ told' = [told EXCEPT ![unreported] = @ + 1]
          /\ told[unreported] \in 0..1
          /\ children[unreported].proc = "dead"
          /\ unreported \notin early => told[unreported] = 0
      BY <1>1, <1>4 DEF AcpInv, EndInv, Announced
    <2>2. told[unreported] + 1 \in 0..2
      BY <2>1
    <2>3. told' \in [Turns -> 0..2] /\ told'[unreported] = told[unreported] + 1
          /\ \A c \in Turns \ {unreported} : told'[c] = told[c]
      BY <1>1, <1>4, <2>1, <2>2
    <2>4. ASSUME NEW c \in Turns
          PROVE  /\ c \notin early => told'[c] <= 1
                 /\ children[c].proc = "none" => told'[c] = 0
      <3>1. CASE c = unreported
        BY <2>1, <2>3, <3>1
      <3>2. CASE c # unreported
        BY <2>3, <3>2 DEF AcpInv, EndInv
      <3> QED BY <3>1, <3>2
    <2> QED BY <2>1, <2>3, <2>4
  <1> QED BY <1>2, <1>3, <1>4

\* A turn that ends as it begins: the child in the map, if there is one, is abandoned.
LEMMA TurnAbandons ==
  ASSUME AcpInv, ~inFlight, NEW t \in Turns, turns[t].pc = "idle",
         turns' = [turns EXCEPT ![t] = Rest("over")],
         children' \in [Turns -> Child],
         \A d \in Turns : d # current => children'[d] = children[d],
         current # None => /\ children'[current].retiring
                           /\ children'[current].proc = children[current].proc
                           /\ children'[current].seen = children[current].seen,
         current' = None, retained' \subseteq retained,
         Announced \/ UNCHANGED <<told, unreported>>,
         history' \in Seq(Messages), OneSummary(history'),
         UNCHANGED <<policy, inFlight, early>>
  PROVE  AcpInv'
  <1> USE AcpConstants
  <1>1. /\ told' \in [Turns -> 0..2] /\ unreported' \in {unreported, None}
        /\ \A c \in Turns :
             /\ c \notin early => told'[c] <= 1
             /\ children[c].proc = "none" => told'[c] = 0
        /\ unreported' # None => told' = told
    BY TellFacts
  <1>2. \A u \in Turns : ~Active(u)
    BY DEF AcpInv, FlightInv
  <1>3. /\ turns' \in [Turns -> Turn] /\ turns'[t].pc = "over"
        /\ \A u \in Turns \ {t} : turns'[u] = turns[u]
    <2>1. <<>> \in Seq(Messages)
      OBVIOUS
    <2> QED BY <2>1 DEF AcpInv, TypeOK, Turn, Rest
  <1>4. \A u \in Turns : ~Active(u)'
    BY <1>2, <1>3 DEF Active, Working
  <1>5. /\ current \in Turns \cup {None} /\ unreported \in Turns \cup {None}
        /\ current # None => unreported = None /\ children[current].proc # "none"
    BY DEF AcpInv, TypeOK, HandInv
  <1>6. TypeOK'
    BY <1>1, <1>3, <1>5 DEF AcpInv, TypeOK
  <1>7. FlightInv'
    BY <1>4 DEF AcpInv, FlightInv
  <1>8. HandInv'
    BY <1>2 DEF AcpInv, HandInv
  <1>9. EndInv'
    <2>1. ASSUME NEW d \in Turns
          PROVE  /\ children'[d].proc = "none" => told'[d] = 0 /\ ~children'[d].retiring
                 /\ children'[d].seen => children'[d].proc = "dead"
                 /\ d \in early => children'[d].seen
                 /\ turns'[d].pc = "idle" => children'[d].proc = "none"
                 /\ d \notin early => told'[d] <= 1
      <3>1. turns'[d].pc = "idle" => turns[d].pc = "idle"
        BY <1>3
      <3>2. children'[d].proc = children[d].proc /\ children'[d].seen = children[d].seen
        BY <1>5
      <3>3. children[d].proc = "none" => children'[d] = children[d]
        BY <1>5
      <3> QED BY <1>1, <3>1, <3>2, <3>3 DEF AcpInv, EndInv
    <2>2. ASSUME unreported' # None
          PROVE  /\ unreported' = unreported /\ told' = told
                 /\ children'[unreported'] = children[unreported]
      BY <1>1, <1>5, <2>2
    <2> QED BY <1>4, <2>1, <2>2 DEF AcpInv, EndInv
  <1>10. MemoryInv'
    BY <1>4 DEF MemoryInv, Active
  <1>11. HeardInFull'
    BY <1>4 DEF HeardInFull, Active, Working
  <1> QED BY <1>6, <1>7, <1>8, <1>9, <1>10, <1>11 DEF AcpInv

\* A turn opens its own child.
LEMMA TurnOpens ==
  ASSUME AcpInv, ~inFlight, NEW t \in Turns, turns[t].pc = "idle", NEW ctx \in Seq(Messages),
         ctx # <<>>, OneSummary(ctx), history' = ctx,
         turns' \in [Turns -> Turn],
         turns'[t].pc = "boot", turns'[t].ctx = ctx, turns'[t].child = t,
         \A u \in Turns \ {t} : turns'[u] = turns[u],
         children' \in [Turns -> Child],
         \A d \in Turns \ {t} : d # current => children'[d] = children[d],
         children'[t].proc = "live", children'[t].sigs = ctx,
         children'[t].seen = children[t].seen, children'[t].retiring = children[t].retiring,
         current # None => /\ children'[current].retiring
                           /\ children'[current].proc = children[current].proc
                           /\ children'[current].seen = children[current].seen,
         current' = None, retained' \subseteq retained, inFlight' = TRUE,
         Announced,
         UNCHANGED <<policy, early>>
  PROVE  AcpInv'
  <1> USE AcpConstants
  <1>1. /\ told' \in [Turns -> 0..2] /\ unreported' = None
        /\ \A c \in Turns :
             /\ c \notin early => told'[c] <= 1
             /\ children[c].proc = "none" => told'[c] = 0
    BY TellFacts DEF Announced
  <1>2. \A u \in Turns : ~Active(u)
    BY DEF AcpInv, FlightInv
  <1>3. Active(t)' /\ \A u \in Turns : Active(u)' => u = t
    BY <1>2 DEF Active, Working
  <1>4. /\ current \in Turns \cup {None}
        /\ current # None => children[current].proc # "none"
        /\ children[t].proc = "none" /\ ~children[t].retiring /\ ~children[t].seen
        /\ current # t
    BY DEF AcpInv, TypeOK, HandInv, EndInv
  <1>5. TypeOK'
    BY <1>1, <1>4 DEF AcpInv, TypeOK
  <1>6. FlightInv'
    <2>1. /\ children'[t].proc # "none" /\ ~children'[t].retiring /\ told'[t] = 0
      BY <1>1, <1>4
    <2> QED BY <1>1, <1>3, <2>1 DEF FlightInv
  <1>7. HandInv'
    BY <1>2, <1>3, <1>4 DEF AcpInv, HandInv
  <1>8. EndInv'
    <2>1. ASSUME NEW d \in Turns
          PROVE  /\ children'[d].proc = "none" => told'[d] = 0 /\ ~children'[d].retiring
                 /\ children'[d].seen => children'[d].proc = "dead"
                 /\ d \in early => children'[d].seen
                 /\ turns'[d].pc = "idle" => children'[d].proc = "none"
                 /\ d \notin early => told'[d] <= 1
      <3>1. CASE d = t
        BY <1>1, <1>4, <3>1 DEF AcpInv, EndInv
      <3>2. CASE d # t
        <4>1. turns'[d] = turns[d]
          BY <3>2
        <4>2. children'[d].proc = children[d].proc /\ children'[d].seen = children[d].seen
          BY <1>4, <3>2
        <4>3. children[d].proc = "none" => children'[d] = children[d]
          BY <1>4, <3>2
        <4> QED BY <1>1, <4>1, <4>2, <4>3 DEF AcpInv, EndInv
      <3> QED BY <3>1, <3>2
    <2> QED BY <1>1, <2>1 DEF EndInv
  <1>9. MemoryInv'
    <2>1. \A u \in Turns : turns'[u].pc \in Working => u = t
      BY <1>3 DEF Active
    <2> QED BY <2>1 DEF MemoryInv
  <1>10. HeardInFull'
    BY <1>3 DEF HeardInFull, Active, Working
  <1> QED BY <1>5, <1>6, <1>7, <1>8, <1>9, <1>10 DEF AcpInv

\* A turn takes the child in the map, whose prefix the context keeps.
LEMMA TurnReuses ==
  ASSUME AcpInv, ~inFlight, NEW t \in Turns, turns[t].pc = "idle", NEW ctx \in Seq(Messages),
         ctx # <<>>, OneSummary(ctx), history' = ctx,
         Range(ctx) \subseteq Range(history) \cup Summaries \cup {t},
         current # None, IsPrefix(children[current].sigs, ctx),
         turns' \in [Turns -> Turn],
         turns'[t].pc = "hook", turns'[t].ctx = ctx, turns'[t].child = current,
         \A u \in Turns \ {t} : turns'[u] = turns[u],
         inFlight' = TRUE,
         UNCHANGED <<policy, children, current, retained, unreported, told, early>>
  PROVE  AcpInv'
  <1> USE AcpConstants
  <1>1. \A u \in Turns : ~Active(u)
    BY DEF AcpInv, FlightInv
  <1>2. Active(t)' /\ \A u \in Turns : Active(u)' => u = t
    BY <1>1 DEF Active, Working
  <1>3. /\ current \in Turns /\ current # t
        /\ children[current].proc # "none" /\ ~children[current].retiring
        /\ told[current] = 0 /\ unreported = None
    BY DEF AcpInv, TypeOK, HandInv, EndInv
  <1>4. TypeOK'
    BY DEF AcpInv, TypeOK
  <1>5. FlightInv'
    BY <1>2, <1>3 DEF FlightInv
  <1>6. HandInv'
    BY <1>1 DEF AcpInv, HandInv
  <1>7. EndInv'
    <2>1. \A u \in Turns : turns'[u].pc = "idle" => turns[u].pc = "idle"
      OBVIOUS
    <2> QED BY <1>3, <2>1 DEF AcpInv, EndInv
  <1>8. MemoryInv'
    <2> DEFINE sigs == children[current].sigs
    <2>1. ~Busy(current)
      BY <1>1 DEF Busy, Active
    <2>2. /\ sigs # <<>> /\ Range(sigs) \subseteq children[current].mem \cup Unsent
          /\ Range(history) \subseteq Range(sigs) \cup Unsent \cup Summaries
      BY <2>1 DEF AcpInv, MemoryInv
    <2>3. Range(ctx) \cap Summaries \subseteq Range(sigs)
      <3>1. sigs \in Seq(Messages)
        BY <1>3 DEF AcpInv, TypeOK, Child
      <3> QED BY <2>2, <3>1, PrefixHoldsSummary
    <2> HIDE DEF sigs
    <2>4. Range(ctx) \subseteq Range(sigs) \cup Unsent \cup {t}
      BY <2>2, <2>3
    <2>5. Unsent \subseteq Unsent'
      BY DEF Unsent
    <2>6. Range(ctx) \subseteq children[current].mem \cup {t} \cup Unsent'
      BY <2>2, <2>4, <2>5
    <2>7. \A u \in Turns : turns'[u].pc \in Working => u = t
      BY <1>2 DEF Active
    <2>8. Busy(current)'
      BY DEF Busy, Working
    <2> QED BY <1>3, <2>6, <2>7, <2>8 DEF MemoryInv
  <1>9. HeardInFull'
    BY <1>2 DEF HeardInFull, Active, Working
  <1> QED BY <1>4, <1>5, <1>6, <1>7, <1>8, <1>9 DEF AcpInv

\* The turn under way was answered, and its child is the child in the map from now on.
LEMMA TurnKeeps ==
  ASSUME AcpInv, NEW t \in Turns, turns[t].pc = "prompt", NEW c \in Turns, c = turns[t].child,
         turns' = [turns EXCEPT ![t] = Rest("over")],
         children' \in [Turns -> Child],
         \A d \in Turns \ {c} : children'[d] = children[d],
         children'[c].proc = children[c].proc, children'[c].seen = children[c].seen,
         children'[c].retiring = children[c].retiring,
         children'[c].mem = children[c].mem, children'[c].sigs = turns[t].ctx,
         ~children[c].seen,
         (current' = c /\ retained' = retained \cup {c}) \/ UNCHANGED <<current, retained>>,
         inFlight' = FALSE, c = t => current' = c,
         UNCHANGED <<policy, history, unreported, told, early>>
  PROVE  AcpInv'
  <1> USE AcpConstants
  <1>1. /\ \A u \in Turns : Active(u) => u = t
        /\ Active(t)
        /\ children[c].proc # "none" /\ ~children[c].retiring /\ told[c] = 0
        /\ current \in {c, None}
        /\ c = t => current = None /\ unreported \in {t, None}
    BY DEF AcpInv, FlightInv, Active, Working
  <1>2. /\ turns' \in [Turns -> Turn] /\ turns'[t].pc = "over"
        /\ \A u \in Turns \ {t} : turns'[u] = turns[u]
    <2>1. <<>> \in Seq(Messages)
      OBVIOUS
    <2> QED BY <2>1 DEF AcpInv, TypeOK, Turn, Rest
  <1>3. \A u \in Turns : ~Active(u)'
    BY <1>1, <1>2 DEF Active, Working
  <1>4. current' = c /\ c \in retained' /\ unreported = None
    <2>1. CASE c = t
      BY <1>1, <2>1 DEF AcpInv, EndInv
    <2>2. CASE c # t
      <3>1. current = c
        BY <2>2 DEF AcpInv, FlightInv, Active, Working
      <3> QED BY <3>1 DEF AcpInv, HandInv
    <2> QED BY <2>1, <2>2
  <1>5. retained' \subseteq Turns
    BY DEF AcpInv, TypeOK
  <1>6. TypeOK'
    BY <1>2, <1>4, <1>5 DEF AcpInv, TypeOK
  <1>7. FlightInv'
    BY <1>3 DEF FlightInv
  <1>8. HandInv'
    <2>1. ASSUME NEW d \in Turns, children'[d].proc # "none",
                 ~children'[d].retiring, ~children'[d].seen
          PROVE  d = c
      <3> SUFFICES ASSUME d # c PROVE FALSE
        OBVIOUS
      <3>1. d = current \/ \E u \in Turns : Active(u) /\ turns[u].child = d
        BY <2>1 DEF AcpInv, HandInv
      <3> QED BY <1>1, <3>1
    <2> QED BY <1>1, <1>4, <2>1 DEF HandInv
  <1>9. EndInv'
    <2>1. \A u \in Turns : turns'[u].pc = "idle" => turns[u].pc = "idle"
      BY <1>2
    <2>2. \A d \in Turns : /\ children'[d].proc = children[d].proc
                           /\ children'[d].retiring = children[d].retiring
                           /\ children'[d].seen = children[d].seen
      OBVIOUS
    <2> QED BY <1>4, <2>1, <2>2 DEF AcpInv, EndInv
  <1>10. MemoryInv'
    <2>1. turns[t].ctx # <<>> /\ Range(history) \subseteq Range(turns[t].ctx) \cup Unsent \cup Summaries
      BY DEF AcpInv, MemoryInv, Working
    <2>2. Range(turns[t].ctx) \subseteq children[c].mem \cup Unsent
      BY DEF AcpInv, HeardInFull, Unsent
    <2>3. Unsent \subseteq Unsent'
      BY <1>2 DEF Unsent
    <2>4. \A u \in Turns : turns'[u].pc \notin Working
      BY <1>3 DEF Active
    <2> QED BY <1>4, <2>1, <2>2, <2>3, <2>4 DEF AcpInv, MemoryInv
  <1>11. HeardInFull'
    BY <1>3 DEF HeardInFull, Active, Working
  <1> QED BY <1>6, <1>7, <1>8, <1>9, <1>10, <1>11 DEF AcpInv

\* A child's exit while no prompt waits for it: it leaves the map, and its end waits to
\* be told unless it is no news.
LEMMA ExitUnawaited ==
  ASSUME AcpInv, NEW c \in Turns, children[c].proc = "dead", ~children[c].seen,
         children' = [children EXCEPT ![c].seen = TRUE],
         \A t \in Turns : turns[t].child = c => turns[t].pc # "prompt",
         early' = IF \E t \in Turns : turns[t].child = c /\ turns[t].pc \in {"boot", "hook"}
                  THEN early \cup {c} ELSE early,
         current' = IF current = c THEN None ELSE current,
         retained' = retained \ {c},
         unreported' = IF News(c) THEN c ELSE unreported,
         UNCHANGED <<policy, history, turns, inFlight, told>>
  PROVE  AcpInv'
  <1> USE AcpConstants
  <1>1. /\ children' \in [Turns -> Child]
        /\ \A d \in Turns \ {c} : children'[d] = children[d]
        /\ children'[c].proc = "dead" /\ children'[c].seen
        /\ children'[c].retiring = children[c].retiring
        /\ children'[c].reporting = children[c].reporting
        /\ children'[c].sigs = children[c].sigs /\ children'[c].mem = children[c].mem
    <2>1. ASSUME NEW k \in Child
          PROVE  LET r == [k EXCEPT !.seen = TRUE] IN
                 /\ r \in Child /\ r.seen /\ r.proc = k.proc
                 /\ r.retiring = k.retiring /\ r.reporting = k.reporting
                 /\ r.sigs = k.sigs /\ r.mem = k.mem
      BY <2>1 DEF Child
    <2> DEFINE r == [children[c] EXCEPT !.seen = TRUE]
    <2>2. children \in [Turns -> Child] /\ children' = [children EXCEPT ![c] = r]
      BY DEF AcpInv, TypeOK
    <2>3. /\ r \in Child /\ r.seen /\ r.proc = "dead"
          /\ r.retiring = children[c].retiring /\ r.reporting = children[c].reporting
          /\ r.sigs = children[c].sigs /\ r.mem = children[c].mem
      BY <2>1, <2>2
    <2> HIDE DEF r
    <2> QED BY <2>2, <2>3
  <1>2. /\ current \in Turns \cup {None} /\ unreported \in Turns \cup {None}
        /\ \A t \in Turns : Active(t) => turns[t].child \in Turns /\ current \in {turns[t].child, None}
        /\ \A t, u \in Turns : Active(t) /\ Active(u) => t = u
        /\ c \notin early /\ unreported # c
    BY DEF AcpInv, TypeOK, FlightInv, EndInv
  <1>3. News(c) => c = current \/ \E t \in Turns : Active(t) /\ turns[t].child = c
    BY DEF AcpInv, HandInv, News
  <1>4. \A t \in Turns : Active(t) /\ turns[t].child = c /\ News(c) => turns[t].pc \in {"boot", "hook"}
    BY DEF AcpInv, FlightInv, News, Active, Working
  <1>5. TypeOK'
    BY <1>1 DEF AcpInv, TypeOK
  <1>6. \A t \in Turns : Active(t)' <=> Active(t)
    BY DEF Active
  <1>7. FlightInv'
    <2>1. ASSUME NEW t \in Turns, Active(t), turns[t].child = t
          PROVE  current' = None /\ unreported' \in {t, None}
      <3>1. current = None /\ unreported \in {t, None}
        BY <2>1 DEF AcpInv, FlightInv
      <3>2. News(c) => c = t
        BY <1>2, <1>3, <2>1, <3>1
      <3> QED BY <3>1, <3>2
    <2>2. ASSUME NEW t \in Turns, Active(t), turns[t].child # t, turns[t].pc \in Working
          PROVE  current' = turns[t].child \/ children'[turns[t].child].seen
      <3>1. turns[t].child \in Turns /\ (current = turns[t].child \/ children[turns[t].child].seen)
        BY <2>2 DEF AcpInv, FlightInv
      <3> QED BY <1>1, <3>1
    <2>3. ASSUME NEW t \in Turns, Active(t)
          PROVE  LET d == turns[t].child IN
                 /\ inFlight /\ d \in Turns
                 /\ children'[d].proc # "none" /\ ~children'[d].retiring /\ told[d] = 0
                 /\ current' \in {d, None}
                 /\ turns[t].pc = "settling" => current' = None /\ children'[d].reporting
      BY <1>1, <2>3 DEF AcpInv, FlightInv
    <2>4. inFlight => \E t \in Turns : Active(t)
      BY DEF AcpInv, FlightInv
    <2> QED BY <1>2, <1>6, <2>1, <2>2, <2>3, <2>4 DEF FlightInv
  <1>8. HandInv'
    <2>1. ASSUME current' # None
          PROVE  /\ current' = current /\ current # c /\ ~News(c)
                 /\ children'[current] = children[current]
      BY <1>1, <1>2, <1>3, <2>1
    <2>2. ASSUME NEW d \in Turns, children'[d].proc # "none",
                 ~children'[d].retiring, ~children'[d].seen
          PROVE  d = current' \/ \E t \in Turns : Active(t) /\ turns[t].child = d
      BY <1>1, <1>2, <2>2 DEF AcpInv, HandInv
    <2> QED BY <1>6, <2>1, <2>2 DEF AcpInv, HandInv
  <1>9. EndInv'
    <2>1. ASSUME NEW d \in Turns
          PROVE  /\ children'[d].proc = "none" => told'[d] = 0 /\ ~children'[d].retiring
                 /\ children'[d].seen => children'[d].proc = "dead"
                 /\ d \in early' => children'[d].seen
                 /\ turns'[d].pc = "idle" => children'[d].proc = "none"
                 /\ d \notin early' => told'[d] <= 1
      <3>1. CASE d = c
        BY <1>1, <3>1 DEF AcpInv, EndInv
      <3>2. CASE d # c
        BY <1>1, <3>2 DEF AcpInv, EndInv
      <3> QED BY <3>1, <3>2
    <2>2. CASE ~News(c)
      <3>1. unreported # None => children'[unreported] = children[unreported]
        BY <1>1, <1>2
      <3> QED BY <1>2, <1>6, <2>1, <2>2, <3>1 DEF AcpInv, EndInv
    <2>3. CASE News(c)
      <3>1. told[c] = 0
        BY <1>2, <1>3, <2>3 DEF AcpInv, FlightInv, HandInv
      <3>2. c \notin early' => \A t \in Turns : Active(t) => turns[t].child # c
        BY <1>4, <2>3
      <3> QED BY <1>1, <1>6, <2>1, <2>3, <3>1, <3>2 DEF EndInv, News
    <2> QED BY <2>2, <2>3
  <1>10. MemoryInv'
    <2>1. \A d \in Turns : children'[d].sigs = children[d].sigs /\ children'[d].mem = children[d].mem
      BY <1>1
    <2>2. \A t \in Turns : turns[t].pc \in Working => turns[t].child \in Turns
      BY <1>2 DEF Active
    <2>3. current' # None => current' = current
      OBVIOUS
    <2> QED BY <1>2, <2>1, <2>2, <2>3 DEF AcpInv, MemoryInv, Unsent, Busy
  <1>11. HeardInFull'
    <2>1. \A d \in Turns : children'[d].mem = children[d].mem
      BY <1>1
    <2>2. \A t \in Turns : turns[t].pc = "prompt" => turns[t].child \in Turns
      BY <1>2 DEF Active, Working
    <2> QED BY <2>1, <2>2 DEF AcpInv, HeardInFull
  <1> QED BY <1>5, <1>7, <1>8, <1>9, <1>10, <1>11 DEF AcpInv

-----------------------------------------------------------------------------
(* The actions *)

\* A turn begins, on the child it is given.
LEMMA TurnMoves ==
  ASSUME NEW u \in Turn, NEW p \in {"boot", "hook"}, NEW ctx \in Seq(Messages), NEW c \in Turns
  PROVE  LET r == [u EXCEPT !.pc = p, !.ctx = ctx, !.child = c]
         IN r \in Turn /\ r.pc = p /\ r.ctx = ctx /\ r.child = c
  BY DEF Turn

\* What pi asks: the history as it may be now, and the turn's own message.
LEMMA AskFacts ==
  ASSUME AcpInv, NEW t \in Turns, NEW ctx, Asks(t, ctx)
  PROVE  /\ ctx \in Seq(Messages) /\ ctx # <<>> /\ OneSummary(ctx)
         /\ Range(ctx) \subseteq Range(history) \cup Summaries \cup {t}
         /\ history' = ctx /\ turns[t].pc = "idle"
  <1>1. PICK h \in Edited : ctx = Append(h, t)
    BY DEF Asks
  <1>2. h \in Seq(Messages) /\ Range(h) \subseteq Range(history) \cup Summaries /\ OneSummary(h)
    BY EditedFacts DEF AcpInv
  <1>3. t \in Messages
    BY DEF Messages
  <1>4. ctx \in Seq(Messages) /\ ctx # <<>> /\ Range(ctx) = Range(h) \cup {t}
    BY <1>1, <1>2, <1>3, RangeOfAppend
  <1>5. OneSummary(ctx)
    <2> SUFFICES ASSUME NEW i \in DOMAIN ctx, i > 1 PROVE ctx[i] \in Turns
      BY DEF OneSummary
    <2>1. CASE i = Len(h) + 1
      BY <1>1, <1>2, <1>3, <2>1
    <2>2. CASE i # Len(h) + 1
      <3>1. i \in 1..Len(h) /\ ctx[i] = h[i]
        BY <1>1, <1>2, <1>3, <2>2
      <3>2. i \in DOMAIN h
        BY <1>2, <3>1
      <3> QED BY <1>2, <3>1, <3>2 DEF OneSummary
    <2> QED BY <2>1, <2>2
  <1> QED BY <1>2, <1>4, <1>5 DEF Asks

\* The catch of a turn, whatever made it fail: it reports a closed connection first,
\* or it is over.
LEMMA FailKeeps ==
  ASSUME AcpInv, NEW t \in Turns, turns[t].pc \in Working, NEW c \in Turns, c = turns[t].child,
         NEW kids \in [Turns -> Child], NEW closure \in BOOLEAN,
         \A d \in Turns \ {c} : kids[d] = children[d],
         kids[c].proc = children[c].proc, kids[c].retiring = children[c].retiring,
         kids[c].seen => children[c].proc = "dead",
         children[c].seen => kids[c].seen,
         closure => kids[c].seen = children[c].seen /\ told' = told,
         told' \in {told, [told EXCEPT ![c] = @ + 1]},
         Fail(t, kids, closure),
         UNCHANGED <<policy, history, unreported, early>>
  PROVE  AcpInv'
  <1>1. Active(t) /\ current \in {c, None}
    BY DEF AcpInv, FlightInv, Active
  <1>2. current' = None
    BY <1>1 DEF Fail, Dropped
  <1>3. CASE closure /\ ~turns[t].aborted
    <2> DEFINE r == [kids[c] EXCEPT !.reporting = TRUE]
    <2>1. /\ turns' = [turns EXCEPT ![t].pc = "settling"] /\ children' = [kids EXCEPT ![c] = r]
          /\ UNCHANGED <<retained, inFlight>>
      BY <1>3 DEF Fail, Settling
    <2>2. /\ r \in Child /\ r.reporting /\ r.proc = kids[c].proc
          /\ r.retiring = kids[c].retiring /\ r.seen = kids[c].seen
      <3>1. kids[c] \in Child
        OBVIOUS
      <3> QED BY <3>1 DEF Child
    <2> HIDE DEF r
    <2>3. /\ children' \in [Turns -> Child] /\ children'[c] = r
          /\ \A d \in Turns \ {c} : children'[d] = children[d]
      BY <2>1, <2>2
    <2> QED BY <1>1, <1>2, <1>3, <2>1, <2>2, <2>3, ReportStarts
  <1>4. CASE ~(closure /\ ~turns[t].aborted)
    <2>1. /\ turns' = [turns EXCEPT ![t] = Rest("over")] /\ children' = Retired(kids, c)
          /\ retained' = retained \ {c} /\ inFlight' = FALSE
      BY <1>4 DEF Fail, Sealed
    <2>2. /\ children' \in [Turns -> Child]
          /\ \A d \in Turns \ {c} : children'[d] = kids[d]
          /\ children'[c].retiring
          /\ children'[c].proc = kids[c].proc /\ children'[c].seen = kids[c].seen
      BY <2>1, RetiredFacts
    <2>3. /\ \A d \in Turns \ {c} : children'[d] = children[d]
          /\ children'[c].seen => children[c].proc = "dead"
          /\ children[c].seen => children'[c].seen
          /\ children'[c].proc = children[c].proc
          /\ retained' \subseteq retained
      BY <2>1, <2>2
    <2> QED BY <1>1, <1>2, <2>1, <2>2, <2>3, TurnOver
  <1> QED BY <1>3, <1>4

\* An abort before the end of the turn marks it.
LEMMA AbortKeeps ==
  ASSUME AcpInv, NEW t \in Turns, Abort(t)
  PROVE  AcpInv'
  <1> DEFINE r == [turns[t] EXCEPT !.aborted = TRUE]
  <1>1. turns \in [Turns -> Turn] /\ turns' = [turns EXCEPT ![t] = r]
    BY DEF AcpInv, TypeOK, Abort
  <1>2. r \in Turn /\ r.pc = turns[t].pc /\ r.child = turns[t].child /\ r.ctx = turns[t].ctx
    BY <1>1 DEF Turn
  <1> HIDE DEF r
  <1>3. /\ turns' \in [Turns -> Turn]
        /\ \A u \in Turns : /\ turns'[u].pc = turns[u].pc /\ turns'[u].child = turns[u].child
                            /\ turns'[u].ctx = turns[u].ctx
    BY <1>1, <1>2
  <1>4. UNCHANGED <<policy, history, children, current, retained, inFlight, unreported, told, early>>
    BY DEF Abort
  <1>5. TypeOK' /\ HeardInFull'
    BY <1>3, <1>4 DEF AcpInv, TypeOK, HeardInFull
  <1>6. OneSummary(history')
    BY <1>4 DEF AcpInv, MemoryInv
  <1>7. Range(history') \subseteq Range(history) \cup Summaries \cup Unsent'
    BY <1>4
  <1>8. \A d \in Turns : children[d].proc = "dead" => children'[d].proc = "dead"
    BY <1>4
  <1> QED BY <1>3, <1>4, <1>5, <1>6, <1>7, <1>8, QuietStep

\* A refusal adds a message that no child was given.
LEMMA RefuseKeeps ==
  ASSUME AcpInv, NEW t \in Turns, NEW ctx, NEW m, Refuse(t, ctx, m)
  PROVE  AcpInv'
  <1>1. /\ ctx \in Seq(Messages) /\ ctx # <<>> /\ OneSummary(ctx)
        /\ Range(ctx) \subseteq Range(history) \cup Summaries \cup {t}
        /\ history' = ctx /\ turns[t].pc = "idle"
    BY AskFacts DEF Refuse
  <1>2. /\ turns' = [turns EXCEPT ![t] = Rest("refused")]
        /\ UNCHANGED <<policy, children, current, retained, inFlight, unreported, told, early>>
    BY DEF Refuse
  <1>3. /\ turns' \in [Turns -> Turn] /\ turns'[t].pc = "refused"
        /\ \A u \in Turns \ {t} : turns'[u] = turns[u]
    <2>1. <<>> \in Seq(Messages)
      OBVIOUS
    <2> QED BY <1>2, <2>1 DEF AcpInv, TypeOK, Turn, Rest
  <1>4. TypeOK'
    BY <1>1, <1>2, <1>3 DEF AcpInv, TypeOK
  <1>5. t \in Unsent' /\ Unsent \subseteq Unsent'
    BY <1>1, <1>3 DEF Unsent
  <1>6. HeardInFull'
    BY <1>2, <1>3, <1>5 DEF AcpInv, HeardInFull, Unsent
  <1>7. \A u \in Turns :
          /\ turns'[u].pc \in Working <=> turns[u].pc \in Working
          /\ turns'[u].pc = "settling" <=> turns[u].pc = "settling"
          /\ Active(u) => turns'[u].child = turns[u].child /\ turns'[u].ctx = turns[u].ctx
          /\ turns'[u].pc = "idle" => turns[u].pc = "idle"
          /\ turns[u].pc = "refused" => turns'[u].pc = "refused"
    BY <1>1, <1>3 DEF Active, Working
  <1>8. Range(history') \subseteq Range(history) \cup Summaries \cup Unsent'
    BY <1>1, <1>5
  <1> QED BY <1>1, <1>2, <1>4, <1>6, <1>7, <1>8, QuietStep

\* A child that is abandoned, or none.
LEMMA AbandonedFacts ==
  ASSUME AcpInv
  PROVE  /\ Abandoned \in [Turns -> Child]
         /\ \A d \in Turns : d # current => Abandoned[d] = children[d]
         /\ current # None => /\ Abandoned[current].retiring
                              /\ Abandoned[current].proc = children[current].proc
                              /\ Abandoned[current].seen = children[current].seen
  <1>1. children \in [Turns -> Child] /\ current \in Turns \cup {None}
    BY DEF AcpInv, TypeOK
  <1>2. CASE current = None
    BY <1>1, <1>2 DEF Abandoned
  <1>3. CASE current \in Turns
    <2>1. Abandoned = Retired(children, current)
      BY <1>3, AcpConstants DEF Abandoned
    <2> QED BY <1>1, <1>3, <2>1, RetiredFacts
  <1> QED BY <1>1, <1>2, <1>3

\* A turn that opens a child, or ends before it is there.
LEMMA LaunchKeeps ==
  ASSUME AcpInv, NEW t \in Turns, NEW ctx, NEW m \in Models, NEW g \in Configs,
         Launch(t, ctx, m, g)
  PROVE  AcpInv'
  <1>1. /\ ctx \in Seq(Messages) /\ ctx # <<>> /\ OneSummary(ctx)
        /\ history' = ctx /\ turns[t].pc = "idle"
    BY AskFacts DEF Launch
  <1>2. /\ Abandoned \in [Turns -> Child]
        /\ \A d \in Turns : d # current => Abandoned[d] = children[d]
        /\ current # None => /\ Abandoned[current].retiring
                             /\ Abandoned[current].proc = children[current].proc
                             /\ Abandoned[current].seen = children[current].seen
    BY AbandonedFacts
  <1>3. /\ ~inFlight /\ current' = None /\ retained' \subseteq retained
        /\ UNCHANGED <<policy, early>>
    BY DEF Launch, Occupied
  <1>4. CASE /\ turns' = [turns EXCEPT ![t] = Rest("over")]
             /\ children' = Abandoned /\ UNCHANGED inFlight
             /\ Announced \/ UNCHANGED <<told, unreported>>
    BY <1>1, <1>2, <1>3, <1>4, TurnAbandons
  <1> DEFINE begun == [turns[t] EXCEPT !.pc = "boot", !.ctx = ctx, !.child = t]
             spawned == [Abandoned[t] EXCEPT !.proc = "live", !.model = m,
                                             !.config = g, !.sigs = ctx]
  <1>5. CASE /\ turns' = [turns EXCEPT ![t] = begun]
             /\ children' = [Abandoned EXCEPT ![t] = spawned]
             /\ inFlight' = TRUE /\ Announced
    <2>1. /\ turns' \in [Turns -> Turn]
          /\ turns'[t].pc = "boot" /\ turns'[t].ctx = ctx /\ turns'[t].child = t
          /\ \A u \in Turns \ {t} : turns'[u] = turns[u]
      <3>1. turns \in [Turns -> Turn] /\ turns[t] \in Turn
        BY DEF AcpInv, TypeOK
      <3>2. begun \in Turn /\ begun.pc = "boot" /\ begun.ctx = ctx /\ begun.child = t
        BY <1>1, <3>1, TurnMoves
      <3> HIDE DEF begun
      <3> QED BY <1>5, <3>1, <3>2
    <2>2. /\ children' \in [Turns -> Child]
          /\ \A d \in Turns \ {t} : children'[d] = Abandoned[d]
          /\ children'[t].proc = "live" /\ children'[t].sigs = ctx
          /\ children'[t].seen = Abandoned[t].seen
          /\ children'[t].retiring = Abandoned[t].retiring
      <3>1. Abandoned[t] \in Child
        BY <1>2
      <3>2. /\ spawned \in Child /\ spawned.proc = "live" /\ spawned.sigs = ctx
            /\ spawned.seen = Abandoned[t].seen /\ spawned.retiring = Abandoned[t].retiring
        <4>1. ctx \in Seq(Messages)
          BY <1>1
        <4> QED BY <3>1, <4>1 DEF Child
      <3> HIDE DEF spawned
      <3> QED BY <1>2, <1>5, <3>2
    <2>3. t # current
      BY <1>1, AcpConstants DEF AcpInv, HandInv, EndInv
    <2>4. /\ \A d \in Turns \ {t} : d # current => children'[d] = children[d]
          /\ children'[t].seen = children[t].seen /\ children'[t].retiring = children[t].retiring
          /\ current # None => /\ children'[current].retiring
                               /\ children'[current].proc = children[current].proc
                               /\ children'[current].seen = children[current].seen
      <3>1. current \in Turns \cup {None}
        BY DEF AcpInv, TypeOK
      <3> QED BY <1>2, <2>2, <2>3, <3>1
    <2> QED BY <1>1, <1>3, <1>5, <2>1, <2>2, <2>4, TurnOpens
  <1> QED BY <1>4, <1>5 DEF Launch

\* A turn that takes the child in the map, or ends and costs it.
LEMMA ReuseKeeps ==
  ASSUME AcpInv, NEW t \in Turns, NEW ctx, NEW m, NEW g, Reuse(t, ctx, m, g)
  PROVE  AcpInv'
  <1>1. /\ ctx \in Seq(Messages) /\ ctx # <<>> /\ OneSummary(ctx)
        /\ Range(ctx) \subseteq Range(history) \cup Summaries \cup {t}
        /\ history' = ctx /\ turns[t].pc = "idle"
    BY AskFacts DEF Reuse
  <1>2. /\ ~inFlight /\ current # None /\ current \in Turns
        /\ IsPrefix(children[current].sigs, ctx)
        /\ UNCHANGED <<policy, unreported, told, early>>
    BY DEF Reuse, Occupied, Reusable, Compatible, AcpInv, TypeOK
  <1>3. CASE /\ turns' = [turns EXCEPT ![t] = Rest("over")]
             /\ children' = Retired(children, current)
             /\ current' = None /\ retained' = retained \ {current} /\ UNCHANGED inFlight
    <2>1. Abandoned = Retired(children, current)
      BY <1>2 DEF Abandoned
    <2> QED BY <1>1, <1>2, <1>3, <2>1, AbandonedFacts, TurnAbandons
  <1> DEFINE begun == [turns[t] EXCEPT !.pc = "hook", !.ctx = ctx, !.child = current]
  <1>4. CASE /\ turns' = [turns EXCEPT ![t] = begun]
             /\ inFlight' = TRUE /\ UNCHANGED <<children, current, retained>>
    <2>1. /\ turns' \in [Turns -> Turn]
          /\ turns'[t].pc = "hook" /\ turns'[t].ctx = ctx /\ turns'[t].child = current
          /\ \A u \in Turns \ {t} : turns'[u] = turns[u]
      <3>1. turns \in [Turns -> Turn] /\ turns[t] \in Turn
        BY DEF AcpInv, TypeOK
      <3>2. begun \in Turn /\ begun.pc = "hook" /\ begun.ctx = ctx /\ begun.child = current
        BY <1>1, <1>2, <3>1, TurnMoves
      <3> HIDE DEF begun
      <3> QED BY <1>4, <3>1, <3>2
    <2> QED BY <1>1, <1>2, <1>4, <2>1, TurnReuses
  <1> QED BY <1>3, <1>4 DEF Reuse

\* The child under a turn.
LEMMA ChildOfTurn ==
  ASSUME AcpInv, NEW t \in Turns, Active(t)
  PROVE  /\ turns[t].child \in Turns /\ turns \in [Turns -> Turn] /\ turns[t] \in Turn
         /\ children \in [Turns -> Child] /\ children[turns[t].child] \in Child
         /\ current \in {turns[t].child, None}
         /\ \A u \in Turns : Active(u) => u = t
  BY DEF AcpInv, TypeOK, FlightInv

\* The bootstrap is over, and the payload hook is next.
LEMMA BootDoneKeeps ==
  ASSUME AcpInv, NEW t \in Turns, BootDone(t)
  PROVE  AcpInv'
  <1> DEFINE r == [turns[t] EXCEPT !.pc = "hook"]
  <1>1. turns \in [Turns -> Turn] /\ turns[t] \in Turn /\ turns[t].pc = "boot"
        /\ turns' = [turns EXCEPT ![t] = r]
    BY DEF AcpInv, TypeOK, BootDone
  <1>2. r \in Turn /\ r.pc = "hook" /\ r.child = turns[t].child /\ r.ctx = turns[t].ctx
    BY <1>1 DEF Turn
  <1> HIDE DEF r
  <1>3. /\ turns' \in [Turns -> Turn] /\ turns'[t] = r
        /\ \A u \in Turns \ {t} : turns'[u] = turns[u]
    BY <1>1, <1>2
  <1>4. \A u \in Turns :
          /\ turns'[u].pc \in Working <=> turns[u].pc \in Working
          /\ turns'[u].pc = "settling" <=> turns[u].pc = "settling"
          /\ turns'[u].child = turns[u].child /\ turns'[u].ctx = turns[u].ctx
          /\ turns'[u].pc = "idle" => turns[u].pc = "idle"
          /\ turns'[u].pc = "prompt" => turns[u].pc = "prompt"
          /\ turns'[u].pc = "refused" <=> turns[u].pc = "refused"
    BY <1>1, <1>2, <1>3 DEF Working
  <1>5. UNCHANGED <<policy, history, children, current, retained, inFlight, unreported, told, early>>
    BY DEF BootDone
  <1>6. TypeOK' /\ HeardInFull'
    BY <1>3, <1>4, <1>5 DEF AcpInv, TypeOK, HeardInFull
  <1>7. /\ OneSummary(history')
        /\ Range(history') \subseteq Range(history) \cup Summaries \cup Unsent'
    BY <1>5 DEF AcpInv, MemoryInv
  <1>8. \A d \in Turns : children[d].proc = "dead" => children'[d].proc = "dead"
    BY <1>5
  <1> QED BY <1>4, <1>5, <1>6, <1>7, <1>8, QuietStep

\* The child answers: it is kept, or the turn's own child is torn down.
LEMMA AnswerKeeps ==
  ASSUME AcpInv, NEW t \in Turns, Answer(t)
  PROVE  AcpInv'
  <1> DEFINE c == turns[t].child
  <1>1. Active(t) /\ turns[t].pc = "prompt"
    BY DEF Answer, Active, Working
  <1>2. /\ c \in Turns /\ children \in [Turns -> Child] /\ children[c] \in Child
        /\ current \in {c, None} /\ turns[t].ctx \in Seq(Messages)
        /\ c = t => current = None /\ children[c].sigs = turns[t].ctx
    BY <1>1, ChildOfTurn DEF AcpInv, FlightInv, MemoryInv, Working, Turn
  <1>3. /\ turns' = [turns EXCEPT ![t] = Rest("over")] /\ inFlight' = FALSE
        /\ children[c].proc = "live" /\ ~children[c].seen
        /\ UNCHANGED <<policy, history, unreported, told, early>>
    BY <1>2 DEF Answer, AcpInv, EndInv
  <1>4. CASE c # t
    <2> DEFINE r == [children[c] EXCEPT !.sigs = turns[t].ctx]
    <2>1. children' = [children EXCEPT ![c] = r] /\ UNCHANGED <<current, retained>>
      BY <1>2, <1>4 DEF Answer
    <2>2. /\ r \in Child /\ r.sigs = turns[t].ctx /\ r.mem = children[c].mem
          /\ r.proc = children[c].proc /\ r.seen = children[c].seen
          /\ r.retiring = children[c].retiring
      BY <1>2 DEF Child
    <2> HIDE DEF r, c
    <2>3. /\ children' \in [Turns -> Child] /\ children'[c] = r
          /\ \A d \in Turns \ {c} : children'[d] = children[d]
      BY <1>2, <2>1, <2>2
    <2>4. c = turns[t].child
      BY DEF c
    <2> QED BY <1>1, <1>2, <1>3, <1>4, <2>1, <2>2, <2>3, <2>4, TurnKeeps
  <1>5. CASE c = t /\ current' = c /\ retained' = retained \cup {c} /\ UNCHANGED children
    BY <1>1, <1>2, <1>3, <1>5, TurnKeeps
  <1>6. CASE c = t /\ children' = Retired(children, c) /\ UNCHANGED <<current, retained>>
    <2>1. /\ children' \in [Turns -> Child]
          /\ \A d \in Turns \ {c} : children'[d] = children[d]
          /\ children'[c].retiring
          /\ children'[c].proc = children[c].proc /\ children'[c].seen = children[c].seen
      BY <1>2, <1>6, RetiredFacts
    <2> QED BY <1>1, <1>2, <1>3, <1>6, <2>1, TurnOver
  <1> QED BY <1>4, <1>5, <1>6 DEF Answer

\* The bounded wait for the exit is over, and the end is told.
LEMMA SettleEndsKeeps ==
  ASSUME AcpInv, NEW t \in Turns, SettleEnds(t)
  PROVE  AcpInv'
  <1> DEFINE c == turns[t].child
  <1>1. Active(t) /\ turns[t].pc = "settling"
    BY DEF SettleEnds, Active
  <1>2. /\ c \in Turns /\ children \in [Turns -> Child] /\ current = None
        /\ children[c].seen => children[c].proc = "dead"
    BY <1>1, ChildOfTurn DEF AcpInv, FlightInv, EndInv
  <1>3. /\ turns' = [turns EXCEPT ![t] = Rest("over")] /\ inFlight' = FALSE
        /\ children' = Retired(children, c) /\ current' = None
        /\ retained' \subseteq retained /\ told' = [told EXCEPT ![c] = @ + 1]
        /\ UNCHANGED <<policy, history, unreported, early>>
    BY <1>2 DEF SettleEnds
  <1>4. /\ children' \in [Turns -> Child]
        /\ \A d \in Turns \ {c} : children'[d] = children[d]
        /\ children'[c].retiring
        /\ children'[c].proc = children[c].proc /\ children'[c].seen = children[c].seen
    BY <1>2, <1>3, RetiredFacts
  <1> QED BY <1>1, <1>2, <1>3, <1>4, TurnOver

\* A turn fails with nothing to look into: at its bootstrap, in its hook, after its grace.
LEMMA PlainFailKeeps ==
  ASSUME AcpInv, NEW t \in Turns, turns[t].pc \in Working, Fail(t, children, FALSE),
         UNCHANGED <<policy, history, unreported, told, early>>
  PROVE  AcpInv'
  <1>1. /\ turns[t].child \in Turns /\ children \in [Turns -> Child]
        /\ children[turns[t].child].seen => children[turns[t].child].proc = "dead"
    BY ChildOfTurn DEF AcpInv, EndInv, Active
  <1> QED BY <1>1, FailKeeps

\* The payload hook returns: the turn fails, or its prompt goes out.
LEMMA HookEndsKeeps ==
  ASSUME AcpInv, NEW t \in Turns, HookEnds(t)
  PROVE  AcpInv'
  <1> DEFINE c == turns[t].child
             carried == IF c = t THEN Range(turns[t].ctx) ELSE {t}
  <1>1. Active(t) /\ turns[t].pc = "hook" /\ turns[t].pc \in Working
    BY DEF HookEnds, Active, Working
  <1>2. /\ c \in Turns /\ children \in [Turns -> Child] /\ children[c] \in Child
        /\ turns \in [Turns -> Turn] /\ turns[t] \in Turn /\ turns[t].ctx \in Seq(Messages)
        /\ children[c].seen => children[c].proc = "dead"
        /\ \A u \in Turns : Active(u) => u = t
    BY <1>1, ChildOfTurn DEF AcpInv, EndInv, Turn
  <1>3. UNCHANGED <<policy, history, unreported, told, early>>
    BY DEF HookEnds
  <1>4. CASE Fail(t, children, FALSE)
    BY <1>1, <1>3, <1>4, PlainFailKeeps
  <1>5. CASE Fail(t, children, TRUE)
    BY <1>1, <1>2, <1>3, <1>5, FailKeeps
  <1> DEFINE r == [turns[t] EXCEPT !.pc = "prompt"]
             k == [children[c] EXCEPT !.mem = @ \cup carried]
  <1>6. CASE /\ turns' = [turns EXCEPT ![t] = r]
             /\ children' = [children EXCEPT ![c] = k]
             /\ UNCHANGED <<current, retained, inFlight>>
    <2>1. r \in Turn /\ r.pc = "prompt" /\ r.child = turns[t].child /\ r.ctx = turns[t].ctx
      BY <1>2 DEF Turn
    <2>2. carried \subseteq Messages
      BY <1>2 DEF Range, Messages
    <2>3. /\ k \in Child /\ k.mem = children[c].mem \cup carried
          /\ k.proc = children[c].proc /\ k.seen = children[c].seen
          /\ k.retiring = children[c].retiring /\ k.reporting = children[c].reporting
          /\ k.sigs = children[c].sigs
      <3> HIDE DEF carried
      <3> QED BY <1>2, <2>2 DEF Child
    <2>4. Range(turns[t].ctx) \subseteq children[c].mem \cup carried \cup Unsent
      BY <1>1 DEF AcpInv, MemoryInv
    <2> HIDE DEF r, k, carried
    <2>5. /\ turns' \in [Turns -> Turn] /\ turns'[t] = r
          /\ \A u \in Turns \ {t} : turns'[u] = turns[u]
          /\ children' \in [Turns -> Child] /\ children'[c] = k
          /\ \A d \in Turns \ {c} : children'[d] = children[d]
      BY <1>2, <1>6, <2>1, <2>3
    <2>6. \A u \in Turns :
            /\ turns'[u].pc \in Working <=> turns[u].pc \in Working
            /\ turns'[u].pc = "settling" <=> turns[u].pc = "settling"
            /\ turns'[u].child = turns[u].child /\ turns'[u].ctx = turns[u].ctx
            /\ turns'[u].pc = "idle" => turns[u].pc = "idle"
            /\ turns'[u].pc = "refused" <=> turns[u].pc = "refused"
      BY <1>1, <2>1, <2>5 DEF Working
    <2>7. TypeOK'
      BY <1>3, <1>6, <2>5 DEF AcpInv, TypeOK
    <2>8. HeardInFull'
      <3>1. \A u \in Turns : turns'[u].pc = "prompt" => u = t
        BY <1>2, <2>6 DEF Active, Working
      <3>2. Range(turns'[t].ctx) \subseteq children'[turns'[t].child].mem \cup Unsent
        BY <2>1, <2>3, <2>4, <2>5
      <3>3. Unsent' = Unsent
        BY <2>6 DEF Unsent
      <3> QED BY <3>1, <3>2, <3>3 DEF HeardInFull, Unsent
    <2>9. /\ OneSummary(history')
          /\ Range(history') \subseteq Range(history) \cup Summaries \cup Unsent'
      BY <1>3 DEF AcpInv, MemoryInv
    <2>10. \A d \in Turns :
             /\ children'[d].proc = children[d].proc /\ children'[d].seen = children[d].seen
             /\ children'[d].retiring = children[d].retiring
             /\ children'[d].reporting = children[d].reporting
             /\ children'[d].sigs = children[d].sigs
             /\ children[d].mem \subseteq children'[d].mem
      BY <2>3, <2>5
    <2> QED BY <1>3, <1>6, <2>6, <2>7, <2>8, <2>9, <2>10, QuietStep
  <1> QED BY <1>4, <1>5, <1>6 DEF HookEnds

\* A change to one child that no turn notices.
LEMMA ChildMoves ==
  ASSUME AcpInv, NEW c \in Turns, NEW k \in Child, children' = [children EXCEPT ![c] = k],
         k.proc = "none" <=> children[c].proc = "none",
         children[c].proc = "dead" => k.proc = "dead",
         k.seen = children[c].seen, k.retiring = children[c].retiring,
         k.reporting = children[c].reporting, k.sigs = children[c].sigs, k.mem = children[c].mem,
         UNCHANGED <<policy, history, turns, current, retained, inFlight, unreported, told, early>>
  PROVE  AcpInv'
  <1>1. children \in [Turns -> Child]
    BY DEF AcpInv, TypeOK
  <1>2. /\ children' \in [Turns -> Child] /\ children'[c] = k
        /\ \A d \in Turns \ {c} : children'[d] = children[d]
    BY <1>1
  <1>3. \A d \in Turns :
          /\ children'[d].proc = "none" <=> children[d].proc = "none"
          /\ children'[d].seen = children[d].seen
          /\ children[d].proc = "dead" => children'[d].proc = "dead"
          /\ children'[d].retiring = children[d].retiring
          /\ children'[d].reporting = children[d].reporting
          /\ children'[d].sigs = children[d].sigs /\ children'[d].mem = children[d].mem
    BY <1>2
  <1>4. TypeOK'
    BY <1>2 DEF AcpInv, TypeOK
  <1>5. HeardInFull'
    <2>1. \A t \in Turns : turns[t].pc = "prompt" => turns[t].child \in Turns
      BY DEF AcpInv, FlightInv, Active, Working
    <2> QED BY <1>3, <2>1 DEF AcpInv, HeardInFull
  <1>6. /\ OneSummary(history')
        /\ Range(history') \subseteq Range(history) \cup Summaries \cup Unsent'
    BY DEF AcpInv, MemoryInv
  <1> QED BY <1>3, <1>4, <1>5, <1>6, QuietStep

\* The child dies.
LEMMA DiesKeeps ==
  ASSUME AcpInv, NEW c \in Turns, Dies(c)
  PROVE  AcpInv'
  <1> DEFINE k == [children[c] EXCEPT !.proc = "dead"]
  <1>1. children[c] \in Child /\ children' = [children EXCEPT ![c] = k] /\ children[c].proc = "live"
    BY DEF AcpInv, TypeOK, Dies
  <1>2. /\ k \in Child /\ k.proc = "dead" /\ k.seen = children[c].seen
        /\ k.retiring = children[c].retiring /\ k.reporting = children[c].reporting
        /\ k.sigs = children[c].sigs /\ k.mem = children[c].mem
    BY <1>1 DEF Child
  <1> HIDE DEF k
  <1> QED BY <1>1, <1>2, ChildMoves DEF Dies

\* The child's stdout ends: a turn that waits for an answer fails, and looks into it.
LEMMA StdoutEndsKeeps ==
  ASSUME AcpInv, NEW c \in Turns, StdoutEnds(c)
  PROVE  AcpInv'
  <1> DEFINE k == [children[c] EXCEPT !.closed = TRUE]
             kids == [children EXCEPT ![c] = k]
  <1>1. children \in [Turns -> Child] /\ children[c] \in Child
    BY DEF AcpInv, TypeOK
  <1>2. /\ k \in Child /\ k.proc = children[c].proc /\ k.seen = children[c].seen
        /\ k.retiring = children[c].retiring /\ k.reporting = children[c].reporting
        /\ k.sigs = children[c].sigs /\ k.mem = children[c].mem
    BY <1>1 DEF Child
  <1>3. UNCHANGED <<policy, history, unreported, told, early>>
    BY DEF StdoutEnds
  <1>4. \/ children' = kids /\ UNCHANGED <<turns, current, retained, inFlight>>
        \/ \E t \in Turns : /\ turns[t].child = c /\ turns[t].pc \in {"boot", "prompt"}
                            /\ Fail(t, kids, TRUE)
    BY DEF StdoutEnds
  <1>5. CASE children' = kids /\ UNCHANGED <<turns, current, retained, inFlight>>
    <2> HIDE DEF k
    <2> QED BY <1>2, <1>3, <1>5, ChildMoves
  <1>6. ASSUME NEW t \in Turns, turns[t].child = c, turns[t].pc \in {"boot", "prompt"},
               Fail(t, kids, TRUE)
        PROVE  AcpInv'
    <2> HIDE DEF k
    <2>1. /\ kids \in [Turns -> Child] /\ kids[c] = k
          /\ \A d \in Turns \ {c} : kids[d] = children[d]
      BY <1>1, <1>2
    <2>2. k.seen => children[c].proc = "dead"
      BY <1>2 DEF AcpInv, EndInv
    <2>3. turns[t].pc \in Working
      BY <1>6 DEF Working
    <2> HIDE DEF kids
    <2> QED BY <1>2, <1>3, <1>6, <2>1, <2>2, <2>3, FailKeeps
  <1> QED BY <1>4, <1>5, <1>6

\* The child's exit is seen: a turn that waits for its answer fails with it and tells it.
LEMMA ExitKeeps ==
  ASSUME AcpInv, NEW c \in Turns, Exit(c)
  PROVE  AcpInv'
  <1> DEFINE k == [children[c] EXCEPT !.seen = TRUE]
             kids == [children EXCEPT ![c] = k]
             before == {t \in Turns : turns[t].child = c /\ turns[t].pc \in {"boot", "hook"}}
             waiting == {t \in Turns : turns[t].child = c /\ turns[t].pc = "prompt"}
  <1>1. /\ children \in [Turns -> Child] /\ children[c] \in Child
        /\ children[c].proc = "dead" /\ ~children[c].seen
    BY DEF AcpInv, TypeOK, Exit
  <1>2. UNCHANGED <<policy, history>> /\ early' = IF before = {} THEN early ELSE early \cup {c}
    BY DEF Exit
  <1>3. CASE waiting = {}
    <2>1. /\ children' = [children EXCEPT ![c].seen = TRUE] /\ Dropped(c)
          /\ retained' = retained \ {c} /\ unreported' = IF News(c) THEN c ELSE unreported
          /\ UNCHANGED <<turns, inFlight, told>>
      BY <1>3 DEF Exit
    <2> QED BY <1>1, <1>2, <1>3, <2>1, ExitUnawaited DEF Dropped
  <1>4. CASE waiting # {}
    <2>1. PICK t \in waiting : Fail(t, kids, FALSE)
      BY <1>4 DEF Exit
    <2>2. told' = [told EXCEPT ![c] = @ + 1] /\ UNCHANGED unreported
      BY <1>4 DEF Exit
    <2>3. t \in Turns /\ turns[t].child = c /\ turns[t].pc = "prompt"
      OBVIOUS
    <2>4. before = {}
      <3>1. \A u \in Turns : Active(u) => u = t
        BY <2>3, ChildOfTurn DEF Active, Working
      <3> QED BY <2>3, <3>1 DEF Active, Working
    <2>5. UNCHANGED early
      BY <1>2, <2>4
    <2>6. /\ k \in Child /\ k.proc = children[c].proc /\ k.seen
          /\ k.retiring = children[c].retiring
      BY <1>1 DEF Child
    <2> HIDE DEF k
    <2>7. /\ kids \in [Turns -> Child] /\ kids[c] = k
          /\ \A d \in Turns \ {c} : kids[d] = children[d]
      BY <1>1, <2>6
    <2>8. turns[t].pc \in Working
      BY <2>3 DEF Working
    <2> HIDE DEF kids, before, waiting
    <2> QED BY <1>1, <1>2, <2>1, <2>2, <2>3, <2>5, <2>6, <2>7, <2>8, FailKeeps
  <1> QED BY <1>3, <1>4

-----------------------------------------------------------------------------
(* The invariant and what it says *)

\* No child and no turn at the start.
LEMMA AcpInit == Init => AcpInv
  <1> SUFFICES ASSUME Init PROVE AcpInv
    OBVIOUS
  <1> USE AcpConstants DEF Init
  <1>1. \A t \in Turns : turns[t].pc = "idle" /\ ~Active(t)
    BY DEF Rest, Active, Working
  <1>2. \A c \in Turns : /\ children[c].proc = "none" /\ ~children[c].retiring
                         /\ ~children[c].seen /\ told[c] = 0
    OBVIOUS
  <1>3. TypeOK
    <2>1. <<>> \in Seq(Messages)
      OBVIOUS
    <2>2. turns \in [Turns -> Turn]
      BY <2>1 DEF Rest, Turn
    <2>3. children \in [Turns -> Child]
      <3>1. ASSUME NEW e \in Seq(Messages)
            PROVE  [proc |-> "none", closed |-> FALSE, seen |-> FALSE, retiring |-> FALSE,
                    reporting |-> FALSE, model |-> None, config |-> None, sigs |-> e,
                    mem |-> {}] \in Child
        BY DEF Child
      <3>2. [proc |-> "none", closed |-> FALSE, seen |-> FALSE, retiring |-> FALSE,
             reporting |-> FALSE, model |-> None, config |-> None, sigs |-> <<>>,
             mem |-> {}] \in Child
        BY <2>1, <3>1
      <3> QED BY <3>2
    <2>4. told \in [Turns -> 0..2] /\ history \in Seq(Messages)
      BY <2>1
    <2>5. /\ policy \in Policies /\ current = None /\ retained = {} /\ inFlight = FALSE
          /\ unreported = None /\ early = {}
      OBVIOUS
    <2> QED BY ONLY <2>2, <2>3, <2>4, <2>5 DEF TypeOK
  <1>4. FlightInv /\ HandInv /\ EndInv
    BY <1>1, <1>2 DEF FlightInv, HandInv, EndInv
  <1>5. MemoryInv /\ HeardInFull
    <2>1. DOMAIN history = {}
      OBVIOUS
    <2> QED BY <1>1, <2>1 DEF MemoryInv, HeardInFull, OneSummary, Working
  <1> QED BY <1>3, <1>4, <1>5 DEF AcpInv

\* Every action keeps the invariant.
LEMMA AcpStep == AcpInv /\ [Next]_vars => AcpInv'
  <1> SUFFICES ASSUME AcpInv, [Next]_vars PROVE AcpInv'
    OBVIOUS
  <1>1. ASSUME NEW t \in Turns, NEW h \in Edited, NEW m \in Models, Refuse(t, Append(h, t), m)
        PROVE  AcpInv'
    BY <1>1, RefuseKeeps
  <1>2. ASSUME NEW t \in Turns, NEW h \in Edited, NEW m \in Models, NEW g \in Configs,
               Launch(t, Append(h, t), m, g)
        PROVE  AcpInv'
    BY <1>2, LaunchKeeps
  <1>3. ASSUME NEW t \in Turns, NEW h \in Edited, NEW m \in Models, NEW g \in Configs,
               Reuse(t, Append(h, t), m, g)
        PROVE  AcpInv'
    BY <1>3, ReuseKeeps
  <1>4. ASSUME NEW t \in Turns, Abort(t) PROVE AcpInv'
    BY <1>4, AbortKeeps
  <1>5. ASSUME NEW t \in Turns, BootDone(t) PROVE AcpInv'
    BY <1>5, BootDoneKeeps
  <1>6. ASSUME NEW t \in Turns, BootFails(t) PROVE AcpInv'
    BY <1>6, PlainFailKeeps DEF BootFails, Working
  <1>7. ASSUME NEW t \in Turns, HookEnds(t) PROVE AcpInv'
    BY <1>7, HookEndsKeeps
  <1>8. ASSUME NEW t \in Turns, Answer(t) PROVE AcpInv'
    BY <1>8, AnswerKeeps
  <1>9. ASSUME NEW t \in Turns, Grace(t) PROVE AcpInv'
    BY <1>9, PlainFailKeeps DEF Grace, Working
  <1>10. ASSUME NEW t \in Turns, SettleEnds(t) PROVE AcpInv'
    BY <1>10, SettleEndsKeeps
  <1>11. ASSUME NEW c \in Turns, Dies(c) PROVE AcpInv'
    BY <1>11, DiesKeeps
  <1>12. ASSUME NEW c \in Turns, StdoutEnds(c) PROVE AcpInv'
    BY <1>12, StdoutEndsKeeps
  <1>13. ASSUME NEW c \in Turns, Exit(c) PROVE AcpInv'
    BY <1>13, ExitKeeps
  <1>14. CASE UNCHANGED vars
    BY <1>14 DEF vars, AcpInv, TypeOK, FlightInv, HandInv, EndInv, MemoryInv, HeardInFull,
       Active, Busy, Unsent
  <1> QED BY <1>1, <1>2, <1>3, <1>4, <1>5, <1>6, <1>7, <1>8, <1>9, <1>10, <1>11, <1>12, <1>13,
            <1>14 DEF Next

\* AcpInv holds in every state of the provider, for any turns, models and policies.
THEOREM AcpInvariant == Spec => []AcpInv
  <1>1. Init => AcpInv
    BY AcpInit
  <1>2. AcpInv /\ [Next]_vars => AcpInv'
    BY AcpStep
  <1> QED BY <1>1, <1>2, PTL DEF Spec

\* At most one child of the key lives that nobody has torn down, and it is in hand
\* (streamAcpTurn's in-flight guard, the map and the retained children).
THEOREM OneLiveConversation == Spec => []OneConversation
  <1>1. AcpInv => OneConversation
    <2> SUFFICES ASSUME AcpInv PROVE OneConversation
      OBVIOUS
    <2> DEFINE loose == {c \in Turns : children[c].proc = "live" /\ ~children[c].retiring}
               inTurn(c) == \E t \in Turns : turns[t].child = c /\ Active(t)
    <2>1. ASSUME NEW c \in loose PROVE (c = current /\ c \in retained) \/ inTurn(c)
      <3>1. c = current \/ inTurn(c)
        BY <2>1 DEF AcpInv, HandInv, EndInv
      <3>2. c = current => c \in retained
        BY <2>1, AcpConstants DEF AcpInv, HandInv
      <3> QED BY <3>1, <3>2
    <2>2. ASSUME NEW c \in loose, NEW d \in loose PROVE d = c
      BY <2>1, <2>2, AcpConstants DEF AcpInv, FlightInv
    <2> QED BY <2>1, <2>2 DEF OneConversation, Active
  <1> QED BY <1>1, AcpInvariant, PTL

\* A prompt is answered by a child that was sent the turn's whole context, but for the
\* messages of refused turns (runNewTurn's full transcript, runReuseTurn's last message
\* behind isCompatible's prefix).
THEOREM PromptsHeardInFull == Spec => []HeardInFull
  <1>1. AcpInv => HeardInFull
    BY DEF AcpInv
  <1> QED BY <1>1, AcpInvariant, PTL

\* The end of a child is told once, unless its exit came before the turn's prompt was out
\* (onChildGone, settleChildEnd, takeUnreportedChildEnd).
THEOREM EndToldOnce == Spec => []ToldOnce
  <1>1. AcpInv => ToldOnce
    BY DEF AcpInv, TypeOK, EndInv, ToldOnce
  <1> QED BY <1>1, AcpInvariant, PTL

\* Once a child is in the map, no earlier end waits to be told (takeUnreportedChildEnd
\* runs before the next child is there).
THEOREM NoEndHidden == Spec => []NoHiddenEnd
  <1>1. AcpInv => NoHiddenEnd
    BY DEF AcpInv, HandInv, NoHiddenEnd
  <1> QED BY <1>1, AcpInvariant, PTL

-----------------------------------------------------------------------------
(* Nobody waits on a closed connection *)

\* A turn that fails waits for no answer any more.
LEMMA FailStops ==
  ASSUME turns \in [Turns -> Turn], NEW t \in Turns, NEW kids, NEW closure, Fail(t, kids, closure)
  PROVE  turns'[t].pc # "prompt" /\ \A u \in Turns \ {t} : turns'[u] = turns[u]
  <1>1. turns[t] \in Turn
    OBVIOUS
  <1>2. CASE Settling(t, kids)
    <2>1. turns' = [turns EXCEPT ![t] = [turns[t] EXCEPT !.pc = "settling"]]
      BY <1>2 DEF Settling
    <2>2. [turns[t] EXCEPT !.pc = "settling"].pc = "settling"
      BY <1>1 DEF Turn
    <2> QED BY <2>1, <2>2
  <1>3. CASE Sealed(t, kids)
    BY <1>3 DEF Sealed, Rest
  <1> QED BY <1>2, <1>3 DEF Fail

\* The turn under way is the only one that may wait for an answer.
LEMMA NoPromptLeft ==
  ASSUME AcpInv, NEW t \in Turns, Active(t) \/ ~inFlight, turns'[t].pc # "prompt",
         \A u \in Turns \ {t} : turns'[u] = turns[u]
  PROVE  PromptIsHeard'
  <1>1. ASSUME NEW u \in Turns, turns'[u].pc = "prompt" PROVE FALSE
    <2>1. u # t /\ turns[u].pc = "prompt"
      BY <1>1
    <2>2. Active(u)
      BY <2>1 DEF Active, Working
    <2> QED BY <2>1, <2>2 DEF AcpInv, FlightInv
  <1> QED BY <1>1 DEF PromptIsHeard

\* The hook's return sends the prompt over an open connection.
LEMMA HookIsHeard ==
  ASSUME AcpInv, NEW t \in Turns, HookEnds(t)
  PROVE  PromptIsHeard'
  <1> DEFINE c == turns[t].child
             carried == IF c = t THEN Range(turns[t].ctx) ELSE {t}
             r == [turns[t] EXCEPT !.pc = "prompt"]
             k == [children[c] EXCEPT !.mem = @ \cup carried]
  <1>1. Active(t)
    BY DEF HookEnds, Active, Working
  <1>2. /\ turns \in [Turns -> Turn] /\ turns[t] \in Turn /\ c \in Turns
        /\ children \in [Turns -> Child] /\ children[c] \in Child
    BY <1>1, ChildOfTurn
  <1>3. CASE Fail(t, children, FALSE) \/ Fail(t, children, TRUE)
    BY <1>1, <1>2, <1>3, FailStops, NoPromptLeft
  <1>4. CASE ~children[c].closed /\ turns' = [turns EXCEPT ![t].pc = "prompt"]
             /\ children' = [children EXCEPT ![c].mem = @ \cup carried]
    <2>1. turns' = [turns EXCEPT ![t] = r] /\ children' = [children EXCEPT ![c] = k]
      BY <1>4
    <2>2. r.child = c
      BY <1>2 DEF Turn
    <2>3. k.closed = children[c].closed
      BY <1>2 DEF Child
    <2> HIDE DEF r, k, carried
    <2>4. ASSUME NEW u \in Turns, turns'[u].pc = "prompt" PROVE u = t
      <3>1. CASE u # t
        <4>1. Active(u)
          BY <1>2, <2>1, <2>4, <3>1 DEF Active, Working
        <4> QED BY <1>1, <4>1, ChildOfTurn
      <3> QED BY <3>1
    <2>5. turns'[t].child = c /\ ~children'[c].closed
      BY <1>2, <1>4, <2>1, <2>2, <2>3
    <2> QED BY <2>4, <2>5 DEF PromptIsHeard
  <1> QED BY <1>3, <1>4 DEF HookEnds

\* The end of stdout finds the turn that waits for the child, if there is one.
LEMMA StdoutIsHeard ==
  ASSUME AcpInv, PromptIsHeard, NEW c \in Turns, StdoutEnds(c)
  PROVE  PromptIsHeard'
  <1> DEFINE k == [children[c] EXCEPT !.closed = TRUE]
             kids == [children EXCEPT ![c] = k]
             waiting == {t \in Turns : turns[t].child = c /\ turns[t].pc \in {"boot", "prompt"}}
  <1>1. turns \in [Turns -> Turn] /\ children \in [Turns -> Child]
    BY DEF AcpInv, TypeOK
  <1>2. \/ waiting = {} /\ children' = kids /\ turns' = turns
        \/ \E t \in waiting : Fail(t, kids, TRUE)
    BY DEF StdoutEnds
  <1> HIDE DEF kids
  <1>3. CASE waiting = {} /\ children' = kids /\ turns' = turns
    <2>1. \A d \in Turns \ {c} : children'[d] = children[d]
      BY <1>1, <1>3 DEF kids
    <2>2. ASSUME NEW t \in Turns, turns'[t].pc = "prompt" PROVE ~children'[turns'[t].child].closed
      <3>1. Active(t) /\ turns[t].pc = "prompt"
        BY <1>3, <2>2 DEF Active, Working
      <3>2. turns[t].child \in Turns \ {c}
        BY <1>3, <3>1, ChildOfTurn
      <3> QED BY <1>3, <2>1, <3>1, <3>2 DEF PromptIsHeard
    <2> QED BY <2>2 DEF PromptIsHeard
  <1>4. CASE \E t \in waiting : Fail(t, kids, TRUE)
    <2>1. PICK t \in Turns : turns[t].pc \in {"boot", "prompt"} /\ Fail(t, kids, TRUE)
      BY <1>4
    <2>2. Active(t)
      BY <2>1 DEF Active, Working
    <2> QED BY <1>1, <2>1, <2>2, FailStops, NoPromptLeft
  <1> QED BY <1>2, <1>3, <1>4

\* The exit fails the turn that waits; it closes no connection.
LEMMA ExitIsHeard ==
  ASSUME AcpInv, PromptIsHeard, NEW c \in Turns, Exit(c)
  PROVE  PromptIsHeard'
  <1> DEFINE k == [children[c] EXCEPT !.seen = TRUE]
             kids == [children EXCEPT ![c] = k]
  <1>1. turns \in [Turns -> Turn] /\ children \in [Turns -> Child] /\ children[c] \in Child
    BY DEF AcpInv, TypeOK
  <1>2. \/ children' = kids /\ turns' = turns
        \/ \E t \in Turns : turns[t].pc = "prompt" /\ Fail(t, kids, FALSE)
    BY DEF Exit
  <1>3. \A d \in Turns : kids[d].closed = children[d].closed
    BY <1>1 DEF Child
  <1> HIDE DEF kids
  <1>4. CASE children' = kids /\ turns' = turns
    <2>1. ASSUME NEW t \in Turns, turns[t].pc = "prompt" PROVE turns[t].child \in Turns
      BY <2>1, ChildOfTurn DEF Active, Working
    <2> QED BY <1>3, <1>4, <2>1 DEF PromptIsHeard
  <1>5. CASE \E t \in Turns : turns[t].pc = "prompt" /\ Fail(t, kids, FALSE)
    <2>1. PICK t \in Turns : turns[t].pc = "prompt" /\ Fail(t, kids, FALSE)
      BY <1>5
    <2>2. Active(t)
      BY <2>1 DEF Active, Working
    <2> QED BY <1>1, <2>1, <2>2, FailStops, NoPromptLeft
  <1> QED BY <1>2, <1>4, <1>5

\* awaitAcpPromptTurn, onChildGone and the connection's end: nobody waits for an answer on a
\* connection that is closed, which would never end.  Where a child's exit came before the
\* prompt went out, the end of its stdout is still to come.
THEOREM PromptsAreHeard == Spec => []PromptIsHeard
  <1>1. Init => PromptIsHeard
    BY DEF Init, PromptIsHeard, Rest
  <1>2. AcpInv /\ PromptIsHeard /\ [Next]_vars => PromptIsHeard'
    <2> SUFFICES ASSUME AcpInv, PromptIsHeard, [Next]_vars PROVE PromptIsHeard'
      OBVIOUS
    <2>0. turns \in [Turns -> Turn] /\ children \in [Turns -> Child]
      BY DEF AcpInv, TypeOK
    <2>1. ASSUME NEW t \in Turns, NEW ctx, NEW m, Refuse(t, ctx, m) PROVE PromptIsHeard'
      <3>1. turns' = [turns EXCEPT ![t] = Rest("refused")] /\ children' = children
        BY <2>1 DEF Refuse
      <3>2. \A u \in Turns : turns'[u].pc = "prompt" => turns'[u] = turns[u]
        BY <2>0, <3>1 DEF Rest
      <3> QED BY <3>1, <3>2 DEF PromptIsHeard
    <2>2. ASSUME NEW t \in Turns, NEW ctx, NEW m, NEW g, Launch(t, ctx, m, g) \/ Reuse(t, ctx, m, g)
          PROVE  PromptIsHeard'
      <3> DEFINE r(p, c) == [turns[t] EXCEPT !.pc = p, !.ctx = ctx, !.child = c]
      <3>1. ~inFlight
        BY <2>2 DEF Launch, Reuse, Occupied
      <3>2. \/ turns' = [turns EXCEPT ![t] = Rest("over")]
            \/ turns' = [turns EXCEPT ![t] = r("boot", t)]
            \/ turns' = [turns EXCEPT ![t] = r("hook", current)]
        BY <2>2 DEF Launch, Reuse
      <3>3. turns[t] \in Turn
        BY <2>0
      <3>4. r("boot", t).pc = "boot" /\ r("hook", current).pc = "hook"
        BY <3>3 DEF Turn
      <3> HIDE DEF r
      <3>5. turns'[t].pc # "prompt" /\ \A u \in Turns \ {t} : turns'[u] = turns[u]
        BY <2>0, <3>2, <3>4 DEF Rest
      <3> QED BY <3>1, <3>5, NoPromptLeft
    <2>3. ASSUME NEW t \in Turns, Abort(t) PROVE PromptIsHeard'
      <3> DEFINE r == [turns[t] EXCEPT !.aborted = TRUE]
      <3>1. turns' = [turns EXCEPT ![t] = r] /\ children' = children
        BY <2>3 DEF Abort
      <3>2. turns[t] \in Turn
        BY <2>0
      <3>3. r.pc = turns[t].pc /\ r.child = turns[t].child
        BY <3>2 DEF Turn
      <3> HIDE DEF r
      <3>4. \A u \in Turns : turns'[u].pc = turns[u].pc /\ turns'[u].child = turns[u].child
        BY <2>0, <3>1, <3>3
      <3> QED BY <3>1, <3>4 DEF PromptIsHeard
    <2>4. ASSUME NEW t \in Turns, BootDone(t) PROVE PromptIsHeard'
      <3> DEFINE r == [turns[t] EXCEPT !.pc = "hook"]
      <3>1. turns' = [turns EXCEPT ![t] = r] /\ Active(t) /\ turns[t] \in Turn
        BY <2>0, <2>4 DEF BootDone, Active, Working
      <3>2. r.pc = "hook"
        BY <3>1 DEF Turn
      <3> HIDE DEF r
      <3>3. turns'[t].pc # "prompt" /\ \A u \in Turns \ {t} : turns'[u] = turns[u]
        BY <2>0, <3>1, <3>2
      <3> QED BY <3>1, <3>3, NoPromptLeft
    <2>5. ASSUME NEW t \in Turns, BootFails(t) \/ Grace(t) PROVE PromptIsHeard'
      <3>1. Active(t) /\ Fail(t, children, FALSE)
        BY <2>5 DEF BootFails, Grace, Active, Working
      <3> QED BY <2>0, <3>1, FailStops, NoPromptLeft
    <2>6. ASSUME NEW t \in Turns, Answer(t) \/ SettleEnds(t) PROVE PromptIsHeard'
      <3>1. Active(t) /\ turns' = [turns EXCEPT ![t] = Rest("over")]
        BY <2>6 DEF Answer, SettleEnds, Active, Working
      <3>2. turns'[t].pc # "prompt" /\ \A u \in Turns \ {t} : turns'[u] = turns[u]
        BY <2>0, <3>1 DEF Rest
      <3> QED BY <3>1, <3>2, NoPromptLeft
    <2>7. ASSUME NEW c \in Turns, Dies(c) PROVE PromptIsHeard'
      <3> DEFINE k == [children[c] EXCEPT !.proc = "dead"]
      <3>1. turns' = turns /\ children' = [children EXCEPT ![c] = k] /\ children[c] \in Child
        BY <2>0, <2>7 DEF Dies
      <3>2. k.closed = children[c].closed
        BY <3>1 DEF Child
      <3> HIDE DEF k
      <3>3. \A d \in Turns : children'[d].closed = children[d].closed
        BY <2>0, <3>1, <3>2
      <3>4. ASSUME NEW t \in Turns, turns[t].pc = "prompt" PROVE turns[t].child \in Turns
        BY <3>4, ChildOfTurn DEF Active, Working
      <3> QED BY <3>1, <3>3, <3>4 DEF PromptIsHeard
    <2>8. CASE UNCHANGED vars
      BY <2>8 DEF vars, PromptIsHeard
    <2> QED BY <2>1, <2>2, <2>3, <2>4, <2>5, <2>6, <2>7, <2>8, HookIsHeard, StdoutIsHeard, ExitIsHeard DEF Next
  <1> QED BY <1>1, <1>2, AcpInvariant, PTL DEF Spec
=============================================================================
