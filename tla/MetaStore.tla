------------------------------ MODULE MetaStore ------------------------------
(***************************************************************************)
(* The meta-record store (lib/meta-session.ts): one file per citizen,      *)
(* <gardenId>.meta.json, which names the native session it stands for.     *)
(* Births certify the whole store and then write, which is no transaction; *)
(* a dispatch turns a record into an address only when it has seen no      *)
(* rival; the fresh cut renames the directory away and opens a new one.    *)
(*                                                                         *)
(* Every process is on its own: an action is one file-system call, or      *)
(* several of which the order does not matter, as said where that is.      *)
(***************************************************************************)
EXTENDS Naturals

CONSTANTS
  Births,      \* calls of upsertMetaSession
  Dispatches,  \* calls of readAddressableMetaIdentity
  Gids,        \* garden ids
  Natives,     \* native session ids
  MaxCuts,     \* bound on fresh cuts
  None

ASSUME StoreConstants == MaxCuts \in Nat /\ None \notin Gids \cup Natives \cup Births

VARIABLES
  open,       \* the directory exists
  store,      \* its records: the native session of each garden id, or None
  gen,        \* how many directories there were
  spent,      \* garden ids of archived records
  births,     \* the writers
  dispatches, \* the readers
  writer,     \* the birth that wrote each record last
  overlaps    \* the pairs of births of which one was under way when the other began

vars == <<open, store, gen, spent, births, dispatches, writer, overlaps>>

\* A birth: what it listed, what it decided, and the generation its temporary file is in.
Birth == [pc : {"idle", "begun", "listed", "decided", "tmp", "done", "failed"},
          native : Natives \cup {None}, list : SUBSET Gids,
          action : {"create", "attach"}, gid : Gids \cup {None}, gen : 0..(MaxCuts + 1)]

\* A dispatch; an address has the generation of the record it was read from, and
\* overtaken says that a cut came before the scan was over.
Dispatch == [pc : {"idle", "own", "listed", "addressed", "refused"},
             gid : Gids \cup {None}, native : Natives \cup {None}, list : SUBSET Gids,
             gen : 0..(MaxCuts + 1), overtaken : BOOLEAN]

TypeOK ==
  /\ open \in BOOLEAN
  /\ store \in [Gids -> Natives \cup {None}]
  /\ gen \in 1..(MaxCuts + 1)
  /\ spent \in SUBSET Gids
  /\ births \in [Births -> Birth]
  /\ dispatches \in [Dispatches -> Dispatch]
  /\ writer \in [Gids -> Births \cup {None}]
  /\ overlaps \in SUBSET (Births \X Births)

\* a call that has not begun, or that threw
BirthAt(pc) == [pc |-> pc, native |-> None, list |-> {}, action |-> "create", gid |-> None, gen |-> 0]
DispatchAt(pc) ==
  [pc |-> pc, gid |-> None, native |-> None, list |-> {}, gen |-> 0, overtaken |-> FALSE]

Init ==
  /\ open = FALSE /\ gen = 1 /\ spent = {} /\ overlaps = {}
  /\ store = [g \in Gids |-> None]
  /\ writer = [g \in Gids |-> None]
  /\ births = [b \in Births |-> BirthAt("idle")]
  /\ dispatches = [d \in Dispatches |-> DispatchAt("idle")]

Records == {g \in Gids : store[g] # None}

-----------------------------------------------------------------------------
(* upsertMetaSession *)

UnderWay == {b \in Births : births[b].pc \in {"begun", "listed", "decided", "tmp"}}

\* the directory is made
Begin(b, n) ==
  /\ births[b].pc = "idle"
  /\ open' = TRUE
  /\ births' = [births EXCEPT ![b].pc = "begun", ![b].native = n]
  /\ overlaps' = overlaps \cup ({b} \X UnderWay) \cup (UnderWay \X {b})
  /\ UNCHANGED <<store, gen, spent, dispatches, writer>>

\* certifyActiveStoreDir lists; no directory is an empty store
List(b) ==
  /\ births[b].pc = "begun"
  /\ births' = [births EXCEPT ![b].pc = "listed", ![b].list = Records]
  /\ UNCHANGED <<open, store, gen, spent, dispatches, writer, overlaps>>

\* The listed records, read one by one: a record that is gone is a defect, and so
\* are two of one native session, whosever it is.  Nothing but a cut removes a record,
\* and that removes them all: the reads can be one step.
Certified(b) ==
  /\ births[b].list \subseteq Records
  /\ \A g, h \in births[b].list : store[g] = store[h] => g = h

\* mutant: the records are not searched for the native session
Existing_Never(b) == {}

Existing(b) == {g \in births[b].list : store[g] = births[b].native}

\* decideUpsert: attach to the record that is there, or mint.  A minted id carries the
\* second and a random suffix: it may be that of a record of this generation.
Decide(b) ==
  /\ births[b].pc = "listed"
  /\ \/ births' = [births EXCEPT ![b] = BirthAt("failed")]  \* a defect, a file that cannot be read, another backend
     \/ /\ Certified(b)
        /\ \E g \in IF Existing(b) # {} THEN Existing(b) ELSE Gids \ spent :
             births' = [births EXCEPT ![b] =
               [@ EXCEPT !.pc = "decided", !.list = {}, !.gid = g,
                         !.action = IF Existing(b) # {} THEN "attach" ELSE "create"]]
  /\ UNCHANGED <<open, store, gen, spent, dispatches, writer, overlaps>>

\* the temporary file beside the record; without the directory the write fails
WriteTmp(b) ==
  /\ births[b].pc = "decided"
  /\ \/ births' = [births EXCEPT ![b] = BirthAt("failed")]
     \/ open /\ births' = [births EXCEPT ![b].pc = "tmp", ![b].gen = gen]
  /\ UNCHANGED <<open, store, gen, spent, dispatches, writer, overlaps>>

\* mutant: a new record is renamed into place like an old one
Free_Always(g) == TRUE

\* link(2) refuses a path that exists
Free(g) == store[g] = None

\* publishExclusiveIdentity links, atomicWriteIdentity renames: the temporary file must
\* still be in the directory.  A create whose clean-up fails then has published all the
\* same.  An id of an archived record is not minted again.
Publish(b) ==
  LET u == births[b] IN
  /\ u.pc = "tmp"
  /\ \/ /\ births' = [births EXCEPT ![b] = BirthAt("failed")]
        /\ UNCHANGED <<store, writer>>
     \/ /\ open /\ u.gen = gen
        /\ u.action = "create" => Free(u.gid) /\ u.gid \notin spent
        /\ store' = [store EXCEPT ![u.gid] = u.native]
        /\ writer' = [writer EXCEPT ![u.gid] = b]
        /\ \/ births' = [births EXCEPT ![b].pc = "done"]
           \/ u.action = "create" /\ births' = [births EXCEPT ![b] = BirthAt("failed")]
  /\ UNCHANGED <<open, gen, spent, dispatches, overlaps>>

\* the process is killed
Crash(b) ==
  /\ b \in UnderWay
  /\ births' = [births EXCEPT ![b] = BirthAt("failed")]
  /\ UNCHANGED <<open, store, gen, spent, dispatches, writer, overlaps>>

-----------------------------------------------------------------------------
(* readAddressableMetaIdentity *)

\* readMetaIdentityByGardenId: the record of the id itself comes first
ReadOwn(d, g) ==
  /\ dispatches[d].pc = "idle"
  /\ dispatches' = IF store[g] = None
                   THEN [dispatches EXCEPT ![d] = DispatchAt("refused")]
                   ELSE [dispatches EXCEPT ![d].pc = "own", ![d].gid = g, ![d].native = store[g],
                                           ![d].gen = gen]
  /\ UNCHANGED <<open, store, gen, spent, births, writer, overlaps>>

\* readActiveStoreEntries
ListRivals(d) ==
  /\ dispatches[d].pc = "own"
  /\ dispatches' = [dispatches EXCEPT ![d].pc = "listed", ![d].list = Records]
  /\ UNCHANGED <<open, store, gen, spent, births, writer, overlaps>>

\* mutant: the record alone is enough
Rivals_None(d) == {}

\* nativeSessionIdRivals: a listed record that is gone holds nothing
Rivals(d) == {g \in dispatches[d].list \ {dispatches[d].gid} : store[g] = dispatches[d].native}

\* A rival refuses the address, and so does a record that cannot be read.
Scan(d) ==
  /\ dispatches[d].pc = "listed"
  /\ \/ dispatches' = [dispatches EXCEPT ![d] = DispatchAt("refused")]
     \/ /\ Rivals(d) = {}
        /\ dispatches' = [dispatches EXCEPT ![d].pc = "addressed", ![d].list = {},
                                            ![d].overtaken = (gen # dispatches[d].gen)]
  /\ UNCHANGED <<open, store, gen, spent, births, writer, overlaps>>

-----------------------------------------------------------------------------
(* meta-bridge-fresh-cut.ts *)

\* Its gates look for live owners, and a birth under way is none yet: the directory is
\* renamed away as it is, if it holds anything.
Cut ==
  /\ gen <= MaxCuts /\ Records # {}
  /\ open' = FALSE
  /\ gen' = gen + 1
  /\ spent' = spent \cup Records
  /\ store' = [g \in Gids |-> None]
  /\ writer' = [g \in Gids |-> None]
  /\ UNCHANGED <<births, dispatches, overlaps>>

\* it opens the fresh generation
Reopen ==
  /\ ~open /\ gen > 1
  /\ open' = TRUE
  /\ UNCHANGED <<store, gen, spent, births, dispatches, writer, overlaps>>

-----------------------------------------------------------------------------

Next ==
  \/ \E b \in Births :
       \/ \E n \in Natives : Begin(b, n)
       \/ List(b) \/ Decide(b) \/ WriteTmp(b) \/ Publish(b) \/ Crash(b)
  \/ \E d \in Dispatches :
       \/ \E g \in Gids : ReadOwn(d, g)
       \/ ListRivals(d) \/ Scan(d)
  \/ Cut \/ Reopen

Spec == Init /\ [][Next]_vars

-----------------------------------------------------------------------------
(* Properties *)

Addressed == {d \in Dispatches : dispatches[d].pc = "addressed" /\ ~dispatches[d].overtaken}

\* Two births may mint two ids for one native session, but no generation ever gives it
\* two addresses: of two dispatches that got through, the later would have seen the
\* other's record.  (A cut between a dispatch's own read and its scan hides the rivals.)
OneAddress ==
  \A c, d \in Addressed :
    (/\ dispatches[c].gen = dispatches[d].gen
     /\ dispatches[c].native = dispatches[d].native) => dispatches[c].gid = dispatches[d].gid

\* Births one after another never mint twice, whatever failed in between: two records of
\* one native session were written by births that overlapped.
TwinsOverlapped ==
  \A g, h \in Records : store[g] = store[h] /\ g # h => <<writer[g], writer[h]>> \in overlaps

\* A birth that was told of its success has its record under its id, for as long as the
\* generation lasts: no later birth, and no colliding id, takes the file over.
BornIsRecorded ==
  \A b \in Births : births[b].pc = "done" /\ births[b].gen = gen => store[births[b].gid] = births[b].native

-----------------------------------------------------------------------------
(* Why they hold: an inductive invariant. *)

Attaching(b) == births[b].pc \in {"decided", "tmp"} /\ births[b].action = "attach"

\* Every call knows its native session and its generation, and what it decided.
CallInv ==
  /\ \A b \in Births :
       /\ births[b].pc \notin {"idle", "failed"} => births[b].native \in Natives
       /\ births[b].pc \in {"decided", "tmp", "done"} => births[b].gid \in Gids
       /\ births[b].gen <= gen
  /\ \A d \in Dispatches :
       /\ dispatches[d].pc \notin {"idle", "refused"} =>
            dispatches[d].native \in Natives /\ dispatches[d].gid \in Gids
       /\ dispatches[d].gen <= gen

\* An id means one native session: the births that attach to it agree with its record,
\* and only a cut can have taken the record away.
AttachInv ==
  \A b \in Births : Attaching(b) =>
    /\ \/ store[births[b].gid] = births[b].native
       \/ store[births[b].gid] = None /\ births[b].gid \in spent
    /\ \A c \in Births : Attaching(c) /\ births[c].gid = births[b].gid =>
                           births[c].native = births[b].native

\* Births under way overlap, and so does a birth with the writer of every record it has
\* not listed, or could not have attached to.
OverlapInv ==
  /\ \A b, c \in UnderWay : b # c => <<b, c>> \in overlaps
  /\ \A b, c \in Births : <<b, c>> \in overlaps => <<c, b>> \in overlaps
  /\ \A b \in Births, h \in Records :
       \/ births[b].pc = "listed" /\ h \notin births[b].list
       \/ /\ births[b].pc \in {"decided", "tmp"}
          /\ h # births[b].gid /\ store[h] = births[b].native
       => <<b, writer[h]>> \in overlaps

\* A record that was read stays while its generation lasts, and of two dispatches that
\* have listed, or got through, the later has listed the record of the other.
AddressInv ==
  /\ \A d \in Dispatches :
       dispatches[d].pc \in {"own", "listed", "addressed"} /\ dispatches[d].gen = gen =>
         store[dispatches[d].gid] = dispatches[d].native
  /\ \A c, d \in Dispatches :
       /\ c \in Addressed \/ dispatches[c].pc = "listed"
       /\ dispatches[d].pc = "listed"
       /\ dispatches[c].gen = gen /\ dispatches[d].gen = gen
       /\ dispatches[c].native = dispatches[d].native
       /\ dispatches[c].gid # dispatches[d].gid
       => \/ dispatches[c].gid \in dispatches[d].list
          \/ dispatches[c].pc = "listed" /\ dispatches[d].gid \in dispatches[c].list

StoreInv ==
  /\ TypeOK
  /\ CallInv
  /\ AttachInv
  /\ OverlapInv
  /\ AddressInv
  /\ OneAddress
  /\ TwinsOverlapped
  /\ BornIsRecorded
=============================================================================
