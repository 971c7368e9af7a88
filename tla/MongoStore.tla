----------------------------- MODULE MongoStore -----------------------------
(***************************************************************************)
(* A collection of MongoDB as the processes of a component use it          *)
(* (storages.mongodb Storage): open() creates the declared indexes and     *)
(* drops the others, store() writes a record and tries again for as long   *)
(* as the server refuses connections.                                      *)
(***************************************************************************)
EXTENDS Naturals, FiniteSets

CONSTANTS
    Processes,      \* processes that run the component
    Declared,       \* indexes declared by the component they run
    Obsolete,       \* indexes left in the collection by an earlier version
    Unique,         \* the declared index that is unique, over one property
    Writers,        \* calls of store()
    ProcessOf,      \* the process of each of them
    Documents,      \* ids
    Values,         \* values of the unique property
    MaxVersion,     \* bounds the versions of a record
    MaxOutages,     \* bounds how often the server goes down
    Nobody

ASSUME MongoStoreAssumption ==
    /\ Unique \in Declared
    /\ ProcessOf \in [Writers -> Processes]
    /\ Nobody \notin Writers /\ Nobody \notin {"true", "false", "duplicate", "error"}
    /\ Documents # {} /\ Values # {}
    /\ MaxVersion \in Nat /\ MaxOutages \in Nat

VARIABLES
    up,           \* the server accepts connections
    outages,
    indexes,      \* the collection's indexes
    boot,         \* [step, left] of the open() of each process
    docs,         \* the collection: id -> [version, value, by]
    writing       \* [step, id, version, value, reply] of each store()

storeVars == <<up, outages, indexes, boot, docs, writing>>

Boot == [step : {"down", "creating", "listing", "dropping", "open", "failed"},
         left : SUBSET (Declared \cup Obsolete)]
Replies == {"true", "false", "duplicate", "error"}
Writing == [step : {"idle", "trying", "waiting", "done"},
            id : Documents, version : 0..MaxVersion, value : Values,
            reply : Replies \cup {Nobody}]

\* A document written by nobody is not in the collection.
Present(d) == docs[d].by # Nobody

StoreTyped ==
    /\ up \in BOOLEAN /\ outages \in 0..MaxOutages
    /\ indexes \subseteq Declared \cup Obsolete
    /\ boot \in [Processes -> Boot]
    /\ docs \in [Documents -> [version : 0..MaxVersion, value : Values,
                               by : Writers \cup {Nobody}]]
    /\ writing \in [Writers -> Writing]

Blank == [version |-> 0, value |-> CHOOSE v \in Values : TRUE, by |-> Nobody]
NotWriting == [step |-> "idle", id |-> CHOOSE d \in Documents : TRUE, version |-> 0,
               value |-> Blank.value, reply |-> Nobody]

StoreInit ==
    /\ up = TRUE /\ outages = 0
    /\ indexes = Obsolete
    /\ boot = [p \in Processes |-> [step |-> "down", left |-> {}]]
    /\ docs = [d \in Documents |-> Blank]
    /\ writing = [w \in Writers |-> NotWriting]

-----------------------------------------------------------------------------
(* open() *)

Booting(p, step, left) == boot' = [boot EXCEPT ![p] = [step |-> step, left |-> left]]

\* A process starts, or is started again after its open() failed.
Start(p) ==
    /\ boot[p].step \in {"down", "failed"} /\ boot[p].left = {}
    /\ Booting(p, "creating", Declared)
    /\ UNCHANGED <<up, outages, indexes, docs, writing>>

Duplicated == \E d, e \in Documents :
    d # e /\ Present(d) /\ Present(e) /\ docs[d].value = docs[e].value

\* createIndex(): one that is there already is left as it is; a unique one
\* over duplicates fails, with a warning.
CreateIndex(p) ==
    /\ boot[p].step = "creating"
    /\ \E i \in boot[p].left :
        /\ Booting(p, "creating", boot[p].left \ {i})
        /\ indexes' = IF i = Unique /\ Duplicated THEN indexes ELSE indexes \cup {i}
    /\ UNCHANGED <<up, outages, docs, writing>>

\* listIndexes(): those that are not declared are obsolete.  When the listing
\* fails there are none.
ListIndexes(p) ==
    /\ boot[p].step = "creating" /\ boot[p].left = {}
    /\ \/ Booting(p, "dropping", indexes \ Declared)
       \/ Booting(p, "dropping", {})
    /\ UNCHANGED <<up, outages, indexes, docs, writing>>

\* dropIndex(), all of them at once.  The one that another process dropped in
\* between is an error: open() fails while the other calls go on.
DropIndex(p) ==
    /\ boot[p].step = "dropping"
    /\ \E i \in boot[p].left :
        /\ indexes' = indexes \ {i}
        /\ Booting(p, IF i \in indexes THEN "dropping" ELSE "failed",
                   boot[p].left \ {i})
    /\ UNCHANGED <<up, outages, docs, writing>>

\* The other calls of a failed open().
DropRest(p) ==
    /\ boot[p].step = "failed"
    /\ \E i \in boot[p].left :
        /\ indexes' = indexes \ {i}
        /\ Booting(p, "failed", boot[p].left \ {i})
    /\ UNCHANGED <<up, outages, docs, writing>>

Opened(p) ==
    /\ boot[p].step = "dropping" /\ boot[p].left = {}
    /\ Booting(p, "open", {})
    /\ UNCHANGED <<up, outages, indexes, docs, writing>>

-----------------------------------------------------------------------------
(* store() *)

Reply(w, r) == writing' = [writing EXCEPT ![w].step = "done", ![w].reply = r]

\* The entity to be stored was read at some version, or is new.
Call(w) ==
    /\ writing[w].step = "idle"
    /\ boot[ProcessOf[w]].step = "open"
    /\ \E d \in Documents, v \in Values :
        /\ docs[d].version < MaxVersion
        /\ writing' = [writing EXCEPT ![w] =
              [step |-> "trying", id |-> d, version |-> docs[d].version + 1,
               value |-> v, reply |-> Nobody]]
    /\ UNCHANGED <<up, outages, indexes, boot, docs>>

\* insertOne() for version 1, findOneAndReplace() of the version before.
Fits(w) == docs[writing[w].id].version = writing[w].version - 1

Violates(w) ==
    /\ Unique \in indexes
    /\ \E d \in Documents : /\ d # writing[w].id
                            /\ Present(d)
                            /\ docs[d].value = writing[w].value

Written(w) == docs' = [docs EXCEPT ![writing[w].id] =
    [version |-> writing[w].version, value |-> writing[w].value, by |-> w]]

AttemptUnversioned(w) ==    \* faulty: set() replaces by id alone
    /\ writing[w].step = "trying"
    /\ up
    /\ IF ~ Violates(w) THEN Written(w) /\ Reply(w, "true")
       ELSE Reply(w, "duplicate") /\ UNCHANGED docs
    /\ UNCHANGED <<up, outages, indexes, boot>>

\* The write is applied, or refused by the version or by the unique index.
\* A document that is not there cannot be replaced, and one that is there
\* cannot be inserted: the latter is a duplicate key, `_id`.
Attempt(w) ==
    /\ writing[w].step = "trying"
    /\ up
    /\ \/ Fits(w) /\ ~ Violates(w) /\ Written(w) /\ Reply(w, "true")
       \/ ~ Fits(w) /\ Reply(w, "false") /\ UNCHANGED docs
       \/ Fits(w) /\ Violates(w) /\ Reply(w, "duplicate") /\ UNCHANGED docs
    /\ UNCHANGED <<up, outages, indexes, boot>>

\* Any other error is thrown, whether or not the write was applied.
Broken(w) ==
    /\ writing[w].step = "trying"
    /\ up
    /\ \/ UNCHANGED docs
       \/ Fits(w) /\ ~ Violates(w) /\ Written(w)
    /\ Reply(w, "error")
    /\ UNCHANGED <<up, outages, indexes, boot>>

\* ECONNREFUSED: wait a second.  The number of the attempt is not handed on:
\* the limit of ten is never reached.
RefusedConnection(w) ==
    /\ writing[w].step = "trying"
    /\ ~ up
    /\ writing' = [writing EXCEPT ![w].step = "waiting"]
    /\ UNCHANGED <<up, outages, indexes, boot, docs>>

\* The same entity is stored again.
Again(w) ==
    /\ writing[w].step = "waiting"
    /\ writing' = [writing EXCEPT ![w].step = "trying"]
    /\ UNCHANGED <<up, outages, indexes, boot, docs>>

-----------------------------------------------------------------------------
(* The server *)

GoDown ==
    /\ up /\ outages < MaxOutages
    /\ up' = FALSE /\ outages' = outages + 1
    /\ UNCHANGED <<indexes, boot, docs, writing>>

ComeUp ==
    /\ ~ up /\ up' = TRUE
    /\ UNCHANGED <<outages, indexes, boot, docs, writing>>

OpenStore(p) == Start(p) \/ CreateIndex(p) \/ ListIndexes(p) \/ DropIndex(p)
                \/ DropRest(p) \/ Opened(p)
Serve(w) == Attempt(w) \/ Broken(w) \/ RefusedConnection(w) \/ Again(w)

StoreNext ==
    \/ \E p \in Processes : OpenStore(p)
    \/ \E w \in Writers : Call(w) \/ Serve(w)
    \/ GoDown \/ ComeUp

StoreSpec == StoreInit /\ [][StoreNext]_storeVars

-----------------------------------------------------------------------------
\* store() tells the truth: true for a write that is in the history of the
\* record, false and a duplicate only when nothing was written.
\* (`by` names the writer of the current version; a successor has a higher
\* version.)
Truthful ==
    \A w \in Writers : writing[w].step = "done" =>
        LET doc == docs[writing[w].id] IN
        /\ writing[w].reply = "true" =>
              doc.by = w \/ doc.version > writing[w].version
        /\ writing[w].reply \in {"false", "duplicate"} => doc.by # w

\* A version is written once, outages or not: nobody overwrites what it has
\* not read.
NoLostVersion ==
    [][\A d \in Documents : docs'[d] # docs[d] =>
          docs'[d].version = docs[d].version + 1]_docs

\* open() drops no index that the component declares, whichever processes
\* open at the same time.
DeclaredKept == [][Declared \cap indexes \subseteq indexes']_indexes

\* A collection that starts without duplicates never has any: no process
\* stores a record before the unique index is there, and none drops it.
NoDuplicates == ~ Duplicated

\* Every process opens in the end, although of two that drop the same
\* obsolete indexes at once both may fail the first time.
Opens == \A p \in Processes : <>(boot[p].step = "open")

\* A store() that is refused a connection is answered when the server is
\* back: it never gives up.
Answered == \A w \in Writers :
    writing[w].step # "idle" ~> writing[w].step = "done"

\* The storage stays truthful through outages and concurrent processes: its
\* replies are, and no two records break the unique index (storage.js).
StoreTruthful == StoreTyped /\ Truthful /\ NoDuplicates
=============================================================================
