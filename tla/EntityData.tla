----------------------------- MODULE EntityData -----------------------------
(***************************************************************************)
(* The data shared by the specifications of the entity state: records, the *)
(* queries that address them and the jobs (operation calls) that work on   *)
(* them.  A record's body is abstracted to what the properties tell apart: *)
(* its version, the soft-deletion mark, one indexed property ("slug") and  *)
(* the set of calls whose effect the record carries.                       *)
(***************************************************************************)
EXTENDS Naturals

CONSTANTS
    Calls,       \* invocations of the component's operations
    Given,       \* ids that clients choose themselves
    Slugs,       \* values of the indexed property
    Jobs,        \* the jobs a call may carry
    Associated,  \* is the entity declared `associated`?
    Unique,      \* is there a unique index on the slug?
    None         \* undefined / null

ASSUME DataAssumption ==
    /\ Associated \in BOOLEAN
    /\ Unique \in BOOLEAN
    /\ Calls \cap Given = {}
    /\ None \notin Slugs \cup Calls \cup Given \cup Nat

\* newid() never repeats: the id that call c generates is named by c itself.
Ids == Given \cup Calls

Rec == [version : Nat, deleted : BOOLEAN, slug : Slugs \cup {None},
        writers : SUBSET Calls]

ASSUME RecAssumption == None \notin Rec

\* What Entity.#init() builds, and what stands for "no document" in storage.
Blank == [version |-> 0, deleted |-> FALSE, slug |-> None, writers |-> {}]

Exists(r) == r.version > 0

Query == [id : Given \cup {None}, slug : Slugs \cup {None},
          version : Nat \cup {None}]

Operations == {"transit", "assign", "ensure"}

Job == [op : Operations, query : Query \cup {None}, retry : BOOLEAN]

\* Only a transition may come without a query (it then creates an entity); an
\* effect's entity is looked up by its properties.
ASSUME JobsAssumption ==
    /\ Jobs \subseteq Job
    /\ None \notin Job
    /\ None \notin Query
    /\ \A j \in Jobs :
        /\ j.query = None => j.op = "transit"
        /\ j.op = "ensure" => /\ j.query.slug \in Slugs
                              /\ j.query.id = None
                              /\ j.query.version = None

\* Does the document r stored under id k satisfy the query?  Deletion is a mark
\* and no part of the criteria.
Matches(q, k, r) ==
    /\ Exists(r)
    /\ q.id \in {None, k}
    /\ q.slug \in {None, r.slug}
    /\ q.version \in {None, r.version}

\* An associated entity that is asked for by nothing but its id exists
\* implicitly.
Implied(q) ==
    Associated /\ q.id # None /\ q.slug = None /\ q.version = None

\* The unique index, which covers deleted documents too.
Clash(db, k, s) ==
    Unique /\ \E o \in Ids \ {k} : Exists(db[o]) /\ db[o].slug = s

\* An entity at its first version, as an earlier run of the program left it.
First(s) == [version |-> 1, deleted |-> FALSE, slug |-> s, writers |-> {}]

\* What the storage may hold at the start.
Stored(db) ==
    /\ db \in [Ids -> {Blank} \cup {First(s) : s \in Slugs}]
    /\ \A k \in Ids : Exists(db[k]) => k \in Given /\ ~ Clash(db, k, db[k].slug)
=============================================================================
