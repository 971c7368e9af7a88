----------------------------- MODULE EntityState ----------------------------
(***************************************************************************)
(* Transitions, assignments and effects of one component at work on the    *)
(* same storage (runtime/core State, Entity, Changeset, Transition,        *)
(* Assignment, Effect over storages.mongodb Storage).  Every call goes     *)
(* through acquire, run and commit, each of them an await; calls run in    *)
(* any number of processes, any of which may die between two steps.        *)
(***************************************************************************)
EXTENDS EntityData

CONSTANT
    Retries      \* RETRY.retries of transition.js

ASSUME RetriesAssumption == Retries \in Nat

VARIABLES
    db,       \* the collection: id -> record (Blank: no document)
    job,      \* job of each call
    pc,       \* where each call is
    scope,    \* store.scope of each call: id, #origin and #state
    attempt,  \* attempt number of retry()
    reply,    \* what the caller got
    events,   \* events handed to the emission
    log       \* ghost: every write the storage accepted

vars == <<db, job, pc, scope, attempt, reply, events, log>>

NoScope == [key |-> None, origin |-> None, state |-> Blank]
Scope == [key : Ids \cup {None}, origin : Rec \cup {None}, state : Rec]

Refusals == {"error", "notFound", "precondition", "concurrency", "exhausted",
             "duplicate"}
Replies == {"ok", "exception"} \cup Refusals

ASSUME RepliesAssumption == None \notin Replies

\* Where a call is while it has not come to an end.
Busy == {"acquire", "run", "store", "emit"}

TypeOK ==
    /\ db \in [Ids -> Rec]
    /\ job \in [Calls -> Jobs \cup {None}]
    /\ pc \in [Calls -> Busy \cup {"idle", "done", "lost"}]
    /\ scope \in [Calls -> Scope]
    /\ attempt \in [Calls -> 0..Retries]
    /\ reply \in [Calls -> Replies \cup {None}]
    /\ events \subseteq [call : Calls, key : Ids, op : Operations,
                         origin : Rec \cup {None}, state : Rec]
    /\ log \subseteq [call : Calls \cup {None}, key : Ids, rec : Rec]

Init ==
    /\ Stored(db)
    /\ job = [c \in Calls |-> None]
    /\ pc = [c \in Calls |-> "idle"]
    /\ scope = [c \in Calls |-> NoScope]
    /\ attempt = [c \in Calls |-> 0]
    /\ reply = [c \in Calls |-> None]
    /\ events = {}
    /\ log = {[call |-> None, key |-> k, rec |-> db[k]] :
                k \in {i \in Ids : Exists(db[i])}}

-----------------------------------------------------------------------------
Goto(c, label) == pc' = [pc EXCEPT ![c] = label]

Answer(c, r) == Goto(c, "done") /\ reply' = [reply EXCEPT ![c] = r]

\* A call ends with r and leaves nothing behind.
Refuse(c, r) ==
    /\ Answer(c, r)
    /\ UNCHANGED <<db, job, scope, attempt, events, log>>

\* The storage replaces the document k by r on behalf of c.
Write(c, k, r) ==
    /\ db' = [db EXCEPT ![k] = r]
    /\ log' = log \cup {[call |-> c, key |-> k, rec |-> r]}

Doing(c, label, op) == pc[c] = label /\ job[c].op = op

\* Operation.invoke: the request is accepted and its query parsed.
Accept(c) ==
    /\ pc[c] = "idle"
    /\ \E j \in Jobs : job' = [job EXCEPT ![c] = j]
    /\ Goto(c, "acquire")
    /\ UNCHANGED <<db, scope, attempt, reply, events, log>>

-----------------------------------------------------------------------------
(* Transition *)

HoldStale(c, k, origin, state) ==    \* faulty: a retry keeps the old origin
    /\ scope' = [scope EXCEPT ![c] =
                    [key |-> k, state |-> state,
                     origin |-> IF attempt[c] = 0 THEN origin ELSE @.origin]]
    /\ Goto(c, "run")
    /\ UNCHANGED <<db, job, attempt, reply, events, log>>

Hold(c, k, origin, state) ==
    /\ scope' = [scope EXCEPT ![c] =
                    [key |-> k, origin |-> origin, state |-> state]]
    /\ Goto(c, "run")
    /\ UNCHANGED <<db, job, attempt, reply, events, log>>

AcquireDeletedToo(c, k) ==    \* faulty: the deletion mark is not looked at
    /\ Doing(c, "acquire", "transit")
    /\ job[c].query # None
    /\ Matches(job[c].query, k, db[k])
    /\ Hold(c, k, db[k], db[k])

\* State.object: some document that satisfies the query is read.
AcquireObject(c, k) ==
    /\ Doing(c, "acquire", "transit")
    /\ job[c].query # None
    /\ Matches(job[c].query, k, db[k])
    /\ ~ db[k].deleted
    /\ Hold(c, k, db[k], db[k])

Missing(q) == \A k \in Ids : ~ Matches(q, k, db[k])

\* An associated entity is initialised under the id it is asked for.
AcquireImplied(c, k) ==
    /\ Doing(c, "acquire", "transit")
    /\ job[c].query # None
    /\ Missing(job[c].query)
    /\ Implied(job[c].query)
    /\ k = job[c].query.id
    /\ Hold(c, k, None, Blank)

\* Without a query a new id is generated.
AcquireNew(c) ==
    /\ Doing(c, "acquire", "transit")
    /\ job[c].query = None
    /\ Hold(c, c, None, Blank)

NoObject(q) == IF q.version # None THEN "precondition" ELSE "notFound"

AcquireRefused(c) ==
    /\ Doing(c, "acquire", "transit")
    /\ job[c].query # None
    /\ \/ \E k \in Ids : /\ Matches(job[c].query, k, db[k])
                         /\ db[k].deleted
                         /\ Refuse(c, "notFound")
       \/ /\ Missing(job[c].query)
          /\ ~ Implied(job[c].query)
          /\ Refuse(c, NoObject(job[c].query))

\* The algorithm changes its copy; Entity.set then counts the version up.
Run(c) ==
    /\ Doing(c, "run", "transit")
    /\ \E s \in Slugs, d \in BOOLEAN :
        scope' = [scope EXCEPT ![c].state =
                    [version |-> @.version + 1, deleted |-> d, slug |-> s,
                     writers |-> @.writers \cup {c}]]
    /\ Goto(c, "store")
    /\ UNCHANGED <<db, job, attempt, reply, events, log>>

\* The algorithm throws, replies with an error, or its state does not fit.
RunRefused(c) == Doing(c, "run", "transit") /\ Refuse(c, "error")

CurrentUnversioned(c) ==    \* faulty: replaced by id alone
    IF scope[c].state.version = 1
    THEN ~ Exists(db[scope[c].key])
    ELSE Exists(db[scope[c].key])

\* Storage.store: version 1 is inserted, any other replaces its predecessor.
Current(c) ==
    LET s == scope[c]
        stored == db[s.key]
    IN  IF s.state.version = 1
        THEN ~ Exists(stored)
        ELSE Exists(stored) /\ stored.version = s.state.version - 1

Store(c) ==
    /\ Doing(c, "store", "transit")
    /\ Current(c)
    /\ ~ Clash(db, scope[c].key, scope[c].state.slug)
    /\ Write(c, scope[c].key, scope[c].state)
    /\ Goto(c, "emit")
    /\ UNCHANGED <<job, scope, attempt, reply, events>>

StoreDuplicate(c) ==
    /\ Doing(c, "store", "transit")
    /\ Current(c)
    /\ Clash(db, scope[c].key, scope[c].state.slug)
    /\ Refuse(c, "duplicate")

ConflictUnchecked(c) ==    \* faulty: the attempts are not compared to the limit
    /\ Doing(c, "store", "transit")
    /\ ~ Current(c)
    /\ job[c].retry
    /\ attempt' = [attempt EXCEPT ![c] = @ + 1]
    /\ Goto(c, "acquire")
    /\ UNCHANGED <<db, job, scope, reply, events, log>>

\* The document has changed since it was read: begin anew, from acquire.
Conflict(c) ==
    /\ Doing(c, "store", "transit")
    /\ ~ Current(c)
    /\ job[c].retry
    /\ attempt[c] # Retries
    /\ attempt' = [attempt EXCEPT ![c] = @ + 1]
    /\ Goto(c, "acquire")
    /\ UNCHANGED <<db, job, scope, reply, events, log>>

ConflictIgnored(c) ==    \* faulty: nobody is told that the attempts are over
    /\ Doing(c, "store", "transit")
    /\ ~ Current(c)
    /\ ~ job[c].retry
    /\ Refuse(c, "concurrency")

ConflictRefused(c) ==
    /\ Doing(c, "store", "transit")
    /\ ~ Current(c)
    /\ \/ ~ job[c].retry /\ Refuse(c, "concurrency")
       \/ job[c].retry /\ attempt[c] = Retries /\ Refuse(c, "exhausted")

-----------------------------------------------------------------------------
(* Assignment *)

\* Storage.upsert: $set of the changeset and $inc of the version.
PatchedSameVersion(r, c, s, d) ==    \* faulty: no $inc
    [version |-> r.version, deleted |-> d, slug |-> s,
     writers |-> r.writers \cup {c}]

Patched(r, c, s, d) ==
    [version |-> r.version + 1, deleted |-> d, slug |-> s,
     writers |-> r.writers \cup {c}]

\* Acquire and run touch nothing but the call's own changeset, which replaces
\* the slug or leaves it alone; Storage.upsert applies it to the document in
\* one step.  A changeset that does not delete undeletes.
Assign(c, k) ==
    /\ Doing(c, "acquire", "assign")
    /\ Matches(job[c].query, k, db[k])
    /\ \E s \in Slugs \cup {db[k].slug}, d \in BOOLEAN :
        LET r == Patched(db[k], c, s, d)
        IN  /\ ~ Clash(db, k, s)
            /\ Write(c, k, r)
            /\ scope' = [scope EXCEPT ![c] =
                            [key |-> k, origin |-> None, state |-> r]]
    /\ Goto(c, "emit")
    /\ UNCHANGED <<job, attempt, reply, events>>

AssignRefused(c) ==
    /\ Doing(c, "acquire", "assign")
    /\ \/ Refuse(c, "error")
       \/ Missing(job[c].query) /\ Refuse(c, NoObject(job[c].query))
       \/ \E k \in Ids, s \in Slugs :
            /\ Matches(job[c].query, k, db[k])
            /\ Clash(db, k, s)
            /\ Refuse(c, "error")

-----------------------------------------------------------------------------
(* Effect with an entity *)

\* Storage.ensure inserts the initial state unless a document is found.
Ensure(c) ==
    /\ Doing(c, "acquire", "ensure")
    /\ Missing(job[c].query)
    /\ LET r == [version |-> 1, deleted |-> FALSE,
                 slug |-> job[c].query.slug, writers |-> {c}]
       IN  /\ Write(c, c, r)
           /\ scope' = [scope EXCEPT ![c] =
                            [key |-> c, origin |-> None, state |-> r]]
    /\ Goto(c, "emit")
    /\ UNCHANGED <<job, attempt, reply, events>>

\* The document exists.  For a deleted one Storage.ensure returns null, which
\* State.ensure dereferences.
EnsureFound(c) ==
    /\ Doing(c, "acquire", "ensure")
    /\ \E k \in Ids :
        /\ Matches(job[c].query, k, db[k])
        /\ Answer(c, IF db[k].deleted THEN "exception" ELSE "ok")
    /\ UNCHANGED <<db, job, scope, attempt, events, log>>

-----------------------------------------------------------------------------
EmitCommitted(c) ==    \* faulty: only State.commit emits
    /\ pc[c] = "emit"
    /\ events' = IF job[c].op # "transit" THEN events
                 ELSE events \cup
                    {[call |-> c, key |-> scope[c].key, op |-> job[c].op,
                      origin |-> scope[c].origin, state |-> scope[c].state]}
    /\ Answer(c, "ok")
    /\ UNCHANGED <<db, job, scope, attempt, log>>

\* State.commit, .apply and .ensure emit after the storage has answered.
Emit(c) ==
    /\ pc[c] = "emit"
    /\ events' = events \cup
        {[call |-> c, key |-> scope[c].key, op |-> job[c].op,
          origin |-> scope[c].origin, state |-> scope[c].state]}
    /\ Answer(c, "ok")
    /\ UNCHANGED <<db, job, scope, attempt, log>>

EmitFailedAgain(c) ==    \* faulty: the operation is run again
    /\ pc[c] = "emit"
    /\ Goto(c, "acquire")
    /\ UNCHANGED <<db, job, scope, attempt, reply, events, log>>

EmitFailedRefused(c) ==    \* faulty: taken for a conflict
    /\ pc[c] = "emit"
    /\ Refuse(c, "concurrency")

\* A condition, a payload or an emitter throws: the write remains.
EmitFailed(c) ==
    /\ pc[c] = "emit"
    /\ Answer(c, "exception")
    /\ UNCHANGED <<db, job, scope, attempt, events, log>>

\* The process that runs the call dies.
Crash(c) ==
    /\ pc[c] \in Busy
    /\ Goto(c, "lost")
    /\ UNCHANGED <<db, job, scope, attempt, reply, events, log>>

-----------------------------------------------------------------------------
Step(c) ==
    \/ \E k \in Ids : AcquireObject(c, k) \/ AcquireImplied(c, k) \/ Assign(c, k)
    \/ AcquireNew(c) \/ AcquireRefused(c)
    \/ Run(c) \/ RunRefused(c)
    \/ Store(c) \/ StoreDuplicate(c) \/ Conflict(c) \/ ConflictRefused(c)
    \/ AssignRefused(c)
    \/ Ensure(c) \/ EnsureFound(c)
    \/ Emit(c) \/ EmitFailed(c)

Next == \E c \in Calls : Accept(c) \/ Step(c) \/ Crash(c)

Spec == Init /\ [][Next]_vars

\* Node's event loop and the database driver run every pending await; a
\* caller may never call and a process may always die.
FairSpec == Spec /\ \A c \in Calls : WF_vars(Step(c))

-----------------------------------------------------------------------------
(* Properties *)

\* No lost update: whatever the storage has accepted from a call is still in
\* the record, however transitions (replace the whole document, transition.js
\* commit), assignments (patch it, State.apply) and retries interleave.
NoLostUpdate ==
    \A a \in log : a.call # None => a.call \in db[a.key].writers

\* A call writes at most once, its retries, refusals and failed emissions
\* included (retry.js runs the whole operation again).
WritesOnce ==
    \A a, b \in log : a.call # None /\ a.call = b.call => a = b

\* A version names one state of a record, which is what an ETag / If-Match
\* exchange relies on: no two writes ever produce the same version of an id.
VersionNamesState ==
    \A a, b \in log :
        a.key = b.key /\ a.rec.version = b.rec.version => a.rec = b.rec

\* An event tells what happened: its state is a write that was accepted, and
\* the origin a transition's changeset is computed against (Entity.event) is
\* the record that this very write replaced, retried or not.
EventsFaithful ==
    \A e \in events :
        /\ [call |-> e.call, key |-> e.key, rec |-> e.state] \in log
        /\ e.op = "transit" =>
            IF e.origin = None
            THEN e.state.version = 1
            ELSE /\ e.state.version = e.origin.version + 1
                 /\ \E a \in log : a.key = e.key /\ a.rec = e.origin

\* A refused call has changed nothing, and a commit that is answered has had
\* its event emitted.
AnswersTruthful ==
    \A c \in Calls :
        /\ reply[c] \in Refusals => \A a \in log : a.call # c
        /\ reply[c] = "ok" /\ job[c].op # "ensure" =>
            /\ \E a \in log : a.call = c
            /\ \E e \in events : e.call = c

\* Writes without an event are those of a call that is about to emit, that
\* died on the way to it, or whose emission threw: nothing else is silent.
SilentWrites ==
    \A a \in log :
        \/ a.call = None
        \/ \E e \in events : e.call = a.call
        \/ pc[a.call] \in {"emit", "lost"}
        \/ reply[a.call] = "exception"

\* The promise of AtomicEntity: every write is the atomic effect of its call
\* on the record it finds, under the call's query (id, criteria and version),
\* although the code reads, computes and replaces in three steps.
Atomic == INSTANCE AtomicEntity
            WITH recs <- db, done <- {c \in Calls : \E a \in log : a.call = c}
AtomicSpec == Atomic!Spec

\* A terminated record comes back by an assignment and nothing else, even if
\* it is terminated between a transition's read and its commit.
OnlyAssignRevives ==
    [][\A k \in Ids :
        db[k].deleted /\ db'[k] # db[k] =>
            \E c \in db'[k].writers \ db[k].writers : job[c].op = "assign"]_vars

\* A call that was accepted is answered unless its process dies: retrying
\* ends after `retries` attempts.
Answered ==
    \A c \in Calls : pc[c] = "acquire" ~> pc[c] \in {"done", "lost"}

=============================================================================
