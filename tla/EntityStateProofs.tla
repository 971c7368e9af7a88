-------------------------- MODULE EntityStateProofs -------------------------
(***************************************************************************)
(* Proofs about EntityState, for any number of calls, ids, slugs, jobs and *)
(* retries.                                                                *)
(***************************************************************************)
EXTENDS EntityState, TLAPS

(* The inductive invariant. *)

\* What the copy a call works on started from.
Base(c) == IF scope[c].origin = None THEN Blank ELSE scope[c].origin

\* A call has a job from when it is accepted.
Accepted(c) == IF pc[c] = "idle" THEN job[c] = None ELSE job[c] \in Jobs

\* A call that may still write has not written.
Unwritten(c) ==
    pc[c] \in {"idle", "acquire", "run", "store"} => \A a \in log : a.call # c

\* A transition holds a copy of a record that satisfied its query and was
\* live, or of none; if the version has not moved on, neither has the record.
Held(c) ==
    pc[c] \in {"run", "store"} =>
        /\ job[c].op = "transit"
        /\ scope[c].key \in Ids
        /\ Base(c).version <= db[scope[c].key].version
        /\ Base(c).version = db[scope[c].key].version
            => Base(c) = db[scope[c].key]
        /\ scope[c].origin # None =>
            /\ job[c].query # None
            /\ Matches(job[c].query, scope[c].key, scope[c].origin)
            /\ ~ scope[c].origin.deleted
        /\ scope[c].origin = None =>
            \/ /\ job[c].query # None
               /\ Implied(job[c].query)
               /\ scope[c].key = job[c].query.id
            \/ job[c].query = None /\ scope[c].key = c

\* The copy is what was read, then what was read with the call on top.
Computed(c) ==
    /\ pc[c] = "run" => scope[c].state = Base(c)
    /\ pc[c] = "store" =>
        /\ scope[c].state.version = Base(c).version + 1
        /\ scope[c].state.writers = Base(c).writers \cup {c}
        /\ scope[c].state.slug \in Slugs

\* What is about to be announced has been written.
Announcing(c) ==
    pc[c] = "emit" =>
        [call |-> c, key |-> scope[c].key, rec |-> scope[c].state] \in log

\* No write is ahead of the record, and the last one is the record.
Logged ==
    \A a \in log :
        /\ Exists(a.rec)
        /\ a.rec.version <= db[a.key].version
        /\ a.rec.version = db[a.key].version => a.rec = db[a.key]

\* No document is nothing but no document, and a generated id comes to
\* existence by a write of its own call.
Documents ==
    /\ \A k \in Ids : ~ Exists(db[k]) => db[k] = Blank
    /\ \A c \in Calls : Exists(db[c]) => \E a \in log : a.call = c

Own(c) ==
    Accepted(c) /\ Unwritten(c) /\ Held(c) /\ Computed(c) /\ Announcing(c)

Shared == Logged /\ Documents /\ NoLostUpdate /\ VersionNamesState

IInv == TypeOK /\ (\A c \in Calls : Own(c)) /\ Shared

-----------------------------------------------------------------------------
(* What a step of one call does to the rest. *)

\* A step of c leaves the other calls alone.
Others(c) ==
    \A d \in Calls \ {c} :
        job'[d] = job[d] /\ pc'[d] = pc[d] /\ scope'[d] = scope[d]

\* c, which has not written yet, puts the successor of db[k] in its place.
Advances(c, k, r) ==
    /\ Write(c, k, r)
    /\ k \in Ids
    /\ r \in Rec
    /\ r.version = db[k].version + 1
    /\ r.writers = db[k].writers \cup {c}
    /\ \A a \in log : a.call # c
    /\ k \in Calls /\ ~ Exists(db[k]) => k = c

\* Before any call nothing is written and every record is blank.
LEMMA InitInv == Init => IInv
  <1> SUFFICES ASSUME Init PROVE IInv
    OBVIOUS
  <1>1. db \in [Ids -> Rec] /\ \A k \in Ids : Exists(db[k]) \/ db[k] = Blank
    <2>1. db \in [Ids -> {Blank} \cup {First(s) : s \in Slugs}]
      BY DEF Init, Stored
    <2>2. Blank \in Rec
      BY DEF Blank, Rec
    <2>3. \A s \in Slugs : First(s) \in Rec /\ Exists(First(s))
      BY DEF First, Rec, Exists
    <2>4. QED
      BY <2>1, <2>2, <2>3
  <1>2. TypeOK
    <2>1. scope \in [Calls -> Scope]
      BY DEF Init, Scope, NoScope, Rec, Blank
    <2>2. log \subseteq [call : Calls \cup {None}, key : Ids, rec : Rec]
      BY <1>1 DEF Init
    <2>3. attempt \in [Calls -> 0..Retries]
      BY RetriesAssumption DEF Init
    <2>4. QED
      BY <1>1, <2>1, <2>2, <2>3 DEF Init, TypeOK
  <1>3. ASSUME NEW c \in Calls PROVE Own(c)
    BY DataAssumption DEF Init, Own, Accepted, Unwritten, Held, Computed,
                              Announcing
  <1>4. Documents
    BY <1>1, DataAssumption DEF Init, Documents, Stored, Ids
  <1>5. Logged /\ NoLostUpdate /\ VersionNamesState
    BY <1>1 DEF Init, Logged, NoLostUpdate, VersionNamesState, Rec
  <1>6. QED
    BY <1>2, <1>3, <1>4, <1>5 DEF IInv, Shared

\* A step that writes nothing keeps what is said about the collection.
LEMMA QuietShared ==
  ASSUME IInv, UNCHANGED <<db, log>>
  PROVE  Shared'
  BY DEF IInv, Shared, Logged, Documents, NoLostUpdate, VersionNamesState

\* A step that writes nothing keeps what is said of every other call.
LEMMA QuietOthers ==
  ASSUME IInv, UNCHANGED <<db, log>>, NEW c \in Calls, Others(c),
         NEW d \in Calls \ {c}
  PROVE  Own(d)'
  BY DEF IInv, Others, Own, Accepted, Unwritten, Held, Computed, Announcing,
         Base

\* So does a write that takes a record to its next version.
LEMMA WriteShared ==
  ASSUME IInv, NEW c \in Calls, NEW k, NEW r, Advances(c, k, r)
  PROVE  Shared'
  <1> USE DEF IInv, Shared
  <1>1. /\ db' = [db EXCEPT ![k] = r]
        /\ log' = log \cup {[call |-> c, key |-> k, rec |-> r]}
        /\ k \in Ids /\ r \in Rec /\ db \in [Ids -> Rec]
        /\ r.version = db[k].version + 1 /\ db[k].version \in Nat
        /\ log \subseteq [call : Calls \cup {None}, key : Ids, rec : Rec]
    BY DEF Advances, Write, TypeOK, Rec
  <1>2. \A a \in log : a.key = k => a.rec.version < r.version
    BY <1>1 DEF Logged, Rec
  <1>3. Logged'
    BY <1>1, <1>2 DEF Logged, Exists, Rec
  <1>4. Documents'
    <2>1. Exists(r)
      BY <1>1 DEF Exists
    <2>2. \A i \in Ids : ~ Exists(db'[i]) => db'[i] = Blank
      BY <1>1, <2>1 DEF Documents
    <2>3. ASSUME NEW d \in Calls, Exists(db'[d])
          PROVE  \E a \in log' : a.call = d
      <3>1. CASE d = k /\ ~ Exists(db[k])
        <4>1. d = c
          BY <3>1 DEF Advances
        <4>2. [call |-> c, key |-> k, rec |-> r] \in log'
          BY <1>1
        <4>3. QED
          BY <4>1, <4>2
      <3>2. CASE Exists(db[d])
        BY <1>1, <3>2 DEF Documents
      <3>3. QED
        BY <1>1, <2>3, <3>1, <3>2 DEF Ids, Exists
    <2>4. QED
      BY <2>2, <2>3 DEF Documents
  <1>5. NoLostUpdate'
    BY <1>1 DEF NoLostUpdate, Advances
  <1>6. VersionNamesState'
    BY <1>1, <1>2 DEF VersionNamesState, Rec
  <1>7. QED
    BY <1>3, <1>4, <1>5, <1>6

\* A write keeps what is said of the calls of others: their origins become
\* stale at worst, which their next comparison of versions notices.
LEMMA WriteOthers ==
  ASSUME IInv, NEW c \in Calls, NEW k, NEW r, Advances(c, k, r), Others(c),
         NEW d \in Calls \ {c}
  PROVE  Own(d)'
  <1>1. /\ db' = [db EXCEPT ![k] = r]
        /\ log' = log \cup {[call |-> c, key |-> k, rec |-> r]}
        /\ k \in Ids /\ r \in Rec /\ db \in [Ids -> Rec]
        /\ r.version = db[k].version + 1 /\ db[k].version \in Nat
    BY DEF Advances, Write, IInv, TypeOK, Rec
  <1>2. Own(d) /\ job'[d] = job[d] /\ pc'[d] = pc[d] /\ scope'[d] = scope[d]
    BY DEF IInv, Others
  <1>3. Accepted(d)' /\ Unwritten(d)' /\ Computed(d)' /\ Announcing(d)'
    BY <1>1, <1>2 DEF Own, Accepted, Unwritten, Computed, Announcing, Base
  <1>4. Held(d)'
    <2>1. Base(d)' = Base(d) /\ Base(d).version \in Nat
      BY <1>2 DEF Base, IInv, TypeOK, Scope, Rec, Blank
    <2>2. QED
      BY <1>1, <1>2, <2>1 DEF Own, Held
  <1>5. QED
    BY <1>3, <1>4 DEF Own

\* The other calls and the collection follow from what the step does; what is
\* left to show for an action is its own call and the types.
LEMMA StepInv ==
  ASSUME IInv, NEW c \in Calls, TypeOK', Own(c)', Others(c),
         \/ UNCHANGED <<db, log>>
         \/ \E k, r : Advances(c, k, r)
  PROVE  IInv'
  <1>1. Shared'
    BY QuietShared, WriteShared
  <1>2. \A d \in Calls \ {c} : Own(d)'
    BY QuietOthers, WriteOthers
  <1>3. QED
    BY <1>1, <1>2 DEF IInv

-----------------------------------------------------------------------------
(* The actions. *)

\* Operation.invoke: a new call holds nothing and has written nothing.
LEMMA AcceptInv ==
  ASSUME IInv, NEW c \in Calls, Accept(c)
  PROVE  IInv'
  <1>1. TypeOK'
    BY DEF IInv, TypeOK, Accept, Goto, Busy
  <1>2. Others(c) /\ UNCHANGED <<db, log>>
    BY DEF Others, Accept, Goto, IInv, TypeOK
  <1>3. pc[c] = "idle" /\ pc'[c] = "acquire" /\ job'[c] \in Jobs /\ log' = log
    BY DEF IInv, TypeOK, Accept, Goto
  <1>4. Unwritten(c)'
    BY <1>3 DEF IInv, Own, Unwritten
  <1>5. Accepted(c)' /\ Held(c)' /\ Computed(c)' /\ Announcing(c)'
    BY <1>3 DEF Accepted, Held, Computed, Announcing
  <1>6. QED
    BY <1>1, <1>2, <1>4, <1>5, StepInv DEF Own

\* A call that ends, however it ends, has nothing more to keep.
LEMMA EndInv ==
  ASSUME IInv, NEW c \in Calls, pc[c] # "idle",
         NEW label \in {"done", "lost"}, Goto(c, label),
         UNCHANGED <<db, job, scope, attempt, log>>,
         TypeOK'
  PROVE  IInv'
  <1>1. Others(c)
    BY DEF Others, Goto, IInv, TypeOK
  <1>2. Own(c)'
    BY DEF Own, IInv, Goto, TypeOK, Accepted, Unwritten, Held, Computed,
           Announcing
  <1>3. QED
    BY <1>1, <1>2, StepInv

\* A call that is refused before its write leaves no write behind.
LEMMA RefuseInv ==
  ASSUME IInv, NEW c \in Calls, pc[c] # "idle",
         NEW r \in Refusals, Refuse(c, r)
  PROVE  IInv'
  <1>1. TypeOK'
    BY DEF IInv, TypeOK, Refuse, Answer, Goto, Replies
  <1>2. QED
    BY <1>1, EndInv DEF Refuse, Answer

\* The death of a process at any await keeps the invariant.
LEMMA CrashInv ==
  ASSUME IInv, NEW c \in Calls, Crash(c)
  PROVE  IInv'
  <1>1. TypeOK'
    BY DEF IInv, TypeOK, Crash, Goto
  <1>2. QED
    BY <1>1, EndInv DEF Crash, Busy

\* A transition takes hold of what it has read.
LEMMA HoldInv ==
  ASSUME IInv, NEW c \in Calls, Doing(c, "acquire", "transit"),
         NEW k \in Ids, NEW origin \in Rec \cup {None}, NEW state \in Rec,
         Hold(c, k, origin, state),
         state = IF origin = None THEN Blank ELSE origin,
         state.version <= db[k].version,
         state.version = db[k].version => state = db[k],
         origin # None => /\ job[c].query # None
                          /\ Matches(job[c].query, k, origin)
                          /\ ~ origin.deleted,
         origin = None =>
            \/ job[c].query # None /\ Implied(job[c].query) /\ k = job[c].query.id
            \/ job[c].query = None /\ k = c
  PROVE  IInv'
  <1>1. scope' = [scope EXCEPT ![c] =
                    [key |-> k, origin |-> origin, state |-> state]]
        /\ pc' = [pc EXCEPT ![c] = "run"]
        /\ UNCHANGED <<db, job, attempt, reply, events, log>>
    BY DEF Hold, Goto
  <1>2. TypeOK'
    BY <1>1 DEF IInv, TypeOK, Scope, Busy
  <1>3. Others(c)
    BY <1>1 DEF Others, IInv, TypeOK
  <1>4. /\ scope'[c] = [key |-> k, origin |-> origin, state |-> state]
        /\ pc'[c] = "run"
    BY <1>1 DEF IInv, TypeOK
  <1>5. Accepted(c)' /\ Unwritten(c)'
    BY <1>1, <1>4 DEF IInv, Own, Accepted, Unwritten, Doing
  <1>6. Held(c)' /\ Computed(c)' /\ Announcing(c)'
    BY <1>1, <1>4 DEF Held, Computed, Announcing, Base, Doing
  <1>7. QED
    BY <1>1, <1>2, <1>3, <1>5, <1>6, StepInv DEF Own

\* The record of an id that nothing was stored under is a record.
LEMMA BlankIsRec == Blank \in Rec /\ ~ Exists(Blank) /\ Blank.version = 0
  BY DEF Blank, Rec, Exists

\* Transition.acquire of a stored record: the origin is the record as read.
LEMMA AcquireObjectInv ==
  ASSUME IInv, NEW c \in Calls, NEW k \in Ids, AcquireObject(c, k)
  PROVE  IInv'
  <1>1. db[k] \in Rec /\ db[k].version \in Nat /\ db[k] # None
    <2>1. db[k] \in Rec
      BY DEF IInv, TypeOK
    <2>2. QED
      BY <2>1, RecAssumption DEF Rec
  <1>2. QED
    BY <1>1, HoldInv DEF AcquireObject

\* Asked for by nothing but its id, and not there.
LEMMA ImpliedIsBlank ==
  ASSUME IInv, NEW q, Implied(q), q.id \in Ids, Missing(q)
  PROVE  db[q.id] = Blank
  BY DEF IInv, Shared, Documents, Implied, Missing, Matches

\* Transition.acquire of an associated entity that is not stored.
LEMMA AcquireImpliedInv ==
  ASSUME IInv, NEW c \in Calls, NEW k \in Ids, AcquireImplied(c, k)
  PROVE  IInv'
  <1>1. db[k] = Blank
    BY ImpliedIsBlank DEF AcquireImplied
  <1>2. QED
    BY <1>1, BlankIsRec, HoldInv DEF AcquireImplied

\* The id that a call generates is still free.
LEMMA MintedIsBlank ==
  ASSUME IInv, NEW c \in Calls, Unwritten(c), pc[c] = "acquire"
  PROVE  db[c] = Blank
  BY DEF IInv, Shared, Documents, Unwritten, Ids

\* Transition.acquire without a query: the id is fresh.
LEMMA AcquireNewInv ==
  ASSUME IInv, NEW c \in Calls, AcquireNew(c)
  PROVE  IInv'
  <1>1. db[c] = Blank /\ c \in Ids
    BY MintedIsBlank DEF AcquireNew, Doing, IInv, Own, Ids
  <1>2. QED
    BY <1>1, BlankIsRec, HoldInv DEF AcquireNew

\* A transition that finds no record ends without a write.
LEMMA AcquireRefusedInv ==
  ASSUME IInv, NEW c \in Calls, AcquireRefused(c)
  PROVE  IInv'
  BY RefuseInv DEF AcquireRefused, Doing, NoObject, Refusals

\* Operation.run: the algorithm changes the copy, never the origin.
LEMMA RunInv ==
  ASSUME IInv, NEW c \in Calls, Run(c)
  PROVE  IInv'
  <1> DEFINE old == scope[c].state
  <1>1. PICK s \in Slugs, d \in BOOLEAN :
          scope' = [scope EXCEPT ![c].state =
                      [version |-> @.version + 1, deleted |-> d, slug |-> s,
                       writers |-> @.writers \cup {c}]]
    BY DEF Run
  <1>2. /\ pc' = [pc EXCEPT ![c] = "store"]
        /\ pc[c] = "run"
        /\ UNCHANGED <<db, job, attempt, reply, events, log>>
    BY DEF Run, Doing, Goto
  <1>3. /\ scope[c] \in Scope /\ scope \in [Calls -> Scope]
        /\ pc \in [Calls -> Busy \cup {"idle", "done", "lost"}]
        /\ old \in Rec /\ old.version \in Nat /\ old.writers \in SUBSET Calls
    BY DEF IInv, TypeOK, Scope, Rec
  <1>4. scope'[c] = [scope[c] EXCEPT !.state =
                      [version |-> old.version + 1, deleted |-> d, slug |-> s,
                       writers |-> old.writers \cup {c}]]
    BY <1>1, <1>3
  <1>5. scope'[c].state \in Rec /\ scope'[c].key = scope[c].key
        /\ scope'[c].origin = scope[c].origin
        /\ scope'[c].state.version = old.version + 1
        /\ scope'[c].state.writers = old.writers \cup {c}
        /\ scope'[c].state.slug = s
    BY <1>3, <1>4 DEF Scope, Rec
  <1>6. TypeOK'
    <2>1. scope'[c] \in Scope
      BY <1>3, <1>4, <1>5 DEF Scope
    <2>2. scope' \in [Calls -> Scope]
      BY <1>1, <1>3, <2>1
    <2>3. QED
      BY <1>2, <2>2 DEF IInv, TypeOK, Busy
  <1>7. Others(c)
    BY <1>1, <1>2, <1>3 DEF Others
  <1>8. Base(c)' = Base(c) /\ pc'[c] = "store"
    BY <1>2, <1>3, <1>5 DEF Base
  <1>9. Accepted(c)' /\ Unwritten(c)' /\ Held(c)'
    BY <1>2, <1>5, <1>8 DEF IInv, Own, Accepted, Unwritten, Held
  <1>10. Computed(c)' /\ Announcing(c)'
    BY <1>2, <1>5, <1>8 DEF IInv, Own, Computed, Announcing
  <1>11. QED
    BY <1>2, <1>6, <1>7, <1>9, <1>10, StepInv DEF Own

\* A call whose algorithm fails ends without a write.
LEMMA RunRefusedInv ==
  ASSUME IInv, NEW c \in Calls, RunRefused(c)
  PROVE  IInv'
  BY RefuseInv DEF RunRefused, Doing, Refusals

\* Every write advances its record and leaves its call at the emission.
LEMMA CommitInv ==
  ASSUME IInv, NEW c \in Calls, pc[c] # "idle",
         NEW k, NEW r, Advances(c, k, r),
         scope' \in [Calls -> Scope], scope'[c].key = k, scope'[c].state = r,
         \A d \in Calls \ {c} : scope'[d] = scope[d],
         Goto(c, "emit"), UNCHANGED <<job, attempt, reply, events>>
  PROVE  IInv'
  <1>1. TypeOK'
    BY DEF IInv, TypeOK, Advances, Write, Goto, Busy
  <1>2. Others(c)
    BY DEF Others, Goto, IInv, TypeOK
  <1>3. Own(c)'
    BY DEF Own, IInv, Goto, TypeOK, Accepted, Unwritten, Held, Computed,
           Announcing, Advances, Write
  <1>4. QED
    BY <1>1, <1>2, <1>3, StepInv

\* The queries of jobs are queries.
LEMMA QueryType ==
  ASSUME IInv, NEW c \in Calls, pc[c] # "idle"
  PROVE  /\ job[c] \in Jobs
         /\ job[c].query # None => job[c].query \in Query
         /\ job[c].query = None => job[c].op = "transit"
  BY JobsAssumption DEF IInv, Own, Accepted, Job

\* The copy that passes Storage.store's test is the record with the call's
\* own change on top: the version of the copy vouches for its content.
LEMMA CopyIsCurrent ==
  ASSUME IInv, NEW c \in Calls, Doing(c, "store", "transit"), Current(c)
  PROVE  /\ scope[c].key \in Ids
         /\ Base(c) = db[scope[c].key]
         /\ scope[c].origin # None <=> Exists(db[scope[c].key])
  <1> DEFINE k == scope[c].key
  <1>1. Held(c) /\ Computed(c) /\ pc[c] = "store"
    BY DEF IInv, Own, Doing
  <1>2. k \in Ids /\ db[k] \in Rec /\ db[k].version \in Nat
    BY <1>1 DEF Held, IInv, TypeOK, Rec
  <1>3. Base(c) \in Rec /\ Base(c).version \in Nat
    BY BlankIsRec DEF IInv, TypeOK, Scope, Base, Rec
  <1>4. Base(c).version = db[k].version
    BY <1>1, <1>2, <1>3 DEF Computed, Current, Exists
  <1>5. Base(c) = db[k]
    BY <1>1, <1>4 DEF Held
  <1>6. scope[c].origin # None <=> Exists(Base(c))
    BY <1>1, BlankIsRec DEF Held, Base, Matches
  <1>7. QED
    BY <1>2, <1>5, <1>6

\* The id under which a transition creates is its own or a client's.
LEMMA CreatesOwn ==
  ASSUME IInv, NEW c \in Calls, Held(c), pc[c] = "store",
         scope[c].origin = None, scope[c].key \in Calls
  PROVE  scope[c].key = c
  <1>1. CASE job[c].query = None
    BY <1>1 DEF Held
  <1>2. CASE job[c].query # None
    <2>1. job[c].query.id \in Given \cup {None} /\ job[c].query.id # None
          /\ scope[c].key = job[c].query.id
      BY <1>2, QueryType DEF Held, Query, Implied
    <2>2. QED
      BY <2>1, DataAssumption
  <1>3. QED
    BY <1>1, <1>2

\* Storage.store replaces a record by its next version, or adds the first.
LEMMA StoreAdvances ==
  ASSUME IInv, NEW c \in Calls, Store(c)
  PROVE  Advances(c, scope[c].key, scope[c].state)
  <1>1. Held(c) /\ Computed(c) /\ Unwritten(c) /\ pc[c] = "store"
        /\ Doing(c, "store", "transit") /\ Current(c)
    BY DEF IInv, Own, Doing, Store
  <1>2. scope[c].state \in Rec
    BY DEF IInv, TypeOK, Scope
  <1>3. /\ scope[c].key \in Ids
        /\ scope[c].state.version = db[scope[c].key].version + 1
        /\ scope[c].state.writers = db[scope[c].key].writers \cup {c}
    BY <1>1, CopyIsCurrent DEF Computed
  <1>4. \A a \in log : a.call # c
    BY <1>1 DEF Unwritten
  <1>5. scope[c].key \in Calls /\ ~ Exists(db[scope[c].key]) => scope[c].key = c
    BY <1>1, CopyIsCurrent, CreatesOwn
  <1>6. QED
    BY <1>2, <1>3, <1>4, <1>5 DEF Advances, Store

\* Storage.store keeps the invariant: it is a write of the call's own.
LEMMA StoreInv ==
  ASSUME IInv, NEW c \in Calls, Store(c)
  PROVE  IInv'
  <1>1. scope' = scope /\ scope \in [Calls -> Scope]
    BY DEF Store, IInv, TypeOK
  <1>2. QED
    BY <1>1, StoreAdvances, CommitInv DEF Store, Doing

\* An insertion that meets a duplicate writes nothing.
LEMMA StoreDuplicateInv ==
  ASSUME IInv, NEW c \in Calls, StoreDuplicate(c)
  PROVE  IInv'
  BY RefuseInv DEF StoreDuplicate, Doing, Refusals

\* retry() begins anew with nothing held and nothing written.
LEMMA ConflictInv ==
  ASSUME IInv, NEW c \in Calls, Conflict(c)
  PROVE  IInv'
  <1>1. attempt' \in [Calls -> 0..Retries]
    BY RetriesAssumption DEF IInv, TypeOK, Conflict
  <1>2. TypeOK'
    BY <1>1 DEF IInv, TypeOK, Conflict, Goto, Busy
  <1>3. Others(c) /\ UNCHANGED <<db, log>>
    BY DEF Others, Conflict, Goto, IInv, TypeOK
  <1>4. pc[c] = "store" /\ pc'[c] = "acquire" /\ UNCHANGED <<job, log>>
    BY DEF IInv, TypeOK, Conflict, Doing, Goto
  <1>5. Accepted(c)' /\ Unwritten(c)'
    BY <1>4 DEF IInv, Own, Accepted, Unwritten
  <1>6. Held(c)' /\ Computed(c)' /\ Announcing(c)'
    BY <1>4 DEF Held, Computed, Announcing
  <1>7. QED
    BY <1>2, <1>3, <1>5, <1>6, StepInv DEF Own

\* The last conflict is answered and has written nothing.
LEMMA ConflictRefusedInv ==
  ASSUME IInv, NEW c \in Calls, ConflictRefused(c)
  PROVE  IInv'
  BY RefuseInv DEF ConflictRefused, Doing, Refusals

\* Storage.upsert takes the record it matches to the next version.
LEMMA AssignAdvances ==
  ASSUME IInv, NEW c \in Calls, NEW k \in Ids, Assign(c, k)
  PROVE  \E r \in Rec :
            /\ Advances(c, k, r)
            /\ scope' = [scope EXCEPT ![c] =
                            [key |-> k, origin |-> None, state |-> r]]
  <1>1. PICK s \in Slugs \cup {db[k].slug}, d \in BOOLEAN :
          LET r == Patched(db[k], c, s, d)
          IN  /\ Write(c, k, r)
              /\ scope' = [scope EXCEPT ![c] =
                              [key |-> k, origin |-> None, state |-> r]]
    BY DEF Assign
  <1> DEFINE r == Patched(db[k], c, s, d)
  <1>2. db[k] \in Rec /\ Exists(db[k]) /\ \A a \in log : a.call # c
    BY DEF IInv, Own, TypeOK, Unwritten, Assign, Doing, Matches
  <1>3. r \in Rec /\ r.version = db[k].version + 1
        /\ r.writers = db[k].writers \cup {c}
    BY <1>2 DEF Patched, Rec
  <1>4. Advances(c, k, r)
    BY <1>1, <1>2, <1>3 DEF Advances
  <1>5. QED
    BY <1>1, <1>3, <1>4

\* Assignment keeps the invariant.
LEMMA AssignInv ==
  ASSUME IInv, NEW c \in Calls, NEW k \in Ids, Assign(c, k)
  PROVE  IInv'
  <1>1. PICK r \in Rec :
            /\ Advances(c, k, r)
            /\ scope' = [scope EXCEPT ![c] =
                            [key |-> k, origin |-> None, state |-> r]]
    BY AssignAdvances
  <1>2. /\ scope' \in [Calls -> Scope]
        /\ scope'[c].key = k /\ scope'[c].state = r
        /\ \A d \in Calls \ {c} : scope'[d] = scope[d]
    BY <1>1 DEF IInv, TypeOK, Scope
  <1>3. QED
    BY <1>1, <1>2, CommitInv DEF Assign, Doing

\* An assignment that matches nothing writes nothing.
LEMMA AssignRefusedInv ==
  ASSUME IInv, NEW c \in Calls, AssignRefused(c)
  PROVE  IInv'
  BY RefuseInv DEF AssignRefused, Doing, NoObject, Refusals

\* Storage.ensure inserts a record where none was.
LEMMA EnsureAdvances ==
  ASSUME IInv, NEW c \in Calls, Ensure(c)
  PROVE  \E r \in Rec :
            /\ db[c] = Blank
            /\ Advances(c, c, r)
            /\ scope' = [scope EXCEPT ![c] =
                            [key |-> c, origin |-> None, state |-> r]]
            /\ r.slug \in Slugs /\ r.deleted \in BOOLEAN
  <1> DEFINE r == [version |-> 1, deleted |-> FALSE,
                   slug |-> job[c].query.slug, writers |-> {c}]
  <1>1. /\ pc[c] = "acquire" /\ job[c].op = "ensure" /\ Unwritten(c)
        /\ c \in Ids
    BY DEF Ensure, Doing, IInv, Own, Ids
  <1>2. job[c].query.slug \in Slugs
    BY <1>1, QueryType, JobsAssumption
  <1>3. r \in Rec
    BY <1>2 DEF Rec
  <1>4. db[c] = Blank /\ Blank.version = 0 /\ Blank.writers = {}
    BY <1>1, MintedIsBlank DEF Blank
  <1>5. Advances(c, c, r)
    BY <1>1, <1>3, <1>4 DEF Advances, Ensure, Unwritten
  <1>6. QED
    BY <1>2, <1>3, <1>4, <1>5 DEF Ensure

\* Effect.acquire that creates its entity keeps the invariant.
LEMMA EnsureInv ==
  ASSUME IInv, NEW c \in Calls, Ensure(c)
  PROVE  IInv'
  <1>1. PICK r \in Rec :
            /\ Advances(c, c, r)
            /\ scope' = [scope EXCEPT ![c] =
                            [key |-> c, origin |-> None, state |-> r]]
    BY EnsureAdvances
  <1>2. /\ scope' \in [Calls -> Scope]
        /\ scope'[c].key = c /\ scope'[c].state = r
        /\ \A d \in Calls \ {c} : scope'[d] = scope[d]
    BY <1>1 DEF IInv, TypeOK, Scope, Ids
  <1>3. QED
    BY <1>1, <1>2, CommitInv DEF Ensure, Doing

\* Effect.acquire that finds its entity writes nothing.
LEMMA EnsureFoundInv ==
  ASSUME IInv, NEW c \in Calls, EnsureFound(c)
  PROVE  IInv'
  <1>1. TypeOK'
    BY DEF IInv, TypeOK, EnsureFound, Answer, Goto, Replies
  <1>2. QED
    BY <1>1, EndInv DEF EnsureFound, Answer, Doing

\* Emission.emit comes after the write and changes no record.
LEMMA EmitInv ==
  ASSUME IInv, NEW c \in Calls, Emit(c)
  PROVE  IInv'
  <1>1. scope[c].key \in Ids /\ job[c].op \in Operations
    <2>1. [call |-> c, key |-> scope[c].key, rec |-> scope[c].state] \in log
      BY DEF Emit, IInv, Own, Announcing
    <2>2. scope[c].key \in Ids
      BY <2>1 DEF IInv, TypeOK
    <2>3. QED
      BY <2>2, QueryType, JobsAssumption DEF Emit, Job
  <1>2. TypeOK'
    BY <1>1 DEF IInv, TypeOK, Scope, Emit, Answer, Goto, Replies
  <1>3. QED
    BY <1>2, EndInv DEF Emit, Answer

\* A failed emission leaves the write in place.
LEMMA EmitFailedInv ==
  ASSUME IInv, NEW c \in Calls, EmitFailed(c)
  PROVE  IInv'
  <1>1. TypeOK'
    BY DEF IInv, TypeOK, EmitFailed, Answer, Goto, Replies
  <1>2. QED
    BY <1>1, EndInv DEF EmitFailed, Answer

\* Every step of EntityState keeps the invariant.
LEMMA NextInv == IInv /\ [Next]_vars => IInv'
  <1> SUFFICES ASSUME IInv, [Next]_vars PROVE IInv'
    OBVIOUS
  <1>1. CASE UNCHANGED vars
    BY <1>1 DEF vars, IInv, TypeOK, Own, Accepted, Unwritten, Held, Computed,
                Announcing, Base, Shared, Logged, Documents, NoLostUpdate,
                VersionNamesState
  <1>2. ASSUME NEW c \in Calls, Accept(c) \/ Step(c) \/ Crash(c)
        PROVE  IInv'
    <2>1. CASE \E k \in Ids : AcquireObject(c, k) \/ AcquireImplied(c, k)
                               \/ Assign(c, k)
      BY <2>1, AcquireObjectInv, AcquireImpliedInv, AssignInv
    <2>2. CASE Accept(c) \/ AcquireNew(c) \/ AcquireRefused(c) \/ Run(c)
               \/ RunRefused(c)
      BY <2>2, AcceptInv, AcquireNewInv, AcquireRefusedInv, RunInv, RunRefusedInv
    <2>3. CASE Store(c) \/ StoreDuplicate(c) \/ Conflict(c)
               \/ ConflictRefused(c) \/ AssignRefused(c)
      BY <2>3, StoreInv, StoreDuplicateInv, ConflictInv, ConflictRefusedInv,
         AssignRefusedInv
    <2>4. CASE Ensure(c) \/ EnsureFound(c) \/ Emit(c) \/ EmitFailed(c) \/ Crash(c)
      BY <2>4, EnsureInv, EnsureFoundInv, EmitInv, EmitFailedInv, CrashInv
    <2>5. QED
      BY <1>2, <2>1, <2>2, <2>3, <2>4 DEF Step
  <1>3. QED
    BY <1>1, <1>2 DEF Next

-----------------------------------------------------------------------------
(* The theorems. *)

\* The inductive invariant holds in every reachable state.
THEOREM Invariance == Spec => []IInv
  BY InitInv, NextInv, PTL DEF Spec

\* The variables always have their types: ids, jobs and copies are what the
\* steps of transition.js, assignment.js and effect.js take them for.
THEOREM TypeCorrect == Spec => []TypeOK
  <1>1. IInv => TypeOK
    BY DEF IInv
  <1>2. QED
    BY <1>1, Invariance, PTL

\* Whatever the storage accepted from a call stays in the record, for any
\* number of calls and any interleaving of read, run, store and crash.
THEOREM NothingLost == Spec => []NoLostUpdate
  <1>1. IInv => NoLostUpdate
    BY DEF IInv, Shared
  <1>2. QED
    BY <1>1, Invariance, PTL

\* A version of an id never names two states, so that If-Match is sound.
THEOREM VersionsSound == Spec => []VersionNamesState
  <1>1. IInv => VersionNamesState
    BY DEF IInv, Shared
  <1>2. QED
    BY <1>1, Invariance, PTL

-----------------------------------------------------------------------------
(* Every step is a step of AtomicEntity or changes nothing there. *)

Done == {c \in Calls : \E a \in log : a.call = c}

\* The operators on data mean the same in both specifications.
LEMMA SameData ==
  /\ Ids = Atomic!Ids
  /\ \A r : Exists(r) <=> Atomic!Exists(r)
  /\ \A q, k, r : Matches(q, k, r) <=> Atomic!Matches(q, k, r)
  /\ \A q : Implied(q) <=> Atomic!Implied(q)
  BY DEF Ids, Atomic!Ids, Exists, Atomic!Exists, Matches, Atomic!Matches,
         Implied, Atomic!Implied

\* No record is stored and no call is made, in both specifications.
LEMMA InitRefines == Init => Atomic!Init
  <1> SUFFICES ASSUME Init PROVE Atomic!Init
    OBVIOUS
  <1>1. Atomic!Stored(db)
    BY DEF Init, Stored, Atomic!Stored, Ids, Atomic!Ids, Blank, Atomic!Blank,
           First, Atomic!First, Exists, Atomic!Exists, Clash, Atomic!Clash
  <1>2. Done = {}
    BY DataAssumption DEF Init, Done
  <1>3. QED
    BY <1>1, <1>2 DEF Init, Atomic!Init, Done

\* A write that advances its record is the effect of its call.
LEMMA AdvanceRefines ==
  ASSUME IInv, NEW c \in Calls, NEW k, NEW r, Advances(c, k, r), job' = job
  PROVE  Atomic!Apply(c, k)
  <1>1. /\ db' = [db EXCEPT ![k] = r]
        /\ log' = log \cup {[call |-> c, key |-> k, rec |-> r]}
        /\ r \in Rec /\ r.version = db[k].version + 1
        /\ r.writers = db[k].writers \cup {c}
        /\ \A a \in log : a.call # c
    BY DEF Advances, Write
  <1>2. c \notin Done /\ Done' = Done \cup {c}
    <2>1. c \notin Done
      BY <1>1 DEF Done
    <2>2. [call |-> c, key |-> k, rec |-> r] \in log'
      BY <1>1
    <2>3. c \in Done'
      BY <2>2 DEF Done
    <2>4. \A d \in Calls \ {c} : d \in Done' <=> d \in Done
      BY <1>1 DEF Done
    <2>5. Done' \subseteq Calls /\ Done \subseteq Calls
      BY DEF Done
    <2>6. QED
      BY <2>1, <2>3, <2>4, <2>5
  <1>3. r = [version |-> db[k].version + 1, deleted |-> r.deleted,
             slug |-> r.slug, writers |-> db[k].writers \cup {c}]
    BY <1>1 DEF Rec
  <1>4. r.slug \in Slugs \cup {None} /\ r.deleted \in BOOLEAN
    BY <1>1 DEF Rec
  <1>5. \E s \in Slugs \cup {None}, d \in BOOLEAN :
          db' = [db EXCEPT ![k] =
                    [version |-> db[k].version + 1, deleted |-> d, slug |-> s,
                     writers |-> db[k].writers \cup {c}]]
    BY <1>1, <1>3, <1>4
  <1>6. QED
    BY <1>2, <1>5 DEF Atomic!Apply, Done

\* Storage.store is the atomic transition: the version compared makes the
\* origin that the algorithm saw the record that is replaced.
LEMMA StoreRefines ==
  ASSUME IInv, NEW c \in Calls, Store(c)
  PROVE  \E i \in Ids : Atomic!Transit(c, i)
  <1> DEFINE q == job[c].query
  <1> PICK k, r : k = scope[c].key /\ r = scope[c].state
    OBVIOUS
  <1>1. /\ Held(c) /\ pc[c] = "store" /\ job' = job /\ job[c].op = "transit"
        /\ Doing(c, "store", "transit") /\ Current(c)
    BY DEF IInv, Own, Doing, Store
  <1>2. /\ k \in Ids /\ Base(c) = db[k]
        /\ scope[c].origin # None <=> Exists(db[k])
    BY <1>1, CopyIsCurrent
  <1>3. Atomic!Apply(c, k)
    <2>1. Advances(c, k, r)
      BY StoreAdvances DEF Advances, Write
    <2>2. QED
      BY <1>1, <2>1, AdvanceRefines
  <1>4. job[c] \in Jobs
    BY <1>1, QueryType
  <1>5. \/ q # None /\ Matches(q, k, db[k]) /\ ~ db[k].deleted
        \/ q # None /\ Implied(q) /\ k = q.id /\ ~ Exists(db[k])
        \/ q = None /\ k = c /\ ~ Exists(db[k])
    BY <1>1, <1>2 DEF Held, Base
  <1>6. Atomic!Transit(c, k)
    BY <1>1, <1>3, <1>4, <1>5, SameData DEF Atomic!Transit
  <1>7. QED
    BY <1>2, <1>6

\* Storage.upsert is the atomic assignment.
LEMMA AssignRefines ==
  ASSUME IInv, NEW c \in Calls, NEW k \in Ids, Assign(c, k)
  PROVE  Atomic!Assign(c, k)
  <1>1. Atomic!Apply(c, k)
    BY AssignAdvances, AdvanceRefines DEF Assign
  <1>2. job[c] \in Jobs
    BY QueryType DEF Assign, Doing
  <1>3. QED
    BY <1>1, <1>2, SameData DEF Assign, Doing, Atomic!Assign

\* Storage.ensure is the atomic effect.
LEMMA EnsureRefines ==
  ASSUME IInv, NEW c \in Calls, Ensure(c)
  PROVE  Atomic!Ensure(c)
  <1>1. Atomic!Apply(c, c)
    BY EnsureAdvances, AdvanceRefines DEF Ensure
  <1>2. job[c] \in Jobs
    BY QueryType DEF Ensure, Doing
  <1>3. ~ Exists(db[c])
    BY EnsureAdvances, BlankIsRec
  <1>4. QED
    BY <1>1, <1>2, <1>3, SameData DEF Ensure, Doing, Missing, Atomic!Ensure

\* Operation.invoke begins the same call in both specifications.
LEMMA AcceptRefines ==
  ASSUME IInv, NEW c \in Calls, Accept(c)
  PROVE  Atomic!Accept(c)
  BY DEF Accept, Atomic!Accept, IInv, Own, Accepted

\* Every step is a step of the atomic specification, or none.
LEMMA NextRefines == IInv /\ [Next]_vars => [Atomic!Next]_(Atomic!vars)
  <1> SUFFICES ASSUME IInv, [Next]_vars PROVE [Atomic!Next]_(Atomic!vars)
    OBVIOUS
  <1>1. CASE UNCHANGED <<db, job, log>>
    BY <1>1 DEF Atomic!vars
  <1>2. CASE UNCHANGED vars
    BY <1>1, <1>2 DEF vars
  <1>3. ASSUME NEW c \in Calls, Accept(c) \/ Step(c) \/ Crash(c)
        PROVE  Atomic!Next \/ UNCHANGED <<db, job, log>>
    <2>1. CASE Accept(c)
      BY <2>1, AcceptRefines DEF Atomic!Next
    <2>2. CASE Store(c)
      BY <2>2, StoreRefines, SameData DEF Atomic!Next
    <2>3. CASE \E k \in Ids : Assign(c, k)
      BY <2>3, AssignRefines, SameData DEF Atomic!Next
    <2>4. CASE Ensure(c)
      BY <2>4, EnsureRefines DEF Atomic!Next
    <2>5. CASE \E k \in Ids : AcquireObject(c, k) \/ AcquireImplied(c, k)
      BY <2>5 DEF AcquireObject, AcquireImplied, Hold
    <2>6. CASE AcquireNew(c) \/ AcquireRefused(c) \/ Run(c) \/ RunRefused(c)
      BY <2>6 DEF AcquireNew, AcquireRefused, Run, RunRefused, Hold, Refuse
    <2>7. CASE StoreDuplicate(c) \/ Conflict(c) \/ ConflictRefused(c)
               \/ AssignRefused(c)
      BY <2>7 DEF StoreDuplicate, Conflict, ConflictRefused, AssignRefused, Refuse
    <2>8. CASE EnsureFound(c) \/ Emit(c) \/ EmitFailed(c) \/ Crash(c)
      BY <2>8 DEF EnsureFound, Emit, EmitFailed, Crash
    <2>9. QED
      BY <1>3, <2>1, <2>2, <2>3, <2>4, <2>5, <2>6, <2>7, <2>8 DEF Step
  <1>4. QED
    BY <1>1, <1>2, <1>3 DEF Next

\* The three-step, retried operations of the code implement the atomic ones:
\* each takes effect at most once, at its write, on the record of that instant,
\* under its own query.
THEOREM Refinement == Spec => AtomicSpec
  <1>1. Spec => []IInv
    BY Invariance
  <1>2. QED
    BY <1>1, InitRefines, NextRefines, PTL DEF Spec, AtomicSpec, Atomic!Spec

----------------------------------------------------------------------------
(* What callers and events are told: a second inductive invariant on top.   *)

\* The state is the successor of the origin, which was once stored.
Succeeds(k, origin, state) ==
    IF origin = None
    THEN state.version = 1
    ELSE /\ state.version = origin.version + 1
         /\ \E a \in log : a.key = k /\ a.rec = origin

\* Nobody is answered before the call is done.
Pending(c) == pc[c] # "done" => reply[c] = None

\* The origin of a transition's event is the record that it has replaced.
Founded(c) ==
    pc[c] = "emit" /\ job[c].op = "transit" =>
        Succeeds(scope[c].key, scope[c].origin, scope[c].state)

\* What is stored was written, and nobody else has left a trace in it.
Recorded ==
    \A k \in Ids :
        /\ Exists(db[k]) => \E a \in log : a.key = k /\ a.rec = db[k]
        /\ \A w \in db[k].writers : \E a \in log : a.call = w

EInv ==
    /\ \A c \in Calls : Pending(c) /\ Founded(c)
    /\ Recorded
    /\ WritesOnce
    /\ EventsFaithful
    /\ AnswersTruthful
    /\ SilentWrites

\* A step of c leaves the other calls alone, their answers included.
Apart(c) == Others(c) /\ \A d \in Calls \ {c} : reply'[d] = reply[d]

-----------------------------------------------------------------------------
(* The kinds of steps. *)

\* In the initial state nobody has been told anything.
LEMMA InitTells == Init => EInv
  <1> SUFFICES ASSUME Init PROVE EInv
    OBVIOUS
  <1>1. \A c \in Calls : Pending(c) /\ Founded(c)
    BY DEF Init, Pending, Founded
  <1>2. Recorded
    <2>1. db \in [Ids -> {Blank} \cup {First(s) : s \in Slugs}]
      BY DEF Init, Stored
    <2>2. \A k \in Ids : db[k].writers = {}
      BY <2>1 DEF Blank, First
    <2>3. ASSUME NEW k \in Ids, Exists(db[k])
          PROVE  \E a \in log : a.key = k /\ a.rec = db[k]
      <3>1. [call |-> None, key |-> k, rec |-> db[k]] \in log
        BY <2>3 DEF Init
      <3>2. QED
        BY <3>1
    <2>4. QED
      BY <2>2, <2>3 DEF Recorded
  <1>3. WritesOnce /\ EventsFaithful /\ SilentWrites
    BY DEF Init, WritesOnce, EventsFaithful, SilentWrites
  <1>4. AnswersTruthful
    BY RepliesAssumption DEF Init, AnswersTruthful, Replies
  <1>5. QED
    BY <1>1, <1>2, <1>3, <1>4 DEF EInv

\* A call that goes on, or dies, without a write, an event or an answer.
LEMMA MoveTells ==
  ASSUME IInv, EInv, NEW c \in Calls, Apart(c),
         UNCHANGED <<db, log, events, reply>>,
         pc[c] # "done", pc'[c] \notin {"done", "emit"},
         pc[c] \in {"emit", "lost"} => pc'[c] = "lost"
  PROVE  EInv'
  <1>1. \A d \in Calls : Pending(d)' /\ Founded(d)'
    BY DEF EInv, Pending, Founded, Succeeds, Apart, Others
  <1>2. Recorded' /\ WritesOnce' /\ EventsFaithful'
    BY DEF EInv, Recorded, WritesOnce, EventsFaithful
  <1>3. AnswersTruthful'
    <2>1. reply'[c] = None
      BY DEF EInv, Pending
    <2>2. QED
      BY <2>1, RepliesAssumption
         DEF EInv, AnswersTruthful, Apart, Others, Replies
  <1>4. SilentWrites'
    <2>1. \A a \in log : a.call = None \/ a.call \in Calls
      BY DEF IInv, TypeOK
    <2>2. QED
      BY <2>1 DEF EInv, SilentWrites, Apart, Others
  <1>5. QED
    BY <1>1, <1>2, <1>3, <1>4 DEF EInv

\* A call that ends without a write of its own, refused or not.
LEMMA EndTells ==
  ASSUME IInv, EInv, NEW c \in Calls, NEW r, Answer(c, r),
         pc[c] \in {"acquire", "run", "store"},
         r = "ok" => job[c].op = "ensure",
         UNCHANGED <<db, job, scope, log, events>>
  PROVE  EInv'
  <1>1. /\ pc' = [pc EXCEPT ![c] = "done"]
        /\ reply' = [reply EXCEPT ![c] = r]
        /\ \A a \in log : a.call # c
        /\ pc \in [Calls -> Busy \cup {"idle", "done", "lost"}]
        /\ reply \in [Calls -> Replies \cup {None}]
    BY DEF IInv, Own, Unwritten, TypeOK, Answer, Goto
  <1>2. \A d \in Calls : Pending(d)' /\ Founded(d)'
    BY <1>1 DEF EInv, Pending, Founded, Succeeds
  <1>3. Recorded' /\ WritesOnce' /\ EventsFaithful'
    BY DEF EInv, Recorded, WritesOnce, EventsFaithful
  <1>4. AnswersTruthful'
    BY <1>1 DEF EInv, AnswersTruthful
  <1>5. SilentWrites'
    <2>1. \A a \in log : a.call = None \/ a.call \in Calls \ {c}
      BY <1>1 DEF IInv, TypeOK
    <2>2. QED
      BY <1>1, <2>1 DEF EInv, SilentWrites
  <1>6. QED
    BY <1>2, <1>3, <1>4, <1>5 DEF EInv

\* A write that advances its record, whoever makes it.
LEMMA CommitTells ==
  ASSUME IInv, EInv, NEW c \in Calls, NEW k, NEW r, Advances(c, k, r),
         pc[c] # "done", Goto(c, "emit"), UNCHANGED <<job, events, reply>>,
         \A d \in Calls \ {c} : scope'[d] = scope[d],
         job[c].op = "transit" =>
            Succeeds(scope'[c].key, scope'[c].origin, scope'[c].state)
  PROVE  EInv'
  <1>1. /\ pc' = [pc EXCEPT ![c] = "emit"]
        /\ pc \in [Calls -> Busy \cup {"idle", "done", "lost"}]
        /\ db' = [db EXCEPT ![k] = r]
        /\ log' = log \cup {[call |-> c, key |-> k, rec |-> r]}
        /\ k \in Ids /\ db \in [Ids -> Rec]
        /\ \A a \in log : a.call # c
    BY DEF IInv, TypeOK, Advances, Write, Goto
  <1>2. \A d \in Calls : Pending(d)'
    BY <1>1 DEF EInv, Pending
  <1>3. ASSUME NEW d \in Calls PROVE Founded(d)'
    <2>1. CASE d = c
      BY <1>1, <2>1 DEF Founded, Succeeds
    <2>2. CASE d # c
      BY <1>1, <2>2 DEF EInv, Founded, Succeeds
    <2>3. QED
      BY <2>1, <2>2
  <1>4. Recorded'
    <2>1. r.writers = db[k].writers \cup {c}
      BY DEF Advances
    <2>2. [call |-> c, key |-> k, rec |-> r] \in log'
      BY <1>1
    <2>3. ASSUME NEW i \in Ids
          PROVE  /\ Exists(db'[i]) => \E a \in log' : a.key = i /\ a.rec = db'[i]
                 /\ \A w \in db'[i].writers : \E a \in log' : a.call = w
      <3>1. CASE i = k
        <4>1. db'[i] = r
          BY <1>1, <3>1
        <4>2. \A w \in db[k].writers : \E a \in log' : a.call = w
          BY <1>1 DEF EInv, Recorded
        <4>3. QED
          BY <2>1, <2>2, <3>1, <4>1, <4>2
      <3>2. CASE i # k
        BY <1>1, <3>2 DEF EInv, Recorded
      <3>3. QED
        BY <3>1, <3>2
    <2>4. QED
      BY <2>3 DEF Recorded, Exists
  <1>5. WritesOnce'
    BY <1>1 DEF EInv, WritesOnce
  <1>6. EventsFaithful'
    BY <1>1 DEF EInv, EventsFaithful
  <1>7. AnswersTruthful'
    <2>1. reply'[c] = None
      BY DEF EInv, Pending
    <2>2. QED
      BY <1>1, <2>1, RepliesAssumption DEF EInv, AnswersTruthful, Replies
  <1>8. SilentWrites'
    <2>1. \A a \in log : a.call = None \/ a.call \in Calls \ {c}
      BY <1>1 DEF IInv, TypeOK
    <2>2. QED
      BY <1>1, <2>1 DEF EInv, SilentWrites
  <1>9. QED
    BY <1>2, <1>3, <1>4, <1>5, <1>6, <1>7, <1>8 DEF EInv

\* The emission has taken the event: the write is announced and answered.
LEMMA EmitTells ==
  ASSUME IInv, EInv, NEW c \in Calls, Emit(c)
  PROVE  EInv'
  <1> DEFINE e == [call |-> c, key |-> scope[c].key, op |-> job[c].op,
                   origin |-> scope[c].origin, state |-> scope[c].state]
  <1>1. /\ pc[c] = "emit"
        /\ pc' = [pc EXCEPT ![c] = "done"]
        /\ reply' = [reply EXCEPT ![c] = "ok"]
        /\ events' = events \cup {e}
        /\ pc \in [Calls -> Busy \cup {"idle", "done", "lost"}]
        /\ reply \in [Calls -> Replies \cup {None}]
        /\ UNCHANGED <<db, job, scope, attempt, log>>
    BY DEF IInv, TypeOK, Emit, Answer, Goto
  <1>2. [call |-> c, key |-> scope[c].key, rec |-> scope[c].state] \in log
    BY <1>1 DEF IInv, Own, Announcing
  <1>3. \A d \in Calls : Pending(d)' /\ Founded(d)'
    BY <1>1 DEF EInv, Pending, Founded, Succeeds
  <1>4. Recorded' /\ WritesOnce'
    BY <1>1 DEF EInv, Recorded, WritesOnce
  <1>5. EventsFaithful'
    <2>1. job[c].op = "transit" =>
            Succeeds(scope[c].key, scope[c].origin, scope[c].state)
      BY <1>1 DEF EInv, Founded
    <2>2. ASSUME NEW f \in events'
          PROVE  /\ [call |-> f.call, key |-> f.key, rec |-> f.state] \in log
                 /\ f.op = "transit" => Succeeds(f.key, f.origin, f.state)
      <3>1. CASE f = e
        BY <1>2, <2>1, <3>1
      <3>2. CASE f \in events
        BY <3>2 DEF EInv, EventsFaithful, Succeeds
      <3>3. QED
        BY <1>1, <3>1, <3>2
    <2>3. QED
      BY <1>1, <2>2 DEF EventsFaithful, Succeeds
  <1>6. AnswersTruthful'
    <2>1. e \in events' /\ e.call = c
      BY <1>1
    <2>2. \E a \in log : a.call = c
      BY <1>2
    <2>3. QED
      BY <1>1, <2>1, <2>2 DEF EInv, AnswersTruthful, Refusals
  <1>7. SilentWrites'
    <2>1. e \in events' /\ e.call = c
      BY <1>1
    <2>2. \A a \in log : a.call = None \/ a.call \in Calls
      BY DEF IInv, TypeOK
    <2>3. QED
      BY <1>1, <2>1, <2>2 DEF EInv, SilentWrites
  <1>8. QED
    BY <1>3, <1>4, <1>5, <1>6, <1>7 DEF EInv

\* The emission has thrown: the caller gets the exception, the write remains.
LEMMA EmitFailedTells ==
  ASSUME IInv, EInv, NEW c \in Calls, EmitFailed(c)
  PROVE  EInv'
  <1>1. /\ pc[c] = "emit"
        /\ pc' = [pc EXCEPT ![c] = "done"]
        /\ reply' = [reply EXCEPT ![c] = "exception"]
        /\ pc \in [Calls -> Busy \cup {"idle", "done", "lost"}]
        /\ reply \in [Calls -> Replies \cup {None}]
        /\ UNCHANGED <<db, job, scope, attempt, events, log>>
    BY DEF IInv, TypeOK, EmitFailed, Answer, Goto
  <1>2. \A d \in Calls : Pending(d)' /\ Founded(d)'
    BY <1>1 DEF EInv, Pending, Founded, Succeeds
  <1>3. Recorded' /\ WritesOnce' /\ EventsFaithful'
    BY <1>1 DEF EInv, Recorded, WritesOnce, EventsFaithful
  <1>4. AnswersTruthful'
    BY <1>1 DEF EInv, AnswersTruthful, Refusals
  <1>5. SilentWrites'
    <2>1. \A a \in log : a.call = None \/ a.call \in Calls
      BY DEF IInv, TypeOK
    <2>2. QED
      BY <1>1, <2>1 DEF EInv, SilentWrites
  <1>6. QED
    BY <1>2, <1>3, <1>4, <1>5 DEF EInv

-----------------------------------------------------------------------------
(* The actions. *)

\* A call on its way to the storage tells nobody anything.
LEMMA OnTheWayTells ==
  ASSUME IInv, EInv, NEW c \in Calls,
         \/ Accept(c) \/ AcquireNew(c) \/ Run(c) \/ Conflict(c) \/ Crash(c)
         \/ \E k \in Ids : AcquireObject(c, k) \/ AcquireImplied(c, k)
  PROVE  EInv'
  <1>1. \E label \in {"acquire", "run", "store", "lost"} :
            /\ Goto(c, label)
            /\ pc[c] = "emit" => label = "lost"
    BY DEF Accept, AcquireNew, Run, Conflict, Crash, AcquireObject,
           AcquireImplied, Hold, Doing
  <1>2. pc[c] \notin {"done", "lost"}
    BY DEF Accept, AcquireNew, Run, Conflict, Crash, AcquireObject,
           AcquireImplied, Doing, Busy
  <1>3. UNCHANGED <<db, log, events, reply>>
    BY DEF Accept, AcquireNew, Run, Conflict, Crash, AcquireObject,
           AcquireImplied, Hold
  <1>4. \A d \in Calls \ {c} : job'[d] = job[d] /\ scope'[d] = scope[d]
    BY DEF Accept, AcquireNew, Run, Conflict, Crash, AcquireObject,
           AcquireImplied, Hold, IInv, TypeOK
  <1>5. Apart(c)
    BY <1>1, <1>3, <1>4 DEF Apart, Others, Goto, IInv, TypeOK
  <1>6. pc'[c] \notin {"done", "emit"} /\ (pc[c] = "emit" => pc'[c] = "lost")
    BY <1>1 DEF Goto, IInv, TypeOK
  <1>7. QED
    BY <1>2, <1>3, <1>5, <1>6, MoveTells

\* A refusal is told to a call that has written nothing.
LEMMA RefusedTells ==
  ASSUME IInv, EInv, NEW c \in Calls,
         \/ AcquireRefused(c) \/ RunRefused(c) \/ StoreDuplicate(c)
         \/ ConflictRefused(c) \/ AssignRefused(c) \/ EnsureFound(c)
  PROVE  EInv'
  <1>1. pc[c] \in {"acquire", "run", "store"}
    BY DEF AcquireRefused, RunRefused, StoreDuplicate, ConflictRefused,
           AssignRefused, EnsureFound, Doing
  <1>2. \E r \in Replies : Answer(c, r) /\ (r = "ok" => job[c].op = "ensure")
    BY DEF AcquireRefused, RunRefused, StoreDuplicate, ConflictRefused,
           AssignRefused, EnsureFound, Doing, Refuse, NoObject, Replies, Refusals
  <1>3. UNCHANGED <<db, job, scope, log, events>>
    BY DEF AcquireRefused, RunRefused, StoreDuplicate, ConflictRefused,
           AssignRefused, EnsureFound, Refuse
  <1>4. QED
    BY <1>1, <1>2, <1>3, EndTells

\* The origin that Storage.store has compared is a record once written, and
\* the copy its successor.
LEMMA StoreSucceeds ==
  ASSUME IInv, EInv, NEW c \in Calls, Store(c)
  PROVE  Succeeds(scope[c].key, scope[c].origin, scope[c].state)
  <1>1. /\ scope[c].key \in Ids
        /\ Base(c) = db[scope[c].key]
        /\ scope[c].origin # None <=> Exists(db[scope[c].key])
        /\ scope[c].state.version = Base(c).version + 1
    BY CopyIsCurrent DEF Store, Doing, IInv, Own, Computed
  <1>2. CASE scope[c].origin = None
    BY <1>1, <1>2 DEF Succeeds, Base, Blank
  <1>3. CASE scope[c].origin # None
    <2>1. scope[c].origin = db[scope[c].key]
      BY <1>1, <1>3 DEF Base
    <2>2. PICK a \in log : a.key = scope[c].key /\ a.rec = scope[c].origin
      BY <1>1, <1>3, <2>1 DEF EInv, Recorded
    <2>3. QED
      BY <1>1, <1>3, <2>1, <2>2 DEF Succeeds
  <1>4. QED
    BY <1>2, <1>3

\* A write leaves its call at the emission with what is to be told.
LEMMA WriteTells ==
  ASSUME IInv, EInv, NEW c \in Calls,
         Store(c) \/ Ensure(c) \/ \E k \in Ids : Assign(c, k)
  PROVE  EInv'
  <1>1. CASE Store(c)
    <2>1. /\ scope' = scope
          /\ Succeeds(scope'[c].key, scope'[c].origin, scope'[c].state)
      BY <1>1, StoreSucceeds DEF Store
    <2>2. QED
      BY <1>1, <2>1, StoreAdvances, CommitTells DEF Store, Doing
  <1>2. CASE Ensure(c)
    <2>1. PICK r \in Rec :
            /\ Advances(c, c, r)
            /\ scope' = [scope EXCEPT ![c] =
                            [key |-> c, origin |-> None, state |-> r]]
      BY <1>2, EnsureAdvances
    <2>2. \A d \in Calls \ {c} : scope'[d] = scope[d]
      BY <2>1 DEF IInv, TypeOK
    <2>3. QED
      BY <1>2, <2>1, <2>2, CommitTells DEF Ensure, Doing
  <1>3. ASSUME NEW k \in Ids, Assign(c, k) PROVE EInv'
    <2>1. PICK r \in Rec :
            /\ Advances(c, k, r)
            /\ scope' = [scope EXCEPT ![c] =
                            [key |-> k, origin |-> None, state |-> r]]
      BY <1>3, AssignAdvances
    <2>2. \A d \in Calls \ {c} : scope'[d] = scope[d]
      BY <2>1 DEF IInv, TypeOK
    <2>3. QED
      BY <1>3, <2>1, <2>2, CommitTells DEF Assign, Doing
  <1>4. QED
    BY <1>1, <1>2, <1>3

\* Every step keeps the second invariant.
LEMMA NextTells == IInv /\ EInv /\ [Next]_vars => EInv'
  <1> SUFFICES ASSUME IInv, EInv, [Next]_vars PROVE EInv'
    OBVIOUS
  <1>1. CASE UNCHANGED vars
    BY <1>1 DEF vars, EInv, Pending, Founded, Succeeds, Recorded, WritesOnce,
                EventsFaithful, AnswersTruthful, SilentWrites
  <1>2. ASSUME NEW c \in Calls, Accept(c) \/ Step(c) \/ Crash(c)
        PROVE  EInv'
    BY <1>2, OnTheWayTells, RefusedTells, WriteTells, EmitTells,
       EmitFailedTells DEF Step
  <1>3. QED
    BY <1>1, <1>2 DEF Next

-----------------------------------------------------------------------------
(* The theorems. *)

\* The second invariant holds in every reachable state.
THEOREM Telling == Spec => []EInv
  BY InitTells, NextTells, Invariance, PTL DEF Spec

\* A call writes at most once, for any number of retries (retry.js).
THEOREM OneWrite == Spec => []WritesOnce
  <1>1. EInv => WritesOnce
    BY DEF EInv
  <1>2. QED
    BY <1>1, Telling, PTL

\* The origin of an event, against which Entity.event computes its changeset,
\* is the record that the write of its state has replaced.
THEOREM TrueEvents == Spec => []EventsFaithful
  <1>1. EInv => EventsFaithful
    BY DEF EInv
  <1>2. QED
    BY <1>1, Telling, PTL

\* A refused call has changed nothing; an answered commit was announced.
THEOREM TrueAnswers == Spec => []AnswersTruthful
  <1>1. EInv => AnswersTruthful
    BY DEF EInv
  <1>2. QED
    BY <1>1, Telling, PTL

\* Only a death or a failed emission after the write keeps it silent.
THEOREM NoSilence == Spec => []SilentWrites
  <1>1. EInv => SilentWrites
    BY DEF EInv
  <1>2. QED
    BY <1>1, Telling, PTL

-----------------------------------------------------------------------------
(* A step that changes a terminated record is an assignment. *)

\* The body of OnlyAssignRevives.
Revives(k) ==
    db[k].deleted /\ db'[k] # db[k] =>
        \E c \in db'[k].writers \ db[k].writers : job[c].op = "assign"

\* Storage.store finds no deleted record under the version it compares: the
\* transition would not have taken hold of it, and versions name states.
LEMMA StoreRevivesNothing ==
  ASSUME IInv, NEW c \in Calls, Store(c), NEW k \in Ids
  PROVE  Revives(k)
  <1>1. /\ scope[c].key \in Ids
        /\ Base(c) = db[scope[c].key]
        /\ Held(c) /\ pc[c] = "store"
    BY CopyIsCurrent DEF Store, Doing, IInv, Own
  <1>2. ~ Base(c).deleted
    BY <1>1 DEF Held, Base, Blank
  <1>3. db' = [db EXCEPT ![scope[c].key] = scope[c].state]
    BY DEF Store, Write
  <1>4. QED
    BY <1>1, <1>2, <1>3 DEF Revives, IInv, TypeOK

\* An assignment leaves its trace, which was not there before.
LEMMA AssignRevives ==
  ASSUME IInv, EInv, NEW c \in Calls, NEW i \in Ids, Assign(c, i), NEW k \in Ids
  PROVE  Revives(k)
  <1>1. PICK r \in Rec : Advances(c, i, r)
    BY AssignAdvances
  <1>2. c \notin db[i].writers
    BY <1>1 DEF Advances, EInv, Recorded
  <1>3. job[c].op = "assign"
    BY DEF Assign, Doing
  <1>4. db' = [db EXCEPT ![i] = r] /\ r.writers = db[i].writers \cup {c}
    BY <1>1 DEF Advances, Write
  <1>5. QED
    BY <1>2, <1>3, <1>4 DEF Revives, IInv, TypeOK

\* An effect creates under an id that has no record to revive.
LEMMA EnsureRevivesNothing ==
  ASSUME IInv, NEW c \in Calls, Ensure(c), NEW k \in Ids
  PROVE  Revives(k)
  <1>1. PICK r \in Rec : db[c] = Blank /\ Advances(c, c, r)
    BY EnsureAdvances
  <1>2. db' = [db EXCEPT ![c] = r] /\ ~ db[c].deleted
    BY <1>1 DEF Advances, Write, Blank
  <1>3. QED
    BY <1>2 DEF Revives, IInv, TypeOK

\* No step but an assignment's touches a terminated record.
LEMMA NextRevives ==
  ASSUME IInv, EInv, [Next]_vars, NEW k \in Ids
  PROVE  Revives(k)
  <1>1. CASE UNCHANGED vars
    BY <1>1 DEF vars, Revives
  <1>2. ASSUME NEW c \in Calls, Accept(c) \/ Step(c) \/ Crash(c)
        PROVE  Revives(k)
    <2>1. CASE Store(c) \/ Ensure(c) \/ \E i \in Ids : Assign(c, i)
      BY <2>1, StoreRevivesNothing, EnsureRevivesNothing, AssignRevives
    <2>2. CASE ~ (Store(c) \/ Ensure(c) \/ \E i \in Ids : Assign(c, i))
      <3>1. UNCHANGED db
        BY <1>2, <2>2
           DEF Step, Accept, Crash, AcquireObject, AcquireImplied, AcquireNew,
               AcquireRefused, Hold, Run, RunRefused, StoreDuplicate, Conflict,
               ConflictRefused, AssignRefused, EnsureFound, Emit, EmitFailed,
               Refuse
      <3>2. QED
        BY <3>1 DEF Revives
    <2>3. QED
      BY <2>1, <2>2
  <1>3. QED
    BY <1>1, <1>2 DEF Next

\* A terminated record is changed by assignments only, however late a
\* transition or an effect that has read it before comes (Storage.upsert).
THEOREM NoRevival == Spec => OnlyAssignRevives
  <1>1. IInv /\ EInv /\ [Next]_vars =>
          [\A k \in Ids :
              db[k].deleted /\ db'[k] # db[k] =>
                \E c \in db'[k].writers \ db[k].writers :
                    job[c].op = "assign"]_vars
    BY NextRevives DEF Revives
  <1>2. QED
    BY <1>1, Invariance, Telling, PTL DEF Spec, OnlyAssignRevives
=============================================================================
