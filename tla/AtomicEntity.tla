---------------------------- MODULE AtomicEntity ----------------------------
(***************************************************************************)
(* What the entity state promises: every call takes effect at most once,   *)
(* at one instant, on the record as it is at that instant, and only if the *)
(* record then satisfies the call's query.  There are no copies, no        *)
(* retries, no conflicts and no lost updates.                              *)
(***************************************************************************)
EXTENDS EntityData

VARIABLES
    recs,   \* the record of each id
    job,    \* the job of each call, None before it is accepted
    done    \* calls that have taken effect

vars == <<recs, job, done>>

Init ==
    /\ Stored(recs)
    /\ job = [c \in Calls |-> None]
    /\ done = {}

Accept(c) ==
    /\ job[c] = None
    /\ \E j \in Jobs : job' = [job EXCEPT ![c] = j]
    /\ UNCHANGED <<recs, done>>

\* The effect of call c on the record k: the next version carries c on top of
\* everything the current one carries.
Apply(c, k) ==
    /\ c \notin done
    /\ done' = done \cup {c}
    /\ \E s \in Slugs \cup {None}, d \in BOOLEAN :
        recs' = [recs EXCEPT ![k] =
                    [version |-> @.version + 1, deleted |-> d, slug |-> s,
                     writers |-> @.writers \cup {c}]]
    /\ UNCHANGED job

\* A transition changes a live record that matches, or creates one.
Transit(c, k) ==
    /\ job[c] \in Jobs /\ job[c].op = "transit"
    /\ LET q == job[c].query IN
        \/ q # None /\ Matches(q, k, recs[k]) /\ ~ recs[k].deleted
        \/ q # None /\ Implied(q) /\ k = q.id /\ ~ Exists(recs[k])
        \/ q = None /\ k = c /\ ~ Exists(recs[k])
    /\ Apply(c, k)

\* An assignment changes a record that matches, be it deleted or not.
Assign(c, k) ==
    /\ job[c] \in Jobs /\ job[c].op = "assign"
    /\ Matches(job[c].query, k, recs[k])
    /\ Apply(c, k)

\* An effect creates its entity only where no record has the properties.
Ensure(c) ==
    /\ job[c] \in Jobs /\ job[c].op = "ensure"
    /\ \A k \in Ids : ~ Matches(job[c].query, k, recs[k])
    /\ ~ Exists(recs[c])
    /\ Apply(c, c)

Next ==
    \E c \in Calls :
        \/ Accept(c)
        \/ \E k \in Ids : Transit(c, k) \/ Assign(c, k)
        \/ Ensure(c)

Spec == Init /\ [][Next]_vars
=============================================================================
