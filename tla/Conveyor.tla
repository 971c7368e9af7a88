------------------------------ MODULE Conveyor ------------------------------
(***************************************************************************)
(* libraries/conveyor: callers hand over one unit each and await its       *)
(* result; the units that come while the processor is at work form the     *)
(* next batch.  storages.sql inserts its records this way.  What happens   *)
(* between two awaits is one action.                                       *)
(***************************************************************************)
EXTENDS Naturals, Sequences

CONSTANTS
    Calls,      \* calls of process(), each with a unit of its own
    Faulty,     \* may the processor reject (or answer nothing)?
    None        \* a promise that is pending

ASSUME CallsAssumption ==
    /\ Faulty \in BOOLEAN
    /\ {None, "same", "exception"} \cap Calls = {}
    /\ None \notin {"same", "exception"}

VARIABLES
    batch,      \* #batch and #promises, which are parallel
    busy,       \* #busy
    flying,     \* units and promises of the #process() that is at work
    awaited,    \* has the processor yet to answer it?
    answer,     \* what the promise of each call was settled with
    arrived,    \* ghost: the units in the order process() was called
    handed      \* ghost: the units in the order the processor got them

vars == <<batch, busy, flying, awaited, answer, arrived, handed>>

\* Who is in a sequence.
Members(s) == {s[i] : i \in DOMAIN s}

\* The result of a unit of its own is named by the call.
Answers == Calls \cup {None, "same", "exception"}

TypeOK ==
    /\ batch \in Seq(Calls) /\ flying \in Seq(Calls)
    /\ arrived \in Seq(Calls) /\ handed \in Seq(Calls)
    /\ busy \in BOOLEAN /\ awaited \in BOOLEAN
    /\ answer \in [Calls -> Answers]

Init ==
    /\ batch = <<>> /\ flying = <<>>
    /\ busy = FALSE /\ awaited = FALSE
    /\ answer = [c \in Calls |-> None]
    /\ arrived = <<>> /\ handed = <<>>

-----------------------------------------------------------------------------
StartKept(units) ==    \* faulty: the batch is copied but not emptied
    /\ flying' = units
    /\ handed' = handed \o units
    /\ batch' = units
    /\ busy' = TRUE /\ awaited' = TRUE

\* #process() up to its await: the processor gets everything there is.
Start(units) ==
    /\ flying' = units
    /\ handed' = handed \o units
    /\ batch' = <<>>
    /\ busy' = TRUE /\ awaited' = TRUE

Process(c) ==
    /\ c \notin Members(arrived)
    /\ arrived' = Append(arrived, c)
    /\ IF busy
       THEN /\ batch' = Append(batch, c)
            /\ UNCHANGED <<busy, flying, awaited, handed>>
       ELSE Start(Append(batch, c))
    /\ UNCHANGED answer

\* The i-th of an array of results is that of the i-th unit.
Results(i) == flying[i]

\* An array of results, one result for all, or an array of the wrong length.
Values(i) == {Results(i), "same", "exception"}

Kind(v) == IF v \in {"same", "exception"} THEN v ELSE "each"

\* The promises of the batch are settled, all in the same way.
Settle ==
    \E new \in [DOMAIN flying -> UNION {Values(i) : i \in DOMAIN flying}] :
        /\ \A i \in DOMAIN flying : new[i] \in Values(i)
        /\ \A i, j \in DOMAIN flying : Kind(new[i]) = Kind(new[j])
        /\ answer' = [c \in Calls |->
                IF \E i \in DOMAIN flying : flying[i] = c
                THEN new[CHOOSE i \in DOMAIN flying : flying[i] = c]
                ELSE answer[c]]

RestIdle ==    \* faulty: the next batch waits for another call
    /\ busy' = FALSE /\ awaited' = FALSE /\ flying' = <<>>
    /\ UNCHANGED <<batch, handed>>

\* What has come meanwhile is processed next.
Rest ==
    IF batch # <<>>
    THEN Start(batch)
    ELSE /\ busy' = FALSE /\ awaited' = FALSE /\ flying' = <<>>
         /\ UNCHANGED <<batch, handed>>

\* The processor answers.
Respond ==
    /\ awaited
    /\ Settle
    /\ Rest
    /\ UNCHANGED arrived

\* The processor rejects or answers undefined: #process() throws before it
\* settles a promise and before it resets #busy.
Break ==
    /\ Faulty
    /\ awaited
    /\ awaited' = FALSE
    /\ UNCHANGED <<batch, busy, flying, answer, arrived, handed>>

Next == (\E c \in Calls : Process(c)) \/ Respond \/ Break

Spec == Init /\ [][Next]_vars

\* The processor settles, in one way or another; nobody is obliged to call.
FairSpec == Spec /\ WF_vars(Respond \/ Break)

-----------------------------------------------------------------------------
(* Properties *)

\* "sequentially processes units" (readme.md): the processor gets every unit
\* once and in the order of the calls, whatever the batches.
InOrder == arrived = handed \o batch

\* A promise that is pending belongs to a unit that waits in the batch or is
\* with the #process() at work: a second batch never takes its place.
NoneForgotten ==
    \A c \in Members(arrived) :
        answer[c] = None => c \in Members(batch) \cup Members(flying)

\* Whoever gets a result of an array gets that of the own unit.
OwnResult == \A c \in Calls : answer[c] \in {None, c, "same", "exception"}

\* After a failure of the processor nobody will reset #busy.
Stuck == busy /\ ~ awaited

\* Every unit is answered, unless the processor fails on the way.
Delivered == []<>(\A c \in Members(arrived) : answer[c] # None \/ Stuck)

\* No unit is lost, repeated, reordered or answered for another, and no
\* promise is forgotten while a batch is at work (conveyor.js).
UnitsKept == TypeOK /\ InOrder /\ NoneForgotten /\ OwnResult
=============================================================================
