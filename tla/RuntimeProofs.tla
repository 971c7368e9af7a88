--------------------------- MODULE RuntimeProofs ---------------------------
(***************************************************************************)
(* For any callers and any processor, units are processed in the order of  *)
(* the calls, none is forgotten and every caller gets the result of the    *)
(* own unit. For any graph of connectors, frames refer to frames that have *)
(* begun; under one root, linked at every dependency and without cycles,   *)
(* a connector is connected only on connected ones.                        *)
(***************************************************************************)
EXTENDS Conveyor, Connector, TLAPS

-----------------------------------------------------------------------------
(* The conveyor *)

\* Nothing is queued or at work while the conveyor is not busy, and the
\* processor is awaited only while it is: why Process may start a batch
\* without overwriting one.
Resting ==
    /\ ~ busy => batch = <<>> /\ flying = <<>>
    /\ awaited => busy

IInv == TypeOK /\ InOrder /\ NoneForgotten /\ OwnResult /\ Resting

-----------------------------------------------------------------------------
(* Sequences *)

\* The members of a sequence that grew by one.
LEMMA MembersAppend ==
    ASSUME NEW S, NEW s \in Seq(S), NEW x \in S
    PROVE  Members(Append(s, x)) = Members(s) \cup {x}
<1>1. DOMAIN Append(s, x) = 1..Len(s) + 1 /\ DOMAIN s = 1..Len(s)
  OBVIOUS
<1>2. \A i \in DOMAIN s : Append(s, x)[i] = s[i]
  OBVIOUS
<1>3. Append(s, x)[Len(s) + 1] = x
  OBVIOUS
<1> QED
  BY <1>1, <1>2, <1>3 DEF Members

\* Concatenation goes on where appending ends.
LEMMA AppendConcat ==
    ASSUME NEW S, NEW s \in Seq(S), NEW t \in Seq(S), NEW x \in S
    PROVE  /\ s \o Append(t, x) = Append(s \o t, x)
           /\ s \o <<>> = s
           /\ s \o t \in Seq(S)
  OBVIOUS

-----------------------------------------------------------------------------
(* The inductive invariant *)

\* The initial state satisfies the invariant.
LEMMA InitIInv == Init => IInv
<1> SUFFICES ASSUME Init PROVE IInv
  OBVIOUS
<1>1. TypeOK
  <2>1. batch \in Seq(Calls) /\ flying \in Seq(Calls)
    BY DEF Init
  <2>2. arrived \in Seq(Calls) /\ handed \in Seq(Calls)
    BY DEF Init
  <2>3. answer \in [Calls -> Answers]
    BY DEF Init, Answers
  <2>4. busy \in BOOLEAN /\ awaited \in BOOLEAN
    BY DEF Init
  <2> QED
    BY <2>1, <2>2, <2>3, <2>4 DEF TypeOK
<1>2. InOrder
  BY AppendConcat DEF Init, InOrder
<1>3. NoneForgotten
  BY DEF Init, NoneForgotten, Members
<1>4. OwnResult /\ Resting
  BY DEF Init, OwnResult, Resting
<1> QED
  BY <1>1, <1>2, <1>3, <1>4 DEF IInv

\* A call of process() preserves it.
LEMMA ProcessIInv == ASSUME IInv, NEW c \in Calls, Process(c) PROVE IInv'
<1> USE DEF IInv
<1>1. arrived' = Append(arrived, c) /\ answer' = answer
  BY DEF Process
<1>2. Members(arrived)' = Members(arrived) \cup {c}
  <2>1. Members(arrived)' = Members(Append(arrived, c))
    BY <1>1 DEF Members
  <2>2. arrived \in Seq(Calls)
    BY DEF TypeOK
  <2> QED
    BY <2>1, <2>2, MembersAppend
<1>3. Append(batch, c) \in Seq(Calls)
  BY DEF TypeOK
<1>4. Members(Append(batch, c)) = Members(batch) \cup {c}
  BY MembersAppend DEF TypeOK
<1>5. handed \o Append(batch, c) = Append(arrived, c)
  BY AppendConcat DEF TypeOK, InOrder
<1>6. OwnResult'
  BY <1>1 DEF OwnResult
<1>7. CASE busy
  <2>1. batch' = Append(batch, c) /\ UNCHANGED <<busy, flying, awaited, handed>>
    BY <1>7 DEF Process
  <2>2. TypeOK'
    BY <1>1, <1>3, <2>1 DEF TypeOK
  <2>3. InOrder'
    BY <1>1, <1>5, <2>1 DEF InOrder
  <2>4. Members(batch)' = Members(batch) \cup {c}
    <3>1. Members(batch)' = Members(Append(batch, c))
      BY <2>1 DEF Members
    <3> QED
      BY <3>1, <1>4
  <2>5. Members(flying)' = Members(flying)
    BY <2>1 DEF Members
  <2>6. NoneForgotten'
    BY <1>1, <1>2, <2>4, <2>5 DEF NoneForgotten
  <2>7. Resting'
    BY <1>7, <2>1 DEF Resting
  <2> QED
    BY <1>6, <2>2, <2>3, <2>6, <2>7
<1>8. CASE ~ busy
  <2>1. /\ flying' = Append(batch, c)
        /\ handed' = handed \o Append(batch, c)
        /\ batch' = <<>> /\ busy' = TRUE /\ awaited' = TRUE
    BY <1>8 DEF Process, Start
  <2>2. TypeOK'
    BY <1>1, <1>3, <1>5, <2>1 DEF TypeOK
  <2>3. InOrder'
    BY <1>1, <1>5, <2>1, <2>2, AppendConcat DEF InOrder, TypeOK
  <2>4. Members(batch) = {} /\ Members(flying) = {}
    BY <1>8 DEF Resting, Members
  <2>5. Members(flying)' = Members(Append(batch, c))
    BY <2>1 DEF Members
  <2>6. NoneForgotten'
    BY <1>1, <1>2, <1>4, <2>4, <2>5 DEF NoneForgotten
  <2>7. Resting'
    BY <2>1 DEF Resting
  <2> QED
    BY <1>6, <2>2, <2>3, <2>6, <2>7
<1> QED
  BY <1>7, <1>8

\* An answer settles every promise at work with a value of its own, and no
\* other promise.
LEMMA Settlement ==
    ASSUME TypeOK, Settle
    PROVE  /\ answer' \in [Calls -> Answers]
           /\ \A c \in Members(flying) : answer'[c] \in {c, "same", "exception"}
           /\ \A c \in Calls \ Members(flying) : answer'[c] = answer[c]
<1>1. PICK new \in [DOMAIN flying -> UNION {Values(i) : i \in DOMAIN flying}] :
        /\ \A i \in DOMAIN flying : new[i] \in Values(i)
        /\ answer' = [c \in Calls |->
                IF \E i \in DOMAIN flying : flying[i] = c
                THEN new[CHOOSE i \in DOMAIN flying : flying[i] = c]
                ELSE answer[c]]
  BY Zenon DEF Settle
<1>2. ASSUME NEW c \in Members(flying)
      PROVE  answer'[c] \in {c, "same", "exception"}
  <2>1. PICK i \in DOMAIN flying : flying[i] = c
    BY DEF Members
  <2>2. c \in Calls
    BY <2>1 DEF TypeOK
  <2> DEFINE k == CHOOSE j \in DOMAIN flying : flying[j] = c
  <2>3. k \in DOMAIN flying /\ flying[k] = c
    BY <2>1
  <2>4. answer'[c] = new[k]
    BY <1>1, <2>1, <2>2
  <2>5. new[k] \in {flying[k], "same", "exception"}
    BY <1>1, <2>3 DEF Values, Results
  <2> QED
    BY <2>3, <2>4, <2>5
<1>3. ASSUME NEW c \in Calls \ Members(flying)
      PROVE  answer'[c] = answer[c]
  BY <1>1 DEF Members
<1>4. answer' \in [Calls -> Answers]
  <2>1. DOMAIN answer' = Calls /\ answer' = [c \in Calls |-> answer'[c]]
    BY <1>1
  <2>2. \A c \in Calls : answer'[c] \in Answers
    BY <1>2, <1>3 DEF Answers, TypeOK
  <2> QED
    BY <2>1, <2>2
<1> QED
  BY <1>2, <1>3, <1>4

\* The processor's answer preserves the invariant.
LEMMA RespondIInv == ASSUME IInv, Respond PROVE IInv'
<1> USE DEF IInv
<1>1. /\ awaited /\ Settle /\ Rest /\ arrived' = arrived
  BY DEF Respond
<1>2. /\ answer' \in [Calls -> Answers]
      /\ \A c \in Members(flying) : answer'[c] \in {c, "same", "exception"}
      /\ \A c \in Calls \ Members(flying) : answer'[c] = answer[c]
  BY <1>1, Settlement
<1>3. Members(arrived) \subseteq Calls /\ Members(flying) \subseteq Calls
  BY DEF TypeOK, Members
<1>4. OwnResult'
  BY <1>2, <1>3 DEF OwnResult
<1>5. \A c \in Members(arrived) : answer'[c] = None => c \in Members(batch)
  BY <1>2, <1>3, CallsAssumption DEF NoneForgotten
<1>6. CASE batch # <<>>
  <2>1. /\ flying' = batch /\ handed' = handed \o batch
        /\ batch' = <<>> /\ busy' = TRUE /\ awaited' = TRUE
    BY <1>1, <1>6 DEF Rest, Start
  <2>2. TypeOK'
    <3>1. handed \o batch \in Seq(Calls)
      BY DEF TypeOK
    <3> QED
      BY <1>1, <1>2, <2>1, <3>1 DEF TypeOK
  <2>3. InOrder'
    BY <1>1, <2>1, <2>2 DEF InOrder, TypeOK
  <2>4. NoneForgotten'
    BY <1>1, <1>5, <2>1 DEF NoneForgotten, Members
  <2> QED
    BY <1>4, <2>1, <2>2, <2>3, <2>4 DEF Resting
<1>7. CASE batch = <<>>
  <2>1. /\ busy' = FALSE /\ awaited' = FALSE /\ flying' = <<>>
        /\ batch' = batch /\ handed' = handed
    BY <1>1, <1>7 DEF Rest
  <2>2. TypeOK'
    <3>1. flying' \in Seq(Calls)
      BY <2>1
    <3>2. batch' \in Seq(Calls) /\ arrived' \in Seq(Calls) /\ handed' \in Seq(Calls)
      BY <1>1, <2>1 DEF TypeOK
    <3>3. busy' \in BOOLEAN /\ awaited' \in BOOLEAN
      BY <2>1
    <3> QED
      BY <1>2, <3>1, <3>2, <3>3 DEF TypeOK
  <2>3. InOrder'
    BY <1>1, <2>1 DEF InOrder
  <2>4. NoneForgotten'
    BY <1>1, <1>5, <2>1 DEF NoneForgotten, Members
  <2> QED
    BY <1>4, <1>7, <2>1, <2>2, <2>3, <2>4 DEF Resting
<1> QED
  BY <1>6, <1>7

\* Every step preserves the invariant.
LEMMA NextIInv == IInv /\ [Next]_vars => IInv'
<1> SUFFICES ASSUME IInv, [Next]_vars PROVE IInv'
  OBVIOUS
<1>1. ASSUME NEW c \in Calls, Process(c) PROVE IInv'
  BY <1>1, ProcessIInv
<1>2. CASE Respond
  BY <1>2, RespondIInv
<1>3. CASE Break
  <2>1. awaited' = FALSE /\ UNCHANGED <<batch, busy, flying, answer, arrived, handed>>
    BY <1>3 DEF Break
  <2>2. TypeOK'
    BY <2>1 DEF IInv, TypeOK
  <2>3. InOrder' /\ OwnResult' /\ Resting'
    BY <2>1 DEF IInv, InOrder, OwnResult, Resting
  <2>4. NoneForgotten'
    BY <2>1 DEF IInv, NoneForgotten, Members
  <2> QED
    BY <2>2, <2>3, <2>4 DEF IInv
<1>4. CASE UNCHANGED vars
  <2>1. TypeOK' /\ InOrder' /\ OwnResult' /\ Resting'
    BY <1>4 DEF vars, IInv, TypeOK, InOrder, OwnResult, Resting
  <2>2. NoneForgotten'
    BY <1>4 DEF vars, IInv, NoneForgotten, Members
  <2> QED
    BY <2>1, <2>2 DEF IInv
<1> QED
  BY <1>1, <1>2, <1>3, <1>4 DEF Next

\* The inductive invariant holds in every reachable state.
THEOREM Invariance == Spec => []IInv
  BY InitIInv, NextIInv, PTL DEF Spec

\* Units reach the processor once each, in the order of the calls, however
\* calls and answers interleave (conveyor.js process, #process).
THEOREM Sequential == Spec => []InOrder
<1>1. IInv => InOrder
  BY DEF IInv
<1> QED
  BY <1>1, Invariance, PTL

\* No pending promise loses its unit, the processor's failures included.
THEOREM Kept == Spec => []NoneForgotten
<1>1. IInv => NoneForgotten
  BY DEF IInv
<1> QED
  BY <1>1, Invariance, PTL

\* No caller gets the result of another's unit.
THEOREM Own == Spec => []OwnResult
<1>1. IInv => OwnResult
  BY DEF IInv
<1> QED
  BY <1>1, Invariance, PTL

\* The whole of what a conveyor keeps, as the runs check it.
THEOREM Units == Spec => []UnitsKept
<1>1. IInv => UnitsKept
  BY DEF IInv, UnitsKept
<1> QED
  BY <1>1, Invariance, PTL

-----------------------------------------------------------------------------
(* The hierarchy of connectors *)

\* A graph as one program builds it: under one root, on which nothing depends,
\* linked at every dependency, and without cycles.
Rooted(r) ==
    /\ Roots = {r} /\ r \in Nodes
    /\ \A p \in Nodes : r \notin Deps[p]
    /\ \A i \in Nodes : Links[i] = {p \in Nodes : i \in Deps[p]}
    /\ \A S \in SUBSET Nodes :
        S # {} => \E i \in S : \A p \in S : i \notin Deps[p]

\* The frames of a connector's connections and of its disconnections, and what
\* a root has asked for.
UpFrames(i) == [status : UpStatus, on : [Deps[i] -> Nat], undo : Nat,
                by : {Program} \cup (Nodes \X Nat)]
DownFrames(i) == [status : DownStatus, on : Nat, subs : {<<>>} \cup [Deps[i] -> Nat]]

Asks == [connect : 0..Connects, disconnect : 0..Disconnects, interrupt : 0..Interrupts]

\* The shape of every variable, frames included.
GraphShaped ==
    /\ connected \in [Nodes -> BOOLEAN]
    /\ connecting \in [Nodes -> Nat]
    /\ disconnecting \in [Nodes -> Nat]
    /\ DOMAIN ups = Nodes /\ \A i \in Nodes : ups[i] \in Seq(UpFrames(i))
    /\ DOMAIN downs = Nodes /\ \A i \in Nodes : downs[i] \in Seq(DownFrames(i))
    /\ asked \in [Roots -> Asks]

\* Whatever a connector or a frame refers to is a frame that has begun.
Pointing ==
    \A i \in Nodes :
        /\ connecting[i] \in {0} \cup DOMAIN ups[i]
        /\ disconnecting[i] \in {0} \cup DOMAIN downs[i]
        /\ \A n \in DOMAIN ups[i] :
            /\ \A d \in Deps[i] : ups[i][n].on[d] \in DOMAIN ups[d]
            /\ ups[i][n].status \in {"undo", "failed"} => ups[i][n].undo \in DOMAIN downs[i]
        /\ \A n \in DOMAIN downs[i] :
            /\ downs[i][n].status = "wait" => downs[i][n].on \in {0} \cup DOMAIN ups[i]
            /\ downs[i][n].status = "join" => downs[i][n].on \in DOMAIN downs[i]
            /\ downs[i][n].status = "deps" => \A d \in Deps[i] : downs[i][n].subs[d] \in DOMAIN downs[d]

\* A connection that awaits its dependencies or its own open().
Rising(i, n) == ups[i][n].status \in {"deps", "open"}

\* A connection under way is the connector's present one, and so are those of
\* the dependencies that it awaits.
Present ==
    \A i \in Nodes : \A n \in DOMAIN ups[i] : Rising(i, n) =>
        /\ n = connecting[i]
        /\ \A d \in Deps[i] : ups[i][n].on[d] = connecting[d] /\ connecting[d] # 0

\* It is awaited by that of a dependant, up to the root.
Called(r) ==
    \A i \in Nodes \ {r} : \A n \in DOMAIN ups[i] : Rising(i, n) =>
        \E p \in Nodes : i \in Deps[p] /\ \E m \in DOMAIN ups[p] : ups[p][m].status = "deps"

\* open() is called on top of what is connected.
Founded ==
    \A i \in Nodes : \A n \in DOMAIN ups[i] : ups[i][n].status = "open" =>
        \A d \in Deps[i] : ups[d][connecting[d]].status = "ok"

\* The present connection, once it is there, is one.
Lasting ==
    \A i \in Nodes : connecting[i] # 0 =>
        /\ connecting[i] \in DOMAIN ups[i]
        /\ ups[i][connecting[i]].status = "ok" => connected[i]

\* A disconnection of the root awaits its present connection or finds none,
\* and there is none from its close() on.
Leaving(r) ==
    \A n \in DOMAIN downs[r] :
        /\ downs[r][n].status = "wait" => connecting[r] \in {0, downs[r][n].on}
        /\ downs[r][n].status \in {"close", "deps"} => connecting[r] = 0

\* Any other disconnection is one that a dependant awaits.
Dismissed(r) ==
    \A i \in Nodes \ {r} : \A n \in DOMAIN downs[i] : downs[i][n].status # "done" =>
        \E p \in Nodes : i \in Deps[p] /\ \E m \in DOMAIN downs[p] :
            downs[p][m].status = "deps" /\ downs[p][m].subs[i] = n

\* None fails.
Unfailing == \A i \in Nodes : \A n \in DOMAIN downs[i] : downs[i][n].status # "failed"

\* What makes it so, until a connection fails or is interrupted.
Poised(r) ==
    Undisturbed =>
        /\ Present /\ Called(r) /\ Founded /\ Lasting
        /\ Leaving(r) /\ Dismissed(r) /\ Unfailing
        /\ UpOnDependencies

\* The invariant under one root.
GraphInv(r) == GraphShaped /\ Poised(r)

-----------------------------------------------------------------------------
(* Frames *)

\* A connection that goes on keeps what it awaits, and all others stay.
LEMMA UpMoves ==
    ASSUME NEW u, NEW v, DOMAIN u = Nodes, \A j \in Nodes : u[j] \in Seq(UpFrames(j)),
           NEW i \in Nodes, NEW n \in DOMAIN u[i], NEW s \in UpStatus,
           v = [u EXCEPT ![i][n].status = s]
    PROVE  /\ DOMAIN v = Nodes
           /\ \A j \in Nodes : v[j] \in Seq(UpFrames(j)) /\ DOMAIN v[j] = DOMAIN u[j]
           /\ \A j \in Nodes : \A m \in DOMAIN u[j] :
                /\ v[j][m].on = u[j][m].on /\ v[j][m].undo = u[j][m].undo
                /\ ~ (j = i /\ m = n) => v[j][m] = u[j][m]
           /\ v[i][n].status = s
<1>1. DOMAIN v = Nodes /\ \A j \in Nodes \ {i} : v[j] = u[j]
  OBVIOUS
<1>2. v[i] = [u[i] EXCEPT ![n].status = s] /\ u[i] \in Seq(UpFrames(i))
  OBVIOUS
<1>3. u[i][n] \in UpFrames(i) /\ [u[i][n] EXCEPT !.status = s] \in UpFrames(i)
  <2>1. PICK f \in UpFrames(i) : f = u[i][n]
    BY <1>2
  <2>2. [f EXCEPT !.status = s] \in UpFrames(i)
    BY <2>1 DEF UpFrames
  <2> QED
    BY <2>1, <2>2
<1>4. v[i] \in Seq(UpFrames(i)) /\ DOMAIN v[i] = DOMAIN u[i]
  BY <1>2, <1>3
<1>5. v[i][n] = [u[i][n] EXCEPT !.status = s]
  BY <1>2
<1>6. v[i][n].status = s /\ v[i][n].on = u[i][n].on /\ v[i][n].undo = u[i][n].undo
  BY <1>3, <1>5 DEF UpFrames
<1>7. \A m \in DOMAIN u[i] : m # n => v[i][m] = u[i][m]
  BY <1>2
<1>8. \A j \in Nodes : v[j] \in Seq(UpFrames(j)) /\ DOMAIN v[j] = DOMAIN u[j]
  BY <1>1, <1>4
<1>9. ASSUME NEW j \in Nodes, NEW m \in DOMAIN u[j]
      PROVE  v[j][m].on = u[j][m].on /\ v[j][m].undo = u[j][m].undo /\ (~ (j = i /\ m = n) => v[j][m] = u[j][m])
  <2>1. CASE j # i
    BY <1>1, <2>1
  <2>2. CASE j = i /\ m # n
    BY <1>7, <2>2
  <2>3. CASE j = i /\ m = n
    BY <1>6, <2>3
  <2> QED
    BY <2>1, <2>2, <2>3
<1> QED
  BY <1>1, <1>6, <1>8, <1>9

\* So does a disconnection that changes in its status alone.
LEMMA DownMoves ==
    ASSUME NEW u, NEW v, DOMAIN u = Nodes, \A j \in Nodes : u[j] \in Seq(DownFrames(j)),
           NEW i \in Nodes, NEW n \in DOMAIN u[i], NEW s \in DownStatus,
           v = [u EXCEPT ![i][n].status = s]
    PROVE  /\ DOMAIN v = Nodes
           /\ \A j \in Nodes : v[j] \in Seq(DownFrames(j)) /\ DOMAIN v[j] = DOMAIN u[j]
           /\ \A j \in Nodes : \A m \in DOMAIN u[j] :
                /\ v[j][m].on = u[j][m].on /\ v[j][m].subs = u[j][m].subs
                /\ ~ (j = i /\ m = n) => v[j][m] = u[j][m]
           /\ v[i][n].status = s
<1>1. DOMAIN v = Nodes /\ \A j \in Nodes \ {i} : v[j] = u[j]
  OBVIOUS
<1>2. v[i] = [u[i] EXCEPT ![n].status = s] /\ u[i] \in Seq(DownFrames(i))
  OBVIOUS
<1>3. u[i][n] \in DownFrames(i) /\ [u[i][n] EXCEPT !.status = s] \in DownFrames(i)
  <2>1. PICK f \in DownFrames(i) : f = u[i][n]
    BY <1>2
  <2>2. [f EXCEPT !.status = s] \in DownFrames(i)
    BY <2>1 DEF DownFrames
  <2> QED
    BY <2>1, <2>2
<1>4. v[i] \in Seq(DownFrames(i)) /\ DOMAIN v[i] = DOMAIN u[i]
  BY <1>2, <1>3
<1>5. v[i][n] = [u[i][n] EXCEPT !.status = s]
  BY <1>2
<1>6. v[i][n].status = s /\ v[i][n].on = u[i][n].on /\ v[i][n].subs = u[i][n].subs
  BY <1>3, <1>5 DEF DownFrames
<1>7. \A m \in DOMAIN u[i] : m # n => v[i][m] = u[i][m]
  BY <1>2
<1>8. \A j \in Nodes : v[j] \in Seq(DownFrames(j)) /\ DOMAIN v[j] = DOMAIN u[j]
  BY <1>1, <1>4
<1>9. ASSUME NEW j \in Nodes, NEW m \in DOMAIN u[j]
      PROVE  v[j][m].on = u[j][m].on /\ v[j][m].subs = u[j][m].subs /\ (~ (j = i /\ m = n) => v[j][m] = u[j][m])
  <2>1. CASE j # i
    BY <1>1, <2>1
  <2>2. CASE j = i /\ m # n
    BY <1>7, <2>2
  <2>3. CASE j = i /\ m = n
    BY <1>6, <2>3
  <2> QED
    BY <2>1, <2>2, <2>3
<1> QED
  BY <1>1, <1>6, <1>8, <1>9

\* What appending a frame does to a sequence of frames.
LEMMA Grown ==
    ASSUME NEW F, NEW s \in Seq(F), NEW x \in F
    PROVE  /\ Append(s, x) \in Seq(F)
           /\ Len(s) + 1 \in DOMAIN Append(s, x) /\ Append(s, x)[Len(s) + 1] = x
           /\ \A m \in DOMAIN s : m \in DOMAIN Append(s, x) /\ Append(s, x)[m] = s[m]
           /\ \A m \in DOMAIN Append(s, x) : m \in DOMAIN s \/ m = Len(s) + 1
           /\ Len(s) + 1 \notin DOMAIN s /\ Len(s) + 1 \in Nat /\ Len(s) + 1 # 0
  OBVIOUS

\* What a disconnection starts with, and what it starts below.
LEMMA NewFrames ==
    ASSUME GraphShaped, NEW i \in Nodes
    PROVE  /\ Waiting(i) \in DownFrames(i) /\ Waiting(i).status = "wait"
           /\ Waiting(i).on = connecting[i]
           /\ SubFrames(i) \in [Deps[i] -> Nat]
           /\ \A d \in Deps[i] : SubFrames(i)[d] = Len(downs[d]) + 1
           /\ Deps[i] \subseteq Nodes /\ i \notin Deps[i]
<1>1. Deps[i] \subseteq Nodes /\ i \notin Deps[i]
  BY Graph
<1>2. connecting[i] \in Nat /\ \A d \in Deps[i] : Len(downs[d]) + 1 \in Nat
  BY <1>1 DEF GraphShaped
<1>3. Waiting(i) \in DownFrames(i) /\ Waiting(i).status = "wait" /\ Waiting(i).on = connecting[i]
  BY <1>2 DEF Waiting, DownFrames, DownStatus
<1>4. SubFrames(i) \in [Deps[i] -> Nat] /\ \A d \in Deps[i] : SubFrames(i)[d] = Len(downs[d]) + 1
  BY <1>2 DEF SubFrames, NextFrame
<1> QED
  BY <1>1, <1>3, <1>4

\* disconnect(true), if it is the first, begins with a frame for the connector
\* and one for each dependency.
LEMMA InterruptFrames ==
    ASSUME GraphShaped, NEW i \in Nodes, Interrupt(i)
    PROVE  /\ connected' \in [Nodes -> BOOLEAN] /\ connecting' \in [Nodes -> Nat]
           /\ disconnecting' \in [Nodes -> Nat]
           /\ DOMAIN downs' = Nodes /\ \A j \in Nodes : downs'[j] \in Seq(DownFrames(j))
           /\ \A j \in Nodes : connecting'[j] \in {0, connecting[j]}
           /\ \A j \in Nodes : disconnecting'[j] = disconnecting[j] \/ disconnecting'[j] \in DOMAIN downs'[j]
           /\ \A j \in Nodes : \A m \in DOMAIN downs[j] :
                m \in DOMAIN downs'[j] /\ downs'[j][m] = downs[j][m]
           /\ \A j \in Nodes : \A m \in DOMAIN downs'[j] \ DOMAIN downs[j] :
                \/ downs'[j][m].status = "wait" /\ downs'[j][m].on = connecting[j]
                \/ /\ downs'[j][m].status = "deps"
                   /\ \A d \in Deps[j] : downs'[j][m].subs[d] \in DOMAIN downs'[d]
           /\ disconnecting'[i] # 0
<1>1. CASE disconnecting[i] # 0
  <2>1. UNCHANGED <<connected, connecting, disconnecting, downs>>
    BY <1>1 DEF Interrupt
  <2> QED
    BY <1>1, <2>1 DEF GraphShaped
<1>2. CASE disconnecting[i] = 0
  <2> DEFINE own == [status |-> "deps", on |-> 0, subs |-> SubFrames(i)]
  <2>1. /\ connected' = [connected EXCEPT ![i] = FALSE]
        /\ connecting' = [connecting EXCEPT ![i] = 0]
        /\ disconnecting' = [disconnecting EXCEPT ![i] = Len(downs[i]) + 1]
        /\ downs' = [j \in Nodes |-> CASE j = i -> Append(downs[j], own)
                                       [] j \in Deps[i] -> Append(downs[j], Waiting(j))
                                       [] OTHER -> downs[j]]
    BY <1>2 DEF Interrupt, NextFrame
  <2>2. own \in DownFrames(i) /\ own.status = "deps" /\ own.subs = SubFrames(i)
    BY NewFrames DEF DownFrames, DownStatus
  <2>3. /\ DOMAIN downs' = Nodes /\ downs'[i] = Append(downs[i], own)
        /\ \A j \in Deps[i] : downs'[j] = Append(downs[j], Waiting(j))
        /\ \A j \in Nodes \ ({i} \cup Deps[i]) : downs'[j] = downs[j]
    BY <2>1, NewFrames
  <2> HIDE DEF own
  <2>4. \A j \in Nodes : downs[j] \in Seq(DownFrames(j))
    BY DEF GraphShaped
  <2>5. /\ downs'[i] \in Seq(DownFrames(i))
        /\ Len(downs[i]) + 1 \in DOMAIN downs'[i] /\ downs'[i][Len(downs[i]) + 1] = own
        /\ \A m \in DOMAIN downs[i] : m \in DOMAIN downs'[i] /\ downs'[i][m] = downs[i][m]
        /\ \A m \in DOMAIN downs'[i] : m \in DOMAIN downs[i] \/ m = Len(downs[i]) + 1
        /\ Len(downs[i]) + 1 \in Nat /\ Len(downs[i]) + 1 # 0
    BY <2>2, <2>3, <2>4, Grown
  <2>6. ASSUME NEW j \in Deps[i]
        PROVE  /\ downs'[j] \in Seq(DownFrames(j))
               /\ Len(downs[j]) + 1 \in DOMAIN downs'[j] /\ downs'[j][Len(downs[j]) + 1] = Waiting(j)
               /\ \A m \in DOMAIN downs[j] : m \in DOMAIN downs'[j] /\ downs'[j][m] = downs[j][m]
               /\ \A m \in DOMAIN downs'[j] : m \in DOMAIN downs[j] \/ m = Len(downs[j]) + 1
    <3>1. j \in Nodes /\ Waiting(j) \in DownFrames(j)
      BY NewFrames
    <3>2. downs'[j] = Append(downs[j], Waiting(j)) /\ downs[j] \in Seq(DownFrames(j))
      BY <2>3, <2>4, <3>1
    <3> HIDE DEF Waiting
    <3> QED
      BY <3>1, <3>2, Grown
  <2>7. \A j \in Nodes : downs'[j] \in Seq(DownFrames(j))
    BY <2>3, <2>4, <2>5, <2>6
  <2>8. \A j \in Nodes : \A m \in DOMAIN downs[j] : m \in DOMAIN downs'[j] /\ downs'[j][m] = downs[j][m]
    BY <2>3, <2>5, <2>6
  <2>9. ASSUME NEW j \in Nodes, NEW m \in DOMAIN downs'[j] \ DOMAIN downs[j]
        PROVE  \/ downs'[j][m].status = "wait" /\ downs'[j][m].on = connecting[j]
               \/ /\ downs'[j][m].status = "deps"
                  /\ \A d \in Deps[j] : downs'[j][m].subs[d] \in DOMAIN downs'[d]
    <3>1. CASE j = i
      <4>1. downs'[j][m] = own
        BY <2>5, <3>1
      <4> QED
        BY <2>2, <2>6, <3>1, <4>1, NewFrames
    <3>2. CASE j \in Deps[i]
      <4>1. downs'[j][m] = Waiting(j)
        BY <2>6, <3>2
      <4> QED
        BY <4>1, NewFrames
    <3>3. CASE j \notin {i} \cup Deps[i]
      BY <2>3, <3>3
    <3> QED
      BY <3>1, <3>2, <3>3
  <2>10. /\ connected' \in [Nodes -> BOOLEAN] /\ connecting' \in [Nodes -> Nat]
         /\ disconnecting' \in [Nodes -> Nat] /\ disconnecting'[i] = Len(downs[i]) + 1
         /\ \A j \in Nodes : connecting'[j] \in {0, connecting[j]}
         /\ \A j \in Nodes \ {i} : disconnecting'[j] = disconnecting[j]
    BY <2>1, <2>5 DEF GraphShaped
  <2> QED
    BY <2>3, <2>5, <2>7, <2>8, <2>9, <2>10
<1> QED
  BY <1>1, <1>2

-----------------------------------------------------------------------------
(* Every frame that is referred to has begun, in any graph *)

\* What keeps references: frames stay, and new references are to frames.
LEMMA PointsOn ==
    ASSUME GraphShaped, Pointing,
           \A j \in Nodes : DOMAIN ups[j] \subseteq DOMAIN ups'[j]
                            /\ DOMAIN downs[j] \subseteq DOMAIN downs'[j],
           \A j \in Nodes : /\ connecting'[j] \in {0, connecting[j]} \cup DOMAIN ups'[j]
                            /\ disconnecting'[j] \in {0, disconnecting[j]} \cup DOMAIN downs'[j],
           \A j \in Nodes : \A n \in DOMAIN ups'[j] :
                \/ n \in DOMAIN ups[j] /\ ups'[j][n].on = ups[j][n].on
                \/ \A d \in Deps[j] : ups'[j][n].on[d] \in DOMAIN ups'[d],
           \A j \in Nodes : \A n \in DOMAIN ups'[j] : ups'[j][n].status \in {"undo", "failed"} =>
                \/ ups'[j][n].undo \in DOMAIN downs'[j]
                \/ /\ n \in DOMAIN ups[j] /\ ups[j][n].status \in {"undo", "failed"}
                   /\ ups'[j][n].undo = ups[j][n].undo,
           \A j \in Nodes : \A n \in DOMAIN downs'[j] :
                \/ downs'[j][n].status \in {"done", "failed", "close"}
                \/ n \in DOMAIN downs[j] /\ downs'[j][n] = downs[j][n]
                \/ downs'[j][n].status = "wait" /\ downs'[j][n].on = connecting[j]
                \/ downs'[j][n].status = "join" /\ downs'[j][n].on \in DOMAIN downs'[j]
                \/ /\ downs'[j][n].status = "deps"
                   /\ \A d \in Deps[j] : downs'[j][n].subs[d] \in DOMAIN downs'[d]
    PROVE  Pointing'
<1> SUFFICES ASSUME NEW j \in Nodes
             PROVE  /\ connecting'[j] \in {0} \cup DOMAIN ups'[j]
                    /\ disconnecting'[j] \in {0} \cup DOMAIN downs'[j]
                    /\ \A n \in DOMAIN ups'[j] :
                        /\ \A d \in Deps[j] : ups'[j][n].on[d] \in DOMAIN ups'[d]
                        /\ ups'[j][n].status \in {"undo", "failed"} => ups'[j][n].undo \in DOMAIN downs'[j]
                    /\ \A n \in DOMAIN downs'[j] :
                        /\ downs'[j][n].status = "wait" => downs'[j][n].on \in {0} \cup DOMAIN ups'[j]
                        /\ downs'[j][n].status = "join" => downs'[j][n].on \in DOMAIN downs'[j]
                        /\ downs'[j][n].status = "deps" =>
                            \A d \in Deps[j] : downs'[j][n].subs[d] \in DOMAIN downs'[d]
  BY DEF Pointing
<1>1. Deps[j] \subseteq Nodes
  BY Graph
<1>2. connecting'[j] \in {0} \cup DOMAIN ups'[j] /\ disconnecting'[j] \in {0} \cup DOMAIN downs'[j]
  BY DEF Pointing
<1>3. ASSUME NEW n \in DOMAIN ups'[j], NEW d \in Deps[j] PROVE ups'[j][n].on[d] \in DOMAIN ups'[d]
  <2>1. CASE n \in DOMAIN ups[j] /\ ups'[j][n].on = ups[j][n].on
    BY <1>1, <2>1 DEF Pointing
  <2>2. CASE \A e \in Deps[j] : ups'[j][n].on[e] \in DOMAIN ups'[e]
    BY <2>2
  <2> QED
    BY <2>1, <2>2
<1>4. ASSUME NEW n \in DOMAIN ups'[j], ups'[j][n].status \in {"undo", "failed"}
      PROVE  ups'[j][n].undo \in DOMAIN downs'[j]
  <2>1. CASE /\ n \in DOMAIN ups[j] /\ ups[j][n].status \in {"undo", "failed"}
             /\ ups'[j][n].undo = ups[j][n].undo
    BY <2>1 DEF Pointing
  <2> QED
    BY <1>4, <2>1
<1>5. ASSUME NEW n \in DOMAIN downs'[j]
      PROVE  /\ downs'[j][n].status = "wait" => downs'[j][n].on \in {0} \cup DOMAIN ups'[j]
             /\ downs'[j][n].status = "join" => downs'[j][n].on \in DOMAIN downs'[j]
             /\ downs'[j][n].status = "deps" =>
                    \A d \in Deps[j] : downs'[j][n].subs[d] \in DOMAIN downs'[d]
  <2>1. CASE n \in DOMAIN downs[j] /\ downs'[j][n] = downs[j][n]
    <3>1. downs[j][n].status = "wait" => downs[j][n].on \in {0} \cup DOMAIN ups'[j]
      BY <2>1 DEF Pointing
    <3>2. downs[j][n].status = "join" => downs[j][n].on \in DOMAIN downs'[j]
      BY <2>1 DEF Pointing
    <3>3. downs[j][n].status = "deps" => \A d \in Deps[j] : downs[j][n].subs[d] \in DOMAIN downs'[d]
      BY <1>1, <2>1 DEF Pointing
    <3> QED
      BY <2>1, <3>1, <3>2, <3>3
  <2>2. CASE downs'[j][n].status = "wait" /\ downs'[j][n].on = connecting[j]
    BY <2>2 DEF Pointing
  <2>3. CASE ~ (n \in DOMAIN downs[j] /\ downs'[j][n] = downs[j][n])
             /\ ~ (downs'[j][n].status = "wait" /\ downs'[j][n].on = connecting[j])
    <3>1. \/ downs'[j][n].status \in {"done", "failed", "close"}
          \/ downs'[j][n].status = "join" /\ downs'[j][n].on \in DOMAIN downs'[j]
          \/ /\ downs'[j][n].status = "deps"
             /\ \A d \in Deps[j] : downs'[j][n].subs[d] \in DOMAIN downs'[d]
      BY <2>3
    <3> QED
      BY <3>1
  <2> QED
    BY <2>1, <2>2, <2>3
<1> QED
  BY <1>2, <1>3, <1>4, <1>5

\* Counting what the program has asked.
LEMMA AskedOn ==
    ASSUME GraphShaped, NEW r \in Roots,
           \/ asked[r].connect < Connects /\ asked' = [asked EXCEPT ![r].connect = @ + 1]
           \/ asked[r].disconnect < Disconnects /\ asked' = [asked EXCEPT ![r].disconnect = @ + 1]
           \/ asked[r].interrupt < Interrupts /\ asked' = [asked EXCEPT ![r].interrupt = @ + 1]
    PROVE  asked' \in [Roots -> Asks]
<1>1. PICK a \in Asks : a = asked[r]
  BY DEF GraphShaped
<1>2. /\ a.connect < Connects => [a EXCEPT !.connect = @ + 1] \in Asks
      /\ a.disconnect < Disconnects => [a EXCEPT !.disconnect = @ + 1] \in Asks
      /\ a.interrupt < Interrupts => [a EXCEPT !.interrupt = @ + 1] \in Asks
  BY Graph DEF Asks
<1>3. PICK b \in Asks : asked' = [asked EXCEPT ![r] = b]
  BY <1>1, <1>2
<1> QED
  BY <1>3 DEF GraphShaped

\* Nothing has begun.
LEMMA WholeInit == GraphInit => GraphShaped /\ Pointing
<1> SUFFICES ASSUME GraphInit PROVE GraphShaped /\ Pointing
  OBVIOUS
<1>1. asked \in [Roots -> Asks]
  BY Graph DEF GraphInit, Asks
<1> QED
  BY <1>1 DEF GraphInit, GraphShaped, Pointing

\* Opening, Opened and Undone change the status of a frame.
LEMMA WholeUp ==
    ASSUME GraphShaped, Pointing, NEW i \in Nodes, NEW n \in DOMAIN ups[i],
           Opening(i, n) \/ Opened(i, n) \/ Undone(i, n)
    PROVE  GraphShaped' /\ Pointing'
<1>1. PICK s \in {"open", "ok", "failed"} :
        /\ ups' = [ups EXCEPT ![i][n].status = s]
        /\ s = "failed" => ups[i][n].status = "undo"
  BY DEF Opening, Opened, Undone
<1>2. /\ UNCHANGED <<connecting, disconnecting, downs, asked>> /\ connected' \in [Nodes -> BOOLEAN]
  BY DEF Opening, Opened, Undone, GraphShaped
<1>3. DOMAIN ups = Nodes /\ (\A j \in Nodes : ups[j] \in Seq(UpFrames(j))) /\ s \in UpStatus
  BY DEF GraphShaped, UpStatus
<1>4. DOMAIN ups' = Nodes
  BY <1>1, <1>3, UpMoves
<1>5. \A j \in Nodes : ups'[j] \in Seq(UpFrames(j)) /\ DOMAIN ups'[j] = DOMAIN ups[j]
  BY <1>1, <1>3, UpMoves
<1>6. \A j \in Nodes : \A m \in DOMAIN ups[j] :
          /\ ups'[j][m].on = ups[j][m].on /\ ups'[j][m].undo = ups[j][m].undo
          /\ ~ (j = i /\ m = n) => ups'[j][m] = ups[j][m]
  BY <1>1, <1>3, UpMoves
<1>7. ups'[i][n].status = s
  BY <1>1, <1>3, UpMoves
<1>8. GraphShaped'
  BY <1>2, <1>4, <1>5 DEF GraphShaped
<1>9. \A j \in Nodes : \A m \in DOMAIN ups'[j] : ups'[j][m].status \in {"undo", "failed"} =>
          ups[j][m].status \in {"undo", "failed"}
  BY <1>1, <1>5, <1>6, <1>7
<1>10. Pointing'
  BY <1>2, <1>5, <1>6, <1>9, PointsOn
<1> QED
  BY <1>8, <1>10

\* What a connector starts contains it and whatever is not started below.
LEMMA StartingClosed ==
    ASSUME NEW r \in Nodes
    PROVE  /\ Starting(r) \subseteq Nodes /\ r \in Starting(r)
           /\ \A i \in Starting(r) : \A d \in Deps[i] : connecting[d] = 0 => d \in Starting(r)
<1>1. Starting(r) \subseteq Nodes /\ r \in Starting(r)
  BY DEF Starting
<1>2. ASSUME NEW i \in Starting(r), NEW d \in Deps[i], connecting[d] = 0 PROVE d \in Starting(r)
  <2>1. d \in Nodes
    BY <1>1, Graph
  <2>2. ASSUME NEW S \in SUBSET Nodes, r \in S,
               \A p \in S : \A e \in Deps[p] : connecting[e] = 0 => e \in S
        PROVE  d \in S
    <3>1. i \in S
      BY <2>2, Zenon DEF Starting
    <3> QED
      BY <1>2, <2>2, <3>1
  <2> QED
    BY <2>1, <2>2, Zenon DEF Starting
<1> QED
  BY <1>1, <1>2

\* connect() of the root adds a frame to each connector that it starts, which
\* awaits the present frames below.
LEMMA ConnectFrames ==
    ASSUME GraphShaped, NEW r \in Roots, Connect(r), NEW S, S = Starting(r)
    PROVE  /\ S \subseteq Nodes /\ r \in S
           /\ DOMAIN ups' = Nodes /\ \A i \in Nodes : ups'[i] \in Seq(UpFrames(i))
           /\ connecting' \in [Nodes -> Nat] /\ disconnecting' \in [Nodes -> Nat]
           /\ \A i \in Nodes \ S : ups'[i] = ups[i] /\ connecting'[i] = connecting[i]
           /\ \A i \in Nodes : disconnecting'[i] \in {0, disconnecting[i]}
           /\ \A i \in S : \A m \in DOMAIN ups[i] : m \in DOMAIN ups'[i] /\ ups'[i][m] = ups[i][m]
           /\ \A i \in S : \A m \in DOMAIN ups'[i] : m \in DOMAIN ups[i] \/ m = connecting'[i]
           /\ \A i \in S : /\ connecting'[i] \in DOMAIN ups'[i] /\ connecting'[i] # 0
                           /\ ups'[i][connecting'[i]].status = "deps"
                           /\ \A d \in Deps[i] : /\ ups'[i][connecting'[i]].on[d] = connecting'[d]
                                                 /\ connecting'[d] # 0
           /\ \A i \in S \ {r} : \E p \in S : i \in Deps[p]
<1>1. S \subseteq Nodes /\ r \in S /\ r \in Nodes
      /\ \A i \in S : \A d \in Deps[i] : connecting[d] = 0 => d \in S
  BY StartingClosed, Graph
<1> DEFINE on(i) == [d \in Deps[i] |-> IF d \in S THEN NextFrame(ups[d]) ELSE connecting[d]]
<1>2. PICK by \in [S \ {r} -> S] :
        /\ \A i \in S \ {r} : i \in Deps[by[i]]
        /\ ups' = [i \in Nodes |->
                    IF i \notin S THEN ups[i]
                    ELSE Append(ups[i],
                        [status |-> "deps", on |-> on(i), undo |-> 0,
                         by |-> IF i = r THEN Program
                                ELSE <<by[i], NextFrame(ups[by[i]])>>])]
  BY DEF Connect
<1>3. /\ connecting' = [i \in Nodes |-> IF i \in S THEN NextFrame(ups[i]) ELSE connecting[i]]
      /\ disconnecting' = [i \in Nodes |-> IF i \in S THEN 0 ELSE disconnecting[i]]
  BY DEF Connect
<1>4. \A i \in Nodes : ups[i] \in Seq(UpFrames(i)) /\ Deps[i] \subseteq Nodes
  BY Graph DEF GraphShaped
<1>5. /\ connecting' \in [Nodes -> Nat] /\ disconnecting' \in [Nodes -> Nat]
      /\ \A i \in Nodes : disconnecting'[i] \in {0, disconnecting[i]}
      /\ \A i \in Nodes \ S : connecting'[i] = connecting[i]
      /\ \A i \in S : connecting'[i] = Len(ups[i]) + 1
  BY <1>1, <1>3, <1>4 DEF GraphShaped, NextFrame
<1>6. ASSUME NEW i \in S
      PROVE  /\ on(i) \in [Deps[i] -> Nat]
             /\ \A d \in Deps[i] : on(i)[d] = connecting'[d] /\ connecting'[d] # 0
  <2>1. Deps[i] \subseteq Nodes
    BY <1>1, <1>4
  <2>2. \A d \in Deps[i] : on(i)[d] = connecting'[d] /\ connecting'[d] \in Nat
    BY <1>3, <1>5, <2>1 DEF NextFrame
  <2>3. ASSUME NEW d \in Deps[i] PROVE connecting'[d] # 0
    <3>1. CASE d \in S
      <4>1. connecting'[d] = Len(ups[d]) + 1 /\ Len(ups[d]) \in Nat
        BY <1>1, <1>4, <1>5, <3>1
      <4> QED
        BY <4>1
    <3>2. CASE d \notin S
      BY <1>1, <1>5, <2>1, <3>2
    <3> QED
      BY <3>1, <3>2
  <2> QED
    BY <2>2, <2>3
<1>7. ASSUME NEW i \in S
      PROVE  \E x \in UpFrames(i) : x.status = "deps" /\ x.on = on(i) /\ ups'[i] = Append(ups[i], x)
  <2>1. (IF i = r THEN Program ELSE <<by[i], NextFrame(ups[by[i]])>>) \in {Program} \cup (Nodes \X Nat)
    <3>1. CASE i = r
      BY <3>1
    <3>2. CASE i # r
      <4>1. by[i] \in Nodes
        BY <1>1, <3>2
      <4>2. NextFrame(ups[by[i]]) \in Nat
        BY <1>4, <4>1 DEF NextFrame
      <4> QED
        BY <3>2, <4>1, <4>2
    <3> QED
      BY <3>1, <3>2
  <2>2. PICK b \in {Program} \cup (Nodes \X Nat) : b = (IF i = r THEN Program ELSE <<by[i], NextFrame(ups[by[i]])>>)
    BY <2>1
  <2>3. PICK o \in [Deps[i] -> Nat] : o = on(i)
    BY <1>6
  <2>4. [status |-> "deps", on |-> o, undo |-> 0, by |-> b] \in UpFrames(i)
    BY <2>2, <2>3 DEF UpFrames, UpStatus
  <2>5. ups'[i] = Append(ups[i], [status |-> "deps", on |-> o, undo |-> 0, by |-> b])
    BY <1>1, <1>2, <2>2, <2>3
  <2> QED
    BY <2>3, <2>4, <2>5
<1> HIDE DEF on
<1>8. ASSUME NEW i \in S
      PROVE  /\ ups'[i] \in Seq(UpFrames(i))
             /\ \A m \in DOMAIN ups[i] : m \in DOMAIN ups'[i] /\ ups'[i][m] = ups[i][m]
             /\ \A m \in DOMAIN ups'[i] : m \in DOMAIN ups[i] \/ m = connecting'[i]
             /\ connecting'[i] \in DOMAIN ups'[i] /\ connecting'[i] # 0
             /\ ups'[i][connecting'[i]].status = "deps"
             /\ ups'[i][connecting'[i]].on = on(i)
  <2>1. PICK x \in UpFrames(i) : x.status = "deps" /\ x.on = on(i) /\ ups'[i] = Append(ups[i], x)
    BY <1>7
  <2>2. ups[i] \in Seq(UpFrames(i)) /\ connecting'[i] = Len(ups[i]) + 1
    BY <1>1, <1>4, <1>5
  <2> QED
    BY <2>1, <2>2, Grown
<1>9. DOMAIN ups' = Nodes /\ \A i \in Nodes \ S : ups'[i] = ups[i]
  BY <1>2
<1>10. \A i \in Nodes : ups'[i] \in Seq(UpFrames(i))
  BY <1>4, <1>8, <1>9
<1>11. \A i \in S \ {r} : \E p \in S : i \in Deps[p]
  BY <1>2
<1> QED
  BY <1>1, <1>5, <1>6, <1>8, <1>9, <1>10, <1>11

\* connect() of a root.
LEMMA WholeConnect ==
    ASSUME GraphShaped, Pointing, NEW r \in Roots, Connect(r)
    PROVE  GraphShaped' /\ Pointing'
<1>1. PICK S : S = Starting(r)
  OBVIOUS
<1>2. /\ S \subseteq Nodes
      /\ DOMAIN ups' = Nodes /\ \A i \in Nodes : ups'[i] \in Seq(UpFrames(i))
      /\ connecting' \in [Nodes -> Nat] /\ disconnecting' \in [Nodes -> Nat]
      /\ \A i \in Nodes \ S : ups'[i] = ups[i] /\ connecting'[i] = connecting[i]
  BY <1>1, ConnectFrames
<1>3. /\ \A i \in Nodes : disconnecting'[i] \in {0, disconnecting[i]}
      /\ \A i \in S : \A m \in DOMAIN ups[i] : m \in DOMAIN ups'[i] /\ ups'[i][m] = ups[i][m]
      /\ \A i \in S : \A m \in DOMAIN ups'[i] : m \in DOMAIN ups[i] \/ m = connecting'[i]
  BY <1>1, ConnectFrames
<1>4. \A i \in S : /\ connecting'[i] \in DOMAIN ups'[i]
                   /\ ups'[i][connecting'[i]].status = "deps"
                   /\ \A d \in Deps[i] : ups'[i][connecting'[i]].on[d] = connecting'[d] /\ connecting'[d] # 0
  BY <1>1, ConnectFrames
<1>5. /\ UNCHANGED <<connected, downs>>
      /\ asked[r].connect < Connects /\ asked' = [asked EXCEPT ![r].connect = @ + 1]
  BY DEF Connect
<1>6. asked' \in [Roots -> Asks]
  BY <1>5, AskedOn
<1>7. GraphShaped'
  BY <1>2, <1>5, <1>6 DEF GraphShaped
<1>8. \A j \in Nodes : DOMAIN ups[j] \subseteq DOMAIN ups'[j] /\ DOMAIN downs[j] \subseteq DOMAIN downs'[j]
  BY <1>2, <1>3, <1>5
<1>9. \A j \in Nodes : /\ connecting'[j] \in {0, connecting[j]} \cup DOMAIN ups'[j]
                       /\ disconnecting'[j] \in {0, disconnecting[j]} \cup DOMAIN downs'[j]
  BY <1>2, <1>3, <1>4
<1>10. \A j \in Nodes : connecting'[j] # 0 => connecting'[j] \in DOMAIN ups'[j]
  BY <1>2, <1>4 DEF Pointing
<1>11. ASSUME NEW j \in Nodes, NEW n \in DOMAIN ups'[j]
       PROVE  \/ n \in DOMAIN ups[j] /\ ups'[j][n] = ups[j][n]
              \/ /\ \A d \in Deps[j] : ups'[j][n].on[d] \in DOMAIN ups'[d]
                 /\ ups'[j][n].status = "deps"
  <2>1. CASE j \in S
    <3>1. CASE n \in DOMAIN ups[j]
      BY <1>3, <2>1, <3>1
    <3>2. CASE n = connecting'[j]
      <4>1. Deps[j] \subseteq Nodes
        BY Graph
      <4> QED
        BY <1>4, <1>10, <2>1, <3>2, <4>1
    <3> QED
      BY <1>3, <2>1, <3>1, <3>2
  <2>2. CASE j \notin S
    BY <1>2, <2>2
  <2> QED
    BY <2>1, <2>2
<1>12. Pointing'
  <2>1. \A j \in Nodes : \A n \in DOMAIN ups'[j] :
                \/ n \in DOMAIN ups[j] /\ ups'[j][n].on = ups[j][n].on
                \/ \A d \in Deps[j] : ups'[j][n].on[d] \in DOMAIN ups'[d]
    BY <1>11
  <2>2. \A j \in Nodes : \A n \in DOMAIN ups'[j] : ups'[j][n].status \in {"undo", "failed"} =>
                \/ ups'[j][n].undo \in DOMAIN downs'[j]
                \/ /\ n \in DOMAIN ups[j] /\ ups[j][n].status \in {"undo", "failed"}
                   /\ ups'[j][n].undo = ups[j][n].undo
    BY <1>11
  <2> QED
    BY <1>5, <1>8, <1>9, <2>1, <2>2, PointsOn
<1> QED
  BY <1>7, <1>12

\* A connection that fails is undone by a frame of disconnect(true).
LEMMA WholeFailed ==
    ASSUME GraphShaped, Pointing, NEW i \in Nodes, NEW n \in DOMAIN ups[i], Failed(i, n)
    PROVE  GraphShaped' /\ Pointing'
<1>1. /\ Interrupt(i) /\ UNCHANGED asked
      /\ ups' = [ups EXCEPT ![i][n].status = "undo", ![i][n].undo = disconnecting'[i]]
  BY DEF Failed
<1>2. /\ connected' \in [Nodes -> BOOLEAN] /\ connecting' \in [Nodes -> Nat]
      /\ disconnecting' \in [Nodes -> Nat]
      /\ DOMAIN downs' = Nodes /\ \A j \in Nodes : downs'[j] \in Seq(DownFrames(j))
      /\ \A j \in Nodes : connecting'[j] \in {0, connecting[j]}
      /\ \A j \in Nodes : disconnecting'[j] = disconnecting[j] \/ disconnecting'[j] \in DOMAIN downs'[j]
      /\ \A j \in Nodes : \A m \in DOMAIN downs[j] : m \in DOMAIN downs'[j] /\ downs'[j][m] = downs[j][m]
      /\ disconnecting'[i] # 0
  BY <1>1, InterruptFrames
<1>3. \A j \in Nodes : \A m \in DOMAIN downs'[j] \ DOMAIN downs[j] :
                \/ downs'[j][m].status = "wait" /\ downs'[j][m].on = connecting[j]
                \/ /\ downs'[j][m].status = "deps"
                   /\ \A d \in Deps[j] : downs'[j][m].subs[d] \in DOMAIN downs'[d]
  BY <1>1, InterruptFrames
<1>4. PICK k \in Nat : k = disconnecting'[i]
  BY <1>2
<1>5. k \in DOMAIN downs'[i]
  BY <1>2, <1>4 DEF Pointing
<1>6. PICK f \in UpFrames(i) : f = ups[i][n]
  BY DEF GraphShaped
<1>7. PICK g \in UpFrames(i) : g = [f EXCEPT !.status = "undo", !.undo = k]
  BY <1>6 DEF UpFrames, UpStatus
<1>8. g.undo = k /\ g.on = f.on
  BY <1>6, <1>7 DEF UpFrames
<1>9. DOMAIN ups = Nodes /\ \A j \in Nodes : ups[j] \in Seq(UpFrames(j))
  BY DEF GraphShaped
<1>10. DOMAIN ups' = Nodes /\ \A j \in Nodes \ {i} : ups'[j] = ups[j]
  BY <1>1, <1>9
<1>11. ups'[i] = [ups[i] EXCEPT ![n] = g]
  BY <1>1, <1>4, <1>6, <1>7, <1>9
<1>12. ups'[i] \in Seq(UpFrames(i)) /\ DOMAIN ups'[i] = DOMAIN ups[i] /\ ups'[i][n] = g
       /\ \A m \in DOMAIN ups[i] : m # n => ups'[i][m] = ups[i][m]
  BY <1>9, <1>11
<1>13. \A j \in Nodes : ups'[j] \in Seq(UpFrames(j)) /\ DOMAIN ups'[j] = DOMAIN ups[j]
  BY <1>9, <1>10, <1>12
<1>14. GraphShaped'
  BY <1>1, <1>2, <1>10, <1>13 DEF GraphShaped
<1>15. \A j \in Nodes : \A m \in DOMAIN ups'[j] : m \in DOMAIN ups[j] /\ ups'[j][m].on = ups[j][m].on
  BY <1>6, <1>8, <1>10, <1>12
<1>16. \A j \in Nodes : \A m \in DOMAIN ups'[j] :
          ups'[j][m] = ups[j][m] \/ ups'[j][m].undo \in DOMAIN downs'[j]
  BY <1>5, <1>8, <1>10, <1>12
<1>17. Pointing'
  <2>1. \A j \in Nodes : \A m \in DOMAIN ups'[j] : ups'[j][m].status \in {"undo", "failed"} =>
                \/ ups'[j][m].undo \in DOMAIN downs'[j]
                \/ /\ m \in DOMAIN ups[j] /\ ups[j][m].status \in {"undo", "failed"}
                   /\ ups'[j][m].undo = ups[j][m].undo
    BY <1>15, <1>16
  <2>2. \A j \in Nodes : /\ connecting'[j] \in {0, connecting[j]} \cup DOMAIN ups'[j]
                         /\ disconnecting'[j] \in {0, disconnecting[j]} \cup DOMAIN downs'[j]
    BY <1>2
  <2>3. \A j \in Nodes : DOMAIN ups[j] \subseteq DOMAIN ups'[j] /\ DOMAIN downs[j] \subseteq DOMAIN downs'[j]
    BY <1>2, <1>13
  <2>4. \A j \in Nodes : \A m \in DOMAIN downs'[j] :
                \/ downs'[j][m].status \in {"done", "failed", "close"}
                \/ m \in DOMAIN downs[j] /\ downs'[j][m] = downs[j][m]
                \/ downs'[j][m].status = "wait" /\ downs'[j][m].on = connecting[j]
                \/ downs'[j][m].status = "join" /\ downs'[j][m].on \in DOMAIN downs'[j]
                \/ /\ downs'[j][m].status = "deps"
                   /\ \A d \in Deps[j] : downs'[j][m].subs[d] \in DOMAIN downs'[d]
    BY <1>2, <1>3
  <2> QED
    BY <1>15, <2>1, <2>2, <2>3, <2>4, PointsOn
<1> QED
  BY <1>14, <1>17

\* Steps of disconnect() leave the connections' frames alone.
LEMMA WholeDown ==
    ASSUME GraphShaped, Pointing, UNCHANGED ups,
           connected' \in [Nodes -> BOOLEAN], connecting' \in [Nodes -> Nat],
           disconnecting' \in [Nodes -> Nat],
           asked' \in [Roots -> Asks],
           \A j \in Nodes : connecting'[j] \in {0, connecting[j]},
           \A j \in Nodes : disconnecting'[j] = disconnecting[j] \/ disconnecting'[j] \in DOMAIN downs'[j],
           DOMAIN downs' = Nodes, \A j \in Nodes : downs'[j] \in Seq(DownFrames(j)),
           \A j \in Nodes : DOMAIN downs[j] \subseteq DOMAIN downs'[j],
           \A j \in Nodes : \A m \in DOMAIN downs'[j] :
                \/ downs'[j][m].status \in {"done", "failed", "close"}
                \/ m \in DOMAIN downs[j] /\ downs'[j][m] = downs[j][m]
                \/ downs'[j][m].status = "wait" /\ downs'[j][m].on = connecting[j]
                \/ downs'[j][m].status = "join" /\ downs'[j][m].on \in DOMAIN downs'[j]
                \/ /\ downs'[j][m].status = "deps"
                   /\ \A d \in Deps[j] : downs'[j][m].subs[d] \in DOMAIN downs'[d]
    PROVE  GraphShaped' /\ Pointing'
<1>1. GraphShaped'
  BY DEF GraphShaped
<1>2. \A j \in Nodes : /\ connecting'[j] \in {0, connecting[j]} \cup DOMAIN ups'[j]
                       /\ disconnecting'[j] \in {0, disconnecting[j]} \cup DOMAIN downs'[j]
  OBVIOUS
<1>3. \A j \in Nodes : DOMAIN ups[j] \subseteq DOMAIN ups'[j] /\ DOMAIN downs[j] \subseteq DOMAIN downs'[j]
  OBVIOUS
<1>4. \A j \in Nodes : \A m \in DOMAIN ups'[j] :
          m \in DOMAIN ups[j] /\ ups'[j][m].on = ups[j][m].on
  OBVIOUS
<1>5. \A j \in Nodes : \A m \in DOMAIN ups'[j] : ups'[j][m].status \in {"undo", "failed"} =>
          m \in DOMAIN ups[j] /\ ups[j][m].status \in {"undo", "failed"} /\ ups'[j][m].undo = ups[j][m].undo
  OBVIOUS
<1>6. Pointing'
  BY <1>2, <1>3, <1>4, <1>5, PointsOn
<1> QED
  BY <1>1, <1>6

\* disconnect() of a root starts a frame.
LEMMA DisconnectFrames ==
    ASSUME GraphShaped, NEW r \in Roots, Disconnect(r)
    PROVE  /\ r \in Nodes
           /\ DOMAIN downs' = Nodes /\ \A j \in Nodes : downs'[j] \in Seq(DownFrames(j))
           /\ \A j \in Nodes \ {r} : downs'[j] = downs[j]
           /\ \A m \in DOMAIN downs[r] : m \in DOMAIN downs'[r] /\ downs'[r][m] = downs[r][m]
           /\ \A m \in DOMAIN downs'[r] : \/ m \in DOMAIN downs[r]
                                          \/ /\ downs'[r][m].status = "wait"
                                             /\ downs'[r][m].on = connecting[r]
           /\ UNCHANGED <<connected, connecting, disconnecting, ups>>
           /\ asked' \in [Roots -> Asks]
<1>1. r \in Nodes /\ DOMAIN downs = Nodes /\ \A j \in Nodes : downs[j] \in Seq(DownFrames(j))
  BY Graph DEF GraphShaped
<1>2. /\ downs' = [downs EXCEPT ![r] = Append(@, Waiting(r))]
      /\ asked[r].disconnect < Disconnects /\ asked' = [asked EXCEPT ![r].disconnect = @ + 1]
      /\ UNCHANGED <<connected, connecting, disconnecting, ups>>
  BY DEF Disconnect
<1>3. Waiting(r) \in DownFrames(r) /\ Waiting(r).status = "wait" /\ Waiting(r).on = connecting[r]
  BY <1>1, NewFrames
<1>4. downs'[r] = Append(downs[r], Waiting(r)) /\ \A j \in Nodes \ {r} : downs'[j] = downs[j]
  BY <1>1, <1>2
<1> HIDE DEF Waiting
<1>5. /\ downs'[r] \in Seq(DownFrames(r))
      /\ downs'[r][Len(downs[r]) + 1] = Waiting(r)
      /\ \A m \in DOMAIN downs[r] : m \in DOMAIN downs'[r] /\ downs'[r][m] = downs[r][m]
      /\ \A m \in DOMAIN downs'[r] : m \in DOMAIN downs[r] \/ m = Len(downs[r]) + 1
  BY <1>1, <1>3, <1>4, Grown
<1>6. \A j \in Nodes : downs'[j] \in Seq(DownFrames(j))
  BY <1>1, <1>4, <1>5
<1>7. asked' \in [Roots -> Asks]
  BY <1>2, AskedOn
<1> QED
  BY <1>1, <1>2, <1>3, <1>4, <1>5, <1>6, <1>7

\* When close() has resolved the frame awaits one of each dependency.
LEMMA ClosedFrames ==
    ASSUME GraphShaped, NEW i \in Nodes, NEW n \in DOMAIN downs[i], Closed(i, n)
    PROVE  /\ Deps[i] \subseteq Nodes /\ i \notin Deps[i]
           /\ DOMAIN downs' = Nodes /\ \A j \in Nodes : downs'[j] \in Seq(DownFrames(j))
           /\ DOMAIN downs'[i] = DOMAIN downs[i] /\ downs'[i][n].status = "deps"
           /\ \A m \in DOMAIN downs[i] : m # n => downs'[i][m] = downs[i][m]
           /\ \A j \in Nodes \ ({i} \cup Deps[i]) : downs'[j] = downs[j]
           /\ \A j \in Deps[i] :
                /\ \A m \in DOMAIN downs[j] : m \in DOMAIN downs'[j] /\ downs'[j][m] = downs[j][m]
                /\ downs'[i][n].subs[j] \in DOMAIN downs'[j]
                /\ downs'[j][downs'[i][n].subs[j]].status = "wait"
                /\ \A m \in DOMAIN downs'[j] :
                    \/ m \in DOMAIN downs[j]
                    \/ /\ m = downs'[i][n].subs[j]
                       /\ downs'[j][m].status = "wait" /\ downs'[j][m].on = connecting[j]
<1>1. /\ Deps[i] \subseteq Nodes /\ i \notin Deps[i]
      /\ SubFrames(i) \in [Deps[i] -> Nat] /\ \A d \in Deps[i] : SubFrames(i)[d] = Len(downs[d]) + 1
  BY NewFrames
<1>2. DOMAIN downs = Nodes /\ \A j \in Nodes : downs[j] \in Seq(DownFrames(j))
  BY DEF GraphShaped
<1>3. downs' = [j \in Nodes |->
            CASE j = i -> [downs[j] EXCEPT ![n].status = "deps", ![n].subs = SubFrames(i)]
              [] j \in Deps[i] -> Append(downs[j], Waiting(j))
              [] OTHER -> downs[j]]
  BY DEF Closed
<1>4. /\ DOMAIN downs' = Nodes
      /\ downs'[i] = [downs[i] EXCEPT ![n].status = "deps", ![n].subs = SubFrames(i)]
      /\ \A j \in Deps[i] : downs'[j] = Append(downs[j], Waiting(j))
      /\ \A j \in Nodes \ ({i} \cup Deps[i]) : downs'[j] = downs[j]
  BY <1>1, <1>3
<1>5. PICK f \in DownFrames(i) : f = downs[i][n]
  BY <1>2
<1>6. PICK k \in [Deps[i] -> Nat] : k = SubFrames(i)
  BY <1>1
<1>7. PICK g \in DownFrames(i) : g = [f EXCEPT !.status = "deps", !.subs = k]
  BY DEF DownFrames, DownStatus
<1>8. g.status = "deps" /\ g.subs = k
  BY <1>7 DEF DownFrames
<1>9. downs'[i] = [downs[i] EXCEPT ![n] = g] /\ downs[i] \in Seq(DownFrames(i))
  BY <1>2, <1>4, <1>5, <1>6, <1>7
<1>10. downs'[i] \in Seq(DownFrames(i)) /\ DOMAIN downs'[i] = DOMAIN downs[i] /\ downs'[i][n] = g
       /\ \A m \in DOMAIN downs[i] : m # n => downs'[i][m] = downs[i][m]
  BY <1>9
<1>11. ASSUME NEW j \in Deps[i]
       PROVE  /\ downs'[j] \in Seq(DownFrames(j))
              /\ \A m \in DOMAIN downs[j] : m \in DOMAIN downs'[j] /\ downs'[j][m] = downs[j][m]
              /\ k[j] \in DOMAIN downs'[j] /\ downs'[j][k[j]].status = "wait"
              /\ \A m \in DOMAIN downs'[j] :
                    \/ m \in DOMAIN downs[j]
                    \/ /\ m = k[j]
                       /\ downs'[j][m].status = "wait" /\ downs'[j][m].on = connecting[j]
  <2>1. /\ j \in Nodes /\ Waiting(j) \in DownFrames(j) /\ Waiting(j).status = "wait"
        /\ Waiting(j).on = connecting[j]
    BY <1>1, NewFrames
  <2>2. downs'[j] = Append(downs[j], Waiting(j)) /\ downs[j] \in Seq(DownFrames(j))
    BY <1>2, <1>4, <2>1
  <2>3. k[j] = Len(downs[j]) + 1
    BY <1>1, <1>6
  <2> HIDE DEF Waiting
  <2> QED
    BY <2>1, <2>2, <2>3, Grown
<1>12. \A j \in Nodes : downs'[j] \in Seq(DownFrames(j))
  BY <1>2, <1>4, <1>10, <1>11
<1> QED
  BY <1>1, <1>4, <1>8, <1>10, <1>11, <1>12, ZenonT(60)

\* The steps of one frame of disconnect(), but for those that start others.
LEMMA MoveFrames ==
    ASSUME GraphShaped, Pointing, NEW i \in Nodes, NEW n \in DOMAIN downs[i],
           \/ Join(i, n) \/ Spare(i, n) \/ Close(i, n) \/ Disposed(i, n) \/ Rejection(i, n) \/ Joined(i, n)
    PROVE  /\ DOMAIN downs' = Nodes
           /\ \A j \in Nodes : downs'[j] \in Seq(DownFrames(j)) /\ DOMAIN downs'[j] = DOMAIN downs[j]
           /\ \A j \in Nodes : \A m \in DOMAIN downs[j] : ~ (j = i /\ m = n) => downs'[j][m] = downs[j][m]
           /\ \/ Join(i, n) /\ downs'[i][n].status = "join" /\ downs'[i][n].on = disconnecting[i]
              \/ Close(i, n) /\ downs'[i][n].status = "close"
              \/ Spare(i, n) /\ downs'[i][n].status = "done"
              \/ Disposed(i, n) /\ downs'[i][n].status = "done"
              \/ Rejection(i, n) /\ downs'[i][n].status = "failed"
              \/ /\ Joined(i, n) /\ downs'[i][n].status \in {"done", "failed"}
                 /\ downs'[i][n].status = downs[i][downs[i][n].on].status
<1>1. DOMAIN downs = Nodes /\ \A j \in Nodes : downs[j] \in Seq(DownFrames(j))
  BY DEF GraphShaped
<1>2. CASE Join(i, n)
  <2>1. PICK k \in Nat : k = disconnecting[i]
    BY DEF GraphShaped
  <2>2. downs' = [downs EXCEPT ![i][n].status = "join", ![i][n].on = k]
    BY <1>2, <2>1 DEF Join
  <2>3. PICK f \in DownFrames(i) : f = downs[i][n]
    BY <1>1
  <2>4. PICK g \in DownFrames(i) : g = [f EXCEPT !.status = "join", !.on = k]
    BY DEF DownFrames, DownStatus
  <2>5. g.status = "join" /\ g.on = k
    BY <2>4 DEF DownFrames
  <2>6. DOMAIN downs' = Nodes /\ \A j \in Nodes \ {i} : downs'[j] = downs[j]
    BY <1>1, <2>2
  <2>7. downs'[i] = [downs[i] EXCEPT ![n] = g] /\ downs[i] \in Seq(DownFrames(i))
    BY <1>1, <2>2, <2>3, <2>4
  <2>8. downs'[i] \in Seq(DownFrames(i)) /\ DOMAIN downs'[i] = DOMAIN downs[i] /\ downs'[i][n] = g
        /\ \A m \in DOMAIN downs[i] : m # n => downs'[i][m] = downs[i][m]
    BY <2>7
  <2>9. \A j \in Nodes : downs'[j] \in Seq(DownFrames(j)) /\ DOMAIN downs'[j] = DOMAIN downs[j]
    BY <1>1, <2>6, <2>8
  <2>10. \A j \in Nodes : \A m \in DOMAIN downs[j] : ~ (j = i /\ m = n) => downs'[j][m] = downs[j][m]
    BY <2>6, <2>8
  <2> QED
    BY <1>2, <2>1, <2>5, <2>6, <2>8, <2>9, <2>10
<1>3. CASE ~ Join(i, n)
  <2>1. PICK s \in {"close", "done", "failed"} :
            /\ downs' = [downs EXCEPT ![i][n].status = s]
            /\ \/ Close(i, n) /\ s = "close"
               \/ Spare(i, n) /\ s = "done"
               \/ Disposed(i, n) /\ s = "done"
               \/ Rejection(i, n) /\ s = "failed"
               \/ Joined(i, n) /\ s \in {"done", "failed"} /\ s = downs[i][downs[i][n].on].status
    <3>1. CASE Joined(i, n)
      <4>1. PICK s \in {"close", "done", "failed"} : s = downs[i][downs[i][n].on].status /\ s # "close"
        BY <3>1 DEF Joined, Settled
      <4>2. downs' = [downs EXCEPT ![i][n].status = s]
        BY <3>1, <4>1 DEF Joined
      <4> QED
        BY <3>1, <4>1, <4>2
    <3>2. CASE Close(i, n)
      BY <3>2 DEF Close
    <3>3. CASE Spare(i, n)
      BY <3>3 DEF Spare
    <3>4. CASE Disposed(i, n)
      BY <3>4 DEF Disposed
    <3>5. CASE Rejection(i, n)
      BY <3>5 DEF Rejection
    <3> QED
      BY <1>3, <3>1, <3>2, <3>3, <3>4, <3>5
  <2>2. s \in DownStatus
    BY DEF DownStatus
  <2>3. DOMAIN downs' = Nodes
    BY <1>1, <2>1, <2>2, DownMoves
  <2>4. \A j \in Nodes : downs'[j] \in Seq(DownFrames(j)) /\ DOMAIN downs'[j] = DOMAIN downs[j]
    BY <1>1, <2>1, <2>2, DownMoves
  <2>5. \A j \in Nodes : \A m \in DOMAIN downs[j] : ~ (j = i /\ m = n) => downs'[j][m] = downs[j][m]
    BY <1>1, <2>1, <2>2, DownMoves
  <2>6. downs'[i][n].status = s
    BY <1>1, <2>1, <2>2, DownMoves
  <2> QED
    BY <2>1, <2>3, <2>4, <2>5, <2>6
<1> QED
  BY <1>2, <1>3

\* Every step keeps references, whatever the graph.
LEMMA WholeNext == GraphShaped /\ Pointing /\ [GraphNext]_graphVars => GraphShaped' /\ Pointing'
<1> SUFFICES ASSUME GraphShaped, Pointing, [GraphNext]_graphVars PROVE GraphShaped' /\ Pointing'
  OBVIOUS
<1>1. CASE UNCHANGED graphVars
  <2>1. UNCHANGED <<connected, connecting, disconnecting, ups, downs, asked>>
    BY <1>1 DEF graphVars
  <2>2. GraphShaped'
    BY <2>1 DEF GraphShaped
  <2>3. Pointing'
    BY <2>1 DEF Pointing
  <2> QED
    BY <2>2, <2>3
<1>2. ASSUME NEW r \in Roots, Disconnect(r) PROVE GraphShaped' /\ Pointing'
  <2>1. \A j \in Nodes : /\ DOMAIN downs[j] \subseteq DOMAIN downs'[j]
                         /\ \A m \in DOMAIN downs'[j] :
                              \/ m \in DOMAIN downs[j] /\ downs'[j][m] = downs[j][m]
                              \/ downs'[j][m].status = "wait" /\ downs'[j][m].on = connecting[j]
    BY <1>2, DisconnectFrames
  <2>2. /\ DOMAIN downs' = Nodes /\ \A j \in Nodes : downs'[j] \in Seq(DownFrames(j))
        /\ asked' \in [Roots -> Asks]
        /\ UNCHANGED <<connected, connecting, disconnecting, ups>>
    BY <1>2, DisconnectFrames
  <2>3. connected' \in [Nodes -> BOOLEAN] /\ connecting' \in [Nodes -> Nat] /\ disconnecting' \in [Nodes -> Nat]
    BY <2>2 DEF GraphShaped
  <2> QED
    BY <2>1, <2>2, <2>3, WholeDown
<1>3. ASSUME NEW r \in Roots, DisconnectNow(r) PROVE GraphShaped' /\ Pointing'
  <2>1. /\ r \in Nodes /\ Interrupt(r) /\ UNCHANGED ups
        /\ asked[r].interrupt < Interrupts /\ asked' = [asked EXCEPT ![r].interrupt = @ + 1]
    BY <1>3, Graph DEF DisconnectNow
  <2>2. asked' \in [Roots -> Asks]
    BY <2>1, AskedOn
  <2>3. \A j \in Nodes : \A m \in DOMAIN downs'[j] :
                \/ m \in DOMAIN downs[j] /\ downs'[j][m] = downs[j][m]
                \/ downs'[j][m].status = "wait" /\ downs'[j][m].on = connecting[j]
                \/ /\ downs'[j][m].status = "deps"
                   /\ \A d \in Deps[j] : downs'[j][m].subs[d] \in DOMAIN downs'[d]
    BY <2>1, InterruptFrames
  <2>4. /\ connected' \in [Nodes -> BOOLEAN] /\ connecting' \in [Nodes -> Nat]
        /\ disconnecting' \in [Nodes -> Nat]
        /\ DOMAIN downs' = Nodes /\ \A j \in Nodes : downs'[j] \in Seq(DownFrames(j))
        /\ \A j \in Nodes : connecting'[j] \in {0, connecting[j]}
        /\ \A j \in Nodes : disconnecting'[j] = disconnecting[j] \/ disconnecting'[j] \in DOMAIN downs'[j]
        /\ \A j \in Nodes : DOMAIN downs[j] \subseteq DOMAIN downs'[j]
    BY <2>1, InterruptFrames
  <2> QED
    BY <2>1, <2>2, <2>3, <2>4, WholeDown
<1>4. ASSUME NEW i \in Nodes, NEW n \in DOMAIN downs[i], Closed(i, n) PROVE GraphShaped' /\ Pointing'
  <2>1. UNCHANGED <<connected, connecting, disconnecting, ups, asked>>
    BY <1>4 DEF Closed
  <2>2. /\ DOMAIN downs' = Nodes /\ \A j \in Nodes : downs'[j] \in Seq(DownFrames(j))
    BY <1>4, ClosedFrames
  <2>3. \A j \in Nodes : DOMAIN downs[j] \subseteq DOMAIN downs'[j]
    BY <1>4, ClosedFrames
  <2>4. ASSUME NEW j \in Nodes, NEW m \in DOMAIN downs'[j]
        PROVE   \/ m \in DOMAIN downs[j] /\ downs'[j][m] = downs[j][m]
                \/ downs'[j][m].status = "wait" /\ downs'[j][m].on = connecting[j]
                \/ /\ downs'[j][m].status = "deps"
                   /\ \A d \in Deps[j] : downs'[j][m].subs[d] \in DOMAIN downs'[d]
    BY <1>4, ClosedFrames
  <2>5. connected' \in [Nodes -> BOOLEAN] /\ connecting' \in [Nodes -> Nat] /\ disconnecting' \in [Nodes -> Nat]
        /\ asked' \in [Roots -> Asks]
    BY <2>1 DEF GraphShaped
  <2> QED
    BY <2>1, <2>2, <2>3, <2>4, <2>5, WholeDown
<1>5. ASSUME NEW i \in Nodes, NEW n \in DOMAIN downs[i],
             \/ Join(i, n) \/ Spare(i, n) \/ Close(i, n) \/ Disposed(i, n) \/ Rejection(i, n) \/ Joined(i, n)
      PROVE  GraphShaped' /\ Pointing'
  <2>1. /\ DOMAIN downs' = Nodes
        /\ \A j \in Nodes : downs'[j] \in Seq(DownFrames(j)) /\ DOMAIN downs'[j] = DOMAIN downs[j]
        /\ \A j \in Nodes : \A m \in DOMAIN downs[j] : ~ (j = i /\ m = n) => downs'[j][m] = downs[j][m]
    BY <1>5, MoveFrames
  <2>2. \/ downs'[i][n].status \in {"done", "failed", "close"}
        \/ Join(i, n) /\ downs'[i][n].status = "join" /\ downs'[i][n].on = disconnecting[i]
    BY <1>5, MoveFrames
  <2>3. /\ UNCHANGED <<ups, asked>> /\ connected' \in [Nodes -> BOOLEAN] /\ connecting' \in [Nodes -> Nat]
        /\ \A j \in Nodes : connecting'[j] \in {0, connecting[j]}
    <3>1. CASE Close(i, n)
      BY <3>1 DEF Close, GraphShaped
    <3>2. CASE ~ Close(i, n)
      <4>1. UNCHANGED <<connected, connecting, ups, asked>>
        BY <1>5, <3>2 DEF Join, Spare, Disposed, Rejection, Joined
      <4> QED
        BY <4>1 DEF GraphShaped
    <3> QED
      BY <3>1, <3>2
  <2>4. n \in Nat
    <3>1. downs[i] \in Seq(DownFrames(i))
      BY DEF GraphShaped
    <3> QED
      BY <3>1
  <2>5. /\ disconnecting' \in [Nodes -> Nat]
        /\ \A j \in Nodes : disconnecting'[j] = disconnecting[j] \/ disconnecting'[j] \in DOMAIN downs'[j]
    <3>1. CASE Close(i, n)
      <4>1. disconnecting' = [disconnecting EXCEPT ![i] = n]
        BY <3>1 DEF Close
      <4> QED
        BY <2>1, <2>4, <4>1 DEF GraphShaped
    <3>2. CASE ~ Close(i, n)
      <4>1. UNCHANGED disconnecting
        BY <1>5, <3>2 DEF Join, Spare, Disposed, Rejection, Joined
      <4> QED
        BY <4>1 DEF GraphShaped
    <3> QED
      BY <3>1, <3>2
  <2>6. Join(i, n) => disconnecting[i] \in DOMAIN downs[i]
    BY DEF Join, Pointing
  <2>7. \A j \in Nodes : \A m \in DOMAIN downs'[j] :
                \/ downs'[j][m].status \in {"done", "failed", "close"}
                \/ m \in DOMAIN downs[j] /\ downs'[j][m] = downs[j][m]
                \/ downs'[j][m].status = "join" /\ downs'[j][m].on \in DOMAIN downs'[j]
    BY <2>1, <2>2, <2>6
  <2>8. asked' \in [Roots -> Asks]
    BY <2>3 DEF GraphShaped
  <2> QED
    BY <2>1, <2>3, <2>5, <2>7, <2>8, WholeDown
<1> QED
  BY <1>1, <1>2, <1>3, <1>4, <1>5, WholeConnect, WholeUp, WholeFailed DEF GraphNext, Run

-----------------------------------------------------------------------------
(* The root decides *)

\* While the root is not connecting, nothing is.
LEMMA NoneRises ==
    ASSUME NEW r, Rooted(r), Called(r), \A n \in DOMAIN ups[r] : ~ Rising(r, n)
    PROVE  \A i \in Nodes : \A n \in DOMAIN ups[i] : ~ Rising(i, n)
<1> DEFINE S == {i \in Nodes : \E n \in DOMAIN ups[i] : Rising(i, n)}
<1> SUFFICES S = {}
  OBVIOUS
<1> SUFFICES ASSUME S # {} PROVE FALSE
  OBVIOUS
<1>1. PICK i \in S : \A p \in S : i \notin Deps[p]
  <2>1. S \in SUBSET Nodes
    OBVIOUS
  <2> HIDE DEF S
  <2> QED
    BY <2>1 DEF Rooted
<1>2. PICK n \in DOMAIN ups[i] : Rising(i, n)
  BY <1>1
<1>3. i # r
  BY <1>2
<1>4. \E p \in S : i \in Deps[p]
  <2>1. PICK p \in Nodes : i \in Deps[p] /\ \E m \in DOMAIN ups[p] : ups[p][m].status = "deps"
    BY <1>1, <1>2, <1>3 DEF Called
  <2>2. p \in S
    BY <2>1 DEF Rising
  <2> QED
    BY <2>1, <2>2
<1> QED
  BY <1>1, <1>4

\* A root without a connection is not connecting.
LEMMA RootRests ==
    ASSUME NEW r, Rooted(r), Present, connecting[r] = 0, GraphShaped
    PROVE  \A n \in DOMAIN ups[r] : ~ Rising(r, n)
<1>1. ups[r] \in Seq(UpFrames(r)) /\ r \in Nodes
  BY DEF Rooted, GraphShaped
<1>2. \A n \in DOMAIN ups[r] : n # 0
  BY <1>1
<1> QED
  BY <1>1, <1>2 DEF Present

\* While anything below the root disconnects, the root has no connection.
LEMMA RootLeaves ==
    ASSUME NEW r, Rooted(r), Leaving(r), Dismissed(r), GraphShaped,
           NEW d \in Nodes \ {r}, NEW k \in DOMAIN downs[d], downs[d][k].status # "done"
    PROVE  connecting[r] = 0 /\ \E n \in DOMAIN downs[r] : downs[r][n].status = "deps"
<1> DEFINE S == {i \in Nodes \ {r} : \E n \in DOMAIN downs[i] : downs[i][n].status # "done"}
<1>1. PICK i \in S : \A p \in S : i \notin Deps[p]
  <2>1. S \in SUBSET Nodes /\ d \in S
    OBVIOUS
  <2> HIDE DEF S
  <2> QED
    BY <2>1 DEF Rooted
<1>2. PICK n \in DOMAIN downs[i] : downs[i][n].status # "done"
  BY <1>1
<1>3. PICK p \in Nodes : i \in Deps[p] /\ \E m \in DOMAIN downs[p] :
            downs[p][m].status = "deps" /\ downs[p][m].subs[i] = n
  BY <1>1, <1>2 DEF Dismissed
<1>4. p = r
  BY <1>1, <1>3
<1> QED
  BY <1>3, <1>4 DEF Leaving

-----------------------------------------------------------------------------
(* Steps of connect() *)

\* Nothing has begun.
LEMMA InitGraphInv == ASSUME NEW r, Rooted(r), GraphInit PROVE GraphInv(r)
<1>1. \A i \in Nodes : ups[i] = <<>> /\ downs[i] = <<>> /\ connecting[i] = 0 /\ ~ connected[i]
  BY DEF GraphInit
<1>2. GraphShaped
  BY WholeInit
<1>3. Present /\ Called(r) /\ Founded /\ Lasting /\ Unfailing
  BY <1>1 DEF Present, Called, Founded, Lasting, Unfailing
<1>4. Leaving(r) /\ Dismissed(r) /\ UpOnDependencies
  BY <1>1 DEF Rooted, Leaving, Dismissed, UpOnDependencies
<1> QED
  BY <1>2, <1>3, <1>4 DEF GraphInv, Poised

\* What is common to Opening and Opened: a connection under way goes on.
LEMMA RiseInv ==
    ASSUME NEW r, Rooted(r), GraphInv(r), NEW i \in Nodes, NEW n \in DOMAIN ups[i], Rising(i, n),
           NEW s \in {"open", "ok"}, ups' = [ups EXCEPT ![i][n].status = s],
           UNCHANGED <<connecting, disconnecting, downs, asked>>, connected' \in [Nodes -> BOOLEAN]
    PROVE  /\ GraphShaped'
           /\ Undisturbed' => Undisturbed
           /\ Undisturbed => Present' /\ Leaving(r)' /\ Dismissed(r)' /\ Unfailing'
           /\ \A j \in Nodes : /\ DOMAIN ups'[j] = DOMAIN ups[j]
                               /\ \A m \in DOMAIN ups[j] : /\ ups'[j][m].on = ups[j][m].on
                                                           /\ ~ (j = i /\ m = n) => ups'[j][m] = ups[j][m]
           /\ ups'[i][n].status = s
<1> USE DEF GraphInv, Poised
<1>1. DOMAIN ups = Nodes /\ \A j \in Nodes : ups[j] \in Seq(UpFrames(j))
  BY DEF GraphShaped
<1>2. s \in UpStatus
  BY DEF UpStatus
<1>3. /\ DOMAIN ups' = Nodes
      /\ \A j \in Nodes : ups'[j] \in Seq(UpFrames(j)) /\ DOMAIN ups'[j] = DOMAIN ups[j]
      /\ \A j \in Nodes : \A m \in DOMAIN ups[j] :
            /\ ups'[j][m].on = ups[j][m].on
            /\ ~ (j = i /\ m = n) => ups'[j][m] = ups[j][m]
      /\ ups'[i][n].status = s
  <2>1. DOMAIN ups' = Nodes
    BY <1>1, <1>2, UpMoves
  <2>2. \A j \in Nodes : ups'[j] \in Seq(UpFrames(j)) /\ DOMAIN ups'[j] = DOMAIN ups[j]
    BY <1>1, <1>2, UpMoves
  <2>3. \A j \in Nodes : \A m \in DOMAIN ups[j] :
            /\ ups'[j][m].on = ups[j][m].on
            /\ ~ (j = i /\ m = n) => ups'[j][m] = ups[j][m]
    BY <1>1, <1>2, UpMoves
  <2>4. ups'[i][n].status = s
    BY <1>1, <1>2, UpMoves
  <2> QED
    BY <2>1, <2>2, <2>3, <2>4
<1>4. GraphShaped'
  BY <1>3 DEF GraphShaped
<1>5. ASSUME Undisturbed' PROVE Undisturbed
  <2>1. \A j \in Nodes : \A m \in DOMAIN ups[j] : ups[j][m].status \notin {"undo", "failed"}
    BY <1>3, <1>5 DEF Undisturbed, Rising
  <2> QED
    BY <1>5, <2>1 DEF Undisturbed
<1>6. ASSUME Undisturbed PROVE Present' /\ Leaving(r)' /\ Dismissed(r)' /\ Unfailing'
  <2>1. Present'
    <3> SUFFICES ASSUME NEW j \in Nodes, NEW m \in DOMAIN ups[j], Rising(j, m)'
                 PROVE  /\ m = connecting[j]
                        /\ \A d \in Deps[j] : ups'[j][m].on[d] = connecting[d] /\ connecting[d] # 0
      BY <1>3 DEF Present
    <3>1. Rising(j, m)
      BY <1>3 DEF Rising
    <3> QED
      BY <1>3, <1>6, <3>1 DEF Present
  <2>2. Leaving(r)' /\ Dismissed(r)' /\ Unfailing'
    BY <1>6 DEF Leaving, Dismissed, Unfailing
  <2> QED
    BY <2>1, <2>2
<1> QED
  BY <1>3, <1>4, <1>5, <1>6

\* open() is called: the dependencies awaited are the present ones.
LEMMA OpeningInv ==
    ASSUME NEW r, Rooted(r), GraphInv(r), NEW i \in Nodes, NEW n \in DOMAIN ups[i], Opening(i, n)
    PROVE  GraphInv(r)'
<1> USE DEF GraphInv, Poised
<1>1. /\ Rising(i, n) /\ ups[i][n].status = "deps"
      /\ \A d \in Deps[i] : ups[d][ups[i][n].on[d]].status = "ok"
      /\ ups' = [ups EXCEPT ![i][n].status = "open"]
      /\ UNCHANGED <<connected, connecting, disconnecting, downs, opened, asked>>
  BY DEF Opening, Rising
<1>2. connected' \in [Nodes -> BOOLEAN]
  BY <1>1 DEF GraphShaped
<1>3. /\ GraphShaped'
      /\ Undisturbed' => Undisturbed
      /\ Undisturbed => Present' /\ Leaving(r)' /\ Dismissed(r)' /\ Unfailing'
      /\ \A j \in Nodes : /\ DOMAIN ups'[j] = DOMAIN ups[j]
                          /\ \A m \in DOMAIN ups[j] : /\ ups'[j][m].on = ups[j][m].on
                                                      /\ ~ (j = i /\ m = n) => ups'[j][m] = ups[j][m]
      /\ ups'[i][n].status = "open"
  BY <1>1, <1>2, RiseInv
<1> SUFFICES ASSUME Undisturbed PROVE Called(r)' /\ Founded' /\ Lasting' /\ UpOnDependencies'
  BY <1>3
<1>4. Deps[i] \subseteq Nodes /\ i \notin Deps[i]
  BY Graph
<1>5. \A d \in Deps[i] : ups[i][n].on[d] = connecting[d] /\ ups[d][connecting[d]].status = "ok"
  BY <1>1 DEF Present
<1>6. Called(r)'
  <2> SUFFICES ASSUME NEW j \in Nodes \ {r}, NEW m \in DOMAIN ups[j], Rising(j, m)'
               PROVE  \E p \in Nodes : j \in Deps[p] /\ \E k \in DOMAIN ups'[p] : ups'[p][k].status = "deps"
    BY <1>3 DEF Called
  <2>1. Rising(j, m) /\ m = connecting[j]
    BY <1>1, <1>3 DEF Rising, Present
  <2>2. PICK p \in Nodes : j \in Deps[p] /\ \E k \in DOMAIN ups[p] : ups[p][k].status = "deps"
    BY <2>1 DEF Called
  <2>3. PICK k \in DOMAIN ups[p] : ups[p][k].status = "deps"
    BY <2>2
  <2>4. ~ (p = i /\ k = n)
    BY <1>5, <2>1, <2>2 DEF Rising
  <2> QED
    BY <1>3, <2>2, <2>3, <2>4
<1>7. Founded'
  <2> SUFFICES ASSUME NEW j \in Nodes, NEW m \in DOMAIN ups[j], ups'[j][m].status = "open",
                      NEW d \in Deps[j]
               PROVE  ups'[d][connecting[d]].status = "ok"
    BY <1>1, <1>3 DEF Founded
  <2>1. d \in Nodes /\ ups[d][connecting[d]].status = "ok"
    <3>1. CASE j = i /\ m = n
      BY <1>4, <1>5, <3>1
    <3>2. CASE ~ (j = i /\ m = n)
      BY <1>3, <3>2, Graph DEF Founded
    <3> QED
      BY <3>1, <3>2
  <2>2. connecting[d] # 0
    <3>1. Rising(j, m)
      BY <1>1, <1>3 DEF Rising
    <3> QED
      BY <3>1 DEF Present
  <2>3. connecting[d] \in DOMAIN ups[d]
    BY <2>1, <2>2 DEF Lasting
  <2> QED
    BY <1>1, <1>3, <2>1, <2>3
<1>8. Lasting'
  BY <1>1, <1>3 DEF Lasting
<1>9. UpOnDependencies'
  BY <1>1 DEF UpOnDependencies
<1> QED
  BY <1>6, <1>7, <1>8, <1>9

\* open() resolves: what it was called on is still connected.
LEMMA OpenedInv ==
    ASSUME NEW r, Rooted(r), GraphInv(r), NEW i \in Nodes, NEW n \in DOMAIN ups[i], Opened(i, n)
    PROVE  GraphInv(r)'
<1> USE DEF GraphInv, Poised
<1>1. /\ Rising(i, n) /\ ups[i][n].status = "open"
      /\ ups' = [ups EXCEPT ![i][n].status = "ok"]
      /\ connected' = [connected EXCEPT ![i] = TRUE]
      /\ UNCHANGED <<connecting, disconnecting, downs, asked>>
  BY DEF Opened, Rising
<1>2. connected' \in [Nodes -> BOOLEAN]
  BY <1>1 DEF GraphShaped
<1>3. /\ GraphShaped'
      /\ Undisturbed' => Undisturbed
      /\ Undisturbed => Present' /\ Leaving(r)' /\ Dismissed(r)' /\ Unfailing'
      /\ \A j \in Nodes : /\ DOMAIN ups'[j] = DOMAIN ups[j]
                          /\ \A m \in DOMAIN ups[j] : /\ ups'[j][m].on = ups[j][m].on
                                                      /\ ~ (j = i /\ m = n) => ups'[j][m] = ups[j][m]
      /\ ups'[i][n].status = "ok"
  BY <1>1, <1>2, RiseInv
<1> SUFFICES ASSUME Undisturbed PROVE Called(r)' /\ Founded' /\ Lasting' /\ UpOnDependencies'
  BY <1>3
<1>4. Deps[i] \subseteq Nodes /\ i \notin Deps[i]
  BY Graph
<1>5. n = connecting[i] /\ \A d \in Deps[i] : connecting[d] # 0 /\ ups[d][connecting[d]].status = "ok"
  BY <1>1 DEF Present, Founded
<1>6. \A d \in Deps[i] : connected[d]
  BY <1>4, <1>5 DEF Lasting
<1>7. Called(r)'
  <2> SUFFICES ASSUME NEW j \in Nodes \ {r}, NEW m \in DOMAIN ups[j], Rising(j, m)'
               PROVE  \E p \in Nodes : j \in Deps[p] /\ \E k \in DOMAIN ups'[p] : ups'[p][k].status = "deps"
    BY <1>3 DEF Called
  <2>1. Rising(j, m)
    BY <1>1, <1>3 DEF Rising
  <2>2. PICK p \in Nodes : j \in Deps[p] /\ \E k \in DOMAIN ups[p] : ups[p][k].status = "deps"
    BY <2>1 DEF Called
  <2>3. PICK k \in DOMAIN ups[p] : ups[p][k].status = "deps"
    BY <2>2
  <2> QED
    BY <1>1, <1>3, <2>2, <2>3
<1>8. Founded'
  <2> SUFFICES ASSUME NEW j \in Nodes, NEW m \in DOMAIN ups[j], ups'[j][m].status = "open",
                      NEW d \in Deps[j]
               PROVE  ups'[d][connecting[d]].status = "ok"
    BY <1>1, <1>3 DEF Founded
  <2>1. ups[j][m].status = "open" /\ d \in Nodes
    BY <1>3, Graph
  <2>2. ups[d][connecting[d]].status = "ok" /\ connecting[d] # 0
    BY <2>1 DEF Founded, Present, Rising
  <2>3. connecting[d] \in DOMAIN ups[d]
    BY <2>1, <2>2 DEF Lasting
  <2> QED
    BY <1>3, <2>1, <2>2, <2>3
<1>9. Lasting'
  <2> SUFFICES ASSUME NEW j \in Nodes, connecting[j] # 0
               PROVE  /\ connecting[j] \in DOMAIN ups'[j]
                      /\ ups'[j][connecting[j]].status = "ok" => connected'[j]
    BY <1>1 DEF Lasting
  <2>1. CASE j = i
    BY <1>1, <1>2, <1>3, <2>1 DEF Lasting, GraphShaped
  <2>2. CASE j # i
    BY <1>1, <1>2, <1>3, <2>2 DEF Lasting, GraphShaped
  <2> QED
    BY <2>1, <2>2
<1>10. UpOnDependencies'
  <2> SUFFICES ASSUME NEW j \in Nodes, NEW d \in Nodes, d \in Deps[j], connected'[j]
               PROVE  connected'[d]
    BY DEF UpOnDependencies
  <2>1. CASE j = i
    BY <1>1, <1>2, <1>6, <2>1 DEF GraphShaped
  <2>2. CASE j # i
    BY <1>1, <1>2, <2>2 DEF GraphShaped, UpOnDependencies
  <2> QED
    BY <2>1, <2>2
<1> QED
  BY <1>7, <1>8, <1>9, <1>10

\* What GraphTyped says of frames is part of it.
LEMMA WholeTyped == GraphShaped /\ Pointing /\ opened \in [Nodes -> BOOLEAN] => GraphTyped
<1> SUFFICES ASSUME GraphShaped, Pointing, opened \in [Nodes -> BOOLEAN] PROVE GraphTyped
  OBVIOUS
<1>1. connected \in [Nodes -> BOOLEAN] /\ asked \in [Roots -> Asks]
  BY DEF GraphShaped
<1>2. ASSUME NEW i \in Nodes
      PROVE  /\ connecting[i] \in 0..Len(ups[i]) /\ disconnecting[i] \in 0..Len(downs[i])
             /\ \A n \in DOMAIN ups[i] : ups[i][n].status \in UpStatus
             /\ \A n \in DOMAIN downs[i] : downs[i][n].status \in DownStatus
  <2>1. ups[i] \in Seq(UpFrames(i)) /\ downs[i] \in Seq(DownFrames(i))
    BY DEF GraphShaped
  <2>2. DOMAIN ups[i] = 1..Len(ups[i]) /\ DOMAIN downs[i] = 1..Len(downs[i])
        /\ Len(ups[i]) \in Nat /\ Len(downs[i]) \in Nat
    BY <2>1
  <2>3. connecting[i] \in 0..Len(ups[i]) /\ disconnecting[i] \in 0..Len(downs[i])
    BY <2>2 DEF Pointing
  <2>4. ASSUME NEW n \in DOMAIN ups[i] PROVE ups[i][n].status \in UpStatus
    <3>1. PICK f \in UpFrames(i) : f = ups[i][n]
      BY <2>1
    <3> QED
      BY <3>1 DEF UpFrames
  <2>5. ASSUME NEW n \in DOMAIN downs[i] PROVE downs[i][n].status \in DownStatus
    <3>1. PICK f \in DownFrames(i) : f = downs[i][n]
      BY <2>1
    <3> QED
      BY <3>1 DEF DownFrames
  <2> QED
    BY <2>3, <2>4, <2>5
<1> QED
  BY <1>1, <1>2 DEF GraphTyped, Pointing, Asks

\* The ghost is a flag for each connector.
LEMMA OpenedFlags ==
    opened \in [Nodes -> BOOLEAN] /\ [GraphNext]_graphVars => opened' \in [Nodes -> BOOLEAN]
<1> SUFFICES ASSUME opened \in [Nodes -> BOOLEAN], [GraphNext]_graphVars
             PROVE  opened' \in [Nodes -> BOOLEAN]
  OBVIOUS
<1>1. CASE UNCHANGED graphVars
  BY <1>1 DEF graphVars
<1>2. ASSUME NEW r \in Roots, Connect(r) \/ Disconnect(r) \/ DisconnectNow(r)
      PROVE  opened' \in [Nodes -> BOOLEAN]
  BY <1>2 DEF Connect, Disconnect, DisconnectNow
<1>3. ASSUME NEW i \in Nodes, NEW n \in DOMAIN ups[i],
             Opening(i, n) \/ Opened(i, n) \/ Failed(i, n) \/ Undone(i, n)
      PROVE  opened' \in [Nodes -> BOOLEAN]
  BY <1>3 DEF Opening, Opened, Failed, Undone
<1>4. ASSUME NEW i \in Nodes, NEW n \in DOMAIN downs[i],
             \/ Join(i, n) \/ Spare(i, n) \/ Close(i, n) \/ Closed(i, n)
             \/ Disposed(i, n) \/ Rejection(i, n) \/ Joined(i, n)
      PROVE  opened' \in [Nodes -> BOOLEAN]
  BY <1>4 DEF Join, Spare, Close, Closed, Disposed, Rejection, Joined
<1> QED
  BY <1>1, <1>2, <1>3, <1>4 DEF GraphNext, Run

-----------------------------------------------------------------------------
(* Steps of the program and of disconnect() *)

\* The root connects while nothing is under way: what it finds connected stays.
LEMMA ConnectInv ==
    ASSUME NEW r, Rooted(r), GraphInv(r), GraphShaped', r \in Roots, Connect(r)
    PROVE  GraphInv(r)'
<1> USE DEF GraphInv, Poised
<1>1. PICK S : S = Starting(r)
  OBVIOUS
<1>2. /\ S \subseteq Nodes
      /\ \A i \in Nodes \ S : ups'[i] = ups[i] /\ connecting'[i] = connecting[i]
      /\ \A i \in S : \A m \in DOMAIN ups[i] : m \in DOMAIN ups'[i] /\ ups'[i][m] = ups[i][m]
      /\ \A i \in S : \A m \in DOMAIN ups'[i] : m \in DOMAIN ups[i] \/ m = connecting'[i]
  BY <1>1, ConnectFrames
<1>3. /\ \A i \in S : /\ connecting'[i] \in DOMAIN ups'[i] /\ connecting'[i] # 0
                      /\ ups'[i][connecting'[i]].status = "deps"
                      /\ \A d \in Deps[i] : /\ ups'[i][connecting'[i]].on[d] = connecting'[d]
                                            /\ connecting'[d] # 0
      /\ \A i \in S \ {r} : \E p \in S : i \in Deps[p]
  BY <1>1, ConnectFrames
<1>4. /\ connecting[r] = 0 /\ UNCHANGED <<connected, downs>>
      /\ asked' = [asked EXCEPT ![r].connect = @ + 1]
      /\ \A n \in DOMAIN downs[r] : downs[r][n].status = "done"
  BY DEF Connect
<1>5. \A j \in Nodes : \A m \in DOMAIN ups[j] : m \in DOMAIN ups'[j] /\ ups'[j][m] = ups[j][m]
  BY <1>2
<1>6. ASSUME Undisturbed' PROVE Undisturbed
  <2>1. \A j \in Nodes : \A m \in DOMAIN ups[j] : ups[j][m].status \notin {"undo", "failed"}
    BY <1>5, <1>6 DEF Undisturbed
  <2>2. PICK a \in Asks : a = asked[r]
    BY DEF GraphShaped
  <2>3. asked'[r] = [a EXCEPT !.connect = @ + 1]
    BY <1>4, <2>2 DEF GraphShaped
  <2>4. asked'[r].interrupt = asked[r].interrupt
    BY <2>2, <2>3 DEF Asks
  <2> QED
    BY <1>6, <2>1, <2>4 DEF Undisturbed, Rooted
<1> SUFFICES ASSUME Undisturbed
             PROVE  /\ Present' /\ Called(r)' /\ Founded' /\ Lasting'
                    /\ Leaving(r)' /\ Dismissed(r)' /\ Unfailing' /\ UpOnDependencies'
  BY <1>6
<1>7. \A j \in Nodes : \A m \in DOMAIN ups[j] : ~ Rising(j, m)
  BY <1>4, RootRests, NoneRises
<1>8. \A j \in Nodes : \A m \in DOMAIN downs[j] : downs[j][m].status = "done"
  <2>1. SUFFICES ASSUME NEW j \in Nodes \ {r}, NEW m \in DOMAIN downs[j], downs[j][m].status # "done"
                 PROVE  FALSE
    BY <1>4
  <2> QED
    BY <1>4, <2>1, RootLeaves
<1>9. ASSUME NEW j \in Nodes, NEW m \in DOMAIN ups'[j], Rising(j, m)'
      PROVE  j \in S /\ m = connecting'[j] /\ ups'[j][m].status = "deps"
  <2>1. m \notin DOMAIN ups[j]
    BY <1>5, <1>7, <1>9 DEF Rising
  <2> QED
    BY <1>2, <1>3, <2>1
<1>10. Present'
  BY <1>3, <1>9 DEF Present
<1>11. Called(r)'
  BY <1>2, <1>3, <1>9 DEF Called
<1>12. Founded'
  <2> SUFFICES ASSUME NEW j \in Nodes, NEW m \in DOMAIN ups'[j], ups'[j][m].status = "open" PROVE FALSE
    BY DEF Founded
  <2> QED
    BY <1>9 DEF Rising
<1>13. Lasting'
  <2> SUFFICES ASSUME NEW j \in Nodes, connecting'[j] # 0
               PROVE  /\ connecting'[j] \in DOMAIN ups'[j]
                      /\ ups'[j][connecting'[j]].status = "ok" => connected'[j]
    BY DEF Lasting
  <2>1. CASE j \in S
    BY <1>3, <2>1
  <2>2. CASE j \notin S
    BY <1>2, <1>4, <2>2 DEF Lasting
  <2> QED
    BY <2>1, <2>2
<1>14. Leaving(r)' /\ Dismissed(r)' /\ Unfailing'
  BY <1>4, <1>8 DEF Leaving, Dismissed, Unfailing, Rooted
<1>15. UpOnDependencies'
  BY <1>4 DEF UpOnDependencies
<1> QED
  BY <1>10, <1>11, <1>12, <1>13, <1>14, <1>15

\* The program disconnects the root, which awaits its present connection.
LEMMA DisconnectInv ==
    ASSUME NEW r, Rooted(r), GraphInv(r), GraphShaped', r \in Roots, Disconnect(r)
    PROVE  GraphInv(r)'
<1> USE DEF GraphInv, Poised
<1>1. /\ \A j \in Nodes \ {r} : downs'[j] = downs[j]
      /\ \A m \in DOMAIN downs[r] : m \in DOMAIN downs'[r] /\ downs'[r][m] = downs[r][m]
      /\ \A m \in DOMAIN downs'[r] : \/ m \in DOMAIN downs[r]
                                     \/ /\ downs'[r][m].status = "wait"
                                        /\ downs'[r][m].on = connecting[r]
      /\ UNCHANGED <<connected, connecting, ups>>
  BY DisconnectFrames
<1>2. asked' = [asked EXCEPT ![r].disconnect = @ + 1]
  BY DEF Disconnect
<1>3. ASSUME Undisturbed' PROVE Undisturbed
  <2>1. PICK a \in Asks : a = asked[r]
    BY DEF GraphShaped
  <2>2. asked'[r] = [a EXCEPT !.disconnect = @ + 1]
    BY <1>2, <2>1 DEF GraphShaped
  <2>3. asked'[r].interrupt = asked[r].interrupt
    BY <2>1, <2>2 DEF Asks
  <2> QED
    BY <1>1, <1>3, <2>3 DEF Undisturbed, Rooted
<1> SUFFICES ASSUME Undisturbed
             PROVE  /\ Present' /\ Called(r)' /\ Founded' /\ Lasting'
                    /\ Leaving(r)' /\ Dismissed(r)' /\ Unfailing' /\ UpOnDependencies'
  BY <1>3
<1>4. Present' /\ Founded' /\ Lasting' /\ UpOnDependencies'
  BY <1>1 DEF Present, Founded, Lasting, UpOnDependencies, Rising
<1>5. Called(r)'
  BY <1>1 DEF Called, Rising
<1>6. Leaving(r)'
  BY <1>1 DEF Leaving
<1>7. Unfailing'
  BY <1>1 DEF Unfailing
<1>8. Dismissed(r)'
  <2> SUFFICES ASSUME NEW j \in Nodes \ {r}, NEW m \in DOMAIN downs'[j], downs'[j][m].status # "done"
               PROVE  \E p \in Nodes : j \in Deps[p] /\ \E k \in DOMAIN downs'[p] :
                          downs'[p][k].status = "deps" /\ downs'[p][k].subs[j] = m
    BY DEF Dismissed
  <2>1. PICK p \in Nodes : j \in Deps[p] /\ \E k \in DOMAIN downs[p] :
                          downs[p][k].status = "deps" /\ downs[p][k].subs[j] = m
    BY <1>1 DEF Dismissed
  <2> QED
    BY <1>1, <2>1
<1> QED
  BY <1>4, <1>5, <1>6, <1>7, <1>8

\* What a frame that ends, or joins another, leaves as it is.
LEMMA SettleInv ==
    ASSUME NEW r, Rooted(r), GraphInv(r), Pointing, GraphShaped',
           NEW i \in Nodes, NEW n \in DOMAIN downs[i],
           Join(i, n) \/ Spare(i, n) \/ Disposed(i, n) \/ Rejection(i, n) \/ Joined(i, n)
    PROVE  GraphInv(r)'
<1> USE DEF GraphInv, Poised
<1>1. UNCHANGED <<connected, connecting, ups, asked>>
  BY DEF Join, Spare, Disposed, Rejection, Joined
<1> SUFFICES ASSUME Undisturbed
             PROVE  /\ Present' /\ Called(r)' /\ Founded' /\ Lasting'
                    /\ Leaving(r)' /\ Dismissed(r)' /\ Unfailing' /\ UpOnDependencies'
  BY <1>1 DEF Undisturbed
<1>2. Present' /\ Founded' /\ Lasting' /\ UpOnDependencies'
  BY <1>1 DEF Present, Founded, Lasting, UpOnDependencies, Rising
<1>3. Called(r)'
  BY <1>1 DEF Called, Rising
<1>4. ~ Rejection(i, n)
  <2> SUFFICES ASSUME Rejection(i, n) PROVE FALSE
    OBVIOUS
  <2>1. CASE /\ downs[i][n].status = "wait" /\ downs[i][n].on # 0
             /\ ups[i][downs[i][n].on].status \in {"undo", "failed"}
    BY <2>1 DEF Pointing, Undisturbed
  <2>2. CASE downs[i][n].status = "deps" /\ \E d \in Deps[i] : Sub(i, n, d).status = "failed"
    <3>1. PICK d \in Deps[i] : Sub(i, n, d).status = "failed"
      BY <2>2
    <3>2. d \in Nodes /\ downs[i][n].subs[d] \in DOMAIN downs[d]
      BY <2>2, Graph DEF Pointing
    <3> QED
      BY <3>1, <3>2 DEF Sub, Unfailing
  <2> QED
    BY <2>1, <2>2 DEF Rejection
<1>5. /\ \A j \in Nodes : DOMAIN downs'[j] = DOMAIN downs[j]
      /\ \A j \in Nodes : \A m \in DOMAIN downs[j] : ~ (j = i /\ m = n) => downs'[j][m] = downs[j][m]
  BY MoveFrames
<1>6. /\ downs'[i][n].status \in {"join", "done", "failed"}
      /\ downs'[i][n].status = "failed" => downs[i][downs[i][n].on].status = "failed" /\ Joined(i, n)
  <2>1. ~ Close(i, n)
    BY <1>4 DEF Close, Join, Spare, Disposed, Joined, Awaited
  <2>2. \/ downs'[i][n].status \in {"join", "done"}
        \/ /\ Joined(i, n) /\ downs'[i][n].status \in {"done", "failed"}
           /\ downs'[i][n].status = downs[i][downs[i][n].on].status
    BY <1>4, <2>1, MoveFrames
  <2> QED
    BY <2>2
<1>7. downs[i][n].status # "done"
  BY DEF Join, Spare, Disposed, Rejection, Joined, Awaited
<1>8. downs'[i][n].status # "failed"
  <2>1. Joined(i, n) => downs[i][n].on \in DOMAIN downs[i]
    BY DEF Joined, Pointing
  <2> QED
    BY <1>6, <2>1 DEF Unfailing
<1>9. Unfailing'
  BY <1>5, <1>8 DEF Unfailing
<1>10. Leaving(r)'
  <2> SUFFICES ASSUME NEW m \in DOMAIN downs[r]
               PROVE  /\ downs'[r][m].status = "wait" => connecting[r] \in {0, downs'[r][m].on}
                      /\ downs'[r][m].status \in {"close", "deps"} => connecting[r] = 0
    BY <1>1, <1>5 DEF Leaving, Rooted
  <2>1. CASE r = i /\ m = n
    BY <1>6, <2>1
  <2>2. CASE ~ (r = i /\ m = n)
    <3>1. downs'[r][m] = downs[r][m]
      BY <1>5, <2>2 DEF Rooted
    <3> QED
      BY <3>1 DEF Leaving
  <2> QED
    BY <2>1, <2>2
<1>11. Dismissed(r)'
  <2> SUFFICES ASSUME NEW j \in Nodes \ {r}, NEW m \in DOMAIN downs[j], downs'[j][m].status # "done"
               PROVE  \E p \in Nodes : j \in Deps[p] /\ \E k \in DOMAIN downs'[p] :
                          downs'[p][k].status = "deps" /\ downs'[p][k].subs[j] = m
    BY <1>5 DEF Dismissed
  <2>1. downs[j][m].status # "done"
    BY <1>5, <1>7
  <2>2. PICK p \in Nodes : j \in Deps[p] /\ \E k \in DOMAIN downs[p] :
                          downs[p][k].status = "deps" /\ downs[p][k].subs[j] = m
    BY <2>1 DEF Dismissed
  <2>3. PICK k \in DOMAIN downs[p] : downs[p][k].status = "deps" /\ downs[p][k].subs[j] = m
    BY <2>2
  <2>4. ASSUME p = i, k = n PROVE FALSE
    <3>1. Disposed(i, n)
      BY <1>4, <2>3, <2>4 DEF Join, Spare, Joined, Awaited
    <3> QED
      BY <2>1, <2>2, <2>3, <2>4, <3>1 DEF Disposed, Sub
  <2> QED
    BY <1>5, <2>2, <2>3, <2>4
<1> QED
  BY <1>2, <1>3, <1>9, <1>10, <1>11

\* What has no connected dependant closes, while nothing is connecting.
LEMMA CloseInv ==
    ASSUME NEW r, Rooted(r), GraphInv(r), Pointing, GraphShaped',
           NEW i \in Nodes, NEW n \in DOMAIN downs[i], Close(i, n)
    PROVE  GraphInv(r)'
<1> USE DEF GraphInv, Poised
<1>1. /\ UNCHANGED <<ups, asked>> /\ ~ Linked(i) /\ Awaited(i, n)
      /\ connected' = [connected EXCEPT ![i] = FALSE]
      /\ connecting' = [connecting EXCEPT ![i] = 0]
  BY DEF Close
<1> SUFFICES ASSUME Undisturbed
             PROVE  /\ Present' /\ Called(r)' /\ Founded' /\ Lasting'
                    /\ Leaving(r)' /\ Dismissed(r)' /\ Unfailing' /\ UpOnDependencies'
  BY <1>1 DEF Undisturbed
<1>2. connected'[i] = FALSE /\ connecting'[i] = 0
      /\ \A j \in Nodes \ {i} : connected'[j] = connected[j] /\ connecting'[j] = connecting[j]
  BY <1>1 DEF GraphShaped
<1>3. downs[i][n].status = "wait" /\ (downs[i][n].on # 0 => ups[i][downs[i][n].on].status = "ok")
  BY <1>1 DEF Awaited
<1>4. \A m \in DOMAIN ups[r] : ~ Rising(r, m)
  <2>1. CASE connecting[r] = 0
    BY <2>1, RootRests
  <2>2. CASE connecting[r] # 0
    <3>1. i = r
      BY <1>3, <2>2, RootLeaves
    <3>2. downs[r][n].on = connecting[r]
      BY <1>3, <2>2, <3>1 DEF Leaving
    <3>3. ups[r][connecting[r]].status = "ok"
      BY <1>3, <2>2, <3>1, <3>2
    <3> QED
      BY <3>1, <3>3 DEF Present, Rising
  <2> QED
    BY <2>1, <2>2
<1>5. \A j \in Nodes : \A m \in DOMAIN ups[j] : ~ Rising(j, m)
  BY <1>4, NoneRises
<1>6. Present' /\ Called(r)'
  BY <1>1, <1>5 DEF Present, Called, Rising
<1>7. Founded'
  BY <1>1, <1>5 DEF Founded, Rising
<1>8. Lasting'
  <2> SUFFICES ASSUME NEW j \in Nodes, connecting'[j] # 0
               PROVE  /\ connecting'[j] \in DOMAIN ups[j]
                      /\ ups[j][connecting'[j]].status = "ok" => connected'[j]
    BY <1>1 DEF Lasting
  <2> QED
    BY <1>2 DEF Lasting
<1>9. UpOnDependencies'
  <2> SUFFICES ASSUME NEW j \in Nodes, NEW d \in Nodes, d \in Deps[j], connected'[j]
               PROVE  connected'[d]
    BY DEF UpOnDependencies
  <2>1. j # i /\ connected[j] /\ connected[d]
    BY <1>2 DEF UpOnDependencies
  <2>2. d # i
    BY <1>1, <2>1 DEF Linked, Rooted
  <2> QED
    BY <1>2, <2>1, <2>2
<1>10. /\ \A j \in Nodes : DOMAIN downs'[j] = DOMAIN downs[j]
       /\ \A j \in Nodes : \A m \in DOMAIN downs[j] : ~ (j = i /\ m = n) => downs'[j][m] = downs[j][m]
  BY MoveFrames
<1>11. downs'[i][n].status = "close"
  BY <1>3, MoveFrames DEF Close, Join, Spare, Disposed, Rejection, Joined, Sub
<1>12. Unfailing'
  BY <1>10, <1>11 DEF Unfailing
<1>13. Leaving(r)'
  <2> SUFFICES ASSUME NEW m \in DOMAIN downs[r]
               PROVE  /\ downs'[r][m].status = "wait" => connecting'[r] \in {0, downs'[r][m].on}
                      /\ downs'[r][m].status \in {"close", "deps"} => connecting'[r] = 0
    BY <1>10 DEF Leaving, Rooted
  <2>1. CASE r = i
    BY <1>2, <2>1
  <2>2. CASE r # i
    BY <1>2, <1>10, <2>2 DEF Leaving, Rooted
  <2> QED
    BY <2>1, <2>2
<1>14. Dismissed(r)'
  <2> SUFFICES ASSUME NEW j \in Nodes \ {r}, NEW m \in DOMAIN downs[j], downs'[j][m].status # "done"
               PROVE  \E p \in Nodes : j \in Deps[p] /\ \E k \in DOMAIN downs'[p] :
                          downs'[p][k].status = "deps" /\ downs'[p][k].subs[j] = m
    BY <1>10 DEF Dismissed
  <2>1. downs[j][m].status # "done"
    BY <1>3, <1>10
  <2>2. PICK p \in Nodes : j \in Deps[p] /\ \E k \in DOMAIN downs[p] :
                          downs[p][k].status = "deps" /\ downs[p][k].subs[j] = m
    BY <2>1 DEF Dismissed
  <2> QED
    BY <1>3, <1>10, <2>2
<1> QED
  BY <1>6, <1>7, <1>8, <1>9, <1>12, <1>13, <1>14

\* close() has resolved: the frames of the dependencies have one that awaits them.
LEMMA ClosedInv ==
    ASSUME NEW r, Rooted(r), GraphInv(r), GraphShaped',
           NEW i \in Nodes, NEW n \in DOMAIN downs[i], Closed(i, n)
    PROVE  GraphInv(r)'
<1> USE DEF GraphInv, Poised
<1>1. UNCHANGED <<connected, connecting, ups, asked>> /\ downs[i][n].status = "close"
  BY DEF Closed
<1> SUFFICES ASSUME Undisturbed
             PROVE  /\ Present' /\ Called(r)' /\ Founded' /\ Lasting'
                    /\ Leaving(r)' /\ Dismissed(r)' /\ Unfailing' /\ UpOnDependencies'
  BY <1>1 DEF Undisturbed
<1>2. Present' /\ Founded' /\ Lasting' /\ UpOnDependencies'
  BY <1>1 DEF Present, Founded, Lasting, UpOnDependencies, Rising
<1>3. Called(r)'
  BY <1>1 DEF Called, Rising
<1>4. /\ DOMAIN downs'[i] = DOMAIN downs[i] /\ downs'[i][n].status = "deps"
      /\ \A m \in DOMAIN downs[i] : m # n => downs'[i][m] = downs[i][m]
      /\ \A j \in Nodes \ ({i} \cup Deps[i]) : downs'[j] = downs[j]
      /\ i \notin Deps[i]
  BY ClosedFrames
<1>5. \A j \in Deps[i] :
                /\ \A m \in DOMAIN downs[j] : m \in DOMAIN downs'[j] /\ downs'[j][m] = downs[j][m]
                /\ \A m \in DOMAIN downs'[j] :
                    \/ m \in DOMAIN downs[j]
                    \/ m = downs'[i][n].subs[j] /\ downs'[j][m].status = "wait"
  BY ClosedFrames
<1>6. ASSUME NEW j \in Nodes, NEW m \in DOMAIN downs[j], ~ (j = i /\ m = n)
      PROVE  m \in DOMAIN downs'[j] /\ downs'[j][m] = downs[j][m]
  <2>1. CASE j = i
    BY <1>4, <1>6, <2>1
  <2>2. CASE j \in Deps[i]
    BY <1>5, <2>2
  <2>3. CASE j \notin {i} \cup Deps[i]
    BY <1>4, <2>3
  <2> QED
    BY <2>1, <2>2, <2>3
<1>7. ASSUME NEW j \in Nodes, NEW m \in DOMAIN downs'[j], m \notin DOMAIN downs[j]
      PROVE  j \in Deps[i] /\ m = downs'[i][n].subs[j] /\ downs'[j][m].status = "wait"
  BY <1>4, <1>5, <1>7
<1>8. n \in DOMAIN downs'[i]
  BY <1>4
<1>9. r \notin Deps[i] /\ r \in Nodes
  BY DEF Rooted
<1>10. Unfailing'
  <2> SUFFICES ASSUME NEW j \in Nodes, NEW m \in DOMAIN downs'[j] PROVE downs'[j][m].status # "failed"
    BY DEF Unfailing
  <2> QED
    BY <1>4, <1>6, <1>7 DEF Unfailing
<1>11. Leaving(r)'
  <2> SUFFICES ASSUME NEW m \in DOMAIN downs'[r]
               PROVE  /\ downs'[r][m].status = "wait" => connecting[r] \in {0, downs'[r][m].on}
                      /\ downs'[r][m].status \in {"close", "deps"} => connecting[r] = 0
    BY <1>1 DEF Leaving
  <2>1. m \in DOMAIN downs[r]
    BY <1>7, <1>9
  <2>2. CASE r = i /\ m = n
    BY <1>1, <1>4, <2>1, <2>2 DEF Leaving
  <2>3. CASE ~ (r = i /\ m = n)
    BY <1>6, <1>9, <2>1, <2>3 DEF Leaving
  <2> QED
    BY <2>2, <2>3
<1>12. Dismissed(r)'
  <2> SUFFICES ASSUME NEW j \in Nodes \ {r}, NEW m \in DOMAIN downs'[j], downs'[j][m].status # "done"
               PROVE  \E p \in Nodes : j \in Deps[p] /\ \E k \in DOMAIN downs'[p] :
                          downs'[p][k].status = "deps" /\ downs'[p][k].subs[j] = m
    BY DEF Dismissed
  <2>1. CASE m \in DOMAIN downs[j]
    <3>1. downs[j][m].status # "done"
      BY <1>1, <1>6, <2>1
    <3>2. PICK p \in Nodes : j \in Deps[p] /\ \E k \in DOMAIN downs[p] :
                          downs[p][k].status = "deps" /\ downs[p][k].subs[j] = m
      BY <2>1, <3>1 DEF Dismissed
    <3>3. PICK k \in DOMAIN downs[p] : downs[p][k].status = "deps" /\ downs[p][k].subs[j] = m
      BY <3>2
    <3>4. k \in DOMAIN downs'[p] /\ downs'[p][k] = downs[p][k]
      BY <1>1, <1>6, <3>3
    <3> QED
      BY <3>2, <3>3, <3>4
  <2>2. CASE m \notin DOMAIN downs[j]
    BY <1>4, <1>7, <1>8, <2>2
  <2> QED
    BY <2>1, <2>2
<1> QED
  BY <1>2, <1>3, <1>10, <1>11, <1>12

-----------------------------------------------------------------------------
(* Theorems *)

\* What has been disturbed stays so, and steps that disturb claim nothing.
LEMMA DisturbedInv ==
    ASSUME NEW r, Rooted(r), GraphShaped, GraphShaped',
           \/ \E s \in Roots : DisconnectNow(s)
           \/ \E i \in Nodes : \E n \in DOMAIN ups[i] : Failed(i, n) \/ Undone(i, n)
    PROVE  GraphInv(r)'
<1> SUFFICES ~ Undisturbed'
  BY DEF GraphInv, Poised
<1>1. ASSUME NEW s \in Roots, DisconnectNow(s) PROVE ~ Undisturbed'
  <2>1. PICK a \in Asks : a = asked[s]
    BY DEF GraphShaped
  <2>2. asked'[s] = [a EXCEPT !.interrupt = @ + 1]
    BY <1>1, <2>1 DEF DisconnectNow, GraphShaped
  <2>3. asked'[s].interrupt # 0
    BY <2>2, Graph DEF Asks
  <2> QED
    BY <2>3 DEF Undisturbed
<1>2. ASSUME NEW i \in Nodes, NEW n \in DOMAIN ups[i], Failed(i, n) \/ Undone(i, n)
      PROVE  ~ Undisturbed'
  <2>1. PICK f \in UpFrames(i) : f = ups[i][n]
    BY DEF GraphShaped
  <2>2. ups[i] \in Seq(UpFrames(i)) /\ DOMAIN ups = Nodes
    BY DEF GraphShaped
  <2>3. n \in DOMAIN ups'[i] /\ ups'[i][n].status \in {"undo", "failed"}
    <3>1. CASE Failed(i, n)
      <4>1. ups' = [ups EXCEPT ![i][n].status = "undo", ![i][n].undo = disconnecting'[i]]
        BY <3>1 DEF Failed
      <4>2. ups'[i] = [ups[i] EXCEPT ![n] = [f EXCEPT !.status = "undo", !.undo = disconnecting'[i]]]
        BY <2>1, <2>2, <4>1
      <4>3. [f EXCEPT !.status = "undo", !.undo = disconnecting'[i]].status = "undo"
        BY <2>1 DEF UpFrames
      <4> QED
        BY <2>2, <4>2, <4>3
    <3>2. CASE Undone(i, n)
      <4>1. ups' = [ups EXCEPT ![i][n].status = "failed"]
        BY <3>2 DEF Undone
      <4>2. ups'[i] = [ups[i] EXCEPT ![n] = [f EXCEPT !.status = "failed"]]
        BY <2>1, <2>2, <4>1
      <4>3. [f EXCEPT !.status = "failed"].status = "failed"
        BY <2>1 DEF UpFrames
      <4> QED
        BY <2>2, <4>2, <4>3
    <3> QED
      BY <1>2, <3>1, <3>2
  <2> QED
    BY <2>3 DEF Undisturbed
<1> QED
  BY <1>1, <1>2

\* Every step keeps the invariant.
LEMMA NextGraphInv ==
    ASSUME NEW r, Rooted(r), GraphInv(r), Pointing, GraphShaped', [GraphNext]_graphVars
    PROVE  GraphInv(r)'
<1>1. CASE UNCHANGED graphVars
  <2>1. UNCHANGED <<connected, connecting, ups, downs, asked>>
    BY <1>1 DEF graphVars
  <2>2. Undisturbed' => Undisturbed
    BY <2>1 DEF Undisturbed
  <2> SUFFICES ASSUME Undisturbed
               PROVE  /\ Present' /\ Called(r)' /\ Founded' /\ Lasting'
                      /\ Leaving(r)' /\ Dismissed(r)' /\ Unfailing' /\ UpOnDependencies'
    BY <2>2 DEF GraphInv, Poised
  <2>3. Present' /\ Founded' /\ Lasting' /\ UpOnDependencies'
    BY <2>1 DEF GraphInv, Poised, Present, Founded, Lasting, UpOnDependencies, Rising
  <2>4. Called(r)' /\ Leaving(r)' /\ Dismissed(r)' /\ Unfailing'
    BY <2>1 DEF GraphInv, Poised, Called, Leaving, Dismissed, Unfailing, Rising
  <2> QED
    BY <2>3, <2>4
<1>2. ASSUME NEW s \in Roots, Connect(s) \/ Disconnect(s) \/ DisconnectNow(s) PROVE GraphInv(r)'
  <2>1. s = r
    BY DEF Rooted
  <2>2. DisconnectNow(s) => GraphInv(r)'
    BY DisturbedInv DEF GraphInv
  <2> QED
    BY <1>2, <2>1, <2>2, ConnectInv, DisconnectInv
<1>3. ASSUME NEW i \in Nodes, NEW n \in DOMAIN ups[i],
             Opening(i, n) \/ Opened(i, n) \/ Failed(i, n) \/ Undone(i, n)
      PROVE  GraphInv(r)'
  <2>1. Failed(i, n) \/ Undone(i, n) => GraphInv(r)'
    BY DisturbedInv DEF GraphInv
  <2> QED
    BY <1>3, <2>1, OpeningInv, OpenedInv
<1>4. ASSUME NEW i \in Nodes, NEW n \in DOMAIN downs[i],
             \/ Join(i, n) \/ Spare(i, n) \/ Close(i, n) \/ Closed(i, n)
             \/ Disposed(i, n) \/ Rejection(i, n) \/ Joined(i, n)
      PROVE  GraphInv(r)'
  BY <1>4, SettleInv, CloseInv, ClosedInv
<1> QED
  BY <1>1, <1>2, <1>3, <1>4 DEF GraphNext, Run

\* What holds of every graph, whatever it loses.
GraphWhole == GraphShaped /\ Pointing /\ opened \in [Nodes -> BOOLEAN]

\* In any graph every frame refers to frames that have begun (connector.js).
THEOREM GraphFrames == GraphSpec => []GraphTyped
<1>1. GraphInit => GraphWhole
  <2>1. GraphInit => opened \in [Nodes -> BOOLEAN]
    BY DEF GraphInit
  <2> QED
    BY <2>1, WholeInit DEF GraphWhole
<1>2. GraphWhole /\ [GraphNext]_graphVars => GraphWhole'
  BY WholeNext, OpenedFlags DEF GraphWhole
<1>3. GraphWhole => GraphTyped
  BY WholeTyped DEF GraphWhole
<1> QED
  BY <1>1, <1>2, <1>3, PTL DEF GraphSpec

\* Under one root and with a link for every dependency, a connector is
\* connected only on top of connected ones, whatever the shape of the graph,
\* until a connection fails or is interrupted (connector.js:76).
THEOREM Standing ==
    ASSUME NEW CONSTANT r, Rooted(r) PROVE GraphSpec => []UpOnDependencies
<1>1. GraphInit => GraphShaped /\ Pointing /\ GraphInv(r)
  BY WholeInit, InitGraphInv
<1>2. GraphShaped /\ Pointing /\ GraphInv(r) /\ [GraphNext]_graphVars
          => (GraphShaped /\ Pointing /\ GraphInv(r))'
  BY WholeNext, NextGraphInv
<1>3. GraphInv(r) => UpOnDependencies
  BY DEF GraphInv, Poised, UpOnDependencies
<1> QED
  BY <1>1, <1>2, <1>3, PTL DEF GraphSpec

-----------------------------------------------------------------------------
(* At rest, whatever fails *)

\* A connector connects or disconnects, never both.
OneOfBoth == \A i \in Nodes : connecting[i] = 0 \/ disconnecting[i] = 0

\* The present connection has not failed, and the connector is connected when
\* it is there.
Upright ==
    \A i \in Nodes :
        /\ connecting[i] # 0 => /\ connecting[i] \in DOMAIN ups[i]
                                /\ ups[i][connecting[i]].status \notin {"undo", "failed"}
        /\ connected[i] <=> connecting[i] # 0 /\ ups[i][connecting[i]].status = "ok"

\* No connection but the present one is under way.
Current == \A i \in Nodes : \A n \in DOMAIN ups[i] : Rising(i, n) => n = connecting[i]

\* A disconnection awaits the present connection, unless there is none.
Recent ==
    \A i \in Nodes : \A n \in DOMAIN downs[i] :
        downs[i][n].status = "wait" => connecting[i] \in {0, downs[i][n].on}

\* Each connection below the root is one that a dependant's has called for ...
Parented(r) ==
    \A i \in Nodes \ {r} : \A n \in DOMAIN ups[i] :
        \E p \in Nodes : i \in Deps[p] /\ \E m \in DOMAIN ups[p] : ups[p][m].on[i] = n

\* ... which gets to open() once it is there.
Grounded ==
    \A i \in Nodes : \A n \in DOMAIN ups[i] : ups[i][n].status \in {"open", "ok"} =>
        \A d \in Deps[i] : ups[d][ups[i][n].on[d]].status = "ok"

\* A root that has failed is not connected again.
GivenUp(r) ==
    (\E n \in DOMAIN ups[r] : ups[r][n].status \in {"undo", "failed"}) => connecting[r] = 0

\* What is not told to disconnect is wanted by a dependant that is neither.
Wanted(r) ==
    \A i \in Nodes \ {r} : connecting[i] # 0 =>
        \/ \E n \in DOMAIN downs[i] : downs[i][n].status = "wait"
        \/ \E p \in Nodes : /\ i \in Deps[p]
                            /\ \/ connecting[p] # 0
                               \/ \E m \in DOMAIN downs[p] : downs[p][m].status = "close"

\* What is open is connected or closing.
Open == \A i \in Nodes : opened[i] =>
    connected[i] \/ \E n \in DOMAIN downs[i] : downs[i][n].status = "close"

Restful(r) ==
    Uninterrupted =>
        /\ OneOfBoth /\ Upright /\ Current /\ Recent
        /\ Parented(r) /\ Grounded /\ GivenUp(r) /\ Wanted(r) /\ Open


\* Nothing has begun.
LEMMA RestfulInit == ASSUME NEW r, Rooted(r), GraphInit PROVE Restful(r)
<1>1. \A i \in Nodes : /\ ups[i] = <<>> /\ downs[i] = <<>> /\ connecting[i] = 0 /\ disconnecting[i] = 0
                       /\ connected[i] = FALSE /\ opened[i] = FALSE
  BY DEF GraphInit
<1>2. OneOfBoth /\ Upright /\ Current /\ Recent
  BY <1>1 DEF OneOfBoth, Upright, Current, Recent
<1>3. Parented(r) /\ Grounded /\ Wanted(r) /\ Open
  BY <1>1 DEF Parented, Grounded, Wanted, Open
<1>4. GivenUp(r)
  BY <1>1 DEF GivenUp, Rooted
<1> QED
  BY <1>2, <1>3, <1>4 DEF Restful

\* What a program asks otherwise is not an interruption, nor does it undo one.
LEMMA AskedOtherwise ==
    ASSUME GraphShaped, NEW r \in Roots,
           \/ asked' = [asked EXCEPT ![r].connect = @ + 1]
           \/ asked' = [asked EXCEPT ![r].disconnect = @ + 1],
           Uninterrupted'
    PROVE  Uninterrupted
<1>1. PICK a \in Asks : a = asked[r]
  BY DEF GraphShaped
<1>2. asked'[r] \in {[a EXCEPT !.connect = @ + 1], [a EXCEPT !.disconnect = @ + 1]}
      /\ \A s \in Roots \ {r} : asked'[s] = asked[s]
  BY <1>1 DEF GraphShaped
<1>3. asked'[r].interrupt = a.interrupt
  BY <1>2 DEF Asks
<1> QED
  BY <1>1, <1>2, <1>3 DEF Uninterrupted

\* A root whose connections have succeeded has nothing below it that failed.
LEMMA AllSucceeded ==
    ASSUME NEW r, Rooted(r), Parented(r), Grounded, \A n \in DOMAIN ups[r] : ups[r][n].status = "ok"
    PROVE  \A i \in Nodes : \A n \in DOMAIN ups[i] : ups[i][n].status = "ok"
<1> DEFINE S == {i \in Nodes : \E n \in DOMAIN ups[i] : ups[i][n].status # "ok"}
<1> SUFFICES ASSUME S # {} PROVE FALSE
  OBVIOUS
<1>1. PICK i \in S : \A p \in S : i \notin Deps[p]
  <2>1. S \in SUBSET Nodes
    OBVIOUS
  <2> HIDE DEF S
  <2> QED
    BY <2>1 DEF Rooted
<1>2. PICK n \in DOMAIN ups[i] : ups[i][n].status # "ok"
  BY <1>1
<1>3. i # r
  BY <1>2
<1>4. PICK p \in Nodes : i \in Deps[p] /\ \E m \in DOMAIN ups[p] : ups[p][m].on[i] = n
  BY <1>1, <1>2, <1>3 DEF Parented
<1>5. PICK m \in DOMAIN ups[p] : ups[p][m].on[i] = n
  BY <1>4
<1>6. ups[p][m].status = "ok"
  BY <1>1, <1>4
<1> QED
  BY <1>2, <1>4, <1>5, <1>6 DEF Grounded

\* The root connects, for the first time or after everything has succeeded: all
\* of it has disconnected.
LEMMA RestfulConnect ==
    ASSUME NEW r, Rooted(r), GraphInv(r), Pointing, Restful(r), r \in Roots, Connect(r)
    PROVE  Restful(r)'
<1> SUFFICES ASSUME Uninterrupted'
             PROVE  /\ OneOfBoth' /\ Upright' /\ Current' /\ Recent'
                    /\ Parented(r)' /\ Grounded' /\ GivenUp(r)' /\ Wanted(r)' /\ Open'
  BY DEF Restful
<1>1. GraphShaped
  BY DEF GraphInv
<1>2. /\ connecting[r] = 0 /\ UNCHANGED <<connected, downs, opened>>
      /\ asked' = [asked EXCEPT ![r].connect = @ + 1]
      /\ \A n \in DOMAIN ups[r] : ups[r][n].status = "ok"
      /\ \A n \in DOMAIN downs[r] : downs[r][n].status = "done"
      /\ disconnecting' = [i \in Nodes |-> IF i \in Starting(r) THEN 0 ELSE disconnecting[i]]
      /\ connecting' = [i \in Nodes |-> IF i \in Starting(r) THEN NextFrame(ups[i]) ELSE connecting[i]]
  BY DEF Connect
<1>3. Uninterrupted
  BY <1>1, <1>2, AskedOtherwise
<1>4. /\ OneOfBoth /\ Upright /\ Current /\ Recent
      /\ Parented(r) /\ Grounded /\ GivenUp(r) /\ Wanted(r) /\ Open
  BY <1>3 DEF Restful
<1>5. \A i \in Nodes : \A n \in DOMAIN ups[i] : ups[i][n].status = "ok"
  BY <1>2, <1>4, AllSucceeded
<1>6. \A j \in Nodes : \A m \in DOMAIN downs[j] : downs[j][m].status = "done"
  <2>1. Undisturbed
    BY <1>3, <1>5 DEF Undisturbed, Uninterrupted
  <2>2. Leaving(r) /\ Dismissed(r)
    BY <2>1 DEF GraphInv, Poised
  <2>3. r \in Nodes
    BY DEF Rooted
  <2> QED
    BY <1>1, <1>2, <2>2, <2>3, RootLeaves
<1>7. PICK S : S = Starting(r)
  OBVIOUS
<1>8. /\ S \subseteq Nodes /\ r \in S
      /\ \A i \in Nodes \ S : ups'[i] = ups[i] /\ connecting'[i] = connecting[i]
      /\ \A i \in S : \A m \in DOMAIN ups[i] : m \in DOMAIN ups'[i] /\ ups'[i][m] = ups[i][m]
      /\ \A i \in S : \A m \in DOMAIN ups'[i] : m \in DOMAIN ups[i] \/ m = connecting'[i]
  BY <1>1, <1>7, ConnectFrames
<1>9. /\ \A i \in S : /\ connecting'[i] \in DOMAIN ups'[i] /\ connecting'[i] # 0
                      /\ ups'[i][connecting'[i]].status = "deps"
                      /\ \A d \in Deps[i] : /\ ups'[i][connecting'[i]].on[d] = connecting'[d]
                                            /\ connecting'[d] # 0
      /\ \A i \in S \ {r} : \E p \in S : i \in Deps[p]
  BY <1>1, <1>7, ConnectFrames
<1>10. \A i \in S : connecting[i] = 0
  <2>1. \A i \in S : i \in {r} \cup {j \in Nodes : connecting[j] = 0}
    <3> DEFINE Z == {r} \cup {j \in Nodes : connecting[j] = 0}
    <3>1. Z \in SUBSET Nodes /\ r \in Z
      BY DEF Rooted
    <3>2. \A p \in Z : \A d \in Deps[p] : connecting[d] = 0 => d \in Z
      BY <3>1, Graph
    <3> HIDE DEF Z
    <3>3. \A i \in S : i \in Z
      BY <1>7, <3>1, <3>2, Zenon DEF Starting
    <3> QED
      BY <3>3 DEF Z
  <2> QED
    BY <1>2, <2>1
<1>11. \A i \in S : connecting'[i] = NextFrame(ups[i]) /\ connecting'[i] \notin DOMAIN ups[i]
  BY <1>1, <1>2, <1>7, <1>8 DEF GraphShaped, NextFrame
<1>12. OneOfBoth'
  BY <1>2, <1>4, <1>7, <1>8 DEF OneOfBoth
<1>13. Upright'
  <2> SUFFICES ASSUME NEW i \in Nodes
               PROVE  /\ connecting'[i] # 0 => /\ connecting'[i] \in DOMAIN ups'[i]
                                               /\ ups'[i][connecting'[i]].status \notin {"undo", "failed"}
                      /\ connected[i] <=> connecting'[i] # 0 /\ ups'[i][connecting'[i]].status = "ok"
    BY <1>2 DEF Upright
  <2>1. CASE i \in S
    BY <1>4, <1>9, <1>10, <2>1 DEF Upright
  <2>2. CASE i \notin S
    BY <1>4, <1>8, <2>2 DEF Upright
  <2> QED
    BY <2>1, <2>2
<1>14. Current'
  BY <1>5, <1>8, <1>9 DEF Current, Rising
<1>15. Recent'
  BY <1>2, <1>6 DEF Recent
<1>16. Parented(r)'
  <2> SUFFICES ASSUME NEW i \in Nodes \ {r}, NEW n \in DOMAIN ups'[i]
               PROVE  \E p \in Nodes : i \in Deps[p] /\ \E m \in DOMAIN ups'[p] : ups'[p][m].on[i] = n
    BY DEF Parented
  <2>1. CASE n \in DOMAIN ups[i]
    <3>1. PICK p \in Nodes : i \in Deps[p] /\ \E m \in DOMAIN ups[p] : ups[p][m].on[i] = n
      BY <1>4, <2>1 DEF Parented
    <3> QED
      BY <1>8, <3>1
  <2>2. CASE n \notin DOMAIN ups[i]
    <3>1. i \in S /\ n = connecting'[i]
      BY <1>8, <2>2
    <3>2. PICK p \in S : i \in Deps[p]
      BY <1>9, <3>1
    <3> QED
      BY <1>8, <1>9, <3>1, <3>2
  <2> QED
    BY <2>1, <2>2
<1>17. Grounded'
  <2> SUFFICES ASSUME NEW i \in Nodes, NEW n \in DOMAIN ups'[i], ups'[i][n].status \in {"open", "ok"},
                      NEW d \in Deps[i]
               PROVE  ups'[d][ups'[i][n].on[d]].status = "ok"
    BY DEF Grounded
  <2>1. n \in DOMAIN ups[i] /\ ups'[i][n] = ups[i][n]
    BY <1>8, <1>9
  <2>2. d \in Nodes
    BY Graph
  <2>3. ups[d][ups[i][n].on[d]].status = "ok"
    BY <1>4, <2>1 DEF Grounded
  <2>4. ups[i][n].on[d] \in DOMAIN ups[d]
    BY <2>1 DEF Pointing
  <2> QED
    BY <1>8, <2>1, <2>2, <2>3, <2>4
<1>18. GivenUp(r)'
  BY <1>5, <1>8, <1>9 DEF GivenUp
<1>19. Wanted(r)'
  <2> SUFFICES ASSUME NEW i \in Nodes \ {r}, connecting'[i] # 0
               PROVE  \/ \E n \in DOMAIN downs[i] : downs[i][n].status = "wait"
                      \/ \E p \in Nodes : /\ i \in Deps[p]
                                          /\ \/ connecting'[p] # 0
                                             \/ \E m \in DOMAIN downs[p] : downs[p][m].status = "close"
    BY <1>2 DEF Wanted
  <2>1. CASE i \in S
    BY <1>8, <1>9, <2>1
  <2>2. CASE i \notin S
    BY <1>4, <1>8, <1>9, <2>2 DEF Wanted
  <2> QED
    BY <2>1, <2>2
<1>20. Open'
  BY <1>2, <1>4 DEF Open
<1> QED
  BY <1>12, <1>13, <1>14, <1>15, <1>16, <1>17, <1>18, <1>19, <1>20


\* What is common to Opening and Opened: a connection under way goes on, and
\* what it awaits has connected.
LEMMA RestfulRise ==
    ASSUME NEW r, Rooted(r), GraphShaped, Pointing, Restful(r), Uninterrupted, NEW i \in Nodes, NEW n \in DOMAIN ups[i],
           NEW s \in {"open", "ok"}, ups' = [ups EXCEPT ![i][n].status = s],
           \/ ups[i][n].status = "open"
           \/ ups[i][n].status = "deps" /\ \A d \in Deps[i] : ups[d][ups[i][n].on[d]].status = "ok",
           UNCHANGED <<connecting, disconnecting, downs>>
    PROVE  /\ OneOfBoth' /\ Current' /\ Recent'
           /\ Parented(r)' /\ Grounded' /\ GivenUp(r)' /\ Wanted(r)'
           /\ n = connecting[i]
           /\ \A j \in Nodes : /\ DOMAIN ups'[j] = DOMAIN ups[j]
                               /\ \A m \in DOMAIN ups[j] : ~ (j = i /\ m = n) => ups'[j][m] = ups[j][m]
           /\ ups'[i][n].status = s
<1>1. /\ OneOfBoth /\ Upright /\ Current /\ Recent
      /\ Parented(r) /\ Grounded /\ GivenUp(r) /\ Wanted(r) /\ Open
  BY DEF Restful
<1>2. /\ DOMAIN ups' = Nodes
      /\ \A j \in Nodes : DOMAIN ups'[j] = DOMAIN ups[j]
      /\ \A j \in Nodes : \A m \in DOMAIN ups[j] : ups'[j][m].on = ups[j][m].on
      /\ \A j \in Nodes : \A m \in DOMAIN ups[j] : ~ (j = i /\ m = n) => ups'[j][m] = ups[j][m]
      /\ ups'[i][n].status = s
  <2>1. DOMAIN ups = Nodes /\ (\A j \in Nodes : ups[j] \in Seq(UpFrames(j))) /\ s \in UpStatus
    BY DEF GraphShaped, UpStatus
  <2>2. DOMAIN ups' = Nodes /\ ups'[i][n].status = s
    BY <2>1, UpMoves
  <2>3. \A j \in Nodes : DOMAIN ups'[j] = DOMAIN ups[j]
    BY <2>1, UpMoves
  <2>4. \A j \in Nodes : \A m \in DOMAIN ups[j] : /\ ups'[j][m].on = ups[j][m].on
                                                  /\ ~ (j = i /\ m = n) => ups'[j][m] = ups[j][m]
    BY <2>1, UpMoves
  <2> QED
    BY <2>2, <2>3, <2>4
<1>3. OneOfBoth' /\ Recent' /\ Wanted(r)'
  BY <1>1 DEF OneOfBoth, Recent, Wanted
<1>4. Current'
  BY <1>1, <1>2 DEF Current, Rising
<1>5. Parented(r)'
  BY <1>1, <1>2 DEF Parented
<1>6. \A j \in Nodes : \A m \in DOMAIN ups[j] : ups[j][m].status = "ok" => ups'[j][m].status = "ok"
  BY <1>2
<1>7. Grounded'
  <2> SUFFICES ASSUME NEW j \in Nodes, NEW m \in DOMAIN ups'[j], ups'[j][m].status \in {"open", "ok"},
                      NEW d \in Deps[j]
               PROVE  ups'[d][ups'[j][m].on[d]].status = "ok"
    BY DEF Grounded
  <2>1. m \in DOMAIN ups[j] /\ ups'[j][m].on = ups[j][m].on
    BY <1>2
  <2>2. ups[d][ups[j][m].on[d]].status = "ok"
    BY <1>1, <1>2, <2>1 DEF Grounded
  <2>3. d \in Nodes /\ ups[j][m].on[d] \in DOMAIN ups[d]
    BY <2>1, Graph DEF Pointing
  <2> QED
    BY <1>6, <2>1, <2>2, <2>3
<1>8. GivenUp(r)'
  BY <1>1, <1>2 DEF GivenUp, Rooted
<1>9. n = connecting[i]
  BY <1>1 DEF Current, Rising
<1> QED
  BY <1>2, <1>3, <1>4, <1>5, <1>7, <1>8, <1>9


\* open() is called on what has connected.
LEMMA RestfulOpening ==
    ASSUME NEW r, Rooted(r), GraphShaped, Pointing, Restful(r),
           NEW i \in Nodes, NEW n \in DOMAIN ups[i], Opening(i, n)
    PROVE  Restful(r)'
<1>1. /\ ups[i][n].status = "deps"
      /\ \A d \in Deps[i] : ups[d][ups[i][n].on[d]].status = "ok"
      /\ ups' = [ups EXCEPT ![i][n].status = "open"]
      /\ UNCHANGED <<connected, connecting, disconnecting, downs, opened, asked>>
  BY DEF Opening
<1> SUFFICES ASSUME Uninterrupted
             PROVE  /\ OneOfBoth' /\ Upright' /\ Current' /\ Recent'
                    /\ Parented(r)' /\ Grounded' /\ GivenUp(r)' /\ Wanted(r)' /\ Open'
  BY <1>1 DEF Restful, Uninterrupted
<1>2. /\ OneOfBoth' /\ Current' /\ Recent'
      /\ Parented(r)' /\ Grounded' /\ GivenUp(r)' /\ Wanted(r)'
      /\ n = connecting[i]
      /\ \A j \in Nodes : /\ DOMAIN ups'[j] = DOMAIN ups[j]
                          /\ \A m \in DOMAIN ups[j] : ~ (j = i /\ m = n) => ups'[j][m] = ups[j][m]
      /\ ups'[i][n].status = "open"
  BY <1>1, RestfulRise
<1>3. Upright /\ Open
  BY DEF Restful
<1>4. Upright'
  BY <1>1, <1>2, <1>3 DEF Upright
<1>5. Open'
  BY <1>1, <1>3 DEF Open
<1> QED
  BY <1>2, <1>4, <1>5

\* open() resolves.
LEMMA RestfulOpened ==
    ASSUME NEW r, Rooted(r), GraphShaped, Pointing, Restful(r),
           opened \in [Nodes -> BOOLEAN], NEW i \in Nodes, NEW n \in DOMAIN ups[i], Opened(i, n)
    PROVE  Restful(r)'
<1>1. /\ ups[i][n].status = "open"
      /\ ups' = [ups EXCEPT ![i][n].status = "ok"]
      /\ connected' = [connected EXCEPT ![i] = TRUE]
      /\ opened' = [opened EXCEPT ![i] = TRUE]
      /\ UNCHANGED <<connecting, disconnecting, downs, asked>>
  BY DEF Opened
<1> SUFFICES ASSUME Uninterrupted
             PROVE  /\ OneOfBoth' /\ Upright' /\ Current' /\ Recent'
                    /\ Parented(r)' /\ Grounded' /\ GivenUp(r)' /\ Wanted(r)' /\ Open'
  BY <1>1 DEF Restful, Uninterrupted
<1>2. /\ OneOfBoth' /\ Current' /\ Recent'
      /\ Parented(r)' /\ Grounded' /\ GivenUp(r)' /\ Wanted(r)'
      /\ n = connecting[i]
      /\ \A j \in Nodes : /\ DOMAIN ups'[j] = DOMAIN ups[j]
                          /\ \A m \in DOMAIN ups[j] : ~ (j = i /\ m = n) => ups'[j][m] = ups[j][m]
      /\ ups'[i][n].status = "ok"
  BY <1>1, RestfulRise
<1>3. Upright /\ Open
  BY DEF Restful
<1>4. connected'[i] = TRUE /\ \A j \in Nodes \ {i} : connected'[j] = connected[j]
  BY <1>1 DEF GraphShaped
<1>5. Upright'
  <2> SUFFICES ASSUME NEW j \in Nodes
               PROVE  /\ connecting[j] # 0 => /\ connecting[j] \in DOMAIN ups'[j]
                                              /\ ups'[j][connecting[j]].status \notin {"undo", "failed"}
                      /\ connected'[j] <=> connecting[j] # 0 /\ ups'[j][connecting[j]].status = "ok"
    BY <1>1 DEF Upright
  <2>1. CASE j = i
    <3>1. n # 0
      BY DEF GraphShaped
    <3> QED
      BY <1>2, <1>4, <2>1, <3>1
  <2>2. CASE j # i
    BY <1>2, <1>3, <1>4, <2>2 DEF Upright
  <2> QED
    BY <2>1, <2>2
<1>6. Open'
  <2>1. \A j \in Nodes \ {i} : opened'[j] = opened[j]
    BY <1>1
  <2> QED
    BY <1>1, <1>3, <1>4, <2>1 DEF Open
<1> QED
  BY <1>2, <1>5, <1>6

\* disconnect(true) of what was not disconnecting: it is down at once, and its
\* dependencies are told to disconnect.
LEMMA InterruptDoes ==
    ASSUME GraphShaped, NEW i \in Nodes, Interrupt(i), disconnecting[i] = 0
    PROVE  /\ connected'[i] = FALSE /\ connecting'[i] = 0
           /\ \A j \in Nodes \ {i} : /\ connected'[j] = connected[j] /\ connecting'[j] = connecting[j]
                                     /\ disconnecting'[j] = disconnecting[j]
           /\ \A d \in Deps[i] : \E m \in DOMAIN downs'[d] : downs'[d][m].status = "wait"
<1>1. /\ connected' = [connected EXCEPT ![i] = FALSE]
      /\ connecting' = [connecting EXCEPT ![i] = 0]
      /\ disconnecting' = [disconnecting EXCEPT ![i] = NextFrame(downs[i])]
  BY DEF Interrupt
<1>2. /\ connected'[i] = FALSE /\ connecting'[i] = 0
      /\ \A j \in Nodes \ {i} : /\ connected'[j] = connected[j] /\ connecting'[j] = connecting[j]
                                /\ disconnecting'[j] = disconnecting[j]
  BY <1>1 DEF GraphShaped
<1>3. ASSUME NEW d \in Deps[i] PROVE \E m \in DOMAIN downs'[d] : downs'[d][m].status = "wait"
  <2>1. d \in Nodes /\ d # i
    BY NewFrames
  <2>2. Waiting(d) \in DownFrames(d) /\ Waiting(d).status = "wait" /\ downs[d] \in Seq(DownFrames(d))
    BY <2>1, NewFrames DEF GraphShaped
  <2>3. downs'[d] = Append(downs[d], Waiting(d))
    BY <2>1 DEF Interrupt
  <2> HIDE DEF Waiting
  <2> QED
    BY <2>2, <2>3, Grown
<1> QED
  BY <1>2, <1>3

\* A connection that fails is given up: what it had connected is told to
\* disconnect.
LEMMA RestfulFailed ==
    ASSUME NEW r, Rooted(r), GraphShaped, Pointing, Restful(r),
           NEW i \in Nodes, NEW n \in DOMAIN ups[i], Failed(i, n)
    PROVE  Restful(r)'
<1>1. /\ Rising(i, n) /\ Interrupt(i) /\ UNCHANGED <<opened, asked>>
      /\ ups' = [ups EXCEPT ![i][n].status = "undo", ![i][n].undo = disconnecting'[i]]
  BY DEF Failed, Rising
<1> SUFFICES ASSUME Uninterrupted
             PROVE  /\ OneOfBoth' /\ Upright' /\ Current' /\ Recent'
                    /\ Parented(r)' /\ Grounded' /\ GivenUp(r)' /\ Wanted(r)' /\ Open'
  BY <1>1 DEF Restful, Uninterrupted
<1>2. /\ OneOfBoth /\ Upright /\ Current /\ Recent
      /\ Parented(r) /\ Grounded /\ GivenUp(r) /\ Wanted(r) /\ Open
  BY DEF Restful
<1>3. n = connecting[i] /\ n # 0
  BY <1>1, <1>2 DEF Current, GraphShaped
<1>4. disconnecting[i] = 0 /\ ~ connected[i]
  BY <1>1, <1>2, <1>3 DEF OneOfBoth, Upright, Rising
<1>5. /\ connected'[i] = FALSE /\ connecting'[i] = 0
      /\ \A j \in Nodes \ {i} : /\ connected'[j] = connected[j] /\ connecting'[j] = connecting[j]
                                /\ disconnecting'[j] = disconnecting[j]
      /\ \A d \in Deps[i] : \E m \in DOMAIN downs'[d] : downs'[d][m].status = "wait"
  BY <1>1, <1>4, InterruptDoes
<1>6. /\ \A j \in Nodes : \A m \in DOMAIN downs[j] : m \in DOMAIN downs'[j] /\ downs'[j][m] = downs[j][m]
      /\ \A j \in Nodes : \A m \in DOMAIN downs'[j] \ DOMAIN downs[j] :
            downs'[j][m].status = "wait" => downs'[j][m].on = connecting[j]
  <2>1. \A j \in Nodes : \A m \in DOMAIN downs[j] : m \in DOMAIN downs'[j] /\ downs'[j][m] = downs[j][m]
    BY <1>1, InterruptFrames
  <2>2. \A j \in Nodes : \A m \in DOMAIN downs'[j] \ DOMAIN downs[j] :
                \/ downs'[j][m].status = "wait" /\ downs'[j][m].on = connecting[j]
                \/ /\ downs'[j][m].status = "deps"
                   /\ \A d \in Deps[j] : downs'[j][m].subs[d] \in DOMAIN downs'[d]
    BY <1>1, InterruptFrames
  <2> QED
    BY <2>1, <2>2
<1>7. /\ \A j \in Nodes : DOMAIN ups'[j] = DOMAIN ups[j]
      /\ \A j \in Nodes : \A m \in DOMAIN ups[j] : /\ ups'[j][m].on = ups[j][m].on
                                                   /\ ~ (j = i /\ m = n) => ups'[j][m] = ups[j][m]
      /\ ups'[i][n].status = "undo"
  <2>1. PICK f \in UpFrames(i) : f = ups[i][n]
    BY DEF GraphShaped
  <2>2. DOMAIN ups = Nodes /\ ups[i] \in Seq(UpFrames(i))
    BY DEF GraphShaped
  <2>3. PICK g : g = [f EXCEPT !.status = "undo", !.undo = disconnecting'[i]]
    OBVIOUS
  <2>4. g.status = "undo" /\ g.on = f.on
    BY <2>3 DEF UpFrames
  <2>5. ups'[i] = [ups[i] EXCEPT ![n] = g] /\ \A j \in Nodes \ {i} : ups'[j] = ups[j]
    BY <1>1, <2>1, <2>2, <2>3
  <2>6. DOMAIN ups'[i] = DOMAIN ups[i] /\ ups'[i][n] = g /\ \A m \in DOMAIN ups[i] : m # n => ups'[i][m] = ups[i][m]
    BY <2>2, <2>5
  <2> QED
    BY <2>1, <2>4, <2>5, <2>6
<1>8. OneOfBoth'
  BY <1>2, <1>5 DEF OneOfBoth
<1>9. Upright'
  <2> SUFFICES ASSUME NEW j \in Nodes
               PROVE  /\ connecting'[j] # 0 => /\ connecting'[j] \in DOMAIN ups'[j]
                                               /\ ups'[j][connecting'[j]].status \notin {"undo", "failed"}
                      /\ connected'[j] <=> connecting'[j] # 0 /\ ups'[j][connecting'[j]].status = "ok"
    BY DEF Upright
  <2>1. CASE j = i
    BY <1>5, <2>1
  <2>2. CASE j # i
    BY <1>2, <1>5, <1>7, <2>2 DEF Upright
  <2> QED
    BY <2>1, <2>2
<1>10. Current'
  <2> SUFFICES ASSUME NEW j \in Nodes, NEW m \in DOMAIN ups'[j], Rising(j, m)' PROVE m = connecting'[j]
    BY DEF Current
  <2>1. Rising(j, m) /\ m = connecting[j] /\ ~ (j = i /\ m = n)
    BY <1>2, <1>7 DEF Current, Rising
  <2> QED
    BY <1>3, <1>5, <2>1
<1>11. Recent'
  <2>1. \A j \in Nodes : connecting'[j] \in {0, connecting[j]}
    BY <1>5
  <2> QED
    BY <1>2, <1>6, <2>1 DEF Recent
<1>12. Parented(r)'
  BY <1>2, <1>7 DEF Parented
<1>13. Grounded'
  <2> SUFFICES ASSUME NEW j \in Nodes, NEW m \in DOMAIN ups'[j], ups'[j][m].status \in {"open", "ok"},
                      NEW d \in Deps[j]
               PROVE  ups'[d][ups'[j][m].on[d]].status = "ok"
    BY DEF Grounded
  <2>1. m \in DOMAIN ups[j] /\ ups'[j][m] = ups[j][m]
    BY <1>7
  <2>2. ups[d][ups[j][m].on[d]].status = "ok"
    BY <1>2, <2>1 DEF Grounded
  <2>3. d \in Nodes /\ ups[j][m].on[d] \in DOMAIN ups[d]
    BY <2>1, Graph DEF Pointing
  <2>4. ~ (d = i /\ ups[j][m].on[d] = n)
    BY <1>1, <2>2 DEF Rising
  <2> QED
    BY <1>7, <2>1, <2>2, <2>3, <2>4
<1>14. GivenUp(r)'
  BY <1>2, <1>5, <1>7 DEF GivenUp, Rooted
<1>15. Wanted(r)'
  <2> SUFFICES ASSUME NEW j \in Nodes \ {r}, connecting'[j] # 0
               PROVE  \/ \E m \in DOMAIN downs'[j] : downs'[j][m].status = "wait"
                      \/ \E p \in Nodes : /\ j \in Deps[p]
                                          /\ \/ connecting'[p] # 0
                                             \/ \E m \in DOMAIN downs'[p] : downs'[p][m].status = "close"
    BY DEF Wanted
  <2>1. \/ \E m \in DOMAIN downs[j] : downs[j][m].status = "wait"
        \/ \E p \in Nodes : /\ j \in Deps[p]
                            /\ \/ connecting[p] # 0
                               \/ \E m \in DOMAIN downs[p] : downs[p][m].status = "close"
    BY <1>2, <1>5 DEF Wanted
  <2> QED
    BY <1>5, <1>6, <2>1
<1>16. Open'
  BY <1>1, <1>2, <1>4, <1>5, <1>6 DEF Open
<1> QED
  BY <1>8, <1>9, <1>10, <1>11, <1>12, <1>13, <1>14, <1>15, <1>16

\* The failure of a connection is known when it has been undone.
LEMMA RestfulUndone ==
    ASSUME NEW r, Rooted(r), GraphShaped, Pointing, Restful(r),
           NEW i \in Nodes, NEW n \in DOMAIN ups[i], Undone(i, n)
    PROVE  Restful(r)'
<1>1. /\ ups[i][n].status = "undo"
      /\ ups' = [ups EXCEPT ![i][n].status = "failed"]
      /\ UNCHANGED <<connected, connecting, disconnecting, downs, opened, asked>>
  BY DEF Undone
<1> SUFFICES ASSUME Uninterrupted
             PROVE  /\ OneOfBoth' /\ Upright' /\ Current' /\ Recent'
                    /\ Parented(r)' /\ Grounded' /\ GivenUp(r)' /\ Wanted(r)' /\ Open'
  BY <1>1 DEF Restful, Uninterrupted
<1>2. /\ OneOfBoth /\ Upright /\ Current /\ Recent
      /\ Parented(r) /\ Grounded /\ GivenUp(r) /\ Wanted(r) /\ Open
  BY DEF Restful
<1>3. /\ \A j \in Nodes : DOMAIN ups'[j] = DOMAIN ups[j]
      /\ \A j \in Nodes : \A m \in DOMAIN ups[j] : /\ ups'[j][m].on = ups[j][m].on
                                                   /\ ~ (j = i /\ m = n) => ups'[j][m] = ups[j][m]
      /\ ups'[i][n].status = "failed"
  <2>1. DOMAIN ups = Nodes /\ (\A j \in Nodes : ups[j] \in Seq(UpFrames(j))) /\ "failed" \in UpStatus
    BY DEF GraphShaped, UpStatus
  <2>2. ups'[i][n].status = "failed"
    BY <1>1, <2>1, UpMoves
  <2>3. \A j \in Nodes : DOMAIN ups'[j] = DOMAIN ups[j]
    BY <1>1, <2>1, UpMoves
  <2>4. \A j \in Nodes : \A m \in DOMAIN ups[j] : /\ ups'[j][m].on = ups[j][m].on
                                                  /\ ~ (j = i /\ m = n) => ups'[j][m] = ups[j][m]
    BY <1>1, <2>1, UpMoves
  <2> QED
    BY <2>2, <2>3, <2>4
<1>4. OneOfBoth' /\ Recent' /\ Wanted(r)' /\ Open'
  BY <1>1, <1>2 DEF OneOfBoth, Recent, Wanted, Open
<1>5. Upright'
  <2>1. connecting[i] # 0 => connecting[i] # n
    BY <1>1, <1>2 DEF Upright
  <2> SUFFICES ASSUME NEW j \in Nodes
               PROVE  /\ connecting[j] # 0 => /\ connecting[j] \in DOMAIN ups'[j]
                                              /\ ups'[j][connecting[j]].status \notin {"undo", "failed"}
                      /\ connected[j] <=> connecting[j] # 0 /\ ups'[j][connecting[j]].status = "ok"
    BY <1>1 DEF Upright
  <2> QED
    BY <1>2, <1>3, <2>1 DEF Upright
<1>6. Current'
  BY <1>1, <1>2, <1>3 DEF Current, Rising
<1>7. Parented(r)'
  BY <1>2, <1>3 DEF Parented
<1>8. Grounded'
  <2> SUFFICES ASSUME NEW j \in Nodes, NEW m \in DOMAIN ups'[j], ups'[j][m].status \in {"open", "ok"},
                      NEW d \in Deps[j]
               PROVE  ups'[d][ups'[j][m].on[d]].status = "ok"
    BY DEF Grounded
  <2>1. m \in DOMAIN ups[j] /\ ups'[j][m] = ups[j][m]
    BY <1>3
  <2>2. ups[d][ups[j][m].on[d]].status = "ok"
    BY <1>2, <2>1 DEF Grounded
  <2>3. d \in Nodes /\ ups[j][m].on[d] \in DOMAIN ups[d]
    BY <2>1, Graph DEF Pointing
  <2>4. ~ (d = i /\ ups[j][m].on[d] = n)
    BY <1>1, <2>2
  <2> QED
    BY <1>3, <2>1, <2>2, <2>3, <2>4
<1>9. GivenUp(r)'
  BY <1>1, <1>2, <1>3 DEF GivenUp, Rooted
<1> QED
  BY <1>2, <1>4, <1>5, <1>6, <1>7, <1>8, <1>9

\* disconnect() of the root awaits its present connection.
LEMMA RestfulDisconnect ==
    ASSUME NEW r, Rooted(r), GraphShaped, Pointing, Restful(r), r \in Roots, Disconnect(r)
    PROVE  Restful(r)'
<1>1. /\ asked' = [asked EXCEPT ![r].disconnect = @ + 1]
      /\ UNCHANGED <<connected, connecting, disconnecting, ups, opened>>
  BY DEF Disconnect
<1> SUFFICES ASSUME Uninterrupted'
             PROVE  /\ OneOfBoth' /\ Upright' /\ Current' /\ Recent'
                    /\ Parented(r)' /\ Grounded' /\ GivenUp(r)' /\ Wanted(r)' /\ Open'
  BY DEF Restful
<1>2. Uninterrupted
  BY <1>1, AskedOtherwise
<1>3. /\ OneOfBoth /\ Upright /\ Current /\ Recent
      /\ Parented(r) /\ Grounded /\ GivenUp(r) /\ Wanted(r) /\ Open
  BY <1>2 DEF Restful
<1>4. /\ \A j \in Nodes : \A m \in DOMAIN downs[j] : m \in DOMAIN downs'[j] /\ downs'[j][m] = downs[j][m]
      /\ \A j \in Nodes : \A m \in DOMAIN downs'[j] \ DOMAIN downs[j] : downs'[j][m].on = connecting[j]
  BY DisconnectFrames
<1>5. OneOfBoth' /\ Upright' /\ Grounded' /\ GivenUp(r)' /\ Parented(r)'
  BY <1>1, <1>3 DEF OneOfBoth, Upright, Grounded, GivenUp, Parented
<1>6. Current'
  BY <1>1, <1>3 DEF Current, Rising
<1>7. Recent'
  BY <1>1, <1>3, <1>4 DEF Recent
<1>8. Wanted(r)' /\ Open'
  BY <1>1, <1>3, <1>4 DEF Wanted, Open
<1> QED
  BY <1>5, <1>6, <1>7, <1>8

\* A disconnection ends or joins another: what it leaves up is wanted.
LEMMA RestfulSettle ==
    ASSUME NEW r, Rooted(r), GraphShaped, Pointing, Restful(r),
           NEW i \in Nodes, NEW n \in DOMAIN downs[i],
           Join(i, n) \/ Spare(i, n) \/ Disposed(i, n) \/ Rejection(i, n) \/ Joined(i, n)
    PROVE  Restful(r)'
<1>1. UNCHANGED <<connected, connecting, disconnecting, ups, opened, asked>>
  BY DEF Join, Spare, Disposed, Rejection, Joined
<1> SUFFICES ASSUME Uninterrupted
             PROVE  /\ OneOfBoth' /\ Upright' /\ Current' /\ Recent'
                    /\ Parented(r)' /\ Grounded' /\ GivenUp(r)' /\ Wanted(r)' /\ Open'
  BY <1>1 DEF Restful, Uninterrupted
<1>2. /\ OneOfBoth /\ Upright /\ Current /\ Recent
      /\ Parented(r) /\ Grounded /\ GivenUp(r) /\ Wanted(r) /\ Open
  BY DEF Restful
<1>3. /\ \A j \in Nodes : DOMAIN downs'[j] = DOMAIN downs[j]
      /\ \A j \in Nodes : \A m \in DOMAIN downs[j] : ~ (j = i /\ m = n) => downs'[j][m] = downs[j][m]
  BY MoveFrames
<1>4. downs[i][n].status # "close"
  BY DEF Join, Spare, Disposed, Rejection, Joined, Awaited
<1>5. downs'[i][n].status \in {"join", "done", "failed"}
  <2>1. ~ Close(i, n) \/ downs'[i][n].status \in {"join", "done"}
    BY DEF Close, Join, Spare, Disposed, Rejection, Joined, Awaited
  <2>2. \/ downs'[i][n].status \in {"join", "done", "failed"}
        \/ Close(i, n)
    BY MoveFrames
  <2> QED
    BY <2>1, <2>2
<1>6. downs[i][n].status = "wait" =>
        connecting[i] = 0 \/ \E p \in Nodes : i \in Deps[p] /\ connecting[p] # 0
  <2> SUFFICES ASSUME downs[i][n].status = "wait"
               PROVE  connecting[i] = 0 \/ \E p \in Nodes : i \in Deps[p] /\ connecting[p] # 0
    OBVIOUS
  <2>1. CASE Join(i, n)
    BY <1>2, <2>1 DEF Join, OneOfBoth
  <2>2. CASE Spare(i, n)
    <3>1. PICK p \in Links[i] : connected[p]
      BY <2>2 DEF Spare, Linked
    <3>2. p \in Nodes /\ i \in Deps[p]
      BY <3>1 DEF Rooted
    <3> QED
      BY <1>2, <3>1, <3>2 DEF Upright
  <2>3. CASE Rejection(i, n)
    <3>1. downs[i][n].on # 0 /\ ups[i][downs[i][n].on].status \in {"undo", "failed"}
      BY <2>3 DEF Rejection
    <3> QED
      BY <1>2, <3>1 DEF Recent, Upright
  <2> QED
    BY <2>1, <2>2, <2>3 DEF Disposed, Joined
<1>7. OneOfBoth' /\ Upright' /\ Grounded' /\ GivenUp(r)' /\ Parented(r)'
  BY <1>1, <1>2 DEF OneOfBoth, Upright, Grounded, GivenUp, Parented
<1>8. Current'
  BY <1>1, <1>2 DEF Current, Rising
<1>9. Recent'
  BY <1>1, <1>2, <1>3, <1>5 DEF Recent
<1>10. \A j \in Nodes : (\E m \in DOMAIN downs[j] : downs[j][m].status = "close")
          => \E m \in DOMAIN downs'[j] : downs'[j][m].status = "close"
  BY <1>3, <1>4
<1>11. Wanted(r)'
  <2> SUFFICES ASSUME NEW j \in Nodes \ {r}, connecting[j] # 0
               PROVE  \/ \E m \in DOMAIN downs'[j] : downs'[j][m].status = "wait"
                      \/ \E p \in Nodes : /\ j \in Deps[p]
                                          /\ \/ connecting[p] # 0
                                             \/ \E m \in DOMAIN downs'[p] : downs'[p][m].status = "close"
    BY <1>1 DEF Wanted
  <2>1. \/ \E m \in DOMAIN downs[j] : downs[j][m].status = "wait"
        \/ \E p \in Nodes : /\ j \in Deps[p]
                            /\ \/ connecting[p] # 0
                               \/ \E m \in DOMAIN downs[p] : downs[p][m].status = "close"
    BY <1>2 DEF Wanted
  <2>2. CASE \E m \in DOMAIN downs[j] : downs[j][m].status = "wait"
    BY <1>3, <1>6, <2>2
  <2> QED
    BY <1>10, <2>1, <2>2
<1>12. Open'
  BY <1>1, <1>2, <1>10 DEF Open
<1> QED
  BY <1>7, <1>8, <1>9, <1>11, <1>12

\* What closes has no connected dependant and no connection under way.
LEMMA RestfulClose ==
    ASSUME NEW r, Rooted(r), GraphShaped, Pointing, Restful(r),
           NEW i \in Nodes, NEW n \in DOMAIN downs[i], Close(i, n)
    PROVE  Restful(r)'
<1>1. /\ downs[i][n].status = "wait" /\ (downs[i][n].on # 0 => ups[i][downs[i][n].on].status = "ok")
      /\ disconnecting[i] = 0 /\ UNCHANGED <<ups, opened, asked>>
      /\ connected' = [connected EXCEPT ![i] = FALSE]
      /\ connecting' = [connecting EXCEPT ![i] = 0]
      /\ disconnecting' = [disconnecting EXCEPT ![i] = n]
      /\ downs' = [downs EXCEPT ![i][n].status = "close"]
  BY DEF Close, Awaited
<1> SUFFICES ASSUME Uninterrupted
             PROVE  /\ OneOfBoth' /\ Upright' /\ Current' /\ Recent'
                    /\ Parented(r)' /\ Grounded' /\ GivenUp(r)' /\ Wanted(r)' /\ Open'
  BY <1>1 DEF Restful, Uninterrupted
<1>2. /\ OneOfBoth /\ Upright /\ Current /\ Recent
      /\ Parented(r) /\ Grounded /\ GivenUp(r) /\ Wanted(r) /\ Open
  BY DEF Restful
<1>3. /\ connected'[i] = FALSE /\ connecting'[i] = 0
      /\ \A j \in Nodes \ {i} : /\ connected'[j] = connected[j] /\ connecting'[j] = connecting[j]
                                /\ disconnecting'[j] = disconnecting[j]
  BY <1>1 DEF GraphShaped
<1>4. /\ \A j \in Nodes : DOMAIN downs'[j] = DOMAIN downs[j]
      /\ \A j \in Nodes : \A m \in DOMAIN downs[j] : ~ (j = i /\ m = n) => downs'[j][m] = downs[j][m]
      /\ downs'[i][n].status = "close"
  <2>1. DOMAIN downs = Nodes /\ (\A j \in Nodes : downs[j] \in Seq(DownFrames(j))) /\ "close" \in DownStatus
    BY DEF GraphShaped, DownStatus
  <2>2. \A j \in Nodes : DOMAIN downs'[j] = DOMAIN downs[j]
    BY <1>1, <2>1, DownMoves
  <2>3. \A j \in Nodes : \A m \in DOMAIN downs[j] : ~ (j = i /\ m = n) => downs'[j][m] = downs[j][m]
    BY <1>1, <2>1, DownMoves
  <2>4. downs'[i][n].status = "close"
    BY <1>1, <2>1, DownMoves
  <2> QED
    BY <2>2, <2>3, <2>4
<1>5. \A m \in DOMAIN ups[i] : ~ Rising(i, m)
  <2> SUFFICES ASSUME NEW m \in DOMAIN ups[i], Rising(i, m) PROVE FALSE
    OBVIOUS
  <2>1. m = connecting[i] /\ m # 0
    BY <1>2 DEF Current, GraphShaped
  <2>2. m = downs[i][n].on
    BY <1>1, <1>2, <2>1 DEF Recent
  <2> QED
    BY <1>1, <2>1, <2>2 DEF Rising
<1>6. OneOfBoth'
  BY <1>2, <1>3 DEF OneOfBoth
<1>7. Upright'
  BY <1>1, <1>2, <1>3 DEF Upright
<1>8. Current'
  BY <1>1, <1>2, <1>3, <1>5 DEF Current, Rising
<1>9. \A j \in Nodes : connecting'[j] \in {0, connecting[j]}
  BY <1>3
<1>10. Recent'
  BY <1>2, <1>4, <1>9 DEF Recent
<1>11. Parented(r)' /\ Grounded' /\ GivenUp(r)'
  BY <1>1, <1>2, <1>9 DEF Parented, Grounded, GivenUp, Rooted
<1>12. Wanted(r)'
  <2> SUFFICES ASSUME NEW j \in Nodes \ {r}, connecting'[j] # 0
               PROVE  \/ \E m \in DOMAIN downs'[j] : downs'[j][m].status = "wait"
                      \/ \E p \in Nodes : /\ j \in Deps[p]
                                          /\ \/ connecting'[p] # 0
                                             \/ \E m \in DOMAIN downs'[p] : downs'[p][m].status = "close"
    BY DEF Wanted
  <2>1. j # i /\ \/ \E m \in DOMAIN downs[j] : downs[j][m].status = "wait"
                 \/ \E p \in Nodes : /\ j \in Deps[p]
                                     /\ \/ connecting[p] # 0
                                        \/ \E m \in DOMAIN downs[p] : downs[p][m].status = "close"
    BY <1>2, <1>3 DEF Wanted
  <2>2. CASE \E m \in DOMAIN downs[j] : downs[j][m].status = "wait"
    BY <1>4, <2>1, <2>2
  <2>3. CASE \E p \in Nodes : /\ j \in Deps[p]
                              /\ \/ connecting[p] # 0
                                 \/ \E m \in DOMAIN downs[p] : downs[p][m].status = "close"
    BY <1>3, <1>4, <2>3
  <2> QED
    BY <2>1, <2>2, <2>3
<1>13. Open'
  <2> SUFFICES ASSUME NEW j \in Nodes, opened[j]
               PROVE  connected'[j] \/ \E m \in DOMAIN downs'[j] : downs'[j][m].status = "close"
    BY <1>1 DEF Open
  <2>1. CASE j = i
    BY <1>4, <2>1
  <2>2. CASE j # i
    BY <1>2, <1>3, <1>4, <2>2 DEF Open
  <2> QED
    BY <2>1, <2>2
<1> QED
  BY <1>6, <1>7, <1>8, <1>10, <1>11, <1>12, <1>13

\* close() has resolved: the dependencies are told to disconnect.
LEMMA RestfulClosed ==
    ASSUME NEW r, Rooted(r), GraphShaped, Pointing, Restful(r),
           opened \in [Nodes -> BOOLEAN], NEW i \in Nodes, NEW n \in DOMAIN downs[i], Closed(i, n)
    PROVE  Restful(r)'
<1>1. /\ UNCHANGED <<connected, connecting, disconnecting, ups, asked>>
      /\ opened' = [opened EXCEPT ![i] = FALSE]
  BY DEF Closed
<1> SUFFICES ASSUME Uninterrupted
             PROVE  /\ OneOfBoth' /\ Upright' /\ Current' /\ Recent'
                    /\ Parented(r)' /\ Grounded' /\ GivenUp(r)' /\ Wanted(r)' /\ Open'
  BY <1>1 DEF Restful, Uninterrupted
<1>2. /\ OneOfBoth /\ Upright /\ Current /\ Recent
      /\ Parented(r) /\ Grounded /\ GivenUp(r) /\ Wanted(r) /\ Open
  BY DEF Restful
<1>3. /\ downs[i][n].status = "close" /\ downs'[i][n].status = "deps"
      /\ \A j \in Nodes : \A m \in DOMAIN downs[j] :
            m \in DOMAIN downs'[j] /\ (~ (j = i /\ m = n) => downs'[j][m] = downs[j][m])
      /\ \A j \in Nodes : \A m \in DOMAIN downs'[j] :
            m \in DOMAIN downs[j] \/ downs'[j][m].on = connecting[j]
      /\ \A d \in Deps[i] : \E m \in DOMAIN downs'[d] : downs'[d][m].status = "wait"
  <2>1. downs[i][n].status = "close" /\ downs'[i][n].status = "deps"
    <3>1. downs'[i][n].status = "deps"
      BY ClosedFrames
    <3> QED
      BY <3>1 DEF Closed
  <2>2. ASSUME NEW j \in Nodes, NEW m \in DOMAIN downs[j]
        PROVE  m \in DOMAIN downs'[j] /\ (~ (j = i /\ m = n) => downs'[j][m] = downs[j][m])
    BY ClosedFrames
  <2>3. ASSUME NEW j \in Nodes, NEW m \in DOMAIN downs'[j]
        PROVE  m \in DOMAIN downs[j] \/ downs'[j][m].on = connecting[j]
    BY ClosedFrames
  <2>4. \A d \in Deps[i] : \E m \in DOMAIN downs'[d] : downs'[d][m].status = "wait"
    BY ClosedFrames
  <2> QED
    BY <2>1, <2>2, <2>3, <2>4
<1>4. OneOfBoth' /\ Upright' /\ Grounded' /\ GivenUp(r)' /\ Parented(r)'
  BY <1>1, <1>2 DEF OneOfBoth, Upright, Grounded, GivenUp, Parented
<1>5. Current'
  BY <1>1, <1>2 DEF Current, Rising
<1>6. Recent'
  BY <1>1, <1>2, <1>3 DEF Recent
<1>7. Wanted(r)'
  <2> SUFFICES ASSUME NEW j \in Nodes \ {r}, connecting[j] # 0
               PROVE  \/ \E m \in DOMAIN downs'[j] : downs'[j][m].status = "wait"
                      \/ \E p \in Nodes : /\ j \in Deps[p]
                                          /\ \/ connecting[p] # 0
                                             \/ \E m \in DOMAIN downs'[p] : downs'[p][m].status = "close"
    BY <1>1 DEF Wanted
  <2>1. CASE \E m \in DOMAIN downs[j] : downs[j][m].status = "wait"
    BY <1>3, <2>1
  <2>2. CASE \E p \in Nodes : /\ j \in Deps[p]
                              /\ \/ connecting[p] # 0
                                 \/ \E m \in DOMAIN downs[p] : downs[p][m].status = "close"
    BY <1>3, <2>2
  <2> QED
    BY <1>2, <2>1, <2>2 DEF Wanted
<1>8. Open'
  <2> SUFFICES ASSUME NEW j \in Nodes, opened'[j]
               PROVE  connected[j] \/ \E m \in DOMAIN downs'[j] : downs'[j][m].status = "close"
    BY <1>1 DEF Open
  <2>1. j # i /\ opened[j]
    BY <1>1
  <2>2. connected[j] \/ \E m \in DOMAIN downs[j] : downs[j][m].status = "close"
    BY <1>2, <2>1 DEF Open
  <2> QED
    BY <1>3, <2>1, <2>2
<1> QED
  BY <1>4, <1>5, <1>6, <1>7, <1>8

\* An interruption claims nothing.
LEMMA RestfulInterrupted ==
    ASSUME NEW r, GraphShaped, NEW s \in Roots, DisconnectNow(s)
    PROVE  Restful(r)'
<1>1. PICK a \in Asks : a = asked[s]
  BY DEF GraphShaped
<1>2. asked'[s] = [a EXCEPT !.interrupt = @ + 1]
  BY <1>1 DEF DisconnectNow, GraphShaped
<1>3. asked'[s].interrupt # 0
  BY <1>2, Graph DEF Asks
<1> QED
  BY <1>3 DEF Restful, Uninterrupted

\* Every step keeps it.
LEMMA RestfulNext ==
    ASSUME NEW r, Rooted(r), GraphWhole, GraphInv(r), Restful(r), [GraphNext]_graphVars
    PROVE  Restful(r)'
<1> USE DEF GraphWhole
<1>1. CASE UNCHANGED graphVars
  <2>1. UNCHANGED <<connected, connecting, disconnecting, ups, downs, opened, asked>>
    BY <1>1 DEF graphVars
  <2>2. /\ (OneOfBoth => OneOfBoth') /\ (Upright => Upright')
        /\ (Current => Current') /\ (Recent => Recent') /\ (Uninterrupted' => Uninterrupted)
    BY <2>1 DEF OneOfBoth, Upright, Current, Recent, Rising, Uninterrupted
  <2>3. /\ (Parented(r) => Parented(r)') /\ (Grounded => Grounded') /\ (GivenUp(r) => GivenUp(r)')
        /\ (Wanted(r) => Wanted(r)') /\ (Open => Open')
    BY <2>1 DEF Parented, Grounded, GivenUp, Wanted, Open
  <2> QED
    BY <2>2, <2>3 DEF Restful
<1>2. ASSUME NEW s \in Roots, Connect(s) \/ Disconnect(s) \/ DisconnectNow(s) PROVE Restful(r)'
  <2>1. s = r
    BY DEF Rooted
  <2> QED
    BY <1>2, <2>1, RestfulConnect, RestfulDisconnect, RestfulInterrupted
<1>3. ASSUME NEW i \in Nodes, NEW n \in DOMAIN ups[i],
             Opening(i, n) \/ Opened(i, n) \/ Failed(i, n) \/ Undone(i, n)
      PROVE  Restful(r)'
  BY <1>3, RestfulOpening, RestfulOpened, RestfulFailed, RestfulUndone
<1>4. ASSUME NEW i \in Nodes, NEW n \in DOMAIN downs[i],
             \/ Join(i, n) \/ Spare(i, n) \/ Close(i, n) \/ Closed(i, n)
             \/ Disposed(i, n) \/ Rejection(i, n) \/ Joined(i, n)
      PROVE  Restful(r)'
  BY <1>4, RestfulSettle, RestfulClose, RestfulClosed
<1> QED
  BY <1>1, <1>2, <1>3, <1>4 DEF GraphNext, Run

\* When all is at rest and the root has no connection, nothing has.
LEMMA AllDown ==
    ASSUME NEW r, Rooted(r), Upright, Wanted(r), Open, Quiet, connecting[r] = 0
    PROVE  \A i \in Nodes : ~ connected[i] /\ ~ opened[i]
<1> DEFINE S == {i \in Nodes : connecting[i] # 0}
<1>1. S = {}
  <2> SUFFICES ASSUME S # {} PROVE FALSE
    OBVIOUS
  <2>1. PICK i \in S : \A p \in S : i \notin Deps[p]
    <3>1. S \in SUBSET Nodes
      OBVIOUS
    <3> HIDE DEF S
    <3> QED
      BY <3>1 DEF Rooted
  <2>2. i \in Nodes \ {r} /\ connecting[i] # 0
    OBVIOUS
  <2>3. PICK p \in Nodes : /\ i \in Deps[p]
                           /\ \/ connecting[p] # 0
                              \/ \E m \in DOMAIN downs[p] : downs[p][m].status = "close"
    BY <2>2 DEF Wanted, Quiet, Settled
  <2>4. connecting[p] = 0
    BY <2>1, <2>3
  <2> QED
    BY <2>3, <2>4 DEF Quiet, Settled
<1>2. \A i \in Nodes : ~ connected[i]
  BY <1>1 DEF Upright
<1> QED
  BY <1>2 DEF Open, Quiet, Settled

\* What is kept is as promised when all is at rest.
LEMMA RestPromised ==
    ASSUME NEW r, Rooted(r), GraphInv(r), Restful(r), Uninterrupted
    PROVE  SoundAtRest /\ NothingLeaks
<1>1. /\ Upright /\ Parented(r) /\ Grounded /\ GivenUp(r) /\ Wanted(r) /\ Open
  BY DEF Restful
<1>2. SoundAtRest
  <2> SUFFICES ASSUME Quiet, NEW i \in Nodes, NEW d \in Nodes, d \in Deps[i], connected[i]
               PROVE  connected[d]
    BY DEF SoundAtRest
  <2>1. CASE Undisturbed
    BY <2>1 DEF GraphInv, Poised, UpOnDependencies
  <2>2. CASE ~ Undisturbed
    <3>1. \E j \in Nodes : \E n \in DOMAIN ups[j] : ups[j][n].status # "ok"
      BY <2>2 DEF Undisturbed, Uninterrupted
    <3>2. \E n \in DOMAIN ups[r] : ups[r][n].status # "ok"
      BY <1>1, <3>1, AllSucceeded
    <3>3. connecting[r] = 0
      BY <1>1, <3>2 DEF Quiet, GivenUp, Rooted
    <3> QED
      BY <1>1, <3>3, AllDown
  <2> QED
    BY <2>1, <2>2
<1>3. NothingLeaks
  <2> SUFFICES ASSUME Quiet, \A s \in Roots : ~ connected[s]
               PROVE  \A i \in Nodes : ~ connected[i] /\ ~ opened[i]
    BY DEF NothingLeaks
  <2>1. r \in Nodes /\ ~ connected[r]
    BY DEF Rooted
  <2>2. connecting[r] = 0
    BY <1>1, <2>1 DEF Upright, Quiet
  <2> QED
    BY <1>1, <2>2, AllDown
<1> QED
  BY <1>2, <1>3

\* Under one root, linked at every dependency and without cycles, the graph at
\* rest is as promised, whatever fails, overtakes or is repeated on the way,
\* until a signal interrupts it (connector.js connect, disconnect).
THEOREM Promised ==
    ASSUME NEW CONSTANT r, Rooted(r) PROVE GraphSpec => []GraphAtRest
<1>1. GraphInit => GraphWhole /\ GraphInv(r) /\ Restful(r)
  <2>1. GraphInit => opened \in [Nodes -> BOOLEAN]
    BY DEF GraphInit
  <2> QED
    BY <2>1, WholeInit, InitGraphInv, RestfulInit DEF GraphWhole
<1>2. GraphWhole /\ GraphInv(r) /\ Restful(r) /\ [GraphNext]_graphVars
          => (GraphWhole /\ GraphInv(r) /\ Restful(r))'
  BY WholeNext, OpenedFlags, NextGraphInv, RestfulNext DEF GraphWhole
<1>3. GraphWhole /\ GraphInv(r) /\ Restful(r) => GraphAtRest
  BY WholeTyped, RestPromised DEF GraphWhole, GraphAtRest
<1> QED
  BY <1>1, <1>2, <1>3, PTL DEF GraphSpec
=============================================================================
