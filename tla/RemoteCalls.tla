----------------------------- MODULE RemoteCalls -----------------------------
(***************************************************************************)
(* Calls of a component's operations through its bindings (core Call,      *)
(* Transmission, Component; bindings.loop and bindings.amqp Consumer and   *)
(* Producer).  The bindings of an operation are tried in order: the loop   *)
(* serves a component of the caller's own process or rejects, AMQP puts    *)
(* the request, or a task, in a queue for any process of the component.    *)
(* A message of a process that dies is delivered again (ComQ).             *)
(***************************************************************************)
EXTENDS Naturals, Sequences, FiniteSets

CONSTANTS
    Servers,    \* processes that may run the component
    Home,         \* the one the calls are made in
    Callers,
    Tasks,        \* those that are tasks
    Bindings,     \* the bindings its operation may have: sequences of "loop", "amqp"
    MaxKilled,   \* bounds how often a process dies
    Unanswered

\* Bindings of an operation are an array of the two, and no result of a call
\* is none.
ASSUME RemotesAssumption ==
    /\ Home \in Servers /\ Tasks \subseteq Callers /\ MaxKilled \in Nat
    /\ Bindings \in [Callers -> SUBSET Seq({"loop", "amqp"})]
    /\ Unanswered \notin {"reply", "exception", "contract", "transmission", "null"}

VARIABLES
    server,     \* the component's producers in each process
    left,       \* bindings that each call has yet to try
    state,      \* where each call is
    reply,      \* what the caller gets
    queue,      \* requests that wait in the queue of the endpoint
    tasks,      \* tasks that wait in the queue `..tasks`
    working,    \* calls that a process executes: [call, via, ran]
    ran,        \* ghost: how often each call was executed
    died        \* how many processes died

remoteVars == <<server, left, state, reply, queue, tasks, working, ran, died>>

\* An operation replies, with an output or an error, or throws an exception.
Results == {"reply", "exception"}

RemotesTyped ==
    /\ server \in [Servers -> {"down", "up", "sealed"}]
    /\ left \in [Callers -> Seq({"loop", "amqp"})]
    /\ state \in [Callers -> {"new", "trying", "waiting", "done", "lost"}]
    /\ reply \in [Callers -> Results \cup {"contract", "transmission", "null", Unanswered}]
    /\ queue \subseteq Callers /\ tasks \subseteq Callers
    /\ working \in [Servers -> SUBSET [call : Callers, via : {"loop", "amqp"},
                                       result : Results \cup {Unanswered}]]
    /\ ran \in [Callers -> Nat]
    /\ died \in 0..MaxKilled

RemoteInit ==
    /\ server = [p \in Servers |-> "up"]
    /\ left = [c \in Callers |-> <<>>]
    /\ state = [c \in Callers |-> "new"]
    /\ reply = [c \in Callers |-> Unanswered]
    /\ queue = {} /\ tasks = {}
    /\ working = [p \in Servers |-> {}]
    /\ ran = [c \in Callers |-> 0]
    /\ died = 0

-----------------------------------------------------------------------------
(* Call, Transmission *)

Told(c, r) ==
    /\ state' = [state EXCEPT ![c] = "done"]
    /\ reply' = [reply EXCEPT ![c] = r]

\* The request meets the contract, or the caller gets an exception.
Request(c) ==
    /\ state[c] = "new"
    /\ \/ /\ \E b \in Bindings[c] : left' = [left EXCEPT ![c] = b]
          /\ state' = [state EXCEPT ![c] = "trying"] /\ UNCHANGED reply
       \/ Told(c, "contract") /\ UNCHANGED left
    /\ UNCHANGED <<server, queue, tasks, working, ran, died>>

\* The next binding of the loop in request().
Trying(c, binding) ==
    state[c] = "trying" /\ left[c] # <<>> /\ Head(left[c]) = binding

Skip(c) == left' = [left EXCEPT ![c] = Tail(@)]

\* A consumer without `task` is passed over, one that returns false rejects.
Rejected(c) ==
    /\ Trying(c, "loop")
    /\ c \in Tasks \/ server[Home] # "up"
    /\ Skip(c)
    /\ UNCHANGED <<server, state, reply, queue, tasks, working, ran, died>>

Started(p, c, via) ==
    working' = [working EXCEPT ![p] = @ \cup {[call |-> c, via |-> via, result |-> Unanswered]}]

\* The loop invokes the component at once.
ByLoop(c) ==
    /\ Trying(c, "loop")
    /\ c \notin Tasks /\ server[Home] = "up"
    /\ Started(Home, c, "loop")
    /\ state' = [state EXCEPT ![c] = "waiting"]
    /\ Skip(c)
    /\ UNCHANGED <<server, reply, queue, tasks, ran, died>>

\* A request is awaited, a task is answered by null when it is in its queue.
ByQueue(c) ==
    /\ Trying(c, "amqp")
    /\ Skip(c)
    /\ IF c \in Tasks
       THEN tasks' = tasks \cup {c} /\ Told(c, "null") /\ UNCHANGED queue
       ELSE /\ queue' = queue \cup {c}
            /\ state' = [state EXCEPT ![c] = "waiting"]
            /\ UNCHANGED <<tasks, reply>>
    /\ UNCHANGED <<server, working, ran, died>>

\* All bindings rejected.
Exhausted(c) ==
    /\ state[c] = "trying" /\ left[c] = <<>>
    /\ Told(c, "transmission")
    /\ UNCHANGED <<server, left, queue, tasks, working, ran, died>>

-----------------------------------------------------------------------------
(* Producers *)

TakeRequest(p, c) ==
    /\ server[p] = "up"
    /\ c \in queue \cup tasks
    /\ queue' = queue \ {c} /\ tasks' = tasks \ {c}
    /\ Started(p, c, "amqp")
    /\ UNCHANGED <<server, left, state, reply, ran, died>>

\* The operation runs to its end.
Execute(p) ==
    \E w \in working[p], r \in Results :
        /\ w.result = Unanswered
        /\ working' = [working EXCEPT ![p] = (@ \ {w}) \cup {[w EXCEPT !.result = r]}]
        /\ ran' = [ran EXCEPT ![w.call] = @ + 1]
        /\ UNCHANGED <<server, left, state, reply, queue, tasks, died>>

SettleFallback(p) ==    \* faulty: a binding that throws hands the request on
    \E w \in working[p] :
        /\ w.result # Unanswered
        /\ working' = [working EXCEPT ![p] = @ \ {w}]
        /\ IF w.via = "loop" /\ w.result = "exception"
           THEN state' = [state EXCEPT ![w.call] = "trying"] /\ UNCHANGED reply
           ELSE IF state[w.call] = "waiting" THEN Told(w.call, w.result)
           ELSE UNCHANGED <<state, reply>>
        /\ UNCHANGED <<server, left, queue, tasks, ran, died>>

\* The caller gets the reply, an exception being thrown again; the message is
\* acknowledged.  Nobody waits for the result of a task.
Settle(p) ==
    \E w \in working[p] :
        /\ w.result # Unanswered
        /\ working' = [working EXCEPT ![p] = @ \ {w}]
        /\ IF state[w.call] = "waiting" THEN Told(w.call, w.result)
           ELSE UNCHANGED <<state, reply>>
        /\ UNCHANGED <<server, left, queue, tasks, ran, died>>

-----------------------------------------------------------------------------
(* Life cycle *)

\* The producers are closed: the loop forgets the endpoints, the queues are not
\* consumed any more; what is at work is finished.
Seal(p) ==
    /\ server[p] = "up"
    /\ server' = [server EXCEPT ![p] = "sealed"]
    /\ UNCHANGED <<left, state, reply, queue, tasks, working, ran, died>>

Dispose(p) ==
    /\ server[p] = "sealed" /\ working[p] = {}
    /\ server' = [server EXCEPT ![p] = "down"]
    /\ UNCHANGED <<left, state, reply, queue, tasks, working, ran, died>>

Restarted(p) ==
    /\ server[p] = "down"
    /\ server' = [server EXCEPT ![p] = "up"]
    /\ UNCHANGED <<left, state, reply, queue, tasks, working, ran, died>>

Redelivered(p, s) ==
    {c \in s : [call |-> c, via |-> "amqp"] \in
                   {[call |-> w.call, via |-> w.via] : w \in working[p]}}

\* What the process has not acknowledged goes back to its queue; the calls made
\* in it are lost.
Killed(p) ==
    /\ died < MaxKilled
    /\ server[p] # "down"
    /\ died' = died + 1
    /\ server' = [server EXCEPT ![p] = "down"]
    /\ working' = [working EXCEPT ![p] = {}]
    /\ queue' = queue \cup Redelivered(p, Callers \ Tasks)
    /\ tasks' = tasks \cup Redelivered(p, Tasks)
    /\ state' = [c \in Callers |-> IF p = Home /\ state[c] \in {"trying", "waiting"}
                                   THEN "lost" ELSE state[c]]
    /\ UNCHANGED <<left, reply, ran>>

Transmit(c) == Rejected(c) \/ ByLoop(c) \/ ByQueue(c) \/ Exhausted(c)
Finish(p) == Execute(p) \/ Settle(p) \/ Dispose(p)
Produce(p) == (\E c \in Callers : TakeRequest(p, c)) \/ Restarted(p)

RemoteNext ==
    \/ \E c \in Callers : Request(c) \/ Transmit(c)
    \/ \E p \in Servers : Produce(p) \/ Finish(p) \/ Seal(p) \/ Killed(p)

RemoteSpec == RemoteInit /\ [][RemoteNext]_remoteVars

-----------------------------------------------------------------------------
\* A call is executed once, by one binding and one process, unless a process
\* died: a binding that threw does not hand the request to the next one.
ExecutedOnce == \A c \in Callers : ran[c] <= 1 + died

\* What the caller is told happened: a result comes from an execution, and a
\* call that no binding took, or that broke its contract, was never executed.
RepliesTruthful ==
    \A c \in Callers : state[c] = "done" =>
        /\ reply[c] \in Results => ran[c] >= 1
        /\ reply[c] \in {"contract", "transmission"} => ran[c] = 0

\* A task that was accepted is executed, or waits in the queue, or is being
\* executed: no death of a process loses it.
TasksKept ==
    \A c \in Callers : reply[c] = "null" =>
        \/ ran[c] > 0 \/ c \in tasks
        \/ \E p \in Servers : \E w \in working[p] : w.call = c

\* Every request is answered unless the caller's process dies.
RequestsAnswered ==
    \A c \in Callers : state[c] \in {"trying", "waiting"} ~> state[c] \in {"done", "lost"}

\* Every task that was accepted is executed in the end.
TasksExecuted == \A c \in Callers : reply[c] = "null" ~> ran[c] > 0

\* What was executed and what callers are told agree, over all the bindings
\* of an operation and the deaths of processes (transmission.js).
CallsTruthful == RemotesTyped /\ ExecutedOnce /\ RepliesTruthful /\ TasksKept

\* Requests and tasks come to an end (transmission.js, amqp and loop bindings).
CallsEnd == RequestsAnswered /\ TasksExecuted
=============================================================================
