------------------------------ MODULE Connector -----------------------------
(***************************************************************************)
(* The connection hierarchy of runtime/core Connector: a graph of          *)
(* connectors whose connect() and disconnect() are asynchronous functions  *)
(* that call each other along the dependencies.  A call of connect() that  *)
(* starts a connection, and every call of disconnect(), is a frame: a      *)
(* record of how far that activation has come and of the frames it awaits. *)
(* A frame is named by its connector and its number there; whatever the    *)
(* code does between two awaits is one action.                             *)
(***************************************************************************)
EXTENDS Naturals, Sequences

CONSTANTS
    Nodes,      \* the connectors
    Deps,       \* #dependencies of each, as a set
    Links,      \* #links of each: those that registered as its parents
    Roots,      \* connectors that the program itself connects
    Flaky,      \* connectors whose open() may throw
    Connects,   \* how often the program connects a root
    Disconnects,\* how often it disconnects one
    Interrupts  \* how often it disconnects one with `interrupt`

\* Graphs that depends() builds: links go to dependants.
ASSUME Graph ==
    /\ Deps \in [Nodes -> SUBSET Nodes]
    /\ Links \in [Nodes -> SUBSET Nodes]
    /\ \A i \in Nodes : i \notin Deps[i] /\ Links[i] \subseteq {p \in Nodes : i \in Deps[p]}
    /\ Roots \subseteq Nodes /\ Flaky \subseteq Nodes
    /\ Connects \in Nat /\ Disconnects \in Nat /\ Interrupts \in Nat

VARIABLES
    connected,     \* .connected
    connecting,    \* #connecting: number of the frame whose promise it is, or 0
    disconnecting, \* #disconnecting: likewise
    ups,           \* frames of connect()
    downs,         \* frames of disconnect()
    opened,        \* ghost: open() has succeeded and close() has not ended
    asked          \* what the program has asked of each root so far

graphVars == <<connected, connecting, disconnecting, ups, downs, opened, asked>>

\* The program itself, as a caller.
Program == <<>>

\* on: the frame of each dependency whose promise is awaited.  A failed
\* connection is undone by the frame `undo` of disconnect(true) before the
\* caller that started it learns of the failure.
UpStatus == {"deps", "open", "ok", "undo", "failed"}

\* on: the connection that is awaited first, or 0; then the disconnection that
\* is joined.  subs: the frame of each dependency.
DownStatus == {"wait", "join", "close", "deps", "done", "failed"}

GraphTyped ==
    /\ connected \in [Nodes -> BOOLEAN]
    /\ opened \in [Nodes -> BOOLEAN]
    /\ \A i \in Nodes :
        /\ connecting[i] \in 0..Len(ups[i])
        /\ disconnecting[i] \in 0..Len(downs[i])
        /\ \A n \in DOMAIN ups[i] :
            LET f == ups[i][n] IN
            /\ f.status \in UpStatus
            /\ \A d \in Deps[i] : f.on[d] \in DOMAIN ups[d]
            /\ f.status \in {"undo", "failed"} => f.undo \in DOMAIN downs[i]
        /\ \A n \in DOMAIN downs[i] :
            LET f == downs[i][n] IN
            /\ f.status \in DownStatus
            /\ f.status = "join" => f.on \in DOMAIN downs[i]
            /\ f.status = "deps" => \A d \in Deps[i] : f.subs[d] \in DOMAIN downs[d]
    /\ asked \in [Roots -> [connect : 0..Connects, disconnect : 0..Disconnects,
                            interrupt : 0..Interrupts]]

GraphInit ==
    /\ connected = [i \in Nodes |-> FALSE]
    /\ connecting = [i \in Nodes |-> 0]
    /\ disconnecting = [i \in Nodes |-> 0]
    /\ ups = [i \in Nodes |-> <<>>]
    /\ downs = [i \in Nodes |-> <<>>]
    /\ opened = [i \in Nodes |-> FALSE]
    /\ asked = [r \in Roots |-> [connect |-> 0, disconnect |-> 0, interrupt |-> 0]]

-----------------------------------------------------------------------------
(* connect() *)

Settled(f) == f.status \in {"done", "failed"}

NextFrame(s) == Len(s) + 1

\* Everything that connect() of i starts before its first await: i and the
\* dependencies, theirs and so on, up to those that have been started.
Starting(i) ==
    {j \in Nodes :
        \A S \in SUBSET Nodes :
            i \in S /\ (\A p \in S : \A d \in Deps[p] : connecting[d] = 0 => d \in S)
                => j \in S}

\* The program calls connect() again only after a connection and a
\* disconnection that succeeded, as reconnect() does.  Of several parents that
\* start a dependency at once, one is the caller.
Connect(r) ==
    /\ asked[r].connect < Connects
    /\ asked' = [asked EXCEPT ![r].connect = @ + 1]
    /\ connecting[r] = 0
    /\ \A n \in DOMAIN ups[r] : ups[r][n].status = "ok"
    /\ \A n \in DOMAIN downs[r] : downs[r][n].status = "done"
    /\ LET S == Starting(r)
           on(i) == [d \in Deps[i] |->
                        IF d \in S THEN NextFrame(ups[d]) ELSE connecting[d]]
       IN  /\ \E by \in [S \ {r} -> S] :
                /\ \A i \in S \ {r} : i \in Deps[by[i]]
                /\ ups' = [i \in Nodes |->
                    IF i \notin S THEN ups[i]
                    ELSE Append(ups[i],
                        [status |-> "deps", on |-> on(i), undo |-> 0,
                         by |-> IF i = r THEN Program
                                ELSE <<by[i], NextFrame(ups[by[i]])>>])]
           /\ connecting' = [i \in Nodes |->
                IF i \in S THEN NextFrame(ups[i]) ELSE connecting[i]]
           /\ disconnecting' = [i \in Nodes |->
                IF i \in S THEN 0 ELSE disconnecting[i]]
    /\ UNCHANGED <<connected, downs, opened>>

OpeningFirst(i, n) ==    \* faulty: the first dependency to connect will do
    /\ ups[i][n].status = "deps"
    /\ Deps[i] # {} => \E d \in Deps[i] : ups[d][ups[i][n].on[d]].status = "ok"
    /\ ups' = [ups EXCEPT ![i][n].status = "open"]
    /\ UNCHANGED <<connected, connecting, disconnecting, downs, opened, asked>>

\* All dependencies have connected: open() is called.
Opening(i, n) ==
    /\ ups[i][n].status = "deps"
    /\ \A d \in Deps[i] : ups[d][ups[i][n].on[d]].status = "ok"
    /\ ups' = [ups EXCEPT ![i][n].status = "open"]
    /\ UNCHANGED <<connected, connecting, disconnecting, downs, opened, asked>>

\* open() resolves, and with it #connecting.
Opened(i, n) ==
    /\ ups[i][n].status = "open"
    /\ ups' = [ups EXCEPT ![i][n].status = "ok"]
    /\ connected' = [connected EXCEPT ![i] = TRUE]
    /\ opened' = [opened EXCEPT ![i] = TRUE]
    /\ UNCHANGED <<connecting, disconnecting, downs, asked>>

\* A frame of disconnect() that is at its first await.
Waiting(i) == [status |-> "wait", on |-> connecting[i], subs |-> <<>>]

\* The frames of the dependencies' disconnect(), called by i.
SubFrames(i) == [d \in Deps[i] |-> NextFrame(downs[d])]

\* disconnect(true) runs up to the dependencies, skipping close(), unless a
\* disconnection has begun.
Interrupt(i) ==
    IF disconnecting[i] # 0
    THEN UNCHANGED <<connected, connecting, disconnecting, downs>>
    ELSE /\ connected' = [connected EXCEPT ![i] = FALSE]
         /\ connecting' = [connecting EXCEPT ![i] = 0]
         /\ disconnecting' = [disconnecting EXCEPT ![i] = NextFrame(downs[i])]
         /\ downs' = [j \in Nodes |->
                CASE j = i -> Append(downs[j],
                        [status |-> "deps", on |-> 0, subs |-> SubFrames(i)])
                  [] j \in Deps[i] -> Append(downs[j], Waiting(j))
                  [] OTHER -> downs[j]]

\* open() throws, or a dependency has failed to connect; the caller that
\* started the dependency hears of it when the failure is undone, any other
\* at once.  Either way disconnect(true) follows.
Rejected(i, n, d) ==
    LET m == ups[i][n].on[d] IN
    \/ ups[d][m].status = "failed"
    \/ ups[d][m].status = "undo" /\ ups[d][m].by # <<i, n>>

Failed(i, n) ==
    /\ \/ ups[i][n].status = "open" /\ i \in Flaky
       \/ ups[i][n].status = "deps" /\ \E d \in Deps[i] : Rejected(i, n, d)
    /\ Interrupt(i)
    /\ ups' = [ups EXCEPT ![i][n].status = "undo",
                          ![i][n].undo = disconnecting'[i]]
    /\ UNCHANGED <<opened, asked>>

Undone(i, n) ==
    /\ ups[i][n].status = "undo"
    /\ Settled(downs[i][ups[i][n].undo])
    /\ ups' = [ups EXCEPT ![i][n].status = "failed"]
    /\ UNCHANGED <<connected, connecting, disconnecting, downs, opened, asked>>

-----------------------------------------------------------------------------
(* disconnect() *)

Disconnect(r) ==
    /\ asked[r].disconnect < Disconnects
    /\ asked' = [asked EXCEPT ![r].disconnect = @ + 1]
    /\ downs' = [downs EXCEPT ![r] = Append(@, Waiting(r))]
    /\ UNCHANGED <<connected, connecting, disconnecting, ups, opened>>

\* The way a process ends on a signal (cli graceful.js).
DisconnectNow(r) ==
    /\ asked[r].interrupt < Interrupts
    /\ asked' = [asked EXCEPT ![r].interrupt = @ + 1]
    /\ Interrupt(r)
    /\ UNCHANGED <<ups, opened>>

AwaitedNothing(i, n) ==    \* faulty: a connection under way is not awaited
    downs[i][n].status = "wait"

\* `await this.#connecting` has resolved.
Awaited(i, n) ==
    LET f == downs[i][n] IN
    f.status = "wait" /\ (f.on # 0 => ups[i][f.on].status = "ok")

Linked(i) == \E p \in Links[i] : connected[p]

\* A disconnection that has begun is joined.
Join(i, n) ==
    /\ Awaited(i, n)
    /\ disconnecting[i] # 0
    /\ downs' = [downs EXCEPT ![i][n].status = "join",
                              ![i][n].on = disconnecting[i]]
    /\ UNCHANGED <<connected, connecting, disconnecting, ups, opened, asked>>

\* A connected parent keeps the connector up.
Spare(i, n) ==
    /\ Awaited(i, n)
    /\ disconnecting[i] = 0
    /\ Linked(i)
    /\ downs' = [downs EXCEPT ![i][n].status = "done"]
    /\ UNCHANGED <<connected, connecting, disconnecting, ups, opened, asked>>

Close(i, n) ==
    /\ Awaited(i, n)
    /\ disconnecting[i] = 0
    /\ ~ Linked(i)
    /\ connected' = [connected EXCEPT ![i] = FALSE]
    /\ connecting' = [connecting EXCEPT ![i] = 0]
    /\ disconnecting' = [disconnecting EXCEPT ![i] = n]
    /\ downs' = [downs EXCEPT ![i][n].status = "close"]
    /\ UNCHANGED <<ups, opened, asked>>

\* close() resolves: the dependencies are disconnected.
Closed(i, n) ==
    /\ downs[i][n].status = "close"
    /\ downs' = [j \in Nodes |->
            CASE j = i -> [downs[j] EXCEPT ![n].status = "deps",
                                           ![n].subs = SubFrames(i)]
              [] j \in Deps[i] -> Append(downs[j], Waiting(j))
              [] OTHER -> downs[j]]
    /\ opened' = [opened EXCEPT ![i] = FALSE]
    /\ UNCHANGED <<connected, connecting, disconnecting, ups, asked>>

\* Promise.all over the dependencies, then dispose().
Sub(i, n, d) == downs[d][downs[i][n].subs[d]]

Disposed(i, n) ==
    /\ downs[i][n].status = "deps"
    /\ \A d \in Deps[i] : Sub(i, n, d).status = "done"
    /\ downs' = [downs EXCEPT ![i][n].status = "done"]
    /\ UNCHANGED <<connected, connecting, disconnecting, ups, opened, asked>>

\* The connection that was awaited has failed, or the disconnection of a
\* dependency has, which ends Promise.all at once.
Rejection(i, n) ==
    /\ LET f == downs[i][n] IN
       \/ /\ f.status = "wait" /\ f.on # 0
          /\ ups[i][f.on].status \in {"undo", "failed"}
       \/ f.status = "deps" /\ \E d \in Deps[i] : Sub(i, n, d).status = "failed"
    /\ downs' = [downs EXCEPT ![i][n].status = "failed"]
    /\ UNCHANGED <<connected, connecting, disconnecting, ups, opened, asked>>

Joined(i, n) ==
    /\ downs[i][n].status = "join"
    /\ LET target == downs[i][downs[i][n].on] IN
        /\ Settled(target)
        /\ downs' = [downs EXCEPT ![i][n].status = target.status]
    /\ UNCHANGED <<connected, connecting, disconnecting, ups, opened, asked>>

-----------------------------------------------------------------------------
Run(i) ==
    \/ \E n \in DOMAIN ups[i] :
        Opening(i, n) \/ Opened(i, n) \/ Failed(i, n) \/ Undone(i, n)
    \/ \E n \in DOMAIN downs[i] :
        \/ Join(i, n) \/ Spare(i, n) \/ Close(i, n) \/ Closed(i, n)
        \/ Disposed(i, n) \/ Rejection(i, n) \/ Joined(i, n)

GraphNext ==
    \/ \E r \in Roots : Connect(r) \/ Disconnect(r) \/ DisconnectNow(r)
    \/ \E i \in Nodes : Run(i)

GraphSpec == GraphInit /\ [][GraphNext]_graphVars

\* Node runs every continuation whose promise has settled, and open() and
\* close() settle; nothing obliges the program to call.
GraphFairSpec == GraphSpec /\ \A i \in Nodes : WF_graphVars(Run(i))

-----------------------------------------------------------------------------
(* Properties *)

Quiet ==
    \A i \in Nodes :
        /\ \A n \in DOMAIN ups[i] : ups[i][n].status \in {"ok", "failed"}
        /\ \A n \in DOMAIN downs[i] : Settled(downs[i][n])

\* When everything has settled, a connector that is up has its dependencies
\* up, whatever failed, overtook or was repeated on the way.
SoundAtRest ==
    Quiet =>
        \A i \in Nodes, d \in Nodes :
            d \in Deps[i] /\ connected[i] => connected[d]

\* No open() has thrown, and nobody has disconnected with `interrupt`.
Undisturbed ==
    /\ \A i \in Nodes : \A n \in DOMAIN ups[i] : ups[i][n].status \notin {"undo", "failed"}
    /\ \A r \in Roots : asked[r].interrupt = 0

\* "Connects dependants then self" (connector.js:76): as long as connections
\* are not undone, a connector is up only on top of dependencies that are up,
\* through disconnections that overtake a connection and reconnections.
UpOnDependencies ==
    Undisturbed => \A i \in Nodes, d \in Nodes : d \in Deps[i] /\ connected[i] => connected[d]

\* When everything has settled and no root is up, nothing was left open by a
\* failed or overtaken connection.
NothingLeaks ==
    Quiet /\ (\A r \in Roots : ~ connected[r]) =>
        \A i \in Nodes : ~ connected[i] /\ ~ opened[i]

\* Every connect() and disconnect() settles: awaiting each other never ends in
\* a deadlock.
Settles == []<>Quiet

\* "Does nothing if there are connected linked Connectors", where depends() of
\* "another Connector or a set of Connectors" creates the backlinks
\* (connector.js:33,106): what a connected connector depends on stays up.
KeptByDependants ==
    [][\A i, d \in Nodes :
        d \in Deps[i] /\ connected[i] /\ disconnecting'[d] # disconnecting[d] =>
            disconnecting'[d] = 0]_graphVars

\* Nobody has disconnected with `interrupt`.
Uninterrupted == \A r \in Roots : asked[r].interrupt = 0

\* At rest the graph is as connect() and disconnect() promise, unless a signal
\* interrupted it: whoever is up has its dependencies, and nothing is left
\* open below (connector.js).
GraphAtRest == GraphTyped /\ (Uninterrupted => SoundAtRest /\ NothingLeaks)
=============================================================================
