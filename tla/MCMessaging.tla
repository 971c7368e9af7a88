---------------------------- MODULE MCMessaging ----------------------------
(* Four components side by side: a behaviour is one of one of them. *)
EXTENDS Discovery, RemoteCalls, EventDelivery, Streams, TLC

VARIABLE focus

\* Two processes: a and b in p, c and d in q.  a and c receive events of each
\* other; a and b call d.
TheHost == [c \in Components |-> IF c \in {"c", "d"} THEN "q" ELSE "p"]
TheInquirer == [i \in Inquiries |->
    CASE i \in {"r1", "x1"} -> "a" [] i = "x2" -> "b" [] OTHER -> "c"]
TheTarget == [i \in Inquiries |->
    CASE i = "r1" -> "c" [] i = "r2" -> "a" [] OTHER -> "d"]
TheThrough == [c \in Calls |-> IF c = "k3" THEN "x2" ELSE "x1"]

\* A request and a task of operations with both bindings, the former's possibly
\* bound to the loop alone.
TheBindings == [c \in Callers |->
    {<<"loop", "amqp">>} \cup (IF c = "r" THEN {<<"loop">>} ELSE {})]

\* Two processes of one group and one of another.
TheGroups == [p \in Listeners |-> IF p = "l3" THEN "h" ELSE "g"]
TheHeard == [g \in {"g", "h"} |-> IF g = "h" THEN {"created"} ELSE {"created", "updated"}]

all == <<focus, vars, remoteVars, eventVars, streamVars>>

MCInit ==
    /\ focus \in {"discovery", "remote", "events", "streams"}
    /\ Init /\ RemoteInit /\ DeliveryInit /\ StreamsInit

OfDiscovery(A) == focus = "discovery" /\ A /\ UNCHANGED <<focus, remoteVars, eventVars, streamVars>>
OfRemote(A) == focus = "remote" /\ A /\ UNCHANGED <<focus, vars, eventVars, streamVars>>
OfEvents(A) == focus = "events" /\ A /\ UNCHANGED <<focus, vars, remoteVars, streamVars>>
OfStreams(A) == focus = "streams" /\ A /\ UNCHANGED <<focus, vars, remoteVars, eventVars>>

MCNext == OfDiscovery(Next) \/ OfRemote(RemoteNext) \/ OfEvents(DeliveryNext)
          \/ OfStreams(StreamsNext)

\* A process that ended is started again, every process goes on, and a message
\* in a queue is given to a process of its queue that stays up long enough;
\* realtime's clients read.
Fairness ==
    /\ \A p \in Processes : WF_all(OfDiscovery(Boot(p)))
    /\ \A i \in Inquiries : WF_all(OfDiscovery(Inquire(i)))
    /\ \A c \in Calls : WF_all(OfDiscovery(Answer(c)))
    /\ \A c \in Callers : WF_all(OfRemote(Transmit(c)))
                          /\ SF_all(OfRemote(\E p \in Processes : TakeRequest(p, c)))
    /\ \A p \in Processes : WF_all(OfRemote(Restarted(p)))
                            /\ WF_all(OfRemote(Finish(p)))
    /\ \A c \in Changes : WF_all(OfEvents(Deal(c)))
    /\ \A p \in Listeners : WF_all(OfEvents(Serve(p)))
          /\ WF_all(OfEvents(\E m \in Message : Handle(p, m)))
    /\ \A k \in Keys : WF_all(OfStreams(Flow(k)))
    /\ \A c \in Clients : WF_all(OfStreams(Read(c)))

MCSpec == MCInit /\ [][MCNext]_all /\ Fairness

\* Remotes are looked up once and compositions come up; calls and tasks are
\* answered.
CallsServed == /\ RemoteKept /\ (focus = "discovery" => BootsTogether) /\ CallsAnswered
               /\ CallsEnd
\* Each group gets the events, and each client what was pushed.
Delivered == EachGroupServed /\ Pushed
\* Calls, tasks, events and streams get where they are sent.
Served == CallsServed /\ Delivered
=============================================================================
