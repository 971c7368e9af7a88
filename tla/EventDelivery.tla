---------------------------- MODULE EventDelivery ----------------------------
(***************************************************************************)
(* Events and their receivers (core Emission, Event, Receiver over         *)
(* bindings.amqp Emitter and Receiver).  An emission hands a state change  *)
(* to each event of the component at once; an event that is emitted goes   *)
(* to every group of receivers, one process of which invokes an operation. *)
(* An exception of the operation ends the process, and its messages are    *)
(* queued again.                                                           *)
(***************************************************************************)
EXTENDS Naturals, FiniteSets

CONSTANTS
    Events,        \* events that a component declares
    Changes,       \* state changes
    Listeners,     \* processes of receivers
    GroupOf,       \* the component, hence the group, of each process
    Heard,         \* the events each group receives
    MaxDeaths,     \* bounds how often a process dies
    Unemitted

\* A change whose events are all dealt with is no longer one that was not
\* emitted.
ASSUME DeliveryAssumption == MaxDeaths \in Nat /\ \A es \in SUBSET Events : es # Unemitted

Groups == {GroupOf[p] : p \in Listeners}
Message == Changes \X Events

VARIABLES
    emission,    \* of each change: the events that have yet to be dealt with
    emitted,     \* messages whose event's condition is met
    settled,     \* ghost: <<group, message>> acknowledged
    queues,      \* messages that wait for each group
    serving,     \* processes whose receivers are open
    handling,    \* messages each process is at
    invoked,     \* ghost: how often a group's operation has been invoked
    deaths

eventVars == <<emission, emitted, settled, queues, serving, handling, invoked, deaths>>

DeliveryTyped ==
    /\ emission \in [Changes -> {Unemitted} \cup SUBSET Events]
    /\ emitted \subseteq Message
    /\ settled \subseteq Groups \X Message
    /\ queues \in [Groups -> SUBSET Message]
    /\ serving \subseteq Listeners
    /\ handling \in [Listeners -> SUBSET Message]
    /\ invoked \in [Groups \X Message -> Nat]
    /\ deaths \in 0..MaxDeaths

DeliveryInit ==
    /\ emission = [c \in Changes |-> Unemitted]
    /\ emitted = {} /\ settled = {}
    /\ queues = [g \in Groups |-> {}]
    /\ serving = Listeners
    /\ handling = [p \in Listeners |-> {}]
    /\ invoked = [gm \in Groups \X Message |-> 0]
    /\ deaths = 0

-----------------------------------------------------------------------------
\* emit(): all events are emitted side by side.
Emit(c) ==
    /\ emission[c] = Unemitted
    /\ emission' = [emission EXCEPT ![c] = Events]
    /\ UNCHANGED <<emitted, settled, queues, serving, handling, invoked, deaths>>

Dealt(c, e) ==
    /\ emission[c] # Unemitted /\ e \in emission[c]
    /\ emission' = [emission EXCEPT ![c] = @ \ {e}]
    /\ UNCHANGED <<settled, serving, handling, invoked, deaths>>

PublishOne(c, e) ==    \* faulty: one group gets the message, not each
    /\ Dealt(c, e)
    /\ emitted' = emitted \cup {<<c, e>>}
    /\ \E g \in Groups : e \in Heard[g] /\
            queues' = [queues EXCEPT ![g] = @ \cup {<<c, e>>}]

\* The condition holds, or there is none: the payload goes to the exchange, and
\* from there to the queue of each group.
Publish(c, e) ==
    /\ Dealt(c, e)
    /\ emitted' = emitted \cup {<<c, e>>}
    /\ queues' = [g \in Groups |->
          IF e \in Heard[g] THEN queues[g] \cup {<<c, e>>} ELSE queues[g]]

\* The condition does not hold.
Withhold(c, e) == Dealt(c, e) /\ UNCHANGED <<emitted, queues>>

-----------------------------------------------------------------------------
\* A process of the group is given the message, and holds it unacknowledged.
TakeMessage(p, m) ==
    /\ p \in serving /\ m \in queues[GroupOf[p]]
    /\ handling' = [handling EXCEPT ![p] = @ \cup {m}]
    /\ queues' = [queues EXCEPT ![GroupOf[p]] = @ \ {m}]
    /\ UNCHANGED <<emission, emitted, settled, serving, invoked, deaths>>

Acknowledged(p, m) ==
    /\ m \in handling[p]
    /\ handling' = [handling EXCEPT ![p] = @ \ {m}]
    /\ settled' = settled \cup {<<GroupOf[p], m>>}

\* The receiver's condition does not hold: nothing is invoked.
Ignore(p, m) ==
    /\ Acknowledged(p, m)
    /\ UNCHANGED <<emission, emitted, queues, serving, invoked, deaths>>

Counted(p, m) == invoked' = [invoked EXCEPT ![<<GroupOf[p], m>>] = @ + 1]

\* The operation of the receiver is invoked and returns.
InvokeReceiver(p, m) ==
    /\ Acknowledged(p, m)
    /\ Counted(p, m)
    /\ UNCHANGED <<emission, emitted, queues, serving, deaths>>

\* What a process that ends has not acknowledged is delivered again.
Ended(p) ==
    /\ deaths < MaxDeaths /\ deaths' = deaths + 1
    /\ serving' = serving \ {p}
    /\ handling' = [handling EXCEPT ![p] = {}]
    /\ queues' = [queues EXCEPT ![GroupOf[p]] = @ \cup handling[p]]

\* The operation throws: the receiver logs the error and throws it, and the
\* process ends, whatever else it was at.
Throw(p, m) ==
    /\ m \in handling[p]
    /\ Counted(p, m)
    /\ Ended(p)
    /\ UNCHANGED <<emission, emitted, settled>>

\* The process ends for another reason.
Die(p) ==
    /\ p \in serving
    /\ Ended(p)
    /\ UNCHANGED <<emission, emitted, settled, invoked>>

ListenAgain(p) ==
    /\ p \notin serving
    /\ serving' = serving \cup {p}
    /\ UNCHANGED <<emission, emitted, settled, queues, handling, invoked, deaths>>

Deal(c) == \E e \in Events : Publish(c, e) \/ Withhold(c, e)
Handle(p, m) == Ignore(p, m) \/ InvokeReceiver(p, m)
Serve(p) == ListenAgain(p) \/ \E m \in Message : TakeMessage(p, m)

DeliveryNext ==
    \/ \E c \in Changes : Emit(c) \/ Deal(c)
    \/ \E p \in Listeners :
        \/ Serve(p) \/ Die(p)
        \/ \E m \in Message : Handle(p, m) \/ Throw(p, m)

DeliverySpec == DeliveryInit /\ [][DeliveryNext]_eventVars

-----------------------------------------------------------------------------
\* A receiver's operation is invoked only for an event that was emitted and
\* that its group receives; once per group, unless a process ended on the way.
InvokedOnce ==
    \A g \in Groups, m \in Message :
        /\ invoked[<<g, m>>] > 0 => m \in emitted /\ m[2] \in Heard[g]
        /\ invoked[<<g, m>>] <= 1 + deaths

\* A message is nowhere twice: what waits for a group is not at one of its
\* processes, and no two processes of it are at the same message.
OneHandler ==
    \A p \in Listeners :
        /\ handling[p] \cap queues[GroupOf[p]] = {}
        /\ \A q \in Listeners \ {p} :
              GroupOf[p] = GroupOf[q] => handling[p] \cap handling[q] = {}

Pending(g, m) ==
    m \in queues[g] \/ \E p \in Listeners : GroupOf[p] = g /\ m \in handling[p]

\* No message is lost: what was emitted waits for each group that receives it,
\* or is at one of its processes, or has been dealt with, also after the
\* operation threw and the process ended.
NoneLost ==
    \A g \in Groups : \A m \in emitted :
        m[2] \in Heard[g] => Pending(g, m) \/ <<g, m>> \in settled

\* Every group is done with every event it receives in the end.
EachGroupServed ==
    \A g \in Groups, m \in Message :
        m \in emitted /\ m[2] \in Heard[g] ~> <<g, m>> \in settled

\* A message is in one place until each group has dealt with it, through the
\* exceptions of operations and deaths of processes (receiver.js).
EventsKept == DeliveryTyped /\ NoneLost /\ InvokedOnce /\ OneHandler
=============================================================================
