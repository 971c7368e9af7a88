------------------------------ MODULE Compositions ------------------------------
(***************************************************************************)
(* Compositions of one process: manifests with the options of a start,     *)
(* extensions, which decorate whatever the process boots after them,       *)
(* expositions, components, what their bindings produce and what their     *)
(* receivers listen to; and the loop binding, through which the process    *)
(* calls itself (boot manifest, composition, component, receivers,         *)
(* bindings and extensions; bindings.loop; contexts of bridges.node).      *)
(* Connecting and disconnecting one by one is Connector.                   *)
(***************************************************************************)
EXTENDS SequencesExt

(* Components are declared as [operations, events, receivers, extensions]:  *)
(* operations are their bindings, events their binding, receivers are those *)
(* of <<source, event>>, with a binding or Absent; options of a composition *)
(* are [bindings, extensions], the first a sequence or Absent.              *)
CONSTANTS Paths, StartOptions, DeclaredAs, PredefinedExtensions,
          Async, Loop, Decorators, Tenants, Aspects, Absent

VARIABLES starts, manifests, predefined, instances, loop, built, listeners, tenants

processVars == <<starts, manifests, predefined, instances, loop, built, listeners, tenants>>

All == DOMAIN Paths
Lookup == ".lookup"

ProcessInit == /\ starts = [c \in All |-> "idle"]
        /\ manifests = [c \in All |-> <<>>]
        /\ predefined = PredefinedExtensions /\ instances = {} /\ loop = <<>>
        /\ built = [c \in All |-> <<>>]
        /\ listeners = [c \in All |-> {}] /\ tenants = [c \in All |-> {}]

Go(c, to) == starts' = [starts EXCEPT ![c] = to]

(* What is there stays. *)
Added(f, keys, value) ==
    [k \in DOMAIN f \cup keys |-> IF k \in DOMAIN f THEN f[k] ELSE value]

----------------------------------------------------------------------------
(* Manifests *)

(* An override has operations called through its bindings, events emitted   *)
(* through the first of them that is asynchronous.                          *)
Override(c) == StartOptions[c].bindings
Asynchronous(bindings) ==
    LET i == SelectInSeq(bindings, LAMBDA b : b \in Async) IN IF i = 0 THEN Absent ELSE bindings[i]
Overridden(c) == IF Override(c) = Absent THEN Absent ELSE Asynchronous(Override(c))

(* A component without extensions shares the object of the predefined ones  *)
(* with all others, to which the options of a start are added.              *)
ExtensionsOf(c, x) ==
    IF DeclaredAs[x].extensions = {} THEN predefined
    ELSE PredefinedExtensions \cup DeclaredAs[x].extensions \cup StartOptions[c].extensions

Given(c, x) ==
    LET d == DeclaredAs[x] IN
    [operations |-> IF Override(c) = Absent THEN d.operations
                    ELSE [o \in DOMAIN d.operations |-> Override(c)],
     events |-> IF Override(c) = Absent THEN d.events
                ELSE [e \in DOMAIN d.events |-> Overridden(c)],
     receivers |-> [r \in DOMAIN d.receivers |->
                       IF Override(c) = Absent \/ d.receivers[r].foreign THEN d.receivers[r].binding
                       ELSE Overridden(c)]]

Manifest(c, x) ==
    /\ starts[c] = "idle" /\ x \in Paths[c] \ DOMAIN manifests[c]
    /\ IF Override(c) # Absent /\ Overridden(c) = Absent
       THEN Go(c, "failed") /\ UNCHANGED <<manifests, predefined>>
       ELSE /\ manifests' = [manifests EXCEPT ![c] = Added(@, {x}, Given(c, x))]
            /\ predefined' = IF DeclaredAs[x].extensions = {}
                             THEN predefined \cup StartOptions[c].extensions ELSE predefined
            /\ UNCHANGED starts
    /\ UNCHANGED <<instances, loop, built, listeners, tenants>>

----------------------------------------------------------------------------
(* Tenants, expositions, components *)

(* Extensions are created when one is first met, by whichever composition. *)
Tenant(c) ==
    /\ starts[c] = "idle" /\ DOMAIN manifests[c] = Paths[c]
    /\ instances' = instances \cup UNION {ExtensionsOf(c, x) : x \in Paths[c]}
    /\ tenants' = [tenants EXCEPT ![c] = UNION {{x} \X (ExtensionsOf(c, x) \cap Tenants) : x \in Paths[c]}]
    /\ Go(c, "exposing")
    /\ UNCHANGED <<manifests, predefined, loop, built, listeners>>

(* Expositions are connected at once: if one finds its endpoint taken, the  *)
(* others stay.                                                             *)
Takes(c, endpoints) == Added(loop, endpoints, c)
Expose(c) ==
    /\ starts[c] = "exposing"
    /\ LET lookups == Paths[c] \X {Lookup} IN
       /\ loop' = Takes(c, lookups)
       /\ Go(c, IF lookups \cap DOMAIN loop = {} THEN "building" ELSE "failed")
    /\ UNCHANGED <<manifests, predefined, instances, built, listeners, tenants>>

(* A component, its storage, context and emitters are decorated by all      *)
(* extensions that the process has by now.                                  *)
Build(c, x) ==
    /\ starts[c] = "building" /\ x \in Paths[c] \ DOMAIN built[c]
    /\ built' = [built EXCEPT ![c] = Added(@, {x}, instances \cap Decorators)]
    /\ UNCHANGED <<starts, manifests, predefined, instances, loop, listeners, tenants>>

(* A storage, a file or a schema that cannot be used: what is exposed stays *)
(* exposed, as there is no composition yet to be disconnected.              *)
Break(c) == starts[c] = "building" /\ Go(c, "failed")
            /\ UNCHANGED <<manifests, predefined, instances, loop, built, listeners, tenants>>

(* Receivers listen to the binding that their manifest has, or to that of   *)
(* the event, for which they ask whoever is exposed; an event that is not   *)
(* there ends the start.                                                    *)
Exposed(x) == <<x, Lookup>> \in DOMAIN loop
Holder(x) == loop[<<x, Lookup>>]
EventsDeclared(x) == DeclaredAs[x].events   \* faulty: not those that are emitted
Events(x) == manifests[Holder(x)][x].events
Transport(c, x, r) ==
    IF manifests[c][x].receivers[r] # Absent THEN manifests[c][x].receivers[r]
    ELSE IF r[2] \in DOMAIN Events(r[1]) THEN Events(r[1])[r[2]] ELSE Absent
Asked(c, x, r) == IF manifests[c][x].receivers[r] # Absent THEN Absent ELSE Holder(r[1])
Receivers(c) == UNION {{x} \X DOMAIN manifests[c][x].receivers : x \in Paths[c]}
Listener(c, p) ==
    [component |-> p[1], receiver |-> p[2], asked |-> Asked(c, p[1], p[2]),
     transport |-> Transport(c, p[1], p[2]), decorators |-> instances \cap Decorators]
Assemble(c) ==
    /\ starts[c] = "building" /\ DOMAIN built[c] = Paths[c]
    /\ \A p \in Receivers(c) : manifests[c][p[1]].receivers[p[2]] = Absent => Exposed(p[2][1])
    /\ LET all == {Listener(c, p) : p \in Receivers(c)} IN
       IF \E l \in all : l.transport = Absent
       THEN Go(c, "failed") /\ UNCHANGED listeners
       ELSE Go(c, "assembled") /\ listeners' = [listeners EXCEPT ![c] = all]
    /\ UNCHANGED <<manifests, predefined, instances, loop, built, tenants>>

----------------------------------------------------------------------------
(* The composition *)

(* An algorithm's context has each aspect once: two of a name prevent the   *)
(* connection.                                                              *)
Conflict(c, x) ==
    \E e, f \in ExtensionsOf(c, x) : e # f /\ Aspects[e] \cap Aspects[f] # {}

(* Operations are produced once for each of their bindings, the loop first. *)
Bindings(m, o) == {Loop} \cup ToSet(m.operations[o])
Producers(m) ==
    {[binding |-> b, operations |-> {o \in DOMAIN m.operations : b \in Bindings(m, o)}] :
        b \in UNION {Bindings(m, o) : o \in DOMAIN m.operations}}
Looped(m) == UNION {p.operations : p \in {q \in Producers(m) : q.binding = Loop}}
Endpoints(m) == UNION {{x} \X Looped(m[x]) : x \in DOMAIN m}

Released(c) == [e \in {e \in DOMAIN loop : loop[e] # c} |-> loop[e]]
Connect(c) ==
    /\ starts[c] = "assembled"
    /\ LET endpoints == Endpoints(manifests[c])
           stuck == endpoints \cap DOMAIN loop # {} \/ \E x \in Paths[c] : Conflict(c, x) IN
       IF stuck THEN Go(c, "failed") /\ loop' = Released(c)
       ELSE Go(c, "connected") /\ loop' = Takes(c, endpoints)
    /\ UNCHANGED <<manifests, predefined, instances, built, listeners, tenants>>

(* A producer deletes its endpoints, whoever's they are. *)
Owned(c) == Endpoints(manifests[c]) \cup (Paths[c] \X {Lookup})
Disconnect(c) ==
    /\ starts[c] = "connected" /\ Go(c, "disconnected")
    /\ loop' = [e \in DOMAIN loop \ Owned(c) |-> loop[e]]
    /\ UNCHANGED <<manifests, predefined, instances, built, listeners, tenants>>

ProcessStep(c) == (\E x \in Paths[c] : Manifest(c, x) \/ Build(c, x)) \/ Tenant(c) \/ Expose(c) \/ Break(c)
           \/ Assemble(c) \/ Connect(c) \/ Disconnect(c)
ProcessNext == \E c \in All : ProcessStep(c)
ProcessSpec == ProcessInit /\ [][ProcessNext]_processVars

----------------------------------------------------------------------------
(* Properties *)

Up(c) == starts[c] = "connected"

(* The process reaches each operation of what is connected within itself,   *)
(* whatever else was started with the same components and whatever of it    *)
(* failed; nothing is reached that has been disconnected.                   *)
LocallyReached ==
    /\ \A c \in All : Up(c) => \A e \in Owned(c) : e \in DOMAIN loop /\ loop[e] = c
    /\ \A e \in DOMAIN loop : starts[loop[e]] # "disconnected"

(* A start that failed holds no operation; what it exposed is all that can  *)
(* be left of it, and then a start of the same component fails as well.     *)
FailuresHoldNothing ==
    \A e \in DOMAIN loop : starts[loop[e]] = "failed" => e[2] = Lookup

(* The extensions that a component of a start has, whatever else it shares. *)
Own(c, x) == PredefinedExtensions \cup DeclaredAs[x].extensions \cup StartOptions[c].extensions

(* The components of a composition are decorated by each extension that any *)
(* of them has, in whatever order they are built, and so are its receivers. *)
DecoratedByAll ==
    \A c \in All : \A y \in Paths[c] :
        /\ \A x \in DOMAIN built[c] : Own(c, y) \cap Decorators \subseteq built[c][x]
        /\ \A l \in listeners[c] : Own(c, y) \cap Decorators \subseteq l.decorators

(* Events are listened for where they are emitted: by whoever was asked, or *)
(* by all with the same override, unless the receiver's own manifest says   *)
(* otherwise.  A composition that takes the place of the one that was asked *)
(* may emit them elsewhere.                                                 *)
SameTransport ==
    \A c, d \in All : \A l \in listeners[c] :
        LET source == l.receiver[1]
            event == l.receiver[2]
        IN  /\ Up(c) /\ Up(d) /\ source \in Paths[d]
            /\ DeclaredAs[l.component].receivers[l.receiver] = [binding |-> Absent, foreign |-> FALSE]
            /\ IF Override(c) = Absent THEN l.asked = d
               ELSE Override(d) = Override(c) /\ event \in DOMAIN DeclaredAs[source].events
            => l.transport = manifests[d][source].events[event]

(* The context of a component's algorithms has no two aspects of a name.    *)
AspectsApart ==
    \A c \in All : Up(c) => \A x \in Paths[c] : \A e, f \in Own(c, x) :
        e = f \/ Aspects[e] \cap Aspects[f] = {}

(* Each operation is produced at every binding at which it is called, and   *)
(* within the process at the place where it is.                             *)
CallsProduced ==
    \A c \in All : Up(c) => \A x \in Paths[c] : \A o \in DOMAIN manifests[c][x].operations :
        /\ <<x, o>> \in DOMAIN loop
        /\ \A b \in Bindings(manifests[c][x], o) :
            \E p \in Producers(manifests[c][x]) : p.binding = b /\ o \in p.operations

(* Compositions of a process stand apart and reach each other (boot).       *)
CompositionsSound == /\ LocallyReached /\ FailuresHoldNothing /\ DecoratedByAll /\ SameTransport
                     /\ AspectsApart /\ CallsProduced
=============================================================================
