------------------------------ MODULE Components ------------------------------
(***************************************************************************)
(* Components of a context as norm loads them: shortcuts and defaults, the *)
(* bridges' definitions merged with the manifest, the prototype collapsed  *)
(* into it, references to properties, what is completed and validated, and *)
(* then the components that extensions bring along and the dependencies of *)
(* all of them (norm component, context and their parts).  Which algorithm *)
(* an inherited or forwarded operation runs is Manifests, what a file says *)
(* of an operation Algorithms.                                             *)
(***************************************************************************)
EXTENDS Naturals, SequencesExt, FiniteSetsExt

(* A directory is                                                           *)
(*   [bridge, bindings, entity, prototype, operations, events, receivers,   *)
(*    shortcuts, extensions, files]: a prototype is a path, Null for none;  *)
(* an entity is [storage, properties], operations are [bridge, type,        *)
(* virtual, refs], events [bridge, binding], receivers [bridge, operation,  *)
(* source], each None where it is not declared; shortcuts are extensions    *)
(* declared by their short names; files[bridge] has the kind, the name and  *)
(* the type of what that bridge finds in the directory.                     *)
CONSTANTS Contexts,    \* [components, annotations]
          Directories, \* of their paths
          Extensions,  \* what each brings along: paths of components
          Standalone,  \* extensions that need no component to use them
          Async, None

VARIABLES context, stage, manifests, waiting, asked, dependencies

vars == <<context, stage, manifests, waiting, asked, dependencies>>

Init == /\ context \in Contexts /\ stage = "loading" /\ manifests = <<>>
        /\ waiting = context.components /\ asked = {} /\ dependencies = None

Names(f) == DOMAIN f
Either(a, b) == IF a = None THEN b ELSE a
Clash(a, b) == None \notin {a, b} /\ a # b

(* generic merge of two mappings of plain values. *)
Joined(f, g) == [k \in Names(f) \cup Names(g) |-> IF k \in Names(f) THEN f[k] ELSE g[k]]
Clashing(f, g) == \E k \in Names(f) \cap Names(g) : f[k] # g[k]

----------------------------------------------------------------------------
(* One directory *)

(* defaults, expand *)
Bridge(d) == Either(d.bridge, "node")
Bindings(d) == Either(d.bindings, <<"amqp">>)
Null == <<>>
Prototype(d) ==
    IF d.prototype # None THEN d.prototype ELSE IF d.entity = None THEN Null ELSE <<"prototype">>
Shortened(d) == Joined(d.extensions, d.shortcuts)

(* merge: another bridge than the directory's is asked for the operation,   *)
(* which only bash can be; the directory's finds what it has of its own.    *)
Found(d, kind) == {f \in d.files[Bridge(d)] : f.kind = kind}
Known(d, kind) == {f.name : f \in Found(d, kind)}
TypeOf(d, name) == (CHOOSE f \in Found(d, "operation") : f.name = name).type
OtherBridge(d, item) == item.bridge \notin {None, Bridge(d)}
Script(d, name) == \E f \in d.files["bash"] : f.kind = "operation" /\ f.name = name

Operation(d, name) ==
    LET o == IF name \in Names(d.operations) THEN d.operations[name]
             ELSE [bridge |-> None, type |-> None, virtual |-> FALSE, refs |-> {}]
    IN  [bridge |-> IF OtherBridge(d, o) THEN o.bridge
                    ELSE IF name \in Known(d, "operation") THEN Bridge(d) ELSE o.bridge,
         type |-> Either(o.type, IF OtherBridge(d, o) THEN "computation"
                                 ELSE IF name \in Known(d, "operation") THEN TypeOf(d, name) ELSE None),
         virtual |-> o.virtual, refs |-> o.refs]
OperationsOf(d) == [name \in Names(d.operations) \cup Known(d, "operation") |-> Operation(d, name)]

(* The path is where the bridge has found the file. *)
EventsOf(d, path) ==
    [label \in Names(d.events) \cup Known(d, "event") |->
        [binding |-> IF label \in Names(d.events) THEN d.events[label].binding ELSE None,
         path |-> IF label \in Known(d, "event") THEN path ELSE None]]

Wrong(d) ==
    \/ \E o \in Names(d.operations) :
          LET it == d.operations[o] IN
          \/ OtherBridge(d, it) /\ (it.bridge # "bash" \/ ~Script(d, o) \/ o \in Known(d, "operation")
                                \/ Clash(it.type, "computation"))
          \/ o \in Known(d, "operation") /\ Clash(it.type, TypeOf(d, o))
    \/ \E e \in Names(d.events) : OtherBridge(d, d.events[e])
    \/ \E r \in Names(d.receivers) : OtherBridge(d, d.receivers[r])
    \/ \E r \in Known(d, "receiver") : r \notin Names(d.receivers)
    \/ Clashing(d.extensions, d.shortcuts)

Own(d, path) ==
    [path |-> path, bindings |-> Bindings(d), custom |-> FALSE,
     storage |-> IF d.entity = None THEN None ELSE d.entity.storage,
     entity |-> d.entity # None,
     properties |-> IF d.entity = None THEN <<>> ELSE d.entity.properties,
     operations |-> OperationsOf(d), events |-> EventsOf(d, path), receivers |-> d.receivers,
     extensions |-> Shortened(d)]

----------------------------------------------------------------------------
(* collapse *)

(* An id of one's own replaces the prototype's, an event of one's own hides *)
(* the prototype's of its name; everything else is added or conflicts.      *)
Inherited(own, proto) ==
    IF {"id"} \subseteq Names(own.properties) \cap Names(proto.properties)
    THEN Restrict(proto.properties, Names(proto.properties) \ {"id"}) ELSE proto.properties
CollapsedOperation(own, proto, name) ==
    IF name \notin Names(proto.operations) THEN own.operations[name]
    ELSE LET p == proto.operations[name]
             known == name \in Names(own.operations)
             o == IF known THEN own.operations[name] ELSE [p EXCEPT !.bridge = None]
         IN  [bridge |-> o.bridge, type |-> Either(o.type, p.type), virtual |-> o.virtual,
              refs |-> o.refs \cup p.refs]
Collapse(own, proto) ==
    [own EXCEPT
        !.entity = @ \/ proto.entity,
        !.storage = Either(@, proto.storage),
        !.custom = "id" \in Names(own.properties) \cap Names(proto.properties),
        !.properties = Joined(@, Inherited(own, proto)),
        !.operations = [name \in Names(@) \cup Names(proto.operations) |->
                            CollapsedOperation(own, proto, name)],
        !.events = Joined(@, proto.events),
        !.extensions = Joined(@, proto.extensions)]
Conflicting(own, proto) ==
    \/ Clash(own.storage, proto.storage)
    \/ Clashing(own.properties, Inherited(own, proto))
    \/ Clashing(own.extensions, proto.extensions)
    \/ \E name \in Names(own.operations) \cap Names(proto.operations) :
          Clash(own.operations[name].type, proto.operations[name].type)

(* dereference: inputs and outputs take over properties of the entity as    *)
(* far as it is known where they are declared.                              *)
Unresolved(m) == \E o \in Names(m.operations) : ~(m.operations[o].refs \subseteq Names(m.properties))
Dereferenced(m) == [m EXCEPT !.operations = [o \in Names(@) |-> [@[o] EXCEPT !.refs = {}]]]

(* load, with the prototypes that follow *)
RECURSIVE Load(_)
Load(path) ==
    LET d == Directories[path]
        own == Own(d, path)
        proto == Load(Prototype(d))
        merged == IF Prototype(d) = Null THEN own ELSE Collapse(own, proto)
    IN  IF Wrong(d) THEN None
        ELSE IF Prototype(d) # Null /\ (IF proto = None THEN TRUE ELSE Conflicting(own, proto)) THEN None
        ELSE IF Unresolved(merged) THEN None ELSE Dereferenced(merged)

----------------------------------------------------------------------------
(* normalize, validate, extensions *)

(* A receiver's label has a namespace, unless its source is not a component. *)
Label(label, receiver) ==
    IF receiver.source \notin {None, "default"} \/ Len(label) = 3 THEN label ELSE <<"default">> \o label
Labelled(receivers) ==
    LET from(l) == {k \in Names(receivers) : Label(k, receivers[k]) = l}
        short(l) == CHOOSE k \in from(l) : \A j \in from(l) : Len(k) <= Len(j)
    IN  [l \in {Label(k, receivers[k]) : k \in Names(receivers)} |-> receivers[short(l)]]

AsyncOf(m) == IF \E i \in DOMAIN m.bindings : m.bindings[i] \in Async
              THEN SelectInSeq(m.bindings, LAMBDA b : b \in Async) ELSE 0
Normalized(m) ==
    [m EXCEPT
        !.storage = IF m.entity THEN Either(@, "mongodb") ELSE None,
        !.operations = Restrict(@, {o \in Names(@) : ~@[o].virtual}),
        !.receivers = Labelled(@),
        !.events = [e \in Names(@) |->
            [@[e] EXCEPT !.binding = Either(@, IF AsyncOf(m) = 0 THEN None ELSE m.bindings[AsyncOf(m)])]]]

Receiving == {"transition", "effect", "unmanaged"}
Invalid(m) ==
    \/ \E o \in Names(m.operations) : m.operations[o].type = None
    \/ \E e \in Names(m.events) : m.events[e].path = None \/ m.events[e].binding \notin Async
    \/ \E r \in Names(m.receivers) :
          LET o == m.receivers[r].operation IN
          \/ o \notin Names(m.operations)
          \/ m.operations[o].type \notin Receiving

(* Every component reports its telemetry. *)
Extended(m) == [m EXCEPT !.extensions = Joined(@, "telemetry" :> None)]

Component(path) ==
    LET loaded == Load(path) IN
    IF loaded = None THEN None
    ELSE IF Invalid(Normalized(loaded)) THEN None ELSE Extended(Normalized(loaded))

(* The components of a context are loaded at once; one that fails fails all. *)
LoadComponent(path) ==
    /\ stage = "loading" /\ path \in waiting
    /\ LET m == Component(path) IN
       IF m = None THEN stage' = "failed" /\ UNCHANGED <<manifests, waiting>>
       ELSE /\ manifests' = manifests @@ path :> m
            /\ waiting' = waiting \ {path} /\ UNCHANGED stage
    /\ UNCHANGED <<context, asked, dependencies>>

(* Extensions that have not been asked yet bring components along, whose    *)
(* extensions are asked next.                                               *)
References(paths) == UNION {Names(manifests[p].extensions) : p \in paths}
UnaskedOnce ==    \* faulty: not of those that are brought
    IF asked = {} THEN References(Names(manifests)) ELSE {}
Unasked == References(Names(manifests)) \ asked
Extract ==
    /\ stage = "loading" /\ waiting = {}
    /\ waiting' = UNION {Extensions[e] : e \in Unasked}
    /\ asked' = asked \cup Unasked
    /\ stage' = IF waiting' = {} THEN "loaded" ELSE stage
    /\ UNCHANGED <<context, manifests, dependencies>>

(* Who uses what: storages, bindings of operations and events, extensions;  *)
(* those that stand alone are there if they are annotated.  A context       *)
(* without annotations is not resolved.                                     *)
Needs(m) ==
    (IF m.entity THEN {m.storage} ELSE {})
        \cup (IF Names(m.operations) = {} THEN {} ELSE ToSet(m.bindings))
        \cup {m.events[e].binding : e \in Names(m.events)}
        \cup Names(m.extensions)
Used == UNION {Needs(manifests[p]) : p \in Names(manifests)}
Resolve ==
    /\ stage = "loaded"
    /\ IF context.annotations = None
       THEN stage' = "failed" /\ UNCHANGED dependencies
       ELSE /\ stage' = "resolved"
            /\ dependencies' = [r \in Used \cup (context.annotations \cap Standalone) |->
                                   {p \in Names(manifests) : r \in Needs(manifests[p])}]
    /\ UNCHANGED <<context, manifests, waiting, asked>>

Next == (\E path \in waiting : LoadComponent(path)) \/ Extract \/ Resolve
Spec == Init /\ [][Next]_vars

----------------------------------------------------------------------------
(* Properties *)

(* A component's directory, its prototype's, the prototype's of that. *)
RECURSIVE Chain(_)
Chain(path) ==
    IF path = Null THEN <<>> ELSE <<path>> \o Chain(Prototype(Directories[path]))
Nearest(path, Says(_)) == SelectInSeq(Chain(path), Says)

(* A property of an entity is what the nearest directory says of it, and    *)
(* only the id may be said twice.                                           *)
PropertiesOf(p) == IF Directories[p].entity = None THEN <<>> ELSE Directories[p].entity.properties
EntitiesWhole == \A p \in Names(manifests) : \A i \in DOMAIN Chain(p) :
    \A x \in Names(PropertiesOf(Chain(p)[i])) :
        LET says(q) == x \in Names(PropertiesOf(q))
            nearest == Chain(p)[Nearest(p, says)]
        IN  /\ manifests[p].properties[x] = PropertiesOf(nearest)[x]
            /\ x # "id" => PropertiesOf(Chain(p)[i])[x] = PropertiesOf(nearest)[x]

(* An event is emitted asynchronously, by the file of the nearest directory *)
(* that has the event, even if a prototype has a file for it as well.       *)
EventsPlaced == \A p \in Names(manifests) : \A e \in Names(manifests[p].events) :
    LET has(q) == e \in Names(EventsOf(Directories[q], q))
    IN  /\ manifests[p].events[e].path = Chain(p)[Nearest(p, has)]
        /\ manifests[p].events[e].binding \in Async

(* An operation is of the type that its file tells, and that every          *)
(* directory tells that has it.                                             *)
TypesAgree == \A p \in Names(manifests) : \A i \in DOMAIN Chain(p) :
    LET there == OperationsOf(Directories[Chain(p)[i]]) IN
    \A o \in Names(there) \cap Names(manifests[p].operations) :
        there[o].type \in {None, manifests[p].operations[o].type}

(* What a component receives it can do: each of its receivers is there, for *)
(* an operation that is, which may be the prototype's.                      *)
ReceiversServed == \A p \in Names(manifests) : \A r \in Names(Directories[p].receivers) :
    LET l == Label(r, Directories[p].receivers[r]) IN
    /\ l \in Names(manifests[p].receivers)
    /\ manifests[p].receivers[l].operation \in Names(manifests[p].operations)

(* Whatever an extension brings along is a part of the context, however     *)
(* many extensions lie between, and whoever uses something is known to it.  *)
ContextClosed == stage = "resolved" =>
    /\ context.components \subseteq Names(manifests)
    /\ \A e \in References(Names(manifests)) : Extensions[e] \subseteq Names(manifests)
    /\ \A p \in Names(manifests) : \A r \in Needs(manifests[p]) :
          r \in Names(dependencies) /\ p \in dependencies[r]

(* Components are what their directories and prototypes declare (norm).     *)
ComponentsSound == /\ EntitiesWhole /\ EventsPlaced /\ TypesAgree /\ ReceiversServed /\ ContextClosed
=============================================================================
