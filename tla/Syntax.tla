-------------------------------- MODULE Syntax --------------------------------
(***************************************************************************)
(* Declarations of resources (exposition RTD syntax, manifest, root,       *)
(* deployment, tenant): the tree in a component's manifest is parsed,      *)
(* specified with the component's operations and sent to the gateway as    *)
(* its branch; the tree of the context's annotation is parsed, deployed as *)
(* a variable of the gateway's service and becomes its root, to which the  *)
(* resources of the identity are added.  What is made of the trees is      *)
(* Resources, how branches travel Gateway.                                 *)
(***************************************************************************)
EXTENDS SequencesExt

(* A declared tree maps the paths of its nodes to nodes, which are          *)
(* [forward, flags, methods, directives, unknown]; a node that is a string  *)
(* has nothing but what it forwards to.  A method is                        *)
(* [verb, endpoint, query, directives, unknown], where the endpoint is a    *)
(* sequence of one to three names, or <<>>; a query is "absent", "null" or  *)
(* a mapping [limit, omit], of which each is [number], [value, range] or    *)
(* None.  Directives are [key, value].                                      *)
CONSTANTS Declarations, \* [components, annotation]
          Shortcuts, None

VARIABLES declaration, stage, branches, deployed, root

vars == <<declaration, stage, branches, deployed, root>>

OwnComponents == DOMAIN declaration.components
Init == /\ declaration \in Declarations
        /\ stage = "declared" /\ branches = <<>> /\ deployed = None /\ root = None

----------------------------------------------------------------------------
(* parse *)

(* parseDirective: a shortcut stands for a family and a name; a key that is *)
(* neither is none.                                                         *)
Full(key) == IF key \in DOMAIN Shortcuts THEN Shortcuts[key] ELSE key
IsDirective(d) == Len(Full(d.key)) = 2
Directive(d) == [family |-> Full(d.key)[1], name |-> Full(d.key)[2], value |-> d.value]
Directives(declared) ==
    LET known == SelectSeq(declared, IsDirective) IN [i \in DOMAIN known |-> Directive(known[i])]

(* parseEndpoint: a component may be named before the operation, and a      *)
(* namespace before the component.                                          *)
Endpoint(names) ==
    LET n == Len(names)
        part(i) == IF n > i THEN names[n - i] ELSE None
    IN  [operation |-> part(0), component |-> part(1),
         namespace |-> IF part(1) # None /\ part(2) = None THEN "default" ELSE part(2)]

(* parseQuery, expandRange *)
ExpandedOpen(value) ==   \* faulty: a number is only the default
    IF value = None THEN None
    ELSE IF "number" \in DOMAIN value THEN [value |-> value.number, range |-> <<0, 100>>] ELSE value
Expanded(value) ==
    IF value = None THEN None
    ELSE IF "number" \in DOMAIN value
    THEN [value |-> value.number, range |-> <<value.number, value.number>>] ELSE value
Query(query) ==
    IF query.is # "mapping" THEN query
    ELSE [query EXCEPT !.limit = Expanded(@), !.omit = Expanded(@)]

Method(m) == [verb |-> m.verb, endpoint |-> Endpoint(m.endpoint), query |-> Query(m.query),
              directives |-> Directives(m.directives)]
Node(n) == [forward |-> n.forward, flags |-> n.flags, directives |-> Directives(n.directives),
            methods |-> [i \in DOMAIN n.methods |-> Method(n.methods[i])]]
Parse(tree) == [path \in DOMAIN tree |-> Node(tree[path])]

(* A key of a node that is nothing of a node throws; what is left of a      *)
(* method that is nothing of a mapping, its schema refuses.                 *)
Unparsed(n) == \/ n.unknown
               \/ \E i \in DOMAIN n.directives : ~IsDirective(n.directives[i])
               \/ \E i \in DOMAIN n.methods :
                     \/ n.methods[i].unknown
                     \/ \E j \in DOMAIN n.methods[i].directives : ~IsDirective(n.methods[i].directives[j])
Refused(tree) == \E path \in DOMAIN tree : Unparsed(tree[path])

----------------------------------------------------------------------------
(* Of a component *)

(* wrap: the tree is below the component's path. *)
Wrapped(c) == IF c.namespace = "default" THEN <<c.name>> ELSE <<c.namespace, c.name>>

(* specify: every endpoint is one of the component's own operations, of     *)
(* which it tells whether it has a query, unless the method does.           *)
EmptyQuery == [is |-> "mapping", limit |-> None, omit |-> None]
Queried(c, m) ==
    IF m.query.is # "absent" THEN m.query
    ELSE IF c.operations[m.endpoint.operation] THEN EmptyQuery ELSE [is |-> "null"]
Specified(c, m) ==
    IF m.endpoint.operation = None THEN m
    ELSE [m EXCEPT !.query = Queried(c, m),
                   !.endpoint = [@ EXCEPT !.namespace = c.namespace, !.component = c.name]]
Missing(c, node) == \E i \in DOMAIN node.methods :
    node.methods[i].endpoint.operation \notin {None} \cup DOMAIN c.operations
Branch(c) ==
    LET parsed == Parse(c.tree) IN
    [path \in {Wrapped(c) \o p : p \in DOMAIN parsed} |->
        LET node == parsed[SubSeq(path, Len(Wrapped(c)) + 1, Len(path))] IN
        [node EXCEPT !.methods = [i \in DOMAIN @ |-> Specified(c, @[i])]]]

(* The manifest of a component, and its branch, which its tenant sends: the *)
(* gateway's own directives do not apply to the components of identities.   *)
Manifest(id) ==
    /\ stage = "declared" /\ id \in OwnComponents \ DOMAIN branches
    /\ LET c == declaration.components[id]
           wrong == Refused(c.tree) \/ \E p \in DOMAIN c.tree : Missing(c, Parse(c.tree)[p])
       IN  IF wrong THEN stage' = "refused" /\ UNCHANGED branches
           ELSE /\ branches' = branches @@ [x \in {id} |->
                                  [node |-> Branch(c), isolated |-> c.namespace = "identity"]]
                /\ UNCHANGED stage
    /\ UNCHANGED <<declaration, deployed, root>>

----------------------------------------------------------------------------
(* Of the context *)

(* The components that come with the gateway have labels, by which they are *)
(* deployed with its service; its tree, if there is one, is a variable.     *)
Deploy ==
    /\ stage = "declared" /\ DOMAIN branches = OwnComponents
    /\ IF declaration.annotation # None /\ ~Refused(declaration.annotation)
       THEN stage' = "deployed" /\ deployed' = Parse(declaration.annotation)
       ELSE stage' = "refused" /\ UNCHANGED deployed
    /\ UNCHANGED <<declaration, branches, root>>

(* resolve: routes are in the order of declaration, then the predefined. *)
Echo(verb, name) ==
    [verb |-> verb, endpoint |-> Endpoint(<<>>), query |-> [is |-> "absent"],
     directives |-> <<[family |-> "io", name |-> "output", value |-> <<"id", "roles">>],
                      [family |-> "auth", name |-> name, value |-> None]>>]
Identity == [forward |-> None, flags |-> {"isolated"}, directives |-> <<>>,
             methods |-> <<Echo("GET", "echo"), Echo("POST", "incept")>>]
Predefined == <<[path |-> <<"identity">>, node |-> Identity]>>
Listed(tree) == LET paths == SetToSeq(DOMAIN tree \ {<<>>})
                IN  [i \in DOMAIN paths |-> [path |-> paths[i], node |-> tree[paths[i]]]]
Resolve ==
    /\ stage = "deployed" /\ stage' = "serving"
    /\ root' = Listed(deployed) \o Predefined
    /\ UNCHANGED <<declaration, branches, deployed>>

Next == (\E id \in OwnComponents : Manifest(id)) \/ Deploy \/ Resolve
Spec == Init /\ [][Next]_vars

----------------------------------------------------------------------------
(* Properties *)

Methods(tree) == UNION {{[path |-> p, index |-> i, method |-> tree[p].methods[i]] :
                            i \in DOMAIN tree[p].methods} : p \in DOMAIN tree}
Declared(c, m) == c.tree[SubSeq(m.path, Len(Wrapped(c)) + 1, Len(m.path))].methods[m.index]

(* A branch reaches the component that it is of and nothing else, however   *)
(* its endpoints are written.                                               *)
OwnOperations == \A id \in DOMAIN branches :
    LET c == declaration.components[id] IN
    \A m \in Methods(branches[id].node) :
        \/ m.method.endpoint.operation = None
        \/ /\ m.method.endpoint.operation \in DOMAIN c.operations
           /\ m.method.endpoint.namespace = c.namespace /\ m.method.endpoint.component = c.name

(* An operation without queries is asked for none, one with them may be     *)
(* asked, unless the method has it otherwise.                               *)
QueriesFit == \A id \in DOMAIN branches :
    LET c == declaration.components[id] IN
    \A m \in Methods(branches[id].node) :
        m.method.endpoint.operation # None /\ Declared(c, m).query.is = "absent" =>
            (m.method.query.is = "mapping" <=> c.operations[m.method.endpoint.operation])

(* A limit that is a number leaves a client no other. *)
Admits(value, n) == value.range[1] <= n /\ n <= value.range[2]
LimitsFixed == \A id \in DOMAIN branches :
    LET c == declaration.components[id] IN
    \A m \in Methods(branches[id].node) :
        LET query == Declared(c, m).query IN
        (IF query.is # "mapping" THEN FALSE
         ELSE IF query.limit = None THEN FALSE ELSE "number" \in DOMAIN query.limit)
        => \A n \in 0..3 : Admits(m.method.query.limit, n) <=> n = query.limit.number

(* Directives are those declared, in their order, under their full names:   *)
(* none is lost.                                                            *)
DirectivesWhole == \A id \in DOMAIN branches :
    LET c == declaration.components[id] IN
    \A p \in DOMAIN c.tree :
        LET node == branches[id].node[Wrapped(c) \o p] IN
        /\ Len(node.directives) = Len(c.tree[p].directives)
        /\ \A i \in DOMAIN node.methods :
              Len(node.methods[i].directives) = Len(c.tree[p].methods[i].directives)

(* Components' resources are apart, unless a namespace has the name of a    *)
(* component of the default one.                                            *)
Overlaps(c, d) == c.namespace = "default" /\ d.namespace = c.name
RootsApart == \A i, j \in DOMAIN branches :
    LET c == declaration.components[i]
        d == declaration.components[j]
    IN  i # j /\ ~Overlaps(c, d) /\ ~Overlaps(d, c) =>
            DOMAIN branches[i].node \cap DOMAIN branches[j].node = {}

(* Who has been authenticated can ask who they are, and register, whatever  *)
(* the context declares, unless it has a resource of that path itself.      *)
IdentityReached == stage = "serving" /\ <<"identity">> \notin DOMAIN deployed =>
    \E i \in DOMAIN root : root[i].path = <<"identity">> /\ root[i].node = Identity

(* Resources are what components and the context declare (exposition).      *)
SyntaxSound == /\ OwnOperations /\ QueriesFit /\ LimitsFixed /\ DirectivesWhole /\ RootsApart
               /\ IdentityReached
=============================================================================
