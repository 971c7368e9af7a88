----------------------------- MODULE Resources -----------------------------
(***************************************************************************)
(* The resource tree of the exposition gateway (RTD): how a declaration    *)
(* becomes a tree of nodes, how branches are merged into it, how a request *)
(* path is matched.                                                        *)
(*                                                                         *)
(* A segment is [literal, name]; a declaration (syntax node) is            *)
(* [routes, methods, directives, isolated, protected, forward], where      *)
(* routes is a sequence of [path, node] and methods maps verbs to          *)
(* [endpoint, directives].                                                 *)
(***************************************************************************)
EXTENDS Directives

Literal(name) == [literal |-> TRUE, name |-> name]
Placeholder(name) == [literal |-> FALSE, name |-> name]

(* Node.sort: fewer variables first, then more segments; stable. *)
Variables(route) == Len(SelectSeq(route.segments, LAMBDA s : ~s.literal))
Before(a, b) == \/ Variables(a) < Variables(b)
                \/ Variables(a) = Variables(b) /\ Len(a.segments) > Len(b.segments)
Sort(routes) == SortSeq(routes, Before)

HasRoot(paths) == \E i \in DOMAIN paths : paths[i] = <<>>

(* createNode, createRoute, createMethod and the Node constructor. The     *)
(* stack of directives is restored after each route, so that a method gets *)
(* its own, those of its node, and those of the nodes above, down to an    *)
(* isolated one.                                                           *)
RECURSIVE CreateNode(_, _, _, _)
CreateNode(node, protect, above, extension) ==
    LET stack == IF node.isolated THEN node.directives ELSE node.directives \o above
        routes == [i \in DOMAIN node.routes |->
                     [segments |-> node.routes[i].path,
                      node |-> CreateNode(node.routes[i].node, protect, stack, extension)]]
    IN  [routes |-> Sort(routes),
         methods |-> [v \in DOMAIN node.methods |->
                        [endpoint |-> IF node.methods[v].endpoint = None THEN None
                                      ELSE [operation |-> node.methods[v].endpoint,
                                            remote |-> extension],
                         directives |-> DirectiveSets(node.methods[v].directives \o stack)]],
         protected |-> IF node.protected = None THEN protect ELSE node.protected,
         forward |-> node.forward,
         intermediate |-> HasRoot([i \in DOMAIN node.routes |-> node.routes[i].path])]

SameSegments(a, b) ==   \* Route.equals: fragments only, placeholders are alike
    /\ Len(a) = Len(b)
    /\ \A i \in DOMAIN a : /\ a[i].literal = b[i].literal
                           /\ a[i].literal => a[i].name = b[i].name

(* Node.merge: a protected node is extended, any other is replaced; the    *)
(* node takes the `intermediate` of what is merged in either case.         *)
RECURSIVE MergeNode(_, _)
MergeNode(node, branch) ==
    LET RECURSIVE AddAll(_, _)   \* Node.append, route by route
        AddAll(routes, candidates) ==
            IF candidates = <<>> THEN routes
            ELSE LET c == Head(candidates)
                     i == SelectInSeq(routes, LAMBDA r : SameSegments(c.segments, r.segments))
                 IN  AddAll(IF i = 0 THEN Append(routes, c)
                            ELSE [routes EXCEPT ![i].node = MergeNode(@, c.node)],
                            Tail(candidates))
        routes == IF node.protected THEN AddAll(node.routes, branch.routes) ELSE branch.routes
        methods == IF node.protected THEN branch.methods @@ node.methods ELSE branch.methods
    IN  [node EXCEPT !.intermediate = branch.intermediate,
                     !.routes = Sort(routes), !.methods = methods]

(* The endpoints Node.replace closes: those of the methods of the replaced *)
(* node itself, none of those below it.                                    *)
RECURSIVE ClosedBy(_, _)
ClosedBy(node, branch) ==
    IF ~node.protected
    THEN {node.methods[v].endpoint : v \in DOMAIN node.methods} \ {None}
    ELSE UNION {LET i == SelectInSeq(node.routes, LAMBDA x : SameSegments(r.segments, x.segments))
                IN  IF i = 0 THEN {} ELSE ClosedBy(node.routes[i].node, r.node)
                : r \in ToSet(branch.routes)}

(* Node.match and Route.match: the first route that matches, depth first.  *)
(* A placeholder past the end of the path is bound to undefined (None).    *)
Fragment(fragments, i) == IF i \in DOMAIN fragments THEN fragments[i] ELSE None
NamedPositions(segments) ==
    SelectSeq([j \in DOMAIN segments |-> j],
              LAMBDA j : ~segments[j].literal /\ segments[j].name # None)
RECURSIVE MatchRoutes(_, _, _)
MatchRoutes(routes, fragments, parameters) ==
    IF routes = <<>> THEN None
    ELSE LET segments == Head(routes).segments
             node == Head(routes).node
             n == Len(segments)
             named == NamedPositions(segments)
             params == parameters \o [i \in DOMAIN named |->
                                        [name |-> segments[named[i]].name,
                                         value |-> Fragment(fragments, named[i])]]
             match == IF \E i \in 1..n : segments[i].literal
                                         /\ segments[i].name # Fragment(fragments, i)
                      THEN None
                      ELSE IF n = Len(fragments) /\ ~node.intermediate
                      THEN [node |-> node, parameters |-> params]
                      ELSE MatchRoutes(node.routes, SubSeq(fragments, n + 1, Len(fragments)),
                                       params)
         IN  IF match # None THEN match ELSE MatchRoutes(Tail(routes), fragments, parameters)

(* Tree.match: the path "/" is the trunk, whatever its routes. *)
Match(tree, fragments) ==
    IF fragments = <<>> THEN [node |-> tree, parameters |-> <<>>]
    ELSE MatchRoutes(tree.routes, fragments, <<>>)

----------------------------------------------------------------------------
(* What Gateway asks of a tree. *)

(* Tree.constructor and Tree.merge: a branch's endpoints are of its id.     *)
TrunkOf(annotation) == CreateNode(annotation, TRUE, <<>>, None)
BranchNode(annotation, branch, id) == CreateNode(branch, FALSE, annotation.directives, id)

RECURSIVE Endpoints(_)
Endpoints(node) ==
    {node.methods[v].endpoint : v \in DOMAIN node.methods}
    \cup UNION {Endpoints(node.routes[i].node) : i \in DOMAIN node.routes}
RemotesOf(endpoints) == {e.remote : e \in endpoints \ {None}}

(* Gateway.match, the verb and Gateway.call. *)
Matched(tree, path, verb) ==
    LET match == Match(tree, path)
    IN  IF match = None THEN [phase |-> "NotFound"]
        ELSE IF verb \notin DOMAIN match.node.methods
                \/ match.node.methods[verb].endpoint = None
        THEN [phase |-> "MethodNotAllowed"]
        ELSE [phase |-> "matched", remote |-> match.node.methods[verb].endpoint.remote]
=============================================================================
