--------------------------- MODULE MCDeclarations ---------------------------
(* What the runtime makes of declarations: queries, the manifests of a       *)
(* component and its prototypes, a context that is deployed, the directives  *)
(* of access, the issuers and passkeys that are trusted, files of            *)
(* environments, algorithms of files, components of directories, the         *)
(* compositions of a process, trees of resources, settings and schemas, side *)
(* by side: a behaviour is one of one of them.                               *)
EXTENDS Queries, Passkeys, Federation, Compositions, Access, Deployment

CONSTANTS brew, pour, wash, pots, cups, mugs

VARIABLES focus,
          tree, loading, manifest, booted,
          environment, typed, selected, prompted, secrets, conceals, hidden, raced, changes,
          file, algorithm, definition, asked, given, told,
          context, reading, loaded, waiting, extensionsAsked, dependencies,
          declaration, parsing, branches, deployedTree, root,
          annotation, deployed, concealed, bootedWith, boots, requested,
          shape, compiled, failing, checked

\* Two directories with three operations or three with two.
Op(bridge, forward, virtual) == [bridge |-> bridge, forward |-> forward, virtual |-> virtual]
Ways(names) == {None, Op(TRUE, None, FALSE), Op(FALSE, None, FALSE), Op(TRUE, None, TRUE)}
                   \cup {Op(FALSE, target, FALSE) : target \in names}
Arrangements(names) ==
    {Restrict(f, {e \in names : f[e] # None}) :
        f \in {f \in [names -> Ways(names)] : \A e \in names : f[e] # None => f[e].forward # e}}
Implemented == {d \in Arrangements({brew, pour, wash}) : \A e \in DOMAIN d : d[e] # Op(FALSE, None, FALSE)}
TheHierarchies == {<<m, p>> : m, p \in Implemented}
                  \cup {<<m, p, q>> : m, p, q \in Arrangements({brew, pour})}
Tree == INSTANCE Manifests
    WITH Hierarchies <- TheHierarchies, declared <- tree, stage <- loading

\* A composition of two components and two components without one, of which
\* some want a base image; a namespace and a component with databases of their
\* own, a foreign source that is heard twice, and a service; two runs.
TheIds == pots :> <<"tea", "pots">> @@ cups :> <<"tea", "cups">> @@ mugs :> <<"bar", "mugs">>
TheUses == "mongodb" :> <<pots, cups>> @@ "amqp-sources" :> <<mugs, pots, cups>> @@ "realtime" :> <<>>
           @@ "exposition" :> <<mugs>>
Gatewayed == [name |-> "gateway", version |-> 1]
TheAnnotations ==
    {"mongodb" :> c[1] @@ "amqp-context" :> c[2] @@ "amqp-sources" :> (<<>> :> "sap")
        @@ "exposition" :> (<<>> :> "any")
        @@ "build" :> [image |-> c[3], arguments |-> {"token"}] :
        c \in {<<<<"tea">> :> "tea" @@ <<"tea", "cups">> :> "redis", <<>> :> "bus", None>>,
               <<<<>> :> "any" @@ <<"tea", "pots">> :> "own", <<"tea">> :> "teabus" @@ <<>> :> "bus", "alpine">>,
               <<<<"tea", "pots">> :> "own", <<>> :> "bus", None>>}}
Crockery == <<pots, cups, mugs>>
TheCompositions == <<"bar">> :> <<mugs, pots>>
TheDependencies == <<"mongodb", "amqp-sources", "realtime", "exposition">>
TheForeign == pots :> <<>> @@ cups :> <<<<"sap">>>> @@ mugs :> <<<<"sap">>, <<"crm">>>>
TheServices == [d \in DOMAIN TheUses |-> IF d \in {"exposition", "realtime"} THEN <<Gatewayed>> ELSE <<>>]
TheBases == <<"bar">> :> "debian"
OwnBases == pots :> "slim" @@ cups :> None @@ mugs :> None
TheEnvironment == "o1" :> [token |-> 1] @@ "o2" :> [token |-> 2]

\* One directive, or two of which either may be a rule; a body with a property
\* that a role guards; hosts of one domain.
Directive(name, value) == [name |-> name, value |-> value]
Developers == Directive("role", {<<"dev">>})
Single == {Directive("anonymous", TRUE), Directive("anyone", TRUE), Directive("id", "parameter"),
           Directive("role", {<<"dev", "senior">>}), Directive("role", {<<"app", "{parameter}">>}),
           Directive("claims", [iss |-> ":domain"]), Directive("scheme", "basic"),
           Directive("incept", "id"), Directive("incept", Unset), Directive("echo", Unset),
           Directive("delegate", "who"),
           Directive("input", <<[props |-> {"secret"}, directives |-> <<Developers>>]>>)}
TheRules == {Directive("rule", <<Directive("id", "parameter"), Developers>>),
          Directive("rule", <<Developers, Directive("delegate", "who")>>),
          Directive("rule", <<Directive("claims", [iss |-> ":authority", aud |-> "/:parameter"]),
                              Directive("anyone", TRUE)>>)}
DeclaredDirectives == {<<d>> : d \in Single \cup TheRules}
            \cup {<<d, e>> : d \in Single \cup TheRules, e \in Single \cup TheRules}
TheCases ==
    [header : {Unset, "basic", "token", "bearer", "unknown"}, found : BOOLEAN, stale : {FALSE},
     banned : {FALSE}, permitted : {TRUE}, roles : {{<<"dev">>}, {<<"app", "me">>}},
     claims : {[iss |-> {<<"id", "toa">>}, aud |-> {<<"me">>}]}, parameter : {Unset, "me"},
     authority : {<<"x", "toa">>},
     body : {[is |-> "value", props |-> <<>>], [is |-> "object", props |-> "secret" :> "input"]},
     declared : DeclaredDirectives]
    \cup
    [header : {Unset, "basic", "token"}, found : {TRUE}, stale : BOOLEAN, banned : BOOLEAN,
     permitted : BOOLEAN, roles : {{<<"dev">>}}, claims : {Unset}, parameter : {"other"},
     authority : {<<"toa">>}, body : {[is |-> "absent", props |-> <<>>]},
     declared : {<<d>> : d \in Single \ {Directive("claims", [iss |-> ":domain"])}} \cup {<<>>}]
NoCase == [header |-> Unset, found |-> TRUE, stale |-> FALSE, banned |-> FALSE, permitted |-> TRUE,
           roles |-> {}, claims |-> Unset, parameter |-> Unset, authority |-> <<"toa">>,
           body |-> [is |-> "absent", props |-> <<>>], declared |-> <<>>]

\* Queries of a small collection of pots: their type and rank.
C(selector, operator, values) == [selector |-> selector, operator |-> operator, values |-> values]
By(property, direction) == [property |-> property, direction |-> direction]
Doc(id, type, rank, deleted) == [_id |-> id, type |-> type, rank |-> rank, _deleted |-> deleted]

Pots == {Doc(1, 1, 5, FALSE), Doc(2, 2, 5, FALSE), Doc(3, 1, 7, FALSE), Doc(4, 2, 7, TRUE)}
PotTypes == [id |-> "string", type |-> "string", rank |-> "integer"]

Plain == [queryable |-> TRUE, criteria |-> <<>>, open |-> FALSE, prepend |-> ";",
          sort |-> <<>>, extensible |-> FALSE, limit |-> None, omit |-> None, parameters |-> {}]
With(record) == record @@ Plain
Ranked == <<<<C("rank", "==", <<5>>)>>>>
PotDeclarations ==
    {None, Plain, With([queryable |-> FALSE, parameters |-> {"type", "foo"}])}
    \cup {With([criteria |-> Ranked, open |-> open, prepend |-> prepend]) :
            open \in BOOLEAN, prepend \in {";", ","}}
    \cup {With([sort |-> <<By("rank", "desc")>>, extensible |-> extensible]) : extensible \in BOOLEAN}
    \cup {With([limit |-> [value |-> value, low |-> low, high |-> 2]]) : value \in {None, 1}, low \in {0, 1}}
    \cup {With([omit |-> [value |-> 0, low |-> 0, high |-> 1], parameters |-> {"foo"}])}

NoQuery == [id |-> None, version |-> None, criteria |-> <<>>, sort |-> <<>>, limit |-> None, omit |-> None]
Blank == [x \in {} |-> 0]
Call(path, wanted, extra, sent) ==
    [path |-> path, query |-> wanted @@ NoQuery, extra |-> extra, body |-> sent]
Criteria == {<<<<C("type", "==", <<1>>)>>, <<C("rank", ">", <<5>>)>>>>, <<<<C("type", "!=", <<1>>), C("rank", "<", <<7>>)>>>>,
             <<<<C("type", "in", <<1, 2>>)>>>>, <<<<C("rank", "in", <<5, 7>>)>>>>,
             <<<<C("id", "==", <<2>>)>>>>, <<<<C("age", "==", <<2>>)>>>>}
PotPaths == {Blank, [type |-> 1], [id |-> 3], [type |-> 2, rank |-> 5]}
PotCalls ==
    {Call(path, [criteria |-> criteria], Blank, None) : path \in PotPaths, criteria \in Criteria \cup {<<>>}}
    \cup {Call(path, [sort |-> <<By("type", direction)>>], Blank, None) :
            path \in {Blank, [type |-> 1]}, direction \in {None, "desc"}}
    \cup {Call(Blank, [limit |-> limit, omit |-> omit, version |-> 1, sort |-> <<By("rank", None)>>], Blank, None) :
            limit \in {None, 0, 1, 2, 3}, omit \in {None, 0, 1, 2}}
    \cup {Call(path, Blank, extra, sent) :
            path \in {Blank, [type |-> 1]}, extra \in {Blank, [foo |-> 1], [foo |-> 1, type |-> 2]},
            sent \in {None, [type |-> 3, rank |-> 4]}}
    \cup {Call(Blank, [id |-> 2], Blank, None)}

\* An issuer whose keys are rotated, one with two secrets, and one that is not
\* trusted.
Key(kid, key) == [kid |-> kid, key |-> key]
TheTrust == "i" :> [aud |-> {"a"}, secrets |-> <<>>]
            @@ "j" :> [aud |-> Nil, secrets |-> "HS256" :> <<Key("s1", "x1"), Key("s2", "x2")>>]
TheKeys == <<<<Key("k1", "y1")>>, <<Key("k2", "y2"), Key("k1", "y1")>>, <<Key("k2", "y2")>>>>
JWT(iss, sub, alg, kid, signer, exp) ==
    [iss |-> iss, sub |-> sub, aud |-> {"a", "b"}, alg |-> alg, kid |-> kid, signer |-> signer,
     iat |-> 1, exp |-> exp, nbf |-> Nil]
TheTokens ==
    {JWT("i", "u", "RS256", "k1", Key("k1", "y1"), 9), JWT("i", "u", "RS256", Nil, Key("k1", "y1"), 9),
     JWT("i", "v", "RS256", "k2", Key("k2", "y2"), 9), JWT("j", "u", "HS256", "s2", "x2", 3),
     JWT("j", "u", "HS256", Nil, "x1", 9), JWT("j", "u", "HS256", "s1", "x2", 9),
     JWT("l", "u", "HS256", "s1", "x2", 9)}
\* Two environments in which one name is a secret of the same or of another
\* key, and one without secrets.
Plainly(value) == [value |-> value, secret |-> Absent, key |-> Absent]
Secretly(secret, key) == [value |-> Absent, secret |-> secret, key |-> key]
TheEnvironments ==
    [some |-> [url |-> Plainly("some"), user |-> Secretly("bus", "username"),
               pass |-> Secretly("bus", "password"), other |-> Secretly("bus", "username")],
     dev |-> [url |-> Plainly("dev"), pass |-> Secretly("dev", "password")],
     local |-> [url |-> Plainly("local"), pass |-> Plainly("none")]]
Env == INSTANCE Environments
    WITH Environments <- TheEnvironments, Commands <- {"c", "d"}, Words <- {"v", "w"}, Empty <- "",
         MaxChanges <- 3, Missing <- Absent,
         env <- environment, written <- typed, asked <- prompted, command <- conceals, concealed <- hidden

\* What the proofs take of environments holds of these.
ASSUME EnvironmentsAssumption == Env!EnvironmentsSane

\* What a file exports, with a helper before or after it; what a manifest says
\* of it.
ExportOf(node, name, type, prefix, params) ==
    [node |-> node, name |-> name, type |-> type, prefix |-> prefix, params |-> params]
Helper == ExportOf("arrow", "other", Absent, Absent, <<"it">>)
Constant == ExportOf("value", "other", Absent, Absent, Absent)
Signatures == {<<>>, <<"input">>} \cup {<<"input", p>> : p \in {"object", "objects", "changeset", "context", "it"}}
              \cup {<<"input", p, "context">> : p \in {"object", "stream", "it"}}
OperationTypes == {"transition", "observation", "assignment", "computation", "effect", "unmanaged"}
Exports ==
    {ExportOf(n[1], n[2], t, Absent, p) :
        n \in {<<"declaration", "type">>, <<"class", "Type">>}, t \in OperationTypes, p \in Signatures}
    \cup {ExportOf("class", "TypeFactory", t, s, Absent) :
             t \in OperationTypes, s \in {Absent, "object", "objects", "changeset"}}
    \cup {ExportOf("class", "Type", "effect", Absent, Absent),
          ExportOf("expression", "type", "effect", Absent, <<"input">>), Helper}
TheFiles ==
    [bridge : {"node"},
     exports : {<<x>> : x \in Exports} \cup {<<Constant, x, Helper>> : x \in Exports} \cup {<<Constant>>},
     declared : [type : {Absent, "effect"}, scope : {Absent, "none", "object"}], entity : BOOLEAN]
    \cup [bridge : {"bash"}, exports : {<<>>}, entity : BOOLEAN,
          declared : [type : {Absent, "computation"}, scope : {Absent, "none", "object"}]]
Bridges == INSTANCE Algorithms
    WITH Files <- TheFiles, Local <- TRUE, None <- Absent,
         Requests <- [authentic : BOOLEAN, fits : BOOLEAN, query : {Absent, "found", "missing"}, entity : BOOLEAN],
         Outcomes <- [is : {"output", "undefined", "error", "readable", "generator", "throws"}, fits : BOOLEAN],
         stage <- algorithm, request <- asked, reply <- told

\* A component of many kinds, with a prototype of many kinds; the gateway's
\* component, which the exposition brings along, and whose extension brings
\* another.
Bare == [bridge |-> Absent, bindings |-> Absent, entity |-> Absent, prototype |-> Absent,
         operations |-> <<>>, events |-> <<>>, receivers |-> <<>>, shortcuts |-> <<>>, extensions |-> <<>>,
         files |-> [b \in {"node", "bash"} |-> {}]]
FileOf(kind, name, type) == [kind |-> kind, name |-> name, type |-> type]
OperationOf(bridge, type, virtual, refs) == [bridge |-> bridge, type |-> type, virtual |-> virtual, refs |-> refs]
EventOf == "brewed" :> [bridge |-> Absent, binding |-> Absent]
ReceiverOf == [bridge |-> Absent, operation |-> "brew", source |-> Absent]
NodeFiles == {{}, {FileOf("operation", "brew", "effect"), FileOf("event", "brewed", Absent)},
              {FileOf("operation", "brew", "transition")}}
Variants ==
    {<<e, o, v, f, r>> :
        e \in {Absent, [storage |-> Absent, properties |-> "id" :> "hex"],
               [storage |-> "sql", properties |-> "volume" :> "number"]},
        o \in {<<>>, "brew" :> OperationOf(Absent, Absent, FALSE, {"volume"}),
               "brew" :> OperationOf("bash", Absent, FALSE, {}),
               "brew" :> OperationOf(Absent, "effect", TRUE, {})},
        v \in {<<>>, EventOf}, f \in NodeFiles,
        r \in {<<>>, <<"tea", "cups", "poured">> :> ReceiverOf, <<"cups", "poured">> :> ReceiverOf}}
Prototype(i) ==
    IF i = 1 THEN [Bare EXCEPT
                      !.entity = [storage |-> Absent, properties |-> "id" :> "uuid" @@ "volume" :> "number"],
                      !.files.node = {FileOf("operation", "brew", "effect"), FileOf("event", "brewed", Absent)},
                      !.prototype = <<>>]
    ELSE [Bare EXCEPT !.operations = "brew" :> OperationOf(Absent, "transition", TRUE, {"id"}),
                      !.prototype = <<"base", 1>>]
Made(v, base) ==
    [Bare EXCEPT !.entity = v[1], !.operations = v[2], !.events = v[3],
                 !.files = [node |-> v[4], bash |-> {FileOf("operation", "brew", "computation")}],
                 !.receivers = v[5], !.prototype = base, !.shortcuts = "exposition" :> "tree"]
Varied == {<<"pots", v, b>> : v \in Variants, b \in {<<>>, <<"base", 1>>, <<"base", 2>>}}
TheDirectories ==
    [p \in Varied |-> Made(p[2], p[3])]
    @@ <<"base", 1>> :> Prototype(1) @@ <<"base", 2>> :> Prototype(2)
    @@ <<"roles">> :> [Bare EXCEPT !.extensions = "stash" :> Absent, !.bindings = <<"loop", "amqp">>,
                                   !.events = "granted" :> [bridge |-> Absent, binding |-> Absent],
                                   !.files.node = {FileOf("event", "granted", Absent)}]
    @@ <<"locks">> :> Bare
Loader == INSTANCE Components
    WITH Contexts <- {[components |-> {p}, annotations |-> a] : p \in Varied, a \in {Absent, {"realtime"}}},
         Directories <- TheDirectories,
         Extensions <- "exposition" :> {<<"roles">>} @@ "stash" :> {<<"locks">>} @@ "telemetry" :> {},
         Standalone <- {"realtime"}, Async <- {"amqp"}, None <- Absent,
         stage <- reading, manifests <- loaded, asked <- extensionsAsked

\* Starts of one process: of the same components, with other bindings, with a
\* receiver of an event that is not there, and with an aspect of a name twice.
Heard(binding, foreign) == [binding |-> binding, foreign |-> foreign]
TheDeclared ==
    [pots |-> [operations |-> "pour" :> <<"amqp">>, events |-> "poured" :> "amqp", receivers |-> <<>>,
               extensions |-> {}],
     cups |-> [operations |-> "wash" :> <<"amqp", "other">>, events |-> <<>>,
               receivers |-> <<"pots", "poured">> :> Heard(Absent, FALSE)
                             @@ <<"tap", "opened">> :> Heard("other", TRUE),
               extensions |-> {"sampling", "origins"}],
     mugs |-> [operations |-> <<>>, events |-> <<>>, extensions |-> {},
               receivers |-> <<"pots", "broken">> :> Heard(Absent, FALSE)],
     jars |-> [operations |-> <<>>, events |-> <<>>, receivers |-> <<>>, extensions |-> {"origins", "own"}]]
ThePaths == [tea |-> {"pots", "cups"}, bar |-> {"pots"}, mill |-> {"cups"}, inn |-> {"mugs"}, den |-> {"jars"}]
Starting(bindings, extensions) == [bindings |-> bindings, extensions |-> extensions]
TheStarts == [tea |-> Starting(Absent, {}), bar |-> Starting(<<"loop", "other">>, {"sampling"}),
              mill |-> Starting(Absent, {}), inn |-> Starting(<<"loop">>, {}), den |-> Starting(Absent, {})]
TheAspects == [sampling |-> {}, origins |-> {"http", "amqp"}, own |-> {"http"}, telemetry |-> {"logs"}]

\* A component whose tree has a method of many kinds or a few nodes, one in
\* the same namespace, and annotations.
MethodOf(endpoint, queried, directives) ==
    [verb |-> "GET", endpoint |-> endpoint, query |-> queried, directives |-> directives, unknown |-> FALSE]
NodeOf(methods, directives) ==
    [forward |-> Absent, flags |-> {}, methods |-> methods, directives |-> directives, unknown |-> FALSE]
ForwardTo == [NodeOf(<<>>, <<>>) EXCEPT !.forward = "/pots"]
KeyOf(key) == [key |-> key, value |-> "v"]
Role == KeyOf(<<"role">>)
Unqueried == [is |-> "absent"]
Sometimes == {<<>>, <<KeyOf(<<"anonymous">>)>>, <<KeyOf(<<"auth", "id">>), Role>>, <<KeyOf(<<"what">>)>>}
QueriesDeclared ==
    {Unqueried, [is |-> "null"]}
    \cup [is : {"mapping"}, omit : {Absent, [number |-> 1]},
          limit : {Absent, [number |-> 2], [value |-> 1, range |-> <<0, 3>>]}]
Trees ==
    {<<>> :> NodeOf(<<MethodOf(e, q, d)>>, <<Role>>) :
        e \in {<<"observe">>, <<"pots", "observe">>, <<"tea", "pots", "compute">>, <<"pour">>, <<>>},
        q \in QueriesDeclared, d \in Sometimes}
    \cup {<<>> :> NodeOf(<<>>, d) @@ <<"cold">> :> ForwardTo
            @@ <<"hot">> :> NodeOf(<<MethodOf(<<"observe">>, Unqueried, d), MethodOf(<<"compute">>, Unqueried, <<>>)>>, d) :
            d \in Sometimes}
    \cup {<<"hot">> :> [ForwardTo EXCEPT !.unknown = TRUE]}
ComponentOf(namespace, name, nodes) ==
    [namespace |-> namespace, name |-> name, tree |-> nodes,
     operations |-> "observe" :> TRUE @@ "compute" :> FALSE]
TheDeclarations ==
    {[components |-> <<ComponentOf(n[1], n[2], t), s>>, annotation |-> a] :
        n \in {<<"tea", "mugs">>, <<"default", "hot">>}, t \in Trees,
        s \in {ComponentOf("tea", "pots", <<"hot">> :> ForwardTo), ComponentOf("hot", "cold", <<>> :> ForwardTo),
               ComponentOf("identity", "basic", <<>> :> ForwardTo)},
        a \in {Absent, <<"identity">> :> ForwardTo, <<>> :> NodeOf(<<>>, <<KeyOf(<<"what">>)>>),
               <<"code">> :> NodeOf(<<MethodOf(<<"tea", "pots", "pour">>, Unqueried, <<>>)>>, <<KeyOf(<<"anonymous">>)>>)}}
Branches == INSTANCE Syntax
    WITH Declarations <- TheDeclarations, None <- Absent, stage <- parsing, deployed <- deployedTree,
         Shortcuts <- <<"anonymous">> :> <<"auth", "anonymous">> @@ <<"role">> :> <<"auth", "role">>

\* A component with a configuration and origins, and one that may request URLs.
URL(protocol, of) == [protocol |-> protocol, of |-> of]
Leaf(is, of) == [is |-> is, of |-> of]
TheComponents ==
    "a" :> [configuration |-> [types |-> <<"x">> :> "number" @@ <<"y", "z">> :> "string" @@ <<"y">> :> "string",
                               defaults |-> <<"x">> :> Leaf("number", 1) @@ <<"y", "z">> :> Leaf("string", 2)],
            origins |-> "docs" :> URL("http:", 1) @@ "queue" :> Absent]
    @@ "b" :> [configuration |-> Absent, origins |-> [null |-> TRUE]]
SetUps ==
    {[configuration |-> c, origins |-> o, rules |-> r, level |-> l[1], levels |-> l[2]] :
        c \in {<<>>, "a" :> (<<"x">> :> Leaf("secret", "S")), "a" :> (<<"y", "z">> :> Leaf("secret", "S")),
               "a" :> (<<"y">> :> Leaf("string", 3)), "b" :> (<<"y">> :> Leaf("string", 3)),
               "a" :> (<<"w">> :> Leaf("string", 3))},
        o \in {<<>>, "a" :> ("queue" :> <<URL("amqp:", 2), URL("amqps:", 3)>>),
               "a" :> ("queue" :> <<URL("amqp:", 2), URL("http:", 3)>>), "a" :> ("queue" :> <<URL("ftp:", 2)>>),
               "a" :> ("docs" :> <<URL("https:", 2)>> @@ "queue" :> <<URL("pubsub:", 3)>>
                       @@ "extra" :> <<URL("http:", 4)>>)},
        r \in {<<>>, "b" :> <<[urls |-> Absent, allow |-> TRUE], [urls |-> {URL("http:", 5)}, allow |-> FALSE]>>,
               "b" :> <<[urls |-> {URL("http:", 5)}, allow |-> TRUE]>>},
        l \in {<<Absent, <<>>>>, <<"warn", "a" :> "debug">>, <<Absent, "a" :> "debug">>}}
Asking(origin, url, absolute, retries) ==
    [origin |-> origin, url |-> url, absolute |-> absolute, retries |-> retries]
Setup == INSTANCE Settings
    WITH Components <- TheComponents, Annotations <- SetUps, Secrets <- {"S"}, Values <- {7, 8},
         Protocols <- [http |-> {"http:", "https:"}, amqp |-> {"amqp:", "amqps:"}, pubsub |-> {"pubsub:"}],
         Requests <- {Asking("docs", Absent, FALSE, TRUE), Asking("docs", Absent, TRUE, FALSE),
                      Asking("extra", Absent, FALSE, FALSE), Asking("", URL("http:", 5), FALSE, TRUE),
                      Asking("", URL("http:", 6), FALSE, TRUE)},
         Retries <- 2, MaxBoots <- 2, None <- Absent,
         booted <- bootedWith, request <- requested

\* Schemas: declarations of every form, one or two properties of each, and
\* values.
D(is, of) == [is |-> is, of |-> of]
Txt(text) == D("string", text)
Num(n) == D("number", n)
Null == D("null", Absent)
Obj(props) == D("object", props)
Arr(seq) == D("array", seq)

Type(t) == D("type", t)
PropertyOf(name, marks) == [is |-> "name", of |-> name, marks |-> marks]
Wild(marks) == [is |-> "null", of |-> Absent, marks |-> marks]
Expr(re, marks) == [is |-> "pattern", of |-> re, marks |-> marks]
Declares(props) == [is |-> "object", of |-> props, additional |-> Absent, nullable |-> Absent]
Sealed(props) == [Declares(props) EXCEPT !.additional = FALSE]
Bound(at, open) == [at |-> at, open |-> open]

Simple == {D("null", Absent), Type("string"), Type("integer"), Type("object"), Type("array"),
           D("constant", Txt("a")), D("constant", Num(5)), D("pattern", "^a"), D("format", "date"),
           D("length", 1), D("map", "number"),
           D("ref", <<"ref", <<>>>>), D("ref", <<"ref", <<"x">>>>), D("ref", <<"ref", <<"y">>>>),
           D("range", [type |-> "integer", min |-> Bound(1, TRUE), max |-> Bound(5, FALSE)]),
           D("range", [type |-> "number", min |-> Absent, max |-> Bound(5, TRUE)])}
Arrays == {Arr(<<>>), Arr(<<Type("string")>>), Arr(<<D("constant", Txt("a")), D("constant", Txt("5"))>>),
            Arr(<<D("constant", Txt("a")), D("constant", Num(5))>>),
            Arr(<<Declares(PropertyOf("x", <<"*">>) :> Type("number")), Declares(PropertyOf("y", <<"*">>) :> Type("string"))>>),
            Arr(<<Declares(PropertyOf("x", <<>>) :> D("constant", Num(1))), Declares(PropertyOf("y", <<>>) :> Type("string"))>>),
            Arr(<<Declares(PropertyOf("x", <<"*">>) :> Type("number"))>>),
            D("items", Type("number")), D("items", Declares(PropertyOf("x", <<>>) :> Type("number"))),
            D("schema", "type" :> "number" @@ "maximum" :> 4)}
Inner == {Type("number"), D("constant", Txt("a")), D("pattern", "^a")}
Marked == {<<>>, <<"*">>, <<"?">>, <<"+">>, <<"*", "+">>, <<"?", "+">>}
Objects ==
    {Declares(PropertyOf("x", m) :> d) : m \in Marked, d \in Inner}
    \cup {Declares(PropertyOf("x", m) :> Type("number") @@ PropertyOf("y", n) :> d) :
            m \in Marked, n \in {<<>>, <<"?">>, <<"*">>}, d \in {Type("string"), D("constant", Num(1))}}
    \cup {Sealed(PropertyOf("x", m) :> d @@ Expr("^a", n) :> Type("number")) :
            m \in {<<>>, <<"?">>}, n \in {<<>>, <<"+">>}, d \in Inner}
    \cup {Declares(Wild(m) :> d) : m \in {<<>>, <<"+">>}, d \in Inner}
    \cup {[Declares(PropertyOf("x", <<>>) :> Type("number")) EXCEPT !.nullable = TRUE, !.additional = a] :
            a \in {Absent, TRUE, FALSE}}
    \cup {Declares(PropertyOf("x", <<>>) :> Declares(PropertyOf("y", m) :> Type("number") @@ PropertyOf("a", <<"?">>) :> d)) :
            m \in {<<>>, <<"*", "+">>}, d \in Inner}
    \cup {Declares(PropertyOf("y", <<>>) :> D("ref", <<Absent, <<"x", "x">>>>)
                   @@ PropertyOf("x", <<>>) :> Declares(PropertyOf("x", <<>>) :> Type("number"))),
          Declares(PropertyOf("x", <<>>) :> D("ref", <<Absent, <<>>>>) @@ PropertyOf("y", <<"+">>) :> Type("number")),
          Sealed(<<>>), Declares(PropertyOf("x", <<>>) :> Arr(<<>>)),
          Declares(PropertyOf("x", <<"+">>) :> Declares(PropertyOf("y", <<>>) :> D("constant", Num(1)))),
          Declares(PropertyOf("type", <<>>) :> Type("number") @@ PropertyOf("x", <<>>) :> Type("number")),
          Declares(PropertyOf("type", <<"?">>) :> Type("number") @@ PropertyOf("x", <<>>) :> Type("number")),
          Declares(PropertyOf("type", <<>>) :> D("pattern", "^a"))}
ReplyOf(output, codes) == [is |-> "reply", of |-> output, errors |-> codes]
RepliesOf == {ReplyOf(Absent, Absent), ReplyOf(Sealed(PropertyOf("x", <<>>) :> Type("number")), {Txt("a")}),
              ReplyOf(Arr(<<Sealed(PropertyOf("x", <<>>) :> Type("number"))>>), {Txt("5")}),
              ReplyOf(Type("number"), {Txt("a"), Txt("5")})}

Scalars == {Null, Txt("a"), Txt("5"), Txt("ab"), Num(1), Num(5), D("boolean", TRUE)}
Tested == Scalars \cup {Arr(<<>>), Arr(<<Num(1)>>), Arr(<<Txt("a"), Txt("5")>>), Arr(<<Obj("x" :> Num(1))>>)}
          \cup {Obj(f) : f \in UNION {[s -> {Txt("a"), Num(1), Arr(<<Txt("a")>>)}] : s \in SUBSET {"x", "y"}}}
          \cup {Obj("x" :> v) : v \in Scalars \cup {Obj("y" :> Num(1)), Obj("y" :> Arr(<<Num(5)>>) @@ "a" :> Txt("a")),
                                                    Obj("x" :> Num(1)), Obj("a" :> Num(1))}}
          \cup {Obj("a" :> Num(1) @@ "x" :> Num(5)), Obj("b" :> Num(1) @@ "x" :> Txt("a")), Obj("type" :> Txt("a")),
                Obj("y" :> Txt("5") @@ "x" :> Obj("x" :> Txt("5"))),
                Obj("output" :> Num(1)), Obj("output" :> Obj("x" :> Num(1) @@ "y" :> Num(1))),
                Obj("output" :> Arr(<<Obj("y" :> Num(1))>>)), Obj("error" :> Obj("code" :> Txt("a"))),
                Obj("error" :> Obj("code" :> Txt("b"))), Obj("error" :> Obj("code" :> Txt("a")) @@ "x" :> Num(1))}

Shapes == INSTANCE Schemas
    WITH Declarations <- Simple \cup Arrays \cup Objects \cup RepliesOf,
         Namespace <- "ref" :> Declares(PropertyOf("x", <<"*">>) :> Type("number")), Values <- Tested,
         Numerals <- ("1" :> 1 @@ "5" :> 5), Matching <- ("^a" :> {"a", "ab"} @@ "date" :> {"5"}),
         Lengths <- ("" :> 0 @@ "a" :> 1 @@ "b" :> 1 @@ "ab" :> 2 @@ "1" :> 1 @@ "5" :> 1), None <- Absent,
         declaration <- shape, schema <- compiled, failed <- failing, asked <- checked

-----------------------------------------------------------------------------
fileVars == <<file, algorithm, definition, asked, given, told>>
contextVars == <<context, reading, loaded, waiting, extensionsAsked, dependencies>>
treeVars == <<declaration, parsing, branches, deployedTree, root>>
settingVars == <<annotation, deployed, concealed, bootedWith, boots, requested>>
shapeVars == <<shape, compiled, failing, checked>>
bootVars == <<fileVars, contextVars, processVars, treeVars, settingVars, shapeVars>>
environmentVars == <<environment, typed, selected, prompted, secrets, conceals, hidden, raced, changes>>
manifestVars == <<tree, loading, manifest, booted>>
declaredVars == <<vars, manifestVars, deployVars>>
identityVars == <<accessVars, passkeyVars, federationVars>>
runtimeVars == <<bootVars, environmentVars>>
all == <<focus, declaredVars, identityVars, runtimeVars>>

\* The components that a behaviour is not one of have their first or no state.
NoQueries == /\ stage = None /\ declared = None /\ call = None /\ scope = None /\ request = None
             /\ query = None /\ answer = <<>> /\ status = 0
NoManifests == tree = <<>> /\ loading = None /\ manifest = None /\ booted = None
NoAccess == /\ case = NoCase /\ authorizing = "resolve" /\ todo = {} /\ part = 1 /\ identity = Unset
            /\ pipeline = <<>> /\ granted = Unset /\ body = case.body /\ response = Unset
            /\ issuedTo = Unset /\ served = 0
NoPasskeys == PasskeysInit /\ \A k \in Kids : passkey[k].is = "none"
NoFile == /\ file = Absent /\ algorithm = Absent /\ definition = Absent
          /\ asked = Absent /\ given = Absent /\ told = Absent
NoContext == /\ context = Absent /\ reading = Absent /\ loaded = <<>>
             /\ waiting = {} /\ extensionsAsked = {} /\ dependencies = Absent
NoTree == /\ declaration = Absent /\ parsing = Absent /\ branches = <<>>
          /\ deployedTree = Absent /\ root = Absent
NoSettings == /\ annotation = Absent /\ deployed = Absent /\ concealed = <<>>
              /\ bootedWith = <<>> /\ boots = 0 /\ requested = Absent
NoShape == shape = Absent /\ compiled = Absent /\ failing = Absent /\ checked = Absent
BootFoci == {"files", "contexts", "processes", "trees", "settings", "schemas"}
BootInit ==
    /\ ProcessInit
    /\ IF focus = "files" THEN Bridges!Init ELSE NoFile
    /\ IF focus = "contexts" THEN Loader!Init ELSE NoContext
    /\ IF focus = "trees" THEN Branches!Init ELSE NoTree
    /\ IF focus = "settings" THEN Setup!Init ELSE NoSettings
    /\ IF focus = "schemas" THEN Shapes!Init ELSE NoShape
BootNext ==
    \/ /\ focus = "files" /\ Bridges!Next
       /\ UNCHANGED <<contextVars, processVars, treeVars, settingVars, shapeVars>>
    \/ /\ focus = "contexts" /\ Loader!Next
       /\ UNCHANGED <<fileVars, processVars, treeVars, settingVars, shapeVars>>
    \/ /\ focus = "processes" /\ ProcessNext
       /\ UNCHANGED <<fileVars, contextVars, treeVars, settingVars, shapeVars>>
    \/ /\ focus = "trees" /\ Branches!Next
       /\ UNCHANGED <<fileVars, contextVars, processVars, settingVars, shapeVars>>
    \/ /\ focus = "settings" /\ Setup!Next
       /\ UNCHANGED <<fileVars, contextVars, processVars, treeVars, shapeVars>>
    \/ /\ focus = "schemas" /\ Shapes!Next
       /\ UNCHANGED <<fileVars, contextVars, processVars, treeVars, settingVars>>

Others == {"cluster", "federation", "environments"} \cup BootFoci
MCInit == /\ DeployInit /\ FederationInit /\ Env!FilesInit
          /\ \/ focus = "queries" /\ Init /\ NoManifests /\ NoAccess /\ NoPasskeys
             \/ focus = "manifests" /\ Tree!Init /\ NoQueries /\ NoAccess /\ NoPasskeys
             \/ focus = "access" /\ AccessInit /\ NoQueries /\ NoManifests /\ NoPasskeys
             \/ focus = "passkeys" /\ PasskeysInit /\ NoQueries /\ NoManifests /\ NoAccess
             \/ focus \in Others /\ NoQueries /\ NoManifests /\ NoAccess /\ NoPasskeys
          /\ BootInit

OfIdentities == UNCHANGED <<focus, declaredVars, runtimeVars>>
OfDeclarations == UNCHANGED <<focus, identityVars, runtimeVars>>
OfRuntime == UNCHANGED <<focus, declaredVars, identityVars>>
MCNext ==
    \/ focus = "queries" /\ Next /\ UNCHANGED <<manifestVars, deployVars>> /\ OfDeclarations
    \/ focus = "manifests" /\ Tree!Next /\ UNCHANGED <<vars, deployVars>> /\ OfDeclarations
    \/ focus = "cluster" /\ DeployNext /\ UNCHANGED <<vars, manifestVars>> /\ OfDeclarations
    \/ focus = "access" /\ AccessNext /\ UNCHANGED <<passkeyVars, federationVars>> /\ OfIdentities
    \/ focus = "passkeys" /\ PasskeysNext /\ UNCHANGED <<accessVars, federationVars>> /\ OfIdentities
    \/ focus = "federation" /\ FederationNext /\ UNCHANGED <<accessVars, passkeyVars>> /\ OfIdentities
    \/ BootNext /\ UNCHANGED environmentVars /\ OfRuntime
    \/ focus = "environments" /\ Env!FilesNext /\ UNCHANGED bootVars /\ OfRuntime
MCSpec == MCInit /\ [][MCNext]_all

\* Queries alone.
QueriesSpec == MCInit /\ focus = "queries" /\ [][MCNext]_all

\* Operations run as their files and manifests say, values are checked and
\* completed as they are declared, components are set up as the context says,
\* and files and secrets of environments keep what they are given.
ValuesSound == /\ Bridges!AlgorithmsRun
               /\ shape = Absent \/ Shapes!SchemasSound
               /\ annotation = Absent \/ Setup!SettingsSound
               /\ Env!EnvironmentsKept
\* Resources are what components and the context declare.
SyntaxSound == parsing = Absent \/ Branches!SyntaxSound
\* Manifests inherit what prototypes implement, and components are what their
\* directories and prototypes declare.
ComponentsDeclared == Tree!OperationsInherited /\ Loader!ComponentsSound
=============================================================================
