---------------------------- MODULE MCExposition ----------------------------
(* The discovery of resources, the exchange of one request, the message it  *)
(* carries, the octets it is about and the tokens of one identity, side by  *)
(* side: a behaviour is one of one of them.                                 *)
(*                                                                          *)
(* Three versions of a component, of which the second cannot be merged, in  *)
(* a tree whose annotation declares a node of its own.                      *)
EXTENDS Gateway, Resources, Exchange, Tokens, Media

VARIABLES focus,
          case, progress, todo, parameters, inputs, outputs, input, message, parts

Methods(operations) == [v \in DOMAIN operations |->
                          [endpoint |-> operations[v], directives |-> <<>>]]
Node(routes, operations) ==
    [routes |-> routes, methods |-> Methods(operations), directives |-> <<>>,
     isolated |-> FALSE, protected |-> None, forward |-> None]
Nothing == [v \in {} |-> None]
Branch(name, routes, operations) ==
    Node(<<[path |-> <<Literal(name)>>, node |-> Node(routes, operations)]>>, Nothing)

TheAnnotation ==
    [Branch("tea", <<>>, Nothing)
       EXCEPT !.directives = <<[family |-> "io", name |-> "output"]>>]
TheBranches ==
    <<"pots", 1>> :> Branch("pots", <<[path |-> <<Literal("big")>>,
                                       node |-> Node(<<>>, "GET" :> "enumerate")]>>,
                            "GET" :> "select")
    @@ <<"pots", 2>> :> Branch("pots", <<>>, "GET" :> "select")
    @@ <<"pots", 3>> :> Branch("pots", <<[path |-> <<Placeholder("id")>>,
                                          node |-> Node(<<>>, "GET" :> "observe")]>>,
                               "GET" :> "select")

TheTrunk == TrunkOf(TheAnnotation)
TheBranch(id) == BranchNode(TheAnnotation, TheBranches[id], id)
TheJoined(node, id) == MergeNode(node, TheBranch(id))
TheClosed(node, id) == RemotesOf(ClosedBy(node, TheBranch(id)))
TheRemotes(node) == RemotesOf(Endpoints(node))
\* Trees that any two branches are merged into, which are all there are.
Grown(nodes) == nodes \cup {TheJoined(node, id) : node \in nodes, id \in {<<"pots", 1>>, <<"pots", 3>>}}
TheTrees == Grown(Grown({TheTrunk}))

ThePods == {"p1", "p2", "p3"}
TheComponents == [p \in ThePods |-> "pots"]
TheVersions == [p \in ThePods |-> IF p = "p3" THEN 3 ELSE IF p = "p2" THEN 2 ELSE 1]
TheFaulty == {<<"pots", 2>>}
ThePaths == {<<"pots", "big">>}

\* Every family that acts in preflight or settle, in several orders; three of
\* them are mandatory.
Stacks == {<<>>, <<"auth">>, <<"octets", "io", "auth">>, <<"cache", "auth", "flow">>,
           <<"auth", "require", "cache">>, <<"flow", "octets", "auth", "io">>}
TheDeclarations == {[i \in DOMAIN s |-> [family |-> s[i], name |-> s[i]]] : s \in Stacks}

\* Two replicas of identity.tokens and a rotation of their keys.
TheReplicas == {"t1", "t2"}
TheStages == <<<<"k1">>, <<"k1", "k2">>, <<"k2", "k1">>, <<"k2">>>>

\* A method with at most one or two directives of each family; a request with a
\* body, or one whose reply is of any kind.
Declare(family, name, value) == [family |-> family, name |-> name, value |-> value]
Content(is) == [is |-> is, props |-> <<>>, items |-> <<>>]
Properties(f) == [Content("object") EXCEPT !.props = f]
Items(s) == [Content("array") EXCEPT !.items = s]
TheReplies == {[length |-> 2] @@ body :
                 body \in {Properties("name" :> "n" @@ "_version" :> "v1"),
                           Items(<<"name" :> "n" @@ "age" :> "a">>), Content("value"),
                           Content("absent"), Content("null"), Content("error"),
                           Content("stream")}}
TheBodies == {Content("absent"), Content("unsupported"), Content("malformed"),
              Content("value"), Content("null"),
              Properties("name" :> "sent" @@ "token" :> "sent"), Properties("name" :> "sent"),
              Items(<<"name" :> "sent">>)}
Maps == {<<>>,
         <<Declare("map", "headers", "token" :> "x-token" @@ "name" :> "host"),
           Declare("map", "authority", "where")>>,
         <<Declare("map", "languages", <<"en", "fr">>), Declare("map", "language", "lang")>>}
Segmented == <<Declare("map", "segments", "team" :> "group"),
               Declare("map", "claims", "name" :> "sub")>>
Outs == {<<>>, <<Declare("io", "output", {"name"})>>, <<Declare("io", "output", None)>>}
Ins == {<<>>, <<Declare("io", "input", {"name", "age"})>>}
Sum == Properties("sum" :> "s")
Flows == {<<>>, <<Declare("flow", "compose", <<None, Sum>>)>>, <<Declare("flow", "compose", <<None>>)>>,
          <<Declare("flow", "fetch", "found")>>,
          <<Declare("flow", "compose", <<Sum>>), Declare("flow", "fetch", "refused")>>,
          <<Declare("dev", "stub", Properties("name" :> "stub")), Declare("flow", "fetch", "found")>>,
          <<Declare("dev", "throw", "x")>>,
          <<Declare("dev", "sleep", "short"), Declare("dev", "stub", Content("value"))>>,
          <<Declare("require", "header", {"x-token"})>>}
TheHeaders == {<<>>, "x-token" :> "t" @@ "if-none-match" :> "v1",
               "if-none-match" :> "v0" @@ "accept-language" :> "fr" @@ "host" :> "h",
               "if-none-match" :> "malformed" @@ "sleep" :> "long"}
Route == <<[name |-> "group", value |-> "g"], [name |-> "id", value |-> "i"]>>
Asked == [verb : {"POST"}, origin : {None}, encoder : {TRUE}, headers : TheHeaders,
          authority : {"here"}, claims : {<<>>, "sub" :> "s"}, parameters : {Route},
          query : {<<>>, "page" :> "2"}, body : TheBodies, queryable : BOOLEAN,
          declared : {m \o i : m \in Maps \cup {Segmented}, i \in Ins},
          reply : {r \in TheReplies : r.is = "object"}]
Replied == [verb : {"GET", "POST", "HEAD"}, origin : {None, "o"}, encoder : BOOLEAN,
            headers : TheHeaders, authority : {"here"}, claims : {<<>>}, parameters : {<<>>},
            query : {<<>>}, body : {Content("absent")}, queryable : {TRUE},
            declared : {f \o m \o o : f \in Flows, m \in Maps, o \in Outs}, reply : TheReplies]
Messaging == INSTANCE Messages
    WITH Cases <- Asked \cup Replied, stage <- progress, Mandatory <- {"io"}

\* Providers of every kind; a storage that no component declares.
Disk == [provider |-> "fs", claim |-> TRUE, type |-> None, transformations |-> <<>>]
Bucket == [Disk EXCEPT !.provider = "s3"]
Way(stem, start, end, optional) == [stem |-> stem, start |-> start, end |-> end, optional |-> optional]
Cloud(ts) == [provider |-> "cloudinary", claim |-> FALSE, type |-> "image", transformations |-> ts]
Ways == {<<>>, <<Way("w", TRUE, FALSE, TRUE), Way("jpg", FALSE, FALSE, TRUE)>>,
         <<Way("w", FALSE, TRUE, TRUE), Way("w", FALSE, TRUE, FALSE)>>}
Credentials == {"API_KEY", "API_SECRET", "ACCESS_KEY_ID", "SECRET_ACCESS_KEY"}
Option(location, trust, workflow) == [location |-> location, trust |-> trust, workflow |-> workflow]
Of(name, value) == [name |-> name, value |-> value]
In == Of("context", "i")
Handlers(put, removal) ==
    "POST" :> <<In, Of("put", put)>> @@ "DELETE" :> <<In, Of("delete", [workflow |-> removal])>>
    @@ "GET" :> <<Of("get", [meta |-> TRUE]), In>> @@ "HEAD" :> <<In, Of("get", [meta |-> FALSE])>>
    @@ "PATCH" :> <<In, Of("workflow", None)>>
Mistaken == "GET" :> <<In, Of("get", None), Of("delete", None)>> @@ "HEAD" :> <<In>>
            @@ "PATCH" :> <<Of("workflow", None)>>

Ext(prefix, stem) == [prefix |-> prefix, stem |-> stem]
Plain(verb) == [verb |-> verb, slashed |-> verb = "POST", extensions |-> <<>>, id |-> None,
                reference |-> None, empty |-> FALSE, stream |-> "image", conditional |-> FALSE,
                described |-> FALSE]
Variants == {[Plain("GET") EXCEPT !.extensions = es] :
                es \in {<<>>, <<Ext(None, "w")>>, <<Ext("x", "jpg")>>, <<Ext("x", "w")>>,
                       <<Ext(None, "w"), Ext(None, "jpg")>>, <<Ext(None, "jpg"), Ext(None, "w")>>,
                       <<Ext(None, "w"), Ext(None, "w")>>}}
Uploaded == {[Plain("POST") EXCEPT !.id = id] : id \in {None, "a"}}
Linked == {[Plain("POST") EXCEPT !.reference = origin, !.empty = empty] :
              origin \in {"x", "y"}, empty \in BOOLEAN}
Odd == {[Plain("POST") EXCEPT !.id = "invalid"], [Plain("POST") EXCEPT !.slashed = FALSE],
        [Plain("GET") EXCEPT !.slashed = TRUE], [Plain("GET") EXCEPT !.conditional = TRUE],
        [Plain("HEAD") EXCEPT !.described = TRUE], [Plain("GET") EXCEPT !.described = TRUE]}
Every == {Plain(verb) : verb \in {"GET", "HEAD", "DELETE", "PATCH"}}

Setting(storages, uses, secrets, path, methods, demands) ==
    [annotation |-> storages, uses |-> uses, secrets |-> secrets, path |-> <<path>>,
     methods |-> methods, demands |-> demands]
Serving(storage, path, methods, demands) ==
    Setting("i" :> storage @@ "o" :> [Disk EXCEPT !.claim = FALSE], "c" :> {"i"}, {"i"} \X Credentials, path, methods, demands)
Nested(absolute) == [absolute |-> absolute, path |-> <<"b">>]
TheSettings ==
    {Serving(Cloud(ts), "r", Handlers(Option(None, {}, FALSE), FALSE),
             Variants \cup {Plain("POST"), [Plain("POST") EXCEPT !.stream = "raw"], Plain("DELETE"),
                           [Plain("DELETE") EXCEPT !.extensions = <<Ext(None, "w")>>]}) :
        ts \in Ways}
    \cup {Serving(Cloud(ts), "r.1", Handlers(Option(None, {}, FALSE), FALSE), {Plain("POST"), Plain("GET")}) :
            ts \in Ways}
    \cup {Serving(storage, "r", Handlers(Option(Nested(absolute), {}, TRUE), TRUE), Uploaded \cup Every) :
            storage \in {Disk, Bucket}, absolute \in BOOLEAN}
    \cup {Serving(storage, "r", Handlers(Option(None, {"x"}, FALSE), TRUE), demands) :
            storage \in {Disk, Bucket}, demands \in {Odd \cup {Plain("POST")}, Linked \cup {Plain("GET")}}}
    \cup {Serving(Disk, "r", Mistaken, Every)}
    \cup {Setting("i" :> Disk @@ "o" :> s, "c" :> {"i"}, secrets, "r", Mistaken, {}) :
            s \in {Bucket, Cloud(<<>>)},
            secrets \in {{}, {"o"} \X Credentials, {<<"o", "ACCESS_KEY_ID">>}, {<<"i", "API_KEY">>}}}
    \cup {Setting("i" :> [Disk EXCEPT !.provider = "mem"], "c" :> {"i"}, {}, "r", Mistaken, {}),
          Setting("i" :> Disk, "c" :> {"i"} @@ "d" :> {"j"}, {}, "r", Mistaken, {})}

contentVars == <<case, progress, todo, parameters, inputs, outputs, input, message, parts>>
messageVars == <<contentVars, mediaVars>>
all == <<focus, vars, exchangeVars, tokenVars, messageVars>>

NoMessage == /\ case = None /\ progress = None /\ todo = <<>> /\ parameters = <<>> /\ inputs = <<>>
             /\ outputs = <<>> /\ input = None /\ message = None /\ parts = <<>>

NoOctets == /\ setting = None /\ release = None /\ started = None /\ stored = <<>> /\ demand = None
            /\ working = {} /\ answers = <<>>

\* What is done to the identity, with one replica that keeps keys, and the
\* rotation of keys are explored apart.
MCInit == /\ \/ focus \in {"discovery", "exchange", "identity", "rotation"} /\ NoMessage /\ NoOctets
             \/ focus = "message" /\ Messaging!Init /\ NoOctets
             \/ focus = "octets" /\ MediaInit /\ NoMessage
          /\ Init /\ ExchangeInit /\ TokensInit

OfDiscovery(A) == focus = "discovery" /\ A /\ UNCHANGED <<focus, exchangeVars, tokenVars, messageVars>>
OfExchange(A) == focus = "exchange" /\ A /\ UNCHANGED <<focus, vars, tokenVars, messageVars>>
OfTokens(A) == A /\ UNCHANGED <<focus, vars, exchangeVars, messageVars>>

MCNext == \/ OfDiscovery(Next) \/ OfExchange(ExchangeNext)
          \/ focus = "identity" /\ OfTokens(TokensNext) /\ stage' = stage /\ cache'["t2"] = 0
          \/ focus = "rotation" /\ OfTokens(TokensNext) /\ changes' = changes
          \/ /\ focus = "message" /\ Messaging!Next
             /\ UNCHANGED <<focus, vars, exchangeVars, tokenVars, mediaVars>>
          \/ /\ focus = "octets" /\ MediaNext
             /\ UNCHANGED <<focus, vars, exchangeVars, tokenVars, contentVars>>

OfInbox == focus = "discovery" /\ Delivered
MCSpec ==
    /\ MCInit /\ [][MCNext]_all
    /\ \A p \in Pods : WF_all(OfDiscovery(Listen(p))) /\ WF_all(OfDiscovery(Pong(p)))
    /\ WF_all(OfDiscovery(Ping)) /\ WF_inbox(OfInbox)
    /\ \A id \in Ids : WF_all(OfDiscovery(Connect(id))) /\ WF_all(OfDiscovery(Close(id)))
    /\ \A r \in Requests : WF_all(OfDiscovery(Invoke(r)))
    /\ WF_all(OfExchange(ServerClosed)) /\ \A r \in HttpRequests : WF_all(OfExchange(ExchangeStep(r)))

\* Exchanges come to an end, and the gateway finds what is exposed to it.
Answered == ExchangesEnd /\ GatewayDiscovers
\* The operation gets what is let in and mapped, the client what is let out.
MessagesSound == focus = "message" => Messaging!MessagesSound
=============================================================================
