------------------------------- MODULE Messages -------------------------------
(***************************************************************************)
(* What a request's message goes through, content first: the directives    *)
(* `require`, `dev`, `flow`, `map` and `io`, the reading and the transforms *)
(* of its body, its mapping to the operation's input, and the way the      *)
(* reply is transformed, conditioned, labelled and written, as one message *)
(* or as parts.  The request, the method and what the operation replies    *)
(* are those of a case, any of Cases.  Who may call is a matter of Access. *)
(***************************************************************************)
EXTENDS Directives

CONSTANTS Cases  \* [verb, origin, encoder, headers, authority, claims, parameters, query,
                 \*  body, declared, queryable, reply]

VARIABLES case, stage, todo,
          parameters,    \* the route's, less those that were mapped
          inputs,        \* context.pipelines.body
          outputs,       \* context.pipelines.response
          input,         \* what the operation was called with, or None
          message,       \* the response
          parts          \* of a multipart response, as written

messageVars == <<case, stage, todo, parameters, inputs, outputs, input, message, parts>>

(* A body is absent, of an unsupported type or malformed, null, a value, an *)
(* object of properties or an array of objects; a reply also an error or a *)
(* stream of objects, what is fetched one of bytes.                        *)
Bare(is) == [is |-> is, props |-> <<>>, items |-> <<>>]
Object(f) == [Bare("object") EXCEPT !.props = f]
Array(s) == [Bare("array") EXCEPT !.items = s]
IsObject(body) == body.is \in {"object", "array"}
Reply(body, length) == [length |-> length] @@ body
Keys(body) == IF body.is = "array" THEN UNION {DOMAIN f : f \in ToSet(body.items)}
              ELSE DOMAIN body.props

NoMessage == [status |-> 0, body |-> Bare("absent"), etag |-> None, language |-> None,
              cors |-> None, vary |-> {}]
Header(name) == IF name \in DOMAIN case.headers THEN case.headers[name] ELSE None

Init ==
    /\ case \in Cases
    /\ stage = "intercept" /\ todo = DirectiveSets(case.declared) /\ parameters = case.parameters
    /\ inputs = <<>> /\ outputs = <<>> /\ input = None /\ message = NoMessage /\ parts = <<>>

Respond(m) == stage' = "settled" /\ message' = m
Fail(s, body) == stage' = "failed" /\ message' = [NoMessage EXCEPT !.status = s, !.body = body]

\* CORS.intercept; what it answers to OPTIONS is written at once.
Intercept ==
    /\ stage = "intercept" /\ stage' = "preflight"
    /\ outputs' = IF case.origin = None THEN <<>> ELSE <<[does |-> "cors"]>>
    /\ UNCHANGED <<case, todo, parameters, inputs, input, message, parts>>

----------------------------------------------------------------------------
(* Directives.preflight: the families one by one *)

Go(attachedIn, attachedOut) ==
    /\ inputs' = inputs \o attachedIn /\ outputs' = outputs \o attachedOut
    /\ todo' = Tail(todo)
Named(directives, name) == SelectSeq(directives, LAMBDA d : d.name = name)
Values(directives) == [i \in DOMAIN directives |-> directives[i].value]

(* IO.preflight: without io:output nothing is let out. *)
Admit(directives) ==
    LET Restriction(allowed) == [does |-> "output", allowed |-> allowed]
        restrictions == Values(Named(directives, "output"))
    IN  /\ Go([i \in DOMAIN Named(directives, "input") |->
                  [does |-> "input", allowed |-> Named(directives, "input")[i].value]],
              IF restrictions = <<>> THEN <<Restriction({})>>
              ELSE [i \in DOMAIN restrictions |-> Restriction(restrictions[i])])
        /\ UNCHANGED <<stage, message, parameters>>

Require(directives) ==
    /\ Go(<<>>, <<>>)
    /\ IF \E d \in ToSet(directives) : \E h \in d.value : Header(h) = None
       THEN Fail(400, Bare("value")) ELSE UNCHANGED <<stage, message>>
    /\ UNCHANGED parameters

(* Language.properties: negotiated, or else the first that is supported. *)
Supported(directives) == Values(Named(directives, "languages"))[1]
Negotiated(directives) ==
    IF Header("accept-language") \in ToSet(Supported(directives))
    THEN Header("accept-language") ELSE Supported(directives)[1]

(* The values a mapping has for its properties. *)
Picked(mapping, values) ==
    [p \in {p \in DOMAIN mapping : mapping[p] \in DOMAIN values} |-> values[mapping[p]]]
Valued(params) ==
    [n \in {p.name : p \in ToSet(params)} |->
        SelectSeq(params, LAMBDA p : p.name = n)[1].value]
AuthorityValue(d) == d.value :> case.authority
LanguageValue(d, directives) == d.value :> Negotiated(directives)
HeaderValues(d) == Picked(d.value, case.headers)
ClaimValues(d) == Picked(d.value, case.claims)   \* none of what is not a valid bearer token
SegmentValues(d, params) == Picked(d.value, Valued(params))
Mapped(d, directives, params) ==
    CASE d.name = "authority" -> AuthorityValue(d)
      [] d.name = "language" -> LanguageValue(d, directives)
      [] d.name = "headers" -> HeaderValues(d)
      [] d.name = "claims" -> ClaimValues(d)
      [] d.name = "segments" -> SegmentValues(d, params)
      [] d.name = "languages" -> <<>>
TakenKept(d, params) == params  \* faulty: mapped parameters remain
\* Segments.properties splices what it maps.
Taken(d, params) ==
    IF d.name # "segments" THEN params
    ELSE SelectSeq(params, LAMBDA p : \A k \in DOMAIN d.value : d.value[k] # p.name)
\* The parameters that are left after the first i directives.
Left(directives, i) ==
    FoldLeft(LAMBDA params, d : Taken(d, params), parameters, SubSeq(directives, 1, i))
Labels(d, directives) ==
    CASE d.name = "headers" -> <<[does |-> "vary", names |-> {d.value[p] : p \in DOMAIN d.value}
                                                             \ {"host"}]>>
      [] d.name = "language" -> <<[does |-> "language", is |-> Negotiated(directives)]>>
      [] OTHER -> <<>>

(* Map.preflight: later mappings override earlier ones. *)
Map(directives) ==
    LET properties ==
            FoldLeft(LAMBDA acc, i : Mapped(directives[i], directives, Left(directives, i - 1)) @@ acc,
                     <<>>, [i \in DOMAIN directives |-> i])
    IN  /\ Go(<<[does |-> "map", properties |-> properties]>>,
              FlattenSeq([i \in DOMAIN directives |-> Labels(directives[i], directives)]))
        /\ parameters' = Left(directives, Len(directives))
        /\ UNCHANGED <<stage, message>>

(* Another family has responded already. *)
Interrupt(m) ==
    IF message # NoMessage THEN Fail(500, Bare("absent"))
    ELSE message' = m /\ UNCHANGED stage

(* Flow.preflight: the first to answer ends it.  What is fetched is not    *)
(* asked for when the client holds a version of it.                        *)
Fetched == CASE Header("if-none-match") # None -> [NoMessage EXCEPT !.status = 304]
             [] OTHER -> [NoMessage EXCEPT !.body = Bare("bytes"), !.etag = "fetched"]
Flow(directives) ==
    LET fetches == Named(directives, "fetch")
        reached == IF fetches = <<>> THEN directives
                   ELSE SubSeq(directives, 1, SelectInSeq(directives, LAMBDA d : d.name = "fetch"))
        compositions == Named(reached, "compose")
    IN  /\ Go(<<>>, [i \in DOMAIN compositions |->
                        [does |-> "compose", variants |-> compositions[i].value]])
        /\ IF fetches = <<>> THEN UNCHANGED <<stage, message>>
           ELSE IF Header("if-none-match") = None /\ fetches[1].value = "refused"
           THEN Fail(404, Bare("absent"))
           ELSE Interrupt(Fetched)
        /\ UNCHANGED parameters

SleepRefused == Header("sleep") \notin {None, "short"}
(* Development.preflight: each is applied, up to one that throws, as the   *)
(* second stub does.                                                       *)
Develop(directives) ==
    LET stubs == Named(directives, "stub")
        Thrown(i) ==
            CASE directives[i].name = "throw" -> 500
              [] directives[i].name = "sleep" ->
                    IF SleepRefused THEN 400 ELSE 0
              [] directives[i].name = "stub" ->
                    IF \E j \in 1..(i - 1) : directives[j].name = "stub" THEN 500 ELSE 0
        thrown == SelectSeq([i \in DOMAIN directives |-> Thrown(i)], LAMBDA s : s # 0)
    IN  /\ Go(<<>>, <<>>)
        /\ IF thrown # <<>>
           THEN Fail(thrown[1], IF thrown[1] = 400 THEN Bare("value") ELSE Bare("absent"))
           ELSE IF stubs # <<>> THEN Interrupt([NoMessage EXCEPT !.body = stubs[1].value])
           ELSE UNCHANGED <<stage, message>>
        /\ UNCHANGED parameters

Preflight ==
    /\ stage = "preflight" /\ todo # <<>>
    /\ LET directives == Head(todo).directives
       IN  CASE Head(todo).family = "io" -> Admit(directives)
             [] Head(todo).family = "require" -> Require(directives)
             [] Head(todo).family = "map" -> Map(directives)
             [] Head(todo).family = "flow" -> Flow(directives)
             [] Head(todo).family = "dev" -> Develop(directives)
    /\ UNCHANGED <<case, input, parts>>

Interrupted ==
    /\ stage = "preflight" /\ todo = <<>> /\ message # NoMessage
    /\ Respond(message)
    /\ UNCHANGED <<case, todo, parameters, inputs, outputs, input, parts>>

----------------------------------------------------------------------------
(* Gateway.call, Context.body, Mapping.fit *)

Permitted(body, allowed) == Keys(body) \subseteq allowed

\* read: what is not decoded is refused before it is transformed.
Unread(body) == CASE body.is = "unsupported" -> 415 [] body.is = "malformed" -> 400 [] OTHER -> 0

\* A transform of the body; one that is refused is not transformed further.
Transform(body, transform) ==
    CASE body.is = "refused" -> body
      [] transform.does = "input" ->
            IF body.is = "absent" \/ (IsObject(body) /\ Permitted(body, transform.allowed))
            THEN body ELSE Bare("refused")
      [] OTHER -> IF IsObject(body) THEN [body EXCEPT !.props = transform.properties @@ @]
                  ELSE Object(transform.properties)

\* The route's parameters are criteria, or properties of the input when the
\* operation is not queried; those of the query string come last.
Embedded(body, more) ==
    IF DOMAIN more = {} THEN body
    ELSE IF body.is = "absent" THEN Object(more)
    ELSE [body EXCEPT !.props = more @@ @]
Fit(body) == Embedded(IF case.queryable THEN body ELSE Embedded(body, Valued(parameters)),
                      case.query)
Unfit(body) == /\ body.is \in {"null", "value"}
               /\ DOMAIN case.query # {} \/ (~ case.queryable /\ parameters # <<>>)

\* Endpoint.call: the version that the client holds is not sent again.  An etag
\* that is not one is refused, after the operation.
Versioned(reply) == reply.is = "object" /\ "_version" \in DOMAIN reply.props
Replied(reply) ==
    IF ~ Versioned(reply) THEN [NoMessage EXCEPT !.body = reply]
    ELSE IF Header("if-none-match") = reply.props["_version"]
    THEN [NoMessage EXCEPT !.status = 304, !.etag = reply.props["_version"]]
    ELSE [NoMessage EXCEPT !.body = reply, !.etag = reply.props["_version"]]

Call ==
    /\ stage = "preflight" /\ todo = <<>> /\ message = NoMessage
    /\ LET body == FoldLeft(Transform, case.body, inputs)
       IN  IF ~ case.encoder THEN Fail(406, Bare("absent")) /\ UNCHANGED input
           ELSE IF Unread(case.body) # 0
           THEN Fail(Unread(case.body), Bare("absent")) /\ UNCHANGED input
           ELSE IF body.is = "refused" THEN Fail(400, Bare("value")) /\ UNCHANGED input
           ELSE IF Unfit(body) THEN Fail(500, Bare("absent")) /\ UNCHANGED input
           ELSE /\ input' = [body |-> Fit(body),
                             criteria |-> IF case.queryable THEN Valued(parameters) ELSE <<>>]
                /\ IF case.reply.is = "error" THEN Fail(422, Bare("value"))
                   ELSE IF Versioned(case.reply) /\ Header("if-none-match") = "malformed"
                   THEN Fail(400, Bare("value"))
                   ELSE Respond(Replied(case.reply))
    /\ UNCHANGED <<case, todo, parameters, inputs, outputs, parts>>

----------------------------------------------------------------------------
(* Server.success, .fail, write *)

Status(m) == CASE m.status # 0 -> m.status
               [] m.body.is = "null" -> 404
               [] case.verb = "POST" -> 201
               [] m.body.is = "absent" /\ case.verb # "HEAD" -> 204
               [] OTHER -> 200

\* Output.restriction: neither errors nor streams; undeclared is nothing.
Only(body, allowed) ==
    LET Fitted(f) == [p \in DOMAIN f \cap allowed |-> f[p]]
    IN  [body EXCEPT !.props = Fitted(@), !.items = [i \in DOMAIN @ |-> Fitted(@[i])]]
Restricted(m, allowed) ==
    IF allowed = None \/ m.status >= 300 \/ m.body.is \in {"stream", "bytes", "absent", "null"} THEN m
    ELSE IF ~ IsObject(m.body) \/ allowed = {} THEN [m EXCEPT !.body = Bare("absent")]
    ELSE [m EXCEPT !.body = Only(@, allowed)]

\* Compose.execute: the first variant that does not throw.
Composed(m, variants) ==
    LET made == SelectSeq(variants, LAMBDA v : v # None)
    IN  IF m.body.is \notin {"stream", "bytes"} THEN m
        ELSE IF made = <<>> \/ m.body.is = "bytes" THEN [m EXCEPT !.body = Bare("thrown")]
        ELSE [m EXCEPT !.body = made[1]]

\* The transforms of the response, in their order.
Transformed(m, transform) ==
    CASE m.body.is = "thrown" -> m
      [] transform.does = "cors" ->
            [m EXCEPT !.cors = case.origin,
                      !.vary = @ \cup (IF case.verb \in {"GET", "HEAD"} THEN {"origin"} ELSE {})]
      [] transform.does = "output" -> Restricted(m, transform.allowed)
      [] transform.does = "vary" -> [m EXCEPT !.vary = @ \cup transform.names]
      [] transform.does = "language" ->
            [m EXCEPT !.language = transform.is, !.vary = @ \cup {"accept-language"}]
      [] transform.does = "compose" -> Composed(m, transform.variants)
Written(m) == FoldLeft(Transformed, m, outputs)

\* What throws here is answered with what does not.
Success ==
    /\ stage = "settled"
    /\ LET m == Written([message EXCEPT !.status = Status(message)])
       IN  CASE m.body.is = "thrown" -> Fail(500, Bare("absent")) /\ UNCHANGED parts
             [] m.body.is = "stream" ->
                  /\ stage' = "streaming" /\ message' = m /\ parts' = <<0>>
             [] ~ case.encoder /\ m.body.is \notin {"absent", "null", "bytes"} ->
                  Fail(406, Bare("absent")) /\ UNCHANGED parts
             [] OTHER ->
                  /\ stage' = "written" /\ UNCHANGED parts
                  /\ message' = IF m.body.is \in {"absent", "null", "bytes"} THEN m
                                ELSE [m EXCEPT !.vary = @ \cup {"accept"}]
    /\ UNCHANGED <<case, todo, parameters, inputs, outputs, input>>

Failure ==
    /\ stage = "failed" /\ stage' = "written"
    /\ LET m == Written([message EXCEPT !.body = IF case.encoder THEN @ ELSE Bare("absent")])
       IN  message' = IF m.body.is = "absent" THEN m ELSE [m EXCEPT !.vary = @ \cup {"accept"}]
    /\ UNCHANGED <<case, todo, parameters, inputs, outputs, input, parts>>

----------------------------------------------------------------------------
(* stream, multipart: the parts, numbered, between ACK, 0, and FIN *)

Part == /\ stage = "streaming" /\ Len(parts) <= case.reply.length
        /\ parts' = Append(parts, Len(parts))
        /\ UNCHANGED <<case, stage, todo, parameters, inputs, outputs, input, message>>
End == /\ stage = "streaming" /\ Len(parts) = case.reply.length + 1
       /\ parts' = Append(parts, Len(parts)) /\ stage' = "written"
       /\ UNCHANGED <<case, todo, parameters, inputs, outputs, input, message>>
(* The source fails: the response ends where it is. *)
Break == /\ stage = "streaming" /\ stage' = "written"
         /\ UNCHANGED <<case, todo, parameters, inputs, outputs, input, message, parts>>

Next == Intercept \/ Preflight \/ Interrupted \/ Call \/ Success \/ Failure
        \/ Part \/ End \/ Break
----------------------------------------------------------------------------
(* Properties.  The client's own values are "sent". *)

Of(family, name) == {d \in ToSet(case.declared) : d.family = family /\ d.name = name}
Kept == Left(SelectSeq(case.declared, LAMBDA d : d.family = "map"),
             Len(SelectSeq(case.declared, LAMBDA d : d.family = "map")))

\* What the client may not set it does not, in whatever order `io` and `map` are
\* declared, and what is mapped the operation gets (Map.ts, Input.ts).
InputSound ==
    input # None =>
        /\ \A d \in Of("io", "input"), p \in DOMAIN input.body.props :
             input.body.props[p] = "sent" => p \in d.value
        /\ \A d \in Of("map", "headers") : \A p \in DOMAIN d.value :
             Header(d.value[p]) # None => /\ p \in DOMAIN input.body.props
                                          /\ input.body.props[p] # "sent"
        /\ \A d \in Of("map", "claims") : \A p \in DOMAIN d.value :
             d.value[p] \in DOMAIN case.claims => input.body.props[p] # "sent"

\* A segment that is mapped to a property is no criterion and no other property;
\* one that is not is one of them (Segments.ts, Mapping.ts).
SegmentsSound ==
    input # None =>
        LET mapped == UNION {{d.value[p] : p \in DOMAIN d.value} : d \in Of("map", "segments")}
            bound == IF case.queryable THEN input.criteria ELSE input.body.props
        IN  \A parameter \in ToSet(case.parameters) :
                IF parameter.name \notin mapped THEN bound[parameter.name] = parameter.value
                ELSE /\ parameter.name \notin DOMAIN bound
                     /\ \E d \in Of("map", "segments") : \E p \in DOMAIN d.value :
                            /\ d.value[p] = parameter.name
                            /\ input.body.props[p] = parameter.value

\* What is answered is let out by each io:output, and nothing without one; what
\* is composed of a stream is not subject to it (Output.ts).
OutputSound ==
    stage = "written" /\ message.status < 300 /\ Of("flow", "compose") = {} =>
        /\ \A d \in Of("io", "output") : d.value = None \/ Keys(message.body) \subseteq d.value
        /\ Of("io", "output") = {} => message.body.is \in {"absent", "stream", "bytes"}

\* A cache is told of every header that has made a difference, on errors as well
\* (Headers.ts, Language.ts, CORS.ts).
VarySound ==
    stage \in {"written", "streaming"} /\ input # None =>
        /\ \A d \in Of("map", "headers") :
             {d.value[p] : p \in DOMAIN d.value} \ {"host"} \subseteq message.vary
        /\ Of("map", "language") # {} =>
             /\ "accept-language" \in message.vary
             /\ \E d \in Of("map", "language") : message.language = input.body.props[d.value]
        /\ case.origin # None => message.cors = case.origin

\* A reply is left out for the client that holds it only (Endpoint.ts), and what
\* is refused has not been carried out.
ConditionalSound ==
    stage = "written" =>
        /\ message.status = 304 => /\ message.body.is = "absent" /\ Header("if-none-match") # None
                                   /\ input # None => Header("if-none-match") = case.reply.props["_version"]
        /\ message.status = 406 /\ case.body.is # "absent" => input = None

MessagesSound == InputSound /\ SegmentsSound /\ OutputSound /\ VarySound /\ ConditionalSound
=============================================================================
