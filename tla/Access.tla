-------------------------------- MODULE Access --------------------------------
(***************************************************************************)
(* The directives `auth` on one request: Authorization resolves its        *)
(* identity, asks the directives of the method one by one, and issues a    *)
(* token when the response settles.  What authentication answers, the      *)
(* request's header, route and body, and the method's directives are those *)
(* of a case, any of Cases.                                                *)
(***************************************************************************)
EXTENDS Naturals, SequencesExt

CONSTANTS Unset,       \* what is not there
          Cases        \* [header, found, stale, banned, permitted, roles, claims,
                       \*  parameter, authority, body, declared]

(* Directives that only decide: these guard properties of the input.  A     *)
(* rule is not one of rules, which would be the same as one of their parts. *)
Deciding == {"anonymous", "anyone", "id", "role", "claims"}
ASSUME AccessAssumption ==
    /\ Unset \notin {"me", "new", "basic", "token", "bearer"}
    /\ Unset \notin [id : {"me", "new"}, scheme : {"basic", "token", "bearer", Unset}, refresh : BOOLEAN]
    /\ \A c \in Cases :
        /\ c.stale \in BOOLEAN /\ Unset \notin ToSet(c.declared)
        /\ c.declared \in Seq(ToSet(c.declared))
        /\ \A p \in DOMAIN c.body.props : c.body.props[p] = "input"
        /\ \A d \in ToSet(c.declared) :
            /\ d.name = "rule" => /\ d.value \in Seq(ToSet(d.value))
                                  /\ \A e \in ToSet(d.value) : e.name \notin {"rule", "echo"}
            /\ d.name = "input" => \A i \in DOMAIN d.value : \A j \in DOMAIN d.value[i].directives :
                                      d.value[i].directives[j].name \in Deciding

VARIABLES case, authorizing,
          todo,        \* positions of the directives still to be asked
          part,        \* of the rule that is asked, or 1
          identity,    \* context.identity
          pipeline,    \* context.pipelines.body
          granted,     \* the directive that allowed the request, or Unset
          body,        \* as the operation gets it: absent, an object or a value
          response,    \* the response's body: the identity it names, or Unset
          issuedTo,    \* whom the response's token is issued to, or Unset
          served       \* the status

accessVars == <<case, authorizing, todo, part, identity, pipeline, granted, body, response, issuedTo, served>>

Identity(id, scheme, stale) == [id |-> id, scheme |-> scheme, refresh |-> stale]

AccessInit ==
    /\ case \in Cases /\ authorizing = "resolve" /\ todo = {} /\ part = 1
    /\ identity = Unset /\ pipeline = <<>> /\ granted = Unset /\ body = case.body
    /\ response = Unset /\ issuedTo = Unset /\ served = 0

Refused(s) == authorizing' = "failed" /\ served' = s

----------------------------------------------------------------------------
(* Authorization.resolve, .preflight *)

Providers == {"basic", "token", "bearer"}

\* Credentials that are refused leave the request anonymous.
Resolve ==
    /\ authorizing = "resolve"
    /\ IF \/ case.header \notin Providers \cup {Unset}
          \/ case.header \in {"basic", "bearer"} /\ case.found /\ case.banned
       THEN Refused(401) /\ UNCHANGED <<identity, todo>>
       ELSE /\ identity' = IF case.header # Unset /\ case.found
                           THEN Identity("me", case.header, case.stale) ELSE Unset
            /\ todo' = DOMAIN case.declared
            /\ authorizing' = "authorize" /\ UNCHANGED served
    /\ UNCHANGED <<case, part, pipeline, granted, body, response, issuedTo>>

(* Role: a role grants what it is a scope of; a placeholder needs a value. *)
Substitute(role) ==
    [i \in DOMAIN role |-> IF role[i] = "{parameter}" THEN case.parameter ELSE role[i]]
RoleMatches(required) ==
    \E r \in case.roles, e \in required : IsPrefix(r, Substitute(e))
Unsubstituted(required) ==
    case.parameter = Unset /\ \E e \in required : Contains(e, "{parameter}")

(* Federation: hosts are sequences of labels; a domain is what follows the *)
(* first of them.                                                          *)
Codomain(iss) ==
    IF Len(iss) = 1 THEN Last(case.authority) = iss[1]
    ELSE Len(case.authority) >= Len(iss) /\ IsSuffix(Tail(iss), case.authority)
MatchesClaim(expression, values) ==
    CASE expression = ":authority" -> case.authority \in values
      [] expression = ":domain" -> \E v \in values : Codomain(v)
      [] expression = "/:parameter" -> case.parameter # Unset /\ <<case.parameter>> \in values
      [] OTHER -> <<expression>> \in values
ClaimsMatch(options) == \A k \in DOMAIN options : MatchesClaim(options[k], case.claims[k])

\* What authorize() answers, given who the identity is; rules ask their parts.
Allows(d, who) ==
    CASE d.name = "anonymous" -> d.value /\ case.header = Unset
      [] d.name = "anyone" -> d.value /\ who # Unset
      [] d.name = "id" -> who # Unset /\ case.parameter = who.id
      [] d.name = "role" -> who # Unset /\ RoleMatches(d.value)
      [] d.name = "claims" -> who # Unset /\ who.scheme = "bearer" /\ ClaimsMatch(d.value)
      [] d.name = "incept" -> who = Unset
      [] d.name = "echo" -> who # Unset \/ case.header = Unset
      [] d.name = "delegate" -> who # Unset
      [] d.name \in {"scheme", "input"} -> FALSE

Throws(d, who) ==
    IF d.name = "scheme" /\ case.header # Unset /\ case.header # d.value THEN 403
    ELSE IF d.name = "role" /\ who # Unset /\ Unsubstituted(d.value) THEN 500
    ELSE 0

\* What a directive attaches to the body: an input check, or an identity.
Attached(d, who) ==
    CASE d.name = "input" -> <<[check |-> d.value, who |-> who]>>
      [] d.name = "delegate" /\ who # Unset -> <<[property |-> d.value, who |-> who]>>
      [] OTHER -> <<>>

\* directives.sort: those of priority 0 come first, the order being kept.
Priority(d) == IF d.name = "input" THEN 0 ELSE 1
Turn(i) ==
    /\ i \in todo
    /\ \A j \in todo \ {i} :
        LET p == Priority(case.declared[i])
            q == Priority(case.declared[j]) IN p < q \/ (p = q /\ i < j)

\* A rule allows when all its directives do, which it asks one by one.
PartsFirst(d) == IF d.name = "rule" THEN SubSeq(d.value, 1, 1) ELSE <<d>>   \* faulty
Parts(d) == IF d.name = "rule" THEN d.value ELSE <<d>>

Authorize(i) ==
    /\ authorizing = "authorize" /\ Turn(i) /\ part <= Len(Parts(case.declared[i]))
    /\ LET d == Parts(case.declared[i])[part] IN
       /\ pipeline' = pipeline \o Attached(d, identity)
       /\ IF Throws(d, identity) # 0 THEN Refused(Throws(d, identity)) /\ UNCHANGED <<todo, part>>
          ELSE /\ IF Allows(d, identity) THEN part' = part + 1 /\ UNCHANGED todo
                  ELSE part' = 1 /\ todo' = todo \ {i}
               /\ UNCHANGED <<authorizing, served>>
    /\ UNCHANGED <<case, identity, granted, body, response, issuedTo>>

\* The first that allows ends it, for those it permits.  Echo names who has no
\* name; echo and an inception of nothing reply themselves.
Grant(i) ==
    /\ authorizing = "authorize" /\ Turn(i) /\ part > Len(Parts(case.declared[i]))
    /\ LET d == case.declared[i] IN
       IF identity # Unset /\ ~ case.permitted
       THEN Refused(403) /\ UNCHANGED <<granted, identity>>
       ELSE /\ granted' = d
            /\ identity' = IF d.name = "echo" /\ identity = Unset
                           THEN Identity("new", Unset, FALSE) ELSE identity
            /\ authorizing' = IF d.name = "echo" \/ (d.name = "incept" /\ d.value = Unset)
                              THEN "reply" ELSE "body"
            /\ UNCHANGED served
    /\ UNCHANGED <<case, todo, part, pipeline, body, response, issuedTo>>

Refuse == /\ authorizing = "authorize" /\ todo = {}
          /\ Refused(IF identity = Unset THEN 401 ELSE 403)
          /\ UNCHANGED <<case, todo, part, identity, pipeline, granted, body, response, issuedTo>>

----------------------------------------------------------------------------
(* Context.body, the operation, Authorization.settle *)

\* Echo answers with the identity, an inception of nothing with a new one.
Reply == /\ authorizing = "reply"
         /\ response' = IF granted.name = "echo" THEN identity.id ELSE "new"
         /\ served' = IF granted.name = "echo" /\ identity.scheme = Unset THEN 201 ELSE 200
         /\ authorizing' = "settle"
         /\ UNCHANGED <<case, todo, part, identity, pipeline, granted, body, issuedTo>>

\* What the directives of the statements about properties of the body answer,
\* unless they allow; the first answer counts.  What is not an object has nothing
\* to check.
Verdict(d, who) == IF Throws(d, who) # 0 THEN Throws(d, who) ELSE IF Allows(d, who) THEN 0 ELSE 403
Failing(statements, who) ==
    UNION {{i} \X {j \in DOMAIN statements[i].directives : Verdict(statements[i].directives[j], who) # 0} :
              i \in {k \in DOMAIN statements : statements[k].props \cap DOMAIN body.props # {}}}
Inspect(statements, who) ==
    /\ IF Failing(statements, who) = {} THEN UNCHANGED <<authorizing, served>>
       ELSE \E f \in Failing(statements, who) :
            /\ \A g \in Failing(statements, who) : f[1] < g[1] \/ (f[1] = g[1] /\ f[2] <= g[2])
            /\ Refused(Verdict(statements[f[1]].directives[f[2]], who))
    /\ UNCHANGED body

\* The identity becomes a property of the body, which must be an object or absent.
Delegate(property, who) ==
    IF body.is = "value" THEN Refused(400) /\ UNCHANGED body
    ELSE /\ body' = [is |-> "object",
                     props |-> [p \in DOMAIN body.props \cup {property} |->
                                   IF p = property THEN who.id ELSE body.props[p]]]
         /\ UNCHANGED <<authorizing, served>>

\* The transforms of the body, in the order they were attached.
Transform ==
    /\ authorizing = "body" /\ pipeline # <<>>
    /\ LET t == Head(pipeline) IN
       IF "check" \in DOMAIN t THEN Inspect(t.check, t.who) ELSE Delegate(t.property, t.who)
    /\ pipeline' = Tail(pipeline)
    /\ UNCHANGED <<case, todo, part, identity, granted, response, issuedTo>>

\* The operation answers with an object that has an identifier, or without.
Invoke == /\ authorizing = "body" /\ pipeline = <<>>
          /\ response' \in {"new", Unset}
          /\ authorizing' = "settle" /\ served' = 200
          /\ UNCHANGED <<case, todo, part, identity, pipeline, granted, body, issuedTo>>

\* An inception names the property of the response; every one that is declared
\* settles, whichever directive allowed the request.
Incepts == response # Unset /\ \E i \in DOMAIN case.declared : case.declared[i].name = "incept"

Issue(who) ==
    issuedTo' = IF who = Unset \/ (who.scheme = "token" /\ ~ who.refresh) THEN Unset ELSE who.id

\* Credentials are associated with what was created, if there are any.
Settle ==
    /\ authorizing = "settle"
    /\ IF ~ Incepts
       THEN Issue(identity) /\ authorizing' = "done" /\ UNCHANGED <<identity, served>>
       ELSE IF case.header = Unset
       THEN /\ identity' = Identity(response, Unset, TRUE)
            /\ Issue(identity') /\ authorizing' = "done" /\ UNCHANGED served
       ELSE \/ /\ case.header # "token"
               /\ identity' = Identity(response, case.header, FALSE)
               /\ Issue(identity') /\ authorizing' = "done" /\ UNCHANGED served
            \/ /\ Refused(IF case.header = "token" THEN 400 ELSE 422)
               /\ UNCHANGED <<identity, issuedTo>>
    /\ UNCHANGED <<case, todo, part, pipeline, granted, body, response>>

AccessNext == \/ Resolve \/ Refuse \/ Reply \/ Transform \/ Invoke \/ Settle
              \/ \E i \in todo : Authorize(i) \/ Grant(i)
AccessSpec == AccessInit /\ [][AccessNext]_accessVars

----------------------------------------------------------------------------
(* Properties *)

Authenticated == case.header \in Providers /\ case.found
Who == IF Authenticated THEN Identity("me", case.header, case.stale) ELSE Unset
Rules == ToSet(case.declared)

\* Whether a request is served does not depend on the order of its directives:
\* it is when one of them grants access by what access.md says of it, and then
\* by any order of what may throw.
Grants(d) == IF d.name = "rule" THEN \A i \in DOMAIN d.value : Allows(d.value[i], Who)
             ELSE Allows(d, Who)
OrderFree ==
    /\ authorizing \in {"reply", "body", "settle", "done"} => \E d \in Rules : Grants(d)
    /\ authorizing = "failed" /\ served = 401 => ~ Authenticated \/ case.banned
    /\ authorizing = "failed" /\ served = 403 /\ Authenticated /\ granted = Unset =>
          \/ \A d \in Rules : ~ Grants(d)
          \/ ~ case.permitted
          \/ \E d \in Rules : \E e \in ToSet(Parts(d)) : e.name = "scheme" /\ e.value # case.header
    /\ authorizing = "failed" /\ ~ Authenticated /\ case.header = Unset /\ granted = Unset =>
          \A d \in Rules : ~ Grants(d)

\* A property that is restricted reaches the operation from those it is meant
\* for, whatever else the method's directives attach to the body.
Guarded(d) ==
    \A i \in DOMAIN d.value :
        \/ d.value[i].props \cap DOMAIN case.body.props = {}
        \/ \A j \in DOMAIN d.value[i].directives : Allows(d.value[i].directives[j], Who)
Replied == granted.name = "echo" \/ (granted.name = "incept" /\ granted.value = Unset)
InputGuarded ==
    authorizing = "settle" /\ ~ Replied => \A d \in Rules : d.name = "input" => Guarded(d)

\* The identity that is embedded is the authenticated one.
DelegatesSelf ==
    \A p \in DOMAIN body.props :
        body.props[p] # "input" => Authenticated /\ body.props[p] = "me"

\* A token is issued to who was authenticated, or has just been created; and to
\* everyone who came without a fresh one.
IssuedToSelf ==
    authorizing = "done" =>
        /\ issuedTo # Unset => issuedTo = IF Incepts THEN response
                                              ELSE IF Authenticated THEN "me" ELSE "new"
        /\ issuedTo = Unset =>
             \/ Authenticated /\ case.header = "token" /\ ~ case.stale
             \/ ~ Authenticated /\ ~ Incepts /\ granted.name # "echo"

\* Access is granted, bodies are checked and tokens are issued as declared.
AccessSound == OrderFree /\ InputGuarded /\ DelegatesSelf /\ IssuedToSelf
=============================================================================
