------------------------------- MODULE Settings -------------------------------
(***************************************************************************)
(* What components are set up with: configurations with defaults and       *)
(* secrets, origins and the URLs they may request, levels of logs; from    *)
(* the context's annotations through the variables and secrets of a        *)
(* deployment to the aspects of a component that boots, and the requests   *)
(* it makes (extensions configuration, origins, telemetry; pointer).       *)
(* How variables reach the containers is Deployment.                       *)
(***************************************************************************)
EXTENDS Naturals, SequencesExt, FiniteSetsExt

(* A component is [configuration, origins]: the first None or               *)
(* [types, defaults], of leaves, which are paths, to "string" or "number"   *)
(* and to values [is, of]; the second None, "null" or its origins' URLs, of *)
(* which each may be None.  An annotation is [configuration, origins,       *)
(* rules, level, levels] of components: values may be [is |-> "secret"],    *)
(* origins are sequences of URLs [protocol, of], rules are [urls, allow],   *)
(* urls None for any.                                                       *)
CONSTANTS Components, Annotations, Secrets, Values, Protocols,
          Requests, Retries, MaxBoots, None

VARIABLES annotation, deployed, concealed, booted, boots, request

vars == <<annotation, deployed, concealed, booted, boots, request>>

Ids == DOMAIN Components
Configured == {id \in Ids : Components[id].configuration # None}
Originated == {id \in Ids : Components[id].origins # None}

Init == /\ annotation \in Annotations /\ deployed = None
        /\ concealed = <<>> /\ booted = <<>> /\ boots = 0 /\ request = None

----------------------------------------------------------------------------
(* deployment *)

SecretsOf(values) == {values[p].of : p \in {q \in DOMAIN values : values[q].is = "secret"}}

(* normalize: the manifest's URLs stand for those that are not annotated. *)
Merged(id) ==
    LET own == IF id \in DOMAIN annotation.origins THEN annotation.origins[id] ELSE <<>>
        declared == IF Components[id].origins \in {None, [null |-> TRUE]} THEN <<>>
                    ELSE Components[id].origins
        kept == {o \in DOMAIN declared : o \notin DOMAIN own /\ declared[o] # None}
    IN  [o \in DOMAIN own \cup kept |-> IF o \in DOMAIN own THEN own[o] ELSE <<declared[o]>>]
Undefined(id) ==
    Components[id].origins # [null |-> TRUE]
        /\ ~(DOMAIN Components[id].origins \subseteq DOMAIN Merged(id))
ProtocolOf(url) ==
    LET all == {p \in DOMAIN Protocols : url.protocol \in Protocols[p]}
    IN  IF all = {} THEN None ELSE CHOOSE p \in all : TRUE
Inconsistent(urls) ==
    \/ \E i \in DOMAIN urls : ProtocolOf(urls[i]) = None
    \/ \E i, j \in DOMAIN urls : ProtocolOf(urls[i]) # ProtocolOf(urls[j])

Wrong == \/ ~(DOMAIN annotation.configuration \subseteq Configured)
         \/ \E id \in Originated : Undefined(id) \/ \E o \in DOMAIN Merged(id) : Inconsistent(Merged(id)[o])

(* A component's variables are its configuration, the secrets in it, its    *)
(* origins and the rules for URLs.  An origin that only the annotation has  *)
(* is no variable.                                                          *)
Variables(id) ==
    [configuration |-> IF id \in DOMAIN annotation.configuration THEN annotation.configuration[id] ELSE <<>>,
     secrets |-> IF id \in DOMAIN annotation.configuration THEN SecretsOf(annotation.configuration[id]) ELSE {},
     origins |-> IF id \notin Originated THEN <<>>
                 ELSE IF Components[id].origins = [null |-> TRUE] THEN <<>>
                 ELSE Restrict(Merged(id), DOMAIN Components[id].origins),
     rules |-> IF id \in DOMAIN annotation.rules THEN annotation.rules[id] ELSE <<>>]

(* A component's level of logs stands for the global one. *)
Level(id) == IF id \in DOMAIN annotation.levels THEN annotation.levels[id] ELSE annotation.level
Deploy ==
    /\ deployed = None
    /\ deployed' = IF Wrong THEN [is |-> "refused"]
                   ELSE [is |-> "deployed", variables |-> [id \in Ids |-> Variables(id)],
                         level |-> annotation.level, levels |-> [id \in DOMAIN annotation.levels |-> Level(id)]]
    /\ UNCHANGED <<annotation, concealed, booted, boots, request>>

(* toa conceal: a secret is there, or has another value, from then on. *)
Conceal(name) ==
    /\ \E value \in Values : concealed' = [s \in DOMAIN concealed \cup {name} |->
                                              IF s = name THEN value ELSE concealed[s]]
    /\ concealed' # concealed
    /\ UNCHANGED <<annotation, deployed, booted, boots, request>>

----------------------------------------------------------------------------
(* aspects *)

Above(p, q) == IsStrictPrefix(p, q)
Under(values, p) == \E q \in DOMAIN values : Above(p, q)

(* Secrets are substituted at every depth, and are then strings. *)
Substituted(values) == [p \in DOMAIN values |->
    IF values[p].is = "secret" THEN [is |-> "string", of |-> concealed[values[p].of]] ELSE values[p]]

(* Defaults are added where nothing is: an object cannot be added to what   *)
(* is none, what is none is not added to an object.                         *)
Added(values, defaults) ==
    LET free == {p \in DOMAIN defaults : p \notin DOMAIN values /\ ~Under(values, p)}
    IN  [p \in DOMAIN values \cup free |-> IF p \in DOMAIN values THEN values[p] ELSE defaults[p]]
Mismatch(values, defaults) ==
    \E p \in DOMAIN values : \E q \in DOMAIN defaults : Above(p, q)

(* The schema turns a string into the number it reads as; whatever it does  *)
(* not know, or cannot read, it refuses.                                    *)
Numeric(v) == v.is = "number" \/ (v.is = "string" /\ v.of \in Nat)
Unfit(values, types) ==
    \E p \in DOMAIN values : \/ p \notin DOMAIN types
                             \/ types[p] = "number" /\ ~Numeric(values[p])
Coerced(values, types) == [p \in DOMAIN values |-> [is |-> types[p], of |-> values[p].of]]

Env(id) == deployed.variables[id]
Missing(id) == ~(Env(id).secrets \subseteq DOMAIN concealed)
Configuration(id) ==
    LET m == Components[id].configuration
        values == Substituted(Env(id).configuration)
        all == Added(values, m.defaults)
    IN  IF Missing(id) \/ Mismatch(values, m.defaults) THEN None
        ELSE IF Unfit(all, m.types) THEN None
        ELSE [given |-> Coerced(all, m.types)]

(* Each origin is one of the aspect for the protocol of its first URL; a    *)
(* URL that no variable tells is the manifest's.                            *)
Urls(id) ==
    LET m == Components[id].origins IN
    IF m \in {None, [null |-> TRUE]} THEN <<>>
    ELSE [o \in DOMAIN m |-> IF o \in DOMAIN Env(id).origins THEN Env(id).origins[o] ELSE <<m[o]>>]
Aspect(id, protocol) ==
    Restrict(Urls(id), {o \in DOMAIN Urls(id) : Urls(id)[o][1].protocol \in Protocols[protocol]})

LogLevel(id) ==
    IF id \in DOMAIN deployed.levels /\ deployed.levels[id] # None THEN deployed.levels[id]
    ELSE IF deployed.level # None THEN deployed.level ELSE "info"

(* A component boots, or boots again, with what is there then. *)
Boot(id) ==
    /\ deployed # None /\ deployed.is = "deployed" /\ boots < MaxBoots
    /\ LET configuration == IF id \in Configured THEN Configuration(id) ELSE [given |-> <<>>] IN
       booted' = [x \in DOMAIN booted \cup {id} |->
                     IF x # id THEN booted[x]
                     ELSE IF configuration = None THEN [is |-> "failed"]
                     ELSE [is |-> "up", configuration |-> configuration.given, secrets |-> concealed,
                           origins |-> [p \in DOMAIN Protocols |-> Aspect(id, p)],
                           rules |-> Env(id).rules, level |-> LogLevel(id)]]
    /\ boots' = boots + 1 /\ request' = None
    /\ UNCHANGED <<annotation, deployed, concealed>>

----------------------------------------------------------------------------
(* requests *)

(* A URL is denied by any rule that denies it, and permitted by another. *)
Matches(rule, url) == IF rule.urls = None THEN TRUE ELSE url \in rule.urls
PermittedFirst(rules, url) ==   \* faulty: the first rule that matches decides
    LET i == SelectInSeq(rules, LAMBDA r : Matches(r, url)) IN i # 0 /\ rules[i].allow
Permitted(rules, url) ==
    /\ \A i \in DOMAIN rules : Matches(rules[i], url) => rules[i].allow
    /\ \E i \in DOMAIN rules : Matches(rules[i], url)

(* What is no origin of the aspect is taken for a URL, without retries; an  *)
(* origin is requested at its first URL only, and at no other absolute one. *)
Invoke(id, r) ==
    /\ id \in DOMAIN booted /\ booted[id].is = "up" /\ request = None
    /\ LET origins == booted[id].origins["http"]
           known == r.origin \in DOMAIN origins
           throws == IF known THEN r.absolute
                     ELSE r.url = None \/ ~Permitted(booted[id].rules, r.url)
       IN  request' = [by |-> id, of |-> r, attempts |-> 0,
                       stage |-> IF throws THEN "thrown" ELSE "calling",
                       url |-> IF known THEN origins[r.origin][1] ELSE r.url,
                       retries |-> IF known THEN r.retries ELSE FALSE, status |-> None]
    /\ UNCHANGED <<annotation, deployed, concealed, booted, boots>>

(* An answer other than a success is not returned where there are retries,  *)
(* until they are over; a connection that fails is not retried.             *)
Respond ==
    /\ request # None /\ request.stage = "calling"
    /\ \E status \in {"success", "failure", "unreachable"} :
        LET again == request.retries /\ status = "failure" IN
        request' = [request EXCEPT
            !.attempts = @ + 1, !.status = status,
            !.stage = IF status = "unreachable" \/ (again /\ request.attempts = Retries) THEN "thrown"
                      ELSE IF again THEN "calling" ELSE "returned"]
    /\ UNCHANGED <<annotation, deployed, concealed, booted, boots>>

Finish == request # None /\ request.stage \in {"thrown", "returned"} /\ request' = None
          /\ UNCHANGED <<annotation, deployed, concealed, booted, boots>>

Next == \/ Deploy \/ Respond \/ Finish
        \/ \E name \in Secrets : Conceal(name)
        \/ \E id \in Ids : Boot(id) \/ \E r \in Requests : Invoke(id, r)
Spec == Init /\ [][Next]_vars

----------------------------------------------------------------------------
(* Properties *)

Up(id) == id \in DOMAIN booted /\ booted[id].is = "up"
AnnotationOf(id) ==
    IF id \in DOMAIN annotation.configuration THEN annotation.configuration[id] ELSE <<>>

(* A component's configuration is the context's, where there is one, and    *)
(* its own defaults elsewhere, with the secrets' values as they were when   *)
(* it booted, each of its declared type; nothing of it is lost.             *)
Meant(id, p) ==
    IF p \notin DOMAIN AnnotationOf(id) THEN Components[id].configuration.defaults[p].of
    ELSE IF AnnotationOf(id)[p].is = "secret" THEN booted[id].secrets[AnnotationOf(id)[p].of]
    ELSE AnnotationOf(id)[p].of
ConfigurationGiven == \A id \in Configured : Up(id) =>
    LET c == booted[id].configuration IN
    /\ DOMAIN AnnotationOf(id) \subseteq DOMAIN c
    /\ \A p \in DOMAIN c : /\ c[p].is = Components[id].configuration.types[p]
                           /\ c[p].of = Meant(id, p)
    /\ \A p \in DOMAIN Components[id].configuration.defaults : p \in DOMAIN c \/ Under(c, p)

(* An origin is requested at the URLs that are annotated for it, or else at *)
(* the manifest's, by the one aspect for their protocol.                    *)
OriginsPlaced == \A id \in Originated : Up(id) /\ Components[id].origins # [null |-> TRUE] =>
    \A o \in DOMAIN Components[id].origins :
        LET aspects == {p \in DOMAIN Protocols : o \in DOMAIN booted[id].origins[p]} IN
        /\ Cardinality(aspects) = 1
        /\ \A p \in aspects :
              LET urls == booted[id].origins[p][o] IN
              /\ urls = Merged(id)[o]
              /\ \A i \in DOMAIN urls : urls[i].protocol \in Protocols[p]

(* Only an origin's URL is requested, or one that no rule denies and a rule *)
(* allows.                                                                  *)
OnlyPermitted == request # None /\ request.attempts > 0 =>
    LET b == booted[request.by] IN
    \/ request.of.origin \in DOMAIN b.origins["http"] /\ request.url = b.origins["http"][request.of.origin][1]
    \/ /\ \E i \in DOMAIN b.rules : Matches(b.rules[i], request.url)
       /\ \A i \in DOMAIN b.rules : Matches(b.rules[i], request.url) => b.rules[i].allow

(* With retries only a success is returned, and nothing is requested more   *)
(* often than that.                                                         *)
RetriesEnd == request # None =>
    /\ request.attempts <= Retries + 1
    /\ request.stage = "returned" /\ request.retries => request.status = "success"

(* A component logs at the level annotated for it, or else at the global.   *)
LevelsGiven == \A id \in Ids : Up(id) =>
    booted[id].level = IF id \in DOMAIN annotation.levels THEN annotation.levels[id]
                       ELSE IF annotation.level # None THEN annotation.level ELSE "info"

(* Components are set up as the context says (extensions).                  *)
SettingsSound == /\ ConfigurationGiven /\ OriginsPlaced /\ OnlyPermitted /\ RetriesEnd /\ LevelsGiven
=============================================================================
