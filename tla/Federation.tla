----------------------------- MODULE Federation -----------------------------
(***************************************************************************)
(* Tokens of trusted issuers (identity.federation): their claims are       *)
(* validated, their signature is checked against a secret of the           *)
(* configuration or against the keys the issuer publishes, which are read  *)
(* through a cache (lib/get.ts), and their subject is an identity, one     *)
(* that was incepted or is created implicitly.                             *)
(***************************************************************************)
EXTENDS Naturals, Sequences, Functions

CONSTANTS Nil,
          Trust,          \* issuer -> [aud : a set or None, secrets : alg -> sequence of secrets]
          Implicit,       \* of the configuration
          Rotation,       \* what the issuers publish: a sequence of sequences of keys
          TTL,            \* how long responses may be kept
          Presented,      \* tokens that are presented
          MaxInstant, MaxVisits    \* bounds

ASSUME FederationAssumption ==
    /\ TTL \in Nat \ {0} /\ MaxInstant \in Nat /\ MaxVisits \in Nat
    /\ Rotation # <<>> /\ Rotation \in Seq(Seq(UNION {Range(Rotation[i]) : i \in DOMAIN Rotation}))
    /\ \A i \in DOMAIN Trust : \A alg \in DOMAIN Trust[i].secrets :
          Trust[i].secrets[alg] # <<>> /\ Trust[i].secrets[alg] \in Seq(Range(Trust[i].secrets[alg]))
    /\ \A t \in Presented : t.signer # Nil    \* whoever signed them

VARIABLES instant,
          publication,    \* which of Rotation is published
          published,      \* ghost: key -> when it was last published
          kept,           \* the cache: [keys, until], or None
          visit,          \* the authentication under way, or None
          accepted,       \* ghost: of those that have ended: [token, at]
          subjects,       \* stored: <<iss, sub>> -> identity
          visits

federationVars ==
    <<instant, publication, published, kept, visit, accepted, subjects, visits>>

Keys == UNION {Range(Rotation[i]) : i \in DOMAIN Rotation}

FederationInit == /\ instant = 1 /\ publication = 1 /\ kept = Nil /\ visit = Nil
                  /\ published = [k \in Keys |-> IF k \in Range(Rotation[1]) THEN 1 ELSE 0]
                  /\ accepted = {} /\ subjects = << >> /\ visits = 0

\* Time passes; the issuer's keys of the moment stay published.
Elapse == /\ instant < MaxInstant /\ instant' = instant + 1
          /\ published' = [k \in Keys |-> IF k \in Range(Rotation[publication])
                                          THEN instant' ELSE published[k]]
          /\ UNCHANGED <<publication, kept, visit, accepted, subjects, visits>>

Rotate == /\ publication < Len(Rotation) /\ publication' = publication + 1
          /\ published' = [k \in Keys |-> IF k \in Range(Rotation[publication'])
                                          THEN instant ELSE published[k]]
          /\ UNCHANGED <<instant, kept, visit, accepted, subjects, visits>>

----------------------------------------------------------------------------
(* lib/jwt.ts *)

Symmetric(t) == t.alg = "HS256"
SecretsOf(t) == Trust[t.iss].secrets[t.alg]
Secret(t) ==    \* by kid, or the first
    IF t.kid = Nil THEN SecretsOf(t)[1].key
    ELSE (CHOOSE s \in Range(SecretsOf(t)) : s.kid = t.kid).key

ClaimsValid(t) ==
    /\ t.iss \in DOMAIN Trust
    /\ Trust[t.iss].aud # Nil => t.aud \cap Trust[t.iss].aud # {}
    /\ Symmetric(t) => /\ t.alg \in DOMAIN Trust[t.iss].secrets
                       /\ t.kid # Nil => \E s \in Range(SecretsOf(t)) : s.kid = t.kid
    /\ instant < t.exp /\ instant >= t.iat /\ t.exp >= t.iat
    /\ t.nbf # Nil => instant >= t.nbf

\* An unnamed key must be the only one; for a named one the first is taken.
SigningKey(t, keys) ==
    IF t.kid # Nil THEN Head(keys)
    ELSE IF \E i \in DOMAIN keys : keys[i].kid = Nil
    THEN CHOOSE k \in Range(keys) : k.kid = Nil
    ELSE Nil
Signed(t, keys) ==
    IF Symmetric(t) THEN t.signer = Secret(t)
    ELSE /\ keys # <<>>
         /\ t.kid # Nil \/ Len(keys) = 1
         /\ t.signer = SigningKey(t, keys)

Ended == visit' = Nil
Present(t, operation) ==
    /\ visit = Nil /\ visits < MaxVisits
    /\ visits' = visits + 1
    /\ IF ~ ClaimsValid(t) THEN UNCHANGED visit
       ELSE visit' = [token |-> t, for |-> operation,
                      at |-> IF Symmetric(t) THEN "check" ELSE "keys",
                      keys |-> << >>, read |-> instant]
    /\ UNCHANGED <<instant, publication, published, kept, accepted, subjects>>

----------------------------------------------------------------------------
(* lib/get.ts *)

FetchStale ==   \* faulty: what is kept is used whatever its age
    /\ visit # Nil /\ visit.at = "keys"
    /\ \/ LET keys == IF kept # Nil THEN kept.keys ELSE Rotation[publication]
          IN  /\ visit' = [visit EXCEPT !.at = "check", !.keys = keys, !.read = instant]
              /\ kept' = [keys |-> keys, until |-> instant + TTL]
       \/ kept = Nil /\ Ended /\ UNCHANGED kept
    /\ UNCHANGED <<instant, publication, published, accepted, subjects, visits>>
\* What is kept is used while its policy allows; a request may fail.
Fetch ==
    /\ visit # Nil /\ visit.at = "keys"
    /\ IF kept # Nil /\ instant < kept.until
       THEN /\ visit' = [visit EXCEPT !.at = "check", !.keys = kept.keys, !.read = instant]
            /\ UNCHANGED kept
       ELSE \/ /\ visit' = [visit EXCEPT !.at = "check", !.keys = Rotation[publication],
                                        !.read = instant]
               /\ kept' = [keys |-> Rotation[publication], until |-> instant + TTL]
            \/ Ended /\ UNCHANGED kept
    /\ UNCHANGED <<instant, publication, published, accepted, subjects, visits>>

----------------------------------------------------------------------------
(* authenticate.ts, incept.ts *)

Subject(t) == <<t.iss, t.sub>>
Accept(identity) ==
    accepted' = accepted \cup {[token |-> visit.token, at |-> visit.read, identity |-> identity]}

\* `ensure` finds the identity or makes one, at once; inception is refused if the
\* subject has an identity (unique: token).
Check ==
    /\ visit # Nil /\ visit.at = "check"
    /\ Ended
    /\ LET s == Subject(visit.token)
           new == <<"identity", visits>>
       IN  IF ~ Signed(visit.token, visit.keys) \/ (visit.for = "incept" /\ s \in DOMAIN subjects)
              \/ (visit.for = "authenticate" /\ s \notin DOMAIN subjects /\ ~ Implicit)
           THEN UNCHANGED <<accepted, subjects>>
           ELSE /\ subjects' = [u \in DOMAIN subjects \cup {s} |->
                                  IF u \in DOMAIN subjects THEN subjects[u] ELSE new]
                /\ Accept(subjects'[s])
    /\ UNCHANGED <<instant, publication, published, kept, visits>>

FederationNext == \/ Elapse \/ Rotate \/ Fetch \/ Check
                  \/ \E t \in Presented, o \in {"authenticate", "incept"} : Present(t, o)

FederationSpec == FederationInit /\ [][FederationNext]_federationVars

----------------------------------------------------------------------------
\* An accepted token was signed by its issuer, with a key that was published no
\* longer ago than responses may be kept.
SignedByIssuer ==
    \A a \in accepted :
        IF Symmetric(a.token)
        THEN a.token.signer \in {s.key : s \in Range(SecretsOf(a.token))}
        ELSE a.token.signer \in Keys /\ published[a.token.signer] + TTL > a.at

\* Tokens of one subject are of one identity, and those of others of another.
OneIdentity ==
    \A a, b \in accepted : Subject(a.token) = Subject(b.token) <=> a.identity = b.identity

FederationSound == SignedByIssuer /\ OneIdentity
=============================================================================
