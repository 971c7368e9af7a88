------------------------------- MODULE Tokens -------------------------------
(***************************************************************************)
(* The tokens of one identity: issued when it logs in with its credentials *)
(* or by refreshing a token that is stale or whose key has been rotated,   *)
(* revoked when the credentials are modified or the identity is banned.    *)
(* A custom token has a secret key of its own, which can be deleted.       *)
(*                                                                         *)
(* Time is counted in units; the client makes one request at a time, to    *)
(* any instance of identity.tokens.  The keys of their configuration are   *)
(* changed in stages, each of which is rolled out before the next.         *)
(***************************************************************************)
EXTENDS Naturals, Sequences

CONSTANTS Absent, Replicas,
          Refresh, Lifetime,  \* configuration of identity.tokens
          CacheTTL,           \* for the keys of custom tokens
          Stages,             \* configurations: sequences of kids
          MaxTime, MaxChanges \* bounds: the latter of what is done to the identity

Exchanges == [scheme : {"Basic", "Token"}, refresh : BOOLEAN, roles : {0, 1, Absent},
              by : {"login", "issue"}, since : Nat, iat : Nat, blind : BOOLEAN, checked : BOOLEAN]
First(i) == Stages[i][1]
Has(i, kid) == \E n \in 1..Len(Stages[i]) : Stages[i][n] = kid

(* A stage uses a key for new tokens that the previous one knows, knows    *)
(* the one that this uses, and either adds keys or removes some.           *)
ASSUME TokensAssumption ==
    /\ Refresh \in Nat /\ Lifetime \in Nat /\ CacheTTL \in Nat /\ MaxTime \in Nat \ {0}
    /\ Absent \notin Nat /\ Absent \notin Exchanges
    /\ Len(Stages) \in Nat \ {0}
    /\ \A i \in 1..Len(Stages) : Len(Stages[i]) \in Nat \ {0} /\ ~Has(i, "custom")
    /\ \A i \in 1..(Len(Stages) - 1) :
          /\ Has(i + 1, First(i)) /\ Has(i, First(i + 1))
          /\ Len(Stages[i + 1]) < Len(Stages[i])
             \/ \A n \in 1..Len(Stages[i]) : Has(i + 1, Stages[i][n])

VARIABLES now, stage,  \* of each pod
          rolled,      \* when the last stage was complete
          revokedAt, banned, revoking,   \* the last two: of the ban, of its event
          roles, grantedAt,
          token, custom,        \* what the client holds
          deletedAt,   \* when the key of the custom token was deleted, or None
          cache,       \* pod -> when the custom key it has read expires, or 0
          exchange,    \* the request under way
          used,        \* when the token was last accepted
          outcome,     \* of an authentication with a token that has just been made
          changes      \* what has been done to the identity

tokenVars == <<now, stage, rolled, revokedAt, banned, revoking, roles, grantedAt,
               token, custom, deletedAt, cache, exchange, used, outcome, changes>>
config == <<stage, rolled>>
identity == <<revokedAt, banned, revoking, roles, grantedAt, deletedAt, changes>>
held == <<token, custom>>

(* kid, iat, exp are the token's; the rest is its history: how and when    *)
(* the chain of refreshed tokens began, and whether a refresh overlapped a           *)
(* revocation or did not look for one.                                     *)
Token(kid, roleset, by, since, blind) ==
    [kid |-> kid, iat |-> now, exp |-> now + Lifetime, roles |-> roleset,
     by |-> by, since |-> since, blind |-> blind]

TokensInit == /\ now = 1 /\ stage = [p \in Replicas |-> 1] /\ rolled = 1
              /\ revokedAt = 0 /\ banned = FALSE /\ revoking = FALSE
              /\ roles = 0 /\ grantedAt = 0
              /\ token = Absent /\ custom = Absent /\ deletedAt = Absent
              /\ cache = [p \in Replicas |-> 0]
              /\ exchange = Absent /\ used = 0 /\ outcome = Absent /\ changes = 0

KeysOf(p) == Stages[stage[p]]
Latest(p) == First(stage[p])
Listed(p, kid) == Has(stage[p], kid)

Tick == /\ now < MaxTime
        /\ now' = now + 1 /\ outcome' = Absent
        /\ UNCHANGED <<config, identity, held, cache, exchange, used>>

(* A pod is replaced by one of the next stage; a key is removed only when  *)
(* the previous stage has been in effect for the refresh period.           *)
Roll(p) ==
    /\ stage[p] < Len(Stages)
    /\ \A q \in Replicas : stage[q] >= stage[p]
    /\ Len(Stages[stage[p] + 1]) < Len(KeysOf(p)) => now >= rolled + Refresh
    /\ stage' = [stage EXCEPT ![p] = @ + 1] /\ rolled' = now
    /\ cache' = [cache EXCEPT ![p] = 0] /\ outcome' = Absent
    /\ UNCHANGED <<now, identity, held, exchange, used>>

----------------------------------------------------------------------------
(* Authorization.resolve *)

Accept(p, t, stale) ==
    exchange' = [scheme |-> IF t = Absent THEN "Basic" ELSE "Token",
                 refresh |-> stale \/ (t # Absent /\ t.kid \notin {"custom", Latest(p)}),
                 roles |-> IF t = Absent THEN Absent ELSE t.roles,
                 by |-> IF t = Absent THEN "login" ELSE t.by,
                 since |-> IF t = Absent THEN now ELSE t.since,
                 iat |-> IF t = Absent THEN now ELSE t.iat,
                 blind |-> t # Absent /\ t.blind, checked |-> t = Absent \/ stale]

(* With other schemes the ban is looked up. *)
Login(p) ==
    /\ exchange = Absent /\ ~banned
    /\ Accept(p, Absent, FALSE) /\ outcome' = Absent
    /\ UNCHANGED <<now, config, identity, held, cache, used>>

Stale(t) == t.iat + Refresh < now
Revoked(t) == t.iat < revokedAt

(* decrypt: the key of a custom token is read through the cache.           *)
Known(p, t) == IF t.kid = "custom" THEN cache[p] >= now \/ deletedAt = Absent
               ELSE Listed(p, t.kid)

VerdictUnchecked(p, t) ==   \* faulty: revocations are not looked up
    IF ~Known(p, t) THEN "key" ELSE IF t.exp <= now THEN "expired" ELSE "accepted"
(* Why authenticate refuses a token, or "accepted".                        *)
Verdict(p, t) ==
    IF ~Known(p, t) THEN "key"
    ELSE IF t.exp <= now THEN "expired"
    ELSE IF Stale(t) /\ Revoked(t) THEN "revoked"
    ELSE "accepted"

(* The token is presented; decrypt.ts and authenticate.ts.                 *)
Present(p, t) ==
    /\ exchange = Absent /\ t # Absent
    /\ LET verdict == Verdict(p, t)
       IN  /\ outcome' = [verdict |-> verdict, token |-> t, at |-> now, gap |-> now - used]
           /\ IF verdict = "accepted"
              THEN /\ Accept(p, t, Stale(t))
                   /\ used' = IF t = token THEN now ELSE used
              ELSE UNCHANGED <<exchange, used>>
    /\ cache' = IF t.kid = "custom" /\ cache[p] < now /\ deletedAt = Absent
                THEN [cache EXCEPT ![p] = now + CacheTTL] ELSE cache
    /\ UNCHANGED <<now, config, identity, held>>

(* Authorization.settle: the roles are those of the claims, if any; any    *)
(* pod encrypts.                                                           *)
Settle(p) ==
    /\ exchange # Absent
    /\ IF exchange.scheme = "Token" /\ ~exchange.refresh
       THEN UNCHANGED <<token, used>>
       ELSE /\ token' = Token(Latest(p),
                              IF exchange.roles = Absent THEN roles ELSE exchange.roles,
                              exchange.by, exchange.since,
                              exchange.blind \/ (~exchange.checked /\ exchange.iat < revokedAt))
            /\ used' = now
    /\ exchange' = Absent /\ outcome' = Absent
    /\ UNCHANGED <<now, config, identity, custom, cache>>

----------------------------------------------------------------------------

(* revoke.ts.  What is under way or of this very moment escapes it.        *)
Revocation ==
    /\ revokedAt' = now
    /\ exchange' = IF exchange = Absent THEN Absent ELSE [exchange EXCEPT !.blind = TRUE]
    /\ token' = IF token = Absent THEN Absent ELSE [token EXCEPT !.blind = @ \/ token.iat = now]
    /\ custom' = IF custom = Absent THEN Absent ELSE [custom EXCEPT !.blind = @ \/ custom.iat = now]

Change == /\ changes < MaxChanges
          /\ changes' = changes + 1 /\ outcome' = Absent
          /\ UNCHANGED <<now, config, cache, used>>

(* Basic credentials are modified. *)
Modify ==
    /\ Change /\ Revocation
    /\ UNCHANGED <<banned, revoking, roles, grantedAt, deletedAt>>

(* A ban; its event comes to identity.tokens later.                        *)
Ban == /\ Change /\ ~banned
       /\ banned' = TRUE /\ revoking' = TRUE
       /\ UNCHANGED <<held, exchange, revokedAt, roles, grantedAt, deletedAt>>

Revoke == /\ revoking /\ revoking' = FALSE
          /\ Revocation /\ outcome' = Absent
          /\ UNCHANGED <<now, config, cache, used, banned, roles, grantedAt, deletedAt, changes>>

Grant == /\ Change /\ roles = 0
         /\ roles' = 1 /\ grantedAt' = now
         /\ UNCHANGED <<held, exchange, revokedAt, banned, revoking, deletedAt>>

(* issue.ts *)
Issue == /\ Change /\ custom = Absent
         /\ custom' = Token("custom", roles, "issue", now, FALSE)
         /\ UNCHANGED <<token, exchange, revokedAt, banned, revoking, roles, grantedAt, deletedAt>>

DeleteKey == /\ Change /\ custom # Absent /\ deletedAt = Absent
             /\ deletedAt' = now
             /\ UNCHANGED <<held, exchange, revokedAt, banned, revoking, roles, grantedAt>>

TokensNext == \/ Tick \/ Modify \/ Ban \/ Revoke \/ Grant \/ Issue \/ DeleteKey
              \/ \E p \in Replicas : Roll(p) \/ Login(p) \/ Settle(p) \/ Present(p, token) \/ Present(p, custom)

TokensSpec == TokensInit /\ [][TokensNext]_tokenVars

----------------------------------------------------------------------------
(* Properties *)

TokensTyped ==
    /\ now \in 1..MaxTime /\ revokedAt \in 0..now /\ used \in 0..now
    /\ stage \in [Replicas -> 1..Len(Stages)]
    /\ token # Absent => token.since <= token.iat /\ token.iat <= now
    /\ exchange # Absent => exchange.since <= now

Accepted == outcome # Absent /\ outcome.verdict = "accepted"

(* components.md: a revocation takes effect once the refresh period of the *)
(* issued tokens has expired, and no refresh extends it, but for one that  *)
(* overlaps the revocation or is made because the key was rotated.         *)
ChainsEnd ==
    Accepted /\ ~outcome.token.blind /\ outcome.token.since < revokedAt
        => outcome.at <= revokedAt + Refresh

(* So does a ban when its event has come, whatever the client logs in with. *)
BansHold ==
    Accepted /\ outcome.token.by = "login" /\ ~outcome.token.blind /\ banned /\ ~revoking
        => outcome.at <= revokedAt + Refresh

(* A client that uses its token every Lifetime - Refresh keeps a valid one. *)
AliveWhileUsed ==
    outcome # Absent /\ outcome.verdict = "expired" /\ outcome.token.kid # "custom"
        => outcome.gap >= Lifetime - Refresh

(* A rotation of the keys refuses no token that is used every Refresh.     *)
RotationRefusesNone ==
    outcome # Absent /\ outcome.verdict = "key" /\ outcome.token.kid # "custom"
        => outcome.gap >= Refresh

(* A custom token is refused when its key has been deleted and what was    *)
(* read of it has expired.                                                 *)
CustomEnds ==
    Accepted /\ outcome.token.kid = "custom" /\ deletedAt # Absent
        => outcome.at <= deletedAt + CacheTTL

(* components.md: changing roles takes effect once the refresh period of   *)
(* the issued tokens has expired.                                          *)
RolesTakeEffect ==
    token # Absent /\ token.iat > grantedAt + Refresh => token.roles = roles

(* Revocations, bans and the deletion of keys put an end to tokens          *)
(* (decrypt.ts, Bearer.ts), nothing else does while they are used.          *)
TokensHold ==
    TokensTyped /\ ChainsEnd /\ BansHold /\ CustomEnds /\ AliveWhileUsed /\ RotationRefusesNone
============================================================================
