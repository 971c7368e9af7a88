--------------------------- MODULE ExpositionProofs ---------------------------
(***************************************************************************)
(* Proofs about Tokens, for any number of replicas, of changes, of stages  *)
(* and any length of their keys, of the periods and of time; about         *)
(* Exchange, for any requests, declarations and failures; about Gateway,   *)
(* for any compositions and any tree that keeps components apart; and      *)
(* about Media, for any annotation, methods and requests.                  *)
(***************************************************************************)
EXTENDS Gateway, Exchange, Tokens, Media, WellFoundedInduction, TLAPS

----------------------------------------------------------------------------
(* Tokens *)

Kids == UNION {{Stages[i][n] : n \in 1..Len(Stages[i])} : i \in 1..Len(Stages)}
TokensOf(kids) ==
    [kid : kids, iat : Nat, exp : Nat, roles : {0, 1}, by : {"login", "issue"},
     since : Nat, blind : BOOLEAN]

Typed ==
    /\ now \in 1..MaxTime
    /\ stage \in [Replicas -> 1..Len(Stages)] /\ rolled \in 0..now
    /\ revokedAt \in 0..now /\ banned \in BOOLEAN /\ revoking \in BOOLEAN
    /\ roles \in {0, 1} /\ used \in 0..now
    /\ token \in TokensOf(Kids) \cup {Absent}
    /\ custom \in TokensOf({"custom"}) \cup {Absent}
    /\ deletedAt \in 0..now \cup {Absent}
    /\ cache \in [Replicas -> Nat]
    /\ exchange \in Exchanges \cup {Absent}

\* A token tells its times; who can, shall see that it was revoked.
Sound(t) ==
    t # Absent =>
        /\ t.since <= t.iat /\ t.iat <= now /\ t.exp = t.iat + Lifetime
        /\ ~t.blind => /\ t.since < revokedAt => t.iat < revokedAt
                       /\ t.by = "login" /\ banned /\ ~revoking => t.since < revokedAt

\* So does the request under way, unless the revocation was not looked for.
Passing ==
    exchange # Absent =>
        /\ exchange.since <= now
        /\ ~exchange.blind =>
              /\ exchange.since < revokedAt => ~exchange.checked /\ exchange.iat < revokedAt
              /\ exchange.by = "login" /\ banned /\ ~revoking => exchange.since < revokedAt

\* What was read of a custom key expires.
Cached ==
    \A p \in Replicas :
        /\ cache[p] <= now + CacheTTL
        /\ deletedAt # Absent => cache[p] <= deletedAt + CacheTTL

\* The token the client holds stays, for all the request under way knows.
Staying ==
    token # Absent /\ (exchange = Absent \/ (exchange.scheme = "Token" /\ ~exchange.refresh))

\* Replicas are at most one stage apart.
Adjacent ==
    \A p, q \in Replicas : stage[q] <= stage[p] + 1

\* Such a token was fresh when it was used.
Young == Staying => used <= token.iat + Refresh

\* Wherever its key is not known any more, it has not been used of late.
Forgotten ==
    Staying => \A p \in Replicas : ~Has(stage[p], token.kid) => used + Refresh <= now

\* Between two stages, a key that is not the one in use was last presented
\* before the stage.
Replaced ==
    Staying => \A i \in 1..Len(Stages) :
                  (\A p \in Replicas : stage[p] = i) => token.kid = First(i) \/ used <= rolled

IInv == /\ Typed /\ Sound(token) /\ Sound(custom) /\ Passing /\ Cached
        /\ Adjacent /\ Young /\ Forgotten /\ Replaced
        /\ ChainsEnd /\ BansHold /\ CustomEnds /\ AliveWhileUsed /\ RotationRefusesNone
Silent == outcome = Absent
Outcomes == ChainsEnd /\ BansHold /\ CustomEnds /\ AliveWhileUsed /\ RotationRefusesNone

\* Nothing is said where no token has just been presented.
LEMMA QuietIsSound == ASSUME outcome = Absent PROVE Outcomes
BY DEF Outcomes, ChainsEnd, BansHold, CustomEnds, AliveWhileUsed, RotationRefusesNone, Accepted

\* Kids are those of stages, of which none is that of custom tokens.
LEMMA KidsAreListed ==
    /\ "custom" \notin Kids
    /\ \A i \in 1..Len(Stages) : First(i) \in Kids /\ Has(i, First(i))
<1>1. \A i \in 1..Len(Stages) : 1 \in 1..Len(Stages[i])
  BY TokensAssumption
<1>2. ASSUME "custom" \in Kids PROVE FALSE
  <2>1. PICK i \in 1..Len(Stages) : \E n \in 1..Len(Stages[i]) : Stages[i][n] = "custom"
    BY <1>2 DEF Kids
  <2> QED
    BY <2>1, TokensAssumption DEF Has
<1>3. ASSUME NEW i \in 1..Len(Stages) PROVE First(i) \in Kids /\ Has(i, First(i))
  BY <1>1 DEF First, Has, Kids
<1> QED
  BY <1>2, <1>3

\* Nothing has been presented, and every replica is at the first stage.
LEMMA InitInv == TokensInit => IInv
<1> SUFFICES ASSUME TokensInit PROVE IInv
  OBVIOUS
<1>1. Typed
  <2>1. 1 \in 1..Len(Stages) /\ 1 \in 1..MaxTime
    BY TokensAssumption
  <2>2. stage \in [Replicas -> 1..Len(Stages)] /\ cache \in [Replicas -> Nat]
    BY <2>1 DEF TokensInit
  <2>3. banned \in BOOLEAN /\ revoking \in BOOLEAN
    BY DEF TokensInit
  <2> QED
    BY <2>1, <2>2, <2>3 DEF TokensInit, Typed
<1>2. Sound(token) /\ Sound(custom) /\ Passing /\ Young /\ Forgotten /\ Replaced
  BY DEF TokensInit, Sound, Passing, Young, Forgotten, Replaced, Staying
<1>3. Cached /\ Adjacent
  BY TokensAssumption DEF TokensInit, Cached, Adjacent
<1>4. Outcomes
  BY QuietIsSound DEF TokensInit
<1> QED
  BY <1>1, <1>2, <1>3, <1>4 DEF IInv, Outcomes

\* As time passes tokens only get older.
LEMMA TickInv == ASSUME IInv, Tick PROVE IInv'
<1> USE DEF Tick, config, identity, held
<1>1. Typed'
  BY TokensAssumption DEF IInv, Typed
<1>2. Sound(token)' /\ Sound(custom)' /\ Passing'
  BY DEF IInv, Sound, Passing, Typed, TokensOf, Exchanges
<1>3. Cached' /\ Adjacent' /\ Young' /\ Forgotten' /\ Replaced'
  BY TokensAssumption, SMTT(30) DEF IInv, Cached, Adjacent, Young, Forgotten, Replaced, Staying, Typed, Has, First
<1>4. Outcomes'
  BY QuietIsSound DEF Outcomes, ChainsEnd, BansHold, CustomEnds, AliveWhileUsed, RotationRefusesNone, Accepted
<1> QED
  BY <1>1, <1>2, <1>3, <1>4 DEF IInv, Outcomes

\* Adjacent stages know each other's key in use, and do not both add and remove keys.
LEMMA StagesFollow ==
    ASSUME NEW i \in 1..(Len(Stages) - 1)
    PROVE  /\ i \in 1..Len(Stages) /\ i + 1 \in 1..Len(Stages)
           /\ Has(i + 1, First(i)) /\ Has(i, First(i + 1))
           /\ \/ Len(Stages[i + 1]) < Len(Stages[i])
              \/ \A kid : Has(i, kid) => Has(i + 1, kid)
<1>1. i \in 1..Len(Stages) /\ i + 1 \in 1..Len(Stages)
  BY TokensAssumption
<1>2. ASSUME NEW kid, Has(i, kid), ~ Len(Stages[i + 1]) < Len(Stages[i]) PROVE Has(i + 1, kid)
  <2>1. PICK n \in 1..Len(Stages[i]) : Stages[i][n] = kid
    BY <1>2 DEF Has
  <2> QED
    BY <1>2, <2>1, TokensAssumption
<1> QED
  BY <1>1, <1>2, TokensAssumption

\* A key that a replica uses is known to replicas that are at most a stage apart.
LEMMA InUseIsKnown ==
    ASSUME Typed, Adjacent, NEW p \in Replicas, NEW q \in Replicas
    PROVE  Has(stage[q], First(stage[p]))
<1>1. stage[p] \in 1..Len(Stages) /\ stage[q] \in 1..Len(Stages) /\ Len(Stages) \in Nat
  BY TokensAssumption DEF Typed
<1>2. stage[q] = stage[p] \/ stage[q] = stage[p] + 1 \/ stage[p] = stage[q] + 1
  BY <1>1 DEF Adjacent
<1>3. CASE stage[q] = stage[p]
  BY <1>1, <1>3, KidsAreListed
<1>4. CASE stage[q] = stage[p] + 1
  <2>1. stage[p] \in 1..(Len(Stages) - 1)
    BY <1>1, <1>4
  <2> QED
    BY <1>4, <2>1, StagesFollow
<1>5. CASE stage[p] = stage[q] + 1
  <2>1. stage[q] \in 1..(Len(Stages) - 1)
    BY <1>1, <1>5
  <2> QED
    BY <1>5, <2>1, StagesFollow
<1> QED
  BY <1>2, <1>3, <1>4, <1>5

\* A replica that drops keys does so when no token of theirs is in use.
LEMMA RollInv == ASSUME IInv, NEW p \in Replicas, Roll(p) PROVE IInv'
<1> USE DEF Roll, identity, held
<1>1. /\ stage[p] \in 1..(Len(Stages) - 1) /\ stage' = [stage EXCEPT ![p] = stage[p] + 1]
      /\ stage'[p] = stage[p] + 1 /\ \A q \in Replicas \ {p} : stage'[q] = stage[q]
  BY TokensAssumption DEF IInv, Typed
<1>2. Typed'
  BY <1>1, TokensAssumption DEF IInv, Typed
<1>3. Sound(token)' /\ Sound(custom)' /\ Passing'
  BY DEF IInv, Sound, Passing
<1>4. Adjacent'
  BY <1>1, SMTT(30) DEF IInv, Typed, Adjacent
<1>5. Cached' /\ Young'
  BY TokensAssumption DEF IInv, Typed, Cached, Young, Staying
<1>6. Forgotten'
  <2> SUFFICES ASSUME Staying, ~Has(stage'[p], token.kid) PROVE used + Refresh <= now
    BY <1>1 DEF IInv, Forgotten, Staying
  <2>1. CASE \E q \in Replicas : stage[q] # stage[p]
    <3>1. PICK q \in Replicas : stage[q] = stage[p] + 1
      BY <2>1 DEF IInv, Typed, Adjacent
    <3> QED
      BY <1>1, <3>1 DEF IInv, Forgotten
  <2>2. CASE \A q \in Replicas : stage[q] = stage[p]
    <3>1. ~Has(stage[p], token.kid) => used + Refresh <= now
      BY DEF IInv, Forgotten
    <3>2. ASSUME Has(stage[p], token.kid) PROVE used <= rolled /\ Len(Stages[stage[p] + 1]) < Len(Stages[stage[p]])
      <4>1. token.kid # First(stage[p]) /\ Len(Stages[stage[p] + 1]) < Len(Stages[stage[p]])
        BY <1>1, <3>2, StagesFollow
      <4>2. stage[p] \in 1..Len(Stages)
        BY <1>1, StagesFollow
      <4>3. used <= rolled
        BY <2>2, <4>1, <4>2 DEF IInv, Replaced
      <4> QED
        BY <4>1, <4>3
    <3>3. ASSUME Has(stage[p], token.kid) PROVE now >= rolled + Refresh
      BY <3>2, <3>3 DEF KeysOf
    <3> QED
      BY <3>1, <3>2, <3>3, TokensAssumption DEF IInv, Typed
  <2> QED
    BY <2>1, <2>2
<1>7. Replaced'
  BY DEF IInv, Replaced, Staying, Typed
<1>8. Outcomes'
  BY DEF Outcomes, ChainsEnd, BansHold, CustomEnds, AliveWhileUsed, RotationRefusesNone, Accepted
<1> QED
  BY <1>2, <1>3, <1>4, <1>5, <1>6, <1>7, <1>8 DEF IInv, Outcomes

\* Who logs in is authenticated now.
LEMMA LoginInv == ASSUME IInv, NEW p \in Replicas, Login(p) PROVE IInv'
<1> USE DEF Login, config, identity, held
<1>1. exchange' = [scheme |-> "Basic", refresh |-> FALSE, roles |-> Absent, by |-> "login",
                   since |-> now, iat |-> now, blind |-> FALSE, checked |-> TRUE]
  BY DEF Accept
<1>2. exchange' \in Exchanges
  <2>1. now \in Nat
    BY TokensAssumption DEF IInv, Typed
  <2> QED
    BY <1>1, <2>1 DEF Exchanges
<1>8. Typed'
  BY <1>2 DEF IInv, Typed
<1>3. Sound(token)' /\ Sound(custom)' /\ Cached' /\ Adjacent'
  BY DEF IInv, Sound, Cached, Adjacent
<1>4. Passing'
  BY <1>1, TokensAssumption DEF IInv, Passing, Typed
<1>5. ~Staying'
  <2>1. exchange' # Absent
    BY <1>2, TokensAssumption
  <2> QED
    BY <1>1, <2>1 DEF Staying
<1>6. Young' /\ Forgotten' /\ Replaced'
  BY <1>5 DEF Young, Forgotten, Replaced
<1>7. Outcomes'
  BY DEF Outcomes, ChainsEnd, BansHold, CustomEnds, AliveWhileUsed, RotationRefusesNone, Accepted
<1> QED
  BY <1>3, <1>4, <1>6, <1>7, <1>8 DEF IInv, Outcomes

\* What a token, if it is accepted, begins.
LEMMA AcceptedGoesOn ==
    ASSUME IInv, NEW p \in Replicas, NEW t, t # Absent,
           \/ t \in TokensOf(Kids) /\ Sound(t)
           \/ t \in TokensOf({"custom"}) /\ Sound(t),
           Verdict(p, t) = "accepted", Accept(p, t, Stale(t)), UNCHANGED <<now, identity>>
    PROVE  exchange' \in Exchanges /\ Passing'
<1>1. /\ t.roles \in {0, 1} /\ t.by \in {"login", "issue"} /\ t.since \in Nat
      /\ t.iat \in Nat /\ t.blind \in BOOLEAN /\ Stale(t) \in BOOLEAN
  BY DEF TokensOf, Stale
<1>2. /\ exchange' \in Exchanges
      /\ exchange'.by = t.by /\ exchange'.since = t.since /\ exchange'.iat = t.iat
      /\ exchange'.blind = t.blind /\ exchange'.checked = Stale(t)
  BY <1>1 DEF Accept, Exchanges
<1>3. exchange'.since <= now'
  BY <1>1, <1>2 DEF identity, Sound, IInv, Typed
<1>4. ASSUME ~exchange'.blind, exchange'.since < revokedAt'
      PROVE  ~exchange'.checked /\ exchange'.iat < revokedAt'
  <2>1. t.iat < revokedAt
    BY <1>2, <1>4 DEF Sound, identity
  <2>2. ~Stale(t)
    BY <2>1 DEF Verdict, Revoked
  <2> QED
    BY <1>2, <2>1, <2>2 DEF identity
<1>5. ASSUME ~exchange'.blind, exchange'.by = "login", banned', ~revoking'
      PROVE  exchange'.since < revokedAt'
  BY <1>2, <1>5 DEF Sound, identity
<1> QED
  BY <1>2, <1>3, <1>4, <1>5 DEF Passing

\* What is answered to who presents a token.
LEMMA AnswerIsSound ==
    ASSUME IInv, NEW p \in Replicas, NEW t, t # Absent, t = token \/ t = custom,
           Present(p, t)
    PROVE  Outcomes'
<1> DEFINE v == Verdict(p, t)
<1> USE DEF Present, identity, config, held
<1>1. /\ t \in TokensOf(Kids) \/ t \in TokensOf({"custom"})
      /\ t.iat \in Nat /\ t.since \in Nat /\ t.exp \in Nat /\ Sound(t)
  BY DEF IInv, Typed, TokensOf
<1>2. t.kid # "custom" => t = token
  BY DEF IInv, Typed, TokensOf
<1>3. /\ outcome' = [verdict |-> v, token |-> t, at |-> now, gap |-> now - used]
      /\ outcome'.verdict = v /\ outcome'.token = t /\ outcome'.at = now /\ outcome'.gap = now - used
  OBVIOUS
<1>4. now \in Nat /\ revokedAt \in Nat /\ used \in Nat
  BY TokensAssumption DEF IInv, Typed
<1>5. ASSUME v = "accepted", ~t.blind, t.since < revokedAt PROVE now <= revokedAt + Refresh
  <2>1. ~Stale(t)
    BY <1>1, <1>5 DEF Verdict, Revoked, Sound
  <2>2. t.iat < revokedAt
    BY <1>1, <1>5 DEF Sound
  <2> QED
    BY <1>1, <1>4, <2>1, <2>2, TokensAssumption DEF Stale
<1>6. ChainsEnd'
  BY <1>3, <1>5 DEF ChainsEnd, Accepted
<1>7. BansHold'
  BY <1>1, <1>3, <1>5 DEF BansHold, Accepted, Sound
<1>8. CustomEnds'
  <2> SUFFICES ASSUME v = "accepted", t.kid = "custom", deletedAt # Absent
               PROVE  now <= deletedAt + CacheTTL
    BY <1>3 DEF CustomEnds, Accepted
  <2>1. cache[p] >= now
    BY DEF Verdict, Known
  <2>2. cache[p] <= deletedAt + CacheTTL /\ cache[p] \in Nat /\ deletedAt \in Nat
    BY DEF IInv, Typed, Cached
  <2> QED
    BY <1>4, <2>1, <2>2, TokensAssumption
<1>9. AliveWhileUsed'
  <2> SUFFICES ASSUME v = "expired", t.kid # "custom"
               PROVE  now - used >= Lifetime - Refresh
    BY <1>3 DEF AliveWhileUsed
  <2>1. t.exp <= now
    BY DEF Verdict
  <2>2. used <= t.iat + Refresh
    BY <1>2 DEF IInv, Young, Staying
  <2>3. t.exp = t.iat + Lifetime
    BY <1>1 DEF Sound
  <2> QED
    BY <1>1, <1>4, <2>1, <2>2, <2>3, TokensAssumption
<1>10. RotationRefusesNone'
  <2> SUFFICES ASSUME v = "key", t.kid # "custom"
               PROVE  now - used >= Refresh
    BY <1>3 DEF RotationRefusesNone
  <2>1. ~Has(stage[p], t.kid)
    BY DEF Verdict, Known, Listed
  <2>2. used + Refresh <= now
    BY <1>2, <2>1 DEF IInv, Forgotten, Staying
  <2> QED
    BY <1>4, <2>2, TokensAssumption
<1> QED
  BY <1>6, <1>7, <1>8, <1>9, <1>10 DEF Outcomes

\* Presenting a token begins a request, or changes nothing but the outcome.
LEMMA PresentInv ==
    ASSUME IInv, NEW p \in Replicas, NEW t, t = token \/ t = custom, Present(p, t)
    PROVE  IInv'
<1> USE DEF Present, config, identity, held
<1>1. /\ t # Absent /\ exchange = Absent
      /\ (t \in TokensOf(Kids) /\ Sound(t)) \/ (t \in TokensOf({"custom"}) /\ Sound(t))
  BY DEF IInv, Typed
<1>2. exchange' \in Exchanges \cup {Absent} /\ Passing'
  <2>1. CASE Verdict(p, t) = "accepted"
    BY <1>1, <2>1, AcceptedGoesOn
  <2>2. CASE Verdict(p, t) # "accepted"
    BY <1>1, <2>2 DEF Passing
  <2> QED
    BY <2>1, <2>2
<1>3. used' \in 0..now /\ (used' = used \/ (used' = now /\ t = token /\ Verdict(p, t) = "accepted"))
  BY TokensAssumption DEF IInv, Typed
<1>4. cache' \in [Replicas -> Nat] /\ Cached'
  <2>1. CASE cache' = cache
    BY <2>1 DEF IInv, Typed, Cached
  <2>2. CASE cache' = [cache EXCEPT ![p] = now + CacheTTL] /\ deletedAt = Absent
    BY <2>2, TokensAssumption DEF IInv, Typed, Cached
  <2> QED
    BY <2>1, <2>2
<1>5. Typed'
  BY <1>2, <1>3, <1>4 DEF IInv, Typed
<1>6. Sound(token)' /\ Sound(custom)' /\ Adjacent'
  BY DEF IInv, Sound, Adjacent
<1>7. ASSUME Staying', used' # used
      PROVE  t = token /\ used' = now /\ ~Stale(token) /\ token.kid = Latest(p)
  <2>1. t = token /\ used' = now /\ Verdict(p, t) = "accepted"
    BY <1>3, <1>7
  <2>2. ~exchange'.refresh
    <3>1. exchange' # Absent
      BY <1>1, <2>1, AcceptedGoesOn, TokensAssumption
    <3> QED
      BY <1>7, <3>1 DEF Staying
  <2>3. Stale(t) \in BOOLEAN /\ exchange'.refresh = (Stale(t) \/ t.kid \notin {"custom", Latest(p)})
    BY <1>1, <2>1 DEF Accept, Stale
  <2>4. token.kid # "custom"
    BY <1>1, <2>1, KidsAreListed DEF IInv, Typed, TokensOf
  <2> QED
    BY <2>1, <2>2, <2>3, <2>4
<1>8. Staying' => Staying
  BY <1>1 DEF Staying
<1>9. Young'
  <2>1. CASE used' = used
    BY <1>8, <2>1 DEF IInv, Young
  <2>2. CASE used' # used
    <3> SUFFICES ASSUME Staying' PROVE now <= token.iat + Refresh
      BY <1>7, <2>2 DEF Young
    <3>1. ~Stale(token) /\ token.iat \in Nat /\ now \in Nat
      BY <1>1, <1>7, <2>2, TokensAssumption DEF IInv, Typed, TokensOf
    <3> QED
      BY <3>1, TokensAssumption DEF Stale
  <2> QED
    BY <2>1, <2>2
<1>10. Forgotten'
  <2>1. CASE used' = used
    BY <1>8, <2>1 DEF IInv, Forgotten
  <2>2. CASE used' # used
    BY <1>7, <2>2, InUseIsKnown DEF IInv, Forgotten, Latest
  <2> QED
    BY <2>1, <2>2
<1>11. Replaced'
  <2>1. CASE used' = used
    BY <1>8, <2>1 DEF IInv, Replaced
  <2>2. CASE used' # used
    BY <1>7, <2>2 DEF IInv, Replaced, Latest
  <2> QED
    BY <2>1, <2>2
<1>12. Outcomes'
  BY <1>1, AnswerIsSound
<1> QED
  BY <1>2, <1>4, <1>5, <1>6, <1>9, <1>10, <1>11, <1>12 DEF IInv, Outcomes

\* A new token is made with the replica's key in use, for as long as it lives.
LEMMA SettleInv == ASSUME IInv, NEW p \in Replicas, Settle(p) PROVE IInv'
<1> USE DEF Settle, config, identity
<1>1. Cached' /\ Adjacent' /\ Sound(custom)'
  BY DEF IInv, Cached, Adjacent, Sound
<1>2. Passing'
  BY DEF Passing
<1>3. Outcomes'
  BY DEF Outcomes, ChainsEnd, BansHold, CustomEnds, AliveWhileUsed, RotationRefusesNone, Accepted
<1>4. CASE exchange.scheme = "Token" /\ ~exchange.refresh
  <2>1. UNCHANGED <<token, used>> /\ (Staying' => Staying)
    BY <1>4 DEF Staying
  <2>2. Typed' /\ Sound(token)'
    BY <2>1 DEF IInv, Typed, Sound
  <2>3. Young' /\ Forgotten' /\ Replaced'
    BY <2>1 DEF IInv, Young, Forgotten, Replaced
  <2> QED
    BY <1>1, <1>2, <1>3, <2>2, <2>3 DEF IInv, Outcomes
<1>5. CASE ~(exchange.scheme = "Token" /\ ~exchange.refresh)
  <2>1. /\ exchange \in Exchanges /\ now \in Nat /\ stage[p] \in 1..Len(Stages) /\ roles \in {0, 1}
        /\ revokedAt \in 0..now
    BY TokensAssumption DEF IInv, Typed
  <2> DEFINE b == exchange.blind \/ (~exchange.checked /\ exchange.iat < revokedAt)
             rs == IF exchange.roles = Absent THEN roles ELSE exchange.roles
  <2>2. used' = now /\ token' = [kid |-> First(stage[p]), iat |-> now, exp |-> now + Lifetime, roles |-> rs,
                                 by |-> exchange.by, since |-> exchange.since, blind |-> b]
    BY <1>5 DEF Token, Latest
  <2>3. /\ exchange.by \in {"login", "issue"} /\ exchange.since \in Nat /\ b \in BOOLEAN /\ rs \in {0, 1}
        /\ First(stage[p]) \in Kids /\ now + Lifetime \in Nat
    BY <2>1, KidsAreListed, TokensAssumption DEF Exchanges
  <2>4. token' \in TokensOf(Kids)
    BY <2>1, <2>2, <2>3 DEF TokensOf
  <2>5. Typed'
    BY <2>1, <2>2, <2>4 DEF IInv, Typed
  <2>6. Sound(token)'
    <3>1. exchange.since <= now
      BY DEF IInv, Passing
    <3>2. ~b => exchange.since >= revokedAt /\ ~(exchange.by = "login" /\ banned /\ ~revoking)
      BY <2>1, <2>3 DEF IInv, Passing
    <3>3. /\ token'.iat = now /\ token'.exp = now + Lifetime /\ token'.since = exchange.since
          /\ token'.by = exchange.by /\ token'.blind = b
      BY <2>2
    <3> HIDE DEF b
    <3>4. ~token'.blind => /\ token'.since < revokedAt => FALSE
                           /\ ~(token'.by = "login" /\ banned /\ ~revoking)
      BY <2>1, <2>3, <3>2, <3>3
    <3> QED
      BY <2>1, <2>3, <3>1, <3>3, <3>4 DEF Sound
  <2>7. Young' /\ Forgotten' /\ Replaced'
    <3>1. Young'
      BY <2>1, <2>2, TokensAssumption DEF Young
    <3>2. Forgotten'
      BY <2>2, InUseIsKnown DEF IInv, Forgotten
    <3>3. Replaced'
      BY <2>2 DEF Replaced
    <3> QED
      BY <3>1, <3>2, <3>3
  <2> QED
    BY <1>1, <1>2, <1>3, <2>5, <2>6, <2>7 DEF IInv, Outcomes
<1> QED
  BY <1>4, <1>5

\* A revocation is seen by all that is not under way or of this moment.
LEMMA RevocationIsSeen ==
    ASSUME IInv, Revocation, UNCHANGED now
    PROVE  /\ Sound(token)' /\ Sound(custom)' /\ Passing' /\ revokedAt' \in 0..now
           /\ token' \in TokensOf(Kids) \cup {Absent} /\ exchange' \in Exchanges \cup {Absent}
           /\ custom' \in TokensOf({"custom"}) \cup {Absent}
           /\ Staying' => Staying /\ token'.kid = token.kid /\ token'.iat = token.iat
<1>1. now \in Nat /\ revokedAt' = now
  BY TokensAssumption DEF IInv, Typed, Revocation
<1>2. ASSUME NEW kids, NEW t \in TokensOf(kids), Sound(t), t # Absent,
             NEW u \in TokensOf(kids), u.kid = t.kid, u.iat = t.iat, u.since = t.since,
             u.exp = t.exp, ~u.blind => t.iat # now
      PROVE  /\ u.since <= u.iat /\ u.iat <= now /\ u.exp = u.iat + Lifetime
             /\ ~u.blind => u.since < now /\ u.iat < now
  <2>1. t.blind \in BOOLEAN /\ t.iat \in Nat /\ t.since \in Nat
    BY DEF TokensOf
  <2>2. t.since <= t.iat /\ t.iat <= now /\ t.exp = t.iat + Lifetime
    BY <1>2 DEF Sound
  <2> QED
    BY <1>1, <1>2, <2>1, <2>2
<1>3. /\ token' \in TokensOf(Kids) \cup {Absent} /\ Sound(token)'
      /\ token' # Absent => token # Absent /\ token'.kid = token.kid /\ token'.iat = token.iat
  <2>1. CASE token = Absent
    BY <2>1 DEF Revocation, Sound
  <2>2. CASE token # Absent
    <3>1. token \in TokensOf(Kids) /\ Sound(token) /\ token' = [token EXCEPT !.blind = @ \/ token.iat = now]
      BY <2>2 DEF IInv, Typed, Revocation
    <3>2. PICK b \in BOOLEAN : b = (token.blind \/ token.iat = now)
      OBVIOUS
    <3>3. token' = [token EXCEPT !.blind = b]
      BY <3>1, <3>2
    <3>4. /\ token' \in TokensOf(Kids) /\ token'.kid = token.kid /\ token'.iat = token.iat
          /\ token'.since = token.since /\ token'.exp = token.exp /\ token'.blind = b
      BY <3>1, <3>3 DEF TokensOf
    <3>6. ~token'.blind => token.iat # now
      BY <3>2, <3>4
    <3>5. /\ token'.since <= token'.iat /\ token'.iat <= now /\ token'.exp = token'.iat + Lifetime
          /\ ~token'.blind => token'.since < now /\ token'.iat < now
      BY <1>2, <2>2, <3>1, <3>4, <3>6
    <3> QED
      BY <1>1, <2>2, <3>4, <3>5 DEF Sound
  <2> QED
    BY <2>1, <2>2
<1>4. custom' \in TokensOf({"custom"}) \cup {Absent} /\ Sound(custom)'
  <2>1. CASE custom = Absent
    BY <2>1 DEF Revocation, Sound
  <2>2. CASE custom # Absent
    <3>1. /\ custom \in TokensOf({"custom"}) /\ Sound(custom)
          /\ custom' = [custom EXCEPT !.blind = @ \/ custom.iat = now]
      BY <2>2 DEF IInv, Typed, Revocation
    <3>2. PICK b \in BOOLEAN : b = (custom.blind \/ custom.iat = now)
      OBVIOUS
    <3>3. custom' = [custom EXCEPT !.blind = b]
      BY <3>1, <3>2
    <3>4. /\ custom' \in TokensOf({"custom"}) /\ custom'.kid = custom.kid /\ custom'.iat = custom.iat
          /\ custom'.since = custom.since /\ custom'.exp = custom.exp /\ custom'.blind = b
      BY <3>1, <3>3 DEF TokensOf
    <3>6. ~custom'.blind => custom.iat # now
      BY <3>2, <3>4
    <3>5. /\ custom'.since <= custom'.iat /\ custom'.iat <= now /\ custom'.exp = custom'.iat + Lifetime
          /\ ~custom'.blind => custom'.since < now /\ custom'.iat < now
      BY <1>2, <2>2, <3>1, <3>4, <3>6
    <3> QED
      BY <1>1, <2>2, <3>4, <3>5 DEF Sound
  <2> QED
    BY <2>1, <2>2
<1>5. exchange' \in Exchanges \cup {Absent} /\ Passing' /\ (Staying' => Staying)
  <2>1. CASE exchange = Absent
    BY <1>3, <2>1 DEF Revocation, Passing, Staying
  <2>2. CASE exchange # Absent
    <3>1. exchange \in Exchanges /\ exchange' = [exchange EXCEPT !.blind = TRUE]
      BY <2>2 DEF IInv, Typed, Revocation
    <3>2. /\ exchange' \in Exchanges /\ exchange'.blind /\ exchange'.since = exchange.since
          /\ exchange'.scheme = exchange.scheme /\ exchange'.refresh = exchange.refresh
      BY <3>1 DEF Exchanges
    <3> QED
      BY <1>3, <2>2, <3>2, TokensAssumption DEF IInv, Passing, Staying
  <2> QED
    BY <2>1, <2>2
<1> QED
  BY <1>1, <1>3, <1>4, <1>5 DEF Staying

\* New credentials revoke what was issued before.
LEMMA ModifyInv == ASSUME IInv, Modify PROVE IInv'
<1> USE DEF Modify, Change, config
<1>1. /\ Sound(token)' /\ Sound(custom)' /\ Passing' /\ revokedAt' \in 0..now
      /\ token' \in TokensOf(Kids) \cup {Absent} /\ exchange' \in Exchanges \cup {Absent}
      /\ custom' \in TokensOf({"custom"}) \cup {Absent}
      /\ Staying' => Staying /\ token'.kid = token.kid /\ token'.iat = token.iat
  BY RevocationIsSeen
<1>2. Typed'
  BY <1>1 DEF IInv, Typed
<1>3. Cached' /\ Adjacent' /\ Young' /\ Forgotten' /\ Replaced'
  BY <1>1 DEF IInv, Cached, Adjacent, Young, Forgotten, Replaced
<1>4. Outcomes'
  BY DEF Outcomes, ChainsEnd, BansHold, CustomEnds, AliveWhileUsed, RotationRefusesNone, Accepted
<1> QED
  BY <1>1, <1>2, <1>3, <1>4 DEF IInv, Outcomes

\* So does the ban of an identity, later.
LEMMA RevokeInv == ASSUME IInv, Revoke PROVE IInv'
<1> USE DEF Revoke, config
<1>1. /\ Sound(token)' /\ Sound(custom)' /\ Passing' /\ revokedAt' \in 0..now
      /\ token' \in TokensOf(Kids) \cup {Absent} /\ exchange' \in Exchanges \cup {Absent}
      /\ custom' \in TokensOf({"custom"}) \cup {Absent}
      /\ Staying' => Staying /\ token'.kid = token.kid /\ token'.iat = token.iat
  BY RevocationIsSeen
<1>2. Typed'
  BY <1>1 DEF IInv, Typed
<1>3. Cached' /\ Adjacent' /\ Young' /\ Forgotten' /\ Replaced'
  BY <1>1 DEF IInv, Cached, Adjacent, Young, Forgotten, Replaced
<1>4. Outcomes'
  BY DEF Outcomes, ChainsEnd, BansHold, CustomEnds, AliveWhileUsed, RotationRefusesNone, Accepted
<1> QED
  BY <1>1, <1>2, <1>3, <1>4 DEF IInv, Outcomes

\* A ban is at once one that is to revoke.
LEMMA BanInv == ASSUME IInv, Ban PROVE IInv'
<1> USE DEF Ban, Change, config, held
<1>1. Typed'
  BY DEF IInv, Typed
<1>2. Sound(token)' /\ Sound(custom)' /\ Passing'
  BY DEF IInv, Sound, Passing
<1>3. Cached' /\ Adjacent' /\ Young' /\ Forgotten' /\ Replaced'
  BY DEF IInv, Cached, Adjacent, Young, Forgotten, Replaced, Staying
<1>4. Outcomes'
  BY DEF Outcomes, ChainsEnd, BansHold, CustomEnds, AliveWhileUsed, RotationRefusesNone, Accepted
<1> QED
  BY <1>1, <1>2, <1>3, <1>4 DEF IInv, Outcomes

\* Roles are of no consequence to tokens that were issued.
LEMMA GrantInv == ASSUME IInv, Grant PROVE IInv'
<1> USE DEF Grant, Change, config, held
<1>1. Typed' /\ Sound(token)' /\ Sound(custom)' /\ Passing'
  BY DEF IInv, Typed, Sound, Passing
<1>2. Cached' /\ Adjacent' /\ Young' /\ Forgotten' /\ Replaced'
  BY DEF IInv, Cached, Adjacent, Young, Forgotten, Replaced, Staying
<1>3. Outcomes'
  BY DEF Outcomes, ChainsEnd, BansHold, CustomEnds, AliveWhileUsed, RotationRefusesNone, Accepted
<1> QED
  BY <1>1, <1>2, <1>3 DEF IInv, Outcomes

\* A custom token has the key that was created for it.
LEMMA IssueInv == ASSUME IInv, Issue PROVE IInv'
<1> USE DEF Issue, Change, config, Token
<1>1. now \in Nat /\ now + Lifetime \in Nat /\ roles \in {0, 1} /\ revokedAt \in 0..now
  BY TokensAssumption DEF IInv, Typed
<1>2. custom' = [kid |-> "custom", iat |-> now, exp |-> now + Lifetime, roles |-> roles,
                 by |-> "issue", since |-> now, blind |-> FALSE]
  BY DEF Token
<1>3. custom' \in TokensOf({"custom"}) /\ Sound(custom)'
  <2>1. custom' \in TokensOf({"custom"})
    BY <1>1, <1>2 DEF TokensOf
  <2>2. /\ custom'.iat = now /\ custom'.since = now /\ custom'.exp = now + Lifetime
        /\ custom'.by = "issue"
    BY <1>2
  <2> QED
    BY <1>1, <2>1, <2>2 DEF Sound
<1>4. Typed' /\ Sound(token)' /\ Passing'
  BY <1>3 DEF IInv, Typed, Sound, Passing
<1>5. Cached' /\ Adjacent' /\ Young' /\ Forgotten' /\ Replaced'
  BY DEF IInv, Cached, Adjacent, Young, Forgotten, Replaced, Staying
<1>6. Outcomes'
  BY DEF Outcomes, ChainsEnd, BansHold, CustomEnds, AliveWhileUsed, RotationRefusesNone, Accepted
<1> QED
  BY <1>3, <1>4, <1>5, <1>6 DEF IInv, Outcomes

\* A deleted key is known for as long as it was cached.
LEMMA DeleteKeyInv == ASSUME IInv, DeleteKey PROVE IInv'
<1> USE DEF DeleteKey, Change, config, held
<1>1. now \in Nat
  BY TokensAssumption DEF IInv, Typed
<1>2. Typed' /\ Sound(token)' /\ Sound(custom)' /\ Passing'
  BY <1>1 DEF IInv, Typed, Sound, Passing
<1>3. Cached' /\ Adjacent' /\ Young' /\ Forgotten' /\ Replaced'
  BY DEF IInv, Cached, Adjacent, Young, Forgotten, Replaced, Staying
<1>4. Outcomes'
  BY DEF Outcomes, ChainsEnd, BansHold, CustomEnds, AliveWhileUsed, RotationRefusesNone, Accepted
<1> QED
  BY <1>2, <1>3, <1>4 DEF IInv, Outcomes

\* Every step preserves the invariant.
LEMMA NextInv == IInv /\ [TokensNext]_tokenVars => IInv'
<1> SUFFICES ASSUME IInv, [TokensNext]_tokenVars PROVE IInv'
  OBVIOUS
<1>1. CASE TokensNext
  BY <1>1, TickInv, ModifyInv, BanInv, RevokeInv, GrantInv, IssueInv, DeleteKeyInv,
     RollInv, LoginInv, SettleInv, PresentInv DEF TokensNext
<1>2. CASE UNCHANGED tokenVars
  <2> USE <1>2 DEF tokenVars
  <2>1. Typed' /\ Sound(token)' /\ Sound(custom)' /\ Passing' /\ Cached' /\ Adjacent'
    BY DEF IInv, Typed, Sound, Passing, Cached, Adjacent
  <2>2. Young' /\ Forgotten' /\ Replaced'
    BY DEF IInv, Young, Forgotten, Replaced, Staying
  <2>3. Outcomes'
    BY DEF IInv, Outcomes, ChainsEnd, BansHold, CustomEnds, AliveWhileUsed, RotationRefusesNone, Accepted
  <2> QED
    BY <2>1, <2>2, <2>3 DEF IInv, Outcomes
<1> QED
  BY <1>1, <1>2

\* The inductive invariant holds.
THEOREM Invariance == TokensSpec => []IInv
<1> QED
  BY InitInv, NextInv, PTL DEF TokensSpec

\* Tokens end when they are revoked, banned or deleted, however they are
\* refreshed, and no sooner while they are used, however keys are rotated.
THEOREM Held == TokensSpec => []TokensHold
<1>1. IInv => TokensHold
  <2> SUFFICES ASSUME IInv PROVE TokensTyped
    BY DEF IInv, TokensHold
  <2>1. revokedAt \in 0..now /\ used \in 0..now /\ now \in 1..MaxTime /\ stage \in [Replicas -> 1..Len(Stages)]
    BY DEF IInv, Typed
  <2> QED
    BY <2>1 DEF IInv, Sound, Passing, TokensTyped
<1> QED
  BY <1>1, Invariance, PTL


----------------------------------------------------------------------------
(* Exchange *)

\* The sets that declarations make.
Gathered == {DirectiveSets(p[1])[p[2]] : p \in Declarations \X Nat}
Bodies == {None, "null", "object", "array", "scalar", "stream"}
Statuses == {0, 200, 201, 204, 304, 400, 401, 403, 404, 405, 406, 409, 412, 415, 422, 500, 501, 503}
Flags == {"public", "private", "no-cache", "no-store"}
Context == [stage : {"none", "routing", "preflight", "settle", "fail", "done"},
            todo : Seq(Gathered), sets : Seq(Gathered), encoder : BOOLEAN,
            identity : {None, "primary", "stale", "other"},
            authorized : BOOLEAN, interrupted : BOOLEAN, touched : BOOLEAN,
            body : Bodies, transforms : SUBSET {"cors", "output", "compose"},
            status : Statuses, control : SUBSET Flags, token : BOOLEAN]
ExchangeShaped ==
    /\ server \in {"down", "listening", "ready", "closing", "closed"}
    /\ memo \in {None} \cup SUBSET Flags
    /\ req \in [HttpRequests -> Context]

Free(sets) == \A i \in DOMAIN sets : sets[i].family # "auth"
InFamilies(sets) == \A i \in DOMAIN sets : sets[i].family \in Families
\* A request that is being asked about is authorized once `auth` is behind.
Asked(q) ==
    q.stage = "preflight" =>
        /\ InFamilies(q.todo) /\ q.status = 0
        /\ IF q.authorized THEN Free(q.todo) ELSE Guarded(q.todo) /\ ~q.interrupted
        /\ q.touched => q.interrupted
Entering(q) ==
    q.stage \in {"none", "routing"} => ~q.touched /\ ~q.interrupted /\ ~q.authorized /\ q.status = 0
Carried(q) ==
    /\ q.touched \/ q.interrupted \/ q.stage = "settle" => q.authorized
    /\ q.stage = "settle" => q.status \in {0, 304}
    /\ q.stage \in {"none", "routing", "preflight"} => ~q.token
    /\ q.stage \in {"settle", "done"} /\ q.token => "no-store" \in q.control
Refusals == {401, 403, 405, 415, 501}
Over(q) ==
    /\ q.stage \in {"fail", "done"} => q.status # 0
    /\ q.stage \in {"fail", "done"} /\ q.status \in Refusals => ~q.touched
ExchangeInv ==
    /\ ExchangeShaped /\ Drained
    /\ \A r \in HttpRequests : Asked(req[r]) /\ Entering(req[r]) /\ Carried(req[r]) /\ Over(req[r])

\* What is assumed of a declaration, of the sets of it.
LEMMA Gathering ==
    ASSUME NEW declared \in Declarations
    PROVE  /\ DirectiveSets(declared) \in Seq(Gathered)
           /\ InFamilies(DirectiveSets(declared)) /\ Guarded(DirectiveSets(declared))
<1> PICK sets : sets = DirectiveSets(declared)
  OBVIOUS
<1>1. /\ sets \in Seq({sets[i] : i \in DOMAIN sets})
      /\ \A i \in DOMAIN sets : sets[i].family \in Families
      /\ Guarded(sets)
  BY ExchangeAssumption
<1>2. ASSUME NEW i \in DOMAIN sets
      PROVE  sets[i] \in Gathered
  <2>1. i \in Nat
    BY <1>1
  <2>2. <<declared, i>> \in Declarations \X Nat
    BY <2>1
  <2> QED BY <2>2 DEF Gathered
<1>3. sets \in Seq(Gathered)
  <2>1. PICK n \in Nat : sets \in [1..n -> {sets[i] : i \in DOMAIN sets}]
    BY <1>1
  <2>2. sets \in [1..n -> Gathered]
    BY <2>1, <1>2
  <2> QED BY <2>2
<1> QED BY <1>1, <1>3 DEF InFamilies

\* The rest of the sets, once the first has been asked.
LEMMA AskedNext ==
    ASSUME NEW s \in Seq(Gathered), s # <<>>, InFamilies(s)
    PROVE  /\ Tail(s) \in Seq(Gathered) /\ InFamilies(Tail(s))
           /\ Head(s).family \in Families
           /\ Free(s) => Free(Tail(s)) /\ Head(s).family # "auth"
           /\ Guarded(s) /\ Head(s).family = "auth" => Free(Tail(s))
           /\ Guarded(s) /\ Head(s).family # "auth" => Guarded(Tail(s)) /\ Head(s).family \in {"io", "cache"}
<1>1. /\ Len(s) \in Nat \ {0} /\ DOMAIN s = 1..Len(s) /\ 1 \in DOMAIN s
      /\ DOMAIN Tail(s) = 1..(Len(s) - 1) /\ Head(s) = s[1]
      /\ \A i \in DOMAIN Tail(s) : i + 1 \in DOMAIN s /\ Tail(s)[i] = s[i + 1]
  OBVIOUS
<1>2. Tail(s) \in Seq(Gathered)
  OBVIOUS
<1>3. InFamilies(Tail(s)) /\ Head(s).family \in Families
  BY <1>1 DEF InFamilies
<1>4. Free(s) => Free(Tail(s)) /\ Head(s).family # "auth"
  BY <1>1 DEF Free
<1>5. ASSUME Guarded(s)
      PROVE  /\ Head(s).family = "auth" => Free(Tail(s))
             /\ Head(s).family # "auth" => Guarded(Tail(s)) /\ Head(s).family \in {"io", "cache"}
  <2>1. PICK n \in DOMAIN s : /\ \A i \in DOMAIN s : s[i].family = "auth" <=> i = n
                              /\ \A i \in 1..(n - 1) : s[i].family \in {"io", "cache"}
    BY <1>5 DEF Guarded
  <2>2. CASE n = 1
    BY <2>1, <2>2, <1>1 DEF Free
  <2>3. CASE n # 1
    <3>1. n - 1 \in DOMAIN Tail(s) /\ Head(s).family \in {"io", "cache"}
      BY <1>1, <2>1, <2>3
    <3>2. \A i \in DOMAIN Tail(s) : Tail(s)[i].family = "auth" <=> i = n - 1
      BY <1>1, <2>1, <2>3
    <3>3. \A i \in 1..((n - 1) - 1) : Tail(s)[i].family \in {"io", "cache"}
      BY <1>1, <2>1, <2>3
    <3>4. Guarded(Tail(s))
      BY <3>1, <3>2, <3>3 DEF Guarded
    <3> QED BY <3>1, <3>4
  <2> QED BY <2>2, <2>3
<1> QED BY <1>2, <1>3, <1>4, <1>5

\* No request has come.
LEMMA ExchangeStarts == ExchangeInit => ExchangeInv
<1> SUFFICES ASSUME ExchangeInit PROVE ExchangeInv
  OBVIOUS
<1>1. Idle \in Context
  BY DEF Idle, Context, Bodies, Statuses
<1>2. ExchangeShaped /\ Drained
  BY <1>1 DEF ExchangeInit, ExchangeShaped, Drained
<1>3. ASSUME NEW r \in HttpRequests
      PROVE  Asked(req[r]) /\ Entering(req[r]) /\ Carried(req[r]) /\ Over(req[r])
  <2>1. req[r] = Idle
    BY DEF ExchangeInit
  <2> QED
    BY <2>1 DEF Idle, Asked, Entering, Carried, Over
<1> QED
  BY <1>2, <1>3 DEF ExchangeInv

\* A step of one request keeps the invariant if that request's next state
\* does, and the server is not closed.
LEMMA OneRequest ==
    ASSUME ExchangeInv, NEW r \in HttpRequests, NEW q \in Context,
           Set(r, q), UNCHANGED server, memo' \in {None} \cup SUBSET Flags,
           Asked(q), Entering(q), Carried(q), Over(q),
           server = "closed" => q.stage \in {"none", "done"}
    PROVE  ExchangeInv'
<1>1. req' = [req EXCEPT ![r] = q]
  BY DEF Set
<1>2. req' \in [HttpRequests -> Context] /\ req'[r] = q
      /\ \A x \in HttpRequests : x # r => req'[x] = req[x]
  BY <1>1 DEF ExchangeInv, ExchangeShaped
<1>3. ExchangeShaped'
  BY <1>2 DEF ExchangeInv, ExchangeShaped
<1>4. Drained'
  BY <1>2 DEF ExchangeInv, Drained
<1>5. ASSUME NEW x \in HttpRequests
      PROVE  (Asked(req[x]) /\ Entering(req[x]) /\ Carried(req[x]) /\ Over(req[x]))'
  <2>1. CASE x = r
    BY <1>2, <2>1
  <2>2. CASE x # r
    <3>1. req'[x] = req[x] /\ Asked(req[x]) /\ Entering(req[x]) /\ Carried(req[x]) /\ Over(req[x])
      BY <1>2, <2>2 DEF ExchangeInv
    <3> QED
      BY <3>1
  <2> QED
    BY <2>1, <2>2
<1> QED
  BY <1>3, <1>4, <1>5 DEF ExchangeInv

\* What the invariant says of one request that is on its way.
LEMMA OnTheWay ==
    ASSUME ExchangeInv, NEW r \in HttpRequests
    PROVE  /\ req[r] \in Context /\ memo \in {None} \cup SUBSET Flags
           /\ Asked(req[r]) /\ Entering(req[r]) /\ Carried(req[r]) /\ Over(req[r])
           /\ server = "closed" => req[r].stage \in {"none", "done"}
  BY DEF ExchangeInv, ExchangeShaped, Drained

\* A request that fails is still one.
LEMMA InContext ==
    ASSUME NEW c \in Context, NEW status \in Statuses, NEW touched \in BOOLEAN
    PROVE  [c EXCEPT !.stage = "fail", !.status = status, !.touched = touched] \in Context
  BY DEF Context

\* A request that is done is still one.
LEMMA DoneContext ==
    ASSUME NEW c \in Context, NEW status \in Statuses
    PROVE  [c EXCEPT !.stage = "done", !.status = status] \in Context
  BY DEF Context

\* A failed request keeps the invariant if its refusal comes before any act.
LEMMA Failing ==
    ASSUME ExchangeInv, NEW r \in HttpRequests, NEW status \in Statuses \ {0},
           Fail(r, status), UNCHANGED <<server, memo>>,
           req[r].stage \in {"routing", "preflight", "settle"},
           status \in Refusals => ~req[r].touched
    PROVE  ExchangeInv'
<1> PICK q : q = [req[r] EXCEPT !.stage = "fail", !.status = status]
  OBVIOUS
<1>0. req[r] \in Context
  BY OnTheWay
<1>1. q \in Context
  BY <1>0 DEF Context
<1>2. /\ q.stage = "fail" /\ q.status = status /\ q.touched = req[r].touched
      /\ q.interrupted = req[r].interrupted /\ q.authorized = req[r].authorized
  BY OnTheWay DEF Context
<1>3. Asked(q) /\ Entering(q) /\ Carried(q) /\ Over(q)
  BY <1>2, OnTheWay DEF Asked, Entering, Carried, Over
<1>4. Set(r, q)
  BY DEF Fail
<1> QED
  BY <1>1, <1>3, <1>4, OneRequest, OnTheWay

\* A request that has been asked about by one more family.
LEMMA AskedOne ==
    ASSUME ExchangeInv, NEW r \in HttpRequests, UNCHANGED <<server, memo>>,
           req[r].stage = "preflight", req[r].todo # <<>>,
           NEW q \in Context, Pass(r, q),
           q.stage = "preflight", q.todo = req[r].todo, q.status = 0, q.token = req[r].token,
           q.authorized = (req[r].authorized \/ Head(req[r].todo).family = "auth"),
           q.touched => q.interrupted, q.interrupted => q.authorized
    PROVE  ExchangeInv'
<1>1. /\ Asked(req[r]) /\ Carried(req[r]) /\ req[r] \in Context
      /\ server = "closed" => req[r].stage \in {"none", "done"}
  BY OnTheWay
<1>2. req[r].todo \in Seq(Gathered) /\ InFamilies(req[r].todo)
  BY <1>1 DEF Context, Asked
<1>3. IF req[r].authorized THEN Free(req[r].todo) ELSE Guarded(req[r].todo)
  BY <1>1 DEF Asked
<1>4. /\ Tail(req[r].todo) \in Seq(Gathered) /\ InFamilies(Tail(req[r].todo))
      /\ IF q.authorized THEN Free(Tail(req[r].todo)) ELSE Guarded(Tail(req[r].todo))
  <2>1. CASE req[r].authorized
    BY <1>2, <1>3, <2>1, AskedNext
  <2>2. CASE ~req[r].authorized
    BY <1>2, <1>3, <2>2, AskedNext
  <2> QED
    BY <2>1, <2>2
<1> PICK p : p = [q EXCEPT !.todo = Tail(req[r].todo)]
  OBVIOUS
<1>5. p \in Context
  BY <1>4 DEF Context
<1>6. /\ p.stage = "preflight" /\ p.todo = Tail(req[r].todo) /\ p.status = 0
      /\ p.authorized = q.authorized /\ p.touched = q.touched /\ p.interrupted = q.interrupted
      /\ p.token = q.token
  BY DEF Context
<1>7. Asked(p)
  BY <1>4, <1>6 DEF Asked
<1>8. Entering(p) /\ Carried(p) /\ Over(p)
  BY <1>1, <1>6 DEF Entering, Carried, Over
<1>9. Set(r, p)
  BY DEF Pass
<1> QED
  BY <1>1, <1>5, <1>7, <1>8, <1>9, OneRequest, OnTheWay

\* Directives.preflight, family by family.
LEMMA PreflightInv ==
    ASSUME ExchangeInv, NEW r \in HttpRequests, Preflight(r)
    PROVE  ExchangeInv'
<1> PICK set : set = Head(req[r].todo)
  OBVIOUS
<1>1. /\ req[r].stage = "preflight" /\ req[r].todo # <<>> /\ UNCHANGED <<server, memo>>
  BY DEF Preflight
<1>2. req[r] \in Context /\ Asked(req[r]) /\ Carried(req[r])
  BY OnTheWay
<1>3. /\ req[r].todo \in Seq(Gathered) /\ InFamilies(req[r].todo) /\ req[r].status = 0
      /\ IF req[r].authorized THEN Free(req[r].todo) ELSE Guarded(req[r].todo) /\ ~req[r].interrupted
      /\ req[r].touched => req[r].interrupted
      /\ req[r].interrupted => req[r].authorized
      /\ req[r].authorized \in BOOLEAN /\ req[r].interrupted \in BOOLEAN
  BY <1>1, <1>2 DEF Asked, Context, Carried
<1>4. /\ set.family \in Families
      /\ req[r].authorized => set.family # "auth"
      /\ ~req[r].authorized => set.family \in {"auth", "io", "cache"}
  BY <1>1, <1>3, AskedNext
<1>5. CASE set.family = "auth"
  <2>1. ~req[r].authorized /\ ~req[r].interrupted /\ ~req[r].touched
    BY <1>3, <1>4, <1>5
  <2>2. Authorize(r, set.directives)
    BY <1>5 DEF Preflight
  <2>3. PICK who \in {None, "primary", "stale", "other"} :
          \/ Fail(r, IF who = None THEN 401 ELSE 403)
          \/ /\ set.directives # <<>>
             /\ Pass(r, [req[r] EXCEPT !.authorized = TRUE, !.identity = who])
          \/ /\ set.directives # <<>> /\ ~req[r].interrupted
             /\ Pass(r, [[req[r] EXCEPT !.authorized = TRUE, !.identity = who]
                           EXCEPT !.interrupted = TRUE, !.body = "object"])
    BY <2>2, Zenon DEF Authorize
  <2>4. CASE Fail(r, IF who = None THEN 401 ELSE 403)
    <3>1. PICK status : status = IF who = None THEN 401 ELSE 403
      OBVIOUS
    <3>2. status \in Statuses \ {0} /\ Fail(r, status)
      BY <2>4, <3>1 DEF Statuses
    <3> QED
      BY <1>1, <2>1, <3>2, Failing
  <2>5. CASE Pass(r, [req[r] EXCEPT !.authorized = TRUE, !.identity = who])
    <3> PICK q : q = [req[r] EXCEPT !.authorized = TRUE, !.identity = who]
      OBVIOUS
    <3>1. q \in Context
      BY <1>2 DEF Context
    <3>2. /\ q.stage = "preflight" /\ q.todo = req[r].todo /\ q.status = 0 /\ q.token = req[r].token
          /\ q.authorized = TRUE /\ q.touched = req[r].touched /\ q.interrupted = req[r].interrupted
      BY <1>1, <1>2, <1>3 DEF Context
    <3>3. /\ q.authorized = (req[r].authorized \/ Head(req[r].todo).family = "auth")
          /\ q.touched => q.interrupted
          /\ q.interrupted => q.authorized
      BY <1>5, <2>1, <3>2
    <3> QED
      BY <1>1, <2>5, <3>1, <3>2, <3>3, AskedOne
  <2>6. CASE Pass(r, [[req[r] EXCEPT !.authorized = TRUE, !.identity = who]
                        EXCEPT !.interrupted = TRUE, !.body = "object"])
    <3> PICK q : q = [[req[r] EXCEPT !.authorized = TRUE, !.identity = who]
                        EXCEPT !.interrupted = TRUE, !.body = "object"]
      OBVIOUS
    <3>1. q \in Context
      BY <1>2 DEF Context, Bodies
    <3>2. /\ q.stage = "preflight" /\ q.todo = req[r].todo /\ q.status = 0 /\ q.token = req[r].token
          /\ q.authorized = TRUE /\ q.touched = req[r].touched /\ q.interrupted = TRUE
      BY <1>1, <1>2, <1>3 DEF Context
    <3>3. /\ q.authorized = (req[r].authorized \/ Head(req[r].todo).family = "auth")
          /\ q.touched => q.interrupted
          /\ q.interrupted => q.authorized
      BY <1>5, <2>1, <3>2
    <3> QED
      BY <1>1, <2>6, <3>1, <3>2, <3>3, AskedOne
  <2> QED
    BY <2>3, <2>4, <2>5, <2>6
<1>6. CASE set.family # "auth"
  <2>1. req[r].authorized = (req[r].authorized \/ Head(req[r].todo).family = "auth")
    BY <1>3, <1>6
  <2>2. ASSUME Pass(r, req[r])
        PROVE  ExchangeInv'
    BY <1>1, <1>2, <1>3, <2>1, <2>2, AskedOne
  <2>3. ASSUME NEW transform \in {"output", "compose"}, Pass(r, Transformed(r, transform))
        PROVE  ExchangeInv'
    <3> PICK q : q = [req[r] EXCEPT !.transforms = @ \cup {transform}]
      OBVIOUS
    <3>1. q \in Context
      BY <1>2 DEF Context
    <3>2. /\ q.stage = "preflight" /\ q.todo = req[r].todo /\ q.status = 0 /\ q.token = req[r].token
          /\ q.authorized = req[r].authorized /\ q.touched = req[r].touched
          /\ q.interrupted = req[r].interrupted
      BY <1>1, <1>2, <1>3 DEF Context
    <3>3. Pass(r, q)
      BY <2>3 DEF Transformed
    <3>4. /\ q.authorized = (req[r].authorized \/ Head(req[r].todo).family = "auth")
          /\ q.touched => q.interrupted
          /\ q.interrupted => q.authorized
      BY <1>3, <2>1, <3>2
    <3> QED
      BY <1>1, <3>1, <3>2, <3>3, <3>4, AskedOne
  <2>4. ASSUME NEW status \in {400, 404, 500}, Fail(r, status)
        PROVE  ExchangeInv'
    <3>1. status \in Statuses \ {0} /\ status \notin Refusals
      BY <2>4 DEF Statuses, Refusals
    <3> QED
      BY <1>1, <2>4, <3>1, Failing
  <2>5. ASSUME req[r].authorized, NEW body \in Bodies, Output(r, body)
        PROVE  ExchangeInv'
    <3>1. CASE req[r].interrupted
      BY <2>4, <2>5, <3>1 DEF Output
    <3>2. CASE ~req[r].interrupted
      <4> PICK q : q = [req[r] EXCEPT !.interrupted = TRUE, !.body = body]
        OBVIOUS
      <4>1. q \in Context
        BY <1>2 DEF Context
      <4>2. /\ q.stage = "preflight" /\ q.todo = req[r].todo /\ q.status = 0 /\ q.token = req[r].token
            /\ q.authorized = req[r].authorized /\ q.touched = req[r].touched /\ q.interrupted = TRUE
        BY <1>1, <1>2, <1>3 DEF Context
      <4>3. Pass(r, q)
        BY <2>5, <3>2 DEF Output
      <4> QED
        BY <1>1, <1>3, <2>1, <2>5, <4>1, <4>2, <4>3, AskedOne
    <3> QED
      BY <3>1, <3>2
  <2>6. ASSUME req[r].authorized, NEW body \in Bodies, Act(r, body)
        PROVE  ExchangeInv'
    <3>1. CASE req[r].interrupted
      <4> PICK q : q = [req[r] EXCEPT !.stage = "fail", !.status = 500, !.touched = TRUE]
        OBVIOUS
      <4>0. 500 \in Statuses
        BY DEF Statuses
      <4>1. q \in Context
        BY <1>2, <4>0, InContext, ZenonT(60)
      <4>2. /\ q.stage = "fail" /\ q.status = 500 /\ q.authorized = req[r].authorized
        BY <1>2 DEF Context
      <4>3. Asked(q) /\ Entering(q) /\ Carried(q) /\ Over(q)
        BY <2>6, <4>2 DEF Asked, Entering, Carried, Over, Refusals
      <4>4. Set(r, q)
        BY <2>6, <3>1 DEF Act
      <4> QED
        BY <1>1, <4>1, <4>3, <4>4, OneRequest, OnTheWay
    <3>2. CASE ~req[r].interrupted
      <4> PICK q : q = [req[r] EXCEPT !.interrupted = TRUE, !.body = body, !.touched = TRUE]
        OBVIOUS
      <4>1. q \in Context
        BY <1>2 DEF Context
      <4>2. /\ q.stage = "preflight" /\ q.todo = req[r].todo /\ q.status = 0 /\ q.token = req[r].token
            /\ q.authorized = req[r].authorized /\ q.touched = TRUE /\ q.interrupted = TRUE
        BY <1>1, <1>2, <1>3 DEF Context
      <4>3. Pass(r, q)
        BY <2>6, <3>2 DEF Act
      <4> QED
        BY <1>1, <1>3, <2>1, <2>6, <4>1, <4>2, <4>3, AskedOne
    <3> QED
      BY <3>1, <3>2
  <2>7. CASE set.family \in {"io", "cache", "require"}
    BY <2>2, <2>3, <2>4, <2>7, ZenonT(60) DEF Preflight
  <2>8. CASE set.family = "flow"
    <3>1. req[r].authorized /\ "stream" \in Bodies /\ "null" \in Bodies
      BY <1>3, <1>4, <2>8 DEF Bodies
    <3> QED
      BY <2>3, <2>4, <2>5, <2>8, <3>1, ZenonT(60) DEF Preflight
  <2>9. CASE set.family = "octets"
    <3>1. req[r].authorized /\ "stream" \in Bodies /\ "object" \in Bodies
      BY <1>3, <1>4, <2>9 DEF Bodies
    <3>2. \/ Pass(r, req[r]) \/ Act(r, "object") \/ Output(r, "stream")
          \/ \E status \in {404, 500} : Fail(r, status)
      BY <2>9, Zenon DEF Preflight
    <3> QED
      BY <2>2, <2>4, <2>5, <2>6, <3>1, <3>2
  <2> QED
    BY <1>4, <1>6, <2>7, <2>8, <2>9 DEF Families
<1> QED
  BY <1>5, <1>6

\* The server opens, is ready, closes and is closed when nothing is left.
LEMMA ServerInv ==
    ExchangeInv /\ (OpenServer \/ ServerReady \/ CloseServer \/ ServerClosed) => ExchangeInv'
<1> SUFFICES ASSUME ExchangeInv, OpenServer \/ ServerReady \/ CloseServer \/ ServerClosed
             PROVE  ExchangeInv'
  OBVIOUS
<1>1. /\ memo' = memo /\ req' = req
      /\ server' \in {"down", "listening", "ready", "closing", "closed"}
      /\ server' = "closed" => \A r \in HttpRequests : req[r].stage \in {"none", "done"}
  BY DEF OpenServer, ServerReady, CloseServer, ServerClosed
<1>2. ExchangeShaped' /\ Drained'
  BY <1>1 DEF ExchangeInv, ExchangeShaped, Drained
<1> QED
  BY <1>1, <1>2 DEF ExchangeInv

\* Server.listener.
LEMMA ReceiveInv ==
    ASSUME ExchangeInv, NEW r \in HttpRequests, Receive(r)
    PROVE  ExchangeInv'
<1>1. /\ server \in {"listening", "ready"} /\ req[r].stage = "none" /\ UNCHANGED <<server, memo>>
      /\ req[r] \in Context /\ Entering(req[r]) /\ Carried(req[r])
  BY OnTheWay DEF Receive
<1>2. /\ ~req[r].touched /\ ~req[r].interrupted /\ ~req[r].authorized /\ req[r].status = 0
      /\ ~req[r].token
  BY <1>1 DEF Entering, Carried
<1>3. CASE \E status \in {400, 501, 200, 503} :
             /\ status = 200 => server = "ready"
             /\ status = 503 => server # "ready"
             /\ Set(r, [req[r] EXCEPT !.stage = "done", !.status = status])
  <2>0. PICK status \in {400, 501, 200, 503} :
          /\ status = 200 => server = "ready"
          /\ status = 503 => server # "ready"
          /\ Set(r, [req[r] EXCEPT !.stage = "done", !.status = status])
    BY <1>3, Zenon
  <2> PICK q : q = [req[r] EXCEPT !.stage = "done", !.status = status]
    OBVIOUS
  <2>1. status \in Statuses /\ status # 0
    BY DEF Statuses
  <2>2. q \in Context
    BY <1>1, <2>1 DEF Context
  <2>3. /\ q.stage = "done" /\ q.status = status /\ ~q.touched /\ ~q.interrupted /\ ~q.token
    BY <1>1, <1>2 DEF Context
  <2>4. Asked(q) /\ Entering(q) /\ Carried(q) /\ Over(q)
    BY <2>1, <2>3 DEF Asked, Entering, Carried, Over
  <2> QED
    BY <1>1, <2>0, <2>2, <2>3, <2>4, OneRequest, OnTheWay
<1>4. ASSUME NEW encoder \in BOOLEAN, NEW cors \in SUBSET {"cors"},
             Set(r, [req[r] EXCEPT !.stage = "routing", !.encoder = encoder, !.transforms = cors])
      PROVE  ExchangeInv'
  <2> PICK q : q = [req[r] EXCEPT !.stage = "routing", !.encoder = encoder, !.transforms = cors]
    OBVIOUS
  <2>2. q \in Context
    BY <1>1 DEF Context
  <2>3. /\ q.stage = "routing" /\ q.status = 0 /\ ~q.touched /\ ~q.interrupted /\ ~q.token
        /\ ~q.authorized
    BY <1>1, <1>2 DEF Context
  <2>4. Asked(q) /\ Entering(q) /\ Carried(q) /\ Over(q)
    BY <2>3 DEF Asked, Entering, Carried, Over
  <2> QED
    BY <1>1, <1>4, <2>2, <2>3, <2>4, OneRequest, OnTheWay
<1>5. CASE \E encoder \in BOOLEAN, cors \in SUBSET {"cors"} :
             Set(r, [req[r] EXCEPT !.stage = "routing", !.encoder = encoder, !.transforms = cors])
  BY <1>4, <1>5, Zenon
<1> QED
  BY <1>3, <1>5, ZenonT(40) DEF Receive

\* Gateway.process up to its preflight.
LEMMA ProcessInv ==
    ASSUME ExchangeInv, NEW r \in HttpRequests, Process(r)
    PROVE  ExchangeInv'
<1>1. /\ req[r].stage = "routing" /\ UNCHANGED <<server, memo>>
      /\ req[r] \in Context /\ Entering(req[r]) /\ Carried(req[r])
      /\ server = "closed" => req[r].stage \in {"none", "done"}
  BY OnTheWay DEF Process
<1>2. /\ ~req[r].touched /\ ~req[r].interrupted /\ ~req[r].authorized /\ req[r].status = 0
      /\ ~req[r].token
  BY <1>1 DEF Entering, Carried
<1>3. ASSUME NEW status \in {404, 405}, Fail(r, status)
      PROVE  ExchangeInv'
  <2>1. status \in Statuses \ {0}
    BY DEF Statuses
  <2> QED
    BY <1>1, <1>2, <1>3, <2>1, Failing
<1>4. ASSUME NEW declared \in Declarations,
             Set(r, [req[r] EXCEPT !.stage = "preflight", !.todo = DirectiveSets(declared),
                                   !.sets = DirectiveSets(declared)])
      PROVE  ExchangeInv'
  <2> PICK sets : sets = DirectiveSets(declared)
    OBVIOUS
  <2> PICK q : q = [req[r] EXCEPT !.stage = "preflight", !.todo = sets, !.sets = sets]
    OBVIOUS
  <2>1. sets \in Seq(Gathered) /\ InFamilies(sets) /\ Guarded(sets)
    BY Gathering
  <2>2. q \in Context
    BY <1>1, <2>1 DEF Context
  <2>3. /\ q.stage = "preflight" /\ q.todo = sets /\ q.status = 0 /\ ~q.touched /\ ~q.interrupted
        /\ ~q.token /\ ~q.authorized
    BY <1>1, <1>2 DEF Context
  <2>4. Asked(q) /\ Entering(q) /\ Carried(q) /\ Over(q)
    BY <2>1, <2>3 DEF Asked, Entering, Carried, Over
  <2> QED
    BY <1>1, <1>4, <2>2, <2>3, <2>4, OneRequest, OnTheWay
<1> QED
  BY <1>3, <1>4, ZenonT(60) DEF Process

\* A request that no family has left to be asked about is authorized.
LEMMA AllAsked ==
    ASSUME ExchangeInv, NEW r \in HttpRequests, req[r].stage = "preflight", req[r].todo = <<>>
    PROVE  req[r].authorized /\ req[r].status = 0 /\ ~req[r].token
<1>1. Asked(req[r]) /\ Carried(req[r])
  BY OnTheWay
<1>2. ~Guarded(<<>>)
  BY DEF Guarded
<1> QED
  BY <1>1, <1>2 DEF Asked, Carried

\* Gateway.call and Endpoint.call.
LEMMA CallInv ==
    ASSUME ExchangeInv, NEW r \in HttpRequests, Refuse(r) \/ CallEndpoint(r) \/ Interrupt(r)
    PROVE  ExchangeInv'
<1>1. /\ req[r].stage = "preflight" /\ req[r].todo = <<>> /\ UNCHANGED <<server, memo>>
      /\ req[r] \in Context /\ Asked(req[r]) /\ Carried(req[r])
      /\ server = "closed" => req[r].stage \in {"none", "done"}
  BY OnTheWay DEF Refuse, CallEndpoint, Interrupt
<1>2. /\ req[r].authorized /\ req[r].status = 0 /\ ~req[r].token
      /\ req[r].touched => req[r].interrupted
  BY <1>1, AllAsked DEF Asked
<1>3. CASE Refuse(r)
  <2>1. PICK status \in {404, 406, 405, 415, 400, 403} : Fail(r, status)
    BY <1>3 DEF Refuse
  <2>2. status \in Statuses \ {0}
    BY DEF Statuses
  <2>3. ~req[r].touched
    BY <1>2, <1>3 DEF Refuse
  <2> QED
    BY <1>1, <2>1, <2>2, <2>3, Failing
<1>4. CASE CallEndpoint(r)
  <2>1. ASSUME NEW body \in Bodies, NEW status \in {0, 304},
               Set(r, [req[r] EXCEPT !.stage = "settle", !.todo = req[r].sets, !.touched = TRUE,
                                     !.body = IF status = 304 THEN @ ELSE body, !.status = status])
        PROVE  ExchangeInv'
    <3> PICK sent : sent = IF status = 304 THEN req[r].body ELSE body
      OBVIOUS
    <3> PICK q : q = [req[r] EXCEPT !.stage = "settle", !.todo = req[r].sets, !.touched = TRUE,
                                    !.body = sent, !.status = status]
      OBVIOUS
    <3>1. status \in Statuses /\ sent \in Bodies
      BY <1>1 DEF Statuses, Context
    <3>2. q \in Context
      BY <1>1, <3>1, ZenonT(60) DEF Context
    <3>3. /\ q.stage = "settle" /\ q.status = status /\ q.authorized /\ ~q.token
      BY <1>1, <1>2 DEF Context
    <3>4. Asked(q) /\ Entering(q) /\ Carried(q) /\ Over(q)
      BY <3>3 DEF Asked, Entering, Carried, Over
    <3>5. Set(r, q)
      BY <2>1
    <3> QED
      BY <1>1, <3>2, <3>4, <3>5, OneRequest, OnTheWay
  <2>2. CASE \E status \in {422, 400, 404, 412, 409, 500}, touched \in BOOLEAN :
               Set(r, [req[r] EXCEPT !.stage = "fail", !.status = status, !.touched = touched])
    <3>0. PICK status \in {422, 400, 404, 412, 409, 500}, touched \in BOOLEAN :
            Set(r, [req[r] EXCEPT !.stage = "fail", !.status = status, !.touched = touched])
      BY <2>2, ZenonT(40)
    <3> PICK q : q = [req[r] EXCEPT !.stage = "fail", !.status = status, !.touched = touched]
      OBVIOUS
    <3>1. status \in Statuses /\ status # 0 /\ status \notin Refusals
      BY DEF Statuses, Refusals
    <3>2. q \in Context
      BY <1>1, <3>1, ZenonT(60) DEF Context
    <3>3. /\ q.stage = "fail" /\ q.status = status /\ q.authorized
      BY <1>1, <1>2 DEF Context
    <3>4. Asked(q) /\ Entering(q) /\ Carried(q) /\ Over(q)
      BY <3>1, <3>3 DEF Asked, Entering, Carried, Over
    <3> QED
      BY <1>1, <3>0, <3>2, <3>4, OneRequest, OnTheWay
  <2>3. CASE \E body \in {"object", "array", "scalar", "stream", "null", None}, status \in {0, 304} :
               Set(r, [req[r] EXCEPT !.stage = "settle", !.todo = req[r].sets, !.touched = TRUE,
                                     !.body = IF status = 304 THEN @ ELSE body, !.status = status])
    <3>1. PICK body \in {"object", "array", "scalar", "stream", "null", None}, status \in {0, 304} :
            Set(r, [req[r] EXCEPT !.stage = "settle", !.todo = req[r].sets, !.touched = TRUE,
                                  !.body = IF status = 304 THEN @ ELSE body, !.status = status])
      BY <2>3, Zenon
    <3>2. body \in Bodies
      BY DEF Bodies
    <3> QED
      BY <2>1, <3>1, <3>2, ZenonT(40)
  <2> QED
    BY <1>4, <2>2, <2>3, ZenonT(40) DEF CallEndpoint
<1>5. CASE Interrupt(r)
  <2> PICK q : q = [req[r] EXCEPT !.stage = "settle", !.todo = req[r].sets]
    OBVIOUS
  <2>1. q \in Context
    BY <1>1 DEF Context
  <2>2. /\ q.stage = "settle" /\ q.status = 0 /\ q.authorized /\ ~q.token
    BY <1>1, <1>2 DEF Context
  <2>3. Asked(q) /\ Entering(q) /\ Carried(q) /\ Over(q)
    BY <2>2 DEF Asked, Entering, Carried, Over
  <2>4. Set(r, q)
    BY <1>5 DEF Interrupt
  <2> QED
    BY <1>1, <2>1, <2>3, <2>4, OneRequest, OnTheWay
<1> QED
  BY <1>3, <1>4, <1>5

\* The set of one family has settled.
LEMMA Settling ==
    ASSUME ExchangeInv, NEW r \in HttpRequests, UNCHANGED server,
           memo' \in {None} \cup SUBSET Flags,
           req[r].stage = "settle", req[r].todo # <<>>,
           NEW q \in Context, Pass(r, q),
           q.stage = "settle", q.todo = req[r].todo, q.status = req[r].status,
           q.authorized = req[r].authorized, q.token => "no-store" \in q.control
    PROVE  ExchangeInv'
<1>1. /\ Carried(req[r]) /\ req[r] \in Context
      /\ server = "closed" => req[r].stage \in {"none", "done"}
  BY OnTheWay
<1> PICK p : p = [q EXCEPT !.todo = Tail(req[r].todo)]
  OBVIOUS
<1>2. Tail(req[r].todo) \in Seq(Gathered)
  BY <1>1 DEF Context
<1>3. p \in Context
  BY <1>2 DEF Context
<1>4. /\ p.stage = "settle" /\ p.status = req[r].status /\ p.authorized = q.authorized
      /\ p.token = q.token /\ p.control = q.control
  BY DEF Context
<1>5. Asked(p) /\ Entering(p) /\ Carried(p) /\ Over(p)
  BY <1>1, <1>4 DEF Asked, Entering, Carried, Over
<1>6. Set(r, p)
  BY DEF Pass
<1> QED
  BY <1>1, <1>3, <1>5, <1>6, OneRequest

\* Cache.settle never replaces `no-store`.
LEMMA SettleCacheInv ==
    ASSUME ExchangeInv, NEW r \in HttpRequests, NEW directives, UNCHANGED server,
           req[r].stage = "settle", req[r].todo # <<>>, SettleCache(r, directives)
    PROVE  ExchangeInv'
<1>1. /\ Carried(req[r]) /\ req[r] \in Context /\ memo \in {None} \cup SUBSET Flags
      /\ req[r].token => "no-store" \in req[r].control
  BY OnTheWay DEF Carried
<1>2. ASSUME Pass(r, req[r]), memo' \in {None} \cup SUBSET Flags
      PROVE  ExchangeInv'
  BY <1>1, <1>2, Settling
<1>3. ASSUME NEW control \in SUBSET Flags, memo' \in {None} \cup SUBSET Flags,
             Pass(r, IF "no-store" \in req[r].control THEN req[r]
                     ELSE [req[r] EXCEPT !.control = control])
      PROVE  ExchangeInv'
  <2>1. CASE "no-store" \in req[r].control
    BY <1>2, <1>3, <2>1
  <2>2. CASE "no-store" \notin req[r].control
    <3> PICK q : q = [req[r] EXCEPT !.control = control]
      OBVIOUS
    <3>1. q \in Context
      BY <1>1 DEF Context
    <3>2. /\ q.stage = "settle" /\ q.todo = req[r].todo /\ q.status = req[r].status
          /\ q.authorized = req[r].authorized /\ ~q.token
      BY <1>1, <2>2 DEF Context
    <3>3. Pass(r, q)
      BY <1>3, <2>2
    <3> QED
      BY <1>3, <3>1, <3>2, <3>3, Settling
  <2> QED
    BY <2>1, <2>2
<1>4. CASE directives = <<>>
  <2>1. /\ UNCHANGED memo
        /\ Pass(r, IF req[r].identity = None THEN req[r]
                   ELSE IF "no-store" \in req[r].control THEN req[r]
                   ELSE [req[r] EXCEPT !.control = {"private"}])
    BY <1>4 DEF SettleCache
  <2>2. {"private"} \in SUBSET Flags
    BY DEF Flags
  <2>3. CASE req[r].identity = None
    BY <1>1, <1>2, <2>1, <2>3
  <2>4. CASE req[r].identity # None
    BY <1>1, <1>3, <2>1, <2>2, <2>4
  <2> QED
    BY <2>3, <2>4
<1>5. CASE directives # <<>> /\ Method # "GET"
  BY <1>1, <1>2, <1>5 DEF SettleCache
<1>6. CASE directives # <<>> /\ Method = "GET"
  <2>1. /\ memo' = IF memo = None THEN Resolve(req[r].identity) ELSE memo
        /\ Pass(r, IF "no-store" \in req[r].control THEN req[r]
                   ELSE [req[r] EXCEPT !.control = memo'])
    BY <1>6 DEF SettleCache
  <2>2. Resolve(req[r].identity) \in SUBSET Flags
    BY DEF Resolve, Flags
  <2>3. memo' \in SUBSET Flags
    BY <1>1, <2>1, <2>2
  <2>4. PICK control : control = memo'
    OBVIOUS
  <2> QED
    BY <1>3, <2>1, <2>3, <2>4
<1> QED
  BY <1>4, <1>5, <1>6

\* Authorization.settle adds `no-store` with the token.
LEMMA SettleAuthInv ==
    ASSUME ExchangeInv, NEW r \in HttpRequests, NEW directives, UNCHANGED server,
           req[r].stage = "settle", req[r].todo # <<>>, SettleAuth(r, directives)
    PROVE  ExchangeInv'
<1>1. /\ Carried(req[r]) /\ req[r] \in Context /\ memo \in {None} \cup SUBSET Flags
      /\ req[r].token => "no-store" \in req[r].control
      /\ memo' = memo
  BY OnTheWay, ZenonT(60) DEF Carried, SettleAuth
<1>2. CASE \E status \in {400, 422, 500} : directives # <<>> /\ Fail(r, status)
  <2>1. PICK status \in {400, 422, 500} : directives # <<>> /\ Fail(r, status)
    BY <1>2, Zenon
  <2>2. status \in Statuses \ {0} /\ status \notin Refusals
    BY DEF Statuses, Refusals
  <2>3. UNCHANGED <<server, memo>> /\ req[r].stage \in {"routing", "preflight", "settle"}
    BY <1>1
  <2> QED
    BY <2>1, <2>2, <2>3, Failing
<1>3. CASE \E who \in {req[r].identity} \cup
                      (IF directives # <<>> /\ req[r].identity = None THEN {"other"} ELSE {}) :
             Pass(r, IF who \in {None, "primary"} THEN [req[r] EXCEPT !.identity = who]
                     ELSE [req[r] EXCEPT !.identity = who, !.token = TRUE, !.control = {"no-store"}])
  <2>1. PICK who \in {req[r].identity} \cup
                      (IF directives # <<>> /\ req[r].identity = None THEN {"other"} ELSE {}) :
             Pass(r, IF who \in {None, "primary"} THEN [req[r] EXCEPT !.identity = who]
                     ELSE [req[r] EXCEPT !.identity = who, !.token = TRUE, !.control = {"no-store"}])
    BY <1>3, Zenon
  <2>2. who \in {None, "primary", "stale", "other"}
    <3>1. req[r].identity \in {None, "primary", "stale", "other"}
      BY <1>1 DEF Context
    <3> QED
      BY <3>1
  <2>3. CASE who \in {None, "primary"}
    <3> PICK q : q = [req[r] EXCEPT !.identity = who]
      OBVIOUS
    <3>1. q \in Context
      BY <1>1, <2>2 DEF Context
    <3>2. /\ q.stage = "settle" /\ q.todo = req[r].todo /\ q.status = req[r].status
          /\ q.authorized = req[r].authorized /\ q.token = req[r].token
          /\ q.control = req[r].control
      BY <1>1 DEF Context
    <3>3. Pass(r, q)
      BY <2>1, <2>3
    <3>4. (q.token => "no-store" \in q.control) /\ memo' \in {None} \cup SUBSET Flags
      BY <1>1, <3>2
    <3> QED
      BY <3>1, <3>2, <3>3, <3>4, Settling
  <2>4. CASE who \notin {None, "primary"}
    <3> PICK q : q = [req[r] EXCEPT !.identity = who, !.token = TRUE, !.control = {"no-store"}]
      OBVIOUS
    <3>1. q \in Context
      <4>1. {"no-store"} \in SUBSET Flags
        BY DEF Flags
      <4> QED
        BY <1>1, <2>2, <4>1 DEF Context
    <3>2. /\ q.stage = "settle" /\ q.todo = req[r].todo /\ q.status = req[r].status
          /\ q.authorized = req[r].authorized /\ "no-store" \in q.control
      BY <1>1 DEF Context
    <3>3. Pass(r, q)
      BY <2>1, <2>4
    <3>4. (q.token => "no-store" \in q.control) /\ memo' \in {None} \cup SUBSET Flags
      BY <1>1, <3>2
    <3> QED
      BY <3>1, <3>2, <3>3, <3>4, Settling
  <2> QED
    BY <2>3, <2>4
<1> QED
  BY <1>2, <1>3, ZenonT(60) DEF SettleAuth

\* Directives.settle, family by family.
LEMMA SettleFamilyInv ==
    ASSUME ExchangeInv, NEW r \in HttpRequests, SettleFamily(r)
    PROVE  ExchangeInv'
<1> PICK set : set = Head(req[r].todo)
  OBVIOUS
<1>1. req[r].stage = "settle" /\ req[r].todo # <<>> /\ UNCHANGED server
  BY DEF SettleFamily
<1>2. CASE set.family = "auth"
  <2>1. SettleAuth(r, set.directives)
    BY <1>2 DEF SettleFamily
  <2> QED
    BY <1>1, <2>1, SettleAuthInv
<1>3. CASE set.family = "cache"
  <2>1. SettleCache(r, set.directives)
    BY <1>3 DEF SettleFamily
  <2> QED
    BY <1>1, <2>1, SettleCacheInv
<1>4. CASE set.family \notin {"auth", "cache"}
  <2>1. Pass(r, req[r]) /\ UNCHANGED memo
    BY <1>4 DEF SettleFamily
  <2>2. /\ Carried(req[r]) /\ req[r] \in Context /\ memo \in {None} \cup SUBSET Flags
        /\ req[r].token => "no-store" \in req[r].control
    BY <1>1, OnTheWay DEF Carried
  <2> QED
    BY <1>1, <2>1, <2>2, Settling
<1> QED
  BY <1>2, <1>3, <1>4

\* Server.success and Server.fail; a failure's response carries no token.
LEMMA AnswerInv ==
    ASSUME ExchangeInv, NEW r \in HttpRequests, Success(r) \/ Failure(r)
    PROVE  ExchangeInv'
<1>1. /\ UNCHANGED <<server, memo>> /\ req[r] \in Context /\ Carried(req[r]) /\ Over(req[r])
      /\ req[r].stage \in {"settle", "fail"} /\ memo \in {None} \cup SUBSET Flags
      /\ server = "closed" => req[r].stage \in {"none", "done"}
  BY OnTheWay DEF Success, Failure
<1>2. CASE Success(r)
  <2>1. req[r].stage = "settle" /\ req[r].status \in {0, 304}
    BY <1>1, <1>2 DEF Success, Carried
  <2>2. CASE Set(r, [req[r] EXCEPT !.stage = "done", !.status = Status(r)])
    <3>1. PICK status : status = Status(r)
      OBVIOUS
    <3>2. status \in Statuses /\ status # 0 /\ status \notin Refusals
      BY <2>1, <3>1 DEF Status, Statuses, Refusals
    <3> PICK q : q = [req[r] EXCEPT !.stage = "done", !.status = status]
      OBVIOUS
    <3>3. q \in Context
      BY <1>1, <3>2, DoneContext
    <3>4. /\ q.stage = "done" /\ q.status = status /\ q.authorized = req[r].authorized
          /\ q.token = req[r].token /\ q.control = req[r].control
      BY <1>1 DEF Context
    <3>5. Asked(q) /\ Entering(q) /\ Carried(q) /\ Over(q)
      BY <1>1, <2>1, <3>2, <3>4 DEF Asked, Entering, Carried, Over
    <3>6. Set(r, q)
      BY <2>2, <3>1
    <3> QED
      BY <1>1, <3>3, <3>4, <3>5, <3>6, OneRequest
  <2>3. CASE Fail(r, 500) \/ Fail(r, 406)
    <3>1. 500 \in Statuses \ {0} /\ 500 \notin Refusals /\ 406 \in Statuses \ {0} /\ 406 \notin Refusals
      BY DEF Statuses, Refusals
    <3> QED
      BY <1>1, <2>1, <2>3, <3>1, Failing
  <2> QED
    BY <1>2, <2>2, <2>3 DEF Success
<1>3. CASE Failure(r)
  <2>1. req[r].stage = "fail"
        /\ Set(r, [req[r] EXCEPT !.stage = "done", !.control = {}, !.token = FALSE])
    BY <1>3 DEF Failure
  <2> PICK q : q = [req[r] EXCEPT !.stage = "done", !.control = {}, !.token = FALSE]
    OBVIOUS
  <2>2. q \in Context
    BY <1>1 DEF Context
  <2>3. /\ q.stage = "done" /\ q.status = req[r].status /\ q.authorized = req[r].authorized
        /\ q.touched = req[r].touched /\ q.interrupted = req[r].interrupted /\ ~q.token
    BY <1>1 DEF Context
  <2>4. Asked(q) /\ Entering(q) /\ Carried(q) /\ Over(q)
    BY <1>1, <2>1, <2>3 DEF Asked, Entering, Carried, Over
  <2> QED
    BY <1>1, <2>1, <2>2, <2>3, <2>4, OneRequest
<1> QED
  BY <1>2, <1>3

\* Every step keeps the invariant.
LEMMA ExchangeNextInv == ExchangeInv /\ [ExchangeNext]_exchangeVars => ExchangeInv'
<1> SUFFICES ASSUME ExchangeInv, [ExchangeNext]_exchangeVars PROVE ExchangeInv'
  OBVIOUS
<1>1. CASE OpenServer \/ ServerReady \/ CloseServer \/ ServerClosed
  BY <1>1, ServerInv
<1>2. ASSUME NEW r \in HttpRequests, Receive(r) \/ ExchangeStep(r)
      PROVE  ExchangeInv'
  BY <1>2, ReceiveInv, ProcessInv, PreflightInv, CallInv, SettleFamilyInv, AnswerInv DEF ExchangeStep
<1>3. CASE UNCHANGED exchangeVars
  <2>1. server' = server /\ memo' = memo /\ req' = req
    BY <1>3 DEF exchangeVars
  <2> QED
    BY <2>1 DEF ExchangeInv, ExchangeShaped, Drained
<1> QED
  BY <1>1, <1>2, <1>3 DEF ExchangeNext

\* The invariant holds of every behaviour of Exchange.
THEOREM ExchangeInvariance == ExchangeSpec => []ExchangeInv
  BY ExchangeStarts, ExchangeNextInv, PTL DEF ExchangeSpec

\* The invariant says what is to be shown.
LEMMA ExchangeInvSafe == ExchangeInv => ExchangeSafe
<1> SUFFICES ASSUME ExchangeInv PROVE ExchangeSafe
  OBVIOUS
<1>1. ExchangeTyped
  <2>1. ASSUME NEW r \in HttpRequests
        PROVE  /\ req[r].stage \in {"none", "routing", "preflight", "settle", "fail", "done"}
               /\ req[r].status \in {0, 200, 201, 204, 304, 400, 401, 403, 404, 405, 406, 409, 412,
                                     415, 422, 500, 501, 503}
               /\ DOMAIN req[r] = DOMAIN Idle
               /\ req[r].stage = "done" => req[r].status # 0
    <3>1. req[r] \in Context /\ Over(req[r])
      BY OnTheWay
    <3> QED
      BY <3>1 DEF Context, Over, Idle, Statuses
  <2> QED
    BY <2>1 DEF ExchangeInv, ExchangeShaped, ExchangeTyped, Flags
<1>2. AuthorizedFirst
  BY DEF ExchangeInv, Carried, AuthorizedFirst
<1>3. RefusedUntouched
  BY DEF ExchangeInv, Over, RefusedUntouched, Refusals
<1>4. TokenNotStored
  BY DEF ExchangeInv, Carried, TokenNotStored
<1>5. Drained
  BY DEF ExchangeInv
<1> QED
  BY <1>1, <1>2, <1>3, <1>4, <1>5 DEF ExchangeSafe

\* For any requests, declarations, replies and failures: nothing is done or
\* shown for a request before it is authorized, refused ones had no effect,
\* a response with a token is not stored, the server closes after them
\* (Directive.ts, Authorization.ts, Cache.ts, Server.ts).
THEOREM ServedInOrder == ExchangeSpec => []ExchangeSafe
  BY ExchangeInvariance, ExchangeInvSafe, PTL

----------------------------------------------------------------------------
(* Gateway *)

\* A pod that is not down or gone.
Runs(p) == tenant[p] \in {"exposed", "listening"}
Newest(c) == <<c, latest[c]>>
Seen == merged \cup {inbox[i] : i \in DOMAIN inbox}

\* A ping is answered by who listens.
Listening == \A p \in pinged : tenant[p] = "listening"

\* Without a gateway nothing is kept, and a gateway starts between discoveries.
Down == gateway = "down" => inbox = <<>> /\ merged = {} /\ tree = Trunk
Bound == gateway = "bound" => pinged = {}

\* The tree is made of branches that were merged, whose remotes are there, as
\* no other's are.
Rooted ==
    /\ tree \in Trees /\ Reaches(tree) \subseteq merged \ Faulty
    /\ closing \subseteq merged /\ \A id \in Ids \ merged : remote[id] = "none"

\* Of no version has anything been heard that was not exposed.
Told ==
    /\ \A p \in Pods : tenant[p] # "down" => VersionOf[p] <= latest[ComponentOf[p]]
    /\ \A id \in Seen : id[2] <= latest[id[1]]

\* Amid a discovery one version runs of each component.
OneVersion == gateway = "bound" \/ pinged # {} =>
    \A p, q \in Pods : Runs(p) /\ Runs(q) /\ ComponentOf[p] = ComponentOf[q] => Id(p) = Id(q)

\* Who is to be heard again although it is not the last version, is the only
\* one of its component that the gateway has heard of.
Foremost ==
    \A p \in Pods : (gateway = "bound" /\ Runs(p)) \/ (gateway = "up" /\ p \in pinged) =>
        \/ Id(p) = Newest(ComponentOf[p])
        \/ \A id \in Seen : id[1] = ComponentOf[p] => id = Id(p)

\* What comes after the last version of its component has come before, too.
Ordered ==
    \A i \in DOMAIN inbox :
        inbox[i] # Newest(inbox[i][1]) /\ inbox[i] \notin merged =>
            /\ Newest(inbox[i][1]) \notin merged
            /\ \A j \in 1..(i - 1) : inbox[j] = Newest(inbox[i][1]) =>
                  \E k \in 1..(j - 1) : inbox[k] = inbox[i]

\* What was merged last is what is shown.
Shown ==
    \A c \in Components : Newest(c) \in merged \ Faulty =>
        {id \in Reaches(tree) : id[1] = c} = {Newest(c)}

\* Whoever runs has been heard, or will be: who listened before the gateway
\* did by a ping, who exposes itself since then by that.
Heard ==
    /\ gateway = "bound" => \A p \in Pods : tenant[p] = "exposed" => Id(p) \in Seen
    /\ gateway = "up" => \A p \in Pods : Runs(p) => Id(p) \in Seen \cup {Id(q) : q \in pinged}

GatewayInv ==
    /\ TypeOK /\ latest \in [Components -> Nat] /\ Listening /\ Down /\ Bound /\ Rooted
    /\ RoutesLive /\ Told /\ OneVersion /\ Foremost /\ Ordered /\ Shown /\ Heard

LEMMA GatewayInitial == Init => GatewayInv
<1> SUFFICES ASSUME Init PROVE GatewayInv
  OBVIOUS
<1>1. inbox = <<>> /\ DOMAIN inbox = {} /\ Seen = {}
  BY DEF Init, Seen
<1>2. TypeOK /\ latest \in [Components -> Nat]
  BY DEF Init, TypeOK, NoRequest
<1>3. Listening /\ Down /\ Bound /\ Rooted /\ RoutesLive
  BY GatewayAssumption DEF Init, Listening, Down, Bound, Rooted, RoutesLive
<1>4. Told /\ OneVersion /\ Foremost /\ Heard
  BY <1>1 DEF Init, Told, OneVersion, Foremost, Heard, Runs
<1>5. Ordered /\ Shown
  BY <1>1 DEF Init, Ordered, Shown
<1> QED
  BY <1>2, <1>3, <1>4, <1>5 DEF GatewayInv

\* Ids are pairs of a component and a version of it.
LEMMA Paired ==
    /\ \A p \in Pods : /\ Id(p) \in Ids /\ Id(p)[1] = ComponentOf[p] /\ Id(p)[2] = VersionOf[p]
                       /\ ComponentOf[p] \in Components /\ VersionOf[p] \in Nat \ {0}
                       /\ Id(p) = <<ComponentOf[p], VersionOf[p]>>
    /\ \A id \in Ids : id[1] \in Components /\ id[2] \in Nat \ {0} /\ id = <<id[1], id[2]>>
    /\ \A c : Newest(c)[1] = c /\ Newest(c)[2] = latest[c]
<1>1. \A p \in Pods : /\ Id(p) \in Ids /\ Id(p)[1] = ComponentOf[p] /\ Id(p)[2] = VersionOf[p]
                      /\ ComponentOf[p] \in Components /\ VersionOf[p] \in Nat \ {0}
                      /\ Id(p) = <<ComponentOf[p], VersionOf[p]>>
  BY GatewayAssumption DEF Id, Ids, Components
<1>2. \A id \in Ids : id[1] \in Components /\ id[2] \in Nat \ {0} /\ id = <<id[1], id[2]>>
  BY <1>1 DEF Ids
<1> QED
  BY <1>1, <1>2 DEF Newest

\* What is sent to a gateway that is there comes last.
LEMMA Sent ==
    ASSUME TypeOK, NEW id \in Ids, Transmit(id), gateway # "down", merged' = merged
    PROVE  /\ inbox' \in Seq(Ids) /\ DOMAIN inbox' = 1..(Len(inbox) + 1) /\ DOMAIN inbox = 1..Len(inbox)
           /\ Len(inbox) \in Nat /\ inbox'[Len(inbox) + 1] = id
           /\ \A i \in DOMAIN inbox : inbox'[i] = inbox[i]
           /\ Seen' = Seen \cup {id}
<1>1. /\ inbox' \in Seq(Ids) /\ DOMAIN inbox' = 1..(Len(inbox) + 1) /\ DOMAIN inbox = 1..Len(inbox)
      /\ Len(inbox) \in Nat /\ inbox'[Len(inbox) + 1] = id
      /\ \A i \in DOMAIN inbox : inbox'[i] = inbox[i]
  BY DEF TypeOK, Transmit
<1>2. {inbox'[i] : i \in DOMAIN inbox'} = {inbox[i] : i \in DOMAIN inbox} \cup {id}
  <2>1. \A i \in DOMAIN inbox' : i \in DOMAIN inbox \/ i = Len(inbox) + 1
    BY <1>1
  <2>2. DOMAIN inbox \subseteq DOMAIN inbox' /\ Len(inbox) + 1 \in DOMAIN inbox'
    BY <1>1
  <2> QED
    BY <1>1, <2>1, <2>2
<1> QED
  BY <1>1, <1>2 DEF Seen

\* What is sent to none is lost.
LEMMA Lost ==
    ASSUME NEW id, Transmit(id), gateway = "down", merged' = merged
    PROVE  inbox' = inbox /\ Seen' = Seen
BY DEF Transmit, Seen

\* What is not of the tree's variables leaves the tree as it is.
LEMMA RootedStay ==
    ASSUME Rooted, RoutesLive, UNCHANGED <<merged, tree, remote, closing>>
    PROVE  Rooted' /\ RoutesLive'
BY DEF Rooted, RoutesLive

LEMMA ExposeKeeps ==
    ASSUME GatewayInv, ~Together, NEW pod \in Pods, Expose(pod)
    PROVE  GatewayInv'
<1> DEFINE c == ComponentOf[pod]
<1>0. /\ TypeOK /\ latest \in [Components -> Nat] /\ Listening /\ Down /\ Bound /\ Rooted
      /\ RoutesLive /\ Told /\ OneVersion /\ Foremost /\ Ordered /\ Shown /\ Heard
  BY DEF GatewayInv
<1>1. /\ tenant[pod] = "down" /\ VersionOf[pod] >= latest[c]
      /\ tenant' = [tenant EXCEPT ![pod] = "exposed"]
      /\ latest' = [latest EXCEPT ![c] = VersionOf[pod]]
      /\ Transmit(Id(pod))
      /\ UNCHANGED <<gateway, pinged, merged, tree, remote, closing, request, restarts>>
  BY DEF Expose
<1>2. Settled \/ \A q \in Pods : Runs(q) => ComponentOf[q] # c
  BY DEF Expose, Running, Runs
<1>3. Id(pod) \in Ids /\ c \in Components /\ VersionOf[pod] \in Nat \ {0} /\ Id(pod) = <<c, VersionOf[pod]>>
  BY Paired
<1>4. \A d : Newest(d)' = IF d = c THEN Id(pod) ELSE Newest(d)
  BY <1>0, <1>1, <1>3 DEF Newest
<1>5. TypeOK' /\ latest' \in [Components -> Nat]
  BY <1>0, <1>1, <1>3 DEF TypeOK, Transmit
<1>6. pod \notin pinged /\ Listening' /\ Down' /\ Bound'
  BY <1>0, <1>1 DEF TypeOK, Listening, Down, Bound, Transmit
<1>7. Rooted' /\ RoutesLive'
  BY <1>0, <1>1, RootedStay
<1>8. Seen \subseteq Ids /\ Seen' \subseteq Seen \cup {Id(pod)} /\ (gateway # "down" => Seen' = Seen \cup {Id(pod)})
  <2>1. Seen \subseteq Ids
    BY <1>0 DEF TypeOK, Seen
  <2>2. CASE gateway = "down"
    BY <2>1, <2>2, <1>1, Lost
  <2>3. CASE gateway # "down"
    <3>1. Seen' = Seen \cup {Id(pod)}
      BY <2>3, <1>0, <1>1, <1>3, Sent
    <3> QED
      BY <2>1, <3>1
  <2> QED
    BY <2>2, <2>3
<1>9. Told'
  <2>1. \A p \in Pods : tenant'[p] # "down" => VersionOf[p] <= latest'[ComponentOf[p]]
    BY <1>0, <1>1, <1>3, Paired DEF TypeOK, Told
  <2>2. \A id \in Seen' : id[2] <= latest'[id[1]]
    <3> SUFFICES ASSUME NEW id \in Seen' PROVE id[2] <= latest'[id[1]]
      OBVIOUS
    <3>1. CASE id = Id(pod)
      BY <3>1, <1>0, <1>1, <1>3
    <3>2. CASE id \in Seen
      <4>1. id \in Ids /\ id[1] \in Components /\ id[2] \in Nat
        BY <3>2, <1>8, Paired
      <4>2. id[2] <= latest[id[1]]
        BY <3>2, <1>0 DEF Told
      <4>3. latest[id[1]] <= latest'[id[1]]
        BY <4>1, <1>0, <1>1, <1>3
      <4> QED
        BY <4>1, <4>2, <4>3, <1>0, <1>5
    <3> QED
      BY <3>1, <3>2, <1>8
  <2> QED
    BY <2>1, <2>2 DEF Told
\* Amid a discovery nothing else of the component runs.
<1>10. gateway = "bound" \/ pinged # {} => \A q \in Pods : Runs(q) => ComponentOf[q] # c
  BY <1>2 DEF Settled
<1>11. \A q \in Pods : Runs(q)' => q = pod \/ Runs(q)
  BY <1>0, <1>1 DEF Runs, TypeOK
<1>12. OneVersion'
  BY <1>0, <1>1, <1>10, <1>11 DEF OneVersion
<1>13. Foremost'
  <2> SUFFICES ASSUME NEW p \in Pods, (gateway' = "bound" /\ Runs(p)') \/ (gateway' = "up" /\ p \in pinged')
               PROVE  Id(p) = Newest(ComponentOf[p])' \/ \A id \in Seen' : id[1] = ComponentOf[p] => id = Id(p)
    BY DEF Foremost
  <2>1. CASE p = pod
    BY <2>1, <1>4
  <2>2. CASE p # pod
    <3>1. (gateway = "bound" /\ Runs(p)) \/ (gateway = "up" /\ p \in pinged)
      BY <2>2, <1>1, <1>11
    <3>2. Runs(p) /\ ComponentOf[p] # c
      BY <3>1, <1>0, <1>10 DEF Listening, Runs
    <3> QED
      BY <3>1, <3>2, <1>0, <1>3, <1>4, <1>8 DEF Foremost
  <2> QED
    BY <2>1, <2>2
<1>14. Ordered'
  <2> SUFFICES ASSUME NEW i \in DOMAIN inbox',
                      inbox'[i] # <<inbox'[i][1], latest'[inbox'[i][1]]>>, inbox'[i] \notin merged
               PROVE  /\ <<inbox'[i][1], latest'[inbox'[i][1]]>> \notin merged
                      /\ \A j \in 1..(i - 1) : inbox'[j] = <<inbox'[i][1], latest'[inbox'[i][1]]>> =>
                            \E k \in 1..(j - 1) : inbox'[k] = inbox'[i]
    BY <1>1 DEF Ordered, Newest
  <2>1. gateway # "down"
    BY <1>0, <1>1 DEF Down, Transmit
  <2>2. /\ DOMAIN inbox' = 1..(Len(inbox) + 1) /\ DOMAIN inbox = 1..Len(inbox)
        /\ Len(inbox) \in Nat /\ inbox'[Len(inbox) + 1] = Id(pod)
        /\ \A n \in DOMAIN inbox : inbox'[n] = inbox[n]
    BY <2>1, <1>0, <1>1, <1>3, Sent
  <2>3. \A d : <<d, latest'[d]>> = IF d = c THEN Id(pod) ELSE Newest(d)
    BY <1>4 DEF Newest
  <2>4. i \in DOMAIN inbox /\ inbox'[i] = inbox[i]
    <3>1. CASE i = Len(inbox) + 1
      <4>1. inbox'[i] = Id(pod) /\ inbox'[i][1] = c
        BY <3>1, <2>2, <1>3
      <4> QED
        BY <4>1, <2>3
    <3>2. CASE i # Len(inbox) + 1
      BY <3>2, <2>2
    <3> QED
      BY <3>1, <3>2
  <2>5. \A j \in 1..(i - 1) : j \in DOMAIN inbox /\ inbox'[j] = inbox[j]
                             /\ \A k \in 1..(j - 1) : k \in DOMAIN inbox /\ inbox'[k] = inbox[k]
    BY <2>2, <2>4
  <2> DEFINE x == inbox[i]
  <2>6. CASE <<x[1], latest'[x[1]]>> = Newest(x[1])
    <3>1. x # Newest(x[1]) /\ x \notin merged
      BY <2>4, <2>6
    <3>2. /\ Newest(x[1]) \notin merged
          /\ \A j \in 1..(i - 1) : inbox[j] = Newest(x[1]) => \E k \in 1..(j - 1) : inbox[k] = x
      BY <2>4, <3>1, <1>0 DEF Ordered
    <3> HIDE DEF x
    <3>3. \A j \in 1..(i - 1) : inbox'[j] = Newest(x[1]) => \E k \in 1..(j - 1) : inbox'[k] = x
      BY <3>2, <2>5
    <3>4. inbox'[i] = x
      BY <2>4 DEF x
    <3> QED
      BY <3>2, <3>3, <3>4, <2>6
  <2>7. CASE <<x[1], latest'[x[1]]>> # Newest(x[1])
    <3>1. x[1] = c /\ <<x[1], latest'[x[1]]>> = Id(pod) /\ latest[c] # VersionOf[pod]
      BY <2>3, <2>7, <1>3 DEF Newest
    <3>2. Id(pod) \notin Seen
      BY <3>1, <1>0, <1>1, <1>3 DEF Told
    <3>3. Id(pod) \notin merged /\ \A j \in DOMAIN inbox : inbox[j] # Id(pod)
      BY <3>2 DEF Seen
    <3> QED
      BY <2>4, <2>5, <3>1, <3>3
  <2> QED
    BY <2>6, <2>7
<1>15. Shown'
  <2> SUFFICES ASSUME NEW d \in Components, Newest(d)' \in merged \ Faulty
               PROVE  {id \in Reaches(tree) : id[1] = d} = {Newest(d)'}
    BY <1>1 DEF Shown
  <2>1. CASE d # c
    BY <2>1, <1>0, <1>4 DEF Shown
  <2>2. CASE d = c
    <3>1. Id(pod) \in Seen
      BY <2>2, <1>4 DEF Seen
    <3>2. VersionOf[pod] = latest[c]
      BY <3>1, <1>0, <1>1, <1>3 DEF Told
    <3>3. Newest(d)' = Newest(d)
      BY <2>2, <3>2, <1>3, <1>4 DEF Newest
    <3> QED
      BY <3>3, <1>0 DEF Shown
  <2> QED
    BY <2>1, <2>2
<1>16. Heard'
  <2>1. gateway = "bound" => \A p \in Pods : tenant'[p] = "exposed" => Id(p) \in Seen'
    BY <1>0, <1>1, <1>8 DEF Heard, TypeOK
  <2>2. gateway = "up" => \A p \in Pods : Runs(p)' => Id(p) \in Seen' \cup {Id(q) : q \in pinged}
    BY <1>0, <1>1, <1>8, <1>11 DEF Heard
  <2> QED
    BY <2>1, <2>2, <1>1 DEF Heard
<1> QED
  BY <1>5, <1>6, <1>7, <1>9, <1>12, <1>13, <1>14, <1>15, <1>16 DEF GatewayInv

\* Who does not run any more is not missed.
LEMMA ListenKeeps ==
    ASSUME GatewayInv, NEW pod \in Pods, Listen(pod) \/ Stop(pod)
    PROVE  GatewayInv'
<1>0. /\ TypeOK /\ latest \in [Components -> Nat] /\ Listening /\ Down /\ Bound /\ Rooted
      /\ RoutesLive /\ Told /\ OneVersion /\ Foremost /\ Ordered /\ Shown /\ Heard
  BY DEF GatewayInv
<1>1. /\ UNCHANGED <<gateway, inbox, pinged, merged, tree, remote, closing, request, latest, restarts>>
      /\ tenant[pod] # "down" /\ (pod \in pinged => tenant'[pod] = "listening")
      /\ tenant' \in [Pods -> {"down", "exposed", "listening", "gone"}] /\ tenant'[pod] # "exposed"
      /\ \A p \in Pods : p # pod => tenant'[p] = tenant[p]
      /\ Runs(pod)
  BY <1>0 DEF Listen, Stop, TypeOK, Runs
<1>2. Seen' = Seen /\ \A p \in Pods : Runs(p)' => Runs(p)
  BY <1>1 DEF Seen, Runs
<1>3. TypeOK' /\ latest' \in [Components -> Nat]
  BY <1>0, <1>1 DEF TypeOK
<1>4. Listening' /\ Down' /\ Bound'
  BY <1>0, <1>1 DEF Listening, Down, Bound, TypeOK
<1>5. Rooted' /\ RoutesLive'
  BY <1>0, <1>1, RootedStay
<1>6. Told' /\ OneVersion'
  BY <1>0, <1>1, <1>2 DEF Told, OneVersion
<1>7. Foremost'
  BY <1>0, <1>1, <1>2 DEF Foremost, Newest
<1>8. Ordered' /\ Shown'
  BY <1>0, <1>1 DEF Ordered, Shown, Newest
<1>9. Heard'
  BY <1>0, <1>1, <1>2 DEF Heard
<1> QED
  BY <1>3, <1>4, <1>5, <1>6, <1>7, <1>8, <1>9 DEF GatewayInv

LEMMA PongKeeps ==
    ASSUME GatewayInv, NEW pod \in Pods, Pong(pod)
    PROVE  GatewayInv'
<1> DEFINE c == ComponentOf[pod]
<1>0. /\ TypeOK /\ latest \in [Components -> Nat] /\ Listening /\ Down /\ Bound /\ Rooted
      /\ RoutesLive /\ Told /\ OneVersion /\ Foremost /\ Ordered /\ Shown /\ Heard
  BY DEF GatewayInv
<1>1. /\ pod \in pinged /\ pinged' = pinged \ {pod} /\ Transmit(Id(pod))
      /\ UNCHANGED <<tenant, gateway, merged, tree, remote, closing, request, latest, restarts>>
  BY DEF Pong
<1>2. /\ Id(pod) \in Ids /\ c \in Components /\ VersionOf[pod] \in Nat \ {0}
      /\ Id(pod) = <<c, VersionOf[pod]>> /\ Id(pod)[1] = c /\ Id(pod)[2] = VersionOf[pod]
  BY Paired
<1>3. tenant[pod] = "listening" /\ Runs(pod)
  BY <1>0, <1>1 DEF Listening, Runs
<1>4. /\ gateway = "down" => inbox' = inbox /\ Seen' = Seen
      /\ gateway # "down" => Seen' = Seen \cup {Id(pod)}
  BY <1>0, <1>1, <1>2, Sent, Lost
<1>5. TypeOK' /\ latest' \in [Components -> Nat]
  BY <1>0, <1>1, <1>2 DEF TypeOK, Transmit
<1>6. Listening' /\ Down' /\ Bound'
  BY <1>0, <1>1 DEF Listening, Down, Bound, Transmit
<1>7. Rooted' /\ RoutesLive'
  BY <1>0, <1>1, RootedStay
<1>8. Told'
  <2>1. VersionOf[pod] <= latest[c]
    BY <1>0, <1>3 DEF Told
  <2> QED
    BY <2>1, <1>0, <1>1, <1>2, <1>4 DEF Told
<1>9. OneVersion'
  BY <1>0, <1>1 DEF OneVersion, Runs
<1>10. gateway # "bound"
  BY <1>0, <1>1 DEF Bound
<1>11. Foremost'
  <2> SUFFICES ASSUME NEW p \in Pods, gateway = "up", p \in pinged
               PROVE  Id(p) = Newest(ComponentOf[p]) \/ \A id \in Seen' : id[1] = ComponentOf[p] => id = Id(p)
    BY <1>1, <1>10 DEF Foremost, Newest
  <2>1. ComponentOf[p] = c => Id(p) = Id(pod)
    BY <1>0, <1>1 DEF OneVersion, Listening, Runs
  <2> QED
    BY <2>1, <1>0, <1>2, <1>4 DEF Foremost
<1>12. Ordered'
  <2>1. CASE gateway = "down"
    BY <2>1, <1>0, <1>1, <1>4 DEF Ordered, Newest
  <2>2. CASE gateway # "down"
    <3> SUFFICES ASSUME NEW i \in DOMAIN inbox', inbox'[i] # Newest(inbox'[i][1]), inbox'[i] \notin merged
                 PROVE  /\ Newest(inbox'[i][1]) \notin merged
                        /\ \A j \in 1..(i - 1) : inbox'[j] = Newest(inbox'[i][1]) =>
                              \E k \in 1..(j - 1) : inbox'[k] = inbox'[i]
      BY <1>1 DEF Ordered, Newest
    <3>1. /\ DOMAIN inbox' = 1..(Len(inbox) + 1) /\ DOMAIN inbox = 1..Len(inbox)
          /\ Len(inbox) \in Nat /\ inbox'[Len(inbox) + 1] = Id(pod)
          /\ \A n \in DOMAIN inbox : inbox'[n] = inbox[n]
      BY <2>2, <1>0, <1>1, <1>2, Sent
    <3>2. \A j \in 1..(i - 1) : j \in DOMAIN inbox /\ inbox'[j] = inbox[j]
                               /\ \A k \in 1..(j - 1) : k \in DOMAIN inbox /\ inbox'[k] = inbox[k]
      BY <3>1
    <3>3. CASE i = Len(inbox) + 1
      <4>1. inbox'[i] = Id(pod) /\ inbox'[i][1] = c /\ Id(pod) # Newest(c)
        BY <3>1, <3>3, <1>2
      <4>2. \A id \in Seen : id[1] = c => id = Id(pod)
        BY <4>1, <2>2, <1>0, <1>1, <1>10 DEF Foremost, TypeOK
      <4>3. Newest(c) \notin Seen
        BY <4>1, <4>2, Paired
      <4>4. Newest(c) \notin merged /\ \A j \in DOMAIN inbox : inbox[j] # Newest(c)
        BY <4>3 DEF Seen
      <4> QED
        BY <4>1, <4>4, <3>2
    <3>4. CASE i # Len(inbox) + 1
      <4>1. i \in DOMAIN inbox /\ inbox'[i] = inbox[i]
        BY <3>1, <3>4
      <4> DEFINE x == inbox[i]
      <4>2. /\ Newest(x[1]) \notin merged
            /\ \A j \in 1..(i - 1) : inbox[j] = Newest(x[1]) => \E k \in 1..(j - 1) : inbox[k] = x
        BY <4>1, <1>0 DEF Ordered
      <4>3. inbox'[i] = x
        BY <4>1
      <4> HIDE DEF x
      <4>4. \A j \in 1..(i - 1) : inbox'[j] = Newest(x[1]) => \E k \in 1..(j - 1) : inbox'[k] = x
        BY <4>2, <3>2
      <4> QED
        BY <4>2, <4>3, <4>4
    <3> QED
      BY <3>3, <3>4
  <2> QED
    BY <2>1, <2>2
<1>13. Shown'
  BY <1>0, <1>1 DEF Shown, Newest
<1>14. Heard'
  BY <1>0, <1>1, <1>4, <1>10 DEF Heard, Runs
<1> QED
  BY <1>5, <1>6, <1>7, <1>8, <1>9, <1>11, <1>12, <1>13, <1>14 DEF GatewayInv

LEMMA StartKeeps ==
    ASSUME GatewayInv, ~Together, Start
    PROVE  GatewayInv'
<1>0. /\ TypeOK /\ latest \in [Components -> Nat] /\ Listening /\ Down /\ Bound /\ Rooted
      /\ RoutesLive /\ Told /\ OneVersion /\ Foremost /\ Ordered /\ Shown /\ Heard
  BY DEF GatewayInv
<1>1. /\ gateway = "down" /\ gateway' = "bound" /\ Settled
      /\ \A c \in Components : \A v, w \in Running(c) : v = w
      /\ UNCHANGED <<tenant, inbox, pinged, merged, tree, remote, closing, request, latest>>
  BY DEF Start
<1>2. inbox = <<>> /\ DOMAIN inbox = {} /\ merged = {} /\ Seen = {} /\ Seen' = {}
  BY <1>0, <1>1 DEF Down, Seen
<1>3. TypeOK' /\ latest' \in [Components -> Nat] /\ Listening' /\ Down' /\ Bound' /\ Told'
  BY <1>0, <1>1, <1>2 DEF TypeOK, Listening, Down, Bound, Told, Settled
<1>4. Rooted' /\ RoutesLive'
  BY <1>0, <1>1, RootedStay
<1>5. OneVersion'
  <2> SUFFICES ASSUME NEW p \in Pods, NEW q \in Pods, Runs(p), Runs(q), ComponentOf[p] = ComponentOf[q]
               PROVE  Id(p) = Id(q)
    BY <1>1 DEF OneVersion, Runs
  <2>1. VersionOf[p] \in Running(ComponentOf[p]) /\ VersionOf[q] \in Running(ComponentOf[p])
    BY DEF Running, Runs
  <2> QED
    BY <2>1, <1>1, Paired
<1>6. Foremost' /\ Ordered' /\ Shown' /\ Heard'
  BY <1>0, <1>1, <1>2 DEF Foremost, Ordered, Shown, Heard, Settled, Newest
<1> QED
  BY <1>3, <1>4, <1>5, <1>6 DEF GatewayInv

LEMMA PingKeeps ==
    ASSUME GatewayInv, Ping
    PROVE  GatewayInv'
<1>0. /\ TypeOK /\ latest \in [Components -> Nat] /\ Listening /\ Down /\ Bound /\ Rooted
      /\ RoutesLive /\ Told /\ OneVersion /\ Foremost /\ Ordered /\ Shown /\ Heard
  BY DEF GatewayInv
<1>1. /\ gateway = "bound" /\ gateway' = "up"
      /\ UNCHANGED <<tenant, inbox, merged, tree, remote, closing, request, latest, restarts>>
  BY DEF Ping
<1>2. PICK heard \in SUBSET {p \in Pods : tenant[p] = "listening"} :
        /\ \A p \in Pods : tenant[p] = "listening" => \E q \in heard : ComponentOf[q] = ComponentOf[p]
        /\ pinged' = pinged \cup heard
  BY DEF Ping
<1>3. pinged = {} /\ pinged' = heard /\ Seen' = Seen /\ \A p \in heard : Runs(p) /\ p \in Pods
  BY <1>0, <1>1, <1>2 DEF Bound, Seen, Runs
<1>4. TypeOK' /\ latest' \in [Components -> Nat] /\ Listening' /\ Down' /\ Bound' /\ Told'
  BY <1>0, <1>1, <1>2, <1>3 DEF TypeOK, Listening, Down, Bound, Told
<1>5. Rooted' /\ RoutesLive'
  BY <1>0, <1>1, RootedStay
<1>6. OneVersion' /\ Ordered' /\ Shown'
  BY <1>0, <1>1 DEF OneVersion, Runs, Ordered, Shown, Newest
<1>7. Foremost'
  BY <1>0, <1>1, <1>3 DEF Foremost, Newest
<1>8. Heard'
  <2> SUFFICES ASSUME NEW p \in Pods, Runs(p) PROVE Id(p) \in Seen \cup {Id(q) : q \in heard}
    BY <1>1, <1>3 DEF Heard, Runs
  <2>1. CASE tenant[p] = "exposed"
    BY <2>1, <1>0, <1>1 DEF Heard
  <2>2. CASE tenant[p] = "listening"
    <3>1. PICK q \in heard : ComponentOf[q] = ComponentOf[p]
      BY <2>2, <1>2
    <3>2. Id(p) = Id(q)
      BY <3>1, <1>0, <1>1, <1>3 DEF OneVersion
    <3> QED
      BY <3>2
  <2> QED
    BY <2>1, <2>2 DEF Runs
<1> QED
  BY <1>4, <1>5, <1>6, <1>7, <1>8 DEF GatewayInv

LEMMA CrashKeeps ==
    ASSUME GatewayInv, Crash
    PROVE  GatewayInv'
<1>0. /\ TypeOK /\ latest \in [Components -> Nat] /\ Listening /\ Down /\ Bound /\ Rooted
      /\ RoutesLive /\ Told /\ OneVersion /\ Foremost /\ Ordered /\ Shown /\ Heard
  BY DEF GatewayInv
<1>1. /\ gateway' = "down" /\ inbox' = <<>> /\ merged' = {} /\ tree' = Trunk
      /\ remote' = [id \in Ids |-> "none"] /\ closing' = {}
      /\ request' = [r \in Requests |-> NoRequest]
      /\ UNCHANGED <<tenant, pinged, latest, restarts>>
  BY DEF Crash
<1>2. DOMAIN inbox' = {} /\ Seen' = {}
  BY <1>1 DEF Seen
<1>3. TypeOK' /\ latest' \in [Components -> Nat] /\ Listening' /\ Down' /\ Bound' /\ Told'
  BY <1>0, <1>1, <1>2 DEF TypeOK, Listening, Down, Bound, Told, NoRequest
<1>4. Rooted' /\ RoutesLive'
  BY <1>1, GatewayAssumption DEF Rooted, RoutesLive
<1>5. OneVersion'
  BY <1>0, <1>1 DEF OneVersion, Runs
<1>6. Foremost' /\ Ordered' /\ Shown' /\ Heard'
  BY <1>1, <1>2 DEF Foremost, Ordered, Shown, Heard
<1> QED
  BY <1>3, <1>4, <1>5, <1>6 DEF GatewayInv

\* A version that has been replaced comes to nothing.
LEMMA MergeKeeps ==
    ASSUME GatewayInv, MergeBranch
    PROVE  GatewayInv'
<1> DEFINE id == Head(inbox)
           fresh == id \notin merged /\ id \notin Faulty
<1>0. /\ TypeOK /\ latest \in [Components -> Nat] /\ Listening /\ Down /\ Bound /\ Rooted
      /\ RoutesLive /\ Told /\ OneVersion /\ Foremost /\ Ordered /\ Shown /\ Heard
  BY DEF GatewayInv
<1>1. /\ gateway # "down" /\ inbox # <<>> /\ merged' = merged \cup {id} /\ inbox' = Tail(inbox)
      /\ UNCHANGED <<tenant, gateway, pinged, request, latest, restarts>>
  BY DEF MergeBranch
<1>2. /\ id = inbox[1] /\ id \in Ids /\ inbox' \in Seq(Ids) /\ Len(inbox) \in Nat /\ Len(inbox) > 0
      /\ DOMAIN inbox = 1..Len(inbox) /\ DOMAIN inbox' = 1..(Len(inbox) - 1)
      /\ \A i \in DOMAIN inbox' : inbox'[i] = inbox[i + 1] /\ i + 1 \in DOMAIN inbox
  BY <1>0, <1>1 DEF TypeOK
<1>3. id \in Seen /\ Seen' = Seen
  <2>1. \A i \in DOMAIN inbox : i = 1 \/ (i - 1 \in DOMAIN inbox' /\ inbox'[i - 1] = inbox[i])
    BY <1>2
  <2>2. {inbox'[i] : i \in DOMAIN inbox'} \cup {id} = {inbox[i] : i \in DOMAIN inbox}
    BY <1>2, <2>1
  <2> QED
    BY <1>1, <2>2 DEF Seen
<1>4. fresh => /\ tree' = Joined(tree, id) /\ closing' = closing \cup Closes(tree, id)
               /\ remote' = [remote EXCEPT ![id] = "opening"]
               /\ Joined(tree, id) \in Trees
               /\ Reaches(Joined(tree, id)) = {x \in Reaches(tree) : x[1] # id[1]} \cup {id}
               /\ Closes(tree, id) \subseteq {x \in Reaches(tree) : x[1] = id[1]}
  BY <1>0, <1>2, GatewayAssumption DEF MergeBranch, Rooted, TypeOK
<1>5. ~fresh => /\ tree' = tree /\ closing' = closing
                /\ remote' = remote \/ (id \notin merged /\ remote' = [remote EXCEPT ![id] = "opening"])
  BY <1>0, <1>2 DEF MergeBranch, Rooted, TypeOK
<1> HIDE DEF fresh
<1>6. TypeOK' /\ latest' \in [Components -> Nat]
  <2>1. merged' \subseteq Ids /\ remote' \in [Ids -> {"none", "opening", "open", "closed"}]
    BY <1>0, <1>1, <1>2, <1>4, <1>5 DEF TypeOK
  <2>2. closing' \subseteq Ids
    BY <1>0, <1>4, <1>5 DEF TypeOK, Rooted
  <2> QED
    BY <2>1, <2>2, <1>0, <1>1, <1>2 DEF TypeOK
<1>7. Listening' /\ Down' /\ Bound' /\ Told' /\ OneVersion'
  BY <1>0, <1>1, <1>3 DEF Listening, Down, Bound, Told, OneVersion, Runs
<1>8. Rooted'
  <2>1. tree' \in Trees /\ Reaches(tree') \subseteq merged' \ Faulty /\ closing' \subseteq merged'
    <3>1. CASE fresh
      BY <3>1, <1>0, <1>1, <1>4 DEF Rooted, fresh
    <3>2. CASE ~fresh
      BY <3>2, <1>0, <1>1, <1>5 DEF Rooted
    <3> QED
      BY <3>1, <3>2
  <2>2. \A x \in Ids \ merged' : remote'[x] = "none"
    BY <1>0, <1>1, <1>2, <1>4, <1>5 DEF Rooted, TypeOK
  <2> QED
    BY <2>1, <2>2 DEF Rooted
<1>9. RoutesLive'
  <2>1. CASE fresh
    <3> SUFFICES ASSUME NEW x \in Reaches(tree') PROVE remote'[x] \in {"opening", "open"} /\ x \notin closing'
      BY DEF RoutesLive
    <3>1. CASE x = id
      <4>1. id \notin closing /\ id \notin Reaches(tree)
        BY <2>1, <1>0 DEF Rooted, fresh
      <4> QED
        BY <3>1, <4>1, <2>1, <1>0, <1>2, <1>4 DEF TypeOK
    <3>2. CASE x # id /\ x \in Reaches(tree) /\ x[1] # id[1]
      <4>1. remote[x] \in {"opening", "open"} /\ x \notin closing /\ x \notin Closes(tree, id) /\ x \in Ids
        BY <3>2, <2>1, <1>0, <1>4 DEF RoutesLive, Rooted, TypeOK
      <4> QED
        BY <3>2, <4>1, <2>1, <1>0, <1>4 DEF TypeOK
    <3> QED
      BY <3>1, <3>2, <2>1, <1>4
  <2>2. CASE ~fresh
    <3>1. \A x \in Reaches(tree) : x \in merged /\ x \in Ids
      BY <1>0 DEF Rooted, TypeOK
    <3> QED
      BY <2>2, <3>1, <1>0, <1>5 DEF RoutesLive, TypeOK
  <2> QED
    BY <2>1, <2>2
<1>10. Foremost'
  BY <1>0, <1>1, <1>3 DEF Foremost, Newest, Runs
<1>11. Ordered'
  <2> SUFFICES ASSUME NEW i \in DOMAIN inbox', inbox'[i] # Newest(inbox'[i][1]), inbox'[i] \notin merged'
               PROVE  /\ Newest(inbox'[i][1]) \notin merged'
                      /\ \A j \in 1..(i - 1) : inbox'[j] = Newest(inbox'[i][1]) =>
                            \E k \in 1..(j - 1) : inbox'[k] = inbox'[i]
    BY <1>1 DEF Ordered, Newest
  <2> DEFINE x == inbox[i + 1]
  <2>1. inbox'[i] = x /\ x # id /\ x \notin merged
    BY <1>1, <1>2
  <2>2. /\ Newest(x[1]) \notin merged
        /\ \A j \in 1..i : inbox[j] = Newest(x[1]) => \E k \in 1..(j - 1) : inbox[k] = x
    <3>1. i + 1 \in DOMAIN inbox /\ (i + 1) - 1 = i
      BY <1>2
    <3> QED
      BY <2>1, <3>1, <1>0 DEF Ordered
  <2> HIDE DEF x
  <2>3. id # Newest(x[1])
    <3>1. 1 \in 1..i /\ 1..(1 - 1) = {}
      BY <1>2
    <3> QED
      BY <3>1, <2>2, <1>2
  <2>4. ASSUME NEW j \in 1..(i - 1), inbox'[j] = Newest(x[1])
        PROVE  \E k \in 1..(j - 1) : inbox'[k] = x
    <3>1. j + 1 \in 1..i /\ inbox[j + 1] = Newest(x[1])
      BY <2>4, <1>2
    <3>2. PICK k \in 1..((j + 1) - 1) : inbox[k] = x
      BY <3>1, <2>2
    <3>3. k # 1
      BY <3>2, <2>1, <1>2
    <3>4. k - 1 \in 1..(j - 1) /\ inbox'[k - 1] = inbox[k]
      BY <3>2, <3>3, <1>2
    <3> QED
      BY <3>2, <3>4
  <2> QED
    BY <2>1, <2>2, <2>3, <2>4, <1>1
<1>12. Shown'
  <2> SUFFICES ASSUME NEW c \in Components, Newest(c) \in merged', Newest(c) \notin Faulty
               PROVE  {x \in Reaches(tree') : x[1] = c} = {Newest(c)}
    BY <1>1 DEF Shown, Newest
  <2>1. Newest(c)[1] = c
    BY Paired
  <2>2. CASE fresh /\ id[1] = c
    <3>1. id = Newest(c)
      <4>1. SUFFICES ASSUME id # Newest(c) PROVE FALSE
        OBVIOUS
      <4>2. 1 \in DOMAIN inbox /\ inbox[1] = id
        BY <1>2
      <4>3. Newest(c) \notin merged
        BY <4>1, <4>2, <2>2, <1>0 DEF Ordered, fresh
      <4> QED
        BY <4>1, <4>3, <1>1
    <3> QED
      BY <3>1, <2>2, <1>4
  <2>3. CASE fresh /\ id[1] # c
    <3>1. Newest(c) \in merged
      BY <2>1, <2>3, <1>1
    <3>2. {x \in Reaches(tree') : x[1] = c} = {x \in Reaches(tree) : x[1] = c}
      BY <2>3, <1>4
    <3> QED
      BY <3>1, <3>2, <1>0 DEF Shown
  <2>4. CASE ~fresh
    <3>1. Newest(c) \in merged
      BY <2>4, <1>1 DEF fresh
    <3> QED
      BY <3>1, <2>4, <1>0, <1>5 DEF Shown
  <2> QED
    BY <2>2, <2>3, <2>4
<1>13. Heard'
  BY <1>0, <1>1, <1>3 DEF Heard, Runs
<1> QED
  BY <1>6, <1>7, <1>8, <1>9, <1>10, <1>11, <1>12, <1>13 DEF GatewayInv

\* Remotes that open or close, and requests, leave the discovery as it is.
LEMMA DiscoveryStays ==
    ASSUME GatewayInv, UNCHANGED <<tenant, gateway, inbox, pinged, merged, tree, latest>>,
           TypeOK', Rooted', RoutesLive'
    PROVE  GatewayInv'
<1>1. Seen' = Seen /\ \A p : Runs(p)' <=> Runs(p)
  BY DEF Seen, Runs
<1>2. \A c : Newest(c)' = Newest(c)
  BY DEF Newest
<1>3. Listening' /\ Down' /\ Bound' /\ Told' /\ OneVersion'
  BY <1>1 DEF GatewayInv, Listening, Down, Bound, Told, OneVersion
<1>4. Foremost' /\ Ordered' /\ Shown' /\ Heard'
  BY <1>1, <1>2 DEF GatewayInv, Foremost, Ordered, Shown, Heard
<1> QED
  BY <1>3, <1>4 DEF GatewayInv

LEMMA RemoteKeeps ==
    ASSUME GatewayInv, NEW id \in Ids, Connect(id) \/ Close(id)
    PROVE  GatewayInv'
<1>1. /\ UNCHANGED <<tenant, gateway, inbox, pinged, merged, tree, latest>> /\ request' = request
      /\ TypeOK /\ Rooted /\ RoutesLive /\ remote[id] # "none"
  BY DEF GatewayInv, Connect, Close
<1>2. TypeOK'
  BY <1>1 DEF Connect, Close, TypeOK
<1>3. id \in merged
  BY <1>1 DEF Rooted
<1>4. Rooted'
  BY <1>1, <1>3 DEF Connect, Close, Rooted, TypeOK
<1>5. RoutesLive'
  <2>1. \A x \in Reaches(tree) : x \in Ids
    BY <1>1 DEF Rooted, TypeOK
  <2> QED
    BY <2>1, <1>1 DEF Connect, Close, RoutesLive, TypeOK
<1> QED
  BY <1>1, <1>2, <1>4, <1>5, DiscoveryStays

LEMMA RequestKeeps ==
    ASSUME GatewayInv, NEW r \in Requests, Invoke(r) \/ \E path \in Paths, verb \in Verbs : Arrive(r, path, verb)
    PROVE  GatewayInv'
<1>1. /\ UNCHANGED <<tenant, gateway, inbox, pinged, merged, tree, latest, remote, closing>>
      /\ TypeOK /\ Rooted /\ RoutesLive
  BY DEF GatewayInv, Invoke, Arrive
<1>2. Rooted' /\ RoutesLive'
  BY <1>1, RootedStay
<1> DEFINE phases == {"none", "NotFound", "MethodNotAllowed", "matched", "OK", "Failed"}
<1>3. DOMAIN request' = Requests /\ \A q \in Requests : request'[q].phase \in phases
  <2>1. CASE Invoke(r)
    BY <2>1, <1>1 DEF Invoke, TypeOK
  <2>2. ASSUME NEW path \in Paths, NEW verb \in Verbs, Arrive(r, path, verb)
        PROVE  DOMAIN request' = Requests /\ \A q \in Requests : request'[q].phase \in phases
    <3>1. Found(tree, path, verb).phase \in {"NotFound", "MethodNotAllowed", "matched"}
      BY <1>1, GatewayAssumption DEF Rooted
    <3> QED
      BY <2>2, <3>1, <1>1 DEF Arrive, TypeOK
  <2> QED
    BY <2>1, <2>2
<1>4. TypeOK'
  BY <1>1, <1>3 DEF TypeOK
<1> QED
  BY <1>1, <1>2, <1>4, DiscoveryStays

LEMMA GatewayKeeps == ~Together /\ GatewayInv /\ [Next]_vars => GatewayInv'
<1> SUFFICES ASSUME ~Together, GatewayInv, [Next]_vars PROVE GatewayInv'
  OBVIOUS
<1>1. ASSUME NEW p \in Pods, Expose(p) \/ Listen(p) \/ Pong(p) \/ Stop(p) PROVE GatewayInv'
  BY <1>1, ExposeKeeps, ListenKeeps, PongKeeps
<1>2. ASSUME Start \/ Ping \/ Crash \/ MergeBranch PROVE GatewayInv'
  BY <1>2, StartKeeps, PingKeeps, CrashKeeps, MergeKeeps
<1>3. ASSUME NEW id \in Ids, Connect(id) \/ Close(id) PROVE GatewayInv'
  BY <1>3, RemoteKeeps
<1>4. ASSUME NEW r \in Requests, Invoke(r) \/ \E path \in Paths, verb \in Verbs : Arrive(r, path, verb)
      PROVE  GatewayInv'
  BY <1>4, RequestKeeps
<1>5. CASE UNCHANGED vars
  <2>1. TypeOK' /\ Rooted' /\ RoutesLive'
    BY <1>5 DEF vars, GatewayInv, TypeOK, Rooted, RoutesLive
  <2> QED
    BY <1>5, <2>1, DiscoveryStays DEF vars
<1> QED
  BY <1>1, <1>2, <1>3, <1>4, <1>5 DEF Next

\* When nothing of a discovery is under way, everything that runs was merged,
\* and the last version last.
LEMMA GatewayServes == GatewayInv => RoutesServe
<1> SUFFICES ASSUME GatewayInv PROVE ServesRunning
  BY DEF GatewayInv, RoutesServe
<1> SUFFICES ASSUME Quiet, NEW c \in Components, Running(c) = {latest[c]}, <<c, latest[c]>> \notin Faulty
             PROVE  {id[2] : id \in {x \in Reaches(tree) : x[1] = c}} = {latest[c]}
  BY DEF ServesRunning
<1>1. PICK p \in Pods : ComponentOf[p] = c /\ Runs(p) /\ VersionOf[p] = latest[c]
  BY DEF Running, Runs
<1>2. gateway = "up" /\ pinged = {} /\ DOMAIN inbox = {}
  BY DEF Quiet, Settled
<1>3. Id(p) = Newest(c) /\ Id(p) \in merged
  BY <1>1, <1>2 DEF GatewayInv, Heard, Seen, Id, Newest
<1>4. {x \in Reaches(tree) : x[1] = c} = {Newest(c)}
  BY <1>3 DEF GatewayInv, Shown, Newest
<1> QED
  BY <1>4 DEF Newest

(* Whatever versions of whatever components start and stop, however often   *)
(* the gateway dies and discovers them anew, and whichever branches it does  *)
(* not understand: when a discovery is over, the tree leads to the version   *)
(* that runs, and never to a remote that is closed; if versions are changed  *)
(* between discoveries (Gateway.discover, .merge; Tenant.open).              *)
THEOREM Discovering == ASSUME ~Together PROVE Spec => []RoutesServe
<1>1. Init => GatewayInv
  BY GatewayInitial
<1>2. GatewayInv /\ [Next]_vars => GatewayInv'
  BY GatewayKeeps
<1>3. GatewayInv => RoutesServe
  BY GatewayServes
<1> QED
  BY <1>1, <1>2, <1>3, PTL DEF Spec

----------------------------------------------------------------------------
(* Media *)

\* The least of some numbers.
LEMMA Least ==
    ASSUME NEW T \in SUBSET Nat, T # {}
    PROVE  \E n \in T : \A m \in T : n <= m
<1>1. PICK n \in T : \A m \in T : ~ (<<m, n>> \in OpToRel(<, Nat))
  BY WFMin, NatLessThanWellFounded
<1>2. \A m \in T : ~ (m < n)
  BY <1>1 DEF OpToRel
<1> QED
  BY <1>2

\* What 0 has and each number passes on to the next, all have.
LEMMA Ascent ==
    ASSUME NEW n \in Nat, NEW S, 0 \in S, \A k \in 0..n : k + 1 \in 0..n /\ k \in S => k + 1 \in S
    PROVE  \A k \in 0..n : k \in S
<1> DEFINE T == {k \in 0..n : k \notin S}
<1> SUFFICES ASSUME T # {} PROVE FALSE
  OBVIOUS
<1>0. T \in SUBSET Nat
  OBVIOUS
<1>1. PICK m \in T : \A i \in T : m <= i
  BY <1>0, Least
<1>2. m \in 0..n /\ m \notin S /\ m # 0
  BY <1>1
<1>3. m - 1 \in 0..n /\ m - 1 \in S
  BY <1>1, <1>2
<1> QED
  BY <1>2, <1>3

\* The ways through the first n extensions, by number.
WaysOf(ts, es) ==
    CHOOSE f : f = [n \in 0..Len(es) |-> IF n = 0 THEN {<<>>} ELSE Extended(ts, f[n - 1], es[n])]

LEMMA WaysDefined ==
    ASSUME NEW ts, NEW es, Len(es) \in Nat
    PROVE  /\ Through(ts, es) = {taken \in WaysOf(ts, es)[Len(es)] : Skipped(ts, Reached(taken) + 1, Len(ts))}
           /\ WaysOf(ts, es)[0] = {<<>>}
           /\ \A n \in 1..Len(es) : WaysOf(ts, es)[n] = Extended(ts, WaysOf(ts, es)[n - 1], es[n])
<1> DEFINE N == Len(es)
           Begun(f, k) == /\ DOMAIN f = 0..k /\ f[0] = {<<>>}
                          /\ \A n \in 1..k : f[n] = Extended(ts, f[n - 1], es[n])
           S == {k \in 0..N : \E f : Begun(f, k)}
<1>1. 0 \in S
  <2> DEFINE g == [n \in 0..0 |-> {<<>>}]
  <2>1. Begun(g, 0)
    OBVIOUS
  <2> HIDE DEF g
  <2> QED
    BY <2>1
<1>2. \A k \in 0..N : k + 1 \in 0..N /\ k \in S => k + 1 \in S
  <2> SUFFICES ASSUME NEW k \in 0..N, k + 1 \in 0..N, NEW f, Begun(f, k) PROVE \E g : Begun(g, k + 1)
    OBVIOUS
  <2> DEFINE g == [n \in 0..(k + 1) |-> IF n = k + 1 THEN Extended(ts, f[k], es[k + 1]) ELSE f[n]]
  <2>1. DOMAIN g = 0..(k + 1) /\ g[0] = {<<>>}
    OBVIOUS
  <2>2. \A n \in 1..(k + 1) : g[n] = Extended(ts, g[n - 1], es[n])
    <3> SUFFICES ASSUME NEW n \in 1..(k + 1) PROVE g[n] = Extended(ts, g[n - 1], es[n])
      OBVIOUS
    <3>1. n - 1 \in 0..(k + 1) /\ n - 1 # k + 1 /\ n \in 0..(k + 1)
      OBVIOUS
    <3>2. g[n - 1] = f[n - 1]
      BY <3>1
    <3>3. CASE n = k + 1
      <4>1. n - 1 = k
        BY <3>3
      <4> QED
        BY <3>1, <3>2, <3>3, <4>1
    <3>4. CASE n # k + 1
      <4>1. n \in 1..k
        BY <3>4
      <4> QED
        BY <3>1, <3>2, <3>4, <4>1
    <3> QED
      BY <3>3, <3>4
  <2> HIDE DEF g
  <2> QED
    BY <2>1, <2>2
<1>3. N \in S
  <2> HIDE DEF S
  <2>1. \A k \in 0..N : k \in S
    BY <1>1, <1>2, Ascent
  <2> QED
    BY <2>1
<1>4. PICK f : Begun(f, N)
  BY <1>3
<1> DEFINE h == [n \in 0..N |-> f[n]]
<1>5. h = [n \in 0..N |-> IF n = 0 THEN {<<>>} ELSE Extended(ts, h[n - 1], es[n])]
  <2>1. \A n \in 0..N : h[n] = IF n = 0 THEN {<<>>} ELSE Extended(ts, h[n - 1], es[n])
    <3> SUFFICES ASSUME NEW n \in 0..N PROVE h[n] = IF n = 0 THEN {<<>>} ELSE Extended(ts, h[n - 1], es[n])
      OBVIOUS
    <3>1. CASE n = 0
      BY <1>4, <3>1
    <3>2. CASE n # 0
      <4>1. n \in 1..N /\ n - 1 \in 0..N
        BY <3>2
      <4> QED
        BY <1>4, <3>2, <4>1
    <3> QED
      BY <3>1, <3>2
  <2> QED
    BY <2>1
<1> HIDE DEF h
<1>6. WaysOf(ts, es) = [n \in 0..N |-> IF n = 0 THEN {<<>>} ELSE Extended(ts, WaysOf(ts, es)[n - 1], es[n])]
  BY <1>5 DEF WaysOf
<1>7. Through(ts, es) = {taken \in WaysOf(ts, es)[N] : Skipped(ts, Reached(taken) + 1, Len(ts))}
  BY DEF Through, WaysOf
<1> DEFINE w == WaysOf(ts, es)
<1> HIDE DEF w
<1>8. w = [n \in 0..N |-> IF n = 0 THEN {<<>>} ELSE Extended(ts, w[n - 1], es[n])]
  BY <1>6 DEF w
<1>9. w[0] = {<<>>} /\ \A n \in 1..N : w[n] = Extended(ts, w[n - 1], es[n])
  <2>1. \A n \in 0..N : w[n] = IF n = 0 THEN {<<>>} ELSE Extended(ts, w[n - 1], es[n])
    BY <1>8
  <2>2. 0 \in 0..N /\ \A n \in 1..N : n \in 0..N /\ n # 0
    OBVIOUS
  <2> QED
    BY <2>1, <2>2
<1> QED
  BY <1>7, <1>9 DEF w

\* A way through some extensions that begins at the first transformation.
Way(ts, es, taken, n) ==
    /\ taken \in Seq(1..Len(ts)) /\ Len(taken) = n
    /\ \A i \in 1..n : Matches(ts[taken[i]], es[i])
    /\ \A i, j \in 1..n : i < j => taken[i] < taken[j]
    /\ \A i \in 1..n : taken[i] <= Reached(taken)
    /\ Reached(taken) \in 0..Len(ts)
    /\ \A t \in 1..Reached(taken) : ts[t].optional \/ \E i \in 1..n : taken[i] = t

LEMMA EarliestIs ==
    ASSUME NEW S \in SUBSET Nat, S # {}
    PROVE  Earliest(S) \in S /\ \A j \in S : Earliest(S) <= j
BY Least DEF Earliest

\* Appending to a way.
LEMMA WayExtended ==
    ASSUME NEW ts, Len(ts) \in Nat, NEW es, NEW taken, NEW n \in Nat, Way(ts, es, taken, n),
           NEW i \in Onward(ts, taken, es[n + 1])
    PROVE  Way(ts, es, Append(taken, i), n + 1) /\ Reached(Append(taken, i)) = i
<1> DEFINE next == Append(taken, i)
<1>1. /\ taken \in Seq(1..Len(ts)) /\ Len(taken) = n /\ Reached(taken) \in 0..Len(ts)
      /\ i \in (Reached(taken) + 1)..Len(ts) /\ Matches(ts[i], es[n + 1]) /\ Skipped(ts, Reached(taken) + 1, i - 1)
  BY DEF Way, Onward
<1>2. /\ i \in 1..Len(ts) /\ i > Reached(taken)
      /\ \A t \in (Reached(taken) + 1)..(i - 1) : ts[t].optional
  BY <1>1 DEF Skipped
<1>3. /\ next \in Seq(1..Len(ts)) /\ Len(next) = n + 1 /\ next[n + 1] = i
      /\ \A k \in 1..n : next[k] = taken[k]
  BY <1>1, <1>2
<1>4. Reached(next) = i
  <2> HIDE DEF next
  <2>1. next # <<>>
    BY <1>3
  <2> QED
    BY <1>3, <2>1 DEF Reached
<1> HIDE DEF next
<1>5. \A k \in 1..n : taken[k] <= Reached(taken) /\ Matches(ts[taken[k]], es[k]) /\ taken[k] \in 1..Len(ts)
  BY <1>1 DEF Way
<1>6. \A k \in 1..(n + 1) : k \in 1..n \/ k = n + 1
  OBVIOUS
<1>7. \A k \in 1..(n + 1) : Matches(ts[next[k]], es[k])
  BY <1>1, <1>3, <1>5, <1>6
<1>8. \A k \in 1..(n + 1) : next[k] <= i
  BY <1>1, <1>2, <1>3, <1>5, <1>6
<1>9. \A k, l \in 1..(n + 1) : k < l => next[k] < next[l]
  <2> SUFFICES ASSUME NEW k \in 1..(n + 1), NEW l \in 1..(n + 1), k < l PROVE next[k] < next[l]
    OBVIOUS
  <2>1. k \in 1..n
    OBVIOUS
  <2>2. CASE l = n + 1
    BY <1>1, <1>2, <1>3, <1>5, <2>1, <2>2
  <2>3. CASE l \in 1..n
    BY <1>3, <2>1, <2>3 DEF Way
  <2> QED
    BY <1>6, <2>2, <2>3
<1>10. \A t \in 1..i : ts[t].optional \/ \E k \in 1..(n + 1) : next[k] = t
  <2> SUFFICES ASSUME NEW t \in 1..i PROVE ts[t].optional \/ \E k \in 1..(n + 1) : next[k] = t
    OBVIOUS
  <2>1. CASE t = i
    BY <1>3, <2>1
  <2>2. CASE t \in (Reached(taken) + 1)..(i - 1)
    BY <1>2, <2>2
  <2>3. CASE t \in 1..Reached(taken)
    <3>1. ts[t].optional \/ \E k \in 1..n : taken[k] = t
      BY <2>3 DEF Way
    <3>2. 1..n \subseteq 1..(n + 1)
      OBVIOUS
    <3> QED
      BY <1>3, <3>1, <3>2
  <2> QED
    BY <1>1, <1>2, <2>1, <2>2, <2>3
<1>11. Reached(next) \in 0..Len(ts)
  BY <1>2, <1>4
<1>12. \A k \in 1..(n + 1) : next[k] <= Reached(next)
  BY <1>4, <1>8
<1>13. \A t \in 1..Reached(next) : ts[t].optional \/ \E k \in 1..(n + 1) : next[k] = t
  BY <1>4, <1>10
<1>14. Way(ts, es, next, n + 1)
  BY <1>3, <1>7, <1>9, <1>11, <1>12, <1>13 DEF Way
<1> QED
  BY <1>4, <1>14 DEF next

\* Whatever the steps lead to is a way.
LEMMA WaysSound ==
    ASSUME NEW ts, Len(ts) \in Nat, NEW es, Len(es) \in Nat
    PROVE  \A n \in 0..Len(es) : \A taken \in WaysOf(ts, es)[n] : Way(ts, es, taken, n)
<1> DEFINE W == WaysOf(ts, es)
           S == {n \in 0..Len(es) : \A taken \in W[n] : Way(ts, es, taken, n)}
<1>1. W[0] = {<<>>} /\ \A n \in 1..Len(es) : W[n] = Extended(ts, W[n - 1], es[n])
  BY WaysDefined
<1> HIDE DEF W
<1>2. 0 \in S
  <2>1. Way(ts, es, <<>>, 0)
    BY DEF Way, Reached
  <2> QED
    BY <1>1, <2>1
<1>3. \A n \in 0..Len(es) : n + 1 \in 0..Len(es) /\ n \in S => n + 1 \in S
  <2> SUFFICES ASSUME NEW n \in 0..Len(es), n + 1 \in 0..Len(es), n \in S, NEW next \in W[n + 1]
               PROVE  Way(ts, es, next, n + 1)
    OBVIOUS
  <2>1. W[n + 1] = Extended(ts, W[n], es[n + 1])
    <3>1. n + 1 \in 1..Len(es) /\ (n + 1) - 1 = n
      OBVIOUS
    <3> QED
      BY <1>1, <3>1
  <2>2. PICK taken \in W[n] : /\ Onward(ts, taken, es[n + 1]) # {}
                             /\ next = Append(taken, Earliest(Onward(ts, taken, es[n + 1])))
    BY <2>1 DEF Extended
  <2>3. Way(ts, es, taken, n)
    OBVIOUS
  <2>4. Onward(ts, taken, es[n + 1]) \in SUBSET Nat
    BY <2>3 DEF Onward, Way
  <2>5. Earliest(Onward(ts, taken, es[n + 1])) \in Onward(ts, taken, es[n + 1])
    BY <2>2, <2>4, EarliestIs
  <2> QED
    BY <2>2, <2>3, <2>5, WayExtended
<1>4. \A n \in 0..Len(es) : n \in S
  <2> HIDE DEF S
  <2> QED
    BY <1>2, <1>3, Ascent
<1> QED
  BY <1>4 DEF W

\* Of a way through all extensions, the required transformations are part.
LEMMA ThroughSound ==
    ASSUME NEW ts, Len(ts) \in Nat, DOMAIN ts = 1..Len(ts), NEW es, Len(es) \in Nat, DOMAIN es = 1..Len(es),
           NEW taken \in Through(ts, es)
    PROVE  taken \in [DOMAIN es -> DOMAIN ts] /\ Chosen(ts, es, taken)
<1>1. taken \in WaysOf(ts, es)[Len(es)] /\ Skipped(ts, Reached(taken) + 1, Len(ts))
  BY WaysDefined
<1>2. Way(ts, es, taken, Len(es))
  <2>1. Len(es) \in 0..Len(es)
    OBVIOUS
  <2> QED
    BY <1>1, <2>1, WaysSound
<1>3. taken \in [1..Len(es) -> 1..Len(ts)]
  BY <1>2 DEF Way
<1>4. \A t \in 1..Len(ts) : ts[t].optional \/ \E i \in 1..Len(es) : taken[i] = t
  <2> SUFFICES ASSUME NEW t \in 1..Len(ts) PROVE ts[t].optional \/ \E i \in 1..Len(es) : taken[i] = t
    OBVIOUS
  <2>1. CASE t <= Reached(taken)
    <3>1. t \in 1..Reached(taken)
      BY <1>2, <2>1 DEF Way
    <3> QED
      BY <1>2, <3>1 DEF Way
  <2>2. CASE ~(t <= Reached(taken))
    <3>1. t \in (Reached(taken) + 1)..Len(ts)
      BY <1>2, <2>2 DEF Way
    <3> QED
      BY <1>1, <3>1 DEF Skipped
  <2>3. t <= Reached(taken) \/ ~(t <= Reached(taken))
    OBVIOUS
  <2> QED
    BY <2>1, <2>2
<1> QED
  BY <1>2, <1>3, <1>4 DEF Chosen, Way

\* If each extension can be one transformation only, the way that there is is found.
LEMMA ThroughComplete ==
    ASSUME NEW ts, Len(ts) \in Nat, DOMAIN ts = 1..Len(ts), NEW es, Len(es) \in Nat, DOMAIN es = 1..Len(es),
           \A i \in DOMAIN es : \A t, u \in DOMAIN ts :
              Matches(ts[t], es[i]) /\ Matches(ts[u], es[i]) => t = u,
           NEW w \in [DOMAIN es -> DOMAIN ts], Chosen(ts, es, w)
    PROVE  Through(ts, es) # {}
<1> DEFINE W == WaysOf(ts, es)
           N == Len(es)
           Along(n) == \E taken \in W[n] : \A i \in 1..n : taken[i] = w[i]
           S == {n \in 0..N : Along(n)}
<1>1. W[0] = {<<>>} /\ \A n \in 1..N : W[n] = Extended(ts, W[n - 1], es[n])
  BY WaysDefined
<1>2. \A n \in 0..N : \A taken \in W[n] : Way(ts, es, taken, n)
  BY WaysSound
<1>0. Through(ts, es) = {taken \in W[N] : Skipped(ts, Reached(taken) + 1, Len(ts))}
  BY WaysDefined
<1> HIDE DEF W
<1>3. /\ \A i \in 1..N : w[i] \in 1..Len(ts) /\ Matches(ts[w[i]], es[i])
      /\ \A i, j \in 1..N : i < j => w[i] < w[j]
      /\ \A t \in 1..Len(ts) : ts[t].optional \/ \E i \in 1..N : w[i] = t
  BY DEF Chosen
<1>4. ASSUME NEW n \in 0..N, NEW taken \in W[n], \A i \in 1..n : taken[i] = w[i]
      PROVE  /\ Reached(taken) = IF n = 0 THEN 0 ELSE w[n]
             /\ \A t \in (Reached(taken) + 1)..Len(ts) : ts[t].optional \/ \E i \in (n + 1)..N : w[i] = t
  <2>1. Way(ts, es, taken, n)
    BY <1>2
  <2>2. Reached(taken) = IF n = 0 THEN 0 ELSE w[n]
    <3>1. CASE n = 0
      BY <2>1, <3>1 DEF Way, Reached
    <3>2. CASE n # 0
      <4>1. n \in 1..n /\ taken # <<>> /\ Len(taken) = n
        BY <2>1, <3>2 DEF Way
      <4> QED
        BY <1>4, <3>2, <4>1 DEF Reached
    <3> QED
      BY <3>1, <3>2
  <2>3. \A t \in (Reached(taken) + 1)..Len(ts) : ts[t].optional \/ \E i \in (n + 1)..N : w[i] = t
    <3> SUFFICES ASSUME NEW t \in (Reached(taken) + 1)..Len(ts), ~ts[t].optional
                 PROVE  \E i \in (n + 1)..N : w[i] = t
      OBVIOUS
    <3>1. Reached(taken) \in 0..Len(ts)
      BY <2>1 DEF Way
    <3>2. t \in 1..Len(ts) /\ t > Reached(taken)
      BY <3>1
    <3>3. PICK i \in 1..N : w[i] = t
      BY <1>3, <3>2
    <3>4. ASSUME i <= n PROVE FALSE
      <4>1. n # 0 /\ n \in 1..N /\ Reached(taken) = w[n]
        BY <2>2, <3>4
      <4>2. i = n \/ w[i] < w[n]
        BY <1>3, <3>4, <4>1
      <4>3. w[i] <= w[n]
        BY <1>3, <4>1, <4>2
      <4> QED
        BY <1>3, <3>2, <3>3, <4>1, <4>3
    <3>5. i \in (n + 1)..N
      BY <3>4
    <3> QED
      BY <3>3, <3>5
  <2> QED
    BY <2>2, <2>3
<1>5. 0 \in S
  BY <1>1
<1>6. \A n \in 0..N : n + 1 \in 0..N /\ n \in S => n + 1 \in S
  <2> SUFFICES ASSUME NEW n \in 0..N, n + 1 \in 0..N, NEW taken \in W[n], \A i \in 1..n : taken[i] = w[i]
               PROVE  Along(n + 1)
    OBVIOUS
  <2> DEFINE at == Reached(taken)
             i == w[n + 1]
             onward == Onward(ts, taken, es[n + 1])
  <2>1. n + 1 \in 1..N /\ (n + 1) - 1 = n
    OBVIOUS
  <2>2. i \in 1..Len(ts) /\ Matches(ts[i], es[n + 1])
    BY <1>3, <2>1
  <2>3. /\ at = IF n = 0 THEN 0 ELSE w[n]
        /\ \A t \in (at + 1)..Len(ts) : ts[t].optional \/ \E k \in (n + 1)..N : w[k] = t
    BY <1>4
  <2>4. at \in 0..Len(ts) /\ Way(ts, es, taken, n)
    BY <1>2 DEF Way
  <2>5. at < i
    <3>1. CASE n = 0
      BY <2>2, <2>3, <3>1
    <3>2. CASE n # 0
      <4>1. n \in 1..N /\ n < n + 1
        BY <3>2
      <4> QED
        BY <1>3, <2>1, <2>3, <3>2, <4>1
    <3> QED
      BY <3>1, <3>2
  <2>6. \A t \in (at + 1)..(i - 1) : ts[t].optional
    <3> SUFFICES ASSUME NEW t \in (at + 1)..(i - 1) PROVE ts[t].optional
      OBVIOUS
    <3>1. t \in (at + 1)..Len(ts) /\ t < i
      BY <2>2, <2>4
    <3>2. ASSUME NEW k \in (n + 1)..N, w[k] = t PROVE FALSE
      <4>1. k \in 1..N /\ (k = n + 1 \/ n + 1 < k)
        OBVIOUS
      <4>2. i <= w[k]
        BY <1>3, <2>1, <2>2, <4>1
      <4> QED
        BY <1>3, <2>2, <3>1, <3>2, <4>1, <4>2
    <3> QED
      BY <2>3, <3>1, <3>2
  <2>7. i \in onward
    BY <2>2, <2>4, <2>5, <2>6 DEF Onward, Skipped
  <2>8. onward \in SUBSET (1..Len(ts)) /\ \A t \in onward : Matches(ts[t], es[n + 1])
    BY <2>4 DEF Onward
  <2>9. Earliest(onward) = i
    <3>1. onward \in SUBSET Nat
      BY <2>8
    <3>2. Earliest(onward) \in onward
      BY <2>7, <3>1, EarliestIs
    <3> QED
      BY <2>1, <2>2, <2>8, <3>2
  <2>10. Append(taken, i) \in W[n + 1]
    <3>1. W[n + 1] = Extended(ts, W[n], es[n + 1])
      BY <1>1, <2>1
    <3> QED
      BY <2>7, <2>9, <3>1 DEF Extended
  <2>11. \A k \in 1..(n + 1) : Append(taken, i)[k] = w[k]
    <3>1. taken \in Seq(1..Len(ts)) /\ Len(taken) = n
      BY <2>4 DEF Way
    <3>2. Append(taken, i)[n + 1] = i /\ \A k \in 1..n : Append(taken, i)[k] = taken[k]
      BY <2>2, <3>1
    <3>3. \A k \in 1..(n + 1) : k \in 1..n \/ k = n + 1
      OBVIOUS
    <3> QED
      BY <3>2, <3>3
  <2> QED
    BY <2>10, <2>11
<1>7. N \in S
  <2> HIDE DEF S
  <2>1. \A n \in 0..N : n \in S
    BY <1>5, <1>6, Ascent
  <2> QED
    BY <2>1
<1>8. PICK taken \in W[N] : \A i \in 1..N : taken[i] = w[i]
  BY <1>7
<1>9. \A t \in (Reached(taken) + 1)..Len(ts) : ts[t].optional
  <2>1. (N + 1)..N = {} /\ N \in 0..N
    OBVIOUS
  <2> QED
    BY <1>4, <1>8, <2>1
<1> QED
  BY <1>0, <1>8, <1>9 DEF Skipped

----------------------------------------------------------------------------
\* The process, its requests and their answers.
Configured ==
    /\ setting \in Settings /\ started \in {Nil, "refused", "failed", "up"}
    /\ release # Nil /\ started = Nil => release.variables = SecretVariables
    /\ \E V : answers \in Seq(V)

\* A request under way is one of those that are made, and refused in time.
Requested ==
    demand # Nil =>
        /\ demand = [at |-> demand.at, path |-> demand.path, storage |-> demand.storage, asked |-> demand.asked]
        /\ demand.at \in {"preflight", "put", "get", "delete", "workflow", "store", "download"}
        /\ demand.asked \in setting.demands /\ demand.asked.verb \in DOMAIN setting.methods
        /\ demand.at # "preflight" => demand.storage \in DOMAIN Declared
        /\ demand.at \in {"store", "download"} => Refused = Nil
        /\ Len(answers) < MaxDemands

\* Entries are of answers.
Kept == \A key \in DOMAIN stored : stored[key] \in Entries /\ stored[key].by \in DOMAIN answers

\* A workflow is of an answer, one that deletes of a request to delete.
OfAnswers ==
    \A w \in working :
        /\ w.by \in DOMAIN answers /\ w.path = answers[w.by].path
        /\ w.does = "delete" => Did(w.by, {"delete"}, {"stream"})

\* What was put and not touched since is stored, as it was answered.
Remains ==
    \A i \in DOMAIN answers :
        Did(i, {"store"}, {"entry", "stream"}) /\ Untouched(answers[i].path, i, Len(answers) + 1) =>
            LET key == <<answers[i].storage, answers[i].path>>
            IN  key \in DOMAIN stored /\ stored[key] = answers[i].entry /\ answers[i].entry.by = i

\* What was deleted and not put since is not stored, unless Cloudinary has it as
\* something else.
Cleared ==
    \A i \in DOMAIN answers :
        /\ Deleted(i)
        /\ \A k \in i..Len(answers) : answers[k].path # answers[i].path \/ answers[k].at # "store"
        => LET key == <<answers[i].storage, answers[i].path>>
           IN  key \in DOMAIN stored => ~OfType(answers[i].storage, stored[key])

History == FoundAgain /\ Gone
MediaInv ==
    /\ Configured /\ Requested /\ Kept /\ OfAnswers /\ Remains /\ Cleared
    /\ Starts /\ History /\ OriginsTrusted /\ ToldWhere

\* What a request reads is an entry.
LEMMA FoundIs ==
    ASSUME Kept, NEW s, NEW path, NEW extensions
    PROVE  LET found == Find(s, path, extensions) key == <<s, path>> IN
           /\ found # Nil => key \in DOMAIN stored /\ OfType(s, stored[key]) /\ found.by = stored[key].by
           /\ /\ key \in DOMAIN stored /\ extensions = <<>> /\ OfType(s, stored[key]) /\ Reachable(s, path, <<>>)
              => found # Nil
<1> DEFINE key == <<s, path>>
           e == stored[key]
<1>1. ASSUME key \in DOMAIN stored
      PROVE  /\ e \in Entries /\ e # Nil /\ Metadata(e) \in Entries /\ Metadata(e) # Nil /\ Metadata(e).by = e.by
  <2>1. e \in Entries
    BY <1>1 DEF Kept
  <2>2. PICK x \in Settings : e \in [kind : {d.stream : d \in x.demands},
                                     origin : {d.reference : d \in x.demands} \cup {Nil}, by : 1..MaxDemands]
    BY <2>1 DEF Entries
  <2>3. Metadata(e) \in [kind : {d.stream : d \in x.demands},
                         origin : {d.reference : d \in x.demands} \cup {Nil}, by : 1..MaxDemands]
        /\ Metadata(e).by = e.by
    BY <2>2 DEF Metadata
  <2>4. Metadata(e) \in Entries
    BY <2>3 DEF Entries
  <2> QED
    BY <2>1, <2>3, <2>4, MediaAssumption
<1> QED
  BY <1>1 DEF Find, FindMedia, FindObject, OfType

\* What an answer to a request for octets says.
Tells(r) ==
    r.at = "get" =>
        LET found == Find(r.storage, r.path, r.asked.extensions) IN
        /\ r.entry \in {Nil, found}
        /\ r.body \in {Nil, "content", "entry"} /\ r.status \in {0, 404} => r.entry = found

\* One more answer.
LEMMA Added ==
    ASSUME Configured, NEW r, answers' = Append(answers, r)
    PROVE  /\ Len(answers) \in Nat /\ DOMAIN answers = 1..Len(answers)
           /\ Len(answers') = Len(answers) + 1 /\ DOMAIN answers' = 1..(Len(answers) + 1)
           /\ \A k \in 1..Len(answers) : answers'[k] = answers[k] /\ k \in 1..(Len(answers) + 1)
           /\ answers'[Len(answers) + 1] = r /\ Len(answers) + 1 \in 1..(Len(answers) + 1)
           /\ \A k \in 1..(Len(answers) + 1) : k \in 1..Len(answers) \/ k = Len(answers) + 1
           /\ \E V : answers' \in Seq(V)
<1>1. PICK V : answers \in Seq(V)
  BY DEF Configured
<1>2. answers \in Seq(V \cup {r})
  BY <1>1
<1>3. answers' \in Seq(V \cup {r})
  BY <1>2
<1> QED
  BY <1>2, <1>3

\* What was untouched before and is not touched now.
LEMMA UntouchedSince ==
    ASSUME Configured, NEW r, answers' = Append(answers, r), NEW path, NEW i \in 1..Len(answers),
           Untouched(path, i, Len(answers) + 1)'
    PROVE  /\ Untouched(path, i, Len(answers) + 1)
           /\ r.path = path => r.at # "delete" /\ ~(r.at = "store" /\ r.body \in {"entry", "stream"})
<1> DEFINE n == Len(answers)
<1>1. /\ n \in Nat /\ \A k \in 1..n : answers'[k] = answers[k]
      /\ answers'[n + 1] = r /\ n' = n + 1
  BY Added
<1> HIDE DEF n
<1>2. /\ \A k \in (i + 1)..(n + 1) : answers'[k].path = path =>
             answers'[k].at # "delete" /\ ~Did(k, {"store"}, {"entry", "stream"})'
      /\ \A k \in 1..(n + 1) : answers'[k].path = path => ~Did(k, {"delete"}, {"stream"})'
  <2>1. (n' + 1) - 1 = n + 1
    BY <1>1
  <2> QED
    BY <2>1 DEF Untouched, n
<1>3. n + 1 \in (i + 1)..(n + 1) /\ \A k \in (i + 1)..((n + 1) - 1) : k \in (i + 1)..(n + 1) /\ k \in 1..n
  BY <1>1 DEF n
<1>4. \A k \in 1..((n + 1) - 1) : k \in 1..n /\ k \in 1..(n + 1)
  BY <1>1
<1> QED
  BY <1>1, <1>2, <1>3, <1>4 DEF Untouched, Did, n

\* An answer that tells what there is keeps the promise of what is found.
LEMMA Remembered ==
    ASSUME MediaInv, setting' = setting, NEW r, answers' = Append(answers, r), Tells(r)
    PROVE  History'
<1> DEFINE n == Len(answers)
           found == Find(r.storage, r.path, r.asked.extensions)
<1>1. /\ n \in Nat /\ DOMAIN answers = 1..n /\ DOMAIN answers' = 1..(n + 1)
      /\ \A k \in 1..n : answers'[k] = answers[k]
      /\ answers'[n + 1] = r /\ \A k \in 1..(n + 1) : k \in 1..n \/ k = n + 1
  BY Added DEF MediaInv
<1> HIDE DEF n
<1>2. /\ \A i, j \in 1..(n + 1) : i < j => i \in 1..n
      /\ \A j \in 1..(n + 1) : \A k \in 1..(j - 1) : k \in 1..n
      /\ \A j \in 1..n : \A k \in 1..j : k \in 1..n
  BY <1>1
<1>3. \A s, e : OfType(s, e)' <=> OfType(s, e)
  BY DEF OfType, Declared
<1>4. \A s, p : Reachable(s, p, <<>>)' <=> Reachable(s, p, <<>>)
  BY DEF Reachable, Declared
<1>5. \A i, j \in 1..(n + 1) : i < j =>
         \A path : Untouched(path, i, j)' => Untouched(path, i, j)
  <2> SUFFICES ASSUME NEW i \in 1..(n + 1), NEW j \in 1..(n + 1), i < j, NEW path, Untouched(path, i, j)'
               PROVE  Untouched(path, i, j)
    OBVIOUS
  <2>1. /\ \A k \in 1..(j - 1) : k \in 1..n /\ answers'[k] = answers[k]
        /\ \A k \in (i + 1)..(j - 1) : k \in 1..(j - 1)
    BY <1>1, <1>2
  <2> QED
    BY <2>1 DEF Untouched, Did
<1>6. FoundAgain'
  <2> SUFFICES ASSUME NEW i \in 1..(n + 1), NEW j \in 1..(n + 1),
                      i < j, answers'[i].path = answers'[j].path, answers'[i].storage = answers'[j].storage,
                      Did(i, {"store"}, {"entry", "stream"})', Did(j, {"get"}, {Nil, "content", "entry"})',
                      answers'[j].status \in {0, 404}, Untouched(answers'[j].path, i, j),
                      answers'[j].asked.extensions = <<>>, OfType(answers'[j].storage, answers'[i].entry),
                      Reachable(answers'[j].storage, answers'[j].path, <<>>)
               PROVE  answers'[j].entry # Nil /\ answers'[j].entry.by = i
    BY <1>1, <1>3, <1>4, <1>5 DEF FoundAgain
  <2>1. i \in 1..n /\ answers'[i] = answers[i] /\ Did(i, {"store"}, {"entry", "stream"})
    BY <1>1, <1>2 DEF Did
  <2>2. CASE j \in 1..n
    <3>1. answers'[j] = answers[j] /\ Did(j, {"get"}, {Nil, "content", "entry"})
      BY <1>1, <2>2 DEF Did
    <3>2. FoundAgain
      BY DEF MediaInv, History
    <3>3. /\ Untouched(answers[j].path, i, j) /\ answers[j].status \in {0, 404}
          /\ answers[i].path = answers[j].path /\ answers[i].storage = answers[j].storage
          /\ answers[j].asked.extensions = <<>> /\ OfType(answers[j].storage, answers[i].entry)
          /\ Reachable(answers[j].storage, answers[j].path, <<>>)
          /\ i \in DOMAIN answers /\ j \in DOMAIN answers
      BY <1>1, <2>1, <2>2, <3>1
    <3>4. answers[j].entry # Nil /\ answers[j].entry.by = i
      BY <2>1, <3>1, <3>2, <3>3 DEF FoundAgain
    <3> QED
      BY <3>1, <3>4
  <2>3. CASE j = n + 1
    <3> DEFINE key == <<answers[i].storage, answers[i].path>>
    <3>1. answers'[j] = r
      BY <1>1, <2>3
    <3>2. key \in DOMAIN stored /\ stored[key] = answers[i].entry /\ answers[i].entry.by = i
      BY <1>1, <2>1, <2>3, <3>1 DEF MediaInv, Remains, n
    <3>3. r.entry = found /\ r.asked.extensions = <<>> /\ key = <<r.storage, r.path>>
      BY <2>1, <3>1 DEF Tells, Did
    <3>4. OfType(r.storage, stored[key]) /\ Reachable(r.storage, r.path, <<>>)
      BY <2>1, <3>1, <3>2
    <3>5. found # Nil /\ found.by = stored[key].by
      <4> HIDE DEF found, key
      <4>1. <<r.storage, r.path>> \in DOMAIN stored /\ OfType(r.storage, stored[<<r.storage, r.path>>])
        BY <3>2, <3>3, <3>4
      <4>2. found # Nil
        BY <3>3, <3>4, <4>1, FoundIs DEF MediaInv, found
      <4> QED
        BY <3>3, <4>2, FoundIs DEF MediaInv, found
    <3> QED
      BY <3>1, <3>2, <3>3, <3>5
  <2> QED
    BY <1>1, <2>2, <2>3
<1>7. Gone'
  <2> SUFFICES ASSUME NEW i \in 1..(n + 1), NEW j \in 1..(n + 1),
                      i < j, answers'[i].path = answers'[j].path, answers'[i].storage = answers'[j].storage,
                      Deleted(i)', answers'[j].at = "get",
                      \A k \in i..j : answers'[k].path # answers'[i].path \/ answers'[k].at # "store"
               PROVE  answers'[j].entry = Nil \/ ~OfType(answers'[j].storage, answers'[j].entry)
    BY <1>1, <1>3 DEF Gone
  <2>1. i \in 1..n /\ answers'[i] = answers[i] /\ Deleted(i)
    BY <1>1, <1>2 DEF Did, Deleted
  <2>2. CASE j \in 1..n
    <3>1. answers'[j] = answers[j]
      BY <1>1, <2>2
    <3>2. \A k \in i..j : answers[k].path # answers[i].path \/ answers[k].at # "store"
      <4>1. \A k \in i..j : k \in 1..n
        BY <2>1, <2>2, <1>1
      <4> QED
        BY <1>1, <2>1, <4>1
    <3>3. Gone
      BY DEF MediaInv, History
    <3> QED
      BY <1>1, <2>1, <2>2, <3>1, <3>2, <3>3 DEF Gone
  <2>3. CASE j = n + 1
    <3> DEFINE key == <<answers[i].storage, answers[i].path>>
    <3>1. answers'[j] = r
      BY <1>1, <2>3
    <3>2. \A k \in i..n : answers[k].path # answers[i].path \/ answers[k].at # "store"
      <4>1. \A k \in i..n : k \in i..j /\ k \in 1..n
        BY <1>1, <2>1, <2>3
      <4> QED
        BY <1>1, <2>1, <4>1
    <3>3. key \in DOMAIN stored => ~OfType(answers[i].storage, stored[key])
      BY <1>1, <2>1, <3>2 DEF MediaInv, Cleared, n
    <3>4. key = <<r.storage, r.path>> /\ r.storage = answers[i].storage
      BY <2>1, <3>1
    <3>5. r.entry = Nil \/ r.entry = found
      BY <3>1 DEF Tells
    <3>6. found = Nil
      <4> HIDE DEF found, key
      <4>1. ~(<<r.storage, r.path>> \in DOMAIN stored /\ OfType(r.storage, stored[<<r.storage, r.path>>]))
        BY <3>3, <3>4
      <4> QED
        BY <4>1, FoundIs DEF MediaInv, found
    <3> QED
      BY <3>1, <3>5, <3>6
  <2> QED
    BY <1>1, <2>2, <2>3
<1> QED
  BY <1>6, <1>7 DEF History

\* What a request that is answered leaves as it is.
LEMMA AnsweredSame ==
    ASSUME MediaInv, setting' = setting, release' = release, started' = started, demand' = Nil,
           NEW r, answers' = Append(answers, r), Tells(r)
    PROVE  /\ Configured' /\ Requested' /\ Starts' /\ History'
           /\ \A k \in 1..Len(answers) : answers'[k] = answers[k] /\ k \in DOMAIN answers /\ k \in DOMAIN answers'
           /\ DOMAIN answers = 1..Len(answers) /\ DOMAIN answers' = 1..(Len(answers) + 1)
           /\ Len(answers) \in Nat /\ answers'[Len(answers) + 1] = r /\ Len(answers') = Len(answers) + 1
           /\ \A k \in DOMAIN answers' : k \in DOMAIN answers \/ k = Len(answers) + 1
           /\ \A s, e : OfType(s, e)' <=> OfType(s, e)
<1>1. /\ Len(answers) \in Nat /\ DOMAIN answers = 1..Len(answers)
      /\ Len(answers') = Len(answers) + 1 /\ DOMAIN answers' = 1..(Len(answers) + 1)
      /\ \A k \in 1..Len(answers) : answers'[k] = answers[k] /\ k \in 1..(Len(answers) + 1)
      /\ answers'[Len(answers) + 1] = r
      /\ \A k \in 1..(Len(answers) + 1) : k \in 1..Len(answers) \/ k = Len(answers) + 1
      /\ \E V : answers' \in Seq(V)
  BY Added DEF MediaInv
<1>2. Configured'
  BY <1>1 DEF MediaInv, Configured, SecretVariables, Declared
<1>3. Starts'
  BY DEF MediaInv, Starts, Created, Declared
<1>4. Requested'
  BY DEF Requested
<1>5. History'
  BY Remembered
<1>7. \A s, e : OfType(s, e)' <=> OfType(s, e)
  BY DEF OfType, Declared
<1> QED
  BY <1>1, <1>2, <1>3, <1>4, <1>5, <1>7

\* An answer for which nothing was put or deleted.
LEMMA Unmoved ==
    ASSUME MediaInv, setting' = setting, release' = release, started' = started, stored' = stored, demand' = Nil,
           NEW r, answers' = Append(answers, r), Tells(r),
           ~(r.at = "store" /\ r.body \in {"entry", "stream"}),
           ~(r.at = "delete" /\ r.body = Nil /\ r.status = 0),
           \A w \in working' : \/ w \in working
                               \/ /\ w.by = Len(answers) + 1 /\ w.path = r.path /\ w.told = w.path
                                  /\ w.does = "delete" => r.at = "delete" /\ r.body = "stream"
    PROVE  MediaInv'
<1> DEFINE n == Len(answers)
<1>1. /\ Configured' /\ Requested' /\ Starts' /\ History'
      /\ \A k \in 1..n : answers'[k] = answers[k] /\ k \in DOMAIN answers /\ k \in DOMAIN answers'
      /\ DOMAIN answers = 1..n /\ DOMAIN answers' = 1..(n + 1)
      /\ n \in Nat /\ answers'[n + 1] = r /\ n' = n + 1
      /\ \A k \in DOMAIN answers' : k \in DOMAIN answers \/ k = n + 1
      /\ \A s, e : OfType(s, e)' <=> OfType(s, e)
  BY AnsweredSame
<1>2. Configured
  BY DEF MediaInv
<1> HIDE DEF n
<1>3. Kept'
  BY <1>1 DEF MediaInv, Kept
<1>4. OriginsTrusted'
  <2> SUFFICES ASSUME NEW key \in DOMAIN stored, stored[key].origin # Nil
               PROVE  LET asked == answers'[stored[key].by].asked
                      IN  asked.empty /\ stored[key].origin \in Acting(setting.methods[asked.verb])[1].value.trust
    BY DEF OriginsTrusted, Actions
  <2>1. stored[key].by \in 1..n
    BY <1>1 DEF MediaInv, Kept
  <2> QED
    BY <1>1, <2>1 DEF MediaInv, OriginsTrusted, Actions
<1>5. OfAnswers'
  BY <1>1 DEF MediaInv, OfAnswers, Did, n
<1>6. ToldWhere'
  <2> SUFFICES ASSUME NEW w \in working', w.told # w.path
               PROVE  /\ w.does = "put"
                      /\ LET location == Acting(setting.methods[answers'[w.by].asked.verb])[1].value.location
                         IN  location # Nil /\ ~location.absolute
    BY DEF ToldWhere, Actions
  <2>1. w \in working /\ w.by \in 1..n
    BY <1>1 DEF MediaInv, OfAnswers
  <2> QED
    BY <1>1, <2>1 DEF MediaInv, ToldWhere, Actions
<1>7. Remains'
  <2> SUFFICES ASSUME NEW i \in DOMAIN answers', Did(i, {"store"}, {"entry", "stream"})',
                      NEW path, path = answers'[i].path, Untouched(path, i, Len(answers) + 1)'
               PROVE  LET key == <<answers'[i].storage, answers'[i].path>>
                      IN  key \in DOMAIN stored /\ stored[key] = answers'[i].entry /\ answers'[i].entry.by = i
    BY DEF Remains, Untouched, Did
  <2>1. i # n + 1
    BY <1>1 DEF Did
  <2>2. i \in 1..n /\ answers'[i] = answers[i]
    BY <1>1, <2>1
  <2>3. Untouched(path, i, Len(answers) + 1) /\ path = answers[i].path
    BY <1>2, <2>2, UntouchedSince DEF n
  <2>4. Did(i, {"store"}, {"entry", "stream"})
    BY <2>2 DEF Did
  <2> QED
    BY <1>1, <2>2, <2>3, <2>4 DEF MediaInv, Remains
<1>8. Cleared'
  <2> SUFFICES ASSUME NEW i \in DOMAIN answers', Deleted(i)',
                      \A k \in i..(n + 1) : answers'[k].path # answers'[i].path \/ answers'[k].at # "store",
                      <<answers'[i].storage, answers'[i].path>> \in DOMAIN stored
               PROVE  ~OfType(answers'[i].storage, stored[<<answers'[i].storage, answers'[i].path>>])
    BY <1>1 DEF Cleared, n
  <2>1. i # n + 1
    BY <1>1 DEF Deleted, Did
  <2>2. i \in 1..n /\ answers'[i] = answers[i]
    BY <1>1, <2>1
  <2>3. \A k \in i..n : k \in 1..n /\ k \in i..(n + 1)
    BY <1>1, <2>2
  <2>4. \A k \in i..n : answers[k].path # answers[i].path \/ answers[k].at # "store"
    BY <1>1, <2>2, <2>3
  <2>5. Deleted(i)
    BY <2>2 DEF Deleted, Did
  <2> QED
    BY <1>1, <2>2, <2>4, <2>5 DEF MediaInv, Cleared, n
<1> QED
  BY <1>1, <1>3, <1>4, <1>5, <1>6, <1>7, <1>8 DEF MediaInv

\* Deleting takes an entry away, or none.
LEMMA WithoutIs ==
    ASSUME NEW s, NEW path, NEW extensions
    PROVE  LET left == Without(s, path, extensions) key == <<s, path>> IN
           /\ DOMAIN left \subseteq DOMAIN stored
           /\ \A k \in DOMAIN left : left[k] = stored[k]
           /\ \A k \in DOMAIN stored : k # key => k \in DOMAIN left
           /\ extensions = <<>> /\ key \in DOMAIN left => ~OfType(s, left[key])
BY DEF Without

\* While nothing is answered, put or deleted.
LEMMA Resting ==
    ASSUME MediaInv, setting' = setting, stored' = stored, working' = working, answers' = answers
    PROVE  Kept' /\ OfAnswers' /\ Remains' /\ Cleared' /\ History' /\ OriginsTrusted' /\ ToldWhere'
<1>1. Kept' /\ OfAnswers'
  BY DEF MediaInv, Kept, OfAnswers, Did
<1>2. Remains' /\ Cleared'
  BY DEF MediaInv, Remains, Cleared, Untouched, Did, Deleted, OfType, Declared
<1>3. History'
  BY DEF MediaInv, History, FoundAgain, Gone, Untouched, Did, Deleted, OfType, Reachable, Declared
<1>4. OriginsTrusted' /\ ToldWhere'
  BY DEF MediaInv, OriginsTrusted, ToldWhere, Actions
<1> QED
  BY <1>1, <1>2, <1>3, <1>4

\* An entry is stored under the path that is answered.
LEMMA Stored ==
    ASSUME MediaInv, setting' = setting, release' = release, started' = started, demand' = Nil,
           At("store"), NEW body \in {"entry", "stream"}, NEW path, NEW entry, NEW r, NEW key,
           entry \in Entries, entry.by = Len(answers) + 1, entry.origin = demand.asked.reference,
           r.path = path, r.entry = entry, r.body = body, r.at = "store",
           r.storage = demand.storage, r.asked = demand.asked, key = <<demand.storage, path>>,
           answers' = Append(answers, r), DOMAIN stored' = DOMAIN stored \cup {key}, stored'[key] = entry,
           \A k \in DOMAIN stored : k # key => stored'[k] = stored[k],
           \A w \in working' : \/ w \in working
                               \/ /\ w.by = Len(answers) + 1 /\ w.path = path /\ w.does = "put"
                                  /\ \/ w.told = path
                                     \/ Options.location # Nil /\ ~Options.location.absolute
    PROVE  MediaInv'
<1> DEFINE n == Len(answers)
<1>1. r.at = "store" /\ r.path = path /\ r.storage = demand.storage /\ r.asked = demand.asked /\ r.entry = entry
      /\ r.body = body
  OBVIOUS
<1>2. Tells(r)
  BY <1>1 DEF Tells
<1>3. /\ Configured' /\ Requested' /\ Starts' /\ History'
      /\ \A k \in 1..n : answers'[k] = answers[k] /\ k \in DOMAIN answers /\ k \in DOMAIN answers'
      /\ DOMAIN answers = 1..n /\ DOMAIN answers' = 1..(n + 1)
      /\ n \in Nat /\ answers'[n + 1] = r /\ n' = n + 1
      /\ \A k \in DOMAIN answers' : k \in DOMAIN answers \/ k = n + 1
      /\ \A s, e : OfType(s, e)' <=> OfType(s, e)
  BY <1>2, AnsweredSame
<1>4. Configured
  BY DEF MediaInv
<1>5. /\ demand # Nil /\ demand.at = "store" /\ demand.asked \in setting.demands
      /\ Refused = Nil /\ n < MaxDemands /\ setting \in Settings
  BY DEF MediaInv, Requested, At, Configured
<1>6. entry \in Entries /\ entry.by = n + 1 /\ entry.origin = demand.asked.reference
  OBVIOUS
<1>7. /\ DOMAIN stored' = DOMAIN stored \cup {key} /\ stored'[key] = entry
      /\ \A k \in DOMAIN stored : k # key => stored'[k] = stored[k]
  OBVIOUS
<1> HIDE DEF n
<1>8. Kept'
  BY <1>3, <1>6, <1>7 DEF MediaInv, Kept
<1>9. OriginsTrusted'
  <2> SUFFICES ASSUME NEW k \in DOMAIN stored', stored'[k].origin # Nil
               PROVE  LET asked == answers'[stored'[k].by].asked
                      IN  asked.empty /\ stored'[k].origin \in Acting(setting.methods[asked.verb])[1].value.trust
    BY DEF OriginsTrusted, Actions
  <2>1. CASE k = key
    <3>1. answers'[stored'[k].by].asked = demand.asked /\ stored'[k].origin = demand.asked.reference
      BY <1>1, <1>3, <1>6, <1>7, <2>1
    <3>2. demand.asked.empty /\ Trusted(demand.asked.reference)
      BY <1>5, <3>1, MediaAssumption DEF Refused
    <3> QED
      BY <3>1, <3>2 DEF Trusted, Options, Actions
  <2>2. CASE k # key
    <3>1. k \in DOMAIN stored /\ stored'[k] = stored[k]
      BY <1>7, <2>2
    <3>2. stored[k].by \in 1..n
      BY <1>3, <3>1 DEF MediaInv, Kept
    <3> QED
      BY <1>3, <3>1, <3>2 DEF MediaInv, OriginsTrusted, Actions
  <2> QED
    BY <2>1, <2>2
<1>10. OfAnswers'
  <2> SUFFICES ASSUME NEW w \in working'
               PROVE  /\ w.by \in DOMAIN answers' /\ w.path = answers'[w.by].path
                      /\ w.does = "delete" => Did(w.by, {"delete"}, {"stream"})'
    BY DEF OfAnswers
  <2>1. CASE w \in working
    BY <1>3, <2>1 DEF MediaInv, OfAnswers, Did
  <2>2. CASE w \notin working
    BY <1>1, <1>3, <2>2 DEF n
  <2> QED
    BY <2>1, <2>2
<1>11. ToldWhere'
  <2> SUFFICES ASSUME NEW w \in working', w.told # w.path
               PROVE  /\ w.does = "put"
                      /\ LET location == Acting(setting.methods[answers'[w.by].asked.verb])[1].value.location
                         IN  location # Nil /\ ~location.absolute
    BY DEF ToldWhere, Actions
  <2>1. CASE w \in working
    <3>1. w.by \in 1..n
      BY <1>3, <2>1 DEF MediaInv, OfAnswers
    <3> QED
      BY <1>3, <2>1, <3>1 DEF MediaInv, ToldWhere, Actions
  <2>2. CASE w \notin working
    <3>1. /\ answers'[w.by].asked = demand.asked /\ w.does = "put"
          /\ Options.location # Nil /\ ~Options.location.absolute
      BY <1>1, <1>3, <2>2 DEF n
    <3> QED
      BY <3>1 DEF Options, Actions
  <2> QED
    BY <2>1, <2>2
<1>12. Remains'
  <2> SUFFICES ASSUME NEW i \in DOMAIN answers', Did(i, {"store"}, {"entry", "stream"})',
                      Untouched(answers[i].path, i, Len(answers) + 1)'
               PROVE  LET k == <<answers'[i].storage, answers'[i].path>>
                      IN  k \in DOMAIN stored' /\ stored'[k] = answers'[i].entry /\ answers'[i].entry.by = i
    BY DEF Remains
  <2>0. PICK p : p = answers'[i].path
    OBVIOUS
  <2>3. Untouched(p, i, Len(answers) + 1)'
    BY <2>0 DEF Untouched, Did
  <2>1. CASE i = n + 1
    BY <1>1, <1>3, <1>6, <1>7, <2>1
  <2>2. CASE i # n + 1
    <3>1. i \in 1..n /\ answers'[i] = answers[i]
      BY <1>3, <2>2
    <3>2. Untouched(p, i, Len(answers) + 1) /\ p = answers[i].path /\ r.path # p
      BY <1>1, <1>4, <2>0, <2>3, <3>1, UntouchedSince DEF n
    <3>3. Did(i, {"store"}, {"entry", "stream"})
      BY <3>1 DEF Did
    <3>4. LET k == <<answers[i].storage, answers[i].path>>
          IN  k \in DOMAIN stored /\ stored[k] = answers[i].entry /\ answers[i].entry.by = i
      BY <1>3, <3>1, <3>2, <3>3 DEF MediaInv, Remains
    <3>5. <<answers[i].storage, answers[i].path>> # key
      BY <1>1, <3>2
    <3> QED
      BY <1>7, <3>1, <3>4, <3>5
  <2> QED
    BY <2>1, <2>2
<1>13. Cleared'
  <2> SUFFICES ASSUME NEW i \in DOMAIN answers', Deleted(i)',
                      \A k \in i..(n + 1) : answers'[k].path # answers'[i].path \/ answers'[k].at # "store",
                      <<answers'[i].storage, answers'[i].path>> \in DOMAIN stored'
               PROVE  ~OfType(answers'[i].storage, stored'[<<answers'[i].storage, answers'[i].path>>])
    BY <1>3 DEF Cleared, n, OfType, Declared
  <2>1. i # n + 1
    BY <1>1, <1>3 DEF Deleted, Did
  <2>2. i \in 1..n /\ answers'[i] = answers[i]
    BY <1>3, <2>1
  <2>3. n + 1 \in i..(n + 1) /\ \A k \in i..n : k \in 1..n /\ k \in i..(n + 1)
    BY <1>3, <2>2
  <2>4. \A k \in i..n : answers[k].path # answers[i].path \/ answers[k].at # "store"
    BY <1>3, <2>2, <2>3
  <2>5. Deleted(i)
    BY <2>2 DEF Deleted, Did
  <2>6. <<answers[i].storage, answers[i].path>> # key
    BY <1>1, <1>3, <2>2, <2>3
  <2>7. <<answers[i].storage, answers[i].path>> \in DOMAIN stored
    BY <1>7, <2>2, <2>6
  <2>8. ~OfType(answers[i].storage, stored[<<answers[i].storage, answers[i].path>>])
    BY <1>3, <2>2, <2>4, <2>5, <2>7 DEF MediaInv, Cleared, n
  <2> QED
    BY <1>7, <2>2, <2>6, <2>7, <2>8
<1> QED
  BY <1>3, <1>8, <1>9, <1>10, <1>11, <1>12, <1>13 DEF MediaInv

\* An entry is deleted at once.
LEMMA Removed ==
    ASSUME MediaInv, setting' = setting, release' = release, started' = started, demand' = Nil, working' = working,
           NEW r, answers' = Append(answers, r), r.at = "delete", r.body = Nil, NEW key, key = <<r.storage, r.path>>,
           DOMAIN stored' \subseteq DOMAIN stored,
           \A k \in DOMAIN stored' : stored'[k] = stored[k],
           \A k \in DOMAIN stored : k # key => k \in DOMAIN stored',
           r.asked.extensions = <<>> /\ key \in DOMAIN stored' => ~OfType(r.storage, stored'[key])
    PROVE  MediaInv'
<1> DEFINE n == Len(answers)
<1>1. r.at = "delete" /\ r.body = Nil /\ key = <<r.storage, r.path>>
  OBVIOUS
<1>2. Tells(r)
  BY <1>1 DEF Tells
<1>3. /\ Configured' /\ Requested' /\ Starts' /\ History'
      /\ \A k \in 1..n : answers'[k] = answers[k] /\ k \in DOMAIN answers /\ k \in DOMAIN answers'
      /\ DOMAIN answers = 1..n /\ DOMAIN answers' = 1..(n + 1)
      /\ n \in Nat /\ answers'[n + 1] = r /\ n' = n + 1
      /\ \A k \in DOMAIN answers' : k \in DOMAIN answers \/ k = n + 1
      /\ \A s, e : OfType(s, e)' <=> OfType(s, e)
  BY <1>2, AnsweredSame
<1>4. Configured
  BY DEF MediaInv
<1>5. /\ DOMAIN stored' \subseteq DOMAIN stored /\ \A k \in DOMAIN stored' : stored'[k] = stored[k]
      /\ \A k \in DOMAIN stored : k # key => k \in DOMAIN stored'
      /\ r.asked.extensions = <<>> /\ key \in DOMAIN stored' => ~OfType(r.storage, stored'[key])
  OBVIOUS
<1> HIDE DEF n
<1>6. Kept'
  BY <1>3, <1>5 DEF MediaInv, Kept
<1>7. OriginsTrusted'
  <2> SUFFICES ASSUME NEW k \in DOMAIN stored', stored'[k].origin # Nil
               PROVE  LET asked == answers'[stored'[k].by].asked
                      IN  asked.empty /\ stored'[k].origin \in Acting(setting.methods[asked.verb])[1].value.trust
    BY DEF OriginsTrusted, Actions
  <2>1. k \in DOMAIN stored /\ stored'[k] = stored[k]
    BY <1>5
  <2>2. stored[k].by \in 1..n
    BY <1>3, <2>1 DEF MediaInv, Kept
  <2>3. answers'[stored'[k].by] = answers[stored[k].by]
    BY <1>3, <2>1, <2>2
  <2> QED
    BY <2>1, <2>3 DEF MediaInv, OriginsTrusted, Actions
<1>8. OfAnswers'
  BY <1>3 DEF MediaInv, OfAnswers, Did, n
<1>9. ToldWhere'
  <2> SUFFICES ASSUME NEW w \in working, w.told # w.path
               PROVE  /\ w.does = "put"
                      /\ LET location == Acting(setting.methods[answers'[w.by].asked.verb])[1].value.location
                         IN  location # Nil /\ ~location.absolute
    BY DEF ToldWhere, Actions
  <2>1. w.by \in 1..n
    BY <1>3 DEF MediaInv, OfAnswers
  <2> QED
    BY <1>3, <2>1 DEF MediaInv, ToldWhere, Actions
<1>10. Remains'
  <2> SUFFICES ASSUME NEW i \in DOMAIN answers', Did(i, {"store"}, {"entry", "stream"})',
                      NEW p, p = answers'[i].path, Untouched(p, i, Len(answers) + 1)'
               PROVE  LET k == <<answers'[i].storage, answers'[i].path>>
                      IN  k \in DOMAIN stored' /\ stored'[k] = answers'[i].entry /\ answers'[i].entry.by = i
    BY DEF Remains, Untouched, Did
  <2>1. i \in 1..n /\ answers'[i] = answers[i]
    BY <1>1, <1>3 DEF Did
  <2>2. Untouched(p, i, Len(answers) + 1) /\ p = answers[i].path /\ r.path # p
    BY <1>1, <1>4, <2>1, UntouchedSince DEF n
  <2>3. Did(i, {"store"}, {"entry", "stream"})
    BY <2>1 DEF Did
  <2>4. LET k == <<answers[i].storage, answers[i].path>>
        IN  k \in DOMAIN stored /\ stored[k] = answers[i].entry /\ answers[i].entry.by = i
    BY <1>3, <2>1, <2>2, <2>3 DEF MediaInv, Remains
  <2>5. <<answers[i].storage, answers[i].path>> # key
    BY <1>1, <2>2
  <2> QED
    BY <1>5, <2>1, <2>4, <2>5
<1>11. Cleared'
  <2> SUFFICES ASSUME NEW i \in DOMAIN answers', Deleted(i)',
                      \A k \in i..(n + 1) : answers'[k].path # answers'[i].path \/ answers'[k].at # "store",
                      <<answers'[i].storage, answers'[i].path>> \in DOMAIN stored'
               PROVE  ~OfType(answers'[i].storage, stored'[<<answers'[i].storage, answers'[i].path>>])
    BY <1>3 DEF Cleared, n, OfType, Declared
  <2>1. CASE i = n + 1
    <3>1. r.asked.extensions = <<>>
      BY <1>3, <2>1 DEF Deleted
    <3> QED
      BY <1>1, <1>3, <1>5, <2>1, <3>1
  <2>2. CASE i # n + 1
    <3>1. i \in 1..n /\ answers'[i] = answers[i]
      BY <1>3, <2>2
    <3>2. \A k \in i..n : k \in 1..n /\ k \in i..(n + 1)
      BY <1>3, <3>1
    <3>3. \A k \in i..n : answers[k].path # answers[i].path \/ answers[k].at # "store"
      BY <1>3, <3>1, <3>2
    <3>4. Deleted(i)
      BY <3>1 DEF Deleted, Did
    <3>5. <<answers[i].storage, answers[i].path>> \in DOMAIN stored
      BY <1>5, <3>1
    <3>6. ~OfType(answers[i].storage, stored[<<answers[i].storage, answers[i].path>>])
      BY <1>3, <3>1, <3>3, <3>4, <3>5 DEF MediaInv, Cleared, n
    <3> QED
      BY <1>5, <3>1, <3>5, <3>6
  <2> QED
    BY <2>1, <2>2
<1> QED
  BY <1>3, <1>6, <1>7, <1>8, <1>9, <1>10, <1>11 DEF MediaInv

\* The end of a workflow takes away at most what it is of.
LEMMA Ended ==
    ASSUME MediaInv, NEW w \in working, Worked(w)
    PROVE  MediaInv'
<1> DEFINE gone == <<w.storage, w.path>>
<1>1. /\ setting' = setting /\ release' = release /\ started' = started /\ demand' = demand /\ answers' = answers
      /\ working' = working \ {w}
  BY DEF Worked, Steady
<1>2. /\ DOMAIN stored' \subseteq DOMAIN stored
      /\ \A k \in DOMAIN stored' : stored'[k] = stored[k]
      /\ \A k \in DOMAIN stored : k \in DOMAIN stored' \/ (w.does = "delete" /\ k = gone)
  <2>1. CASE stored' = stored
    BY <2>1
  <2>2. CASE w.does = "delete" /\ stored' = Without(w.storage, w.path, w.extensions)
    <3> DEFINE left == Without(w.storage, w.path, w.extensions)
    <3>1. /\ DOMAIN left \subseteq DOMAIN stored
          /\ \A k \in DOMAIN left : left[k] = stored[k]
          /\ \A k \in DOMAIN stored : k # gone => k \in DOMAIN left
      BY DEF Without
    <3> HIDE DEF left
    <3> QED
      BY <2>2, <3>1 DEF left
  <2> QED
    BY <2>1, <2>2 DEF Worked
<1>3. Configured' /\ Starts'
  <2>1. Configured /\ Starts
    BY DEF MediaInv
  <2>2. Configured'
    BY <1>1, <2>1 DEF Configured, SecretVariables, Declared
  <2> QED
    BY <1>1, <2>1, <2>2 DEF Starts, Created, Declared
<1>4. Requested'
  <2>1. Requested
    BY DEF MediaInv
  <2> QED
    BY <1>1, <2>1 DEF Requested, Declared, Refused, Trusted, Options, Actions
<1>5. Kept' /\ OfAnswers'
  BY <1>1, <1>2 DEF MediaInv, Kept, OfAnswers, Did
<1>6. History'
  BY <1>1 DEF MediaInv, History, FoundAgain, Gone, Untouched, Did, Deleted, OfType, Reachable, Declared
<1>7. OriginsTrusted' /\ ToldWhere'
  BY <1>1, <1>2 DEF MediaInv, OriginsTrusted, ToldWhere, Actions
<1>8. Remains'
  <2> SUFFICES ASSUME NEW i \in DOMAIN answers, Did(i, {"store"}, {"entry", "stream"}),
                      Untouched(answers[i].path, i, Len(answers) + 1)
               PROVE  LET k == <<answers[i].storage, answers[i].path>>
                      IN  k \in DOMAIN stored' /\ stored'[k] = answers[i].entry /\ answers[i].entry.by = i
    BY <1>1 DEF Remains, Untouched, Did
  <2>1. LET k == <<answers[i].storage, answers[i].path>>
        IN  k \in DOMAIN stored /\ stored[k] = answers[i].entry /\ answers[i].entry.by = i
    BY DEF MediaInv, Remains
  <2>2. ASSUME w.does = "delete" PROVE w.path # answers[i].path
    <3>1. w.by \in DOMAIN answers /\ w.path = answers[w.by].path /\ Did(w.by, {"delete"}, {"stream"})
      BY <2>2 DEF MediaInv, OfAnswers
    <3>2. \E V : answers \in Seq(V)
      BY DEF MediaInv, Configured
    <3>3. w.by \in 1..((Len(answers) + 1) - 1)
      BY <3>1, <3>2
    <3> QED
      BY <3>1, <3>3 DEF Untouched
  <2> QED
    BY <1>2, <2>1, <2>2
<1>9. Cleared'
  <2> SUFFICES ASSUME NEW i \in DOMAIN answers, Deleted(i),
                      \A k \in i..Len(answers) : answers[k].path # answers[i].path \/ answers[k].at # "store",
                      <<answers[i].storage, answers[i].path>> \in DOMAIN stored'
               PROVE  ~OfType(answers[i].storage, stored'[<<answers[i].storage, answers[i].path>>])
    BY <1>1 DEF Cleared, Deleted, Did, OfType, Declared
  <2>1. ~OfType(answers[i].storage, stored[<<answers[i].storage, answers[i].path>>])
    BY <1>2 DEF MediaInv, Cleared
  <2> QED
    BY <1>2, <2>1
<1> QED
  BY <1>3, <1>4, <1>5, <1>6, <1>7, <1>8, <1>9 DEF MediaInv

\* A request is answered, and nothing is put or deleted.
LEMMA Replied ==
    ASSUME MediaInv, Steady, stored' = stored, NEW status, NEW entry, NEW body, Answer(status, entry, body),
           ~(demand.at = "store" /\ body \in {"entry", "stream"}),
           ~(demand.at = "delete" /\ body = Nil /\ status = 0),
           demand.at = "get" => /\ entry \in {Nil, Target}
                                /\ body \in {Nil, "content", "entry"} /\ status \in {0, 404} => entry = Target,
           \A w \in working' : \/ w \in working
                               \/ /\ w.by = Len(answers) + 1 /\ w.path = demand.path /\ w.told = w.path
                                  /\ w.does = "delete" => demand.at = "delete" /\ body = "stream"
    PROVE  MediaInv'
<1> DEFINE r == [path |-> demand.path, status |-> status, entry |-> entry, body |-> body,
                 at |-> demand.at, storage |-> demand.storage, asked |-> demand.asked]
<1>1. /\ r.path = demand.path /\ r.status = status /\ r.entry = entry /\ r.body = body
      /\ r.at = demand.at /\ r.storage = demand.storage /\ r.asked = demand.asked
  OBVIOUS
<1>2. /\ setting' = setting /\ release' = release /\ started' = started /\ demand' = Nil
      /\ answers' = Append(answers, r)
  BY DEF Steady, Answer, AnswerAt
<1> HIDE DEF r
<1>3. Tells(r)
  BY <1>1 DEF Tells, Target
<1> QED
  BY <1>1, <1>2, <1>3, Unmoved

\* The storages are started with the secrets that they need, if there are.
LEMMA StartedWith ==
    ASSUME NEW s \in DOMAIN Declared, NEW secrets,
           Created(s, {secret \in secrets : secret[1] = s})
    PROVE  Created(s, SecretVariables \cap secrets)
<1> DEFINE own == Secrets(Declared[s].provider)
<1>1. \A secret \in own : <<s, secret[1]>> \in SecretVariables
  BY DEF SecretVariables
<1>2. ASSUME <<s, "ACCESS_KEY_ID">> \in SecretVariables
      PROVE  <<s, "SECRET_ACCESS_KEY">> \in SecretVariables
  <2>1. PICK t \in DOMAIN Declared : \E secret \in Secrets(Declared[t].provider) : <<s, "ACCESS_KEY_ID">> = <<t, secret[1]>>
    BY <1>2 DEF SecretVariables
  <2>2. PICK secret \in own : secret[1] = "ACCESS_KEY_ID"
    BY <2>1
  <2>3. <<"SECRET_ACCESS_KEY", FALSE>> \in own
    <3>1. own = {<<"ACCESS_KEY_ID", FALSE>>, <<"SECRET_ACCESS_KEY", FALSE>>}
      <4> DEFINE of == Declared[s].provider
      <4>1. CASE of = "cloudinary"
        <5>1. own = {<<"API_KEY", TRUE>>, <<"API_SECRET", TRUE>>}
          BY <4>1 DEF Secrets
        <5>2. secret = <<"API_KEY", TRUE>> \/ secret = <<"API_SECRET", TRUE>>
          BY <2>2, <5>1
        <5>3. secret[1] = "API_KEY" \/ secret[1] = "API_SECRET"
          <6>1. \A x : <<x, TRUE>>[1] = x
            OBVIOUS
          <6> QED
            BY <5>2, <6>1
        <5> QED
          BY <2>2, <5>3
      <4>2. CASE of = "s3"
        BY <4>2 DEF Secrets
      <4>3. CASE of # "cloudinary" /\ of # "s3"
        <5>1. own = {}
          BY <4>3 DEF Secrets
        <5> QED
          BY <2>2, <5>1
      <4> QED
        BY <4>1, <4>2, <4>3
    <3> QED
      BY <3>1
  <2> QED
    BY <1>1, <2>3
<1> HIDE DEF own
<1>3. \A x : <<s, x>> \in secrets <=> <<s, x>> \in {secret \in secrets : secret[1] = s}
  OBVIOUS
<1> QED
  BY <1>1, <1>2, <1>3 DEF Created, own

\* What is deployed, and what is started with it.
LEMMA Deployed ==
    ASSUME MediaInv, Deploy \/ StartStorages
    PROVE  MediaInv'
<1>1. /\ setting' = setting /\ stored' = stored /\ demand' = demand /\ working' = working /\ answers' = answers
  BY DEF Deploy, StartStorages
<1>2. Kept' /\ OfAnswers' /\ Remains' /\ Cleared' /\ History' /\ OriginsTrusted' /\ ToldWhere'
  BY <1>1, Resting
<1>3. Requested'
  <2>1. Requested
    BY DEF MediaInv
  <2> QED
    BY <1>1, <2>1 DEF Requested, Declared, Refused, Trusted, Options, Actions
<1>4. Configured /\ SecretVariables' = SecretVariables
  BY <1>1 DEF MediaInv, SecretVariables, Declared
<1>5. CASE Deploy
  <2>1. started' \in {Nil, "refused"} /\ (started' = Nil => release'.variables = SecretVariables)
    BY <1>5, MediaAssumption DEF Deploy
  <2>2. started' # "failed"
    BY <2>1, MediaAssumption
  <2>3. Configured'
    BY <1>1, <1>4, <2>1 DEF Configured
  <2>4. Starts'
    BY <2>2 DEF Starts
  <2> QED
    BY <1>2, <1>3, <2>3, <2>4 DEF MediaInv
<1>6. CASE StartStorages
  <2>1. release' = release /\ started' \in {"up", "failed"} /\ release.variables = SecretVariables
    BY <1>4, <1>6 DEF StartStorages, Configured
  <2>2. ASSUME started' = "failed"
        PROVE  \E s \in DOMAIN Declared : ~Created(s, {secret \in setting.secrets : secret[1] = s})
    <3>1. \E s \in DOMAIN Declared : ~Created(s, release.variables \cap setting.secrets)
      BY <1>6, <2>2 DEF StartStorages
    <3> QED
      BY <2>1, <3>1, StartedWith
  <2>3. Starts'
    BY <1>1, <2>2 DEF Starts, Created, Declared
  <2>4. Configured'
    BY <1>1, <1>4, <2>1 DEF Configured
  <2> QED
    BY <1>2, <1>3, <2>3, <2>4 DEF MediaInv
<1> QED
  BY <1>5, <1>6

\* A request comes, or goes on.
LEMMA Onwards ==
    ASSUME MediaInv, Steady, UNCHANGED <<stored, working, answers>>, Requested'
    PROVE  MediaInv'
<1>1. /\ setting' = setting /\ stored' = stored /\ working' = working /\ answers' = answers
      /\ release' = release /\ started' = started
  BY DEF Steady
<1>2. Kept' /\ OfAnswers' /\ Remains' /\ Cleared' /\ History' /\ OriginsTrusted' /\ ToldWhere'
  BY <1>1, Resting
<1>3. Configured /\ Starts
  BY DEF MediaInv
<1>4. Configured'
  BY <1>1, <1>3 DEF Configured, SecretVariables, Declared
<1>5. Starts'
  BY <1>1, <1>3 DEF Starts, Created, Declared
<1> QED
  BY <1>2, <1>4, <1>5 DEF MediaInv

\* A request is made.
LEMMA AskKeeps ==
    ASSUME MediaInv, Ask PROVE MediaInv'
<1>1. PICK d \in setting.demands :
         /\ d.verb \in DOMAIN setting.methods
         /\ \E path : demand' = [at |-> "preflight", path |-> path, storage |-> Nil, asked |-> d]
  BY DEF Ask
<1>2. PICK path : demand' = [at |-> "preflight", path |-> path, storage |-> Nil, asked |-> d]
  BY <1>1
<1>3. demand'.at = "preflight" /\ demand'.path = path /\ demand'.storage = Nil /\ demand'.asked = d
  BY <1>2
<1>4. Len(answers') < MaxDemands /\ setting' = setting
  BY DEF Ask, Steady
<1>5. Requested'
  BY <1>1, <1>2, <1>3, <1>4 DEF Requested
<1> QED
  BY <1>5, Onwards DEF Ask

\* The parts of a request under way.
LEMMA Parts ==
    ASSUME MediaInv, NEW at, At(at)
    PROVE  /\ demand # Nil /\ demand.at = at
           /\ demand = [at |-> demand.at, path |-> demand.path, storage |-> demand.storage, asked |-> demand.asked]
           /\ demand.asked \in setting.demands /\ demand.asked.verb \in DOMAIN setting.methods
           /\ at # "preflight" => demand.storage \in DOMAIN Declared
           /\ at \in {"store", "download"} => Refused = Nil
           /\ Len(answers) < MaxDemands
BY DEF MediaInv, Requested, At

\* A request goes on to a phase that it may be in.
LEMMA GoesOn ==
    ASSUME MediaInv, Steady, UNCHANGED <<stored, working, answers>>, NEW was, At(was), NEW at, NEW storage,
           demand' = [demand EXCEPT !.at = at, !.storage = storage],
           at \in {"put", "get", "delete", "workflow", "store", "download"},
           storage \in DOMAIN Declared, at \in {"store", "download"} => Refused = Nil
    PROVE  MediaInv'
<1>1. /\ demand = [at |-> demand.at, path |-> demand.path, storage |-> demand.storage, asked |-> demand.asked]
      /\ demand.asked \in setting.demands /\ demand.asked.verb \in DOMAIN setting.methods
      /\ Len(answers) < MaxDemands
  BY Parts
<1>2. /\ demand' = [at |-> demand'.at, path |-> demand'.path, storage |-> demand'.storage, asked |-> demand'.asked]
      /\ demand'.at = at /\ demand'.storage = storage /\ demand'.asked = demand.asked
  <2>1. demand' = [at |-> at, path |-> demand.path, storage |-> storage, asked |-> demand.asked]
    BY <1>1
  <2> QED
    BY <2>1
<1>3. setting' = setting /\ answers' = answers
  BY DEF Steady
<1>4. at \in {"store", "download"} => Refused' = Nil
  BY <1>2, <1>3 DEF Refused, Trusted, Options, Actions
<1>5. Requested'
  BY <1>1, <1>2, <1>3, <1>4 DEF Requested, Declared
<1> QED
  BY <1>5, Onwards

\* A request finds its directive.
LEMMA DirectKeeps ==
    ASSUME MediaInv, Direct PROVE MediaInv'
<1> DEFINE actions == Actions(demand.asked.verb)
           contexts == ContextsOf(demand.asked.verb)
<1>1. At("preflight") /\ Steady /\ stored' = stored /\ working' = working
  BY DEF Direct
<1>2. /\ demand # Nil /\ demand.at = "preflight" /\ demand.asked.verb \in DOMAIN setting.methods
      /\ setting \in Settings
  BY <1>1, Parts DEF MediaInv, Configured
<1>3. CASE \E status, body : Answer(status, Nil, body)
  BY <1>1, <1>2, <1>3, Replied
<1>4. CASE /\ actions # <<>> /\ contexts[1].value \in DOMAIN Declared
           /\ demand' = [demand EXCEPT !.at = actions[1].name, !.storage = contexts[1].value]
           /\ answers' = answers
  <2>1. actions \in Seq(ToSet(actions)) /\ \A d \in ToSet(actions) : d.name \in {"put", "get", "delete", "workflow"}
    BY <1>2, MediaAssumption DEF Actions
  <2>2. actions[1] \in ToSet(actions)
    <3> HIDE DEF actions
    <3> QED
      BY <1>4, <2>1
  <2>3. actions[1].name \in {"put", "get", "delete", "workflow"}
    BY <2>1, <2>2
  <2> HIDE DEF actions, contexts
  <2> QED
    BY <1>1, <1>4, <2>3, GoesOn
<1>5. \/ \E status, body : Answer(status, Nil, body)
      \/ /\ actions # <<>> /\ contexts[1].value \in DOMAIN Declared
         /\ demand' = [demand EXCEPT !.at = actions[1].name, !.storage = contexts[1].value]
         /\ answers' = answers
  BY DEF Direct
<1> QED
  BY <1>3, <1>4, <1>5

\* What is put is refused, downloaded or stored.
LEMMA PutKeeps ==
    ASSUME MediaInv, Put PROVE MediaInv'
<1>1. At("put") /\ Steady /\ stored' = stored /\ working' = working
  BY DEF Put
<1>2. demand # Nil /\ demand.at = "put" /\ demand.storage \in DOMAIN Declared
  BY <1>1, Parts
<1>3. CASE Refused # Nil
  BY <1>1, <1>2, <1>3, Replied DEF Put
<1>4. CASE Refused = Nil
  <2>1. PICK at \in {"store", "download"} : demand' = [demand EXCEPT !.at = at] /\ answers' = answers
    BY <1>4 DEF Put
  <2>2. demand' = [demand EXCEPT !.at = at, !.storage = demand.storage]
    <3>1. demand = [at |-> demand.at, path |-> demand.path, storage |-> demand.storage, asked |-> demand.asked]
      BY <1>1, Parts
    <3> QED
      BY <2>1, <3>1
  <2> QED
    BY <1>1, <1>2, <1>4, <2>1, <2>2, GoesOn
<1> QED
  BY <1>3, <1>4

LEMMA DownloadKeeps ==
    ASSUME MediaInv, Download PROVE MediaInv'
<1>1. At("download") /\ Steady /\ stored' = stored /\ working' = working
  BY DEF Download
<1>2. demand # Nil /\ demand.at = "download" /\ demand.storage \in DOMAIN Declared /\ Refused = Nil
  BY <1>1, Parts
<1>3. CASE \E status, body : Answer(status, Nil, body)
  BY <1>1, <1>2, <1>3, Replied
<1>4. CASE demand' = [demand EXCEPT !.at = "store"] /\ answers' = answers
  <2>1. demand' = [demand EXCEPT !.at = "store", !.storage = demand.storage]
    <3>1. demand = [at |-> demand.at, path |-> demand.path, storage |-> demand.storage, asked |-> demand.asked]
      BY <1>1, Parts
    <3> QED
      BY <1>4, <3>1
  <2> QED
    BY <1>1, <1>2, <1>4, <2>1, GoesOn
<1> QED
  BY <1>3, <1>4 DEF Download

LEMMA StoreKeeps ==
    ASSUME MediaInv, Store PROVE MediaInv'
<1> DEFINE path == Append(Location, EntryId)
           entry == [kind |-> demand.asked.stream, origin |-> demand.asked.reference, by |-> Len(answers) + 1]
           key == <<demand.storage, path>>
           workflow == [by |-> Len(answers) + 1, does |-> "put", storage |-> demand.storage, path |-> path,
                        extensions |-> <<>>, told |-> Append(ToldLocation, EntryId)]
<1>1. At("store") /\ Steady /\ setting' = setting /\ release' = release /\ started' = started
  BY DEF Store, Steady
<1>2. /\ demand # Nil /\ demand.at = "store" /\ demand.asked \in setting.demands
      /\ Len(answers) < MaxDemands /\ Len(answers) \in Nat /\ setting \in Settings
  <2>1. PICK V : answers \in Seq(V)
    BY DEF MediaInv, Configured
  <2> QED
    BY <1>1, <2>1, Parts DEF MediaInv, Configured
<1>3. CASE \E code \in {"NOT_ACCEPTABLE", "TYPE_MISMATCH", "LIMIT_EXCEEDED", "exception"} :
              Answer(StatusOf(code), Nil, code) /\ UNCHANGED <<stored, working>>
  BY <1>1, <1>2, <1>3, Replied
<1>4. ASSUME NEW body \in {"entry", "stream"}, AnswerAt(path, 0, entry, body),
             stored' = [k \in DOMAIN stored \cup {key} |-> IF k = key THEN entry ELSE stored[k]],
             working' = working \/ working' = working \cup {workflow}
      PROVE  MediaInv'
  <2> DEFINE r == [path |-> path, status |-> 0, entry |-> entry, body |-> body,
                   at |-> demand.at, storage |-> demand.storage, asked |-> demand.asked]
  <2>1. /\ r.path = path /\ r.entry = entry /\ r.body = body /\ r.at = "store"
        /\ r.storage = demand.storage /\ r.asked = demand.asked
    BY <1>2
  <2>2. demand' = Nil /\ answers' = Append(answers, r)
    BY <1>4 DEF AnswerAt
  <2>3. entry \in Entries /\ entry.by = Len(answers) + 1 /\ entry.origin = demand.asked.reference
    <3>1. Len(answers) + 1 \in 1..MaxDemands
      BY <1>2, MediaAssumption
    <3> QED
      BY <1>2, <3>1 DEF Entries
  <2>4. /\ workflow.by = Len(answers) + 1 /\ workflow.path = path /\ workflow.does = "put"
        /\ workflow.told = Append(ToldLocation, EntryId)
    OBVIOUS
  <2>5. Append(ToldLocation, EntryId) = path \/ (Options.location # Nil /\ ~Options.location.absolute)
    BY DEF Location, ToldLocation
  <2>6. key = <<demand.storage, path>>
    OBVIOUS
  <2> HIDE DEF r, entry, workflow, path, key
  <2>7. /\ DOMAIN stored' = DOMAIN stored \cup {key} /\ stored'[key] = entry
        /\ \A k \in DOMAIN stored : k # key => stored'[k] = stored[k]
    BY <1>4
  <2>8. \A w \in working' :
           \/ w \in working
           \/ /\ w.by = Len(answers) + 1 /\ w.path = path /\ w.does = "put"
              /\ w.told = path \/ (Options.location # Nil /\ ~Options.location.absolute)
    BY <1>4, <2>4, <2>5
  <2> QED
    BY <1>1, <2>1, <2>2, <2>3, <2>6, <2>7, <2>8, Stored
<1>5. \/ \E code \in {"NOT_ACCEPTABLE", "TYPE_MISMATCH", "LIMIT_EXCEEDED", "exception"} :
            Answer(StatusOf(code), Nil, code) /\ UNCHANGED <<stored, working>>
      \/ \E body \in {"entry", "stream"} :
            /\ AnswerAt(path, 0, entry, body)
            /\ stored' = [k \in DOMAIN stored \cup {key} |-> IF k = key THEN entry ELSE stored[k]]
            /\ working' = working \/ working' = working \cup {workflow}
  BY DEF Store
<1> QED
  BY <1>3, <1>4, <1>5

\* What is read is told, or the request is refused.
LEMMA GetKeeps ==
    ASSUME MediaInv, Get PROVE MediaInv'
<1>1. At("get") /\ Steady /\ stored' = stored /\ working' = working
  BY DEF Get
<1>2. demand # Nil /\ demand.at = "get"
  BY <1>1, Parts
<1>3. \/ Answer(403, Nil, Nil) \/ Answer(304, Nil, Nil)
      \/ Target = Nil /\ Answer(404, Nil, Nil)
      \/ Answer(0, Target, "entry")
      \/ \E body \in {"content", Nil} : Answer(0, Target, body)
  BY DEF Get
<1> QED
  BY <1>1, <1>2, <1>3, Replied

LEMMA DeleteKeeps ==
    ASSUME MediaInv, Delete PROVE MediaInv'
<1> DEFINE r == [path |-> demand.path, status |-> 0, entry |-> Nil, body |-> Nil,
                 at |-> demand.at, storage |-> demand.storage, asked |-> demand.asked]
           left == Without(demand.storage, demand.path, demand.asked.extensions)
           key == <<demand.storage, demand.path>>
<1>1. /\ At("delete") /\ setting' = setting /\ release' = release /\ started' = started
      /\ working' = working /\ stored' = left /\ demand' = Nil /\ answers' = Append(answers, r)
  BY DEF Delete, Steady, Answer, AnswerAt
<1>2. /\ r.at = "delete" /\ r.body = Nil /\ key = <<r.storage, r.path>>
      /\ r.storage = demand.storage /\ r.asked = demand.asked
  BY <1>1 DEF At
<1>3. /\ DOMAIN left \subseteq DOMAIN stored
      /\ \A k \in DOMAIN left : left[k] = stored[k]
      /\ \A k \in DOMAIN stored : k # key => k \in DOMAIN left
      /\ demand.asked.extensions = <<>> /\ key \in DOMAIN left => ~OfType(demand.storage, left[key])
  BY WithoutIs
<1> HIDE DEF r, key, left
<1>4. /\ DOMAIN stored' \subseteq DOMAIN stored
      /\ \A k \in DOMAIN stored' : stored'[k] = stored[k]
      /\ \A k \in DOMAIN stored : k # key => k \in DOMAIN stored'
      /\ r.asked.extensions = <<>> /\ key \in DOMAIN stored' => ~OfType(r.storage, stored'[key])
  BY <1>1, <1>2, <1>3
<1> QED
  BY <1>1, <1>2, <1>4, Removed

\* A workflow begins, of what there is.
LEMMA WorkKeeps ==
    ASSUME MediaInv, Work PROVE MediaInv'
<1> DEFINE workflow == [by |-> Len(answers) + 1, does |-> demand.at, storage |-> demand.storage,
                        path |-> demand.path, extensions |-> demand.asked.extensions, told |-> demand.path]
<1>1. demand.at \in {"workflow", "delete"} /\ Steady /\ stored' = stored
  BY DEF Work, At
<1>2. CASE Answer(404, Nil, Nil) /\ working' = working
  BY <1>1, <1>2, Replied
<1>3. CASE Answer(202, Target, "stream") /\ working' = working \cup {workflow}
  <2>1. /\ workflow.by = Len(answers) + 1 /\ workflow.path = demand.path /\ workflow.told = workflow.path
        /\ workflow.does = demand.at
    OBVIOUS
  <2> HIDE DEF workflow
  <2>2. \A w \in working' : \/ w \in working
                             \/ /\ w.by = Len(answers) + 1 /\ w.path = demand.path /\ w.told = w.path
                                /\ w.does = "delete" => demand.at = "delete" /\ "stream" = "stream"
    BY <1>3, <2>1
  <2> QED
    BY <1>1, <1>3, <2>2, Replied
<1> QED
  BY <1>2, <1>3 DEF Work

LEMMA MediaStep ==
    ASSUME MediaInv, [MediaNext]_mediaVars PROVE MediaInv'
<1>1. CASE UNCHANGED mediaVars
  <2>1. Steady /\ UNCHANGED <<stored, working, answers>> /\ demand' = demand /\ setting' = setting /\ answers' = answers
    BY <1>1 DEF mediaVars, Steady
  <2>2. Requested
    BY DEF MediaInv
  <2>3. Requested'
    BY <2>1, <2>2 DEF Requested, Declared, Refused, Trusted, Options, Actions
  <2> QED
    BY <2>1, <2>3, Onwards
<1>2. CASE MediaNext
  BY <1>2, Deployed, AskKeeps, DirectKeeps, PutKeeps, DownloadKeeps, StoreKeeps, GetKeeps, DeleteKeeps,
     WorkKeeps, Ended DEF MediaNext
<1> QED
  BY <1>1, <1>2

LEMMA MediaStart ==
    ASSUME MediaInit PROVE MediaInv
<1>1. /\ setting \in Settings /\ release = Nil /\ started = Nil /\ stored = <<>> /\ demand = Nil
      /\ working = {} /\ answers = <<>>
  BY DEF MediaInit
<1>2. DOMAIN stored = {} /\ DOMAIN answers = {} /\ Len(answers) = 0 /\ answers \in Seq({})
  BY <1>1
<1>3. Configured /\ Requested /\ Starts
  BY <1>1, <1>2, MediaAssumption DEF Configured, Requested, Starts
<1>4. Kept /\ OfAnswers /\ Remains /\ Cleared
  BY <1>1, <1>2 DEF Kept, OfAnswers, Remains, Cleared
<1>5. History /\ OriginsTrusted /\ ToldWhere
  BY <1>1, <1>2 DEF History, FoundAgain, Gone, OriginsTrusted, ToldWhere
<1> QED
  BY <1>3, <1>4, <1>5 DEF MediaInv

\* A variant is read through the transformations of its extensions.
LEMMA VariantsRead ==
    ASSUME MediaInv PROVE AsAsked
<1> SUFFICES ASSUME At("get"), Declared[demand.storage].transformations # <<>>
             PROVE  LET ts == Declared[demand.storage].transformations
                        es == demand.asked.extensions
                        possible == {taken \in [DOMAIN es -> DOMAIN ts] : Chosen(ts, es, taken)}
                        plain == \A i \in DOMAIN es : \A t, u \in DOMAIN ts :
                                    Matches(ts[t], es[i]) /\ Matches(ts[u], es[i]) => t = u
                    IN  /\ Target # Nil => possible # {}
                        /\ possible # {} /\ plain => \E taken \in Through(ts, es) : taken \in possible
  BY DEF AsAsked
<1> DEFINE ts == Declared[demand.storage].transformations
           es == demand.asked.extensions
           possible == {taken \in [DOMAIN es -> DOMAIN ts] : Chosen(ts, es, taken)}
<1>1. /\ demand.storage \in DOMAIN setting.annotation /\ demand.asked \in setting.demands /\ setting \in Settings
  BY Parts DEF MediaInv, Configured, Declared
<1>2. /\ ts \in Seq(ToSet(ts)) /\ Declared[demand.storage].provider = "cloudinary" /\ es \in Seq(ToSet(es))
  BY <1>1, MediaAssumption DEF Declared
<1> HIDE DEF ts, es
<1>3. /\ Len(ts) \in Nat /\ DOMAIN ts = 1..Len(ts) /\ Len(es) \in Nat /\ DOMAIN es = 1..Len(es)
  BY <1>2
<1>4. \A taken \in Through(ts, es) : taken \in possible
  BY <1>3, ThroughSound
<1>5. ASSUME Target # Nil PROVE possible # {}
  <2>1. Reachable(demand.storage, demand.path, es)
    BY <1>2, <1>5 DEF Target, Find, FindMedia, es
  <2>2. Through(ts, es) # {}
    BY <2>1 DEF Reachable, ts
  <2> QED
    BY <1>4, <2>2
<1>6. ASSUME possible # {},
             \A i \in DOMAIN es : \A t, u \in DOMAIN ts : Matches(ts[t], es[i]) /\ Matches(ts[u], es[i]) => t = u
      PROVE  \E taken \in Through(ts, es) : taken \in possible
  <2>1. Through(ts, es) # {}
    BY <1>3, <1>6, ThroughComplete
  <2> QED
    BY <1>4, <2>1
<1> QED
  BY <1>5, <1>6 DEF ts, es

\* The resources of octets keep what they promise, whatever is declared and however
\* requests and workflows meet: what is put is found and what is deleted is gone,
\* downloads come of trusted origins, variants are what was asked for, and workflows
\* are told where the entry is (the octets directives and the storages behind them).
THEOREM MediaHeld == MediaSpec => []MediaSound
<1>1. MediaInit => MediaInv
  BY MediaStart
<1>2. MediaInv /\ [MediaNext]_mediaVars => MediaInv'
  BY MediaStep
<1>3. MediaInv => MediaSound
  <2> SUFFICES ASSUME MediaInv PROVE MediaSound
    OBVIOUS
  <2>1. MediaTyped
    BY DEF MediaInv, Configured, Requested, Kept, MediaTyped
  <2> QED
    BY <2>1, VariantsRead DEF MediaInv, History, MediaSound
<1> QED
  BY <1>1, <1>2, <1>3, PTL DEF MediaSpec
=============================================================================
