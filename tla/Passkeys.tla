------------------------------ MODULE Passkeys ------------------------------
(***************************************************************************)
(* Passkeys of one identity (identity.passkeys): challenges are kept in    *)
(* the stash for half as long again as the client may take to answer; the  *)
(* answer registers a credential (create) or authenticates with one (use). *)
(* Verification deletes the challenge before the record is stored, and use *)
(* is retried when another call has stored the record meanwhile.           *)
(***************************************************************************)
EXTENDS Naturals, Sequences

CONSTANTS Kids,          \* credentials that the client's devices have
          Counting,      \* those that count their signatures
          MaxRequests,   \* bounds those that carry an answer of a device
          Timeout,       \* of the configuration
          Unanswered,    \* no reply, answer or record yet
          MaxClock, MaxChallenges, MaxSignatures    \* bounds

ASSUME PasskeysAssumption ==
    /\ MaxRequests \in Nat /\ MaxClock \in Nat /\ MaxChallenges \in Nat /\ MaxSignatures \in Nat
    /\ Timeout \in Nat /\ Timeout >= 2    \* of 1, the stash keeps no longer than the client has
    /\ Unanswered \notin {"identity", "created", "challenge", "counter", "NotFound"}

VARIABLES clock,
          stash,         \* challenges that the stash holds
          issued,        \* when each challenge was created
          signatures,    \* made by each device
          answers,       \* of the devices: what the client may send, repeatedly
          passkey,       \* the record of each credential
          presented        \* the requests being served

passkeyVars == <<clock, stash, issued, signatures, answers, passkey, presented>>

Requests == 1..MaxRequests    \* in the order of their arrival
Challenges == 1..MaxChallenges
Answers == [kid : Kids, challenge : Challenges, counter : 0..MaxSignatures,
            type : {"create", "use"}]
Replies == {"identity", "created", "challenge", "counter", "NotFound"}

PasskeysTyped ==
    /\ stash \subseteq DOMAIN issued
    /\ answers \subseteq Answers
    /\ \A k \in Kids : passkey[k].counter \in 0..MaxSignatures
    /\ \A r \in Requests : presented[r].reply \in Replies \cup {Unanswered}

Idle == [at |-> "idle", reply |-> Unanswered, answer |-> Unanswered, read |-> Unanswered]

PasskeysInit == /\ clock = 0 /\ stash = {} /\ issued = <<>> /\ answers = {}
                /\ signatures = [k \in Kids |-> 0]
                /\ passkey \in [Kids -> {[is |-> "none", counter |-> 0, version |-> 0],
                                         [is |-> "stored", counter |-> 0, version |-> 1]}]
                /\ presented = [r \in Requests |-> Idle]

Until(c) == issued[c] + (Timeout * 3) \div 2
Tick == /\ clock < MaxClock /\ clock' = clock + 1
        /\ stash' = {c \in stash : Until(c) > clock'}
        /\ UNCHANGED <<issued, signatures, answers, passkey, presented>>

Challenge ==
    /\ Len(issued) < MaxChallenges
    /\ issued' = Append(issued, clock)
    /\ stash' = stash \cup {Len(issued')}
    /\ UNCHANGED <<clock, signatures, answers, passkey, presented>>

\* A device answers a challenge in time, if its user gives up no earlier; with
\* the first answer it makes the credential.
Sign(k, c) ==
    /\ c \in DOMAIN issued /\ clock <= issued[c] + Timeout
    /\ ~ \E a \in answers : a.challenge = c
    /\ signatures[k] < MaxSignatures
    /\ signatures' = [signatures EXCEPT ![k] = @ + 1]
    /\ answers' = answers \cup
         {[kid |-> k, challenge |-> c,
           type |-> IF passkey[k].version = 0 /\ signatures[k] = 0 THEN "create" ELSE "use",
           counter |-> IF k \in Counting THEN signatures'[k] ELSE 0]}
    /\ UNCHANGED <<clock, stash, issued, passkey, presented>>

----------------------------------------------------------------------------
Goes(r, to) == presented' = [presented EXCEPT ![r] = to]
Replies1(r, reply) == Goes(r, [presented[r] EXCEPT !.at = "done", !.reply = reply])

\* The client sends an answer; create starts with a new record.
Send(r, a) ==
    /\ presented[r].at = "idle" /\ a \in answers
    /\ \A q \in Requests : q < r => presented[q].at # "idle"
    /\ Goes(r, [Idle EXCEPT !.at = "acquire", !.answer = a])
    /\ UNCHANGED <<clock, stash, issued, signatures, answers, passkey>>

\* A credential that is not stored, or no longer, is StateNotFound.
Acquire(r) ==
    /\ presented[r].at = "acquire"
    /\ LET a == presented[r].answer IN
       IF a.type = "use" /\ passkey[a.kid].is # "stored"
       THEN Replies1(r, "NotFound")
       ELSE Goes(r, [presented[r] EXCEPT !.at = "verify", !.read = passkey[a.kid]])
    /\ UNCHANGED <<clock, stash, issued, signatures, answers, passkey>>

Fresh(a, read) ==
    a.counter > read.counter \/ (a.counter = 0 /\ read.counter = 0)

VerifyKept(r) ==   \* faulty: the challenge stays
    /\ presented[r].at = "verify"
    /\ LET a == presented[r].answer IN
       IF a.challenge \notin stash THEN Replies1(r, "challenge")
       ELSE IF a.type = "use" /\ ~ Fresh(a, presented[r].read) THEN Replies1(r, "counter")
       ELSE Goes(r, [presented[r] EXCEPT !.at = "commit"])
    /\ UNCHANGED <<clock, stash, issued, signatures, answers, passkey>>

\* The challenge is looked up by deleting it; a counter must have advanced.
Verify(r) ==
    /\ presented[r].at = "verify"
    /\ LET a == presented[r].answer IN
       /\ IF a.challenge \notin stash THEN Replies1(r, "challenge")
          ELSE IF a.type = "use" /\ ~ Fresh(a, presented[r].read) THEN Replies1(r, "counter")
          ELSE Goes(r, [presented[r] EXCEPT !.at = "commit"])
       /\ stash' = stash \ {a.challenge}
    /\ UNCHANGED <<clock, issued, signatures, answers, passkey>>

\* create leaves the counter at its default.
Create(r) ==
    /\ presented[r].at = "commit" /\ presented[r].answer.type = "create"
    /\ passkey' = [passkey EXCEPT ![presented[r].answer.kid] =
                     [is |-> "stored", counter |-> 0, version |-> @.version + 1]]
    /\ Replies1(r, "created")
    /\ UNCHANGED <<clock, stash, issued, signatures, answers>>

\* The record is stored unless another call has, which repeats this one.
Use(r) ==
    /\ presented[r].at = "commit" /\ presented[r].answer.type = "use"
    /\ LET a == presented[r].answer IN
       IF passkey[a.kid] = presented[r].read
       THEN /\ passkey' = [passkey EXCEPT ![a.kid].counter = a.counter,
                                          ![a.kid].version = @ + 1]
            /\ Replies1(r, "identity")
       ELSE /\ Goes(r, [presented[r] EXCEPT !.at = "acquire"]) /\ UNCHANGED passkey
    /\ UNCHANGED <<clock, stash, issued, signatures, answers>>

Delete(k) ==
    /\ passkey[k].is = "stored"
    /\ passkey' = [passkey EXCEPT ![k].is = "terminated", ![k].version = @ + 1]
    /\ UNCHANGED <<clock, stash, issued, signatures, answers, presented>>

PasskeysNext ==
    \/ Tick \/ Challenge \/ \E k \in Kids : Delete(k)
    \/ \E k \in Kids, c \in DOMAIN issued : Sign(k, c)
    \/ \E r \in Requests :
          \/ Acquire(r) \/ Verify(r) \/ Create(r) \/ Use(r)
          \/ \E a \in answers : Send(r, a)

PasskeysSpec == PasskeysInit /\ [][PasskeysNext]_passkeyVars

----------------------------------------------------------------------------
Accepted(r) == presented[r].reply \in {"identity", "created"}
Verified(r) == Accepted(r) \/ presented[r].at = "commit"

\* However often it is sent, an answer is accepted once (use.ts:56).
AcceptedOnce ==
    \A r, s \in Requests :
        Verified(r) /\ Verified(s) /\ presented[r].answer = presented[s].answer => r = s

\* The counter of a record is that of the last accepted answer: it never goes
\* back, although calls with newer and older answers overlap.
CounterAdvances ==
    \A r \in Requests :
        /\ presented[r].reply = "identity"
        /\ presented[r].answer.kid \in Counting
        => /\ passkey[presented[r].answer.kid].counter >= presented[r].answer.counter
           /\ \A s \in Requests \ {r} :
                 presented[s].reply = "identity" /\ presented[s].answer.kid = presented[r].answer.kid
                 => presented[s].answer.counter # presented[r].answer.counter

\* In time, an answer is refused for its challenge only if another request has
\* sent it, or if the same credential was stored or deleted meanwhile.
InTime ==
    \A r \in Requests :
        /\ presented[r].reply = "challenge"
        /\ clock <= issued[presented[r].answer.challenge] + Timeout
        => \/ \E s \in Requests \ {r} :
                 presented[s].at # "idle" /\ presented[s].answer = presented[r].answer
           \/ passkey[presented[r].answer.kid].version > 1

\* Challenges are answered once and in time, counters only advance.
PasskeysSound == PasskeysTyped /\ AcceptedOnce /\ CounterAdvances /\ InTime
=============================================================================
