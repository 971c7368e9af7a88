--------------------------- MODULE IdentitiesProofs ---------------------------
(***************************************************************************)
(* Proofs about Passkeys, for any credentials, number of requests and      *)
(* challenges, timeout and bounds; and about Federation, for any issuers,  *)
(* keys, rotations and tokens; and about Access, for any cases.            *)
(***************************************************************************)
EXTENDS Passkeys, Federation, Access, TLAPS

Records == [is : {"none", "stored", "terminated"}, counter : 0..MaxSignatures, version : Nat]
Presentation == [at : {"idle", "acquire", "verify", "commit", "done"},
                 reply : Replies \cup {Unanswered},
                 answer : Answers \cup {Unanswered},
                 read : Records \cup {Unanswered}]

Shapes ==
    /\ clock \in Nat
    /\ issued \in Seq(Nat)
    /\ stash \subseteq 1..Len(issued)
    /\ signatures \in [Kids -> 0..MaxSignatures]
    /\ answers \subseteq Answers
    /\ passkey \in [Kids -> Records]
    /\ presented \in [Requests -> Presentation]
    /\ Len(issued) <= MaxChallenges

\* A request carries an answer of a device, and a reply once it is done.
Carrying ==
    \A r \in Requests :
        /\ presented[r].at # "idle" => presented[r].answer \in answers
        /\ presented[r].at \in {"verify", "commit"} => presented[r].read \in Records
        /\ presented[r].at = "done" <=> presented[r].reply # Unanswered

\* A challenge is answered once, and a device makes one credential, with its first answer.
Distinct ==
    /\ \A a \in answers : /\ a.challenge \in 1..Len(issued) /\ signatures[a.kid] > 0
                          /\ a.kid \in Counting => a.counter > 0
    /\ \A a, b \in answers :
          \/ a.challenge = b.challenge
          \/ a.type = "create" /\ b.type = "create" /\ a.kid = b.kid
          => a = b

\* What is stored has a version.
Versioned == \A k \in Kids : passkey[k].is = "stored" => passkey[k].version >= 1

\* A record that was read is still there, or has been replaced by a newer one.
Reading ==
    \A r \in Requests :
        /\ presented[r].at \in {"verify", "commit"}
        /\ presented[r].answer.type = "use"
        => LET current == passkey[presented[r].answer.kid]
               read == presented[r].read
           IN  /\ read.version >= 1 /\ read.version <= current.version
               /\ read.version = current.version => read = current
               /\ presented[r].at = "commit" => Fresh(presented[r].answer, read)

\* The challenge of a verified answer is gone, and no other request is verified with it.
Spent ==
    /\ \A r \in Requests : Verified(r) => presented[r].answer.challenge \notin stash
    /\ \A r, s \in Requests :
          Verified(r) /\ Verified(s) /\ presented[r].answer.challenge = presented[s].answer.challenge
          => r = s

\* A credential that a device is to make is stored only by the request that makes it.
Made ==
    \A a \in answers :
        a.type = "create" /\ passkey[a.kid].version > 0
        => \E r \in Requests : presented[r].reply = "created" /\ presented[r].answer = a

\* Who authenticated did so with a credential that is stored, or was.
Known ==
    \A r \in Requests :
        presented[r].reply = "identity" => passkey[presented[r].answer.kid].version >= 1

\* In its time, a challenge that is gone was taken by a request.
Taken ==
    \A c \in 1..Len(issued) :
        clock < Until(c) /\ c \notin stash
        => \E s \in Requests :
              /\ presented[s].at # "idle" /\ presented[s].answer.challenge = c
              /\ presented[s].at \in {"commit", "done"} \/ passkey[presented[s].answer.kid].version > 1

PasskeysInv ==
    /\ Shapes /\ Carrying /\ Distinct /\ Versioned /\ Reading /\ Spent /\ Made /\ Known /\ Taken
    /\ CounterAdvances /\ InTime

\* The stash keeps a challenge for longer than the client has to answer it.
LEMMA KeptLonger ==
    ASSUME Shapes, NEW c \in 1..Len(issued)
    PROVE  issued[c] \in Nat /\ Until(c) \in Nat /\ Until(c) > issued[c] + Timeout
<1>1. issued[c] \in Nat
  BY DEF Shapes
<1>2. (Timeout * 3) \div 2 \in Nat /\ (Timeout * 3) \div 2 > Timeout
  BY PasskeysAssumption
<1> QED
  BY <1>1, <1>2, PasskeysAssumption DEF Until

\* Replies are not the lack of one.
LEMMA RepliesDiffer == Unanswered \notin Replies
BY PasskeysAssumption DEF Replies

\* Nobody has asked for anything yet.
LEMMA PasskeysInitInv == PasskeysInit => PasskeysInv
<1> SUFFICES ASSUME PasskeysInit PROVE PasskeysInv
  OBVIOUS
<1>1. /\ Idle \in Presentation /\ Idle.at = "idle" /\ Idle.reply = Unanswered
      /\ \A r \in Requests : presented[r] = Idle
  BY DEF Idle, Presentation, PasskeysInit
<1>2. Shapes
  <2>1. passkey \in [Kids -> Records]
    BY PasskeysAssumption DEF PasskeysInit, Records
  <2>2. signatures \in [Kids -> 0..MaxSignatures] /\ Len(issued) = 0
    BY PasskeysAssumption DEF PasskeysInit
  <2> QED
    BY <1>1, <2>1, <2>2, PasskeysAssumption DEF PasskeysInit, Shapes
<1>3. Versioned
  BY DEF PasskeysInit, Versioned
<1>4. Carrying /\ Reading /\ Spent /\ Known /\ CounterAdvances /\ InTime
  BY <1>1, RepliesDiffer DEF Carrying, Reading, Spent, Known, CounterAdvances, InTime, Verified, Accepted, Replies
<1>5. Distinct /\ Made
  BY DEF PasskeysInit, Distinct, Made
<1>6. Taken
  BY DEF PasskeysInit, Taken
<1> QED
  BY <1>2, <1>3, <1>4, <1>5, <1>6 DEF PasskeysInv

\* Time passes: what the stash drops was kept for long enough.
LEMMA TickInv == ASSUME PasskeysInv, Tick PROVE PasskeysInv'
<1> USE DEF Tick, PasskeysInv
<1>1. Shapes'
  <2>1. stash' \subseteq stash /\ clock' \in Nat
    BY DEF Shapes
  <2> QED
    BY <2>1 DEF Shapes
<1>2. Carrying' /\ Distinct' /\ Versioned' /\ Reading' /\ Made' /\ Known' /\ CounterAdvances'
  BY DEF Carrying, Distinct, Versioned, Reading, Made, Known, CounterAdvances
<1>3. Spent'
  BY DEF Spent, Verified, Accepted
<1>4. Taken'
  <2> SUFFICES ASSUME NEW c \in 1..Len(issued), clock' < Until(c), c \notin stash'
               PROVE  clock < Until(c) /\ c \notin stash
    BY DEF Taken, Until
  <2>1. clock \in Nat /\ Until(c) \in Nat
    BY KeptLonger DEF Shapes
  <2> QED
    BY <2>1
<1>5. InTime'
  <2> SUFFICES ASSUME NEW r \in Requests, presented[r].reply = "challenge",
                      clock' <= issued[presented[r].answer.challenge] + Timeout
               PROVE  clock <= issued[presented[r].answer.challenge] + Timeout
    BY DEF InTime
  <2>1. presented[r].answer.challenge \in 1..Len(issued)
    BY RepliesDiffer DEF Carrying, Distinct, Shapes, Replies, Presentation
  <2>2. clock \in Nat /\ issued[presented[r].answer.challenge] \in Nat
    BY <2>1, KeptLonger DEF Shapes
  <2> QED
    BY <2>2, PasskeysAssumption
<1> QED
  BY <1>1, <1>2, <1>3, <1>4, <1>5

\* A request that is done carries an answer to a challenge.
LEMMA DoneCarries ==
    ASSUME Shapes, Carrying, Distinct, NEW r \in Requests, presented[r].at # "idle"
    PROVE  /\ presented[r].answer \in answers /\ presented[r].answer \in Answers
           /\ presented[r].answer.challenge \in 1..Len(issued)
           /\ presented[r].answer.kid \in Kids
BY DEF Shapes, Carrying, Distinct, Answers

\* Who has a reply is done, and who is verified has come.
LEMMA RepliedAreDone ==
    ASSUME Carrying, NEW r \in Requests
    PROVE  /\ presented[r].reply \in Replies => presented[r].at = "done"
           /\ Verified(r) => presented[r].at \in {"commit", "done"}
           /\ Accepted(r) => presented[r].at = "done"
BY RepliesDiffer DEF Carrying, Verified, Accepted, Replies

\* A new challenge is nobody's yet.
LEMMA ChallengeInv == ASSUME PasskeysInv, Challenge PROVE PasskeysInv'
<1> USE DEF Challenge, PasskeysInv
<1>1. /\ Len(issued') = Len(issued) + 1 /\ Len(issued) \in Nat
      /\ \A c \in 1..Len(issued) : issued'[c] = issued[c] /\ c \in 1..Len(issued')
      /\ issued' \in Seq(Nat) /\ stash' = stash \cup {Len(issued) + 1}
      /\ Len(issued) + 1 \notin 1..Len(issued) /\ Len(issued) + 1 \in 1..Len(issued')
  BY DEF Shapes
<1>2. Shapes'
  <2>1. stash' \subseteq 1..Len(issued')
    BY <1>1 DEF Shapes
  <2>2. Len(issued') <= MaxChallenges
    BY <1>1, PasskeysAssumption
  <2> QED
    BY <1>1, <2>1, <2>2 DEF Shapes
<1>3. Carrying' /\ Versioned' /\ Reading' /\ Made' /\ Known' /\ CounterAdvances'
  BY DEF Carrying, Versioned, Reading, Made, Known, CounterAdvances
<1>4. Distinct'
  BY <1>1 DEF Distinct
<1>5. Spent'
  BY <1>1, DoneCarries, RepliedAreDone DEF Spent, Verified, Accepted
<1>6. Taken'
  BY <1>1 DEF Taken, Until
<1>7. InTime'
  BY <1>1, DoneCarries, RepliedAreDone DEF InTime, Replies
<1> QED
  BY <1>2, <1>3, <1>4, <1>5, <1>6, <1>7

\* A device answers a challenge that was not answered, and counts.
LEMMA SignInv ==
    ASSUME PasskeysInv, NEW k \in Kids, NEW c \in DOMAIN issued, Sign(k, c) PROVE PasskeysInv'
<1> USE DEF Sign, PasskeysInv
<1>1. PICK a \in Answers :
        /\ answers' = answers \cup {a} /\ a.kid = k /\ a.challenge = c /\ c \in 1..Len(issued)
        /\ a.type = "create" => signatures[k] = 0 /\ passkey[k].version = 0
        /\ k \in Counting => a.counter > 0
  <2> DEFINE new == [kid |-> k, challenge |-> c,
           type |-> IF passkey[k].version = 0 /\ signatures[k] = 0 THEN "create" ELSE "use",
           counter |-> IF k \in Counting THEN signatures'[k] ELSE 0]
  <2>1. signatures[k] + 1 \in 0..MaxSignatures /\ signatures'[k] = signatures[k] + 1 /\ signatures[k] \in Nat
    BY PasskeysAssumption DEF Shapes
  <2>2. c \in Challenges /\ c \in 1..Len(issued)
    BY PasskeysAssumption DEF Shapes, Challenges
  <2>3. new \in Answers
    BY <2>1, <2>2, PasskeysAssumption DEF Answers
  <2>4. /\ new.kid = k /\ new.challenge = c
        /\ new.type = "create" => signatures[k] = 0 /\ passkey[k].version = 0
        /\ k \in Counting => new.counter > 0
    BY <2>1
  <2>5. answers' = answers \cup {new}
    OBVIOUS
  <2> HIDE DEF new
  <2> QED
    BY <2>2, <2>3, <2>4, <2>5
<1>2. signatures' \in [Kids -> 0..MaxSignatures] /\ \A l \in Kids : signatures'[l] >= signatures[l]
  BY PasskeysAssumption DEF Shapes
<1>3. signatures'[k] > 0
  BY PasskeysAssumption DEF Shapes
<1>4. Shapes'
  BY <1>1, <1>2 DEF Shapes
<1>5. Carrying' /\ Versioned' /\ Reading' /\ Spent' /\ Known' /\ Taken' /\ CounterAdvances' /\ InTime'
  BY <1>1, SMTT(30) DEF Carrying, Versioned, Reading, Spent, Known, Taken, Until, CounterAdvances, InTime, Verified, Accepted
<1>6. Distinct'
  <2>1. ASSUME NEW b \in answers PROVE b.challenge # c /\ ~ (a.type = "create" /\ b.kid = k)
    BY <1>1 DEF Distinct
  <2>2. ASSUME NEW b \in answers PROVE b.challenge \in 1..Len(issued) /\ signatures'[b.kid] > 0
    BY <1>2, PasskeysAssumption DEF Distinct, Shapes, Answers
  <2> QED
    BY <1>1, <1>3, <2>1, <2>2 DEF Distinct
<1>7. Made'
  BY <1>1 DEF Made
<1> QED
  BY <1>4, <1>5, <1>6, <1>7

\* A request that comes has verified nothing yet.
LEMMA SendInv ==
    ASSUME PasskeysInv, NEW r \in Requests, NEW a \in answers, Send(r, a) PROVE PasskeysInv'
<1> USE DEF Send, PasskeysInv
<1>1. /\ presented' \in [Requests -> Presentation] /\ presented[r].at = "idle"
      /\ presented'[r].at = "acquire" /\ presented'[r].reply = Unanswered /\ presented'[r].answer = a
      /\ \A s \in Requests \ {r} : presented'[s] = presented[s]
  <2>1. [Idle EXCEPT !.at = "acquire", !.answer = a] \in Presentation
    BY DEF Idle, Presentation, Shapes
  <2> QED
    BY <2>1 DEF Goes, Idle, Shapes
<1>2. Shapes'
  BY <1>1 DEF Shapes
<1>3. Carrying' /\ Distinct' /\ Versioned' /\ Reading'
  BY <1>1 DEF Carrying, Distinct, Versioned, Reading
<1>4. /\ presented'[r].at # "commit"
      /\ presented'[r].reply \notin {"created", "identity", "challenge"}
  BY <1>1, RepliesDiffer DEF Replies
<1>5. Spent'
  BY <1>1, <1>4 DEF Spent, Verified, Accepted
<1>6. Made'
  BY <1>1, RepliedAreDone DEF Made, Replies
<1>7. Known' /\ CounterAdvances' /\ InTime'
  BY <1>1, <1>4 DEF Known, CounterAdvances, InTime
<1>8. Taken'
  BY <1>1 DEF Taken, Until
<1> QED
  BY <1>2, <1>3, <1>5, <1>6, <1>7, <1>8

\* The record is read, or a credential that is not stored is not found.
LEMMA AcquireInv == ASSUME PasskeysInv, NEW r \in Requests, Acquire(r) PROVE PasskeysInv'
<1> USE DEF Acquire, PasskeysInv
<1>0. /\ UNCHANGED <<clock, stash, issued, signatures, answers, passkey>>
      /\ presented \in [Requests -> Presentation] /\ presented[r].at = "acquire"
  BY DEF Shapes
<1>1. PICK a \in answers :
      /\ a = presented[r].answer /\ a \in Answers /\ a.kid \in Kids /\ passkey[a.kid] \in Records
      /\ presented[r] \in Presentation /\ presented[r].reply = Unanswered
  BY DoneCarries DEF Carrying, Shapes
<1>2. /\ presented' \in [Requests -> Presentation]
      /\ presented'[r].answer = a /\ presented'[r].at \in {"verify", "done"}
      /\ presented'[r].at = "done" => presented'[r].reply = "NotFound"
      /\ presented'[r].at = "verify" => /\ presented'[r].reply = Unanswered
                                        /\ presented'[r].read = passkey[a.kid]
                                        /\ a.type = "use" => passkey[a.kid].is = "stored"
      /\ \A s \in Requests \ {r} : presented'[s] = presented[s]
  <2>1. CASE a.type = "use" /\ passkey[a.kid].is # "stored"
    <3>1. [presented[r] EXCEPT !.at = "done", !.reply = "NotFound"] \in Presentation
      BY <1>1 DEF Presentation, Replies
    <3>2. presented' = [presented EXCEPT ![r] = [presented[r] EXCEPT !.at = "done", !.reply = "NotFound"]]
      BY <1>1, <2>1 DEF Goes, Replies1
    <3> HIDE DEF Acquire, PasskeysInv
    <3> QED
      BY <1>0, <1>1, <3>1, <3>2 DEF Shapes, Presentation
  <2>2. CASE ~ (a.type = "use" /\ passkey[a.kid].is # "stored")
    <3>1. [presented[r] EXCEPT !.at = "verify", !.read = passkey[a.kid]] \in Presentation
      BY <1>1 DEF Presentation
    <3>2. presented' = [presented EXCEPT ![r] = [presented[r] EXCEPT !.at = "verify", !.read = passkey[a.kid]]]
      BY <1>1, <2>2 DEF Goes
    <3> HIDE DEF Acquire, PasskeysInv
    <3> QED
      BY <1>0, <1>1, <2>2, <3>1, <3>2, PasskeysAssumption DEF Presentation
  <2> QED
    BY <2>1, <2>2
<1> HIDE DEF Acquire
<1>11. /\ presented'[r].at = "verify" \/ presented'[r].at = "done"
       /\ presented'[r].reply = "NotFound" \/ presented'[r].reply = Unanswered
  BY <1>2
<1>3. Shapes' /\ Distinct' /\ Versioned'
  BY <1>0, <1>1, <1>2 DEF Shapes, Distinct, Versioned
<1>4. Carrying'
  <2> SUFFICES ASSUME NEW s \in Requests
               PROVE  /\ presented'[s].at # "idle" => presented'[s].answer \in answers
                      /\ presented'[s].at \in {"verify", "commit"} => presented'[s].read \in Records
                      /\ presented'[s].at = "done" <=> presented'[s].reply # Unanswered
    BY <1>0 DEF Carrying
  <2>1. CASE s = r
    <3>1. presented'[r].answer \in answers /\ (presented'[r].at = "verify" => presented'[r].read \in Records)
      BY <1>1, <1>2
    <3>2. presented'[r].at = "done" <=> presented'[r].reply # Unanswered
      <4>1. Unanswered # "NotFound"
        BY PasskeysAssumption
      <4> QED
        BY <1>2, <4>1
    <3> QED
      BY <1>11, <2>1, <3>1, <3>2
  <2>2. CASE s # r
    BY <1>0, <1>1, <1>2, <2>2 DEF Carrying
  <2> QED
    BY <2>1, <2>2
<1>5. Reading'
  <2>1. a.type = "use" /\ presented'[r].at = "verify"
        => presented'[r].read.version >= 1 /\ presented'[r].read.version <= passkey[a.kid].version
    BY <1>0, <1>1, <1>2 DEF Versioned, Records
  <2> QED
    BY <1>0, <1>1, <1>2, <2>1 DEF Reading
<1>6. presented'[r].at # "commit" /\ presented'[r].reply \notin {"created", "identity", "challenge"}
  BY <1>11, PasskeysAssumption
<1>7. Spent'
  BY <1>0, <1>1, <1>2, <1>6 DEF Spent, Verified, Accepted
<1>8. Made'
  BY <1>0, <1>1, <1>2, PasskeysAssumption DEF Made
<1>9. Known' /\ CounterAdvances' /\ InTime'
  BY <1>0, <1>1, <1>2, <1>6 DEF Known, CounterAdvances, InTime
<1>10. Taken'
  BY <1>0, <1>1, <1>2 DEF Taken, Until
<1> QED
  BY <1>3, <1>4, <1>5, <1>7, <1>8, <1>9, <1>10

\* The challenge is taken, by one; that it is gone is one that another took.
LEMMA VerifyInv == ASSUME PasskeysInv, NEW r \in Requests, Verify(r) PROVE PasskeysInv'
<1> USE DEF Verify, PasskeysInv
<1>0. /\ UNCHANGED <<clock, issued, signatures, answers, passkey>>
      /\ presented \in [Requests -> Presentation] /\ presented[r].at = "verify"
  BY DEF Shapes
<1>1. PICK a \in answers :
      /\ a = presented[r].answer /\ a \in Answers /\ a.kid \in Kids /\ a.challenge \in 1..Len(issued)
      /\ presented[r] \in Presentation /\ presented[r].reply = Unanswered
      /\ presented[r].read \in Records
  BY DoneCarries DEF Carrying, Shapes
<1>2. /\ presented' \in [Requests -> Presentation]
      /\ presented'[r].answer = a /\ presented'[r].read = presented[r].read
      /\ presented'[r].at \in {"commit", "done"}
      /\ presented'[r].at = "done" => presented'[r].reply \in {"challenge", "counter"}
      /\ presented'[r].reply = "challenge" => a.challenge \notin stash
      /\ presented'[r].at = "commit" => /\ presented'[r].reply = Unanswered /\ a.challenge \in stash
                                        /\ a.type = "use" => Fresh(a, presented[r].read)
      /\ \A s \in Requests \ {r} : presented'[s] = presented[s]
  <2>1. /\ [presented[r] EXCEPT !.at = "done", !.reply = "challenge"] \in Presentation
        /\ [presented[r] EXCEPT !.at = "done", !.reply = "counter"] \in Presentation
        /\ [presented[r] EXCEPT !.at = "commit"] \in Presentation
    BY <1>1 DEF Presentation, Replies
  <2>2. CASE a.challenge \notin stash
    <3>1. presented' = [presented EXCEPT ![r] = [presented[r] EXCEPT !.at = "done", !.reply = "challenge"]]
      BY <1>1, <2>2 DEF Goes, Replies1
    <3> HIDE DEF Verify, PasskeysInv
    <3> QED
      BY <1>0, <1>1, <2>1, <2>2, <3>1 DEF Presentation
  <2>3. CASE a.challenge \in stash /\ a.type = "use" /\ ~ Fresh(a, presented[r].read)
    <3>1. presented' = [presented EXCEPT ![r] = [presented[r] EXCEPT !.at = "done", !.reply = "counter"]]
      BY <1>1, <2>3 DEF Goes, Replies1
    <3> HIDE DEF Verify, PasskeysInv
    <3> QED
      BY <1>0, <1>1, <2>1, <2>3, <3>1 DEF Presentation
  <2>4. CASE a.challenge \in stash /\ ~ (a.type = "use" /\ ~ Fresh(a, presented[r].read))
    <3>1. presented' = [presented EXCEPT ![r] = [presented[r] EXCEPT !.at = "commit"]]
      BY <1>1, <2>4 DEF Goes
    <3> QED
      BY <1>1, <2>1, <2>4, <3>1, PasskeysAssumption DEF Shapes, Presentation
  <2> QED
    BY <2>2, <2>3, <2>4
<1>3. stash' = stash \ {a.challenge}
  BY <1>1
<1> HIDE DEF Verify
<1>13. /\ presented'[r].at = "commit" \/ presented'[r].at = "done"
       /\ \/ presented'[r].reply = "challenge" \/ presented'[r].reply = "counter"
          \/ presented'[r].reply = Unanswered
  BY <1>2
<1>4. Shapes' /\ Distinct' /\ Versioned'
  BY <1>0, <1>1, <1>2, <1>3 DEF Shapes, Distinct, Versioned
<1>5. Carrying'
  <2> SUFFICES ASSUME NEW s \in Requests
               PROVE  /\ presented'[s].at # "idle" => presented'[s].answer \in answers
                      /\ presented'[s].at \in {"verify", "commit"} => presented'[s].read \in Records
                      /\ presented'[s].at = "done" <=> presented'[s].reply # Unanswered
    BY <1>0 DEF Carrying
  <2>1. CASE s = r
    <3>1. presented'[r].answer \in answers /\ presented'[r].read \in Records
      BY <1>1, <1>2
    <3>2. presented'[r].at = "done" <=> presented'[r].reply # Unanswered
      <4>1. Unanswered # "challenge" /\ Unanswered # "counter"
        BY PasskeysAssumption
      <4> QED
        BY <1>2, <1>13, <4>1
    <3> QED
      BY <2>1, <3>1, <3>2
  <2>2. CASE s # r
    BY <1>0, <1>1, <1>2, <2>2 DEF Carrying
  <2> QED
    BY <2>1, <2>2
<1>6. Reading'
  BY <1>0, <1>1, <1>2 DEF Reading
<1>7. presented'[r].reply \notin {"created", "identity"}
  BY <1>13, PasskeysAssumption
<1>8. Spent'
  <2>1. ASSUME NEW s \in Requests, Verified(s)'
        PROVE  /\ presented'[s].answer.challenge \notin stash'
               /\ s = r \/ (Verified(s) /\ presented'[s].answer = presented[s].answer)
               /\ s = r => a.challenge \in stash
    BY <1>0, <1>1, <1>2, <1>3, <1>7, <2>1 DEF Spent, Verified, Accepted
  <2>2. ASSUME NEW s \in Requests, NEW t \in Requests, Verified(s)', Verified(t)',
               presented'[s].answer.challenge = presented'[t].answer.challenge
        PROVE  s = t
    BY <1>0, <1>1, <1>2, <2>1, <2>2 DEF Spent
  <2> QED
    BY <2>1, <2>2 DEF Spent
<1>9. Made'
  BY <1>0, <1>1, <1>2, PasskeysAssumption DEF Made
<1>10. Known' /\ CounterAdvances'
  BY <1>0, <1>1, <1>2, <1>7 DEF Known, CounterAdvances
<1>11. Taken'
  <2> SUFFICES ASSUME NEW c \in 1..Len(issued), clock < Until(c), c \notin stash'
               PROVE  \E s \in Requests :
                        /\ presented'[s].at # "idle" /\ presented'[s].answer.challenge = c
                        /\ \/ presented'[s].at \in {"commit", "done"}
                           \/ passkey[presented'[s].answer.kid].version > 1
    BY <1>0 DEF Taken, Until
  <2>1. CASE c = a.challenge
    BY <1>0, <1>1, <1>2, <2>1
  <2>2. CASE c # a.challenge
    BY <1>0, <1>1, <1>2, <1>3, <2>2 DEF Taken
  <2> QED
    BY <2>1, <2>2
<1>12. InTime'
  <2> SUFFICES ASSUME NEW q \in Requests, presented'[q].reply = "challenge",
                      clock <= issued[presented'[q].answer.challenge] + Timeout
               PROVE  \/ \E s \in Requests \ {q} :
                            presented'[s].at # "idle" /\ presented'[s].answer = presented'[q].answer
                      \/ passkey[presented'[q].answer.kid].version > 1
    BY <1>0 DEF InTime
  <2>1. CASE q # r
    BY <1>0, <1>1, <1>2, <2>1 DEF InTime
  <2>2. CASE q = r
    <3>1. clock < Until(a.challenge) /\ a.challenge \notin stash
      <4>1. /\ issued[a.challenge] \in Nat /\ Until(a.challenge) \in Nat
            /\ Until(a.challenge) > issued[a.challenge] + Timeout
        BY <1>1, KeptLonger
      <4>2. clock <= issued[a.challenge] + Timeout /\ clock \in Nat
        BY <1>2, <2>2 DEF Shapes
      <4>3. clock < Until(a.challenge)
        BY <4>1, <4>2, PasskeysAssumption
      <4> QED
        BY <1>2, <2>2, <4>3
    <3>2. PICK s \in Requests :
             /\ presented[s].at # "idle" /\ presented[s].answer.challenge = a.challenge
             /\ presented[s].at \in {"commit", "done"} \/ passkey[presented[s].answer.kid].version > 1
      BY <1>0, <1>1, <3>1 DEF Taken
    <3>3. presented[s].answer = a
      BY <1>0, <1>1, <3>2, DoneCarries DEF Distinct
    <3>4. CASE s # r
      BY <1>0, <1>1, <1>2, <2>2, <3>2, <3>3, <3>4
    <3>5. CASE s = r
      BY <1>0, <1>1, <1>2, <2>2, <3>2, <3>3, <3>5
    <3> QED
      BY <3>4, <3>5
  <2> QED
    BY <2>1, <2>2
<1> QED
  BY <1>4, <1>5, <1>6, <1>8, <1>9, <1>10, <1>11, <1>12

\* A device's one creation of its credential makes the record's first version.
LEMMA CreateInv == ASSUME PasskeysInv, NEW r \in Requests, Create(r) PROVE PasskeysInv'
<1> USE DEF Create, PasskeysInv
<1>0. /\ UNCHANGED <<clock, stash, issued, signatures, answers>>
      /\ presented \in [Requests -> Presentation] /\ presented[r].at = "commit"
      /\ passkey \in [Kids -> Records]
  BY DEF Shapes
<1>1. PICK a \in answers :
      /\ a = presented[r].answer /\ a \in Answers /\ a.kid \in Kids /\ a.type = "create"
      /\ presented[r] \in Presentation /\ presented[r].reply = Unanswered
  BY DoneCarries DEF Carrying, Shapes
<1>2. /\ presented' \in [Requests -> Presentation]
      /\ presented'[r].answer = a /\ presented'[r].at = "done" /\ presented'[r].reply = "created"
      /\ \A s \in Requests \ {r} : presented'[s] = presented[s]
  <2>1. [presented[r] EXCEPT !.at = "done", !.reply = "created"] \in Presentation
    BY <1>1 DEF Presentation, Replies
  <2>2. presented' = [presented EXCEPT ![r] = [presented[r] EXCEPT !.at = "done", !.reply = "created"]]
    BY DEF Goes, Replies1
  <2> HIDE DEF Create, PasskeysInv
  <2> QED
    BY <1>0, <1>1, <2>1, <2>2 DEF Presentation
<1>3. passkey[a.kid].version = 0
  <2>1. ASSUME passkey[a.kid].version > 0 PROVE FALSE
    <3>1. PICK s \in Requests : presented[s].reply = "created" /\ presented[s].answer = a
      BY <1>1, <2>1 DEF Made
    <3>2. s = r
      BY <1>0, <1>1, <3>1 DEF Spent, Verified, Accepted
    <3> QED
      BY <1>1, <3>1, <3>2, PasskeysAssumption
  <2> QED
    BY <1>0, <1>1, <2>1 DEF Records
<1>4. /\ passkey' \in [Kids -> Records]
      /\ passkey'[a.kid].version = 1 /\ passkey'[a.kid].counter = 0
      /\ \A k \in Kids \ {a.kid} : passkey'[k] = passkey[k]
  <2>1. passkey' = [passkey EXCEPT ![a.kid] = [is |-> "stored", counter |-> 0, version |-> 1]]
    BY <1>0, <1>1, <1>3
  <2>2. [is |-> "stored", counter |-> 0, version |-> 1] \in Records
    BY PasskeysAssumption DEF Records
  <2> HIDE DEF Create, PasskeysInv
  <2> QED
    BY <1>0, <1>1, <2>1, <2>2
<1> HIDE DEF Create
<1>5. Shapes' /\ Distinct'
  BY <1>0, <1>2, <1>4 DEF Shapes, Distinct
<1>6. Carrying'
  BY <1>0, <1>1, <1>2, PasskeysAssumption DEF Carrying
<1>7. Versioned'
  BY <1>1, <1>4 DEF Versioned
<1>8. Reading'
  <2> SUFFICES ASSUME NEW s \in Requests \ {r}, presented[s].at \in {"verify", "commit"},
                      presented[s].answer.type = "use"
               PROVE  presented[s].answer.kid # a.kid
    BY <1>0, <1>2, <1>4, DoneCarries DEF Reading
  <2>1. presented[s].read.version >= 1 /\ presented[s].read.version <= passkey[presented[s].answer.kid].version
    BY DEF Reading
  <2>2. presented[s].read.version \in Nat
    BY DEF Carrying, Records
  <2> QED
    BY <1>3, <2>1, <2>2
<1>9. Spent'
  BY <1>0, <1>1, <1>2 DEF Spent, Verified, Accepted
<1>10. Made'
  <2> SUFFICES ASSUME NEW b \in answers, b.type = "create", passkey'[b.kid].version > 0
               PROVE  \E s \in Requests : presented'[s].reply = "created" /\ presented'[s].answer = b
    BY <1>0 DEF Made
  <2>1. CASE b = a
    BY <1>2, <2>1
  <2>2. CASE b # a
    <3>1. b.kid # a.kid /\ b.kid \in Kids
      BY <1>1, <2>2 DEF Distinct, Shapes, Answers
    <3>2. PICK s \in Requests : presented[s].reply = "created" /\ presented[s].answer = b
      BY <1>4, <3>1 DEF Made
    <3> QED
      BY <1>1, <1>2, <2>2, <3>2
  <2> QED
    BY <2>1, <2>2
<1>11. ASSUME NEW s \in Requests, presented'[s].reply = "identity"
       PROVE  /\ s # r /\ presented[s].reply = "identity"
              /\ presented[s].answer.kid # a.kid /\ presented[s].answer.kid \in Kids
  <2>1. s # r /\ presented[s].reply = "identity" /\ presented[s].at # "idle"
    BY <1>2, <1>11, RepliedAreDone DEF Replies
  <2> QED
    BY <1>3, <2>1, DoneCarries DEF Known
<1>12. Known' /\ CounterAdvances'
  BY <1>2, <1>4, <1>11 DEF Known, CounterAdvances
<1>13. Taken'
  <2>1. ASSUME NEW s \in Requests, presented[s].at # "idle", passkey[presented[s].answer.kid].version > 1
        PROVE  passkey'[presented[s].answer.kid].version > 1
    BY <1>3, <1>4, <2>1, DoneCarries
  <2> QED
    BY <1>0, <1>1, <1>2, <2>1 DEF Taken, Until
<1>14. InTime'
  <2> SUFFICES ASSUME NEW q \in Requests, presented'[q].reply = "challenge",
                      clock <= issued[presented'[q].answer.challenge] + Timeout
               PROVE  \/ \E s \in Requests \ {q} :
                            presented'[s].at # "idle" /\ presented'[s].answer = presented'[q].answer
                      \/ passkey'[presented'[q].answer.kid].version > 1
    BY <1>0 DEF InTime
  <2>1. q # r /\ presented[q].at # "idle" /\ presented[q].reply = "challenge"
    BY <1>2, RepliedAreDone DEF Replies
  <2>2. \/ \E s \in Requests \ {q} :
             presented[s].at # "idle" /\ presented[s].answer = presented[q].answer
        \/ passkey[presented[q].answer.kid].version > 1
    BY <1>2, <2>1 DEF InTime
  <2>3. CASE passkey[presented[q].answer.kid].version > 1
    BY <1>2, <1>3, <1>4, <2>1, <2>3, DoneCarries
  <2> QED
    BY <1>1, <1>2, <2>1, <2>2, <2>3
<1> QED
  BY <1>5, <1>6, <1>7, <1>8, <1>9, <1>10, <1>12, <1>13, <1>14

\* What changes a stored record otherwise keeps or advances its counter.
LEMMA Replaced ==
    ASSUME PasskeysInv, NEW k \in Kids, passkey[k].version >= 1,
           UNCHANGED <<clock, stash, issued, signatures, answers>>,
           passkey' \in [Kids -> Records],
           passkey'[k].version = passkey[k].version + 1, passkey'[k].counter >= passkey[k].counter,
           \A l \in Kids \ {k} : passkey'[l] = passkey[l]
    PROVE  /\ Distinct' /\ Versioned'
           /\ \A l \in Kids : /\ passkey'[l].version >= passkey[l].version
                              /\ passkey'[l].counter >= passkey[l].counter
                              /\ passkey'[l].version = passkey[l].version => passkey'[l] = passkey[l]
                              /\ passkey'[l].version > 0 => passkey[l].version > 0
                              /\ passkey[l].version \in Nat /\ passkey'[l].version \in Nat
                              /\ passkey[l].counter \in Nat /\ passkey'[l].counter \in Nat
<1>1. \A l \in Kids : /\ passkey[l].version \in Nat /\ passkey'[l].version \in Nat
                      /\ passkey[l].counter \in Nat /\ passkey'[l].counter \in Nat
  BY PasskeysAssumption DEF PasskeysInv, Shapes, Records
<1>2. ASSUME NEW l \in Kids
      PROVE  /\ passkey'[l].version >= passkey[l].version
             /\ passkey'[l].counter >= passkey[l].counter
             /\ passkey'[l].version = passkey[l].version => passkey'[l] = passkey[l]
             /\ passkey'[l].version > 0 => passkey[l].version > 0
  BY <1>1
<1>3. Distinct'
  BY DEF PasskeysInv, Distinct
<1>4. Versioned'
  BY <1>1, <1>2 DEF PasskeysInv, Versioned
<1> QED
  BY <1>1, <1>2, <1>3, <1>4

\* A record that is deleted keeps its counter.
LEMMA DeleteInv == ASSUME PasskeysInv, NEW k \in Kids, Delete(k) PROVE PasskeysInv'
<1> USE DEF Delete, PasskeysInv
<1>1. passkey[k] \in Records /\ passkey[k].version >= 1 /\ passkey \in [Kids -> Records]
  BY DEF Shapes, Versioned
<1>2. /\ passkey' \in [Kids -> Records]
      /\ passkey'[k].version = passkey[k].version + 1 /\ passkey'[k].counter = passkey[k].counter
      /\ passkey'[k].is = "terminated"
      /\ \A l \in Kids \ {k} : passkey'[l] = passkey[l]
  <2>1. [passkey[k] EXCEPT !.is = "terminated", !.version = passkey[k].version + 1] \in Records
    BY <1>1 DEF Records
  <2>2. passkey' = [passkey EXCEPT ![k] = [passkey[k] EXCEPT !.is = "terminated", !.version = passkey[k].version + 1]]
    BY <1>1
  <2> HIDE DEF Delete, PasskeysInv
  <2> QED
    BY <1>1, <2>1, <2>2 DEF Records
<1>3. /\ Distinct' /\ Versioned'
      /\ \A l \in Kids : /\ passkey'[l].version >= passkey[l].version
                         /\ passkey'[l].counter >= passkey[l].counter
                         /\ passkey'[l].version = passkey[l].version => passkey'[l] = passkey[l]
                         /\ passkey'[l].version > 0 => passkey[l].version > 0
                         /\ passkey[l].version \in Nat /\ passkey'[l].version \in Nat
                         /\ passkey[l].counter \in Nat /\ passkey'[l].counter \in Nat
  <2>1. passkey'[k].counter >= passkey[k].counter
    BY <1>1, <1>2, PasskeysAssumption DEF Records
  <2> QED
    BY <1>1, <1>2, <2>1, Replaced
<1>4. UNCHANGED <<clock, stash, issued, signatures, answers, presented>>
  OBVIOUS
<1> HIDE DEF Delete
<1>5. Shapes' /\ Carrying' /\ Spent'
  BY <1>2, <1>4 DEF Shapes, Carrying, Spent, Verified, Accepted
<1>6. ASSUME NEW r \in Requests, presented[r].at # "idle"
      PROVE  presented[r].answer.kid \in Kids /\ presented[r].answer.counter \in Nat
  BY <1>6, DoneCarries, PasskeysAssumption DEF Answers
<1>7. Reading'
  <2> SUFFICES ASSUME NEW r \in Requests, presented[r].at \in {"verify", "commit"},
                      presented[r].answer.type = "use"
               PROVE  LET now == passkey'[presented[r].answer.kid]
                          read == presented[r].read
                      IN  /\ read.version >= 1 /\ read.version <= now.version
                          /\ read.version = now.version => read = now
                          /\ presented[r].at = "commit" => Fresh(presented[r].answer, read)
    BY <1>4 DEF Reading
  <2>1. presented[r].answer.kid \in Kids /\ presented[r].read.version \in Nat
    BY <1>6 DEF Carrying, Records
  <2>2. LET current == passkey[presented[r].answer.kid]
            read == presented[r].read
        IN  /\ read.version >= 1 /\ read.version <= current.version
            /\ read.version = current.version => read = current
            /\ presented[r].at = "commit" => Fresh(presented[r].answer, read)
    BY DEF Reading
  <2> QED
    BY <1>3, <2>1, <2>2
<1>8. Made'
  BY <1>3, <1>4 DEF Made, Shapes, Answers
<1>9. Known' /\ CounterAdvances'
  <2>1. ASSUME NEW r \in Requests, presented[r].reply = "identity"
        PROVE  presented[r].answer.kid \in Kids /\ presented[r].answer.counter \in Nat
    BY <1>6, <2>1, RepliedAreDone DEF Replies
  <2>2. Known'
    BY <1>3, <1>4, <2>1 DEF Known
  <2> QED
    BY <1>3, <1>4, <2>1, <2>2 DEF CounterAdvances
<1>10. Taken'
  BY <1>3, <1>4, <1>6, SMTT(30) DEF Taken, Until
<1>11. InTime'
  <2>1. ASSUME NEW r \in Requests, presented[r].reply = "challenge"
        PROVE  presented[r].answer.kid \in Kids
    BY <1>6, <2>1, RepliedAreDone DEF Replies
  <2> QED
    BY <1>3, <1>4, <2>1 DEF InTime
<1> QED
  BY <1>3, <1>5, <1>7, <1>8, <1>9, <1>10, <1>11

\* A record that has not changed since it was read takes the answer's counter.
LEMMA StoreInv ==
    ASSUME PasskeysInv, NEW r \in Requests, Use(r),
           passkey[presented[r].answer.kid] = presented[r].read
    PROVE  PasskeysInv'
<1> USE DEF Use, PasskeysInv
<1>0. /\ UNCHANGED <<clock, stash, issued, signatures, answers>>
      /\ presented \in [Requests -> Presentation] /\ presented[r].at = "commit"
      /\ passkey \in [Kids -> Records]
  BY DEF Shapes
<1>1. PICK a \in answers :
      /\ a = presented[r].answer /\ a \in Answers /\ a.kid \in Kids /\ a.type = "use"
      /\ presented[r] \in Presentation /\ presented[r].reply = Unanswered
      /\ a.kid \in Counting => a.counter > 0
  BY DoneCarries DEF Carrying, Shapes, Distinct
<1>2. /\ presented' \in [Requests -> Presentation]
      /\ presented'[r].answer = a /\ presented'[r].at = "done" /\ presented'[r].reply = "identity"
      /\ \A s \in Requests \ {r} : presented'[s] = presented[s]
  <2>1. [presented[r] EXCEPT !.at = "done", !.reply = "identity"] \in Presentation
    BY <1>1 DEF Presentation, Replies
  <2>2. presented' = [presented EXCEPT ![r] = [presented[r] EXCEPT !.at = "done", !.reply = "identity"]]
    BY <1>1 DEF Goes, Replies1
  <2> HIDE DEF Use, PasskeysInv
  <2> QED
    BY <1>0, <1>1, <2>1, <2>2 DEF Presentation
<1>3. /\ passkey[a.kid] \in Records /\ passkey[a.kid].version >= 1
      /\ Fresh(a, passkey[a.kid]) /\ a.counter \in 0..MaxSignatures
  BY <1>0, <1>1 DEF Reading, Answers
<1>4. /\ a.counter \in Nat /\ passkey[a.kid].counter \in Nat /\ passkey[a.kid].version \in Nat
      /\ a.counter >= passkey[a.kid].counter
      /\ a.kid \in Counting => a.counter > passkey[a.kid].counter
  <2>1. a.counter \in Nat /\ passkey[a.kid].counter \in Nat /\ passkey[a.kid].version \in Nat
    BY <1>3, PasskeysAssumption DEF Records
  <2> QED
    BY <1>1, <1>3, <2>1 DEF Fresh
<1>5. /\ passkey' \in [Kids -> Records]
      /\ passkey'[a.kid].version = passkey[a.kid].version + 1 /\ passkey'[a.kid].counter = a.counter
      /\ \A l \in Kids \ {a.kid} : passkey'[l] = passkey[l]
  <2>1. passkey' = [passkey EXCEPT ![a.kid] = [passkey[a.kid] EXCEPT !.counter = a.counter, !.version = passkey[a.kid].version + 1]]
    BY <1>0, <1>1
  <2>2. [passkey[a.kid] EXCEPT !.counter = a.counter, !.version = passkey[a.kid].version + 1] \in Records
    <3>1. /\ passkey[a.kid] \in Records /\ passkey[a.kid].version + 1 \in Nat
          /\ a.counter \in 0..MaxSignatures
      BY <1>3, <1>4
    <3> HIDE DEF Use, PasskeysInv
    <3> QED
      BY <3>1 DEF Records
  <2> HIDE DEF Use, PasskeysInv
  <2> QED
    BY <1>0, <1>1, <1>3, <2>1, <2>2 DEF Records
<1>6. /\ Distinct' /\ Versioned'
      /\ \A l \in Kids : /\ passkey'[l].version >= passkey[l].version
                         /\ passkey'[l].counter >= passkey[l].counter
                         /\ passkey'[l].version = passkey[l].version => passkey'[l] = passkey[l]
                         /\ passkey'[l].version > 0 => passkey[l].version > 0
                         /\ passkey[l].version \in Nat /\ passkey'[l].version \in Nat
                         /\ passkey[l].counter \in Nat /\ passkey'[l].counter \in Nat
  BY <1>0, <1>1, <1>3, <1>4, <1>5, Replaced
<1> HIDE DEF Use
<1>7. Shapes'
  BY <1>0, <1>2, <1>5 DEF Shapes
<1>8. Carrying'
  BY <1>0, <1>1, <1>2, PasskeysAssumption DEF Carrying
<1>9. ASSUME NEW s \in Requests, presented[s].at # "idle"
      PROVE  presented[s].answer.kid \in Kids /\ presented[s].answer.counter \in Nat
  BY <1>9, DoneCarries, PasskeysAssumption DEF Answers
<1>10. Reading'
  <2> SUFFICES ASSUME NEW s \in Requests \ {r}, presented[s].at \in {"verify", "commit"},
                      presented[s].answer.type = "use"
               PROVE  LET now == passkey'[presented[s].answer.kid]
                          read == presented[s].read
                      IN  /\ read.version >= 1 /\ read.version <= now.version
                          /\ read.version = now.version => read = now
                          /\ presented[s].at = "commit" => Fresh(presented[s].answer, read)
    BY <1>2 DEF Reading
  <2>1. presented[s].answer.kid \in Kids /\ presented[s].read.version \in Nat
    BY <1>9 DEF Carrying, Records
  <2>2. LET current == passkey[presented[s].answer.kid]
            read == presented[s].read
        IN  /\ read.version >= 1 /\ read.version <= current.version
            /\ read.version = current.version => read = current
            /\ presented[s].at = "commit" => Fresh(presented[s].answer, read)
    BY DEF Reading
  <2> QED
    BY <1>6, <2>1, <2>2
<1>11. Spent'
  BY <1>0, <1>1, <1>2 DEF Spent, Verified, Accepted
<1>12. Made'
  <2> SUFFICES ASSUME NEW b \in answers, b.type = "create", passkey'[b.kid].version > 0
               PROVE  \E s \in Requests : presented'[s].reply = "created" /\ presented'[s].answer = b
    BY <1>0 DEF Made
  <2>1. b.kid \in Kids /\ passkey[b.kid].version > 0
    BY <1>6 DEF Shapes, Answers
  <2>2. PICK s \in Requests : presented[s].reply = "created" /\ presented[s].answer = b
    BY <2>1 DEF Made
  <2> QED
    BY <1>1, <1>2, <2>2
<1>13. ASSUME NEW s \in Requests \ {r}, presented'[s].reply = "identity"
       PROVE  /\ presented[s].reply = "identity" /\ presented'[s].answer = presented[s].answer
              /\ presented[s].answer.kid \in Kids /\ presented[s].answer.counter \in Nat
  <2>1. presented[s].reply = "identity" /\ presented[s].at # "idle"
    BY <1>2, <1>13, RepliedAreDone DEF Replies
  <2> QED
    BY <1>2, <1>9, <2>1
<1>14. Known'
  <2>1. ASSUME NEW s \in Requests \ {r}, presented'[s].reply = "identity"
        PROVE  passkey'[presented'[s].answer.kid].version >= 1
    BY <1>6, <1>13, <2>1 DEF Known
  <2>2. passkey'[a.kid].version >= 1
    BY <1>4, <1>5
  <2> QED
    BY <1>2, <2>1, <2>2 DEF Known
<1>15. CounterAdvances'
  <2>1. ASSUME NEW s \in Requests \ {r}, presented'[s].reply = "identity",
               presented'[s].answer.kid \in Counting
        PROVE  /\ passkey[presented[s].answer.kid].counter >= presented[s].answer.counter
               /\ passkey'[presented[s].answer.kid].counter >= presented[s].answer.counter
               /\ presented[s].answer.kid = a.kid => a.counter # presented[s].answer.counter
    <3>1. passkey[presented[s].answer.kid].counter >= presented[s].answer.counter
      BY <1>13, <2>1 DEF CounterAdvances
    <3>2. passkey'[presented[s].answer.kid].counter >= presented[s].answer.counter
      BY <1>6, <1>13, <2>1, <3>1
    <3> QED
      BY <1>4, <1>13, <2>1, <3>1, <3>2
  <2>2. ASSUME NEW s \in Requests \ {r}, NEW t \in Requests \ {r, s},
               presented'[s].reply = "identity", presented'[s].answer.kid \in Counting,
               presented'[t].reply = "identity", presented'[t].answer.kid = presented'[s].answer.kid
        PROVE  presented'[t].answer.counter # presented'[s].answer.counter
    BY <1>13, <2>2 DEF CounterAdvances
  <2>3. passkey'[a.kid].counter >= a.counter
    BY <1>4, <1>5
  <2> QED
    BY <1>2, <1>13, <2>1, <2>2, <2>3 DEF CounterAdvances
<1>16. Taken'
  <2>1. ASSUME NEW s \in Requests, presented[s].at # "idle", passkey[presented[s].answer.kid].version > 1
        PROVE  passkey'[presented[s].answer.kid].version > 1
    BY <1>6, <1>9, <2>1
  <2> QED
    BY <1>0, <1>1, <1>2, <2>1 DEF Taken, Until
<1>17. InTime'
  <2> SUFFICES ASSUME NEW q \in Requests, presented'[q].reply = "challenge",
                      clock <= issued[presented'[q].answer.challenge] + Timeout
               PROVE  \/ \E s \in Requests \ {q} :
                            presented'[s].at # "idle" /\ presented'[s].answer = presented'[q].answer
                      \/ passkey'[presented'[q].answer.kid].version > 1
    BY <1>0 DEF InTime
  <2>1. q # r /\ presented[q].at # "idle" /\ presented[q].reply = "challenge"
    BY <1>2, RepliedAreDone DEF Replies
  <2>2. \/ \E s \in Requests \ {q} :
             presented[s].at # "idle" /\ presented[s].answer = presented[q].answer
        \/ passkey[presented[q].answer.kid].version > 1
    BY <1>2, <2>1 DEF InTime
  <2>3. CASE passkey[presented[q].answer.kid].version > 1
    BY <1>2, <1>6, <1>9, <2>1, <2>3
  <2> QED
    BY <1>1, <1>2, <2>1, <2>2, <2>3
<1> QED
  BY <1>6, <1>7, <1>8, <1>10, <1>11, <1>12, <1>14, <1>15, <1>16, <1>17

\* A record that another call has stored is read again.
LEMMA AgainInv ==
    ASSUME PasskeysInv, NEW r \in Requests, Use(r),
           passkey[presented[r].answer.kid] # presented[r].read
    PROVE  PasskeysInv'
<1> USE DEF Use, PasskeysInv
<1>0. /\ UNCHANGED <<clock, stash, issued, signatures, answers, passkey>>
      /\ presented \in [Requests -> Presentation] /\ presented[r].at = "commit"
  BY DEF Shapes
<1>1. PICK a \in answers :
      /\ a = presented[r].answer /\ a \in Answers /\ a.kid \in Kids /\ a.type = "use"
      /\ presented[r] \in Presentation /\ presented[r].reply = Unanswered
  BY DoneCarries DEF Carrying, Shapes
<1>2. /\ presented' \in [Requests -> Presentation]
      /\ presented'[r].answer = a /\ presented'[r].at = "acquire" /\ presented'[r].reply = Unanswered
      /\ \A s \in Requests \ {r} : presented'[s] = presented[s]
  <2>1. [presented[r] EXCEPT !.at = "acquire"] \in Presentation
    BY <1>1 DEF Presentation
  <2>2. presented' = [presented EXCEPT ![r] = [presented[r] EXCEPT !.at = "acquire"]]
    BY <1>1 DEF Goes
  <2> HIDE DEF Use, PasskeysInv
  <2> QED
    BY <1>0, <1>1, <2>1, <2>2 DEF Presentation
<1>3. passkey[a.kid].version > 1
  <2>1. /\ presented[r].read.version >= 1 /\ presented[r].read.version <= passkey[a.kid].version
        /\ presented[r].read.version # passkey[a.kid].version
    BY <1>0, <1>1 DEF Reading
  <2>2. presented[r].read.version \in Nat /\ passkey[a.kid].version \in Nat
    BY <1>0, <1>1 DEF Carrying, Shapes, Records
  <2> QED
    BY <2>1, <2>2
<1> HIDE DEF Use
<1>4. presented'[r].reply \notin {"created", "identity", "challenge"}
  BY <1>2, PasskeysAssumption
<1>5. Shapes' /\ Distinct' /\ Versioned'
  BY <1>0, <1>2 DEF Shapes, Distinct, Versioned
<1>6. Carrying' /\ Reading'
  BY <1>0, <1>2 DEF Carrying, Reading
<1>7. Spent'
  BY <1>0, <1>2, <1>4 DEF Spent, Verified, Accepted
<1>8. Made'
  BY <1>0, <1>1, <1>2, PasskeysAssumption DEF Made
<1>9. Known' /\ CounterAdvances' /\ InTime'
  BY <1>0, <1>1, <1>2, <1>4 DEF Known, CounterAdvances, InTime
<1>10. Taken'
  BY <1>0, <1>1, <1>2, <1>3 DEF Taken, Until
<1> QED
  BY <1>5, <1>6, <1>7, <1>8, <1>9, <1>10

\* Every state of passkeys satisfies the inductive invariant.
THEOREM PasskeysInvariance == PasskeysSpec => []PasskeysInv
<1>1. PasskeysInv /\ [PasskeysNext]_passkeyVars => PasskeysInv'
  <2> SUFFICES ASSUME PasskeysInv, [PasskeysNext]_passkeyVars PROVE PasskeysInv'
    OBVIOUS
  <2>1. CASE UNCHANGED passkeyVars
    BY <2>1 DEF passkeyVars, PasskeysInv, Shapes, Carrying, Distinct, Versioned, Reading, Spent, Made,
                Known, Taken, Until, CounterAdvances, InTime, Verified, Accepted
  <2>2. CASE Tick
    BY <2>2, TickInv
  <2>3. CASE Challenge
    BY <2>3, ChallengeInv
  <2>4. CASE \E k \in Kids : Delete(k)
    BY <2>4, DeleteInv
  <2>5. CASE \E k \in Kids, c \in DOMAIN issued : Sign(k, c)
    BY <2>5, SignInv
  <2>6. ASSUME NEW r \in Requests, Acquire(r) \/ Verify(r) \/ Create(r) \/ Use(r)
        PROVE  PasskeysInv'
    BY <2>6, AcquireInv, VerifyInv, CreateInv, StoreInv, AgainInv
  <2>7. ASSUME NEW r \in Requests, NEW a \in answers, Send(r, a) PROVE PasskeysInv'
    BY <2>7, SendInv
  <2> QED
    BY <2>1, <2>2, <2>3, <2>4, <2>5, <2>6, <2>7 DEF PasskeysNext
<1> QED
  BY <1>1, PasskeysInitInv, PTL DEF PasskeysSpec

\* PasskeysSound: however requests, devices and expirations interleave, an answer
\* is accepted once, counters advance, and challenges are refused for a reason.
THEOREM PasskeysHeld == PasskeysSpec => []PasskeysSound
<1>1. PasskeysInv => PasskeysSound
  <2> SUFFICES ASSUME PasskeysInv PROVE PasskeysSound
    OBVIOUS
  <2>1. PasskeysTyped
    <3>1. stash \subseteq DOMAIN issued /\ answers \subseteq Answers
      BY DEF PasskeysInv, Shapes
    <3>2. \A k \in Kids : passkey[k].counter \in 0..MaxSignatures
      BY DEF PasskeysInv, Shapes, Records
    <3>3. \A r \in Requests : presented[r].reply \in Replies \cup {Unanswered}
      BY DEF PasskeysInv, Shapes, Presentation
    <3> QED
      BY <3>1, <3>2, <3>3 DEF PasskeysTyped
  <2>2. AcceptedOnce
    BY DEF PasskeysInv, Spent, AcceptedOnce
  <2> QED
    BY <2>1, <2>2 DEF PasskeysInv, PasskeysSound
<1> QED
  BY <1>1, PasskeysInvariance, PTL

----------------------------------------------------------------------------
(* Federation *)

\* Keys that are read at an instant were published within the time that
\* responses may be kept.
Recent(keys, at) ==
    /\ keys \in Seq(Keys)
    /\ \A i \in 1..Len(keys) : published[keys[i]] + TTL > at

Timely ==
    /\ instant \in Nat /\ visits \in Nat /\ publication \in 1..Len(Rotation)
    /\ published \in [Keys -> 0..instant]
    /\ \A i \in 1..Len(Rotation[publication]) : published[Rotation[publication][i]] = instant
    /\ \A a \in accepted : a.at \in Nat

\* What is kept was published when it was fetched.
KeptKeys ==
    kept # Nil =>
        /\ kept.keys \in Seq(Keys) /\ kept.until \in Nat
        /\ \A i \in 1..Len(kept.keys) : published[kept.keys[i]] + TTL >= kept.until

\* A visit has claims that were valid; its keys are recent.
Visiting ==
    visit # Nil =>
        /\ visit.token \in Presented /\ visit.read \in Nat
        /\ Symmetric(visit.token) =>
              /\ visit.token.iss \in DOMAIN Trust
              /\ visit.token.alg \in DOMAIN Trust[visit.token.iss].secrets
              /\ visit.token.kid # Nil =>
                    \E s \in Range(SecretsOf(visit.token)) : s.kid = visit.token.kid
        /\ visit.at = "check" /\ ~Symmetric(visit.token) => Recent(visit.keys, visit.read)

\* Identities are new to the visit that makes them.
OnesOwn ==
    /\ \A s \in DOMAIN subjects :
          \E n \in 1..visits : /\ subjects[s] = <<"identity", n>>
                               /\ visit # Nil => n < visits
    /\ \A s, u \in DOMAIN subjects : subjects[s] = subjects[u] => s = u
    /\ visit # Nil => visits > 0

\* Whom a token was accepted for is its subject.
Theirs ==
    \A a \in accepted : Subject(a.token) \in DOMAIN subjects /\ a.identity = subjects[Subject(a.token)]

FederationInv == Timely /\ KeptKeys /\ Visiting /\ OnesOwn /\ Theirs /\ SignedByIssuer

\* What is published are keys.
LEMMA PublishesKeys ==
    /\ 1 \in 1..Len(Rotation) /\ Len(Rotation) \in Nat
    /\ \A p \in 1..Len(Rotation) :
          /\ Rotation[p] \in Seq(Keys) /\ Range(Rotation[p]) \subseteq Keys
          /\ \A i \in 1..Len(Rotation[p]) : Rotation[p][i] \in Range(Rotation[p])
<1>1. Rotation \in Seq(Seq(Keys)) /\ Rotation # <<>>
  BY FederationAssumption DEF Keys
<1>2. 1 \in 1..Len(Rotation) /\ Len(Rotation) \in Nat
  BY <1>1
<1>3. ASSUME NEW p \in 1..Len(Rotation)
      PROVE  /\ Rotation[p] \in Seq(Keys) /\ Range(Rotation[p]) \subseteq Keys
             /\ \A i \in 1..Len(Rotation[p]) : Rotation[p][i] \in Range(Rotation[p])
  BY <1>1 DEF Range
<1> QED
  BY <1>2, <1>3

\* Whoever signed a token that the keys verify is one of them.
LEMMA SignerIsKey ==
    ASSUME NEW keys \in Seq(Keys), NEW t \in Presented, ~Symmetric(t), Signed(t, keys)
    PROVE  \E i \in 1..Len(keys) : t.signer = keys[i]
<1>1. keys # <<>> /\ t.signer = SigningKey(t, keys) /\ t.signer # Nil
  BY FederationAssumption DEF Signed
<1>2. CASE t.kid # Nil
  BY <1>1, <1>2 DEF SigningKey
<1>3. CASE t.kid = Nil
  <2>1. \E i \in DOMAIN keys : keys[i].kid = Nil
    BY <1>1, <1>3 DEF SigningKey
  <2>2. t.signer = CHOOSE k \in Range(keys) : k.kid = Nil
    BY <1>1, <1>3, <2>1 DEF SigningKey
  <2>3. \E k \in Range(keys) : k.kid = Nil
    BY <2>1 DEF Range
  <2>4. t.signer \in Range(keys)
    BY <2>2, <2>3
  <2> QED
    BY <2>4 DEF Range
<1> QED
  BY <1>2, <1>3

\* A secret is one of the issuer's.
LEMMA SecretIsTheirs ==
    ASSUME NEW t \in Presented, t.iss \in DOMAIN Trust, t.alg \in DOMAIN Trust[t.iss].secrets,
           t.kid # Nil => \E s \in Range(SecretsOf(t)) : s.kid = t.kid
    PROVE  Secret(t) \in {s.key : s \in Range(SecretsOf(t))}
<1>1. SecretsOf(t) # <<>> /\ SecretsOf(t) \in Seq(Range(SecretsOf(t)))
  BY FederationAssumption DEF SecretsOf
<1>2. CASE t.kid = Nil
  <2>1. SecretsOf(t)[1] \in Range(SecretsOf(t))
    BY <1>1
  <2> QED
    BY <1>2, <2>1 DEF Secret
<1>3. CASE t.kid # Nil
  <2>1. (CHOOSE s \in Range(SecretsOf(t)) : s.kid = t.kid) \in Range(SecretsOf(t))
    BY <1>3
  <2> QED
    BY <1>3, <2>1 DEF Secret
<1> QED
  BY <1>2, <1>3

\* Nobody has presented a token yet.
LEMMA FederationInitInv == FederationInit => FederationInv
<1> SUFFICES ASSUME FederationInit PROVE FederationInv
  OBVIOUS
<1>1. Timely
  <2>1. published \in [Keys -> 0..instant]
    BY DEF FederationInit
  <2>2. \A i \in 1..Len(Rotation[publication]) : published[Rotation[publication][i]] = instant
    BY PublishesKeys DEF FederationInit
  <2> QED
    BY <2>1, <2>2, PublishesKeys DEF FederationInit, Timely
<1>2. KeptKeys /\ Visiting /\ OnesOwn /\ Theirs /\ SignedByIssuer
  BY DEF FederationInit, KeptKeys, Visiting, OnesOwn, Theirs, SignedByIssuer
<1> QED
  BY <1>1, <1>2 DEF FederationInv

\* As time passes or keys are rotated, what was published remains at least as recent.
LEMMA PublishedLater ==
    ASSUME FederationInv, Timely', published' \in [Keys -> Nat],
           \A k \in Keys : published'[k] >= published[k],
           UNCHANGED <<kept, visit, accepted, subjects, visits>>
    PROVE  FederationInv'
<1> USE DEF FederationInv
<1>1. \A k \in Keys : published[k] \in Nat /\ published'[k] \in Nat /\ published'[k] >= published[k]
  BY DEF Timely
<1>2. KeptKeys'
  <2> SUFFICES ASSUME kept # Nil
               PROVE  \A i \in 1..Len(kept.keys) : published'[kept.keys[i]] + TTL >= kept.until
    BY DEF KeptKeys
  <2>1. ASSUME NEW i \in 1..Len(kept.keys) PROVE published'[kept.keys[i]] + TTL >= kept.until
    <3>1. kept.keys[i] \in Keys /\ kept.until \in Nat /\ published[kept.keys[i]] + TTL >= kept.until
      BY DEF KeptKeys
    <3> QED
      BY <1>1, <3>1, FederationAssumption, SMTT(30)
  <2> QED
    BY <2>1
<1>3. Visiting'
  <2> SUFFICES ASSUME visit # Nil, visit.at = "check", ~Symmetric(visit.token),
                      NEW i \in 1..Len(visit.keys)
               PROVE  published'[visit.keys[i]] + TTL > visit.read
    BY DEF Visiting, Recent
  <2>1. visit.keys[i] \in Keys /\ visit.read \in Nat /\ published[visit.keys[i]] + TTL > visit.read
    BY DEF Visiting, Recent
  <2> QED
    BY <1>1, <2>1, FederationAssumption, SMTT(30)
<1>4. OnesOwn' /\ Theirs'
  BY DEF OnesOwn, Theirs, Subject
<1>5. SignedByIssuer'
  <2> SUFFICES ASSUME NEW a \in accepted, ~Symmetric(a.token)
               PROVE  a.token.signer \in Keys /\ published'[a.token.signer] + TTL > a.at
    BY DEF SignedByIssuer
  <2>1. a.token.signer \in Keys /\ published[a.token.signer] + TTL > a.at /\ a.at \in Nat
    BY DEF SignedByIssuer, Timely
  <2> QED
    BY <1>1, <2>1, FederationAssumption, SMTT(30)
<1> QED
  BY <1>2, <1>3, <1>4, <1>5

\* Keys stay published as time passes.
LEMMA ElapseInv == ASSUME FederationInv, Elapse PROVE FederationInv'
<1> USE DEF FederationInv, Elapse
<1>1. instant \in Nat /\ instant' = instant + 1 /\ published \in [Keys -> 0..instant] /\ publication \in 1..Len(Rotation)
  BY DEF Timely
<1>2. \A k \in Keys : published'[k] \in 0..instant' /\ published'[k] >= published[k]
  BY <1>1
<1>3. published' \in [Keys -> 0..instant'] /\ published' \in [Keys -> Nat]
  BY <1>1, <1>2
<1>4. \A i \in 1..Len(Rotation[publication]) : published'[Rotation[publication][i]] = instant'
  BY <1>1, PublishesKeys
<1>5. Timely'
  BY <1>1, <1>3, <1>4 DEF Timely
<1> QED
  BY <1>2, <1>3, <1>5, PublishedLater

\* Keys that are published next are published now.
LEMMA RotateInv == ASSUME FederationInv, Rotate PROVE FederationInv'
<1> USE DEF FederationInv, Rotate
<1>1. /\ instant \in Nat /\ instant' = instant /\ published \in [Keys -> 0..instant]
      /\ publication' \in 1..Len(Rotation)
  BY PublishesKeys DEF Timely
<1>2. \A k \in Keys : published'[k] \in 0..instant' /\ published'[k] >= published[k]
  BY <1>1
<1>3. published' \in [Keys -> 0..instant'] /\ published' \in [Keys -> Nat]
  BY <1>1, <1>2
<1>4. \A i \in 1..Len(Rotation[publication']) : published'[Rotation[publication'][i]] = instant'
  BY <1>1, PublishesKeys
<1>5. Timely'
  BY <1>1, <1>3, <1>4 DEF Timely
<1> QED
  BY <1>2, <1>3, <1>5, PublishedLater

\* Only tokens with valid claims go on.
LEMMA PresentInv ==
    ASSUME FederationInv, NEW t \in Presented, NEW o, Present(t, o) PROVE FederationInv'
<1> USE DEF FederationInv, Present
<1>1. Timely' /\ KeptKeys' /\ Theirs' /\ SignedByIssuer'
  BY DEF Timely, KeptKeys, Theirs, SignedByIssuer
<1>2. OnesOwn'
  <2>1. visits \in Nat /\ visits' = visits + 1 /\ visit = Nil
    BY DEF Timely
  <2> QED
    BY <2>1 DEF OnesOwn
<1>3. Visiting'
  <2>1. CASE ~ClaimsValid(t)
    BY <2>1 DEF Visiting
  <2>2. CASE ClaimsValid(t)
    <3>1. /\ visit'.token = t /\ visit'.read = instant
          /\ visit'.at = IF Symmetric(t) THEN "check" ELSE "keys"
      BY <2>2
    <3>2. Symmetric(t) =>
              /\ t.iss \in DOMAIN Trust /\ t.alg \in DOMAIN Trust[t.iss].secrets
              /\ t.kid # Nil => \E s \in Range(SecretsOf(t)) : s.kid = t.kid
      BY <2>2 DEF ClaimsValid
    <3> HIDE DEF Present
    <3> QED
      BY <3>1, <3>2 DEF Visiting, Timely
  <2> QED
    BY <2>1, <2>2
<1> QED
  BY <1>1, <1>2, <1>3

\* What is fetched is published now; what is kept was when it was fetched.
LEMMA FetchInv == ASSUME FederationInv, Fetch PROVE FederationInv'
<1> USE DEF FederationInv, Fetch
<1>0. /\ instant \in Nat /\ TTL \in Nat /\ TTL > 0 /\ publication \in 1..Len(Rotation)
      /\ published \in [Keys -> 0..instant]
  BY FederationAssumption DEF Timely
<1>1. Timely' /\ Theirs' /\ SignedByIssuer'
  BY DEF Timely, Theirs, SignedByIssuer
<1>2. OnesOwn'
  BY DEF OnesOwn, Ended
<1>3. ASSUME NEW keys, visit' = [visit EXCEPT !.at = "check", !.keys = keys, !.read = instant],
             Recent(keys, instant)
      PROVE  Visiting'
  <2> SUFFICES ASSUME visit' # Nil PROVE Visiting'
    BY DEF Visiting
  <2>1. visit'.token = visit.token /\ visit'.read = instant /\ visit'.keys = keys
    BY <1>3
  <2> QED
    BY <1>0, <1>3, <2>1 DEF Visiting, Recent
<1>4. CASE kept # Nil /\ instant < kept.until
  <2>1. Recent(kept.keys, instant)
    <3>1. kept.keys \in Seq(Keys) /\ kept.until \in Nat
      BY <1>4 DEF KeptKeys
    <3>2. ASSUME NEW i \in 1..Len(kept.keys) PROVE published[kept.keys[i]] + TTL > instant
      <4>1. published[kept.keys[i]] \in Nat /\ published[kept.keys[i]] + TTL >= kept.until
        BY <1>0, <1>4, <3>1 DEF KeptKeys
      <4> QED
        BY <1>0, <1>4, <3>1, <4>1
    <3> QED
      BY <3>1, <3>2 DEF Recent
  <2>2. Visiting'
    BY <1>3, <1>4, <2>1
  <2>3. KeptKeys'
    BY <1>4 DEF KeptKeys
  <2> QED
    BY <1>1, <1>2, <2>2, <2>3
<1>5. CASE /\ visit' = [visit EXCEPT !.at = "check", !.keys = Rotation[publication], !.read = instant]
           /\ kept' = [keys |-> Rotation[publication], until |-> instant + TTL]
  <2>1. /\ Rotation[publication] \in Seq(Keys)
        /\ \A i \in 1..Len(Rotation[publication]) : published[Rotation[publication][i]] = instant
    BY <1>0, PublishesKeys DEF Timely
  <2>2. Recent(Rotation[publication], instant)
    BY <1>0, <2>1 DEF Recent
  <2>3. Visiting'
    BY <1>3, <1>5, <2>2
  <2>4. kept'.keys = Rotation[publication] /\ kept'.until = instant + TTL /\ published' = published
    BY <1>5
  <2>5. KeptKeys'
    BY <1>0, <2>1, <2>4 DEF KeptKeys
  <2> QED
    BY <1>1, <1>2, <2>3, <2>5
<1>6. CASE Ended /\ UNCHANGED kept
  BY <1>1, <1>2, <1>6 DEF Ended, KeptKeys, Visiting
<1> QED
  BY <1>4, <1>5, <1>6

\* The identity that is found is the subject's; one that is made is new.
LEMMA CheckInv == ASSUME FederationInv, Check PROVE FederationInv'
<1> USE DEF FederationInv, Check
<1> DEFINE t == visit.token
           s == Subject(t)
<1>0. /\ visit # Nil /\ visit.at = "check" /\ visit' = Nil
      /\ UNCHANGED <<instant, publication, published, kept, visits>>
      /\ t \in Presented /\ visit.read \in Nat
  BY DEF Ended, Visiting
<1>1. KeptKeys' /\ Visiting'
  BY <1>0 DEF KeptKeys, Visiting
<1>2. CASE UNCHANGED <<accepted, subjects>>
  <2>1. Timely' /\ Theirs' /\ SignedByIssuer'
    BY <1>0, <1>2 DEF Timely, Theirs, SignedByIssuer
  <2>2. OnesOwn'
    BY <1>0, <1>2 DEF OnesOwn
  <2> QED
    BY <1>1, <2>1, <2>2
<1>3. CASE /\ Signed(t, visit.keys)
           /\ subjects' = [u \in DOMAIN subjects \cup {s} |->
                             IF u \in DOMAIN subjects THEN subjects[u] ELSE <<"identity", visits>>]
           /\ accepted' = accepted \cup {[token |-> t, at |-> visit.read, identity |-> subjects'[s]]}
  <2>1. Timely'
    BY <1>0, <1>3 DEF Timely
  <2>2. SignedByIssuer'
    <3>1. CASE Symmetric(t)
      <4>1. t.signer = Secret(t)
        BY <1>3, <3>1 DEF Signed
      <4>2. t.signer \in {x.key : x \in Range(SecretsOf(t))}
        BY <1>0, <3>1, <4>1, SecretIsTheirs DEF Visiting
      <4> QED
        BY <1>0, <1>3, <3>1, <4>2 DEF SignedByIssuer
    <3>2. CASE ~Symmetric(t)
      <4>1. /\ visit.keys \in Seq(Keys)
            /\ \A i \in 1..Len(visit.keys) : published[visit.keys[i]] + TTL > visit.read
        BY <1>0, <3>2 DEF Visiting, Recent
      <4>2. PICK i \in 1..Len(visit.keys) : t.signer = visit.keys[i]
        BY <1>0, <1>3, <3>2, <4>1, SignerIsKey
      <4>3. t.signer \in Keys /\ published[t.signer] + TTL > visit.read
        BY <4>1, <4>2
      <4> QED
        BY <1>0, <1>3, <3>2, <4>3 DEF SignedByIssuer
    <3> QED
      BY <3>1, <3>2
  <2>3. Theirs'
    BY <1>3 DEF Theirs
  <2>4. OnesOwn'
    <3>1. visits \in Nat /\ visits > 0
      BY <1>0 DEF Timely, OnesOwn
    <3>2. ASSUME NEW u \in DOMAIN subjects'
          PROVE  /\ \E n \in 1..visits : subjects'[u] = <<"identity", n>>
                 /\ u \in DOMAIN subjects => /\ subjects'[u] = subjects[u]
                                             /\ \E n \in 1..visits : subjects[u] = <<"identity", n>> /\ n < visits
                 /\ u \notin DOMAIN subjects => u = s /\ subjects'[u] = <<"identity", visits>>
      BY <1>0, <1>3, <3>1 DEF OnesOwn
    <3>3. ASSUME NEW u \in DOMAIN subjects', NEW v \in DOMAIN subjects', subjects'[u] = subjects'[v]
          PROVE  u = v
      BY <3>2, <3>3 DEF OnesOwn
    <3> QED
      BY <1>0, <3>2, <3>3 DEF OnesOwn
  <2> QED
    BY <1>1, <2>1, <2>2, <2>3, <2>4
<1>4. \/ UNCHANGED <<accepted, subjects>>
      \/ /\ Signed(t, visit.keys)
         /\ subjects' = [u \in DOMAIN subjects \cup {s} |->
                           IF u \in DOMAIN subjects THEN subjects[u] ELSE <<"identity", visits>>]
         /\ accepted' = accepted \cup {[token |-> t, at |-> visit.read, identity |-> subjects'[s]]}
  BY DEF Accept
<1> QED
  BY <1>2, <1>3, <1>4

\* Every state of federation satisfies the inductive invariant.
THEOREM FederationInvariance == FederationSpec => []FederationInv
<1>1. FederationInv /\ [FederationNext]_federationVars => FederationInv'
  <2> SUFFICES ASSUME FederationInv, [FederationNext]_federationVars PROVE FederationInv'
    OBVIOUS
  <2>1. CASE UNCHANGED federationVars
    BY <2>1 DEF federationVars, FederationInv, Timely, KeptKeys, Visiting, Recent, OnesOwn, Theirs, SignedByIssuer
  <2>2. CASE Elapse \/ Rotate
    BY <2>2, ElapseInv, RotateInv
  <2>3. CASE Fetch \/ Check
    BY <2>3, FetchInv, CheckInv
  <2>4. ASSUME NEW t \in Presented, NEW o \in {"authenticate", "incept"}, Present(t, o)
        PROVE  FederationInv'
    BY <2>4, PresentInv
  <2> QED
    BY <2>1, <2>2, <2>3, <2>4 DEF FederationNext
<1> QED
  BY <1>1, FederationInitInv, PTL DEF FederationSpec

\* FederationSound: whatever the issuers publish and whenever, accepted tokens were
\* signed by their issuers, and subjects and identities are one to one.
THEOREM FederationHeld == FederationSpec => []FederationSound
<1>1. FederationInv => FederationSound
  <2> SUFFICES ASSUME FederationInv PROVE FederationSound
    OBVIOUS
  <2>1. OneIdentity
    BY DEF FederationInv, Theirs, OnesOwn, OneIdentity
  <2> QED
    BY <2>1 DEF FederationInv, FederationSound
<1> QED
  BY <1>1, FederationInvariance, PTL

(***************************************************************************)
(* Access.  The identity is the authenticated one until access is granted. *)
(***************************************************************************)
Asked == UNION {ToSet(Parts(d)) : d \in Rules}
Transforms ==
    {[check |-> d.value, who |-> Who] : d \in {e \in Asked : e.name = "input"}} \cup
    {[property |-> d.value, who |-> Who] : d \in {e \in Asked : e.name = "delegate" /\ Who # Unset}}

Formed ==
    /\ case \in Cases
    /\ authorizing \in {"resolve", "authorize", "reply", "body", "settle", "done", "failed"}
    /\ part \in Nat \ {0}
    /\ todo \subseteq DOMAIN case.declared
    /\ pipeline \in Seq(Transforms)
    /\ response \in {"me", "new", Unset}
    /\ DOMAIN case.body.props \subseteq DOMAIN body.props
    /\ authorizing \notin {"resolve", "failed"} => case.header \in Providers \cup {Unset}
    /\ authorizing = "resolve" => pipeline = <<>> /\ part = 1

Identified ==
    /\ authorizing \in {"resolve", "authorize"} => granted = Unset
    /\ authorizing = "authorize" => identity = Who
    /\ authorizing \in {"reply", "body", "settle"} =>
          \/ identity = Who /\ (granted.name = "echo" => Who # Unset)
          \/ /\ granted.name = "echo" /\ Who = Unset
             /\ identity = Identity("new", Unset, FALSE)

\* Those that were asked do not grant access, and of the one that is, the parts before do.
Asking ==
    authorizing = "authorize" =>
        /\ \A j \in DOMAIN case.declared \ todo : ~ Grants(case.declared[j])
        /\ \A i \in todo : \A k \in 1..(part - 1) :
              Turn(i) => /\ k <= Len(Parts(case.declared[i]))
                         /\ Allows(Parts(case.declared[i])[k], Who)

Granting ==
    /\ authorizing \in {"reply", "body", "settle", "done"} => granted \in Rules /\ Grants(granted)
    /\ authorizing = "reply" => Replied

\* Checks of the input are in the pipeline until they pass.
CheckOf(d) == [check |-> d.value, who |-> Who]
Guarding ==
    /\ authorizing = "authorize" =>
          \A j \in DOMAIN case.declared \ todo :
              case.declared[j].name = "input" => CheckOf(case.declared[j]) \in ToSet(pipeline)
    /\ authorizing = "body" =>
          \A d \in Rules : d.name = "input" => Guarded(d) \/ CheckOf(d) \in ToSet(pipeline)

AccessInv == Formed /\ Identified /\ Asking /\ Granting /\ Guarding /\ AccessSound

\* Who is authenticated, and as whom.
LEMMA WhoIs ==
    ASSUME case \in Cases
    PROVE  /\ ~ Authenticated <=> Who = Unset
           /\ Authenticated => /\ Who = Identity("me", case.header, case.stale)
                               /\ Who.id = "me" /\ Who.scheme = case.header /\ Who.refresh = case.stale
                               /\ case.header # Unset
  BY AccessAssumption DEF Who, Authenticated, Identity, Providers

\* An identity is not the absent one.
LEMMA Named ==
    ASSUME NEW id \in {"me", "new"}, NEW scheme \in Providers \cup {Unset}, NEW stale \in BOOLEAN
    PROVE  /\ Identity(id, scheme, stale) # Unset
           /\ Identity(id, scheme, stale).id = id
           /\ Identity(id, scheme, stale).scheme = scheme
           /\ Identity(id, scheme, stale).refresh = stale
  BY AccessAssumption DEF Identity, Providers

\* A directive is one of its parts, or it is a rule that is a sequence of them.
LEMMA PartsAre ==
    ASSUME case \in Cases, NEW i \in DOMAIN case.declared
    PROVE  /\ case.declared[i] \in Rules
           /\ Parts(case.declared[i]) \in Seq(ToSet(Parts(case.declared[i])))
           /\ \A k \in DOMAIN Parts(case.declared[i]) :
                 /\ Parts(case.declared[i])[k] \in Asked
                 /\ Parts(case.declared[i])[k] \in ToSet(Parts(case.declared[i]))
           /\ case.declared[i].name # "rule" => Parts(case.declared[i]) = <<case.declared[i]>>
           /\ DOMAIN case.declared \subseteq Nat
           /\ Grants(case.declared[i]) <=>
                 \A k \in 1..Len(Parts(case.declared[i])) : Allows(Parts(case.declared[i])[k], Who)
  <1> DEFINE d == case.declared[i]
  <1>1. d \in Rules BY DEF Rules, ToSet
  <1>2. case.declared \in Seq(ToSet(case.declared)) BY AccessAssumption
  <1>3. DOMAIN case.declared \subseteq Nat BY <1>2
  <1>4. Parts(d) \in Seq(ToSet(Parts(d)))
    <2>1. CASE d.name = "rule" BY <2>1, <1>1, AccessAssumption DEF Parts, Rules
    <2>2. CASE d.name # "rule" BY <2>2 DEF Parts, ToSet
    <2>3. QED BY <2>1, <2>2
  <1>5. \A k \in DOMAIN Parts(d) : Parts(d)[k] \in Asked /\ Parts(d)[k] \in ToSet(Parts(d))
    BY <1>1 DEF Asked, ToSet
  <1>6. DOMAIN Parts(d) = 1..Len(Parts(d)) BY <1>4
  <1>7. Grants(d) <=> \A k \in 1..Len(Parts(d)) : Allows(Parts(d)[k], Who)
    <2>1. CASE d.name = "rule"
      <3>1. Parts(d) = d.value BY <2>1 DEF Parts
      <3>2. QED BY <2>1, <3>1, <1>6 DEF Grants
    <2>2. CASE d.name # "rule"
      <3>1. Parts(d) = <<d>> BY <2>2 DEF Parts
      <3>2. /\ Len(Parts(d)) = 1 /\ Parts(d)[1] = d BY <3>1
      <3>3. QED BY <2>2, <3>2 DEF Grants
    <2>3. QED BY <2>1, <2>2
  <1>8. d.name # "rule" => Parts(d) = <<d>> BY DEF Parts
  <1>9. QED BY <1>1, <1>3, <1>4, <1>5, <1>7, <1>8

\* Neither an input nor a scheme grants access.
LEMMA InputsDeny ==
    ASSUME NEW d, NEW who
    PROVE  /\ d.name \in {"input", "scheme"} => ~ Allows(d, who)
           /\ d.name = "delegate" /\ Allows(d, who) => who # Unset
           /\ d.name = "incept" /\ Allows(d, who) => who = Unset
           /\ d.name = "echo" /\ Allows(d, who) => who # Unset \/ case.header = Unset
  BY DEF Allows

\* What the directives are and answer is of the case.
LEMMA SameCase ==
    ASSUME UNCHANGED case
    PROVE  /\ Who' = Who /\ Rules' = Rules /\ Authenticated' = Authenticated
           /\ Asked' = Asked /\ Transforms' = Transforms
           /\ \A d, who : Allows(d, who)' = Allows(d, who)
           /\ \A d : Grants(d)' = Grants(d)
           /\ \A d : Guarded(d)' = Guarded(d)
           /\ \A d : CheckOf(d)' = CheckOf(d)
  <1>1. Authenticated' = Authenticated BY DEF Authenticated
  <1>2. Who' = Who BY <1>1 DEF Who, Identity
  <1>3. Rules' = Rules BY DEF Rules
  <1>4. Asked' = Asked BY <1>3 DEF Asked
  <1>5. Transforms' = Transforms BY <1>2, <1>4 DEF Transforms
  <1>6. \A d, who : Allows(d, who)' = Allows(d, who)
    BY DEF Allows, RoleMatches, Substitute, ClaimsMatch, MatchesClaim, Codomain
  <1>7. \A d : Grants(d)' = Grants(d) BY <1>2, <1>6 DEF Grants
  <1>8. \A d : Guarded(d)' = Guarded(d) BY <1>2, <1>6 DEF Guarded
  <1>9. \A d : CheckOf(d)' = CheckOf(d) BY <1>2 DEF CheckOf
  <1>10. QED BY <1>1, <1>2, <1>3, <1>4, <1>5, <1>6, <1>7, <1>8, <1>9

LEMMA AccessInitInv == AccessInit => AccessInv
  <1> SUFFICES ASSUME AccessInit PROVE AccessInv OBVIOUS
  <1>1. Formed BY DEF AccessInit, Formed
  <1>2. Identified /\ Asking /\ Granting /\ Guarding BY DEF AccessInit, Identified, Asking, Granting, Guarding
  <1>3. DelegatesSelf
    <2>1. \A p \in DOMAIN case.body.props : case.body.props[p] = "input" BY AccessAssumption DEF AccessInit
    <2>2. QED BY <2>1 DEF AccessInit, DelegatesSelf
  <1>4. OrderFree /\ InputGuarded /\ IssuedToSelf
    BY DEF AccessInit, OrderFree, InputGuarded, IssuedToSelf
  <1>5. QED BY <1>1, <1>2, <1>3, <1>4 DEF AccessInv, AccessSound

\* A request that is refused with what justifies it.
LEMMA RefusedInv ==
    ASSUME AccessInv, NEW s \in {400, 401, 403, 422, 500}, Refused(s),
           UNCHANGED <<case, part, granted, body, response>>,
           pipeline' \in Seq(Transforms), todo' \subseteq DOMAIN case.declared,
           s = 401 => ~ Authenticated \/ case.banned,
           granted # Unset \/
           /\ s = 403 /\ Authenticated =>
                 \/ \A d \in Rules : ~ Grants(d)
                 \/ ~ case.permitted
                 \/ \E d \in Rules : \E e \in ToSet(Parts(d)) : e.name = "scheme" /\ e.value # case.header
           /\ ~ Authenticated /\ case.header = Unset => \A d \in Rules : ~ Grants(d)
    PROVE  AccessInv'
  <1> USE SameCase
  <1>1. authorizing' = "failed" /\ served' = s BY DEF Refused
  <1>2. Formed'
    <2>1. Transforms' = Transforms OBVIOUS
    <2>2. QED BY <1>1, <2>1 DEF Formed, AccessInv
  <1>3. (Identified /\ Asking /\ Granting /\ Guarding)'
    BY <1>1 DEF Identified, Asking, Granting, Guarding
  <1>4. DelegatesSelf' BY DEF DelegatesSelf, AccessInv, AccessSound
  <1>5. (InputGuarded /\ IssuedToSelf)' BY <1>1 DEF InputGuarded, IssuedToSelf
  <1>6. OrderFree'
    <2>1. \A d : Parts(d)' = Parts(d) BY DEF Parts
    <2>2. QED BY <1>1, <2>1 DEF OrderFree
  <1>7. QED BY <1>2, <1>3, <1>4, <1>5, <1>6 DEF AccessInv, AccessSound

LEMMA ResolveInv == ASSUME AccessInv, Resolve PROVE AccessInv'
  <1> DEFINE bad == \/ case.header \notin Providers \cup {Unset}
                    \/ case.header \in {"basic", "bearer"} /\ case.found /\ case.banned
  <1>0. case \in Cases /\ authorizing = "resolve" BY DEF AccessInv, Formed, Resolve
  <1>1. CASE bad
    <2>1. Refused(401) /\ UNCHANGED <<case, part, granted, body, response, pipeline, todo>>
      BY <1>1 DEF Resolve
    <2>2. ~ Authenticated \/ case.banned BY <1>1, <1>0 DEF Authenticated
    <2>4. pipeline' \in Seq(Transforms) /\ todo' \subseteq DOMAIN case.declared
      BY <2>1 DEF AccessInv, Formed
    <2>5. QED
      <3>1. 401 # 403 /\ ~ (~ Authenticated /\ case.header = Unset)
        BY <1>1, AccessAssumption DEF Authenticated, Providers
      <3>2. QED BY <2>1, <2>2, <2>4, <3>1, RefusedInv
  <1>2. CASE ~ bad
    <2> USE SameCase
    <2>1. /\ identity' = IF case.header # Unset /\ case.found
                         THEN Identity("me", case.header, case.stale) ELSE Unset
          /\ todo' = DOMAIN case.declared /\ authorizing' = "authorize"
          /\ UNCHANGED <<case, part, pipeline, granted, body, response, issuedTo, served>>
      BY <1>2 DEF Resolve
    <2>2. case.header \in Providers \cup {Unset} BY <1>2
    <2>3. identity' = Who
      BY <2>1, <2>2, AccessAssumption DEF Who, Authenticated, Providers
    <2>4. Formed' BY <2>1, <2>2, <1>0 DEF AccessInv, Formed
    <2>5. (Identified /\ Granting)' BY <2>1, <2>3, <1>0 DEF AccessInv, Identified, Granting
    <2>6. (Asking /\ Guarding)'
      <3>1. case'.declared = case.declared /\ DOMAIN case.declared \ todo' = {} BY <2>1
      <3>2. pipeline = <<>> /\ part = 1 BY <1>0 DEF AccessInv, Formed
      <3>3. QED BY <2>1, <3>1, <3>2 DEF Asking, Guarding
    <2>7. (OrderFree /\ InputGuarded /\ IssuedToSelf)'
      BY <2>1 DEF OrderFree, InputGuarded, IssuedToSelf
    <2>8. DelegatesSelf' BY <2>1 DEF DelegatesSelf, AccessInv, AccessSound
    <2>9. QED BY <2>4, <2>5, <2>6, <2>7, <2>8 DEF AccessInv, AccessSound
  <1>3. QED BY <1>1, <1>2

LEMMA RefuseInv == ASSUME AccessInv, Refuse PROVE AccessInv'
  <1>1. /\ case \in Cases /\ authorizing = "authorize" /\ todo = {} /\ identity = Who
        /\ UNCHANGED <<case, todo, part, pipeline, granted, body, response>>
    BY DEF AccessInv, Formed, Identified, Refuse
  <1>2. \A d \in Rules : ~ Grants(d) BY <1>1 DEF AccessInv, Asking, Rules, ToSet
  <1>3. PICK s \in {401, 403} : Refused(s) /\ (s = 401 => identity = Unset) BY DEF Refuse
  <1>4. s = 401 => ~ Authenticated BY <1>1, <1>3, WhoIs
  <1>5. pipeline' \in Seq(Transforms) /\ todo' \subseteq DOMAIN case.declared
    BY <1>1 DEF AccessInv, Formed
  <1>6. QED BY <1>1, <1>2, <1>3, <1>4, <1>5, RefusedInv

\* What is attached to the pipeline is a check of an input, or an embedding of who is there.
LEMMA AttachedAre ==
    ASSUME NEW d \in Asked
    PROVE  /\ Attached(d, Who) \in Seq(Transforms)
           /\ d.name = "input" => Attached(d, Who) = <<CheckOf(d)>>
  <1>1. CASE d.name = "input"
    <2>1. Attached(d, Who) = <<CheckOf(d)>> BY <1>1 DEF Attached, CheckOf
    <2>2. CheckOf(d) \in Transforms BY <1>1 DEF CheckOf, Transforms
    <2>3. QED BY <2>1, <2>2
  <1>2. CASE d.name = "delegate" /\ Who # Unset
    <2>1. [property |-> d.value, who |-> Who] \in Transforms BY <1>2 DEF Transforms
    <2>2. Attached(d, Who) = <<[property |-> d.value, who |-> Who]>> BY <1>2 DEF Attached
    <2>3. QED BY <1>2, <2>1, <2>2
  <1>3. CASE d.name # "input" /\ ~ (d.name = "delegate" /\ Who # Unset)
    <2>1. Attached(d, Who) = <<>> BY <1>3 DEF Attached
    <2>2. QED BY <1>3, <2>1
  <1>4. QED BY <1>1, <1>2, <1>3

\* What is in the pipeline stays there when something is attached.
LEMMA Appended ==
    ASSUME NEW S, NEW p \in Seq(S), NEW q \in Seq(S)
    PROVE  /\ p \o q \in Seq(S)
           /\ \A e \in ToSet(p) : e \in ToSet(p \o q)
           /\ \A e \in ToSet(q) : e \in ToSet(p \o q)
  <1>1. p \o q \in Seq(S) OBVIOUS
  <1>2. \A k \in DOMAIN p : k \in DOMAIN (p \o q) /\ (p \o q)[k] = p[k] OBVIOUS
  <1>3. \A k \in DOMAIN q : Len(p) + k \in DOMAIN (p \o q) /\ (p \o q)[Len(p) + k] = q[k] OBVIOUS
  <1>4. QED BY <1>1, <1>2, <1>3 DEF ToSet

\* One directive is asked at a time.
LEMMA OneTurn ==
    ASSUME case \in Cases, todo \subseteq DOMAIN case.declared, NEW i, NEW j, Turn(i), Turn(j)
    PROVE  i = j
  <1>1. i \in DOMAIN case.declared /\ j \in DOMAIN case.declared BY DEF Turn
  <1>2. i \in Nat /\ j \in Nat BY <1>1, PartsAre
  <1>3. \A k : Priority(case.declared[k]) \in {0, 1} BY DEF Priority
  <1>4. QED BY <1>2, <1>3 DEF Turn

LEMMA AuthorizeInv == ASSUME AccessInv, NEW i \in todo, Authorize(i) PROVE AccessInv'
  <1> DEFINE r == case.declared[i]
             d == Parts(r)[part]
  <1> USE SameCase
  <1>1. /\ case \in Cases /\ i \in DOMAIN case.declared /\ authorizing = "authorize"
        /\ Turn(i) /\ part <= Len(Parts(r)) /\ identity = Who /\ granted = Unset
        /\ part \in Nat \ {0} /\ todo \subseteq DOMAIN case.declared /\ pipeline \in Seq(Transforms)
        /\ UNCHANGED <<case, identity, granted, body, response, issuedTo>>
    BY DEF AccessInv, Formed, Identified, Authorize
  <1>2. /\ r \in Rules /\ part \in 1..Len(Parts(r)) /\ part \in DOMAIN Parts(r)
        /\ d \in Asked /\ d \in ToSet(Parts(r))
        /\ Grants(r) <=> \A k \in 1..Len(Parts(r)) : Allows(Parts(r)[k], Who)
        /\ r.name # "rule" => Parts(r) = <<r>>
    <2>1. /\ r \in Rules /\ Parts(r) \in Seq(ToSet(Parts(r)))
          /\ \A k \in DOMAIN Parts(r) : Parts(r)[k] \in Asked /\ Parts(r)[k] \in ToSet(Parts(r))
          /\ Grants(r) <=> \A k \in 1..Len(Parts(r)) : Allows(Parts(r)[k], Who)
          /\ r.name # "rule" => Parts(r) = <<r>>
      BY <1>1, PartsAre
    <2>2. part \in 1..Len(Parts(r)) /\ part \in DOMAIN Parts(r) BY <1>1, <2>1
    <2>3. QED BY <2>1, <2>2
  <1>3. /\ pipeline' = pipeline \o Attached(d, Who) /\ pipeline' \in Seq(Transforms)
        /\ \A e \in ToSet(pipeline) : e \in ToSet(pipeline')
        /\ \A e \in ToSet(Attached(d, Who)) : e \in ToSet(pipeline')
    BY <1>1, <1>2, AttachedAre, Appended DEF Authorize
  <1>4. CASE Throws(d, identity) # 0
    <2>1. Refused(Throws(d, Who)) /\ UNCHANGED <<todo, part>> BY <1>1, <1>4 DEF Authorize
    <2>2. \/ Throws(d, Who) = 403 /\ d.name = "scheme" /\ d.value # case.header /\ case.header # Unset
          \/ Throws(d, Who) = 500 /\ Who # Unset
      BY <1>1, <1>4 DEF Throws
    <2>3. ~ Authenticated <=> Who = Unset BY <1>1, WhoIs
    <2>4. Throws(d, Who) = 403 =>
             \E e \in Rules : \E f \in ToSet(Parts(e)) : f.name = "scheme" /\ f.value # case.header
      BY <1>2, <2>2
    <2>5. QED BY <1>1, <1>3, <2>1, <2>2, <2>3, <2>4, RefusedInv
  <1>5. CASE Throws(d, identity) = 0
    <2>1. UNCHANGED <<authorizing, served>> BY <1>5, <1>1 DEF Authorize
    <2>2. \/ Allows(d, Who) /\ part' = part + 1 /\ todo' = todo
          \/ ~ Allows(d, Who) /\ part' = 1 /\ todo' = todo \ {i}
      BY <1>5, <1>1 DEF Authorize
    <2>3. Formed' BY <1>1, <1>3, <2>1, <2>2 DEF AccessInv, Formed
    <2>4. (Identified /\ Granting)' BY <1>1, <2>1 DEF AccessInv, Identified, Granting
    <2>5. Asking'
      <3>1. /\ \A j \in DOMAIN case.declared \ todo : ~ Grants(case.declared[j])
            /\ \A j \in todo : \A k \in 1..(part - 1) :
                  Turn(j) => /\ k <= Len(Parts(case.declared[j]))
                             /\ Allows(Parts(case.declared[j])[k], Who)
        BY <1>1 DEF AccessInv, Asking
      <3>2. CASE Allows(d, Who) /\ part' = part + 1 /\ todo' = todo
        <4>1. ASSUME NEW j \in todo', Turn(j)' PROVE j = i
          <5>1. Turn(j) BY <4>1, <3>2, <1>1 DEF Turn
          <5>2. QED BY <5>1, <1>1, OneTurn
        <4>2. ASSUME NEW k \in 1..(part' - 1)
              PROVE  k <= Len(Parts(r)) /\ Allows(Parts(r)[k], Who)
          <5>1. CASE k = part BY <5>1, <1>2, <3>2
          <5>2. CASE k # part
            <6>1. k \in 1..(part - 1) BY <5>2, <3>2, <1>1
            <6>2. QED BY <6>1, <3>1, <1>1
          <5>3. QED BY <5>1, <5>2
        <4>3. \A j \in DOMAIN case.declared \ todo' : ~ Grants(case.declared[j]) BY <3>1, <3>2
        <4>4. \A e : Parts(e)' = Parts(e) BY DEF Parts
        <4>5. QED BY <1>1, <4>1, <4>2, <4>3, <4>4 DEF Asking
      <3>3. CASE ~ Allows(d, Who) /\ part' = 1 /\ todo' = todo \ {i}
        <4>1. ~ Grants(r) BY <1>2, <3>3
        <4>2. \A j \in DOMAIN case.declared \ todo' : ~ Grants(case.declared[j]) BY <4>1, <3>1, <3>3
        <4>3. 1..(part' - 1) = {} BY <3>3
        <4>4. QED BY <1>1, <4>2, <4>3 DEF Asking
      <3>4. QED BY <2>2, <3>2, <3>3
    <2>6. Guarding'
      <3>1. ASSUME NEW j \in DOMAIN case.declared \ todo', case.declared[j].name = "input"
            PROVE  CheckOf(case.declared[j]) \in ToSet(pipeline')
        <4>1. CASE j \notin todo BY <4>1, <3>1, <1>1, <1>3 DEF AccessInv, Guarding
        <4>2. CASE j = i
          <5>1. Parts(r) = <<r>> BY <4>2, <3>1, <1>2
          <5>2. d = r
            <6>1. part = 1 BY <5>1, <1>2
            <6>2. QED BY <6>1, <5>1
          <5>3. Attached(d, Who) = <<CheckOf(r)>> BY <5>2, <4>2, <3>1, <1>2, AttachedAre
          <5>4. CheckOf(r) \in ToSet(Attached(d, Who)) BY <5>3 DEF ToSet
          <5>5. QED BY <5>4, <1>3, <4>2
        <4>3. QED BY <4>1, <4>2, <2>2, <3>1
      <3>2. QED BY <3>1, <1>1, <2>1 DEF Guarding
    <2>7. (OrderFree /\ InputGuarded /\ IssuedToSelf)'
      BY <1>1, <2>1 DEF OrderFree, InputGuarded, IssuedToSelf
    <2>8. DelegatesSelf' BY <1>1 DEF DelegatesSelf, AccessInv, AccessSound
    <2>9. QED BY <2>3, <2>4, <2>5, <2>6, <2>7, <2>8 DEF AccessInv, AccessSound
  <1>6. QED BY <1>4, <1>5

LEMMA GrantInv == ASSUME AccessInv, NEW i \in todo, Grant(i) PROVE AccessInv'
  <1> DEFINE d == case.declared[i]
  <1> USE SameCase
  <1>1. /\ case \in Cases /\ i \in DOMAIN case.declared /\ authorizing = "authorize"
        /\ Turn(i) /\ part > Len(Parts(d)) /\ identity = Who /\ granted = Unset
        /\ part \in Nat \ {0} /\ todo \subseteq DOMAIN case.declared /\ pipeline \in Seq(Transforms)
        /\ UNCHANGED <<case, todo, part, pipeline, body, response, issuedTo>>
    BY DEF AccessInv, Formed, Identified, Grant
  <1>2. /\ d \in Rules /\ Parts(d) \in Seq(ToSet(Parts(d)))
        /\ Grants(d) <=> \A k \in 1..Len(Parts(d)) : Allows(Parts(d)[k], Who)
        /\ d.name # "rule" => Parts(d) = <<d>>
        /\ DOMAIN case.declared \subseteq Nat
    BY <1>1, PartsAre
  <1>3. ~ Authenticated <=> Who = Unset BY <1>1, WhoIs
  <1>4. CASE identity # Unset /\ ~ case.permitted
    <2>1. Refused(403) /\ UNCHANGED granted BY <1>4 DEF Grant
    <2>2. QED BY <1>1, <1>3, <1>4, <2>1, RefusedInv
  <1>5. CASE ~ (identity # Unset /\ ~ case.permitted)
    <2>1. /\ granted' = d
          /\ identity' = IF d.name = "echo" /\ identity = Unset
                         THEN Identity("new", Unset, FALSE) ELSE identity
          /\ authorizing' = IF d.name = "echo" \/ (d.name = "incept" /\ d.value = Unset)
                            THEN "reply" ELSE "body"
          /\ UNCHANGED served
      BY <1>5 DEF Grant
    <2>2. Grants(d)
      <3>1. \A k \in 1..(part - 1) : Allows(Parts(d)[k], Who) BY <1>1 DEF AccessInv, Asking
      <3>2. Len(Parts(d)) \in Nat BY <1>2
      <3>3. \A k \in 1..Len(Parts(d)) : k \in 1..(part - 1) BY <3>2, <1>1
      <3>4. QED BY <3>1, <3>3, <1>2
    <2>3. d.name # "input"
      <3>1. SUFFICES ASSUME d.name = "input" PROVE FALSE OBVIOUS
      <3>2. ~ Allows(d, Who) BY <3>1, InputsDeny
      <3>3. Grants(d) <=> Allows(d, Who) BY <3>1 DEF Grants
      <3>4. QED BY <3>2, <3>3, <2>2
    <2>4. Formed' BY <1>1, <2>1 DEF AccessInv, Formed
    <2>5. Identified' BY <1>1, <2>1 DEF Identified
    <2>6. Granting' BY <1>1, <1>2, <2>1, <2>2 DEF Granting, Replied
    <2>7. Guarding'
      <3>1. ASSUME NEW j \in DOMAIN case.declared, case.declared[j].name = "input"
            PROVE  CheckOf(case.declared[j]) \in ToSet(pipeline)
        <4>1. j \notin todo
          <5>1. SUFFICES ASSUME j \in todo PROVE FALSE OBVIOUS
          <5>2. j # i BY <2>3, <3>1
          <5>3. Priority(d) = 1 /\ Priority(case.declared[j]) = 0 BY <2>3, <3>1 DEF Priority
          <5>4. QED BY <5>1, <5>2, <5>3, <1>1 DEF Turn
        <4>2. QED BY <4>1, <3>1, <1>1 DEF AccessInv, Guarding
      <3>2. \A e \in Rules : e.name = "input" => CheckOf(e) \in ToSet(pipeline)
        BY <3>1 DEF Rules, ToSet
      <3>3. QED BY <3>2, <1>1, <2>1 DEF Guarding
    <2>8. Asking' BY <2>1 DEF Asking
    <2>9. OrderFree' BY <2>1, <2>6 DEF OrderFree, Granting
    <2>10. (InputGuarded /\ IssuedToSelf)' BY <2>1 DEF InputGuarded, IssuedToSelf
    <2>11. DelegatesSelf' BY <1>1 DEF DelegatesSelf, AccessInv, AccessSound
    <2>12. QED BY <2>4, <2>5, <2>6, <2>7, <2>8, <2>9, <2>10, <2>11 DEF AccessInv, AccessSound
  <1>6. QED BY <1>4, <1>5

LEMMA ReplyInv == ASSUME AccessInv, Reply PROVE AccessInv'
  <1> USE SameCase
  <1>1. /\ case \in Cases /\ authorizing = "reply" /\ authorizing' = "settle"
        /\ response' = IF granted.name = "echo" THEN identity.id ELSE "new"
        /\ UNCHANGED <<case, todo, part, identity, pipeline, granted, body, issuedTo>>
    BY DEF AccessInv, Formed, Reply
  <1>2. response' \in {"me", "new"}
    <2>1. CASE granted.name = "echo"
      <3>1. CASE identity = Who /\ Who # Unset BY <3>1, <2>1, <1>1, WhoIs
      <3>2. CASE identity = Identity("new", Unset, FALSE) BY <3>2, <2>1, <1>1 DEF Identity
      <3>3. QED BY <3>1, <3>2, <2>1, <1>1 DEF AccessInv, Identified
    <2>2. QED BY <2>1, <1>1
  <1>3. Formed' BY <1>1, <1>2 DEF AccessInv, Formed
  <1>4. (Identified /\ Granting /\ Asking /\ Guarding)'
    BY <1>1 DEF AccessInv, Identified, Granting, Asking, Guarding
  <1>5. OrderFree' BY <1>1 DEF OrderFree, AccessInv, AccessSound
  <1>6. InputGuarded' BY <1>1 DEF AccessInv, Granting, InputGuarded, Replied
  <1>7. IssuedToSelf' BY <1>1 DEF IssuedToSelf
  <1>8. DelegatesSelf' BY <1>1 DEF DelegatesSelf, AccessInv, AccessSound
  <1>9. QED BY <1>3, <1>4, <1>5, <1>6, <1>7, <1>8 DEF AccessInv, AccessSound

LEMMA InvokeInv == ASSUME AccessInv, Invoke PROVE AccessInv'
  <1> USE SameCase
  <1>1. /\ authorizing = "body" /\ authorizing' = "settle" /\ pipeline = <<>>
        /\ response' \in {"new", Unset}
        /\ UNCHANGED <<case, todo, part, identity, pipeline, granted, body, issuedTo>>
    BY DEF Invoke
  <1>2. Formed' BY <1>1 DEF AccessInv, Formed
  <1>3. (Identified /\ Granting /\ Asking /\ Guarding)'
    BY <1>1 DEF AccessInv, Identified, Granting, Asking, Guarding
  <1>4. OrderFree' BY <1>1 DEF OrderFree, AccessInv, AccessSound
  <1>5. InputGuarded'
    <2>1. ToSet(pipeline) = {} BY <1>1 DEF ToSet
    <2>2. \A d \in Rules : d.name = "input" => Guarded(d) BY <1>1, <2>1 DEF AccessInv, Guarding
    <2>3. QED BY <1>1, <2>2 DEF InputGuarded
  <1>6. IssuedToSelf' BY <1>1 DEF IssuedToSelf
  <1>7. DelegatesSelf' BY <1>1 DEF DelegatesSelf, AccessInv, AccessSound
  <1>8. QED BY <1>2, <1>3, <1>4, <1>5, <1>6, <1>7 DEF AccessInv, AccessSound

\* The first of the pipeline is done; the rest stays.
LEMMA Popped ==
    ASSUME NEW S, NEW p \in Seq(S), p # <<>>
    PROVE  /\ Head(p) \in S /\ Tail(p) \in Seq(S)
           /\ \A e \in ToSet(p) : e = Head(p) \/ e \in ToSet(Tail(p))
  <1>1. Head(p) \in S /\ Tail(p) \in Seq(S) OBVIOUS
  <1>2. ASSUME NEW k \in DOMAIN p PROVE p[k] = Head(p) \/ p[k] \in ToSet(Tail(p))
    <2>1. CASE k = 1 BY <2>1
    <2>2. CASE k # 1
      <3>1. k - 1 \in DOMAIN Tail(p) /\ Tail(p)[k - 1] = p[k] BY <2>2
      <3>2. QED BY <3>1 DEF ToSet
    <2>3. QED BY <2>1, <2>2
  <1>3. QED BY <1>1, <1>2 DEF ToSet

\* An input that passes its check is guarded.
LEMMA PassedIsGuarded ==
    ASSUME NEW d, DOMAIN case.body.props \subseteq DOMAIN body.props, Failing(d.value, Who) = {}
    PROVE  Guarded(d)
  <1>1. SUFFICES ASSUME NEW i \in DOMAIN d.value, d.value[i].props \cap DOMAIN case.body.props # {},
                        NEW j \in DOMAIN d.value[i].directives
                 PROVE  Allows(d.value[i].directives[j], Who)
    BY DEF Guarded
  <1>2. d.value[i].props \cap DOMAIN body.props # {} BY <1>1
  <1>3. SUFFICES ASSUME Verdict(d.value[i].directives[j], Who) # 0 PROVE FALSE
    BY DEF Verdict
  <1> DEFINE F(k) == {k} \X {l \in DOMAIN d.value[k].directives : Verdict(d.value[k].directives[l], Who) # 0}
  <1>4. <<i, j>> \in F(i) BY <1>3
  <1>5. <<i, j>> \in Failing(d.value, Who) BY <1>2, <1>4 DEF Failing
  <1>6. QED BY <1>5

LEMMA TransformInv == ASSUME AccessInv, Transform PROVE AccessInv'
  <1> DEFINE t == Head(pipeline)
  <1> USE SameCase
  <1>1. /\ case \in Cases /\ authorizing = "body" /\ pipeline # <<>> /\ pipeline \in Seq(Transforms)
        /\ pipeline' = Tail(pipeline)
        /\ DOMAIN case.body.props \subseteq DOMAIN body.props
        /\ UNCHANGED <<case, todo, part, identity, granted, response, issuedTo>>
        /\ granted \in Rules /\ Grants(granted)
        /\ todo \subseteq DOMAIN case.declared
    BY DEF AccessInv, Formed, Granting, Transform
  <1>2. /\ t \in Transforms /\ pipeline' \in Seq(Transforms)
        /\ \A e \in ToSet(pipeline) : e = t \/ e \in ToSet(pipeline')
    BY <1>1, Popped
  <1>3. granted # Unset BY <1>1, AccessAssumption DEF Rules
  <1>4. ASSUME NEW s \in {400, 403, 500}, Refused(s), UNCHANGED body PROVE AccessInv'
    BY <1>1, <1>2, <1>3, <1>4, RefusedInv
  <1>5. ASSUME UNCHANGED <<authorizing, served>>,
               DOMAIN body.props \subseteq DOMAIN body'.props,
               \A p \in DOMAIN body'.props : body'.props[p] # "input" =>
                   \/ p \in DOMAIN body.props /\ body'.props[p] = body.props[p]
                   \/ Who # Unset /\ body'.props[p] = "me",
               \A d \in Rules : d.name = "input" /\ t = CheckOf(d) => Guarded(d)
        PROVE  AccessInv'
    <2>1. Formed' BY <1>1, <1>2, <1>5 DEF AccessInv, Formed
    <2>2. (Identified /\ Granting /\ Asking)'
      BY <1>1, <1>5 DEF AccessInv, Identified, Granting, Asking
    <2>3. Guarding'
      <3>1. ASSUME NEW d \in Rules, d.name = "input" PROVE Guarded(d) \/ CheckOf(d) \in ToSet(pipeline')
        BY <3>1, <1>1, <1>2, <1>5 DEF AccessInv, Guarding
      <3>2. QED BY <3>1, <1>1, <1>5 DEF Guarding
    <2>4. OrderFree' BY <1>1, <1>5 DEF OrderFree
    <2>5. (InputGuarded /\ IssuedToSelf)' BY <1>1, <1>5 DEF InputGuarded, IssuedToSelf
    <2>6. DelegatesSelf' BY <1>1, <1>5, WhoIs DEF DelegatesSelf, AccessInv, AccessSound
    <2>7. QED BY <2>1, <2>2, <2>3, <2>4, <2>5, <2>6 DEF AccessInv, AccessSound
  <1>6. CASE "check" \in DOMAIN t
    <2>1. PICK d : t = CheckOf(d) BY <1>6, <1>2 DEF Transforms, CheckOf
    <2>2. t.check = d.value /\ t.who = Who BY <2>1 DEF CheckOf
    <2>3. Inspect(d.value, Who) /\ UNCHANGED body BY <2>2, <1>6 DEF Transform, Inspect
    <2>4. CASE Failing(d.value, Who) = {}
      <3>1. UNCHANGED <<authorizing, served>> BY <2>3, <2>4 DEF Inspect
      <3>2. ASSUME NEW e \in Rules, t = CheckOf(e) PROVE Guarded(e)
        <4>1. e.value = d.value BY <3>2, <2>2 DEF CheckOf
        <4>2. QED BY <4>1, <2>4, <1>1, PassedIsGuarded
      <3>3. QED BY <2>3, <3>1, <3>2, <1>5
    <2>5. CASE Failing(d.value, Who) # {}
      <3>1. PICK f \in Failing(d.value, Who) : Refused(Verdict(d.value[f[1]].directives[f[2]], Who))
        BY <2>3, <2>5 DEF Inspect
      <3>2. PICK k : f \in {k} \X {l \in DOMAIN d.value[k].directives : Verdict(d.value[k].directives[l], Who) # 0}
        BY <3>1 DEF Failing
      <3>3. f[1] = k /\ Verdict(d.value[k].directives[f[2]], Who) # 0 BY <3>2
      <3>4. Verdict(d.value[f[1]].directives[f[2]], Who) \in {403, 500} BY <3>3 DEF Verdict, Throws
      <3>5. QED BY <3>1, <3>4, <2>3, <1>4
    <2>6. QED BY <2>4, <2>5
  <1>7. CASE "check" \notin DOMAIN t
    <2>1. PICK d : t = [property |-> d.value, who |-> Who] /\ Who # Unset
      BY <1>7, <1>2 DEF Transforms
    <2>2. t.property = d.value /\ t.who = Who BY <2>1
    <2>3. Delegate(d.value, Who) BY <2>2, <1>7 DEF Transform
    <2>4. CASE body.is = "value" BY <2>3, <2>4, <1>4 DEF Delegate
    <2>5. CASE body.is # "value"
      <3>1. /\ body' = [is |-> "object",
                        props |-> [p \in DOMAIN body.props \cup {d.value} |->
                                      IF p = d.value THEN Who.id ELSE body.props[p]]]
            /\ UNCHANGED <<authorizing, served>>
        BY <2>3, <2>5 DEF Delegate
      <3>2. Who.id = "me" BY <2>1, <1>1, WhoIs
      <3>3. body'.props = [p \in DOMAIN body.props \cup {d.value} |->
                              IF p = d.value THEN "me" ELSE body.props[p]]
        BY <3>1, <3>2
      <3>4. \A e : t # CheckOf(e) BY <1>7 DEF CheckOf
      <3>5. QED BY <3>1, <3>3, <3>4, <2>1, <1>5
    <2>6. QED BY <2>4, <2>5
  <1>8. QED BY <1>6, <1>7

LEMMA SettleInv == ASSUME AccessInv, Settle PROVE AccessInv'
  <1> USE SameCase
  <1>1. /\ case \in Cases /\ authorizing = "settle"
        /\ case.header \in Providers \cup {Unset} /\ case.stale \in BOOLEAN
        /\ granted \in Rules /\ Grants(granted) /\ granted # Unset
        /\ response \in {"me", "new", Unset}
        /\ todo \subseteq DOMAIN case.declared /\ pipeline \in Seq(Transforms)
        /\ UNCHANGED <<case, todo, part, pipeline, granted, body, response>>
    BY AccessAssumption DEF AccessInv, Formed, Granting, Settle, Rules
  <1>2. CASE Refused(IF case.header = "token" THEN 400 ELSE 422)
    BY <1>1, <1>2, RefusedInv
  <1>3. ASSUME authorizing' = "done", IssuedToSelf' PROVE AccessInv'
    <2>1. Formed' BY <1>1, <1>3 DEF AccessInv, Formed
    <2>2. (Identified /\ Granting /\ Asking /\ Guarding)'
      BY <1>1, <1>3 DEF AccessInv, Identified, Granting, Asking, Guarding
    <2>3. OrderFree' BY <1>1, <1>3 DEF OrderFree
    <2>4. InputGuarded' BY <1>3 DEF InputGuarded
    <2>5. DelegatesSelf' BY <1>1 DEF DelegatesSelf, AccessInv, AccessSound
    <2>6. QED BY <1>3, <2>1, <2>2, <2>3, <2>4, <2>5 DEF AccessInv, AccessSound
  <1>4. Incepts' = Incepts BY <1>1 DEF Incepts
  <1>5. "me" # Unset /\ "new" # Unset BY AccessAssumption
  <1>6. /\ ~ Authenticated <=> Who = Unset
        /\ Authenticated => /\ Who.id = "me" /\ Who.scheme = case.header /\ Who.refresh = case.stale
                            /\ case.header # Unset
    BY <1>1, WhoIs
  <1>7. CASE ~ Incepts
    <2>1. Issue(identity) /\ authorizing' = "done" BY <1>7 DEF Settle
    <2>2. ASSUME identity = Who /\ (granted.name = "echo" => Who # Unset) PROVE IssuedToSelf'
      BY <2>1, <2>2, <1>1, <1>4, <1>5, <1>6, <1>7 DEF IssuedToSelf, Issue
    <2>3. ASSUME granted.name = "echo", Who = Unset, identity = Identity("new", Unset, FALSE)
          PROVE  IssuedToSelf'
      <3>1. identity # Unset /\ identity.id = "new" /\ identity.scheme = Unset BY <2>3, Named
      <3>2. "token" # Unset BY AccessAssumption
      <3>3. issuedTo' = "new" BY <2>1, <3>1, <3>2 DEF Issue
      <3>4. ~ Incepts' /\ ~ Authenticated' BY <1>4, <1>7, <1>1, <1>6, <2>3
      <3>5. QED BY <3>3, <3>4, <1>5 DEF IssuedToSelf
    <2>4. IssuedToSelf' BY <2>2, <2>3, <1>1 DEF AccessInv, Identified
    <2>5. QED BY <2>1, <2>4, <1>3
  <1>8. CASE Incepts /\ ~ Refused(IF case.header = "token" THEN 400 ELSE 422)
    <2>1. PICK scheme \in (Providers \ {"token"}) \cup {Unset}, stale \in BOOLEAN :
             identity' = Identity(response, scheme, stale) /\ Issue(identity') /\ authorizing' = "done"
      BY <1>1, <1>8 DEF Settle
    <2>2. response \in {"me", "new"} BY <1>1, <1>8 DEF Incepts
    <2>3. scheme # "token" BY AccessAssumption
    <2>4. identity' # Unset /\ identity'.id = response /\ identity'.scheme = scheme
      BY <2>1, <2>2, Named
    <2>5. issuedTo' = response BY <2>1, <2>3, <2>4 DEF Issue
    <2>6. IssuedToSelf' BY <2>2, <2>5, <1>1, <1>4, <1>5, <1>8 DEF IssuedToSelf
    <2>7. QED BY <2>1, <2>6, <1>3
  <1>9. QED BY <1>2, <1>7, <1>8

THEOREM AccessInvariance == AccessSpec => []AccessInv
  <1>1. ASSUME AccessInv, [AccessNext]_accessVars PROVE AccessInv'
    <2>1. CASE UNCHANGED accessVars
      <3> USE <2>1, SameCase DEF accessVars
      <3>1. (Formed /\ Identified /\ Asking)'
        <4>1. \A i : Turn(i)' = Turn(i) BY DEF Turn
        <4>2. \A d : Parts(d)' = Parts(d) BY DEF Parts
        <4>3. (Formed /\ Identified)' BY <1>1 DEF AccessInv, Formed, Identified
        <4>4. Asking'
          <5>1. SUFFICES ASSUME authorizing' = "authorize" PROVE Asking' BY DEF Asking
          <5>2. Asking BY <1>1 DEF AccessInv
          <5>3. QED BY <5>1, <5>2, <4>1, <4>2 DEF Asking
        <4>5. QED BY <4>3, <4>4
      <3>2. (Granting /\ Guarding)' BY <1>1 DEF AccessInv, Granting, Guarding, Replied
      <3>3. OrderFree'
        <4>1. \A d : Parts(d)' = Parts(d) BY DEF Parts
        <4>2. QED BY <1>1, <4>1 DEF AccessInv, AccessSound, OrderFree
      <3>4. (InputGuarded /\ DelegatesSelf /\ IssuedToSelf)'
        BY <1>1 DEF AccessInv, AccessSound, InputGuarded, DelegatesSelf, IssuedToSelf, Incepts, Replied
      <3>5. QED BY <3>1, <3>2, <3>3, <3>4 DEF AccessInv, AccessSound
    <2>2. ASSUME NEW i \in todo, Authorize(i) \/ Grant(i) PROVE AccessInv'
      BY <1>1, <2>2, AuthorizeInv, GrantInv
    <2>3. QED BY <1>1, <2>1, <2>2, ResolveInv, RefuseInv, ReplyInv, TransformInv, InvokeInv, SettleInv
         DEF AccessNext
  <1>2. QED BY <1>1, AccessInitInv, PTL DEF AccessSpec

\* Access is granted by what is declared, in whatever order it is asked; what an input restricts
\* reaches the operation from those it is meant for; delegates and tokens are of who was
\* authenticated (AccessSound; Authorization.preflight, .settle, Input.check, Delegate.embed).
THEOREM AccessHeld == AccessSpec => []AccessSound
  <1>1. AccessInv => AccessSound BY DEF AccessInv
  <1>2. QED BY <1>1, AccessInvariance, PTL

=============================================================================
