---------------------------- MODULE StoresProofs ----------------------------
(***************************************************************************)
(* Proofs about what the storages promise: clients that share connections, *)
(* collections, stored streams, and workflows over them.                   *)
(***************************************************************************)
EXTENDS MongoClients, MongoStore, Octets, Workflow, FiniteSetTheorems, TLAPS

-----------------------------------------------------------------------------
(***************************************************************************)
(* For any clients, deployments and instances: if no client opens while    *)
(* another closes, a deployment's connection is shared, counted and closed *)
(* by the last of its clients.                                             *)
(***************************************************************************)

Holding == {"creating", "open", "releasing", "leaked"}
Using == Holding \cup {"connecting", "closing"}

\* A client that uses an instance finds it in the table.
Linked ==
    \A c \in Clients :
        phase[c] \in Using => uses[c] \in Instances /\ table[KeyOf[c]] = uses[c]

\* Who is counted has a connection; who waits has one that nobody closes.
HoldersUp == \A c \in Clients : phase[c] \in Holding => link[uses[c]] = "connected"
Awaiting ==
    \A c \in Clients :
        phase[c] = "connecting" => link[uses[c]] \in {"connecting", "connected", "refused"}

\* An instance is closed by one client.
ClosingAlone ==
    \A c \in Clients : phase[c] = "closing" =>
        /\ link[uses[c]] = "closing"
        /\ \A d \in Clients : phase[d] = "closing" /\ d # c => uses[d] # uses[c]
ClosingLink ==
    \A i \in Instances :
        link[i] = "closing" => \E c \in Clients : phase[c] = "closing" /\ uses[c] = i

\* The table has no instance that is gone, and none twice.
TableLive == \A k \in Keys : table[k] # Nothing => link[table[k]] \notin {"none", "closed"}
TableApart ==
    \A k, l \in Keys : table[k] # Nothing /\ table[k] = table[l] => k = l

\* Clients open or they close.
NotMixed == \A c, d \in Clients : ~ (phase[c] \in Opening /\ phase[d] \in Closing)

\* A connection has someone who holds it or waits for it.
Wanted ==
    \A i \in Instances : link[i] \in {"connecting", "connected"} =>
        \E c \in Clients : uses[c] = i /\ phase[c] \in Holding \cup {"connecting"}

\* What does not speak of the counts.
Shape ==
    /\ Linked /\ HoldersUp /\ Awaiting /\ ClosingAlone /\ ClosingLink
    /\ TableLive /\ TableApart /\ NotMixed /\ Wanted

IInv == TypeOK /\ CountsHolders /\ Shape

-----------------------------------------------------------------------------
\* The holders of an instance are finitely many.
LEMMA HoldersFinite ==
    \A i : /\ IsFiniteSet(Holders(i)) /\ Cardinality(Holders(i)) \in Nat
           /\ Holders(i) \subseteq Clients
<1> SUFFICES ASSUME NEW i
             PROVE  /\ IsFiniteSet(Holders(i)) /\ Cardinality(Holders(i)) \in Nat
                    /\ Holders(i) \subseteq Clients
  OBVIOUS
<1>1. Holders(i) \subseteq Clients
  BY DEF Holders
<1>2. IsFiniteSet(Holders(i))
  BY <1>1, ClientsAssumption, FS_Subset
<1> QED
  BY <1>1, <1>2, FS_CardinalityType

\* Counts are right if neither they nor the holders change.
LEMMA SameHolders ==
    ASSUME IInv, UNCHANGED count,
           \A c \in Clients :
               \/ phase'[c] = phase[c] /\ uses'[c] = uses[c]
               \/ phase[c] \notin Holding /\ phase'[c] \notin Holding
               \/ phase[c] \in Holding /\ phase'[c] \in Holding /\ uses'[c] = uses[c]
    PROVE  CountsHolders'
<1>1. \A i \in Instances : Holders(i)' = Holders(i)
  BY DEF Holders, Holding
<1> QED
  BY <1>1 DEF IInv, CountsHolders

\* The initial state satisfies the invariant.
LEMMA InitIInv == Init => IInv
<1> SUFFICES ASSUME Init PROVE IInv
  OBVIOUS
<1>1. TypeOK
  BY ClientsAssumption DEF Init, TypeOK, Phases, Links
<1>2. CountsHolders
  <2>1. \A i \in Instances : Holders(i) = {}
    BY DEF Init, Holders
  <2> QED
    BY <2>1, FS_EmptySet DEF Init, CountsHolders
<1>3. Shape
  BY ClientsAssumption DEF Init, Shape, Linked, HoldersUp, Awaiting, ClosingAlone,
     ClosingLink, TableLive, TableApart, NotMixed, Wanted, Using, Holding, Opening, Closing
<1> QED
  BY <1>1, <1>2, <1>3 DEF IInv

-----------------------------------------------------------------------------
\* Steps of open() before the instance is awaited.
LEMMA StartIInv ==
    ASSUME IInv, ~Overlap, NEW c \in Clients, Open(c) \/ Unresolved(c) \/ Refused(c)
    PROVE  IInv'
<1>1. PICK q \in {"resolving", "failed"} :
          /\ phase' = [phase EXCEPT ![c] = q]
          /\ q = "resolving" => \A d \in Clients : phase[d] \notin Closing
  BY DEF Open, Unresolved, Refused, Goto
<1>2. UNCHANGED <<uses, table, link, count>>
  BY DEF Open, Unresolved, Refused
<1>3. /\ phase[c] \in {"idle", "resolving", "connecting"}
      /\ phase[c] = "connecting" => link[uses[c]] = "refused"
  BY DEF Open, Unresolved, Refused
<1>4. \A d \in Clients : phase'[d] = IF d = c THEN q ELSE phase[d]
  BY <1>1 DEF IInv, TypeOK
<1>5. TypeOK'
  BY <1>1, <1>2 DEF IInv, TypeOK, Phases, Opening
<1>6. CountsHolders'
  BY <1>2, <1>3, <1>4, SameHolders DEF Holding
<1>7. Linked' /\ HoldersUp' /\ Awaiting' /\ ClosingAlone'
  BY <1>2, <1>4 DEF IInv, Shape, Linked, HoldersUp, Awaiting, ClosingAlone, Using, Holding
<1>8. ClosingLink'
  BY <1>2, <1>3, <1>4 DEF IInv, Shape, ClosingLink
<1>9. TableLive' /\ TableApart'
  BY <1>2 DEF IInv, Shape, TableLive, TableApart
<1>10. NotMixed'
  BY <1>1, <1>4 DEF IInv, Shape, NotMixed, Opening, Closing
<1>11. Wanted'
  BY <1>2, <1>3, <1>4 DEF IInv, Shape, Wanted, Holding
<1> QED
  BY <1>5, <1>6, <1>7, <1>8, <1>9, <1>10, <1>11 DEF IInv, Shape

\* The promise of an instance is found in the table or put there.
LEMMA ClaimIInv ==
    ASSUME IInv, NEW c \in Clients, NEW i \in Instances, Claim(c, i)
    PROVE  IInv'
<1> DEFINE k == KeyOf[c]
<1>1. k \in Keys /\ i # Nothing
  BY ClientsAssumption
<1>2. /\ phase[c] = "resolving" /\ UNCHANGED count
      /\ phase' = [phase EXCEPT ![c] = "connecting"]
      /\ uses' = [uses EXCEPT ![c] = i]
  BY DEF Claim, Goto
<1>3. \A d \in Clients : /\ phase'[d] = IF d = c THEN "connecting" ELSE phase[d]
                         /\ uses'[d] = IF d = c THEN i ELSE uses[d]
  BY <1>2 DEF IInv, TypeOK
<1>4. CountsHolders'
  BY <1>2, <1>3, SameHolders DEF Holding
<1>5. NotMixed'
  BY <1>2, <1>3 DEF IInv, Shape, NotMixed, Opening, Closing
<1>6. \A d \in Clients : phase[d] # "closing"
  BY <1>2 DEF IInv, Shape, NotMixed, Opening, Closing
<1>7. CASE table[k] = i /\ UNCHANGED <<table, link>>
  <2>1. link[i] \in {"connecting", "connected", "refused"}
    BY <1>1, <1>6, <1>7 DEF IInv, Shape, TypeOK, Links, TableLive, ClosingLink
  <2>2. TypeOK'
    BY <1>2, <1>7 DEF IInv, TypeOK, Phases, Opening
  <2>3. Linked' /\ HoldersUp' /\ Awaiting' /\ ClosingAlone'
    BY <1>3, <1>6, <1>7, <2>1
    DEF IInv, Shape, Linked, HoldersUp, Awaiting, ClosingAlone, Using, Holding
  <2>4. ClosingLink' /\ TableLive' /\ TableApart'
    BY <1>6, <1>7 DEF IInv, Shape, ClosingLink, TableLive, TableApart
  <2>5. Wanted'
    <3> SUFFICES ASSUME NEW j \in Instances, link[j] \in {"connecting", "connected"}
                 PROVE  \E d \in Clients : /\ uses'[d] = j
                                           /\ phase'[d] \in Holding \cup {"connecting"}
      BY <1>7 DEF Wanted
    <3>1. PICK d \in Clients : uses[d] = j /\ phase[d] \in Holding \cup {"connecting"}
      BY DEF IInv, Shape, Wanted
    <3> QED
      BY <1>2, <1>3, <3>1 DEF Holding
  <2> QED
    BY <1>4, <1>5, <2>2, <2>3, <2>4, <2>5 DEF IInv, Shape
<1>8. CASE /\ table[k] = Nothing /\ link[i] = "none"
           /\ table' = [table EXCEPT ![k] = i]
           /\ link' = [link EXCEPT ![i] = "connecting"]
  <2>1. \A j \in Instances : link'[j] = IF j = i THEN "connecting" ELSE link[j]
    BY <1>8 DEF IInv, TypeOK
  <2>2. \A l \in Keys : table'[l] = IF l = k THEN i ELSE table[l]
    BY <1>8 DEF IInv, TypeOK
  <2>3. TypeOK'
    BY <1>1, <1>2, <1>8 DEF IInv, TypeOK, Phases, Opening, Links
  <2>4. \A d \in Clients : phase[d] \in Using =>
            uses[d] \in Instances /\ uses[d] # i /\ KeyOf[d] # k
    BY <1>1, <1>8, ClientsAssumption
    DEF IInv, Shape, Linked, HoldersUp, Awaiting, ClosingAlone, Using, Holding
  <2>5. Linked'
    BY <1>2, <1>3, <2>2, <2>4, ClientsAssumption DEF IInv, Shape, Linked, Using, Holding
  <2>6. HoldersUp' /\ Awaiting' /\ ClosingAlone'
    BY <1>2, <1>3, <1>6, <2>1, <2>4
    DEF IInv, Shape, HoldersUp, Awaiting, ClosingAlone, Using, Holding
  <2>7. ClosingLink'
    BY <1>6, <2>1 DEF IInv, Shape, ClosingLink
  <2>8. TableLive' /\ TableApart'
    BY <1>8, <2>1, <2>2 DEF IInv, TypeOK, Shape, TableLive, TableApart
  <2>9. Wanted'
    <3> SUFFICES ASSUME NEW j \in Instances, link'[j] \in {"connecting", "connected"}
                 PROVE  \E d \in Clients : /\ uses'[d] = j
                                           /\ phase'[d] \in Holding \cup {"connecting"}
      BY DEF Wanted
    <3>1. CASE j = i
      BY <1>3, <3>1
    <3>2. CASE j # i
      <4>1. PICK d \in Clients : uses[d] = j /\ phase[d] \in Holding \cup {"connecting"}
        BY <2>1, <3>2 DEF IInv, Shape, Wanted
      <4> QED
        BY <1>2, <1>3, <4>1 DEF Holding
    <3> QED
      BY <3>1, <3>2
  <2> QED
    BY <1>4, <1>5, <2>3, <2>5, <2>6, <2>7, <2>8, <2>9 DEF IInv, Shape
<1> QED
  BY <1>7, <1>8 DEF Claim

\* A connection is made, or refused.
LEMMA ConnectIInv == ASSUME IInv, NEW i \in Instances, Connect(i) PROVE IInv'
<1>1. PICK l \in {"connected", "refused"} : link' = [link EXCEPT ![i] = l]
  BY DEF Connect
<1>2. link[i] = "connecting" /\ UNCHANGED <<phase, uses, table, count>>
  BY DEF Connect
<1>3. \A j \in Instances : link'[j] = IF j = i THEN l ELSE link[j]
  BY <1>1 DEF IInv, TypeOK
<1>4. TypeOK'
  BY <1>1, <1>2 DEF IInv, TypeOK, Links
<1>5. CountsHolders'
  BY <1>2, SameHolders
<1>6. Linked'
  BY <1>2 DEF IInv, Shape, Linked
<1>7. \A c \in Clients : phase[c] \in Using => uses[c] \in Instances
  BY DEF IInv, Shape, Linked
<1>8. HoldersUp' /\ Awaiting' /\ ClosingAlone'
  BY <1>2, <1>3, <1>7 DEF IInv, Shape, HoldersUp, Awaiting, ClosingAlone, Using, Holding
<1>9. ClosingLink'
  BY <1>2, <1>3 DEF IInv, Shape, ClosingLink
<1>10. TableLive' /\ TableApart'
  BY <1>2, <1>3 DEF IInv, TypeOK, Shape, TableLive, TableApart
<1>11. NotMixed'
  BY <1>2 DEF IInv, Shape, NotMixed
<1>12. Wanted'
  BY <1>2, <1>3 DEF IInv, Shape, Wanted
<1> QED
  BY <1>4, <1>5, <1>6, <1>8, <1>9, <1>10, <1>11, <1>12 DEF IInv, Shape

\* The client is counted.
LEMMA CountedIInv == ASSUME IInv, NEW c \in Clients, Counted(c) PROVE IInv'
<1>0. PICK i \in Instances : i = uses[c]
  BY DEF Counted, IInv, Shape, Linked, Using
<1>1. /\ phase[c] = "connecting" /\ UNCHANGED <<uses, table, link>>
      /\ phase' = [phase EXCEPT ![c] = "creating"]
      /\ count' = [count EXCEPT ![i] = @ + 1]
  BY <1>0 DEF Counted, Goto
<1>2. link[i] = "connected"
  BY <1>0 DEF Counted, IInv, Shape, Awaiting
<1>3. \A d \in Clients : phase'[d] = IF d = c THEN "creating" ELSE phase[d]
  BY <1>1 DEF IInv, TypeOK
<1>4. TypeOK'
  BY <1>1, <1>2 DEF IInv, TypeOK, Phases, Opening
<1>5. CountsHolders'
  <2>1. Holders(i)' = Holders(i) \cup {c} /\ c \notin Holders(i)
    BY <1>0, <1>1, <1>3 DEF Holders
  <2>2. \A j \in Instances \ {i} : Holders(j)' = Holders(j)
    BY <1>0, <1>1, <1>3 DEF Holders
  <2>3. Cardinality(Holders(i) \cup {c}) = Cardinality(Holders(i)) + 1
    BY <2>1, HoldersFinite, FS_AddElement
  <2>4. \A j \in Instances : count'[j] = IF j = i THEN count[j] + 1 ELSE count[j]
    BY <1>1 DEF IInv, TypeOK
  <2> QED
    BY <2>1, <2>2, <2>3, <2>4 DEF IInv, CountsHolders
<1>6. Linked' /\ HoldersUp' /\ Awaiting' /\ ClosingAlone'
  BY <1>0, <1>1, <1>2, <1>3 DEF IInv, Shape, Linked, HoldersUp, Awaiting, ClosingAlone, Using, Holding
<1>7. ClosingLink'
  BY <1>1, <1>3 DEF IInv, Shape, ClosingLink
<1>8. TableLive' /\ TableApart'
  BY <1>1 DEF IInv, Shape, TableLive, TableApart
<1>9. NotMixed'
  BY <1>1, <1>3 DEF IInv, Shape, NotMixed, Opening, Closing
<1>10. Wanted'
  BY <1>1, <1>3 DEF IInv, Shape, Wanted, Holding
<1> QED
  BY <1>4, <1>5, <1>6, <1>7, <1>8, <1>9, <1>10 DEF IInv, Shape

\* The collection is created, or not; and a client starts to close.
LEMMA HoldIInv ==
    ASSUME IInv, ~Overlap, NEW c \in Clients, Create(c) \/ Close(c)
    PROVE  IInv'
<1>1. /\ phase[c] \in Holding /\ UNCHANGED <<table, link, count>>
      /\ phase[c] = "releasing" => FALSE
  BY DEF Create, Close, Holding
<1>2. uses' = uses
  <2>1. uses' = uses \/ uses' = [uses EXCEPT ![c] = table[KeyOf[c]]]
    BY DEF Create, Close
  <2>2. table[KeyOf[c]] = uses[c]
    BY <1>1 DEF IInv, Shape, Linked, Using
  <2> QED
    BY <2>1, <2>2 DEF IInv, TypeOK
<1>3. PICK q \in {"open", "leaked", "releasing"} :
          /\ phase' = [phase EXCEPT ![c] = q]
          /\ q = "releasing" => \A d \in Clients : phase[d] \notin Opening
  BY DEF Create, Close, Goto
<1>4. \A d \in Clients : phase'[d] = IF d = c THEN q ELSE phase[d]
  BY <1>3 DEF IInv, TypeOK
<1>5. TypeOK'
  BY <1>1, <1>2, <1>3 DEF IInv, TypeOK, Phases, Closing
<1>6. CountsHolders'
  BY <1>1, <1>2, <1>4, SameHolders DEF Holding
<1>7. Linked' /\ HoldersUp' /\ Awaiting' /\ ClosingAlone'
  BY <1>1, <1>2, <1>4 DEF IInv, Shape, Linked, HoldersUp, Awaiting, ClosingAlone, Using, Holding
<1>8. ClosingLink'
  BY <1>1, <1>2, <1>4 DEF IInv, Shape, ClosingLink, Holding
<1>9. TableLive' /\ TableApart'
  BY <1>1 DEF IInv, Shape, TableLive, TableApart
<1>10. NotMixed'
  BY <1>3, <1>4 DEF IInv, Shape, NotMixed, Opening, Closing
<1>11. Wanted'
  BY <1>1, <1>2, <1>4 DEF IInv, Shape, Wanted, Holding
<1> QED
  BY <1>5, <1>6, <1>7, <1>8, <1>9, <1>10, <1>11 DEF IInv, Shape

\* The client is counted out; the last one closes the connection.
LEMMA ReleaseIInv == ASSUME IInv, NEW c \in Clients, Release(c) PROVE IInv'
<1>0. PICK i \in Instances : i = uses[c]
  BY DEF Release, IInv, Shape, Linked, Using, Holding
<1>1. /\ phase[c] = "releasing" /\ UNCHANGED <<uses, table>>
      /\ count' = [count EXCEPT ![i] = @ - 1]
  BY <1>0 DEF Release
<1>2. link[i] = "connected" /\ c \in Holders(i)
  BY <1>0, <1>1 DEF IInv, Shape, HoldersUp, Holding, Holders
<1>3. /\ Cardinality(Holders(i) \ {c}) = count[i] - 1
      /\ Cardinality(Holders(i) \ {c}) \in Nat /\ IsFiniteSet(Holders(i) \ {c})
  BY <1>2, HoldersFinite, FS_RemoveElement, FS_CardinalityType DEF IInv, CountsHolders
<1>4. \A d \in Clients : phase[d] \notin Opening
  BY <1>1 DEF IInv, Shape, NotMixed, Closing
<1>5. PICK q \in {"closing", "closed"} :
          /\ phase' = [phase EXCEPT ![c] = q]
          /\ q = "closing" <=> count[i] = 1
          /\ link' = IF q = "closing" THEN [link EXCEPT ![i] = "closing"] ELSE link
  BY <1>0 DEF Release, Goto
<1>6. \A d \in Clients : phase'[d] = IF d = c THEN q ELSE phase[d]
  BY <1>5 DEF IInv, TypeOK
<1>7. \A j \in Instances : link'[j] = IF j = i /\ q = "closing" THEN "closing" ELSE link[j]
  BY <1>5 DEF IInv, TypeOK
<1>8. TypeOK'
  <2>1. count[i] - 1 \in Nat
    BY <1>3
  <2>2. count' \in [Instances -> Nat]
    BY <1>1, <1>2, <2>1 DEF IInv, TypeOK
  <2> QED
    BY <1>1, <1>2, <1>5, <2>2 DEF IInv, TypeOK, Phases, Closing, Links
<1>9. CountsHolders'
  <2>1. Holders(i)' = Holders(i) \ {c}
    BY <1>0, <1>1, <1>5, <1>6 DEF Holders
  <2>2. \A j \in Instances \ {i} : Holders(j)' = Holders(j)
    BY <1>0, <1>1, <1>5, <1>6 DEF Holders
  <2>3. \A j \in Instances : count'[j] = IF j = i THEN count[j] - 1 ELSE count[j]
    BY <1>1 DEF IInv, TypeOK
  <2> QED
    BY <1>3, <2>1, <2>2, <2>3 DEF IInv, CountsHolders
<1>10. q = "closing" => \A d \in Clients : phase[d] \in Holding /\ uses[d] = i => d = c
  <2> SUFFICES ASSUME q = "closing" PROVE Holders(i) \ {c} = {}
    BY DEF Holders, Holding
  <2> QED
    BY <1>3, <1>5, FS_EmptySet
<1>11. q = "closed" => \E d \in Clients : d # c /\ phase[d] \in Holding /\ uses[d] = i
  <2> SUFFICES ASSUME q = "closed" PROVE Holders(i) \ {c} # {}
    BY HoldersFinite DEF Holders, Holding
  <2> QED
    <3>1. count[i] # 1 /\ count[i] \in Nat
      BY <1>5 DEF IInv, TypeOK
    <3> QED
      BY <1>3, <3>1, FS_EmptySet
<1>12. Linked'
  BY <1>0, <1>1, <1>5, <1>6 DEF IInv, Shape, Linked, Using, Holding
<1>13. \A d \in Clients : phase[d] \in Using => uses[d] \in Instances
  BY DEF IInv, Shape, Linked
<1>14. HoldersUp' /\ Awaiting'
  BY <1>0, <1>1, <1>4, <1>5, <1>6, <1>7, <1>10, <1>13
  DEF IInv, Shape, HoldersUp, Awaiting, Using, Holding, Opening
<1>15. ClosingAlone'
  BY <1>0, <1>1, <1>2, <1>5, <1>6, <1>7, <1>13 DEF IInv, Shape, ClosingAlone, Using
<1>16. ClosingLink'
  BY <1>0, <1>1, <1>6, <1>7 DEF IInv, Shape, ClosingLink
<1>17. TableLive' /\ TableApart'
  BY <1>0, <1>1, <1>7 DEF IInv, TypeOK, Shape, TableLive, TableApart
<1>18. NotMixed'
  BY <1>4, <1>5, <1>6 DEF NotMixed, Opening, Closing
<1>19. Wanted'
  <2> SUFFICES ASSUME NEW j \in Instances, link'[j] \in {"connecting", "connected"}
               PROVE  \E d \in Clients : /\ uses'[d] = j
                                         /\ phase'[d] \in Holding \cup {"connecting"}
    BY DEF Wanted
  <2>1. CASE j = i
    BY <1>0, <1>1, <1>5, <1>6, <1>7, <1>11, <2>1
  <2>2. CASE j # i
    <3>1. PICK d \in Clients : uses[d] = j /\ phase[d] \in Holding \cup {"connecting"}
      BY <1>7, <2>2 DEF IInv, Shape, Wanted
    <3> QED
      BY <1>0, <1>1, <1>6, <2>2, <3>1
  <2> QED
    BY <2>1, <2>2
<1> QED
  BY <1>8, <1>9, <1>12, <1>14, <1>15, <1>16, <1>17, <1>18, <1>19 DEF IInv, Shape

\* The connection is closed and its key is free again.
LEMMA ShutIInv == ASSUME IInv, NEW c \in Clients, Shut(c) PROVE IInv'
<1> DEFINE i == uses[c]
           k == KeyOf[c]
<1>1. /\ phase[c] = "closing" /\ UNCHANGED <<uses, count>>
      /\ phase' = [phase EXCEPT ![c] = "closed"]
      /\ link' = [link EXCEPT ![i] = "closed"]
      /\ table' = [table EXCEPT ![k] = Nothing]
  BY DEF Shut, Goto
<1>2. /\ k \in Keys /\ i \in Instances /\ table[k] = i /\ i # Nothing
      /\ link[i] = "closing"
  BY <1>1, ClientsAssumption DEF IInv, Shape, Linked, ClosingAlone, Using
<1>3. \A d \in Clients : phase'[d] = IF d = c THEN "closed" ELSE phase[d]
  BY <1>1 DEF IInv, TypeOK
<1>4. \A j \in Instances : link'[j] = IF j = i THEN "closed" ELSE link[j]
  BY <1>1 DEF IInv, TypeOK
<1>5. \A l \in Keys : table'[l] = IF l = k THEN Nothing ELSE table[l]
  BY <1>1 DEF IInv, TypeOK
<1>6. \A d \in Clients : phase[d] \in Using /\ d # c =>
          uses[d] \in Instances /\ uses[d] # i /\ KeyOf[d] # k /\ phase[d] # "connecting"
  BY <1>1, <1>2
  DEF IInv, Shape, Linked, HoldersUp, ClosingAlone, NotMixed, Using, Holding, Opening, Closing
<1>7. TypeOK'
  BY <1>1 DEF IInv, TypeOK, Phases, Links
<1>8. CountsHolders'
  BY <1>1, <1>3, SameHolders DEF Holding
<1>9. Linked' /\ HoldersUp' /\ Awaiting' /\ ClosingAlone'
  BY <1>1, <1>3, <1>4, <1>5, <1>6, ClientsAssumption
  DEF IInv, Shape, Linked, HoldersUp, Awaiting, ClosingAlone, Using, Holding
<1>10. ClosingLink'
  BY <1>1, <1>3, <1>4 DEF IInv, Shape, ClosingLink
<1>11. TableLive' /\ TableApart'
  BY <1>2, <1>4, <1>5 DEF IInv, TypeOK, Shape, TableLive, TableApart
<1>12. NotMixed'
  BY <1>3 DEF IInv, Shape, NotMixed, Opening, Closing
<1>13. Wanted'
  BY <1>1, <1>3, <1>4 DEF IInv, Shape, Wanted, Holding
<1> QED
  BY <1>7, <1>8, <1>9, <1>10, <1>11, <1>12, <1>13 DEF IInv, Shape

-----------------------------------------------------------------------------
\* The invariant is inductive if opening and closing do not overlap.
LEMMA NextIInv == ASSUME ~Overlap PROVE IInv /\ [Next]_vars => IInv'
<1> SUFFICES ASSUME IInv, [Next]_vars PROVE IInv'
  OBVIOUS
<1>1. ASSUME NEW c \in Clients, Open(c) \/ Unresolved(c) \/ Refused(c) PROVE IInv'
  BY <1>1, StartIInv
<1>2. ASSUME NEW c \in Clients, NEW i \in Instances, Claim(c, i) PROVE IInv'
  BY <1>2, ClaimIInv
<1>3. ASSUME NEW c \in Clients, Counted(c) PROVE IInv'
  BY <1>3, CountedIInv
<1>4. ASSUME NEW c \in Clients, Create(c) \/ Close(c) PROVE IInv'
  BY <1>4, HoldIInv
<1>5. ASSUME NEW c \in Clients, Release(c) PROVE IInv'
  BY <1>5, ReleaseIInv
<1>6. ASSUME NEW c \in Clients, Shut(c) PROVE IInv'
  BY <1>6, ShutIInv
<1>7. ASSUME NEW i \in Instances, Connect(i) PROVE IInv'
  BY <1>7, ConnectIInv
<1>8. CASE UNCHANGED vars
  <2>1. \A i : Holders(i)' = Holders(i)
    BY <1>8 DEF vars, Holders
  <2> QED
    BY <1>8, <2>1 DEF vars, IInv, TypeOK, CountsHolders, Shape, Linked, HoldersUp, Awaiting,
       ClosingAlone, ClosingLink, TableLive, TableApart, NotMixed, Wanted
<1> QED
  BY <1>1, <1>2, <1>3, <1>4, <1>5, <1>6, <1>7, <1>8 DEF Next

\* What the runs check follows from it.
LEMMA IInvShared == IInv => ClientsShared
<1> SUFFICES ASSUME IInv PROVE ClientsShared
  OBVIOUS
<1>1. TypeOK /\ CountsHolders
  BY DEF IInv
<1>2. OpenIsConnected
  BY DEF IInv, Shape, OpenIsConnected, Linked, HoldersUp, Using, Holding
<1>3. OneConnection
  BY DEF IInv, Shape, OneConnection, Linked, Using, Holding
<1>4. ClosedWhenUnused
  <2> SUFFICES ASSUME \A c \in Clients : phase[c] \notin Opening \cup Closing,
                      NEW i \in Instances, link[i] = "connected"
               PROVE  Holders(i) # {}
    BY DEF ClosedWhenUnused
  <2>1. PICK c \in Clients : uses[c] = i /\ phase[c] \in Holding \cup {"connecting"}
    BY DEF IInv, Shape, Wanted
  <2> QED
    BY <2>1 DEF Holders, Holding, Opening
<1> QED
  BY <1>1, <1>2, <1>3, <1>4 DEF ClientsShared

\* Clients of one deployment share one connection, which is up while one of
\* them holds it and closed by the last (client.js open, close), provided that
\* a composition's clients are not opened while others are closed.
THEOREM Shared == ASSUME ~Overlap PROVE Spec => []ClientsShared
<1>1. IInv /\ [Next]_vars => IInv'
  BY NextIInv
<1> QED
  BY <1>1, InitIInv, IInvShared, PTL DEF Spec

-----------------------------------------------------------------------------
(***************************************************************************)
(* For any processes, indexes, calls of store() and outages: the answers   *)
(* are true, and no two records share the value of the unique property.    *)
(***************************************************************************)

\* A process has created the indexes that are not left to be created, drops
\* none of those declared, and is not done before all of them are there.
Indexed ==
    \A p \in Processes :
        /\ boot[p].step = "creating" =>
              /\ boot[p].left \subseteq Declared /\ Declared \ boot[p].left \subseteq indexes
        /\ boot[p].step \in {"dropping", "failed"} => boot[p].left \cap Declared = {}
        /\ boot[p].step \in {"dropping", "failed", "open"} => Declared \subseteq indexes

\* The unique index is there before the first call, thus before any record.
UniqueFirst ==
    /\ \A w \in Writers : writing[w].step # "idle" => Unique \in indexes
    /\ \A d \in Documents : Present(d) => Unique \in indexes

\* The writer of a record's current version is done with that version of it.
Signed ==
    \A d \in Documents, w \in Writers : docs[d].by = w =>
        /\ writing[w].step = "done" /\ writing[w].id = d
        /\ docs[d].version = writing[w].version

StoreInv == StoreTyped /\ Indexed /\ UniqueFirst /\ Signed /\ Truthful /\ NoDuplicates

-----------------------------------------------------------------------------
\* The initial state satisfies the invariant.
LEMMA StoreInitInv == StoreInit => StoreInv
<1> SUFFICES ASSUME StoreInit PROVE StoreInv
  OBVIOUS
<1>1. Blank.value \in Values /\ NotWriting.id \in Documents
  BY MongoStoreAssumption DEF Blank, NotWriting
<1>2. StoreTyped
  <2>1. up \in BOOLEAN /\ outages \in 0..MaxOutages /\ indexes \subseteq Declared \cup Obsolete
    BY MongoStoreAssumption DEF StoreInit
  <2>2. boot \in [Processes -> Boot]
    BY DEF StoreInit, Boot
  <2>3. docs \in [Documents -> [version : 0..MaxVersion, value : Values, by : Writers \cup {Nobody}]]
    BY <1>1, MongoStoreAssumption DEF StoreInit, Blank
  <2>4. writing \in [Writers -> Writing]
    BY <1>1, MongoStoreAssumption DEF StoreInit, Writing, NotWriting, Blank
  <2> QED
    BY <2>1, <2>2, <2>3, <2>4 DEF StoreTyped
<1>3. /\ \A d \in Documents : docs[d].by = Nobody
      /\ \A w \in Writers : writing[w].step = "idle"
      /\ \A p \in Processes : boot[p].step = "down"
  BY DEF StoreInit, Blank, NotWriting
<1> QED
  BY <1>2, <1>3, MongoStoreAssumption
     DEF StoreInv, Indexed, UniqueFirst, Signed, Truthful, NoDuplicates, Duplicated, Present

\* Indexes come and go, and none that is declared goes once it is there.
LEMMA OpenStoreInv ==
    ASSUME StoreInv, NEW p \in Processes, OpenStore(p) PROVE StoreInv'
<1>1. /\ UNCHANGED <<up, outages, docs, writing>>
      /\ boot[p] \in Boot
  BY DEF OpenStore, Start, CreateIndex, ListIndexes, DropIndex, DropRest, Opened,
     StoreInv, StoreTyped
<1> DEFINE Ended(state, left, ixs) ==
        /\ state \in {"creating", "dropping", "open", "failed"}
        /\ left \subseteq Declared \cup Obsolete /\ ixs \subseteq Declared \cup Obsolete
        /\ Declared \cap indexes \subseteq ixs
        /\ state = "creating" => left \subseteq Declared /\ Declared \ left \subseteq ixs
        /\ state \in {"dropping", "failed"} => left \cap Declared = {}
        /\ state \in {"dropping", "failed", "open"} => Declared \subseteq ixs
<1>2. \E state, left : /\ boot' = [boot EXCEPT ![p] = [step |-> state, left |-> left]]
                       /\ Ended(state, left, indexes')
  <2> USE DEF Booting, StoreInv, StoreTyped, Indexed, Boot
  <2>1. CASE Start(p)
    <3>1. boot' = [boot EXCEPT ![p] = [step |-> "creating", left |-> Declared]]
          /\ indexes' = indexes
      BY <2>1 DEF Start
    <3>2. Ended("creating", Declared, indexes')
      BY <3>1
    <3> QED
      BY <3>1, <3>2
  <2>2. CASE CreateIndex(p)
    <3>1. PICK i \in boot[p].left :
             /\ boot' = [boot EXCEPT ![p] = [step |-> "creating", left |-> boot[p].left \ {i}]]
             /\ indexes' = indexes \cup {i}
      BY <2>2 DEF CreateIndex, NoDuplicates
    <3>2. boot[p].step = "creating" /\ boot[p].left \subseteq Declared
          /\ Declared \ boot[p].left \subseteq indexes
      BY <2>2 DEF CreateIndex
    <3>3. Ended("creating", boot[p].left \ {i}, indexes')
      BY <3>1, <3>2
    <3> QED
      BY <3>1, <3>3
  <2>3. CASE ListIndexes(p)
    BY <2>3 DEF ListIndexes
  <2>4. CASE DropIndex(p)
    <3>1. PICK i \in boot[p].left :
             /\ indexes' = indexes \ {i}
             /\ boot' = [boot EXCEPT ![p] =
                   [step |-> IF i \in indexes THEN "dropping" ELSE "failed",
                    left |-> boot[p].left \ {i}]]
      BY <2>4 DEF DropIndex
    <3>2. boot[p].step = "dropping" /\ boot[p].left \subseteq Declared \cup Obsolete
      BY <1>1, <2>4 DEF DropIndex
    <3>3. Ended(IF i \in indexes THEN "dropping" ELSE "failed", boot[p].left \ {i}, indexes')
      BY <3>1, <3>2
    <3> QED
      BY <3>1, <3>3, ZenonT(60)
  <2>5. CASE DropRest(p)
    <3>1. PICK i \in boot[p].left :
             /\ indexes' = indexes \ {i}
             /\ boot' = [boot EXCEPT ![p] = [step |-> "failed", left |-> boot[p].left \ {i}]]
      BY <2>5 DEF DropRest
    <3>2. boot[p].step = "failed" /\ boot[p].left \subseteq Declared \cup Obsolete
      BY <1>1, <2>5 DEF DropRest
    <3>3. Ended("failed", boot[p].left \ {i}, indexes')
      BY <3>1, <3>2
    <3> QED
      BY <3>1, <3>3
  <2>6. CASE Opened(p)
    BY <2>6 DEF Opened
  <2> QED
    BY <2>1, <2>2, <2>3, <2>4, <2>5, <2>6 DEF OpenStore
<1>3. PICK state, left : /\ boot' = [boot EXCEPT ![p] = [step |-> state, left |-> left]]
                         /\ Ended(state, left, indexes')
  BY <1>2
<1>4. StoreTyped'
  <2>1. [step |-> state, left |-> left] \in Boot
    BY <1>3 DEF Boot
  <2> QED
    BY <1>1, <1>3, <2>1 DEF StoreInv, StoreTyped
<1>5. Indexed'
  <2> SUFFICES ASSUME NEW q \in Processes PROVE
        /\ boot'[q].step = "creating" =>
              /\ boot'[q].left \subseteq Declared /\ Declared \ boot'[q].left \subseteq indexes'
        /\ boot'[q].step \in {"dropping", "failed"} => boot'[q].left \cap Declared = {}
        /\ boot'[q].step \in {"dropping", "failed", "open"} => Declared \subseteq indexes'
    BY DEF Indexed
  <2>1. CASE q = p
    BY <1>3, <2>1 DEF StoreInv, StoreTyped
  <2>2. CASE q # p
    <3>1. boot'[q] = boot[q]
      BY <1>3, <2>2 DEF StoreInv, StoreTyped
    <3> QED
      BY <1>3, <3>1 DEF StoreInv, Indexed
  <2> QED
    BY <2>1, <2>2
<1>6. UniqueFirst'
  BY <1>1, <1>3, MongoStoreAssumption DEF StoreInv, UniqueFirst, Present
<1> QED
  BY <1>1, <1>4, <1>5, <1>6 DEF StoreInv, Signed, Truthful, NoDuplicates, Duplicated, Present

\* The steps of a call that neither begin it nor write.
LEMMA UnwrittenInv ==
    ASSUME StoreInv, UNCHANGED <<indexes, boot, docs>>,
           up' \in BOOLEAN, outages' \in 0..MaxOutages, writing' \in [Writers -> Writing],
           \A w \in Writers :
             \/ writing'[w] = writing[w]
             \/ /\ writing[w].step # "done" /\ writing'[w].step \notin {"idle", "done"}
                /\ Unique \in indexes
             \/ /\ writing[w].step \notin {"idle", "done"} /\ writing'[w].step = "done"
                /\ writing'[w].reply # "true"
    PROVE  StoreInv'
<1>1. StoreTyped' /\ Indexed' /\ NoDuplicates'
  BY DEF StoreInv, StoreTyped, Indexed, NoDuplicates, Duplicated, Present
<1>2. UniqueFirst'
  BY DEF StoreInv, UniqueFirst, Present
<1>3. \A d \in Documents, w \in Writers :
         docs[d].by = w => writing'[w] = writing[w]
  BY DEF StoreInv, Signed
<1>4. Signed'
  BY <1>3 DEF StoreInv, Signed
<1>5. Truthful'
  <2> SUFFICES ASSUME NEW w \in Writers, writing'[w].step = "done"
               PROVE  /\ writing'[w].reply = "true" =>
                            docs[writing'[w].id].by = w
                            \/ docs[writing'[w].id].version > writing'[w].version
                      /\ writing'[w].reply \in {"false", "duplicate"} =>
                            docs[writing'[w].id].by # w
    BY DEF Truthful
  <2>1. CASE writing'[w] = writing[w]
    BY <2>1 DEF StoreInv, Truthful
  <2>2. CASE writing'[w] # writing[w]
    <3>1. writing'[w].id \in Documents /\ writing'[w].reply # "true"
      BY <2>2 DEF Writing
    <3> QED
      BY <1>3, <2>2, <3>1
  <2> QED
    BY <2>1, <2>2
<1> QED
  BY <1>1, <1>2, <1>4, <1>5 DEF StoreInv

\* A write that fits and breaks no index.
LEMMA WrittenInv ==
    ASSUME StoreInv, NEW w \in Writers, NEW r \in {"true", "error"},
           writing[w].step = "trying", Fits(w), ~ Violates(w), Written(w), Reply(w, r),
           UNCHANGED <<up, outages, indexes, boot>>
    PROVE  StoreInv'
<1> DEFINE d == writing[w].id
<1>1. /\ d \in Documents /\ writing[w].version \in 0..MaxVersion /\ writing[w].value \in Values
      /\ docs[d].version \in Nat /\ docs[d].version = writing[w].version - 1
      /\ writing[w] \in Writing
  BY DEF StoreInv, StoreTyped, Writing, Fits
<1> HIDE DEF d
<1>2. docs' = [docs EXCEPT ![d] = [version |-> writing[w].version, value |-> writing[w].value,
                                    by |-> w]]
  BY DEF Written, d
<1>3. /\ docs'[d].version = writing[w].version /\ docs'[d].value = writing[w].value
      /\ docs'[d].by = w
      /\ \A e \in Documents : e # d => docs'[e] = docs[e]
      /\ docs' \in [Documents -> [version : 0..MaxVersion, value : Values,
                                   by : Writers \cup {Nobody}]]
  BY <1>1, <1>2 DEF StoreInv, StoreTyped
<1>4. /\ writing' \in [Writers -> Writing]
      /\ writing'[w].step = "done" /\ writing'[w].reply = r
      /\ writing'[w].id = d /\ writing'[w].version = writing[w].version
      /\ \A v \in Writers : v # w => writing'[v] = writing[v]
  <2>1. r \in Replies \cup {Nobody}
    BY DEF Replies
  <2> QED
    BY <1>1, <2>1 DEF StoreInv, StoreTyped, Writing, Reply, d
<1>5. StoreTyped' /\ Indexed'
  BY <1>3, <1>4 DEF StoreInv, StoreTyped, Indexed
<1>6. Unique \in indexes
  BY DEF StoreInv, UniqueFirst
<1>7. UniqueFirst'
  BY <1>6 DEF UniqueFirst
<1>8. NoDuplicates'
  <2> SUFFICES ASSUME NEW e \in Documents, NEW f \in Documents, e # f,
                      docs'[e].by # Nobody, docs'[f].by # Nobody,
                      docs'[e].value = docs'[f].value
               PROVE  FALSE
    BY DEF NoDuplicates, Duplicated, Present
  <2>1. \A g \in Documents : g # d /\ docs[g].by # Nobody => docs[g].value # writing[w].value
    BY <1>6 DEF Violates, Present, d
  <2>2. CASE e = d
    BY <1>3, <2>1, <2>2
  <2>3. CASE f = d
    BY <1>3, <2>1, <2>3
  <2>4. CASE e # d /\ f # d
    BY <1>3, <2>4 DEF StoreInv, NoDuplicates, Duplicated, Present
  <2> QED
    BY <2>2, <2>3, <2>4
<1>9. Signed'
  <2> SUFFICES ASSUME NEW e \in Documents, NEW v \in Writers, docs'[e].by = v
               PROVE  /\ writing'[v].step = "done" /\ writing'[v].id = e
                      /\ docs'[e].version = writing'[v].version
    BY DEF Signed
  <2>1. CASE e = d
    BY <1>3, <1>4, <2>1
  <2>2. CASE e # d
    <3>1. docs'[e] = docs[e] /\ v # w
      BY <1>3, <2>2 DEF StoreInv, Signed
    <3> QED
      BY <1>4, <3>1 DEF StoreInv, Signed
  <2> QED
    BY <2>1, <2>2
<1>10. Truthful'
  <2> SUFFICES ASSUME NEW v \in Writers, writing'[v].step = "done"
               PROVE  /\ writing'[v].reply = "true" =>
                            docs'[writing'[v].id].by = v
                            \/ docs'[writing'[v].id].version > writing'[v].version
                      /\ writing'[v].reply \in {"false", "duplicate"} =>
                            docs'[writing'[v].id].by # v
    BY DEF Truthful
  <2>1. CASE v = w
    BY <1>3, <1>4, <2>1
  <2>2. CASE v # w
    <3>1. writing'[v] = writing[v] /\ writing[v].id \in Documents
          /\ writing[v].version \in Nat
      BY <1>4, <2>2 DEF StoreInv, StoreTyped, Writing
    <3>2. CASE writing[v].id # d
      BY <1>3, <3>1, <3>2 DEF StoreInv, Truthful
    <3>3. CASE writing[v].id = d
      <4>1. writing[v].reply = "true" =>
               docs[d].by = v \/ docs[d].version > writing[v].version
        BY <3>1, <3>3 DEF StoreInv, Truthful
      <4>2. docs[d].by = v => docs[d].version = writing[v].version
        BY <1>1 DEF StoreInv, Signed
      <4>3. writing[v].reply = "true" => writing[w].version > writing[v].version
        BY <1>1, <3>1, <4>1, <4>2
      <4> QED
        BY <1>3, <2>2, <3>1, <3>3, <4>3
    <3> QED
      BY <3>2, <3>3
  <2> QED
    BY <2>1, <2>2
<1> QED
  BY <1>5, <1>7, <1>8, <1>9, <1>10 DEF StoreInv

\* The steps of a call of store().
LEMMA WriterInv ==
    ASSUME StoreInv, NEW w \in Writers, Call(w) \/ Serve(w) PROVE StoreInv'
<1>1. writing[w] \in Writing /\ \A r \in {"true", "false", "duplicate", "error"} :
         /\ [writing EXCEPT ![w].step = "done", ![w].reply = r] \in [Writers -> Writing]
         /\ [writing EXCEPT ![w].step = "done", ![w].reply = r][w].step = "done"
         /\ [writing EXCEPT ![w].step = "done", ![w].reply = r][w].reply = r
  BY ZenonT(60) DEF StoreInv, StoreTyped, Writing, Replies
<1>2. ASSUME writing[w].step = "trying", NEW r \in {"false", "duplicate", "error"},
             Reply(w, r), UNCHANGED <<up, outages, indexes, boot, docs>>
      PROVE  StoreInv'
  <2>1. /\ writing' \in [Writers -> Writing]
        /\ writing'[w].step = "done" /\ writing'[w].reply = r
    BY <1>1, <1>2 DEF Reply
  <2>2. \A v \in Writers : v # w => writing'[v] = writing[v]
    BY <1>2 DEF Reply, StoreInv, StoreTyped
  <2>3. up' \in BOOLEAN /\ outages' \in 0..MaxOutages
    BY <1>2 DEF StoreInv, StoreTyped
  <2>4. r # "true"
    OBVIOUS
  <2> QED
    BY <1>2, <2>1, <2>2, <2>3, <2>4, UnwrittenInv
<1>3. CASE Attempt(w)
  BY <1>2, <1>3, WrittenInv DEF Attempt
<1>4. CASE Broken(w)
  BY <1>2, <1>4, WrittenInv DEF Broken
<1>5. ASSUME NEW state \in {"trying", "waiting"}, writing[w].step \in {"trying", "waiting"},
             writing' = [writing EXCEPT ![w].step = state],
             UNCHANGED <<up, outages, indexes, boot, docs>>
      PROVE  StoreInv'
  <2>1. /\ writing' \in [Writers -> Writing] /\ writing'[w].step = state
        /\ \A v \in Writers : v # w => writing'[v] = writing[v]
    BY <1>1, <1>5 DEF StoreInv, StoreTyped, Writing
  <2>2. Unique \in indexes
    BY <1>5 DEF StoreInv, UniqueFirst
  <2> QED
    BY <1>5, <2>1, <2>2, UnwrittenInv DEF StoreInv, StoreTyped
<1>6. CASE RefusedConnection(w) \/ Again(w)
  BY <1>5, <1>6 DEF RefusedConnection, Again
<1>7. CASE Call(w)
  <2>1. PICK e \in Documents, v \in Values :
          /\ docs[e].version < MaxVersion
          /\ writing' = [writing EXCEPT ![w] =
               [step |-> "trying", id |-> e, version |-> docs[e].version + 1,
                value |-> v, reply |-> Nobody]]
    BY <1>7 DEF Call
  <2>2. docs[e].version + 1 \in 0..MaxVersion
    BY <2>1, MongoStoreAssumption DEF StoreInv, StoreTyped
  <2>3. [step |-> "trying", id |-> e, version |-> docs[e].version + 1,
         value |-> v, reply |-> Nobody] \in Writing
    BY <2>2 DEF Writing
  <2>4. /\ writing' \in [Writers -> Writing] /\ writing'[w].step = "trying"
        /\ \A x \in Writers : x # w => writing'[x] = writing[x]
    BY <2>1, <2>3 DEF StoreInv, StoreTyped
  <2>5. Unique \in indexes /\ writing[w].step = "idle"
    BY <1>7, MongoStoreAssumption DEF Call, StoreInv, Indexed
  <2>6. UNCHANGED <<up, outages, indexes, boot, docs>>
    BY <1>7 DEF Call
  <2> QED
    BY <2>4, <2>5, <2>6, UnwrittenInv DEF StoreInv, StoreTyped
<1> QED
  BY <1>3, <1>4, <1>6, <1>7 DEF Serve

\* Every step keeps the invariant.
LEMMA StoreNextInv == StoreInv /\ [StoreNext]_storeVars => StoreInv'
<1> SUFFICES ASSUME StoreInv, [StoreNext]_storeVars PROVE StoreInv'
  OBVIOUS
<1>1. CASE GoDown \/ ComeUp
  <2>1. /\ up' \in BOOLEAN /\ outages' \in 0..MaxOutages
        /\ UNCHANGED <<indexes, boot, docs, writing>>
    <3>1. outages \in 0..MaxOutages
      BY DEF StoreInv, StoreTyped
    <3>2. CASE GoDown
      <4>1. outages < MaxOutages /\ outages' = outages + 1 /\ up' = FALSE
            /\ UNCHANGED <<indexes, boot, docs, writing>>
        BY <3>2 DEF GoDown
      <4>2. outages' \in 0..MaxOutages
        BY <3>1, <4>1, MongoStoreAssumption
      <4> QED
        BY <4>1, <4>2
    <3>3. CASE ComeUp
      BY <3>1, <3>3 DEF ComeUp
    <3> QED
      BY <1>1, <3>2, <3>3
  <2> QED
    BY <2>1, UnwrittenInv DEF StoreInv, StoreTyped
<1>2. CASE UNCHANGED storeVars
  BY <1>2, UnwrittenInv DEF storeVars, StoreInv, StoreTyped
<1> QED
  BY <1>1, <1>2, OpenStoreInv, WriterInv DEF StoreNext

\* The collection and those that use it keep the invariant (storage.js).
THEOREM StoreInvariance == StoreSpec => []StoreInv
  BY StoreInitInv, StoreNextInv, PTL DEF StoreSpec

\* Whatever processes open, store and meet an outage, what store() answers is
\* true and the unique property stays unique.
THEOREM StoreKept == StoreSpec => []StoreTruthful
<1>1. StoreInv => StoreTruthful
  BY DEF StoreInv, StoreTruthful
<1> QED
  BY <1>1, StoreInvariance, PTL

\* Outages or not, a write replaces the version it was made of, and only that
\* one (NoLostVersion; storage.js, store()).
THEOREM VersionsFollow == StoreSpec => NoLostVersion
<1>1. ASSUME StoreInv, [StoreNext]_storeVars, NEW d \in Documents, docs'[d] # docs[d]
      PROVE  docs'[d].version = docs[d].version + 1
  <2>1. PICK w \in Writers : Attempt(w) \/ Broken(w)
    BY <1>1 DEF StoreNext, OpenStore, Start, CreateIndex, ListIndexes, DropIndex, DropRest, Opened,
       Call, Serve, RefusedConnection, Again, GoDown, ComeUp, storeVars
  <2>2. Written(w) /\ Fits(w)
    BY <1>1, <2>1 DEF Attempt, Broken
  <2>3. writing[w].step = "trying"
    BY <2>1 DEF Attempt, Broken
  <2>4. /\ docs \in [Documents -> [version : 0..MaxVersion, value : Values, by : Writers \cup {Nobody}]]
        /\ writing[w].version \in Nat /\ MaxVersion \in Nat
    BY <1>1, <2>3, MongoStoreAssumption DEF StoreInv, StoreTyped, Writing
  <2>5. d = writing[w].id /\ docs'[d].version = writing[w].version
    BY <1>1, <2>2, <2>4 DEF Written
  <2> QED
    BY <2>2, <2>4, <2>5 DEF Fits
<1>2. ASSUME StoreInv, [StoreNext]_storeVars
      PROVE  [\A d \in Documents : docs'[d] # docs[d] => docs'[d].version = docs[d].version + 1]_docs
  BY <1>1, <1>2
<1> QED
  BY <1>2, StoreInvariance, PTL DEF StoreSpec, NoLostVersion

\* Whichever processes open at once, and fail, none drops an index that the
\* component declares (DeclaredKept; storage.js, open()).
THEOREM IndexesStay == StoreSpec => DeclaredKept
<1>1. ASSUME StoreInv, [StoreNext]_storeVars
      PROVE  [Declared \cap indexes \subseteq indexes']_indexes
  <2>1. SUFFICES ASSUME NEW p \in Processes, CreateIndex(p) \/ DropIndex(p) \/ DropRest(p)
                 PROVE  Declared \cap indexes \subseteq indexes'
    BY <1>1 DEF StoreNext, OpenStore, Start, ListIndexes, Opened, Call, Serve, Attempt, Broken,
       RefusedConnection, Again, GoDown, ComeUp, storeVars
  <2>2. CASE CreateIndex(p)
    BY <2>2 DEF CreateIndex
  <2>3. CASE DropIndex(p) \/ DropRest(p)
    BY <1>1, <2>3 DEF DropIndex, DropRest, StoreInv, Indexed
  <2> QED
    BY <2>1, <2>2, <2>3
<1> QED
  BY <1>1, StoreInvariance, PTL DEF StoreSpec, DeclaredKept

-----------------------------------------------------------------------------
(***************************************************************************)
(* For any uploads, streams, readers and provider: what is stored is whole *)
(* and of its type, or not stored at all.                                  *)
(***************************************************************************)

Errors == {"NOT_ACCEPTABLE", "TYPE_MISMATCH", "LIMIT_EXCEEDED"}
Blobs == [by : Uploads, size : 0..MaxSize]
Entries == [by : Uploads, size : 0..MaxSize, type : Types]
Accepts == {None} \cup {r.accept : r \in Offered}
Scanners == [size : 0..MaxSize, position : 0..Header, completed : BOOLEAN,
             errors : Seq(Errors), type : Types,
             signature : Types \cup {None}, claim : Types \cup {None}, accept : Accepts]
Puts == [phase : {"none", "streaming", "committing", "done", "refused", "threw"},
         path : Paths \cup {None}, aborted : BOOLEAN, scanner : Scanners]
Gets == [phase : {"none", "NOT_FOUND", "head", "done", "broken"}, path : Paths \cup {None},
         entry : Entries \cup {None}, content : Blobs \cup {None}]

OctetsShaped ==
    /\ provider \in Providers \cup {None}
    /\ blob \in [Paths -> Blobs \cup {None}]
    /\ meta \in [Paths -> Entries \cup {None}]
    /\ put \in [Uploads -> Puts]
    /\ deleting \in [Paths -> {None, {}, {"blob"}, {"meta"}, {"blob", "meta"}}]
    /\ get \in [Readers -> Gets]

\* A stream without errors is looked at until its header is full, then its type
\* is one that it may have.
Scanned(s) ==
    /\ s.position <= s.size
    /\ s.errors = <<>> /\ ~s.completed => s.position = s.size /\ s.size < Header
    /\ s.errors = <<>> /\ s.completed =>
         /\ s.accept # None /\ (s.claim # None \/ s.signature # None) => s.type \in s.accept
         /\ s.claim \notin {None, "octet"} => s.type = s.claim

\* What is committed has been scanned to its end without errors.
Uploaded ==
    \A u \in Uploads :
        /\ Scanned(put[u].scanner)
        /\ put[u].phase = "none" <=> put[u].path = None
        /\ put[u].phase # "none" => provider # None
        /\ put[u].phase \in {"committing", "done"} =>
              put[u].scanner.errors = <<>> /\ put[u].scanner.size > 0

\* An entry is that of an upload which is done.
Done(entry, p) ==
    /\ put[entry.by].phase = "done" /\ put[entry.by].path = p
    /\ entry.size = put[entry.by].scanner.size /\ entry.type = put[entry.by].scanner.type
Committed == \A p \in Paths : meta[p] # None => Done(meta[p], p)

\* The upload is the only one of its path, and nobody deletes it.
Sole(u) == /\ put[u].path # None /\ deleting[put[u].path] = None
           /\ \A v \in Uploads : put[v].path = put[u].path => v = u

\* What such an upload has brought so far is what its path has.
Stored(u) == blob[put[u].path] # None /\ blob[put[u].path].by = u
             /\ blob[put[u].path].size = put[u].scanner.size
InStore == \A u \in Uploads :
    Sole(u) /\ (put[u].phase \in {"committing", "done"} \/ (provider = "fs" /\ Streaming(u)))
        => Stored(u)

\* A reader has an entry and, if nobody else has touched its path, what it
\* describes.
Fetched == \A r \in Readers : get[r].phase \in {"head", "done", "broken"} =>
    /\ get[r].path # None /\ get[r].entry # None /\ Done(get[r].entry, get[r].path)
    /\ Sole(get[r].entry.by) =>
          /\ get[r].phase # "broken"
          /\ get[r].phase = "done" => /\ get[r].content # None
                                      /\ get[r].content.by = get[r].entry.by
                                      /\ get[r].content.size = get[r].entry.size

OctetsInv == OctetsShaped /\ Uploaded /\ Committed /\ InStore /\ Fetched

-----------------------------------------------------------------------------
\* The header of a stream without errors is complete, or it is all there is.
LEMMA CompleteScanned ==
    ASSUME NEW s \in Scanners, s.position <= s.size
    PROVE  /\ Complete(s) \in Scanners /\ Scanned(Complete(s))
           /\ Complete(s).size = s.size
<1> DEFINE type == IF s.signature # None THEN s.signature ELSE s.claim
           unacceptable == type # None /\ s.accept # None /\ type \notin s.accept
           mismatch == /\ s.claim \notin {None, "octet"}
                       /\ IF s.signature = None THEN s.claim \in Known ELSE s.claim # s.signature
           first == IF unacceptable THEN <<"NOT_ACCEPTABLE">> ELSE <<>>
           second == IF mismatch THEN <<"TYPE_MISMATCH">> ELSE <<>>
           errors == s.errors \o first \o second
           typed == IF type = None THEN s.type ELSE type
<1>1. Complete(s) = [s EXCEPT !.completed = TRUE, !.type = typed, !.errors = errors]
  BY DEF Complete
<1>2. first \in Seq(Errors) /\ second \in Seq(Errors) /\ s.errors \in Seq(Errors)
  <2>1. <<"NOT_ACCEPTABLE">> \in Seq(Errors) /\ <<"TYPE_MISMATCH">> \in Seq(Errors)
        /\ <<>> \in Seq(Errors)
    BY DEF Errors
  <2>2. first \in Seq(Errors)
    BY <2>1
  <2>3. second \in Seq(Errors)
    BY <2>1
  <2> QED
    BY <2>2, <2>3 DEF Scanners
<1>3. unacceptable => Len(first) = 1
  OBVIOUS
<1>4. mismatch => Len(second) = 1
  OBVIOUS
<1>5. typed \in Types
  BY DEF Scanners
<1>6. errors = <<>> => ~unacceptable /\ ~mismatch
  <2> HIDE DEF first, second
  <2>1. Len(errors) = Len(s.errors) + Len(first) + Len(second)
    BY <1>2
  <2>2. Len(s.errors) \in Nat /\ Len(first) \in Nat /\ Len(second) \in Nat
    BY <1>2
  <2>3. errors = <<>> => Len(errors) = 0
    OBVIOUS
  <2> QED
    BY <1>3, <1>4, <2>1, <2>2, <2>3
<1>7. errors \in Seq(Errors)
  <2> HIDE DEF first, second
  <2> QED
    BY <1>2
<1> HIDE DEF errors, typed
<1>8. /\ Complete(s) \in Scanners
      /\ Complete(s).size = s.size /\ Complete(s).position = s.position
      /\ Complete(s).completed = TRUE /\ Complete(s).errors = errors
      /\ Complete(s).type = typed
      /\ Complete(s).claim = s.claim /\ Complete(s).accept = s.accept
      /\ Complete(s).signature = s.signature
  BY <1>1, <1>5, <1>7 DEF Scanners
<1>9. errors = <<>> =>
         /\ s.accept # None /\ (s.claim # None \/ s.signature # None) => typed \in s.accept
         /\ s.claim \notin {None, "octet"} => typed = s.claim
  BY <1>6 DEF typed
<1> QED
  BY <1>8, <1>9 DEF Scanned

\* What has an element appended is not empty.
LEMMA Appended ==
    ASSUME NEW S, NEW e \in Seq(S), NEW x \in S
    PROVE  Append(e, x) \in Seq(S) /\ Append(e, x) # <<>>
<1>1. Append(e, x) \in Seq(S) /\ Len(Append(e, x)) = Len(e) + 1
  OBVIOUS
<1>2. Len(e) \in Nat /\ Len(<<>>) = 0
  OBVIOUS
<1> QED
  BY <1>1, <1>2

\* A chunk is counted; it is looked at until the header is complete.
LEMMA Processed ==
    ASSUME NEW s \in Scanners, Scanned(s), s.errors = <<>>,
           NEW length \in 1..(MaxSize - s.size)
    PROVE  /\ Process(s, length) \in Scanners /\ Scanned(Process(s, length))
           /\ Process(s, length).size = s.size + length
<1> DEFINE counted == [s EXCEPT !.size = @ + length]
           position == IF s.position + length > Header THEN Header ELSE s.position + length
           headed == [counted EXCEPT !.position = position]
           checked == IF position = Header THEN Complete(headed) ELSE headed
<1>1. /\ s.size \in 0..MaxSize /\ s.position \in 0..Header /\ s.position <= s.size
      /\ s.size + length \in 0..MaxSize /\ length \in Nat
  BY OctetsAssumption DEF Scanners, Scanned
<1>2. /\ counted \in Scanners /\ counted.size = s.size + length
      /\ counted.position = s.position /\ counted.completed = s.completed
      /\ counted.errors = s.errors /\ counted.type = s.type
      /\ counted.claim = s.claim /\ counted.accept = s.accept /\ counted.signature = s.signature
  BY <1>1 DEF Scanners
<1>3. /\ position \in 0..Header /\ position <= s.size + length
      /\ ~s.completed /\ position # Header => position = s.size + length /\ position < Header
  BY <1>1, OctetsAssumption DEF Scanned
<1> HIDE DEF counted, position
<1>4. CASE s.completed
  <2>1. Process(s, length) = counted
    BY <1>4 DEF Process, counted
  <2>2. Scanned(counted)
    BY <1>1, <1>2, <1>4 DEF Scanned
  <2> QED
    BY <1>2, <2>1, <2>2
<1>5. CASE ~s.completed
  <2>1. /\ headed \in Scanners /\ headed.size = s.size + length
        /\ headed.position = position /\ headed.completed = s.completed
        /\ headed.errors = s.errors
    BY <1>2, <1>3 DEF Scanners
  <2> HIDE DEF headed
  <2>2. checked \in Scanners /\ Scanned(checked) /\ checked.size = s.size + length
    <3>1. CASE position = Header
      BY <1>3, <2>1, <3>1, CompleteScanned
    <3>2. CASE position # Header
      <4>1. checked = headed
        BY <3>2
      <4>2. ~headed.completed /\ headed.position = headed.size /\ headed.size < Header
        BY <1>3, <1>5, <2>1, <3>2
      <4>3. Scanned(headed)
        BY <1>1, <2>1, <4>2 DEF Scanned
      <4> QED
        BY <2>1, <4>1, <4>3
    <3> QED
      BY <3>1, <3>2
  <2>3. Process(s, length) = IF checked.size > Limit
            THEN [checked EXCEPT !.completed = TRUE, !.errors = Append(@, "LIMIT_EXCEEDED")]
            ELSE checked
    BY <1>5 DEF Process, checked, headed, position, counted
  <2> HIDE DEF checked
  <2>4. CASE checked.size > Limit
    <3> DEFINE errors == Append(checked.errors, "LIMIT_EXCEEDED")
    <3>1. errors \in Seq(Errors) /\ errors # <<>>
      <4>1. checked.errors \in Seq(Errors)
        BY <2>2 DEF Scanners
      <4>2. PICK e \in Seq(Errors), x \in Errors : e = checked.errors /\ x = "LIMIT_EXCEEDED"
        BY <4>1 DEF Errors
      <4>3. Append(e, x) \in Seq(Errors) /\ Append(e, x) # <<>>
        BY Appended
      <4> QED
        BY <4>2, <4>3
    <3>2. Process(s, length) = [checked EXCEPT !.completed = TRUE, !.errors = errors]
      BY <2>3, <2>4
    <3> HIDE DEF errors
    <3>3. /\ Process(s, length) \in Scanners /\ Process(s, length).errors = errors
          /\ Process(s, length).size = checked.size
          /\ Process(s, length).position = checked.position
      BY <2>2, <3>1, <3>2 DEF Scanners
    <3> QED
      BY <2>2, <3>1, <3>3 DEF Scanned
  <2>5. CASE ~(checked.size > Limit)
    BY <2>2, <2>3, <2>5
  <2> QED
    BY <2>4, <2>5
<1> QED
  BY <1>4, <1>5

-----------------------------------------------------------------------------
\* A request's stream before its first chunk.
LEMMA Fresh ==
    ASSUME NEW u \in Uploads, NEW path \in Paths, NEW request \in Requests[u]
    PROVE  /\ [phase |-> "streaming", path |-> path, aborted |-> FALSE,
               scanner |-> Incoming(request)] \in Puts
           /\ Scanned(Incoming(request))
           /\ Incoming(request).size = 0 /\ Incoming(request).errors = <<>>
<1>1. request \in Offered
  BY DEF Offered
<1>2. request.claim \in Types /\ request.signature \in Types /\ request.accept \in Accepts
  BY <1>1 DEF Types, Accepts
<1>3. <<>> \in Seq(Errors) /\ "octet" \in Types /\ 0 \in 0..MaxSize /\ 0 \in 0..Header
  BY OctetsAssumption DEF Types
<1> DEFINE s == Incoming(request)
<1>4. /\ s \in Scanners /\ s.size = 0 /\ s.position = 0 /\ s.completed = FALSE /\ s.errors = <<>>
  BY <1>2, <1>3 DEF Incoming, Scanner, Scanners
<1>5. Scanned(s)
  BY <1>4, OctetsAssumption DEF Scanned
<1> HIDE DEF s
<1>6. [phase |-> "streaming", path |-> path, aborted |-> FALSE, scanner |-> s] \in Puts
  BY <1>4 DEF Puts
<1> QED
  BY <1>4, <1>5, <1>6 DEF s

\* The initial state satisfies the invariant.
LEMMA OctetsInitInv == OctetsInit => OctetsInv
<1> SUFFICES ASSUME OctetsInit PROVE OctetsInv
  OBVIOUS
<1>1. <<>> \in Seq(Errors) /\ "octet" \in Types /\ 0 \in 0..MaxSize /\ 0 \in 0..Header
  BY OctetsAssumption DEF Types
<1>2. Scanner \in Scanners /\ Scanned(Scanner)
  BY <1>1, OctetsAssumption DEF Scanner, Scanners, Accepts, Scanned
<1>3. NoPut \in Puts /\ NoPut.phase = "none" /\ NoPut.path = None /\ NoPut.scanner = Scanner
  BY <1>2 DEF NoPut, Puts
<1>4. NoGet \in Gets /\ NoGet.phase = "none"
  BY DEF NoGet, Gets
<1>5. /\ provider = None
      /\ blob = [p \in Paths |-> None] /\ meta = [p \in Paths |-> None]
      /\ put = [u \in Uploads |-> NoPut] /\ deleting = [p \in Paths |-> None]
      /\ get = [r \in Readers |-> NoGet]
  BY DEF OctetsInit
<1>6. OctetsShaped
  <2>1. put \in [Uploads -> Puts] /\ get \in [Readers -> Gets]
    BY <1>3, <1>4, <1>5
  <2>2. blob \in [Paths -> Blobs \cup {None}] /\ meta \in [Paths -> Entries \cup {None}]
    BY <1>5
  <2>3. deleting \in [Paths -> {None, {}, {"blob"}, {"meta"}, {"blob", "meta"}}]
    BY <1>5
  <2> QED
    BY <1>5, <2>1, <2>2, <2>3 DEF OctetsShaped
<1>7. Uploaded
  BY <1>2, <1>3, <1>5 DEF Uploaded
<1>8. Committed /\ Fetched
  BY <1>4, <1>5 DEF Committed, Fetched
<1>9. InStore
  BY <1>3, <1>5 DEF InStore, Sole
<1> QED
  BY <1>6, <1>7, <1>8, <1>9 DEF OctetsInv

\* Who is alone on its path was so before: paths are not left, and what is
\* being deleted goes on being so.
LEMMA SoleBefore ==
    ASSUME \A v \in Uploads : put[v].path # None => put'[v].path = put[v].path,
           \A p \in Paths : deleting'[p] = None => deleting[p] = None,
           NEW u \in Uploads, put[u].path # None, put[u].path \in Paths, Sole(u)'
    PROVE  Sole(u)
  BY DEF Sole

\* The state of an upload.
LEMMA PutShape ==
    ASSUME OctetsInv, NEW u \in Uploads
    PROVE  /\ put[u] \in Puts /\ put[u].scanner \in Scanners /\ Scanned(put[u].scanner)
           /\ put[u].path \in Paths \cup {None}
           /\ put[u].phase = "none" <=> put[u].path = None
           /\ put[u].scanner.size \in 0..MaxSize
<1>1. put[u] \in Puts
  BY DEF OctetsInv, OctetsShaped
<1>2. put[u].scanner \in Scanners /\ put[u].path \in Paths \cup {None}
  BY <1>1 DEF Puts
<1>3. put[u].scanner.size \in 0..MaxSize
  BY <1>2 DEF Scanners
<1> QED
  BY <1>1, <1>2, <1>3 DEF OctetsInv, Uploaded

\* A step of an upload under way, which touches only what is under its path.
LEMMA UploadInv ==
    ASSUME OctetsInv, NEW u \in Uploads, NEW x \in Puts,
           put' = [put EXCEPT ![u] = x],
           put[u].phase \in {"streaming", "committing"}, x.phase # "none",
           x.path = put[u].path, Scanned(x.scanner),
           x.phase \in {"committing", "done"} => x.scanner.errors = <<>> /\ x.scanner.size > 0,
           blob' \in [Paths -> Blobs \cup {None}], meta' \in [Paths -> Entries \cup {None}],
           \A p \in Paths : p # x.path => blob'[p] = blob[p] /\ meta'[p] = meta[p],
           \/ meta'[x.path] = meta[x.path] \/ meta'[x.path] = None
           \/ /\ x.phase = "done" /\ meta'[x.path].by = u
              /\ meta'[x.path].size = x.scanner.size /\ meta'[x.path].type = x.scanner.type,
           Sole(u) /\ (\/ x.phase \in {"committing", "done"}
                       \/ provider = "fs" /\ x.phase = "streaming" /\ x.scanner.errors = <<>>)
              => /\ blob'[x.path] # None /\ blob'[x.path].by = u
                 /\ blob'[x.path].size = x.scanner.size,
           UNCHANGED <<provider, deleting, get>>
    PROVE  OctetsInv'
<1>1. /\ put' \in [Uploads -> Puts] /\ put'[u] = x
      /\ \A v \in Uploads : v # u => put'[v] = put[v]
      /\ x.path \in Paths /\ x.path # None
  <2>1. x.path # None
    BY PutShape
  <2>2. x.path \in Paths
    BY <2>1 DEF Puts
  <2> QED
    BY <2>1, <2>2 DEF OctetsInv, OctetsShaped
<1>2. OctetsShaped'
  BY <1>1 DEF OctetsInv, OctetsShaped
<1>3. Uploaded'
  <2> SUFFICES ASSUME NEW v \in Uploads
               PROVE  /\ Scanned(put'[v].scanner)
                      /\ put'[v].phase = "none" <=> put'[v].path = None
                      /\ put'[v].phase # "none" => provider # None
                      /\ put'[v].phase \in {"committing", "done"} =>
                            put'[v].scanner.errors = <<>> /\ put'[v].scanner.size > 0
    BY DEF Uploaded, Scanned
  <2>1. CASE v = u
    BY <1>1, <2>1 DEF OctetsInv, Uploaded
  <2>2. CASE v # u
    BY <1>1, <2>2 DEF OctetsInv, Uploaded
  <2> QED
    BY <2>1, <2>2
<1>4. \A v \in Uploads : put'[v].path = put[v].path
  BY <1>1
<1>5. \A v \in Uploads : Sole(v)' <=> Sole(v)
  BY <1>4 DEF Sole
<1>6. \A entry \in Entries, p \in Paths : Done(entry, p) => Done(entry, p)' /\ entry.by # u
  BY <1>1 DEF Done, Entries
<1>7. Committed'
  <2> SUFFICES ASSUME NEW p \in Paths, meta'[p] # None PROVE Done(meta[p], p)'
    BY DEF Committed
  <2>1. CASE meta'[p] = meta[p]
    BY <1>6, <2>1 DEF OctetsInv, Committed, OctetsShaped, Done
  <2>2. CASE meta'[p] # meta[p]
    <3>1. /\ p = x.path /\ x.phase = "done" /\ meta'[p].by = u
          /\ meta'[p].size = x.scanner.size /\ meta'[p].type = x.scanner.type
      BY <2>2
    <3> QED
      BY <1>1, <3>1 DEF Done
  <2> QED
    BY <2>1, <2>2
<1>8. InStore'
  <2> SUFFICES ASSUME NEW v \in Uploads, Sole(v),
                      \/ put'[v].phase \in {"committing", "done"}
                      \/ provider = "fs" /\ put'[v].phase = "streaming"
                           /\ put'[v].scanner.errors = <<>>
               PROVE  /\ blob'[put'[v].path] # None /\ blob'[put'[v].path].by = v
                      /\ blob'[put'[v].path].size = put'[v].scanner.size
    BY <1>5 DEF InStore, Stored, Streaming
  <2>1. CASE v = u
    BY <1>1, <2>1
  <2>2. CASE v # u
    <3>1. put'[v] = put[v] /\ put[v].path # x.path /\ put[v].path \in Paths
      BY <1>1, <2>2, PutShape DEF Sole
    <3>2. Stored(v)
      BY <3>1 DEF OctetsInv, InStore, Streaming
    <3> QED
      BY <3>1, <3>2 DEF Stored
  <2> QED
    BY <2>1, <2>2
<1>9. Fetched'
  <2> SUFFICES ASSUME NEW r \in Readers, get[r].phase \in {"head", "done", "broken"}
               PROVE
        /\ get[r].path # None /\ get[r].entry # None /\ Done(get[r].entry, get[r].path)'
        /\ Sole(get[r].entry.by)' =>
              /\ get[r].phase # "broken"
              /\ get[r].phase = "done" => /\ get[r].content # None
                                          /\ get[r].content.by = get[r].entry.by
                                          /\ get[r].content.size = get[r].entry.size
    BY DEF Fetched, Done, Sole
  <2>1. get[r].entry \in Entries /\ get[r].path \in Paths /\ get[r].entry.by \in Uploads
    BY DEF OctetsInv, OctetsShaped, Gets, Entries, Fetched
  <2> QED
    BY <1>5, <1>6, <2>1 DEF OctetsInv, Fetched
<1> QED
  BY <1>2, <1>3, <1>7, <1>8, <1>9 DEF OctetsInv

\* An upload begins: nobody else is alone on its path any more.
LEMMA PutInv == ASSUME OctetsInv, NEW u \in Uploads, Put(u) PROVE OctetsInv'
<1>1. PICK path \in Paths, request \in Requests[u] :
         /\ put' = [put EXCEPT ![u] =
              [phase |-> "streaming", path |-> path, aborted |-> FALSE,
               scanner |-> Incoming(request)]]
         /\ blob' = IF provider = "fs" THEN [blob EXCEPT ![path] = [by |-> u, size |-> 0]]
                    ELSE blob
  BY DEF Put
<1>2. /\ provider # None /\ put[u].phase = "none"
      /\ UNCHANGED <<provider, meta, deleting, get>>
  BY DEF Put
<1>3. put[u].path = None /\ path # None
  BY <1>2, PutShape, OctetsAssumption
<1>4. PICK x \in Puts : /\ put' = [put EXCEPT ![u] = x]
                        /\ x.phase = "streaming" /\ x.path = path /\ Scanned(x.scanner)
                        /\ x.scanner.size = 0 /\ x.scanner.errors = <<>>
  <2> DEFINE x == [phase |-> "streaming", path |-> path, aborted |-> FALSE,
                   scanner |-> Incoming(request)]
  <2>1. x.phase = "streaming" /\ x.path = path /\ x.scanner = Incoming(request)
    OBVIOUS
  <2>2. x \in Puts /\ put' = [put EXCEPT ![u] = x]
    BY <1>1, Fresh
  <2> HIDE DEF x
  <2> QED
    BY <2>1, <2>2, Fresh
<1>5. /\ put' \in [Uploads -> Puts] /\ put'[u] = x
      /\ \A v \in Uploads : v # u => put'[v] = put[v]
  BY <1>4 DEF OctetsInv, OctetsShaped
<1>6. /\ blob' \in [Paths -> Blobs \cup {None}]
      /\ \A p \in Paths : p # path => blob'[p] = blob[p]
      /\ provider = "fs" => blob'[path].by = u /\ blob'[path].size = 0 /\ blob'[path] \in Blobs
  <2>1. [by |-> u, size |-> 0] \in Blobs
    BY OctetsAssumption DEF Blobs
  <2> QED
    BY <1>1, <2>1 DEF OctetsInv, OctetsShaped
<1>7. OctetsShaped'
  BY <1>2, <1>5, <1>6 DEF OctetsInv, OctetsShaped
<1>8. Uploaded'
  <2> SUFFICES ASSUME NEW v \in Uploads
               PROVE  /\ Scanned(put'[v].scanner)
                      /\ put'[v].phase = "none" <=> put'[v].path = None
                      /\ put'[v].phase # "none" => provider # None
                      /\ put'[v].phase \in {"committing", "done"} =>
                            put'[v].scanner.errors = <<>> /\ put'[v].scanner.size > 0
    BY <1>2 DEF Uploaded, Scanned
  <2>1. CASE v = u
    BY <1>2, <1>3, <1>4, <1>5, <2>1
  <2>2. CASE v # u
    BY <1>5, <2>2 DEF OctetsInv, Uploaded
  <2> QED
    BY <2>1, <2>2
<1>9. \A v \in Uploads : v # u /\ put[v].path # None /\ Sole(v)' =>
         Sole(v) /\ put[v].path # path /\ put[v].path \in Paths
  <2> SUFFICES ASSUME NEW v \in Uploads, v # u, put[v].path # None, Sole(v)'
               PROVE  Sole(v) /\ put[v].path # path /\ put[v].path \in Paths
    OBVIOUS
  <2>1. put[v].path \in Paths
    BY PutShape
  <2>2. put[v].path # path
    BY <1>4, <1>5 DEF Sole
  <2>3. Sole(v)
    BY <1>2, <1>3, <1>5 DEF Sole
  <2> QED
    BY <2>1, <2>2, <2>3
<1>10. \A entry \in Entries, p \in Paths : Done(entry, p) =>
          Done(entry, p)' /\ entry.by # u /\ put[entry.by].path # None
  BY <1>2, <1>5, OctetsAssumption DEF Done, Entries
<1>11. Committed'
  BY <1>2, <1>10 DEF OctetsInv, OctetsShaped, Committed, Done
<1>12. InStore'
  <2> SUFFICES ASSUME NEW v \in Uploads, Sole(v)',
                      \/ put'[v].phase \in {"committing", "done"}
                      \/ provider = "fs" /\ put'[v].phase = "streaming"
                           /\ put'[v].scanner.errors = <<>>
               PROVE  /\ blob'[put'[v].path] # None /\ blob'[put'[v].path].by = v
                      /\ blob'[put'[v].path].size = put'[v].scanner.size
    BY <1>2 DEF InStore, Stored, Streaming
  <2>1. CASE v = u
    BY <1>4, <1>5, <1>6, <2>1, OctetsAssumption DEF Blobs
  <2>2. CASE v # u
    <3>1. put'[v] = put[v] /\ put[v].path # None
      BY <1>5, <2>2, PutShape
    <3>2. Sole(v) /\ put[v].path # path /\ put[v].path \in Paths
      BY <1>9, <2>2, <3>1
    <3>3. Stored(v)
      BY <3>1, <3>2 DEF OctetsInv, InStore, Streaming
    <3> QED
      BY <1>6, <3>1, <3>2, <3>3 DEF Stored
  <2> QED
    BY <2>1, <2>2
<1>13. Fetched'
  <2> SUFFICES ASSUME NEW r \in Readers, get[r].phase \in {"head", "done", "broken"}
               PROVE
        /\ get[r].path # None /\ get[r].entry # None /\ Done(get[r].entry, get[r].path)'
        /\ Sole(get[r].entry.by)' =>
              /\ get[r].phase # "broken"
              /\ get[r].phase = "done" => /\ get[r].content # None
                                          /\ get[r].content.by = get[r].entry.by
                                          /\ get[r].content.size = get[r].entry.size
    BY <1>2 DEF Fetched, Done, Sole
  <2>1. get[r].entry \in Entries /\ get[r].path \in Paths /\ get[r].entry.by \in Uploads
    BY DEF OctetsInv, OctetsShaped, Gets, Entries, Fetched
  <2> QED
    <3>1. Done(get[r].entry, get[r].path)
      BY DEF OctetsInv, Fetched
    <3>2. /\ Done(get[r].entry, get[r].path)'
          /\ get[r].entry.by # u /\ put[get[r].entry.by].path # None
      <4>1. PICK e \in Entries, p \in Paths : e = get[r].entry /\ p = get[r].path
        BY <2>1
      <4>2. Done(e, p)' /\ e.by # u /\ put[e.by].path # None
        BY <1>10, <3>1, <4>1
      <4> QED
        BY <1>2, <4>1, <4>2 DEF Done
    <3>3. ASSUME Sole(get[r].entry.by)' PROVE Sole(get[r].entry.by)
      <4>1. PICK v \in Uploads : v = get[r].entry.by
        BY <2>1
      <4> QED
        BY <1>2, <1>9, <3>2, <3>3, <4>1 DEF Sole
    <3> QED
      BY <3>2, <3>3 DEF OctetsInv, Fetched
<1> QED
  BY <1>7, <1>8, <1>11, <1>12, <1>13 DEF OctetsInv

\* A chunk is scanned, and written by the file system if it passes.
LEMMA ChunkInv == ASSUME OctetsInv, NEW u \in Uploads, Chunk(u) PROVE OctetsInv'
<1>1. /\ put[u].phase = "streaming" /\ put[u].scanner.errors = <<>>
      /\ UNCHANGED <<provider, meta, deleting, get>>
  BY DEF Chunk, Streaming
<1>2. PICK length \in 1..(MaxSize - put[u].scanner.size) :
         /\ put' = [put EXCEPT ![u].scanner = Process(put[u].scanner, length)]
         /\ blob' = IF /\ provider = "fs" /\ Process(put[u].scanner, length).errors = <<>>
                       /\ blob[put[u].path] # None
                    THEN [blob EXCEPT ![put[u].path] =
                            [by |-> u, size |-> Process(put[u].scanner, length).size]]
                    ELSE blob
  BY DEF Chunk
<1>3. PICK s \in Scanners : s = Process(put[u].scanner, length) /\ Scanned(s)
  BY <1>1, PutShape, Processed
<1>4. PICK x \in Puts : /\ put' = [put EXCEPT ![u] = x]
                        /\ x.phase = "streaming" /\ x.path = put[u].path /\ x.scanner = s
  <2> DEFINE x == [put[u] EXCEPT !.scanner = s]
  <2>1. x \in Puts /\ x.phase = "streaming" /\ x.path = put[u].path /\ x.scanner = s
    BY <1>1, PutShape DEF Puts
  <2>2. put' = [put EXCEPT ![u] = x]
    BY <1>2, <1>3
  <2> QED
    BY <2>1, <2>2
<1>5. x.path \in Paths /\ s.size \in 0..MaxSize
  BY <1>1, <1>4, PutShape DEF Scanners
<1>6. [by |-> u, size |-> s.size] \in Blobs
  BY <1>5 DEF Blobs
<1>7. /\ blob' \in [Paths -> Blobs \cup {None}]
      /\ \A p \in Paths : p # x.path => blob'[p] = blob[p]
      /\ provider = "fs" /\ s.errors = <<>> /\ blob[x.path] # None =>
            blob'[x.path] = [by |-> u, size |-> s.size]
  BY <1>2, <1>3, <1>4, <1>5, <1>6 DEF OctetsInv, OctetsShaped
<1>8. Sole(u) /\ provider = "fs" /\ s.errors = <<>> =>
         /\ blob'[x.path] # None /\ blob'[x.path].by = u /\ blob'[x.path].size = s.size
  <2> SUFFICES ASSUME Sole(u), provider = "fs", s.errors = <<>>
               PROVE  /\ blob'[x.path] # None /\ blob'[x.path].by = u
                      /\ blob'[x.path].size = s.size
    OBVIOUS
  <2>1. blob[x.path] # None
    BY <1>1, <1>4 DEF OctetsInv, InStore, Streaming, Stored
  <2>2. blob'[x.path] = [by |-> u, size |-> s.size]
    BY <1>7, <2>1
  <2> QED
    BY <1>6, <2>2, OctetsAssumption DEF Blobs
<1>9. meta' \in [Paths -> Entries \cup {None}] /\ meta' = meta
  BY <1>1 DEF OctetsInv, OctetsShaped
<1> QED
  BY <1>1, <1>3, <1>4, <1>7, <1>8, <1>9, UploadInv

\* The client breaks off, or what has been put is refused.
LEMMA BrokenOffInv ==
    ASSUME OctetsInv, NEW u \in Uploads, Abort(u) \/ Interrupted(u) \/ Fail(u)
    PROVE  OctetsInv'
<1>1. /\ put[u].phase \in {"streaming", "committing"}
      /\ UNCHANGED <<provider, blob, meta, deleting, get>>
  BY DEF Abort, Interrupted, Fail, Streaming
<1>2. PICK x \in Puts :
         /\ put' = [put EXCEPT ![u] = x] /\ x.path = put[u].path /\ x.scanner = put[u].scanner
         /\ x.phase \in {"refused", "threw"} \/ (x.phase = "streaming" /\ put[u].phase = "streaming")
  <2>1. CASE Abort(u)
    <3> DEFINE x == [put[u] EXCEPT !.aborted = TRUE]
    <3>1. put' = [put EXCEPT ![u] = x]
      BY <2>1 DEF Abort
    <3>2. x \in Puts /\ x.path = put[u].path /\ x.scanner = put[u].scanner
          /\ x.phase = put[u].phase /\ put[u].phase = "streaming"
      BY <2>1, PutShape DEF Puts, Abort, Streaming
    <3> QED
      BY <3>1, <3>2
  <2>2. CASE Interrupted(u) \/ Fail(u)
    <3>1. PICK end \in {"refused", "threw"} : put' = [put EXCEPT ![u].phase = end]
      BY <2>2 DEF Interrupted, Fail
    <3> DEFINE x == [put[u] EXCEPT !.phase = end]
    <3>2. put' = [put EXCEPT ![u] = x]
      BY <3>1
    <3>3. x \in Puts /\ x.path = put[u].path /\ x.scanner = put[u].scanner /\ x.phase = end
      BY PutShape DEF Puts
    <3> QED
      BY <3>2, <3>3
  <2> QED
    BY <2>1, <2>2
<1>3. x.phase # "none" /\ x.phase \notin {"committing", "done"} /\ Scanned(x.scanner)
  BY <1>2, PutShape
<1>4. /\ blob' \in [Paths -> Blobs \cup {None}] /\ meta' \in [Paths -> Entries \cup {None}]
  BY <1>1 DEF OctetsInv, OctetsShaped
<1>5. Sole(u) /\ provider = "fs" /\ x.phase = "streaming" /\ x.scanner.errors = <<>> =>
         /\ blob'[x.path] # None /\ blob'[x.path].by = u /\ blob'[x.path].size = x.scanner.size
  BY <1>1, <1>2 DEF OctetsInv, InStore, Streaming, Stored
<1> QED
  BY <1>1, <1>2, <1>3, <1>4, <1>5, UploadInv

\* The provider has stored the stream.
LEMMA EndInv == ASSUME OctetsInv, NEW u \in Uploads, End(u) PROVE OctetsInv'
<1>1. /\ put[u].phase = "streaming" /\ put[u].scanner.errors = <<>>
      /\ put[u].scanner.size > 0
      /\ put' = [put EXCEPT ![u].phase = "committing"]
      /\ UNCHANGED <<provider, deleting, get>>
  BY DEF End, Streaming
<1>2. PICK x \in Puts : /\ put' = [put EXCEPT ![u] = x] /\ x.path = put[u].path
                        /\ x.scanner = put[u].scanner /\ x.phase = "committing"
  <2> DEFINE x == [put[u] EXCEPT !.phase = "committing"]
  <2>1. put' = [put EXCEPT ![u] = x]
    BY <1>1
  <2>2. x \in Puts /\ x.path = put[u].path /\ x.scanner = put[u].scanner /\ x.phase = "committing"
    BY PutShape DEF Puts
  <2> QED
    BY <2>1, <2>2
<1>3. x.path \in Paths /\ x.scanner.size \in 0..MaxSize /\ Scanned(x.scanner)
  BY <1>1, <1>2, PutShape
<1>4. CASE provider = "s3"
  <2>1. /\ blob' = [blob EXCEPT ![x.path] = [by |-> u, size |-> x.scanner.size]]
        /\ meta' = [meta EXCEPT ![x.path] = None]
    BY <1>2, <1>4 DEF End
  <2>2. [by |-> u, size |-> x.scanner.size] \in Blobs
    BY <1>3 DEF Blobs
  <2>3. /\ blob' \in [Paths -> Blobs \cup {None}] /\ meta' \in [Paths -> Entries \cup {None}]
        /\ \A p \in Paths : p # x.path => blob'[p] = blob[p] /\ meta'[p] = meta[p]
        /\ meta'[x.path] = None /\ blob'[x.path] = [by |-> u, size |-> x.scanner.size]
    BY <1>3, <2>1, <2>2 DEF OctetsInv, OctetsShaped
  <2>4. blob'[x.path] # None /\ blob'[x.path].by = u /\ blob'[x.path].size = x.scanner.size
    BY <2>2, <2>3, OctetsAssumption DEF Blobs
  <2>5. /\ blob' \in [Paths -> Blobs \cup {None}] /\ meta' \in [Paths -> Entries \cup {None}]
        /\ \A p \in Paths : p # x.path => blob'[p] = blob[p] /\ meta'[p] = meta[p]
        /\ meta'[x.path] = None
    BY <2>3
  <2>6. x.scanner.errors = <<>> /\ x.scanner.size > 0
    BY <1>1, <1>2
  <2>7. meta'[x.path] = meta[x.path] \/ meta'[x.path] = None
        \/ (/\ x.phase = "done" /\ meta'[x.path].by = u
            /\ meta'[x.path].size = x.scanner.size /\ meta'[x.path].type = x.scanner.type)
    BY <2>5
  <2>8. x.phase # "none" /\ put[u].phase \in {"streaming", "committing"}
    BY <1>1, <1>2
  <2>9. put' = [put EXCEPT ![u] = x] /\ x.path = put[u].path /\ Scanned(x.scanner)
        /\ UNCHANGED <<provider, deleting, get>>
    BY <1>1, <1>2, <1>3
  <2> QED
    BY <2>4, <2>5, <2>6, <2>7, <2>8, <2>9, UploadInv
<1>5. CASE provider # "s3"
  <2>1. blob' = blob /\ meta' = meta
    BY <1>5 DEF End
  <2>2. provider = "fs"
    BY <1>1, <1>5, OctetsAssumption DEF OctetsInv, OctetsShaped, Uploaded
  <2>3. blob' \in [Paths -> Blobs \cup {None}] /\ meta' \in [Paths -> Entries \cup {None}]
    BY <2>1 DEF OctetsInv, OctetsShaped
  <2>4. Sole(u) => /\ blob'[x.path] # None /\ blob'[x.path].by = u
                   /\ blob'[x.path].size = x.scanner.size
    BY <1>1, <1>2, <2>1, <2>2 DEF OctetsInv, InStore, Streaming, Stored
  <2> QED
    BY <1>1, <1>2, <1>3, <2>1, <2>3, <2>4, UploadInv
<1> QED
  BY <1>4, <1>5

\* The entry is of what was stored, unless that has been deleted meanwhile.
LEMMA CommitInv == ASSUME OctetsInv, NEW u \in Uploads, Commit(u) PROVE OctetsInv'
<1>1. put[u].phase = "committing" /\ UNCHANGED <<provider, blob, deleting, get>>
  BY DEF Commit
<1>2. /\ put[u].path \in Paths /\ put[u].scanner.size \in 0..MaxSize
      /\ put[u].scanner.type \in Types
      /\ Scanned(put[u].scanner) /\ put[u].scanner.errors = <<>> /\ put[u].scanner.size > 0
  BY <1>1, PutShape DEF OctetsInv, Uploaded, Scanners
<1>3. Sole(u) => Stored(u)
  BY <1>1 DEF OctetsInv, InStore
<1>4. PICK end \in {"threw", "done"} :
         /\ put' = [put EXCEPT ![u].phase = end]
         /\ end = "threw" => meta' = meta
         /\ end = "done" => meta' = [meta EXCEPT ![put[u].path] =
               [by |-> u, size |-> put[u].scanner.size, type |-> put[u].scanner.type]]
  BY DEF Commit
<1>5. PICK x \in Puts : /\ put' = [put EXCEPT ![u] = x] /\ x.path = put[u].path
                        /\ x.scanner = put[u].scanner /\ x.phase = end
  <2> DEFINE x == [put[u] EXCEPT !.phase = end]
  <2>1. put' = [put EXCEPT ![u] = x]
    BY <1>4
  <2>2. x \in Puts /\ x.path = put[u].path /\ x.scanner = put[u].scanner /\ x.phase = end
    BY PutShape DEF Puts
  <2> QED
    BY <2>1, <2>2
<1>6. [by |-> u, size |-> put[u].scanner.size, type |-> put[u].scanner.type] \in Entries
  BY <1>2 DEF Entries
<1>7. /\ meta' \in [Paths -> Entries \cup {None}]
      /\ \A p \in Paths : p # x.path => meta'[p] = meta[p]
      /\ \/ meta'[x.path] = meta[x.path]
         \/ /\ x.phase = "done" /\ meta'[x.path].by = u
            /\ meta'[x.path].size = x.scanner.size /\ meta'[x.path].type = x.scanner.type
  <2>1. CASE end = "threw"
    BY <1>4, <2>1 DEF OctetsInv, OctetsShaped
  <2>2. CASE end = "done"
    BY <1>2, <1>4, <1>5, <1>6, <2>2 DEF OctetsInv, OctetsShaped
  <2> QED
    BY <2>1, <2>2
<1>8. blob' \in [Paths -> Blobs \cup {None}] /\ blob' = blob
  BY <1>1 DEF OctetsInv, OctetsShaped
<1>9. Sole(u) => /\ blob'[x.path] # None /\ blob'[x.path].by = u
                 /\ blob'[x.path].size = x.scanner.size
  BY <1>3, <1>5, <1>8 DEF Stored
<1> QED
  BY <1>1, <1>2, <1>5, <1>7, <1>8, <1>9, UploadInv, ZenonT(60)

\* A reader gets an entry, and its content now or later.
LEMMA ReaderInv ==
    ASSUME OctetsInv, NEW r \in Readers, NEW g \in Gets, get' = [get EXCEPT ![r] = g],
           UNCHANGED <<provider, blob, meta, put, deleting>>,
           g.phase \in {"head", "done", "broken"} =>
              /\ g.path # None /\ g.entry # None /\ Done(g.entry, g.path)
              /\ Sole(g.entry.by) =>
                    /\ g.phase # "broken"
                    /\ g.phase = "done" => /\ g.content # None
                                           /\ g.content.by = g.entry.by
                                           /\ g.content.size = g.entry.size
    PROVE  OctetsInv'
<1>1. /\ get' \in [Readers -> Gets] /\ get'[r] = g
      /\ \A q \in Readers : q # r => get'[q] = get[q]
  BY DEF OctetsInv, OctetsShaped
<1>2. OctetsShaped' /\ Uploaded'
  BY <1>1 DEF OctetsInv, OctetsShaped, Uploaded, Scanned
<1>3. Committed'
  BY DEF OctetsInv, Committed, Done
<1>4. InStore'
  BY DEF OctetsInv, InStore, Stored, Streaming, Sole
<1>5. Fetched'
  <2> SUFFICES ASSUME NEW q \in Readers, get'[q].phase \in {"head", "done", "broken"}
               PROVE
        /\ get'[q].path # None /\ get'[q].entry # None /\ Done(get'[q].entry, get'[q].path)
        /\ Sole(get'[q].entry.by) =>
              /\ get'[q].phase # "broken"
              /\ get'[q].phase = "done" => /\ get'[q].content # None
                                           /\ get'[q].content.by = get'[q].entry.by
                                           /\ get'[q].content.size = get'[q].entry.size
    BY SMTT(30) DEF Fetched, Done, Sole
  <2>1. CASE q = r
    BY <1>1, <2>1
  <2>2. CASE q # r
    BY <1>1, <2>2 DEF OctetsInv, Fetched
  <2> QED
    BY <2>1, <2>2
<1> QED
  BY <1>2, <1>3, <1>4, <1>5 DEF OctetsInv

\* What an entry describes is under its path if its upload is alone there.
LEMMA Described ==
    ASSUME OctetsInv, NEW entry \in Entries, NEW path \in Paths, Done(entry, path),
           Sole(entry.by)
    PROVE  /\ blob[path] # None
           /\ blob[path].by = entry.by /\ blob[path].size = entry.size
<1>1. entry.by \in Uploads
  BY DEF Entries
<1> QED
  BY <1>1 DEF OctetsInv, InStore, Stored, Done

\* Reading the metadata, which on S3 come with the content.
LEMMA GetInv == ASSUME OctetsInv, NEW r \in Readers, NEW path \in Paths, Get(r, path)
                PROVE  OctetsInv'
<1>1. UNCHANGED <<provider, blob, meta, put, deleting>>
  BY DEF Get
<1>2. CASE meta[path] = None
  <2> DEFINE g == [NoGet EXCEPT !.phase = "NOT_FOUND", !.path = path]
  <2>1. get' = [get EXCEPT ![r] = g]
    BY <1>2 DEF Get
  <2>2. g \in Gets /\ g.phase = "NOT_FOUND"
    BY DEF Gets, NoGet
  <2> QED
    BY <1>1, <2>1, <2>2, ReaderInv
<1>3. CASE meta[path] # None
  <2>1. /\ meta[path] \in Entries /\ blob[path] \in Blobs \cup {None}
        /\ Done(meta[path], path) /\ path # None
    BY <1>3, OctetsAssumption DEF OctetsInv, OctetsShaped, Committed
  <2>2. CASE provider = "s3"
    <3> DEFINE g == [phase |-> "done", path |-> path, entry |-> meta[path], content |-> blob[path]]
    <3>1. get' = [get EXCEPT ![r] = g]
      BY <1>3, <2>2 DEF Get
    <3>2. g \in Gets /\ g.phase = "done" /\ g.path = path /\ g.entry = meta[path]
          /\ g.content = blob[path]
      BY <2>1 DEF Gets
    <3> HIDE DEF g
    <3> QED
      BY <1>1, <1>3, <2>1, <3>1, <3>2, Described, ReaderInv, ZenonT(60)
  <2>3. CASE provider # "s3"
    <3> DEFINE g == [phase |-> "head", path |-> path, entry |-> meta[path], content |-> None]
    <3>1. get' = [get EXCEPT ![r] = g]
      BY <1>3, <2>3 DEF Get
    <3>2. g \in Gets /\ g.phase = "head" /\ g.path = path /\ g.entry = meta[path]
      BY <2>1 DEF Gets
    <3> HIDE DEF g
    <3> QED
      BY <1>1, <1>3, <2>1, <3>1, <3>2, ReaderInv
  <2> QED
    BY <2>2, <2>3
<1> QED
  BY <1>2, <1>3

\* Reading the content of a file whose metadata have been read.
LEMMA ReadContentInv == ASSUME OctetsInv, NEW r \in Readers, ReadContent(r) PROVE OctetsInv'
<1> DEFINE path == get[r].path
           end == IF blob[path] = None THEN "broken" ELSE "done"
           g == [get[r] EXCEPT !.phase = end, !.content = blob[path]]
<1>1. /\ get[r].phase = "head" /\ UNCHANGED <<provider, blob, meta, put, deleting>>
      /\ get' = [get EXCEPT ![r].phase = end, ![r].content = blob[path]]
  BY DEF ReadContent
<1>2. /\ path # None /\ get[r].entry # None /\ Done(get[r].entry, path)
      /\ get[r] \in Gets
  BY <1>1 DEF OctetsInv, Fetched, OctetsShaped
<1>3. path \in Paths /\ get[r].entry \in Entries
  BY <1>2 DEF Gets
<1>4. blob[path] \in Blobs \cup {None}
  BY <1>3 DEF OctetsInv, OctetsShaped
<1>5. /\ g \in Gets /\ g.phase = end /\ g.content = blob[path]
      /\ g.path = path /\ g.entry = get[r].entry
  BY <1>2, <1>4 DEF Gets
<1>6. get' = [get EXCEPT ![r] = g]
  BY <1>1
<1>7. Sole(get[r].entry.by) => /\ end # "broken" /\ blob[path] # None
                               /\ blob[path].by = get[r].entry.by
                               /\ blob[path].size = get[r].entry.size
  <2>1. Sole(get[r].entry.by) => /\ blob[path] # None
                                 /\ blob[path].by = get[r].entry.by
                                 /\ blob[path].size = get[r].entry.size
    BY <1>2, <1>3, Described
  <2> QED
    BY <2>1
<1> HIDE DEF g, end, path
<1>8. /\ g.path # None /\ g.entry # None /\ Done(g.entry, g.path)
      /\ Sole(g.entry.by) => /\ g.phase # "broken" /\ g.content # None
                             /\ g.content.by = g.entry.by /\ g.content.size = g.entry.size
  BY <1>2, <1>5, <1>7
<1> QED
  BY <1>1, <1>5, <1>6, <1>8, ReaderInv

\* A deletion begins, and removes what it finds.
LEMMA DeletionInv ==
    ASSUME OctetsInv, NEW path \in Paths, Delete(path) \/ Erase(path) PROVE OctetsInv'
<1>1. UNCHANGED <<provider, put, get>>
  BY DEF Delete, Erase
<1>2. /\ deleting' \in [Paths -> {None, {}, {"blob"}, {"meta"}, {"blob", "meta"}}]
      /\ deleting'[path] # None
      /\ \A p \in Paths : p # path => deleting'[p] = deleting[p]
      /\ blob' \in [Paths -> Blobs \cup {None}]
      /\ \A p \in Paths : p # path => blob'[p] = blob[p]
      /\ meta' \in [Paths -> Entries \cup {None}]
      /\ \A p \in Paths : meta'[p] = meta[p] \/ meta'[p] = None
  <2> USE DEF OctetsInv, OctetsShaped
  <2>1. CASE Delete(path)
    BY <2>1, OctetsAssumption DEF Delete
  <2>2. CASE Erase(path)
    <3>1. deleting[path] \in {{"blob"}, {"meta"}, {"blob", "meta"}}
      BY <2>2 DEF Erase
    <3>2. PICK parts \in IF provider = "s3" THEN {deleting[path]}
                         ELSE {{x} : x \in deleting[path]} :
             /\ deleting' = [deleting EXCEPT ![path] = @ \ parts]
             /\ blob' = IF "blob" \in parts THEN [blob EXCEPT ![path] = None] ELSE blob
             /\ meta' = IF "meta" \in parts THEN [meta EXCEPT ![path] = None] ELSE meta
      BY <2>2 DEF Erase
    <3>3. deleting[path] \ parts \in {{}, {"blob"}, {"meta"}, {"blob", "meta"}}
      <4>1. CASE provider = "s3"
        BY <3>1, <3>2, <4>1
      <4>2. CASE provider # "s3"
        <5>1. PICK x \in deleting[path] : parts = {x}
          BY <3>2, <4>2
        <5>2. x = "blob" \/ x = "meta"
          BY <3>1, <5>1
        <5> QED
          BY <3>1, <5>1, <5>2
      <4> QED
        BY <4>1, <4>2
    <3>4. /\ deleting' \in [Paths -> {None, {}, {"blob"}, {"meta"}, {"blob", "meta"}}]
          /\ deleting'[path] # None
          /\ \A p \in Paths : p # path => deleting'[p] = deleting[p]
      BY <3>2, <3>3, OctetsAssumption
    <3>5. /\ blob' \in [Paths -> Blobs \cup {None}]
          /\ \A p \in Paths : p # path => blob'[p] = blob[p]
      BY <3>2
    <3>6. /\ meta' \in [Paths -> Entries \cup {None}]
          /\ \A p \in Paths : meta'[p] = meta[p] \/ meta'[p] = None
      BY <3>2
    <3> QED
      BY <3>4, <3>5, <3>6
  <2> QED
    BY <2>1, <2>2
<1>3. OctetsShaped' /\ Uploaded'
  BY <1>1, <1>2 DEF OctetsInv, OctetsShaped, Uploaded, Scanned
<1>4. \A v \in Uploads : Sole(v)' => Sole(v) /\ put[v].path # path /\ put[v].path \in Paths
  <2> SUFFICES ASSUME NEW v \in Uploads, Sole(v)'
               PROVE  Sole(v) /\ put[v].path # path /\ put[v].path \in Paths
    OBVIOUS
  <2>1. put[v].path \in Paths /\ put[v].path # path
    BY <1>1, <1>2, PutShape DEF Sole
  <2> QED
    BY <1>1, <1>2, <2>1 DEF Sole
<1>5. Committed'
  BY <1>1, <1>2 DEF OctetsInv, Committed, Done
<1>6. InStore'
  <2> SUFFICES ASSUME NEW v \in Uploads, Sole(v)',
                      put[v].phase \in {"committing", "done"} \/ (provider = "fs" /\ Streaming(v))
               PROVE  /\ blob'[put[v].path] # None /\ blob'[put[v].path].by = v
                      /\ blob'[put[v].path].size = put[v].scanner.size
    BY <1>1 DEF InStore, Stored, Streaming
  <2>1. Sole(v) /\ put[v].path # path /\ put[v].path \in Paths
    BY <1>4
  <2> QED
    BY <1>2, <2>1 DEF OctetsInv, InStore, Stored
<1>7. Fetched'
  <2> SUFFICES ASSUME NEW r \in Readers, get[r].phase \in {"head", "done", "broken"}
               PROVE
        /\ get[r].path # None /\ get[r].entry # None /\ Done(get[r].entry, get[r].path)
        /\ Sole(get[r].entry.by)' =>
              /\ get[r].phase # "broken"
              /\ get[r].phase = "done" => /\ get[r].content # None
                                          /\ get[r].content.by = get[r].entry.by
                                          /\ get[r].content.size = get[r].entry.size
    BY <1>1 DEF Fetched, Done, Sole
  <2>1. PICK v \in Uploads : v = get[r].entry.by
    BY DEF OctetsInv, OctetsShaped, Gets, Entries, Fetched
  <2>2. Sole(v)' => Sole(v)
    BY <1>4
  <2>3. Sole(get[r].entry.by)' => Sole(get[r].entry.by)
    BY <1>1, <2>1, <2>2 DEF Sole
  <2> QED
    BY <2>3 DEF OctetsInv, Fetched
<1> QED
  BY <1>3, <1>5, <1>6, <1>7 DEF OctetsInv

\* Every step keeps the invariant.
LEMMA OctetsNextInv == OctetsInv /\ [OctetsNext]_octetVars => OctetsInv'
<1> SUFFICES ASSUME OctetsInv, [OctetsNext]_octetVars PROVE OctetsInv'
  OBVIOUS
<1>1. CASE CreateStorage \/ UNCHANGED octetVars
  <2>1. /\ UNCHANGED <<blob, meta, put, deleting, get>>
        /\ provider' = provider \/ (provider = None /\ provider' \in Providers)
    BY <1>1 DEF CreateStorage, octetVars
  <2>2. OctetsShaped'
    BY <2>1 DEF OctetsInv, OctetsShaped
  <2>3. Uploaded'
    BY <2>1, OctetsAssumption DEF OctetsInv, OctetsShaped, Uploaded, Scanned
  <2>4. Committed'
    BY <2>1 DEF OctetsInv, Committed, Done
  <2>5. InStore'
    <3>1. provider' # provider => \A u \in Uploads : put[u].phase = "none"
      BY <2>1 DEF OctetsInv, Uploaded
    <3> QED
      BY <2>1, <3>1 DEF OctetsInv, InStore, Stored, Streaming, Sole
  <2>6. Fetched'
    BY <2>1 DEF OctetsInv, Fetched, Done, Sole
  <2> QED
    BY <2>2, <2>3, <2>4, <2>5, <2>6 DEF OctetsInv
<1>2. ASSUME NEW u \in Uploads, Put(u) \/ AdvancePut(u) \/ Abort(u) \/ Fail(u)
      PROVE  OctetsInv'
  BY <1>2, PutInv, ChunkInv, EndInv, CommitInv, BrokenOffInv DEF AdvancePut
<1>3. ASSUME NEW r \in Readers, ReadContent(r) \/ \E p \in Paths : Get(r, p)
      PROVE  OctetsInv'
  BY <1>3, ReadContentInv, GetInv
<1>4. ASSUME NEW p \in Paths, Delete(p) \/ Erase(p) PROVE OctetsInv'
  BY <1>4, DeletionInv
<1> QED
  BY <1>1, <1>2, <1>3, <1>4 DEF OctetsNext

\* One upload of a path is the sole one.
LEMMA OctetsInvWhole == OctetsInv => OctetsWhole
<1> SUFFICES ASSUME OctetsInv PROVE OctetsWhole
  OBVIOUS
<1>1. ASSUME NEW p \in Paths, meta[p] # None
      PROVE  /\ meta[p] \in Entries /\ meta[p].by \in Uploads /\ Done(meta[p], p)
             /\ meta[p].size \in 1..MaxSize
  <2>1. meta[p] \in Entries /\ Done(meta[p], p)
    BY <1>1 DEF OctetsInv, OctetsShaped, Committed
  <2>2. meta[p].by \in Uploads /\ meta[p].size \in 0..MaxSize
    BY <2>1 DEF Entries
  <2>3. meta[p].size > 0
    BY <2>1, <2>2 DEF OctetsInv, Uploaded, Done
  <2> QED
    BY <2>1, <2>2, <2>3
<1>2. OctetsTyped
  <2>1. ASSUME NEW p \in Paths
        PROVE  /\ blob[p] = None \/ blob[p] \in [by : Uploads, size : 0..MaxSize]
               /\ meta[p] = None \/ (meta[p].by \in Uploads /\ meta[p].size \in 1..MaxSize)
               /\ deleting[p] = None \/ deleting[p] \subseteq {"blob", "meta"}
    <3>1. blob[p] = None \/ blob[p] \in [by : Uploads, size : 0..MaxSize]
      BY DEF OctetsInv, OctetsShaped, Blobs
    <3>2. meta[p] = None \/ (meta[p].by \in Uploads /\ meta[p].size \in 1..MaxSize)
      BY <1>1
    <3>3. deleting[p] \in {None, {}, {"blob"}, {"meta"}, {"blob", "meta"}}
      BY DEF OctetsInv, OctetsShaped
    <3> QED
      BY <3>1, <3>2, <3>3
  <2>2. ASSUME NEW u \in Uploads
        PROVE  /\ put[u].phase \in {"none", "streaming", "committing", "done", "refused", "threw"}
               /\ put[u].scanner.position <= put[u].scanner.size
               /\ put[u].scanner.position <= Header
    <3>1. put[u] \in Puts /\ put[u].scanner \in Scanners /\ Scanned(put[u].scanner)
      BY PutShape
    <3>2. put[u].scanner.position \in 0..Header
      BY <3>1 DEF Scanners
    <3> QED
      BY <3>1, <3>2 DEF Puts, Scanned
  <2> QED
    BY <2>1, <2>2 DEF OctetsTyped, OctetsInv, OctetsShaped
<1>3. ReadsWhole
  <2> SUFFICES ASSUME NEW r \in Readers, get[r].phase \in {"done", "broken"},
                      Undisturbed(get[r].path)
               PROVE  /\ get[r].phase = "done" /\ get[r].content # None
                      /\ get[r].entry.by = get[r].content.by
                      /\ get[r].entry.size = get[r].content.size
    BY DEF ReadsWhole
  <2>1. /\ get[r].path # None /\ Done(get[r].entry, get[r].path)
        /\ get[r].entry \in Entries /\ get[r].entry.by \in Uploads
    BY DEF OctetsInv, Fetched, OctetsShaped, Gets, Entries
  <2> DEFINE users == {u \in Uploads : put[u].path = get[r].path}
  <2>2. PICK u : users = {u}
    <3>1. IsFiniteSet(users)
      BY OctetsAssumption, FS_Subset
    <3>2. Cardinality(users) = 1
      BY DEF Undisturbed
    <3> QED
      BY <3>1, <3>2, FS_Singleton
  <2>3. Sole(get[r].entry.by)
    BY <2>1, <2>2 DEF Sole, Done, Undisturbed
  <2> QED
    BY <2>3 DEF OctetsInv, Fetched
<1>4. TypesKept
  <2> SUFFICES ASSUME NEW p \in Paths, meta[p] # None, meta[p].size >= Header
               PROVE  LET s == put[meta[p].by].scanner
                      IN  /\ s.accept # None /\ (s.claim # None \/ s.signature # None)
                               => meta[p].type \in s.accept
                          /\ s.claim \notin {None, "octet"} => meta[p].type = s.claim
    BY DEF TypesKept
  <2>1. PICK u \in Uploads : u = meta[p].by /\ put[u].phase = "done"
                             /\ meta[p].size = put[u].scanner.size
                             /\ meta[p].type = put[u].scanner.type
    BY <1>1 DEF Done
  <2>2. put[u].scanner.errors = <<>> /\ Scanned(put[u].scanner)
    BY <2>1 DEF OctetsInv, Uploaded
  <2>3. put[u].scanner.completed
    BY <2>1, <2>2, PutShape, OctetsAssumption, SMTT(30) DEF Scanned
  <2> QED
    BY <2>1, <2>2, <2>3 DEF Scanned
<1>5. RefusedStoresNothing
  BY <1>1 DEF RefusedStoresNothing, Done
<1> QED
  BY <1>2, <1>3, <1>4, <1>5 DEF OctetsWhole

\* Uploads, downloads and deletions keep the invariant (Storage.ts, Scanner.ts).
THEOREM OctetsInvariance == OctetsSpec => []OctetsInv
  BY OctetsInitInv, OctetsNextInv, PTL DEF OctetsSpec

\* However uploads, downloads and deletions of a path meet, what is stored and
\* read is whole and of its type.
THEOREM Whole == OctetsSpec => []OctetsWhole
  BY OctetsInvariance, OctetsInvWhole, PTL

-----------------------------------------------------------------------------
(***************************************************************************)
(* For any units, steps and streams: a workflow's report has every step of *)
(* the units that were executed, in their order and once, and an entry is  *)
(* deleted only after a report without errors.                             *)
(***************************************************************************)

Reports == [unit : 1..Len(Unit), step : UNION {Unit[u] : u \in 1..Len(Unit)},
            status : {"none", "completed", "exception"}, error : BOOLEAN]

FlowShaped ==
    /\ directive \in Directives \cup {"none"}
    /\ unit \in 0..Len(Unit)
    /\ directive = "none" <=> unit = 0
    /\ step \in [IF unit = 0 THEN {} ELSE Unit[unit] -> {"called", "streaming", "ended"}]
    /\ reports \in Seq(Reports)
    /\ interrupted \in BOOLEAN /\ ended \in BOOLEAN
    /\ read \in 0..Len(reports)
    /\ consumer \in {"reading", "stopped", "gone", "deleted", "done"}

\* A workflow is interrupted by what was reported, and goes on to no other unit.
InterruptedBy ==
    /\ interrupted <=> \E i \in 1..Len(reports) : Failed(reports[i])
    /\ \A i \in 1..Len(reports) : reports[i].unit < unit => ~Failed(reports[i])

\* The reports that give a step its status.
Finals(u, s) ==
    {i \in 1..Len(reports) : /\ reports[i].unit = u /\ reports[i].step = s
                             /\ reports[i].status # "none"}

\* Whose step has ended, in this unit or one before, has one; the others none.
FinalOnce ==
    /\ \A i \in 1..Len(reports) : reports[i].unit <= unit
    /\ \A u \in 1..unit : \A s \in Unit[u] :
          IF u < unit \/ step[s] = "ended" THEN \E i \in 1..Len(reports) : Finals(u, s) = {i}
                                           ELSE Finals(u, s) = {}

\* Nothing is reported after the end.
EndedSteps == ended => unit > 0 /\ \A s \in DOMAIN step : step[s] = "ended"

\* What octets:delete has read of the report has no error, or it has stopped.
ReadClean ==
    directive = "delete" /\ consumer \in {"reading", "deleted"} =>
        \A i \in 1..read : ~reports[i].error
DeletedAtEnd == consumer = "deleted" => ended /\ directive = "delete" /\ read = Len(reports)

FlowInv == /\ FlowShaped /\ InterruptedBy /\ FinalOnce /\ EndedSteps /\ UnitsInOrder
           /\ ReadClean /\ DeletedAtEnd

-----------------------------------------------------------------------------
\* The initial state satisfies the invariant.
LEMMA FlowInitInv == FlowInit => FlowInv
<1> SUFFICES ASSUME FlowInit PROVE FlowInv
  OBVIOUS
<1>1. /\ directive = "none" /\ unit = 0 /\ step = <<>> /\ interrupted = FALSE
      /\ reports = <<>> /\ ended = FALSE /\ read = 0 /\ consumer = "reading"
  BY DEF FlowInit
<1>2. Len(reports) = 0 /\ reports \in Seq(Reports)
  BY <1>1
<1>3. step \in [{} -> {"called", "streaming", "ended"}] /\ DOMAIN step = {}
  BY <1>1
<1>4. FlowShaped
  <2>1. step \in [IF unit = 0 THEN {} ELSE Unit[unit] -> {"called", "streaming", "ended"}]
    BY <1>1, <1>3
  <2>2. directive \in Directives \cup {"none"} /\ unit \in 0..Len(Unit)
        /\ (directive = "none" <=> unit = 0)
    BY <1>1, WorkflowAssumption
  <2>3. read \in 0..Len(reports) /\ consumer \in {"reading", "stopped", "gone", "deleted", "done"}
    BY <1>1, <1>2
  <2>4. interrupted \in BOOLEAN /\ ended \in BOOLEAN
    BY <1>1
  <2> QED
    BY <1>2, <2>1, <2>2, <2>3, <2>4 DEF FlowShaped
<1>5. InterruptedBy /\ FinalOnce
  BY <1>1, <1>2 DEF InterruptedBy, FinalOnce
<1>6. EndedSteps /\ UnitsInOrder
  BY <1>1, <1>2, <1>3 DEF EndedSteps, UnitsInOrder
<1>7. ReadClean /\ DeletedAtEnd
  BY <1>1, <1>2 DEF ReadClean, DeletedAtEnd
<1> QED
  BY <1>4, <1>5, <1>6, <1>7 DEF FlowInv

\* A report of a step that has not ended yet: its status if it ends with it.
LEMMA ReportInv ==
    ASSUME FlowInv, NEW s \in DOMAIN step, step[s] \in {"called", "streaming"},
           NEW r \in Reports, r.unit = unit, r.step = s,
           NEW z \in {"called", "streaming", "ended"},
           z = "ended" <=> r.status # "none",
           reports' = Append(reports, r), step' = [step EXCEPT ![s] = z],
           interrupted' \in BOOLEAN, interrupted' <=> (interrupted \/ Failed(r)),
           Idle
    PROVE  FlowInv'
<1> DEFINE n == Len(reports) + 1
<1>1. /\ reports' \in Seq(Reports) /\ Len(reports') = n
      /\ reports'[n] = r
      /\ \A i \in 1..Len(reports) : reports'[i] = reports[i]
      /\ Len(reports) \in Nat
  BY DEF FlowInv, FlowShaped
<1> HIDE DEF n
<1>2. n = Len(reports) + 1 /\ n \in 1..n /\ \A i \in 1..n : i = n \/ i \in 1..Len(reports)
  BY <1>1 DEF n
<1>3. UNCHANGED <<directive, unit, ended, read, consumer>>
  BY DEF Idle
<1>4. /\ unit \in 1..Len(Unit) /\ DOMAIN step = Unit[unit] /\ s \in Unit[unit]
      /\ DOMAIN step' = Unit[unit]
      /\ step'[s] = z /\ \A t \in Unit[unit] : t # s => step'[t] = step[t]
      /\ step' \in [Unit[unit] -> {"called", "streaming", "ended"}]
  BY DEF FlowInv, FlowShaped
<1>5. FlowShaped'
  BY <1>1, <1>2, <1>3, <1>4, WorkflowAssumption DEF FlowInv, FlowShaped
<1>6. InterruptedBy'
  <2>1. interrupted' <=> \E i \in 1..n : Failed(reports'[i])
    BY <1>1, <1>2 DEF FlowInv, InterruptedBy, Failed
  <2>2. \A i \in 1..n : reports'[i].unit < unit => ~Failed(reports'[i])
    BY <1>1, <1>2, <1>4 DEF FlowInv, InterruptedBy, Failed
  <2> QED
    BY <1>1, <1>3, <2>1, <2>2 DEF InterruptedBy, Failed
<1>7. FinalOnce'
  <2>1. \A i \in 1..n : reports'[i].unit <= unit
    BY <1>1, <1>2, <1>4 DEF FlowInv, FinalOnce
  <2>2. \A u \in 1..unit : \A t \in Unit[u] :
           /\ u = unit /\ t = s /\ z = "ended" => Finals(u, t)' = Finals(u, t) \cup {n}
           /\ ~(u = unit /\ t = s /\ z = "ended") => Finals(u, t)' = Finals(u, t)
    BY <1>1, <1>2, <1>4 DEF Finals
  <2>3. ASSUME NEW u \in 1..unit, NEW t \in Unit[u]
        PROVE  IF u < unit \/ step'[t] = "ended"
                  THEN \E i \in 1..n : Finals(u, t)' = {i} ELSE Finals(u, t)' = {}
    <3>1. CASE u = unit /\ t = s
      <4>1. Finals(u, t) = {}
        BY <1>4, <3>1 DEF FlowInv, FinalOnce
      <4>2. CASE z = "ended"
        <5>1. Finals(u, t)' = {n}
          BY <2>2, <3>1, <4>1, <4>2
        <5> QED
          BY <1>2, <1>4, <3>1, <4>2, <5>1
      <4>3. CASE z # "ended"
        <5>1. Finals(u, t)' = {}
          BY <2>2, <3>1, <4>1, <4>3
        <5> QED
          BY <1>4, <3>1, <4>3, <5>1
      <4> QED
        BY <4>2, <4>3
    <3>2. CASE ~(u = unit /\ t = s)
      <4>1. Finals(u, t)' = Finals(u, t)
        BY <2>2, <3>2
      <4>2. u = unit => step'[t] = step[t]
        BY <1>4, <3>2
      <4>3. IF u < unit \/ step[t] = "ended" THEN \E i \in 1..Len(reports) : Finals(u, t) = {i}
                                             ELSE Finals(u, t) = {}
        BY DEF FlowInv, FinalOnce
      <4>4. u < unit \/ u = unit
        BY <1>4
      <4>5. 1..Len(reports) \subseteq 1..n
        BY <1>1, <1>2
      <4> QED
        BY <4>1, <4>2, <4>3, <4>4, <4>5
    <3> QED
      BY <3>1, <3>2
  <2> QED
    BY <1>1, <1>3, <2>1, <2>3 DEF FinalOnce
<1>8. EndedSteps'
  <2>1. ~ended
    BY <1>4 DEF FlowInv, EndedSteps
  <2> QED
    BY <1>3, <2>1 DEF EndedSteps
<1>9. UnitsInOrder'
  <2> SUFFICES ASSUME NEW i \in 1..Len(reports'), reports'[i].unit > 1,
                      NEW t \in Unit[reports'[i].unit - 1]
               PROVE
        /\ \E j \in 1..(i - 1) : /\ reports'[j].step = t /\ reports'[j].unit = reports'[i].unit - 1
                                 /\ reports'[j].status = "completed"
        /\ \A j \in 1..Len(reports') :
               reports'[j].step = t /\ reports'[j].unit < reports'[i].unit => ~Failed(reports'[j])
    BY DEF UnitsInOrder, Failed
  <2>1. i \in 1..n /\ Len(reports') = n
    BY <1>1
  <2>2. \A j \in 1..n : reports'[j] \in Reports
    BY <1>1
  <2>3. reports'[i].unit \in 1..unit
    <3>1. reports'[i].unit \in Nat /\ reports'[i].unit >= 1
      BY <2>1, <2>2 DEF Reports
    <3>2. reports'[i].unit <= unit
      BY <1>1, <1>3, <1>7, <2>1 DEF FinalOnce
    <3> QED
      BY <1>4, <3>1, <3>2
  <2>4. \A j \in 1..n : reports'[j].unit < reports'[i].unit => ~Failed(reports'[j])
    <3> SUFFICES ASSUME NEW j \in 1..n, reports'[j].unit < reports'[i].unit
                 PROVE  ~Failed(reports'[j])
      OBVIOUS
    <3>1. reports'[j].unit < unit
      BY <1>4, <2>3, <2>2, <2>1, WorkflowAssumption DEF Reports
    <3>2. j # n /\ reports'[j] = reports[j] /\ j \in 1..Len(reports)
      BY <1>1, <1>2, <1>4, <3>1
    <3> QED
      BY <3>1, <3>2 DEF FlowInv, InterruptedBy
  <2>5. CASE i # n
    <3>1. reports'[i] = reports[i] /\ i \in 1..Len(reports)
      BY <1>1, <1>2, <2>5
    <3>2. PICK j \in 1..(i - 1) : /\ reports[j].step = t
                                  /\ reports[j].unit = reports[i].unit - 1
                                  /\ reports[j].status = "completed"
      BY <3>1 DEF FlowInv, UnitsInOrder
    <3>3. reports'[j] = reports[j]
      BY <1>1, <3>1, <3>2
    <3> QED
      BY <2>4, <2>1, <3>1, <3>2, <3>3
  <2>6. CASE i = n
    <3>1. reports'[i].unit = unit /\ unit - 1 \in 1..unit /\ unit - 1 < unit
      BY <1>1, <1>4, <2>3, <2>6
    <3>2. PICK j \in 1..Len(reports) : Finals(unit - 1, t) = {j}
      BY <3>1 DEF FlowInv, FinalOnce
    <3>3. /\ j \in 1..(i - 1) /\ reports'[j] = reports[j]
          /\ reports[j].unit = unit - 1 /\ reports[j].step = t /\ reports[j].status # "none"
      BY <1>1, <1>2, <2>6, <3>2 DEF Finals
    <3>4. ~Failed(reports[j]) /\ reports[j] \in Reports
      BY <3>1, <3>2, <3>3 DEF FlowInv, InterruptedBy, FlowShaped
    <3>5. reports[j].status = "completed"
      BY <3>3, <3>4 DEF Failed, Reports
    <3> QED
      BY <2>4, <2>1, <3>1, <3>3, <3>5
  <2> QED
    BY <2>5, <2>6
<1>10. ReadClean'
  <2>1. read \in 0..Len(reports)
    BY DEF FlowInv, FlowShaped
  <2>2. \A i \in 1..read : reports'[i] = reports[i]
    BY <1>1, <2>1
  <2> QED
    BY <1>3, <2>2 DEF FlowInv, ReadClean
<1>11. DeletedAtEnd'
  <2>1. ~ended
    BY <1>4 DEF FlowInv, EndedSteps
  <2> QED
    BY <1>3, <2>1 DEF FlowInv, DeletedAtEnd
<1> QED
  BY <1>5, <1>6, <1>7, <1>8, <1>9, <1>10, <1>11 DEF FlowInv

\* A call returns, or its stream goes on or ends.
LEMMA StepInv ==
    ASSUME FlowInv, NEW s \in DOMAIN step, Returns(s) \/ Streams(s) \/ StreamEnds(s)
    PROVE  FlowInv'
<1>1. unit \in 1..Len(Unit) /\ s \in Unit[unit]
  BY DEF FlowInv, FlowShaped
<1>2. ASSUME NEW status \in {"none", "completed", "exception"}, NEW error \in BOOLEAN,
             Report(s, status, error)
      PROVE  \E r \in Reports : /\ r.unit = unit /\ r.step = s
                                /\ r.status = status /\ r.error = error
                                /\ reports' = Append(reports, r)
                                /\ interrupted' \in BOOLEAN
                                /\ (interrupted' <=> (interrupted \/ Failed(r)))
  <2> DEFINE r == [unit |-> unit, step |-> s, status |-> status, error |-> error]
  <2>1. r \in Reports
    BY <1>1 DEF Reports
  <2>2. reports' = Append(reports, r)
    BY <1>2 DEF Report
  <2>3. interrupted' = (interrupted \/ error \/ status = "exception")
    BY <1>2 DEF Report
  <2>4. r.unit = unit /\ r.step = s /\ r.status = status /\ r.error = error
    OBVIOUS
  <2> HIDE DEF r
  <2>5. interrupted' \in BOOLEAN /\ (interrupted' <=> (interrupted \/ Failed(r)))
    BY <2>3, <2>4 DEF Failed
  <2> QED
    BY <2>1, <2>2, <2>4, <2>5
<1>3. ASSUME step[s] \in {"called", "streaming"}, Idle,
             NEW z \in {"called", "streaming", "ended"}, step' = [step EXCEPT ![s] = z],
             NEW status \in {"none", "completed", "exception"}, NEW error \in BOOLEAN,
             z = "ended" <=> status # "none", Report(s, status, error)
      PROVE  FlowInv'
  BY <1>2, <1>3, ReportInv, ZenonT(60)
<1>4. CASE Returns(s) /\ step' = [step EXCEPT ![s] = "ended"]
  <2>1. step[s] \in {"called", "streaming"} /\ Idle
    BY <1>4 DEF Returns
  <2>2. \E error \in BOOLEAN, status \in {"completed", "exception"} : Report(s, status, error)
    <3>1. (\E error \in BOOLEAN : Report(s, "completed", error))
             \/ Report(s, "exception", FALSE) \/ step' = [step EXCEPT ![s] = "streaming"]
      BY <1>4 DEF Returns
    <3>2. step' # [step EXCEPT ![s] = "streaming"]
      BY <1>4
    <3> QED
      BY <3>1, <3>2
  <2> QED
    BY <1>3, <1>4, <2>1, <2>2
<1>5. CASE Returns(s) /\ step' # [step EXCEPT ![s] = "ended"]
  <2>1. /\ step[s] = "called" /\ step' = [step EXCEPT ![s] = "streaming"]
        /\ UNCHANGED <<reports, interrupted>> /\ Idle
    BY <1>5 DEF Returns
  <2>2. /\ step'[s] = "streaming" /\ \A t \in Unit[unit] : t # s => step'[t] = step[t]
        /\ step' \in [Unit[unit] -> {"called", "streaming", "ended"}]
        /\ DOMAIN step' = DOMAIN step
    BY <1>1, <2>1 DEF FlowInv, FlowShaped
  <2>3. UNCHANGED <<directive, unit, ended, read, consumer, reports, interrupted>>
    BY <2>1 DEF Idle
  <2>4. FlowShaped'
    BY <1>1, <2>2, <2>3, WorkflowAssumption DEF FlowInv, FlowShaped
  <2>5. FinalOnce'
    <3>1. \A u \in 1..unit : \A t \in Unit[u] : Finals(u, t)' = Finals(u, t)
      BY <2>3 DEF Finals
    <3>2. \A t \in Unit[unit] : step'[t] = "ended" <=> step[t] = "ended"
      BY <2>1, <2>2
    <3>3. \A u \in 1..unit : u < unit \/ u = unit
      BY <1>1
    <3>4. \A u \in 1..unit : \A t \in Unit[u] :
             IF u < unit \/ step'[t] = "ended" THEN \E i \in 1..Len(reports) : Finals(u, t)' = {i}
                                               ELSE Finals(u, t)' = {}
      BY <3>1, <3>2, <3>3 DEF FlowInv, FinalOnce
    <3>5. \A i \in 1..Len(reports) : reports[i].unit <= unit
      BY DEF FlowInv, FinalOnce
    <3> QED
      BY <2>3, <3>4, <3>5 DEF FinalOnce
  <2>6. EndedSteps'
    <3>1. ~ended
      BY <2>1 DEF FlowInv, EndedSteps
    <3> QED
      BY <2>3, <3>1 DEF EndedSteps
  <2>7. InterruptedBy' /\ UnitsInOrder'
    <3>1. InterruptedBy'
      BY <2>3 DEF FlowInv, InterruptedBy, Failed
    <3>2. UnitsInOrder'
      BY <2>3 DEF FlowInv, UnitsInOrder, Failed
    <3> QED
      BY <3>1, <3>2
  <2>8. ReadClean' /\ DeletedAtEnd'
    BY <2>3 DEF FlowInv, ReadClean, DeletedAtEnd
  <2> QED
    BY <2>4, <2>5, <2>6, <2>7, <2>8 DEF FlowInv
<1>6. CASE Streams(s)
  <2>1. step[s] = "streaming" /\ Idle /\ step' = step
        /\ \E error \in BOOLEAN : Report(s, "none", error)
    BY <1>6 DEF Streams
  <2>2. step' = [step EXCEPT ![s] = "streaming"]
    BY <2>1 DEF FlowInv, FlowShaped
  <2> QED
    BY <1>3, <2>1, <2>2
<1>7. CASE StreamEnds(s)
  <2>1. step[s] = "streaming" /\ Idle /\ step' = [step EXCEPT ![s] = "ended"]
        /\ \E status \in {"completed", "exception"} : Report(s, status, FALSE)
    BY <1>7 DEF StreamEnds
  <2> QED
    BY <1>3, <2>1
<1> QED
  BY <1>4, <1>5, <1>6, <1>7

\* The steps of the unit that follows are called, and none before them failed.
LEMMA UnitInv == ASSUME FlowInv, Apply \/ Advance PROVE FlowInv'
<1>1. UNCHANGED <<interrupted, reports, read, consumer>>
  BY DEF Apply, Advance
<1>2. CASE Advance /\ (interrupted \/ unit = Len(Unit))
  <2>1. ended' = TRUE /\ UNCHANGED <<directive, unit, step>>
    BY <1>2 DEF Advance
  <2>2. EndedSteps'
    BY <1>2, <2>1, WorkflowAssumption DEF Advance, EndedSteps, FlowInv, FlowShaped
  <2>3. FlowShaped'
    BY <1>1, <2>1 DEF FlowInv, FlowShaped
  <2>4. InterruptedBy' /\ UnitsInOrder' /\ FinalOnce'
    BY <1>1, <2>1 DEF FlowInv, InterruptedBy, UnitsInOrder, FinalOnce, Finals, Failed
  <2>5. ReadClean' /\ DeletedAtEnd'
    BY <1>1, <2>1 DEF FlowInv, ReadClean, DeletedAtEnd
  <2> QED
    BY <2>2, <2>3, <2>4, <2>5 DEF FlowInv
<1>3. CASE Apply \/ (Advance /\ ~(interrupted \/ unit = Len(Unit)))
  <2>1. /\ unit' = unit + 1 /\ unit' \in 1..Len(Unit) /\ unit \in Nat
        /\ step' = Calls(unit + 1) /\ ended' = ended /\ ended = FALSE
    <3>1. CASE Apply
      BY <3>1, WorkflowAssumption DEF Apply, FlowInv, FlowShaped, EndedSteps
    <3>2. CASE Advance /\ ~(interrupted \/ unit = Len(Unit))
      BY <3>2, WorkflowAssumption DEF Advance, FlowInv, FlowShaped
    <3> QED
      BY <1>3, <3>1, <3>2
  <2>2. /\ directive' \in Directives /\ directive' # "none"
        /\ directive # "none" => directive' = directive
        /\ directive = "none" => unit = 0
    BY <1>3, WorkflowAssumption DEF Apply, Advance, FlowInv, FlowShaped
  <2>3. \A s \in DOMAIN step : step[s] = "ended"
    BY <1>3 DEF Apply, Advance, FlowInv, FlowShaped
  <2>4. /\ DOMAIN step' = Unit[unit'] /\ \A s \in Unit[unit'] : step'[s] = "called"
        /\ step' \in [Unit[unit'] -> {"called", "streaming", "ended"}]
    BY <2>1 DEF Calls
  <2>5. Len(reports) \in Nat /\ reports \in Seq(Reports)
        /\ \A i \in 1..Len(reports) : reports[i] \in Reports
    BY DEF FlowInv, FlowShaped
  <2>6. \A i \in 1..Len(reports) : ~Failed(reports[i])
    <3>1. ~interrupted
      <4>1. CASE Apply
        <5>1. unit = 0
          BY <4>1 DEF Apply, FlowInv, FlowShaped
        <5>2. \A i \in 1..Len(reports) : FALSE
          BY <2>5, <5>1 DEF FlowInv, FinalOnce, Reports
        <5> QED
          BY <5>2 DEF FlowInv, InterruptedBy
      <4> QED
        BY <1>3, <4>1
    <3> QED
      BY <3>1 DEF FlowInv, InterruptedBy
  <2>7. FlowShaped'
    BY <1>1, <2>1, <2>2, <2>4, WorkflowAssumption DEF FlowInv, FlowShaped
  <2>8. InterruptedBy'
    BY <1>1, <2>6 DEF FlowInv, InterruptedBy, Failed
  <2>9. FinalOnce'
    <3>1. \A u, t : Finals(u, t)' = Finals(u, t)
      BY <1>1 DEF Finals
    <3>2. \A i \in 1..Len(reports) : reports[i].unit <= unit
      BY DEF FlowInv, FinalOnce
    <3>3. \A i \in 1..Len(reports) : reports[i].unit <= unit' /\ reports[i].unit # unit'
      BY <2>1, <2>5, <3>2, WorkflowAssumption DEF Reports
    <3>4. ASSUME NEW u \in 1..unit', NEW t \in Unit[u]
          PROVE  IF u < unit' \/ step'[t] = "ended"
                    THEN \E i \in 1..Len(reports) : Finals(u, t) = {i} ELSE Finals(u, t) = {}
      <4>1. CASE u = unit'
        <5>1. Finals(u, t) = {}
          BY <3>3, <4>1 DEF Finals
        <5>2. step'[t] # "ended" /\ ~(u < unit')
          BY <2>1, <2>4, <4>1
        <5> QED
          BY <5>1, <5>2
      <4>2. CASE u # unit'
        <5>1. u \in 1..unit /\ u < unit' /\ (u < unit \/ u = unit)
          BY <2>1, <4>2
        <5>2. u = unit => step[t] = "ended"
          BY <2>3, <5>1 DEF FlowInv, FlowShaped
        <5>3. \E i \in 1..Len(reports) : Finals(u, t) = {i}
          BY <5>1, <5>2 DEF FlowInv, FinalOnce
        <5> QED
          BY <5>1, <5>3
      <4> QED
        BY <4>1, <4>2
    <3> QED
      BY <1>1, <3>1, <3>3, <3>4 DEF FinalOnce
  <2>10. EndedSteps'
    BY <2>1 DEF EndedSteps
  <2>11. UnitsInOrder'
    BY <1>1 DEF FlowInv, UnitsInOrder, Failed
  <2>12. DeletedAtEnd' /\ consumer # "deleted"
    BY <1>1, <2>1 DEF FlowInv, DeletedAtEnd
  <2>13. ReadClean'
    <3>1. read \in 0..Len(reports)
      BY DEF FlowInv, FlowShaped
    <3>2. \A i \in 1..read : ~reports[i].error
      BY <2>5, <2>6, <3>1 DEF Failed
    <3> QED
      BY <1>1, <3>2 DEF ReadClean
  <2> QED
    BY <2>7, <2>8, <2>9, <2>10, <2>11, <2>12, <2>13 DEF FlowInv
<1> QED
  BY <1>2, <1>3

\* What is said of the reports stays true while nothing is reported.
LEMMA ReportsStay ==
    ASSUME InterruptedBy, FinalOnce, EndedSteps, UnitsInOrder,
           UNCHANGED <<unit, step, interrupted, reports, ended>>
    PROVE  InterruptedBy' /\ FinalOnce' /\ EndedSteps' /\ UnitsInOrder'
<1> DEFINE By(rs, u, x) == /\ x <=> \E i \in 1..Len(rs) : Failed(rs[i])
                           /\ \A i \in 1..Len(rs) : rs[i].unit < u => ~Failed(rs[i])
           Of(rs, u, s) == {i \in 1..Len(rs) : /\ rs[i].unit = u /\ rs[i].step = s
                                               /\ rs[i].status # "none"}
           Once(rs, n, t) ==
               /\ \A i \in 1..Len(rs) : rs[i].unit <= n
               /\ \A u \in 1..n : \A s \in Unit[u] :
                     IF u < n \/ t[s] = "ended" THEN \E i \in 1..Len(rs) : Of(rs, u, s) = {i}
                                                ELSE Of(rs, u, s) = {}
           AllEnded(x, n, t) == x => n > 0 /\ \A s \in DOMAIN t : t[s] = "ended"
           OrderOf(rs) ==
               \A i \in 1..Len(rs) : rs[i].unit > 1 =>
                   \A s \in Unit[rs[i].unit - 1] :
                       /\ \E j \in 1..(i - 1) : /\ rs[j].step = s /\ rs[j].unit = rs[i].unit - 1
                                                /\ rs[j].status = "completed"
                       /\ \A j \in 1..Len(rs) :
                              rs[j].step = s /\ rs[j].unit < rs[i].unit => ~Failed(rs[j])
<1>1. reports' = reports /\ unit' = unit /\ step' = step /\ interrupted' = interrupted /\ ended' = ended
  OBVIOUS
<1>2. /\ InterruptedBy <=> By(reports, unit, interrupted)
      /\ InterruptedBy' <=> By(reports', unit', interrupted')
  BY Zenon DEF InterruptedBy
<1>3. FinalOnce <=> Once(reports, unit, step)
  BY Zenon DEF FinalOnce, Finals
<1>4. FinalOnce' <=> Once(reports', unit', step')
  BY Zenon DEF FinalOnce, Finals
<1>5. /\ EndedSteps <=> AllEnded(ended, unit, step)
      /\ EndedSteps' <=> AllEnded(ended', unit', step')
  BY Zenon DEF EndedSteps
<1>6. UnitsInOrder <=> OrderOf(reports)
  BY Zenon DEF UnitsInOrder
<1>7. UnitsInOrder' <=> OrderOf(reports')
  BY Zenon DEF UnitsInOrder
<1> HIDE DEF By, Once, AllEnded, OrderOf
<1> QED
  BY <1>1, <1>2, <1>3, <1>4, <1>5, <1>6, <1>7, Zenon

\* The client reads, leaves, or has read all of it.
LEMMA ConsumerInv == ASSUME FlowInv, Read \/ Finish \/ Leave PROVE FlowInv'
<1>1. UNCHANGED <<directive, unit, step, interrupted, reports, ended>>
  BY DEF Read, Finish, Leave, Executing
<1>2. read \in 0..Len(reports) /\ Len(reports) \in Nat /\ consumer = "reading"
  BY DEF FlowInv, FlowShaped, Read, Finish, Leave
<1>3. /\ read' \in 0..Len(reports)
      /\ consumer' \in {"reading", "stopped", "gone", "deleted", "done"}
  BY <1>2 DEF Read, Finish, Leave
<1>4. FlowShaped'
  BY <1>1, <1>3 DEF FlowInv, FlowShaped
<1>5. InterruptedBy' /\ FinalOnce' /\ EndedSteps' /\ UnitsInOrder'
  BY <1>1, ReportsStay DEF FlowInv
<1>6. DeletedAtEnd'
  BY <1>1, <1>2 DEF DeletedAtEnd, Read, Finish, Leave
<1>7. ReadClean'
  <2> SUFFICES ASSUME directive = "delete", consumer' \in {"reading", "deleted"},
                      NEW i \in 1..read'
               PROVE  ~reports[i].error
    BY <1>1 DEF ReadClean
  <2>1. \A j \in 1..read : ~reports[j].error
    BY <1>2 DEF FlowInv, ReadClean
  <2>2. CASE Read
    <3>1. read' = read + 1 /\ ~reports[read + 1].error
      BY <2>2 DEF Read
    <3>2. i \in 1..read \/ i = read + 1
      BY <1>2, <3>1
    <3> QED
      BY <2>1, <3>1, <3>2
  <2>3. CASE Finish \/ Leave
    BY <2>1, <2>3 DEF Finish, Leave
  <2> QED
    BY <2>2, <2>3
<1> QED
  BY <1>4, <1>5, <1>6, <1>7 DEF FlowInv

\* Every step keeps the invariant.
LEMMA FlowNextInv == FlowInv /\ [FlowNext]_flowVars => FlowInv'
<1> SUFFICES ASSUME FlowInv, [FlowNext]_flowVars PROVE FlowInv'
  OBVIOUS
<1>1. CASE UNCHANGED flowVars
  <2>1. UNCHANGED <<directive, unit, step, interrupted, reports, ended, read, consumer>>
    BY <1>1 DEF flowVars
  <2>2. FlowShaped'
    BY <2>1 DEF FlowInv, FlowShaped
  <2>3. InterruptedBy' /\ FinalOnce' /\ EndedSteps' /\ UnitsInOrder'
    BY <2>1, ReportsStay DEF FlowInv
  <2>4. ReadClean' /\ DeletedAtEnd'
    BY <2>1 DEF FlowInv, ReadClean, DeletedAtEnd
  <2> QED
    BY <2>2, <2>3, <2>4 DEF FlowInv
<1> QED
  BY <1>1, StepInv, UnitInv, ConsumerInv DEF FlowNext

\* One status per step is a set of one report.
LEMMA FlowInvReports == FlowInv => WorkflowReports
<1> SUFFICES ASSUME FlowInv PROVE WorkflowReports
  OBVIOUS
<1>1. FlowTyped
  <2>1. interrupted = \E report \in Reported : Failed(report)
    BY DEF FlowInv, FlowShaped, InterruptedBy, Reported
  <2>2. DOMAIN step = (IF unit = 0 THEN {} ELSE Unit[unit])
    BY DEF FlowInv, FlowShaped
  <2> QED
    BY <2>1, <2>2 DEF FlowInv, FlowShaped, FlowTyped
<1>2. EachReportedOnce
  <2> SUFFICES ASSUME ended, NEW u \in 1..unit, NEW s \in Unit[u]
               PROVE  Cardinality(Finals(u, s)) = 1
    BY DEF EachReportedOnce, Finals
  <2>1. u < unit \/ step[s] = "ended"
    BY DEF FlowInv, EndedSteps, FlowShaped
  <2>2. \E i \in 1..Len(reports) : Finals(u, s) = {i}
    BY <2>1 DEF FlowInv, FinalOnce
  <2> QED
    BY <2>2, FS_Singleton
<1>3. DeletedAfter
  BY DEF FlowInv, DeletedAtEnd, ReadClean, DeletedAfter, Reported
<1> QED
  BY <1>1, <1>2, <1>3 DEF FlowInv, WorkflowReports

\* A workflow and its reader keep the invariant (Execution.ts, Delete.ts).
THEOREM FlowInvariance == FlowSpec => []FlowInv
  BY FlowInitInv, FlowNextInv, PTL DEF FlowSpec

\* Whatever the steps return or stream and whenever the client leaves, the
\* report has them all, in order, and comes before the deletion.
THEOREM Reporting == FlowSpec => []WorkflowReports
  BY FlowInvariance, FlowInvReports, PTL
=============================================================================
