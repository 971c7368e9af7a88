---------------------------- MODULE MongoClients ----------------------------
(***************************************************************************)
(* The pool of MongoDB connections of a process (storages.mongodb Client). *)
(* Clients of the same deployment share one instance through the table     *)
(* INSTANCES; the instance counts the clients that use it and is closed by *)
(* the last of them.  Every await of open() and close() is a step.         *)
(*                                                                         *)
(* The process opens its clients when a composition connects and closes    *)
(* them when it disconnects: while a client is being closed no other one   *)
(* is being opened, unless Overlap.                                        *)
(***************************************************************************)
EXTENDS Naturals, FiniteSets

CONSTANTS
    Clients,      \* Client objects, one per component
    Keys,         \* getKey(): database and sorted URLs
    KeyOf,        \* the key of each client
    Instances,    \* results of createInstance(): bounds how many are created
    Nothing,
    Overlap       \* whether an open() may overlap a close()

ASSUME ClientsAssumption ==
    /\ IsFiniteSet(Clients)
    /\ KeyOf \in [Clients -> Keys]
    /\ Nothing \notin Instances
    /\ Overlap \in BOOLEAN

VARIABLES
    phase,      \* where each client is
    uses,       \* client.instance: the promise it awaits, then the instance
    table,      \* INSTANCES: key -> promise of an instance
    link,       \* the MongoClient of each instance
    count       \* instance.count

vars == <<phase, uses, table, link, count>>

Opening == {"resolving", "connecting", "creating"}
Closing == {"releasing", "closing"}
Phases == Opening \cup Closing \cup {"idle", "open", "failed", "leaked", "closed"}
Links == {"none", "connecting", "connected", "refused", "closing", "closed"}

TypeOK ==
    /\ phase \in [Clients -> Phases]
    /\ uses \in [Clients -> Instances \cup {Nothing}]
    /\ table \in [Keys -> Instances \cup {Nothing}]
    /\ link \in [Instances -> Links]
    /\ count \in [Instances -> Nat]

Init ==
    /\ phase = [c \in Clients |-> "idle"]
    /\ uses = [c \in Clients |-> Nothing]
    /\ table = [k \in Keys |-> Nothing]
    /\ link = [i \in Instances |-> "none"]
    /\ count = [i \in Instances |-> 0]

Goto(c, p) == phase' = [phase EXCEPT ![c] = p]

\* open(): the URLs are resolved first.
Open(c) ==
    /\ phase[c] = "idle"
    /\ Overlap \/ \A d \in Clients : phase[d] \notin Closing
    /\ Goto(c, "resolving")
    /\ UNCHANGED <<uses, table, link, count>>

\* TOA_CONTEXT is not defined, or no annotation points to the database.
Unresolved(c) ==
    /\ phase[c] = "resolving"
    /\ Goto(c, "failed")
    /\ UNCHANGED <<uses, table, link, count>>

\* INSTANCES[key] ??= createInstance(): the promise is there, or is put there.
Claim(c, i) ==
    /\ phase[c] = "resolving"
    /\ \/ table[KeyOf[c]] = i /\ UNCHANGED <<table, link>>
       \/ /\ table[KeyOf[c]] = Nothing
          /\ link[i] = "none"
          /\ table' = [table EXCEPT ![KeyOf[c]] = i]
          /\ link' = [link EXCEPT ![i] = "connecting"]
    /\ uses' = [uses EXCEPT ![c] = i]
    /\ Goto(c, "connecting")
    /\ UNCHANGED count

\* client.connect() resolves, or rejects.
Connect(i) ==
    /\ link[i] = "connecting"
    /\ \E l \in {"connected", "refused"} : link' = [link EXCEPT ![i] = l]
    /\ UNCHANGED <<phase, uses, table, count>>

\* The promise is awaited: the client is counted.
Counted(c) ==
    /\ phase[c] = "connecting"
    /\ link[uses[c]] \in {"connected", "closing", "closed"}
    /\ count' = [count EXCEPT ![uses[c]] = @ + 1]
    /\ Goto(c, "creating")
    /\ UNCHANGED <<uses, table, link>>

\* A rejected promise stays in the table: nobody takes it out.
Refused(c) ==
    /\ phase[c] = "connecting"
    /\ link[uses[c]] = "refused"
    /\ Goto(c, "failed")
    /\ UNCHANGED <<uses, table, link, count>>

\* createCollection(): it is created or exists already, or throws; the client
\* stays counted even then.
Create(c) ==
    /\ phase[c] = "creating"
    /\ \/ Goto(c, "open")
       \/ Goto(c, "leaked")
    /\ UNCHANGED <<uses, table, link, count>>

-----------------------------------------------------------------------------
\* close(): the instance is looked up again.
Close(c) ==
    /\ phase[c] = "open"
    /\ Overlap \/ \A d \in Clients : phase[d] \notin Opening
    /\ table[KeyOf[c]] # Nothing    \* a TypeError otherwise
    /\ uses' = [uses EXCEPT ![c] = table[KeyOf[c]]]
    /\ Goto(c, "releasing")
    /\ UNCHANGED <<table, link, count>>

ReleaseLate(c) ==    \* faulty: the count is looked at before it is decreased
    /\ phase[c] = "releasing"
    /\ count' = [count EXCEPT ![uses[c]] = @ - 1]
    /\ IF count[uses[c]] = 0
       THEN /\ link' = [link EXCEPT ![uses[c]] = "closing"]
            /\ Goto(c, "closing")
       ELSE Goto(c, "closed") /\ UNCHANGED link
    /\ UNCHANGED <<uses, table>>

\* The last client closes the connection.
Release(c) ==
    /\ phase[c] = "releasing"
    /\ count' = [count EXCEPT ![uses[c]] = @ - 1]
    /\ IF count[uses[c]] = 1
       THEN /\ link' = [link EXCEPT ![uses[c]] = "closing"]
            /\ Goto(c, "closing")
       ELSE Goto(c, "closed") /\ UNCHANGED link
    /\ UNCHANGED <<uses, table>>

\* client.close() resolves: the key is taken out of the table.
Shut(c) ==
    /\ phase[c] = "closing"
    /\ link' = [link EXCEPT ![uses[c]] = "closed"]
    /\ table' = [table EXCEPT ![KeyOf[c]] = Nothing]
    /\ Goto(c, "closed")
    /\ UNCHANGED <<uses, count>>

Next ==
    \/ \E c \in Clients :
        \/ Open(c)
        \/ Unresolved(c)
        \/ \E i \in Instances : Claim(c, i)
        \/ Counted(c)
        \/ Refused(c)
        \/ Create(c)
        \/ Close(c)
        \/ Release(c)
        \/ Shut(c)
    \/ \E i \in Instances : Connect(i)

Spec == Init /\ [][Next]_vars

-----------------------------------------------------------------------------
\* The clients that have been counted in by instance i and not yet out.
Holders(i) ==
    {c \in Clients : /\ phase[c] \in {"creating", "open", "releasing", "leaked"}
                     /\ uses[c] = i}

\* An open client works on a live connection, the one its key names.
OpenIsConnected ==
    \A c \in Clients :
        phase[c] = "open" =>
            link[uses[c]] = "connected" /\ table[KeyOf[c]] = uses[c]

\* A deployment is connected to once: two live connections are never there
\* for clients of one key.
OneConnection ==
    \A c, d \in Clients :
        /\ KeyOf[c] = KeyOf[d]
        /\ {phase[c], phase[d]} \subseteq {"connecting", "creating", "open", "releasing"}
        => uses[c] = uses[d]

\* Reference counting: the count of an instance is the number of the clients
\* that hold it, those included that failed after they were counted.
CountsHolders == \A i \in Instances : count[i] = Cardinality(Holders(i))

\* Nothing leaks: when nobody opens or closes, a connection is up exactly
\* while some client holds it.
ClosedWhenUnused ==
    (\A c \in Clients : phase[c] \notin Opening \cup Closing) =>
        \A i \in Instances : link[i] = "connected" => Holders(i) # {}

\* A deployment's connection is one, up while it is held and only then: what
\* open() promises each client and close() the others (client.js).
ClientsShared ==
    TypeOK /\ OpenIsConnected /\ OneConnection /\ CountsHolders /\ ClosedWhenUnused
=============================================================================
