------------------------------ MODULE Discovery ------------------------------
(***************************************************************************)
(* Compositions that boot and find each other (boot composition, receivers,*)
(* discovery, remote; core Discovery, Context, Exposition).  A process     *)
(* exposes its components, then resolves the sources of its receivers by   *)
(* asking the components that emit the events, and is up afterwards; a     *)
(* component that is up calls others through its context, which asks them  *)
(* for their manifest first.  Requests for a manifest wait in a queue for  *)
(* the component they are meant for.                                       *)
(***************************************************************************)
EXTENDS Naturals, FiniteSets

CONSTANTS
    Processes,
    Components,
    Host,         \* the process that runs each component
    Inquiries,    \* lookups: of a receiver at boot, or of a context's remote
    AtBoot,       \* those of receivers
    Inquirer,     \* the component that needs the lookup
    Target,       \* the component that is looked up
    Calls,        \* calls of context.call()
    Through,      \* the context and remote of each of them: an inquiry
    Nobody,
    MaxCrashes    \* bounds how often a process dies

ASSUME DiscoveryAssumption ==
    /\ Host \in [Components -> Processes]
    /\ AtBoot \subseteq Inquiries
    /\ Inquirer \in [Inquiries -> Components]
    /\ Target \in [Inquiries -> Components]
    /\ Through \in [Calls -> Inquiries \ AtBoot]
    /\ Nobody \notin Inquiries
    /\ MaxCrashes \in Nat

VARIABLES
    stage,      \* how far composition() is in each process
    exposed,    \* components whose exposition is connected
    instance,   \* the Discovery of each process
    inquiry,    \* where each lookup is
    lookups,    \* discovery.#lookups of each process
    held,       \* connectors that the discovery of each process depends on
    call,       \* where each call is
    crashes

vars == <<stage, exposed, instance, inquiry, lookups, held, call, crashes>>

\* A lookup that creates a connector is named after the inquiry that does.
Connectors == Inquiries
At(i) == Host[Inquirer[i]]
Own(p) == {i \in Inquiries : At(i) = p}

Steps == {"idle", "waiting", "creating", "asking", "connecting", "done", "failed"}

TypeOK ==
    /\ stage \in [Processes -> {"down", "exposing", "receivers", "up"}]
    /\ exposed \subseteq Components
    /\ instance \in [Processes -> {"none", "connecting", "connected"}]
    /\ inquiry \in [Inquiries -> [step : Steps, call : Connectors \cup {Nobody}]]
    /\ lookups \in [Processes -> [Components -> Connectors \cup {Nobody}]]
    /\ held \in [Processes -> SUBSET Connectors]
    /\ call \in [Calls -> {"idle", "waiting", "answered", "failed", "lost"}]
    /\ crashes \in 0..MaxCrashes

NoInquiry == [step |-> "idle", call |-> Nobody]
NoLookups == [c \in Components |-> Nobody]

Init ==
    /\ stage = [p \in Processes |-> "down"]
    /\ exposed = {}
    /\ instance = [p \in Processes |-> "none"]
    /\ inquiry = [i \in Inquiries |-> NoInquiry]
    /\ lookups = [p \in Processes |-> NoLookups]
    /\ held = [p \in Processes |-> {}]
    /\ call = [c \in Calls |-> "idle"]
    /\ crashes = 0

-----------------------------------------------------------------------------
(* composition() *)

Start(p) ==
    /\ stage[p] = "down"
    /\ stage' = [stage EXCEPT ![p] = "exposing"]
    /\ UNCHANGED <<exposed, instance, inquiry, lookups, held, call, crashes>>

ExposeLate(p) ==    \* faulty: expositions are connected after the receivers
    /\ \/ /\ stage[p] = "exposing"
          /\ stage' = [stage EXCEPT ![p] = "receivers"]
          /\ UNCHANGED exposed
       \/ /\ stage[p] = "receivers"
          /\ \A i \in AtBoot \cap Own(p) : inquiry[i].step = "done"
          /\ exposed' = exposed \cup {c \in Components : Host[c] = p}
          /\ UNCHANGED stage
    /\ UNCHANGED <<instance, inquiry, lookups, held, call, crashes>>

\* expose(): the producers of `.lookup` are connected before anything else.
Expose(p) ==
    /\ stage[p] = "exposing"
    /\ exposed' = exposed \cup {c \in Components : Host[c] = p}
    /\ stage' = [stage EXCEPT ![p] = "receivers"]
    /\ UNCHANGED <<instance, inquiry, lookups, held, call, crashes>>

\* The bindings of all receivers are resolved: the composition connects.
Complete(p) ==
    /\ stage[p] = "receivers"
    /\ \A i \in AtBoot \cap Own(p) : inquiry[i].step = "done"
    /\ stage' = [stage EXCEPT ![p] = "up"]
    /\ UNCHANGED <<exposed, instance, inquiry, lookups, held, call, crashes>>

\* The process dies, and what it holds dies with it.
Crash(p) ==
    /\ crashes < MaxCrashes
    /\ stage[p] # "down"
    /\ stage' = [stage EXCEPT ![p] = "down"]
    /\ exposed' = exposed \ {c \in Components : Host[c] = p}
    /\ instance' = [instance EXCEPT ![p] = "none"]
    /\ inquiry' = [i \in Inquiries |-> IF i \in Own(p) THEN NoInquiry ELSE inquiry[i]]
    /\ lookups' = [lookups EXCEPT ![p] = NoLookups]
    /\ held' = [held EXCEPT ![p] = {}]
    /\ call' = [c \in Calls |-> IF Through[c] \in Own(p) /\ call[c] = "waiting"
                                THEN "lost" ELSE call[c]]
    /\ crashes' = crashes + 1

-----------------------------------------------------------------------------
(* A lookup *)

Move(i, step) == inquiry' = [inquiry EXCEPT ![i].step = step]

\* resolveBinding() of a receiver, or boot.remote() of a context: the process
\* has one Discovery; the first to need it creates it.
Begin(i) ==
    /\ inquiry[i].step = "idle"
    /\ Move(i, "waiting")
    /\ instance' = [instance EXCEPT ![At(i)] = IF @ = "none" THEN "connecting" ELSE @]
    /\ UNCHANGED <<stage, exposed, lookups, held, crashes>>

Resolve(i) ==
    /\ i \in AtBoot
    /\ stage[At(i)] = "receivers"
    /\ Begin(i) /\ UNCHANGED call

Connected(p) ==
    /\ instance[p] = "connecting"
    /\ instance' = [instance EXCEPT ![p] = "connected"]
    /\ UNCHANGED <<stage, exposed, inquiry, lookups, held, call, crashes>>

\* lookup(): the connector of an earlier lookup is used, or one is created,
\* which is awaited.
Lookup(i) ==
    LET known == lookups[At(i)][Target[i]] IN
    /\ inquiry[i].step = "waiting"
    /\ instance[At(i)] = "connected"
    /\ inquiry' = [inquiry EXCEPT ![i] =
          IF known = Nobody THEN [step |-> "creating", call |-> i]
                            ELSE [step |-> "asking", call |-> known]]
    /\ UNCHANGED <<stage, exposed, instance, lookups, held, call, crashes>>

CreatedDropped(i) ==    \* faulty: the one that was replaced is let go
    /\ inquiry[i].step = "creating"
    /\ lookups' = [lookups EXCEPT ![At(i)][Target[i]] = i]
    /\ held' = [held EXCEPT ![At(i)] = (@ \ {lookups[At(i)][Target[i]]}) \cup {i}]
    /\ Move(i, "asking")
    /\ UNCHANGED <<stage, exposed, instance, call, crashes>>

\* It is connected and stored: another one, created by a concurrent lookup of
\* the same component, is replaced, but stays a dependency.
Created(i) ==
    /\ inquiry[i].step = "creating"
    /\ lookups' = [lookups EXCEPT ![At(i)][Target[i]] = i]
    /\ held' = [held EXCEPT ![At(i)] = @ \cup {i}]
    /\ Move(i, "asking")
    /\ UNCHANGED <<stage, exposed, instance, call, crashes>>

\* The exposition of the component answers; what waits for it is answered
\* once it is there.
Asked(i) ==
    /\ inquiry[i].step = "asking"
    /\ Target[i] \in exposed
    /\ Move(i, IF i \in AtBoot THEN "done" ELSE "connecting")
    /\ UNCHANGED <<stage, exposed, instance, lookups, held, call, crashes>>

\* remote.connect(), and the context depends on the remote.
Remote(i) ==
    /\ inquiry[i].step = "connecting"
    /\ Move(i, "done")
    /\ UNCHANGED <<stage, exposed, instance, lookups, held, call, crashes>>

\* Connecting fails: the promise that context keeps for the remote is rejected
\* for as long as the process lives.
Broken(i) ==
    /\ crashes < MaxCrashes
    /\ i \notin AtBoot    \* composition() rejects and the process ends: Crash
    /\ inquiry[i].step \in {"creating", "connecting"}
    /\ Move(i, "failed")
    /\ crashes' = crashes + 1
    /\ UNCHANGED <<stage, exposed, instance, lookups, held, call>>

-----------------------------------------------------------------------------
(* context.call() *)

\* #remotes[key] ??= #connect(): the first call starts the lookup.
Call(c) ==
    /\ stage[At(Through[c])] = "up"
    /\ call[c] = "idle"
    /\ call' = [call EXCEPT ![c] = "waiting"]
    /\ \/ Begin(Through[c])
       \/ /\ inquiry[Through[c]].step # "idle"
          /\ UNCHANGED <<stage, exposed, instance, inquiry, lookups, held, crashes>>

\* The remote is there: its operation is invoked (module RemoteCalls).
Invoke(c) ==
    /\ call[c] = "waiting"
    /\ inquiry[Through[c]].step = "done"
    /\ call' = [call EXCEPT ![c] = "answered"]
    /\ UNCHANGED <<stage, exposed, instance, inquiry, lookups, held, crashes>>

\* The rejected promise is what every call through the remote gets.
InvokeFailed(c) ==
    /\ call[c] = "waiting"
    /\ inquiry[Through[c]].step = "failed"
    /\ call' = [call EXCEPT ![c] = "failed"]
    /\ UNCHANGED <<stage, exposed, instance, inquiry, lookups, held, crashes>>

-----------------------------------------------------------------------------
Boot(p) == Start(p) \/ Expose(p) \/ Complete(p) \/ Connected(p)
Inquire(i) == Resolve(i) \/ Lookup(i) \/ Created(i) \/ Asked(i) \/ Remote(i)
Answer(c) == Invoke(c) \/ InvokeFailed(c)

Next ==
    \/ \E p \in Processes : Boot(p) \/ Crash(p)
    \/ \E i \in Inquiries : Inquire(i) \/ Broken(i)
    \/ \E c \in Calls : Call(c) \/ Answer(c)

Spec == Init /\ [][Next]_vars

-----------------------------------------------------------------------------
\* No connector is orphaned: whatever concurrent lookups of one component
\* create, each of them is a dependency of the discovery that is disconnected
\* with it, and a lookup only ever asks through such a one.
NoOrphans ==
    /\ \A i \in Inquiries : inquiry[i].step \in {"asking", "connecting", "done"} =>
          inquiry[i].call \in held[At(i)]
    /\ \A p \in Processes, c \in Components :
          lookups[p][c] # Nobody =>
              lookups[p][c] \in held[p] /\ Target[lookups[p][c]] = c

\* A context looks a component up once: the calls that come while it does, or
\* after it failed, get what the first one gets, until the process ends.
RemoteKept ==
    [][\A i \in Inquiries :
          inquiry[i].step # "idle" /\ inquiry'[i].step = "waiting"
          => inquiry[i].step = "waiting"]_vars

\* Compositions whose receivers need each other all come up: each exposes its
\* components before it asks for those of the others.
BootsTogether == <>[](\A p \in Processes : stage[p] = "up")

\* A call is answered when the component it needs gets up, unless its own
\* process dies.
CallsAnswered == \A c \in Calls : call[c] = "waiting" ~> call[c] # "waiting"

\* The connectors a process has created for lookups are all in its hands, and
\* lookups are cached under the component they are of (discovery.js).
RemotesHeld == TypeOK /\ NoOrphans
=============================================================================
