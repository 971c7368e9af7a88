-------------------------- MODULE CompositionsProofs --------------------------
(***************************************************************************)
(* For any compositions, whatever they declare: those that are connected   *)
(* hold what they own of the process' loop, a start that failed holds no   *)
(* operation, and components, receivers and contexts have the extensions   *)
(* of their own start.  For any files of environments and sets of secrets: *)
(* what somebody typed stays, and no secret is lost by a command that was  *)
(* alone.  For any context: what is deployed can be pulled, holds what it  *)
(* is named after, is built upon the base of its components, and resolves  *)
(* URLs and credentials as annotated.                                      *)
(***************************************************************************)
EXTENDS Compositions, Environments, Deployment, FiniteSetTheorems, SequenceTheorems, TLAPS

-----------------------------------------------------------------------------
(* The inductive invariant *)

Stages == {"idle", "exposing", "building", "assembled", "connected", "disconnected", "failed"}

\* A start that has read its manifests, unless it failed.
Booted(c) == starts[c] \in Stages \ {"idle", "failed"}

Shaped == /\ starts \in [All -> Stages]
          /\ DOMAIN manifests = All /\ DOMAIN built = All /\ DOMAIN listeners = All

\* Manifests are those of the declarations and of the start's options.
Loaded ==
    \A c \in All :
        /\ \A x \in DOMAIN manifests[c] : /\ x \in Paths[c] /\ manifests[c][x] = Given(c, x)
                                          /\ Override(c) # Absent => Overridden(c) # Absent
        /\ Booted(c) => DOMAIN manifests[c] = Paths[c]

\* Who has exposed the components, and connected them, holds their endpoints.
Holding ==
    \A c \in All :
        /\ starts[c] \in {"building", "assembled", "connected"} =>
              \A x \in Paths[c] : <<x, Lookup>> \in DOMAIN loop /\ loop[<<x, Lookup>>] = c
        /\ Up(c) => \A e \in Endpoints(manifests[c]) : e \in DOMAIN loop /\ loop[e] = c

\* Whatever is held is held by a start that has not been disconnected, and only
\* a connected one holds operations.
Held ==
    \A e \in DOMAIN loop :
        /\ loop[e] \in All /\ starts[loop[e]] \in {"building", "assembled", "connected", "failed"}
        /\ \/ e = <<e[1], Lookup>> /\ e[1] \in DOMAIN manifests[loop[e]]
           \/ Up(loop[e]) /\ e \in Endpoints(manifests[loop[e]])

\* The shared object has what the options of whoever shares it have.
Supplied ==
    /\ PredefinedExtensions \subseteq predefined
    /\ \A c \in All : \A x \in DOMAIN manifests[c] :
        DeclaredAs[x].extensions = {} => StartOptions[c].extensions \subseteq predefined

\* The process has the extensions of each start that has read its manifests.
Created == \A c \in All : Booted(c) => \A x \in Paths[c] : Own(c, x) \subseteq instances

\* A receiver without a binding of its own listens where the one that was
\* asked emits the event, or where the override says.
Listening ==
    \A c \in All : \A l \in listeners[c] :
        DeclaredAs[l.component].receivers[l.receiver] = [binding |-> Absent, foreign |-> FALSE] =>
            IF Override(c) = Absent
            THEN l.transport = Given(l.asked, l.receiver[1]).events[l.receiver[2]]
            ELSE l.transport = Overridden(c)

ProcessInv == /\ Shaped /\ Loaded /\ Holding /\ Held
              /\ Supplied /\ Created /\ DecoratedByAll /\ AspectsApart /\ Listening

-----------------------------------------------------------------------------
(* What a step leaves to the others *)

LEMMA InitInv == ProcessInit => ProcessInv
BY DEF ProcessInit, ProcessInv, Shaped, Loaded, Holding, Held, Supplied, Created, DecoratedByAll, AspectsApart,
       Listening, Stages, Booted, Up

LEMMA AddedTo ==
    ASSUME NEW f, NEW keys, NEW value
    PROVE  /\ DOMAIN Added(f, keys, value) = DOMAIN f \cup keys
           /\ \A k \in DOMAIN f : Added(f, keys, value)[k] = f[k]
           /\ \A k \in keys \ DOMAIN f : Added(f, keys, value)[k] = value
BY DEF Added

LEMMA StepShaped ==
    ASSUME Shaped, NEW c \in All, ProcessStep(c)
    PROVE  /\ Shaped'
           /\ \A d \in All \ {c} : /\ starts'[d] = starts[d] /\ manifests'[d] = manifests[d]
                                   /\ built'[d] = built[d] /\ listeners'[d] = listeners[d]
<1> USE DEF Shaped, Stages, Go
<1>1. ASSUME NEW x \in Paths[c], Manifest(c, x) PROVE Shaped' BY <1>1 DEF Manifest
<1>2. ASSUME NEW x \in Paths[c], Build(c, x) PROVE Shaped' BY <1>2 DEF Build
<1>3. CASE Tenant(c) BY <1>3 DEF Tenant
<1>4. CASE Expose(c) BY <1>4 DEF Expose
<1>5. CASE Break(c) BY <1>5 DEF Break
<1>6. CASE Assemble(c) BY <1>6 DEF Assemble
<1>7. CASE Connect(c) BY <1>7 DEF Connect
<1>8. CASE Disconnect(c) BY <1>8 DEF Disconnect
<1>9. QED BY <1>1, <1>2, <1>3, <1>4, <1>5, <1>6, <1>7, <1>8
         DEF ProcessStep, Manifest, Build, Tenant, Expose, Break, Assemble, Connect, Disconnect

\* Whoever has read its manifests has nothing more to read.
LEMMA Reads ==
    ASSUME Shaped, Loaded, NEW c \in All, ProcessStep(c)
    PROVE  Loaded'
<1> USE DEF Shaped, Stages, Go, Booted, Loaded
<1>0. \A d \in All \ {c} : starts'[d] = starts[d] /\ manifests'[d] = manifests[d] BY StepShaped
<1>1. ASSUME NEW x \in Paths[c], Manifest(c, x) PROVE Loaded'
  <2>1. CASE Override(c) # Absent /\ Overridden(c) = Absent BY <1>0, <1>1, <2>1 DEF Manifest
  <2>2. CASE ~(Override(c) # Absent /\ Overridden(c) = Absent)
    <3>1. /\ manifests'[c] = Added(manifests[c], {x}, Given(c, x)) /\ starts' = starts
          /\ starts[c] = "idle"
      BY <1>1, <2>2 DEF Manifest
    <3>2. \A y \in DOMAIN manifests'[c] : y \in Paths[c] /\ manifests'[c][y] = Given(c, y)
      BY <1>1, <3>1 DEF Added
    <3>3. ASSUME NEW d \in All
          PROVE (/\ \A y \in DOMAIN manifests[d] :
                       /\ y \in Paths[d] /\ manifests[d][y] = Given(d, y)
                       /\ Override(d) # Absent => Overridden(d) # Absent
                 /\ Booted(d) => DOMAIN manifests[d] = Paths[d])'
      <4>1. CASE d = c BY <2>2, <3>1, <3>2, <4>1
      <4>2. CASE d # c BY <1>0, <4>2
      <4>3. QED BY <4>1, <4>2
    <3>4. QED BY <3>3
  <2>3. QED BY <2>1, <2>2
<1>2. ASSUME NEW x \in Paths[c], Build(c, x) PROVE Loaded' BY <1>2 DEF Build
<1>3. CASE Tenant(c) BY <1>3 DEF Tenant
<1>4. CASE Expose(c) BY <1>4 DEF Expose
<1>5. CASE Break(c) BY <1>5 DEF Break
<1>6. CASE Assemble(c) BY <1>6 DEF Assemble
<1>7. CASE Connect(c) BY <1>7 DEF Connect
<1>8. CASE Disconnect(c) BY <1>8 DEF Disconnect
<1>9. QED BY <1>1, <1>2, <1>3, <1>4, <1>5, <1>6, <1>7, <1>8 DEF ProcessStep

-----------------------------------------------------------------------------
(* The loop *)

\* Endpoints are kept for who is there, and are taken by who is to be there.
LEMMA Holds ==
    ASSUME Shaped, Loaded, Holding, Held, NEW c \in All, ProcessStep(c)
    PROVE  Holding' /\ Held'
<1> USE DEF Shaped, Stages, Go, Booted, Up
<1>0. \A d \in All \ {c} : starts'[d] = starts[d] /\ manifests'[d] = manifests[d] BY StepShaped
<1>1. ASSUME NEW x \in Paths[c], Manifest(c, x) PROVE Holding' /\ Held'
  <2>1. /\ starts[c] = "idle" /\ loop' = loop /\ starts'[c] \in {"idle", "failed"}
        /\ starts' \in [All -> Stages]
    BY <1>1 DEF Manifest
  <2>2. \A e \in DOMAIN loop : loop[e] # c BY <2>1 DEF Held
  <2>3. Holding' BY <1>0, <2>1 DEF Holding
  <2>4. Held' BY <1>0, <2>1, <2>2 DEF Held
  <2>5. QED BY <2>3, <2>4
<1>2. ASSUME NEW x \in Paths[c], Build(c, x) PROVE Holding' /\ Held'
  BY <1>2 DEF Build, Holding, Held
<1>3. CASE Tenant(c) BY <1>3 DEF Tenant, Holding, Held
<1>4. CASE Expose(c)
  <2> DEFINE lookups == Paths[c] \X {Lookup}
  <2>1. /\ starts[c] = "exposing" /\ loop' = Added(loop, lookups, c) /\ manifests' = manifests
        /\ starts'[c] = IF lookups \cap DOMAIN loop = {} THEN "building" ELSE "failed"
        /\ DOMAIN manifests[c] = Paths[c]
    BY <1>4 DEF Expose, Takes, Loaded
  <2>2. \A e \in DOMAIN loop : loop[e] # c /\ loop'[e] = loop[e] /\ e \in DOMAIN loop'
    BY <2>1 DEF Added, Held
  <2>3. \A e \in DOMAIN loop' : e \in DOMAIN loop \/ (e \in lookups /\ loop'[e] = c)
    BY <2>1 DEF Added
  <2>4. \A e \in lookups : e \in DOMAIN loop' /\ (e \notin DOMAIN loop => loop'[e] = c)
    BY <2>1 DEF Added
  <2> HIDE DEF lookups
  <2>5. starts'[c] = "building" => \A x \in Paths[c] : <<x, Lookup>> \in DOMAIN loop' /\ loop'[<<x, Lookup>>] = c
    BY <2>1, <2>4 DEF lookups
  <2>6. Holding' BY <1>0, <2>1, <2>2, <2>5 DEF Holding
  <2>7. Held'
    <3> SUFFICES ASSUME NEW e \in DOMAIN loop'
        PROVE /\ loop'[e] \in All /\ starts'[loop'[e]] \in {"building", "assembled", "connected", "failed"}
              /\ \/ e = <<e[1], Lookup>> /\ e[1] \in DOMAIN manifests'[loop'[e]]
                 \/ starts'[loop'[e]] = "connected" /\ e \in Endpoints(manifests'[loop'[e]])
      BY DEF Held
    <3>1. CASE e \in DOMAIN loop BY <1>0, <2>1, <2>2, <3>1 DEF Held
    <3>2. CASE e \in lookups /\ loop'[e] = c BY <2>1, <3>2 DEF lookups
    <3>3. QED BY <2>3, <3>1, <3>2
  <2>8. QED BY <2>6, <2>7
<1>5. CASE Break(c) BY <1>5 DEF Break, Holding, Held
<1>6. CASE Assemble(c) BY <1>6 DEF Assemble, Holding, Held
<1>7. CASE Connect(c)
  <2>1. starts[c] = "assembled" /\ manifests' = manifests BY <1>7 DEF Connect
  <2>2. CASE starts'[c] = "failed" /\ loop' = Released(c)
    <3>1. DOMAIN loop' = {e \in DOMAIN loop : loop[e] # c} /\ \A e \in DOMAIN loop' : loop'[e] = loop[e]
      BY <2>2 DEF Released
    <3>2. Holding' BY <1>0, <2>1, <2>2, <3>1 DEF Holding
    <3>3. Held' BY <1>0, <2>1, <2>2, <3>1 DEF Held
    <3>4. QED BY <3>2, <3>3
  <2>3. CASE /\ starts'[c] = "connected" /\ Endpoints(manifests[c]) \cap DOMAIN loop = {}
             /\ loop' = Added(loop, Endpoints(manifests[c]), c)
    <3>1. /\ DOMAIN loop' = DOMAIN loop \cup Endpoints(manifests[c])
          /\ \A e \in DOMAIN loop : loop'[e] = loop[e]
          /\ \A e \in Endpoints(manifests[c]) : loop'[e] = c
      BY <2>3 DEF Added
    <3>2. Holding' BY <1>0, <2>1, <2>3, <3>1 DEF Holding
    <3>3. Held' BY <1>0, <2>1, <2>3, <3>1 DEF Held
    <3>4. QED BY <3>2, <3>3
  <2>4. QED BY <1>7, <2>2, <2>3 DEF Connect, Takes
<1>8. CASE Disconnect(c)
  <2>1. /\ starts[c] = "connected" /\ starts'[c] = "disconnected" /\ manifests' = manifests
        /\ DOMAIN loop' = DOMAIN loop \ Owned(c) /\ \A e \in DOMAIN loop' : loop'[e] = loop[e]
        /\ DOMAIN manifests[c] = Paths[c]
    BY <1>8 DEF Disconnect, Loaded
  <2>2. \A e \in Owned(c) : e \in DOMAIN loop /\ loop[e] = c BY <2>1 DEF Owned, Holding
  <2>3. \A e \in DOMAIN loop' : loop[e] # c BY <2>1 DEF Owned, Held
  <2>4. Holding' BY <1>0, <2>1, <2>2 DEF Holding
  <2>5. Held' BY <1>0, <2>1, <2>3 DEF Held
  <2>6. QED BY <2>4, <2>5
<1>9. QED BY <1>1, <1>2, <1>3, <1>4, <1>5, <1>6, <1>7, <1>8 DEF ProcessStep

-----------------------------------------------------------------------------
(* Extensions *)

\* What a component has of its own is among the extensions it is given.
LEMMA OwnGiven ==
    ASSUME Loaded, Supplied, NEW c \in All, DOMAIN manifests[c] = Paths[c], NEW x \in Paths[c]
    PROVE  Own(c, x) \subseteq ExtensionsOf(c, x)
BY DEF Supplied, Own, ExtensionsOf

LEMMA Supplies ==
    ASSUME Shaped, Loaded, Supplied, Created, NEW c \in All, ProcessStep(c)
    PROVE  Supplied' /\ Created'
<1> USE DEF Shaped, Stages, Go, Booted
<1>0. \A d \in All \ {c} : starts'[d] = starts[d] /\ manifests'[d] = manifests[d] BY StepShaped
<1>1. ASSUME NEW x \in Paths[c], Manifest(c, x) PROVE Supplied' /\ Created'
  <2>1. /\ starts[c] = "idle" /\ starts'[c] \in {"idle", "failed"} /\ instances' = instances
        /\ predefined \subseteq predefined'
    BY <1>1 DEF Manifest
  <2>2. \A y \in DOMAIN manifests'[c] :
            y \in DOMAIN manifests[c]
            \/ (y = x /\ (DeclaredAs[x].extensions = {} => StartOptions[c].extensions \subseteq predefined'))
    BY <1>1 DEF Added, Manifest
  <2>3. Supplied' BY <1>0, <2>1, <2>2 DEF Supplied
  <2>4. Created' BY <1>0, <2>1 DEF Created
  <2>5. QED BY <2>3, <2>4
<1>2. ASSUME NEW x \in Paths[c], Build(c, x) PROVE Supplied' /\ Created'
  BY <1>2 DEF Build, Supplied, Created
<1>3. CASE Tenant(c)
  <2>1. Supplied' BY <1>3 DEF Tenant, Supplied
  <2>2. /\ DOMAIN manifests[c] = Paths[c]
        /\ instances' = instances \cup UNION {ExtensionsOf(c, x) : x \in Paths[c]}
    BY <1>3 DEF Tenant
  <2>3. \A x \in Paths[c] : Own(c, x) \subseteq instances' BY <2>2, OwnGiven
  <2>4. Created' BY <1>0, <2>2, <2>3 DEF Created
  <2>5. QED BY <2>1, <2>4
<1>4. CASE Expose(c) BY <1>4 DEF Expose, Supplied, Created
<1>5. CASE Break(c) BY <1>5 DEF Break, Supplied, Created
<1>6. CASE Assemble(c) BY <1>6 DEF Assemble, Supplied, Created
<1>7. CASE Connect(c) BY <1>7 DEF Connect, Supplied, Created
<1>8. CASE Disconnect(c) BY <1>8 DEF Disconnect, Supplied, Created
<1>9. QED BY <1>1, <1>2, <1>3, <1>4, <1>5, <1>6, <1>7, <1>8 DEF ProcessStep

LEMMA Decorates ==
    ASSUME Shaped, Created, DecoratedByAll, NEW c \in All, ProcessStep(c)
    PROVE  DecoratedByAll'
<1> USE DEF Shaped, Stages, Go, Booted
<1>0. \A d \in All \ {c} : built'[d] = built[d] /\ listeners'[d] = listeners[d] BY StepShaped
<1>1. ASSUME NEW x \in Paths[c], Build(c, x) PROVE DecoratedByAll'
  <2>1. /\ \A y \in Paths[c] : Own(c, y) \subseteq instances
        /\ built'[c] = Added(built[c], {x}, instances \cap Decorators) /\ listeners' = listeners
    BY <1>1 DEF Build, Created
  <2>2. \A z \in DOMAIN built'[c] :
            (z \in DOMAIN built[c] /\ built'[c][z] = built[c][z])
            \/ built'[c][z] = instances \cap Decorators
    BY <2>1 DEF Added
  <2>3. \A y \in Paths[c] : \A z \in DOMAIN built'[c] : Own(c, y) \cap Decorators \subseteq built'[c][z]
    BY <2>1, <2>2 DEF DecoratedByAll
  <2>4. QED BY <1>0, <2>1, <2>3 DEF DecoratedByAll
<1>2. CASE Assemble(c)
  <2>1. /\ \A y \in Paths[c] : Own(c, y) \subseteq instances
        /\ \A l \in listeners'[c] : l \in listeners[c] \/ l.decorators = instances \cap Decorators
        /\ built' = built
    BY <1>2 DEF Assemble, Listener, Created
  <2>2. QED BY <1>0, <2>1 DEF DecoratedByAll
<1>3. CASE built' = built /\ listeners' = listeners BY <1>3 DEF DecoratedByAll
<1>4. QED BY <1>1, <1>2, <1>3 DEF ProcessStep, Manifest, Tenant, Expose, Break, Connect, Disconnect

LEMMA Separates ==
    ASSUME Shaped, Loaded, Supplied, AspectsApart, NEW c \in All, ProcessStep(c)
    PROVE  AspectsApart'
<1>0. \A d \in All \ {c} : starts'[d] = starts[d] BY StepShaped
<1>1. CASE Connect(c) /\ starts'[c] = "connected"
  <2>1. \A x \in Paths[c] : Own(c, x) \subseteq ExtensionsOf(c, x) /\ ~Conflict(c, x)
    BY <1>1, OwnGiven DEF Connect, Go, Shaped, Loaded, Booted, Stages
  <2>2. \A x \in Paths[c] : \A e, f \in Own(c, x) : e = f \/ Aspects[e] \cap Aspects[f] = {}
    BY <2>1 DEF Conflict
  <2>3. QED BY <1>0, <2>2 DEF AspectsApart, Up
<1>2. CASE starts'[c] # "connected" BY <1>0, <1>2 DEF AspectsApart, Up
<1>3. CASE starts'[c] = starts[c] BY <1>0, <1>3 DEF AspectsApart, Up
<1>4. QED BY <1>1, <1>2, <1>3
         DEF ProcessStep, Manifest, Build, Tenant, Expose, Break, Assemble, Connect, Disconnect, Go, Shaped

-----------------------------------------------------------------------------
(* Receivers *)

\* Whoever is asked has read the manifest of what it has exposed.
LEMMA HolderReads ==
    ASSUME Shaped, Loaded, Held, NEW x, Exposed(x)
    PROVE  Holder(x) \in All /\ x \in DOMAIN manifests[Holder(x)]
BY DEF Held, Exposed, Holder, Endpoints

LEMMA Listens ==
    ASSUME Shaped, Loaded, Held, Listening, NEW c \in All, ProcessStep(c)
    PROVE  Listening'
<1>0. \A d \in All \ {c} : listeners'[d] = listeners[d] BY StepShaped
<1>1. CASE Assemble(c) /\ listeners'[c] # listeners[c]
  <2>1. /\ listeners'[c] = {Listener(c, p) : p \in Receivers(c)}
        /\ \A p \in Receivers(c) : Listener(c, p).transport # Absent
        /\ \A p \in Receivers(c) : manifests[c][p[1]].receivers[p[2]] = Absent => Exposed(p[2][1])
        /\ DOMAIN manifests[c] = Paths[c]
    BY <1>1 DEF Assemble, Shaped, Loaded, Booted, Stages
  <2>2. ASSUME NEW l \in listeners'[c],
               DeclaredAs[l.component].receivers[l.receiver] = [binding |-> Absent, foreign |-> FALSE]
        PROVE  IF Override(c) = Absent
               THEN l.transport = Given(l.asked, l.receiver[1]).events[l.receiver[2]]
               ELSE l.transport = Overridden(c)
    <3>0. PICK x \in Paths[c] : \E r \in DOMAIN manifests[c][x].receivers : l = Listener(c, <<x, r>>)
      BY <2>1 DEF Receivers
    <3>1. PICK r \in DOMAIN manifests[c][x].receivers : l = Listener(c, <<x, r>>)
      BY <3>0
    <3>2. /\ l.component = x /\ l.receiver = r /\ l.asked = Asked(c, x, r)
          /\ l.transport = Transport(c, x, r)
      BY <3>1 DEF Listener
    <3>3. <<x, r>> \in Receivers(c) BY <3>1 DEF Receivers
    <3>4. manifests[c][x] = Given(c, x) BY <2>1 DEF Loaded
    <3>5. r \in DOMAIN DeclaredAs[x].receivers BY <3>1, <3>4 DEF Given
    <3>6. manifests[c][x].receivers[r] = IF Override(c) = Absent THEN Absent ELSE Overridden(c)
      BY <2>2, <3>2, <3>4, <3>5 DEF Given
    <3>7. CASE Override(c) # Absent
      BY <2>1, <3>2, <3>6, <3>7 DEF Transport, Loaded
    <3>8. CASE Override(c) = Absent
      <4>1. manifests[c][x].receivers[r] = Absent BY <3>6, <3>8
      <4>2. Exposed(r[1]) BY <2>1, <3>3, <4>1
      <4>3. Transport(c, x, r) # Absent BY <2>1, <3>1, <3>2, <3>3
      <4>4. Transport(c, x, r) = Events(r[1])[r[2]] BY <4>1, <4>3 DEF Transport
      <4>5. Events(r[1]) = Given(Holder(r[1]), r[1]).events BY <4>2, HolderReads DEF Events, Loaded
      <4>6. Asked(c, x, r) = Holder(r[1]) BY <4>1 DEF Asked
      <4>7. QED BY <3>2, <3>8, <4>4, <4>5, <4>6
    <3>9. QED BY <3>7, <3>8
  <2>3. QED BY <1>0, <2>2 DEF Listening
<1>2. CASE listeners'[c] = listeners[c] BY <1>0, <1>2 DEF Listening
<1>3. QED BY <1>1, <1>2 DEF ProcessStep, Manifest, Build, Tenant, Expose, Break, Connect, Disconnect

-----------------------------------------------------------------------------
(* The compositions of a process *)

LEMMA StepInv == ProcessInv /\ [ProcessNext]_processVars => ProcessInv'
<1> SUFFICES ASSUME ProcessInv, [ProcessNext]_processVars PROVE ProcessInv' OBVIOUS
<1>1. ASSUME NEW c \in All, ProcessStep(c) PROVE ProcessInv'
  BY <1>1, StepShaped, Reads, Holds, Supplies, Decorates, Separates, Listens DEF ProcessInv
<1>2. CASE UNCHANGED processVars
  <2> USE <1>2 DEF processVars, ProcessInv, Booted, Up
  <2>1. Shaped' /\ Loaded' BY DEF Shaped, Loaded
  <2>2. Holding' /\ Held' BY DEF Holding, Held
  <2>3. Supplied' /\ Created' BY DEF Supplied, Created
  <2>4. DecoratedByAll' /\ AspectsApart' BY DEF DecoratedByAll, AspectsApart
  <2>5. Listening' BY DEF Listening
  <2>6. QED BY <2>1, <2>2, <2>3, <2>4, <2>5
<1>3. QED BY <1>1, <1>2 DEF ProcessNext

\* Each operation is bound to the loop, and to what else its manifest has.
LEMMA LoopedAll ==
    ASSUME NEW m
    PROVE  /\ Looped(m) = DOMAIN m.operations
           /\ \A o \in DOMAIN m.operations : \A b \in Bindings(m, o) :
                 \E p \in Producers(m) : p.binding = b /\ o \in p.operations
<1>1. ASSUME NEW o \in DOMAIN m.operations, NEW b \in Bindings(m, o)
      PROVE  \E p \in Producers(m) : p.binding = b /\ o \in p.operations
  <2> DEFINE p == [binding |-> b, operations |-> {u \in DOMAIN m.operations : b \in Bindings(m, u)}]
  <2>1. p \in Producers(m) BY DEF Producers
  <2>2. QED BY <2>1
<1>2. Looped(m) \subseteq DOMAIN m.operations BY DEF Looped, Producers
<1>3. \A o \in DOMAIN m.operations : Loop \in Bindings(m, o) BY DEF Bindings
<1>4. DOMAIN m.operations \subseteq Looped(m) BY <1>1, <1>3 DEF Looped
<1>5. QED BY <1>1, <1>2, <1>4

LEMMA InvSound == ProcessInv => CompositionsSound
<1> SUFFICES ASSUME ProcessInv PROVE CompositionsSound OBVIOUS
<1> USE DEF ProcessInv
<1>1. LocallyReached
  BY DEF Shaped, Loaded, Holding, Held, LocallyReached, Owned, Up, Booted, Stages
<1>2. FailuresHoldNothing BY DEF FailuresHoldNothing, Held, Up
<1>3. SameTransport
  <2> SUFFICES ASSUME NEW c \in All, NEW d \in All, NEW l \in listeners[c],
                      Up(c), Up(d), l.receiver[1] \in Paths[d],
                      DeclaredAs[l.component].receivers[l.receiver] = [binding |-> Absent, foreign |-> FALSE],
                      IF Override(c) = Absent THEN l.asked = d
                      ELSE /\ Override(d) = Override(c)
                           /\ l.receiver[2] \in DOMAIN DeclaredAs[l.receiver[1]].events
               PROVE  l.transport = manifests[d][l.receiver[1]].events[l.receiver[2]]
    BY DEF SameTransport
  <2>1. manifests[d][l.receiver[1]] = Given(d, l.receiver[1]) BY DEF Loaded, Up, Booted, Shaped, Stages
  <2>2. CASE Override(c) = Absent BY <2>1, <2>2 DEF Listening
  <2>3. CASE Override(c) # Absent
    <3>1. l.transport = Overridden(c) BY <2>3 DEF Listening
    <3>2. Override(d) = Override(c) /\ Overridden(d) = Overridden(c) BY <2>3 DEF Overridden
    <3>3. Given(d, l.receiver[1]).events[l.receiver[2]] = Overridden(d) BY <2>3, <3>2 DEF Given
    <3>4. QED BY <2>1, <3>1, <3>2, <3>3
  <2>4. QED BY <2>2, <2>3
<1>4. CallsProduced
  <2> SUFFICES ASSUME NEW c \in All, Up(c), NEW x \in Paths[c], NEW o \in DOMAIN manifests[c][x].operations
               PROVE  /\ <<x, o>> \in DOMAIN loop
                      /\ \A b \in Bindings(manifests[c][x], o) :
                            \E p \in Producers(manifests[c][x]) : p.binding = b /\ o \in p.operations
    BY DEF CallsProduced
  <2>1. x \in DOMAIN manifests[c] BY DEF Loaded, Up, Booted, Shaped, Stages
  <2>2. <<x, o>> \in Endpoints(manifests[c]) BY <2>1, LoopedAll DEF Endpoints
  <2>3. <<x, o>> \in DOMAIN loop BY <2>2 DEF Holding
  <2>4. QED BY <2>3, LoopedAll
<1>5. QED BY <1>1, <1>2, <1>3, <1>4 DEF CompositionsSound

\* Compositions of a process stand apart and reach each other: one that is
\* connected is reached at each of its operations whatever else is started of
\* the same components and fails, a start that failed holds no operation, and
\* components, receivers and contexts have the extensions of their own start
\* (boot's composition, and the loop binding).
THEOREM Apart == ProcessSpec => []CompositionsSound
<1>1. ProcessInv /\ [ProcessNext]_processVars => ProcessInv' BY StepInv
<1>2. QED BY InitInv, <1>1, InvSound, PTL DEF ProcessSpec

----------------------------------------------------------------------------
(* Environments *)

\* The file has what somebody has put there.
Filed ==
    /\ env # Missing => \E e \in DOMAIN Environments : env \in [Names(e) -> Texts]
    /\ selected # Missing => env # Missing
    /\ DOMAIN written # {} => env # Missing /\ DOMAIN written \subseteq DOMAIN env

\* A command that has read a secret read nothing that was not concealed before.
Commanded ==
    /\ DOMAIN command = Commands
    /\ \A c \in Commands :
        /\ DOMAIN command[c] = {"todo", "read"}
        /\ command[c].read # Missing =>
              DOMAIN command[c].read.data \subseteq DOMAIN Under(concealed, Head(command[c].todo).secret)

\* Secrets are there when something was concealed in them.
There == DOMAIN secrets = DOMAIN concealed

EnvironmentsInv == Filed /\ Commanded /\ There /\ EnvironmentsKept

LEMMA EnvironmentsInitial == EnvironmentsSane /\ FilesInit => EnvironmentsInv
BY DEF FilesInit, EnvironmentsInv, Filed, Commanded, There, EnvironmentsKept, Preserved, Entire, Concealed, NoCommand

\* The file is written anew, with what is in it.
LEMMA EnvKeeps ==
    ASSUME EnvironmentsSane, EnvironmentsInv, NEW e \in DOMAIN Environments, NEW interactive \in BOOLEAN,
           Env(e, interactive)
    PROVE  EnvironmentsInv'
<1> DEFINE merged == Merged(e)
           unknown == Unknown(merged)
           typed == IF interactive THEN unknown ELSE {}
<1>0. Filed /\ Commanded /\ There /\ Preserved /\ Entire /\ Concealed
  BY DEF EnvironmentsInv, EnvironmentsKept
<1>1. PICK answers \in [IF interactive THEN Prompts(e, merged) ELSE {} -> Words] :
        /\ env' = [n \in Names(e) |-> IF n \notin unknown THEN merged[n].value
                                      ELSE IF interactive THEN answers[Key(e, n)] ELSE Empty]
        /\ written' = [n \in (DOMAIN written \cap SecretNames(e)) \cup typed |->
                          IF n \in typed THEN env'[n] ELSE written[n]]
        /\ selected' = e /\ asked' = interactive
        /\ UNCHANGED <<secrets, command, concealed, raced>>
  BY DEF Env
<1>2. \A n \in Names(e) \ SecretNames(e) : merged[n] = Variables(e)[n] /\ Variables(e)[n].secret = Missing
  BY DEF Merged, SecretNames
<1>3. \A n \in SecretNames(e) :
        /\ n \in Names(e) /\ Variables(e)[n].secret # Missing
        /\ InFile(n) = Empty => merged[n] = Variables(e)[n]
        /\ InFile(n) # Empty => merged[n].value = InFile(n) /\ merged[n].secret = Missing
  BY DEF Merged, SecretNames
<1>4. unknown = {n \in SecretNames(e) : InFile(n) = Empty}
  BY <1>2, <1>3 DEF Unknown, Merged, SecretNames
<1>5. \A n \in unknown : interactive => answers[Key(e, n)] \in Words
  BY <1>4 DEF Prompts
<1>6. \A n \in Names(e) : n \notin unknown =>
        /\ merged[n].value = Variables(e)[n].value \/ (env # Missing /\ n \in DOMAIN env /\ merged[n].value = env[n])
        /\ merged[n].value # Empty
  BY <1>2, <1>3, <1>4 DEF EnvironmentsSane, InFile
<1>7. env' \in [Names(e) -> Texts]
  <2>1. \A n \in Names(e) : Variables(e)[n].value \in Texts
    BY DEF Texts
  <2>2. Words \subseteq Texts /\ Empty \in Texts
    BY DEF Texts
  <2>3. env # Missing => \A n \in DOMAIN env : env[n] \in Texts
    BY <1>0 DEF Filed
  <2> QED
    BY <2>1, <2>2, <2>3, <1>1, <1>5, <1>6
<1>8. env' # Missing
  BY <1>7 DEF EnvironmentsSane
<1>9. Filed'
  BY <1>1, <1>4, <1>7, <1>8, <1>3 DEF Filed
<1>10. Preserved'
  <2> SUFFICES ASSUME NEW n \in DOMAIN written', n \notin typed PROVE env'[n] = written[n]
    BY <1>1 DEF Preserved
  <2>1. n \in DOMAIN written /\ n \in SecretNames(e)
    BY <1>1
  <2>2. env # Missing /\ n \in DOMAIN env /\ InFile(n) = env[n] /\ env[n] = written[n]
    BY <2>1, <1>0 DEF Filed, Preserved, InFile
  <2> QED
    BY <2>1, <2>2, <1>1, <1>3, <1>4
<1>11. Entire'
  <2>1. DOMAIN env' = Names(e)
    BY <1>1
  <2>2. \A n \in Names(e) \ SecretNames(e) : env'[n] = Variables(e)[n].value
    BY <1>1, <1>2, <1>4
  <2>3. asked' => \A n \in Names(e) : env'[n] # Empty
    BY <1>1, <1>5, <1>6 DEF EnvironmentsSane
  <2> QED
    BY <2>1, <2>2, <2>3, <1>1 DEF Entire, Names, SecretNames, Variables
<1>12. Commanded' /\ There' /\ Concealed'
  BY <1>0, <1>1 DEF Commanded, There, Concealed, Under
<1> QED
  BY <1>9, <1>10, <1>11, <1>12 DEF EnvironmentsInv, EnvironmentsKept

LEMMA WriteKeeps ==
    ASSUME EnvironmentsSane, EnvironmentsInv, NEW n, NEW word \in Words, Write(n, word)
    PROVE  EnvironmentsInv'
<1>0. Filed /\ Commanded /\ There /\ Preserved /\ Entire /\ Concealed
  BY DEF EnvironmentsInv, EnvironmentsKept
<1>1. /\ env # Missing /\ n \in DOMAIN env /\ env' = [env EXCEPT ![n] = word]
      /\ written' = [m \in DOMAIN written \cup {n} |-> IF m = n THEN word ELSE written[m]]
      /\ UNCHANGED <<selected, asked, secrets, command, concealed, raced>>
  BY DEF Write
<1>2. PICK e \in DOMAIN Environments : env \in [Names(e) -> Texts]
  BY <1>0, <1>1 DEF Filed
<1>3. env' \in [Names(e) -> Texts] /\ env' # Missing /\ DOMAIN env' = DOMAIN env
  BY <1>1, <1>2 DEF EnvironmentsSane, Texts
<1>4. env'[n] = word /\ \A m \in DOMAIN env : m # n => env'[m] = env[m]
  BY <1>1, <1>2
<1>5. Filed'
  BY <1>0, <1>1, <1>3 DEF Filed
<1>6. Preserved'
  BY <1>0, <1>1, <1>4 DEF Preserved, Filed
<1>7. Entire'
  BY <1>0, <1>1, <1>3, <1>4 DEF Entire, EnvironmentsSane, Names, SecretNames, Variables
<1>8. Commanded' /\ There' /\ Concealed'
  BY <1>0, <1>1 DEF Commanded, There, Concealed, Under
<1> QED
  BY <1>5, <1>6, <1>7, <1>8 DEF EnvironmentsInv, EnvironmentsKept

LEMMA CommandKeeps ==
    ASSUME EnvironmentsInv, NEW c \in Commands, (\E groups : Start(c, groups)) \/ Get(c)
    PROVE  EnvironmentsInv'
<1>0. Filed /\ Commanded /\ There /\ Preserved /\ Entire /\ Concealed
  BY DEF EnvironmentsInv, EnvironmentsKept
<1>1. UNCHANGED <<env, written, selected, asked, secrets, concealed, raced>>
  BY DEF Start, Get
<1>2. Commanded'
  <2>1. ASSUME NEW groups, Start(c, groups) PROVE Commanded'
    BY <2>1, <1>0 DEF Start, NoCommand, Commanded, Under
  <2>2. CASE Get(c)
    <3> DEFINE s == Head(command[c].todo).secret
    <3>1. PICK data : data \in {Under(secrets, s), <<>>} /\ command' = [command EXCEPT ![c].read = [data |-> data]]
      BY <2>2 DEF Get
    <3>2. DOMAIN Under(secrets, s) \subseteq DOMAIN Under(concealed, s)
      BY <1>0 DEF There, Concealed, Under
    <3>3. DOMAIN data \subseteq DOMAIN Under(concealed, s)
      BY <3>1, <3>2
    <3>4. /\ command'[c].todo = command[c].todo /\ command'[c].read.data = data
          /\ DOMAIN command'[c] = {"todo", "read"}
          /\ \A d \in Commands \ {c} : command'[d] = command[d]
          /\ DOMAIN command' = Commands
      BY <3>1, <1>0 DEF Commanded
    <3> QED
      BY <3>3, <3>4, <1>0, <1>1 DEF Commanded, Under
  <2> QED
    BY <2>1, <2>2
<1>3. Filed' /\ There' /\ Preserved' /\ Entire' /\ Concealed'
  BY <1>0, <1>1 DEF Filed, There, Preserved, Entire, Concealed
<1> QED
  BY <1>2, <1>3 DEF EnvironmentsInv, EnvironmentsKept

\* What is applied has what is concealed now, and what was read before.
LEMMA DeployKeeps ==
    ASSUME EnvironmentsInv, NEW c \in Commands, Deploy(c)
    PROVE  EnvironmentsInv'
<1> DEFINE group == Head(command[c].todo)
           s == group.secret
           read == command[c].read.data
<1>0. Filed /\ Commanded /\ There /\ Preserved /\ Entire /\ Concealed
  BY DEF EnvironmentsInv, EnvironmentsKept
<1>1. UNCHANGED <<env, written, selected, asked>> /\ command[c].read # Missing
  BY DEF Deploy
<1>2. Filed' /\ Preserved' /\ Entire'
  BY <1>0, <1>1 DEF Filed, Preserved, Entire
<1>3. CASE command' = [command EXCEPT ![c] = NoCommand] /\ UNCHANGED <<secrets, concealed, raced>>
  <2>1. Commanded' /\ There' /\ Concealed'
    BY <1>0, <1>3 DEF Commanded, There, Concealed, NoCommand, Under
  <2> QED
    BY <2>1, <1>2 DEF EnvironmentsInv, EnvironmentsKept
<1>4. CASE /\ secrets' = Set(secrets, s, Upsert(read, group.data))
           /\ concealed' = Set(concealed, s, Upsert(Under(concealed, s), group.data))
           /\ raced' = IF read = Under(secrets, s) THEN raced ELSE raced \cup {s}
           /\ command' = [command EXCEPT ![c] = [NoCommand EXCEPT !.todo = Tail(command[c].todo)]]
  <2>1. /\ DOMAIN secrets' = DOMAIN secrets \cup {s} /\ secrets'[s] = Upsert(read, group.data)
        /\ DOMAIN concealed' = DOMAIN concealed \cup {s} /\ concealed'[s] = Upsert(Under(concealed, s), group.data)
        /\ \A x \in DOMAIN secrets : x # s => secrets'[x] = secrets[x]
        /\ \A x \in DOMAIN concealed : x # s => concealed'[x] = concealed[x]
    BY <1>4 DEF Set
  <2>2. DOMAIN read \subseteq DOMAIN Under(concealed, s)
    BY <1>0, <1>1 DEF Commanded
  <2>3. There'
    BY <2>1, <1>0 DEF There
  <2>4. \A f, g : DOMAIN Upsert(f, g) = DOMAIN f \cup DOMAIN g
    BY DEF Upsert
  <2>5. \A x : DOMAIN Under(concealed, x) \subseteq DOMAIN Under(concealed, x)'
    <3> SUFFICES ASSUME NEW x PROVE DOMAIN Under(concealed, x) \subseteq DOMAIN Under(concealed, x)'
      OBVIOUS
    <3>1. CASE x = s
      <4>1. Under(concealed, x)' = Upsert(Under(concealed, x), group.data)
        BY <3>1, <2>1 DEF Under
      <4>2. DOMAIN Upsert(Under(concealed, x), group.data) = DOMAIN Under(concealed, x) \cup DOMAIN group.data
        BY <2>4
      <4> QED
        BY <4>1, <4>2
    <3>2. CASE x # s
      BY <3>2, <2>1 DEF Under
    <3> QED
      BY <3>1, <3>2
  <2>6. Commanded'
    <3>1. command'[c].read = Missing /\ DOMAIN command'[c] = {"todo", "read"} /\ DOMAIN command' = Commands
      BY <1>0, <1>4 DEF Commanded, NoCommand
    <3>2. \A d \in Commands \ {c} : command'[d] = command[d]
      BY <1>0, <1>4 DEF Commanded
    <3> QED
      BY <3>1, <3>2, <2>5, <1>0 DEF Commanded, Under
  <2>7. s \notin raced' => secrets'[s] = concealed'[s]
    <3>1. s \notin raced' => s \notin raced /\ read = Under(secrets, s)
      BY <1>4
    <3>2. s \notin raced => Under(secrets, s) = Under(concealed, s)
      BY <1>0 DEF There, Concealed, Under
    <3> QED
      BY <3>1, <3>2, <2>1
  <2>8. raced \subseteq raced'
    BY <1>4
  <2>9. Concealed'
    <3> SUFFICES ASSUME NEW x \in DOMAIN secrets'
                 PROVE  /\ DOMAIN secrets'[x] \subseteq DOMAIN concealed'[x]
                        /\ x \notin raced' => secrets'[x] = concealed'[x]
      BY DEF Concealed
    <3>1. CASE x = s
      <4>1. DOMAIN secrets'[s] = DOMAIN read \cup DOMAIN group.data
        <5>1. DOMAIN Upsert(read, group.data) = DOMAIN read \cup DOMAIN group.data
          BY <2>4
        <5> QED
          BY <5>1, <2>1
      <4>2. DOMAIN concealed'[s] = DOMAIN Under(concealed, s) \cup DOMAIN group.data
        <5>1. DOMAIN Upsert(Under(concealed, s), group.data) = DOMAIN Under(concealed, s) \cup DOMAIN group.data
          BY <2>4
        <5> QED
          BY <5>1, <2>1
      <4> QED
        BY <3>1, <4>1, <4>2, <2>2, <2>7
    <3>2. CASE x # s
      <4>1. x \in DOMAIN secrets /\ x \in DOMAIN concealed
        BY <3>2, <2>1, <1>0 DEF There
      <4> QED
        BY <3>2, <4>1, <2>1, <2>8, <1>0 DEF Concealed
    <3> QED
      BY <3>1, <3>2
  <2> QED
    BY <2>3, <2>6, <2>9, <1>2 DEF EnvironmentsInv, EnvironmentsKept
<1> QED
  BY <1>3, <1>4 DEF Deploy

LEMMA EnvironmentsStep == EnvironmentsSane /\ EnvironmentsInv /\ [FilesNext]_filesVars => EnvironmentsInv'
<1> SUFFICES ASSUME EnvironmentsSane, EnvironmentsInv, [FilesNext]_filesVars PROVE EnvironmentsInv'
  OBVIOUS
<1>1. ASSUME NEW e \in DOMAIN Environments, NEW interactive \in BOOLEAN, Env(e, interactive) PROVE EnvironmentsInv'
  BY <1>1, EnvKeeps
<1>2. ASSUME NEW n, NEW word \in Words, Write(n, word) PROVE EnvironmentsInv'
  BY <1>2, WriteKeeps
<1>3. ASSUME NEW c \in Commands, NEW e, ConcealValues(c, e) PROVE EnvironmentsInv'
  BY <1>3, CommandKeeps DEF ConcealValues
<1>4. ASSUME NEW c \in Commands, NEW key, NEW word, ConcealValue(c, key, word) PROVE EnvironmentsInv'
  BY <1>4, CommandKeeps DEF ConcealValue
<1>5. ASSUME NEW c \in Commands, Get(c) \/ Deploy(c) PROVE EnvironmentsInv'
  BY <1>5, CommandKeeps, DeployKeeps
<1>6. CASE UNCHANGED filesVars
  BY <1>6 DEF filesVars, EnvironmentsInv, EnvironmentsKept, Filed, Commanded, There, Preserved, Entire, Concealed, Under
<1> QED
  BY <1>1, <1>2, <1>3, <1>4, <1>5, <1>6 DEF FilesNext

\* For any environments, commands and words: what somebody puts into the file
\* of an environment stays there, none of it is missing once it is asked for,
\* and secrets of the cluster keep what is concealed in them unless two
\* commands meet or one cannot read them (env and conceal of the cli).
THEOREM FilesKept == ASSUME EnvironmentsSane PROVE FilesSpec => []EnvironmentsKept
<1>1. FilesInit => EnvironmentsInv
  BY EnvironmentsInitial
<1>2. EnvironmentsInv /\ [FilesNext]_filesVars => EnvironmentsInv'
  BY EnvironmentsStep
<1>3. EnvironmentsInv => EnvironmentsKept
  BY DEF EnvironmentsInv
<1> QED
  BY <1>1, <1>2, <1>3, PTL DEF FilesSpec

----------------------------------------------------------------------------
(* Sequences *)

\* The least of some numbers.
LEMMA Least ==
    ASSUME NEW T \in SUBSET Nat, T # {}
    PROVE  \E n \in T : \A m \in T : n <= m
<1>1. PICK n \in T : \A m \in T : ~ (<<m, n>> \in OpToRel(<, Nat))
  BY WFMin, NatLessThanWellFounded
<1>2. \A m \in T : ~ (m < n)
  BY <1>1 DEF OpToRel
<1> QED
  BY <1>2

\* What the first has and each one passes on to the next, all have.
LEMMA Climb ==
    ASSUME NEW n \in Nat, NEW S, n > 0 => 1 \in S, \A k \in 1..n : k + 1 \in 1..n /\ k \in S => k + 1 \in S
    PROVE  \A k \in 1..n : k \in S
<1> DEFINE T == {k \in 1..n : k \notin S}
<1> SUFFICES ASSUME T # {} PROVE FALSE
  OBVIOUS
<1>0. T \in SUBSET Nat
  OBVIOUS
<1>1. PICK m \in T : \A i \in T : m <= i
  BY <1>0, Least
<1>2. m \in 1..n /\ m \notin S /\ m # 1
  BY <1>1
<1>3. m - 1 \in 1..n /\ m - 1 \in S
  BY <1>1, <1>2
<1> QED
  BY <1>2, <1>3

\* The greatest of some numbers below a bound.
LEMMA Greatest ==
    ASSUME NEW n \in Nat, NEW T \in SUBSET (0..n), T # {}
    PROVE  \E m \in T : \A k \in T : m >= k
<1> DEFINE U == {k \in Nat : k <= n /\ n - k \in T}
<1>1. U \in SUBSET Nat
  OBVIOUS
<1>2. \A k \in T : k \in 0..n /\ n - k \in U
  <2> TAKE k \in T
  <2>1. k \in 0..n
    OBVIOUS
  <2>2. n - k \in Nat /\ n - k <= n /\ n - (n - k) = k
    BY <2>1
  <2> QED
    BY <2>1, <2>2
<1>3. U # {}
  BY <1>2
<1>4. PICK u \in U : \A v \in U : u <= v
  BY <1>1, <1>3, Least
<1>5. n - u \in T
  BY <1>4
<1>6. \A k \in T : n - u >= k
  <2> TAKE k \in T
  <2>1. u <= n - k /\ k \in 0..n /\ u \in Nat
    BY <1>2, <1>4
  <2> QED
    BY <2>1
<1> QED
  BY <1>5, <1>6

\* What a concatenation has.
LEMMA Concatenated ==
    ASSUME NEW V, NEW a \in Seq(V), NEW b \in Seq(V)
    PROVE  a \o b \in Seq(V) /\ ToSet(a \o b) = ToSet(a) \cup ToSet(b)
<1>1. /\ a \o b \in Seq(V) /\ Len(a \o b) = Len(a) + Len(b)
      /\ \A i \in 1..Len(a) : (a \o b)[i] = a[i]
      /\ \A i \in 1..Len(b) : (a \o b)[Len(a) + i] = b[i]
  OBVIOUS
<1>2. \A i \in (Len(a) + 1)..(Len(a) + Len(b)) : (a \o b)[i] = b[i - Len(a)] /\ i - Len(a) \in 1..Len(b)
  OBVIOUS
<1>3. Len(a) \in Nat /\ Len(b) \in Nat /\ DOMAIN a = 1..Len(a) /\ DOMAIN b = 1..Len(b)
      /\ DOMAIN (a \o b) = 1..(Len(a) + Len(b))
  OBVIOUS
<1>4. \A i \in DOMAIN (a \o b) : (a \o b)[i] \in ToSet(a) \cup ToSet(b)
  <2> TAKE i \in DOMAIN (a \o b)
  <2>1. CASE i \in 1..Len(a)
    BY <1>1, <1>3, <2>1 DEF ToSet
  <2>2. CASE i \in (Len(a) + 1)..(Len(a) + Len(b))
    BY <1>2, <1>3, <2>2 DEF ToSet
  <2> QED
    BY <1>3, <2>1, <2>2
<1>5. \A i \in DOMAIN a : a[i] \in ToSet(a \o b)
  BY <1>1, <1>3 DEF ToSet
<1>6. \A i \in DOMAIN b : b[i] \in ToSet(a \o b)
  <2> TAKE i \in DOMAIN b
  <2>1. Len(a) + i \in DOMAIN (a \o b) /\ (a \o b)[Len(a) + i] = b[i]
    BY <1>1, <1>3
  <2> QED
    BY <2>1 DEF ToSet
<1> QED
  BY <1>1, <1>4, <1>5, <1>6 DEF ToSet

\* What a flattened sequence has, by its prefixes.
LEMMA Flattened ==
    ASSUME NEW V, NEW s \in Seq(Seq(V))
    PROVE  /\ FlattenSeq(s) \in Seq(V)
           /\ \A v : v \in ToSet(FlattenSeq(s)) <=> \E i \in DOMAIN s : v \in ToSet(s[i])
<1> DEFINE n == Len(s)
           Flat(k) == {f \in [1..k -> Seq(V)] : \A i \in 1..k : f[i] = IF i = 1 THEN s[i] ELSE f[i - 1] \o s[i]}
<1>1. n \in Nat /\ DOMAIN s = 1..n /\ \A i \in 1..n : s[i] \in Seq(V)
  OBVIOUS
<1>2. CASE n = 0
  <2>1. s = <<>> /\ DOMAIN s = {}
    BY <1>1, <1>2
  <2>2. FlattenSeq(s) = <<>>
    BY <1>2, <2>1 DEF FlattenSeq
  <2>3. ToSet(<<>>) = {}
    BY DEF ToSet
  <2>4. <<>> \in Seq(V)
    OBVIOUS
  <2>5. \A v : v \notin ToSet(FlattenSeq(s)) /\ ~ \E i \in DOMAIN s : v \in ToSet(s[i])
    <3>1. ToSet(FlattenSeq(s)) = {}
      BY <2>2, <2>3
    <3> QED
      BY <3>1, <2>1
  <2>6. FlattenSeq(s) \in Seq(V)
    BY <2>2, <2>4
  <2> QED
    BY <2>5, <2>6
<1>3. CASE n # 0
  <2> DEFINE S == {k \in 1..n : Flat(k) # {}}
  <2>1. 1 \in S
    <3> DEFINE g == [i \in 1..1 |-> s[1]]
    <3>1. g \in Flat(1)
      BY <1>1, <1>3
    <3> QED
      BY <3>1, <1>1, <1>3
  <2>2. \A k \in 1..n : k + 1 \in 1..n /\ k \in S => k + 1 \in S
    <3> SUFFICES ASSUME NEW k \in 1..n, k + 1 \in 1..n, Flat(k) # {} PROVE Flat(k + 1) # {}
      OBVIOUS
    <3>1. PICK f \in Flat(k) : TRUE
      OBVIOUS
    <3> DEFINE g == [i \in 1..(k + 1) |-> IF i = k + 1 THEN f[k] \o s[k + 1] ELSE f[i]]
    <3>2. f[k] \o s[k + 1] \in Seq(V)
      BY <1>1
    <3>3. \A i \in 1..(k + 1) : i # k + 1 => i \in 1..k
      OBVIOUS
    <3>4. g \in [1..(k + 1) -> Seq(V)]
      BY <3>2, <3>3
    <3>5. \A i \in 1..(k + 1) : g[i] = IF i = 1 THEN s[i] ELSE g[i - 1] \o s[i]
      <4> SUFFICES ASSUME NEW i \in 1..(k + 1) PROVE g[i] = IF i = 1 THEN s[i] ELSE g[i - 1] \o s[i]
        OBVIOUS
      <4>1. CASE i = k + 1
        <5>1. i # 1 /\ i - 1 = k /\ k \in 1..(k + 1) /\ k # k + 1
          BY <4>1
        <5>2. g[k] = f[k]
          BY <5>1
        <5> QED
          BY <4>1, <5>1, <5>2
      <4>2. CASE i # k + 1
        <5>1. i \in 1..k /\ f[i] = IF i = 1 THEN s[i] ELSE f[i - 1] \o s[i]
          BY <3>3, <4>2
        <5>2. g[i] = f[i]
          BY <4>2
        <5>3. ASSUME i # 1 PROVE g[i - 1] = f[i - 1]
          <6>1. i - 1 \in 1..(k + 1) /\ i - 1 # k + 1
            BY <5>1, <5>3
          <6> QED
            BY <6>1
        <5> QED
          BY <5>1, <5>2, <5>3
      <4> QED
        BY <4>1, <4>2
    <3> HIDE DEF g
    <3>6. g \in Flat(k + 1)
      BY <3>4, <3>5
    <3> QED
      BY <3>6
  <2>3. n \in 1..n
    BY <1>1, <1>3
  <2>4. Flat(n) # {}
    <3> HIDE DEF Flat
    <3>1. \A k \in 1..n : k \in S
      BY <1>1, <2>1, <2>2, Climb
    <3> QED
      BY <3>1, <2>3
  <2> DEFINE flatten == CHOOSE f : f = [i \in 1..n |-> IF i = 1 THEN s[i] ELSE f[i - 1] \o s[i]]
  <2>5. PICK f \in Flat(n) : TRUE
    BY <2>4
  <2>6. f = [i \in 1..n |-> IF i = 1 THEN s[i] ELSE f[i - 1] \o s[i]]
    BY <2>5
  <2>7. flatten = [i \in 1..n |-> IF i = 1 THEN s[i] ELSE flatten[i - 1] \o s[i]]
    BY <2>6
  <2>8. FlattenSeq(s) = flatten[n]
    BY <1>3 DEF FlattenSeq
  <2> HIDE DEF flatten
  <2>9. \A i \in 1..n : flatten[i] = IF i = 1 THEN s[i] ELSE flatten[i - 1] \o s[i]
    BY <2>7
  <2> DEFINE D == {k \in 1..n : /\ flatten[k] \in Seq(V)
                                /\ \A v : v \in ToSet(flatten[k]) <=> \E i \in 1..k : v \in ToSet(s[i])}
  <2>10. 1 \in D
    <3>1. flatten[1] = s[1] /\ s[1] \in Seq(V) /\ 1 \in 1..n
      BY <1>1, <1>3, <2>9
    <3>2. \A i \in 1..1 : i = 1
      OBVIOUS
    <3> QED
      BY <3>1, <3>2
  <2>11. \A k \in 1..n : k + 1 \in 1..n /\ k \in D => k + 1 \in D
    <3> SUFFICES ASSUME NEW k \in 1..n, k + 1 \in 1..n, flatten[k] \in Seq(V),
                        \A v : v \in ToSet(flatten[k]) <=> \E i \in 1..k : v \in ToSet(s[i])
                 PROVE  /\ flatten[k + 1] \in Seq(V)
                        /\ \A v : v \in ToSet(flatten[k + 1]) <=> \E i \in 1..(k + 1) : v \in ToSet(s[i])
      OBVIOUS
    <3>1. flatten[k + 1] = flatten[k] \o s[k + 1] /\ s[k + 1] \in Seq(V)
      <4>1. k + 1 # 1 /\ (k + 1) - 1 = k
        OBVIOUS
      <4> QED
        BY <4>1, <1>1, <2>9
    <3>2. flatten[k + 1] \in Seq(V) /\ ToSet(flatten[k + 1]) = ToSet(flatten[k]) \cup ToSet(s[k + 1])
      BY <3>1, Concatenated
    <3>3. \A i \in 1..(k + 1) : i \in 1..k \/ i = k + 1
      OBVIOUS
    <3>4. 1..k \subseteq 1..(k + 1) /\ k + 1 \in 1..(k + 1)
      OBVIOUS
    <3>5. \A v : v \in ToSet(flatten[k + 1]) <=> (\E i \in 1..k : v \in ToSet(s[i])) \/ v \in ToSet(s[k + 1])
      BY <3>2
    <3>6. \A v : (\E i \in 1..k : v \in ToSet(s[i])) \/ v \in ToSet(s[k + 1])
                    <=> \E i \in 1..(k + 1) : v \in ToSet(s[i])
      BY <3>3, <3>4
    <3> QED
      BY <3>2, <3>5, <3>6
  <2>12. \A k \in 1..n : k \in D
    <3> HIDE DEF D
    <3> QED
      BY <1>1, <2>10, <2>11, Climb
  <2> QED
    BY <1>1, <2>3, <2>8, <2>12
<1> QED
  BY <1>2, <1>3

\* A sequence is one of its elements.
LEMMA SequenceIs ==
    ASSUME NEW S, NEW s \in Seq(S)
    PROVE  IsSeq(s) /\ \A i \in 1..Len(s) : s[i] \in ToSet(s)
<1>1. Len(s) \in Nat /\ DOMAIN s = 1..Len(s) /\ s = [i \in 1..Len(s) |-> s[i]]
  BY LenProperties
<1>2. \A i \in 1..Len(s) : s[i] \in ToSet(s)
  BY <1>1 DEF ToSet
<1>3. s \in [1..Len(s) -> ToSet(s)]
  BY <1>1, <1>2
<1>4. s \in Seq(ToSet(s))
  BY <1>1, <1>3
<1> QED
  BY <1>2, <1>4 DEF IsSeq

\* What short sequences have.
LEMMA Tuples ==
    /\ \A a : IsSeq(<<a>>) /\ ToSet(<<a>>) = {a}
    /\ \A a, b : IsSeq(<<a, b>>) /\ ToSet(<<a, b>>) = {a, b}
    /\ IsSeq(<<>>) /\ ToSet(<<>>) = {}
<1>1. ASSUME NEW a PROVE IsSeq(<<a>>) /\ ToSet(<<a>>) = {a}
  <2>1. <<a>> \in Seq({a})
    OBVIOUS
  <2>2. ToSet(<<a>>) = {a}
    BY DEF ToSet
  <2> QED
    BY <2>1, <2>2, SequenceIs
<1>2. ASSUME NEW a, NEW b PROVE IsSeq(<<a, b>>) /\ ToSet(<<a, b>>) = {a, b}
  <2>1. <<a, b>> \in Seq({a, b})
    OBVIOUS
  <2>2. ToSet(<<a, b>>) = {a, b}
    <3>1. DOMAIN <<a, b>> = {1, 2} /\ <<a, b>>[1] = a /\ <<a, b>>[2] = b
      OBVIOUS
    <3> QED
      BY <3>1 DEF ToSet
  <2> QED
    BY <2>1, <2>2, SequenceIs
<1>3. IsSeq(<<>>) /\ ToSet(<<>>) = {}
  <2>1. ToSet(<<>>) = {}
    BY DEF ToSet
  <2> QED
    BY <2>1 DEF IsSeq
<1> QED
  BY <1>1, <1>2, <1>3

\* The same of sequences of whatever.
LEMMA Joined ==
    ASSUME NEW a, NEW b, IsSeq(a), IsSeq(b)
    PROVE  IsSeq(a \o b) /\ \A v : v \in ToSet(a \o b) <=> v \in ToSet(a) \/ v \in ToSet(b)
<1> DEFINE W == ToSet(a) \cup ToSet(b)
<1>1. a \in Seq(W) /\ b \in Seq(W)
  BY SeqMonotonic DEF IsSeq
<1> HIDE DEF W
<1>2. a \o b \in Seq(W) /\ ToSet(a \o b) = ToSet(a) \cup ToSet(b)
  BY <1>1, Concatenated
<1> QED
  BY <1>2, SequenceIs

\* And of sequences of them.
LEMMA Flat ==
    ASSUME NEW n \in Nat, NEW s, s = [i \in 1..n |-> s[i]], \A i \in 1..n : IsSeq(s[i])
    PROVE  /\ IsSeq(FlattenSeq(s))
           /\ \A v : v \in ToSet(FlattenSeq(s)) <=> \E i \in 1..n : v \in ToSet(s[i])
<1> DEFINE W == UNION {ToSet(s[i]) : i \in 1..n}
<1>1. ASSUME NEW i \in 1..n PROVE s[i] \in Seq(W)
  <2>1. ToSet(s[i]) \subseteq W
    OBVIOUS
  <2> HIDE DEF W
  <2> QED
    BY <2>1, SeqMonotonic DEF IsSeq
<1> HIDE DEF W
<1>2. s \in Seq(Seq(W)) /\ DOMAIN s = 1..n
  <2>1. s \in [1..n -> Seq(W)]
    BY <1>1
  <2> QED
    BY <2>1
<1>3. /\ FlattenSeq(s) \in Seq(W)
      /\ \A v : v \in ToSet(FlattenSeq(s)) <=> \E i \in 1..n : v \in ToSet(s[i])
  BY <1>2, Flattened
<1> QED
  BY <1>3, SequenceIs

\* A finite set can be enumerated.
LEMMA Ordered ==
    ASSUME NEW S, IsFiniteSet(S)
    PROVE  SetToSeq(S) \in Seq(S) /\ ToSet(SetToSeq(S)) = S
<1>1. Cardinality(S) \in Nat /\ ExistsBijection(1..Cardinality(S), S)
  BY FS_CardinalityType
<1>2. PICK g \in Bijection(1..Cardinality(S), S) : TRUE
  BY <1>1 DEF ExistsBijection
<1>3. g \in [1..Cardinality(S) -> S] /\ IsInjective(g)
  BY <1>2 DEF Bijection, Injection
<1> DEFINE f == SetToSeq(S)
<1>4. f \in [1..Cardinality(S) -> S] /\ IsInjective(f)
  BY <1>3 DEF SetToSeq
<1>5. f \in Injection(1..Cardinality(S), S)
  BY <1>4 DEF Injection
<1>6. IsFiniteSet(1..Cardinality(S)) /\ Cardinality(1..Cardinality(S)) = Cardinality(S)
  BY <1>1, FS_Interval
<1>7. f \in Surjection(1..Cardinality(S), S)
  BY <1>5, <1>6, FS_Injection
<1>8. \A x \in S : \E i \in 1..Cardinality(S) : f[i] = x
  BY <1>7 DEF Surjection
<1> QED
  BY <1>1, <1>4, <1>8 DEF ToSet

-----------------------------------------------------------------------------
(* Variables of a release *)

\* Names of variables tell what they are of.
LEMMA Named ==
    ASSUME NEW d, NEW e, NEW x, NEW y, IsSeq(x), IsSeq(y)
    PROVE  Variable(d, x) = Variable(e, y) => d = e /\ x = y
<1> SUFFICES ASSUME <<d>> \o x = <<e>> \o y PROVE d = e /\ x = y
  BY DEF Variable
<1> DEFINE W == ToSet(x) \cup ToSet(y) \cup {d, e}
<1>0. <<d>> \in Seq(W) /\ <<e>> \in Seq(W) /\ x \in Seq(W) /\ y \in Seq(W)
  <2>1. x \in Seq(W) /\ y \in Seq(W)
    BY SeqMonotonic DEF IsSeq
  <2> QED
    BY <2>1
<1> HIDE DEF W
<1>1. /\ Len(<<d>> \o x) = 1 + Len(x) /\ (<<d>> \o x)[1] = d
      /\ \A i \in 1..Len(x) : (<<d>> \o x)[1 + i] = x[i]
  BY <1>0
<1>2. /\ Len(<<e>> \o y) = 1 + Len(y) /\ (<<e>> \o y)[1] = e
      /\ \A i \in 1..Len(y) : (<<e>> \o y)[1 + i] = y[i]
  BY <1>0
<1>3. Len(x) = Len(y) /\ Len(x) \in Nat
  BY <1>0, <1>1, <1>2, LenProperties
<1>4. \A i \in 1..Len(x) : x[i] = y[i]
  BY <1>1, <1>2, <1>3
<1>5. x = y
  BY <1>0, <1>3, <1>4, SeqEqual
<1> QED
  BY <1>1, <1>2, <1>5

\* Appending tells what was appended, and to what.
LEMMA Appended ==
    ASSUME NEW x, NEW y, NEW t, NEW u, IsSeq(x), IsSeq(y)
    PROVE  /\ Append(x, t) = Append(y, u) => x = y /\ t = u
           /\ Append(x, t) # <<>> /\ IsSeq(Append(x, t))
<1> DEFINE W == ToSet(x) \cup ToSet(y) \cup {t, u}
<1>0. x \in Seq(W) /\ y \in Seq(W) /\ t \in W /\ u \in W
  BY SeqMonotonic DEF IsSeq
<1> HIDE DEF W
<1>1. /\ Len(Append(x, t)) = Len(x) + 1 /\ Append(x, t)[Len(x) + 1] = t
      /\ Len(Append(y, u)) = Len(y) + 1 /\ Append(y, u)[Len(y) + 1] = u
      /\ Len(x) \in Nat /\ Len(y) \in Nat
      /\ \A i \in 1..Len(x) : Append(x, t)[i] = x[i]
      /\ \A i \in 1..Len(y) : Append(y, u)[i] = y[i]
      /\ Append(x, t) \in Seq(W)
  BY <1>0
<1>2. ASSUME Append(x, t) = Append(y, u) PROVE x = y /\ t = u
  <2>1. Len(x) = Len(y)
    BY <1>1, <1>2
  <2>2. t = u /\ \A i \in 1..Len(x) : x[i] = y[i]
    BY <1>1, <1>2, <2>1
  <2> QED
    BY <1>0, <2>1, <2>2, SeqEqual
<1>3. Append(x, t) # <<>>
  BY <1>1
<1>4. IsSeq(Append(x, t))
  BY <1>1, SequenceIs
<1> QED
  BY <1>2, <1>3, <1>4

LEMMA AppendedSame ==
    ASSUME NEW x, NEW y, NEW t, NEW u, IsSeq(x), IsSeq(y), Append(x, t) = Append(y, u)
    PROVE  x = y /\ t = u
BY Appended

\* A prefix is the beginning of that length.
LEMMA PrefixIs ==
    ASSUME NEW S, NEW s \in Seq(S), NEW t \in Seq(S)
    PROVE  IsPrefix(s, t) <=> Len(s) \in 0..Len(t) /\ s = SubSeq(t, 1, Len(s))
<1>1. SubSeq(s, 1, Len(s)) = s /\ Len(s) \in Nat /\ Len(t) \in Nat
  BY SubSeqFull, LenProperties
<1>2. Len(s) <= Len(t) <=> Len(s) \in 0..Len(t)
  BY <1>1
<1>3. IsPrefix(s, t) <=> Len(s) <= Len(t) /\ s = SubSeq(t, 1, Len(s))
  BY <1>1 DEF IsPrefix
<1> QED
  BY <1>2, <1>3

\* A beginning is a prefix.
LEMMA Beginnings ==
    ASSUME NEW S, NEW t \in Seq(S), NEW n \in 0..Len(t)
    PROVE  SubSeq(t, 1, n) \in Seq(S) /\ Len(SubSeq(t, 1, n)) = n /\ IsPrefix(SubSeq(t, 1, n), t)
<1>1. \A i \in 1..n : t[i] \in S
  BY LenProperties
<1>2. SubSeq(t, 1, n) \in Seq(S) /\ Len(SubSeq(t, 1, n)) = IF 1 <= n THEN n - 1 + 1 ELSE 0
  BY <1>1, SubSeqProperties
<1>3. Len(SubSeq(t, 1, n)) = n
  BY <1>2
<1> DEFINE s == SubSeq(t, 1, n)
<1>4. s \in Seq(S) /\ Len(s) = n /\ s = SubSeq(t, 1, n)
  BY <1>2, <1>3
<1> HIDE DEF s
<1>5. IsPrefix(s, t)
  BY <1>4, PrefixIs
<1> QED
  BY <1>4, <1>5 DEF s

\* What resolves is the deepest match.
LEMMA ResolvesDeepest ==
    ASSUME NEW annotation, \A key \in DOMAIN annotation : IsSeq(key), NEW selector, IsSeq(selector),
           \E key \in DOMAIN annotation : IsPrefix(key, selector)
    PROVE  /\ ResolveRecord(annotation, selector) = Deepest(annotation, selector)
           /\ ResolveRecord(annotation, selector) \in DOMAIN annotation
<1> DEFINE found == {n \in 0..Len(selector) : SubSeq(selector, 1, n) \in DOMAIN annotation}
           W == ToSet(selector) \cup UNION {ToSet(key) : key \in DOMAIN annotation}
<1>w. selector \in Seq(W) /\ \A key \in DOMAIN annotation : key \in Seq(W)
  <2>1. ToSet(selector) \subseteq W /\ \A key \in DOMAIN annotation : ToSet(key) \subseteq W
    OBVIOUS
  <2> HIDE DEF W
  <2> QED
    BY <2>1, SeqMonotonic DEF IsSeq
<1> HIDE DEF W
<1>0. Len(selector) \in Nat
  BY <1>w, LenProperties
<1>1. \A key \in DOMAIN annotation : IsPrefix(key, selector) => Len(key) \in found /\ key = SubSeq(selector, 1, Len(key))
  <2> SUFFICES ASSUME NEW key \in DOMAIN annotation, IsPrefix(key, selector)
               PROVE  Len(key) \in found /\ key = SubSeq(selector, 1, Len(key))
    OBVIOUS
  <2> QED
    BY <1>w, PrefixIs
<1>2. found # {} /\ found \in SUBSET (0..Len(selector))
  BY <1>1
<1>3. PICK m \in found : \A k \in found : m >= k
  <2> HIDE DEF found
  <2> QED
    BY <1>0, <1>2, Greatest
<1>4. Max(found) = m
  <2>1. Max(found) \in found /\ \A k \in found : Max(found) >= k
    BY <1>3 DEF Max
  <2>2. Max(found) >= m /\ m >= Max(found)
    BY <1>3, <2>1
  <2> QED
    BY <1>0, <1>3, <2>1, <2>2
<1> DEFINE key == SubSeq(selector, 1, m)
<1>5. ResolveRecord(annotation, selector) = key
  <2>1. ResolveRecord(annotation, selector) = SubSeq(selector, 1, Max(found))
    BY <1>2 DEF ResolveRecord
  <2> QED
    BY <1>4, <2>1
<1>6. key \in DOMAIN annotation /\ Len(key) = m /\ IsPrefix(key, selector)
  BY <1>w, <1>3, Beginnings
<1>7. \A other \in DOMAIN annotation : IsPrefix(other, selector) => Len(other) <= Len(key)
  <2> SUFFICES ASSUME NEW other \in DOMAIN annotation, IsPrefix(other, selector) PROVE Len(other) <= m
    BY <1>6
  <2>1. Len(other) \in found
    BY <1>1
  <2>2. m >= Len(other)
    BY <1>3, <2>1
  <2>3. m \in Nat /\ Len(other) \in Nat
    BY <1>0, <2>1
  <2> QED
    BY <2>2, <2>3
<1> HIDE DEF key
<1>8. ASSUME NEW k \in DOMAIN annotation, IsPrefix(k, selector),
             \A other \in DOMAIN annotation : IsPrefix(other, selector) => Len(other) <= Len(k)
      PROVE  k = key
  <2>1. Len(k) \in found /\ k = SubSeq(selector, 1, Len(k))
    BY <1>1, <1>8
  <2>2. Len(k) >= m /\ m >= Len(k)
    BY <1>3, <1>6, <1>8, <2>1
  <2>3. m \in Nat /\ Len(k) \in Nat
    BY <1>0, <2>1
  <2>4. Len(k) = m
    BY <2>2, <2>3
  <2> QED
    BY <2>1, <2>4 DEF key
<1> QED
  BY <1>5, <1>6, <1>7, <1>8 DEF Deepest


\* What is appended to is a prefix.
LEMMA PrefixOfAppended ==
    ASSUME NEW s, IsSeq(s), NEW token
    PROVE  IsPrefix(s, s) /\ IsPrefix(s, Append(s, token))
<1> DEFINE W == ToSet(s) \cup {token}
<1>1. s \in Seq(W) /\ token \in W
  BY SeqMonotonic DEF IsSeq
<1> HIDE DEF W
<1>2. /\ Append(s, token) \in Seq(W) /\ Len(Append(s, token)) = Len(s) + 1 /\ Len(s) \in Nat
      /\ \A i \in 1..Len(s) : Append(s, token)[i] = s[i]
  BY <1>1
<1>3. SubSeq(s, 1, Len(s)) = s
  BY <1>1, SubSeqFull
<1> DEFINE t == SubSeq(Append(s, token), 1, Len(s))
<1>4. t = s
  <2>1. \A i \in 1..Len(s) : Append(s, token)[i] \in W
    BY <1>1, <1>2
  <2>2. /\ t \in Seq(W) /\ Len(t) = IF 1 <= Len(s) THEN Len(s) - 1 + 1 ELSE 0
        /\ \A i \in 1..(Len(s) - 1 + 1) : t[i] = Append(s, token)[1 + i - 1]
    BY <1>2, <2>1, SubSeqProperties
  <2> HIDE DEF t
  <2>3. Len(t) = Len(s)
    BY <1>2, <2>2
  <2>4. \A i \in 1..Len(t) : t[i] = s[i]
    <3> SUFFICES ASSUME NEW i \in 1..Len(s) PROVE t[i] = s[i]
      BY <2>3
    <3>1. i \in 1..(Len(s) - 1 + 1) /\ 1 + i - 1 = i
      BY <1>2
    <3> QED
      BY <1>2, <2>2, <3>1
  <2> QED
    BY <1>1, <2>2, <2>3, <2>4, SeqEqual
<1> QED
  BY <1>2, <1>3, <1>4 DEF IsPrefix

\* What a variable is of: the URL of a selector, or a credential of its key.
Url(annotation, d, x) == [name |-> Variable(d, x), value |-> <<annotation[ResolveRecord(annotation, x)]>>]
Credential(annotation, d, x, token) ==
    [name |-> Variable(d, Append(x, token)), value |-> <<d, ResolveRecord(annotation, x), token>>]
Told(annotation, d, x, v) ==
    \/ v = Url(annotation, d, x)
    \/ annotation[ResolveRecord(annotation, x)] \in Secure /\ \E token \in Tokens : v = Credential(annotation, d, x, token)

\* What a composition of some members is told.
Said(annotations, members, v) ==
    \/ v \in {[name |-> <<"context">>, value |-> <<"name">>], [name |-> <<"env">>, value |-> <<"environment">>],
              [name |-> <<Broker>>, value |-> annotations[Broker]]}
    \/ \E key \in DOMAIN annotations[Broker], token \in Tokens : v = KeySecret(key, token)
    \/ \E d \in ToSet(Dependencies), c \in ToSet(members) :
          c \in ToSet(Uses[d]) /\ \E x \in ToSet(SelectorsOf(d, c)) : Told(annotations[d], d, x, v)

\* What createVariables makes of a selector.
LEMMA VariablesOf ==
    ASSUME NEW annotation, NEW d, NEW x
    PROVE  /\ IsSeq(CreateVariables(annotation, d, x))
           /\ \A v : v \in ToSet(CreateVariables(annotation, d, x)) <=> Told(annotation, d, x, v)
<1> DEFINE key == ResolveRecord(annotation, x)
           url == <<Url(annotation, d, x)>>
           both == <<Credential(annotation, d, x, "username"), Credential(annotation, d, x, "password")>>
           rest == IF annotation[key] \in Secure THEN both ELSE <<>>
<1>1. CreateVariables(annotation, d, x) = url \o rest
  BY DEF CreateVariables, Url, Credential
<1>2. /\ IsSeq(url) /\ ToSet(url) = {Url(annotation, d, x)}
      /\ IsSeq(rest)
      /\ annotation[key] \in Secure =>
            ToSet(rest) = {Credential(annotation, d, x, "username"), Credential(annotation, d, x, "password")}
      /\ annotation[key] \notin Secure => ToSet(rest) = {}
  BY Tuples
<1> HIDE DEF url, rest
<1>3. IsSeq(url \o rest) /\ \A v : v \in ToSet(url \o rest) <=> v \in ToSet(url) \/ v \in ToSet(rest)
  BY <1>2, Joined
<1>4. ASSUME NEW v PROVE v \in ToSet(url) \/ v \in ToSet(rest) <=> Told(annotation, d, x, v)
  <2>1. CASE annotation[key] \in Secure
    BY <1>2, <2>1 DEF Told, Tokens
  <2>2. CASE annotation[key] \notin Secure
    BY <1>2, <2>2 DEF Told
  <2> QED
    BY <2>1, <2>2
<1> QED
  BY <1>1, <1>3, <1>4

\* Selectors are names.
LEMMA SelectorsAre ==
    ASSUME VariablesSane, NEW d \in ToSet(Dependencies), NEW c \in ToSet(Uses[d])
    PROVE  /\ IsSeq(SelectorsOf(d, c)) /\ \A x \in ToSet(SelectorsOf(d, c)) : IsSeq(x)
           /\ c \in ToSet(Components) /\ d \notin {Broker, "context", "env"}
<1>1. Uses[d] \in Seq(ToSet(Components))
  BY DEF VariablesSane
<1>2. c \in ToSet(Components)
  BY <1>1, LenProperties DEF ToSet
<1> QED
  BY <1>2 DEF VariablesSane

\* What a dependency declares for a component.
LEMMA ExportedAre ==
    ASSUME VariablesSane, NEW annotation, NEW d \in ToSet(Dependencies), NEW c \in ToSet(Uses[d])
    PROVE  /\ IsSeq(ExportedFor(annotation, d, c))
           /\ \A v : v \in ToSet(ExportedFor(annotation, d, c)) <=>
                        \E x \in ToSet(SelectorsOf(d, c)) : Told(annotation, d, x, v)
<1> DEFINE n == Len(SelectorsOf(d, c))
           s == [k \in DOMAIN SelectorsOf(d, c) |-> CreateVariables(annotation, d, SelectorsOf(d, c)[k])]
<1>1. n \in Nat /\ DOMAIN SelectorsOf(d, c) = 1..n
  BY SelectorsAre, LenProperties DEF IsSeq
<1>2. /\ s = [k \in 1..n |-> s[k]]
      /\ \A k \in 1..n : s[k] = CreateVariables(annotation, d, SelectorsOf(d, c)[k])
  BY <1>1
<1>3. ExportedFor(annotation, d, c) = FlattenSeq(s)
  BY DEF ExportedFor
<1> HIDE DEF s, n
<1>4. \A k \in 1..n : IsSeq(s[k])
  BY <1>2, VariablesOf
<1>5. IsSeq(FlattenSeq(s)) /\ \A v : v \in ToSet(FlattenSeq(s)) <=> \E k \in 1..n : v \in ToSet(s[k])
  BY <1>1, <1>2, <1>4, Flat
<1>6. ASSUME NEW v
      PROVE  (\E k \in 1..n : v \in ToSet(s[k])) <=> \E x \in ToSet(SelectorsOf(d, c)) : Told(annotation, d, x, v)
  <2>1. \A k \in 1..n : v \in ToSet(s[k]) <=> Told(annotation, d, SelectorsOf(d, c)[k], v)
    BY <1>2, VariablesOf
  <2> QED
    BY <1>1, <2>1 DEF ToSet
<1> QED
  BY <1>3, <1>5, <1>6

\* Dependencies and their components are enumerated.
LEMMA UsesAre ==
    ASSUME VariablesSane
    PROVE  /\ Len(Dependencies) \in Nat /\ DOMAIN Dependencies = 1..Len(Dependencies)
           /\ \A i \in 1..Len(Dependencies) : Dependencies[i] \in ToSet(Dependencies)
           /\ \A d \in ToSet(Dependencies) :
                /\ Len(Uses[d]) \in Nat /\ DOMAIN Uses[d] = 1..Len(Uses[d])
                /\ \A j \in 1..Len(Uses[d]) : Uses[d][j] \in ToSet(Uses[d])
<1>1. Dependencies \in Seq(ToSet(Dependencies))
  BY DEF VariablesSane, IsSeq
<1>2. \A d \in ToSet(Dependencies) : Uses[d] \in Seq(ToSet(Components))
  BY DEF VariablesSane
<1>3. Len(Dependencies) \in Nat /\ DOMAIN Dependencies = 1..Len(Dependencies)
  BY <1>1, LenProperties
<1>4. \A d \in ToSet(Dependencies) : Len(Uses[d]) \in Nat /\ DOMAIN Uses[d] = 1..Len(Uses[d])
  BY <1>2, LenProperties
<1> QED
  BY <1>3, <1>4 DEF ToSet

\* What all dependencies declare for a label.
LEMMA MergedAre ==
    ASSUME VariablesSane, NEW annotations, NEW label
    PROVE  /\ IsSeq(Merge(annotations, label))
           /\ \A v : v \in ToSet(Merge(annotations, label)) <=>
                  \E d \in ToSet(Dependencies) : \E c \in ToSet(Uses[d]) :
                     Label(c) = label /\ \E x \in ToSet(SelectorsOf(d, c)) : Told(annotations[d], d, x, v)
<1> DEFINE Part(d, j) == IF Label(Uses[d][j]) = label THEN ExportedFor(annotations[d], d, Uses[d][j]) ELSE <<>>
           part(d) == [j \in DOMAIN Uses[d] |-> Part(d, j)]
           n == Len(Dependencies)
           s == [i \in DOMAIN Dependencies |-> FlattenSeq(part(Dependencies[i]))]
           By(d, c, v) == Label(c) = label /\ \E x \in ToSet(SelectorsOf(d, c)) : Told(annotations[d], d, x, v)
           Of(d, v) == \E c \in ToSet(Uses[d]) : By(d, c, v)
<1>1. Merge(annotations, label) = FlattenSeq(s)
  BY DEF Merge
<1>2. ASSUME NEW d \in ToSet(Dependencies)
      PROVE  IsSeq(FlattenSeq(part(d))) /\ \A v : v \in ToSet(FlattenSeq(part(d))) <=> Of(d, v)
  <2>1. Len(Uses[d]) \in Nat /\ DOMAIN Uses[d] = 1..Len(Uses[d])
        /\ \A j \in 1..Len(Uses[d]) : Uses[d][j] \in ToSet(Uses[d])
    BY UsesAre
  <2>2. ASSUME NEW j \in 1..Len(Uses[d])
        PROVE  /\ IsSeq(Part(d, j))
               /\ \A v : v \in ToSet(Part(d, j)) <=> By(d, Uses[d][j], v)
    <3>1. CASE Label(Uses[d][j]) = label
      BY <2>1, <3>1, ExportedAre
    <3>2. CASE Label(Uses[d][j]) # label
      BY <3>2, Tuples
    <3> QED
      BY <3>1, <3>2
  <2>3. part(d) = [j \in 1..Len(Uses[d]) |-> part(d)[j]] /\ \A j \in 1..Len(Uses[d]) : part(d)[j] = Part(d, j)
    BY <2>1
  <2> HIDE DEF Part, part
  <2>4. /\ IsSeq(FlattenSeq(part(d)))
        /\ \A v : v \in ToSet(FlattenSeq(part(d))) <=> \E j \in 1..Len(Uses[d]) : v \in ToSet(part(d)[j])
    BY <2>1, <2>2, <2>3, Flat
  <2>5. ASSUME NEW v PROVE (\E j \in 1..Len(Uses[d]) : v \in ToSet(part(d)[j])) <=> Of(d, v)
    <3> HIDE DEF By
    <3>1. \A j \in 1..Len(Uses[d]) : v \in ToSet(part(d)[j]) <=> By(d, Uses[d][j], v)
      BY <2>2, <2>3
    <3>2. ToSet(Uses[d]) = {Uses[d][j] : j \in 1..Len(Uses[d])}
      BY <2>1 DEF ToSet
    <3> QED
      BY <3>1, <3>2
  <2> QED
    BY <2>4, <2>5
<1>3. /\ n \in Nat /\ DOMAIN Dependencies = 1..n
      /\ \A i \in 1..n : Dependencies[i] \in ToSet(Dependencies)
  BY UsesAre
<1>4. /\ s = [i \in 1..n |-> s[i]]
      /\ \A i \in 1..n : s[i] = FlattenSeq(part(Dependencies[i]))
  BY <1>3
<1> HIDE DEF s, n, part, Of
<1>5. \A i \in 1..n : IsSeq(s[i])
  BY <1>2, <1>3, <1>4
<1>6. IsSeq(FlattenSeq(s)) /\ \A v : v \in ToSet(FlattenSeq(s)) <=> \E i \in 1..n : v \in ToSet(s[i])
  BY <1>3, <1>4, <1>5, Flat
<1>7. ASSUME NEW v PROVE (\E i \in 1..n : v \in ToSet(s[i])) <=> \E d \in ToSet(Dependencies) : Of(d, v)
  <2>1. \A i \in 1..n : v \in ToSet(s[i]) <=> Of(Dependencies[i], v)
    BY <1>2, <1>3, <1>4
  <2> QED
    BY <1>3, <2>1 DEF ToSet
<1> QED
  BY <1>1, <1>6, <1>7 DEF Of


\* Labels are of the components that dependencies have.
LEMMA LabelsAre ==
    ASSUME VariablesSane
    PROVE  /\ Len(Labels) \in Nat /\ DOMAIN Labels = 1..Len(Labels)
           /\ \A label : label \in ToSet(Labels) <=> \E d \in ToSet(Dependencies) : \E c \in ToSet(Uses[d]) : label = Label(c)
<1> DEFINE part(d) == [j \in DOMAIN Uses[d] |-> Label(Uses[d][j])]
           n == Len(Dependencies)
           s == [i \in DOMAIN Dependencies |-> part(Dependencies[i])]
<1>1. Labels = FlattenSeq(s)
  BY DEF Labels
<1>2. ASSUME NEW d \in ToSet(Dependencies)
      PROVE  IsSeq(part(d)) /\ \A label : label \in ToSet(part(d)) <=> \E c \in ToSet(Uses[d]) : label = Label(c)
  <2>1. Len(Uses[d]) \in Nat /\ DOMAIN Uses[d] = 1..Len(Uses[d])
    BY UsesAre
  <2>2. part(d) \in Seq({Label(c) : c \in ToSet(Uses[d])})
    BY <2>1 DEF ToSet
  <2>3. ToSet(part(d)) = {Label(c) : c \in ToSet(Uses[d])}
    BY DEF ToSet
  <2> QED
    BY <2>2, <2>3, SequenceIs
<1>3. /\ n \in Nat /\ DOMAIN Dependencies = 1..n
      /\ \A i \in 1..n : Dependencies[i] \in ToSet(Dependencies)
  BY UsesAre
<1>4. /\ s = [i \in 1..n |-> s[i]]
      /\ \A i \in 1..n : s[i] = part(Dependencies[i])
  BY <1>3
<1> HIDE DEF s, n, part
<1>5. \A i \in 1..n : IsSeq(s[i])
  BY <1>2, <1>3, <1>4
<1>6. IsSeq(FlattenSeq(s)) /\ \A v : v \in ToSet(FlattenSeq(s)) <=> \E i \in 1..n : v \in ToSet(s[i])
  BY <1>3, <1>4, <1>5, Flat
<1>7. ASSUME NEW v PROVE (\E i \in 1..n : v \in ToSet(s[i]))
                         <=> \E d \in ToSet(Dependencies) : \E c \in ToSet(Uses[d]) : v = Label(c)
  <2>1. \A i \in 1..n : v \in ToSet(s[i]) <=> \E c \in ToSet(Uses[Dependencies[i]]) : v = Label(c)
    BY <1>2, <1>3, <1>4
  <2>2. ToSet(Dependencies) = {Dependencies[i] : i \in 1..n}
    BY <1>3 DEF ToSet
  <2> QED
    BY <2>1, <2>2
<1>8. Len(Labels) \in Nat /\ DOMAIN Labels = 1..Len(Labels)
  BY <1>1, <1>6, LenProperties DEF IsSeq
<1> QED
  BY <1>1, <1>6, <1>7, <1>8

\* What every composition is told.
LEMMA GlobalIs ==
    ASSUME VariablesSane, NEW annotations \in Annotations
    PROVE  /\ IsSeq(Global(annotations))
           /\ \A v : v \in ToSet(Global(annotations)) <=>
                 \/ v \in {[name |-> <<"context">>, value |-> <<"name">>], [name |-> <<"env">>, value |-> <<"environment">>],
                           [name |-> <<Broker>>, value |-> annotations[Broker]]}
                 \/ \E key \in DOMAIN annotations[Broker], token \in Tokens : v = KeySecret(key, token)
<1> DEFINE context == annotations[Broker]
           keys == SetToSeq(DOMAIN context)
           n == Len(keys)
           s == [i \in DOMAIN keys |-> KeySecrets(keys[i])]
           first == <<[name |-> <<Broker>>, value |-> context]>>
           Keyed(v) == \E key \in DOMAIN context, token \in Tokens : v = KeySecret(key, token)
<1>1. keys \in Seq(DOMAIN context) /\ ToSet(keys) = DOMAIN context
  <2>1. IsFiniteSet(DOMAIN context)
    BY DEF VariablesSane
  <2> QED
    BY <2>1, Ordered
<1>2. n \in Nat /\ DOMAIN keys = 1..n
  BY <1>1, LenProperties
<1>3. s = [i \in 1..n |-> s[i]] /\ \A i \in 1..n : s[i] = KeySecrets(keys[i])
  BY <1>2
<1>4. ASSUME NEW key PROVE IsSeq(KeySecrets(key)) /\ \A v : v \in ToSet(KeySecrets(key)) <=> \E token \in Tokens : v = KeySecret(key, token)
  <2>1. KeySecrets(key) = <<KeySecret(key, "username"), KeySecret(key, "password")>>
    BY DEF KeySecrets
  <2>2. IsSeq(KeySecrets(key)) /\ ToSet(KeySecrets(key)) = {KeySecret(key, "username"), KeySecret(key, "password")}
    BY <2>1, Tuples
  <2> QED
    BY <2>2 DEF Tokens
<1>5. IsSeq(first) /\ ToSet(first) = {[name |-> <<Broker>>, value |-> context]}
  BY Tuples
<1>6. /\ IsSeq(Described)
      /\ ToSet(Described) = {[name |-> <<"context">>, value |-> <<"name">>], [name |-> <<"env">>, value |-> <<"environment">>]}
  BY Tuples DEF Described
<1>7. Global(annotations) = Described \o (first \o FlattenSeq(s))
  BY DEF Global, ContextVariables
<1> HIDE DEF s, n, keys, first
<1>8. IsSeq(FlattenSeq(s)) /\ \A v : v \in ToSet(FlattenSeq(s)) <=> \E i \in 1..n : v \in ToSet(s[i])
  <2>1. \A i \in 1..n : IsSeq(s[i])
    BY <1>3, <1>4
  <2> QED
    BY <1>2, <1>3, <2>1, Flat
<1>9. ASSUME NEW v PROVE (\E i \in 1..n : v \in ToSet(s[i])) <=> Keyed(v)
  <2>1. \A i \in 1..n : v \in ToSet(s[i]) <=> \E token \in Tokens : v = KeySecret(keys[i], token)
    BY <1>3, <1>4
  <2>2. DOMAIN context = {keys[i] : i \in 1..n}
    BY <1>1, <1>2 DEF ToSet
  <2> QED
    BY <2>1, <2>2
<1> HIDE DEF Keyed
<1>10. IsSeq(first \o FlattenSeq(s)) /\ \A v : v \in ToSet(first \o FlattenSeq(s)) <=>
           v = [name |-> <<Broker>>, value |-> context] \/ Keyed(v)
  BY <1>5, <1>8, <1>9, Joined
<1>11. IsSeq(Global(annotations)) /\ \A v : v \in ToSet(Global(annotations)) <=>
           v \in ToSet(Described) \/ v \in ToSet(first \o FlattenSeq(s))
  BY <1>6, <1>7, <1>10, Joined
<1> QED
  BY <1>6, <1>10, <1>11 DEF Keyed

\* A composition is told what its members have, and what all have.
LEMMA AllAre ==
    ASSUME DeploymentSane, VariablesSane, NEW annotations \in Annotations, NEW members \in Seq(ToSet(Components))
    PROVE  /\ IsSeq(AllVariables(annotations, members))
           /\ \A v : v \in ToSet(AllVariables(annotations, members)) <=> Said(annotations, members, v)
<1> DEFINE Chosen(label) == \E c \in ToSet(members) : Label(c) = label
           Part(label) == IF Chosen(label) THEN Merge(annotations, label) ELSE <<>>
           n == Len(Labels)
           s == [i \in DOMAIN Labels |-> Part(Labels[i])]
           By(d, c, v) == \E x \in ToSet(SelectorsOf(d, c)) : Told(annotations[d], d, x, v)
           Mine(v) == \E d \in ToSet(Dependencies), c \in ToSet(members) : c \in ToSet(Uses[d]) /\ By(d, c, v)
<1>1. AllVariables(annotations, members) = FlattenSeq(s) \o Global(annotations)
  BY DEF AllVariables
<1>2. n \in Nat /\ DOMAIN Labels = 1..n
  BY LabelsAre
<1>3. s = [i \in 1..n |-> s[i]] /\ \A i \in 1..n : s[i] = Part(Labels[i])
  BY <1>2
<1>4. ASSUME NEW label
      PROVE  IsSeq(Part(label)) /\ \A v : v \in ToSet(Part(label)) <=>
                 Chosen(label) /\ \E d \in ToSet(Dependencies) : \E c \in ToSet(Uses[d]) : Label(c) = label /\ By(d, c, v)
  <2>1. CASE Chosen(label)
    BY <2>1, MergedAre
  <2>2. CASE ~Chosen(label)
    BY <2>2, Tuples
  <2> QED
    BY <2>1, <2>2
<1> HIDE DEF s, n, Part, By
<1>5. IsSeq(FlattenSeq(s)) /\ \A v : v \in ToSet(FlattenSeq(s)) <=> \E i \in 1..n : v \in ToSet(s[i])
  <2>1. \A i \in 1..n : IsSeq(s[i])
    BY <1>3, <1>4
  <2> QED
    BY <1>2, <1>3, <2>1, Flat
<1>6. ASSUME NEW v PROVE (\E i \in 1..n : v \in ToSet(s[i])) <=> Mine(v)
  <2>1. (\E i \in 1..n : v \in ToSet(s[i])) <=> \E label \in ToSet(Labels) : v \in ToSet(Part(label))
    <3>1. ToSet(Labels) = {Labels[i] : i \in 1..n}
      BY <1>2 DEF ToSet
    <3> QED
      BY <1>3, <3>1
  <2>2. ASSUME NEW label \in ToSet(Labels), v \in ToSet(Part(label)) PROVE Mine(v)
    <3>0. PICK m \in ToSet(members), d \in ToSet(Dependencies) :
              Label(m) = label /\ \E c \in ToSet(Uses[d]) : Label(c) = label /\ By(d, c, v)
      BY <1>4, <2>2
    <3>1. PICK c \in ToSet(Uses[d]) : Label(m) = label /\ Label(c) = label /\ By(d, c, v)
      BY <3>0
    <3>2. m \in ToSet(Components) /\ c \in ToSet(Components)
      <4>1. \A i \in DOMAIN members : members[i] \in ToSet(Components)
        BY LenProperties
      <4>2. \A x \in ToSet(members) : x \in ToSet(Components)
        BY <4>1 DEF ToSet
      <4> QED
        BY <4>2, SelectorsAre
    <3>3. m = c
      BY <3>1, <3>2 DEF Label, DeploymentSane
    <3> QED
      BY <3>1, <3>3
  <2>3. ASSUME Mine(v) PROVE \E label \in ToSet(Labels) : v \in ToSet(Part(label))
    <3>1. PICK d \in ToSet(Dependencies), c \in ToSet(members) : c \in ToSet(Uses[d]) /\ By(d, c, v)
      BY <2>3
    <3>2. Label(c) \in ToSet(Labels)
      BY <3>1, LabelsAre
    <3>3. v \in ToSet(Part(Label(c)))
      BY <1>4, <3>1
    <3> QED
      BY <3>2, <3>3
  <2> HIDE DEF Mine
  <2> QED
    BY <2>1, <2>2, <2>3
<1> HIDE DEF Mine
<1>7. IsSeq(Global(annotations))
  BY GlobalIs
<1>8. IsSeq(AllVariables(annotations, members)) /\ \A v : v \in ToSet(AllVariables(annotations, members)) <=>
          Mine(v) \/ v \in ToSet(Global(annotations))
  BY <1>1, <1>5, <1>6, <1>7, Joined
<1>9. ASSUME NEW v PROVE Mine(v) \/ v \in ToSet(Global(annotations)) <=> Said(annotations, members, v)
  BY GlobalIs DEF Mine, By, Said
<1> QED
  BY <1>8, <1>9


\* VariablesRead of one name have one value.
LEMMA Unambiguous ==
    ASSUME VariablesSane, NEW annotations \in Annotations, NEW members \in Seq(ToSet(Components)),
           NEW v, NEW w, Said(annotations, members, v), Said(annotations, members, w), v.name = w.name
    PROVE  v.value = w.value
<1> DEFINE context == annotations[Broker]
           Fixed(x) == \/ x = [name |-> <<"context">>, value |-> <<"name">>]
                       \/ x = [name |-> <<"env">>, value |-> <<"environment">>]
                       \/ x = [name |-> <<Broker>>, value |-> context]
           Keyed(x) == \E key \in DOMAIN context, token \in Tokens : x = KeySecret(key, token)
           Mine(x) == \E d \in ToSet(Dependencies), c \in ToSet(members) :
                       c \in ToSet(Uses[d]) /\ \E y \in ToSet(SelectorsOf(d, c)) : Told(annotations[d], d, y, x)
<1>1. (Fixed(v) \/ Keyed(v) \/ Mine(v)) /\ (Fixed(w) \/ Keyed(w) \/ Mine(w))
  BY DEF Said
<1>2. IsSeq(<<>>) /\ \A d : <<d>> = Variable(d, <<>>)
  BY Tuples DEF Variable
<1>3. \A key \in DOMAIN context : IsSeq(key)
  BY DEF VariablesSane
<1>5. ASSUME NEW x, Fixed(x)
      PROVE  \E d \in {"context", "env", Broker} :
                 /\ x.name = Variable(d, <<>>)
                 /\ x.value = IF d = "context" THEN <<"name">> ELSE IF d = "env" THEN <<"environment">> ELSE context
  BY <1>2, <1>5 DEF Broker
<1>6. ASSUME NEW x, Keyed(x)
      PROVE  \E key, token :
                 /\ IsSeq(key) /\ IsSeq(Append(key, token))
                 /\ x.name = Variable(Broker, Append(key, token)) /\ x.value = <<Broker, key, token>>
  <2>1. PICK key \in DOMAIN context, token \in Tokens : x = KeySecret(key, token)
    BY <1>6
  <2>2. IsSeq(key) /\ IsSeq(Append(key, token))
    BY <1>3, Appended
  <2>3. x.name = Variable(Broker, Append(key, token)) /\ x.value = <<Broker, key, token>>
    BY <2>1 DEF KeySecret
  <2> QED
    BY <2>2, <2>3
<1> DEFINE OfDependency(x, d, c, y) ==
               /\ d \notin {Broker, "context", "env"} /\ c \in ToSet(Uses[d])
               /\ IsSeq(y) /\ y \in ToSet(SelectorsOf(d, c))
               /\ \/ x.name = Variable(d, y) /\ x.value = <<annotations[d][ResolveRecord(annotations[d], y)]>>
                  \/ \E token \in Tokens : /\ IsSeq(Append(y, token))
                                           /\ x.name = Variable(d, Append(y, token))
                                           /\ x.value = <<d, ResolveRecord(annotations[d], y), token>>
<1>7. ASSUME NEW x, Mine(x)
      PROVE  \E d \in ToSet(Dependencies) : \E c, y : OfDependency(x, d, c, y)
  <2>1. PICK d \in ToSet(Dependencies), c \in ToSet(members) :
                c \in ToSet(Uses[d]) /\ \E y \in ToSet(SelectorsOf(d, c)) : Told(annotations[d], d, y, x)
    BY <1>7
  <2>2. PICK y \in ToSet(SelectorsOf(d, c)) : Told(annotations[d], d, y, x)
    BY <2>1
  <2>3. d \notin {Broker, "context", "env"}
    BY <2>1, SelectorsAre
  <2>4. IsSeq(y)
    BY <2>1, SelectorsAre
  <2>5. CASE x = Url(annotations[d], d, y)
    <3>1. x.name = Variable(d, y) /\ x.value = <<annotations[d][ResolveRecord(annotations[d], y)]>>
      BY <2>5 DEF Url
    <3> QED
      BY <2>1, <2>3, <2>4, <3>1
  <2>6. CASE \E token \in Tokens : x = Credential(annotations[d], d, y, token)
    <3>1. PICK token \in Tokens : x = Credential(annotations[d], d, y, token)
      BY <2>6
    <3>2. /\ x.name = Variable(d, Append(y, token)) /\ x.value = <<d, ResolveRecord(annotations[d], y), token>>
          /\ IsSeq(Append(y, token))
      BY <2>4, <3>1, Appended DEF Credential
    <3> QED
      BY <2>1, <2>3, <2>4, <3>2
  <2> QED
    BY <2>2, <2>5, <2>6 DEF Told
<1> HIDE DEF Fixed, Keyed, Mine
<1>8. Broker # "context" /\ Broker # "env" /\ "context" # "env"
  BY DEF Broker
<1>9. CASE Fixed(v) /\ Fixed(w)
  <2>1. PICK d \in {"context", "env", Broker} :
                 /\ v.name = Variable(d, <<>>)
                 /\ v.value = IF d = "context" THEN <<"name">> ELSE IF d = "env" THEN <<"environment">> ELSE context
    BY <1>5, <1>9
  <2>2. PICK e \in {"context", "env", Broker} :
                 /\ w.name = Variable(e, <<>>)
                 /\ w.value = IF e = "context" THEN <<"name">> ELSE IF e = "env" THEN <<"environment">> ELSE context
    BY <1>5, <1>9
  <2>3. d = e
    BY <1>2, <1>8, <2>1, <2>2, Named
  <2> QED
    BY <2>1, <2>2, <2>3
<1>10. CASE Keyed(v) /\ Keyed(w)
  <2>1. PICK key, token :
                 /\ IsSeq(key) /\ IsSeq(Append(key, token))
                 /\ v.name = Variable(Broker, Append(key, token)) /\ v.value = <<Broker, key, token>>
    BY <1>6, <1>10
  <2>2. PICK other, word :
                 /\ IsSeq(other) /\ IsSeq(Append(other, word))
                 /\ w.name = Variable(Broker, Append(other, word)) /\ w.value = <<Broker, other, word>>
    BY <1>6, <1>10
  <2>3. Append(key, token) = Append(other, word)
    BY <1>8, <2>1, <2>2, Named
  <2>4. key = other /\ token = word
    BY <2>1, <2>2, <2>3, AppendedSame
  <2> QED
    BY <2>1, <2>2, <2>4
<1>11. ASSUME NEW x, NEW z, Fixed(x), Keyed(z) PROVE x.name # z.name
  <2>1. PICK d \in {"context", "env", Broker} : x.name = Variable(d, <<>>)
    BY <1>5, <1>11
  <2>2. PICK key, token :
                 IsSeq(key) /\ IsSeq(Append(key, token)) /\ z.name = Variable(Broker, Append(key, token))
    BY <1>6, <1>11
  <2>3. Append(key, token) # <<>>
    BY Appended
  <2>4. Variable(d, <<>>) # Variable(Broker, Append(key, token))
    <3>1. IsSeq(<<>>) /\ IsSeq(Append(key, token))
      BY <1>2, <2>2
    <3> QED
      BY <2>3, <3>1, Named
  <2> QED
    BY <2>1, <2>2, <2>4
<1>12. ASSUME NEW x, NEW z, Fixed(x) \/ Keyed(x), Mine(z) PROVE x.name # z.name
  <2>1. PICK d \in {"context", "env", Broker} : \E y : IsSeq(y) /\ x.name = Variable(d, y)
    <3>1. CASE Fixed(x)
      BY <1>2, <1>5, <3>1
    <3>2. CASE Keyed(x)
      BY <1>6, <3>2
    <3> QED
      BY <1>12, <3>1, <3>2
  <2>2. PICK e, u : e \notin {Broker, "context", "env"} /\ IsSeq(u) /\ z.name = Variable(e, u)
    BY <1>7, <1>12
  <2> QED
    BY <1>8, <2>1, <2>2, Named
<1>13. CASE Mine(v) /\ Mine(w)
  <2>1. PICK d \in ToSet(Dependencies) : \E c, y : OfDependency(v, d, c, y)
    BY <1>7, <1>13
  <2>2. PICK c, y : OfDependency(v, d, c, y)
    BY <2>1
  <2>3. PICK e \in ToSet(Dependencies) : \E b, u : OfDependency(w, e, b, u)
    BY <1>7, <1>13
  <2>4. PICK b, u : OfDependency(w, e, b, u)
    BY <2>3
  <2>5. PICK dn, en : IsSeq(dn) /\ IsSeq(en) /\ v.name = Variable(d, dn) /\ w.name = Variable(e, en)
    BY <2>2, <2>4
  <2>6. d = e
    <3>1. Variable(d, dn) = Variable(e, en)
      BY <2>5
    <3> QED
      BY <2>5, <3>1, Named
  <2>s. IsSeq(y) /\ IsSeq(u)
    BY <2>2, <2>4
  <2>7. \A t \in Tokens : y # Append(u, t) /\ u # Append(y, t)
    BY <2>2, <2>4, <2>6 DEF VariablesSane
  <2>8. CASE /\ v.name = Variable(d, y) /\ v.value = <<annotations[d][ResolveRecord(annotations[d], y)]>>
             /\ w.name = Variable(e, u) /\ w.value = <<annotations[e][ResolveRecord(annotations[e], u)]>>
    <3>1. y = u
      BY <2>2, <2>4, <2>8, Named
    <3> QED
      BY <2>6, <2>8, <3>1
  <2>9. ASSUME NEW t \in Tokens, NEW p, NEW q, IsSeq(p), IsSeq(Append(q, t)), Variable(d, p) = Variable(e, Append(q, t))
        PROVE  p = Append(q, t)
    BY <2>9, Named
  <2>10. CASE /\ v.name = Variable(d, y)
              /\ \E t \in Tokens : IsSeq(Append(u, t)) /\ w.name = Variable(e, Append(u, t))
    BY <2>2, <2>4, <2>7, <2>9, <2>10
  <2>11. CASE /\ w.name = Variable(e, u)
              /\ \E t \in Tokens : IsSeq(Append(y, t)) /\ v.name = Variable(d, Append(y, t))
    <3>1. PICK t \in Tokens : IsSeq(Append(y, t)) /\ v.name = Variable(d, Append(y, t))
      BY <2>11
    <3>2. u = Append(y, t)
      <4>1. Variable(e, u) = Variable(d, Append(y, t))
        BY <2>11, <3>1
      <4> QED
        BY <2>s, <3>1, <4>1, Named
    <3> QED
      BY <2>7, <3>2
  <2>12. CASE /\ \E t \in Tokens : /\ IsSeq(Append(y, t)) /\ v.name = Variable(d, Append(y, t))
                                   /\ v.value = <<d, ResolveRecord(annotations[d], y), t>>
              /\ \E t \in Tokens : /\ IsSeq(Append(u, t)) /\ w.name = Variable(e, Append(u, t))
                                   /\ w.value = <<e, ResolveRecord(annotations[e], u), t>>
    <3>1. PICK t \in Tokens : /\ IsSeq(Append(y, t)) /\ v.name = Variable(d, Append(y, t))
                              /\ v.value = <<d, ResolveRecord(annotations[d], y), t>>
      BY <2>12
    <3>2. PICK r \in Tokens : /\ IsSeq(Append(u, r)) /\ w.name = Variable(e, Append(u, r))
                              /\ w.value = <<e, ResolveRecord(annotations[e], u), r>>
      BY <2>12
    <3>3. Append(y, t) = Append(u, r)
      <4>1. Variable(d, Append(y, t)) = Variable(e, Append(u, r))
        BY <3>1, <3>2
      <4> QED
        BY <3>1, <3>2, <4>1, Named
    <3>4. y = u /\ t = r
      BY <2>s, <3>3, AppendedSame
    <3> QED
      BY <2>6, <3>1, <3>2, <3>4
  <2> QED
    BY <2>2, <2>4, <2>8, <2>10, <2>11, <2>12
<1> QED
  BY <1>1, <1>9, <1>10, <1>11, <1>12, <1>13


\* The variables of a composition are those it is told, each with its value.
LEMMA VariablesRead ==
    ASSUME DeploymentSane, VariablesSane, NEW annotations \in Annotations, NEW members \in Seq(ToSet(Components))
    PROVE  /\ \A v : Said(annotations, members, v) => Read(AddVariables(annotations, members), v.name) = v.value
           /\ \A name \in DOMAIN AddVariables(annotations, members) :
                 \E v : /\ Said(annotations, members, v) /\ v.name = name
                        /\ v.value = AddVariables(annotations, members)[name]
<1> DEFINE all == AllVariables(annotations, members)
           named(name) == {i \in DOMAIN all : all[i].name = name}
           read == AddVariables(annotations, members)
<1>1. IsSeq(all) /\ \A v : v \in ToSet(all) <=> Said(annotations, members, v)
  BY AllAre
<1>2. read = [name \in {all[i].name : i \in DOMAIN all} |-> all[Min(named(name))].value]
  BY DEF AddVariables
<1>3. Len(all) \in Nat /\ DOMAIN all = 1..Len(all)
  BY <1>1, LenProperties DEF IsSeq
<1> HIDE DEF all
<1>4. ASSUME NEW i \in DOMAIN all PROVE Min(named(all[i].name)) \in named(all[i].name)
  <2> DEFINE S == named(all[i].name)
  <2>1. S \in SUBSET Nat /\ S # {}
    BY <1>3
  <2>2. \E n \in S : \A m \in S : n <= m
    <3> HIDE DEF S
    <3> QED
      BY <2>1, Least
  <2> QED
    BY <2>2 DEF Min
<1> HIDE DEF read
<1>5. ASSUME NEW i \in DOMAIN all
      PROVE  all[i].name \in DOMAIN read /\ \E j \in DOMAIN all : all[j].name = all[i].name /\ read[all[i].name] = all[j].value
  <2> DEFINE j == Min(named(all[i].name))
  <2>1. j \in DOMAIN all /\ all[j].name = all[i].name
    BY <1>4
  <2>2. all[i].name \in DOMAIN read /\ read[all[i].name] = all[j].value
    BY <1>2
  <2> HIDE DEF j
  <2> QED
    BY <2>1, <2>2
<1>6. \A i \in DOMAIN all : Said(annotations, members, all[i])
  BY <1>1 DEF ToSet
<1>7. ASSUME NEW v, Said(annotations, members, v) PROVE Read(read, v.name) = v.value
  <2>1. PICK i \in DOMAIN all : v = all[i]
    BY <1>1, <1>7 DEF ToSet
  <2>2. PICK j \in DOMAIN all : all[j].name = v.name /\ read[v.name] = all[j].value
    BY <1>5, <2>1
  <2>3. all[j].value = v.value
    BY <1>6, <1>7, <2>2, Unambiguous
  <2>4. v.name \in DOMAIN read
    BY <1>5, <2>1
  <2> QED
    BY <2>2, <2>3, <2>4 DEF Read
<1>8. ASSUME NEW name \in DOMAIN read
      PROVE  \E v : Said(annotations, members, v) /\ v.name = name /\ v.value = read[name]
  <2>1. PICK i \in DOMAIN all : name = all[i].name
    BY <1>2
  <2>2. PICK j \in DOMAIN all : all[j].name = name /\ read[name] = all[j].value
    BY <1>5, <2>1
  <2> QED
    BY <1>6, <2>2
<1> QED
  BY <1>7, <1>8 DEF read

\* Compositions are of components.
LEMMA CompletedAre ==
    ASSUME DeploymentSane, NEW name \in DOMAIN Completed
    PROVE  Completed[name] \in Seq(ToSet(Components))
<1>1. CASE name \in DOMAIN Compositions
  BY <1>1 DEF Completed, DeploymentSane
<1>2. CASE name \notin DOMAIN Compositions
  <2>1. PICK c \in ToSet(Components) : Label(c) = name
    BY <1>2 DEF Completed
  <2> DEFINE d == CHOOSE d \in ToSet(Components) : Label(d) = name
  <2>2. d \in ToSet(Components)
    BY <2>1
  <2>3. Completed[name] = <<d>>
    BY <1>2 DEF Completed
  <2> HIDE DEF d
  <2> QED
    BY <2>2, <2>3
<1> QED
  BY <1>1, <1>2

\* What a run or the cluster is told to run has variables as annotated.
Annotated(plan) ==
    /\ plan.annotations \in Annotations /\ ~Unresolved(plan.annotations)
    /\ plan.env = [name \in DOMAIN Completed |-> AddVariables(plan.annotations, Completed[name])]

\* A component resolves its URLs and their credentials as annotated.
LEMMA AnnotatedResolves ==
    ASSUME DeploymentSane, VariablesSane, release # Nothing => Annotated(release) /\ DOMAIN release.images = DOMAIN Completed
    PROVE  Resolves
<1> DEFINE annotations == release.annotations
<1> SUFFICES ASSUME NEW name \in Running, NEW d \in ToSet(Dependencies),
                    NEW c \in ToSet(Completed[name]) \cap ToSet(Uses[d]), NEW x \in ToSet(SelectorsOf(d, c))
             PROVE  LET annotation == release.annotations[d]
                        key == Deepest(annotation, x)
                        variable == Variable(d, x)
                    IN  /\ Read(release.env[name], variable) = <<annotation[key]>>
                        /\ annotation[key] \in Secure =>
                            Read(release.env[name], Append(variable, "password")) = <<d, key, "password">>
  BY DEF Resolves
<1> DEFINE annotation == annotations[d]
           key == Deepest(annotation, x)
           members == Completed[name]
<1>1. release # Nothing /\ Annotated(release) /\ name \in DOMAIN Completed
  BY DEF Running
<1>2. /\ annotations \in Annotations /\ ~Unresolved(annotations)
      /\ release.env[name] = AddVariables(annotations, members)
  BY <1>1 DEF Annotated
<1>3. members \in Seq(ToSet(Components))
  BY <1>1, CompletedAre
<1>4. IsSeq(x)
  BY SelectorsAre
<1>5. \A k \in DOMAIN annotation : IsSeq(k)
  <2>1. Uses[d] # <<>>
    BY Tuples
  <2> QED
    BY <1>2, <2>1 DEF VariablesSane
<1>6. ResolveRecord(annotation, x) # Nothing
  BY <1>2 DEF Unresolved
<1>7. \E k \in DOMAIN annotation : IsPrefix(k, x)
  <2>1. PICK n \in 0..Len(x) : SubSeq(x, 1, n) \in DOMAIN annotation
    BY <1>6 DEF ResolveRecord
  <2>2. IsPrefix(SubSeq(x, 1, n), x)
    BY <1>4, Beginnings DEF IsSeq
  <2> QED
    BY <2>1, <2>2
<1>8. ResolveRecord(annotation, x) = key
  BY <1>4, <1>5, <1>7, ResolvesDeepest
<1> HIDE DEF key
<1>9. Said(annotations, members, Url(annotation, d, x))
  BY DEF Said, Told
<1>10. Read(AddVariables(annotations, members), Url(annotation, d, x).name) = Url(annotation, d, x).value
  BY <1>2, <1>3, <1>9, VariablesRead
<1>11. ASSUME annotation[key] \in Secure
       PROVE  Read(AddVariables(annotations, members), Append(Variable(d, x), "password")) = <<d, key, "password">>
  <2> DEFINE v == Credential(annotation, d, x, "password")
  <2>1. Said(annotations, members, v)
    BY <1>8, <1>11 DEF Said, Told, Tokens
  <2>2. v.name = Variable(d, Append(x, "password")) /\ v.value = <<d, key, "password">>
    BY <1>8 DEF Credential
  <2>3. Variable(d, Append(x, "password")) = Append(Variable(d, x), "password")
    BY <1>4 DEF Variable, IsSeq
  <2> HIDE DEF v
  <2>4. Read(AddVariables(annotations, members), v.name) = v.value
    BY <1>2, <1>3, <2>1, VariablesRead
  <2> QED
    BY <2>2, <2>3, <2>4
<1>12. Read(AddVariables(annotations, members), Variable(d, x)) = <<annotation[key]>>
  BY <1>8, <1>10 DEF Url
<1> QED
  BY <1>2, <1>11, <1>12 DEF key

\* And so it does the broker's.
LEMMA AnnotatedBroker ==
    ASSUME DeploymentSane, VariablesSane, release # Nothing => Annotated(release) /\ DOMAIN release.images = DOMAIN Completed
    PROVE  BrokerResolves
<1> DEFINE annotations == release.annotations
           context == annotations[Broker]
<1> SUFFICES ASSUME NEW name \in Running, NEW c \in ToSet(Completed[name]),
                    \E k \in DOMAIN context : IsPrefix(k, Id[c])
             PROVE  LET key == Deepest(context, Id[c])
                    IN  ResolveURIs(release.env[name], c) = [url |-> context[key], password |-> <<Broker, key, "password">>]
  BY DEF BrokerResolves
<1> DEFINE key == Deepest(context, Id[c])
           members == Completed[name]
           read == AddVariables(annotations, members)
<1>1. release # Nothing /\ Annotated(release) /\ name \in DOMAIN Completed
  BY DEF Running
<1>2. annotations \in Annotations /\ release.env[name] = read
  BY <1>1 DEF Annotated
<1>3. members \in Seq(ToSet(Components))
  BY <1>1, CompletedAre
<1>4. IsSeq(Id[c])
  <2>1. \A i \in DOMAIN members : members[i] \in ToSet(Components)
    BY <1>3, LenProperties
  <2>2. c \in ToSet(Components)
    BY <2>1 DEF ToSet
  <2> QED
    BY <2>2 DEF VariablesSane
<1>5. \A k \in DOMAIN context : IsSeq(k)
  BY <1>2 DEF VariablesSane
<1>6. ResolveRecord(context, Id[c]) = key
  BY <1>4, <1>5, ResolvesDeepest
<1>7. key \in DOMAIN context
  BY <1>4, <1>5, <1>6, ResolvesDeepest
<1> HIDE DEF key, read
<1>8. Read(read, <<Broker>>) = context
  <2> DEFINE v == [name |-> <<Broker>>, value |-> context]
  <2>1. Said(annotations, members, v)
    BY DEF Said
  <2>2. Read(read, v.name) = v.value
    BY <1>2, <1>3, <2>1, VariablesRead DEF read
  <2> QED
    BY <2>2
<1>9. Read(read, Variable(Broker, Append(key, "password"))) = <<Broker, key, "password">>
  <2> DEFINE v == KeySecret(key, "password")
  <2>1. Said(annotations, members, v)
    BY <1>7 DEF Said, Tokens
  <2>2. v.name = Variable(Broker, Append(key, "password")) /\ v.value = <<Broker, key, "password">>
    BY DEF KeySecret
  <2> HIDE DEF v
  <2>3. Read(read, v.name) = v.value
    BY <1>2, <1>3, <2>1, VariablesRead DEF read
  <2> QED
    BY <2>2, <2>3
<1>10. ResolveURIs(read, c) = [url |-> context[key], password |-> <<Broker, key, "password">>]
  BY <1>6, <1>8, <1>9 DEF ResolveURIs
<1> QED
  BY <1>2, <1>10 DEF key

\* No composition has the variables of others.
LEMMA AnnotatedOwn ==
    ASSUME DeploymentSane, VariablesSane, release # Nothing => Annotated(release) /\ DOMAIN release.images = DOMAIN Completed
    PROVE  OwnOnly
<1> DEFINE annotations == release.annotations
<1> SUFFICES ASSUME NEW name \in Running, NEW v \in DOMAIN release.env[name]
             PROVE  \/ [name |-> v, value |-> release.env[name][v]] \in ToSet(Global(annotations))
                    \/ \E c \in ToSet(Completed[name]), d \in ToSet(Dependencies) :
                          c \in ToSet(Uses[d]) /\ \E x \in ToSet(SelectorsOf(d, c)) : IsPrefix(Variable(d, x), v)
  BY DEF OwnOnly
<1> DEFINE members == Completed[name]
           read == AddVariables(annotations, members)
<1>1. release # Nothing /\ Annotated(release) /\ name \in DOMAIN Completed
  BY DEF Running
<1>2. annotations \in Annotations /\ release.env[name] = read
  BY <1>1 DEF Annotated
<1>3. members \in Seq(ToSet(Components))
  BY <1>1, CompletedAre
<1>4. PICK w : Said(annotations, members, w) /\ w.name = v /\ w.value = read[v]
  BY <1>2, <1>3, VariablesRead
<1> DEFINE fixed == {[name |-> <<"context">>, value |-> <<"name">>], [name |-> <<"env">>, value |-> <<"environment">>],
                     [name |-> <<Broker>>, value |-> annotations[Broker]]}
           Keyed(x) == \E key \in DOMAIN annotations[Broker], token \in Tokens : x = KeySecret(key, token)
<1> HIDE DEF read
<1>5. CASE w \in fixed \/ Keyed(w)
  <2>1. w \in ToSet(Global(annotations))
    BY <1>2, <1>5, GlobalIs
  <2>2. w = [name |-> w.name, value |-> w.value]
    <3>1. CASE w \in fixed
      BY <3>1
    <3>2. CASE Keyed(w)
      BY <3>2 DEF KeySecret
    <3> QED
      BY <1>5, <3>1, <3>2
  <2> QED
    BY <1>2, <1>4, <2>1, <2>2
<1>6. ASSUME NEW d \in ToSet(Dependencies), NEW c \in ToSet(members), c \in ToSet(Uses[d]),
             NEW x \in ToSet(SelectorsOf(d, c)), Told(annotations[d], d, x, w)
      PROVE  IsPrefix(Variable(d, x), v)
  <2>1. IsSeq(x)
    BY <1>6, SelectorsAre
  <2>2. w.name = Variable(d, x) \/ \E token \in Tokens : w.name = Append(Variable(d, x), token)
    <3>1. CASE w = Url(annotations[d], d, x)
      BY <3>1 DEF Url
    <3>2. ASSUME NEW token \in Tokens, w = Credential(annotations[d], d, x, token)
          PROVE  w.name = Append(Variable(d, x), token)
      <4>1. w.name = Variable(d, Append(x, token))
        BY <3>2 DEF Credential
      <4>2. Variable(d, Append(x, token)) = Append(Variable(d, x), token)
        BY <2>1 DEF Variable, IsSeq
      <4> QED
        BY <4>1, <4>2
    <3> QED
      BY <1>6, <3>1, <3>2 DEF Told
  <2>3. IsSeq(Variable(d, x))
    BY <2>1, Tuples, Joined DEF Variable
  <2> QED
    BY <1>4, <2>2, <2>3, PrefixOfAppended
<1> QED
  BY <1>4, <1>5, <1>6 DEF Said

-----------------------------------------------------------------------------
(* Releases *)

\* What a run or the cluster is told is made of one checkout.
Whole(plan) ==
    /\ plan.images = [name \in DOMAIN Completed |-> CompositionImage(name, plan.versions)]
    /\ plan.services = {ServiceImage(x) : x \in AllServices}
    /\ Annotated(plan)

\* A base that a composition may run on.
Fits(name, base) ==
    IF Based(name) THEN base = Bases[name]
    ELSE \A c \in ToSet(Completed[name]) : Base[c] \in {base, Nothing} /\ (Base[c] = Nothing => Wanted(name) = {Nothing})

RunShaped ==
    /\ DOMAIN run = Operators
    /\ \A o \in Operators :
        /\ DOMAIN run[o] = DOMAIN Run
        /\ run[o].prepared \in BOOLEAN /\ run[o].building \in BOOLEAN /\ run[o].dry \in BOOLEAN

\* A run that has a plan has in its list what the registry lacks, and builds
\* only what can be built.
Planned ==
    \A o \in Operators : run[o].phase = "install" =>
        /\ Whole(run[o].plan) /\ ~DuplicateName
        /\ run[o].todo \in Seq(ImagesOf(run[o].plan))
        /\ run[o].dry => run[o].todo = <<>>
        /\ ~run[o].dry => ImagesOf(run[o].plan) \subseteq ToSet(run[o].todo) \cup DOMAIN registry
        /\ run[o].building => run[o].todo # <<>> /\ run[o].prepared
        /\ run[o].prepared => \A image \in ToSet(run[o].todo) : ~BaseConflict(image)

\* An image has what its tag says, on a base that fits.
Registered ==
    \A image \in DOMAIN registry :
        /\ DOMAIN registry[image].versions = ToSet(image.members)
        /\ \A i \in DOMAIN image.members : registry[image].versions[image.members[i]] = image.version[i]
        /\ image.of = "composition" => Fits(image.name, registry[image].base)

Deployed == release # Nothing => Whole(release) /\ ~DuplicateName /\ ImagesOf(release) \subseteq DOMAIN registry

ReleaseInv == RunShaped /\ Planned /\ Registered /\ Deployed

LEMMA ReleaseInitial == DeployInit => ReleaseInv
<1> SUFFICES ASSUME DeployInit PROVE ReleaseInv
  OBVIOUS
<1>1. DOMAIN run = Operators /\ \A o \in Operators : run[o] = Run
  BY DEF DeployInit
<1>2. Run.phase = "none" /\ Run.prepared = FALSE /\ Run.building = FALSE /\ Run.dry = FALSE
  BY DEF Run
<1>3. RunShaped
  BY <1>1, <1>2 DEF RunShaped
<1>4. Planned
  BY <1>1, <1>2 DEF Planned
<1>5. DOMAIN registry = {} /\ release = Nothing
  BY DEF DeployInit
<1> QED
  BY <1>3, <1>4, <1>5 DEF ReleaseInv, Registered, Deployed

\* What is said of an image.
LEMMA ImagesAre ==
    ASSUME NEW plan, Whole(plan), NEW image \in ImagesOf(plan)
    PROVE  \/ \E name \in DOMAIN Completed : image = CompositionImage(name, plan.versions)
           \/ \E x \in AllServices : image = ServiceImage(x)
BY DEF Whole, ImagesOf

\* A run goes on, with the same plan or failed, and the registry as it is.
LEMMA Onward ==
    ASSUME ReleaseInv, NEW o \in Operators, NEW record, Update(o, record),
           DOMAIN record = DOMAIN Run,
           record.prepared \in BOOLEAN /\ record.building \in BOOLEAN /\ record.dry \in BOOLEAN,
           record.phase = "install" => run[o].phase = "install" /\ record.plan = run[o].plan /\ record.dry = run[o].dry,
           record.phase = "install" =>
               /\ record.todo \in Seq(ImagesOf(record.plan))
               /\ record.dry => record.todo = <<>>
               /\ ~record.dry => ImagesOf(record.plan) \subseteq ToSet(record.todo) \cup DOMAIN registry'
               /\ record.building => record.todo # <<>> /\ record.prepared
               /\ record.prepared => \A image \in ToSet(record.todo) : ~BaseConflict(image),
           DOMAIN registry \subseteq DOMAIN registry'
    PROVE  RunShaped' /\ Planned'
<1>1. /\ DOMAIN run' = Operators /\ run'[o] = record
      /\ \A p \in Operators \ {o} : run'[p] = run[p]
  BY DEF Update, ReleaseInv, RunShaped
<1>2. RunShaped'
  BY <1>1 DEF ReleaseInv, RunShaped
<1>3. Planned'
  <2> SUFFICES ASSUME NEW p \in Operators, run'[p].phase = "install"
               PROVE  /\ Whole(run'[p].plan) /\ ~DuplicateName
                      /\ run'[p].todo \in Seq(ImagesOf(run'[p].plan))
                      /\ run'[p].dry => run'[p].todo = <<>>
                      /\ ~run'[p].dry => ImagesOf(run'[p].plan) \subseteq ToSet(run'[p].todo) \cup DOMAIN registry'
                      /\ run'[p].building => run'[p].todo # <<>> /\ run'[p].prepared
                      /\ run'[p].prepared => \A image \in ToSet(run'[p].todo) : ~BaseConflict(image)
    BY DEF Planned
  <2>1. CASE p = o
    BY <1>1, <2>1 DEF ReleaseInv, Planned
  <2>2. CASE p # o
    <3>1. run'[p] = run[p]
      BY <1>1, <2>2
    <3> QED
      BY <3>1 DEF ReleaseInv, Planned
  <2> QED
    BY <2>1, <2>2
<1> QED
  BY <1>2, <1>3

\* What failed has no plan to follow.
LEMMA Failing ==
    ASSUME ReleaseInv, NEW o \in Operators, FailRun(o), UNCHANGED <<registry, release>>
    PROVE  ReleaseInv'
<1> DEFINE record == [run[o] EXCEPT !.phase = "failed"]
<1>1. DOMAIN record = DOMAIN Run /\ record.phase = "failed"
  BY DEF ReleaseInv, RunShaped, Run
<1>2. record.prepared = run[o].prepared /\ record.building = run[o].building /\ record.dry = run[o].dry
  BY DEF ReleaseInv, RunShaped, Run
<1>3. record.prepared \in BOOLEAN /\ record.building \in BOOLEAN /\ record.dry \in BOOLEAN
  BY <1>2 DEF ReleaseInv, RunShaped
<1>4. RunShaped' /\ Planned'
  <2> HIDE DEF record
  <2>1. Update(o, record)
    BY DEF FailRun, record
  <2> QED
    BY <1>1, <1>3, <2>1, Onward
<1> QED
  BY <1>4 DEF ReleaseInv, Registered, Deployed, Fits

LEMMA PlanKeeps ==
    ASSUME DeploymentSane, ReleaseInv, NEW o \in Operators, Plan(o)
    PROVE  ReleaseInv'
<1>0. UNCHANGED <<registry, release>>
  BY DEF Plan
<1> SUFFICES ASSUME ~FailRun(o) PROVE ReleaseInv'
  BY <1>0, Failing
<1>1. PICK annotations \in Annotations :
        /\ ~DuplicateName /\ ~Unresolved(annotations)
        /\ LET images == [name \in DOMAIN Completed |-> CompositionImage(name, source)]
               plan == [annotations |-> annotations, versions |-> source, images |-> images,
                        services |-> {ServiceImage(x) : x \in AllServices},
                        env |-> [name \in DOMAIN Completed |-> AddVariables(annotations, Completed[name])]]
           IN  \E dry \in BOOLEAN :
                  Update(o, [Run EXCEPT
                      !.phase = "install", !.plan = plan, !.dry = dry, !.prepared = dry,
                      !.todo = IF dry THEN <<>> ELSE SetToSeq(ImagesOf(plan))])
  BY DEF Plan
<1> DEFINE images == [name \in DOMAIN Completed |-> CompositionImage(name, source)]
           plan == [annotations |-> annotations, versions |-> source, images |-> images,
                    services |-> {ServiceImage(x) : x \in AllServices},
                    env |-> [name \in DOMAIN Completed |-> AddVariables(annotations, Completed[name])]]
<1>2. PICK dry \in BOOLEAN :
        Update(o, [Run EXCEPT !.phase = "install", !.plan = plan, !.dry = dry, !.prepared = dry,
                              !.todo = IF dry THEN <<>> ELSE SetToSeq(ImagesOf(plan))])
  BY <1>1
<1>3. Whole(plan)
  BY <1>1 DEF Whole, Annotated
<1>4. IsFiniteSet(ImagesOf(plan))
  <2>1. IsFiniteSet(DOMAIN Completed) /\ IsFiniteSet(AllServices)
    BY DEF DeploymentSane
  <2>2. IsFiniteSet({CompositionImage(name, source) : name \in DOMAIN Completed})
    <3> DEFINE S == DOMAIN Completed
               T == {CompositionImage(name, source) : name \in S}
               f == [name \in S |-> CompositionImage(name, source)]
    <3>1. f \in [S -> T] /\ \A t \in T : \E s \in S : f[s] = t
      OBVIOUS
    <3>2. f \in Surjection(S, T)
      BY <3>1 DEF Surjection
    <3> HIDE DEF f, T
    <3>3. IsFiniteSet(T)
      BY <2>1, <3>2, FS_Surjection
    <3> QED
      BY <3>3 DEF T
  <2>3. IsFiniteSet({ServiceImage(x) : x \in AllServices})
    <3> DEFINE T == {ServiceImage(x) : x \in AllServices}
               f == [x \in AllServices |-> ServiceImage(x)]
    <3>1. f \in [AllServices -> T] /\ \A t \in T : \E s \in AllServices : f[s] = t
      OBVIOUS
    <3>2. f \in Surjection(AllServices, T)
      BY <3>1 DEF Surjection
    <3> HIDE DEF f, T
    <3>3. IsFiniteSet(T)
      BY <2>1, <3>2, FS_Surjection
    <3> QED
      BY <3>3 DEF T
  <2>4. ImagesOf(plan) = {CompositionImage(name, source) : name \in DOMAIN Completed}
                         \cup {ServiceImage(x) : x \in AllServices}
    BY DEF ImagesOf
  <2> QED
    BY <2>2, <2>3, <2>4, FS_Union
<1> DEFINE todo == IF dry THEN <<>> ELSE SetToSeq(ImagesOf(plan))
<1>5. /\ todo \in Seq(ImagesOf(plan)) /\ (dry => todo = <<>>)
      /\ ~dry => ToSet(todo) = ImagesOf(plan)
  BY <1>4, Ordered
<1> HIDE DEF plan, todo
<1>6. /\ DOMAIN run' = Operators
      /\ DOMAIN run'[o] = DOMAIN Run
      /\ run'[o].plan = plan /\ run'[o].dry = dry /\ run'[o].prepared = dry
      /\ run'[o].todo = todo /\ run'[o].building = FALSE
      /\ \A p \in Operators \ {o} : run'[p] = run[p]
  BY <1>2 DEF Update, Run, ReleaseInv, RunShaped, todo
<1>7. RunShaped'
  BY <1>6 DEF ReleaseInv, RunShaped
<1>8. Planned'
  <2> SUFFICES ASSUME NEW p \in Operators, run'[p].phase = "install"
               PROVE  /\ Whole(run'[p].plan) /\ ~DuplicateName
                      /\ run'[p].todo \in Seq(ImagesOf(run'[p].plan))
                      /\ run'[p].dry => run'[p].todo = <<>>
                      /\ ~run'[p].dry => ImagesOf(run'[p].plan) \subseteq ToSet(run'[p].todo) \cup DOMAIN registry'
                      /\ run'[p].building => run'[p].todo # <<>> /\ run'[p].prepared
                      /\ run'[p].prepared => \A image \in ToSet(run'[p].todo) : ~BaseConflict(image)
    BY DEF Planned
  <2>1. CASE p = o
    <3>1. dry => ToSet(todo) = {}
      BY <1>5 DEF ToSet
    <3> QED
      BY <1>1, <1>3, <1>5, <1>6, <2>1, <3>1
  <2>2. CASE p # o
    <3>1. run'[p] = run[p]
      BY <1>6, <2>2
    <3> QED
      BY <3>1, <1>0 DEF ReleaseInv, Planned
  <2> QED
    BY <2>1, <2>2
<1> QED
  BY <1>0, <1>7, <1>8 DEF ReleaseInv, Registered, Deployed, Fits

\* What goes on without the registry.
LEMMA ExportKeeps ==
    ASSUME ReleaseInv, NEW o \in Operators, Export(o) \/ Prepare(o) \/ Template(o)
    PROVE  ReleaseInv'
<1>0. UNCHANGED <<registry, release>>
  BY DEF Export, Prepare, Template
<1> SUFFICES ASSUME ~FailRun(o) PROVE ReleaseInv'
  BY <1>0, Failing
<1>1. /\ DOMAIN run[o] = DOMAIN Run
      /\ run[o].prepared \in BOOLEAN /\ run[o].building \in BOOLEAN /\ run[o].dry \in BOOLEAN
      /\ run[o].phase = "install"
  BY DEF ReleaseInv, RunShaped, Export, Prepare, Template
<1>2. /\ Whole(run[o].plan) /\ ~DuplicateName
      /\ run[o].todo \in Seq(ImagesOf(run[o].plan))
      /\ run[o].dry => run[o].todo = <<>>
      /\ ~run[o].dry => ImagesOf(run[o].plan) \subseteq ToSet(run[o].todo) \cup DOMAIN registry
      /\ run[o].building => run[o].todo # <<>> /\ run[o].prepared
      /\ run[o].prepared => \A image \in ToSet(run[o].todo) : ~BaseConflict(image)
  BY <1>1 DEF ReleaseInv, Planned
<1>3. PICK record : /\ Update(o, record) /\ DOMAIN record = DOMAIN Run
                    /\ record.prepared \in BOOLEAN /\ record.building = run[o].building /\ record.dry = run[o].dry
                    /\ record.plan = run[o].plan /\ record.todo = run[o].todo
                    /\ record.phase = "install" => record.prepared = run[o].prepared
                           \/ \A image \in ToSet(run[o].todo) : ~BaseConflict(image)
                    /\ record.prepared = run[o].prepared \/ record.prepared = TRUE
  <2>1. CASE Export(o)
    <3> DEFINE record == [run[o] EXCEPT !.exported = TRUE]
    <3>1. /\ DOMAIN record = DOMAIN Run /\ record.prepared = run[o].prepared /\ record.building = run[o].building
          /\ record.dry = run[o].dry /\ record.plan = run[o].plan /\ record.todo = run[o].todo
      BY <1>1 DEF Run
    <3>2. Update(o, record)
      BY <2>1 DEF Export
    <3> QED
      BY <1>1, <3>1, <3>2
  <2>2. CASE Prepare(o)
    <3> DEFINE record == [run[o] EXCEPT !.prepared = TRUE]
    <3>1. /\ DOMAIN record = DOMAIN Run /\ record.prepared = TRUE /\ record.building = run[o].building
          /\ record.dry = run[o].dry /\ record.plan = run[o].plan /\ record.todo = run[o].todo
      BY <1>1 DEF Run
    <3>2. Update(o, record) /\ \A image \in ToSet(run[o].todo) : ~BaseConflict(image)
      BY <2>2 DEF Prepare
    <3> QED
      BY <1>1, <3>1, <3>2
  <2>3. CASE Template(o)
    <3> DEFINE record == [run[o] EXCEPT !.phase = "done"]
    <3>1. /\ DOMAIN record = DOMAIN Run /\ record.prepared = run[o].prepared /\ record.building = run[o].building
          /\ record.dry = run[o].dry /\ record.plan = run[o].plan /\ record.todo = run[o].todo
      BY <1>1 DEF Run
    <3>2. Update(o, record)
      BY <2>3 DEF Template
    <3> QED
      BY <1>1, <3>1, <3>2
  <2> QED
    BY <2>1, <2>2, <2>3
<1>4. RunShaped' /\ Planned'
  BY <1>0, <1>1, <1>2, <1>3, Onward
<1> QED
  BY <1>0, <1>4 DEF ReleaseInv, Registered, Deployed, Fits

\* The rest of a list has what the list has, but for its head.
LEMMA TailOf ==
    ASSUME NEW S, NEW s \in Seq(S), s # <<>>
    PROVE  Head(s) \in ToSet(s) /\ Head(s) \in S /\ Tail(s) \in Seq(S) /\ ToSet(s) = {Head(s)} \cup ToSet(Tail(s))
<1>1. Len(s) \in Nat /\ Len(s) # 0 /\ DOMAIN s = 1..Len(s) /\ Head(s) = s[1]
  OBVIOUS
<1>2. Tail(s) \in Seq(S) /\ Len(Tail(s)) = Len(s) - 1 /\ \A i \in 1..Len(Tail(s)) : Tail(s)[i] = s[i + 1]
  BY <1>1
<1>3. DOMAIN Tail(s) = 1..(Len(s) - 1)
  BY <1>1, <1>2
<1>4. \A x \in ToSet(s) : x = Head(s) \/ x \in ToSet(Tail(s))
  <2> SUFFICES ASSUME NEW i \in 1..Len(s), i # 1 PROVE s[i] \in ToSet(Tail(s))
    BY <1>1 DEF ToSet
  <2>1. i - 1 \in DOMAIN Tail(s) /\ Tail(s)[i - 1] = s[i]
    BY <1>1, <1>2, <1>3
  <2> QED
    BY <2>1 DEF ToSet
<1>5. \A x \in ToSet(Tail(s)) : x \in ToSet(s)
  BY <1>1, <1>2, <1>3 DEF ToSet
<1> QED
  BY <1>1, <1>2, <1>4, <1>5 DEF ToSet

LEMMA ExistsKeeps ==
    ASSUME ReleaseInv, NEW o \in Operators, Exists(o)
    PROVE  ReleaseInv'
<1>0. UNCHANGED <<registry, release>>
  BY DEF Exists
<1>1. /\ DOMAIN run[o] = DOMAIN Run
      /\ run[o].prepared = TRUE /\ run[o].building = FALSE /\ run[o].dry \in BOOLEAN
      /\ run[o].phase = "install" /\ run[o].todo # <<>>
  BY DEF ReleaseInv, RunShaped, Exists
<1>2. /\ Whole(run[o].plan) /\ ~DuplicateName
      /\ run[o].todo \in Seq(ImagesOf(run[o].plan))
      /\ run[o].dry => run[o].todo = <<>>
      /\ ~run[o].dry => ImagesOf(run[o].plan) \subseteq ToSet(run[o].todo) \cup DOMAIN registry
      /\ \A image \in ToSet(run[o].todo) : ~BaseConflict(image)
  BY <1>1 DEF ReleaseInv, Planned
<1>3. RunShaped' /\ Planned'
  <2>1. CASE Head(run[o].todo) \in DOMAIN registry
    <3> DEFINE record == [run[o] EXCEPT !.todo = Tail(@)]
    <3>1. Update(o, record)
      BY <2>1 DEF Exists
    <3>2. /\ DOMAIN record = DOMAIN Run /\ record.prepared = TRUE /\ record.building = FALSE
          /\ record.dry = run[o].dry /\ record.plan = run[o].plan /\ record.todo = Tail(run[o].todo)
      BY <1>1 DEF Run
    <3>3. Tail(run[o].todo) \in Seq(ImagesOf(run[o].plan))
          /\ ToSet(run[o].todo) = {Head(run[o].todo)} \cup ToSet(Tail(run[o].todo))
      BY <1>1, <1>2, TailOf
    <3> HIDE DEF record
    <3> QED
      BY <1>0, <1>1, <1>2, <2>1, <3>1, <3>2, <3>3, Onward
  <2>2. CASE Head(run[o].todo) \notin DOMAIN registry
    <3> DEFINE record == [run[o] EXCEPT !.building = TRUE]
    <3>1. Update(o, record)
      BY <2>2 DEF Exists
    <3>2. /\ DOMAIN record = DOMAIN Run /\ record.prepared = TRUE /\ record.building = TRUE
          /\ record.dry = run[o].dry /\ record.plan = run[o].plan /\ record.todo = run[o].todo
      BY <1>1 DEF Run
    <3> HIDE DEF record
    <3> QED
      BY <1>0, <1>1, <1>2, <3>1, <3>2, Onward
  <2> QED
    BY <2>1, <2>2
<1> QED
  BY <1>0, <1>3 DEF ReleaseInv, Registered, Deployed, Fits

\* What is built for a composition that may be built fits.
LEMMA BaseFits ==
    ASSUME NEW name \in DOMAIN Completed, NEW versions, NEW build,
           ~BaseConflict(CompositionImage(name, versions))
    PROVE  Fits(name, BaseImage(CompositionImage(name, versions), build))
<1> DEFINE image == CompositionImage(name, versions)
<1>1. image.of = "composition" /\ image.name = name
  BY DEF CompositionImage
<1>2. Based(name) => BaseImage(image, build) = Bases[name]
  BY <1>1 DEF BaseImage, OwnBase, Based
<1>3. ~Based(name) => \A a, b \in Wanted(name) : a = b
  BY <1>1 DEF BaseConflict
<1>4. \A c \in ToSet(Completed[name]) : Base[c] \in Wanted(name)
  BY DEF Wanted
<1>5. ~Based(name) => \A c \in ToSet(Completed[name]) : OwnBase(name) = Base[c] /\ Wanted(name) = {Base[c]}
  <2> SUFFICES ASSUME ~Based(name), NEW c \in ToSet(Completed[name]) PROVE OwnBase(name) = Base[c] /\ Wanted(name) = {Base[c]}
    OBVIOUS
  <2>1. Wanted(name) = {Base[c]}
    BY <1>3, <1>4
  <2>2. OwnBase(name) = CHOOSE b \in {Base[c]} : TRUE
    BY <2>1 DEF OwnBase
  <2> QED
    BY <2>1, <2>2
<1>6. OwnBase(name) # Nothing => BaseImage(image, build) = OwnBase(name)
  BY <1>1 DEF BaseImage
<1> HIDE DEF image
<1>7. CASE Based(name)
  BY <1>2, <1>7 DEF Fits, image
<1>8. CASE ~Based(name)
  BY <1>5, <1>6, <1>8 DEF Fits, image
<1> QED
  BY <1>7, <1>8

\* The image that is built is what its tag says.
LEMMA BuildKeeps ==
    ASSUME ReleaseInv, NEW o \in Operators, BuildImage(o)
    PROVE  ReleaseInv'
<1>0. UNCHANGED release
  BY DEF BuildImage
<1> SUFFICES ASSUME ~(FailRun(o) /\ UNCHANGED registry) PROVE ReleaseInv'
  BY <1>0, Failing
<1>1. /\ DOMAIN run[o] = DOMAIN Run
      /\ run[o].prepared \in BOOLEAN /\ run[o].building = TRUE /\ run[o].dry \in BOOLEAN
      /\ run[o].phase = "install"
  BY DEF ReleaseInv, RunShaped, BuildImage
<1>2. /\ Whole(run[o].plan) /\ ~DuplicateName
      /\ run[o].todo \in Seq(ImagesOf(run[o].plan))
      /\ run[o].dry => run[o].todo = <<>>
      /\ ~run[o].dry => ImagesOf(run[o].plan) \subseteq ToSet(run[o].todo) \cup DOMAIN registry
      /\ run[o].todo # <<>> /\ run[o].prepared
      /\ \A image \in ToSet(run[o].todo) : ~BaseConflict(image)
  BY <1>1 DEF ReleaseInv, Planned
<1> DEFINE pushed == Head(run[o].todo)
           record == [run[o] EXCEPT !.todo = Tail(@), !.building = FALSE]
<1>3. /\ registry' = [x \in DOMAIN registry \cup {pushed} |-> IF x = pushed THEN Contents(o, pushed) ELSE registry[x]]
      /\ Update(o, record)
  BY DEF BuildImage
<1>4. /\ DOMAIN record = DOMAIN Run /\ record.prepared = run[o].prepared /\ record.building = FALSE
      /\ record.dry = run[o].dry /\ record.plan = run[o].plan /\ record.todo = Tail(run[o].todo)
  BY <1>1 DEF Run
<1>5. /\ Tail(run[o].todo) \in Seq(ImagesOf(run[o].plan)) /\ pushed \in ImagesOf(run[o].plan)
      /\ pushed \in ToSet(run[o].todo)
      /\ ToSet(run[o].todo) = {pushed} \cup ToSet(Tail(run[o].todo))
  BY <1>2, TailOf
<1> HIDE DEF record, pushed
<1>6. DOMAIN registry' = DOMAIN registry \cup {pushed}
  BY <1>3
<1>7. RunShaped' /\ Planned'
  BY <1>1, <1>2, <1>3, <1>4, <1>5, <1>6, Onward
<1>8. Registered'
  <2> DEFINE contents == Contents(o, pushed)
             plan == run[o].plan
  <2>1. /\ contents.versions = [c \in ToSet(pushed.members) |-> plan.versions[c]]
        /\ contents.base = BaseImage(pushed, plan.annotations["build"])
    BY DEF Contents
  <2>2. \A x \in DOMAIN registry' : registry'[x] = IF x = pushed THEN contents ELSE registry[x]
    BY <1>3
  <2>3. /\ DOMAIN contents.versions = ToSet(pushed.members)
        /\ \A i \in DOMAIN pushed.members : contents.versions[pushed.members[i]] = pushed.version[i]
        /\ pushed.of = "composition" => Fits(pushed.name, contents.base)
    <3>1. CASE \E name \in DOMAIN Completed : pushed = CompositionImage(name, plan.versions)
      <4>1. PICK name \in DOMAIN Completed : pushed = CompositionImage(name, plan.versions)
        BY <3>1
      <4>2. /\ pushed.members = Completed[name] /\ pushed.name = name
            /\ pushed.version = [i \in DOMAIN Completed[name] |-> plan.versions[Completed[name][i]]]
        BY <4>1 DEF CompositionImage
      <4>3. Fits(name, contents.base)
        BY <4>1, <1>2, <1>5, <2>1, BaseFits
      <4> HIDE DEF contents, plan
      <4>4. \A i \in DOMAIN pushed.members : pushed.members[i] \in ToSet(pushed.members)
        BY DEF ToSet
      <4> QED
        BY <2>1, <4>2, <4>3, <4>4
    <3>2. CASE \E x \in AllServices : pushed = ServiceImage(x)
      <4>1. pushed.members = <<>> /\ pushed.of = "service"
        BY <3>2 DEF ServiceImage
      <4> HIDE DEF contents, plan
      <4> QED
        BY <2>1, <4>1
    <3> QED
      BY <3>1, <3>2, <1>2, <1>5, ImagesAre
  <2> HIDE DEF contents, plan
  <2> SUFFICES ASSUME NEW image \in DOMAIN registry'
               PROVE  /\ DOMAIN registry'[image].versions = ToSet(image.members)
                      /\ \A i \in DOMAIN image.members : registry'[image].versions[image.members[i]] = image.version[i]
                      /\ image.of = "composition" => Fits(image.name, registry'[image].base)
    BY DEF Registered, Fits
  <2>4. CASE image = pushed
    BY <2>2, <2>3, <2>4
  <2>5. CASE image # pushed
    <3>1. image \in DOMAIN registry /\ registry'[image] = registry[image]
      BY <1>6, <2>2, <2>5
    <3> QED
      BY <3>1 DEF ReleaseInv, Registered
  <2> QED
    BY <2>4, <2>5
<1>9. Deployed'
  BY <1>0, <1>6 DEF ReleaseInv, Deployed
<1> QED
  BY <1>7, <1>8, <1>9 DEF ReleaseInv

\* A release has been pushed as a whole.
LEMMA InstallKeeps ==
    ASSUME ReleaseInv, NEW o \in Operators, Install(o)
    PROVE  ReleaseInv'
<1>0. UNCHANGED registry
  BY DEF Install
<1> SUFFICES ASSUME ~(FailRun(o) /\ UNCHANGED release) PROVE ReleaseInv'
  BY <1>0, Failing
<1> DEFINE record == [run[o] EXCEPT !.phase = "done"]
<1>1. /\ DOMAIN run[o] = DOMAIN Run
      /\ run[o].prepared \in BOOLEAN /\ run[o].building \in BOOLEAN /\ run[o].dry = FALSE
      /\ run[o].phase = "install" /\ run[o].todo = <<>>
  BY DEF ReleaseInv, RunShaped, Install
<1>2. /\ Whole(run[o].plan) /\ ~DuplicateName
      /\ ImagesOf(run[o].plan) \subseteq ToSet(run[o].todo) \cup DOMAIN registry
  BY <1>1 DEF ReleaseInv, Planned
<1>3. release' = run[o].plan /\ Update(o, record)
  BY DEF Install
<1>4. /\ DOMAIN record = DOMAIN Run /\ record.prepared = run[o].prepared /\ record.building = run[o].building
      /\ record.dry = run[o].dry /\ record.phase = "done"
  BY <1>1 DEF Run
<1> HIDE DEF record
<1>5. RunShaped' /\ Planned'
  BY <1>0, <1>1, <1>3, <1>4, Onward
<1>6. ToSet(run[o].todo) = {}
  BY <1>1 DEF ToSet
<1>7. Deployed'
  BY <1>0, <1>2, <1>3, <1>6 DEF Deployed
<1> QED
  BY <1>0, <1>5, <1>7 DEF ReleaseInv, Registered, Fits

LEMMA ReleaseStep == DeploymentSane /\ ReleaseInv /\ [DeployNext]_deployVars => ReleaseInv'
<1> SUFFICES ASSUME DeploymentSane, ReleaseInv, [DeployNext]_deployVars PROVE ReleaseInv'
  OBVIOUS
<1>1. ASSUME UNCHANGED <<run, registry, release>> PROVE ReleaseInv'
  BY <1>1 DEF ReleaseInv, RunShaped, Planned, Registered, Deployed, Fits
<1>2. ASSUME NEW c \in ToSet(Components), Edit(c) PROVE ReleaseInv'
  BY <1>1, <1>2 DEF Edit
<1>3. ASSUME NEW o \in Operators, Plan(o) \/ Step(o) PROVE ReleaseInv'
  BY <1>3, PlanKeeps, ExportKeeps, ExistsKeeps, BuildKeeps, InstallKeeps DEF Step
<1> QED
  BY <1>1, <1>2, <1>3 DEF DeployNext, deployVars

\* Each component is in a composition.
LEMMA AllCompleted ==
    ASSUME DeploymentSane, ~DuplicateName, NEW c \in ToSet(Components)
    PROVE  \E name \in DOMAIN Completed : Contains(Completed[name], c)
<1>1. CASE c \in Composed
  <2>1. PICK name \in DOMAIN Compositions : c \in ToSet(Compositions[name])
    BY <1>1 DEF Composed
  <2>2. name \in DOMAIN Completed /\ Completed[name] = Compositions[name]
    BY <2>1 DEF Completed
  <2>3. Compositions[name] \in Seq(ToSet(Components))
    BY <2>1 DEF DeploymentSane
  <2> QED
    BY <2>1, <2>2, <2>3 DEF Contains, ToSet
<1>2. CASE c \notin Composed
  <2>1. Label(c) \notin DOMAIN Compositions /\ Label(c) \in DOMAIN Completed
    BY <1>2 DEF DuplicateName, Completed
  <2>2. (CHOOSE d \in ToSet(Components) : Label(d) = Label(c)) = c
    <3>1. \A d \in ToSet(Components) : Label(d) = Label(c) => d = c
      BY DEF DeploymentSane, Label
    <3> QED
      BY <3>1
  <2>3. Completed[Label(c)] = <<c>>
    BY <2>1, <2>2 DEF Completed
  <2>4. Contains(<<c>>, c)
    BY DEF Contains
  <2> QED
    BY <2>1, <2>3, <2>4
<1> QED
  BY <1>1, <1>2

LEMMA ReleaseSays == DeploymentSane /\ ReleaseInv => ImagesSound
<1> SUFFICES ASSUME DeploymentSane, ReleaseInv PROVE ImagesSound
  OBVIOUS
<1>1. CASE release = Nothing
  BY <1>1 DEF ImagesSound, Pullable, Current, WellBased, Everywhere, Images, Running
<1>2. CASE release # Nothing
  <2>1. /\ Whole(release) /\ ~DuplicateName /\ ImagesOf(release) \subseteq DOMAIN registry
    BY <1>2 DEF ReleaseInv, Deployed
  <2>2. Images = ImagesOf(release) /\ Running = DOMAIN Completed
    BY <1>2, <2>1 DEF Images, Running, Whole
  <2>3. \A name \in Running : release.images[name] = CompositionImage(name, release.versions)
    BY <2>1, <2>2 DEF Whole
  <2>4. Current
    <3> SUFFICES ASSUME NEW image \in ImagesOf(release), image \in DOMAIN registry,
                        NEW c \in DOMAIN registry[image].versions
                 PROVE  registry[image].versions[c] = release.versions[c]
      BY <2>2 DEF Current
    <3>1. PICK i \in DOMAIN image.members : c = image.members[i]
      BY DEF ReleaseInv, Registered, ToSet
    <3>2. registry[image].versions[c] = image.version[i]
      BY <3>1 DEF ReleaseInv, Registered
    <3>3. CASE \E name \in DOMAIN Completed : image = CompositionImage(name, release.versions)
      <4>1. PICK name \in DOMAIN Completed : image = CompositionImage(name, release.versions)
        BY <3>3
      <4>2. /\ image.members = Completed[name]
            /\ image.version = [j \in DOMAIN Completed[name] |-> release.versions[Completed[name][j]]]
        BY <4>1 DEF CompositionImage
      <4> QED
        BY <3>1, <3>2, <4>2
    <3>4. CASE \E x \in AllServices : image = ServiceImage(x)
      <4>1. image.members = <<>>
        BY <3>4 DEF ServiceImage
      <4> QED
        BY <3>1, <4>1
    <3> QED
      BY <3>3, <3>4, <2>1, ImagesAre
  <2>5. WellBased
    <3> SUFFICES ASSUME NEW name \in Running, release.images[name] \in DOMAIN registry
                 PROVE  Fits(name, registry[release.images[name]].base)
      BY DEF WellBased, Fits
    <3> DEFINE image == CompositionImage(name, release.versions)
    <3>0. release.images[name] = image /\ image.of = "composition" /\ image.name = name
      BY <2>3 DEF CompositionImage
    <3> HIDE DEF image
    <3>1. release.images[name].of = "composition" /\ release.images[name].name = name
      BY <3>0
    <3> QED
      BY <3>1 DEF ReleaseInv, Registered
  <2>6. Everywhere
    <3> SUFFICES ASSUME NEW c \in ToSet(Components)
                 PROVE  \E name \in Running : name \in DOMAIN release.env /\ Contains(Completed[name], c)
      BY DEF Everywhere
    <3> QED
      BY <2>1, <2>2, AllCompleted DEF Whole, Annotated
  <2> QED
    BY <2>1, <2>2, <2>4, <2>5, <2>6 DEF ImagesSound, Pullable
<1> QED
  BY <1>1, <1>2

\* And with the variables of its own components.
LEMMA ReleaseTells == DeploymentSane /\ VariablesSane /\ ReleaseInv => Resolves /\ BrokerResolves /\ OwnOnly
<1> SUFFICES ASSUME DeploymentSane, VariablesSane, ReleaseInv PROVE Resolves /\ BrokerResolves /\ OwnOnly
  OBVIOUS
<1>1. release # Nothing => Annotated(release) /\ DOMAIN release.images = DOMAIN Completed
  BY DEF ReleaseInv, Deployed, Whole
<1> QED
  BY <1>1, AnnotatedResolves, AnnotatedBroker, AnnotatedOwn

\* For any components, compositions, annotations, operators at work at the
\* same time, commits and failures: what the cluster is told to run is in the
\* registry, of the checkout that the release was made of, on the bases that
\* its components want, and has all of the context's components; and each of
\* them resolves the URLs and credentials of the deepest match of what is
\* annotated, and gets nothing of those it does not run with (operator.js,
\* registry.js, image.js; Deployment.ts, resolve.ts, variables.js).
THEOREM ReleasesHold == DeploySpec => []ReleaseSound
<1>1. DeployInit => ReleaseInv
  BY ReleaseInitial
<1>2. ReleaseInv /\ [DeployNext]_deployVars => ReleaseInv'
  BY ReleaseStep, DeploymentAssumption
<1>3. ReleaseInv => ReleaseSound
  BY ReleaseSays, ReleaseTells, DeploymentAssumption DEF ReleaseSound
<1> QED
  BY <1>1, <1>2, <1>3, PTL DEF DeploySpec
=============================================================================
