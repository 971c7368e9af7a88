--------------------------- MODULE MessagingProofs ---------------------------
(***************************************************************************)
(* Proofs about what passes between processes: discovery, events, calls,   *)
(* and the streams to clients.                                             *)
(***************************************************************************)
EXTENDS Discovery, EventDelivery, RemoteCalls, Streams, TLAPS

-----------------------------------------------------------------------------
(***************************************************************************)
(* For any processes, components, lookups and crashes: every connector     *)
(* that a lookup creates stays in the hands of its process' discovery, and *)
(* lookups ask only through such connectors.                               *)
(***************************************************************************)

\* What a lookup creates bears its name: why the connector that Created puts
\* into `held` is the one the lookup goes on to ask through.
OwnConnector ==
    \A i \in Inquiries : inquiry[i].step = "creating" => inquiry[i].call = i

DiscoveryInv == TypeOK /\ NoOrphans /\ OwnConnector

-----------------------------------------------------------------------------
\* A lookup belongs to the process of the component that needs it.
LEMMA AtProcess == \A i \in Inquiries : At(i) \in Processes /\ Target[i] \in Components
  BY DiscoveryAssumption DEF At

\* The initial state satisfies the invariant.
LEMMA DiscoveryInitInv == Init => DiscoveryInv
<1> SUFFICES ASSUME Init PROVE DiscoveryInv
  OBVIOUS
<1>1. TypeOK
  BY DiscoveryAssumption DEF Init, TypeOK, NoInquiry, NoLookups, Steps, Connectors
<1>2. NoOrphans
  BY AtProcess DEF Init, NoOrphans, NoInquiry, NoLookups
<1>3. OwnConnector
  BY DEF Init, OwnConnector, NoInquiry
<1> QED
  BY <1>1, <1>2, <1>3 DEF DiscoveryInv

\* A lookup that moves on without a new connector, or stays, keeps what it
\* asks through.
LEMMA MoveInv ==
    ASSUME DiscoveryInv, NEW i \in Inquiries, NEW step \in Steps,
           step # "creating",
           inquiry[i].step \in {"asking", "connecting", "done"}
               \/ step \in {"waiting", "failed"},
           Move(i, step), UNCHANGED <<lookups, held>>
    PROVE  /\ inquiry' \in [Inquiries -> [step : Steps, call : Connectors \cup {Nobody}]]
           /\ NoOrphans' /\ OwnConnector'
<1>1. inquiry' \in [Inquiries -> [step : Steps, call : Connectors \cup {Nobody}]]
  BY DEF DiscoveryInv, TypeOK, Move
<1>2. \A j \in Inquiries : /\ inquiry'[j].call = inquiry[j].call
                           /\ inquiry'[j].step = IF j = i THEN step ELSE inquiry[j].step
  BY DEF DiscoveryInv, TypeOK, Move
<1>3. NoOrphans'
  BY <1>2 DEF DiscoveryInv, NoOrphans, At
<1>4. OwnConnector'
  BY <1>2 DEF DiscoveryInv, OwnConnector
<1> QED
  BY <1>1, <1>3, <1>4

\* Steps that touch no lookup keep them.
LEMMA StillInv ==
    ASSUME DiscoveryInv, UNCHANGED <<inquiry, lookups, held>>
    PROVE  NoOrphans' /\ OwnConnector'
  BY DEF DiscoveryInv, NoOrphans, OwnConnector, At

\* The invariant is inductive: one step per action.
LEMMA DiscoveryNextInv == DiscoveryInv /\ [Next]_vars => DiscoveryInv'
<1> SUFFICES ASSUME DiscoveryInv, [Next]_vars PROVE DiscoveryInv'
  OBVIOUS
<1> USE AtProcess, DiscoveryAssumption
<1>1. ASSUME NEW p \in Processes, Boot(p) PROVE DiscoveryInv'
  <2>1. UNCHANGED <<inquiry, lookups, held>>
    BY <1>1 DEF Boot, Start, Expose, Complete, Connected
  <2>2. TypeOK'
    BY <1>1 DEF Boot, Start, Expose, Complete, Connected, DiscoveryInv, TypeOK
  <2> QED
    BY <2>1, <2>2, StillInv DEF DiscoveryInv
<1>2. ASSUME NEW p \in Processes, Crash(p) PROVE DiscoveryInv'
  <2>1. TypeOK'
    BY <1>2 DEF Crash, DiscoveryInv, TypeOK, NoInquiry, NoLookups, Steps, Connectors
  <2>2. \A i \in Inquiries :
            inquiry'[i] = IF At(i) = p THEN NoInquiry ELSE inquiry[i]
    BY <1>2 DEF Crash, Own
  <2>3. \A q \in Processes : q # p => held'[q] = held[q] /\ lookups'[q] = lookups[q]
    BY <1>2 DEF Crash, DiscoveryInv, TypeOK
  <2>4. lookups'[p] = NoLookups
    BY <1>2 DEF Crash, DiscoveryInv, TypeOK
  <2>5. NoOrphans'
    <3>1. ASSUME NEW i \in Inquiries, inquiry'[i].step \in {"asking", "connecting", "done"}
          PROVE  inquiry'[i].call \in held'[At(i)]
      BY <2>2, <2>3, <3>1 DEF DiscoveryInv, NoOrphans, NoInquiry
    <3>2. ASSUME NEW q \in Processes, NEW c \in Components, lookups'[q][c] # Nobody
          PROVE  lookups'[q][c] \in held'[q] /\ Target[lookups'[q][c]] = c
      BY <2>3, <2>4, <3>2 DEF DiscoveryInv, NoOrphans, NoLookups
    <3> QED
      BY <3>1, <3>2 DEF NoOrphans, At
  <2>6. OwnConnector'
    BY <2>2 DEF DiscoveryInv, OwnConnector, NoInquiry
  <2> QED
    BY <2>1, <2>5, <2>6 DEF DiscoveryInv
<1>3. ASSUME NEW i \in Inquiries, Resolve(i) PROVE DiscoveryInv'
  <2>1. Move(i, "waiting") /\ UNCHANGED <<lookups, held>>
    BY <1>3 DEF Resolve, Begin
  <2>2. NoOrphans' /\ OwnConnector'
    BY <2>1, MoveInv DEF Steps
  <2>3. TypeOK'
    BY <1>3, <2>1, MoveInv DEF Resolve, Begin, DiscoveryInv, TypeOK, Steps
  <2> QED
    BY <2>2, <2>3 DEF DiscoveryInv
<1>4. ASSUME NEW i \in Inquiries, Lookup(i) PROVE DiscoveryInv'
  <2> DEFINE known == lookups[At(i)][Target[i]]
  <2>1. known \in Inquiries \cup {Nobody}
    BY DEF DiscoveryInv, TypeOK, Connectors
  <2>2. inquiry' = [inquiry EXCEPT ![i] =
            IF known = Nobody THEN [step |-> "creating", call |-> i]
                              ELSE [step |-> "asking", call |-> known]]
    BY <1>4 DEF Lookup
  <2>3. UNCHANGED <<stage, exposed, instance, lookups, held, call, crashes>>
    BY <1>4 DEF Lookup
  <2>4. TypeOK'
    BY <2>1, <2>2, <2>3 DEF DiscoveryInv, TypeOK, Steps, Connectors
  <2>5. known # Nobody => known \in held[At(i)]
    BY DEF DiscoveryInv, NoOrphans
  <2>6. NoOrphans'
    BY <2>2, <2>3, <2>5 DEF DiscoveryInv, TypeOK, NoOrphans, At
  <2>7. OwnConnector'
    BY <2>2 DEF DiscoveryInv, TypeOK, OwnConnector
  <2> QED
    BY <2>4, <2>6, <2>7 DEF DiscoveryInv
<1>5. ASSUME NEW i \in Inquiries, Created(i) PROVE DiscoveryInv'
  <2>1. /\ inquiry[i].step = "creating" /\ inquiry[i].call = i
        /\ lookups' = [lookups EXCEPT ![At(i)][Target[i]] = i]
        /\ held' = [held EXCEPT ![At(i)] = @ \cup {i}]
        /\ inquiry' = [inquiry EXCEPT ![i].step = "asking"]
        /\ UNCHANGED <<stage, exposed, instance, call, crashes>>
    BY <1>5 DEF Created, Move, DiscoveryInv, OwnConnector
  <2>2. TypeOK'
    BY <2>1 DEF DiscoveryInv, TypeOK, Steps, Connectors
  <2>3. \A p \in Processes : held[p] \subseteq held'[p]
    BY <2>1 DEF DiscoveryInv, TypeOK
  <2>4. i \in held'[At(i)]
    BY <2>1 DEF DiscoveryInv, TypeOK
  <2>5. \A j \in Inquiries : /\ inquiry'[j].call = inquiry[j].call
                             /\ j # i => inquiry'[j].step = inquiry[j].step
                             /\ inquiry'[i].step = "asking"
    BY <2>1 DEF DiscoveryInv, TypeOK
  <2>6. \A p \in Processes, c \in Components :
            \/ p = At(i) /\ c = Target[i] /\ lookups'[p][c] = i
            \/ lookups'[p][c] = lookups[p][c]
    BY <2>1 DEF DiscoveryInv, TypeOK
  <2>7. NoOrphans'
    <3>1. ASSUME NEW j \in Inquiries, inquiry'[j].step \in {"asking", "connecting", "done"}
          PROVE  inquiry'[j].call \in held'[At(j)]
      BY <2>1, <2>3, <2>4, <2>5, <3>1 DEF DiscoveryInv, NoOrphans
    <3>2. ASSUME NEW q \in Processes, NEW c \in Components, lookups'[q][c] # Nobody
          PROVE  lookups'[q][c] \in held'[q] /\ Target[lookups'[q][c]] = c
      BY <2>3, <2>4, <2>6, <3>2 DEF DiscoveryInv, NoOrphans
    <3> QED
      BY <3>1, <3>2 DEF NoOrphans, At
  <2>8. OwnConnector'
    BY <2>5 DEF DiscoveryInv, OwnConnector
  <2> QED
    BY <2>2, <2>7, <2>8 DEF DiscoveryInv
<1>6. ASSUME NEW i \in Inquiries, Asked(i) \/ Remote(i) \/ Broken(i) PROVE DiscoveryInv'
  <2>1. PICK step \in {"done", "connecting", "failed"} : Move(i, step)
    BY <1>6 DEF Asked, Remote, Broken
  <2>2. UNCHANGED <<stage, exposed, instance, lookups, held, call>>
    BY <1>6 DEF Asked, Remote, Broken
  <2>3. inquiry[i].step \in {"asking", "connecting", "done"} \/ step = "failed"
    BY <1>6, <2>1 DEF Asked, Remote, Broken, Move, DiscoveryInv, TypeOK
  <2>4. /\ inquiry' \in [Inquiries -> [step : Steps, call : Connectors \cup {Nobody}]]
        /\ NoOrphans' /\ OwnConnector'
    BY <2>1, <2>2, <2>3, MoveInv DEF Steps
  <2>5. crashes' \in 0..MaxCrashes
    BY <1>6 DEF Asked, Remote, Broken, DiscoveryInv, TypeOK
  <2> QED
    BY <2>2, <2>4, <2>5 DEF DiscoveryInv, TypeOK
<1>7. ASSUME NEW c \in Calls, Call(c) PROVE DiscoveryInv'
  <2>1. Through[c] \in Inquiries
    OBVIOUS
  <2>2. call' \in [Calls -> {"idle", "waiting", "answered", "failed", "lost"}]
    BY <1>7 DEF Call, DiscoveryInv, TypeOK
  <2>3. CASE Begin(Through[c])
    <3>1. Move(Through[c], "waiting") /\ UNCHANGED <<lookups, held>>
      BY <2>3 DEF Begin
    <3>2. /\ inquiry' \in [Inquiries -> [step : Steps, call : Connectors \cup {Nobody}]]
          /\ NoOrphans' /\ OwnConnector'
      BY <2>1, <3>1, MoveInv DEF Steps
    <3>3. instance' \in [Processes -> {"none", "connecting", "connected"}]
      BY <2>3 DEF Begin, DiscoveryInv, TypeOK
    <3> QED
      BY <2>2, <2>3, <3>2, <3>3 DEF Begin, DiscoveryInv, TypeOK
  <2>4. CASE UNCHANGED <<stage, exposed, instance, inquiry, lookups, held, crashes>>
    BY <2>2, <2>4, StillInv DEF DiscoveryInv, TypeOK
  <2> QED
    BY <1>7, <2>3, <2>4 DEF Call
<1>8. ASSUME NEW c \in Calls, Answer(c) PROVE DiscoveryInv'
  <2>1. UNCHANGED <<stage, exposed, instance, inquiry, lookups, held, crashes>>
    BY <1>8 DEF Answer, Invoke, InvokeFailed
  <2>2. call' \in [Calls -> {"idle", "waiting", "answered", "failed", "lost"}]
    BY <1>8 DEF Answer, Invoke, InvokeFailed, DiscoveryInv, TypeOK
  <2> QED
    BY <2>1, <2>2, StillInv DEF DiscoveryInv, TypeOK
<1>9. CASE UNCHANGED vars
  BY <1>9, StillInv DEF vars, DiscoveryInv, TypeOK
<1> QED
  BY <1>1, <1>2, <1>3, <1>4, <1>5, <1>6, <1>7, <1>8, <1>9 DEF Next, Inquire

\* The inductive invariant holds in every reachable state.
THEOREM DiscoveryInvariance == Spec => []DiscoveryInv
  BY DiscoveryInitInv, DiscoveryNextInv, PTL DEF Spec

\* No connector is orphaned, however many lookups of one component overlap
\* and whichever processes die (discovery.js lookup, boot discovery).
THEOREM DiscoveryHeld == Spec => []RemotesHeld
<1>1. DiscoveryInv => RemotesHeld
  BY DEF DiscoveryInv, RemotesHeld
<1> QED
  BY <1>1, DiscoveryInvariance, PTL

\* A context looks a component up once in the life of its process: what it has
\* asked for it never asks again, whoever dies or fails (RemoteKept; context.js).
THEOREM AskedOnce == Spec => RemoteKept
<1>1. ASSUME DiscoveryInv, [Next]_vars, NEW i \in Inquiries,
             inquiry[i].step # "idle", inquiry'[i].step = "waiting"
      PROVE  inquiry[i].step = "waiting"
  <2>1. inquiry \in [Inquiries -> [step : Steps, call : Connectors \cup {Nobody}]]
    BY <1>1 DEF DiscoveryInv, TypeOK
  <2>2. CASE UNCHANGED inquiry
    BY <1>1, <2>2
  <2>3. ASSUME NEW p \in Processes, Crash(p) PROVE inquiry[i].step = "waiting"
    BY <1>1, <2>1, <2>3 DEF Crash, NoInquiry
  <2>4. ASSUME NEW j \in Inquiries, Begin(j) PROVE inquiry[i].step = "waiting"
    BY <1>1, <2>1, <2>4 DEF Begin, Move
  <2>5. ASSUME NEW j \in Inquiries, Lookup(j) PROVE inquiry[i].step = "waiting"
    BY <1>1, <2>1, <2>5 DEF Lookup
  <2>6. ASSUME NEW j \in Inquiries, Created(j) \/ Asked(j) \/ Remote(j) \/ Broken(j)
        PROVE  inquiry[i].step = "waiting"
    BY <1>1, <2>1, <2>6 DEF Created, Asked, Remote, Broken, Move
  <2>7. \A c \in Calls : Through[c] \in Inquiries
    BY DiscoveryAssumption
  <2> QED
    BY <1>1, <2>2, <2>3, <2>4, <2>5, <2>6, <2>7
       DEF Next, Boot, Start, Expose, Complete, Connected, Inquire, Resolve, Call, Answer, Invoke,
           InvokeFailed, vars
<1>2. ASSUME DiscoveryInv, [Next]_vars
      PROVE  [\A i \in Inquiries : inquiry[i].step # "idle" /\ inquiry'[i].step = "waiting"
                                   => inquiry[i].step = "waiting"]_vars
  BY <1>1, <1>2
<1> QED
  BY <1>2, DiscoveryInvariance, PTL DEF Spec, RemoteKept

-----------------------------------------------------------------------------
(***************************************************************************)
(* For any events, changes and processes, and any number of deaths: an     *)
(* event that was emitted is in one place for each group that receives it, *)
(* until the group has dealt with it.                                      *)
(***************************************************************************)

\* What a group has had is what it receives of what was emitted.
Known ==
    \A g \in Groups, m \in Message :
        Pending(g, m) \/ <<g, m>> \in settled => m \in emitted /\ m[2] \in Heard[g]

\* An event is emitted at most once for each change: why Publish puts nothing
\* into a queue that a process is at already.
Fresh ==
    \A c \in Changes, e \in Events :
        emission[c] = Unemitted \/ e \in emission[c] => <<c, e>> \notin emitted

\* What has been acknowledged is not delivered again, and only a death makes
\* the operation of a group run for a message that it has not acknowledged.
Unsettled == \A g \in Groups, m \in Message : Pending(g, m) => <<g, m>> \notin settled
Repeated ==
    \A g \in Groups, m \in Message :
        /\ <<g, m>> \notin settled => invoked[<<g, m>>] <= deaths
        /\ invoked[<<g, m>>] <= 1 + deaths
        /\ invoked[<<g, m>>] > 0 => m \in emitted /\ m[2] \in Heard[g]

DeliveryInv == DeliveryTyped /\ NoneLost /\ OneHandler /\ Known /\ Fresh /\ Unsettled /\ Repeated

-----------------------------------------------------------------------------
\* The initial state satisfies the invariant.
LEMMA DeliveryInitInv == DeliveryInit => DeliveryInv
<1> SUFFICES ASSUME DeliveryInit PROVE DeliveryInv
  OBVIOUS
<1>1. DeliveryTyped
  BY DeliveryAssumption DEF DeliveryInit, DeliveryTyped
<1>2. \A p \in Listeners : GroupOf[p] \in Groups /\ handling[p] = {}
  BY DEF DeliveryInit, Groups
<1>3. NoneLost /\ OneHandler
  BY <1>2 DEF DeliveryInit, NoneLost, OneHandler
<1>4. Known /\ Fresh /\ Unsettled
  BY <1>2 DEF DeliveryInit, Known, Fresh, Unsettled, Pending
<1>5. Repeated
  BY DEF DeliveryInit, Repeated
<1> QED
  BY <1>1, <1>3, <1>4, <1>5 DEF DeliveryInv

-----------------------------------------------------------------------------
(* An emission *)

\* Steps of an emission that reach no queue.
LEMMA EmitInv ==
    ASSUME DeliveryInv, NEW c \in Changes,
           Emit(c) \/ \E e \in Events : Withhold(c, e)
    PROVE  DeliveryInv'
<1>1. /\ UNCHANGED <<emitted, settled, queues, serving, handling, invoked, deaths>>
      /\ \/ emission[c] = Unemitted /\ emission' = [emission EXCEPT ![c] = Events]
         \/ \E e \in Events : /\ emission[c] # Unemitted
                              /\ emission' = [emission EXCEPT ![c] = @ \ {e}]
  BY DEF Emit, Withhold, Dealt
<1>2. DeliveryTyped'
  BY <1>1 DEF DeliveryInv, DeliveryTyped
<1>3. Fresh'
  BY <1>1, DeliveryAssumption DEF DeliveryInv, DeliveryTyped, Fresh
<1>4. NoneLost' /\ OneHandler' /\ Known' /\ Unsettled' /\ Repeated'
  BY <1>1 DEF DeliveryInv, NoneLost, OneHandler, Known, Unsettled, Repeated, Pending
<1> QED
  BY <1>2, <1>3, <1>4 DEF DeliveryInv

\* The message comes to the queue of each group.
LEMMA PublishInv ==
    ASSUME DeliveryInv, NEW c \in Changes, NEW e \in Events, Publish(c, e)
    PROVE  DeliveryInv'
<1>1. PICK n \in Message : n = <<c, e>> /\ n[2] = e
  <2>1. <<c, e>> \in Message /\ <<c, e>>[2] = e
    BY DEF Message
  <2> QED
    BY <2>1
<1>2. /\ emission[c] # Unemitted /\ e \in emission[c]
      /\ emission' = [emission EXCEPT ![c] = @ \ {e}]
      /\ emitted' = emitted \cup {n}
      /\ queues' = [g \in Groups |-> IF e \in Heard[g] THEN queues[g] \cup {n} ELSE queues[g]]
      /\ UNCHANGED <<settled, serving, handling, invoked, deaths>>
  BY <1>1 DEF Publish, Dealt
<1>3. n \notin emitted
  BY <1>1, <1>2 DEF DeliveryInv, Fresh
<1>4. \A g \in Groups : /\ ~ Pending(g, n) /\ <<g, n>> \notin settled
                        /\ \A p \in Listeners : GroupOf[p] = g => n \notin handling[p]
  BY <1>1, <1>3 DEF DeliveryInv, Known, Pending
<1>5. DeliveryTyped'
  <2>1. emission' \in [Changes -> {Unemitted} \cup SUBSET Events]
    BY <1>2 DEF DeliveryInv, DeliveryTyped
  <2>2. queues' \in [Groups -> SUBSET Message]
    BY <1>1, <1>2 DEF DeliveryInv, DeliveryTyped
  <2> QED
    BY <1>1, <1>2, <2>1, <2>2 DEF DeliveryInv, DeliveryTyped
<1>6. \A g \in Groups, m \in Message : Pending(g, m)' <=>
          Pending(g, m) \/ (m = n /\ e \in Heard[g])
  BY <1>2 DEF Pending
<1>7. NoneLost'
  BY <1>1, <1>2, <1>6 DEF DeliveryInv, NoneLost, DeliveryTyped
<1>8. OneHandler'
  <2>1. \A p \in Listeners : GroupOf[p] \in Groups
    BY DEF Groups
  <2> QED
    BY <1>2, <1>4, <2>1 DEF DeliveryInv, OneHandler
<1>9. Known'
  BY <1>1, <1>2, <1>6 DEF DeliveryInv, Known
<1>10. Fresh'
  <2> SUFFICES ASSUME NEW d \in Changes, NEW f \in Events,
                      emission'[d] = Unemitted \/ f \in emission'[d]
               PROVE  <<d, f>> \notin emitted'
    BY DEF Fresh
  <2>1. CASE d = c
    <3>1. emission'[c] = emission[c] \ {e} /\ emission[c] \ {e} # Unemitted
      BY <1>2, DeliveryAssumption DEF DeliveryInv, DeliveryTyped
    <3>2. f \in emission[c] /\ f # e
      BY <2>1, <3>1
    <3>3. <<d, f>> \notin emitted /\ <<d, f>> # n
      BY <1>1, <2>1, <3>2 DEF DeliveryInv, Fresh
    <3> QED
      BY <1>2, <3>3
  <2>2. CASE d # c
    <3>1. emission'[d] = emission[d]
      BY <1>2, <2>2 DEF DeliveryInv, DeliveryTyped
    <3>2. <<d, f>> \notin emitted /\ <<d, f>> # n
      BY <1>1, <2>2, <3>1 DEF DeliveryInv, Fresh
    <3> QED
      BY <1>2, <3>2
  <2> QED
    BY <2>1, <2>2
<1>11. Unsettled'
  BY <1>2, <1>4, <1>6 DEF DeliveryInv, Unsettled
<1>12. Repeated'
  BY <1>2 DEF DeliveryInv, Repeated
<1> QED
  BY <1>5, <1>7, <1>8, <1>9, <1>10, <1>11, <1>12 DEF DeliveryInv

-----------------------------------------------------------------------------
(* A receiver *)

\* A message goes from the queue to a process.
LEMMA TakeInv ==
    ASSUME DeliveryInv, NEW p \in Listeners, NEW n \in Message, TakeMessage(p, n) PROVE DeliveryInv'
<1>1. PICK h \in Groups : h = GroupOf[p]
  BY DEF Groups
<1>2. /\ n \in queues[h]
      /\ handling' = [handling EXCEPT ![p] = @ \cup {n}]
      /\ queues' = [queues EXCEPT ![h] = @ \ {n}]
      /\ UNCHANGED <<emission, emitted, settled, serving, invoked, deaths>>
  BY <1>1 DEF TakeMessage
<1>3. \A q \in Listeners : handling'[q] = IF q = p THEN handling[q] \cup {n} ELSE handling[q]
  BY <1>2 DEF DeliveryInv, DeliveryTyped
<1>4. \A g \in Groups : queues'[g] = IF g = h THEN queues[g] \ {n} ELSE queues[g]
  BY <1>2 DEF DeliveryInv, DeliveryTyped
<1>5. DeliveryTyped'
  BY <1>2 DEF DeliveryInv, DeliveryTyped
<1>6. \A g \in Groups, m \in Message : Pending(g, m)' <=> Pending(g, m)
  BY <1>1, <1>2, <1>3, <1>4 DEF Pending
<1>7. NoneLost' /\ Known' /\ Unsettled'
  BY <1>2, <1>6 DEF DeliveryInv, DeliveryTyped, NoneLost, Known, Unsettled
<1>8. OneHandler'
  <2>1. \A q \in Listeners : GroupOf[q] \in Groups
    BY DEF Groups
  <2>2. \A q \in Listeners : GroupOf[q] = h => n \notin handling[q]
    BY <1>2 DEF DeliveryInv, OneHandler
  <2>3. ASSUME NEW q \in Listeners PROVE handling'[q] \cap queues'[GroupOf[q]] = {}
    <3>1. handling[q] \cap queues[GroupOf[q]] = {}
      BY DEF DeliveryInv, OneHandler
    <3> QED
      BY <1>1, <1>3, <1>4, <2>1, <3>1
  <2>4. ASSUME NEW q \in Listeners, NEW o \in Listeners \ {q}, GroupOf[q] = GroupOf[o]
        PROVE  handling'[q] \cap handling'[o] = {}
    <3>1. handling[q] \cap handling[o] = {}
      BY <2>4 DEF DeliveryInv, OneHandler
    <3> QED
      BY <1>1, <1>3, <2>2, <2>4, <3>1
  <2> QED
    BY <2>3, <2>4 DEF OneHandler
<1>9. Fresh' /\ Repeated'
  BY <1>2 DEF DeliveryInv, Fresh, Repeated
<1> QED
  BY <1>5, <1>7, <1>8, <1>9 DEF DeliveryInv

\* It is acknowledged, with or without an invocation.
LEMMA HandleInv ==
    ASSUME DeliveryInv, NEW p \in Listeners, NEW n \in Message, Handle(p, n) PROVE DeliveryInv'
<1>1. PICK h \in Groups : h = GroupOf[p]
  BY DEF Groups
<1>2. /\ n \in handling[p]
      /\ handling' = [handling EXCEPT ![p] = @ \ {n}]
      /\ settled' = settled \cup {<<h, n>>}
      /\ invoked' = invoked \/ invoked' = [invoked EXCEPT ![<<h, n>>] = @ + 1]
      /\ UNCHANGED <<emission, emitted, queues, serving, deaths>>
  BY <1>1 DEF Handle, Ignore, InvokeReceiver, Acknowledged, Counted
<1>3. \A q \in Listeners : handling'[q] = IF q = p THEN handling[q] \ {n} ELSE handling[q]
  BY <1>2 DEF DeliveryInv, DeliveryTyped
<1>4. Pending(h, n) /\ n \in emitted /\ n[2] \in Heard[h] /\ <<h, n>> \notin settled
  BY <1>1, <1>2 DEF DeliveryInv, Known, Unsettled, Pending
<1>5. DeliveryTyped'
  <2>1. settled' \subseteq Groups \X Message
    BY <1>2 DEF DeliveryInv, DeliveryTyped
  <2>2. <<h, n>> \in Groups \X Message
    OBVIOUS
  <2>3. invoked' \in [Groups \X Message -> Nat]
    BY <1>2, <2>2 DEF DeliveryInv, DeliveryTyped
  <2>4. handling' \in [Listeners -> SUBSET Message]
    BY <1>2 DEF DeliveryInv, DeliveryTyped
  <2> QED
    BY <1>2, <2>1, <2>3, <2>4 DEF DeliveryInv, DeliveryTyped
<1>6. \A g \in Groups, m \in Message : Pending(g, m)' => Pending(g, m)
  BY <1>2, <1>3 DEF Pending
<1>7. \A g \in Groups, m \in Message :
          g # h \/ m # n => (Pending(g, m) => Pending(g, m)')
  BY <1>1, <1>2, <1>3 DEF Pending
<1>8. \A g \in Groups, m \in Message :
          <<g, m>> \in settled' <=> <<g, m>> \in settled \/ (g = h /\ m = n)
  BY <1>2
<1>9. NoneLost'
  BY <1>2, <1>7, <1>8 DEF DeliveryInv, DeliveryTyped, NoneLost
<1>10. OneHandler'
  BY <1>2, <1>3 DEF DeliveryInv, OneHandler
<1>11. Known'
  BY <1>2, <1>4, <1>6, <1>8 DEF DeliveryInv, Known
<1>12. Fresh'
  BY <1>2 DEF DeliveryInv, Fresh
<1>13. ~ Pending(h, n)'
  BY <1>1, <1>2, <1>3 DEF DeliveryInv, OneHandler, Pending
<1>14. Unsettled'
  BY <1>6, <1>8, <1>13 DEF DeliveryInv, Unsettled
<1>15. Repeated'
  <2>1. \A g \in Groups, m \in Message :
            /\ invoked[<<g, m>>] \in Nat
            /\ g = h /\ m = n => invoked'[<<g, m>>] \in {invoked[<<g, m>>], invoked[<<g, m>>] + 1}
            /\ g # h \/ m # n => invoked'[<<g, m>>] = invoked[<<g, m>>]
    BY <1>2 DEF DeliveryInv, DeliveryTyped
  <2>2. deaths \in Nat /\ deaths' = deaths /\ emitted' = emitted
    BY <1>2 DEF DeliveryInv, DeliveryTyped
  <2>3. invoked[<<h, n>>] <= deaths
    BY <1>4 DEF DeliveryInv, Repeated
  <2> SUFFICES ASSUME NEW g \in Groups, NEW m \in Message
               PROVE  /\ <<g, m>> \notin settled' => invoked'[<<g, m>>] <= deaths'
                      /\ invoked'[<<g, m>>] <= 1 + deaths'
                      /\ invoked'[<<g, m>>] > 0 => m \in emitted' /\ m[2] \in Heard[g]
    BY DEF Repeated
  <2>4. /\ <<g, m>> \notin settled => invoked[<<g, m>>] <= deaths
        /\ invoked[<<g, m>>] <= 1 + deaths
        /\ invoked[<<g, m>>] > 0 => m \in emitted /\ m[2] \in Heard[g]
    BY DEF DeliveryInv, Repeated
  <2>5. CASE g = h /\ m = n
    BY <1>4, <1>8, <2>1, <2>2, <2>3, <2>5
  <2>6. CASE g # h \/ m # n
    BY <1>8, <2>1, <2>2, <2>4, <2>6
  <2> QED
    BY <2>5, <2>6
<1> QED
  BY <1>5, <1>9, <1>10, <1>11, <1>12, <1>14, <1>15 DEF DeliveryInv

\* A process ends, its operation having thrown or not.
LEMMA EndInv ==
    ASSUME DeliveryInv, NEW p \in Listeners,
           Die(p) \/ \E m \in Message : Throw(p, m)
    PROVE  DeliveryInv'
<1>1. PICK h \in Groups : h = GroupOf[p]
  BY DEF Groups
<1>2. /\ deaths < MaxDeaths /\ deaths' = deaths + 1
      /\ serving' = serving \ {p}
      /\ handling' = [handling EXCEPT ![p] = {}]
      /\ queues' = [queues EXCEPT ![h] = @ \cup handling[p]]
      /\ UNCHANGED <<emission, emitted, settled>>
      /\ \/ invoked' = invoked
         \/ \E n \in handling[p] : invoked' = [invoked EXCEPT ![<<h, n>>] = @ + 1]
  BY <1>1 DEF Die, Throw, Ended, Counted
<1>3. \A q \in Listeners : handling'[q] = IF q = p THEN {} ELSE handling[q]
  BY <1>2 DEF DeliveryInv, DeliveryTyped
<1>4. \A g \in Groups : queues'[g] = IF g = h THEN queues[g] \cup handling[p] ELSE queues[g]
  BY <1>2 DEF DeliveryInv, DeliveryTyped
<1>5. handling[p] \subseteq Message
  BY DEF DeliveryInv, DeliveryTyped
<1>6. \A n \in handling[p] : /\ Pending(h, n) /\ <<h, n>> \notin settled
                             /\ n \in emitted /\ n[2] \in Heard[h]
  BY <1>1, <1>5 DEF DeliveryInv, Known, Unsettled, Pending
<1>7. DeliveryTyped'
  <2>1. \A n \in handling[p] : <<h, n>> \in Groups \X Message
    BY <1>5
  <2>2. invoked' \in [Groups \X Message -> Nat]
    <3>1. CASE invoked' = invoked
      BY <3>1 DEF DeliveryInv, DeliveryTyped
    <3>2. ASSUME NEW n \in handling[p], invoked' = [invoked EXCEPT ![<<h, n>>] = @ + 1]
          PROVE  invoked' \in [Groups \X Message -> Nat]
      <4>1. <<h, n>> \in Groups \X Message /\ invoked \in [Groups \X Message -> Nat]
        BY <2>1 DEF DeliveryInv, DeliveryTyped
      <4>2. invoked[<<h, n>>] + 1 \in Nat
        BY <4>1
      <4> QED
        BY <3>2, <4>1, <4>2
    <3> QED
      BY <1>2, <3>1, <3>2
  <2>3. queues' \in [Groups -> SUBSET Message]
    BY <1>2, <1>5 DEF DeliveryInv, DeliveryTyped
  <2>4. handling' \in [Listeners -> SUBSET Message]
    BY <1>2 DEF DeliveryInv, DeliveryTyped
  <2>5. deaths' \in 0..MaxDeaths
    BY <1>2, DeliveryAssumption DEF DeliveryInv, DeliveryTyped
  <2> QED
    BY <1>2, <2>2, <2>3, <2>4, <2>5 DEF DeliveryInv, DeliveryTyped
<1>8. \A g \in Groups, m \in Message : Pending(g, m)' <=> Pending(g, m)
  BY <1>1, <1>3, <1>4 DEF Pending
<1>9. NoneLost' /\ Known' /\ Unsettled'
  BY <1>2, <1>8 DEF DeliveryInv, DeliveryTyped, NoneLost, Known, Unsettled
<1>10. OneHandler'
  <2>1. \A q \in Listeners : GroupOf[q] \in Groups
    BY DEF Groups
  <2> QED
    BY <1>1, <1>3, <1>4, <2>1 DEF DeliveryInv, OneHandler
<1>11. Fresh'
  BY <1>2 DEF DeliveryInv, Fresh
<1>12. Repeated'
  <2>1. \A g \in Groups, m \in Message :
            /\ invoked[<<g, m>>] \in Nat
            /\ \/ invoked'[<<g, m>>] = invoked[<<g, m>>]
               \/ /\ g = h /\ m \in handling[p]
                  /\ invoked'[<<g, m>>] = invoked[<<g, m>>] + 1
    BY <1>2, <1>5 DEF DeliveryInv, DeliveryTyped
  <2>2. deaths \in Nat /\ deaths' = deaths + 1 /\ emitted' = emitted /\ settled' = settled
    BY <1>2 DEF DeliveryInv, DeliveryTyped
  <2>3. \A g \in Groups, m \in Message :
            /\ <<g, m>> \notin settled => invoked[<<g, m>>] <= deaths
            /\ invoked[<<g, m>>] <= 1 + deaths
            /\ invoked[<<g, m>>] > 0 => m \in emitted /\ m[2] \in Heard[g]
    BY DEF DeliveryInv, Repeated
  <2> SUFFICES ASSUME NEW g \in Groups, NEW m \in Message
               PROVE  /\ <<g, m>> \notin settled' => invoked'[<<g, m>>] <= deaths'
                      /\ invoked'[<<g, m>>] <= 1 + deaths'
                      /\ invoked'[<<g, m>>] > 0 => m \in emitted' /\ m[2] \in Heard[g]
    BY DEF Repeated
  <2>4. CASE invoked'[<<g, m>>] = invoked[<<g, m>>]
    BY <2>1, <2>2, <2>3, <2>4
  <2>5. CASE /\ g = h /\ m \in handling[p]
             /\ invoked'[<<g, m>>] = invoked[<<g, m>>] + 1
    <3>1. <<g, m>> \notin settled /\ m \in emitted /\ m[2] \in Heard[g]
      BY <1>6, <2>5
    <3>2. invoked[<<g, m>>] <= deaths /\ invoked[<<g, m>>] \in Nat
      BY <2>1, <2>3, <3>1
    <3> QED
      BY <2>2, <2>5, <3>1, <3>2
  <2> QED
    BY <2>1, <2>4, <2>5
<1> QED
  BY <1>7, <1>9, <1>10, <1>11, <1>12 DEF DeliveryInv

-----------------------------------------------------------------------------
\* The invariant is inductive.
LEMMA DeliveryNextInv == DeliveryInv /\ [DeliveryNext]_eventVars => DeliveryInv'
<1> SUFFICES ASSUME DeliveryInv, [DeliveryNext]_eventVars PROVE DeliveryInv'
  OBVIOUS
<1>1. ASSUME NEW c \in Changes, Emit(c) \/ Deal(c) PROVE DeliveryInv'
  BY <1>1, EmitInv, PublishInv DEF Deal
<1>2. ASSUME NEW p \in Listeners, ListenAgain(p) PROVE DeliveryInv'
  BY <1>2 DEF ListenAgain, DeliveryInv, DeliveryTyped, NoneLost, OneHandler, Known, Fresh, Unsettled, Repeated, Pending
<1>3. ASSUME NEW p \in Listeners, NEW m \in Message, TakeMessage(p, m) \/ Handle(p, m) PROVE DeliveryInv'
  BY <1>3, TakeInv, HandleInv
<1>4. ASSUME NEW p \in Listeners, Die(p) \/ \E m \in Message : Throw(p, m) PROVE DeliveryInv'
  BY <1>4, EndInv
<1>5. CASE UNCHANGED eventVars
  BY <1>5 DEF eventVars, DeliveryInv, DeliveryTyped, NoneLost, OneHandler, Known, Fresh, Unsettled, Repeated, Pending
<1> QED
  BY <1>1, <1>2, <1>3, <1>4, <1>5 DEF DeliveryNext, Serve

\* What the runs check follows from it.
LEMMA DeliveryInvKept == DeliveryInv => EventsKept
  BY DEF DeliveryInv, EventsKept, InvokedOnce, Repeated

\* No death and no exception loses or multiplies a message: each group has it
\* in one place until it has dealt with it (receiver.js, bindings.amqp).
THEOREM Kept == DeliverySpec => []EventsKept
<1>1. (DeliveryInit => DeliveryInv) /\ (DeliveryInv /\ [DeliveryNext]_eventVars => DeliveryInv')
  BY DeliveryInitInv, DeliveryNextInv
<1> QED
  BY <1>1, DeliveryInvKept, PTL DEF DeliverySpec

-----------------------------------------------------------------------------
(***************************************************************************)
(* For any processes, calls and deaths: no call is executed twice unless a *)
(* process dies, answers tell what was executed, and no task is lost.      *)
(***************************************************************************)

Executed(c) == \E p \in Servers : \E w \in working[p] : w.call = c
Placed(c) == c \in queue \cup tasks \/ Executed(c)

\* A call is at one process at most, in one execution.
Alone ==
    \A p, q \in Servers : \A w \in working[p], v \in working[q] :
        w.call = v.call => p = q /\ w = v

\* What is executed does not wait; it has a result when it has run, and before
\* that only deaths can have made it run.
Working ==
    \A p \in Servers : \A w \in working[p] :
        /\ w.call \notin queue \cup tasks
        /\ w.call \in Tasks => w.via = "amqp"
        /\ w.result # Unanswered => ran[w.call] >= 1
        /\ w.result = Unanswered => ran[w.call] <= died

\* So it is for what waits.
Waiting ==
    /\ queue \cap Tasks = {} /\ tasks \subseteq Tasks
    /\ \A c \in queue \cup tasks : ran[c] <= died

\* What no binding has taken is nowhere and was never executed.
Untouched ==
    \A c \in Callers :
        \/ state[c] \in {"new", "trying"}
        \/ state[c] = "done" /\ reply[c] \in {"contract", "transmission"}
        => ~ Placed(c) /\ ran[c] = 0

Replies ==
    \A c \in Callers : /\ reply[c] \in Results => ran[c] >= 1
                       /\ reply[c] = "null" => c \in Tasks

CallsInv ==
    /\ RemotesTyped /\ Alone /\ Working /\ Waiting /\ Untouched /\ Replies
    /\ ExecutedOnce /\ TasksKept

-----------------------------------------------------------------------------
\* The initial state satisfies the invariant.
LEMMA CallsInitInv == RemoteInit => CallsInv
<1> SUFFICES ASSUME RemoteInit PROVE CallsInv
  OBVIOUS
<1>1. RemotesTyped
  <2>1. left \in [Callers -> Seq({"loop", "amqp"})]
    BY DEF RemoteInit
  <2> QED
    BY <2>1, RemotesAssumption DEF RemoteInit, RemotesTyped, Results
<1>2. Alone /\ Working /\ Waiting
  BY DEF RemoteInit, Alone, Working, Waiting
<1>3. Untouched
  BY DEF RemoteInit, Untouched, Placed, Executed
<1>4. Replies /\ TasksKept
  BY RemotesAssumption DEF Results, RemoteInit, Replies, TasksKept
<1>5. ExecutedOnce
  BY DEF RemoteInit, ExecutedOnce
<1> QED
  BY <1>1, <1>2, <1>3, <1>4, <1>5 DEF CallsInv

\* A call has one binding less to try.
LEMMA TailLeft ==
    ASSUME CallsInv, NEW c \in Callers, left[c] # <<>>
    PROVE  [left EXCEPT ![c] = Tail(@)] \in [Callers -> Seq({"loop", "amqp"})]
<1>1. left \in [Callers -> Seq({"loop", "amqp"})]
  BY DEF CallsInv, RemotesTyped
<1>2. left[c] \in Seq({"loop", "amqp"})
  BY <1>1
<1>3. Tail(left[c]) \in Seq({"loop", "amqp"})
  BY <1>2
<1> QED
  BY <1>1, <1>3

\* Steps that only move a call, without an execution.
LEMMA CallInv ==
    ASSUME CallsInv, NEW c \in Callers,
           Request(c) \/ Rejected(c) \/ Exhausted(c)
    PROVE  CallsInv'
<1>1. /\ state[c] \in {"new", "trying"}
      /\ UNCHANGED <<queue, tasks, working, ran, died, server>>
      /\ \/ state' = state /\ reply' = reply
         \/ state' = [state EXCEPT ![c] = "trying"] /\ reply' = reply
         \/ \E r \in {"contract", "transmission"} :
                /\ state' = [state EXCEPT ![c] = "done"] /\ reply' = [reply EXCEPT ![c] = r]
  BY DEF Request, Rejected, Exhausted, Told, Trying, Skip
<1>2. left' \in [Callers -> Seq({"loop", "amqp"})]
  <2>1. left \in [Callers -> Seq({"loop", "amqp"})]
    BY DEF CallsInv, RemotesTyped
  <2>2. \/ left' = left
        \/ \E b \in Bindings[c] : left' = [left EXCEPT ![c] = b]
        \/ left[c] # <<>> /\ left' = [left EXCEPT ![c] = Tail(@)]
    BY DEF Request, Rejected, Exhausted, Told, Trying, Skip
  <2>3. \A b \in Bindings[c] : b \in Seq({"loop", "amqp"})
    BY RemotesAssumption
  <2>4. CASE \E b \in Bindings[c] : left' = [left EXCEPT ![c] = b]
    BY <2>1, <2>3, <2>4
  <2> QED
    BY <2>1, <2>2, <2>4, TailLeft
<1>3. RemotesTyped'
  <2>1. /\ state' \in [Callers -> {"new", "trying", "waiting", "done", "lost"}]
        /\ reply' \in [Callers -> Results \cup {"contract", "transmission", "null", Unanswered}]
    BY <1>1 DEF CallsInv, RemotesTyped
  <2> QED
    BY <1>1, <1>2, <2>1 DEF CallsInv, RemotesTyped
<1>4. /\ \A d \in Callers : d # c => state'[d] = state[d] /\ reply'[d] = reply[d]
      /\ reply'[c] \in {reply[c], "contract", "transmission"}
  BY <1>1 DEF CallsInv, RemotesTyped
<1>5. Alone' /\ Working' /\ Waiting' /\ ExecutedOnce'
  BY <1>1 DEF CallsInv, Alone, Working, Waiting, ExecutedOnce
<1>6. Untouched'
  BY <1>1, <1>4 DEF CallsInv, Untouched, Placed, Executed
<1>7. Replies' /\ TasksKept'
  BY <1>1, <1>4 DEF CallsInv, Replies, TasksKept, Results
<1> QED
  BY <1>3, <1>5, <1>6, <1>7 DEF CallsInv

\* An execution starts at a process: by the loop, or from a queue.
LEMMA StartedIInv ==
    ASSUME CallsInv, NEW c \in Callers, NEW p \in Servers,
           (ByLoop(c) /\ p = Home) \/ TakeRequest(p, c)
    PROVE  CallsInv'
<1>1. PICK via \in {"loop", "amqp"} :
          /\ working' = [working EXCEPT
                ![p] = @ \cup {[call |-> c, via |-> via, result |-> Unanswered]}]
          /\ c \in Tasks => via = "amqp"
  BY DEF ByLoop, TakeRequest, Started
<1>2. PICK x \in [call : Callers, via : {"loop", "amqp"}, result : Results \cup {Unanswered}] :
          /\ working' = [working EXCEPT ![p] = @ \cup {x}]
          /\ x.call = c /\ x.result = Unanswered /\ (c \in Tasks => x.via = "amqp")
  <2>1. [call |-> c, via |-> via, result |-> Unanswered]
            \in [call : Callers, via : {"loop", "amqp"}, result : Results \cup {Unanswered}]
    OBVIOUS
  <2>2. /\ [call |-> c, via |-> via, result |-> Unanswered].call = c
        /\ [call |-> c, via |-> via, result |-> Unanswered].via = via
        /\ [call |-> c, via |-> via, result |-> Unanswered].result = Unanswered
    OBVIOUS
  <2> QED
    BY <1>1, <2>1, <2>2
<1>3. /\ UNCHANGED <<server, reply, ran, died>>
      /\ queue' = queue \ {c} /\ tasks' = tasks \ {c}
      /\ ran[c] <= died
      /\ ~ Executed(c)
      /\ \/ state' = state /\ c \in queue \cup tasks
         \/ state' = [state EXCEPT ![c] = "waiting"] /\ c \notin Tasks
  <2>1. CASE TakeRequest(p, c)
    <3>1. c \in queue \cup tasks
      BY <2>1 DEF TakeRequest
    <3>2. ran[c] <= died /\ ~ Executed(c)
      BY <3>1 DEF CallsInv, Waiting, Working, Executed
    <3> QED
      BY <2>1, <3>1, <3>2 DEF TakeRequest
  <2>2. CASE ByLoop(c)
    <3>1. state[c] = "trying"
      BY <2>2 DEF ByLoop, Trying
    <3>2. ~ Placed(c) /\ ran[c] = 0
      BY <3>1 DEF CallsInv, Untouched
    <3>3. died \in Nat /\ c \notin queue \cup tasks /\ ~ Executed(c)
      BY <3>2, RemotesAssumption DEF CallsInv, RemotesTyped, Placed
    <3> QED
      BY <2>2, <3>2, <3>3 DEF ByLoop
  <2> QED
    BY <2>1, <2>2
<1>4. left' \in [Callers -> Seq({"loop", "amqp"})]
  <2>1. left \in [Callers -> Seq({"loop", "amqp"})]
    BY DEF CallsInv, RemotesTyped
  <2>2. left' = left \/ (left[c] # <<>> /\ left' = [left EXCEPT ![c] = Tail(@)])
    BY DEF ByLoop, TakeRequest, Trying, Skip
  <2> QED
    BY <2>1, <2>2, TailLeft, ZenonT(60)
<1>5. /\ state' \in [Callers -> {"new", "trying", "waiting", "done", "lost"}]
      /\ \A d \in Callers : d # c => state'[d] = state[d]
      /\ state'[c] \in {state[c], "waiting"}
  BY <1>3 DEF CallsInv, RemotesTyped
<1>6. \A q \in Servers : working'[q] = IF q = p THEN working[q] \cup {x} ELSE working[q]
  BY <1>2 DEF CallsInv, RemotesTyped
<1>7. RemotesTyped'
  <2>1. working' \in [Servers -> SUBSET [call : Callers, via : {"loop", "amqp"},
                                         result : Results \cup {Unanswered}]]
    BY <1>2 DEF CallsInv, RemotesTyped
  <2> QED
    BY <1>3, <1>4, <1>5, <2>1 DEF CallsInv, RemotesTyped
<1>8. \A q \in Servers : \A w \in working[q] : w.call # c
  BY <1>3 DEF Executed
<1>9. Alone'
  BY <1>2, <1>6, <1>8 DEF CallsInv, Alone
<1>10. Working'
  BY <1>2, <1>3, <1>6 DEF CallsInv, Working
<1>11. Waiting' /\ ExecutedOnce'
  BY <1>3 DEF CallsInv, Waiting, ExecutedOnce
<1>12. Untouched'
  <2> SUFFICES ASSUME NEW d \in Callers,
                      \/ state'[d] \in {"new", "trying"}
                      \/ state'[d] = "done" /\ reply'[d] \in {"contract", "transmission"}
               PROVE  ~ Placed(d)' /\ ran'[d] = 0
    BY DEF Untouched
  <2>1. d # c
    <3>1. c \in queue \cup tasks => Placed(c)
      BY DEF Placed
    <3> QED
      BY <1>3, <3>1 DEF CallsInv, RemotesTyped, Untouched
  <2>2. ~ Placed(d) /\ ran[d] = 0
    BY <1>3, <1>5, <2>1 DEF CallsInv, Untouched
  <2> QED
    BY <1>2, <1>3, <1>6, <2>1, <2>2 DEF Placed, Executed
<1>13. Replies'
  BY <1>3 DEF CallsInv, Replies
<1>14. TasksKept'
  <2> SUFFICES ASSUME NEW d \in Callers, reply'[d] = "null"
               PROVE  \/ ran'[d] > 0 \/ d \in tasks'
                      \/ \E q \in Servers : \E w \in working'[q] : w.call = d
    BY DEF TasksKept
  <2>1. \/ ran[d] > 0 \/ d \in tasks
        \/ \E q \in Servers : \E w \in working[q] : w.call = d
    BY <1>3 DEF CallsInv, TasksKept
  <2>2. x \in working'[p]
    BY <1>6
  <2> QED
    BY <1>2, <1>3, <1>6, <2>1, <2>2
<1> QED
  BY <1>7, <1>9, <1>10, <1>11, <1>12, <1>13, <1>14 DEF CallsInv

\* A request or a task is put in its queue.
LEMMA ByQueueInv == ASSUME CallsInv, NEW c \in Callers, ByQueue(c) PROVE CallsInv'
<1>1. /\ UNCHANGED <<server, working, ran, died>>
      /\ \/ /\ c \in Tasks /\ tasks' = tasks \cup {c} /\ queue' = queue
            /\ state' = [state EXCEPT ![c] = "done"] /\ reply' = [reply EXCEPT ![c] = "null"]
         \/ /\ c \notin Tasks /\ queue' = queue \cup {c} /\ tasks' = tasks
            /\ state' = [state EXCEPT ![c] = "waiting"] /\ reply' = reply
  BY DEF ByQueue, Told
<1>2. ~ Placed(c) /\ ran[c] = 0
  BY DEF ByQueue, Trying, CallsInv, Untouched
<1>3. left' \in [Callers -> Seq({"loop", "amqp"})]
  <2>1. left \in [Callers -> Seq({"loop", "amqp"})]
    BY DEF CallsInv, RemotesTyped
  <2>2. left[c] # <<>> /\ left' = [left EXCEPT ![c] = Tail(@)]
    BY DEF ByQueue, Trying, Skip
  <2> QED
    BY <2>1, <2>2, TailLeft
<1>4. RemotesTyped'
  <2>1. /\ state' \in [Callers -> {"new", "trying", "waiting", "done", "lost"}]
        /\ reply' \in [Callers -> Results \cup {"contract", "transmission", "null", Unanswered}]
    BY <1>1 DEF CallsInv, RemotesTyped
  <2>2. queue' \subseteq Callers /\ tasks' \subseteq Callers
    BY <1>1 DEF CallsInv, RemotesTyped
  <2> QED
    BY <1>1, <1>3, <2>1, <2>2 DEF CallsInv, RemotesTyped
<1>5. Alone' /\ ExecutedOnce'
  BY <1>1 DEF CallsInv, Alone, ExecutedOnce
<1>6. Working'
  BY <1>1, <1>2 DEF CallsInv, Working, Placed, Executed
<1>7. Waiting'
  <2>1. died \in Nat
    BY RemotesAssumption DEF CallsInv, RemotesTyped
  <2> QED
    BY <1>1, <1>2, <2>1 DEF CallsInv, Waiting
<1>8. /\ \A d \in Callers : d # c => state'[d] = state[d] /\ reply'[d] = reply[d]
      /\ \/ state'[c] = "waiting" /\ reply'[c] = reply[c]
         \/ state'[c] = "done" /\ reply'[c] = "null" /\ c \in Tasks /\ c \in tasks'
  BY <1>1 DEF CallsInv, RemotesTyped
<1>9. Untouched'
  BY <1>1, <1>8 DEF CallsInv, Untouched, Placed, Executed
<1>10. Replies' /\ TasksKept'
  BY <1>1, <1>8 DEF CallsInv, Replies, TasksKept, Results
<1> QED
  BY <1>4, <1>5, <1>6, <1>7, <1>9, <1>10 DEF CallsInv

\* An operation runs to its end.
LEMMA ExecuteInv == ASSUME CallsInv, NEW p \in Servers, Execute(p) PROVE CallsInv'
<1>1. PICK w \in working[p], r \in Results :
          /\ w.result = Unanswered
          /\ working' = [working EXCEPT ![p] = (@ \ {w}) \cup {[w EXCEPT !.result = r]}]
          /\ ran' = [ran EXCEPT ![w.call] = @ + 1]
          /\ UNCHANGED <<server, left, state, reply, queue, tasks, died>>
  BY DEF Execute
<1>2. w \in [call : Callers, via : {"loop", "amqp"}, result : Results \cup {Unanswered}]
  BY DEF CallsInv, RemotesTyped
<1>3. PICK x \in [call : Callers, via : {"loop", "amqp"}, result : Results \cup {Unanswered}] :
          /\ x = [w EXCEPT !.result = r]
          /\ x.call = w.call /\ x.via = w.via /\ x.result = r
  <2>1. w.call \in Callers /\ w.via \in {"loop", "amqp"}
    BY <1>2
  <2>2. [w EXCEPT !.result = r] = [call |-> w.call, via |-> w.via, result |-> r]
    BY <1>2
  <2>3. [call |-> w.call, via |-> w.via, result |-> r]
            \in [call : Callers, via : {"loop", "amqp"}, result : Results \cup {Unanswered}]
    BY <2>1
  <2> QED
    BY <2>2, <2>3
<1>4. \A q \in Servers :
          working'[q] = IF q = p THEN (working[q] \ {w}) \cup {x} ELSE working[q]
  BY <1>1, <1>3 DEF CallsInv, RemotesTyped
<1>5. /\ w.call \in Callers /\ r # Unanswered
      /\ \A c \in Callers : ran[c] \in Nat /\ ran'[c] = IF c = w.call THEN ran[c] + 1 ELSE ran[c]
  BY <1>1, <1>2, RemotesAssumption DEF CallsInv, RemotesTyped, Results
<1>6. ran[w.call] <= died /\ w.call \notin queue \cup tasks /\ died \in Nat
  BY <1>1, RemotesAssumption DEF CallsInv, Working, RemotesTyped
<1>7. RemotesTyped'
  <2>1. working' \in [Servers -> SUBSET [call : Callers, via : {"loop", "amqp"},
                                         result : Results \cup {Unanswered}]]
    BY <1>1, <1>3 DEF CallsInv, RemotesTyped
  <2>2. ran' \in [Callers -> Nat]
    BY <1>1, <1>5 DEF CallsInv, RemotesTyped
  <2> QED
    BY <1>1, <2>1, <2>2 DEF CallsInv, RemotesTyped
<1>8. \A q \in Servers : \A v \in working'[q] :
          \/ q = p /\ v = x
          \/ v \in working[q] /\ v.call # w.call
  <2>1. \A q \in Servers : \A v \in working[q] : v.call = w.call => q = p /\ v = w
    BY <1>1 DEF CallsInv, Alone
  <2> SUFFICES ASSUME NEW q \in Servers, NEW v \in working'[q]
               PROVE  \/ q = p /\ v = x
                      \/ v \in working[q] /\ v.call # w.call
    OBVIOUS
  <2>2. CASE q = p
    <3>1. v = x \/ (v \in working[q] /\ v # w)
      BY <1>4, <2>2
    <3>2. v \in working[q] /\ v # w => v.call # w.call
      BY <2>1
    <3> QED
      BY <2>2, <3>1, <3>2
  <2>3. CASE q # p
    <3>1. v \in working[q]
      BY <1>4, <2>3
    <3> QED
      BY <2>1, <2>3, <3>1
  <2> QED
    BY <2>2, <2>3
<1>9. Alone'
  BY <1>3, <1>8 DEF CallsInv, Alone
<1>10. Working'
  <2> SUFFICES ASSUME NEW q \in Servers, NEW v \in working'[q]
               PROVE  /\ v.call \notin queue' \cup tasks'
                      /\ v.call \in Tasks => v.via = "amqp"
                      /\ v.result # Unanswered => ran'[v.call] >= 1
                      /\ v.result = Unanswered => ran'[v.call] <= died'
    BY DEF Working
  <2>1. CASE q = p /\ v = x
    BY <1>1, <1>3, <1>5, <1>6, <2>1 DEF CallsInv, Working
  <2>2. CASE v \in working[q] /\ v.call # w.call
    <3>1. v.call \in Callers
      BY <2>2 DEF CallsInv, RemotesTyped
    <3> QED
      BY <1>1, <1>5, <2>2, <3>1 DEF CallsInv, Working
  <2> QED
    BY <1>8, <2>1, <2>2
<1>11. Waiting'
  BY <1>1, <1>5, <1>6 DEF CallsInv, Waiting, RemotesTyped
<1>12. \A c \in Callers : Executed(c)' => Executed(c)
  BY <1>1, <1>3, <1>8 DEF Executed
<1>13. Untouched'
  <2>1. Executed(w.call)
    BY <1>1 DEF Executed
  <2> QED
    BY <1>1, <1>5, <1>12, <2>1 DEF CallsInv, Untouched, Placed
<1>14. Replies' /\ TasksKept'
  <2>1. \A c \in Callers : ran'[c] >= ran[c]
    BY <1>5
  <2>2. Replies'
    BY <1>1, <1>5, <2>1 DEF CallsInv, Replies
  <2>3. TasksKept'
    BY <1>1, <1>4, <1>5, <2>1 DEF CallsInv, TasksKept
  <2> QED
    BY <2>2, <2>3
<1>15. ExecutedOnce'
  BY <1>1, <1>5, <1>6 DEF CallsInv, ExecutedOnce
<1> QED
  BY <1>7, <1>9, <1>10, <1>11, <1>13, <1>14, <1>15 DEF CallsInv

\* The caller gets the result, if one waits.
LEMMA SettleInv == ASSUME CallsInv, NEW p \in Servers, Settle(p) PROVE CallsInv'
<1>1. PICK w \in working[p] :
          /\ w.result # Unanswered
          /\ working' = [working EXCEPT ![p] = @ \ {w}]
          /\ IF state[w.call] = "waiting" THEN Told(w.call, w.result)
             ELSE UNCHANGED <<state, reply>>
          /\ UNCHANGED <<server, left, queue, tasks, ran, died>>
  BY DEF Settle
<1>2. w.call \in Callers /\ w.result \in Results /\ ran[w.call] >= 1
  BY <1>1 DEF CallsInv, RemotesTyped, Working
<1>3. \A q \in Servers : working'[q] = IF q = p THEN working[q] \ {w} ELSE working[q]
  BY <1>1 DEF CallsInv, RemotesTyped
<1>4. /\ state' \in [Callers -> {"new", "trying", "waiting", "done", "lost"}]
      /\ reply' \in [Callers -> Results \cup {"contract", "transmission", "null", Unanswered}]
      /\ \A c \in Callers : \/ state'[c] = state[c] /\ reply'[c] = reply[c]
                            \/ /\ c = w.call /\ state'[c] = "done"
                               /\ reply'[c] = w.result
  BY <1>1, <1>2, ZenonT(60) DEF CallsInv, RemotesTyped, Told
<1>5. RemotesTyped'
  BY <1>1, <1>4 DEF CallsInv, RemotesTyped
<1>6. Alone' /\ Working' /\ Waiting' /\ ExecutedOnce'
  BY <1>1, <1>3 DEF CallsInv, Alone, Working, Waiting, ExecutedOnce
<1>7. Untouched'
  BY <1>1, <1>2, <1>3, <1>4 DEF CallsInv, Untouched, Placed, Executed, Results
<1>8. Replies'
  BY <1>1, <1>2, <1>4 DEF CallsInv, Replies, Results
<1>9. TasksKept'
  <2> SUFFICES ASSUME NEW c \in Callers, reply'[c] = "null"
               PROVE  \/ ran'[c] > 0 \/ c \in tasks'
                      \/ \E q \in Servers : \E v \in working'[q] : v.call = c
    BY DEF TasksKept
  <2>1. reply[c] = "null"
    BY <1>2, <1>4 DEF Results
  <2>2. CASE c = w.call
    <3>1. ran[c] \in Nat
      BY DEF CallsInv, RemotesTyped
    <3> QED
      BY <1>1, <1>2, <2>2, <3>1
  <2>3. CASE c # w.call
    BY <1>1, <1>3, <2>1, <2>3 DEF CallsInv, TasksKept
  <2> QED
    BY <2>2, <2>3
<1> QED
  BY <1>5, <1>6, <1>7, <1>8, <1>9 DEF CallsInv

-----------------------------------------------------------------------------
\* What is delivered again is what was taken from a queue and not acknowledged.
LEMMA RedeliveredCalls ==
    \A p, s : \A c : c \in Redelivered(p, s) <=>
        c \in s /\ \E w \in working[p] : w.call = c /\ w.via = "amqp"
<1> SUFFICES ASSUME NEW p, NEW s, NEW c
             PROVE  c \in Redelivered(p, s) <=>
                        c \in s /\ \E w \in working[p] : w.call = c /\ w.via = "amqp"
  OBVIOUS
<1>1. ASSUME NEW w \in working[p]
      PROVE  [call |-> c, via |-> "amqp"] = [call |-> w.call, via |-> w.via]
                <=> w.call = c /\ w.via = "amqp"
  <2>1. ASSUME [call |-> c, via |-> "amqp"] = [call |-> w.call, via |-> w.via]
        PROVE  w.call = c /\ w.via = "amqp"
    <3>1. /\ [call |-> c, via |-> "amqp"].call = [call |-> w.call, via |-> w.via].call
          /\ [call |-> c, via |-> "amqp"].via = [call |-> w.call, via |-> w.via].via
      BY <2>1
    <3> QED
      BY <3>1
  <2> QED
    BY <2>1
<1> QED
  BY <1>1 DEF Redelivered

\* A process dies.
LEMMA CrashInv == ASSUME CallsInv, NEW p \in Servers, Killed(p) PROVE CallsInv'
<1>1. /\ died < MaxKilled /\ died' = died + 1
      /\ server' = [server EXCEPT ![p] = "down"]
      /\ working' = [working EXCEPT ![p] = {}]
      /\ queue' = queue \cup Redelivered(p, Callers \ Tasks)
      /\ tasks' = tasks \cup Redelivered(p, Tasks)
      /\ UNCHANGED <<left, reply, ran>>
  BY DEF Killed
<1>2. /\ state' \in [Callers -> {"new", "trying", "waiting", "done", "lost"}]
      /\ \A c \in Callers : state'[c] \in {state[c], "lost"}
  BY DEF Killed, CallsInv, RemotesTyped
<1>3. \A c : /\ c \in queue' => c \in queue \/ (c \in Callers \ Tasks /\ Executed(c))
             /\ c \in tasks' => c \in tasks \/ (c \in Tasks /\ Executed(c))
             /\ c \in (queue' \cup tasks') \ (queue \cup tasks) =>
                    \E w \in working[p] : w.call = c
  BY <1>1, RedeliveredCalls DEF Executed
<1>4. \A q \in Servers : working'[q] = IF q = p THEN {} ELSE working[q]
  BY <1>1 DEF CallsInv, RemotesTyped
<1>5. died \in Nat /\ died' \in 0..MaxKilled
  BY <1>1, RemotesAssumption DEF CallsInv, RemotesTyped
<1>6. RemotesTyped'
  <2>1. queue' \subseteq Callers /\ tasks' \subseteq Callers
    BY <1>3, RemotesAssumption DEF CallsInv, RemotesTyped
  <2>2. /\ server' \in [Servers -> {"down", "up", "sealed"}]
        /\ working' \in [Servers -> SUBSET [call : Callers, via : {"loop", "amqp"},
                                            result : Results \cup {Unanswered}]]
    BY <1>1 DEF CallsInv, RemotesTyped
  <2> QED
    BY <1>1, <1>2, <1>5, <2>1, <2>2 DEF CallsInv, RemotesTyped
<1>7. Alone'
  BY <1>4 DEF CallsInv, Alone
<1>8. Working'
  <2> SUFFICES ASSUME NEW q \in Servers, NEW w \in working'[q]
               PROVE  /\ w.call \notin queue' \cup tasks'
                      /\ w.call \in Tasks => w.via = "amqp"
                      /\ w.result # Unanswered => ran'[w.call] >= 1
                      /\ w.result = Unanswered => ran'[w.call] <= died'
    BY DEF Working
  <2>1. q # p /\ w \in working[q]
    BY <1>4
  <2>2. /\ w.call \notin queue \cup tasks
        /\ w.call \in Tasks => w.via = "amqp"
        /\ w.result # Unanswered => ran[w.call] >= 1
        /\ w.result = Unanswered => ran[w.call] <= died
    BY <2>1 DEF CallsInv, Working
  <2>3. w.call \notin queue' \cup tasks'
    BY <1>3, <2>1, <2>2 DEF CallsInv, Alone
  <2>4. w.call \in Callers /\ ran[w.call] \in Nat
    BY <2>1 DEF CallsInv, RemotesTyped
  <2> QED
    BY <1>1, <1>5, <2>2, <2>3, <2>4
<1>9. \A c \in Callers : ran[c] \in Nat /\ ran[c] <= died'
  BY <1>1, <1>5 DEF CallsInv, RemotesTyped, ExecutedOnce
<1>10. Waiting'
  <2>1. queue' \cap Tasks = {} /\ tasks' \subseteq Tasks
    BY <1>3 DEF CallsInv, Waiting
  <2> QED
    BY <1>1, <1>6, <1>9, <2>1 DEF Waiting, RemotesTyped
<1>11. ExecutedOnce'
  BY <1>1, <1>5, <1>9 DEF ExecutedOnce
<1>12. Untouched'
  <2>1. \A c \in Callers : Placed(c)' => Placed(c)
    BY <1>3, <1>4 DEF Placed, Executed
  <2> QED
    BY <1>1, <1>2, <2>1 DEF CallsInv, Untouched
<1>13. Replies'
  BY <1>1 DEF CallsInv, Replies
<1>14. TasksKept'
  <2> SUFFICES ASSUME NEW c \in Callers, reply[c] = "null"
               PROVE  \/ ran[c] > 0 \/ c \in tasks'
                      \/ \E q \in Servers : \E w \in working'[q] : w.call = c
    BY <1>1 DEF TasksKept
  <2>1. c \in Tasks
    BY DEF CallsInv, Replies
  <2>2. \/ ran[c] > 0 \/ c \in tasks
        \/ \E q \in Servers : \E w \in working[q] : w.call = c
    BY DEF CallsInv, TasksKept
  <2>3. ASSUME NEW w \in working[p], w.call = c PROVE c \in tasks'
    BY <1>1, <2>1, <2>3, RedeliveredCalls DEF CallsInv, Working
  <2> QED
    BY <1>1, <1>4, <2>2, <2>3
<1> QED
  BY <1>6, <1>7, <1>8, <1>10, <1>11, <1>12, <1>13, <1>14 DEF CallsInv

\* The life cycle of a process changes nothing else.
LEMMA ServerInv ==
    ASSUME CallsInv, NEW p \in Servers, Seal(p) \/ Dispose(p) \/ Restarted(p) PROVE CallsInv'
<1>1. /\ server' \in [Servers -> {"down", "up", "sealed"}]
      /\ UNCHANGED <<left, state, reply, queue, tasks, working, ran, died>>
  BY DEF Seal, Dispose, Restarted, CallsInv, RemotesTyped
<1>2. RemotesTyped' /\ Alone' /\ Working' /\ Waiting'
  BY <1>1 DEF CallsInv, RemotesTyped, Alone, Working, Waiting
<1>3. Untouched' /\ Replies' /\ ExecutedOnce' /\ TasksKept'
  BY <1>1 DEF CallsInv, Untouched, Replies, ExecutedOnce, TasksKept, Placed, Executed
<1> QED
  BY <1>2, <1>3 DEF CallsInv

\* The invariant is inductive.
LEMMA CallsNextInv == CallsInv /\ [RemoteNext]_remoteVars => CallsInv'
<1> SUFFICES ASSUME CallsInv, [RemoteNext]_remoteVars PROVE CallsInv'
  OBVIOUS
<1>1. ASSUME NEW c \in Callers, Request(c) \/ Rejected(c) \/ Exhausted(c) PROVE CallsInv'
  BY <1>1, CallInv
<1>2. ASSUME NEW c \in Callers, ByLoop(c) PROVE CallsInv'
  BY <1>2, StartedIInv, RemotesAssumption
<1>3. ASSUME NEW c \in Callers, NEW p \in Servers, TakeRequest(p, c) PROVE CallsInv'
  BY <1>3, StartedIInv
<1>4. ASSUME NEW c \in Callers, ByQueue(c) PROVE CallsInv'
  BY <1>4, ByQueueInv
<1>5. ASSUME NEW p \in Servers, Execute(p) \/ Settle(p) PROVE CallsInv'
  BY <1>5, ExecuteInv, SettleInv
<1>6. ASSUME NEW p \in Servers, Killed(p) PROVE CallsInv'
  BY <1>6, CrashInv
<1>7. ASSUME NEW p \in Servers, Seal(p) \/ Dispose(p) \/ Restarted(p) PROVE CallsInv'
  BY <1>7, ServerInv
<1>8. CASE UNCHANGED remoteVars
  <2>1. RemotesTyped' /\ Alone' /\ Working' /\ Waiting'
    BY <1>8 DEF remoteVars, CallsInv, RemotesTyped, Alone, Working, Waiting
  <2>2. Untouched' /\ Replies' /\ ExecutedOnce' /\ TasksKept'
    BY <1>8 DEF remoteVars, CallsInv, Untouched, Replies, ExecutedOnce, TasksKept, Placed, Executed
  <2> QED
    BY <2>1, <2>2 DEF CallsInv
<1> QED
  BY <1>1, <1>2, <1>3, <1>4, <1>5, <1>6, <1>7, <1>8 DEF RemoteNext, Transmit, Produce, Finish

\* What the runs check follows from it.
LEMMA CallsInvTruthful == CallsInv => CallsTruthful
<1> SUFFICES ASSUME CallsInv PROVE CallsTruthful
  OBVIOUS
<1>1. RepliesTruthful
  BY DEF CallsInv, RepliesTruthful, Replies, Untouched
<1> QED
  BY <1>1 DEF CallsInv, CallsTruthful

\* However bindings are ordered and processes die: a call is executed once for
\* each death at most and once more, callers are told the truth, and no task
\* that was accepted is lost (transmission.js, bindings.loop, bindings.amqp).
THEOREM Truthful == RemoteSpec => []CallsTruthful
<1>1. (RemoteInit => CallsInv) /\ (CallsInv /\ [RemoteNext]_remoteVars => CallsInv')
  BY CallsInitInv, CallsNextInv
<1> QED
  BY <1>1, CallsInvTruthful, PTL DEF RemoteSpec

-----------------------------------------------------------------------------
(***************************************************************************)
(* For any keys, clients and high water mark: every client of a key has    *)
(* its events since the first one without a gap, and a stream that is      *)
(* paused is paused for one of its clients.                                *)
(***************************************************************************)

StreamRecords == [forks : SUBSET Clients, buffer : Seq(Nat), paused : BOOLEAN]
ForkRecords == [key : Keys, queue : Seq(Nat), seen : Seq(Nat), awaited : BOOLEAN]

StreamsShaped ==
    /\ discovered \in BOOLEAN
    /\ pushing \in Seq(Keys)
    /\ sent \in [Keys -> Nat]
    /\ streams \in [Keys -> StreamRecords \cup {Nowhere}]
    /\ fork \in [Clients -> ForkRecords \cup {Nowhere}]

\* A fork that is waited for has something to be read: reading it to its end
\* is what resumes the stream.
AwaitedUnread == \A c \in Clients :
    fork[c] # Nowhere /\ fork[c].awaited => fork[c].queue # <<>>

\* A paused stream has a fork that is waited for.
PausedAwaits == \A k \in Keys :
    streams[k] # Nowhere /\ streams[k].paused => \E c \in streams[k].forks : fork[c].awaited

StreamsInv == StreamsShaped /\ StreamsTyped /\ NoGaps /\ AwaitedUnread /\ PausedAwaits

-----------------------------------------------------------------------------
\* The events of a client: what it has read, what waits in its fork, and what
\* waits in the stream.
EventsOf(f, s) == f.seen \o f.queue \o s.buffer

\* The numbers in a sequence are consecutive and end with n.
EndsWith(s, n) == \A i \in 1..Len(s) : s[i] = n - Len(s) + i

\* Elements of a concatenation of three sequences.
LEMMA Joined ==
    ASSUME NEW a \in Seq(Nat), NEW b \in Seq(Nat), NEW c \in Seq(Nat)
    PROVE  /\ a \o b \o c \in Seq(Nat)
           /\ Len(a \o b \o c) = Len(a) + Len(b) + Len(c)
           /\ \A i \in 1..(Len(a) + Len(b) + Len(c)) :
                (a \o b \o c)[i] = IF i <= Len(a) THEN a[i]
                                   ELSE IF i <= Len(a) + Len(b) THEN b[i - Len(a)]
                                   ELSE c[i - Len(a) - Len(b)]
  OBVIOUS

\* Pushing: the next event continues the sequence.
LEMMA PushedOn ==
    ASSUME NEW a \in Seq(Nat), NEW b \in Seq(Nat), NEW c \in Seq(Nat), NEW n \in Nat,
           EndsWith(a \o b \o c, n)
    PROVE  EndsWith(a \o b \o Append(c, n + 1), n + 1)
<1>1. /\ Append(c, n + 1) \in Seq(Nat) /\ Len(Append(c, n + 1)) = Len(c) + 1
      /\ \A i \in 1..Len(c) : Append(c, n + 1)[i] = c[i]
      /\ Append(c, n + 1)[Len(c) + 1] = n + 1
  OBVIOUS
<1>2. /\ Len(a) \in Nat /\ Len(b) \in Nat /\ Len(c) \in Nat
  OBVIOUS
<1> QED
  BY <1>1, <1>2, Joined DEF EndsWith

\* Flowing: the head of the stream's buffer moves to the end of the queue.
LEMMA FlowedOn ==
    ASSUME NEW a \in Seq(Nat), NEW b \in Seq(Nat), NEW c \in Seq(Nat), NEW n \in Nat,
           c # <<>>, EndsWith(a \o b \o c, n)
    PROVE  EndsWith(a \o Append(b, Head(c)) \o Tail(c), n)
<1>1. /\ Append(b, Head(c)) \in Seq(Nat) /\ Len(Append(b, Head(c))) = Len(b) + 1
      /\ \A i \in 1..Len(b) : Append(b, Head(c))[i] = b[i]
      /\ Append(b, Head(c))[Len(b) + 1] = c[1]
  OBVIOUS
<1>2. /\ Tail(c) \in Seq(Nat) /\ Len(Tail(c)) = Len(c) - 1 /\ Len(c) >= 1
      /\ \A i \in 1..(Len(c) - 1) : Tail(c)[i] = c[i + 1]
  OBVIOUS
<1>3. /\ Len(a) \in Nat /\ Len(b) \in Nat /\ Len(c) \in Nat
  OBVIOUS
<1> DEFINE old == a \o b \o c
           new == a \o Append(b, Head(c)) \o Tail(c)
<1>4. /\ Len(new) = Len(a) + Len(b) + Len(c) /\ Len(old) = Len(a) + Len(b) + Len(c)
      /\ \A i \in 1..(Len(a) + Len(b) + Len(c)) : new[i] = old[i]
  <2>1. Len(new) = Len(a) + Len(b) + Len(c) /\ Len(old) = Len(a) + Len(b) + Len(c)
    BY <1>1, <1>2, <1>3, Joined
  <2>2. SUFFICES ASSUME NEW i \in 1..(Len(a) + Len(b) + Len(c)) PROVE new[i] = old[i]
    BY <2>1
  <2>3. CASE i <= Len(a) + Len(b)
    BY <1>1, <1>2, <1>3, <2>3, Joined
  <2>4. CASE i = Len(a) + Len(b) + 1
    BY <1>1, <1>2, <1>3, <2>4, Joined
  <2>5. CASE i > Len(a) + Len(b) + 1
    BY <1>1, <1>2, <1>3, <2>5, Joined
  <2> HIDE DEF new, old
  <2>6. i <= Len(a) + Len(b) \/ i = Len(a) + Len(b) + 1 \/ i > Len(a) + Len(b) + 1
    BY <1>3
  <2> QED
    BY <2>3, <2>4, <2>5, <2>6
<1> HIDE DEF new, old
<1>5. EndsWith(new, n)
  BY <1>4 DEF EndsWith, old
<1> QED
  BY <1>5 DEF new

\* Reading: the head of the queue moves to the end of what is seen.
LEMMA ReadOn ==
    ASSUME NEW a \in Seq(Nat), NEW b \in Seq(Nat), NEW c \in Seq(Nat), NEW n \in Nat,
           b # <<>>, EndsWith(a \o b \o c, n)
    PROVE  EndsWith(Append(a, Head(b)) \o Tail(b) \o c, n)
<1>1. /\ Append(a, Head(b)) \in Seq(Nat) /\ Len(Append(a, Head(b))) = Len(a) + 1
      /\ \A i \in 1..Len(a) : Append(a, Head(b))[i] = a[i]
      /\ Append(a, Head(b))[Len(a) + 1] = b[1]
  OBVIOUS
<1>2. /\ Tail(b) \in Seq(Nat) /\ Len(Tail(b)) = Len(b) - 1 /\ Len(b) >= 1
      /\ \A i \in 1..(Len(b) - 1) : Tail(b)[i] = b[i + 1]
  OBVIOUS
<1>3. /\ Len(a) \in Nat /\ Len(b) \in Nat /\ Len(c) \in Nat
  OBVIOUS
<1> DEFINE old == a \o b \o c
           new == Append(a, Head(b)) \o Tail(b) \o c
<1>4. /\ Len(new) = Len(a) + Len(b) + Len(c) /\ Len(old) = Len(a) + Len(b) + Len(c)
      /\ \A i \in 1..(Len(a) + Len(b) + Len(c)) : new[i] = old[i]
  <2>1. Len(new) = Len(a) + Len(b) + Len(c) /\ Len(old) = Len(a) + Len(b) + Len(c)
    BY <1>1, <1>2, <1>3, Joined
  <2>2. SUFFICES ASSUME NEW i \in 1..(Len(a) + Len(b) + Len(c)) PROVE new[i] = old[i]
    BY <2>1
  <2>3. CASE i <= Len(a)
    BY <1>1, <1>2, <1>3, <2>3, Joined
  <2>4. CASE i = Len(a) + 1
    BY <1>1, <1>2, <1>3, <2>4, Joined
  <2>5. CASE i > Len(a) + 1
    BY <1>1, <1>2, <1>3, <2>5, Joined, SMTT(40)
  <2> HIDE DEF new, old
  <2> QED
    BY <1>3, <2>2, <2>3, <2>4, <2>5
<1> HIDE DEF new, old
<1>5. EndsWith(new, n)
  BY <1>4 DEF EndsWith, old
<1> QED
  BY <1>5 DEF new

\* A new fork is owed what the stream has kept.
LEMMA ForkedFrom ==
    ASSUME NEW a \in Seq(Nat), NEW b \in Seq(Nat), NEW c \in Seq(Nat), NEW n \in Nat,
           EndsWith(a \o b \o c, n)
    PROVE  EndsWith(<<>> \o <<>> \o c, n)
<1>1. /\ Len(a) \in Nat /\ Len(b) \in Nat /\ Len(c) \in Nat
  OBVIOUS
<1>2. <<>> \o <<>> \o c = c
  OBVIOUS
<1>3. EndsWith(c, n)
  <2> SUFFICES ASSUME NEW i \in 1..Len(c) PROVE c[i] = n - Len(c) + i
    BY DEF EndsWith
  <2>1. (a \o b \o c)[Len(a) + Len(b) + i] = c[i]
    BY <1>1, Joined
  <2> DEFINE l == Len(a) + Len(b) + i
  <2>2. l \in 1..(Len(a) + Len(b) + Len(c))
    BY <1>1
  <2>3. (a \o b \o c)[l] = n - (Len(a) + Len(b) + Len(c)) + l
    BY <2>2, Joined DEF EndsWith
  <2> QED
    BY <1>1, <2>1, <2>3
<1> QED
  BY <1>2, <1>3

-----------------------------------------------------------------------------
\* NoGaps in the words of the lemmas.
LEMMA GaplessEnds ==
    NoGaps <=> \A c \in Clients : fork[c] # Nowhere =>
                 EndsWith(EventsOf(fork[c], streams[fork[c].key]), sent[fork[c].key])
  BY DEF NoGaps, EndsWith, EventsOf

\* What a fork that is there looks like, and the stream that it belongs to.
LEMMA Present ==
    ASSUME StreamsInv, NEW c \in Clients, fork[c] # Nowhere
    PROVE  /\ fork[c] \in ForkRecords
           /\ fork[c].key \in Keys /\ fork[c].queue \in Seq(Nat) /\ fork[c].seen \in Seq(Nat)
           /\ fork[c].awaited \in BOOLEAN
           /\ streams[fork[c].key] \in StreamRecords
           /\ streams[fork[c].key] # Nowhere
           /\ c \in streams[fork[c].key].forks
           /\ streams[fork[c].key].buffer \in Seq(Nat)
           /\ sent[fork[c].key] \in Nat
<1>1. /\ fork[c] \in ForkRecords
      /\ fork[c].key \in Keys /\ fork[c].queue \in Seq(Nat) /\ fork[c].seen \in Seq(Nat)
      /\ fork[c].awaited \in BOOLEAN
  BY DEF StreamsInv, StreamsShaped, ForkRecords
<1>2. streams[fork[c].key] # Nowhere
  BY DEF StreamsInv, StreamsTyped
<1>3. streams[fork[c].key] \in StreamRecords
  BY <1>1, <1>2 DEF StreamsInv, StreamsShaped
<1>4. c \in streams[fork[c].key].forks
  BY <1>1, <1>2 DEF StreamsInv, StreamsTyped
<1> QED
  BY <1>1, <1>2, <1>3, <1>4 DEF StreamsInv, StreamsShaped, StreamRecords

\* A stream that is there.
LEMMA Streaming ==
    ASSUME StreamsInv, NEW k \in Keys, streams[k] # Nowhere
    PROVE  /\ streams[k] \in StreamRecords
           /\ streams[k].forks \subseteq Clients /\ streams[k].buffer \in Seq(Nat)
           /\ streams[k].paused \in BOOLEAN
           /\ streams[k].forks = {c \in Clients : fork[c] # Nowhere /\ fork[c].key = k}
           /\ streams[k].forks # {}
  BY DEF StreamsInv, StreamsShaped, StreamRecords, StreamsTyped

\* The initial state satisfies the invariant.
LEMMA StreamsInitInv == StreamsInit => StreamsInv
<1> SUFFICES ASSUME StreamsInit PROVE StreamsInv
  OBVIOUS
<1>1. /\ \A c \in Clients : fork[c] = Nowhere
      /\ \A k \in Keys : streams[k] = Nowhere
  BY DEF StreamsInit
<1>2. StreamsShaped
  <2>1. discovered \in BOOLEAN /\ pushing \in Seq(Keys)
    <3>1. pushing = <<>>
      BY DEF StreamsInit
    <3>2. pushing \in Seq(Keys)
      BY <3>1
    <3>3. discovered = FALSE
      BY DEF StreamsInit
    <3> QED
      BY <3>2, <3>3
  <2>2. sent \in [Keys -> Nat]
    BY DEF StreamsInit
  <2>3. streams \in [Keys -> StreamRecords \cup {Nowhere}]
    BY DEF StreamsInit
  <2>4. fork \in [Clients -> ForkRecords \cup {Nowhere}]
    BY DEF StreamsInit
  <2> QED
    BY <2>1, <2>2, <2>3, <2>4 DEF StreamsShaped
<1>3. StreamsTyped
  BY <1>1, StreamsAssumption DEF StreamsInit, StreamsTyped
<1>4. NoGaps /\ AwaitedUnread /\ PausedAwaits
  BY <1>1 DEF NoGaps, AwaitedUnread, PausedAwaits
<1> QED
  BY <1>2, <1>3, <1>4 DEF StreamsInv

\* Nothing but the events pushed changes when one is received or dropped.
LEMMA ReceivedInv ==
    ASSUME StreamsInv, pushing' \in Seq(Keys), discovered' \in BOOLEAN,
           received' \in 0..MaxEvents, UNCHANGED <<sent, streams, fork>>
    PROVE  StreamsInv'
  BY DEF StreamsInv, StreamsShaped, StreamsTyped, NoGaps, AwaitedUnread, PausedAwaits

\* A pushed event comes after those of each client.
LEMMA PushInv == ASSUME StreamsInv, Push PROVE StreamsInv'
<1> DEFINE k == Head(pushing)
<1>1. k \in Keys /\ pushing' \in Seq(Keys) /\ UNCHANGED <<discovered, received, fork>>
  <2>1. pushing \in Seq(Keys) /\ pushing # <<>> /\ pushing' = Tail(pushing)
    BY DEF Push, StreamsInv, StreamsShaped
  <2> QED
    BY <2>1 DEF Push
<1>2. CASE streams[k] = Nowhere
  BY <1>1, <1>2, ReceivedInv DEF Push, StreamsInv, StreamsTyped, StreamsShaped
<1>3. CASE streams[k] # Nowhere
  <2>1. /\ sent' = [sent EXCEPT ![k] = @ + 1]
        /\ streams' = [streams EXCEPT ![k].buffer = Append(@, sent'[k])]
    BY <1>3 DEF Push
  <2>2. /\ sent[k] \in Nat /\ sent' \in [Keys -> Nat] /\ sent'[k] = sent[k] + 1
        /\ \A l \in Keys : l # k => sent'[l] = sent[l]
    BY <1>1, <2>1 DEF StreamsInv, StreamsShaped
  <2>3. /\ streams[k].buffer \in Seq(Nat) /\ streams[k] \in StreamRecords
    BY <1>1, <1>3, Streaming
  <2>4. Append(streams[k].buffer, sent[k] + 1) \in Seq(Nat)
    BY <2>2, <2>3
  <2> HIDE DEF k
  <2>5. /\ streams' \in [Keys -> StreamRecords \cup {Nowhere}]
        /\ streams'[k].buffer = Append(streams[k].buffer, sent[k] + 1)
        /\ streams'[k].forks = streams[k].forks /\ streams'[k].paused = streams[k].paused
        /\ streams'[k] \in StreamRecords
        /\ \A l \in Keys : l # k => streams'[l] = streams[l]
    BY <1>1, <2>1, <2>2, <2>3, <2>4 DEF StreamsInv, StreamsShaped, StreamRecords
  <2>6. streams'[k] # Nowhere
    BY <2>5, StreamsAssumption DEF StreamRecords
  <2>7. StreamsShaped'
    BY <1>1, <2>2, <2>5 DEF StreamsInv, StreamsShaped
  <2>8. StreamsTyped'
    <3>1. \A l \in Keys : /\ streams'[l].forks = streams[l].forks
                          /\ streams'[l] = Nowhere <=> streams[l] = Nowhere
      BY <1>1, <1>3, <2>5, <2>6
    <3>2. \A c \in Clients : fork[c] # Nowhere => fork[c].key \in Keys
      BY Present DEF StreamsInv
    <3> QED
      BY <1>1, <3>1, <3>2 DEF StreamsInv, StreamsTyped
  <2>9. NoGaps'
    <3> SUFFICES ASSUME NEW c \in Clients, fork[c] # Nowhere
                 PROVE  EndsWith(EventsOf(fork[c], streams'[fork[c].key]), sent'[fork[c].key])
      BY <1>1 DEF NoGaps, EndsWith, EventsOf
    <3>1. EndsWith(EventsOf(fork[c], streams[fork[c].key]), sent[fork[c].key])
      BY GaplessEnds DEF StreamsInv
    <3>2. CASE fork[c].key = k
      BY <2>2, <2>5, <3>1, <3>2, Present, PushedOn DEF EventsOf
    <3>3. CASE fork[c].key # k
      BY <2>2, <2>5, <3>1, <3>3, Present DEF EventsOf
    <3> QED
      BY <3>2, <3>3
  <2>10. AwaitedUnread' /\ PausedAwaits'
    BY <1>1, <1>3, <2>5 DEF StreamsInv, AwaitedUnread, PausedAwaits
  <2> QED
    BY <2>7, <2>8, <2>9, <2>10 DEF StreamsInv
<1> QED
  BY <1>2, <1>3

\* A new fork is owed what the stream has kept, and resumes the stream.
LEMMA CreateInv ==
    ASSUME StreamsInv, NEW c \in Clients, NEW k \in Keys, Create(c, k)
    PROVE  StreamsInv'
<1>1. /\ fork[c] = Nowhere
      /\ fork' = [fork EXCEPT ![c] = [key |-> k, queue |-> <<>>, seen |-> <<>>, awaited |-> FALSE]]
      /\ UNCHANGED <<discovered, received, pushing, sent>>
  BY DEF Create
<1>2. /\ fork'[c] = [key |-> k, queue |-> <<>>, seen |-> <<>>, awaited |-> FALSE]
      /\ \A d \in Clients : d # c => fork'[d] = fork[d]
  BY <1>1 DEF StreamsInv, StreamsShaped
<1>3. fork'[c] \in ForkRecords
  BY <1>2 DEF ForkRecords
<1>4. fork'[c] # Nowhere /\ fork'[c].key = k /\ fork'[c].queue = <<>>
      /\ fork'[c].seen = <<>> /\ fork'[c].awaited = FALSE
  <2>1. fork'[c] # Nowhere
    BY <1>3, StreamsAssumption DEF ForkRecords
  <2> QED
    BY <1>2, <2>1
<1>5. fork' \in [Clients -> ForkRecords \cup {Nowhere}]
  BY <1>1, <1>3, <1>2 DEF StreamsInv, StreamsShaped
<1>6. /\ streams'[k] \in StreamRecords
      /\ streams'[k].paused = FALSE
      /\ streams[k] = Nowhere => streams'[k].forks = {c} /\ streams'[k].buffer = <<>>
      /\ streams[k] # Nowhere => /\ streams'[k].forks = streams[k].forks \cup {c}
                                 /\ streams'[k].buffer = streams[k].buffer
      /\ \A l \in Keys : l # k => streams'[l] = streams[l]
      /\ streams' \in [Keys -> StreamRecords \cup {Nowhere}]
  <2>1. CASE streams[k] = Nowhere
    <3>1. streams' = [streams EXCEPT ![k] = [forks |-> {c}, buffer |-> <<>>, paused |-> FALSE]]
      BY <2>1 DEF Create
    <3>2. [forks |-> {c}, buffer |-> <<>>, paused |-> FALSE] \in StreamRecords
      BY DEF StreamRecords
    <3> QED
      BY <2>1, <3>1, <3>2 DEF StreamsInv, StreamsShaped
  <2>2. CASE streams[k] # Nowhere
    <3>1. streams' = [streams EXCEPT ![k].forks = @ \cup {c}, ![k].paused = FALSE]
      BY <2>2 DEF Create
    <3>2. streams[k] \in StreamRecords /\ streams[k].forks \cup {c} \in SUBSET Clients
      BY <2>2, Streaming
    <3> QED
      BY <2>2, <3>1, <3>2 DEF StreamsInv, StreamsShaped, StreamRecords
  <2> QED
    BY <2>1, <2>2
<1>7. streams'[k] # Nowhere
  BY <1>6, StreamsAssumption DEF StreamRecords
<1>8. StreamsShaped'
  BY <1>1, <1>5, <1>6 DEF StreamsInv, StreamsShaped
<1>9. StreamsTyped'
  <2>1. \A l \in Keys : streams'[l] # Nowhere =>
           /\ streams'[l].forks = {d \in Clients : fork'[d] # Nowhere /\ fork'[d].key = l}
           /\ streams'[l].forks # {}
    <3> SUFFICES ASSUME NEW l \in Keys, streams'[l] # Nowhere
                 PROVE  /\ streams'[l].forks = {d \in Clients : fork'[d] # Nowhere /\ fork'[d].key = l}
                        /\ streams'[l].forks # {}
      OBVIOUS
    <3>1. CASE l # k
      BY <1>1, <1>2, <1>4, <1>6, <3>1, Streaming
    <3>2. CASE l = k /\ streams[k] # Nowhere
      BY <1>1, <1>2, <1>4, <1>6, <3>2, Streaming
    <3>3. CASE l = k /\ streams[k] = Nowhere
      <4>1. \A d \in Clients : d # c /\ fork'[d] # Nowhere => fork'[d].key # k
        BY <1>2, <3>3 DEF StreamsInv, StreamsTyped
      <4> QED
        BY <1>2, <1>4, <1>6, <3>3, <4>1
    <3> QED
      BY <3>1, <3>2, <3>3
  <2>2. \A d \in Clients : fork'[d] # Nowhere => streams'[fork'[d].key] # Nowhere
    <3> SUFFICES ASSUME NEW d \in Clients, fork'[d] # Nowhere
                 PROVE  streams'[fork'[d].key] # Nowhere
      OBVIOUS
    <3>1. CASE d # c
      BY <1>2, <1>6, <1>7, <3>1, Present
    <3> QED
      BY <1>4, <1>7, <3>1
  <2> QED
    BY <1>1, <2>1, <2>2 DEF StreamsTyped, StreamsInv
<1>10. NoGaps'
  <2> SUFFICES ASSUME NEW d \in Clients, fork'[d] # Nowhere
               PROVE  EndsWith(EventsOf(fork'[d], streams'[fork'[d].key]), sent[fork'[d].key])
    BY <1>1 DEF NoGaps, EndsWith, EventsOf
  <2>1. CASE d # c
    <3>1. fork'[d] = fork[d] /\ EndsWith(EventsOf(fork[d], streams[fork[d].key]), sent[fork[d].key])
      BY <1>2, <2>1, GaplessEnds DEF StreamsInv
    <3>2. fork[d].key \in Keys /\ streams[fork[d].key] # Nowhere
      BY <3>1, Present
    <3>3. streams'[fork[d].key].buffer = streams[fork[d].key].buffer
      BY <1>6, <3>2
    <3> QED
      BY <3>1, <3>3 DEF EventsOf
  <2>2. CASE d = c /\ streams[k] = Nowhere
    <3>1. EventsOf(fork'[d], streams'[fork'[d].key]) = <<>>
      BY <1>4, <1>6, <2>2 DEF EventsOf
    <3> QED
      BY <3>1 DEF EndsWith
  <2>3. CASE d = c /\ streams[k] # Nowhere
    <3>1. PICK e \in Clients : fork[e] # Nowhere /\ fork[e].key = k
      BY <2>3, Streaming
    <3>2. EndsWith(fork[e].seen \o fork[e].queue \o streams[k].buffer, sent[k])
      BY <3>1, GaplessEnds DEF StreamsInv, EventsOf
    <3>3. EndsWith(<<>> \o <<>> \o streams[k].buffer, sent[k])
      BY <3>1, <3>2, Present, ForkedFrom
    <3> QED
      BY <1>4, <1>6, <2>3, <3>3 DEF EventsOf
  <2> QED
    BY <2>1, <2>2, <2>3
<1>11. AwaitedUnread'
  BY <1>2, <1>4 DEF StreamsInv, AwaitedUnread
<1>12. PausedAwaits'
  <2> SUFFICES ASSUME NEW l \in Keys, streams'[l] # Nowhere, streams'[l].paused
               PROVE  \E d \in streams'[l].forks : fork'[d].awaited
    BY DEF PausedAwaits
  <2>1. l # k /\ streams'[l] = streams[l]
    BY <1>6
  <2>2. PICK d \in streams[l].forks : fork[d].awaited
    BY <2>1 DEF StreamsInv, PausedAwaits
  <2>3. d \in Clients /\ fork[d] # Nowhere
    BY <2>1, <2>2, Streaming
  <2> QED
    BY <1>1, <1>2, <2>1, <2>2, <2>3
<1> QED
  BY <1>8, <1>9, <1>10, <1>11, <1>12 DEF StreamsInv

\* A chunk leaves the stream for each of its forks.
LEMMA FlowInv == ASSUME StreamsInv, NEW k \in Keys, Flow(k) PROVE StreamsInv'
<1>1. /\ streams[k] # Nowhere /\ streams[k].buffer # <<>>
      /\ UNCHANGED <<discovered, received, pushing, sent>>
  BY DEF Flow
<1>2. /\ streams[k].forks \subseteq Clients /\ streams[k].buffer \in Seq(Nat)
      /\ streams[k] \in StreamRecords
      /\ streams[k].forks = {c \in Clients : fork[c] # Nowhere /\ fork[c].key = k}
  BY <1>1, Streaming
<1>3. /\ Head(streams[k].buffer) \in Nat /\ Tail(streams[k].buffer) \in Seq(Nat)
  BY <1>1, <1>2
<1>4. /\ \A c \in Clients : c \notin streams[k].forks => fork'[c] = fork[c]
      /\ \A c \in streams[k].forks :
            fork'[c] = [fork[c] EXCEPT !.queue = Append(@, Head(streams[k].buffer)),
                                       !.awaited = Len(fork[c].queue) + 1 >= HighWaterMark]
      /\ DOMAIN fork' = Clients /\ fork' = [c \in Clients |-> fork'[c]]
  BY <1>2 DEF Flow
<1>5. \A c \in streams[k].forks :
         /\ fork'[c] \in ForkRecords
         /\ fork'[c].key = k /\ fork'[c].seen = fork[c].seen
         /\ fork'[c].queue = Append(fork[c].queue, Head(streams[k].buffer))
         /\ fork'[c].queue # <<>>
  <2> SUFFICES ASSUME NEW c \in streams[k].forks
               PROVE  /\ fork'[c] \in ForkRecords
                      /\ fork'[c].key = k /\ fork'[c].seen = fork[c].seen
                      /\ fork'[c].queue = Append(fork[c].queue, Head(streams[k].buffer))
                      /\ fork'[c].queue # <<>>
    OBVIOUS
  <2>1. fork[c] \in ForkRecords /\ fork[c].key = k /\ fork[c].queue \in Seq(Nat)
    BY <1>2, Present
  <2> DEFINE q == fork[c].queue
             h == Head(streams[k].buffer)
  <2>2. /\ Append(q, h) \in Seq(Nat) /\ Append(q, h) # <<>>
    <3> HIDE DEF q, h
    <3>1. q \in Seq(Nat) /\ h \in Nat
      BY <1>3, <2>1 DEF q, h
    <3>2. Append(q, h) \in Seq(Nat) /\ Len(Append(q, h)) = Len(q) + 1
      BY <3>1
    <3>3. Len(q) \in Nat /\ Len(<<>>) = 0
      BY <3>1
    <3> QED
      BY <3>2, <3>3
  <2>3. (Len(fork[c].queue) + 1 >= HighWaterMark) \in BOOLEAN
    OBVIOUS
  <2> QED
    BY <1>4, <2>1, <2>2, <2>3 DEF ForkRecords
<1>6. \A c \in Clients : /\ fork'[c] = Nowhere <=> fork[c] = Nowhere
                         /\ fork[c] # Nowhere => fork'[c].key = fork[c].key
  <2> SUFFICES ASSUME NEW c \in Clients
               PROVE  /\ fork'[c] = Nowhere <=> fork[c] = Nowhere
                      /\ fork[c] # Nowhere => fork'[c].key = fork[c].key
    OBVIOUS
  <2>1. CASE c \notin streams[k].forks
    BY <1>4, <2>1
  <2>2. CASE c \in streams[k].forks
    <3>1. fork'[c] # Nowhere
      BY <1>5, <2>2, StreamsAssumption DEF ForkRecords
    <3>2. fork[c] # Nowhere /\ fork[c].key = k /\ fork'[c].key = k
      BY <1>2, <1>5, <2>2
    <3> QED
      BY <3>1, <3>2
  <2> QED
    BY <2>1, <2>2
<1>7. fork' \in [Clients -> ForkRecords \cup {Nowhere}]
  BY <1>4, <1>5 DEF StreamsInv, StreamsShaped
<1>8. streams' = [streams EXCEPT ![k].buffer = Tail(@),
                    ![k].paused = \E c \in streams[k].forks : fork'[c].awaited]
  BY DEF Flow
<1>9. /\ streams'[k].buffer = Tail(streams[k].buffer)
      /\ streams'[k].paused = (\E c \in streams[k].forks : fork'[c].awaited)
      /\ streams'[k].forks = streams[k].forks
      /\ streams'[k] \in StreamRecords
      /\ \A l \in Keys : l # k => streams'[l] = streams[l]
      /\ streams' \in [Keys -> StreamRecords \cup {Nowhere}]
  <2>1. (\E c \in streams[k].forks : fork'[c].awaited) \in BOOLEAN
    OBVIOUS
  <2> HIDE DEF Flow
  <2> QED
    BY <1>2, <1>3, <1>8, <2>1 DEF StreamsInv, StreamsShaped, StreamRecords
<1>10. streams'[k] # Nowhere
  BY <1>9, StreamsAssumption DEF StreamRecords
<1>11. StreamsShaped'
  BY <1>1, <1>7, <1>9 DEF StreamsInv, StreamsShaped
<1>12. StreamsTyped'
  <2>1. \A l \in Keys : /\ streams'[l].forks = streams[l].forks
                        /\ streams'[l] = Nowhere <=> streams[l] = Nowhere
    BY <1>1, <1>9, <1>10
  <2>2. \A c \in Clients : fork[c] # Nowhere => fork[c].key \in Keys
    BY Present DEF StreamsInv
  <2> QED
    BY <1>1, <1>6, <2>1, <2>2 DEF StreamsInv, StreamsTyped
<1>13. NoGaps'
  <2> SUFFICES ASSUME NEW c \in Clients, fork'[c] # Nowhere
               PROVE  EndsWith(EventsOf(fork'[c], streams'[fork'[c].key]), sent[fork'[c].key])
    BY <1>1 DEF NoGaps, EndsWith, EventsOf
  <2>1. fork[c] # Nowhere /\ EndsWith(EventsOf(fork[c], streams[fork[c].key]), sent[fork[c].key])
    BY <1>6, GaplessEnds DEF StreamsInv
  <2>2. CASE c \in streams[k].forks
    <3>1. fork[c].key = k /\ fork[c].seen \in Seq(Nat) /\ fork[c].queue \in Seq(Nat) /\ sent[k] \in Nat
      BY <1>2, <2>1, <2>2, Present
    <3>2. EndsWith(fork[c].seen \o fork[c].queue \o streams[k].buffer, sent[k])
      BY <2>1, <3>1 DEF EventsOf
    <3>3. EndsWith(fork[c].seen \o Append(fork[c].queue, Head(streams[k].buffer))
                     \o Tail(streams[k].buffer), sent[k])
      BY <1>1, <1>2, <3>1, <3>2, FlowedOn
    <3> QED
      BY <1>5, <1>9, <2>2, <3>3 DEF EventsOf
  <2>3. CASE c \notin streams[k].forks
    <3>1. fork'[c] = fork[c] /\ fork[c].key \in Keys /\ fork[c].key # k
      BY <1>2, <1>4, <2>1, <2>3, Present
    <3> QED
      BY <1>9, <2>1, <3>1
  <2> QED
    BY <2>2, <2>3
<1>14. AwaitedUnread'
  BY <1>4, <1>5 DEF StreamsInv, AwaitedUnread
<1>15. PausedAwaits'
  <2> SUFFICES ASSUME NEW l \in Keys, streams'[l] # Nowhere, streams'[l].paused
               PROVE  \E d \in streams'[l].forks : fork'[d].awaited
    BY DEF PausedAwaits
  <2>1. CASE l = k
    BY <1>9, <2>1
  <2>2. CASE l # k
    <3>1. streams'[l] = streams[l]
      BY <1>9, <2>2
    <3>2. PICK d \in streams[l].forks : fork[d].awaited
      BY <3>1 DEF StreamsInv, PausedAwaits
    <3>3. d \in Clients /\ d \notin streams[k].forks
      BY <1>2, <2>2, <3>1, <3>2, Streaming
    <3> QED
      BY <1>4, <3>1, <3>2, <3>3
  <2> QED
    BY <2>1, <2>2
<1> QED
  BY <1>11, <1>12, <1>13, <1>14, <1>15 DEF StreamsInv

\* What is read moves from the fork to the client; the stream resumes if no
\* other fork is waited for.
LEMMA ReadInv == ASSUME StreamsInv, NEW c \in Clients, Read(c) PROVE StreamsInv'
<1>1. PICK k \in Keys : k = fork[c].key
  BY Present DEF Read
<1>2. /\ fork[c] # Nowhere /\ fork[c].queue # <<>>
      /\ fork' = [fork EXCEPT ![c].queue = Tail(@), ![c].seen = Append(@, Head(fork[c].queue)),
                              ![c].awaited = @ /\ Len(fork[c].queue) > 1]
      /\ streams' = [streams EXCEPT ![k].paused = Resumed(k, streams[k].forks)]
      /\ UNCHANGED <<discovered, received, pushing, sent>>
  BY <1>1 DEF Read
<1>3. /\ fork[c] \in ForkRecords
      /\ fork[c].queue \in Seq(Nat) /\ fork[c].seen \in Seq(Nat)
      /\ streams[k] \in StreamRecords /\ streams[k] # Nowhere /\ sent[k] \in Nat
      /\ streams[k].buffer \in Seq(Nat)
  BY <1>1, <1>2, Present
<1>4. /\ Tail(fork[c].queue) \in Seq(Nat)
      /\ Append(fork[c].seen, Head(fork[c].queue)) \in Seq(Nat)
      /\ Len(fork[c].queue) > 1 => Tail(fork[c].queue) # <<>>
  <2> DEFINE q == fork[c].queue
  <2> HIDE DEF q
  <2>1. q \in Seq(Nat) /\ q # <<>>
    BY <1>2, <1>3 DEF q
  <2>2. /\ Head(q) \in Nat /\ Tail(q) \in Seq(Nat) /\ Len(Tail(q)) = Len(q) - 1
        /\ Len(q) \in Nat
    BY <2>1
  <2>3. Len(q) > 1 => Tail(q) # <<>>
    <3>1. Len(<<>>) = 0
      OBVIOUS
    <3>2. Len(q) > 1 => Len(Tail(q)) # 0
      BY <2>2
    <3> QED
      BY <3>1, <3>2
  <2> QED
    BY <1>3, <2>2, <2>3 DEF q
<1>5. /\ fork'[c] \in ForkRecords /\ fork'[c].key = k
      /\ fork'[c].queue = Tail(fork[c].queue)
      /\ fork'[c].seen = Append(fork[c].seen, Head(fork[c].queue))
      /\ fork'[c].awaited <=> (fork[c].awaited /\ Len(fork[c].queue) > 1)
      /\ \A d \in Clients : d # c => fork'[d] = fork[d]
      /\ fork' \in [Clients -> ForkRecords \cup {Nowhere}]
  <2>1. (fork[c].awaited /\ Len(fork[c].queue) > 1) \in BOOLEAN
    OBVIOUS
  <2> QED
    BY <1>1, <1>2, <1>3, <1>4, <2>1 DEF StreamsInv, StreamsShaped, ForkRecords
<1>6. fork'[c] # Nowhere
  BY <1>5, StreamsAssumption DEF ForkRecords
<1>7. /\ streams'[k].paused = Resumed(k, streams[k].forks)
      /\ streams'[k].forks = streams[k].forks /\ streams'[k].buffer = streams[k].buffer
      /\ streams'[k] \in StreamRecords
      /\ \A l \in Keys : l # k => streams'[l] = streams[l]
      /\ streams' \in [Keys -> StreamRecords \cup {Nowhere}]
  <2>1. Resumed(k, streams[k].forks) \in BOOLEAN
    BY DEF Resumed
  <2> QED
    BY <1>2, <1>3, <2>1 DEF StreamsInv, StreamsShaped, StreamRecords
<1>8. streams'[k] # Nowhere
  BY <1>7, StreamsAssumption DEF StreamRecords
<1>9. StreamsShaped'
  BY <1>2, <1>5, <1>7 DEF StreamsInv, StreamsShaped
<1>10. StreamsTyped'
  <2>1. \A l \in Keys : /\ streams'[l].forks = streams[l].forks
                        /\ streams'[l] = Nowhere <=> streams[l] = Nowhere
    BY <1>3, <1>7, <1>8
  <2>2. \A d \in Clients : fork[d] # Nowhere => fork[d].key \in Keys
    BY Present DEF StreamsInv
  <2>3. \A d \in Clients : /\ fork'[d] = Nowhere <=> fork[d] = Nowhere
                           /\ fork[d] # Nowhere => fork'[d].key = fork[d].key
    BY <1>1, <1>2, <1>5, <1>6
  <2>4. \A l \in Keys : streams'[l] # Nowhere =>
           /\ streams'[l].forks = {d \in Clients : fork'[d] # Nowhere /\ fork'[d].key = l}
           /\ streams'[l].forks # {}
    BY <2>1, <2>3 DEF StreamsInv, StreamsTyped
  <2>5. \A d \in Clients : fork'[d] # Nowhere => streams'[fork'[d].key] # Nowhere
    BY <2>1, <2>2, <2>3 DEF StreamsInv, StreamsTyped
  <2> QED
    BY <1>2, <2>4, <2>5 DEF StreamsInv, StreamsTyped
<1>11. NoGaps'
  <2> SUFFICES ASSUME NEW d \in Clients, fork'[d] # Nowhere
               PROVE  EndsWith(EventsOf(fork'[d], streams'[fork'[d].key]), sent[fork'[d].key])
    BY <1>2, ZenonT(60) DEF NoGaps, EndsWith, EventsOf
  <2>1. fork[d] # Nowhere /\ EndsWith(EventsOf(fork[d], streams[fork[d].key]), sent[fork[d].key])
    BY <1>2, <1>5, GaplessEnds DEF StreamsInv
  <2>2. CASE d = c
    <3>1. EndsWith(fork[c].seen \o fork[c].queue \o streams[k].buffer, sent[k])
      BY <1>1, <2>1, <2>2 DEF EventsOf
    <3>2. EndsWith(Append(fork[c].seen, Head(fork[c].queue)) \o Tail(fork[c].queue)
                     \o streams[k].buffer, sent[k])
      BY <1>2, <1>3, <3>1, ReadOn
    <3> QED
      BY <1>5, <1>7, <2>2, <3>2 DEF EventsOf
  <2>3. CASE d # c
    <3>1. fork'[d] = fork[d] /\ fork[d].key \in Keys
      BY <1>5, <2>1, <2>3, Present
    <3>2. streams'[fork[d].key].buffer = streams[fork[d].key].buffer
      BY <1>7, <3>1
    <3> QED
      BY <2>1, <3>1, <3>2 DEF EventsOf
  <2> QED
    BY <2>2, <2>3
<1>12. AwaitedUnread'
  BY <1>4, <1>5 DEF StreamsInv, AwaitedUnread
<1>13. PausedAwaits'
  <2> SUFFICES ASSUME NEW l \in Keys, streams'[l] # Nowhere, streams'[l].paused
               PROVE  \E d \in streams'[l].forks : fork'[d].awaited
    BY DEF PausedAwaits
  <2>1. CASE l = k
    BY <1>7, <2>1 DEF Resumed
  <2>2. CASE l # k
    <3>1. streams'[l] = streams[l]
      BY <1>7, <2>2
    <3>2. PICK d \in streams[l].forks : fork[d].awaited
      BY <3>1 DEF StreamsInv, PausedAwaits
    <3>3. d \in Clients /\ d # c
      BY <1>1, <2>2, <3>1, <3>2, Streaming
    <3> QED
      BY <1>5, <3>1, <3>2, <3>3
  <2> QED
    BY <2>1, <2>2
<1> QED
  BY <1>9, <1>10, <1>11, <1>12, <1>13 DEF StreamsInv

\* Who leaves is not waited for any more, and the last one takes the stream.
LEMMA LeaveInv == ASSUME StreamsInv, NEW c \in Clients, Leave(c) PROVE StreamsInv'
<1>1. PICK k \in Keys : k = fork[c].key
  BY Present DEF Leave
<1> DEFINE rest == streams[k].forks \ {c}
<1>2. /\ fork[c] # Nowhere /\ fork' = [fork EXCEPT ![c] = Nowhere]
      /\ UNCHANGED <<discovered, received, pushing, sent>>
      /\ rest = {} => streams' = [streams EXCEPT ![k] = Nowhere]
      /\ rest # {} => streams' = [streams EXCEPT ![k].forks = rest,
                          ![k].paused = @ /\ \E d \in rest : fork[d].awaited]
  BY <1>1 DEF Leave
<1>3. /\ fork'[c] = Nowhere /\ \A d \in Clients : d # c => fork'[d] = fork[d]
      /\ fork' \in [Clients -> ForkRecords \cup {Nowhere}]
  BY <1>2 DEF StreamsInv, StreamsShaped
<1>4. /\ streams[k] \in StreamRecords /\ streams[k] # Nowhere
      /\ rest \subseteq Clients /\ c \in streams[k].forks
      /\ streams[k].forks = {d \in Clients : fork[d] # Nowhere /\ fork[d].key = k}
  BY <1>1, <1>2, Present, Streaming
<1> HIDE DEF rest
<1>5. /\ streams' \in [Keys -> StreamRecords \cup {Nowhere}]
      /\ \A l \in Keys : l # k => streams'[l] = streams[l]
      /\ rest = {} => streams'[k] = Nowhere
      /\ rest # {} => /\ streams'[k] \in StreamRecords
                      /\ streams'[k].forks = rest /\ streams'[k].buffer = streams[k].buffer
                      /\ streams'[k].paused => \E d \in rest : fork[d].awaited
  <2>1. CASE rest = {}
    BY <1>2, <2>1 DEF StreamsInv, StreamsShaped
  <2>2. CASE rest # {}
    <3>1. PICK b \in BOOLEAN : b = (streams[k].paused /\ \E d \in rest : fork[d].awaited)
      OBVIOUS
    <3>2. streams' = [streams EXCEPT ![k].forks = rest, ![k].paused = b]
      BY <1>2, <2>2, <3>1
    <3> QED
      BY <1>4, <2>2, <3>1, <3>2 DEF StreamsInv, StreamsShaped, StreamRecords
  <2> QED
    BY <2>1, <2>2
<1>6. rest # {} => streams'[k] # Nowhere
  BY <1>5, StreamsAssumption DEF StreamRecords
<1>7. StreamsShaped'
  BY <1>2, <1>3, <1>5 DEF StreamsInv, StreamsShaped
<1>8. StreamsTyped'
  <2>1. \A l \in Keys : streams'[l] # Nowhere =>
           /\ streams'[l].forks = {d \in Clients : fork'[d] # Nowhere /\ fork'[d].key = l}
           /\ streams'[l].forks # {}
    <3> SUFFICES ASSUME NEW l \in Keys, streams'[l] # Nowhere
                 PROVE  /\ streams'[l].forks = {d \in Clients : fork'[d] # Nowhere /\ fork'[d].key = l}
                        /\ streams'[l].forks # {}
      OBVIOUS
    <3>1. CASE l # k
      BY <1>1, <1>3, <1>5, <3>1, Streaming
    <3>2. CASE l = k
      BY <1>3, <1>4, <1>5, <3>2 DEF rest
    <3> QED
      BY <3>1, <3>2
  <2>2. \A d \in Clients : fork'[d] # Nowhere => streams'[fork'[d].key] # Nowhere
    <3> SUFFICES ASSUME NEW d \in Clients, fork'[d] # Nowhere
                 PROVE  streams'[fork'[d].key] # Nowhere
      OBVIOUS
    <3>1. d # c /\ fork'[d] = fork[d]
      BY <1>3
    <3>2. fork[d].key \in Keys /\ streams[fork[d].key] # Nowhere
      BY <3>1, Present
    <3>3. CASE fork[d].key = k
      BY <1>4, <1>6, <3>1, <3>3 DEF rest
    <3> QED
      BY <1>5, <3>1, <3>2, <3>3
  <2> QED
    BY <1>2, <2>1, <2>2 DEF StreamsTyped, StreamsInv
<1>9. NoGaps'
  <2> SUFFICES ASSUME NEW d \in Clients, fork'[d] # Nowhere
               PROVE  EndsWith(EventsOf(fork'[d], streams'[fork'[d].key]), sent[fork'[d].key])
    BY <1>2, ZenonT(60) DEF NoGaps, EndsWith, EventsOf
  <2>1. d # c /\ fork'[d] = fork[d] /\ fork[d].key \in Keys
    BY <1>3, Present
  <2>2. EndsWith(EventsOf(fork[d], streams[fork[d].key]), sent[fork[d].key])
    BY <2>1, GaplessEnds DEF StreamsInv
  <2>3. streams'[fork[d].key].buffer = streams[fork[d].key].buffer
    <3>1. CASE fork[d].key = k
      <4>1. rest # {}
        BY <1>4, <2>1, <3>1 DEF rest
      <4> QED
        BY <1>5, <3>1, <4>1
    <3> QED
      BY <1>5, <2>1, <3>1
  <2> QED
    BY <2>1, <2>2, <2>3 DEF EventsOf
<1>10. AwaitedUnread'
  BY <1>3 DEF StreamsInv, AwaitedUnread
<1>11. PausedAwaits'
  <2> SUFFICES ASSUME NEW l \in Keys, streams'[l] # Nowhere, streams'[l].paused
               PROVE  \E d \in streams'[l].forks : fork'[d].awaited
    BY DEF PausedAwaits
  <2>1. CASE l = k
    <3>1. PICK d \in rest : fork[d].awaited
      BY <1>5, <2>1
    <3>2. d # c /\ d \in Clients /\ d \in streams'[l].forks
      BY <1>4, <1>5, <2>1, <3>1 DEF rest
    <3> QED
      BY <1>3, <3>1, <3>2
  <2>2. CASE l # k
    <3>1. streams'[l] = streams[l]
      BY <1>5, <2>2
    <3>2. PICK d \in streams[l].forks : fork[d].awaited
      BY <3>1 DEF StreamsInv, PausedAwaits
    <3>3. d \in Clients /\ d # c
      BY <1>1, <2>2, <3>1, <3>2, Streaming
    <3> QED
      BY <1>3, <3>1, <3>2, <3>3
  <2> QED
    BY <2>1, <2>2
<1> QED
  BY <1>7, <1>8, <1>9, <1>10, <1>11 DEF StreamsInv

\* Every step keeps the invariant.
LEMMA StreamsNextInv == StreamsInv /\ [StreamsNext]_streamVars => StreamsInv'
<1> SUFFICES ASSUME StreamsInv, [StreamsNext]_streamVars PROVE StreamsInv'
  OBVIOUS
<1>1. CASE Open
  BY <1>1, ReceivedInv DEF Open, StreamsInv, StreamsShaped, StreamsTyped
<1>2. CASE Receive
  <2>1. received' \in 0..MaxEvents /\ UNCHANGED <<discovered, sent, streams, fork>>
    BY <1>2, StreamsAssumption DEF Receive, StreamsInv, StreamsTyped
  <2>2. PICK keys \in {<<k>> : k \in Keys} \cup {<<k, l>> : k, l \in Keys} :
           pushing' = IF discovered THEN pushing \o keys ELSE pushing
    BY <1>2 DEF Receive
  <2>3. keys \in Seq(Keys)
    <3>1. CASE \E k \in Keys : keys = <<k>>
      BY <3>1
    <3>2. CASE \E k, l \in Keys : keys = <<k, l>>
      BY <3>2
    <3> QED
      BY <3>1, <3>2
  <2>4. pushing' \in Seq(Keys)
    BY <2>2, <2>3 DEF StreamsInv, StreamsShaped
  <2> QED
    BY <2>1, <2>4, ReceivedInv DEF StreamsInv, StreamsShaped
<1>3. CASE Push
  BY <1>3, PushInv
<1>4. ASSUME NEW k \in Keys, Flow(k) PROVE StreamsInv'
  BY <1>4, FlowInv
<1>5. ASSUME NEW k \in Keys, NEW c \in Clients, Create(c, k) PROVE StreamsInv'
  BY <1>5, CreateInv
<1>6. ASSUME NEW c \in Clients, Read(c) \/ Leave(c) PROVE StreamsInv'
  BY <1>6, ReadInv, LeaveInv
<1>7. CASE UNCHANGED streamVars
  BY <1>7, ReceivedInv DEF streamVars, StreamsInv, StreamsShaped, StreamsTyped
<1> QED
  BY <1>1, <1>2, <1>3, <1>4, <1>5, <1>6, <1>7 DEF StreamsNext

\* What is awaited is unread, so a pause is for a client that can end it.
LEMMA StreamsInvWhole == StreamsInv => StreamsWhole
<1> SUFFICES ASSUME StreamsInv PROVE PausedForSomeone
  BY DEF StreamsInv, StreamsWhole
<1> SUFFICES ASSUME NEW k \in Keys, streams[k] # Nowhere, streams[k].paused
             PROVE  \E c \in streams[k].forks : fork[c].awaited /\ fork[c].queue # <<>>
  BY DEF PausedForSomeone
<1>1. PICK c \in streams[k].forks : fork[c].awaited
  BY DEF StreamsInv, PausedAwaits
<1>2. c \in Clients /\ fork[c] # Nowhere
  BY <1>1, Streaming
<1> QED
  BY <1>1, <1>2 DEF StreamsInv, AwaitedUnread

\* Streams and forks keep the invariant (Realtime.ts, Stream.ts).
THEOREM StreamsInvariance == StreamsSpec => []StreamsInv
  BY StreamsInitInv, StreamsNextInv, PTL DEF StreamsSpec

\* Whatever clients come, read, and leave, none misses an event pushed while it
\* listens, and a stream pauses only for one that has something to read.
THEOREM Unbroken == StreamsSpec => []StreamsWhole
  BY StreamsInvariance, StreamsInvWhole, PTL
=============================================================================
