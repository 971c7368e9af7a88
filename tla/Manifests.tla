------------------------------ MODULE Manifests ------------------------------
(***************************************************************************)
(* Operations of a component and of its prototypes: the manifests' loading *)
(* (norm), where each prototype's is collapsed into that of what extends   *)
(* it and forwarding is resolved, and the algorithms that an operation is  *)
(* booted with (boot cascade).  Only what decides about the algorithm that *)
(* runs is kept of an operation: whether a file of the component's         *)
(* directory implements it, what it forwards to, whether it is virtual.    *)
(***************************************************************************)
EXTENDS Naturals, SequencesExt, FiniteSetsExt

CONSTANTS Hierarchies,  \* the component first, then its prototypes
          None

(* declared[k] is what the k-th directory says of its own operations. *)
VARIABLES declared, stage, manifest, booted

vars == <<declared, stage, manifest, booted>>

Init == /\ declared \in Hierarchies /\ stage = "load" /\ manifest = None /\ booted = None

Blank == [bridge |-> FALSE, forward |-> None, virtual |-> FALSE]
Names(operations) == DOMAIN operations

----------------------------------------------------------------------------
(* norm *)

(* generic merge: what one lacks is taken from the other, and two different *)
(* values are a conflict.                                                   *)
Either(a, b) == IF a = None THEN b ELSE a
Conflict(a, b) == None \notin {a, b} /\ a # b

(* collapse: the prototype's operations without their bridges, which stay   *)
(* with it; one that the component has as well is no longer virtual.        *)
Collapse(operations, prototype) ==
    [e \in Names(operations) \cup Names(prototype) |->
        IF e \notin Names(prototype) THEN operations[e]
        ELSE LET known == e \in Names(operations)
                 own == IF known THEN operations[e] ELSE Blank
             IN  [bridge |-> own.bridge,
                  forward |-> Either(own.forward, prototype[e].forward),
                  virtual |-> own.virtual \/ (~known /\ prototype[e].virtual)]]
Conflicting(operations, prototype) ==
    \E e \in Names(operations) \cap Names(prototype) :
        Conflict(operations[e].forward, prototype[e].forward)

(* dereference: an operation takes over what it forwards to, through those   *)
(* that forward themselves.  A path that does not end exhausts the stack.    *)
Step(operations, e) == IF operations[e].forward = None THEN {} ELSE {operations[e].forward}
RECURSIVE Forwarded(_, _, _)
Forwarded(operations, e, n) ==
    {e} \cup IF n = 0 THEN {}
             ELSE UNION {Forwarded(operations, t, n - 1) : t \in Step(operations, e) \cap Names(operations)}
Path(operations, e) == Forwarded(operations, e, Cardinality(Names(operations)))
Unresolved(operations) ==
    \E e \in Names(operations) :
        \/ ~(Step(operations, e) \subseteq Names(operations))
        \/ \A t \in Path(operations, e) : operations[t].forward # None
Target(operations, e) == CHOOSE t \in Path(operations, e) : operations[t].forward = None

Dereference(operations) ==
    [e \in Names(operations) |->
        IF operations[e].forward = None THEN operations[e]
        ELSE [bridge |-> \E t \in Path(operations, e) : operations[t].bridge,
              forward |-> Target(operations, e),
              virtual |-> operations[e].virtual]]

(* load: [operations, prototypes], the latter being the names of the bridged *)
(* operations of each prototype, or None for a prototype without any.        *)
Bridged(operations) == {e \in Names(operations) : operations[e].bridge}

RECURSIVE Load(_)
Load(k) ==
    IF k = Len(declared)
    THEN IF Unresolved(declared[k]) THEN None
         ELSE [operations |-> Dereference(declared[k]), prototypes |-> <<>>]
    ELSE LET prototype == Load(k + 1) IN
         IF prototype = None THEN None
         ELSE IF Conflicting(declared[k], prototype.operations) THEN None
         ELSE LET operations == Collapse(declared[k], prototype.operations) IN
              IF Unresolved(operations) THEN None
              ELSE [operations |-> Dereference(operations),
                    prototypes |-> <<IF Bridged(prototype.operations) = {} THEN None
                                     ELSE Bridged(prototype.operations)>>
                                   \o prototype.prototypes]

(* normalize: what is virtual still is not there. *)
Normalize(loaded) ==
    [loaded EXCEPT !.operations = Restrict(@, {e \in DOMAIN @ : ~@[e].virtual})]

LoadComponent ==
    /\ stage = "load"
    /\ LET loaded == Load(1) IN
       IF loaded = None
       THEN stage' = "failed" /\ UNCHANGED manifest
       ELSE stage' = "loaded" /\ manifest' = Normalize(loaded)
    /\ UNCHANGED <<declared, booted>>

----------------------------------------------------------------------------
(* boot *)

(* An algorithm is a file of the k-th directory; the component's own is      *)
(* level 1.                                                                  *)
Endpoint(e) == Either(manifest.operations[e].forward, e)
Levels(e) ==
    (IF manifest.operations[e].bridge THEN {1} ELSE {})
        \cup {k + 1 : k \in {k \in DOMAIN manifest.prototypes : Endpoint(e) \in manifest.prototypes[k]}}
HasFile(k, e) == e \in Names(declared[k]) /\ declared[k][e].bridge

(* Each of them is loaded, the last one of the array runs: the component's   *)
(* own or that of the nearest prototype.  Without any, the call throws.      *)
Nearest(e) == IF Levels(e) = {} THEN None ELSE <<Min(Levels(e)), Endpoint(e)>>

(* A prototype without bridged operations has none to look the name up in.   *)
Throws == \/ Names(manifest.operations) # {} /\ Contains(manifest.prototypes, None)
          \/ \E e \in Names(manifest.operations) : \E k \in Levels(e) : ~HasFile(k, Endpoint(e))

Boot ==
    /\ stage = "loaded"
    /\ IF Throws THEN stage' = "failed" /\ UNCHANGED booted
       ELSE stage' = "booted" /\ booted' = [e \in Names(manifest.operations) |-> Nearest(e)]
    /\ UNCHANGED <<declared, manifest>>

Next == LoadComponent \/ Boot
Spec == Init /\ [][Next]_vars

----------------------------------------------------------------------------
(* Properties *)

(* What a hierarchy means: an operation is what the nearest directory says  *)
(* that implements it, by a file or by forwarding, and what is forwarded to *)
(* is looked up from the component again.                                    *)
Says(k, e) == e \in Names(declared[k]) /\ (declared[k][e].bridge \/ declared[k][e].forward # None)
Saying(e) == {k \in DOMAIN declared : Says(k, e)}
RECURSIVE Meaning(_, _)
Meaning(e, n) ==
    IF Saying(e) = {} \/ n = 0 THEN None
    ELSE LET k == Min(Saying(e)) IN
         IF declared[k][e].forward = None THEN <<k, e>> ELSE Meaning(declared[k][e].forward, n - 1)

(* A file in place of what a prototype forwards. *)
Replaces(e) == \E k \in DOMAIN declared :
    /\ e \in Names(declared[k]) /\ declared[k][e].bridge
    /\ \E j \in (k + 1)..Len(declared) : e \in Names(declared[j]) /\ declared[j][e].forward # None
Replaced == \E k \in DOMAIN declared : \E e \in Names(declared[k]) : Replaces(e)

(* Each operation runs the algorithm of the nearest directory that           *)
(* implements it, through any forwarding and any number of prototypes.       *)
(* Excepted is a file in place of what a prototype forwards: the manifest    *)
(* keeps the prototype's `forward`, after which the file is not used.        *)
Dispatched ==
    stage = "booted" /\ ~Replaced => \A e \in DOMAIN booted : booted[e] = Meaning(e, 4)

(* An operation is there unless it is virtual wherever it is declared, and   *)
(* what a component declares, or redeclares, itself is there.                *)
Provided ==
    stage \in {"loaded", "booted"} =>
        \A k \in DOMAIN declared : \A e \in Names(declared[k]) :
            e \in Names(manifest.operations) <=>
                LET virtual(j) == declared[j][e].virtual
                    known == {j \in DOMAIN declared : e \in Names(declared[j])}
                IN  ~virtual(Min(known)) 

(* A component whose manifest has been loaded boots, except for a file in    *)
(* place of what is forwarded and a prototype that implements nothing.       *)
Boots == stage = "failed" /\ manifest # None =>
    Replaced \/ \E k \in 2..Len(declared) : \A e \in Names(declared[k]) : ~declared[k][e].bridge

(* A component inherits from its prototypes what they implement, and boots  *)
(* with it (norm's collapse.js, boot's cascade.js).                         *)
OperationsInherited == Dispatched /\ Provided /\ Boots
=============================================================================
