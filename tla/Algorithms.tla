------------------------------ MODULE Algorithms ------------------------------
(***************************************************************************)
(* Algorithms of operations: what the bridges make of a file (what the     *)
(* first function that it exports says of the operation's type, scope and  *)
(* arguments), what the manifest adds, and a request from the operation's  *)
(* contract to the algorithm and back to the caller (bridges.node,         *)
(* bridges.bash, boot operation and bridge, core operation and its types). *)
(* What commits do to records is EntityState.                              *)
(***************************************************************************)
EXTENDS SequencesExt

(* A file is [bridge, exports, declared, entity]: exports are [node, name,  *)
(* type, prefix, params], in their order.  `node` is what is exported, the  *)
(* type and prefix are those in its name, params those of the function or   *)
(* of the class' execute, None if it has none.                              *)
CONSTANTS Files, Requests, Outcomes, Local, None

VARIABLES file, stage, definition, request, given, reply

vars == <<file, stage, definition, request, given, reply>>

ScopeNames == {"object", "objects", "changeset", "stream"}

Init == /\ file \in Files /\ stage = "file" /\ definition = None
        /\ request = None /\ given = None /\ reply = None

----------------------------------------------------------------------------
(* Definition: the bridge's, the manifest's, and norm's schema *)

IsFunction(x) == x.node \in {"declaration", "arrow"} /\ x.name = "type"
IsClass(x) == x.node = "class" /\ x.name = "Type"
IsFactory(x) == x.node = "class" /\ x.name = "TypeFactory" /\ x.type # "unmanaged"
Conventional(x) == IsFunction(x) \/ (IsClass(x) /\ x.params # None) \/ IsFactory(x)

(* The scope is named by the second parameter. *)
ScopeOf(params) ==
    IF Len(params) < 2 \/ params[2] = "context" THEN "none"
    ELSE IF params[2] \in ScopeNames THEN params[2] ELSE None

Functions == SelectSeq(file.exports, LAMBDA x : x.node # "value")
Entry == IF file.bridge = "bash" \/ Functions = <<>> THEN None ELSE Head(Functions)

Defined ==
    IF file.bridge = "bash" THEN [type |-> "computation", scope |-> None]
    ELSE IF Entry = None THEN [type |-> None, scope |-> None]
    ELSE [type |-> Entry.type,
          scope |-> IF IsFactory(Entry) THEN Entry.prefix ELSE ScopeOf(Entry.params)]

Either(a, b) == IF a = None THEN b ELSE a
Merged == [f \in {"type", "scope"} |-> Either(file.declared[f], Defined[f])]
Conflicts == \E f \in {"type", "scope"} :
    None \notin {file.declared[f], Defined[f]} /\ file.declared[f] # Defined[f]

Completed(d) ==
    IF d.scope = None /\ d.type \in {"computation", "unmanaged", "effect"}
    THEN [d EXCEPT !.scope = "none"] ELSE d
Permitted(type) ==
    CASE type = "transition" -> {"object"}
      [] type = "observation" -> {"object", "objects", "stream", "none"}
      [] type = "assignment" -> {"changeset"}
      [] type \in {"computation", "unmanaged"} -> {"none"}
      [] type = "effect" -> {"object", "objects", "stream", "none"}
      [] OTHER -> {}

(* A file that exports no function is no operation, unless the manifest has *)
(* it, which is then one without an algorithm.                              *)
NoAlgorithm == Entry = None /\ file.bridge = "node"
Declare ==
    /\ stage = "file"
    /\ LET d == Completed(Merged)
           wrong == \/ Entry # None /\ ~Conventional(Entry)
                    \/ Conflicts
                    \/ d.scope \notin Permitted(d.type)
       IN  /\ stage' = IF NoAlgorithm /\ file.declared = [type |-> None, scope |-> None]
                       THEN "absent"
                       ELSE IF wrong THEN "refused" ELSE "declared"
           /\ definition' = IF stage' = "declared" THEN d ELSE None
    /\ UNCHANGED <<file, request, given, reply>>

(* The algorithm is created, given the context, and connected. *)
Mount == stage = "declared" /\ stage' = "mounted"
         /\ UNCHANGED <<file, definition, request, given, reply>>

----------------------------------------------------------------------------
(* A request *)

Exception(e) == [is |-> "exception", of |-> e]
Answer(r) == stage' = "answered" /\ reply' = r

(* Only what has not been checked by the caller is; a query of a component  *)
(* without an entity, or an entity for one, has nobody to understand it.    *)
Invoke ==
    /\ stage = "mounted"
    /\ request' \in Requests
    /\ LET r == request' IN
       IF (~r.authentic /\ ~r.fits) \/ (~file.entity /\ (r.query # None \/ r.entity))
       THEN Answer(Exception("request"))
       ELSE stage' = "invoked" /\ UNCHANGED reply
    /\ UNCHANGED <<file, definition, given>>

(* acquire: what the algorithm's state is, or what happens instead.  Only a *)
(* transition starts from a new record without a query, and only it and an  *)
(* effect that ensures its record tell what they found.                     *)
State(of) == [is |-> "state", of |-> of]
NoState == [is |-> "nothing", of |-> None]
Found(scope) ==
    IF scope # "object" \/ request.query = "found" THEN State(scope) ELSE NoState
Acquired ==
    CASE ~file.entity /\ definition.type \in {"transition", "assignment", "unmanaged"} ->
             Exception("system")
      [] definition.type = "unmanaged" -> State("raw")
      [] definition.type = "transition" ->
             IF request.query = "missing" THEN Exception("not found") ELSE State("object")
      [] definition.type = "assignment" -> State("changeset")
      [] definition.type = "effect" /\ request.entity -> State("object")
      [] definition.scope = "none" -> State(None)
      [] request.query = None -> Exception("request")
      [] OTHER -> Found(definition.scope)

ArgumentsAll(state) ==   \* faulty: the state's place is kept
    IF file.bridge = "node" /\ IsFunction(Entry) THEN <<"input", state, "context">> ELSE <<"input", state>>

(* A function gets the state if there is any, and the context after it;     *)
(* an instance gets the input and the state.                                *)
Arguments(state) ==
    IF file.bridge = "bash" THEN <<"input">>
    ELSE IF NoAlgorithm \/ ~IsFunction(Entry) THEN <<"input", state>>
    ELSE IF state = None THEN <<"input", "context">> ELSE <<"input", state, "context">>

(* An observation of what is not there is answered without the algorithm. *)
Acquire ==
    /\ stage = "invoked"
    /\ IF Acquired.is = "state"
       THEN given' = Arguments(Acquired.of) /\ stage' = "running" /\ UNCHANGED reply
       ELSE Answer(Acquired) /\ UNCHANGED given
    /\ UNCHANGED <<file, definition, request>>

(* What the algorithm returned, as a reply: an Error is an error, what can  *)
(* be iterated is a stream; of a script the exit code decides.              *)
Replied(outcome) ==
    CASE outcome.is = "throws" \/ NoAlgorithm -> Exception("system")
      [] file.bridge = "bash" -> [is |-> "output", of |-> outcome.is]
      [] outcome.is \in {"readable", "generator"} -> [is |-> "stream", of |-> outcome.is]
      [] outcome.is = "error" -> [is |-> "error", of |-> "error"]
      [] OTHER -> [is |-> "output", of |-> outcome.is]

Commits(r) == definition.type \in {"transition", "assignment"} /\ r.is \notin {"exception", "error"}

(* An assignment without an output answers the new state. *)
Committed(r) ==
    IF definition.type = "assignment" /\ r = [is |-> "output", of |-> "undefined"]
    THEN [r EXCEPT !.of = "state"] ELSE r

Execute ==
    /\ stage = "running"
    /\ \E outcome \in Outcomes :
        LET r == Replied(outcome)
            unfit == Local /\ ~outcome.fits /\ r.is \notin {"stream", "exception"}
        IN  Answer(IF unfit THEN Exception("reply") ELSE IF Commits(r) THEN Committed(r) ELSE r)
    /\ UNCHANGED <<file, definition, request, given>>

Again == /\ stage = "answered" /\ stage' = "mounted"
         /\ request' = None /\ given' = None /\ reply' = None
         /\ UNCHANGED <<file, definition>>

Next == Declare \/ Mount \/ Invoke \/ Acquire \/ Execute \/ Again
Spec == Init /\ [][Next]_vars

----------------------------------------------------------------------------
(* Properties *)

(* What a parameter asks for by its name; that of an instance's method gets *)
(* no context, which is mounted.                                            *)
Honoured(i) ==
    LET name == Entry.params[i] IN
    /\ name \in ScopeNames => i <= Len(given) /\ given[i] = name
    /\ name = "context" /\ IsFunction(Entry) => i <= Len(given) /\ given[i] = "context"

(* An algorithm gets what its parameters ask for, whichever way it is       *)
(* written: the scope and the context in the place they are named.  Not so  *)
(* an unmanaged one that takes no collection, an effect of another scope    *)
(* whose request has an entity, and what follows a parameter that names no  *)
(* scope where there is none.                                               *)
Overridden ==
    \/ definition.type = "unmanaged" /\ ScopeOf(Entry.params) = "none"
    \/ request.entity /\ definition.type = "effect" /\ definition.scope # "object"
    \/ ScopeOf(Entry.params) = None /\ definition.scope = "none"
SignatureHonoured ==
    given # None /\ Entry # None /\ ~IsFactory(Entry) /\ ~Overridden =>
        \A i \in DOMAIN Entry.params : Honoured(i)

(* The algorithm works at the scope of the operation's type: only           *)
(* transitions and assignments get what is written after them.              *)
ScopeOfType ==
    given # None /\ Len(given) > 1 /\ given[2] \in ScopeNames =>
        \/ given[2] \in Permitted(definition.type)
        \/ definition.type = "effect" /\ request.entity

(* The type that a file tells is the one that is run, however the manifest  *)
(* extends it.                                                              *)
TypeTold == definition # None /\ Entry # None => definition.type = Entry.type

(* A caller learns of an error, and of an exception, as such; what failed   *)
(* is not committed.                                                        *)
OutcomesTold ==
    stage = "answered" /\ given # None /\ file.bridge = "node" =>
        \/ reply.is = "exception"
        \/ reply.is = "error" /\ reply.of = "error" /\ ~Commits(reply)
        \/ reply.is = "stream" /\ reply.of \in {"readable", "generator"}
        \/ reply.is = "output" /\ reply.of \notin {"error", "readable", "generator"}

(* Without a query nothing is read: whoever needs one is refused. *)
QueryNeeded ==
    given # None /\ request.query = None /\ ~request.entity =>
        definition.scope = "none" \/ definition.type \in {"transition", "assignment"}

(* Operations run as their files and manifests say (bridges, core). *)
AlgorithmsRun == /\ SignatureHonoured /\ ScopeOfType /\ TypeTold /\ OutcomesTold /\ QueryNeeded
=============================================================================
