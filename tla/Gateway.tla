------------------------------ MODULE Gateway ------------------------------
(***************************************************************************)
(* Resource discovery of the exposition: compositions ("pods") expose the  *)
(* branches of their components, the gateway merges them into its tree,    *)
(* opens a remote per version of a component, and serves requests while    *)
(* branches keep arriving.                                                 *)
(*                                                                         *)
(* The broker (external) drops what is sent to nobody: a message of the    *)
(* exposition channel is neither persistent nor kept for long.  A ping     *)
(* reaches one of the tenants of a component, which share a queue.         *)
(*                                                                         *)
(* The tree is known by what is asked of it; Resources says how it is made *)
(* and matched.                                                            *)
(***************************************************************************)
EXTENDS Naturals, Sequences

CONSTANTS Pods, ComponentOf, VersionOf,  \* what each composition runs
          Faulty,                        \* the ids whose createNode throws
          Paths, Verbs, Requests,        \* what clients ask for
          Together,                      \* may tenants start amid discovery?
          MaxRestarts,                   \* bound: restarts of the gateway
          Trees, Trunk,                  \* trees, and that of the annotation alone
          Joined(_, _),                  \* a tree that a branch is merged into
          Closes(_, _),                  \* the remotes whose endpoints that replaces
          Reaches(_),                    \* the remotes that a tree's routes lead to
          Found(_, _, _)                 \* what a tree has at a path for a verb

Id(pod) == <<ComponentOf[pod], VersionOf[pod]>>
Ids == {Id(pod) : pod \in Pods}
Components == {ComponentOf[pod] : pod \in Pods}

(* A branch replaces what the versions of its component have in the tree,   *)
(* and nothing else: components have nodes of their own, which the          *)
(* annotation does not declare.                                             *)
ASSUME GatewayAssumption ==
    /\ VersionOf \in [Pods -> Nat \ {0}]
    /\ Trunk \in Trees /\ Reaches(Trunk) = {}
    /\ \A t \in Trees : \A id \in Ids \ Faulty :
        /\ Joined(t, id) \in Trees
        /\ Reaches(Joined(t, id)) = {x \in Reaches(t) : x[1] # id[1]} \cup {id}
        /\ Closes(t, id) \subseteq {x \in Reaches(t) : x[1] = id[1]}
    /\ \A t \in Trees : \A path \in Paths, verb \in Verbs :
        Found(t, path, verb) \in [phase : {"NotFound", "MethodNotAllowed"}]
                                 \cup [phase : {"matched"}, remote : Reaches(t)]

VARIABLES tenant,    \* pod -> down, exposed (not yet listening), listening, gone
          gateway,   \* down, bound (receives `expose`), up (has sent `ping`)
          inbox,     \* branches on their way to the gateway
          pinged,    \* tenants that have a ping to answer
          merged,    \* Gateway.merged
          tree,      \* Gateway.tree
          remote,    \* id -> none, opening, open, closed (Remotes.cache)
          closing,   \* remotes an Endpoint.close waits for
          request,   \* request -> what it has come to
          latest,    \* history: component -> version exposed last, or 0
          restarts   \* history: times the gateway started

vars == <<tenant, gateway, inbox, pinged, merged, tree, remote, closing, request,
          latest, restarts>>

NoRequest == [phase |-> "none"]

Init == /\ tenant = [p \in Pods |-> "down"]
        /\ gateway = "down"
        /\ inbox = <<>> /\ pinged = {} /\ merged = {}
        /\ tree = Trunk
        /\ remote = [id \in Ids |-> "none"] /\ closing = {}
        /\ request = [r \in Requests |-> NoRequest]
        /\ latest = [c \in Components |-> 0]
        /\ restarts = 0

----------------------------------------------------------------------------
(* Tenants *)

Transmit(id) == inbox' = IF gateway = "down" THEN inbox ELSE Append(inbox, id)

Running(c) == {VersionOf[p] : p \in {q \in Pods : /\ ComponentOf[q] = c
                                                   /\ tenant[q] \in {"exposed", "listening"}}}

(* Discovery is settled when nothing of it is under way. *)
Settled == /\ gateway # "bound" /\ pinged = {}
           /\ \A p \in Pods : tenant[p] # "exposed"

(* Tenant.open: expose, then listen to pings.  Versions only go up, and a  *)
(* composition starts in its own time; unless Together, a new version of a *)
(* component that runs does so between discoveries.                        *)
Expose(pod) ==
    /\ tenant[pod] = "down"
    /\ VersionOf[pod] >= latest[ComponentOf[pod]]
    /\ Together \/ Settled \/ Running(ComponentOf[pod]) = {}
    /\ tenant' = [tenant EXCEPT ![pod] = "exposed"]
    /\ latest' = [latest EXCEPT ![ComponentOf[pod]] = VersionOf[pod]]
    /\ Transmit(Id(pod))
    /\ UNCHANGED <<gateway, pinged, merged, tree, remote, closing, request, restarts>>

Listen(pod) ==
    /\ tenant[pod] = "exposed"
    /\ tenant' = [tenant EXCEPT ![pod] = "listening"]
    /\ UNCHANGED <<gateway, inbox, pinged, merged, tree, remote, closing, request,
                   latest, restarts>>

(* The callback of Tenant.open, on a ping. *)
Pong(pod) ==
    /\ pod \in pinged
    /\ pinged' = pinged \ {pod}
    /\ Transmit(Id(pod))
    /\ UNCHANGED <<tenant, gateway, merged, tree, remote, closing, request, latest,
                   restarts>>

Stop(pod) ==
    /\ tenant[pod] = "listening" /\ pod \notin pinged
    /\ tenant' = [tenant EXCEPT ![pod] = "gone"]
    /\ UNCHANGED <<gateway, inbox, pinged, merged, tree, remote, closing, request,
                   latest, restarts>>

----------------------------------------------------------------------------
(* The gateway *)

(* A restarted process has the root's tree, no remotes and no requests.    *)
(* Gateway.discover, up to the `await` of broadcast.receive.               *)
Start ==
    /\ gateway = "down" /\ restarts < MaxRestarts
    /\ Together \/ (Settled /\ \A c \in Components : \A v, w \in Running(c) : v = w)
    /\ gateway' = "bound"
    /\ restarts' = restarts + 1
    /\ UNCHANGED <<tenant, inbox, pinged, merged, tree, remote, closing, request, latest>>

(* Gateway.discover: `ping`.  One listening tenant of each group gets it.  *)
Ping ==
    /\ gateway = "bound"
    /\ gateway' = "up"
    /\ \E heard \in SUBSET {p \in Pods : tenant[p] = "listening"} :
         /\ \A p, q \in heard : ComponentOf[p] = ComponentOf[q] => p = q
         /\ \A p \in Pods : tenant[p] = "listening" =>
              \E q \in heard : ComponentOf[q] = ComponentOf[p]
         /\ pinged' = pinged \cup heard
    /\ UNCHANGED <<tenant, inbox, merged, tree, remote, closing, request, latest, restarts>>

Crash ==
    /\ gateway # "down"
    /\ gateway' = "down"
    /\ inbox' = <<>> /\ merged' = {} /\ tree' = Trunk
    /\ remote' = [id \in Ids |-> "none"] /\ closing' = {}
    /\ request' = [r \in Requests |-> NoRequest]
    /\ UNCHANGED <<tenant, pinged, latest, restarts>>

MergeAgain ==   \* faulty: what has been merged is not remembered
    /\ gateway # "down" /\ inbox # <<>>
    /\ LET id == Head(inbox) IN
           /\ merged' = merged \cup {id}
           /\ IF FALSE THEN UNCHANGED <<tree, remote, closing>>
              ELSE /\ remote' = [remote EXCEPT ![id] = IF @ = "none" THEN "opening" ELSE @]
                   /\ IF id \in Faulty THEN UNCHANGED <<tree, closing>>
                      ELSE /\ tree' = Joined(tree, id)
                           /\ closing' = closing \cup Closes(tree, id)
    /\ inbox' = Tail(inbox)
    /\ UNCHANGED <<tenant, gateway, pinged, request, latest, restarts>>

(* Gateway.merge and Tree.merge: the id is remembered before anything can  *)
(* fail; creating the branch discovers the remote of its endpoints; what   *)
(* is replaced is closed.                                                  *)
MergeBranch ==
    /\ gateway # "down" /\ inbox # <<>>
    /\ LET id == Head(inbox) IN
           /\ merged' = merged \cup {id}
           /\ IF id \in merged THEN UNCHANGED <<tree, remote, closing>>
              ELSE /\ remote' = [remote EXCEPT ![id] = IF @ = "none" THEN "opening" ELSE @]
                   /\ IF id \in Faulty THEN UNCHANGED <<tree, closing>>
                      ELSE /\ tree' = Joined(tree, id)
                           /\ closing' = closing \cup Closes(tree, id)
    /\ inbox' = Tail(inbox)
    /\ UNCHANGED <<tenant, gateway, pinged, request, latest, restarts>>

(* Remotes.locate settles. *)
Connect(id) ==
    /\ remote[id] = "opening"
    /\ remote' = [remote EXCEPT ![id] = "open"]
    /\ UNCHANGED <<tenant, gateway, inbox, pinged, merged, tree, closing, request,
                   latest, restarts>>

(* Endpoint.close: await the discovery, then disconnect the remote that    *)
(* every endpoint of that version shares.                                  *)
Close(id) ==
    /\ id \in closing /\ remote[id] = "open"
    /\ remote' = [remote EXCEPT ![id] = "closed"]
    /\ closing' = closing \ {id}
    /\ UNCHANGED <<tenant, gateway, inbox, pinged, merged, tree, request, latest, restarts>>

----------------------------------------------------------------------------
(* Requests *)

(* Gateway.process: the tree is matched, and the method kept over the      *)
(* awaits that follow.                                                     *)
Arrive(r, path, verb) ==
    /\ gateway = "up" /\ request[r].phase = "none"
    /\ request' = [request EXCEPT ![r] = Found(tree, path, verb)]
    /\ UNCHANGED <<tenant, gateway, inbox, pinged, merged, tree, remote, closing, latest,
                   restarts>>

(* Endpoint.call: awaits the discovery, then invokes the remote. *)
Invoke(r) ==
    /\ request[r].phase = "matched"
    /\ remote[request[r].remote] \in {"open", "closed"}
    /\ request' = [request EXCEPT ![r].phase =
                     IF remote[request[r].remote] = "open" THEN "OK" ELSE "Failed"]
    /\ UNCHANGED <<tenant, gateway, inbox, pinged, merged, tree, remote, closing, latest,
                   restarts>>

Next == \/ \E p \in Pods : Expose(p) \/ Listen(p) \/ Pong(p) \/ Stop(p)
        \/ Start \/ Ping \/ Crash \/ MergeBranch
        \/ \E id \in Ids : Connect(id) \/ Close(id)
        \/ \E r \in Requests : Invoke(r) \/ \E p \in Paths, v \in Verbs : Arrive(r, p, v)

Spec == Init /\ [][Next]_vars

(* Promises settle, messages are delivered; nobody has to start or stop.   *)
Delivered == gateway # "down" /\ inbox # <<>> /\ inbox' = Tail(inbox)  \* by MergeBranch
Fairness == /\ \A p \in Pods : WF_vars(Listen(p)) /\ WF_vars(Pong(p))
            /\ WF_vars(Ping) /\ WF_inbox(Delivered)
            /\ \A id \in Ids : WF_vars(Connect(id)) /\ WF_vars(Close(id))
            /\ \A r \in Requests : WF_vars(Invoke(r))
FairSpec == Spec /\ Fairness
----------------------------------------------------------------------------
(* Properties *)

Quiet == gateway = "up" /\ Settled /\ inbox = <<>>

TypeOK == /\ tenant \in [Pods -> {"down", "exposed", "listening", "gone"}]
          /\ gateway \in {"down", "bound", "up"}
          /\ inbox \in Seq(Ids) /\ pinged \subseteq Pods /\ merged \subseteq Ids
          /\ remote \in [Ids -> {"none", "opening", "open", "closed"}]
          /\ closing \subseteq Ids
          /\ DOMAIN request = Requests
          /\ \A r \in Requests : request[r].phase \in
                {"none", "NotFound", "MethodNotAllowed", "matched", "OK", "Failed"}

(* Once discovery is quiet, the tree serves the version that is running,   *)
(* if it is the last one and could be merged, and nothing of another one,  *)
(* whatever restarted, in whatever order, and whichever merges failed.     *)
ServesRunning ==
    Quiet => \A c \in Components :
      (Running(c) = {latest[c]} /\ <<c, latest[c]>> \notin Faulty)
        => {id[2] : id \in {x \in Reaches(tree) : x[1] = c}} = {latest[c]}

(* No route leads to a remote that has been, or is about to be, closed:    *)
(* what Node.replace closes for one node is of no use to any other.        *)
RoutesLive ==
    \A id \in Reaches(tree) : remote[id] \in {"opening", "open"} /\ id \notin closing

(* A request that could be matched is answered.                            *)
RequestsEnd == \A r \in Requests : request[r].phase = "matched" ~> request[r].phase # "matched"

(* readme.md: the Service discovers the resource declarations of Tenants.  *)
(* A tenant that stays is merged by a gateway that stays.                  *)
Discovered ==
    \A p \in Pods : <>[](tenant[p] = "listening" /\ gateway = "up"
                         /\ Running(ComponentOf[p]) = {VersionOf[p]})
                      => <>(Id(p) \in merged)

(* The tree of routes leads to remotes that run, whatever tenants start,    *)
(* stop or change (Gateway.ts, Tree.ts, Node.ts).                   *)
RoutesServe == TypeOK /\ ServesRunning /\ RoutesLive

(* The gateway finds what tenants expose and answers what it has matched    *)
(* (Gateway.ts, Tenant.ts).                                                 *)
GatewayDiscovers == Discovered /\ RequestsEnd
============================================================================
