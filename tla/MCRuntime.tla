------------------------------ MODULE MCRuntime ------------------------------
(* Graphs of connectors and a conveyor, side by side: a behaviour is one of  *)
(* one of them.  The graph that the constants give connects, fails and is    *)
(* connected again, overtaken by disconnections.                             *)
EXTENDS Conveyor, Connector, TLC

VARIABLE focus

\* One root, and two branches that share a dependency:
\* r.depends(a); r.depends(b); a.depends(c); b.depends(c).
TheNodes == {"r", "a", "b", "c"}
TheDeps == "r" :> {"a", "b"} @@ "a" :> {"c"} @@ "b" :> {"c"} @@ "c" :> {}
TheLinks == [i \in TheNodes |-> {p \in TheNodes : i \in TheDeps[p]}]

\* One root on an array: r.depends([a, b]) puts a connector of its own (next)
\* under both, and only that one is linked to r; a second root on one member
\* of that array: q.depends(a).
SharedNodes == {"r", "q", "a", "b", "next"}
SharedDeps == "r" :> {"a", "b", "next"} @@ "a" :> {"next"} @@ "b" :> {"next"} @@ "next" :> {}
              @@ "q" :> {"a"}
SharedLinks == "r" :> {} @@ "q" :> {} @@ "a" :> {"q"} @@ "b" :> {} @@ "next" :> {"r", "a", "b"}

all == <<focus, vars, graphVars>>

MCInit == focus \in {"conveyor", "repeated", "signalled"} /\ Init /\ GraphInit

OfConveyor(A) == focus = "conveyor" /\ A /\ UNCHANGED <<focus, graphVars>>

\* The graph is connected and disconnected repeatedly, or once with a signal
\* at any time.
OfRepeated(A) == focus = "repeated" /\ A /\ Uninterrupted' /\ UNCHANGED <<focus, vars>>
OfSignalled(A) == /\ focus = "signalled" /\ A /\ UNCHANGED <<focus, vars>>
                  /\ \A r \in Roots : asked'[r].connect <= 1 /\ asked'[r].disconnect <= 1

MCNext == OfConveyor(Next) \/ OfRepeated(GraphNext) \/ OfSignalled(GraphNext)

MCSpec == /\ MCInit /\ [][MCNext]_all
          /\ WF_all(OfConveyor(Respond \/ Break))
          /\ \A i \in TheNodes : WF_all(OfSignalled(Run(i)))

\* The graph of the constants alone.
GraphAlone == MCInit /\ focus = "repeated" /\ [][MCNext]_all

\* Conveyor and graph come to rest: every frame of connect() and disconnect()
\* settles, also after a signal, and every unit is answered unless the
\* processor failed.
Served == (focus = "signalled" => Settles) /\ Delivered
=============================================================================
