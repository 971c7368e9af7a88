------------------------------ MODULE MCStores ------------------------------
(* Four components side by side: a behaviour is one of one of them. *)
EXTENDS MongoClients, MongoStore, Octets, Workflow

VARIABLE focus

Keyed == [c \in Clients |-> IF c = "c4" THEN "k2" ELSE "k1"]
Running == [w \in Writers |-> IF w = "w1" THEN "p1" ELSE "p2"]

\* The streams that the first upload may bring; the second brings plain bytes.
Stream(claim, accept, signature) == [claim |-> claim, accept |-> accept, signature |-> signature]
TheStreams == [u \in Uploads |->
    IF u = "u1" THEN {Stream("png", {"png"}, "jpeg"), Stream("png", None, "jpeg"),
                      Stream("text", {"text"}, None)}
    ELSE {Stream(None, None, None)}]
Units == <<{"resize", "analyze"}, {"resize"}>>

all == <<focus, vars, storeVars, octetVars, flowVars>>

MCInit == /\ focus \in {"clients", "store", "octets", "workflow"}
          /\ Init /\ StoreInit /\ OctetsInit /\ FlowInit

OfClients(A) == focus = "clients" /\ A /\ UNCHANGED <<focus, storeVars, octetVars, flowVars>>
OfStore(A) == focus = "store" /\ A /\ UNCHANGED <<focus, vars, octetVars, flowVars>>
OfBlobs(A) == focus = "octets" /\ A /\ UNCHANGED <<focus, vars, storeVars, flowVars>>
OfFlow(A) == focus = "workflow" /\ A /\ UNCHANGED <<focus, vars, storeVars, octetVars>>

MCNext == OfClients(Next) \/ OfStore(StoreNext) \/ OfBlobs(OctetsNext) \/ OfFlow(FlowNext)

\* The database executes what it is given, timers fire, a process that fails
\* is started again and an outage comes to an end; clients send what they
\* have, the endpoints of a workflow answer and files are removed.
Fairness ==
    /\ \A p \in Processes : WF_all(OfStore(OpenStore(p)))
    /\ \A w \in Writers : WF_all(OfStore(Attempt(w)))
                          /\ WF_all(OfStore(Again(w)))
    /\ WF_all(OfStore(ComeUp))
    /\ \A u \in Uploads : WF_all(OfBlobs(AdvancePut(u)))
    /\ \A p \in Paths : WF_all(OfBlobs(Erase(p)))
    /\ WF_all(OfFlow(Working))

MCSpec == MCInit /\ [][MCNext]_all /\ Fairness

\* The storages answer whatever they are asked: a collection opens on its
\* indexes and answers when the server is back, and uploads, deletions and
\* workflows end.
StoresServe ==
    /\ NoLostVersion /\ DeclaredKept /\ (focus = "store" => Opens) /\ Answered
    /\ OctetsEnd /\ WorkflowEnds
=============================================================================
