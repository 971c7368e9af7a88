------------------------------- MODULE Streams ------------------------------
(***************************************************************************)
(* The realtime extension: events are routed by their keys to streams,     *)
(* each of which is piped to one fork per client that has asked for it.    *)
(* The numbers of a key's events stand for the events.                     *)
(*                                                                         *)
(* pipe() is Node's: a chunk is written to every fork, and the stream      *)
(* pauses until each one that was full has drained.                        *)
(***************************************************************************)
EXTENDS Naturals, Sequences, FiniteSets

CONSTANTS Keys, Clients, Nowhere,
          HighWaterMark,  \* chunks that fill a fork
          MaxEvents       \* bound: events received

(* Records of the two kinds below are told from the absence of one.        *)
ASSUME StreamsAssumption ==
    /\ HighWaterMark \in Nat /\ MaxEvents \in Nat
    /\ Nowhere \notin [forks : SUBSET Clients, buffer : Seq(Nat), paused : BOOLEAN]
    /\ Nowhere \notin [key : Keys, queue : Seq(Nat), seen : Seq(Nat), awaited : BOOLEAN]

VARIABLES discovered,  \* has Realtime found the component of the streams?
          received,    \* events received from the sources
          pushing,     \* calls of `push` under way: keys, in order
          sent,        \* key -> events pushed since the process started
          streams,     \* key -> None or [forks, buffer, paused]
          fork         \* client -> None or [key, queue, seen, awaited]

streamVars == <<discovered, received, pushing, sent, streams, fork>>

StreamsInit == /\ discovered = FALSE /\ received = 0 /\ pushing = <<>>
               /\ sent = [k \in Keys |-> 0]
               /\ streams = [k \in Keys |-> Nowhere]
               /\ fork = [c \in Clients |-> Nowhere]

(* Realtime.open *)
Open == /\ ~discovered
        /\ discovered' = TRUE
        /\ UNCHANGED <<received, pushing, sent, streams, fork>>

(* An event has one or several keys.  It is dropped until the streams are  *)
(* discovered.                                                             *)
Receive ==
    /\ received < MaxEvents
    /\ received' = received + 1
    /\ \E keys \in {<<k>> : k \in Keys} \cup {<<k, l>> : k, l \in Keys} :
         pushing' = IF discovered THEN pushing \o keys ELSE pushing
    /\ UNCHANGED <<discovered, sent, streams, fork>>

PushPiped ==   \* faulty: a paused stream does not keep the event
    /\ pushing # <<>>
    /\ LET k == Head(pushing)
       IN  IF streams[k] = Nowhere THEN UNCHANGED <<sent, streams>>
           ELSE /\ sent' = [sent EXCEPT ![k] = @ + 1]
                /\ streams' = IF streams[k].paused THEN streams
                              ELSE [streams EXCEPT ![k].buffer = Append(@, sent'[k])]
    /\ pushing' = Tail(pushing)
    /\ UNCHANGED <<discovered, received, fork>>

(* push.ts: an event nobody listens to is dropped.                         *)
Push ==
    /\ pushing # <<>>
    /\ LET k == Head(pushing)
       IN  IF streams[k] = Nowhere THEN UNCHANGED <<sent, streams>>
           ELSE /\ sent' = [sent EXCEPT ![k] = @ + 1]
                /\ streams' = [streams EXCEPT ![k].buffer = Append(@, sent'[k])]
    /\ pushing' = Tail(pushing)
    /\ UNCHANGED <<discovered, received, fork>>

(* create.ts, Stream.fork: piping to a new fork resumes the stream, full   *)
(* forks or not.                                                           *)
Create(c, k) ==
    /\ fork[c] = Nowhere
    /\ fork' = [fork EXCEPT ![c] = [key |-> k, queue |-> <<>>, seen |-> <<>>, awaited |-> FALSE]]
    /\ streams' = IF streams[k] = Nowhere
                  THEN [streams EXCEPT ![k] = [forks |-> {c}, buffer |-> <<>>, paused |-> FALSE]]
                  ELSE [streams EXCEPT ![k].forks = @ \cup {c}, ![k].paused = FALSE]
    /\ UNCHANGED <<discovered, received, pushing, sent>>

(* A chunk goes to every fork. *)
Flow(k) ==
    /\ streams[k] # Nowhere /\ ~streams[k].paused /\ streams[k].buffer # <<>>
    /\ fork' = [c \in Clients |->
                 IF c \in streams[k].forks
                 THEN [fork[c] EXCEPT !.queue = Append(@, Head(streams[k].buffer)),
                                      !.awaited = Len(fork[c].queue) + 1 >= HighWaterMark]
                 ELSE fork[c]]
    /\ streams' = [streams EXCEPT ![k].buffer = Tail(@),
                     ![k].paused = \E c \in streams[k].forks : fork'[c].awaited]
    /\ UNCHANGED <<discovered, received, pushing, sent>>

(* The stream resumes when no fork of it is waited for.                    *)
Resumed(k, forks) == streams[k].paused /\ \E c \in forks : fork'[c].awaited

(* The client reads; a fork drains when it is empty.                       *)
Read(c) ==
    /\ fork[c] # Nowhere /\ fork[c].queue # <<>>
    /\ fork' = [fork EXCEPT ![c].queue = Tail(@), ![c].seen = Append(@, Head(fork[c].queue)),
                            ![c].awaited = @ /\ Len(fork[c].queue) > 1]
    /\ LET k == fork[c].key
       IN  streams' = [streams EXCEPT ![k].paused = Resumed(k, streams[k].forks)]
    /\ UNCHANGED <<discovered, received, pushing, sent>>

(* The fork closes and is unpiped; the last one takes the stream with it,  *)
(* in the same turn of the event loop.                                     *)
Leave(c) ==
    /\ fork[c] # Nowhere
    /\ fork' = [fork EXCEPT ![c] = Nowhere]
    /\ LET k == fork[c].key
           rest == streams[k].forks \ {c}
       IN  streams' = IF rest = {} THEN [streams EXCEPT ![k] = Nowhere]
                      ELSE [streams EXCEPT ![k].forks = rest,
                              ![k].paused = @ /\ \E d \in rest : fork[d].awaited]
    /\ UNCHANGED <<discovered, received, pushing, sent>>

StreamsNext == \/ Open \/ Receive \/ Push
               \/ \E k \in Keys : Flow(k) \/ \E c \in Clients : Create(c, k)
               \/ \E c \in Clients : Read(c) \/ Leave(c)

StreamsSpec == StreamsInit /\ [][StreamsNext]_streamVars
----------------------------------------------------------------------------
(* Properties *)

StreamsTyped ==
    /\ received \in 0..MaxEvents
    /\ \A k \in Keys : streams[k] # Nowhere =>
         /\ streams[k].forks = {c \in Clients : fork[c] # Nowhere /\ fork[c].key = k}
         /\ streams[k].forks # {}
    /\ \A c \in Clients : fork[c] # Nowhere => streams[fork[c].key] # Nowhere

(* A client has every event of its key since the first one it has seen, in *)
(* order and once: what is read, waits in the fork and in the stream.      *)
NoGaps ==
    \A c \in Clients : fork[c] # Nowhere =>
        LET all == fork[c].seen \o fork[c].queue \o streams[fork[c].key].buffer
        IN  \A i \in 1..Len(all) : all[i] = sent[fork[c].key] - Len(all) + i

(* A stream that does not flow is waiting for one of its clients.          *)
PausedForSomeone ==
    \A k \in Keys : streams[k] # Nowhere /\ streams[k].paused =>
        \E c \in streams[k].forks : fork[c].awaited /\ fork[c].queue # <<>>

(* If the clients read, each event that was pushed comes to each of them.  *)
Pushed ==
    \A c \in Clients, n \in 1..MaxEvents :
        fork[c] # Nowhere /\ n \in {streams[fork[c].key].buffer[i] : i \in DOMAIN streams[fork[c].key].buffer}
        ~> fork[c] = Nowhere \/ n \in {fork[c].seen[i] : i \in DOMAIN fork[c].seen}

(* The clients of a key share one stream, which keeps what it cannot push   *)
(* and waits for nobody who has left (Stream.ts, push.ts).        *)
StreamsWhole == StreamsTyped /\ NoGaps /\ PausedForSomeone
============================================================================
