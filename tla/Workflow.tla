------------------------------ MODULE Workflow ------------------------------
(***************************************************************************)
(* A workflow of the octets directives: its units run one after another,   *)
(* the steps of a unit at the same time, and their reports are streamed to *)
(* the client.  octets:delete deletes the entry when the stream has ended. *)
(***************************************************************************)
EXTENDS Naturals, Sequences, FiniteSets

CONSTANTS Unit,       \* unit -> its steps, from 1 on
          Directives, \* of "put", "workflow" and "delete"
          MaxChunks   \* results that a step may stream

ASSUME WorkflowAssumption ==
    /\ Len(Unit) \in Nat \ {0}
    /\ "none" \notin Directives

VARIABLES directive,    \* whose workflow it is, or "none"
          unit,         \* the one that is executed
          step,         \* step of the unit -> "called", "streaming" or "ended"
          chunks,       \* results streamed by the unit's steps
          interrupted,
          reports,      \* what has been pushed: [unit, step, status, error]
          ended,        \* the stream has ended
          read,         \* reports that the client has read
          consumer      \* "reading", "stopped", "gone", "deleted" or "done"

flowVars == <<directive, unit, step, chunks, interrupted, reports, ended, read, consumer>>

FlowInit == /\ directive = "none" /\ unit = 0 /\ step = <<>> /\ chunks = 0
            /\ interrupted = FALSE /\ reports = <<>> /\ ended = FALSE
            /\ read = 0 /\ consumer = "reading"

Calls(u) == [s \in Unit[u] |-> "called"]

(* The entry is found (it has just been put, or `head` returns it).        *)
Apply ==
    /\ directive = "none"
    /\ directive' \in Directives
    /\ unit' = 1 /\ step' = Calls(1)
    /\ UNCHANGED <<chunks, interrupted, reports, ended, read, consumer>>

(* report, exception: a step's status is given with its last report.       *)
Report(s, status, error) ==
    /\ reports' = Append(reports, [unit |-> unit, step |-> s, status |-> status, error |-> error])
    /\ interrupted' = (interrupted \/ error \/ status = "exception")

Idle == UNCHANGED <<directive, unit, ended, read, consumer>>

(* The endpoint replies, with a value, an error or a stream, or throws.    *)
Returns(s) ==
    /\ s \in DOMAIN step /\ step[s] = "called"
    /\ \/ /\ step' = [step EXCEPT ![s] = "ended"]
          /\ \/ \E error \in BOOLEAN : Report(s, "completed", error)
             \/ Report(s, "exception", FALSE)
       \/ /\ step' = [step EXCEPT ![s] = "streaming"]
          /\ UNCHANGED <<reports, interrupted>>
    /\ UNCHANGED chunks /\ Idle

Streams(s) ==
    /\ s \in DOMAIN step /\ step[s] = "streaming" /\ chunks < MaxChunks
    /\ \E error \in BOOLEAN : Report(s, "none", error)
    /\ chunks' = chunks + 1
    /\ UNCHANGED step /\ Idle

StreamEndsSilently(s) ==   \* faulty: the end of a step's stream is not reported
    /\ s \in DOMAIN step /\ step[s] = "streaming"
    /\ step' = [step EXCEPT ![s] = "ended"]
    /\ UNCHANGED <<chunks, reports, interrupted>> /\ Idle

StreamEnds(s) ==
    /\ s \in DOMAIN step /\ step[s] = "streaming"
    /\ step' = [step EXCEPT ![s] = "ended"]
    /\ \E status \in {"completed", "exception"} : Report(s, status, FALSE)
    /\ UNCHANGED chunks /\ Idle

(* run: the next unit, unless a step has interrupted the workflow.         *)
Advance ==
    /\ directive # "none" /\ ~ended
    /\ \A s \in DOMAIN step : step[s] = "ended"
    /\ IF interrupted \/ unit = Len(Unit)
       THEN ended' = TRUE /\ UNCHANGED <<unit, step, chunks>>
       ELSE unit' = unit + 1 /\ step' = Calls(unit + 1) /\ chunks' = 0 /\ UNCHANGED ended
    /\ UNCHANGED <<directive, interrupted, reports, read, consumer>>

Executing == UNCHANGED <<directive, unit, step, chunks, interrupted, reports, ended>>

(* octets:delete stops at the first error, the others pass everything on.  *)
Read ==
    /\ consumer = "reading" /\ read < Len(reports)
    /\ read' = read + 1
    /\ consumer' = IF directive = "delete" /\ reports[read + 1].error THEN "stopped" ELSE consumer
    /\ Executing

Finish ==
    /\ consumer = "reading" /\ ended /\ read = Len(reports)
    /\ consumer' = IF directive = "delete" THEN "deleted" ELSE "done"
    /\ UNCHANGED read /\ Executing

(* The client breaks the connection: nobody reads any more.                *)
Leave ==
    /\ directive # "none" /\ consumer = "reading"
    /\ consumer' = "gone"
    /\ UNCHANGED read /\ Executing

FlowNext == \/ Apply \/ Advance \/ Read \/ Finish \/ Leave
            \/ \E s \in DOMAIN step : Returns(s) \/ Streams(s) \/ StreamEnds(s)

FlowSpec == FlowInit /\ [][FlowNext]_flowVars

Working == Advance \/ Read \/ Finish \/ \E s \in DOMAIN step : Returns(s) \/ StreamEnds(s)
----------------------------------------------------------------------------
(* Properties *)

Reported == {reports[i] : i \in 1..Len(reports)}
Failed(report) == report.error \/ report.status = "exception"

FlowTyped ==
    /\ directive \in Directives \cup {"none"} /\ unit \in 0..Len(Unit)
    /\ DOMAIN step = (IF unit = 0 THEN {} ELSE Unit[unit])
    /\ interrupted = \E report \in Reported : Failed(report)
    /\ read \in 0..Len(reports)
    /\ consumer \in {"reading", "stopped", "gone", "deleted", "done"}

(* A unit reports only when every step of the ones before it has ended and *)
(* none has failed.                                                        *)
UnitsInOrder ==
    \A i \in 1..Len(reports) : reports[i].unit > 1 =>
        \A s \in Unit[reports[i].unit - 1] :
            /\ \E j \in 1..(i - 1) : /\ reports[j].step = s /\ reports[j].unit = reports[i].unit - 1
                                     /\ reports[j].status = "completed"
            /\ \A j \in 1..Len(reports) :
                   reports[j].step = s /\ reports[j].unit < reports[i].unit => ~Failed(reports[j])

(* When the stream ends each step that was called has its status, once.    *)
EachReportedOnce ==
    ended => \A u \in 1..unit : \A s \in Unit[u] :
        Cardinality({i \in 1..Len(reports) : /\ reports[i].unit = u /\ reports[i].step = s
                                             /\ reports[i].status # "none"}) = 1

(* octets.md: the error returned by a workflow prevents the deletion.      *)
DeletedAfter ==
    consumer = "deleted" => /\ ended /\ directive = "delete"
                            /\ \A report \in Reported : ~report.error

(* Every workflow ends, whatever its steps do, and the entry of one that    *)
(* has not failed is deleted unless the client leaves.                     *)
Ends == directive # "none" ~> ended
Deleted ==
    directive = "delete" ~> \/ consumer \in {"deleted", "gone"}
                            \/ \E report \in Reported : Failed(report)

(* The report of a workflow tells what its units did, in their order, and   *)
(* the entry is deleted only after it (Execution.ts, Delete.ts).            *)
WorkflowReports == FlowTyped /\ UnitsInOrder /\ EachReportedOnce /\ DeletedAfter

(* Execution.ts and Delete.ts come to an end.                               *)
WorkflowEnds == Ends /\ Deleted
============================================================================
