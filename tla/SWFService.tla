----------------------------- MODULE SWFService -----------------------------
(***************************************************************************)
(* Amazon SWF as the code in src/ uses it: one workflow execution, its     *)
(* append-only history and its at most one outstanding decision task.      *)
(* Every operator here is external to the repository; the requests and     *)
(* responses are those of protocol.go and clients.go.                      *)
(***************************************************************************)
EXTENDS SWFHistory

CONSTANTS Closings,   \* the ways an activity may close
          MaxHistory  \* bound: the environment adds nothing to a longer history

ASSUME ClosingsAssumption == Closings \subseteq ActivityClosed

ASSUME MaxHistoryAssumption == MaxHistory \in Nat

VARIABLES history,     \* the events, EventID = index
          task,        \* the decision task: its status, and the EventID of
                       \* its DecisionTaskStarted event while it is started
          prevStarted, \* started event of the last completed decision task
          open         \* the execution has not been closed

service == <<history, task, prevStarted, open>>

TaskStatus == {"none", "scheduled", "started"}
NoTask == [status |-> "none", started |-> 0]
ScheduledTask == [status |-> "scheduled", started |-> 0]
StartedTask(i) == [status |-> "started", started |-> i]

(* A decision, with the event whose decider asked for it in ref.           *)
DecisionTypes == {"RecordMarker", "ScheduleActivityTask",
                  "CompleteWorkflowExecution",
                  "SignalExternalWorkflowExecution",
                  "StartTimer", "ContinueAsNewWorkflowExecution"}
Decision == [type : DecisionTypes, label : Labels, ref : Nat,
             state : SerializedState, report : ErrorReport]

ServiceTypeOK ==
    /\ history \in Seq(HistoryEvent)
    /\ task \in [status : TaskStatus, started : Nat]
    /\ prevStarted \in Nat
    /\ open \in BOOLEAN

(* StartFSMWorkflowInput: zero data, no state name, version 0.             *)
ServiceInit ==
    /\ history = <<Event("WorkflowExecutionStarted", "", 0),
                   Event("DecisionTaskScheduled", "", 0)>>
    /\ task = ScheduledTask
    /\ prevStarted = 0
    /\ open = TRUE

-----------------------------------------------------------------------------
(* The environment adds events; a decision task is scheduled unless one is  *)
(* outstanding, in which case the next one will show them.                  *)
Scheduling == IF task.status = "none"
              THEN <<Event("DecisionTaskScheduled", "", 0)>> ELSE <<>>

AddEvents(es) ==
    /\ open /\ Len(history) < MaxHistory
    /\ history' = history \o (es \o Scheduling)
    /\ task' = IF task.status = "none" THEN ScheduledTask ELSE task
    /\ UNCHANGED <<prevStarted, open>>

SignalWorkflow == AddEvents(<<Event("WorkflowExecutionSignaled", "user", 0)>>)

CloseActivity(i, type) ==
    /\ history[i].type = "ActivityTaskScheduled"
    /\ \A j \in 1..Len(history) :
         history[j].type \in ActivityClosed => history[j].ref # i
    /\ AddEvents(<<Event(type, "", i)>>)

(* The signal an FSM sends its own execution, and the notice that it came.  *)
DeliverSignal(i) ==
    /\ history[i].type = "SignalExternalWorkflowExecutionInitiated"
    /\ \A j \in 1..Len(history) :
         history[j].type = "ExternalWorkflowExecutionSignaled"
           => history[j].ref # i
    /\ AddEvents(<<[history[i] EXCEPT !.type = "WorkflowExecutionSignaled"],
                   Event("ExternalWorkflowExecutionSignaled", "", i)>>)

StartTask ==
    /\ task.status = "scheduled"
    /\ history' = Append(history, Event("DecisionTaskStarted", "", 0))
    /\ task' = StartedTask(Len(history) + 1)
    /\ UNCHANGED <<prevStarted, open>>

TimeOutTask ==
    /\ task.status = "started"
    /\ history' = history \o <<Event("DecisionTaskTimedOut", "", 0),
                               Event("DecisionTaskScheduled", "", 0)>>
    /\ task' = ScheduledTask
    /\ UNCHANGED <<prevStarted, open>>

-----------------------------------------------------------------------------
(* RespondDecisionTaskCompleted with the current token.  Each decision adds *)
(* one event; the execution cannot be completed while it has events that    *)
(* the task did not show, and nothing follows its completion.               *)
Unhandled(started) == Len(history) > started

DecisionEventType(d, unhandled) ==
    CASE d.type = "RecordMarker" -> "MarkerRecorded"
      [] d.type = "ScheduleActivityTask" -> "ActivityTaskScheduled"
      [] d.type = "SignalExternalWorkflowExecution" ->
           "SignalExternalWorkflowExecutionInitiated"
      [] d.type = "CompleteWorkflowExecution" /\ unhandled ->
           "CompleteWorkflowExecutionFailed"
      [] OTHER -> "WorkflowExecutionCompleted"

DecisionEvent(d, unhandled) ==
    [d EXCEPT !.type = DecisionEventType(d, unhandled)]

Closes(ds, k, unhandled) ==
    ~unhandled /\ ds[k].type = "CompleteWorkflowExecution"

(* n is how many of the decisions take effect.                             *)
Effective(ds, n, unhandled) ==
    /\ n \in 0..Len(ds)
    /\ \A k \in 1..(n-1) : ~Closes(ds, k, unhandled)
    /\ n < Len(ds) => n > 0 /\ Closes(ds, n, unhandled)

CompletionEvents(ds, n, unhandled) ==
    <<Event("DecisionTaskCompleted", "", 0)>>
    \o [k \in 1..n |-> DecisionEvent(ds[k], unhandled)]
    \o (IF unhandled THEN <<Event("DecisionTaskScheduled", "", 0)>> ELSE <<>>)

CompleteTask(started, ds) ==
    /\ task = StartedTask(started)
    /\ LET unhandled == Unhandled(started) IN
       \E n \in 0..Len(ds) :
         /\ Effective(ds, n, unhandled)
         /\ history' = history \o CompletionEvents(ds, n, unhandled)
         /\ open' = (\A k \in 1..n : ~Closes(ds, k, unhandled))
         /\ task' = IF unhandled THEN ScheduledTask ELSE NoTask
    /\ prevStarted' = started
=============================================================================
