------------------------- MODULE ContinuationInvariant -------------------------
(***************************************************************************)
(* Why the properties of a continued workflow hold: an inductive invariant *)
(* that ties the newest state of the run to the events of the tasks        *)
(* completed so far, and what each turn of the tick's loop makes of it.     *)
(***************************************************************************)
EXTENDS ContinuationProperties

Closed(e) == e.type \in ActivityClosed

IsWork(i) == IsRequest(history[i]) /\ history[i].label = "work"

(* The activities in flight, and the state the FSM is in, after the first n *)
(* events.                                                                 *)
InFlight(n) ==
    {i \in Ids : /\ i <= n /\ history[i].type = "ActivityTaskScheduled"
                 /\ \A j \in Ids : j <= n /\ Closed(history[j]) => history[j].ref # i}

StateAfter(n) ==
    IF \E j \in Ids : j <= n /\ IsRequest(history[j]) /\ history[j].label = "move"
    THEN movedTo ELSE findSerializedState(history[1]).name

(* The run's first event brings the data and nothing in flight.             *)
StartInv ==
    /\ Ids # {}
    /\ history[1].type = "WorkflowExecutionStarted"
    /\ history[1].state.data.form = "ok"
    /\ history[1].state.pending = {}
    /\ \A i \in Ids : history[i].type = "WorkflowExecutionStarted" => i = 1

(* While a task is out nothing is recorded and no other task begins.        *)
TaskInv ==
    /\ prevStarted \in 0..Len(history)
    /\ task.status = "started" =>
         /\ task.started \in Ids /\ prevStarted < task.started
         /\ \A k \in Ids : k > task.started =>
              /\ history[k].type \notin {"DecisionTaskStarted", "DecisionTaskCompleted"}
              /\ ~HoldsState(history[k])

EventsInv ==
    \A i \in Ids :
      /\ Closed(history[i]) => history[i].ref < i
      /\ history[i].type = "ActivityTaskScheduled" => history[i].ref <= prevStarted
      /\ history[i].type = "SignalExternalWorkflowExecutionInitiated"
           => history[i].label = ContinueSignal
      /\ history[i].type = "ContinueAsNewWorkflowExecutionFailed" =>
           \E k \in Ids : k < i /\ history[k].type = "DecisionTaskCompleted"

(* The newest state is that of the events the completed tasks have shown.   *)
IsRecorded(i) == /\ i \in Ids /\ HoldsState(history[i])
                 /\ \A j \in Ids : HoldsState(history[j]) => j <= i

StateInv ==
    \A i \in Ids : IsRecorded(i) =>
      /\ prevStarted < i
      /\ task.status = "started" => i <= task.started
      /\ findSerializedState(history[i]).name = StateAfter(prevStarted)
      /\ history[i].state.data.form = "ok"
      /\ history[i].state.data.seen = history[1].state.data.seen \cup SignalsUpTo(prevStarted)
      /\ history[i].state.pending = InFlight(prevStarted)

(* A run's states have gone up to the newest; a new run goes on from the     *)
(* version before the last.                                                *)
StreamInv ==
    \A i \in Ids : IsRecorded(i) =>
      \A k \in 1..Len(stream) :
        /\ stream[k].run <= run
        /\ stream[k].state.version <=
             history[i].state.version + (IF stream[k].run = run THEN 0 ELSE 1)

(* The newest state of a run is that of the events which its completed       *)
(* decision tasks have shown, neither more nor fewer, wherever the run       *)
(* began (Tick, findSerializedState), and the stream is not ahead of it.     *)
RunInv == StartInv /\ TaskInv /\ EventsInv /\ StateInv /\ StreamInv

(* The inductive invariant.                                                *)
IInv ==
    /\ TypeOK /\ RunInv
    /\ WorkIsScheduled /\ RefusedForNewsOnly /\ VersionsNeverGoBack
=============================================================================
