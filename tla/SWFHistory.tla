----------------------------- MODULE SWFHistory -----------------------------
(***************************************************************************)
(* The vocabulary of a workflow execution's history and what fsm.go reads  *)
(* out of it.  An event's EventID is its index in the history.  A decision *)
(* task shows the worker a page of the history that ends with the task's   *)
(* own DecisionTaskStarted event; the poller asks for the newest events    *)
(* first (ReverseOrder) and never follows NextPageToken, so the page is    *)
(* the newest PageSize events.                                             *)
(*                                                                         *)
(* Payloads are abstracted to what the properties tell apart.  The user's  *)
(* state data is the set `seen' of the events whose deciders produced it,  *)
(* and a `form': nil, serializable or not.                                 *)
(*                                                                         *)
(* Here and in the other modules an operator named F_Mistake is F with a    *)
(* mistake in it; the README says which property notices which mistake.    *)
(***************************************************************************)
EXTENDS Naturals, Sequences, FiniteSets

CONSTANTS States,        \* names of the states the user adds to the FSM
          initialState,  \* the one given to AddInitialState
          completeState, \* the one given to AddCompleteState, or the default
          errorState,    \* the one given to AddErrorState, or the default
          PageSize       \* events in one page of a decision task

ASSUME StatesAssumption ==
    /\ initialState \in States
    /\ "" \notin States /\ "error" \notin States /\ "complete" \notin States

ASSUME SpecialStatesAssumption ==
    /\ {completeState, errorState} \cap (States \cup {""}) = {}
    /\ completeState # errorState

ASSUME PageAssumption == PageSize \in Nat \ {0}

(* The names the outcomes know, whatever the states are called.             *)
CompleteState == "complete"
ErrorState == "error"

StateMarker == "FSM.State"
ErrorSignal == "FSM.Error"
SystemErrorSignal == "FSM.SystemError"
ContinueTimer == "FSM.ContinueWorkflow"
ContinueSignal == "FSM.ContinueWorkflow"

StateNames == States \cup {"", CompleteState, ErrorState,
                         completeState, errorState}

(* Names of markers, signals and timers: those of the FSM and, of the user's *)
(* signals, what the deciders of the models make of them.                   *)
UserLabels == {"user", "work", "move", "restart"}
Labels == {"", StateMarker, ErrorSignal, SystemErrorSignal, ContinueSignal}
            \cup UserLabels

EventTypes == {"WorkflowExecutionStarted", "WorkflowExecutionCompleted",
               "CompleteWorkflowExecutionFailed", "WorkflowExecutionSignaled",
               "DecisionTaskScheduled", "DecisionTaskStarted",
               "DecisionTaskCompleted", "DecisionTaskTimedOut",
               "ActivityTaskScheduled", "ActivityTaskCompleted",
               "ActivityTaskFailed", "ActivityTaskTimedOut",
               "ActivityTaskCanceled", "MarkerRecorded",
               "SignalExternalWorkflowExecutionInitiated",
               "ExternalWorkflowExecutionSignaled",
               "TimerStarted", "StartTimerFailed", "TimerFired",
               "ContinueAsNewWorkflowExecutionFailed"}

DecisionTaskTypes == {"DecisionTaskScheduled", "DecisionTaskStarted",
                      "DecisionTaskCompleted"}

ActivityClosed == {"ActivityTaskCompleted", "ActivityTaskFailed",
                   "ActivityTaskTimedOut", "ActivityTaskCanceled"}

-----------------------------------------------------------------------------
(* The data of the user's type DataType.                                   *)
Data == [seen : SUBSET Nat, form : {"ok", "nil", "unserializable"}]
ZeroData == [seen |-> {}, form |-> "ok"]
NilData == [seen |-> {}, form |-> "nil"]

(* What a Serialize and a later Deserialize into a fresh value leave of the *)
(* data: nil is written as JSON null and read back as the zero value; data  *)
(* the serializer refuses leaves the empty string, which cannot be read.    *)
Stored(data) == IF data.form = "nil" THEN ZeroData ELSE data

SerializedState == [name : StateNames, version : Nat, data : Data,
                    pending : SUBSET Nat]
NoState == [name |-> "", version |-> 0, data |-> ZeroData, pending |-> {}]

(* SerializedDecisionError and SerializedSystemError: the ErrorType of a     *)
(* system error, the event a decider failed on (0 in a system error), the   *)
(* events named unprocessed, state and data.                                *)
ErrorTypes == {"", "FindSerializedStateError", "DeserializeStateError",
               "MissingFsmStateError", "StateSerializationError"}
ErrorReport == [type : ErrorTypes, failed : Nat, unprocessed : SUBSET Nat,
                state : StateNames, data : Data]
NoReport == [type |-> "", failed |-> 0, unprocessed |-> {}, state |-> "",
             data |-> ZeroData]

(* ref: the scheduledEventId of an event that closes an activity; for an    *)
(* event a decision caused, the event whose decider asked for it.           *)
HistoryEvent == [type : EventTypes, label : Labels, ref : Nat,
                 state : SerializedState, report : ErrorReport]

Event(type, label, ref) == [type |-> type, label |-> label, ref |-> ref,
                            state |-> NoState, report |-> NoReport]

-----------------------------------------------------------------------------
isStateMarker(e) == e.type = "MarkerRecorded" /\ e.label = StateMarker

isErrorSignal(e) == /\ e.type = "WorkflowExecutionSignaled"
                    /\ e.label \in {ErrorSignal, SystemErrorSignal}

(* The events that reach a decider of a normal state.                      *)
Delivered(e) == /\ e.type \notin DecisionTaskTypes
                /\ ~isStateMarker(e)
                /\ ~isErrorSignal(e)

(* The EventIDs on the page of a task started at event `started'.          *)
Page(started) == {i \in 1..started : i + PageSize > started}

(* findLastEvents walks the page from its newest event and stops at         *)
(* prevStarted; ids on a page are consecutive.                              *)
Window_WholePage(prev, started) == Page(started)
Window_SkipsFirst(prev, started) == {i \in Page(started) : i > prev + 1}
Window(prev, started) == {i \in Page(started) : i > prev}
LastEvents(h, prev, started) ==
    {i \in Window(prev, started) : Delivered(h[i])}
ErrorEvents(h, prev, started) ==
    {i \in Window(prev, started) : isErrorSignal(h[i])}

(* The events findSerializedState can take a state from, and the newest.   *)
HoldsState(e) == isStateMarker(e) \/ e.type = "WorkflowExecutionStarted"
StateEvents(h, started) == {i \in Page(started) : HoldsState(h[i])}
IsNewest(i, S) == i \in S /\ \A j \in S : j <= i
IsOldest(i, S) == i \in S /\ \A j \in S : i <= j

(* A WorkflowExecutionStarted input that names no state means the initial.  *)
findSerializedState(e) ==
    IF e.type = "WorkflowExecutionStarted" /\ e.state.name = ""
    THEN [e.state EXCEPT !.name = initialState]
    ELSE e.state

(* eventIDs makes a slice of length len(events) and appends to it, so any   *)
(* non-empty list comes with zeros in front.                                *)
eventIDs(S) == IF S = {} THEN {} ELSE S \cup {0}

(* Track = RemoveCorrelation then Correlate.                               *)
RemoveCorrelation(pending, e) ==
    IF e.type \in ActivityClosed THEN pending \ {e.ref} ELSE pending
Correlate(pending, i, e) ==
    IF e.type = "ActivityTaskScheduled" THEN pending \cup {i} ELSE pending
Track_Forgets(pending, i, e) == Correlate(pending, i, e)
Track(pending, i, e) == Correlate(RemoveCorrelation(pending, e), i, e)
=============================================================================
