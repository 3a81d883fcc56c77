------------------------ MODULE ContinuationProperties ------------------------
(***************************************************************************)
(* What a continued workflow and the composed decider of its FSM promise.  *)
(***************************************************************************)
EXTENDS Continuation

Ids == DOMAIN history

(* Numbers of the user's signals among the first n events of the run.       *)
SignalsUpTo(n) == {history[j].ref : j \in {k \in Ids : k <= n /\ IsRequest(history[k])}}

Recorded == history[Max({i \in Ids : HoldsState(history[i])})].state

(* Within a run the data accounts for what the run's input accounted for    *)
(* and for every signal of this run that a decision task was completed for: *)
(* what a decider in the middle of the stack makes of the data is neither   *)
(* lost nor undone by the ones behind it (ComposedDecider.Decide,           *)
(* mergeOutcomes).  The input may lack signals of the run before, as        *)
(* DataCarriesOver shows.                                                  *)
EverySignalCounts ==
    Recorded.data.seen = history[1].state.data.seen \cup SignalsUpTo(prevStarted)

(* So do its decisions: an activity that a ContinueOutcome of the user's    *)
(* part asks for is scheduled once, whatever ManagedContinuations adds and  *)
(* whatever becomes of it, as long as the run goes on.                      *)
WorkIsScheduled ==
    \A i \in Ids : i <= prevStarted /\ IsRequest(history[i]) /\ history[i].label = "work"
      => Cardinality({j \in EventsOf(history, "ActivityTaskScheduled") :
                        history[j].ref = i}) = 1

(* Had the task that the j-th event is a result of missed any events?       *)
MissedEvents(j) ==
    LET completed == Max({k \in EventsOf(history, "DecisionTaskCompleted") : k < j})
    IN  history[completed - 1].type # "DecisionTaskStarted"

(* "You are unable to ContinueAsNew a workflow that has running activites,  *)
(* so you should assure there are none running before using this."          *)
(* (fsm_models.go): a continuation is refused only for what its decider     *)
(* could not know, an event the task did not show or an activity scheduled  *)
(* after the event it decided on, by the very same task perhaps.            *)
RefusedForNewsOnly ==
    \A j \in EventsOf(history, "ContinueAsNewWorkflowExecutionFailed") :
      \/ MissedEvents(j)
      \/ \E k \in EventsOf(history, "ActivityTaskScheduled") :
           history[j].ref < k /\ k < j

(* The state the FSM was in when it handled event r.                        *)
StateAt(r) ==
    IF \E j \in Ids : j < r /\ IsRequest(history[j]) /\ history[j].label = "move"
    THEN movedTo ELSE findSerializedState(history[1]).name

(* The new run starts from the FSM's state and data as of the event that    *)
(* made the decider continue it, though the same task handled events before *)
(* and after that one, and whichever earlier request was refused            *)
(* (ContinueWorkflowDecision, ContinueFSMWorkflowInput, context.stateData). *)
ContinuedStateIsCurrent ==
    [][run' # run =>
         LET from == history'[1]
             seen == history[1].state.data.seen \cup SignalsUpTo(from.ref)
         IN  /\ prevStarted < from.ref
             /\ from.state.data.seen = seen
             /\ from.state.pending = {}
             /\ from.state.name = IF history[from.ref].label = "restart"
                                  THEN initialState ELSE StateAt(from.ref)]_vars

(* A consumer of the stream sees versions go up within a run and never go   *)
(* down from one run to the next (stateVersion in the input).               *)
VersionsNeverGoBack ==
    \A k \in 1..Len(stream) : \A l \in 1..(k - 1) :
      /\ stream[l].run <= stream[k].run
      /\ stream[l].state.version <= stream[k].state.version
      /\ stream[l].state.version = stream[k].state.version
           => stream[l].run < stream[k].run

(* ContinueWorkflowDecision takes "the expected SerializedState" along: the *)
(* new run knows all the data that the last state of the run before knew.   *)
DataCarriesOver ==
    \A k \in 1..Len(stream) :
      stream[k].run = run - 1 =>
        stream[k].state.data.seen \subseteq history[1].state.data.seen

-----------------------------------------------------------------------------
(* A signal to continue that no attempt has followed.                       *)
Unanswered ==
    \E i \in Ids :
      /\ history[i].type = "WorkflowExecutionSignaled"
      /\ history[i].label = ContinueSignal
      /\ \A j \in EventsOf(history, "ContinueAsNewWorkflowExecutionFailed") :
           history[j].ref < i

(* "If there are activities present in the tracker, it will set a new       *)
(* FSM.ContinueWorkflow timer" (deciders.go): however many activities are   *)
(* open and signals come, a signal to continue is followed by an attempt,   *)
(* one that opens a new run or one that the service refuses.                *)
ContinuationIsTried == Unanswered ~> ~Unanswered
=============================================================================
