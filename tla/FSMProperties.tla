--------------------------- MODULE FSMProperties ---------------------------
(***************************************************************************)
(* What the decision-task processing of FSM.tla promises its user.         *)
(***************************************************************************)
EXTENDS FSM

Ids == 1..Len(history)

(* The newest state in the whole history, page or no page.                 *)
IsRecorded(i) == IsNewest(i, {j \in Ids : HoldsState(history[j])})
Recorded(i) == findSerializedState(history[i])

DeliveredUpTo(n) == {j \in Ids : j <= n /\ Delivered(history[j])}

(* No tick has failed yet.                                                 *)
Clean == \A i \in Ids :
           history[i].type # "SignalExternalWorkflowExecutionInitiated"

(* The DecisionTaskStarted events of the completed decision tasks.  Each    *)
(* one's window begins after the one before; the windows of all of them     *)
(* have fitted the page.                                                    *)
CompletedAt == {s \in Ids :
    /\ history[s].type = "DecisionTaskStarted"
    /\ \E c \in Ids : /\ s < c /\ history[c].type = "DecisionTaskCompleted"
                      /\ \A k \in (s + 1)..(c - 1) :
                           history[k].type # "DecisionTaskStarted"
                           /\ history[k].type # "DecisionTaskTimedOut"}

WindowsFit == \A s \in CompletedAt :
    s <= PageSize \/ \E p \in CompletedAt : p < s /\ s <= p + PageSize

(* Every event up to the last completed decision task has been shown to a   *)
(* decider whose data led to the recorded state (Tick's loop and            *)
(* findLastEvents), whoever handled it and however often it was retried, as *)
(* long as no tick reported an error and no more events came between two    *)
(* tasks than a page holds: those before the page would be dropped without  *)
(* an error while the newest marker is still on it.                         *)
NoEventLost ==
    Clean /\ WindowsFit =>
      \A i \in Ids : IsRecorded(i) =>
        Recorded(i).data.seen = DeliveredUpTo(prevStarted)

(* No decider is shown an event that the data it is given already accounts  *)
(* for: through crashes, time-outs, lost replies and error recovery, the    *)
(* state and the window of a task never overlap (findSerializedState,       *)
(* findLastEvents and the error state's report).                            *)
ShownAtMostOnce ==
    \A w \in Workers :
      pc[w] \in {"errors", "events"} =>
        (tick[w].todo \cup tick[w].errs) \cap
          (tick[w].data.seen \cup tick[w].saved.data.seen) = {}

(* An event makes its decider's activity be scheduled once, though several  *)
(* workers may run the decider on it (Tick and RespondDecisionTaskCompleted) *)
EffectsAtMostOnce ==
    \A i, j \in Ids :
      /\ history[i].type = "ActivityTaskScheduled"
      /\ history[j].type = "ActivityTaskScheduled"
      /\ history[i].ref = history[j].ref
      => i = j

(* Crashes, time-outs, lost replies and workers that handle one task twice  *)
(* do not show: to the user the workers are the single worker of            *)
(* SequentialWorkflow that handles batches of events atomically (Tick,      *)
(* handleDecisionTask and the service's token together).                    *)
Scheduled == {i \in Ids : history[i].type = "ActivityTaskScheduled"}

ShownUpTo(n) == {j \in Ids : j <= n /\ (Delivered(history[j]) \/ isErrorSignal(history[j]))}

Sequential == INSTANCE SequentialWorkflow WITH
    arrived <- ShownUpTo(Len(history)),
    handled <- prevStarted,
    applied <- history[CHOOSE i \in Ids : IsRecorded(i)].state.data.seen,
    effects <- [i \in Scheduled |-> history[i].ref],
    failed <- ~(Clean /\ WindowsFit)

SequentialSpec == Sequential!Spec

(* What a consumer of the Kinesis stream reads was recorded in the history: *)
(* handleDecisionTask replicates only after its response was accepted.      *)
ReplicatedWasRecorded ==
    \A k \in 1..Len(stream) : \E i \in Ids :
      isStateMarker(history[i]) /\ history[i].state = stream[k]

(* One worker replicates the versions in increasing order.                 *)
StreamInOrder ==
    Clean => \A k \in 1..Len(stream) : \A l \in 1..(k-1) :
               stream[l].version < stream[k].version

CompletedTasks == Cardinality({i \in Ids : history[i].type = "DecisionTaskCompleted"})

(* StateVersion is "equivalent to the number of decsion tasks processed by  *)
(* the workflow" (fsm_models.go): the version recordStateMarker increments  *)
(* counts the completed decision tasks whenever a task records a state.     *)
VersionCountsTasks ==
    \A i \in Ids : IsRecorded(i) /\ i > prevStarted
                     => Recorded(i).version = CompletedTasks

(* ... and it does until a tick fails.                                     *)
VersionCountsCleanTasks == Clean => VersionCountsTasks

(* A newly recorded state is the next version of the state it replaces,     *)
(* whatever worker records it, unless the task carried error signals, after *)
(* which the version starts over at 1 (stateVersion of intermediateOutcome).*)
VersionsFollow ==
    [][\A j \in Ids' \ Ids : isStateMarker(history'[j]) =>
         \A i \in Ids : IsRecorded(i) =>
           \/ history'[j].state.version = history[i].state.version + 1
           \/ /\ ErrorEvents(history, prevStarted, prevStarted') # {}
              /\ history'[j].state.version = 1]_vars

(* ActivitiesInfo returns "all in-flight activities in the workflow"        *)
(* (fsm_models.go): the pending map in the state the last decision task     *)
(* recorded is what the events up to that task scheduled and did not close  *)
(* (ActivityCorrelator.Track).                                              *)
InFlight(n) == {j \in Ids :
    /\ j <= n /\ history[j].type = "ActivityTaskScheduled"
    /\ \A k \in Ids : k <= n /\ history[k].type \in ActivityClosed
                        => history[k].ref # j}

PendingIsInFlight ==
    \A i \in Ids : IsRecorded(i) /\ i > prevStarted
                     => Recorded(i).pending = InFlight(prevStarted)

CleanPendingIsInFlight == Clean /\ WindowsFit => PendingIsInFlight

(* An error report names as unprocessed no event that a decider has already *)
(* processed (captureDecisionError, captureSystemError, eventIDs).          *)
ReportsUnprocessed ==
    \A i \in Ids :
      history[i].type = "SignalExternalWorkflowExecutionInitiated" =>
        history[i].report.unprocessed \cap history[i].report.data.seen = {}

(* "An empty string means no transition" (Outcome.State in fsm_models.go):  *)
(* a recorded state is always a state of the FSM.                           *)
RecordedStateExists ==
    \A i \in Ids : IsRecorded(i) => Recorded(i).name \in FSMStates

(* "On errors, a nil *SerializedState is returned, and an error Outcome is  *)
(* included" (Tick): a recorded marker carries data that can be read back.  *)
RecordedIsReadable ==
    \A i \in Ids : IsRecorded(i) => Recorded(i).data.form # "unserializable"

-----------------------------------------------------------------------------
Triggers == ActivityClosed \cup {"WorkflowExecutionSignaled"}

(* Every signal and every activity result is eventually covered by a        *)
(* completed decision task, or the workflow is closed: no crash, lost reply *)
(* or time-out leaves it behind (poll loop of poller.go, handleDecisionTask)*)
EventsAreHandled ==
    \A n \in 1..(MaxHistory + 1) :
      (n \in Ids /\ history[n].type \in Triggers)
        ~> (prevStarted >= n \/ ~open)

(* Once the workflow is in the complete state it is completed, also when    *)
(* events it had not seen make the first attempts fail (CompleteOutcome,    *)
(* DefaultCompleteState or a complete state that does as much), unless an    *)
(* earlier tick failed: its error signal may still come and let the error   *)
(* state lead the workflow elsewhere.                                      *)
CompletionTakesEffect ==
    (Clean /\ \E i \in Ids : IsRecorded(i) /\ Recorded(i).name = CompleteState)
      ~> ~open
=============================================================================
