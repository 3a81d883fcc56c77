----------------------------- MODULE FSMRecord -----------------------------
(***************************************************************************)
(* What the recorded states have to do with the history: the invariants    *)
(* behind VersionsFollow, NoEventLost, VersionCountsCleanTasks,            *)
(* CleanPendingIsInFlight and the refinement of SequentialWorkflow.  They  *)
(* say what a tick carries from the state it found to the state it records *)
(* and that a tick whose response is accepted found the newest one.        *)
(***************************************************************************)
EXTENDS FSMInvariant

Errors(t) == ErrorEvents(history, t.prev, t.started)
Events(t) == LastEvents(history, t.prev, t.started)
Handled(t) == Events(t) \ t.todo

(* The service still accepts the response of the tick.                     *)
Valid(t) == task = StartedTask(t.started)

Recording(d) == d.type = "RecordMarker" /\ d.label = StateMarker
Reporting(d) == d.type = "SignalExternalWorkflowExecution"
Completing(d) == d.type = "CompleteWorkflowExecution"

Closed(e) == e.type \in ActivityClosed

(* The activities in flight after the events in H, given those before.     *)
Tracked(pending, H) ==
    {j \in pending \cup {i \in H : IsScheduled(history[i])} :
       \A k \in H : Closed(history[k]) => history[k].ref # j}

-----------------------------------------------------------------------------
(* The events left are the newest ones of the task.                        *)
TickEvents(label, t) ==
    /\ t.errs \subseteq Errors(t)
    /\ t.todo \subseteq Events(t)
    /\ \A i \in Handled(t), j \in t.todo : i < j
    /\ label \in {"begin", "errors"} => t.todo = Events(t)

(* Activities are asked for by the task's events and error signals, only     *)
(* the machinery records a state, and a tick that fails says so.            *)
TickDecisions(label, t) ==
    /\ \A k \in 1..Len(t.decisions) :
         /\ Asks(t.decisions[k]) => t.decisions[k].ref \in Events(t) \cup Errors(t)
         /\ Recording(t.decisions[k]) => label = "respond" /\ ~t.failed /\ k = 1
         /\ t.decisions[k].state.data.form # "nil"
    /\ label = "respond" /\ t.failed =>
         \E k \in 1..Len(t.decisions) : Reporting(t.decisions[k])

(* The state a tick has found.                                             *)
TickFound(label, t) ==
    label \in {"errors", "events"} =>
      /\ t.saved.data.form # "nil"
      /\ Valid(t) => \A i \in Ids : IsRecorded(i) => t.saved = Recorded(i)

(* What it makes of that state.                                            *)
TickCarries(label, t) ==
    /\ label \in {"begin", "errors"} => t.version = 0
    /\ label = "errors" =>
         /\ t.pending = t.saved.pending
         /\ Errors(t) = {} => t.state = "" /\ t.data = NilData
    /\ label = "events" =>
         /\ t.pending = Tracked(t.saved.pending, Handled(t))
         /\ \/ t.version = t.saved.version
            \/ t.version = 0 /\ Errors(t) # {}

Succeeds(t, s) ==
    /\ t.saved.pending = Tracked(s.pending, Events(t))
    /\ \/ t.saved.version = s.version + 1
       \/ t.saved.version = 1 /\ Errors(t) # {}

TickRecords(label, t) ==
    label = "respond" /\ ~t.failed /\ Valid(t) =>
      \A i \in Ids : IsRecorded(i) => Succeeds(t, Recorded(i))

RecordTick(label, t) ==
    label \in Working => /\ TickEvents(label, t)
                         /\ TickDecisions(label, t)
                         /\ TickFound(label, t)
                         /\ TickCarries(label, t)
                         /\ TickRecords(label, t)

-----------------------------------------------------------------------------
(* Between the start of a task and its response the history says nothing    *)
(* new about tasks and states.                                             *)
TaskInv ==
    task.status = "started" =>
      /\ history[task.started].type = "DecisionTaskStarted"
      /\ \A k \in Ids : k > task.started =>
           /\ history[k].type \notin {"DecisionTaskStarted", "DecisionTaskTimedOut"}
           /\ ~HoldsState(history[k])

EventsInv ==
    /\ \E i \in Ids : IsRecorded(i)
    /\ \A i \in Ids : /\ Closed(history[i]) => history[i].ref < i
                      /\ isErrorSignal(history[i]) => ~Clean
                      /\ history[i].state.data.form # "nil"

(* prevStarted is the start of the newest completed task.                   *)
PrevStartedInv ==
    /\ \A s \in CompletedAt : s <= prevStarted
    /\ prevStarted # 0 => prevStarted \in CompletedAt

RecordInv ==
    /\ TaskInv
    /\ EventsInv
    /\ PrevStartedInv
    /\ \A w \in Workers : RecordTick(pc[w], tick[w])

-----------------------------------------------------------------------------
(* The user's part: no error state throws the data away by returning        *)
(* ContinueDecision(nil, nil); and a tick that decides to complete the       *)
(* workflow does not fail after that, for the FSM knows the complete state   *)
(* by the name that CompleteOutcome gives it, that state only stays or       *)
(* completes, and the serializer takes every state.                        *)
Considerate ==
    /\ "recover" \notin ErrorBehaviours
    /\ completeState = CompleteState
    /\ CompleteBehaviours \subseteq {"stay", "complete"}
    /\ ~SerializerFails

LedgerTick(label, t) ==
    label \in Working =>
      /\ Errors(t) = {} /\ label = "events" =>
           /\ t.data.form # "nil"
           /\ t.data.seen = t.saved.data.seen \cup Handled(t)
      /\ Errors(t) = {} /\ label = "respond" /\ ~t.failed /\ Valid(t) =>
           \A i \in Ids : IsRecorded(i) =>
             t.saved.data.seen = Recorded(i).data.seen \cup Events(t)
      /\ \A k \in 1..Len(t.decisions) : Completing(t.decisions[k]) =>
           \/ Errors(t) # {}
           \/ label = "events" /\ t.state = completeState
           \/ label = "respond" /\ ~t.failed

(* As long as no tick has failed the newest recorded state accounts for     *)
(* everything up to the last completed task.                               *)
Accounts ==
    Clean => \A i \in Ids : IsRecorded(i) =>
      /\ Recorded(i).version = CompletedTasks
      /\ WindowsFit => /\ Recorded(i).data.seen = DeliveredUpTo(prevStarted)
                       /\ Recorded(i).pending = InFlight(prevStarted)

LedgerInv ==
    /\ Accounts
    /\ \A w \in Workers : LedgerTick(pc[w], tick[w])

-----------------------------------------------------------------------------
(* A single worker replicates what it recorded before it records again.      *)
OneWorker == \A v, w \in Workers : v = w

StreamInv ==
    /\ StreamInOrder
    /\ Clean => \A i \in Ids : IsRecorded(i) =>
         /\ \A k \in 1..Len(stream) : stream[k].version <= Recorded(i).version
         /\ \A w \in Workers : pc[w] = "replicate" =>
              /\ tick[w].saved.version <= Recorded(i).version
              /\ \A k \in 1..Len(stream) : stream[k].version < tick[w].saved.version

-----------------------------------------------------------------------------
(* The names the user gives agree with those the outcomes use, no decider    *)
(* returns ContinueDecision with data, and an error state that returns it    *)
(* with none is left at once.                                              *)
NamesKnown ==
    LET all == Behaviours \cup CompleteBehaviours \cup ErrorBehaviours IN
    /\ "continue" \notin all
    /\ "complete" \in Behaviours \cup ErrorBehaviours => completeState = CompleteState
    /\ "error" \in all => errorState = ErrorState
    /\ "recover" \in ErrorBehaviours =>
         /\ "error" \notin all
         /\ {"stay", "unserializable"} \cap ErrorBehaviours = {}
         /\ ~({"panic", "restore"} \subseteq ErrorBehaviours)

(* The states in which a decision task can leave the workflow.              *)
Lasting == States \cup (IF completeState = CompleteState THEN {completeState} ELSE {})
                  \cup (IF "recover" \in ErrorBehaviours THEN {} ELSE {errorState})

(* What an error state takes over from a report is such a state.            *)
Restorable(report) ==
    "restore" \in ErrorBehaviours /\ report.failed # 0 => report.state \in Lasting

StateTick(label, t) ==
    label \in Working =>
      /\ \A k \in 1..Len(t.decisions) :
           /\ Recording(t.decisions[k]) => t.decisions[k].state.name \in Lasting
           /\ Restorable(t.decisions[k].report)
      /\ label \in {"errors", "events"} => t.saved.name \in Lasting
      /\ label = "errors" =>
           \/ t.state \in Lasting
           \/ t.state = errorState /\ t.errs # {}
           \/ /\ t.state = "" /\ t.data.form = "nil"
              /\ t.errs = {} \/ "recover" \in ErrorBehaviours
      /\ label = "events" => t.state \in Lasting

StateInv ==
    /\ \A i \in Ids :
         /\ HoldsState(history[i]) => findSerializedState(history[i]).name \in Lasting
         /\ Restorable(history[i].report)
    /\ \A w \in Workers : StateTick(pc[w], tick[w])
=============================================================================
