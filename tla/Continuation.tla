----------------------------- MODULE Continuation -----------------------------
(***************************************************************************)
(* A workflow that is continued as new, run after run.  Its FSM has the    *)
(* composed decider <<user, ManagedContinuations, DefaultDecider>>: the     *)
(* user's part notes each of the user's signals in the data and does what  *)
(* the signal asks for.  One worker runs Tick and responds; the steps of a *)
(* tick, failures, time-outs and several workers are the subject of FSM.tla *)
(***************************************************************************)
EXTENDS Deciders, FiniteSetsExt

CONSTANTS historySize, \* of ManagedContinuations
          Requests,    \* bound: the user sends Len(Requests) signals, and
                       \* the k-th one asks for something in Requests[k]
          MaxDelivered,\* bound: signals to itself that reach one run
          MaxFires     \* bound: times the timer fires in one run while an
                       \* activity is open

ASSUME RequestsAssumption ==
    /\ Requests \in Seq(SUBSET (UserLabels \cup {ContinueSignal}))
    /\ States \ {initialState} # {}

ASSUME BoundsAssumption ==
    {historySize, MaxDelivered, MaxFires} \subseteq Nat

VARIABLES run,    \* number of the current run
          sent,   \* signals the user has sent, over all runs
          stream  \* the states replicated to Kinesis, with their runs

vars == <<history, task, prevStarted, open, run, sent, stream>>

TypeOK ==
    /\ ServiceTypeOK
    /\ run \in Nat \ {0}
    /\ sent \in 0..Len(Requests)
    /\ stream \in Seq([run : Nat \ {0}, state : SerializedState])

Init ==
    /\ ServiceInit
    /\ run = 1
    /\ sent = 0
    /\ stream = <<>>

-----------------------------------------------------------------------------
(* The deciders.  A signal of the user carries its number in ref.           *)
IsRequest(e) == e.type = "WorkflowExecutionSignaled" /\ e.label \in UserLabels

movedTo == CHOOSE s \in States : s # initialState

(* A user who continues the workflow checks for activities, as the comment  *)
(* of ContinueWorkflowDecision asks for.                                    *)
user(ctx, data) ==
    LET noted == [data EXCEPT !.seen = @ \cup {ctx.h.ref}]
        asks(label) == ctx.h.label = label
    IN  IF ~IsRequest(ctx.h) THEN Pass
        ELSE CASE asks("user") -> ContinueDecision(noted, <<>>)
               [] asks("work") ->
                    ContinueDecision(noted,
                        <<NewDecision("ScheduleActivityTask", "", ctx.i)>>)
               [] asks("move") -> Goto(movedTo, noted, <<>>)
               [] asks("restart") ->
                    Stay(noted, IF ctx.pending = {}
                                THEN <<ContinueFSMWorkflowInput(ctx, noted)>>
                                ELSE <<>>)

Decide(ctx, data) ==
    ComposedDecider(
      <<[before \in Data |-> user(ctx, before)],
        [before \in Data |-> ManagedContinuations(ctx, before, historySize)],
        [before \in Data |-> DefaultDecider(ctx, before)]>>, data)

(* Tick without its errors: t is the intermediateOutcome with the pending   *)
(* activities; the context keeps the version of the recovered state.        *)
Recovered(started) ==
    LET saved == findSerializedState(history[Max(StateEvents(history, started))])
    IN  [saved |-> saved, state |-> saved.name, data |-> saved.data,
         version |-> saved.version, pending |-> saved.pending,
         decisions |-> <<>>]

HandleEvent(t, i) ==
    LET ctx == [i |-> i, h |-> history[i], state |-> t.state,
                stateData |-> t.data, stateVersion |-> t.version,
                pending |-> t.pending]
    IN  [mergeOutcomes(t, Decide(ctx, t.data)) EXCEPT
           !.pending = Track(@, i, history[i])]

(* The loop over lastEvents: the intermediateOutcome after the first n      *)
(* events.                                                                 *)
Turn(t, n, todo) == IF n \in todo THEN HandleEvent(t, n) ELSE t

IntermediateOutcomes(started) ==
    LET todo == LastEvents(history, prevStarted, started)
        after[n \in 0..started] ==
          IF n = 0 THEN Recovered(started) ELSE Turn(after[n - 1], n, todo)
    IN  after

Tick(started) == recordStateMarker(IntermediateOutcomes(started)[started])

-----------------------------------------------------------------------------
(* What the service makes of the decisions, one after the other.  A run     *)
(* with events the task did not show, or with an open activity, cannot be   *)
(* continued; a second timer of the same name is not started.               *)
OpenActivities(h) ==
    {i \in DOMAIN h : /\ h[i].type = "ActivityTaskScheduled"
                      /\ \A j \in DOMAIN h : h[j].type \in ActivityClosed
                                               => h[j].ref # i}

EventsOf(h, type) == {i \in DOMAIN h : h[i].type = type}

TimerIsOpen(h) ==
    Cardinality(EventsOf(h, "TimerStarted")) > Cardinality(EventsOf(h, "TimerFired"))

ResultType(h, d, unhandled) ==
    CASE d.type = "StartTimer" /\ TimerIsOpen(h) -> "StartTimerFailed"
      [] d.type = "StartTimer" /\ ~TimerIsOpen(h) -> "TimerStarted"
      [] d.type = "ContinueAsNewWorkflowExecution" ->
           "ContinueAsNewWorkflowExecutionFailed"
      [] OTHER -> DecisionEventType(d, unhandled)

Continues(h, d, unhandled) == /\ d.type = "ContinueAsNewWorkflowExecution"
                              /\ ~unhandled
                              /\ OpenActivities(h) = {}

(* by holds the decision that closed the run; nothing follows it.           *)
Carry(r, d, unhandled) ==
    CASE r.by # <<>> -> r
      [] r.by = <<>> /\ Continues(r.h, d, unhandled) -> [r EXCEPT !.by = <<d>>]
      [] OTHER -> [r EXCEPT !.h =
           Append(@, [d EXCEPT !.type = ResultType(r.h, d, unhandled)])]

Carried(h, decisions, unhandled) ==
    LET after[n \in 0..Len(decisions)] ==
          IF n = 0 THEN [h |-> h, by |-> <<>>]
          ELSE Carry(after[n - 1], decisions[n], unhandled)
    IN  after

CarryOut(h, decisions, unhandled) == Carried(h, decisions, unhandled)[Len(decisions)]

Refusals(h) == EventsOf(h, "ContinueAsNewWorkflowExecutionFailed")
                 \cup EventsOf(h, "StartTimerFailed")

Completed == Append(history, Event("DecisionTaskCompleted", "", 0))

(* A run that goes on.  Whether a refused decision alone brings a new       *)
(* decision task is left open.                                              *)
GoesOn(h, unhandled) ==
    /\ \E again \in BOOLEAN :
         /\ unhandled => again
         /\ again => unhandled \/ Refusals(h) # Refusals(history)
         /\ history' = IF again
                       THEN Append(h, Event("DecisionTaskScheduled", "", 0))
                       ELSE h
         /\ task' = IF again THEN ScheduledTask ELSE NoTask
    /\ prevStarted' = task.started
    /\ UNCHANGED run

(* A run that decision d closes, and the one it opens.                      *)
StartsAnew(d) ==
    /\ history' = <<[Event("WorkflowExecutionStarted", "", d.ref)
                       EXCEPT !.state = d.state],
                    Event("DecisionTaskScheduled", "", 0)>>
    /\ task' = ScheduledTask
    /\ prevStarted' = 0
    /\ run' = run + 1

(* handleDecisionTask: Tick, response and replication.  The page reaches    *)
(* back to the task before; ticks that miss events or the state are FSM's.  *)
HandleDecisionTask ==
    /\ task.status = "started"
    /\ prevStarted + 1 \in Page(task.started)
    /\ LET t == Tick(task.started)
           unhandled == Unhandled(task.started)
           r == CarryOut(Completed, t.decisions, unhandled)
       IN  /\ \/ r.by = <<>> /\ GoesOn(r.h, unhandled)
              \/ r.by # <<>> /\ StartsAnew(r.by[1])
           /\ stream' = Append(stream, [run |-> run, state |-> t.saved])
    /\ UNCHANGED <<open, sent>>

PollForTask == StartTask /\ UNCHANGED <<run, sent, stream>>

-----------------------------------------------------------------------------
(* The environment.                                                         *)
Signal ==
    /\ sent < Len(Requests)
    /\ sent' = sent + 1
    /\ \E request \in Requests[sent + 1] :
         AddEvents(<<Event("WorkflowExecutionSignaled", request, sent + 1)>>)
    /\ UNCHANGED <<run, stream>>

ActivityCloses ==
    /\ \E i \in DOMAIN history, type \in Closings : CloseActivity(i, type)
    /\ UNCHANGED <<run, sent, stream>>

TimerFires ==
    /\ TimerIsOpen(history)
    /\ \/ OpenActivities(history) = {}
       \/ Cardinality(EventsOf(history, "TimerFired")) < MaxFires
    /\ AddEvents(<<Event("TimerFired", ContinueTimer, 0)>>)
    /\ UNCHANGED <<run, sent, stream>>

(* Signals to itself all look the same; which one comes first is all one.   *)
ContinueSignalArrives ==
    /\ LET arrived == {history[j].ref :
                 j \in EventsOf(history, "ExternalWorkflowExecutionSignaled")}
           onTheWay ==
             EventsOf(history, "SignalExternalWorkflowExecutionInitiated") \ arrived
       IN  /\ Cardinality(arrived) < MaxDelivered
           /\ \E i \in onTheWay : IsOldest(i, onTheWay) /\ DeliverSignal(i)
    /\ UNCHANGED <<run, sent, stream>>

Next ==
    \/ PollForTask \/ HandleDecisionTask
    \/ Signal \/ ActivityCloses \/ TimerFires \/ ContinueSignalArrives

Spec == Init /\ [][Next]_vars

(* The worker polls and answers every task it got (HandleDecisionTask is    *)
(* enabled while a task is started that fits a page); activities have       *)
(* time-outs and so close; the service fires timers.  Nothing is assumed of *)
(* the user.                                                               *)
Fairness ==
    /\ WF_vars(PollForTask) /\ []<>(task.status # "started")
    /\ WF_vars(ActivityCloses) /\ WF_vars(TimerFires)

FairSpec == Spec /\ Fairness
=============================================================================
