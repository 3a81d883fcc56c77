------------------------------ MODULE Deciders ------------------------------
(***************************************************************************)
(* deciders.go and the helpers of FSMContext that build the decisions of a *)
(* continuation.  A decider is shown a context: the event h with its id i, *)
(* the state, the data and the version as they were before the event, and  *)
(* the activities pending then.                                            *)
(***************************************************************************)
EXTENDS Outcomes

Context == [i : Nat, h : HistoryEvent, state : StateNames, stateData : Data,
            stateVersion : Nat, pending : SUBSET Nat]

Stay(data, decisions) == Outcome("Stay", "", data, decisions)
ContinueDecision(data, decisions) == Outcome("Continue", "", data, decisions)
Goto(state, data, decisions) == Outcome("Transition", state, data, decisions)

(* ComposedDecider.Decide: each decider is shown the data the ones before   *)
(* it left; those that Pass contribute nothing, a ContinueOutcome passes    *)
(* the event on, and any other outcome but Stay becomes a transition.       *)
(* A decider that is given its context is a function from data to outcomes. *)
Contribute_LastOnly(sofar, o) ==
    [o EXCEPT !.kind = IF @ \in {"Continue", "Stay"} THEN @ ELSE "Transition"]
Contribute_OldData(sofar, o) ==
    [o EXCEPT !.decisions = sofar.decisions \o @, !.data = sofar.data,
              !.kind = IF @ \in {"Continue", "Stay"} THEN @ ELSE "Transition"]
Contribute(sofar, o) ==
    [o EXCEPT !.decisions = sofar.decisions \o @,
              !.kind = IF @ \in {"Continue", "Stay"} THEN @ ELSE "Transition"]

Consult(sofar, decider) ==
    LET o == decider[sofar.data]
    IN  IF sofar.kind # "Continue" \/ o = Pass THEN sofar ELSE Contribute(sofar, o)

Consulted(deciders, data) ==
    LET after[n \in 0..Len(deciders)] ==
          IF n = 0 THEN ContinueDecision(data, <<>>)
          ELSE Consult(after[n - 1], deciders[n])
    IN  after

ComposedDecider(deciders, data) == Consulted(deciders, data)[Len(deciders)]

DefaultDecider(ctx, data) == Stay(data, <<>>)

-----------------------------------------------------------------------------
(* The input of the new run: FSMContext.ContinueWorkflowDecision takes the  *)
(* context's data, ContinueFSMWorkflowInput the data it is given and the    *)
(* initial state.  No pending activities go along.                          *)
ContinueAsNew(ctx, name, data) ==
    [NewDecision("ContinueAsNewWorkflowExecution", "", ctx.i) EXCEPT
       !.state = [name |-> name, version |-> ctx.stateVersion,
                  data |-> Stored(data), pending |-> {}]]

ContinueWorkflowDecision_FromZero(ctx, continuedState) ==
    ContinueAsNew([ctx EXCEPT !.stateVersion = 0], continuedState, ctx.stateData)
ContinueWorkflowDecision_Initial(ctx, continuedState) ==
    ContinueAsNew(ctx, initialState, ctx.stateData)
ContinueWorkflowDecision(ctx, continuedState) ==
    ContinueAsNew(ctx, continuedState, ctx.stateData)
ContinueFSMWorkflowInput(ctx, data) == ContinueAsNew(ctx, initialState, data)

StartTimer(ctx) == NewDecision("StartTimer", ContinueTimer, ctx.i)
SignalSelf(ctx) ==
    NewDecision("SignalExternalWorkflowExecution", ContinueSignal, ctx.i)

(* The three deciders of ManagedContinuations.                              *)
continueOrWait_Untracked(ctx, data) ==
    Stay(data, <<ContinueWorkflowDecision(ctx, ctx.state)>>)
continueOrWait_NoTimer(ctx, data) ==
    Stay(data, IF ctx.pending = {}
               THEN <<ContinueWorkflowDecision(ctx, ctx.state)>> ELSE <<>>)
continueOrWait(ctx, data) ==
    Stay(data, <<IF ctx.pending = {}
                 THEN ContinueWorkflowDecision(ctx, ctx.state)
                 ELSE StartTimer(ctx)>>)

handleContinuationTimer(ctx, data) ==
    IF ctx.h.type = "TimerFired" /\ ctx.h.label = ContinueTimer
    THEN continueOrWait(ctx, data) ELSE Pass

handleContinuationSignal(ctx, data) ==
    IF ctx.h.type = "WorkflowExecutionSignaled" /\ ctx.h.label = ContinueSignal
    THEN continueOrWait(ctx, data) ELSE Pass

signalContinuationWhenHistoryLarge(ctx, data, historySize) ==
    IF ctx.i > historySize THEN Stay(data, <<SignalSelf(ctx)>>) ELSE Pass

ManagedContinuations(ctx, data, historySize) ==
    ComposedDecider(
      <<[before \in Data |-> handleContinuationTimer(ctx, before)],
        [before \in Data |-> handleContinuationSignal(ctx, before)],
        [before \in Data |->
           signalContinuationWhenHistoryLarge(ctx, before, historySize)]>>, data)
=============================================================================
