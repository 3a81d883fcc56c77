-------------------------------- MODULE FSM --------------------------------
(***************************************************************************)
(* The decision-task processing of fsm.go: workers that share a task list  *)
(* poll for decision tasks of one workflow execution, run Tick over the    *)
(* page of history the task shows, respond with the decisions and          *)
(* replicate the recorded state.  The deciders are the user's: a step may  *)
(* take any behaviour the configuration allows.  The faults are a worker   *)
(* that dies, a request or a reply that is lost, a failed PutRecord and a  *)
(* decision task that times out under a worker that is only slow.          *)
(***************************************************************************)
EXTENDS Outcomes

CONSTANTS Workers,         \* processes that called FSM.Start
          Behaviours,      \* what the user's deciders may do with an event
          CompleteBehaviours, \* what the complete state's decider may do
          ErrorBehaviours, \* what the error state's decider may do
          Effects,         \* decisions a user's decider may add
          SerializerFails, \* the user's serializer may refuse a whole state
          MaxFaults        \* bound: faults in one behaviour

AnyBehaviour == {"stay", "goto", "continue", "complete", "error", "panic", "nil",
                 "unserializable"}

ASSUME BehavioursAssumption ==
    /\ Behaviours \subseteq AnyBehaviour
    /\ CompleteBehaviours \subseteq AnyBehaviour
    /\ ErrorBehaviours \subseteq AnyBehaviour \cup {"restore", "recover"}
    /\ Effects \subseteq {"none", "activity", "marker"}
    /\ SerializerFails \in BOOLEAN

ASSUME MaxFaultsAssumption == MaxFaults \in Nat

VARIABLES pc,     \* where each worker is in its polling loop
          tick,   \* the decision task and the locals of Tick, per worker
          stream, \* the state versions replicated to Kinesis, in order
          faults  \* faults so far

worker == <<pc, tick, stream>>
vars == <<history, task, prevStarted, open, pc, tick, stream, faults>>

-----------------------------------------------------------------------------
(* saved is serializedState; state, data, version and decisions are the     *)
(* intermediateOutcome; errs and todo are what is left of errorEvents and   *)
(* lastEvents; failed says that Tick returned a nil *SerializedState.       *)
Tick == [prev : Nat, started : Nat, errs : SUBSET Nat, todo : SUBSET Nat,
         saved : SerializedState, state : StateNames, data : Data,
         version : Nat, pending : SUBSET Nat, decisions : Seq(Decision),
         failed : BOOLEAN]

IdleTick == [prev |-> 0, started |-> 0, errs |-> {}, todo |-> {},
             saved |-> NoState, state |-> "", data |-> NilData, version |-> 0,
             pending |-> {}, decisions |-> <<>>, failed |-> FALSE]

PCs == {"poll", "begin", "errors", "events", "respond", "replicate"}

TypeOK ==
    /\ ServiceTypeOK
    /\ pc \in [Workers -> PCs]
    /\ tick \in [Workers -> Tick]
    /\ stream \in Seq(SerializedState)
    /\ faults \in 0..MaxFaults

Init ==
    /\ ServiceInit
    /\ pc = [w \in Workers |-> "poll"]
    /\ tick = [w \in Workers |-> IdleTick]
    /\ stream = <<>>
    /\ faults = 0

Fault == faults < MaxFaults /\ faults' = faults + 1

-----------------------------------------------------------------------------
(* The decisions of the machinery.                                         *)
captureError(signal, report) ==
    [NewDecision("SignalExternalWorkflowExecution", signal, 0)
       EXCEPT !.report = report]

(* The event that failed and the ones after it in a list that runs from the *)
(* newest to the oldest.                                                    *)
captureDecisionError(i, ids, state, data) ==
    captureError(ErrorSignal,
                 [type |-> "", failed |-> i,
                  unprocessed |-> eventIDs({j \in ids : j < i}),
                  state |-> state, data |-> Stored(data)])
captureSystemError(type, ids) ==
    captureError(SystemErrorSignal,
                 [NoReport EXCEPT !.type = type, !.unprocessed = eventIDs(ids)])

(* The early returns of Tick: the decisions so far and the error signal.    *)
Failing(t, decision) ==
    [t EXCEPT !.decisions = Append(@, decision), !.failed = TRUE]

-----------------------------------------------------------------------------
(* What deciders return.  Each one is shown event i and the current data.   *)
Shown(data, i) == [seen |-> data.seen \cup {i},
                   form |-> IF data.form = "nil" THEN "ok" ELSE data.form]

(* A user's decider schedules an activity or records a marker of its own    *)
(* only when a signal asks for it.                                          *)
EffectDecisions(f, i) ==
    CASE f = "activity" -> <<NewDecision("ScheduleActivityTask", "", i)>>
      [] f = "marker" -> <<NewDecision("RecordMarker", "user", i)>>
      [] OTHER -> <<>>

UserDecisions(i, e) == IF e.type = "WorkflowExecutionSignaled"
                       THEN {EffectDecisions(f, i) : f \in Effects} ELSE {<<>>}

(* FSMContext.Complete serializes the data as the result, or panics.       *)
Complete_Silent(i, data, decisions) ==
    Outcome("Complete", CompleteState, data, decisions)
Complete(i, data, decisions) ==
    IF data.form = "unserializable" THEN Outcome("panic", "", data, <<>>)
    ELSE Outcome("Complete", CompleteState, data,
                 Append(decisions, CompletionDecision(i)))

(* What an error state may start again from: state and data of the report,  *)
(* if the event has one.                                                   *)
Restored(i, e, shown) ==
    IF isErrorSignal(e) /\ e.report.failed # 0
    THEN [state |-> e.report.state, data |-> Shown(e.report.data, i)]
    ELSE [state |-> initialState, data |-> shown]

(* The outcomes of a decider that may behave in the ways `may'; "recover" is *)
(* ContinueDecision(nil, nil).                                             *)
May(b, may, outcomes) == IF b \in may THEN outcomes ELSE {}

DeciderOutcomes(may, i, e, data) ==
    LET shown == Shown(data, i)
        bad == [shown EXCEPT !.form = "unserializable"]
        from == Restored(i, e, shown)
        Some(kind, state, d) ==
            {Outcome(kind, state, d, ds) : ds \in UserDecisions(i, e)}
    IN  May("stay", may, Some("Stay", "", shown))
        \cup May("goto", may, UNION {Some("Transition", s, shown) : s \in States})
        \cup May("continue", may, Some("Continue", "", shown))
        \cup May("error", may, Some("Error", ErrorState, shown))
        \cup May("unserializable", may, Some("Stay", "", bad))
        \cup May("complete", may, {Complete(i, shown, ds) :
                                     ds \in UserDecisions(i, e)})
        \cup May("restore", may, Some("Transition", from.state, from.data))
        \cup May("recover", may, {Outcome("Continue", "", NilData, <<>>)})
        \cup May("panic", may, {Outcome("panic", "", shown, <<>>)})
        \cup May("nil", may, {Outcome("nil", "", shown, <<>>)})

FSMStates == States \cup {completeState, errorState}

(* DefaultCompleteState tries to complete at every event, {"complete"};      *)
(* DefaultErrorState stays where it is with an ErrorOutcome, {"error"}.      *)
BehavioursIn(state) ==
    CASE state = completeState -> CompleteBehaviours
      [] state = errorState -> ErrorBehaviours
      [] OTHER -> Behaviours

Decide(state, i, data) == DeciderOutcomes(BehavioursIn(state), i, history[i], data)

(* A panic in a decider is an error of the tick.  A nil Outcome takes the   *)
(* process down, for it is dereferenced outside panicSafeDecide, and so     *)
(* does a panic when the data cannot be serialized into the error report.  *)
Returned(o) == o.kind \notin {"panic", "nil"}
Kills(o, data) == \/ o.kind = "nil"
                  \/ o.kind = "panic" /\ data.form = "unserializable"

-----------------------------------------------------------------------------
Go(w, label, t) == /\ pc' = [pc EXCEPT ![w] = label]
                   /\ tick' = [tick EXCEPT ![w] = t]

Local == UNCHANGED <<history, task, prevStarted, open, stream, faults>>

(* The poll of an idle worker is answered with the scheduled task.          *)
PollForTask(w) ==
    /\ pc[w] = "poll"
    /\ StartTask
    /\ LET started == Len(history) + 1
       IN  Go(w, "begin",
              [IdleTick EXCEPT
                 !.prev = prevStarted,
                 !.started = started,
                 !.errs = ErrorEvents(history', prevStarted, started),
                 !.todo = LastEvents(history', prevStarted, started)])
    /\ UNCHANGED <<stream, faults>>

(* findSerializedState comes first, whatever events there are.              *)
FindState(w) ==
    LET t == tick[w]
        S == StateEvents(history, t.started)
    IN  /\ pc[w] = "begin"
        /\ \/ /\ S = {}
              /\ Go(w, "respond",
                    Failing(t, captureSystemError("FindSerializedStateError",
                                                  Page(t.started))))
           \/ \E i \in S :
                LET s == findSerializedState(history[i]) IN
                /\ IsNewest(i, S)
                /\ Go(w, "errors",
                      [t EXCEPT !.saved = s, !.pending = s.pending,
                                !.state = IF t.errs = {} THEN "" ELSE errorState,
                                !.data = IF t.errs = {} THEN NilData
                                         ELSE ZeroData])
        /\ Local

(* Error signals, oldest first, before every other event of the task.       *)
HandleErrorEvent(w) ==
    LET t == tick[w] IN
    /\ pc[w] = "errors"
    /\ \E i \in t.errs : \E o \in Decide(errorState, i, t.data) :
         /\ IsOldest(i, t.errs)
         /\ ~Kills(o, t.data)
         /\ IF Returned(o)
            THEN Go(w, "errors",
                    [mergeOutcomes(t, o) EXCEPT !.errs = @ \ {i}])
            ELSE Go(w, "respond",
                    Failing(t, captureDecisionError(i,
                                 ErrorEvents(history, t.prev, t.started),
                                 t.state, t.data)))
    /\ Local

(* State, data and version come from the marker unless an error state has   *)
(* given them.                                                              *)
RecoverState(w) ==
    LET t == tick[w] IN
    /\ pc[w] = "errors" /\ t.errs = {}
    /\ \/ /\ t.data.form = "nil" /\ t.state = ""
          /\ t.saved.data.form # "unserializable"
          /\ Go(w, "events", [t EXCEPT !.state = t.saved.name,
                                       !.data = t.saved.data,
                                       !.version = t.saved.version])
       \/ /\ t.data.form = "nil" /\ t.state = ""
          /\ t.saved.data.form = "unserializable"
          /\ Go(w, "respond",
                Failing(t, captureSystemError("DeserializeStateError",
                                              Page(t.started))))
       \/ /\ ~(t.data.form = "nil" /\ t.state = "")
          /\ Go(w, "events", t)
    /\ Local

(* One turn of the loop over lastEvents, oldest first.                      *)
HandleEvent(w) ==
    LET t == tick[w] IN
    /\ pc[w] = "events"
    /\ t.state \in FSMStates
    /\ \E i \in t.todo : \E o \in Decide(t.state, i, t.data) :
         /\ IsOldest(i, t.todo)
         /\ ~Kills(o, t.data)
         /\ IF Returned(o)
            THEN Go(w, "events",
                    [mergeOutcomes(t, o) EXCEPT
                       !.todo = @ \ {i},
                       !.pending = Track(@, i, history[i])])
            ELSE Go(w, "respond",
                    Failing(t, captureDecisionError(i,
                                 LastEvents(history, t.prev, t.started),
                                 t.state, t.data)))
    /\ Local

MissingState(w) ==
    LET t == tick[w] IN
    /\ pc[w] = "events"
    /\ t.state \notin FSMStates
    /\ \E i \in t.todo :
         /\ IsOldest(i, t.todo)
         /\ Go(w, "respond",
               Failing(t, captureSystemError("MissingFsmStateError",
                            {j \in LastEvents(history, t.prev, t.started) :
                               j <= i})))
    /\ Local

FinishTick(w) ==
    LET t == tick[w] IN
    /\ pc[w] = "events" /\ t.todo = {}
    /\ Go(w, "respond", recordStateMarker(t))
    /\ Local

(* JSON takes every SerializedState; another serializer may refuse one.     *)
StateSerializationFails(w) ==
    LET t == tick[w] IN
    /\ SerializerFails
    /\ pc[w] = "events" /\ t.todo = {}
    /\ Go(w, "respond",
          Failing(t, captureSystemError("StateSerializationError", {})))
    /\ Local

-----------------------------------------------------------------------------
(* RespondDecisionTaskCompleted: its token is checked by the service.       *)
Respond(w) ==
    LET t == tick[w] IN
    /\ pc[w] = "respond"
    /\ CompleteTask(t.started, t.decisions)
    /\ IF t.failed THEN Go(w, "poll", IdleTick) ELSE Go(w, "replicate", t)
    /\ UNCHANGED <<stream, faults>>

RespondReplyLost(w) ==
    LET t == tick[w] IN
    /\ pc[w] = "respond"
    /\ CompleteTask(t.started, t.decisions)
    /\ Fault
    /\ Go(w, "poll", IdleTick)
    /\ UNCHANGED stream

RespondRefused_GoesOn(w) ==
    /\ pc[w] = "respond"
    /\ task # StartedTask(tick[w].started)
    /\ Go(w, "replicate", tick[w])
    /\ Local
RespondRefused_Retries(w) ==
    /\ pc[w] = "respond"
    /\ task # StartedTask(tick[w].started)
    /\ Go(w, "respond", tick[w])
    /\ Local
RespondRefused(w) ==
    /\ pc[w] = "respond"
    /\ task # StartedTask(tick[w].started)
    /\ Go(w, "poll", IdleTick)
    /\ Local

RespondRequestLost(w) ==
    /\ pc[w] = "respond"
    /\ Fault
    /\ Go(w, "poll", IdleTick)
    /\ UNCHANGED <<history, task, prevStarted, open, stream>>

(* PutRecord of the recorded state; its error is only logged.               *)
Replicate(w) ==
    /\ pc[w] = "replicate"
    /\ stream' = Append(stream, tick[w].saved)
    /\ Go(w, "poll", IdleTick)
    /\ UNCHANGED <<history, task, prevStarted, open, faults>>

ReplicateFails(w) ==
    /\ pc[w] = "replicate"
    /\ Fault
    /\ Go(w, "poll", IdleTick)
    /\ UNCHANGED <<history, task, prevStarted, open, stream>>

(* The process is restarted and polls again.  It counts as a fault to bound *)
(* the crash loop.                                                         *)
DiesAt(S, state, data) ==
    /\ state \in FSMStates
    /\ \E i \in S : /\ IsOldest(i, S)
                    /\ \E o \in Decide(state, i, data) : Kills(o, data)

ProcessPanics(w) ==
    LET t == tick[w] IN
    /\ \/ pc[w] = "errors" /\ DiesAt(t.errs, errorState, t.data)
       \/ pc[w] = "events" /\ DiesAt(t.todo, t.state, t.data)
    /\ Fault
    /\ Go(w, "poll", IdleTick)
    /\ UNCHANGED <<history, task, prevStarted, open, stream>>

Crash(w) ==
    /\ pc[w] # "poll"
    /\ Fault
    /\ Go(w, "poll", IdleTick)
    /\ UNCHANGED <<history, task, prevStarted, open, stream>>

-----------------------------------------------------------------------------
(* A worker that still works on the outstanding task.                       *)
Holds(w) == /\ pc[w] \notin {"poll", "replicate"}
            /\ task = StartedTask(tick[w].started)

(* A task nobody works on times out; under a slow worker that is a fault.   *)
TimeOutAbandoned ==
    /\ \A w \in Workers : ~Holds(w)
    /\ TimeOutTask
    /\ UNCHANGED <<pc, tick, stream, faults>>

TimeOutSlow ==
    /\ \E w \in Workers : Holds(w)
    /\ TimeOutTask
    /\ Fault
    /\ UNCHANGED worker

Signal == SignalWorkflow /\ UNCHANGED <<pc, tick, stream, faults>>

ActivityCloses ==
    /\ \E i \in 1..Len(history), type \in Closings : CloseActivity(i, type)
    /\ UNCHANGED <<pc, tick, stream, faults>>

ErrorSignalArrives ==
    /\ \E i \in 1..Len(history) : DeliverSignal(i)
    /\ UNCHANGED <<pc, tick, stream, faults>>

Environment == Signal \/ ActivityCloses \/ ErrorSignalArrives

WorkerStep(w) ==
    \/ PollForTask(w) \/ FindState(w) \/ HandleErrorEvent(w)
    \/ RecoverState(w) \/ HandleEvent(w) \/ MissingState(w)
    \/ FinishTick(w) \/ StateSerializationFails(w)
    \/ Respond(w) \/ RespondRefused(w) \/ Replicate(w)

WorkerFault(w) ==
    \/ RespondReplyLost(w) \/ RespondRequestLost(w) \/ ReplicateFails(w)
    \/ ProcessPanics(w) \/ Crash(w)

Next ==
    \/ \E w \in Workers : WorkerStep(w) \/ WorkerFault(w)
    \/ TimeOutAbandoned \/ TimeOutSlow
    \/ Environment

Spec == Init /\ [][Next]_vars

(* Workers keep polling and running; the service times out a task that      *)
(* nobody works on.  Nothing is assumed of the environment or of faults.    *)
Fairness ==
    /\ \A w \in Workers : WF_vars(WorkerStep(w))
    /\ WF_vars(TimeOutAbandoned)

FairSpec == Spec /\ Fairness
=============================================================================
