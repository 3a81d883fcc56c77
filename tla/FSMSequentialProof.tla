-------------------------- MODULE FSMSequentialProof --------------------------
(***************************************************************************)
(* The workers implement SequentialWorkflow: to the user, any number of     *)
(* them with crashes, time-outs, lost replies and refused responses are one *)
(* worker that handles batches of events atomically.  A completed decision  *)
(* task is HandleBatch, every other step at most lets events arrive.        *)
(***************************************************************************)
EXTENDS FSMLedgerProof

arrived == ShownUpTo(Len(history))
applied == history[CHOOSE i \in Ids : IsRecorded(i)].state.data.seen
effects == [i \in Scheduled |-> history[i].ref]
failed == ~(Clean /\ WindowsFit)

(* An event that decision tasks show to a decider, an error signal or not.    *)
IsShown(e) == Delivered(e) \/ isErrorSignal(e)

(* The abstract state, in the terms of the lemmas.                         *)
LEMMA Arrived ==
  ASSUME history \in Seq(HistoryEvent), HistoryKept
  PROVE  /\ arrived = {j \in Ids : IsShown(history[j])}
         /\ arrived' = {j \in Ids' : IsShown(history'[j])}
         /\ arrived \subseteq arrived'
         /\ \A i \in arrived, j \in arrived' \ arrived : i < j
<1>1. /\ Ids \subseteq Ids' /\ \A i \in Ids : history'[i] = history[i]
      /\ \A i \in Ids' : i \in Nat /\ (i \notin Ids => i > Len(history))
      /\ \A i \in Ids : i \in Nat /\ i <= Len(history)
      /\ Len(history) \in Nat /\ Len(history') \in Nat
      /\ Ids = 1..Len(history) /\ Ids' = 1..Len(history')
  BY Newer
<1>2. arrived = {j \in Ids : IsShown(history[j])}
  BY <1>1 DEF arrived, ShownUpTo, IsShown
<1>3. arrived' = {j \in Ids' : IsShown(history'[j])}
  BY <1>1 DEF arrived, ShownUpTo, IsShown, Delivered, isStateMarker, isErrorSignal
<1>4. \A i \in arrived, j \in arrived' \ arrived : i < j
  <2>1. \A j \in arrived' \ arrived : j \in Nat /\ j > Len(history)
    BY <1>1, <1>2, <1>3
  <2> QED BY <1>1, <1>2, <2>1
<1> QED BY <1>1, <1>2, <1>3, <1>4

(* Without a tick that failed there are no error signals to show.           *)
LEMMA ArrivedClean ==
  ASSUME history \in Seq(HistoryEvent), HistoryKept, EventsInv, Clean
  PROVE  arrived = {j \in Ids : Delivered(history[j])}
<1>1. arrived = {j \in Ids : IsShown(history[j])}
  BY Arrived
<1>2. \A j \in Ids : ~isErrorSignal(history[j])
  BY DEF EventsInv
<1> QED BY <1>1, <1>2 DEF IsShown

LEMMA Applied ==
  ASSUME history \in Seq(HistoryEvent), NEW i \in Ids, IsRecorded(i)
  PROVE  applied = Recorded(i).data.seen
<1>1. \A j : IsRecorded(j) => j = i
  BY DEF IsRecorded, IsNewest, Ids
<1>2. (CHOOSE j \in Ids : IsRecorded(j)) = i
  BY <1>1
<1>3. history[i] \in HistoryEvent
  BY DEF Ids
<1>4. Recorded(i).data = history[i].state.data
  BY <1>3, FoundProps DEF Recorded
<1> QED BY <1>2, <1>4 DEF applied

NewestIn(h, i) == IsNewest(i, {j \in 1..Len(h) : HoldsState(h[j])})
AppliedIn(h) == h[CHOOSE i \in 1..Len(h) : NewestIn(h, i)].state.data.seen

LEMMA AppliedNext ==
  ASSUME history' \in Seq(HistoryEvent), NEW i \in Ids', IsRecorded(i)'
  PROVE  applied' = Recorded(i)'.data.seen
<1>1. applied' = AppliedIn(history')
  BY DEF applied, AppliedIn, NewestIn, IsRecorded, IsNewest, HoldsState, isStateMarker, Ids
<1>2. \A j : IsRecorded(j)' <=> NewestIn(history', j)
  BY DEF NewestIn, IsRecorded, IsNewest, HoldsState, isStateMarker, Ids
<1>3. \A j : NewestIn(history', j) => j = i
  <2>1. NewestIn(history', i)
    BY <1>2
  <2> QED BY <2>1 DEF NewestIn, IsNewest
<1>4. (CHOOSE j \in 1..Len(history') : NewestIn(history', j)) = i
  <2>1. i \in 1..Len(history') /\ NewestIn(history', i)
    BY <1>2 DEF Ids
  <2> QED BY <1>3, <2>1
<1>5. history'[i] \in HistoryEvent
  BY DEF Ids
<1>6. Recorded(i)'.data = history'[i].state.data
  BY <1>5, FoundProps DEF Recorded, findSerializedState
<1> QED BY <1>1, <1>4, <1>6 DEF AppliedIn

-----------------------------------------------------------------------------
(* Steps that complete no task let events arrive.                          *)
LEMMA ArriveStep ==
  ASSUME IInv, IInv', RecordInv, MildGrowth, prevStarted' = prevStarted
  PROVE  Sequential!Arrive
<1>1. /\ history \in Seq(HistoryEvent) /\ history' \in Seq(HistoryEvent) /\ HistoryKept
  BY DEF IInv, TypeOK, ServiceTypeOK, MildGrowth
<1>2. /\ Ids \subseteq Ids' /\ \A i \in Ids : history'[i] = history[i]
  BY <1>1, Newer
<1>3. /\ Clean' <=> Clean
      /\ CompletedAt' = CompletedAt
      /\ \A i : IsRecorded(i)' <=> IsRecorded(i)
      /\ \A i \in Ids : Recorded(i)' = Recorded(i)
  BY <1>1, MildFacts
<1>4. failed' <=> failed
  BY <1>3 DEF failed, WindowsFit
<1>5. applied' = applied
  <2>1. PICK i \in Ids : IsRecorded(i)
    BY DEF RecordInv, EventsInv
  <2> QED BY <1>1, <1>2, <1>3, <2>1, Applied, AppliedNext
<1>6. effects' = effects
  <2>1. Scheduled' = Scheduled
    <3>1. \A i \in Ids' : i \notin Ids => history'[i].type # "ActivityTaskScheduled"
      BY DEF MildGrowth, Mild, IsScheduled
    <3> QED BY <1>2, <3>1 DEF Scheduled
  <2>2. \A i \in Scheduled : history'[i].ref = history[i].ref
    BY <1>2 DEF Scheduled
  <2>3. effects' = [i \in Scheduled' |-> history'[i].ref]
    BY DEF effects
  <2> QED BY <2>1, <2>2, <2>3 DEF effects
<1>7. Sequential!MoreArrive
  BY <1>1, Arrived DEF Sequential!MoreArrive, arrived
<1> QED BY <1>4, <1>5, <1>6, <1>7
        DEF Sequential!Arrive, failed, applied, effects

(* The effects a completed task adds are those of its batch.               *)
LEMMA BatchHappens ==
  ASSUME IInv, IInv', RecordInv, NEW w \in Workers, pc[w] = "respond",
         CompleteTask(tick[w].started, tick[w].decisions)
  PROVE  Sequential!Happens
<1> DEFINE t == tick[w]
           L == Len(history)
           new == DOMAIN effects' \ DOMAIN effects
<1>1. PICK u \in BOOLEAN, n \in 0..Len(t.decisions) : CompletionGrowth(t.decisions, n, u)
  BY CompletionGrows
<1>2. /\ HistoryKept /\ history \in Seq(HistoryEvent)
  <2>1. HistoryKept
    BY <1>1 DEF CompletionGrowth
  <2> QED BY <2>1, Typed
<1>3. /\ Ids \subseteq Ids' /\ \A i \in Ids : history'[i] = history[i]
      /\ \A i \in Ids' : i \in Nat /\ (i \notin Ids => i > L)
      /\ \A i \in Ids : i \in Nat /\ i <= L
      /\ L \in Nat
  BY <1>2, Newer
<1>4. /\ DOMAIN effects = {i \in Ids : IsScheduled(history[i])}
      /\ DOMAIN effects' = {i \in Ids' : IsScheduled(history'[i])}
      /\ \A i \in DOMAIN effects : effects[i] = history[i].ref
      /\ \A i \in DOMAIN effects' : effects'[i] = history'[i].ref
  BY DEF effects, Scheduled, IsScheduled
<1>5. /\ t.prev = prevStarted /\ prevStarted' = t.started /\ t.started \in Ids
      /\ t.started \in Nat /\ t.prev \in Nat
  BY CompletionRecords, CompletionGrows, Typed
<1>6. TickDecisions("respond", t)
  BY DEF RecordInv, RecordTick, Working
<1>7. ASSUME NEW p \in DOMAIN effects
      PROVE  /\ p \in DOMAIN effects' /\ effects'[p] = effects[p]
             /\ \A q \in new : p < q
  <2>1. p \in DOMAIN effects' /\ effects'[p] = effects[p]
    BY <1>3, <1>4
  <2>2. \A q \in new : q \in Nat /\ q > L
    BY <1>3, <1>4
  <2> QED BY <1>3, <1>4, <2>1, <2>2
<1>8. ASSUME NEW p \in new
      PROVE  effects'[p] \in Sequential!UpTo(prevStarted') \ Sequential!UpTo(prevStarted)
  <2>1. p \in Ids' /\ p \notin Ids /\ IsScheduled(history'[p]) /\ effects'[p] = history'[p].ref
    BY <1>3, <1>4
  <2>2. PICK k \in 1..Len(t.decisions) : /\ Asks(t.decisions[k])
                                         /\ history'[p].ref = t.decisions[k].ref
    BY <1>1, <2>1, CompletionEventFacts
  <2>3. effects'[p] \in Events(t) \cup Errors(t)
    BY <1>6, <2>1, <2>2 DEF TickDecisions
  <2>4. /\ effects'[p] \in 1..t.started /\ effects'[p] > prevStarted
        /\ IsShown(history[effects'[p]])
    BY <1>5, <2>3, WindowIds DEF Events, LastEvents, Errors, ErrorEvents, IsShown
  <2>5. effects'[p] \in Ids
    BY <1>3, <1>5, <2>4 DEF Ids
  <2>6. effects'[p] \in arrived
    BY <1>2, <2>4, <2>5, Arrived
  <2> QED BY <1>5, <2>4, <2>6 DEF Sequential!UpTo, arrived
<1>9. ASSUME NEW p \in new, NEW q \in new, effects'[p] = effects'[q]
      PROVE  p = q
  <2>1. /\ p \in Ids' /\ q \in Ids'
        /\ history'[p].type = "ActivityTaskScheduled"
        /\ history'[q].type = "ActivityTaskScheduled"
        /\ history'[p].ref = history'[q].ref
    BY <1>4, <1>9 DEF IsScheduled
  <2> QED BY <2>1 DEF IInv, EffectsAtMostOnce
<1> QED BY <1>7, <1>8, <1>9 DEF Sequential!Happens, effects

(* A completed task handles a batch.                                       *)
LEMMA BatchStep ==
  ASSUME IInv, IInv', RecordInv, RecordInv', LedgerInv, LedgerInv', NEW w \in Workers,
         pc[w] = "respond", CompleteTask(tick[w].started, tick[w].decisions)
  PROVE  Sequential!HandleBatch
<1> DEFINE t == tick[w]
<1>1. PICK u \in BOOLEAN, n \in 0..Len(t.decisions) : CompletionGrowth(t.decisions, n, u)
  BY CompletionGrows
<1>2. /\ HistoryKept /\ history \in Seq(HistoryEvent) /\ history' \in Seq(HistoryEvent)
  <2>1. HistoryKept
    BY <1>1 DEF CompletionGrowth
  <2> QED BY <2>1, Typed DEF IInv, TypeOK, ServiceTypeOK
<1>3. /\ Ids \subseteq Ids' /\ \A i \in Ids : history'[i] = history[i]
  BY <1>2, Newer
<1>4. /\ t.prev = prevStarted /\ prevStarted' = t.started /\ t.prev < t.started
      /\ t.started \in Nat /\ prevStarted \in Nat /\ t.started <= Len(history)
      /\ CompletedAt' = CompletedAt \cup {t.started}
  BY CompletionRecords, CompletionGrows, Typed DEF Ids
<1>5. Sequential!MoreArrive
  BY <1>2, Arrived DEF Sequential!MoreArrive, arrived
<1>6. ASSUME ~failed'
      PROVE  ~failed /\ applied' = Sequential!UpTo(prevStarted')
  <2>1. Clean' /\ WindowsFit'
    BY <1>6 DEF failed
  <2>2. Clean
    BY <1>3, <2>1 DEF Clean
  <2>3. WindowsFit
    <3>1. \A r \in CompletedAt : r \in Nat
      BY Typed DEF CompletedAt
    <3> QED BY <1>4, <2>1, <3>1, WindowsFitBefore DEF RecordInv
  <2>4. PICK i \in Ids' : IsRecorded(i)'
    BY DEF RecordInv, EventsInv
  <2>5. applied' = DeliveredUpTo(prevStarted)'
    BY <1>2, <2>1, <2>4, AppliedNext DEF LedgerInv, Accounts
  <2>6. DeliveredUpTo(prevStarted)' = DeliveredIn(history, prevStarted')
    BY <1>2, <1>4, LedgerTerms, UpToKept
  <2>7. Sequential!UpTo(prevStarted') = DeliveredIn(history, prevStarted')
    BY <1>2, <2>2, ArrivedClean DEF RecordInv, Sequential!UpTo, arrived, DeliveredIn, Ids
  <2> QED BY <2>2, <2>3, <2>5, <2>6, <2>7 DEF failed
<1>7. prevStarted < prevStarted'
  BY <1>4
<1> QED BY <1>5, <1>6, <1>7, BatchHappens DEF Sequential!HandleBatch, failed, applied

-----------------------------------------------------------------------------
LEMMA InitSequential ==
  ASSUME Init
  PROVE  Sequential!Init
<1> DEFINE d == Event("WorkflowExecutionStarted", "", 0)
           e == Event("DecisionTaskScheduled", "", 0)
<1>1. /\ d.type = "WorkflowExecutionStarted" /\ d.state = NoState
      /\ d.label = "" /\ e.type = "DecisionTaskScheduled" /\ e.state = NoState
  BY DEF Event
<1>2. history = <<d, e>> /\ prevStarted = 0
  BY DEF Init, ServiceInit
<1> HIDE DEF d, e
<1>3. Ids = {1, 2} /\ history[1] = d /\ history[2] = e /\ Len(history) = 2
  BY <1>2 DEF Ids
<1>4. arrived = {1}
  <2>1. Delivered(d) /\ ~Delivered(e) /\ ~isErrorSignal(e)
    BY <1>1 DEF Delivered, DecisionTaskTypes, isStateMarker, isErrorSignal
  <2> QED BY <1>3, <2>1 DEF arrived, ShownUpTo
<1>5. applied = {}
  <2>1. \A j \in Ids : IsRecorded(j) <=> j = 1
    <3>1. HoldsState(d) /\ ~HoldsState(e)
      BY <1>1 DEF HoldsState, isStateMarker
    <3>2. {j \in Ids : HoldsState(history[j])} = {1}
      BY <1>3, <3>1
    <3> QED BY <1>3, <3>2 DEF IsRecorded, IsNewest
  <2>2. (CHOOSE j \in Ids : IsRecorded(j)) = 1
    BY <1>3, <2>1
  <2>3. NoState.data.seen = {}
    BY DEF NoState, ZeroData
  <2> QED BY <1>1, <1>3, <2>2, <2>3 DEF applied
<1>6. effects = [p \in {} |-> 0]
  <2>1. Scheduled = {}
    BY <1>1, <1>3 DEF Scheduled
  <2> QED BY <2>1 DEF effects
<1>7. ~failed
  <2>1. Clean
    BY <1>1, <1>3 DEF Clean
  <2>2. CompletedAt = {}
    BY <1>1, <1>3 DEF CompletedAt
  <2> QED BY <2>1, <2>2 DEF failed, WindowsFit
<1> QED BY <1>2, <1>4, <1>5, <1>6, <1>7
        DEF Sequential!Init, arrived, applied, effects, failed

LEMMA StepSequential ==
  ASSUME IInv, IInv', RecordInv, RecordInv', LedgerInv, LedgerInv', [Next]_vars
  PROVE  [Sequential!Next]_(Sequential!vars)
<1>1. CASE MildGrowth /\ prevStarted' = prevStarted
  BY <1>1, ArriveStep DEF Sequential!Next
<1>2. ASSUME NEW w \in Workers, pc[w] = "respond",
             CompleteTask(tick[w].started, tick[w].decisions)
      PROVE  [Sequential!Next]_(Sequential!vars)
  BY <1>2, BatchStep DEF Sequential!Next
<1>3. CASE history' = history /\ prevStarted' = prevStarted
  BY <1>1, <1>3, Typed DEF MildGrowth, HistoryKept, Ids
<1>4. ASSUME NEW w \in Workers, WorkerStep(w)
      PROVE  [Sequential!Next]_(Sequential!vars)
  <2>1. CASE PollForTask(w)
    BY <1>1, <2>1, PollMild DEF PollForTask, StartTask
  <2>2. CASE Respond(w)
    BY <1>2, <2>2 DEF Respond
  <2>3. CASE FindState(w) \/ HandleErrorEvent(w) \/ RecoverState(w) \/ HandleEvent(w)
             \/ MissingState(w) \/ FinishTick(w) \/ StateSerializationFails(w)
             \/ RespondRefused(w) \/ Replicate(w)
    BY <1>3, <2>3 DEF FindState, HandleErrorEvent, RecoverState, HandleEvent,
                      MissingState, FinishTick, StateSerializationFails,
                      RespondRefused, Replicate, Local
  <2> QED BY <1>4, <2>1, <2>2, <2>3 DEF WorkerStep
<1>5. ASSUME NEW w \in Workers, WorkerFault(w)
      PROVE  [Sequential!Next]_(Sequential!vars)
  <2>1. CASE RespondReplyLost(w)
    BY <1>2, <2>1 DEF RespondReplyLost
  <2>2. CASE RespondRequestLost(w) \/ ReplicateFails(w) \/ ProcessPanics(w) \/ Crash(w)
    BY <1>3, <2>2 DEF RespondRequestLost, ReplicateFails, ProcessPanics, Crash
  <2> QED BY <1>5, <2>1, <2>2 DEF WorkerFault
<1>6. CASE TimeOutAbandoned \/ TimeOutSlow \/ Environment
  BY <1>1, <1>6, EnvironmentMild DEF RecordInv, MildStep
<1>7. CASE UNCHANGED vars
  BY <1>3, <1>7 DEF vars
<1> QED BY <1>4, <1>5, <1>6, <1>7, Zenon DEF Next

(* Any number of workers with any faults implements the single worker that  *)
(* is never interrupted (Tick, handleDecisionTask and the service's token). *)
THEOREM ImplementsSequential ==
  ASSUME Considerate
  PROVE  Spec => SequentialSpec
<1>1. Init => Sequential!Init
  BY InitSequential
<1> DEFINE I == IInv /\ RecordInv /\ LedgerInv
<1>2. ASSUME I, I', [Next]_vars
      PROVE  [Sequential!Next]_(Sequential!vars)
  BY <1>2, StepSequential
<1>3. Spec => []I
  BY LedgerInvariance
<1> HIDE DEF I
<1> QED BY <1>1, <1>2, <1>3, PTL DEF Spec, SequentialSpec, Sequential!Spec
=============================================================================
