--------------------------- MODULE FSMLedgerProof ---------------------------
(***************************************************************************)
(* The recorded state accounts for every event up to the last completed     *)
(* decision task, its version counts those tasks and its pending map is     *)
(* what is in flight, as long as no tick has failed: LedgerInv is an        *)
(* invariant when the user's part is considerate.                           *)
(***************************************************************************)
EXTENDS FSMRecordProof, FiniteSetTheorems

(* d is data after event i.                                                 *)
Absorbs(d, data, i) == d.form # "nil" /\ d.seen = data.seen \cup {i}

(* What a decider returns accounts for the event it was shown.             *)
LEMMA ShownForm ==
  ASSUME NEW data, NEW i
  PROVE  Shown(data, i).form # "nil" /\ Shown(data, i).seen = data.seen \cup {i}
  BY DEF Shown

(* So does the outcome, unless the state recovers from an error.            *)
LEMMA DecideShown ==
  ASSUME NEW state, NEW i \in Nat, NEW data, ~isErrorSignal(history[i]),
         "recover" \notin ErrorBehaviours, NEW o \in Decide(state, i, data), Returned(o)
  PROVE  Absorbs(o.data, data, i)
<1> DEFINE e == history[i]
           may == BehavioursIn(state)
           shown == Shown(data, i)
           from == Restored(i, e, shown)
           Fine(d) == d.form # "nil" /\ d.seen = data.seen \cup {i}
<1>1. Fine(shown) /\ Fine(Refused(shown))
  BY ShownForm DEF Refused, Shown
<1>2. from.data = shown
  BY DEF Restored
<1>3. "recover" \notin may
  BY BehavioursAssumption DEF BehavioursIn, AnyBehaviour
<1>4. \/ IsOutcome(o, "Stay", "", shown, i, e)
      \/ \E s \in States : IsOutcome(o, "Transition", s, shown, i, e)
      \/ IsOutcome(o, "Continue", "", shown, i, e)
      \/ IsOutcome(o, "Error", ErrorState, shown, i, e)
      \/ IsOutcome(o, "Stay", "", Refused(shown), i, e)
      \/ \E ds \in UserDecisions(i, e) : o = Complete(i, shown, ds)
      \/ IsOutcome(o, "Transition", from.state, from.data, i, e)
      \/ "recover" \in may /\ o = Outcome("Continue", "", NilData, <<>>)
      \/ o = Outcome("panic", "", shown, <<>>)
      \/ o = Outcome("nil", "", shown, <<>>)
  <2>1. o \in DeciderOutcomes(BehavioursIn(state), i, e, data)
    BY DEF Decide
  <2> QED BY <2>1, OutcomeShapes, Zenon
<1> HIDE DEF e, may, shown, from, Fine
<1>5. \/ \E kind, s : \E d \in {shown, Refused(shown)} : IsOutcome(o, kind, s, d, i, e)
      \/ \E ds : o = Complete(i, shown, ds)
      \/ \E kind : o = Outcome(kind, "", shown, <<>>)
  BY <1>2, <1>3, <1>4, Zenon
<1>6. CASE \E kind, s : \E d \in {shown, Refused(shown)} : IsOutcome(o, kind, s, d, i, e)
  <2>1. PICK kind, s :
          \E d \in {shown, Refused(shown)} : IsOutcome(o, kind, s, d, i, e)
    BY <1>6
  <2>2. PICK d \in {shown, Refused(shown)} : IsOutcome(o, kind, s, d, i, e)
    BY <2>1
  <2>3. o.data = d
    BY <2>2 DEF IsOutcome, Outcome
  <2> QED BY <1>1, <2>3 DEF Fine, Absorbs
<1>7. CASE \E ds : o = Complete(i, shown, ds)
  <2>1. PICK kind, s, ds : o = Outcome(kind, s, shown, ds)
    BY <1>7, Zenon DEF Complete
  <2>2. o.data = shown
    BY <2>1 DEF Outcome
  <2> QED BY <1>1, <2>2 DEF Fine, Absorbs
<1>8. CASE \E kind : o = Outcome(kind, "", shown, <<>>)
  <2>1. PICK kind : o = Outcome(kind, "", shown, <<>>)
    BY <1>8
  <2>2. o.data = shown
    BY <2>1 DEF Outcome
  <2> QED BY <1>1, <2>2 DEF Fine, Absorbs
<1> QED BY <1>5, <1>6, <1>7, <1>8

(* The complete state stays where it is or completes the workflow, or the    *)
(* process dies with data that cannot be the result.                       *)
LEMMA CompletesOnly ==
  ASSUME completeState = CompleteState, CompleteBehaviours \subseteq {"stay", "complete"},
         NEW i, NEW data \in Data, NEW o \in Decide(completeState, i, data)
  PROVE  /\ Returned(o) => \/ o.kind = "Stay"
                           \/ o.kind = "Complete" /\ o.state = completeState
         /\ ~Returned(o) => Kills(o, data)
<1> DEFINE e == history[i]
           may == BehavioursIn(completeState)
           shown == Shown(data, i)
           from == Restored(i, e, shown)
<1>1. may \subseteq {"stay", "complete"}
  BY SpecialStatesAssumption DEF BehavioursIn
<1>2. /\ "goto" \notin may /\ "continue" \notin may /\ "error" \notin may
      /\ "unserializable" \notin may /\ "restore" \notin may
      /\ "recover" \notin may /\ "panic" \notin may /\ "nil" \notin may
  BY <1>1
<1>3. \/ "stay" \in may /\ IsOutcome(o, "Stay", "", shown, i, e)
      \/ /\ "goto" \in may
         /\ \E s \in States : IsOutcome(o, "Transition", s, shown, i, e)
      \/ "continue" \in may /\ IsOutcome(o, "Continue", "", shown, i, e)
      \/ "error" \in may /\ IsOutcome(o, "Error", ErrorState, shown, i, e)
      \/ "unserializable" \in may /\ IsOutcome(o, "Stay", "", Refused(shown), i, e)
      \/ /\ "complete" \in may
         /\ \E ds \in UserDecisions(i, e) : o = Complete(i, shown, ds)
      \/ "restore" \in may /\ IsOutcome(o, "Transition", from.state, from.data, i, e)
      \/ "recover" \in may /\ o = Outcome("Continue", "", NilData, <<>>)
      \/ "panic" \in may /\ o = Outcome("panic", "", shown, <<>>)
      \/ "nil" \in may /\ o = Outcome("nil", "", shown, <<>>)
  <2>1. o \in DeciderOutcomes(BehavioursIn(completeState), i, e, data)
    BY DEF Decide
  <2> QED BY <2>1, OutcomeShapes, Zenon
<1>4. Shown(data, i).form = "unserializable" => data.form = "unserializable"
  BY DEF Shown
<1> HIDE DEF may, from, e
<1>5. CASE IsOutcome(o, "Stay", "", shown, i, e)
  <2>1. PICK ds \in UserDecisions(i, e) : o = Outcome("Stay", "", shown, ds)
    BY <1>5 DEF IsOutcome
  <2>2. o.kind = "Stay"
    BY <2>1 DEF Outcome
  <2> QED BY <2>2 DEF Returned
<1>6. CASE \E ds \in UserDecisions(i, e) : o = Complete(i, shown, ds)
  <2>1. PICK ds : o = Complete(i, shown, ds)
    BY <1>6
  <2>2. CASE shown.form = "unserializable"
    <3>1. o = Outcome("panic", "", shown, <<>>)
      BY <2>1, <2>2 DEF Complete
    <3>2. o.kind = "panic"
      BY <3>1 DEF Outcome
    <3> QED BY <1>4, <2>2, <3>2 DEF Returned, Kills
  <2>3. CASE shown.form # "unserializable"
    <3>1. o = Outcome("Complete", CompleteState, shown,
                      Append(ds, CompletionDecision(i)))
      BY <2>1, <2>3 DEF Complete
    <3> DEFINE ms == Append(ds, CompletionDecision(i))
    <3> HIDE DEF ms
    <3>2. o = Outcome("Complete", CompleteState, shown, ms)
      BY <3>1 DEF ms
    <3>3. o.kind = "Complete" /\ o.state = CompleteState
      BY <3>2 DEF Outcome
    <3> QED BY <3>3 DEF Returned
  <2> QED BY <2>2, <2>3
<1> QED BY <1>2, <1>3, <1>5, <1>6, Zenon

-----------------------------------------------------------------------------
(* Ticks that take no part in a step.                                      *)
LEMMA OthersLedger ==
  ASSUME IInv, HistoryKept,
         NEW v \in Workers, pc'[v] = pc[v], tick'[v] = tick[v],
         LedgerTick(pc[v], tick[v]),
         pc[v] \in Working /\ task' = StartedTask(tick[v].started)
           => task' = task /\ RecordKept
  PROVE  LedgerTick(pc[v], tick[v])'
<1> DEFINE t == tick[v]
<1> SUFFICES ASSUME pc[v] \in Working
             PROVE  LedgerTick(pc[v], tick[v])'
  BY DEF LedgerTick
<1>1. /\ Errors(tick[v])' = Errors(tick[v]) /\ Events(tick[v])' = Events(tick[v])
      /\ Handled(tick[v])' = Handled(t)
  BY TickKept
<1>2. Errors(t) = {} /\ pc[v] = "events" =>
           /\ t.data.form # "nil"
           /\ t.data.seen = t.saved.data.seen \cup Handled(t)
  BY DEF LedgerTick
<1>3. ASSUME Errors(tick[v])' = {}, pc'[v] = "respond", ~tick'[v].failed, Valid(tick[v])',
             NEW i \in Ids', IsRecorded(i)'
      PROVE  tick'[v].saved.data.seen = Recorded(i)'.data.seen \cup Events(tick[v])'
  <2>1. Valid(t) /\ i \in Ids /\ IsRecorded(i) /\ Recorded(i)' = Recorded(i)
    BY <1>3 DEF Valid, RecordKept
  <2>2. Errors(t) = {} /\ pc[v] = "respond" /\ ~t.failed
    BY <1>1, <1>3
  <2>3. t.saved.data.seen = Recorded(i).data.seen \cup Events(t)
    BY <2>1, <2>2 DEF LedgerTick
  <2> QED BY <1>1, <2>1, <2>3
<1>4. \A k \in 1..Len(t.decisions) : Completing(t.decisions[k]) =>
           \/ Errors(t) # {}
           \/ pc[v] = "events" /\ t.state = completeState
           \/ pc[v] = "respond" /\ ~t.failed
  BY DEF LedgerTick
<1> QED BY <1>1, <1>2, <1>3, <1>4 DEF LedgerTick, Completing

-----------------------------------------------------------------------------
(* What the events up to n say stays said.                                 *)
DeliveredIn(h, n) == {j \in 1..Len(h) : j <= n /\ Delivered(h[j])}
InFlightIn(h, n) == {j \in 1..Len(h) :
    /\ j <= n /\ IsScheduled(h[j])
    /\ \A k \in 1..Len(h) : k <= n /\ Closed(h[k]) => h[k].ref # j}
CompletionsIn(h) == {i \in 1..Len(h) : h[i].type = "DecisionTaskCompleted"}

LEMMA LedgerTerms ==
  /\ \A n : /\ DeliveredUpTo(n) = DeliveredIn(history, n)
            /\ InFlight(n) = InFlightIn(history, n)
  /\ CompletedTasks = Cardinality(CompletionsIn(history))
  /\ DeliveredUpTo(prevStarted)' = DeliveredIn(history', prevStarted')
  /\ InFlight(prevStarted)' = InFlightIn(history', prevStarted')
  /\ CompletedTasks' = Cardinality(CompletionsIn(history'))
<1>1. \A n : DeliveredUpTo(n) = DeliveredIn(history, n)
  BY DEF DeliveredUpTo, DeliveredIn, Ids
<1>2. \A n : InFlight(n) = InFlightIn(history, n)
  BY DEF InFlight, InFlightIn, Ids, IsScheduled, Closed
<1>3. CompletedTasks = Cardinality(CompletionsIn(history))
  BY DEF CompletedTasks, CompletionsIn, Ids
<1>4. DeliveredUpTo(prevStarted)' = DeliveredIn(history', prevStarted')
  BY DEF DeliveredUpTo, DeliveredIn, Ids, Delivered, isStateMarker, isErrorSignal
<1>5. InFlight(prevStarted)' = InFlightIn(history', prevStarted')
  BY DEF InFlight, InFlightIn, Ids, IsScheduled, Closed
<1>6. CompletedTasks' = Cardinality(CompletionsIn(history'))
  BY DEF CompletedTasks, CompletionsIn, Ids
<1> QED BY <1>1, <1>2, <1>3, <1>4, <1>5, <1>6

LEMMA UpToKept ==
  ASSUME history \in Seq(HistoryEvent), HistoryKept, NEW n \in Nat, n <= Len(history)
  PROVE  /\ DeliveredIn(history', n) = DeliveredIn(history, n)
         /\ InFlightIn(history', n) = InFlightIn(history, n)
<1>1. /\ Ids \subseteq Ids' /\ \A i \in Ids : history'[i] = history[i]
      /\ \A i \in Ids' : i <= n => i \in Ids
      /\ Ids = 1..Len(history) /\ Ids' = 1..Len(history')
  BY Newer
<1> QED BY <1>1 DEF DeliveredIn, InFlightIn

(* Steps that complete no task.                                            *)
LEMMA AccountsKept ==
  ASSUME IInv, Accounts, MildGrowth, prevStarted' = prevStarted
  PROVE  Accounts'
<1>1. /\ history \in Seq(HistoryEvent) /\ HistoryKept
      /\ prevStarted \in Nat /\ prevStarted <= Len(history)
  BY Typed DEF MildGrowth
<1>2. /\ Clean' <=> Clean
      /\ CompletedAt' = CompletedAt
      /\ \A i : IsRecorded(i)' <=> IsRecorded(i)
      /\ \A i \in Ids : Recorded(i)' = Recorded(i)
  BY <1>1, MildFacts
<1>3. WindowsFit' <=> WindowsFit
  BY <1>2 DEF WindowsFit
<1>4. CompletedTasks' = CompletedTasks
  <2>1. CompletionsIn(history') = CompletionsIn(history)
    <3>1. /\ Ids \subseteq Ids' /\ \A i \in Ids : history'[i] = history[i]
          /\ Ids = 1..Len(history) /\ Ids' = 1..Len(history')
      BY <1>1, Newer
    <3>2. \A i \in Ids' : i \notin Ids => history'[i].type # "DecisionTaskCompleted"
      BY DEF MildGrowth, Mild
    <3> QED BY <3>1, <3>2 DEF CompletionsIn
  <2> QED BY <2>1, LedgerTerms
<1>5. /\ DeliveredUpTo(prevStarted)' = DeliveredUpTo(prevStarted)
      /\ InFlight(prevStarted)' = InFlight(prevStarted)
  BY <1>1, UpToKept, LedgerTerms
<1>6. \A i : IsRecorded(i) => i \in Ids
  BY DEF IsRecorded, IsNewest
<1> SUFFICES ASSUME Clean', NEW i \in Ids', IsRecorded(i)'
             PROVE  /\ Recorded(i)'.version = CompletedTasks'
                    /\ WindowsFit' =>
                         /\ Recorded(i)'.data.seen = DeliveredUpTo(prevStarted)'
                         /\ Recorded(i)'.pending = InFlight(prevStarted)'
  BY DEF Accounts
<1>7. Clean /\ i \in Ids /\ IsRecorded(i) /\ Recorded(i)' = Recorded(i)
  BY <1>2, <1>6
<1> QED BY <1>3, <1>4, <1>5, <1>7 DEF Accounts

LEMMA MildStepLedger ==
  ASSUME IInv, LedgerInv, MildStep
  PROVE  LedgerInv'
<1>1. /\ history \in Seq(HistoryEvent) /\ prevStarted' = prevStarted
      /\ MildGrowth /\ HistoryKept
  BY Typed DEF MildStep, MildGrowth
<1>2. Accounts'
  BY <1>1, AccountsKept DEF LedgerInv
<1>3. ASSUME NEW v \in Workers
      PROVE  LedgerTick(pc[v], tick[v])'
  <2>1. task' = StartedTask(tick[v].started) => task' = task
    BY DEF MildStep, ScheduledTask, StartedTask
  <2>2. RecordKept
    BY <1>1, MildFacts
  <2> QED BY <1>1, <2>1, <2>2, OthersLedger DEF MildStep, LedgerInv
<1> QED BY <1>2, <1>3 DEF LedgerInv

LEMMA PollLedger ==
  ASSUME IInv, LedgerInv, NEW w \in Workers, PollForTask(w)
  PROVE  LedgerInv'
<1> DEFINE n == Len(history) + 1
           t == [IdleTick EXCEPT !.prev = prevStarted, !.started = n,
                                 !.errs = ErrorEvents(history', prevStarted, n),
                                 !.todo = LastEvents(history', prevStarted, n)]
<1>1. /\ TypeOK /\ history \in Seq(HistoryEvent) /\ Len(history) \in Nat
      /\ prevStarted \in Nat /\ n \in Nat
  BY Typed DEF IInv
<1>2. /\ task' = StartedTask(n)
      /\ Go(w, "begin", t) /\ prevStarted' = prevStarted
  BY DEF PollForTask, StartTask
<1>3. MildGrowth /\ HistoryKept
  BY PollMild
<1>4. t \in Tick /\ t.decisions = <<>>
  <2>1. /\ ErrorEvents(history', prevStarted, n) \in SUBSET Nat
        /\ LastEvents(history', prevStarted, n) \in SUBSET Nat
    BY <1>1, PageIds
  <2>2. IdleTick \in Tick
    BY DataTypes
  <2>3. t \in Tick
    BY <1>1, <2>1, <2>2 DEF Tick
  <2> QED BY <2>3 DEF IdleTick
<1> HIDE DEF t
<1>5. /\ pc'[w] = "begin" /\ tick'[w] = t
      /\ \A v \in Workers \ {w} : pc'[v] = pc[v] /\ tick'[v] = tick[v]
  BY <1>1, <1>2, <1>4, GoType DEF PCs
<1>6. Accounts'
  BY <1>2, <1>3, AccountsKept DEF LedgerInv
<1>7. LedgerTick(pc[w], tick[w])'
  BY <1>4, <1>5 DEF LedgerTick
<1>8. ASSUME NEW v \in Workers, v # w
      PROVE  LedgerTick(pc[v], tick[v])'
  <2>1. pc'[v] = pc[v] /\ tick'[v] = tick[v]
    BY <1>5, <1>8
  <2>2. pc[v] \in Working => task' # StartedTask(tick[v].started)
    <3>1. tick[v].started \in Nat
      BY Typed
    <3>2. pc[v] \in Working => tick[v].started <= Len(history)
      BY Typed DEF TickInv, TickPosition
    <3> QED BY <1>1, <1>2, <3>1, <3>2 DEF StartedTask
  <2> QED BY <1>3, <2>1, <2>2, OthersLedger DEF LedgerInv
<1> QED BY <1>6, <1>7, <1>8 DEF LedgerInv

LEMMA LedgerLocal ==
  ASSUME IInv, LedgerInv, NEW w \in Workers, NEW label \in PCs, NEW t \in Tick,
         Go(w, label, t), UNCHANGED <<history, task, prevStarted>>,
         LedgerTick(label, t)
  PROVE  LedgerInv'
<1>1. /\ pc'[w] = label /\ tick'[w] = t
      /\ \A v \in Workers \ {w} : pc'[v] = pc[v] /\ tick'[v] = tick[v]
  BY GoType DEF IInv
<1>2. MildGrowth /\ HistoryKept
  BY Typed DEF MildGrowth, HistoryKept, Ids
<1>3. /\ \A i : IsRecorded(i)' <=> IsRecorded(i)
      /\ \A i : Recorded(i)' = Recorded(i)
      /\ RecordKept
  BY DEF IsRecorded, Recorded, RecordKept, Ids
<1>4. Accounts'
  BY <1>2, AccountsKept DEF LedgerInv
<1>5. ASSUME NEW v \in Workers, v # w
      PROVE  LedgerTick(pc[v], tick[v])'
  BY <1>1, <1>2, <1>3, <1>5, OthersLedger DEF LedgerInv
<1>6. LedgerTick(pc[w], tick[w])'
  <2>1. /\ Errors(tick[w])' = Errors(t) /\ Events(tick[w])' = Events(t)
        /\ Handled(tick[w])' = Handled(t)
    BY <1>1 DEF Errors, Events, Handled
  <2> QED BY <1>1, <1>3, <2>1 DEF LedgerTick, Completing, Valid, Ids
<1> QED BY <1>4, <1>5, <1>6, <1>1 DEF LedgerInv

-----------------------------------------------------------------------------
(* A tick without error signals gives up only while it has not asked to      *)
(* complete the workflow.                                                  *)
LEMMA GiveUpLedger ==
  ASSUME IInv, LedgerInv, NEW w \in Workers, pc[w] \in Deciding,
         pc[w] = "events" /\ Errors(tick[w]) = {} => tick[w].state # completeState,
         NEW signal \in {ErrorSignal, SystemErrorSignal}, NEW report \in ErrorReport,
         Go(w, "respond", Failing(tick[w], captureError(signal, report))),
         UNCHANGED <<history, task, prevStarted>>
  PROVE  LedgerInv'
<1> DEFINE t == tick[w]
           d == captureError(signal, report)
           f == Failing(t, d)
           ds == t.decisions
<1>1. d \in Decision /\ ~Completing(d)
  <2>1. d \in Decision
    BY captureErrorProps
  <2>2. Reporting(d)
    BY ReportDecisions
  <2> QED BY <2>1, <2>2 DEF Reporting, Completing
<1>2. t \in Tick /\ LedgerTick(pc[w], t) /\ ds \in Seq(Decision)
  BY Typed DEF LedgerInv
<1>3. Append(ds, d) \in Seq(Decision)
  BY <1>1, <1>2, AppendProperties
<1>4. /\ f \in Tick /\ f.decisions = Append(ds, d) /\ f.failed = TRUE
      /\ f.prev = t.prev /\ f.started = t.started
  BY <1>2, <1>3 DEF Failing, Tick
<1> HIDE DEF d, f
<1>5. Errors(f) = Errors(t)
  BY <1>4 DEF Errors
<1>6. ASSUME Errors(t) = {}
      PROVE  \A k \in 1..Len(f.decisions) : ~Completing(f.decisions[k])
  <2>1. \A k \in 1..Len(ds) : ds[k] \in {x \in Decision : ~Completing(x)}
    BY <1>2, <1>6 DEF LedgerTick, Working, Deciding
  <2>2. ds \in Seq({x \in Decision : ~Completing(x)})
    BY <1>2, <2>1, SeqOf
  <2>3. Append(ds, d) \in Seq({x \in Decision : ~Completing(x)})
    BY <1>1, <2>2, AppendProperties
  <2> QED BY <1>4, <2>3, ElementsOf
<1>7. LedgerTick("respond", f)
  BY <1>4, <1>5, <1>6 DEF LedgerTick
<1> QED BY <1>4, <1>7, LedgerLocal DEF PCs, f, d

LEMMA SystemErrorLedger ==
  ASSUME IInv, LedgerInv, NEW w \in Workers, pc[w] \in Deciding,
         pc[w] = "events" /\ Errors(tick[w]) = {} => tick[w].state # completeState,
         NEW type \in ErrorTypes, NEW ids \in SUBSET Nat,
         Go(w, "respond", Failing(tick[w], captureSystemError(type, ids))), Local
  PROVE  LedgerInv'
<1> DEFINE report == [NoReport EXCEPT !.type = type, !.unprocessed = eventIDs(ids)]
<1>1. report \in ErrorReport
  BY ReportsTyped
<1>2. captureSystemError(type, ids) = captureError(SystemErrorSignal, report)
  BY DEF captureSystemError
<1> HIDE DEF report
<1> QED BY <1>1, <1>2, GiveUpLedger DEF Local

LEMMA DecisionErrorLedger ==
  ASSUME IInv, LedgerInv, NEW w \in Workers, pc[w] \in Deciding,
         pc[w] = "events" /\ Errors(tick[w]) = {} => tick[w].state # completeState,
         NEW i \in Nat, NEW ids \in SUBSET Nat,
         Go(w, "respond", Failing(tick[w],
              captureDecisionError(i, ids, tick[w].state, tick[w].data))), Local
  PROVE  LedgerInv'
<1> DEFINE t == tick[w]
           report == [type |-> "", failed |-> i,
                      unprocessed |-> eventIDs({j \in ids : j < i}),
                      state |-> t.state, data |-> Stored(t.data)]
<1>1. t.state \in StateNames /\ t.data \in Data
  BY Typed DEF Tick
<1>2. report \in ErrorReport
  BY <1>1, ReportsTyped
<1>3. captureDecisionError(i, ids, t.state, t.data) = captureError(ErrorSignal, report)
  BY DEF captureDecisionError
<1> HIDE DEF report
<1> QED BY <1>2, <1>3, GiveUpLedger DEF Local

LEMMA FindStateLedger ==
  ASSUME IInv, RecordInv, LedgerInv, NEW w \in Workers, FindState(w)
  PROVE  LedgerInv'
<1> DEFINE t == tick[w]
           S == StateEvents(history, t.started)
           Found(s) == [t EXCEPT !.saved = s, !.pending = s.pending,
                                 !.state = IF t.errs = {} THEN "" ELSE errorState,
                                 !.data = IF t.errs = {} THEN NilData ELSE ZeroData]
<1>1. /\ t \in Tick /\ t.started \in Nat /\ t.started <= Len(history)
      /\ Len(history) \in Nat /\ pc[w] = "begin" /\ pc[w] \in Deciding
      /\ Local /\ LedgerTick("begin", t)
  BY Typed DEF FindState, Deciding, Working, LedgerInv, TickInv, TickPosition
<1>2. CASE Go(w, "respond", Failing(t, captureSystemError("FindSerializedStateError",
                                                          Page(t.started))))
  BY <1>1, <1>2, PageIds, SystemErrorLedger DEF ErrorTypes
<1>3. ASSUME NEW i \in S, Go(w, "errors", Found(findSerializedState(history[i])))
      PROVE  LedgerInv'
  <2> DEFINE s == findSerializedState(history[i])
             t1 == Found(s)
  <2>1. i \in Ids /\ history[i] \in HistoryEvent
    BY <1>1, Typed DEF StateEvents, Page, Ids
  <2>2. s \in SerializedState
    BY <2>1, FoundProps
  <2>3. s.pending \in SUBSET Nat /\ errorState \in StateNames /\ "" \in StateNames
    BY <2>2 DEF SerializedState, StateNames
  <2> HIDE DEF s
  <2>4. /\ t1 \in Tick /\ t1.decisions = t.decisions
        /\ t1.prev = t.prev /\ t1.started = t.started
    BY <1>1, <2>2, <2>3, DataTypes DEF Tick
  <2>5. Go(w, "errors", t1)
    BY <1>3 DEF s
  <2> HIDE DEF t1
  <2>6. LedgerTick("errors", t1)
    BY <1>1, <2>4 DEF LedgerTick, Working, Deciding, Errors
  <2> QED BY <1>1, <2>4, <2>5, <2>6, LedgerLocal DEF PCs, Local
<1> QED BY <1>2, <1>3 DEF FindState

LEMMA HandleErrorEventLedger ==
  ASSUME IInv, RecordInv, LedgerInv, NEW w \in Workers, HandleErrorEvent(w)
  PROVE  LedgerInv'
<1> DEFINE t == tick[w]
           ids == ErrorEvents(history, t.prev, t.started)
<1>1. PICK i \in t.errs : \E o \in Decide(errorState, i, t.data) :
        IF Returned(o)
        THEN Go(w, "errors", [mergeOutcomes(t, o) EXCEPT !.errs = @ \ {i}])
        ELSE Go(w, "respond", Failing(t, captureDecisionError(i, ids,
                                                      t.state, t.data)))
  BY DEF HandleErrorEvent
<1>0. PICK o \in Decide(errorState, i, t.data) :
        IF Returned(o)
        THEN Go(w, "errors", [mergeOutcomes(t, o) EXCEPT !.errs = @ \ {i}])
        ELSE Go(w, "respond", Failing(t, captureDecisionError(i, ids,
                                                      t.state, t.data)))
  BY <1>1
<1>2. pc[w] = "errors" /\ pc[w] \in Deciding /\ Local
  BY DEF HandleErrorEvent, Deciding
<1>3. /\ t \in Tick /\ t.data \in Data /\ LedgerTick("errors", t)
      /\ RecordTick("errors", t)
  BY <1>2, Typed DEF LedgerInv, RecordInv, Tick
<1>4. i \in Nat /\ history[i] \in HistoryEvent
  BY <1>2, LeftEvents DEF Left
<1>5. CASE Returned(o)
  <2> DEFINE t1 == TurnedError(t, o, i)
  <2>1. GoodOutcome(o, i, t.data.seen \cup history[i].report.data.seen)
    BY <1>3, <1>4, DecideGood
  <2>2. Go(w, "errors", t1)
    BY <1>0, <1>5 DEF TurnedError
  <2>3. FollowsError(t1, t, o, i)
    BY <1>3, <2>1, MergedError
  <2> HIDE DEF t1
  <2>4. t1 \in Tick /\ Errors(t1) = Errors(t)
    BY <2>3 DEF FollowsError, Errors
  <2>5. i \in Errors(t)
    BY <1>1, <1>3 DEF RecordTick, Working, Deciding, TickEvents
  <2>6. LedgerTick("errors", t1)
    BY <2>4, <2>5 DEF LedgerTick
  <2> QED BY <1>2, <2>2, <2>4, <2>6, LedgerLocal DEF PCs, Local
<1>6. CASE ~Returned(o)
  <2>1. ids \in SUBSET Nat
    BY <1>3, PageIds DEF Tick
  <2>2. Go(w, "respond", Failing(t, captureDecisionError(i, ids, t.state, t.data)))
    BY <1>0, <1>6
  <2> QED BY <1>2, <1>4, <2>1, <2>2, DecisionErrorLedger
<1> QED BY <1>5, <1>6

LEMMA RecoverStateLedger ==
  ASSUME IInv, RecordInv, LedgerInv, NEW w \in Workers, RecoverState(w)
  PROVE  LedgerInv'
<1> DEFINE t == tick[w]
           t1 == [t EXCEPT !.state = t.saved.name, !.data = t.saved.data,
                           !.version = t.saved.version]
           d == captureSystemError("DeserializeStateError", Page(t.started))
<1>1. /\ t \in Tick /\ t.started \in Nat /\ t.saved \in SerializedState
      /\ pc[w] = "errors" /\ pc[w] \in Deciding /\ Local
      /\ RecordTick("errors", t) /\ LedgerTick("errors", t)
  BY Typed DEF RecordInv, LedgerInv, Tick, RecoverState, Deciding
<1>2. \/ Go(w, "events", t1)
      \/ Go(w, "respond", Failing(t, d))
      \/ Go(w, "events", t) /\ ~(t.data.form = "nil" /\ t.state = "")
  BY DEF RecoverState
<1>3. /\ TickEvents("errors", t) /\ TickFound("errors", t) /\ TickCarries("errors", t)
  BY <1>1 DEF RecordTick, Working, Deciding
<1>4. Handled(t) = {}
  BY <1>3 DEF TickEvents, Handled
<1>5. \A k \in 1..Len(t.decisions) : Completing(t.decisions[k]) => Errors(t) # {}
  BY <1>1 DEF LedgerTick, Working, Deciding
<1>6. CASE Go(w, "events", t1)
  <2>1. /\ t1 \in Tick /\ t1.prev = t.prev /\ t1.started = t.started
        /\ t1.todo = t.todo /\ t1.saved = t.saved /\ t1.data = t.saved.data
        /\ t1.decisions = t.decisions
    BY <1>1 DEF Tick, SerializedState
  <2> HIDE DEF t1
  <2>2. Handled(t1) = {} /\ Errors(t1) = Errors(t)
    BY <1>4, <2>1 DEF Events, Handled, Errors
  <2>3. t.saved.data.form # "nil"
    BY <1>3 DEF TickFound
  <2>4. LedgerTick("events", t1)
    BY <1>5, <2>1, <2>2, <2>3 DEF LedgerTick
  <2> QED BY <1>1, <1>6, <2>1, <2>4, LedgerLocal DEF PCs, Local
<1>7. CASE Go(w, "respond", Failing(t, d))
  BY <1>1, <1>7, PageIds, SystemErrorLedger DEF ErrorTypes
<1>8. CASE Go(w, "events", t) /\ ~(t.data.form = "nil" /\ t.state = "")
  <2>1. Errors(t) # {}
    <3>1. NilData.form = "nil"
      BY DEF NilData
    <3>2. Errors(t) = {} => t.state = "" /\ t.data = NilData
      BY <1>3 DEF TickCarries
    <3> QED BY <1>8, <3>1, <3>2
  <2>2. LedgerTick("events", t)
    BY <1>5, <2>1 DEF LedgerTick
  <2> QED BY <1>1, <1>8, <2>2, LedgerLocal DEF PCs, Local
<1> QED BY <1>2, <1>6, <1>7, <1>8

(* Merging an outcome keeps the link between completion and complete state. *)
CompletesInComplete(t) ==
  \A k \in 1..Len(t.decisions) : Completing(t.decisions[k]) => t.state = completeState

StaysComplete(t, o) ==
  t.state = completeState => \/ o.kind = "Stay"
                             \/ o.kind = "Complete" /\ o.state = completeState

LEMMA MergedCompletions ==
  ASSUME NEW t \in Tick, NEW o, NEW i, NEW seen, GoodOutcome(o, i, seen), Ordinary(o),
         NEW t1, NEW pending, FollowsOn(t1, t, o, i, pending),
         completeState = CompleteState, StaysComplete(t, o), CompletesInComplete(t)
  PROVE  CompletesInComplete(t1)
<1> DEFINE D == {d \in Decision : ~Completing(d)}
           ds == t.decisions
           os == o.decisions
<1>1. ds \in Seq(Decision) /\ os \in Seq(Decision)
  BY DEF Tick, GoodOutcome, PlainDecisions
<1> SUFFICES ASSUME t1.state # completeState
             PROVE  \A k \in 1..Len(t1.decisions) : ~Completing(t1.decisions[k])
  BY DEF CompletesInComplete
<1>0. /\ t1.decisions = ds \o os
      /\ t1.state = IF o.kind = "Stay" THEN t.state ELSE o.state
  BY DEF FollowsOn
<1>2. t.state # completeState /\ ~(o.kind = "Complete" /\ o.state = completeState)
  BY <1>0 DEF StaysComplete
<1>3. \A k \in 1..Len(ds) : ds[k] \in D
  BY <1>1, <1>2 DEF CompletesInComplete
<1>4. \A k \in 1..Len(os) : os[k] \in D
  BY <1>1, <1>2 DEF Ordinary
<1> HIDE DEF D
<1>5. ds \in Seq(D) /\ os \in Seq(D)
  BY <1>1, <1>3, <1>4, SeqOf
<1>6. t1.decisions \in Seq(D)
  BY <1>0, <1>5, ConcatProperties
<1>7. \A k \in 1..Len(t1.decisions) : t1.decisions[k] \in D
  BY <1>6, ElementsOf
<1> QED BY <1>7 DEF D

LEMMA HandleEventLedger ==
  ASSUME IInv, RecordInv, LedgerInv, Considerate, NEW w \in Workers, HandleEvent(w)
  PROVE  LedgerInv'
<1> DEFINE t == tick[w]
           ids == LastEvents(history, t.prev, t.started)
<1>1. PICK i \in t.todo : \E o \in Decide(t.state, i, t.data) :
        /\ ~Kills(o, t.data)
        /\ IF Returned(o)
           THEN Go(w, "events", [mergeOutcomes(t, o) EXCEPT !.todo = @ \ {i},
                                   !.pending = Track(@, i, history[i])])
           ELSE Go(w, "respond", Failing(t, captureDecisionError(i, ids,
                                                         t.state, t.data)))
  BY DEF HandleEvent
<1>0. PICK o \in Decide(t.state, i, t.data) :
        /\ ~Kills(o, t.data)
        /\ IF Returned(o)
           THEN Go(w, "events", [mergeOutcomes(t, o) EXCEPT !.todo = @ \ {i},
                                   !.pending = Track(@, i, history[i])])
           ELSE Go(w, "respond", Failing(t, captureDecisionError(i, ids,
                                                         t.state, t.data)))
  BY <1>1
<1>2. pc[w] = "events" /\ pc[w] \in Deciding /\ pc[w] \in Working /\ Local
  BY DEF HandleEvent, Deciding, Working
<1>3. /\ t \in Tick /\ t.data \in Data /\ TickInv(pc[w], t) /\ RecordTick("events", t)
      /\ LedgerTick("events", t)
  BY <1>2, Typed DEF RecordInv, LedgerInv, Tick
<1>4. i \in Left(t) /\ i \in Nat /\ history[i] \in HistoryEvent
  BY <1>2, LeftEvents DEF Left
<1>5. t.state = completeState => Returned(o) /\ StaysComplete(t, o)
  BY <1>0, <1>3, CompletesOnly DEF Considerate, StaysComplete
<1>6. CASE Returned(o)
  <2> DEFINE pending == Track(t.pending, i, history[i])
             t1 == [mergeOutcomes(t, o) EXCEPT !.todo = @ \ {i},
                                               !.pending = pending]
  <2>1. GoodOutcome(o, i, t.data.seen \cup history[i].report.data.seen) /\ Ordinary(o)
    BY <1>3, <1>4, DecideGood, DecideOrdinary DEF Tick
  <2>2. /\ pending \in SUBSET Nat /\ o.state \in StateNames /\ o.data \in Data
        /\ t.decisions \o o.decisions \in Seq(Decision)
    <3>1. t.decisions \in Seq(Decision) /\ o.decisions \in Seq(Decision)
      BY <1>3, <2>1 DEF Tick, GoodOutcome, PlainDecisions
    <3> QED BY <1>3, <1>4, <2>1, <3>1, TrackType, ConcatProperties DEF Tick, GoodOutcome
  <2>3. Go(w, "events", t1)
    <3>1. mergeOutcomes(t, o).pending = t.pending
      BY <1>3 DEF Tick, mergeOutcomes
    <3>2. [mergeOutcomes(t, o) EXCEPT !.todo = @ \ {i}, !.pending = Track(@, i, history[i])]
            = t1
      BY <1>3, <3>1 DEF Tick, mergeOutcomes
    <3> QED BY <1>0, <1>6, <3>2
  <2> HIDE DEF pending
  <2>0. t1 = Turned(t, o, i, pending)
    BY DEF Turned
  <2> HIDE DEF t1
  <2>4. FollowsOn(t1, t, o, i, pending)
    BY <1>3, <2>0, <2>1, <2>2, MergedTick
  <2>5. /\ Errors(t1) = Errors(t) /\ i \in Events(t)
        /\ Handled(t1) = Handled(t) \cup {i}
    BY <1>3, <2>4 DEF FollowsOn, Errors, Events, Handled, RecordTick, Working, Deciding,
                      TickEvents
  <2>6. ~isErrorSignal(history[i])
    BY <2>5 DEF Events, LastEvents, Delivered
  <2>7. o.data.form # "nil" /\ o.data.seen = t.data.seen \cup {i}
    <3>1. "recover" \notin ErrorBehaviours
      BY DEF Considerate
    <3>2. o \in Decide(t.state, i, t.data) /\ i \in Nat
      BY <1>4
    <3>3. Absorbs(o.data, t.data, i)
      BY <1>6, <2>6, <3>1, <3>2, DecideShown
    <3> QED BY <3>3 DEF Absorbs
  <2>8. Errors(t) = {} => t.data.seen = t.saved.data.seen \cup Handled(t)
    BY <1>3 DEF LedgerTick, Working, Deciding
  <2>9. StaysComplete(t, o) /\ completeState = CompleteState
    BY <1>5 DEF StaysComplete, Considerate
  <2>10. Errors(t) = {} => CompletesInComplete(t1)
    <3>1. Errors(t) = {} => CompletesInComplete(t)
      BY <1>3 DEF LedgerTick, Working, Deciding, CompletesInComplete
    <3> QED BY <1>3, <2>1, <2>4, <2>9, <3>1, MergedCompletions
  <2>11. Errors(t1) = {} => t1.data.form # "nil"
                            /\ t1.data.seen = t1.saved.data.seen \cup Handled(t1)
    BY <2>4, <2>5, <2>7, <2>8 DEF FollowsOn
  <2>12. LedgerTick("events", t1)
    BY <2>5, <2>10, <2>11 DEF LedgerTick, CompletesInComplete
  <2>13. t1 \in Tick
    BY <2>4 DEF FollowsOn
  <2> QED BY <1>2, <2>3, <2>12, <2>13, LedgerLocal DEF PCs, Local
<1>7. CASE ~Returned(o)
  <2>1. ids \in SUBSET Nat
    BY <1>3, PageIds DEF Tick
  <2>2. Go(w, "respond", Failing(t, captureDecisionError(i, ids, t.state, t.data)))
    BY <1>0, <1>7
  <2> QED BY <1>2, <1>4, <1>5, <1>7, <2>1, <2>2, DecisionErrorLedger
<1> QED BY <1>6, <1>7

LEMMA MissingStateLedger ==
  ASSUME IInv, RecordInv, LedgerInv, NEW w \in Workers, MissingState(w)
  PROVE  LedgerInv'
<1> DEFINE t == tick[w]
<1>1. PICK i \in t.todo :
        Go(w, "respond", Failing(t, captureSystemError("MissingFsmStateError",
             {j \in LastEvents(history, t.prev, t.started) : j <= i})))
  BY DEF MissingState
<1>2. pc[w] \in Deciding /\ Local /\ t.state # completeState
  BY DEF MissingState, Deciding, FSMStates
<1>3. {j \in LastEvents(history, t.prev, t.started) : j <= i} \in SUBSET Nat
  BY Typed, PageIds
<1> QED BY <1>1, <1>2, <1>3, SystemErrorLedger DEF ErrorTypes

(* The serializer of a considerate user takes every state.                  *)
LEMMA StateSerializationFailsLedger ==
  ASSUME Considerate, NEW w \in Workers, StateSerializationFails(w)
  PROVE  FALSE
BY DEF Considerate, StateSerializationFails

(* recordStateMarker: the data has been shown every event of the task.      *)
LEMMA FinishTickLedger ==
  ASSUME IInv, RecordInv, LedgerInv, NEW w \in Workers, FinishTick(w)
  PROVE  LedgerInv'
<1> DEFINE t == tick[w]
           ds == t.decisions
           s == [name |-> t.state, version |-> t.version + 1,
                 data |-> Stored(t.data), pending |-> t.pending]
           ms == <<Marker(s)>> \o ds
           t1 == [t EXCEPT !.saved = s, !.decisions = ms]
<1>1. /\ t \in Tick /\ ds \in Seq(Decision) /\ t.data \in Data
      /\ pc[w] = "events" /\ t.todo = {} /\ Local /\ RecordTick("events", t)
      /\ LedgerTick("events", t) /\ ~t.failed
  BY Typed DEF FinishTick, Tick, RecordInv, LedgerInv, TickInv, TickMarker, Working,
               Deciding
<1>2. Go(w, "respond", t1)
  BY DEF FinishTick, recordStateMarker
<1>3. s \in SerializedState
  <2>1. Stored(t.data) \in Data
    BY <1>1, StoredType
  <2> QED BY <1>1, <2>1 DEF Tick, SerializedState
<1>4. s.data = Stored(t.data)
  OBVIOUS
<1> HIDE DEF s
<1>5. Marker(s) \in Decision /\ ~Asks(Marker(s))
  BY <1>3, MarkerType DEF Marker, NewDecision, Asks
<1>6. ms \in Seq(Decision)
  BY <1>1, <1>5, ConcatFirst
<1> HIDE DEF ms
<1>7. /\ t1 \in Tick /\ t1.prev = t.prev /\ t1.started = t.started
      /\ t1.todo = t.todo /\ t1.saved = s /\ t1.failed = t.failed
  BY <1>1, <1>3, <1>6 DEF Tick
<1> HIDE DEF t1
<1>8. /\ Errors(t1) = Errors(t) /\ Events(t1) = Events(t) /\ Handled(t) = Events(t)
  BY <1>1, <1>7 DEF Errors, Events, Handled
<1>9. ASSUME Errors(t1) = {}, Valid(t1), NEW i \in Ids, IsRecorded(i)
      PROVE  t1.saved.data.seen = Recorded(i).data.seen \cup Events(t1)
  <2>1. t.data.form # "nil" /\ t.data.seen = t.saved.data.seen \cup Events(t)
    BY <1>1, <1>8, <1>9 DEF LedgerTick, Working, Deciding
  <2>2. t.saved = Recorded(i)
    BY <1>1, <1>7, <1>9 DEF RecordTick, Working, Deciding, TickFound, Valid
  <2> QED BY <1>4, <1>7, <1>8, <2>1, <2>2 DEF Stored
<1>10. LedgerTick("respond", t1)
  BY <1>1, <1>7, <1>9 DEF LedgerTick
<1> QED BY <1>1, <1>2, <1>7, <1>10, LedgerLocal DEF PCs, Local

-----------------------------------------------------------------------------
(* A task that shows an error signal follows a tick that failed.           *)
LEMMA ErrorsNotClean ==
  ASSUME IInv, RecordInv, NEW w \in Workers, pc[w] \in Working, Errors(tick[w]) # {}
  PROVE  ~Clean
<1> DEFINE t == tick[w]
<1>1. PICK i \in Errors(t) : TRUE
  OBVIOUS
<1>2. /\ t.started \in Nat /\ t.prev \in Nat /\ t.started <= Len(history)
      /\ Len(history) \in Nat
  BY Typed DEF TickInv, TickPosition, Tick
<1>3. i \in Ids /\ isErrorSignal(history[i])
  BY <1>1, <1>2 DEF Errors, ErrorEvents, Window, Page, Delivered, Ids
<1> QED BY <1>3 DEF RecordInv, EventsInv

(* A completed task.  A tick that failed reports it, so the history is not  *)
(* clean any more.                                                         *)
LEMMA FailureIsReported ==
  ASSUME IInv, RecordInv, LedgerInv, NEW w \in Workers, pc[w] = "respond",
         tick[w].failed, CompleteTask(tick[w].started, tick[w].decisions)
  PROVE  ~Clean'
<1> DEFINE t == tick[w]
           ds == t.decisions
           L == Len(history)
<1>1. PICK u \in BOOLEAN, n \in 0..Len(ds) : CompletionGrowth(ds, n, u)
  BY CompletionGrows
<1>2. /\ ds \in Seq(Decision) /\ Len(ds) \in Nat /\ L \in Nat
      /\ history \in Seq(HistoryEvent) /\ HistoryKept
  <2>1. HistoryKept
    BY <1>1 DEF CompletionGrowth
  <2>2. ds \in Seq(Decision) /\ history \in Seq(HistoryEvent)
    BY Typed
  <2> QED BY <2>1, <2>2
<1>3. PICK k \in 1..Len(ds) : Reporting(ds[k])
  BY DEF RecordInv, RecordTick, Working, TickDecisions
<1>0. ~Clean => ~Clean'
  BY <1>2, Newer DEF Clean, HistoryKept, Ids
<1> SUFFICES ASSUME Errors(t) = {}
             PROVE  ~Clean'
  BY <1>0, ErrorsNotClean DEF Working
<1>4. \A j \in 1..Len(ds) : ~Completing(ds[j])
  BY DEF LedgerInv, LedgerTick, Working
<1>5. n = Len(ds)
  <2>1. n < Len(ds) => n \in 1..Len(ds) /\ Completing(ds[n])
    <3>1. n < Len(ds) => n > 0 /\ Closes(ds, n, u)
      BY <1>1 DEF CompletionGrowth, Effective
    <3> QED BY <1>2, <3>1 DEF Closes, Completing
  <2> QED BY <1>2, <1>4, <2>1
<1> DEFINE i == L + 1 + k
<1>6. /\ i \in Ids' /\ i \notin Ids /\ ~(i > L + 1 + n) /\ i # L + 1
      /\ i - L - 1 = k
  <2>1. L + 1 + n <= Len(history')
    BY <1>1 DEF CompletionGrowth
  <2>2. Len(history') \in Nat /\ Ids = 1..L /\ Ids' = 1..Len(history')
    BY <1>2, Newer
  <2>3. k \in Nat /\ 1 <= k /\ k <= n
    BY <1>2, <1>5
  <2>4. L \in Nat
    BY <1>2
  <2> QED BY <2>1, <2>2, <2>3, <2>4
<1> HIDE DEF i
<1>7. history'[i] = DecisionEvent(ds[k], u)
  BY <1>1, <1>6 DEF CompletionGrowth
<1>8. Initiated(history'[i])
  BY <1>2, <1>3, <1>7, DecisionEventFacts
<1> QED BY <1>6, <1>8 DEF Clean, Initiated

(* No event before the window of the task is lost when the windows fit.     *)
LEMMA WholeWindow ==
  ASSUME NEW prev \in Nat, NEW s \in Nat, s <= PageSize \/ s <= prev + PageSize
  PROVE  \A i \in Nat : i \in Window(prev, s) <=> i \in 1..s /\ i > prev
BY PageAssumption DEF Window, Page

LEMMA WindowsFitBefore ==
  ASSUME WindowsFit', PrevStartedInv, prevStarted \in Nat,
         \A r \in CompletedAt : r \in Nat,
         NEW s \in Nat, prevStarted < s, CompletedAt' = CompletedAt \cup {s}
  PROVE  WindowsFit /\ (s <= PageSize \/ s <= prevStarted + PageSize)
<1>1. \A r \in CompletedAt : r \in Nat /\ r <= prevStarted /\ r < s
  BY DEF PrevStartedInv
<1>2. \A r \in CompletedAt \cup {s} :
        r <= PageSize \/ \E p \in CompletedAt \cup {s} : p < r /\ r <= p + PageSize
  BY DEF WindowsFit
<1>3. WindowsFit
  <2> SUFFICES ASSUME NEW r \in CompletedAt, ~(r <= PageSize)
               PROVE  \E p \in CompletedAt : p < r /\ r <= p + PageSize
    BY DEF WindowsFit
  <2>1. PICK p \in CompletedAt \cup {s} : p < r /\ r <= p + PageSize
    BY <1>2
  <2>2. p # s
    BY <1>1, <2>1
  <2> QED BY <2>1, <2>2
<1>4. ASSUME ~(s <= PageSize)
      PROVE  s <= prevStarted + PageSize
  <2>1. PICK p \in CompletedAt \cup {s} : p < s /\ s <= p + PageSize
    BY <1>2, <1>4
  <2>2. p \in CompletedAt
    BY <2>1
  <2> QED BY <1>1, <2>1, <2>2, PageAssumption
<1> QED BY <1>3, <1>4

(* What the recorded state and the window account for together.             *)
LEMMA DeliveredMore ==
  ASSUME NEW prev \in Nat, NEW s \in Nat, prev < s, s <= Len(history),
         history \in Seq(HistoryEvent), s <= PageSize \/ s <= prev + PageSize
  PROVE  DeliveredIn(history, s) = DeliveredIn(history, prev) \cup LastEvents(history, prev, s)
<1>1. Len(history) \in Nat
  OBVIOUS
<1>2. \A i \in Nat : i \in LastEvents(history, prev, s)
                       <=> i \in 1..s /\ i > prev /\ Delivered(history[i])
  BY WholeWindow DEF LastEvents
<1>3. \A i \in LastEvents(history, prev, s) : i \in Nat
  BY WindowIds DEF LastEvents
<1> QED BY <1>1, <1>2, <1>3 DEF DeliveredIn

LEMMA InFlightMore ==
  ASSUME NEW prev \in Nat, NEW s \in Nat, prev < s, s <= Len(history),
         history \in Seq(HistoryEvent), EventsInv,
         s <= PageSize \/ s <= prev + PageSize
  PROVE  InFlightIn(history, s) = Tracked(InFlightIn(history, prev), LastEvents(history, prev, s))
<1> DEFINE H == LastEvents(history, prev, s)
           A == InFlightIn(history, prev)
<1>1. Len(history) \in Nat /\ Ids = 1..Len(history)
  BY DEF Ids
<1>2. \A i \in Nat : i \in H <=> i \in 1..s /\ i > prev /\ Delivered(history[i])
  BY WholeWindow DEF LastEvents
<1>3. \A i \in H : i \in Nat
  BY WindowIds DEF LastEvents
<1>4. \A e : Closed(e) \/ IsScheduled(e) => Delivered(e)
  BY DEF Closed, ActivityClosed, IsScheduled, Delivered, DecisionTaskTypes,
         isStateMarker, isErrorSignal
<1>5. \A k \in 1..Len(history) : Closed(history[k]) =>
        history[k].ref \in Nat /\ history[k].ref < k
  <2>1. \A k \in 1..Len(history) : history[k] \in HistoryEvent
    BY <1>1
  <2> QED BY <1>1, <2>1 DEF EventsInv, HistoryEvent
<1> HIDE DEF H
<1>6. \A j : j \in A <=> /\ j \in 1..Len(history) /\ j <= prev /\ IsScheduled(history[j])
                         /\ \A k \in 1..Len(history) : k <= prev /\ Closed(history[k])
                              => history[k].ref # j
  BY DEF InFlightIn
<1> HIDE DEF A
<1>7. ASSUME NEW j \in Tracked(A, H)
      PROVE  j \in InFlightIn(history, s)
  <2>1. /\ j \in A \/ (j \in H /\ IsScheduled(history[j]))
        /\ \A k \in H : Closed(history[k]) => history[k].ref # j
    BY DEF Tracked
  <2>2. j \in 1..Len(history) /\ j <= s /\ IsScheduled(history[j])
    BY <1>1, <1>2, <1>3, <1>6, <2>1
  <2>3. ASSUME NEW k \in 1..Len(history), k <= s, Closed(history[k])
        PROVE  history[k].ref # j
    <3>1. CASE k > prev
      BY <1>1, <1>2, <1>4, <2>1, <2>3, <3>1
    <3>2. CASE ~(k > prev)
      <4>1. j \in A => history[k].ref # j
        BY <1>1, <1>6, <2>3, <3>2
      <4>2. j \in H => history[k].ref # j
        BY <1>1, <1>2, <1>3, <1>5, <2>3, <3>2
      <4> QED BY <2>1, <4>1, <4>2
    <3> QED BY <3>1, <3>2
  <2> QED BY <2>2, <2>3 DEF InFlightIn
<1>8. ASSUME NEW j \in InFlightIn(history, s)
      PROVE  j \in Tracked(A, H)
  <2>1. /\ j \in 1..Len(history) /\ j <= s /\ IsScheduled(history[j])
        /\ \A k \in 1..Len(history) : k <= s /\ Closed(history[k]) => history[k].ref # j
    BY DEF InFlightIn
  <2>2. CASE j <= prev
    <3>1. j \in A
      <4>1. \A k \in 1..Len(history) : k <= prev => k <= s
        BY <1>1
      <4> QED BY <1>6, <2>1, <2>2, <4>1
    <3>2. \A k \in H : k \in 1..Len(history) /\ k <= s
      BY <1>1, <1>2, <1>3
    <3> QED BY <2>1, <3>1, <3>2 DEF Tracked
  <2>3. CASE ~(j <= prev)
    <3>1. j \in H
      BY <1>1, <1>2, <1>4, <2>1, <2>3
    <3>2. \A k \in H : k \in 1..Len(history) /\ k <= s
      BY <1>1, <1>2, <1>3
    <3> QED BY <2>1, <3>1, <3>2 DEF Tracked
  <2> QED BY <2>2, <2>3
<1> QED BY <1>7, <1>8 DEF A, H

LEMMA OneMoreCompletion ==
  ASSUME IInv, RecordInv, NEW w \in Workers, pc[w] = "respond",
         CompleteTask(tick[w].started, tick[w].decisions)
  PROVE  CompletedTasks' = CompletedTasks + 1
<1> DEFINE L == Len(history)
           S == CompletionsIn(history)
<1>1. PICK u \in BOOLEAN, n \in 0..Len(tick[w].decisions) :
        CompletionGrowth(tick[w].decisions, n, u)
  BY CompletionGrows
<1>2. history \in Seq(HistoryEvent) /\ HistoryKept
  <2>1. HistoryKept
    BY <1>1 DEF CompletionGrowth
  <2> QED BY <2>1, Typed
<1>3. /\ Ids \subseteq Ids' /\ \A i \in Ids : history'[i] = history[i]
      /\ Ids = 1..L /\ Ids' = 1..Len(history') /\ L \in Nat
  BY <1>2, Newer
<1>4. /\ \A i \in Ids' : i \notin Ids =>
           (history'[i].type = "DecisionTaskCompleted" => i = L + 1)
      /\ L + 1 \in Ids' /\ history'[L + 1].type = "DecisionTaskCompleted"
  BY <1>1, CompletionEventFacts
<1>5. CompletionsIn(history') = S \cup {L + 1}
  BY <1>3, <1>4 DEF CompletionsIn
<1>6. L + 1 \notin S
  BY <1>3 DEF CompletionsIn
<1>7. IsFiniteSet(S)
  <2>1. S \subseteq 1..L
    BY DEF CompletionsIn
  <2>2. IsFiniteSet(1..L)
    BY <1>3, FS_Interval, 1 \in Int, L \in Int
  <2> HIDE DEF S
  <2> QED BY <2>1, <2>2, FS_Subset
<1>8. Cardinality(S \cup {L + 1}) = Cardinality(S) + 1
  BY <1>6, <1>7, FS_AddElement
<1> QED BY <1>5, <1>8, LedgerTerms

LEMMA CompletionAccounts ==
  ASSUME IInv, RecordInv, LedgerInv, NEW w \in Workers, pc[w] = "respond",
         CompleteTask(tick[w].started, tick[w].decisions)
  PROVE  Accounts'
<1> DEFINE t == tick[w]
           s == t.started
<1> SUFFICES ASSUME Clean', NEW i \in Ids', IsRecorded(i)'
             PROVE  /\ Recorded(i)'.version = CompletedTasks'
                    /\ WindowsFit' =>
                         /\ Recorded(i)'.data.seen = DeliveredUpTo(prevStarted)'
                         /\ Recorded(i)'.pending = InFlight(prevStarted)'
  BY DEF Accounts
<1>1. ~t.failed
  BY FailureIsReported
<1>2. /\ HistoryKept /\ history \in Seq(HistoryEvent) /\ prevStarted' = s
  <2>1. PICK u \in BOOLEAN, n \in 0..Len(t.decisions) : CompletionGrowth(t.decisions, n, u)
    BY CompletionGrows
  <2>2. HistoryKept
    BY <2>1 DEF CompletionGrowth
  <2> QED BY <2>2, Typed, CompletionGrows
<1>3. Clean
  BY <1>2, Newer DEF Clean
<1>4. /\ Recorded(i)' = t.saved /\ CompletedAt' = CompletedAt \cup {s}
      /\ s \in Ids /\ Valid(t) /\ t.prev = prevStarted /\ t.prev < s
  BY <1>1, CompletionRecords
<1>5. s \in Nat /\ prevStarted \in Nat /\ s <= Len(history) /\ Len(history) \in Nat
  BY <1>4, Typed DEF Ids
<1>6. Errors(t) = {}
  <2> SUFFICES ASSUME NEW j \in Errors(t)
               PROVE  FALSE
    OBVIOUS
  <2>1. j \in Ids /\ isErrorSignal(history[j])
    BY <1>4, <1>5, WindowIds DEF Errors, ErrorEvents, Ids
  <2> QED BY <1>3, <2>1 DEF RecordInv, EventsInv
<1>7. PICK k \in Ids : IsRecorded(k)
  BY DEF RecordInv, EventsInv
<1>8. Succeeds(t, Recorded(k))
  BY <1>1, <1>4, <1>7 DEF RecordInv, RecordTick, Working, TickRecords
<1>9. t.saved.data.seen = Recorded(k).data.seen \cup Events(t)
  BY <1>1, <1>4, <1>6, <1>7 DEF LedgerInv, LedgerTick, Working
<1>10. Recorded(i)'.version = CompletedTasks'
  <2>1. Recorded(k).version = CompletedTasks
    BY <1>3, <1>7 DEF LedgerInv, Accounts
  <2>2. CompletedTasks' = CompletedTasks + 1
    BY OneMoreCompletion
  <2> QED BY <1>4, <1>6, <1>8, <2>1, <2>2 DEF Succeeds
<1>11. ASSUME WindowsFit'
       PROVE  /\ Recorded(i)'.data.seen = DeliveredUpTo(prevStarted)'
              /\ Recorded(i)'.pending = InFlight(prevStarted)'
  <2>1. WindowsFit /\ (s <= PageSize \/ s <= prevStarted + PageSize)
    <3>1. \A r \in CompletedAt : r \in Nat
      BY Typed DEF CompletedAt
    <3> QED BY <1>4, <1>5, <1>11, <3>1, WindowsFitBefore DEF RecordInv
  <2>2. /\ Recorded(k).data.seen = DeliveredIn(history, prevStarted)
        /\ Recorded(k).pending = InFlightIn(history, prevStarted)
    BY <1>3, <1>7, <2>1, LedgerTerms DEF LedgerInv, Accounts
  <2>3. Events(t) = LastEvents(history, prevStarted, s)
    BY <1>4 DEF Events
  <2>4. t.saved.data.seen = DeliveredIn(history, s)
    BY <1>2, <1>4, <1>5, <1>9, <2>1, <2>2, <2>3, DeliveredMore
  <2>5. t.saved.pending = InFlightIn(history, s)
    BY <1>2, <1>4, <1>5, <1>8, <2>1, <2>2, <2>3, InFlightMore
       DEF Succeeds, RecordInv
  <2>6. /\ DeliveredUpTo(prevStarted)' = DeliveredIn(history, s)
        /\ InFlight(prevStarted)' = InFlightIn(history, s)
    BY <1>2, <1>5, LedgerTerms, UpToKept
  <2> QED BY <1>4, <2>4, <2>5, <2>6
<1> QED BY <1>10, <1>11

LEMMA CompletionLedger ==
  ASSUME IInv, RecordInv, LedgerInv, NEW w \in Workers, pc[w] = "respond",
         CompleteTask(tick[w].started, tick[w].decisions),
         NEW label \in {"poll", "replicate"}, NEW t1 \in Tick, Go(w, label, t1)
  PROVE  LedgerInv'
<1>1. PICK u \in BOOLEAN, n \in 0..Len(tick[w].decisions) :
        CompletionGrowth(tick[w].decisions, n, u)
  BY CompletionGrows
<1>2. HistoryKept
  BY <1>1 DEF CompletionGrowth
<1>3. task' \in {NoTask, ScheduledTask}
  BY CompletionGrows
<1>4. ASSUME NEW v \in Workers
      PROVE  LedgerTick(pc[v], tick[v])'
  <2>1. label \in PCs
    BY DEF PCs
  <2>2. CASE v = w
    <3>1. pc'[w] = label
      BY <2>1, GoType DEF IInv
    <3> QED BY <2>2, <3>1 DEF LedgerTick, Working, Deciding
  <2>3. CASE v # w
    <3>1. pc'[v] = pc[v] /\ tick'[v] = tick[v]
      BY <2>1, <2>3, GoType DEF IInv
    <3>2. task' # StartedTask(tick[v].started)
      BY <1>3 DEF NoTask, ScheduledTask, StartedTask
    <3> QED BY <1>2, <3>1, <3>2, OthersLedger DEF LedgerInv
  <2> QED BY <2>2, <2>3
<1> QED BY <1>4, CompletionAccounts DEF LedgerInv

LEMMA RespondLedger ==
  ASSUME IInv, RecordInv, LedgerInv, NEW w \in Workers, Respond(w) \/ RespondReplyLost(w)
  PROVE  LedgerInv'
<1> DEFINE t == tick[w]
<1>1. pc[w] = "respond" /\ CompleteTask(t.started, t.decisions)
  BY DEF Respond, RespondReplyLost
<1>2. Go(w, "poll", IdleTick) \/ Go(w, "replicate", t)
  BY DEF Respond, RespondReplyLost
<1>3. t \in Tick /\ IdleTick \in Tick
  BY Typed, DataTypes
<1> QED BY <1>1, <1>2, <1>3, CompletionLedger

LEMMA IdleLedger ==
  ASSUME IInv, LedgerInv, NEW w \in Workers,
         \/ RespondRefused(w) \/ RespondRequestLost(w) \/ ReplicateFails(w)
         \/ ProcessPanics(w) \/ Crash(w) \/ Replicate(w)
  PROVE  LedgerInv'
<1>1. Go(w, "poll", IdleTick) /\ UNCHANGED <<history, task, prevStarted>>
  BY DEF RespondRefused, RespondRequestLost, ReplicateFails, ProcessPanics, Crash,
         Replicate, Local
<1>2. LedgerTick("poll", IdleTick)
  BY DEF LedgerTick, Working, Deciding
<1> QED BY <1>1, <1>2, DataTypes, LedgerLocal DEF PCs

LEMMA InitLedger ==
  ASSUME Init
  PROVE  LedgerInv
<1> DEFINE d == Event("WorkflowExecutionStarted", "", 0)
           e == Event("DecisionTaskScheduled", "", 0)
<1>1. /\ d.type = "WorkflowExecutionStarted" /\ d.state = NoState
      /\ e.type = "DecisionTaskScheduled" /\ e.state = NoState
  BY DEF Event
<1>2. /\ NoState.version = 0 /\ NoState.pending = {} /\ NoState.data.seen = {}
      /\ NoState.name = ""
  BY DEF NoState, ZeroData
<1>3. /\ history = <<d, e>> /\ prevStarted = 0
      /\ pc = [w \in Workers |-> "poll"]
  BY DEF Init, ServiceInit
<1> HIDE DEF d, e
<1>4. /\ Ids = {1, 2} /\ history[1] = d /\ history[2] = e /\ Ids = 1..Len(history)
  BY <1>3 DEF Ids
<1>5. CompletedTasks = 0
  <2>1. CompletionsIn(history) = {}
    BY <1>1, <1>4 DEF CompletionsIn
  <2> QED BY <2>1, LedgerTerms, FS_EmptySet
<1>6. DeliveredUpTo(prevStarted) = {} /\ InFlight(prevStarted) = {}
  BY <1>3, <1>4 DEF DeliveredUpTo, InFlight
<1>7. ASSUME NEW i, IsRecorded(i)
      PROVE  /\ Recorded(i).version = 0 /\ Recorded(i).data.seen = {}
             /\ Recorded(i).pending = {}
  <2>1. i = 1
    BY <1>1, <1>4, <1>7 DEF IsRecorded, IsNewest, HoldsState, isStateMarker
  <2>2. Recorded(i) = [NoState EXCEPT !.name = initialState]
    BY <1>1, <1>2, <1>4, <2>1 DEF Recorded, findSerializedState
  <2>3. NoState = [name |-> "", version |-> 0, data |-> ZeroData, pending |-> {}]
    BY DEF NoState
  <2>4. Recorded(i).version = 0 /\ Recorded(i).data = ZeroData /\ Recorded(i).pending = {}
    BY <2>2, <2>3
  <2> QED BY <2>4 DEF ZeroData
<1>8. Accounts
  BY <1>5, <1>6, <1>7 DEF Accounts
<1>9. \A w \in Workers : LedgerTick(pc[w], tick[w])
  BY <1>3 DEF LedgerTick, Working, Deciding
<1> QED BY <1>8, <1>9 DEF LedgerInv

LEMMA StepLedger ==
  ASSUME IInv, RecordInv, LedgerInv, Considerate, [Next]_vars
  PROVE  LedgerInv'
<1>1. ASSUME NEW w \in Workers, WorkerStep(w)
      PROVE  LedgerInv'
  BY <1>1, PollLedger, FindStateLedger, HandleErrorEventLedger, RecoverStateLedger,
     HandleEventLedger, MissingStateLedger, FinishTickLedger,
     StateSerializationFailsLedger, RespondLedger, IdleLedger, Zenon DEF WorkerStep
<1>2. ASSUME NEW w \in Workers, WorkerFault(w)
      PROVE  LedgerInv'
  BY <1>2, RespondLedger, IdleLedger, Zenon DEF WorkerFault
<1>3. CASE TimeOutAbandoned \/ TimeOutSlow \/ Environment
  BY <1>3, EnvironmentMild, MildStepLedger DEF RecordInv
<1>4. CASE UNCHANGED vars
  <2>1. history' = history /\ UNCHANGED <<task, prevStarted, pc, tick, stream>>
    BY <1>4 DEF vars
  <2>2. MildStep
    BY <2>1, Typed DEF MildStep, MildGrowth, HistoryKept, Ids
  <2> QED BY <2>2, MildStepLedger
<1> QED BY <1>1, <1>2, <1>3, <1>4, Zenon DEF Next

-----------------------------------------------------------------------------
(* As long as no tick has failed the recorded state accounts for what came   *)
(* before the last completed task.                                          *)
THEOREM LedgerInvariance ==
  ASSUME Considerate
  PROVE  Spec => [](IInv /\ RecordInv /\ LedgerInv)
<1>1. Init => IInv /\ RecordInv /\ LedgerInv
  BY InitInv, InitRecord, InitLedger
<1>2. IInv /\ RecordInv /\ LedgerInv /\ [Next]_vars => (IInv /\ RecordInv /\ LedgerInv)'
  BY StepInv, StepRecord, StepLedger
<1> QED BY <1>1, <1>2, PTL DEF Spec

(* Every event up to the last completed task has been shown to a decider    *)
(* whose data led to the recorded state (Tick's loop and findLastEvents),   *)
(* however many workers, faults and retries there were, until a tick fails  *)
(* or more events come between two tasks than a page holds.                 *)
THEOREM EveryEventCounts ==
  ASSUME Considerate
  PROVE  Spec => []NoEventLost
<1>1. LedgerInv => NoEventLost
  BY DEF LedgerInv, Accounts, NoEventLost
<1> QED BY <1>1, LedgerInvariance, PTL

(* Until a tick fails StateVersion is the number of completed decision      *)
(* tasks, as fsm_models.go says (recordStateMarker).                        *)
THEOREM VersionIsTaskCount ==
  ASSUME Considerate
  PROVE  Spec => []VersionCountsCleanTasks
<1>1. LedgerInv => VersionCountsCleanTasks
  BY DEF LedgerInv, Accounts, VersionCountsCleanTasks, VersionCountsTasks
<1> QED BY <1>1, LedgerInvariance, PTL

(* ... and ActivitiesInfo returns the activities in flight when the task    *)
(* started (ActivityCorrelator.Track).                                      *)
THEOREM PendingIsKnown ==
  ASSUME Considerate
  PROVE  Spec => []CleanPendingIsInFlight
<1>1. LedgerInv => CleanPendingIsInFlight
  BY DEF LedgerInv, Accounts, CleanPendingIsInFlight, PendingIsInFlight
<1> QED BY <1>1, LedgerInvariance, PTL
=============================================================================
