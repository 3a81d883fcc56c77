--------------------------- MODULE FSMStatesProof ---------------------------
(***************************************************************************)
(* Every recorded state is a state of the FSM, when the user's names agree *)
(* with those of the outcomes.                                             *)
(***************************************************************************)
EXTENDS FSMRecordProof

Safe(d) == /\ Recording(d) => d.state.name \in Lasting
           /\ Restorable(d.report)

LEMMA SpecialStates ==
  /\ Lasting \subseteq FSMStates /\ States \subseteq Lasting
  /\ initialState \in Lasting /\ "" \notin Lasting
  /\ completeState \in Lasting => completeState = CompleteState
  /\ errorState \in Lasting => "recover" \notin ErrorBehaviours
  /\ "recover" \notin ErrorBehaviours => errorState \in Lasting
  /\ completeState = CompleteState => CompleteState \in Lasting
  /\ completeState # errorState
<1>1. /\ completeState \notin States /\ errorState \notin States
      /\ completeState # "" /\ errorState # "" /\ completeState # errorState
  BY SpecialStatesAssumption
<1>2. initialState \in States /\ "" \notin States
  BY StatesAssumption
<1>3. \A s : s \in Lasting <=> \/ s \in States
                               \/ s = completeState /\ completeState = CompleteState
                               \/ s = errorState /\ "recover" \notin ErrorBehaviours
  BY DEF Lasting
<1>4. Lasting \subseteq FSMStates /\ States \subseteq Lasting
  BY <1>3 DEF FSMStates
<1>5. completeState \in Lasting => completeState = CompleteState
  BY <1>1, <1>3
<1>6. errorState \in Lasting <=> "recover" \notin ErrorBehaviours
  BY <1>1, <1>3
<1>7. completeState = CompleteState => CompleteState \in Lasting
  BY <1>3
<1>8. initialState \in Lasting /\ "" \notin Lasting
  BY <1>1, <1>2, <1>3
<1> QED BY <1>1, <1>4, <1>5, <1>6, <1>7, <1>8

LEMMA NothingReported ==
  Restorable(NoReport)
  BY DEF Restorable, NoReport

(***************************************************************************)
(* What the deciders return leads to states that last.                     *)
(***************************************************************************)
(* The names a state's decider may use, and what its behaviours allow.       *)
LEMMA BehavioursLast ==
  ASSUME NamesKnown, NEW state, state \in Lasting \/ state = errorState
  PROVE  /\ "continue" \notin BehavioursIn(state)
         /\ "error" \in BehavioursIn(state) => ErrorState \in Lasting
         /\ "complete" \in BehavioursIn(state) => CompleteState \in Lasting
         /\ "restore" \in BehavioursIn(state) => "restore" \in ErrorBehaviours
         /\ "recover" \in BehavioursIn(state) =>
              state = errorState /\ "recover" \in ErrorBehaviours
<1> DEFINE may == BehavioursIn(state)
<1>1. \/ state = completeState /\ may = CompleteBehaviours
      \/ state = errorState /\ may = ErrorBehaviours
      \/ state \notin {completeState, errorState} /\ may = Behaviours
  BY SpecialStatesAssumption DEF BehavioursIn
<1>2. "restore" \in may \/ "recover" \in may =>
        state = errorState /\ may = ErrorBehaviours
  BY <1>1, BehavioursAssumption DEF AnyBehaviour
<1> HIDE DEF may
<1>3. "continue" \notin may
  BY <1>1 DEF NamesKnown
<1>4. "error" \in may => ErrorState \in Lasting
  <2>1. "error" \in may => errorState = ErrorState /\ "recover" \notin ErrorBehaviours
    BY <1>1 DEF NamesKnown
  <2> QED BY <2>1, SpecialStates
<1>5. "complete" \in may => CompleteState \in Lasting
  <2>1. state = completeState => completeState = CompleteState
    BY SpecialStates
  <2>2. "complete" \in may => completeState = CompleteState
    BY <1>1, <2>1 DEF NamesKnown
  <2> QED BY <2>2, SpecialStates
<1> QED BY <1>2, <1>3, <1>4, <1>5 DEF may

(* What an outcome leaves behind: a state the FSM keeps, except that an     *)
(* error state may stay in error, or recover, which ends in no state.      *)
LeavesIn(o, state) ==
    \/ /\ o.kind = "Stay"
       /\ {"stay", "unserializable"} \cap BehavioursIn(state) # {}
    \/ o.kind # "Stay" /\ o.state \in Lasting
    \/ /\ o.kind # "Stay" /\ state = errorState /\ "recover" \in ErrorBehaviours
       /\ o.state = "" /\ o.data = NilData

(* Whatever is decided in a state that lasts leaves such an outcome.        *)
LEMMA DecideLasting ==
  ASSUME NamesKnown, NEW state, state \in Lasting \/ state = errorState,
         NEW i, NEW data, NEW o \in Decide(state, i, data), Returned(o),
         Restorable(history[i].report)
  PROVE  LeavesIn(o, state)
<1> DEFINE e == history[i]
           may == BehavioursIn(state)
           shown == Shown(data, i)
           from == Restored(i, e, shown)
<1>1. \/ "stay" \in may /\ IsOutcome(o, "Stay", "", shown, i, e)
      \/ /\ "goto" \in may
         /\ \E s \in States : IsOutcome(o, "Transition", s, shown, i, e)
      \/ "continue" \in may /\ IsOutcome(o, "Continue", "", shown, i, e)
      \/ "error" \in may /\ IsOutcome(o, "Error", ErrorState, shown, i, e)
      \/ "unserializable" \in may /\ IsOutcome(o, "Stay", "", Refused(shown), i, e)
      \/ /\ "complete" \in may
         /\ \E ds \in UserDecisions(i, e) : o = Complete(i, shown, ds)
      \/ "restore" \in may /\ IsOutcome(o, "Transition", from.state, from.data, i, e)
      \/ "recover" \in may /\ o = Outcome("Continue", "", NilData, <<>>)
      \/ "panic" \in may /\ o = Outcome("panic", "", shown, <<>>)
      \/ "nil" \in may /\ o = Outcome("nil", "", shown, <<>>)
  <2>1. o \in DeciderOutcomes(BehavioursIn(state), i, e, data)
    BY DEF Decide
  <2> QED BY <2>1, OutcomeShapes, Zenon
<1>2. /\ "continue" \notin may
      /\ "error" \in may => ErrorState \in Lasting
      /\ "complete" \in may => CompleteState \in Lasting
      /\ "recover" \in may => state = errorState /\ "recover" \in ErrorBehaviours
  BY BehavioursLast
<1>3. States \subseteq Lasting
  BY SpecialStates
<1>4. "restore" \in may => from.state \in Lasting
  <2>1. "restore" \in may => "restore" \in ErrorBehaviours
    BY BehavioursLast
  <2>2. initialState \in Lasting
    BY SpecialStates
  <2> QED BY <2>1, <2>2 DEF Restored, Restorable
<1> HIDE DEF e, may, from, shown
<1>5. ASSUME NEW kind, NEW s, NEW d, IsOutcome(o, kind, s, d, i, e)
      PROVE  o.kind = kind /\ o.state = s
  <2>1. PICK ds \in UserDecisions(i, e) : o = Outcome(kind, s, d, ds)
    BY <1>5 DEF IsOutcome
  <2> QED BY <2>1 DEF Outcome
<1>6. ASSUME NEW kind, NEW s, NEW d, NEW ds, o = Outcome(kind, s, d, ds)
      PROVE  o.kind = kind /\ o.state = s /\ o.data = d
  BY <1>6 DEF Outcome
<1>7. ASSUME NEW ds, o = Complete(i, shown, ds)
      PROVE  o.kind = "Complete" /\ o.state = CompleteState
  <2>1. CASE shown.form = "unserializable"
    <3>1. o = Outcome("panic", "", shown, <<>>)
      BY <1>7, <2>1 DEF Complete
    <3>2. o.kind = "panic"
      BY <3>1 DEF Outcome
    <3> QED BY <3>2 DEF Returned
  <2>2. CASE shown.form # "unserializable"
    <3>1. PICK ms : o = Outcome("Complete", CompleteState, shown, ms)
      BY <1>7, <2>2 DEF Complete
    <3> QED BY <3>1 DEF Outcome
  <2> QED BY <2>1, <2>2
<1>8. /\ o # Outcome("panic", "", shown, <<>>)
      /\ o # Outcome("nil", "", shown, <<>>)
  BY <1>6 DEF Returned
<1>9. \/ o.kind = "Stay" /\ ("stay" \in may \/ "unserializable" \in may)
      \/ \E s \in States : o.kind = "Transition" /\ o.state = s
      \/ "error" \in may /\ o.kind = "Error" /\ o.state = ErrorState
      \/ "restore" \in may /\ o.kind = "Transition" /\ o.state = from.state
      \/ "complete" \in may /\ o.kind = "Complete" /\ o.state = CompleteState
      \/ /\ "recover" \in may /\ o.kind = "Continue"
         /\ o.state = "" /\ o.data = NilData
  BY <1>1, <1>2, <1>5, <1>6, <1>7, <1>8, Zenon
<1>10. \/ o.kind = "Stay" /\ ("stay" \in may \/ "unserializable" \in may)
       \/ o.kind # "Stay" /\ o.state \in Lasting
       \/ /\ o.kind # "Stay" /\ state = errorState /\ "recover" \in ErrorBehaviours
          /\ o.state = "" /\ o.data = NilData
  BY <1>2, <1>3, <1>4, <1>9
<1> QED BY <1>10 DEF may, LeavesIn

(* A panic that leaves the process alive is the user's.                     *)
LEMMA PanicsAsked ==
  ASSUME NEW state, NEW i, NEW data, NEW o \in Decide(state, i, data),
         ~Returned(o), ~Kills(o, data)
  PROVE  "panic" \in BehavioursIn(state)
<1> DEFINE e == history[i]
           may == BehavioursIn(state)
           shown == Shown(data, i)
           from == Restored(i, e, shown)
<1>1. \/ "stay" \in may /\ IsOutcome(o, "Stay", "", shown, i, e)
      \/ /\ "goto" \in may
         /\ \E s \in States : IsOutcome(o, "Transition", s, shown, i, e)
      \/ "continue" \in may /\ IsOutcome(o, "Continue", "", shown, i, e)
      \/ "error" \in may /\ IsOutcome(o, "Error", ErrorState, shown, i, e)
      \/ "unserializable" \in may /\ IsOutcome(o, "Stay", "", Refused(shown), i, e)
      \/ /\ "complete" \in may
         /\ \E ds \in UserDecisions(i, e) : o = Complete(i, shown, ds)
      \/ "restore" \in may /\ IsOutcome(o, "Transition", from.state, from.data, i, e)
      \/ "recover" \in may /\ o = Outcome("Continue", "", NilData, <<>>)
      \/ "panic" \in may /\ o = Outcome("panic", "", shown, <<>>)
      \/ "nil" \in may /\ o = Outcome("nil", "", shown, <<>>)
  <2>1. o \in DeciderOutcomes(BehavioursIn(state), i, e, data)
    BY DEF Decide
  <2> QED BY <2>1, OutcomeShapes, Zenon
<1>2. shown.form = "unserializable" => data.form = "unserializable"
  BY DEF Shown
<1> HIDE DEF e, may, from, shown
<1>3. ASSUME NEW kind \in {"Stay", "Transition", "Continue", "Error"}, NEW s, NEW d
      PROVE  ~IsOutcome(o, kind, s, d, i, e)
  <2> SUFFICES ASSUME NEW ds \in UserDecisions(i, e), o = Outcome(kind, s, d, ds)
               PROVE  FALSE
    BY DEF IsOutcome
  <2> QED BY DEF Outcome, Returned
<1>4. ASSUME NEW ds, o = Complete(i, shown, ds)
      PROVE  FALSE
  <2>1. CASE shown.form = "unserializable"
    <3>1. o = Outcome("panic", "", shown, <<>>)
      BY <1>4, <2>1 DEF Complete
    <3>2. o.kind = "panic"
      BY <3>1 DEF Outcome
    <3> QED BY <1>2, <2>1, <3>2 DEF Kills
  <2>2. CASE shown.form # "unserializable"
    <3>1. PICK ms : o = Outcome("Complete", CompleteState, shown, ms)
      BY <1>4, <2>2 DEF Complete
    <3>2. o.kind = "Complete"
      BY <3>1 DEF Outcome
    <3> QED BY <3>2 DEF Returned
  <2> QED BY <2>1, <2>2
<1>5. ASSUME NEW kind, NEW d, NEW ds, o = Outcome(kind, "", d, ds)
      PROVE  o.kind = kind
  BY <1>5 DEF Outcome
<1>6. o # Outcome("Continue", "", NilData, <<>>)
  BY <1>5 DEF Returned
<1>7. o # Outcome("nil", "", shown, <<>>)
  BY <1>5 DEF Kills
<1>8. "panic" \in may
  BY <1>1, <1>3, <1>4, <1>6, <1>7
<1> QED BY <1>8 DEF may

(* A decider's decisions record no state and report no failure.             *)
LEMMA MergedSafe ==
  ASSUME NEW ds \in Seq(Decision), \A k \in 1..Len(ds) : Safe(ds[k]),
         NEW o, NEW i, NEW seen, GoodOutcome(o, i, seen), Ordinary(o)
  PROVE  \A k \in 1..Len(ds \o o.decisions) : Safe((ds \o o.decisions)[k])
<1> DEFINE D == {x \in Decision : Safe(x)}
           os == o.decisions
           ms == ds \o os
<1>1. os \in Seq(Decision) /\ PlainDecisions(os, i)
  BY DEF GoodOutcome, PlainDecisions
<1>2. \A k \in 1..Len(os) : Safe(os[k])
  <2>1. \A k \in 1..Len(os) : os[k].report = NoReport
    BY <1>1 DEF PlainDecisions
  <2>2. \A k \in 1..Len(os) : ~Recording(os[k])
    BY DEF Ordinary
  <2> QED BY <2>1, <2>2, NothingReported DEF Safe
<1>3. ds \in Seq(D) /\ os \in Seq(D)
  <2>1. \A k \in 1..Len(ds) : ds[k] \in D
    OBVIOUS
  <2>2. \A k \in 1..Len(os) : os[k] \in D
    BY <1>1, <1>2
  <2> HIDE DEF D
  <2> QED BY <1>1, <2>1, <2>2, SeqOf
<1> HIDE DEF D, os
<1>4. ms \in Seq(D)
  BY <1>3, ConcatProperties
<1> HIDE DEF ms
<1>5. \A k \in 1..Len(ms) : ms[k] \in D
  BY <1>4, ElementsOf
<1> QED BY <1>5 DEF D, ms, os

(***************************************************************************)
(* Steps that leave the history alone, or add to it what it said already.   *)
(***************************************************************************)
LEMMA StateOf ==
  ASSUME IInv, StateInv, NEW w \in Workers
  PROVE  /\ tick[w] \in Tick /\ tick[w].decisions \in Seq(Decision)
         /\ StateTick(pc[w], tick[w])
         /\ pc[w] \in Working =>
              \A k \in 1..Len(tick[w].decisions) : Safe(tick[w].decisions[k])
  BY Typed DEF StateInv, StateTick, Safe

LEMMA StateLocal ==
  ASSUME IInv, StateInv, NEW w \in Workers, NEW label \in PCs, NEW t \in Tick,
         Go(w, label, t), history' = history, StateTick(label, t)
  PROVE  StateInv'
<1>1. /\ pc'[w] = label /\ tick'[w] = t
      /\ \A v \in Workers \ {w} : pc'[v] = pc[v] /\ tick'[v] = tick[v]
  BY GoType DEF IInv
<1>2. ASSUME NEW v \in Workers
      PROVE  StateTick(pc'[v], tick'[v])
  BY <1>1 DEF StateInv
<1>3. \A i \in Ids' :
        /\ HoldsState(history'[i]) => findSerializedState(history'[i]).name \in Lasting
        /\ Restorable(history'[i].report)
  BY DEF StateInv, Ids
<1> QED BY <1>2, <1>3 DEF StateInv, StateTick, HoldsState, isStateMarker,
                          findSerializedState, Restorable, Recording

LEMMA StateGrowth ==
  ASSUME IInv, StateInv, UNCHANGED <<pc, tick>>, MildGrowth, QuietGrowth
  PROVE  StateInv'
<1>1. PICK es \in Seq(HistoryEvent) : Grows(es) /\ \A k \in 1..Len(es) : Quiet(es[k])
  BY DEF QuietGrowth
<1>2. history \in Seq(HistoryEvent) /\ HistoryKept
  BY Typed DEF MildGrowth
<1>3. ASSUME NEW i \in Ids'
      PROVE  /\ HoldsState(history'[i]) =>
                  findSerializedState(history'[i]).name \in Lasting
             /\ Restorable(history'[i].report)
  <2>1. CASE i \in Ids
    BY <1>2, <2>1, Newer DEF StateInv
  <2>2. CASE i \notin Ids
    <3>1. ~HoldsState(history'[i])
      BY <2>2 DEF MildGrowth, Mild
    <3>2. i \in 1..Len(history') /\ i > Len(history)
      BY <1>2, <2>2, Newer
    <3>3. Quiet(history'[i])
      BY <1>1, <3>2 DEF Grows
    <3>4. \/ history'[i].report = NoReport
          \/ \E j \in Ids : history'[i].report = history[j].report
      BY <3>3 DEF Quiet
    <3> QED BY <3>1, <3>4, NothingReported DEF StateInv
  <2> QED BY <2>1, <2>2
<1>4. \A v \in Workers : StateTick(pc'[v], tick'[v])
  BY DEF StateInv
<1> QED BY <1>3, <1>4 DEF StateInv, StateTick, HoldsState, isStateMarker,
                          findSerializedState, Restorable, Recording

LEMMA EnvironmentState ==
  ASSUME IInv, RecordInv, StateInv, Environment \/ TimeOutAbandoned \/ TimeOutSlow
  PROVE  StateInv'
<1>1. MildStep
  BY EnvironmentMild DEF RecordInv
<1>2. EnvStep
  BY EnvironmentSteps DEF IInv
<1> QED BY <1>1, <1>2, StateGrowth DEF MildStep, EnvStep

LEMMA PollState ==
  ASSUME IInv, StateInv, NEW w \in Workers, PollForTask(w)
  PROVE  StateInv'
<1> DEFINE n == Len(history) + 1
           t == [IdleTick EXCEPT !.prev = prevStarted, !.started = n,
                                 !.errs = ErrorEvents(history', prevStarted, n),
                                 !.todo = LastEvents(history', prevStarted, n)]
           e == Event("DecisionTaskStarted", "", 0)
<1>1. /\ history \in Seq(HistoryEvent) /\ Len(history) \in Nat
      /\ prevStarted \in Nat /\ n \in Nat
  BY Typed
<1>2. /\ history' = Append(history, e) /\ Go(w, "begin", t)
  BY DEF PollForTask, StartTask
<1>3. MildGrowth /\ HistoryKept
  BY PollMild
<1>4. t \in Tick /\ t.decisions = <<>>
  <2>1. /\ ErrorEvents(history', prevStarted, n) \in SUBSET Nat
        /\ LastEvents(history', prevStarted, n) \in SUBSET Nat
    BY <1>1, PageIds
  <2>2. IdleTick \in Tick
    BY DataTypes
  <2>3. t \in Tick
    BY <1>1, <2>1, <2>2 DEF Tick
  <2> QED BY <2>3 DEF IdleTick
<1> HIDE DEF t
<1>5. /\ pc'[w] = "begin" /\ tick'[w] = t
      /\ \A v \in Workers \ {w} : pc'[v] = pc[v] /\ tick'[v] = tick[v]
  BY <1>2, <1>4, GoType DEF IInv, PCs
<1>6. ASSUME NEW v \in Workers
      PROVE  StateTick(pc'[v], tick'[v])
  <2>1. CASE v = w
    <3>1. StateTick("begin", t)
      BY <1>4 DEF StateTick
    <3> QED BY <1>5, <2>1, <3>1
  <2>2. CASE v # w
    BY <1>5, <2>2 DEF StateInv
  <2> QED BY <2>1, <2>2
<1>7. ASSUME NEW i \in Ids'
      PROVE  /\ HoldsState(history'[i]) =>
                  findSerializedState(history'[i]).name \in Lasting
             /\ Restorable(history'[i].report)
  <2>1. CASE i \in Ids
    BY <1>1, <1>3, <2>1, Newer DEF StateInv
  <2>2. CASE i \notin Ids
    <3>1. ~HoldsState(history'[i])
      BY <1>3, <2>2 DEF MildGrowth, Mild
    <3>2. history'[i] = e
      <4>1. i \in 1..Len(history') /\ i \notin 1..Len(history) /\ Len(history') = n
        BY <2>2, PollMild DEF Ids
      <4>2. i = n
        BY <1>1, <4>1
      <4>3. e \in HistoryEvent
        BY EventType DEF EventTypes, Labels
      <4> HIDE DEF e
      <4> QED BY <1>1, <1>2, <4>2, <4>3, AppendProperties
    <3>3. e.report = NoReport
      BY DEF Event
    <3> HIDE DEF e
    <3> QED BY <3>1, <3>2, <3>3, NothingReported
  <2> QED BY <2>1, <2>2
<1> QED BY <1>6, <1>7 DEF StateInv, StateTick, HoldsState, isStateMarker,
                          findSerializedState, Restorable, Recording

(***************************************************************************)
(* A tick gives up.                                                        *)
(***************************************************************************)
LEMMA GiveUpState ==
  ASSUME IInv, StateInv, NEW w \in Workers, pc[w] \in Deciding,
         NEW signal \in {ErrorSignal, SystemErrorSignal}, NEW report \in ErrorReport,
         Restorable(report),
         Go(w, "respond", Failing(tick[w], captureError(signal, report))),
         history' = history
  PROVE  StateInv'
<1> DEFINE t == tick[w]
           d == captureError(signal, report)
           f == Failing(t, d)
           ds == t.decisions
<1>1. d \in Decision /\ Safe(d)
  <2>1. d \in Decision /\ d.report = report
    BY captureErrorProps
  <2>2. Reporting(d)
    BY ReportDecisions
  <2> QED BY <2>1, <2>2 DEF Reporting, Recording, Safe
<1>2. t \in Tick /\ ds \in Seq(Decision) /\ \A k \in 1..Len(ds) : Safe(ds[k])
  BY StateOf DEF Working
<1> HIDE DEF d
<1>3. ds \in Seq({x \in Decision : Safe(x)})
  BY <1>2, SeqOf
<1>4. Append(ds, d) \in Seq({x \in Decision : Safe(x)})
  BY <1>1, <1>3, AppendProperties
<1>5. Append(ds, d) \in Seq(Decision)
  BY <1>1, <1>2, AppendProperties
<1>6. f \in Tick /\ f.decisions = Append(ds, d)
  BY <1>2, <1>5 DEF Failing, Tick
<1> HIDE DEF f
<1>7. \A k \in 1..Len(f.decisions) : Safe(f.decisions[k])
  BY <1>4, <1>6, ElementsOf
<1>8. StateTick("respond", f)
  BY <1>7 DEF StateTick, Safe
<1> QED BY <1>6, <1>8, StateLocal DEF PCs, f, d

LEMMA SystemErrorState ==
  ASSUME IInv, StateInv, NEW w \in Workers, pc[w] \in Deciding,
         NEW type \in ErrorTypes, NEW ids \in SUBSET Nat,
         Go(w, "respond", Failing(tick[w], captureSystemError(type, ids))), Local
  PROVE  StateInv'
<1> DEFINE report == [NoReport EXCEPT !.type = type, !.unprocessed = eventIDs(ids)]
<1>1. report \in ErrorReport
  BY ReportsTyped
<1>2. captureSystemError(type, ids) = captureError(SystemErrorSignal, report)
  BY DEF captureSystemError
<1>3. Restorable(report)
  BY DEF Restorable, NoReport
<1> HIDE DEF report
<1> QED BY <1>1, <1>2, <1>3, GiveUpState DEF Local

LEMMA DecisionErrorState ==
  ASSUME IInv, StateInv, NEW w \in Workers, pc[w] \in Deciding,
         NEW i \in Nat, NEW ids \in SUBSET Nat,
         "restore" \in ErrorBehaviours => tick[w].state \in Lasting,
         Go(w, "respond", Failing(tick[w],
              captureDecisionError(i, ids, tick[w].state, tick[w].data))), Local
  PROVE  StateInv'
<1> DEFINE t == tick[w]
           report == [type |-> "", failed |-> i,
                      unprocessed |-> eventIDs({j \in ids : j < i}),
                      state |-> t.state, data |-> Stored(t.data)]
<1>1. t.state \in StateNames /\ t.data \in Data
  BY Typed DEF Tick
<1>2. report \in ErrorReport
  BY <1>1, ReportsTyped
<1>3. captureDecisionError(i, ids, t.state, t.data) = captureError(ErrorSignal, report)
  BY DEF captureDecisionError
<1>4. Restorable(report)
  BY DEF Restorable
<1> HIDE DEF report
<1> QED BY <1>2, <1>3, <1>4, GiveUpState DEF Local

(***************************************************************************)
(* The steps of Tick.                                                      *)
(***************************************************************************)
LEMMA ErrorsTick ==
  ASSUME NEW t, \A k \in 1..Len(t.decisions) : Safe(t.decisions[k]),
         t.saved.name \in Lasting,
         \/ t.state \in Lasting
         \/ t.state = errorState /\ t.errs # {}
         \/ /\ t.state = "" /\ t.data = NilData
            /\ t.errs = {} \/ "recover" \in ErrorBehaviours
  PROVE  StateTick("errors", t)
<1>1. NilData.form = "nil"
  BY DEF NilData
<1> QED BY <1>1 DEF StateTick, Safe

LEMMA FindStateState ==
  ASSUME IInv, StateInv, NEW w \in Workers, FindState(w)
  PROVE  StateInv'
<1> DEFINE t == tick[w]
           S == StateEvents(history, t.started)
           Found(s) == [t EXCEPT !.saved = s, !.pending = s.pending,
                                 !.state = IF t.errs = {} THEN "" ELSE errorState,
                                 !.data = IF t.errs = {} THEN NilData ELSE ZeroData]
<1>1. /\ t \in Tick /\ t.started \in Nat /\ t.started <= Len(history)
      /\ Len(history) \in Nat /\ pc[w] = "begin" /\ pc[w] \in Deciding
      /\ Local /\ \A k \in 1..Len(t.decisions) : Safe(t.decisions[k])
  BY Typed, StateOf DEF FindState, Deciding, Working, TickInv, TickPosition
<1>2. CASE Go(w, "respond", Failing(t, captureSystemError("FindSerializedStateError",
                                                          Page(t.started))))
  BY <1>1, <1>2, PageIds, SystemErrorState DEF ErrorTypes
<1>3. ASSUME NEW i \in S, Go(w, "errors", Found(findSerializedState(history[i])))
      PROVE  StateInv'
  <2> DEFINE s == findSerializedState(history[i])
             t1 == Found(s)
  <2>1. i \in Ids /\ history[i] \in HistoryEvent /\ HoldsState(history[i])
    BY <1>1, Typed DEF StateEvents, Page, Ids
  <2>2. s \in SerializedState /\ s.name \in Lasting
    BY <2>1, FoundProps DEF StateInv
  <2>3. s.pending \in SUBSET Nat /\ errorState \in StateNames /\ "" \in StateNames
    BY <2>2 DEF SerializedState, StateNames
  <2> HIDE DEF s
  <2>4. /\ t1 \in Tick /\ t1.decisions = t.decisions /\ t1.saved = s /\ t1.errs = t.errs
        /\ t1.state = IF t.errs = {} THEN "" ELSE errorState
        /\ t.errs = {} => t1.data = NilData
    BY <1>1, <2>2, <2>3, DataTypes DEF Tick
  <2>5. Go(w, "errors", t1)
    BY <1>3 DEF s
  <2> HIDE DEF t1
  <2>6. StateTick("errors", t1)
    BY <1>1, <2>2, <2>4, ErrorsTick
  <2> QED BY <1>1, <2>4, <2>5, <2>6, StateLocal DEF PCs, Local
<1> QED BY <1>2, <1>3 DEF FindState

LEMMA HandleErrorEventState ==
  ASSUME IInv, RecordInv, StateInv, NamesKnown, NEW w \in Workers, HandleErrorEvent(w)
  PROVE  StateInv'
<1> DEFINE t == tick[w]
           ids == ErrorEvents(history, t.prev, t.started)
<1>1. PICK i \in t.errs : \E o \in Decide(errorState, i, t.data) :
        /\ ~Kills(o, t.data)
        /\ IF Returned(o)
           THEN Go(w, "errors", [mergeOutcomes(t, o) EXCEPT !.errs = @ \ {i}])
           ELSE Go(w, "respond", Failing(t, captureDecisionError(i, ids,
                                                         t.state, t.data)))
  BY DEF HandleErrorEvent
<1>0. PICK o \in Decide(errorState, i, t.data) :
        /\ ~Kills(o, t.data)
        /\ IF Returned(o)
           THEN Go(w, "errors", [mergeOutcomes(t, o) EXCEPT !.errs = @ \ {i}])
           ELSE Go(w, "respond", Failing(t, captureDecisionError(i, ids,
                                                         t.state, t.data)))
  BY <1>1
<1>2. pc[w] = "errors" /\ pc[w] \in Deciding /\ Local
  BY DEF HandleErrorEvent, Deciding
<1>3. /\ t \in Tick /\ t.data \in Data /\ StateTick("errors", t)
      /\ t.decisions \in Seq(Decision)
      /\ \A k \in 1..Len(t.decisions) : Safe(t.decisions[k])
  BY <1>2, StateOf DEF Working, Tick
<1>4. i \in Nat /\ history[i] \in HistoryEvent /\ i \in Ids
  <2>1. /\ t.started \in Nat /\ t.prev \in Nat /\ Len(history) \in Nat
        /\ t.started <= Len(history) /\ t.errs \subseteq InWindow(t)
    BY <1>2, Typed DEF TickInv, TickPosition, Left, Working
  <2> QED BY <2>1, Typed DEF InWindow, Ids
<1>5. Restorable(history[i].report) /\ BehavioursIn(errorState) = ErrorBehaviours
  BY <1>4, SpecialStatesAssumption DEF StateInv, BehavioursIn
<1>6. \/ t.state \in Lasting \/ t.state = errorState
      \/ "recover" \in ErrorBehaviours
  BY <1>1, <1>3 DEF StateTick, Working, Deciding
<1>7. CASE Returned(o)
  <2> DEFINE t1 == TurnedError(t, o, i)
  <2>1. GoodOutcome(o, i, t.data.seen \cup history[i].report.data.seen) /\ Ordinary(o)
    BY <1>3, <1>4, DecideGood, DecideOrdinary
  <2>2. Go(w, "errors", t1)
    BY <1>0, <1>7 DEF TurnedError
  <2>3. FollowsError(t1, t, o, i)
    BY <1>3, <2>1, MergedError
  <2> HIDE DEF t1
  <2>4. /\ t1 \in Tick /\ t1.saved = t.saved
        /\ t1.decisions = t.decisions \o o.decisions
        /\ t1.data = o.data
        /\ t1.state = IF o.kind = "Stay" THEN t.state ELSE o.state
    BY <2>3 DEF FollowsError
  <2>5. \/ /\ o.kind = "Stay"
           /\ {"stay", "unserializable"} \cap ErrorBehaviours # {}
        \/ o.kind # "Stay" /\ o.state \in Lasting
        \/ /\ o.kind # "Stay" /\ "recover" \in ErrorBehaviours
           /\ o.state = "" /\ o.data = NilData
    <3>1. o \in Decide(errorState, i, t.data) /\ Restorable(history[i].report)
      BY <1>0, <1>5
    <3>2. LeavesIn(o, errorState)
      BY <1>7, <3>1, DecideLasting
    <3> QED BY <1>5, <3>2 DEF LeavesIn
  <2>6. \/ t1.state \in Lasting
        \/ t1.state = "" /\ t1.data = NilData /\ "recover" \in ErrorBehaviours
    <3>1. CASE o.kind = "Stay"
      <4>1. "recover" \in ErrorBehaviours =>
              {"stay", "unserializable"} \cap ErrorBehaviours = {}
        BY DEF NamesKnown
      <4>2. CASE "recover" \in ErrorBehaviours
        BY <2>5, <3>1, <4>1, <4>2
      <4>3. CASE "recover" \notin ErrorBehaviours
        BY <1>6, <2>4, <3>1, <4>3, SpecialStates
      <4> QED BY <4>2, <4>3
    <3>2. CASE o.kind # "Stay"
      BY <2>4, <2>5, <3>2
    <3> QED BY <3>1, <3>2
  <2>7. \A k \in 1..Len(t1.decisions) : Safe(t1.decisions[k])
    BY <1>3, <2>1, <2>4, MergedSafe
  <2>8. t1.saved.name \in Lasting
    BY <1>3, <2>4 DEF StateTick, Working, Deciding
  <2>9. StateTick("errors", t1)
    BY <2>6, <2>7, <2>8, ErrorsTick
  <2> QED BY <1>2, <2>2, <2>4, <2>9, StateLocal DEF PCs, Local
<1>8. CASE ~Returned(o)
  <2>1. ids \in SUBSET Nat
    BY <1>3, PageIds DEF Tick
  <2>2. Go(w, "respond", Failing(t, captureDecisionError(i, ids, t.state, t.data)))
    BY <1>0, <1>8
  <2>3. "panic" \in ErrorBehaviours
    BY <1>0, <1>5, <1>8, PanicsAsked
  <2>4. "restore" \in ErrorBehaviours => "recover" \notin ErrorBehaviours
    BY <2>3 DEF NamesKnown
  <2>5. "restore" \in ErrorBehaviours => t.state \in Lasting
    BY <1>1, <1>3, <2>4, SpecialStates DEF StateTick, Working, Deciding
  <2> QED BY <1>2, <1>4, <2>1, <2>2, <2>5, DecisionErrorState
<1> QED BY <1>7, <1>8

LEMMA RecoverStateState ==
  ASSUME IInv, RecordInv, StateInv, NEW w \in Workers, RecoverState(w)
  PROVE  StateInv'
<1> DEFINE t == tick[w]
           t1 == [t EXCEPT !.state = t.saved.name, !.data = t.saved.data,
                           !.version = t.saved.version]
           d == captureSystemError("DeserializeStateError", Page(t.started))
<1>1. /\ t \in Tick /\ t.started \in Nat /\ t.saved \in SerializedState
      /\ pc[w] = "errors" /\ pc[w] \in Deciding /\ Local /\ t.errs = {}
      /\ StateTick("errors", t)
      /\ \A k \in 1..Len(t.decisions) : Safe(t.decisions[k])
  BY Typed, StateOf DEF Tick, RecoverState, Deciding, Working
<1>2. \/ Go(w, "events", t1)
      \/ Go(w, "respond", Failing(t, d))
      \/ Go(w, "events", t) /\ ~(t.data.form = "nil" /\ t.state = "")
  BY DEF RecoverState
<1>3. t.saved.name \in Lasting
  BY <1>1 DEF StateTick, Working, Deciding
<1>4. CASE Go(w, "events", t1)
  <2>1. /\ t1 \in Tick /\ t1.saved = t.saved /\ t1.state = t.saved.name
        /\ t1.decisions = t.decisions
    BY <1>1 DEF Tick, SerializedState
  <2> HIDE DEF t1
  <2>2. StateTick("events", t1)
    BY <1>1, <1>3, <2>1 DEF StateTick, Safe
  <2> QED BY <1>1, <1>4, <2>1, <2>2, StateLocal DEF PCs, Local
<1>5. CASE Go(w, "respond", Failing(t, d))
  BY <1>1, <1>5, PageIds, SystemErrorState DEF ErrorTypes
<1>6. CASE Go(w, "events", t) /\ ~(t.data.form = "nil" /\ t.state = "")
  <2>1. t.state \in Lasting
    BY <1>1, <1>6 DEF StateTick, Working, Deciding
  <2>2. StateTick("events", t)
    BY <1>1, <1>3, <2>1 DEF StateTick, Safe
  <2> QED BY <1>1, <1>6, <2>2, StateLocal DEF PCs, Local
<1> QED BY <1>2, <1>4, <1>5, <1>6

LEMMA EventsTick ==
  ASSUME NEW t, \A k \in 1..Len(t.decisions) : Safe(t.decisions[k]),
         t.saved.name \in Lasting, t.state \in Lasting
  PROVE  StateTick("events", t)
  BY DEF StateTick, Safe

LEMMA HandleEventState ==
  ASSUME IInv, RecordInv, StateInv, NamesKnown, NEW w \in Workers, HandleEvent(w)
  PROVE  StateInv'
<1> DEFINE t == tick[w]
           ids == LastEvents(history, t.prev, t.started)
<1>1. PICK i \in t.todo : \E o \in Decide(t.state, i, t.data) :
        IF Returned(o)
        THEN Go(w, "events", [mergeOutcomes(t, o) EXCEPT !.todo = @ \ {i},
                                !.pending = Track(@, i, history[i])])
        ELSE Go(w, "respond", Failing(t, captureDecisionError(i, ids,
                                                      t.state, t.data)))
  BY DEF HandleEvent
<1>0. PICK o \in Decide(t.state, i, t.data) :
        IF Returned(o)
        THEN Go(w, "events", [mergeOutcomes(t, o) EXCEPT !.todo = @ \ {i},
                                !.pending = Track(@, i, history[i])])
        ELSE Go(w, "respond", Failing(t, captureDecisionError(i, ids,
                                                      t.state, t.data)))
  BY <1>1
<1>2. pc[w] = "events" /\ pc[w] \in Deciding /\ Local
  BY DEF HandleEvent, Deciding
<1>3. /\ t \in Tick /\ t.data \in Data /\ t.decisions \in Seq(Decision)
      /\ StateTick("events", t)
      /\ \A k \in 1..Len(t.decisions) : Safe(t.decisions[k])
  BY <1>2, StateOf DEF Working, Tick
<1>4. t.state \in Lasting /\ t.saved.name \in Lasting
  BY <1>3 DEF StateTick, Working, Deciding
<1>5. i \in Nat /\ history[i] \in HistoryEvent /\ i \in Ids
  <2>1. /\ t.started \in Nat /\ t.prev \in Nat /\ Len(history) \in Nat
        /\ t.started <= Len(history) /\ t.todo \subseteq InWindow(t)
    BY <1>2, Typed DEF TickInv, TickPosition, Left, Working
  <2> QED BY <2>1, Typed DEF InWindow, Ids
<1>6. CASE Returned(o)
  <2> DEFINE pending == Track(t.pending, i, history[i])
             t1 == [mergeOutcomes(t, o) EXCEPT !.todo = @ \ {i},
                                               !.pending = pending]
  <2>1. GoodOutcome(o, i, t.data.seen \cup history[i].report.data.seen) /\ Ordinary(o)
    BY <1>3, <1>5, DecideGood, DecideOrdinary
  <2>2. /\ t.decisions \in Seq(Decision) /\ o.decisions \in Seq(Decision)
        /\ PlainDecisions(o.decisions, i)
    BY <1>3, <2>1 DEF GoodOutcome, PlainDecisions
  <2>3. /\ pending \in SUBSET Nat /\ o.state \in StateNames /\ o.data \in Data
        /\ t.decisions \o o.decisions \in Seq(Decision)
    BY <1>3, <1>5, <2>1, <2>2, TrackType, ConcatProperties DEF Tick, GoodOutcome
  <2>4. Go(w, "events", t1)
    <3>1. mergeOutcomes(t, o).pending = t.pending
      BY <1>3 DEF Tick, mergeOutcomes
    <3>2. [mergeOutcomes(t, o) EXCEPT !.todo = @ \ {i}, !.pending = Track(@, i, history[i])]
            = t1
      BY <1>3, <3>1 DEF Tick, mergeOutcomes
    <3> QED BY <1>0, <1>6, <3>2
  <2> HIDE DEF pending
  <2>0. t1 = Turned(t, o, i, pending)
    BY DEF Turned
  <2> HIDE DEF t1
  <2>5. /\ t1 \in Tick /\ t1.saved = t.saved
        /\ t1.decisions = t.decisions \o o.decisions
        /\ t1.state = IF o.kind = "Stay" THEN t.state ELSE o.state
    <3>1. FollowsOn(t1, t, o, i, pending)
      BY <1>3, <2>1, <2>3, <2>0, MergedTick
    <3> QED BY <3>1 DEF FollowsOn
  <2>6. o.kind = "Stay" \/ o.state \in Lasting
    <3>1. Restorable(history[i].report)
      BY <1>5 DEF StateInv
    <3>2. ~(t.state = errorState /\ "recover" \in ErrorBehaviours)
      BY <1>4, SpecialStates
    <3>3. LeavesIn(o, t.state)
      BY <1>4, <1>6, <3>1, DecideLasting
    <3> QED BY <3>2, <3>3 DEF LeavesIn
  <2>7. t1.state \in Lasting
    BY <1>4, <2>5, <2>6
  <2>8. \A k \in 1..Len(t1.decisions) : Safe(t1.decisions[k])
    BY <1>3, <2>1, <2>5, MergedSafe
  <2>9. StateTick("events", t1)
    BY <1>4, <2>5, <2>7, <2>8, EventsTick
  <2> QED BY <1>2, <2>4, <2>5, <2>9, StateLocal DEF PCs, Local
<1>7. CASE ~Returned(o)
  <2>1. ids \in SUBSET Nat
    BY <1>3, PageIds DEF Tick
  <2>2. Go(w, "respond", Failing(t, captureDecisionError(i, ids, t.state, t.data)))
    BY <1>0, <1>7
  <2> QED BY <1>2, <1>4, <1>5, <2>1, <2>2, DecisionErrorState
<1> QED BY <1>6, <1>7

LEMMA MissingStateState ==
  ASSUME IInv, StateInv, NEW w \in Workers, MissingState(w)
  PROVE  StateInv'
<1> DEFINE t == tick[w]
<1>1. PICK i \in t.todo :
        Go(w, "respond", Failing(t, captureSystemError("MissingFsmStateError",
             {j \in LastEvents(history, t.prev, t.started) : j <= i})))
  BY DEF MissingState
<1>2. pc[w] \in Deciding /\ Local
  BY DEF MissingState, Deciding
<1>3. {j \in LastEvents(history, t.prev, t.started) : j <= i} \in SUBSET Nat
  BY Typed, PageIds
<1> QED BY <1>1, <1>2, <1>3, SystemErrorState DEF ErrorTypes

LEMMA StateSerializationFailsState ==
  ASSUME IInv, StateInv, NEW w \in Workers, StateSerializationFails(w)
  PROVE  StateInv'
<1>1. /\ pc[w] \in Deciding /\ Local
      /\ Go(w, "respond",
            Failing(tick[w], captureSystemError("StateSerializationError", {})))
  BY DEF StateSerializationFails, Deciding
<1>2. {} \in SUBSET Nat /\ "StateSerializationError" \in ErrorTypes
  BY DEF ErrorTypes
<1> QED BY <1>1, <1>2, SystemErrorState

(* recordStateMarker: the marker carries the state the deciders led to.     *)
LEMMA FinishTickState ==
  ASSUME IInv, StateInv, NEW w \in Workers, FinishTick(w)
  PROVE  StateInv'
<1> DEFINE t == tick[w]
           ds == t.decisions
           s == [name |-> t.state, version |-> t.version + 1,
                 data |-> Stored(t.data), pending |-> t.pending]
           ms == <<Marker(s)>> \o ds
           t1 == [t EXCEPT !.saved = s, !.decisions = ms]
           D == {x \in Decision : Safe(x)}
<1>1. /\ t \in Tick /\ ds \in Seq(Decision) /\ t.data \in Data
      /\ pc[w] = "events" /\ Local
      /\ StateTick("events", t) /\ \A k \in 1..Len(ds) : Safe(ds[k])
  BY StateOf DEF FinishTick, Tick, Working, Deciding
<1>2. Go(w, "respond", t1)
  BY DEF FinishTick, recordStateMarker
<1>3. s \in SerializedState /\ s.name \in Lasting
  <2>1. Stored(t.data) \in Data
    BY <1>1, StoredType
  <2>2. t.state \in Lasting
    BY <1>1 DEF StateTick, Working, Deciding
  <2> QED BY <1>1, <2>1, <2>2 DEF Tick, SerializedState
<1> HIDE DEF s
<1>4. Marker(s) \in D
  <2>1. Marker(s) \in Decision
    BY <1>3, MarkerType
  <2>2. Marker(s).state = s /\ Marker(s).report = NoReport
    BY DEF Marker, NewDecision
  <2> QED BY <1>3, <2>1, <2>2, NothingReported DEF Safe
<1>5. ds \in Seq(D)
  <2>1. \A k \in 1..Len(ds) : ds[k] \in D
    BY <1>1
  <2> HIDE DEF D
  <2> QED BY <1>1, <2>1, SeqOf
<1>6. ms \in Seq(Decision)
  <2>1. <<Marker(s)>> \in Seq(Decision)
    BY <1>4
  <2> QED BY <1>1, <2>1, ConcatProperties
<1>7. \A k \in 1..Len(ms) : Safe(ms[k])
  <2> HIDE DEF D
  <2>1. <<Marker(s)>> \in Seq(D)
    BY <1>4
  <2>2. ms \in Seq(D)
    BY <1>5, <2>1, ConcatProperties
  <2>3. \A k \in 1..Len(ms) : ms[k] \in D
    BY <2>2, ElementsOf
  <2> QED BY <2>3 DEF D
<1> HIDE DEF ms
<1>8. t1 \in Tick /\ t1.decisions = ms
  BY <1>1, <1>3, <1>6 DEF Tick
<1> HIDE DEF t1
<1>9. StateTick("respond", t1)
  BY <1>7, <1>8 DEF StateTick, Safe
<1> QED BY <1>1, <1>2, <1>8, <1>9, StateLocal DEF PCs, Local

(***************************************************************************)
(* The response, and the steps that end a tick.                            *)
(***************************************************************************)
LEMMA CompletionState ==
  ASSUME IInv, StateInv, NEW w \in Workers, pc[w] = "respond",
         CompleteTask(tick[w].started, tick[w].decisions),
         NEW label \in {"poll", "replicate"}, NEW t1 \in Tick, Go(w, label, t1)
  PROVE  StateInv'
<1> DEFINE ds == tick[w].decisions
           L == Len(history)
<1>1. PICK u \in BOOLEAN, n \in 0..Len(ds) : CompletionGrowth(ds, n, u)
  BY CompletionGrows
<1>2. HistoryKept /\ history \in Seq(HistoryEvent) /\ n \in 0..Len(ds)
  BY <1>1, Typed DEF CompletionGrowth
<1>3. ds \in Seq(Decision) /\ Len(ds) \in Nat /\ \A k \in 1..Len(ds) : Safe(ds[k])
  BY StateOf DEF Working
<1>4. ASSUME NEW i \in Ids'
      PROVE  /\ HoldsState(history'[i]) =>
                  findSerializedState(history'[i]).name \in Lasting
             /\ Restorable(history'[i].report)
  <2>1. CASE i \in Ids
    BY <1>2, <2>1, Newer DEF StateInv
  <2>2. CASE i - L - 1 \in 1..n /\ history'[i] = DecisionEvent(ds[i - L - 1], u)
    <3> DEFINE d == ds[i - L - 1]
    <3>1. d \in Decision /\ Safe(d) /\ history'[i] = DecisionEvent(d, u)
      BY <1>2, <1>3, <2>2
    <3> HIDE DEF d
    <3>2. /\ history'[i].state = d.state /\ history'[i].report = d.report
          /\ HoldsState(history'[i]) <=> Recording(d)
          /\ HoldsState(history'[i]) => isStateMarker(history'[i])
      BY <3>1, DecisionEventFacts, DecisionEventTyped
    <3> QED BY <3>1, <3>2 DEF Safe, findSerializedState, isStateMarker
  <2>3. ASSUME NEW type \in {"DecisionTaskCompleted", "DecisionTaskScheduled"},
               history'[i] = Event(type, "", 0)
        PROVE  ~HoldsState(history'[i]) /\ Restorable(history'[i].report)
    <3>1. ~HoldsState(Event(type, "", 0))
      BY PlainCompletionEvents
    <3>2. Event(type, "", 0).report = NoReport
      BY DEF Event
    <3> QED BY <2>3, <3>1, <3>2, NothingReported
  <2> QED BY <1>1, <2>1, <2>2, <2>3 DEF CompletionGrowth
<1>5. ASSUME NEW v \in Workers
      PROVE  StateTick(pc'[v], tick'[v])
  <2>1. /\ pc'[w] = label
        /\ \A x \in Workers \ {w} : pc'[x] = pc[x] /\ tick'[x] = tick[x]
    BY GoType DEF IInv, PCs
  <2>2. CASE v = w
    BY <2>1, <2>2 DEF StateTick, Working, Deciding
  <2>3. CASE v # w
    BY <2>1, <2>3 DEF StateInv
  <2> QED BY <2>2, <2>3
<1> QED BY <1>4, <1>5 DEF StateInv, StateTick, HoldsState, isStateMarker,
                          findSerializedState, Restorable, Recording

LEMMA RespondState ==
  ASSUME IInv, StateInv, NEW w \in Workers, Respond(w) \/ RespondReplyLost(w)
  PROVE  StateInv'
<1> DEFINE t == tick[w]
<1>1. pc[w] = "respond" /\ CompleteTask(t.started, t.decisions)
  BY DEF Respond, RespondReplyLost
<1>2. Go(w, "poll", IdleTick) \/ Go(w, "replicate", t)
  BY DEF Respond, RespondReplyLost
<1>3. t \in Tick /\ IdleTick \in Tick
  BY Typed, DataTypes
<1> QED BY <1>1, <1>2, <1>3, CompletionState

LEMMA IdleState ==
  ASSUME IInv, StateInv, NEW w \in Workers,
         \/ RespondRefused(w) \/ RespondRequestLost(w) \/ ReplicateFails(w)
         \/ ProcessPanics(w) \/ Crash(w) \/ Replicate(w)
  PROVE  StateInv'
<1>1. Go(w, "poll", IdleTick) /\ history' = history
  BY DEF RespondRefused, RespondRequestLost, ReplicateFails, ProcessPanics, Crash,
         Replicate, Local
<1>2. StateTick("poll", IdleTick)
  BY DEF StateTick, Working, Deciding
<1> QED BY <1>1, <1>2, DataTypes, StateLocal DEF PCs

LEMMA InitState ==
  ASSUME Init
  PROVE  StateInv
<1> DEFINE d == Event("WorkflowExecutionStarted", "", 0)
           e == Event("DecisionTaskScheduled", "", 0)
<1>1. /\ d.type = "WorkflowExecutionStarted" /\ d.state = NoState
      /\ e.type = "DecisionTaskScheduled"
      /\ d.report = NoReport /\ e.report = NoReport
  BY DEF Event
<1>2. NoState.name = "" /\ [NoState EXCEPT !.name = initialState].name = initialState
  BY DEF NoState
<1>3. history = <<d, e>> /\ pc = [w \in Workers |-> "poll"]
  BY DEF Init, ServiceInit
<1> HIDE DEF d, e
<1>4. Ids = {1, 2} /\ history[1] = d /\ history[2] = e
  BY <1>3 DEF Ids
<1>5. findSerializedState(d).name \in Lasting
  BY <1>1, <1>2, SpecialStates DEF findSerializedState
<1>6. ~HoldsState(e)
  BY <1>1 DEF HoldsState, isStateMarker
<1>7. \A w \in Workers : StateTick(pc[w], tick[w])
  BY <1>3 DEF StateTick, Working, Deciding
<1> QED BY <1>1, <1>4, <1>5, <1>6, <1>7, NothingReported DEF StateInv

LEMMA StepState ==
  ASSUME IInv, RecordInv, StateInv, NamesKnown, [Next]_vars
  PROVE  StateInv'
<1>1. ASSUME NEW w \in Workers, WorkerStep(w)
      PROVE  StateInv'
  BY <1>1, PollState, FindStateState, HandleErrorEventState, RecoverStateState,
     HandleEventState, MissingStateState, FinishTickState,
     StateSerializationFailsState, RespondState, IdleState, Zenon DEF WorkerStep
<1>2. ASSUME NEW w \in Workers, WorkerFault(w)
      PROVE  StateInv'
  BY <1>2, RespondState, IdleState, Zenon DEF WorkerFault
<1>3. CASE TimeOutAbandoned \/ TimeOutSlow \/ Environment
  BY <1>3, EnvironmentState
<1>4. CASE UNCHANGED vars
  <2>1. history' = history /\ pc' = pc /\ tick' = tick
    BY <1>4 DEF vars
  <2> QED BY <2>1 DEF StateInv, StateTick, HoldsState, isStateMarker,
                      findSerializedState, Restorable, Recording, Ids
<1> QED BY <1>1, <1>2, <1>3, <1>4, Zenon DEF Next

-----------------------------------------------------------------------------
(* Every name in sight is one in which a decision task can leave the        *)
(* workflow: in the recorded states, in the reports that an error state may  *)
(* restore, and in every tick under way.                                    *)
THEOREM StateInvariance ==
  ASSUME NamesKnown
  PROVE  Spec => []StateInv
<1>1. Init => StateInv
  BY InitState
<1>2. IInv /\ RecordInv /\ StateInv /\ [Next]_vars => StateInv'
  BY StepState
<1> QED BY <1>1, <1>2, RecordInvariance, PTL DEF Spec

(* A decision task leaves the workflow in a state of the FSM, whatever        *)
(* deciders and error states do and whatever fails (mergeOutcomes, Tick and   *)
(* recordStateMarker), when the names agree.                                 *)
THEOREM StatesExist ==
  ASSUME NamesKnown
  PROVE  Spec => []RecordedStateExists
<1>1. StateInv => RecordedStateExists
  <2> SUFFICES ASSUME StateInv, NEW i \in Ids, IsRecorded(i)
               PROVE  Recorded(i).name \in FSMStates
    BY DEF RecordedStateExists
  <2>1. HoldsState(history[i])
    BY DEF IsRecorded, IsNewest
  <2>2. Recorded(i).name \in Lasting
    BY <2>1 DEF StateInv, Recorded
  <2> QED BY <2>2, SpecialStates
<1> QED BY <1>1, StateInvariance, PTL
=============================================================================
