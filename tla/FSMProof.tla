------------------------------ MODULE FSMProof ------------------------------
(***************************************************************************)
(* The safety properties of the decision-task processing, for any number   *)
(* of workers, any deciders, any page size and any number of faults.       *)
(***************************************************************************)
EXTENDS FSMInvariant, SequenceTheorems, TLAPS

(***************************************************************************)
(* The records of the model.                                               *)
(***************************************************************************)

LEMMA DataTypes ==
  /\ ZeroData \in Data /\ NilData \in Data
  /\ NoState \in SerializedState /\ NoReport \in ErrorReport
  /\ IdleTick \in Tick
  BY DEF ZeroData, NilData, Data, NoState, SerializedState, StateNames, NoReport,
         ErrorReport, ErrorTypes, IdleTick, Tick

LEMMA EventType ==
  ASSUME NEW type \in EventTypes, NEW label \in Labels, NEW ref \in Nat
  PROVE  Event(type, label, ref) \in HistoryEvent
  BY DataTypes DEF Event, HistoryEvent

LEMMA NewDecisionType ==
  ASSUME NEW type \in DecisionTypes, NEW label \in Labels, NEW ref \in Nat
  PROVE  NewDecision(type, label, ref) \in Decision
  BY DataTypes DEF NewDecision, Decision

LEMMA MarkerType ==
  ASSUME NEW s \in SerializedState
  PROVE  Marker(s) \in Decision
<1>1. NewDecision("RecordMarker", StateMarker, 0) \in Decision
  BY NewDecisionType DEF DecisionTypes, Labels
<1> QED
  BY <1>1 DEF Marker, Decision

LEMMA StoredType ==
  ASSUME NEW data \in Data
  PROVE  /\ Stored(data) \in Data
         /\ Stored(data).seen \subseteq data.seen
  BY DataTypes DEF Stored, ZeroData, Data

LEMMA eventIDsType ==
  ASSUME NEW S \in SUBSET Nat
  PROVE  eventIDs(S) \in SUBSET Nat
  BY DEF eventIDs

LEMMA DecisionEventTyped ==
  ASSUME NEW d \in Decision, NEW unhandled \in BOOLEAN
  PROVE  /\ DecisionEvent(d, unhandled) \in HistoryEvent
         /\ DecisionEvent(d, unhandled).type = DecisionEventType(d, unhandled)
         /\ DecisionEvent(d, unhandled).label = d.label
         /\ DecisionEvent(d, unhandled).ref = d.ref
         /\ DecisionEvent(d, unhandled).state = d.state
         /\ DecisionEvent(d, unhandled).report = d.report
<1>1. DecisionEventType(d, unhandled) \in EventTypes
  BY DEF DecisionEventType, EventTypes
<1> QED
  BY <1>1 DEF DecisionEvent, Decision, HistoryEvent

(***************************************************************************)
(* The history only grows.                                                 *)
(***************************************************************************)
Grows(es) == /\ history' \in Seq(HistoryEvent)
             /\ Len(history') = Len(history) + Len(es)
             /\ \A i \in 1..Len(history) : history'[i] = history[i]
             /\ \A k \in 1..Len(es) : history'[Len(history) + k] = es[k]
             /\ \A i \in 1..Len(history') :
                  i > Len(history) => i - Len(history) \in 1..Len(es)
                                      /\ history'[i] = es[i - Len(history)]

LEMMA Singleton ==
  ASSUME NEW S, NEW e \in S
  PROVE  /\ <<e>> \in Seq(S) /\ Len(<<e>>) = 1 /\ <<e>>[1] = e
         /\ \A k \in 1..Len(<<e>>) : k = 1 /\ <<e>>[k] = e
  OBVIOUS

LEMMA Growing ==
  ASSUME history \in Seq(HistoryEvent), NEW es \in Seq(HistoryEvent),
         history' = history \o es
  PROVE  Grows(es)
  BY ConcatProperties DEF Grows

LEMMA ConcatOneManyMore ==
  ASSUME NEW S, NEW a \in Seq(S), NEW b \in Seq(S), NEW c \in Seq(S),
         Len(a) = 1
  PROVE  LET s == a \o b \o c
         IN  /\ s \in Seq(S)
             /\ Len(s) = 1 + Len(b) + Len(c)
             /\ s[1] = a[1]
             /\ \A k \in 1..Len(b) : s[k + 1] = b[k]
             /\ \A k \in (Len(b) + 2)..Len(s) :
                  /\ k - (Len(b) + 1) \in 1..Len(c)
                  /\ s[k] = c[k - (Len(b) + 1)]
<1> DEFINE p == a \o b
<1>1. /\ p \in Seq(S) /\ Len(p) = 1 + Len(b)
      /\ p[1] = a[1]
      /\ \A k \in 1..Len(b) : p[k + 1] = b[k]
  <2>1. /\ p \in Seq(S) /\ Len(p) = Len(a) + Len(b)
        /\ \A i \in 1..(Len(a) + Len(b)) :
             p[i] = IF i <= Len(a) THEN a[i] ELSE b[i - Len(a)]
    BY ConcatProperties
  <2> HIDE DEF p
  <2>2. Len(b) \in Nat /\ Len(a) + Len(b) = 1 + Len(b)
    OBVIOUS
  <2>3. 1 \in 1..(Len(a) + Len(b)) /\ 1 <= Len(a)
    BY <2>2
  <2>4. p[1] = a[1]
    BY <2>1, <2>3
  <2>5. ASSUME NEW k \in 1..Len(b)
        PROVE  p[k + 1] = b[k]
    <3>1. /\ k + 1 \in 1..(Len(a) + Len(b))
          /\ ~(k + 1 <= Len(a)) /\ (k + 1) - Len(a) = k
      BY <2>2
    <3> QED BY <2>1, <3>1
  <2> QED BY <2>1, <2>2, <2>4, <2>5
<1> HIDE DEF p
<1>2. /\ p \o c \in Seq(S)
      /\ Len(p \o c) = Len(p) + Len(c)
      /\ \A i \in 1..(Len(p) + Len(c)) :
           (p \o c)[i] = IF i <= Len(p) THEN p[i] ELSE c[i - Len(p)]
  BY <1>1, ConcatProperties
<1> QED BY <1>1, <1>2 DEF p

LEMMA CompletionEventsType ==
  ASSUME NEW ds \in Seq(Decision), NEW n \in 0..Len(ds),
         NEW unhandled \in BOOLEAN
  PROVE  LET es == CompletionEvents(ds, n, unhandled)
         IN  /\ es \in Seq(HistoryEvent)
             /\ Len(es) > n
             /\ \A k \in 1..n : es[k + 1] = DecisionEvent(ds[k], unhandled)
             /\ \A k \in 1..Len(es) :
                  \/ k \in 2..(n + 1)
                  \/ k = 1 /\ es[k] = Event("DecisionTaskCompleted", "", 0)
                  \/ k > n + 1 /\ es[k] = Event("DecisionTaskScheduled", "", 0)
<1> DEFINE first == <<Event("DecisionTaskCompleted", "", 0)>>
           mid == [k \in 1..n |-> DecisionEvent(ds[k], unhandled)]
           last == IF unhandled THEN <<Event("DecisionTaskScheduled", "", 0)>>
                   ELSE <<>>
<1>1. first \in Seq(HistoryEvent) /\ Len(first) = 1
      /\ first[1] = Event("DecisionTaskCompleted", "", 0)
  <2>1. Event("DecisionTaskCompleted", "", 0) \in HistoryEvent
    BY EventType DEF EventTypes, Labels
  <2> QED BY <2>1, Singleton
<1>2. mid \in Seq(HistoryEvent) /\ Len(mid) = n
      /\ \A k \in 1..n : mid[k] = DecisionEvent(ds[k], unhandled)
  <2>1. \A k \in 1..n : DecisionEvent(ds[k], unhandled) \in HistoryEvent
    BY DecisionEventTyped
  <2>2. mid \in [1..n -> HistoryEvent] /\ n \in Nat
    BY <2>1
  <2>3. mid \in Seq(HistoryEvent)
    BY <2>2, SeqDef
  <2> QED BY <2>2, <2>3, LenProperties
<1>3. last \in Seq(HistoryEvent) /\ Len(last) \in Nat
      /\ (\A k \in 1..Len(last) : last[k] = Event("DecisionTaskScheduled", "", 0))
  <2>1. Event("DecisionTaskScheduled", "", 0) \in HistoryEvent
    BY EventType DEF EventTypes, Labels
  <2>2. CASE unhandled
    BY <2>1, <2>2, Singleton
  <2>3. CASE ~unhandled
    BY <2>3
  <2> QED BY <2>2, <2>3
<1> HIDE DEF first, mid, last
<1> DEFINE es == first \o mid \o last
<1>4. CompletionEvents(ds, n, unhandled) = es
  BY DEF CompletionEvents, first, mid, last
<1>5. /\ es \in Seq(HistoryEvent)
      /\ Len(es) = 1 + Len(mid) + Len(last)
      /\ es[1] = first[1]
      /\ \A k \in 1..Len(mid) : es[k + 1] = mid[k]
      /\ \A k \in (Len(mid) + 2)..Len(es) :
                  /\ k - (Len(mid) + 1) \in 1..Len(last)
                  /\ es[k] = last[k - (Len(mid) + 1)]
  BY <1>1, <1>2, <1>3, ConcatOneManyMore
<1> HIDE DEF es
<1>6. \A k \in 1..Len(es) : k = 1 \/ k \in 2..(n + 1) \/ k \in (n + 2)..Len(es)
  OBVIOUS
<1>7. Len(es) > n
  <2>1. n \in Nat
    OBVIOUS
  <2>2. Len(mid) = n
    BY <1>2
  <2>3. Len(last) \in Nat
    BY <1>3
  <2> QED BY <1>5, <2>1, <2>2, <2>3
<1>8. ASSUME NEW k \in 1..Len(es)
      PROVE  \/ k \in 2..(n + 1)
             \/ k = 1 /\ es[k] = Event("DecisionTaskCompleted", "", 0)
             \/ k > n + 1 /\ es[k] = Event("DecisionTaskScheduled", "", 0)
  <2>1. CASE k \in (n + 2)..Len(es)
    <3>1. Len(mid) = n /\ n \in Nat /\ k \in (Len(mid) + 2)..Len(es) /\ k > n + 1
      BY <1>2, <2>1
    <3>2. /\ k - (Len(mid) + 1) \in 1..Len(last)
          /\ es[k] = last[k - (Len(mid) + 1)]
      BY <1>5, <3>1
    <3> QED BY <1>3, <3>1, <3>2
  <2>2. CASE k = 1
    BY <1>1, <1>5, <2>2
  <2> QED BY <1>6, <2>1, <2>2
<1>9. \A k \in 1..n : es[k + 1] = DecisionEvent(ds[k], unhandled)
  BY <1>2, <1>5
<1> QED BY <1>4, <1>5, <1>7, <1>8, <1>9

(***************************************************************************)
(* What a decider returns: decisions of its own for the event it is shown,  *)
(* one activity at most, and data that accounts for that event besides      *)
(* what it was given.                                                       *)
(***************************************************************************)
PlainDecisions(ds, i) ==
  /\ ds \in Seq(Decision)
  /\ \A k \in 1..Len(ds) : ds[k].state = NoState /\ ds[k].report = NoReport
  /\ \A k \in 1..Len(ds) : Asks(ds[k]) => k = 1 /\ ds[k].ref = i

GoodOutcome(o, i, seen) ==
  /\ o.state \in StateNames
  /\ o.data \in Data
  /\ o.data.seen \subseteq seen \cup {i}
  /\ PlainDecisions(o.decisions, i)

LEMMA ShownType ==
  ASSUME NEW data \in Data, NEW i \in Nat
  PROVE  /\ Shown(data, i) \in Data
         /\ Shown(data, i).seen = data.seen \cup {i}
  BY DEF Shown, Data

LEMMA NoDecisions ==
  ASSUME NEW i \in Nat
  PROVE  PlainDecisions(<<>>, i)
  BY DEF PlainDecisions

LEMMA OneDecision ==
  ASSUME NEW i \in Nat, NEW type \in DecisionTypes, NEW label \in Labels
  PROVE  PlainDecisions(<<NewDecision(type, label, i)>>, i)
<1> DEFINE d == NewDecision(type, label, i)
<1>1. d \in Decision /\ d.state = NoState /\ d.report = NoReport /\ d.ref = i
  BY NewDecisionType DEF NewDecision
<1> HIDE DEF d
<1>2. /\ <<d>> \in Seq(Decision) /\ Len(<<d>>) = 1
      /\ \A k \in 1..Len(<<d>>) : k = 1 /\ <<d>>[k] = d
  BY <1>1, Singleton
<1>3. PlainDecisions(<<d>>, i)
  BY <1>1, <1>2 DEF PlainDecisions
<1> QED BY <1>3 DEF d

LEMMA UserDecisionsPlain ==
  ASSUME NEW i \in Nat, NEW e, NEW ds \in UserDecisions(i, e)
  PROVE  PlainDecisions(ds, i)
<1>1. \A f : PlainDecisions(EffectDecisions(f, i), i)
  BY NoDecisions, OneDecision DEF EffectDecisions, DecisionTypes, Labels, UserLabels
<1> QED BY <1>1, NoDecisions DEF UserDecisions

LEMMA CompletingPlain ==
  ASSUME NEW i \in Nat, NEW ds, PlainDecisions(ds, i)
  PROVE  PlainDecisions(Append(ds, CompletionDecision(i)), i)
<1> DEFINE d == CompletionDecision(i)
<1>1. d \in Decision /\ d.state = NoState /\ d.report = NoReport /\ ~Asks(d)
  BY NewDecisionType DEF CompletionDecision, NewDecision, Asks, DecisionTypes,
                         Labels
<1> HIDE DEF d
<1>2. ds \in Seq(Decision)
  BY DEF PlainDecisions
<1>3. /\ Append(ds, d) \in Seq(Decision)
      /\ Len(Append(ds, d)) = Len(ds) + 1
      /\ \A k \in 1..Len(ds) : Append(ds, d)[k] = ds[k]
      /\ Append(ds, d)[Len(ds) + 1] = d
  BY <1>1, <1>2, AppendProperties
<1>4. Len(ds) \in Nat
  BY <1>2
<1>5. \A k \in 1..Len(Append(ds, d)) : k \in 1..Len(ds) \/ k = Len(ds) + 1
  BY <1>3, <1>4
<1>6. PlainDecisions(Append(ds, d), i)
  BY <1>1, <1>3, <1>5 DEF PlainDecisions
<1> QED BY <1>6 DEF d

LEMMA OutcomeIsGood ==
  ASSUME NEW kind, NEW state \in StateNames, NEW data \in Data, NEW ds,
         NEW i, NEW seen, PlainDecisions(ds, i),
         data.seen \subseteq seen \cup {i}
  PROVE  GoodOutcome(Outcome(kind, state, data, ds), i, seen)
  BY DEF GoodOutcome, Outcome

LEMMA CompleteIsGood ==
  ASSUME NEW i \in Nat, NEW data \in Data, NEW ds, NEW seen,
         PlainDecisions(ds, i), data.seen \subseteq seen \cup {i}
  PROVE  GoodOutcome(Complete(i, data, ds), i, seen)
<1>1. PlainDecisions(Append(ds, CompletionDecision(i)), i)
  BY CompletingPlain
<1>2. CompleteState \in StateNames /\ "" \in StateNames
  BY DEF StateNames
<1>3. GoodOutcome(Outcome("Complete", CompleteState, data,
                          Append(ds, CompletionDecision(i))), i, seen)
  BY <1>1, <1>2, OutcomeIsGood
<1>4. GoodOutcome(Outcome("panic", "", data, <<>>), i, seen)
  BY <1>2, NoDecisions, OutcomeIsGood
<1> QED BY <1>3, <1>4, Zenon DEF Complete

(* One of the outcomes of DeciderOutcomes, with decisions of the user's.    *)
IsOutcome(o, kind, state, d, i, e) ==
  \E ds \in UserDecisions(i, e) : o = Outcome(kind, state, d, ds)

Refused(data) == [data EXCEPT !.form = "unserializable"]

LEMMA OutcomeShapes ==
  ASSUME NEW may, NEW i, NEW e, NEW data, NEW o \in DeciderOutcomes(may, i, e, data)
  PROVE  LET shown == Shown(data, i)
             from == Restored(i, e, shown)
         IN  \/ "stay" \in may /\ IsOutcome(o, "Stay", "", shown, i, e)
             \/ /\ "goto" \in may
                /\ \E s \in States : IsOutcome(o, "Transition", s, shown, i, e)
             \/ "continue" \in may /\ IsOutcome(o, "Continue", "", shown, i, e)
             \/ "error" \in may /\ IsOutcome(o, "Error", ErrorState, shown, i, e)
             \/ "unserializable" \in may /\ IsOutcome(o, "Stay", "", Refused(shown), i, e)
             \/ /\ "complete" \in may
                /\ \E ds \in UserDecisions(i, e) : o = Complete(i, shown, ds)
             \/ "restore" \in may /\ IsOutcome(o, "Transition", from.state, from.data, i, e)
             \/ "recover" \in may /\ o = Outcome("Continue", "", NilData, <<>>)
             \/ "panic" \in may /\ o = Outcome("panic", "", shown, <<>>)
             \/ "nil" \in may /\ o = Outcome("nil", "", shown, <<>>)
<1> DEFINE shown == Shown(data, i)
           from == Restored(i, e, shown)
           Some(kind, state, d) ==
             {Outcome(kind, state, d, ds) : ds \in UserDecisions(i, e)}
<1>1. \/ "stay" \in may /\ o \in Some("Stay", "", shown)
      \/ "goto" \in may /\ \E s \in States : o \in Some("Transition", s, shown)
      \/ "continue" \in may /\ o \in Some("Continue", "", shown)
      \/ "error" \in may /\ o \in Some("Error", ErrorState, shown)
      \/ "unserializable" \in may /\ o \in Some("Stay", "", Refused(shown))
      \/ /\ "complete" \in may
         /\ o \in {Complete(i, shown, ds) : ds \in UserDecisions(i, e)}
      \/ "restore" \in may /\ o \in Some("Transition", from.state, from.data)
      \/ "recover" \in may /\ o = Outcome("Continue", "", NilData, <<>>)
      \/ "panic" \in may /\ o = Outcome("panic", "", shown, <<>>)
      \/ "nil" \in may /\ o = Outcome("nil", "", shown, <<>>)
  BY ZenonT(60) DEF DeciderOutcomes, May, Refused
<1>2. ASSUME NEW kind, NEW state, NEW d, o \in Some(kind, state, d)
      PROVE  IsOutcome(o, kind, state, d, i, e)
  BY <1>2 DEF IsOutcome
<1>3. o \in {Complete(i, shown, ds) : ds \in UserDecisions(i, e)}
        => \E ds \in UserDecisions(i, e) : o = Complete(i, shown, ds)
  OBVIOUS
<1> HIDE DEF shown, from, Some
<1>4. \/ "stay" \in may /\ IsOutcome(o, "Stay", "", shown, i, e)
      \/ /\ "goto" \in may
         /\ \E s \in States : IsOutcome(o, "Transition", s, shown, i, e)
      \/ "continue" \in may /\ IsOutcome(o, "Continue", "", shown, i, e)
      \/ "error" \in may /\ IsOutcome(o, "Error", ErrorState, shown, i, e)
      \/ "unserializable" \in may /\ IsOutcome(o, "Stay", "", Refused(shown), i, e)
      \/ /\ "complete" \in may
         /\ \E ds \in UserDecisions(i, e) : o = Complete(i, shown, ds)
      \/ "restore" \in may /\ IsOutcome(o, "Transition", from.state, from.data, i, e)
      \/ "recover" \in may /\ o = Outcome("Continue", "", NilData, <<>>)
      \/ "panic" \in may /\ o = Outcome("panic", "", shown, <<>>)
      \/ "nil" \in may /\ o = Outcome("nil", "", shown, <<>>)
  BY <1>1, <1>2, <1>3, Zenon
<1> QED BY <1>4, Zenon DEF shown, from

LEMMA RestoredType ==
  ASSUME NEW i \in Nat, NEW e \in HistoryEvent, NEW data \in Data
  PROVE  LET from == Restored(i, e, Shown(data, i)) IN
         /\ from.state \in StateNames /\ from.data \in Data
         /\ from.data.seen \subseteq (data.seen \cup e.report.data.seen) \cup {i}
<1>1. e.report.data \in Data /\ e.report.state \in StateNames
  BY DEF HistoryEvent, ErrorReport
<1>2. initialState \in StateNames
  BY StatesAssumption DEF StateNames
<1>3. /\ Shown(data, i) \in Data /\ Shown(data, i).seen = data.seen \cup {i}
      /\ Shown(e.report.data, i) \in Data
      /\ Shown(e.report.data, i).seen = e.report.data.seen \cup {i}
  BY <1>1, ShownType
<1> QED BY <1>1, <1>2, <1>3 DEF Restored

LEMMA DecideGood ==
  ASSUME NEW state, NEW i \in Nat, NEW data \in Data,
         history[i] \in HistoryEvent, NEW o \in Decide(state, i, data)
  PROVE  GoodOutcome(o, i, data.seen \cup history[i].report.data.seen)
<1> DEFINE e == history[i]
           shown == Shown(data, i)
           from == Restored(i, e, shown)
           seen == data.seen \cup e.report.data.seen
<1>1. shown \in Data /\ shown.seen \subseteq seen \cup {i}
  BY ShownType
<1>2. Refused(shown) \in Data /\ Refused(shown).seen \subseteq seen \cup {i}
  BY <1>1 DEF Data, Refused
<1>3. NilData \in Data /\ NilData.seen \subseteq seen \cup {i}
  BY DataTypes DEF NilData
<1>4. /\ from.state \in StateNames
      /\ from.data \in Data /\ from.data.seen \subseteq seen \cup {i}
  BY RestoredType
<1>5. States \subseteq StateNames /\ "" \in StateNames /\ ErrorState \in StateNames
  BY DEF StateNames
<1>6. \/ IsOutcome(o, "Stay", "", shown, i, e)
      \/ \E s \in States : IsOutcome(o, "Transition", s, shown, i, e)
      \/ IsOutcome(o, "Continue", "", shown, i, e)
      \/ IsOutcome(o, "Error", ErrorState, shown, i, e)
      \/ IsOutcome(o, "Stay", "", Refused(shown), i, e)
      \/ \E ds \in UserDecisions(i, e) : o = Complete(i, shown, ds)
      \/ IsOutcome(o, "Transition", from.state, from.data, i, e)
      \/ o = Outcome("Continue", "", NilData, <<>>)
      \/ o = Outcome("panic", "", shown, <<>>)
      \/ o = Outcome("nil", "", shown, <<>>)
  <2>1. o \in DeciderOutcomes(BehavioursIn(state), i, e, data)
    BY DEF Decide
  <2> QED BY <2>1, OutcomeShapes, Zenon
<1> HIDE DEF shown, from, seen, e
<1>7. ASSUME NEW kind, NEW s \in StateNames, NEW d \in Data,
             d.seen \subseteq seen \cup {i}, IsOutcome(o, kind, s, d, i, e)
      PROVE  GoodOutcome(o, i, seen)
  <2>1. PICK ds \in UserDecisions(i, e) : o = Outcome(kind, s, d, ds)
    BY <1>7 DEF IsOutcome
  <2>2. GoodOutcome(Outcome(kind, s, d, ds), i, seen)
    BY <1>7, UserDecisionsPlain, OutcomeIsGood
  <2> QED BY <2>1, <2>2
<1>8. ASSUME NEW kind, NEW d \in Data, d.seen \subseteq seen \cup {i},
             o = Outcome(kind, "", d, <<>>)
      PROVE  GoodOutcome(o, i, seen)
  <2>1. GoodOutcome(Outcome(kind, "", d, <<>>), i, seen)
    BY <1>5, <1>8, NoDecisions, OutcomeIsGood
  <2> QED BY <1>8, <2>1
<1>9. ASSUME NEW ds \in UserDecisions(i, e), o = Complete(i, shown, ds)
      PROVE  GoodOutcome(o, i, seen)
  <2>1. GoodOutcome(Complete(i, shown, ds), i, seen)
    BY <1>1, UserDecisionsPlain, CompleteIsGood
  <2> QED BY <1>9, <2>1
<1>10. GoodOutcome(o, i, seen)
  BY <1>1, <1>2, <1>3, <1>4, <1>5, <1>6, <1>7, <1>8, <1>9, Zenon
<1> QED BY <1>10 DEF seen, e

(***************************************************************************)
(* Ticks that take no part in a step.                                      *)
(***************************************************************************)
HistoryKept == /\ history' \in Seq(HistoryEvent)
               /\ Len(history) <= Len(history')
               /\ \A i \in 1..Len(history) : history'[i] = history[i]

LEMMA GrowingKeeps ==
  ASSUME NEW es \in Seq(HistoryEvent), Grows(es), history \in Seq(HistoryEvent)
  PROVE  HistoryKept
<1>1. Len(history) \in Nat /\ Len(es) \in Nat
  OBVIOUS
<1>2. /\ history' \in Seq(HistoryEvent)
      /\ Len(history') = Len(history) + Len(es)
      /\ \A i \in 1..Len(history) : history'[i] = history[i]
  BY DEF Grows
<1>3. Len(history) <= Len(history')
  BY <1>1, <1>2
<1> QED BY <1>2, <1>3 DEF HistoryKept

LEMMA RecordedStays ==
  ASSUME HistoryKept, history \in Seq(HistoryEvent),
         NEW s, IsRecordedState(s)
  PROVE  \E i \in 1..Len(history') :
           isStateMarker(history'[i]) /\ history'[i].state = s
<1>1. PICK i \in 1..Len(history) : isStateMarker(history[i]) /\ history[i].state = s
  BY DEF IsRecordedState, Ids
<1>2. i \in 1..Len(history') /\ history'[i] = history[i]
  BY <1>1 DEF HistoryKept
<1> QED BY <1>1, <1>2

LEMMA OthersKeep ==
  ASSUME TypeOK, HistoryKept,
         NEW v \in Workers, pc'[v] = pc[v], tick'[v] = tick[v],
         TickInv(pc[v], tick[v]),
         pc[v] \in Working /\ task' = StartedTask(tick[v].started)
           => task' = task /\ prevStarted' = prevStarted
  PROVE  TickInv(pc[v], tick[v])'
<1> DEFINE t == tick[v]
<1>1. t \in Tick /\ t.started \in Nat /\ Len(history) \in Nat
      /\ history \in Seq(HistoryEvent) /\ Len(history') \in Nat
  BY DEF TypeOK, ServiceTypeOK, Tick, HistoryKept
<1>2. ASSUME pc[v] \in Working
      PROVE  TickPosition(tick[v])'
  <2>1. TickPosition(t)
    BY <1>2 DEF TickInv
  <2>2. t.started <= Len(history')
    BY <1>1, <2>1 DEF TickPosition, HistoryKept
  <2> QED BY <1>2, <2>1, <2>2 DEF TickPosition, Left, InWindow, StartedTask
<1>3. ASSUME pc[v] \in Working
      PROVE  TickCauses(tick[v])'
  BY <1>3 DEF TickInv, TickCauses, InWindow, Asks
<1>4. ASSUME pc[v] \in Working
      PROVE  TickSeen(pc[v], tick[v])'
  <2>1. TickSeen(pc[v], t) /\ t.started <= Len(history)
    BY <1>4 DEF TickInv, TickPosition
  <2>2. ASSUME NEW i \in 1..t.started
        PROVE  history'[i] = history[i] /\ SeenUpTo(history[i], t.prev)
    BY <1>1, <2>1 DEF TickSeen, HistoryKept
  <2> QED BY <2>1, <2>2 DEF TickSeen, SeenUpTo, Left
<1>5. ASSUME pc[v] \in Working
      PROVE  TickMarker(pc[v], tick[v])'
  BY <1>5 DEF TickInv, TickMarker
<1>6. ASSUME pc[v] = "replicate"
      PROVE  IsRecordedState(tick[v].saved)'
  BY <1>1, <1>6, RecordedStays DEF TickInv, IsRecordedState, Ids
<1> QED BY <1>2, <1>3, <1>4, <1>5, <1>6 DEF TickInv

LEMMA IdleInv ==
  ASSUME NEW w \in Workers, pc'[w] = "poll"
  PROVE  TickInv(pc[w], tick[w])'
  BY DEF TickInv, Working, Deciding

(***************************************************************************)
(* Steps of the environment and time-outs: the history grows by events that *)
(* schedule no activity and say nothing that the history did not say.       *)
(***************************************************************************)
Quiet(e) ==
  /\ ~IsScheduled(e)
  /\ \/ e.state = NoState /\ e.report = NoReport
     \/ \E i \in Ids : e.state = history[i].state /\ e.report = history[i].report

QuietGrowth == \E es \in Seq(HistoryEvent) :
  Grows(es) /\ \A k \in 1..Len(es) : Quiet(es[k])

LEMMA NoStateSeen ==
  ASSUME NEW n \in Nat, NEW e, e.state = NoState, e.report = NoReport
  PROVE  SeenUpTo(e, n)
<1>1. NoState.data.seen = {} /\ NoReport.data.seen = {}
  BY DEF NoState, NoReport, ZeroData
<1> QED BY <1>1 DEF SeenUpTo

LEMMA QuietSeen ==
  ASSUME NEW e, Quiet(e), NEW n \in Nat, \A i \in Ids : SeenUpTo(history[i], n)
  PROVE  SeenUpTo(e, n)
<1>1. CASE e.state = NoState /\ e.report = NoReport
  BY <1>1, NoStateSeen
<1>2. CASE \E i \in Ids : e.state = history[i].state /\ e.report = history[i].report
  BY <1>2 DEF SeenUpTo
<1> QED BY <1>1, <1>2 DEF Quiet

LEMMA QuietGrowthInv ==
  ASSUME TypeOK, HistoryInv, EffectsAtMostOnce, ReplicatedWasRecorded, QuietGrowth,
         prevStarted' = prevStarted, stream' = stream
  PROVE  /\ HistoryKept
         /\ \A i \in Ids' : SeenUpTo(history'[i], prevStarted)
         /\ \A i \in Ids' : IsScheduled(history'[i]) =>
              i \in Ids /\ history'[i] = history[i]
         /\ EffectsAtMostOnce'
         /\ ReplicatedWasRecorded'
<1>1. PICK es \in Seq(HistoryEvent) : Grows(es) /\ \A k \in 1..Len(es) : Quiet(es[k])
  BY DEF QuietGrowth
<1>2. history \in Seq(HistoryEvent) /\ prevStarted \in Nat
  BY DEF TypeOK, ServiceTypeOK
<1>3. HistoryKept
  BY <1>1, <1>2, GrowingKeeps
<1>4. ASSUME NEW i \in Ids'
      PROVE  \/ i \in Ids /\ history'[i] = history[i]
             \/ Quiet(history'[i])
  <2>1. i \in 1..Len(history') /\ Len(history) \in Nat /\ Len(history') \in Nat
    BY <1>1, <1>2 DEF Ids, Grows
  <2>2. CASE i <= Len(history)
    BY <1>1, <2>1, <2>2 DEF Grows, Ids
  <2>3. CASE i > Len(history)
    <3>1. /\ i - Len(history) \in 1..Len(es)
          /\ history'[i] = es[i - Len(history)]
      BY <1>1, <2>1, <2>3 DEF Grows
    <3> QED BY <1>1, <3>1
  <2> QED BY <2>1, <2>2, <2>3
<1>5. ASSUME NEW i \in Ids'
      PROVE  SeenUpTo(history'[i], prevStarted)
  <2>1. \A j \in Ids : SeenUpTo(history[j], prevStarted)
    BY DEF HistoryInv
  <2>2. CASE i \in Ids /\ history'[i] = history[i]
    BY <2>1, <2>2
  <2>3. CASE Quiet(history'[i])
    BY <1>2, <2>1, <2>3, QuietSeen
  <2> QED BY <1>4, <2>2, <2>3
<1>6. ASSUME NEW i \in Ids', IsScheduled(history'[i])
      PROVE  i \in Ids /\ history'[i] = history[i]
  BY <1>4, <1>6 DEF Quiet
<1>7. EffectsAtMostOnce'
  BY <1>6 DEF EffectsAtMostOnce, IsScheduled
<1>8. ReplicatedWasRecorded'
  <2> SUFFICES ASSUME NEW k \in 1..Len(stream)
               PROVE  \E i \in 1..Len(history') :
                        isStateMarker(history'[i]) /\ history'[i].state = stream[k]
    BY DEF ReplicatedWasRecorded, Ids
  <2>1. IsRecordedState(stream[k])
    BY DEF ReplicatedWasRecorded, IsRecordedState
  <2> QED BY <1>2, <1>3, <2>1, RecordedStays
<1> QED BY <1>3, <1>5, <1>6, <1>7, <1>8

LEMMA PlainEventQuiet ==
  ASSUME NEW type \in EventTypes, type # "ActivityTaskScheduled",
         NEW label \in Labels, NEW ref \in Nat
  PROVE  /\ Event(type, label, ref) \in HistoryEvent
         /\ Quiet(Event(type, label, ref))
  BY EventType DEF Event, Quiet, IsScheduled

QuietEvents(es) == /\ es \in Seq(HistoryEvent)
                   /\ \A k \in 1..Len(es) : Quiet(es[k])

LEMMA QuietSingle ==
  ASSUME NEW e \in HistoryEvent, Quiet(e)
  PROVE  QuietEvents(<<e>>)
<1>1. <<e>> \in Seq(HistoryEvent) /\ \A k \in 1..Len(<<e>>) : <<e>>[k] = e
  BY Singleton
<1> QED BY <1>1 DEF QuietEvents

LEMMA QuietPair ==
  ASSUME NEW d \in HistoryEvent, NEW e \in HistoryEvent, Quiet(d), Quiet(e)
  PROVE  QuietEvents(<<d, e>>)
<1>1. /\ <<d, e>> \in Seq(HistoryEvent) /\ Len(<<d, e>>) = 2
      /\ \A k \in 1..Len(<<d, e>>) : <<d, e>>[k] = d \/ <<d, e>>[k] = e
  OBVIOUS
<1> QED BY <1>1 DEF QuietEvents

LEMMA QuietConcat ==
  ASSUME NEW s, NEW t, QuietEvents(s), QuietEvents(t)
  PROVE  QuietEvents(s \o t)
<1>1. /\ s \in Seq(HistoryEvent) /\ t \in Seq(HistoryEvent)
      /\ Len(s) \in Nat /\ Len(t) \in Nat
  BY DEF QuietEvents
<1> DEFINE u == s \o t
<1>2. /\ u \in Seq(HistoryEvent) /\ Len(u) = Len(s) + Len(t)
      /\ \A i \in 1..(Len(s) + Len(t)) :
           u[i] = IF i <= Len(s) THEN s[i] ELSE t[i - Len(s)]
  BY <1>1, ConcatProperties
<1> HIDE DEF u
<1>3. ASSUME NEW k \in 1..Len(u)
      PROVE  Quiet(u[k])
  <2>1. CASE k <= Len(s)
    <3>1. k \in 1..Len(s) /\ u[k] = s[k]
      BY <1>1, <1>2, <2>1
    <3> QED BY <3>1 DEF QuietEvents
  <2>2. CASE k > Len(s)
    <3>1. k - Len(s) \in 1..Len(t) /\ u[k] = t[k - Len(s)]
      BY <1>1, <1>2, <2>2
    <3> QED BY <3>1 DEF QuietEvents
  <2> QED BY <1>1, <1>2, <2>1, <2>2
<1>4. QuietEvents(u)
  BY <1>2, <1>3 DEF QuietEvents
<1> QED BY <1>4 DEF u

LEMMA QuietAppended ==
  ASSUME history \in Seq(HistoryEvent), NEW es, QuietEvents(es),
         history' = history \o es
  PROVE  QuietGrowth
<1>1. es \in Seq(HistoryEvent)
  BY DEF QuietEvents
<1>2. Grows(es)
  BY <1>1, Growing
<1> QED BY <1>1, <1>2 DEF QuietGrowth, QuietEvents

EnvStep ==
  /\ QuietGrowth
  /\ task' = task \/ task' = ScheduledTask
  /\ faults' \in 0..MaxFaults
  /\ UNCHANGED <<prevStarted, open, pc, tick, stream>>

LEMMA AddEventsQuiet ==
  ASSUME TypeOK, NEW es, QuietEvents(es), AddEvents(es)
  PROVE  /\ QuietGrowth
         /\ task' = task \/ task' = ScheduledTask
         /\ UNCHANGED <<prevStarted, open>>
<1>1. QuietEvents(<<Event("DecisionTaskScheduled", "", 0)>>)
  BY PlainEventQuiet, QuietSingle DEF EventTypes, Labels
<1>2. QuietEvents(<<>>)
  BY DEF QuietEvents
<1>3. QuietEvents(es \o Scheduling)
  BY <1>1, <1>2, QuietConcat DEF Scheduling
<1>4. history \in Seq(HistoryEvent) /\ history' = history \o (es \o Scheduling)
  BY DEF TypeOK, ServiceTypeOK, AddEvents
<1>5. QuietGrowth
  BY <1>3, <1>4, QuietAppended
<1> QED BY <1>5 DEF AddEvents

LEMMA EnvironmentSteps ==
  ASSUME TypeOK, Environment \/ TimeOutAbandoned \/ TimeOutSlow
  PROVE  EnvStep
<1> USE DEF TypeOK
<1>1. faults \in 0..MaxFaults
  OBVIOUS
<1>2. CASE Signal
  <2>1. QuietEvents(<<Event("WorkflowExecutionSignaled", "user", 0)>>)
    BY PlainEventQuiet, QuietSingle DEF EventTypes, Labels, UserLabels
  <2> QED BY <1>1, <1>2, <2>1, AddEventsQuiet DEF Signal, SignalWorkflow, EnvStep
<1>3. CASE ActivityCloses
  <2>1. PICK i \in Ids, type \in Closings : CloseActivity(i, type)
    BY <1>3 DEF ActivityCloses, Ids
  <2>2. type \in EventTypes /\ type # "ActivityTaskScheduled" /\ i \in Nat
    BY ClosingsAssumption DEF ActivityClosed, EventTypes, Ids, ServiceTypeOK
  <2>3. QuietEvents(<<Event(type, "", i)>>)
    BY <2>2, PlainEventQuiet, QuietSingle DEF Labels
  <2>4. AddEvents(<<Event(type, "", i)>>)
    BY <2>1 DEF CloseActivity
  <2> QED BY <1>1, <1>3, <2>3, <2>4, AddEventsQuiet DEF ActivityCloses, EnvStep
<1>4. CASE ErrorSignalArrives
  <2>1. PICK i \in Ids : DeliverSignal(i)
    BY <1>4 DEF ErrorSignalArrives, Ids
  <2> DEFINE d == [history[i] EXCEPT !.type = "WorkflowExecutionSignaled"]
             e == Event("ExternalWorkflowExecutionSignaled", "", i)
  <2>2. history[i] \in HistoryEvent /\ i \in Nat
    BY DEF ServiceTypeOK, Ids
  <2>3. d \in HistoryEvent /\ d.type = "WorkflowExecutionSignaled"
        /\ d.state = history[i].state /\ d.report = history[i].report
    BY <2>2 DEF HistoryEvent, EventTypes
  <2>4. Quiet(d)
    BY <2>3 DEF Quiet, IsScheduled
  <2>5. e \in HistoryEvent /\ Quiet(e)
    BY <2>2, PlainEventQuiet DEF EventTypes, Labels
  <2>6. QuietEvents(<<d, e>>)
    BY <2>3, <2>4, <2>5, QuietPair
  <2>7. AddEvents(<<d, e>>)
    BY <2>1 DEF DeliverSignal
  <2> HIDE DEF d, e
  <2> QED BY <1>1, <1>4, <2>6, <2>7, AddEventsQuiet DEF ErrorSignalArrives, EnvStep
<1>5. CASE TimeOutAbandoned \/ TimeOutSlow
  <2>1. TimeOutTask
    BY <1>5 DEF TimeOutAbandoned, TimeOutSlow
  <2> DEFINE d == Event("DecisionTaskTimedOut", "", 0)
             e == Event("DecisionTaskScheduled", "", 0)
  <2>2. d \in HistoryEvent /\ Quiet(d) /\ e \in HistoryEvent /\ Quiet(e)
    BY PlainEventQuiet DEF EventTypes, Labels
  <2>3. QuietEvents(<<d, e>>)
    BY <2>2, QuietPair
  <2>4. history' = history \o <<d, e>> /\ history \in Seq(HistoryEvent)
    BY <2>1 DEF TimeOutTask, ServiceTypeOK
  <2>5. QuietGrowth
    BY <2>3, <2>4, QuietAppended
  <2>6. faults' \in 0..MaxFaults
    BY <1>1, <1>5, MaxFaultsAssumption DEF TimeOutAbandoned, TimeOutSlow, Fault
  <2> QED BY <1>5, <2>1, <2>5, <2>6
          DEF TimeOutAbandoned, TimeOutSlow, TimeOutTask, EnvStep, worker
<1> QED BY <1>2, <1>3, <1>4, <1>5 DEF Environment

LEMMA EnvStepInv ==
  ASSUME IInv, EnvStep
  PROVE  IInv'
<1>1. TypeOK /\ HistoryInv /\ EffectsAtMostOnce /\ ReplicatedWasRecorded
  BY DEF IInv
<1>2. /\ HistoryKept
      /\ \A i \in Ids' : SeenUpTo(history'[i], prevStarted)
      /\ \A i \in Ids' : IsScheduled(history'[i]) =>
           i \in Ids /\ history'[i] = history[i]
      /\ EffectsAtMostOnce'
      /\ ReplicatedWasRecorded'
  BY <1>1, QuietGrowthInv DEF EnvStep
<1>3. prevStarted' = prevStarted /\ prevStarted \in Nat
      /\ Len(history) \in Nat /\ Len(history') \in Nat
  BY <1>1, <1>2 DEF EnvStep, TypeOK, ServiceTypeOK, HistoryKept
<1>4. TypeOK'
  BY <1>1, <1>2 DEF EnvStep, TypeOK, ServiceTypeOK, HistoryKept, ScheduledTask,
                    TaskStatus
<1>5. HistoryInv'
  <2>1. prevStarted <= Len(history')
    BY <1>1, <1>2, <1>3 DEF HistoryInv, HistoryKept
  <2>2. task'.status = "started" =>
          prevStarted < task'.started /\ task'.started <= Len(history')
    <3>1. CASE task' = task
      <4>1. task.started \in Nat
        BY <1>1 DEF TypeOK, ServiceTypeOK
      <4> QED BY <1>1, <1>2, <1>3, <3>1, <4>1 DEF HistoryInv, HistoryKept
    <3>2. CASE task' = ScheduledTask
      BY <3>2 DEF ScheduledTask
    <3> QED BY <3>1, <3>2 DEF EnvStep
  <2>3. \A i \in Ids' : IsScheduled(history'[i]) => history'[i].ref <= prevStarted
    BY <1>1, <1>2 DEF HistoryInv
  <2> QED BY <1>2, <1>3, <2>1, <2>2, <2>3 DEF HistoryInv
<1>6. ASSUME NEW v \in Workers
      PROVE  TickInv(pc[v], tick[v])'
  <2>1. task' = StartedTask(tick[v].started) => task' = task
    BY DEF EnvStep, ScheduledTask, StartedTask
  <2>2. pc'[v] = pc[v] /\ tick'[v] = tick[v]
    BY DEF EnvStep
  <2>3. TickInv(pc[v], tick[v])
    BY DEF IInv
  <2> QED BY <1>1, <1>2, <1>3, <2>1, <2>2, <2>3, OthersKeep
<1> QED BY <1>2, <1>4, <1>5, <1>6 DEF IInv

(***************************************************************************)
(* Steps of one worker.                                                    *)
(***************************************************************************)
LEMMA GoType ==
  ASSUME TypeOK, NEW w \in Workers, NEW label \in PCs, NEW t \in Tick,
         Go(w, label, t)
  PROVE  /\ pc' \in [Workers -> PCs] /\ tick' \in [Workers -> Tick]
         /\ pc'[w] = label /\ tick'[w] = t
         /\ \A v \in Workers \ {w} : pc'[v] = pc[v] /\ tick'[v] = tick[v]
  BY DEF TypeOK, Go

(* A step of w that leaves the service alone.                              *)
LEMMA WorkerInv ==
  ASSUME IInv, NEW w \in Workers, NEW label \in PCs, NEW t \in Tick,
         Go(w, label, t), faults' \in 0..MaxFaults,
         UNCHANGED <<history, task, prevStarted, open>>,
         stream' \in Seq(SerializedState), ReplicatedWasRecorded',
         TickInv(pc[w], tick[w])'
  PROVE  IInv'
<1>1. TypeOK /\ HistoryInv /\ EffectsAtMostOnce
  BY DEF IInv
<1>2. TypeOK'
  BY <1>1, GoType DEF TypeOK, ServiceTypeOK
<1>3. HistoryInv' /\ EffectsAtMostOnce'
  BY <1>1 DEF HistoryInv, EffectsAtMostOnce, Ids
<1>4. ASSUME NEW v \in Workers, v # w
      PROVE  TickInv(pc[v], tick[v])'
  <2>1. HistoryKept
    BY <1>1 DEF HistoryKept, TypeOK, ServiceTypeOK
  <2>2. pc'[v] = pc[v] /\ tick'[v] = tick[v]
    BY <1>1, <1>4, GoType
  <2>3. TickInv(pc[v], tick[v])
    BY DEF IInv
  <2> QED BY <1>1, <2>1, <2>2, <2>3, OthersKeep
<1> QED BY <1>2, <1>3, <1>4 DEF IInv

LEMMA SameStream ==
  ASSUME IInv, UNCHANGED <<history, stream>>
  PROVE  stream' \in Seq(SerializedState) /\ ReplicatedWasRecorded'
  BY DEF IInv, TypeOK, ReplicatedWasRecorded, Ids

LEMMA IdleSteps ==
  ASSUME IInv, NEW w \in Workers,
         \/ RespondRefused(w) \/ RespondRequestLost(w) \/ ReplicateFails(w)
         \/ ProcessPanics(w) \/ Crash(w)
  PROVE  IInv'
<1>1. /\ Go(w, "poll", IdleTick)
      /\ UNCHANGED <<history, task, prevStarted, open, stream>>
      /\ faults' = faults \/ Fault
  BY DEF RespondRefused, RespondRequestLost, ReplicateFails, ProcessPanics, Crash, Local
<1>2. faults' \in 0..MaxFaults
  BY <1>1, MaxFaultsAssumption DEF IInv, TypeOK, Fault
<1>3. "poll" \in PCs /\ IdleTick \in Tick
  BY DataTypes DEF PCs
<1>4. pc'[w] = "poll"
  BY <1>1, <1>3, GoType DEF IInv
<1> QED BY <1>1, <1>2, <1>3, <1>4, IdleInv, SameStream, WorkerInv

LEMMA ReplicateStep ==
  ASSUME IInv, NEW w \in Workers, Replicate(w)
  PROVE  IInv'
<1>1. /\ Go(w, "poll", IdleTick) /\ pc[w] = "replicate"
      /\ UNCHANGED <<history, task, prevStarted, open, faults>>
      /\ stream' = Append(stream, tick[w].saved)
  BY DEF Replicate
<1>2. "poll" \in PCs /\ IdleTick \in Tick
  BY DataTypes DEF PCs
<1>3. pc'[w] = "poll"
  BY <1>1, <1>2, GoType DEF IInv
<1> DEFINE s == tick[w].saved
<1>4. s \in SerializedState /\ stream \in Seq(SerializedState)
  BY DEF IInv, TypeOK, Tick
<1>5. IsRecordedState(s)
  BY <1>1 DEF IInv, TickInv
<1>6. /\ stream' \in Seq(SerializedState)
      /\ Len(stream') = Len(stream) + 1
      /\ \A k \in 1..Len(stream) : stream'[k] = stream[k]
      /\ stream'[Len(stream) + 1] = s
  BY <1>1, <1>4, AppendProperties
<1>7. \A k \in 1..Len(stream') : k \in 1..Len(stream) \/ k = Len(stream) + 1
  BY <1>4, <1>6
<1>8. ReplicatedWasRecorded'
  <2>1. \A k \in 1..Len(stream) : IsRecordedState(stream[k])
    BY DEF IInv, ReplicatedWasRecorded, IsRecordedState
  <2>2. \A k \in 1..Len(stream') : IsRecordedState(stream'[k])
    BY <1>5, <1>6, <1>7, <2>1
  <2> QED BY <1>1, <2>2 DEF ReplicatedWasRecorded, IsRecordedState, Ids
<1>9. faults' \in 0..MaxFaults
  BY <1>1 DEF IInv, TypeOK
<1> QED BY <1>1, <1>2, <1>3, <1>6, <1>8, <1>9, IdleInv, WorkerInv

LEMMA PollStep ==
  ASSUME IInv, NEW w \in Workers, PollForTask(w)
  PROVE  IInv'
<1> DEFINE e == Event("DecisionTaskStarted", "", 0)
           n == Len(history) + 1
           t == [IdleTick EXCEPT !.prev = prevStarted, !.started = n,
                                 !.errs = ErrorEvents(history', prevStarted, n),
                                 !.todo = LastEvents(history', prevStarted, n)]
<1>1. TypeOK /\ HistoryInv /\ EffectsAtMostOnce /\ ReplicatedWasRecorded
  BY DEF IInv
<1>2. /\ history \in Seq(HistoryEvent) /\ Len(history) \in Nat /\ n \in Nat
      /\ prevStarted \in Nat /\ prevStarted <= Len(history)
  BY <1>1 DEF TypeOK, ServiceTypeOK, HistoryInv
<1>3. /\ history' = Append(history, e) /\ task' = StartedTask(n)
      /\ Go(w, "begin", t)
      /\ UNCHANGED <<prevStarted, open, stream, faults>>
  BY DEF PollForTask, StartTask
<1>4. e \in HistoryEvent /\ Quiet(e)
  BY PlainEventQuiet DEF EventTypes, Labels
<1> HIDE DEF e
<1>5. QuietGrowth
  <2>1. history' = history \o <<e>>
    BY <1>2, <1>3, <1>4, AppendIsConcat
  <2> QED BY <1>2, <1>4, <2>1, QuietSingle, QuietAppended
<1>6. /\ HistoryKept
      /\ \A i \in Ids' : SeenUpTo(history'[i], prevStarted)
      /\ \A i \in Ids' : IsScheduled(history'[i]) =>
           i \in Ids /\ history'[i] = history[i]
      /\ EffectsAtMostOnce'
      /\ ReplicatedWasRecorded'
  BY <1>1, <1>3, <1>5, QuietGrowthInv
<1>7. Len(history') = n
  BY <1>2, <1>3, <1>4, AppendProperties
<1>8. /\ ErrorEvents(history', prevStarted, n) \subseteq (prevStarted + 1)..n
      /\ LastEvents(history', prevStarted, n) \subseteq (prevStarted + 1)..n
      /\ ErrorEvents(history', prevStarted, n)
           \cap LastEvents(history', prevStarted, n) = {}
  BY <1>2 DEF ErrorEvents, LastEvents, Window, Page, Delivered
<1>9. /\ t \in Tick
      /\ t.prev = prevStarted /\ t.started = n
      /\ Left(t) \subseteq (prevStarted + 1)..n
      /\ t.errs \cap t.todo = {}
      /\ t.decisions = <<>> /\ t.data = NilData /\ t.saved = NoState
      /\ t.failed = FALSE
  <2>1. /\ ErrorEvents(history', prevStarted, n) \in SUBSET Nat
        /\ LastEvents(history', prevStarted, n) \in SUBSET Nat
    BY <1>2, <1>8
  <2>2. IdleTick \in Tick
    BY DataTypes
  <2>3. t \in Tick
    BY <1>2, <2>1, <2>2 DEF Tick
  <2> QED BY <1>8, <2>3 DEF IdleTick, Left
<1> HIDE DEF t, n
<1>10. /\ pc' \in [Workers -> PCs] /\ tick' \in [Workers -> Tick]
       /\ pc'[w] = "begin" /\ tick'[w] = t
       /\ \A v \in Workers \ {w} : pc'[v] = pc[v] /\ tick'[v] = tick[v]
  BY <1>1, <1>3, <1>9, GoType DEF PCs
<1>11. TypeOK'
  BY <1>1, <1>2, <1>3, <1>6, <1>10
     DEF TypeOK, ServiceTypeOK, HistoryKept, StartedTask, TaskStatus
<1>12. HistoryInv'
  <2>1. prevStarted < n /\ n <= Len(history')
    BY <1>2, <1>7 DEF n
  <2>2. \A i \in Ids' : IsScheduled(history'[i]) => history'[i].ref <= prevStarted
    BY <1>1, <1>6 DEF HistoryInv
  <2>3. task'.started = n
    BY <1>3 DEF StartedTask
  <2>4. prevStarted <= Len(history')
    BY <1>2, <1>7 DEF n
  <2> QED BY <1>3, <1>6, <2>1, <2>2, <2>3, <2>4 DEF HistoryInv
<1>13. TickInv(pc[w], tick[w])'
  <2>1. TickPosition(tick[w])'
    BY <1>2, <1>3, <1>7, <1>9, <1>10 DEF TickPosition, InWindow, Left, n
  <2>2. TickCauses(tick[w])'
    BY <1>9, <1>10 DEF TickCauses
  <2>3. TickSeen(pc[w], tick[w])'
    <3>1. \A i \in 1..t.started : SeenUpTo(history'[i], t.prev)
      BY <1>6, <1>7, <1>9 DEF Ids
    <3>2. NilData.seen = {} /\ NoState.data.seen = {}
      BY DEF NilData, NoState, ZeroData
    <3> QED BY <1>9, <1>10, <3>1, <3>2 DEF TickSeen, SeenUpTo, Left
  <2>4. TickMarker(pc[w], tick[w])'
    BY <1>9, <1>10 DEF TickMarker
  <2> QED BY <1>10, <2>1, <2>2, <2>3, <2>4 DEF TickInv
<1>14. ASSUME NEW v \in Workers, v # w
       PROVE  TickInv(pc[v], tick[v])'
  <2>1. pc'[v] = pc[v] /\ tick'[v] = tick[v]
    BY <1>10, <1>14
  <2>2. TickInv(pc[v], tick[v])
    BY DEF IInv
  <2>3. pc[v] \in Working => task' # StartedTask(tick[v].started)
    <3>1. tick[v].started \in Nat
      BY <1>1 DEF TypeOK, Tick
    <3>2. pc[v] \in Working => tick[v].started <= Len(history)
      BY <2>2 DEF TickInv, TickPosition
    <3> QED BY <1>2, <1>3, <3>1, <3>2 DEF StartedTask, n
  <2> QED BY <1>1, <1>6, <2>1, <2>2, <2>3, OthersKeep
<1> QED BY <1>6, <1>11, <1>12, <1>13, <1>14 DEF IInv

(***************************************************************************)
(* The steps of Tick touch nothing but the tick.                           *)
(***************************************************************************)
LEMMA LocalStep ==
  ASSUME IInv, NEW w \in Workers, NEW label \in PCs, NEW t \in Tick,
         Go(w, label, t), Local, TickInv(label, t)
  PROVE  IInv'
<1>1. pc'[w] = label /\ tick'[w] = t
  BY GoType DEF IInv
<1>2. UNCHANGED <<history, task, prevStarted, open, stream, faults>>
  BY DEF Local
<1>3. TickInv(pc[w], tick[w])'
  <2>1. TickPosition(t) => TickPosition(tick[w])'
    BY <1>1, <1>2 DEF TickPosition, Left, InWindow, StartedTask
  <2>2. TickCauses(t) => TickCauses(tick[w])'
    BY <1>1 DEF TickCauses, Asks, InWindow, Left
  <2>3. TickSeen(label, t) => TickSeen(pc[w], tick[w])'
    BY <1>1, <1>2 DEF TickSeen, SeenUpTo, Left
  <2>4. TickMarker(label, t) => TickMarker(pc[w], tick[w])'
    BY <1>1 DEF TickMarker
  <2>5. IsRecordedState(t.saved) => IsRecordedState(tick[w].saved)'
    BY <1>1, <1>2 DEF IsRecordedState, Ids
  <2> QED BY <1>1, <2>1, <2>2, <2>3, <2>4, <2>5 DEF TickInv
<1>4. faults' \in 0..MaxFaults
  BY <1>2 DEF IInv, TypeOK
<1> QED BY <1>2, <1>3, <1>4, SameStream, WorkerInv

LEMMA FailingInv ==
  ASSUME NEW t \in Tick, NEW label \in Deciding, TickInv(label, t),
         NEW d \in Decision, ~Asks(d), SeenUpTo(d, t.started)
  PROVE  /\ Failing(t, d) \in Tick
         /\ TickInv("respond", Failing(t, d))
<1> DEFINE f == Failing(t, d)
           ds == t.decisions
<1>1. ds \in Seq(Decision) /\ Len(ds) \in Nat
  BY DEF Tick
<1>2. /\ Append(ds, d) \in Seq(Decision)
      /\ Len(Append(ds, d)) = Len(ds) + 1
      /\ \A k \in 1..Len(ds) : Append(ds, d)[k] = ds[k]
      /\ Append(ds, d)[Len(ds) + 1] = d
  BY <1>1, AppendProperties
<1>3. /\ f \in Tick /\ f.decisions = Append(ds, d) /\ f.failed = TRUE
      /\ f.prev = t.prev /\ f.started = t.started /\ f.errs = t.errs
      /\ f.todo = t.todo /\ f.data = t.data /\ f.saved = t.saved
  BY <1>2 DEF Failing, Tick
<1>4. \A k \in 1..Len(f.decisions) : k \in 1..Len(ds) \/ k = Len(ds) + 1
  BY <1>1, <1>2, <1>3
<1>5. TickPosition(t) /\ TickCauses(t) /\ TickSeen(label, t)
  BY DEF TickInv, Working
<1> HIDE DEF f
<1>6. TickPosition(f)
  BY <1>3, <1>5 DEF TickPosition, Left, InWindow
<1>7. \A k \in 1..Len(f.decisions) :
        Asks(f.decisions[k]) => k \in 1..Len(ds) /\ f.decisions[k] = ds[k]
  BY <1>2, <1>3, <1>4
<1>8. TickCauses(f)
  BY <1>3, <1>5, <1>7 DEF TickCauses, InWindow, Left
<1>9. \A k \in 1..Len(f.decisions) : SeenUpTo(f.decisions[k], f.started)
  BY <1>2, <1>3, <1>4, <1>5 DEF TickSeen
<1>10. TickSeen("respond", f)
  BY <1>3, <1>5, <1>9 DEF TickSeen, Deciding
<1>11. TickMarker("respond", f)
  BY <1>3 DEF TickMarker, Deciding
<1> QED BY <1>3, <1>6, <1>8, <1>10, <1>11 DEF TickInv, Working, f

LEMMA captureErrorProps ==
  ASSUME NEW signal \in {ErrorSignal, SystemErrorSignal}, NEW report \in ErrorReport
  PROVE  /\ captureError(signal, report) \in Decision
         /\ ~Asks(captureError(signal, report))
         /\ captureError(signal, report).state = NoState
         /\ captureError(signal, report).report = report
<1>1. NewDecision("SignalExternalWorkflowExecution", signal, 0) \in Decision
  BY NewDecisionType DEF DecisionTypes, Labels
<1> QED BY <1>1 DEF captureError, NewDecision, Decision, Asks

LEMMA captureDecisionErrorProps ==
  ASSUME NEW i \in Nat, NEW ids \in SUBSET Nat, NEW state \in StateNames,
         NEW data \in Data, NEW n \in Nat, data.seen \subseteq 1..n
  PROVE  LET d == captureDecisionError(i, ids, state, data)
         IN  d \in Decision /\ ~Asks(d) /\ SeenUpTo(d, n)
<1> DEFINE report == [type |-> "", failed |-> i,
                      unprocessed |-> eventIDs({j \in ids : j < i}),
                      state |-> state, data |-> Stored(data)]
           d == captureDecisionError(i, ids, state, data)
<1>1. Stored(data) \in Data /\ Stored(data).seen \subseteq 1..n
  BY StoredType
<1>2. eventIDs({j \in ids : j < i}) \in SUBSET Nat
  BY eventIDsType
<1>3. report \in ErrorReport /\ report.data = Stored(data)
  BY <1>1, <1>2 DEF ErrorReport, ErrorTypes
<1>4. d = captureError(ErrorSignal, report)
  BY DEF captureDecisionError
<1> HIDE DEF report, d
<1>5. d \in Decision /\ ~Asks(d) /\ d.state = NoState /\ d.report = report
  BY <1>3, <1>4, captureErrorProps
<1>6. NoState.data.seen = {}
  BY DEF NoState, ZeroData
<1>7. SeenUpTo(d, n)
  BY <1>1, <1>3, <1>5, <1>6 DEF SeenUpTo
<1> QED BY <1>5, <1>7 DEF d

LEMMA captureSystemErrorProps ==
  ASSUME NEW type \in ErrorTypes, NEW ids \in SUBSET Nat, NEW n \in Nat
  PROVE  LET d == captureSystemError(type, ids)
         IN  d \in Decision /\ ~Asks(d) /\ SeenUpTo(d, n)
<1> DEFINE report == [NoReport EXCEPT !.type = type, !.unprocessed = eventIDs(ids)]
           d == captureSystemError(type, ids)
<1>1. eventIDs(ids) \in SUBSET Nat /\ NoReport \in ErrorReport
  BY eventIDsType, DataTypes
<1>2. report \in ErrorReport /\ report.data = ZeroData
  BY <1>1 DEF ErrorReport, NoReport
<1>3. d = captureError(SystemErrorSignal, report)
  BY DEF captureSystemError
<1> HIDE DEF report, d
<1>4. d \in Decision /\ ~Asks(d) /\ d.state = NoState /\ d.report = report
  BY <1>2, <1>3, captureErrorProps
<1>5. NoState.data.seen = {} /\ ZeroData.seen = {}
  BY DEF NoState, ZeroData
<1>6. SeenUpTo(d, n)
  BY <1>2, <1>4, <1>5 DEF SeenUpTo
<1> QED BY <1>4, <1>6 DEF d

(* What an event that was handled leaves of a tick.                        *)
LEMMA MergedInv ==
  ASSUME NEW t \in Tick, NEW label \in Deciding, TickInv(label, t),
         NEW i \in Left(t), NEW o, GoodOutcome(o, i, t.data.seen \cup 1..t.prev),
         NEW t1 \in Tick, NEW label1 \in Deciding,
         t1.prev = t.prev, t1.started = t.started, t1.saved = t.saved,
         t1.failed = t.failed, t1.data = o.data,
         t1.decisions = t.decisions \o o.decisions,
         t1.errs \subseteq t.errs, t1.todo \subseteq t.todo, i \notin Left(t1)
  PROVE  TickInv(label1, t1)
<1> DEFINE ds == t.decisions
           os == o.decisions
<1>1. TickPosition(t) /\ TickCauses(t) /\ TickSeen(label, t) /\ TickMarker(label, t)
  BY DEF TickInv, Working
<1>2. /\ ds \in Seq(Decision) /\ os \in Seq(Decision)
      /\ Len(ds) \in Nat /\ Len(os) \in Nat
      /\ t.prev \in Nat /\ t.started \in Nat
  BY DEF Tick, GoodOutcome, PlainDecisions
<1>3. /\ t1.decisions \in Seq(Decision)
      /\ Len(t1.decisions) = Len(ds) + Len(os)
      /\ \A k \in 1..(Len(ds) + Len(os)) : t1.decisions[k] =
             IF k <= Len(ds) THEN ds[k] ELSE os[k - Len(ds)]
  <2>1. t1.decisions = ds \o os
    OBVIOUS
  <2> HIDE DEF ds, os
  <2>2. /\ ds \o os \in Seq(Decision)
        /\ Len(ds \o os) = Len(ds) + Len(os)
        /\ \A k \in 1..(Len(ds) + Len(os)) : (ds \o os)[k] =
             IF k <= Len(ds) THEN ds[k] ELSE os[k - Len(ds)]
    BY <1>2, ConcatProperties
  <2> QED BY <2>1, <2>2
<1>4. Left(t1) \subseteq Left(t) \ {i}
  BY DEF Left
<1>5. i \in InWindow(t) /\ i \in Nat /\ i <= t.started /\ i > t.prev
  BY <1>1, <1>2 DEF TickPosition, InWindow
<1>6. TickPosition(t1)
  BY <1>1, <1>4 DEF TickPosition, InWindow
<1>7. ASSUME NEW k \in 1..Len(t1.decisions)
      PROVE  \/ k \in 1..Len(ds) /\ t1.decisions[k] = ds[k]
             \/ k > Len(ds) /\ k - Len(ds) \in 1..Len(os)
                /\ t1.decisions[k] = os[k - Len(ds)]
  <2> HIDE DEF ds, os
  <2>1. /\ k \in 1..(Len(ds) + Len(os)) /\ Len(ds) \in Nat /\ Len(os) \in Nat
        /\ k \in Int
    BY <1>2, <1>3
  <2>2. t1.decisions[k] = IF k <= Len(ds) THEN ds[k] ELSE os[k - Len(ds)]
    BY <1>3, <2>1
  <2>3. CASE k <= Len(ds)
    BY <2>1, <2>2, <2>3
  <2>4. CASE k > Len(ds)
    BY <2>1, <2>2, <2>4
  <2> QED BY <2>1, <2>3, <2>4
<1>8. ASSUME NEW k \in 1..Len(t1.decisions), Asks(t1.decisions[k])
      PROVE  \/ /\ k \in 1..Len(ds) /\ t1.decisions[k] = ds[k]
                /\ t1.decisions[k].ref \in InWindow(t) \ Left(t)
             \/ k = Len(ds) + 1 /\ t1.decisions[k].ref = i
  <2>1. CASE k \in 1..Len(ds) /\ t1.decisions[k] = ds[k]
    BY <1>1, <1>8, <2>1 DEF TickCauses
  <2>2. CASE k > Len(ds) /\ k - Len(ds) \in 1..Len(os)
             /\ t1.decisions[k] = os[k - Len(ds)]
    <3>1. k - Len(ds) = 1 /\ t1.decisions[k].ref = i
      BY <1>8, <2>2 DEF GoodOutcome, PlainDecisions
    <3> QED BY <1>2, <1>3, <3>1
  <2> QED BY <1>7, <2>1, <2>2
<1>9. TickCauses(t1)
  <2>1. ASSUME NEW k \in 1..Len(t1.decisions), Asks(t1.decisions[k])
        PROVE  t1.decisions[k].ref \in InWindow(t1) \ Left(t1)
    BY <1>4, <1>5, <1>8, <2>1 DEF InWindow
  <2>2. ASSUME NEW k \in 1..Len(t1.decisions), NEW l \in 1..Len(t1.decisions),
               Asks(t1.decisions[k]), Asks(t1.decisions[l]),
               t1.decisions[k].ref = t1.decisions[l].ref
        PROVE  k = l
    BY <1>1, <1>8, <2>2 DEF TickCauses
  <2> QED BY <2>1, <2>2 DEF TickCauses
<1>10. TickSeen(label1, t1)
  <2>1. \A k \in 1..Len(t1.decisions) : SeenUpTo(t1.decisions[k], t1.started)
    <3>1. \A k \in 1..Len(ds) : SeenUpTo(ds[k], t.started)
      BY <1>1 DEF TickSeen
    <3>2. \A k \in 1..Len(os) : SeenUpTo(os[k], t.started)
      BY <1>2, NoStateSeen DEF GoodOutcome, PlainDecisions
    <3> QED BY <1>7, <3>1, <3>2
  <2>2. t.data.seen \subseteq 1..t.started /\ t.data.seen \cap Left(t) = {}
        /\ t.saved.data.seen \subseteq 1..t.prev
    BY <1>1 DEF TickSeen
  <2>3. Left(t) \cap 1..t.prev = {} /\ 1..t.prev \subseteq 1..t.started
    BY <1>1, <1>2 DEF TickPosition, InWindow
  <2>4. o.data.seen \subseteq (t.data.seen \cup 1..t.prev) \cup {i}
    BY DEF GoodOutcome
  <2>5. t1.data.seen \subseteq 1..t1.started /\ t1.data.seen \cap Left(t1) = {}
    BY <1>2, <1>4, <1>5, <2>2, <2>3, <2>4
  <2>6. \A j \in 1..t1.started : SeenUpTo(history[j], t1.prev)
    BY <1>1 DEF TickSeen
  <2> QED BY <2>1, <2>2, <2>3, <2>5, <2>6 DEF TickSeen
<1>11. TickMarker(label1, t1)
  BY <1>1 DEF TickMarker, Deciding
<1> QED BY <1>6, <1>9, <1>10, <1>11 DEF TickInv, Working, Deciding

LEMMA PageIds ==
  ASSUME NEW h, NEW prev, NEW started \in Nat
  PROVE  /\ Page(started) \in SUBSET Nat
         /\ LastEvents(h, prev, started) \in SUBSET Nat
         /\ ErrorEvents(h, prev, started) \in SUBSET Nat
         /\ StateEvents(h, started) \subseteq 1..started
  BY DEF Page, Window, LastEvents, ErrorEvents, StateEvents

(* A tick that gives up with a report.                                     *)
LEMMA GiveUpStep ==
  ASSUME IInv, NEW w \in Workers, pc[w] \in Deciding, NEW d \in Decision,
         ~Asks(d), SeenUpTo(d, tick[w].started),
         Go(w, "respond", Failing(tick[w], d)), Local
  PROVE  IInv'
<1>1. tick[w] \in Tick /\ TickInv(pc[w], tick[w])
  BY DEF IInv, TypeOK
<1>2. Failing(tick[w], d) \in Tick /\ TickInv("respond", Failing(tick[w], d))
  BY <1>1, FailingInv
<1> QED BY <1>2, LocalStep DEF PCs

LEMMA FindStateStep ==
  ASSUME IInv, NEW w \in Workers, FindState(w)
  PROVE  IInv'
<1> DEFINE t == tick[w]
           S == StateEvents(history, t.started)
<1>1. /\ t \in Tick /\ t.started \in Nat /\ t.prev \in Nat
      /\ TickInv("begin", t) /\ pc[w] = "begin" /\ Local
  BY DEF IInv, TypeOK, Tick, FindState
<1>2. CASE Go(w, "respond", Failing(t, captureSystemError("FindSerializedStateError",
                                                          Page(t.started))))
  <2> DEFINE d == captureSystemError("FindSerializedStateError", Page(t.started))
  <2>1. d \in Decision /\ ~Asks(d) /\ SeenUpTo(d, t.started)
    BY <1>1, PageIds, captureSystemErrorProps DEF ErrorTypes
  <2> HIDE DEF d
  <2>2. Go(w, "respond", Failing(t, d))
    BY <1>2 DEF d
  <2> QED BY <1>1, <2>1, <2>2, GiveUpStep DEF Deciding
<1>3. ASSUME NEW i \in S, NEW s, s = findSerializedState(history[i]),
             Go(w, "errors",
                [t EXCEPT !.saved = s, !.pending = s.pending,
                          !.state = IF t.errs = {} THEN "" ELSE errorState,
                          !.data = IF t.errs = {} THEN NilData ELSE ZeroData])
      PROVE  IInv'
  <2> DEFINE t1 == [t EXCEPT !.saved = s, !.pending = s.pending,
                          !.state = IF t.errs = {} THEN "" ELSE errorState,
                          !.data = IF t.errs = {} THEN NilData ELSE ZeroData]
  <2>1. TickPosition(t) /\ TickCauses(t) /\ TickSeen("begin", t)
        /\ TickMarker("begin", t)
    BY <1>1 DEF TickInv, Working, Deciding
  <2>2. i \in 1..t.started /\ i \in Ids /\ history[i] \in HistoryEvent
    <3>1. i \in 1..t.started
      BY <1>1, PageIds
    <3>2. history \in Seq(HistoryEvent) /\ Len(history) \in Nat
      BY DEF IInv, TypeOK, ServiceTypeOK
    <3>3. i \in 1..Len(history)
      BY <1>1, <2>1, <3>1, <3>2 DEF TickPosition
    <3> QED BY <3>1, <3>2, <3>3 DEF Ids
  <2>3. s \in SerializedState /\ s.data = history[i].state.data
    <3>1. history[i].state \in SerializedState
      BY <2>2 DEF HistoryEvent
    <3> QED BY <1>3, <3>1, StatesAssumption
            DEF findSerializedState, SerializedState, StateNames
  <2>4. s.data.seen \subseteq 1..t.prev
    BY <2>1, <2>2, <2>3 DEF TickSeen, SeenUpTo
  <2>5. /\ t1 \in Tick /\ t1.saved = s /\ t1.prev = t.prev
        /\ t1.started = t.started /\ t1.errs = t.errs /\ t1.todo = t.todo
        /\ t1.decisions = t.decisions /\ t1.failed = t.failed
        /\ t1.data \in {NilData, ZeroData}
    <3>1. s.pending \in SUBSET Nat
      BY <2>3 DEF SerializedState
    <3>2. "" \in StateNames /\ errorState \in StateNames
      BY DEF StateNames
    <3> QED BY <1>1, <2>3, <3>1, <3>2, DataTypes DEF Tick
  <2>6. t1.data.seen = {}
    BY <2>5 DEF NilData, ZeroData
  <2>7. 1..t.prev \subseteq 1..t.started
    BY <1>1, <2>1 DEF TickPosition
  <2> HIDE DEF t1
  <2>8. TickPosition(t1)
    BY <2>1, <2>5 DEF TickPosition, Left, InWindow
  <2>9. TickCauses(t1)
    BY <2>1, <2>5 DEF TickCauses, Left, InWindow
  <2>10. TickSeen("errors", t1)
    BY <2>1, <2>4, <2>5, <2>6, <2>7 DEF TickSeen, Left, Deciding
  <2>11. TickMarker("errors", t1)
    BY <2>1, <2>5 DEF TickMarker, Deciding
  <2>12. TickInv("errors", t1)
    BY <2>8, <2>9, <2>10, <2>11 DEF TickInv
  <2>13. Go(w, "errors", t1)
    BY <1>3 DEF t1
  <2> QED BY <1>1, <2>5, <2>12, <2>13, LocalStep DEF PCs
<1> QED BY <1>2, <1>3 DEF FindState

(* The events a tick still has to handle lie in the history, and what they  *)
(* report is about events before its window.                                *)
LEMMA LeftEvents ==
  ASSUME IInv, NEW w \in Workers, pc[w] \in Deciding, NEW i \in Left(tick[w])
  PROVE  /\ i \in Ids /\ i \in Nat /\ history[i] \in HistoryEvent
         /\ history[i].report.data.seen \subseteq 1..tick[w].prev
<1> DEFINE t == tick[w]
<1>1. TickPosition(t) /\ TickSeen(pc[w], t)
  BY DEF IInv, TickInv, Working
<1>2. t.prev \in Nat /\ t.started \in Nat
      /\ history \in Seq(HistoryEvent) /\ Len(history) \in Nat
  BY DEF IInv, TypeOK, ServiceTypeOK, Tick
<1>3. i \in 1..t.started /\ i \in 1..Len(history)
  BY <1>1, <1>2 DEF TickPosition, InWindow
<1> QED BY <1>1, <1>2, <1>3 DEF TickSeen, SeenUpTo, Ids

LEMMA HandledStep ==
  ASSUME IInv, NEW w \in Workers, pc[w] \in Deciding, NEW i \in Left(tick[w]),
         NEW o, GoodOutcome(o, i, tick[w].data.seen \cup history[i].report.data.seen),
         NEW errs, NEW todo, NEW pending \in SUBSET Nat, NEW label \in Deciding,
         errs \subseteq tick[w].errs, todo \subseteq tick[w].todo,
         i \notin errs \cup todo,
         Go(w, label, [mergeOutcomes(tick[w], o)
                         EXCEPT !.errs = errs, !.todo = todo, !.pending = pending]),
         Local
  PROVE  IInv'
<1> DEFINE t == tick[w]
           t1 == [mergeOutcomes(t, o)
                    EXCEPT !.errs = errs, !.todo = todo, !.pending = pending]
<1>1. t \in Tick /\ TickInv(pc[w], t)
  BY DEF IInv, TypeOK
<1>2. GoodOutcome(o, i, t.data.seen \cup 1..t.prev)
  BY LeftEvents DEF GoodOutcome
<1>3. /\ o.data \in Data /\ o.state \in StateNames
      /\ t.decisions \o o.decisions \in Seq(Decision)
  <2>1. t.decisions \in Seq(Decision) /\ o.decisions \in Seq(Decision)
    BY <1>1 DEF Tick, GoodOutcome, PlainDecisions
  <2> QED BY <2>1, ConcatProperties DEF GoodOutcome
<1>4. errs \in SUBSET Nat /\ todo \in SUBSET Nat
  BY <1>1 DEF Tick
<1>5. /\ t1 \in Tick
      /\ t1.prev = t.prev /\ t1.started = t.started /\ t1.saved = t.saved
      /\ t1.failed = t.failed /\ t1.data = o.data
      /\ t1.decisions = t.decisions \o o.decisions
      /\ t1.errs = errs /\ t1.todo = todo
  BY <1>1, <1>3, <1>4 DEF mergeOutcomes, Tick
<1>6. Go(w, label, t1)
  OBVIOUS
<1> HIDE DEF t1
<1>7. TickInv(label, t1)
  BY <1>1, <1>2, <1>5, MergedInv DEF Left
<1> QED BY <1>5, <1>6, <1>7, LocalStep DEF Deciding, PCs

LEMMA HandleErrorEventStep ==
  ASSUME IInv, NEW w \in Workers, HandleErrorEvent(w)
  PROVE  IInv'
<1> DEFINE t == tick[w]
           ids == ErrorEvents(history, t.prev, t.started)
<1>1. PICK i \in t.errs : \E o \in Decide(errorState, i, t.data) :
        IF Returned(o)
        THEN Go(w, "errors", [mergeOutcomes(t, o) EXCEPT !.errs = @ \ {i}])
        ELSE Go(w, "respond", Failing(t, captureDecisionError(i, ids,
                                                      t.state, t.data)))
  BY DEF HandleErrorEvent
<1>0. PICK o \in Decide(errorState, i, t.data) :
        IF Returned(o)
        THEN Go(w, "errors", [mergeOutcomes(t, o) EXCEPT !.errs = @ \ {i}])
        ELSE Go(w, "respond", Failing(t, captureDecisionError(i, ids,
                                                      t.state, t.data)))
  BY <1>1
<1>2. pc[w] = "errors" /\ pc[w] \in Deciding /\ Local
  BY DEF HandleErrorEvent, Deciding
<1>3. t \in Tick /\ TickInv(pc[w], t)
  BY DEF IInv, TypeOK
<1>4. i \in Left(t) /\ i \in Nat /\ history[i] \in HistoryEvent
  BY <1>2, LeftEvents DEF Left
<1>5. CASE Returned(o)
  <2>1. GoodOutcome(o, i, t.data.seen \cup history[i].report.data.seen)
    BY <1>3, <1>4, DecideGood DEF Tick
  <2>2. [mergeOutcomes(t, o) EXCEPT !.errs = @ \ {i}]
          = [mergeOutcomes(t, o) EXCEPT !.errs = t.errs \ {i}, !.todo = t.todo,
                                        !.pending = t.pending]
    BY <1>3 DEF mergeOutcomes, Tick
  <2>3. t.pending \in SUBSET Nat
    BY <1>3 DEF Tick
  <2>4. i \notin (t.errs \ {i}) \cup t.todo
    BY <1>2, <1>3 DEF TickInv, TickPosition, Working
  <2> DEFINE errs == t.errs \ {i}
  <2>5. Go(w, "errors", [mergeOutcomes(t, o) EXCEPT !.errs = errs,
                               !.todo = t.todo, !.pending = t.pending])
    BY <1>0, <1>5, <2>2
  <2>6. /\ errs \subseteq t.errs /\ t.todo \subseteq t.todo
        /\ i \notin errs \cup t.todo /\ "errors" \in Deciding
    BY <2>4 DEF Deciding
  <2> HIDE DEF errs
  <2> QED BY <1>2, <1>4, <2>1, <2>3, <2>5, <2>6, HandledStep, Zenon
<1>6. CASE ~Returned(o)
  <2> DEFINE d == captureDecisionError(i, ids, t.state, t.data)
  <2>1. t.data \in Data /\ t.state \in StateNames /\ t.started \in Nat
    BY <1>3 DEF Tick
  <2>2. t.data.seen \subseteq 1..t.started
    BY <1>2, <1>3 DEF TickInv, TickSeen, Working
  <2>3. ids \in SUBSET Nat
    BY <2>1, PageIds
  <2>4. d \in Decision /\ ~Asks(d) /\ SeenUpTo(d, t.started)
    BY <1>4, <2>1, <2>2, <2>3, captureDecisionErrorProps
  <2> HIDE DEF d
  <2>5. Go(w, "respond", Failing(t, d))
    BY <1>0, <1>6 DEF d
  <2> QED BY <1>2, <2>4, <2>5, GiveUpStep
<1> QED BY <1>5, <1>6

LEMMA TrackType ==
  ASSUME NEW pending \in SUBSET Nat, NEW i \in Nat, NEW e
  PROVE  Track(pending, i, e) \in SUBSET Nat
  BY DEF Track, Correlate, RemoveCorrelation

LEMMA HandleEventStep ==
  ASSUME IInv, NEW w \in Workers, HandleEvent(w)
  PROVE  IInv'
<1> DEFINE t == tick[w]
           ids == LastEvents(history, t.prev, t.started)
<1>1. PICK i \in t.todo : \E o \in Decide(t.state, i, t.data) :
        IF Returned(o)
        THEN Go(w, "events", [mergeOutcomes(t, o) EXCEPT !.todo = @ \ {i},
                                !.pending = Track(@, i, history[i])])
        ELSE Go(w, "respond", Failing(t, captureDecisionError(i, ids,
                                                      t.state, t.data)))
  BY DEF HandleEvent
<1>0. PICK o \in Decide(t.state, i, t.data) :
        IF Returned(o)
        THEN Go(w, "events", [mergeOutcomes(t, o) EXCEPT !.todo = @ \ {i},
                                !.pending = Track(@, i, history[i])])
        ELSE Go(w, "respond", Failing(t, captureDecisionError(i, ids,
                                                      t.state, t.data)))
  BY <1>1
<1>2. pc[w] = "events" /\ pc[w] \in Deciding /\ Local
  BY DEF HandleEvent, Deciding
<1>3. t \in Tick /\ TickInv(pc[w], t)
  BY DEF IInv, TypeOK
<1>4. i \in Left(t) /\ i \in Nat /\ history[i] \in HistoryEvent
  BY <1>2, LeftEvents DEF Left
<1>5. CASE Returned(o)
  <2>1. GoodOutcome(o, i, t.data.seen \cup history[i].report.data.seen)
    BY <1>3, <1>4, DecideGood DEF Tick
  <2> DEFINE pending == Track(t.pending, i, history[i])
  <2>2. [mergeOutcomes(t, o) EXCEPT !.todo = @ \ {i},
                                    !.pending = Track(@, i, history[i])]
          = [mergeOutcomes(t, o) EXCEPT !.errs = t.errs, !.todo = t.todo \ {i},
                                        !.pending = pending]
    BY <1>3 DEF mergeOutcomes, Tick
  <2>3. pending \in SUBSET Nat
    BY <1>3, <1>4, TrackType DEF Tick
  <2>4. i \notin t.errs \cup (t.todo \ {i})
    BY <1>2, <1>3 DEF TickInv, TickPosition, Working
  <2> DEFINE todo == t.todo \ {i}
  <2>5. Go(w, "events", [mergeOutcomes(t, o) EXCEPT !.errs = t.errs,
                               !.todo = todo, !.pending = pending])
    BY <1>0, <1>5, <2>2
  <2>6. /\ t.errs \subseteq t.errs /\ todo \subseteq t.todo
        /\ i \notin t.errs \cup todo /\ "events" \in Deciding
    BY <2>4 DEF Deciding
  <2> HIDE DEF pending, todo
  <2> QED BY <1>2, <1>4, <2>1, <2>3, <2>5, <2>6, HandledStep, Zenon
<1>6. CASE ~Returned(o)
  <2> DEFINE d == captureDecisionError(i, ids, t.state, t.data)
  <2>1. t.data \in Data /\ t.state \in StateNames /\ t.started \in Nat
    BY <1>3 DEF Tick
  <2>2. t.data.seen \subseteq 1..t.started
    BY <1>2, <1>3 DEF TickInv, TickSeen, Working
  <2>3. ids \in SUBSET Nat
    BY <2>1, PageIds
  <2>4. d \in Decision /\ ~Asks(d) /\ SeenUpTo(d, t.started)
    BY <1>4, <2>1, <2>2, <2>3, captureDecisionErrorProps
  <2> HIDE DEF d
  <2>5. Go(w, "respond", Failing(t, d))
    BY <1>0, <1>6 DEF d
  <2> QED BY <1>2, <2>4, <2>5, GiveUpStep
<1> QED BY <1>5, <1>6

LEMMA MissingStateStep ==
  ASSUME IInv, NEW w \in Workers, MissingState(w)
  PROVE  IInv'
<1> DEFINE t == tick[w]
<1>1. PICK i \in t.todo :
        Go(w, "respond", Failing(t, captureSystemError("MissingFsmStateError",
             {j \in LastEvents(history, t.prev, t.started) : j <= i})))
  BY DEF MissingState
<1> DEFINE ids == {j \in LastEvents(history, t.prev, t.started) : j <= i}
           d == captureSystemError("MissingFsmStateError", ids)
<1>2. pc[w] \in Deciding /\ Local
  BY DEF MissingState, Deciding
<1>3. t.started \in Nat
  BY DEF IInv, TypeOK, Tick
<1>4. ids \in SUBSET Nat
  BY <1>3, PageIds
<1>5. d \in Decision /\ ~Asks(d) /\ SeenUpTo(d, t.started)
  BY <1>3, <1>4, captureSystemErrorProps DEF ErrorTypes
<1> HIDE DEF d
<1>6. Go(w, "respond", Failing(t, d))
  BY <1>1 DEF d
<1> QED BY <1>2, <1>5, <1>6, GiveUpStep

LEMMA RecoverStateStep ==
  ASSUME IInv, NEW w \in Workers, RecoverState(w)
  PROVE  IInv'
<1> DEFINE t == tick[w]
           t1 == [t EXCEPT !.state = t.saved.name, !.data = t.saved.data,
                           !.version = t.saved.version]
           d == captureSystemError("DeserializeStateError", Page(t.started))
<1>1. /\ t \in Tick /\ t.started \in Nat /\ t.saved \in SerializedState
      /\ pc[w] = "errors" /\ pc[w] \in Deciding /\ TickInv("errors", t) /\ Local
  BY DEF IInv, TypeOK, Tick, RecoverState, Deciding
<1>2. \/ Go(w, "events", t1)
      \/ Go(w, "respond", Failing(t, d))
      \/ Go(w, "events", t)
  BY DEF RecoverState
<1>3. /\ TickPosition(t) /\ TickCauses(t) /\ TickSeen("errors", t)
      /\ TickMarker("errors", t)
  BY <1>1 DEF TickInv, Working, Deciding
<1>4. CASE Go(w, "events", t1)
  <2>1. /\ t1 \in Tick /\ t1.prev = t.prev /\ t1.started = t.started
        /\ t1.errs = t.errs /\ t1.todo = t.todo /\ t1.saved = t.saved
        /\ t1.decisions = t.decisions /\ t1.failed = t.failed
        /\ t1.data = t.saved.data
    BY <1>1 DEF Tick, SerializedState
  <2> HIDE DEF t1
  <2>2. TickPosition(t1)
    BY <1>3, <2>1 DEF TickPosition, Left, InWindow
  <2>3. TickCauses(t1)
    BY <1>3, <2>1 DEF TickCauses, Left, InWindow
  <2>4. TickSeen("events", t1)
    <3>1. Left(t) \cap 1..t.prev = {}
      BY <1>1, <1>3 DEF TickPosition, InWindow, Tick
    <3>2. t.saved.data.seen \subseteq 1..t.prev
      BY <1>3 DEF TickSeen, Deciding
    <3>3. Left(t1) = Left(t)
      BY <2>1 DEF Left
    <3> QED BY <1>3, <2>1, <3>1, <3>2, <3>3 DEF TickSeen
  <2>5. TickMarker("events", t1)
    BY <1>3, <2>1 DEF TickMarker, Deciding
  <2>6. TickInv("events", t1)
    BY <2>2, <2>3, <2>4, <2>5 DEF TickInv
  <2> QED BY <1>1, <1>4, <2>1, <2>6, LocalStep DEF PCs
<1>5. CASE Go(w, "respond", Failing(t, d))
  <2>1. d \in Decision /\ ~Asks(d) /\ SeenUpTo(d, t.started)
    BY <1>1, PageIds, captureSystemErrorProps DEF ErrorTypes
  <2> HIDE DEF d
  <2> QED BY <1>1, <1>5, <2>1, GiveUpStep
<1>6. CASE Go(w, "events", t)
  <2>1. TickSeen("events", t) /\ TickMarker("events", t)
    BY <1>3 DEF TickSeen, TickMarker, Deciding
  <2>2. TickInv("events", t)
    BY <1>3, <2>1 DEF TickInv
  <2> QED BY <1>1, <1>6, <2>2, LocalStep DEF PCs
<1> QED BY <1>2, <1>4, <1>5, <1>6

LEMMA ConcatFirst ==
  ASSUME NEW S, NEW e \in S, NEW s \in Seq(S)
  PROVE  /\ <<e>> \o s \in Seq(S)
         /\ Len(<<e>> \o s) = Len(s) + 1
         /\ (<<e>> \o s)[1] = e
         /\ \A k \in 1..Len(<<e>> \o s) :
              k = 1 \/ (k - 1 \in 1..Len(s) /\ (<<e>> \o s)[k] = s[k - 1])
<1> DEFINE one == <<e>>
<1>1. one \in Seq(S) /\ Len(one) = 1 /\ one[1] = e /\ Len(s) \in Nat
  BY Singleton
<1> HIDE DEF one
<1> DEFINE u == one \o s
<1>2. /\ u \in Seq(S) /\ Len(u) = Len(one) + Len(s)
      /\ \A i \in 1..(Len(one) + Len(s)) :
           u[i] = IF i <= Len(one) THEN one[i] ELSE s[i - Len(one)]
  BY <1>1, ConcatProperties
<1> HIDE DEF u
<1>3. /\ u \in Seq(S) /\ Len(u) = Len(s) + 1 /\ u[1] = e
      /\ \A k \in 1..Len(u) : k = 1 \/ (k - 1 \in 1..Len(s) /\ u[k] = s[k - 1])
  BY <1>1, <1>2
<1> QED BY <1>3 DEF u, one

LEMMA FinishTickStep ==
  ASSUME IInv, NEW w \in Workers, FinishTick(w)
  PROVE  IInv'
<1> DEFINE t == tick[w]
           ds == t.decisions
           s == [name |-> t.state, version |-> t.version + 1,
                 data |-> Stored(t.data), pending |-> t.pending]
           ms == <<Marker(s)>> \o ds
           t1 == [t EXCEPT !.saved = s, !.decisions = ms]
<1>1. /\ t \in Tick /\ ds \in Seq(Decision)
      /\ t.started \in Nat /\ t.data \in Data
      /\ pc[w] = "events" /\ TickInv("events", t) /\ Local
  BY DEF IInv, TypeOK, Tick, FinishTick
<1>2. Go(w, "respond", t1)
  BY DEF FinishTick, recordStateMarker
<1>3. /\ TickPosition(t) /\ TickCauses(t) /\ TickSeen("events", t)
      /\ TickMarker("events", t)
  BY <1>1 DEF TickInv, Working, Deciding
<1>4. s \in SerializedState /\ s.data.seen \subseteq 1..t.started
  <2>1. Stored(t.data) \in Data /\ Stored(t.data).seen \subseteq t.data.seen
    BY <1>1, StoredType
  <2>2. t.data.seen \subseteq 1..t.started
    BY <1>3 DEF TickSeen
  <2> QED BY <1>1, <2>1, <2>2 DEF SerializedState, Tick
<1> HIDE DEF s
<1>5. Marker(s) \in Decision /\ ~Asks(Marker(s))
      /\ Marker(s).state = s /\ Marker(s).report = NoReport
  BY <1>4, MarkerType DEF Marker, NewDecision, Asks
<1>6. /\ ms \in Seq(Decision) /\ Len(ms) = Len(ds) + 1
      /\ ms[1] = Marker(s)
      /\ \A k \in 1..Len(ms) : k = 1 \/ (k - 1 \in 1..Len(ds) /\ ms[k] = ds[k - 1])
  BY <1>1, <1>5, ConcatFirst
<1> HIDE DEF ms
<1>7. /\ t1 \in Tick /\ t1.prev = t.prev /\ t1.started = t.started
      /\ t1.errs = t.errs /\ t1.todo = t.todo /\ t1.saved = s
      /\ t1.decisions = ms /\ t1.failed = t.failed /\ t1.data = t.data
  BY <1>1, <1>4, <1>6 DEF Tick
<1> HIDE DEF t1
<1>8. TickPosition(t1)
  BY <1>3, <1>7 DEF TickPosition, Left, InWindow
<1>9. TickCauses(t1)
  <2>1. ASSUME NEW k \in 1..Len(ms), Asks(ms[k])
        PROVE  /\ k - 1 \in 1..Len(ds) /\ ms[k] = ds[k - 1]
               /\ ms[k].ref \in InWindow(t) \ Left(t)
    <3>1. k - 1 \in 1..Len(ds) /\ ms[k] = ds[k - 1]
      BY <1>5, <1>6, <2>1
    <3> QED BY <1>3, <2>1, <3>1 DEF TickCauses
  <2>2. ASSUME NEW k \in 1..Len(ms), NEW l \in 1..Len(ms),
               Asks(ms[k]), Asks(ms[l]), ms[k].ref = ms[l].ref
        PROVE  k = l
    <3>1. /\ k - 1 \in 1..Len(ds) /\ ms[k] = ds[k - 1]
          /\ l - 1 \in 1..Len(ds) /\ ms[l] = ds[l - 1]
      BY <2>1, <2>2
    <3>2. k - 1 = l - 1
      BY <1>3, <2>2, <3>1 DEF TickCauses
    <3> QED BY <3>2
  <2> QED BY <1>7, <2>1, <2>2 DEF TickCauses, InWindow, Left
<1>10. TickSeen("respond", t1)
  <2>1. NoReport.data.seen = {}
    BY DEF NoReport, ZeroData
  <2>2. SeenUpTo(Marker(s), t.started)
    BY <1>4, <1>5, <2>1 DEF SeenUpTo
  <2>3. \A k \in 1..Len(ds) : SeenUpTo(ds[k], t.started)
    BY <1>3 DEF TickSeen
  <2>4. \A k \in 1..Len(ms) : SeenUpTo(ms[k], t.started)
    BY <1>6, <2>2, <2>3
  <2> QED BY <1>3, <1>4, <1>7, <2>4 DEF TickSeen, Deciding
<1>11. TickMarker("respond", t1)
  BY <1>1, <1>6, <1>7 DEF TickMarker, Deciding
<1>12. TickInv("respond", t1)
  BY <1>8, <1>9, <1>10, <1>11 DEF TickInv
<1> QED BY <1>1, <1>2, <1>7, <1>12, LocalStep DEF PCs

LEMMA StateSerializationFailsStep ==
  ASSUME IInv, NEW w \in Workers, StateSerializationFails(w)
  PROVE  IInv'
<1> DEFINE t == tick[w]
           d == captureSystemError("StateSerializationError", {})
<1>1. pc[w] \in Deciding /\ Local /\ Go(w, "respond", Failing(t, d))
  BY DEF StateSerializationFails, Deciding
<1>2. t.started \in Nat
  BY DEF IInv, TypeOK, Tick
<1>3. d \in Decision /\ ~Asks(d) /\ SeenUpTo(d, t.started)
  BY <1>2, captureSystemErrorProps DEF ErrorTypes
<1> HIDE DEF d
<1> QED BY <1>1, <1>3, GiveUpStep

(***************************************************************************)
(* The response to a decision task.                                        *)
(***************************************************************************)
LEMMA CompletionFacts ==
  ASSUME IInv, NEW w \in Workers, pc[w] = "respond",
         CompleteTask(tick[w].started, tick[w].decisions)
  PROVE  LET t == tick[w] IN
         /\ HistoryKept
         /\ task' \in {NoTask, ScheduledTask} /\ prevStarted' = t.started
         /\ open' \in BOOLEAN
         /\ \A i \in Ids' :
              \/ i \in Ids /\ history'[i] = history[i]
              \/ /\ i > Len(history)
                 /\ SeenUpTo(history'[i], t.started)
                 /\ IsScheduled(history'[i]) =>
                      LET k == i - Len(history) - 1 IN
                      /\ k \in 1..Len(t.decisions) /\ Asks(t.decisions[k])
                      /\ history'[i].ref = t.decisions[k].ref
         /\ ~t.failed => \E i \in Ids' : isStateMarker(history'[i])
                                         /\ history'[i].state = t.saved
<1> DEFINE t == tick[w]
           ds == t.decisions
           unhandled == Unhandled(t.started)
<1>1. /\ history \in Seq(HistoryEvent) /\ Len(history) \in Nat
      /\ t \in Tick /\ t.started \in Nat /\ ds \in Seq(Decision) /\ Len(ds) \in Nat
      /\ TickSeen("respond", t) /\ TickMarker("respond", t)
  <2>1. TypeOK /\ TickInv("respond", t)
    BY DEF IInv
  <2> QED BY <2>1 DEF TypeOK, ServiceTypeOK, Tick, TickInv, Working
<1>2. unhandled \in BOOLEAN
  BY DEF Unhandled
<1> HIDE DEF unhandled
<1>3. PICK n \in 0..Len(ds) :
        /\ Effective(ds, n, unhandled)
        /\ history' = history \o CompletionEvents(ds, n, unhandled)
        /\ open' = (\A k \in 1..n : ~Closes(ds, k, unhandled))
        /\ task' = IF unhandled THEN ScheduledTask ELSE NoTask
  BY Zenon DEF CompleteTask, unhandled
<1>4. prevStarted' = t.started /\ open' \in BOOLEAN
      /\ task' \in {NoTask, ScheduledTask}
  BY <1>3 DEF CompleteTask
<1> DEFINE es == CompletionEvents(ds, n, unhandled)
<1>5. /\ es \in Seq(HistoryEvent)
      /\ Len(es) > n
      /\ \A k \in 1..n : es[k + 1] = DecisionEvent(ds[k], unhandled)
      /\ \A k \in 1..Len(es) :
           \/ k \in 2..(n + 1)
           \/ es[k] = Event("DecisionTaskCompleted", "", 0)
           \/ es[k] = Event("DecisionTaskScheduled", "", 0)
  BY <1>1, <1>2, CompletionEventsType
<1>6. history' = history \o es
  BY <1>3
<1> HIDE DEF es
<1>7. Grows(es) /\ HistoryKept
  BY <1>1, <1>5, <1>6, Growing, GrowingKeeps
<1>8. ASSUME NEW k \in 1..Len(es)
      PROVE  /\ SeenUpTo(es[k], t.started)
             /\ IsScheduled(es[k]) => /\ k - 1 \in 1..Len(ds) /\ Asks(ds[k - 1])
                                      /\ es[k].ref = ds[k - 1].ref
  <2>1. CASE k \in 2..(n + 1)
    <3> DEFINE d == ds[k - 1]
    <3>1. k - 1 \in 1..n /\ k - 1 \in 1..Len(ds) /\ (k - 1) + 1 = k
      BY <1>1, <2>1
    <3>2. d \in Decision /\ SeenUpTo(d, t.started)
      BY <1>1, <3>1 DEF TickSeen
    <3>3. es[k] = DecisionEvent(d, unhandled)
      BY <1>5, <3>1
    <3>4. /\ es[k].type = DecisionEventType(d, unhandled) /\ es[k].ref = d.ref
          /\ es[k].state = d.state /\ es[k].report = d.report
      BY <1>2, <3>2, <3>3, DecisionEventTyped
    <3>5. IsScheduled(es[k]) => Asks(d)
      BY <3>2, <3>4 DEF IsScheduled, Asks, DecisionEventType, Decision, DecisionTypes
    <3>6. SeenUpTo(es[k], t.started)
      BY <3>2, <3>4 DEF SeenUpTo
    <3> QED BY <3>1, <3>4, <3>5, <3>6
  <2>2. CASE es[k] = Event("DecisionTaskCompleted", "", 0)
             \/ es[k] = Event("DecisionTaskScheduled", "", 0)
    <3>1. PICK type \in {"DecisionTaskCompleted", "DecisionTaskScheduled"} :
            es[k] = Event(type, "", 0)
      BY <2>2
    <3> DEFINE e == Event(type, "", 0)
    <3>2. e.state = NoState /\ e.report = NoReport /\ ~IsScheduled(e)
      BY DEF Event, IsScheduled
    <3>3. es[k].state = NoState /\ es[k].report = NoReport /\ ~IsScheduled(es[k])
      BY <3>1, <3>2
    <3> QED BY <1>1, <3>3, NoStateSeen
  <2> QED BY <1>5, <2>1, <2>2
<1>9. ASSUME NEW i \in Ids'
      PROVE  \/ i \in Ids /\ history'[i] = history[i]
             \/ /\ i > Len(history)
                /\ SeenUpTo(history'[i], t.started)
                /\ IsScheduled(history'[i]) =>
                     /\ i - Len(history) - 1 \in 1..Len(ds)
                     /\ Asks(ds[i - Len(history) - 1])
                     /\ history'[i].ref = ds[i - Len(history) - 1].ref
  <2>1. i \in 1..Len(history') /\ Len(history') \in Nat
    BY <1>7 DEF Ids, Grows
  <2>2. CASE i <= Len(history)
    BY <1>1, <1>7, <2>1, <2>2 DEF Grows, Ids
  <2>3. CASE i > Len(history)
    <3>1. i - Len(history) \in 1..Len(es) /\ history'[i] = es[i - Len(history)]
      BY <1>7, <2>1, <2>3 DEF Grows
    <3> QED BY <1>8, <2>3, <3>1
  <2> QED BY <1>1, <2>1, <2>2, <2>3
<1>10. ASSUME ~t.failed
       PROVE  \E i \in Ids' : isStateMarker(history'[i])
                              /\ history'[i].state = t.saved
  <2>1. Len(ds) > 0 /\ ds[1] = Marker(t.saved)
    BY <1>1, <1>10 DEF TickMarker
  <2>2. n \in Nat /\ n > 0
    BY <1>1, <1>3, <2>1 DEF Effective
  <2>3. 1 \in 1..n /\ 1 \in 1..Len(ds) /\ ds[1] \in Decision
    BY <1>1, <2>1, <2>2
  <2>4. es[2] = DecisionEvent(ds[1], unhandled)
    <3>1. \A k \in 1..n : es[k + 1] = DecisionEvent(ds[k], unhandled)
      BY <1>5
    <3>2. es[1 + 1] = DecisionEvent(ds[1], unhandled)
      BY <2>3, <3>1, Zenon
    <3> QED BY <3>2
  <2>5. es[2].type = DecisionEventType(ds[1], unhandled)
        /\ es[2].label = ds[1].label /\ es[2].state = ds[1].state
    BY <1>2, <2>3, <2>4, DecisionEventTyped
  <2>6. ds[1].type = "RecordMarker" /\ ds[1].label = StateMarker
        /\ ds[1].state = t.saved
    BY <2>1 DEF Marker, NewDecision
  <2>7. isStateMarker(es[2]) /\ es[2].state = t.saved
    BY <2>5, <2>6 DEF isStateMarker, DecisionEventType
  <2>8. 2 \in 1..Len(es) /\ Len(es) \in Nat
    <3>1. Len(es) \in Nat
      BY <1>5, LenProperties
    <3>2. Len(es) > n
      BY <1>5
    <3> QED BY <2>2, <3>1, <3>2
  <2>9. Len(history) + 2 \in 1..Len(history')
        /\ history'[Len(history) + 2] = es[2]
    BY <1>1, <1>7, <2>8 DEF Grows
  <2> QED BY <2>7, <2>9 DEF Ids
<1> QED BY <1>4, <1>7, <1>9, <1>10

LEMMA CompletedInv ==
  ASSUME IInv, NEW w \in Workers, pc[w] = "respond",
         CompleteTask(tick[w].started, tick[w].decisions),
         NEW label \in {"poll", "replicate"}, NEW t1 \in Tick, Go(w, label, t1),
         label = "replicate" => ~tick[w].failed /\ t1 = tick[w],
         stream' = stream, faults' \in 0..MaxFaults
  PROVE  IInv'
<1> DEFINE t == tick[w]
           ds == t.decisions
           Index(i) == i - Len(history) - 1
<1>1. /\ TypeOK /\ HistoryInv /\ EffectsAtMostOnce /\ ReplicatedWasRecorded
      /\ \A v \in Workers : TickInv(pc[v], tick[v])
  BY DEF IInv
<1>2. /\ HistoryKept
      /\ task' \in {NoTask, ScheduledTask} /\ prevStarted' = t.started
      /\ open' \in BOOLEAN
  BY CompletionFacts
<1>3. \A i \in Ids' :
        \/ i \in Ids /\ history'[i] = history[i]
        \/ /\ i > Len(history)
           /\ SeenUpTo(history'[i], t.started)
           /\ IsScheduled(history'[i]) =>
                /\ Index(i) \in 1..Len(ds) /\ Asks(ds[Index(i)])
                /\ history'[i].ref = ds[Index(i)].ref
  BY CompletionFacts
<1>4. ~t.failed => \E i \in Ids' : isStateMarker(history'[i])
                                   /\ history'[i].state = t.saved
  BY CompletionFacts
<1>5. /\ history \in Seq(HistoryEvent) /\ Len(history) \in Nat
      /\ Len(history') \in Nat /\ prevStarted \in Nat /\ t.started \in Nat
      /\ \A i \in Ids' : i \in Nat
  <2>1. /\ history \in Seq(HistoryEvent) /\ Len(history) \in Nat
        /\ prevStarted \in Nat /\ t \in Tick
    BY <1>1 DEF TypeOK, ServiceTypeOK
  <2>2. Len(history') \in Nat
    BY <1>2 DEF HistoryKept
  <2>3. t.started \in Nat
    BY <2>1 DEF Tick
  <2> QED BY <2>1, <2>2, <2>3 DEF Ids
<1>6. TickPosition(t) /\ TickCauses(t) /\ t.prev = prevStarted
  BY <1>1 DEF TickInv, TickPosition, CompleteTask, Working
<1>7. prevStarted < t.started /\ t.started <= Len(history)
  BY <1>6 DEF TickPosition
<1>8. \A k \in 1..Len(ds) : Asks(ds[k]) =>
        ds[k].ref \in Nat /\ prevStarted < ds[k].ref /\ ds[k].ref <= t.started
  <2> SUFFICES ASSUME NEW k \in 1..Len(ds), Asks(ds[k])
               PROVE  ds[k].ref \in Nat /\ prevStarted < ds[k].ref
                      /\ ds[k].ref <= t.started
    OBVIOUS
  <2>1. ds[k].ref \in InWindow(t)
    BY <1>6 DEF TickCauses
  <2> HIDE DEF ds
  <2> QED BY <1>5, <1>6, <2>1 DEF InWindow
<1>9. ASSUME NEW i \in Ids', IsScheduled(history'[i])
      PROVE  \/ /\ i \in Ids /\ history'[i] = history[i]
                /\ history'[i].ref \in Nat /\ history'[i].ref <= prevStarted
             \/ /\ i > Len(history) /\ Index(i) \in 1..Len(ds) /\ Asks(ds[Index(i)])
                /\ history'[i].ref = ds[Index(i)].ref
                /\ history'[i].ref \in Nat
                /\ prevStarted < history'[i].ref /\ history'[i].ref <= t.started
  <2>1. CASE i \in Ids /\ history'[i] = history[i]
    <3>1. history[i].ref <= prevStarted
      BY <1>1, <1>9, <2>1 DEF HistoryInv
    <3>2. history[i] \in HistoryEvent
      BY <1>5, <2>1 DEF Ids
    <3>3. history[i].ref \in Nat
      BY <3>2 DEF HistoryEvent
    <3> QED BY <2>1, <3>1, <3>3
  <2>2. CASE i > Len(history) /\ Index(i) \in 1..Len(ds) /\ Asks(ds[Index(i)])
             /\ history'[i].ref = ds[Index(i)].ref
    BY <1>8, <2>2
  <2> QED BY <1>3, <1>9, <2>1, <2>2
<1>10. EffectsAtMostOnce'
  <2> SUFFICES ASSUME NEW i \in Ids', NEW j \in Ids',
                      IsScheduled(history'[i]), IsScheduled(history'[j]),
                      history'[i].ref = history'[j].ref
               PROVE  i = j
    BY DEF EffectsAtMostOnce, IsScheduled
  <2>1. CASE i \in Ids /\ history'[i] = history[i]
             /\ j \in Ids /\ history'[j] = history[j]
    BY <1>1, <2>1 DEF EffectsAtMostOnce, IsScheduled
  <2>2. CASE /\ Index(i) \in 1..Len(ds) /\ Asks(ds[Index(i)])
             /\ history'[i].ref = ds[Index(i)].ref
             /\ Index(j) \in 1..Len(ds) /\ Asks(ds[Index(j)])
             /\ history'[j].ref = ds[Index(j)].ref
    <3>1. Index(i) = Index(j)
      BY <1>6, <2>2 DEF TickCauses
    <3> QED BY <1>5, <3>1
  <2>3. \/ /\ i \in Ids /\ history'[i] = history[i]
           /\ j \in Ids /\ history'[j] = history[j]
        \/ /\ Index(i) \in 1..Len(ds) /\ Asks(ds[Index(i)])
           /\ history'[i].ref = ds[Index(i)].ref
           /\ Index(j) \in 1..Len(ds) /\ Asks(ds[Index(j)])
           /\ history'[j].ref = ds[Index(j)].ref
    <3> HIDE DEF Index, ds
    <3> QED BY <1>5, <1>9, SMTT(30)
  <2> QED BY <2>1, <2>2, <2>3
<1>11. HistoryInv'
  <2>1. \A i \in Ids' : SeenUpTo(history'[i], t.started)
    <3> SUFFICES ASSUME NEW i \in Ids'
                 PROVE  SeenUpTo(history'[i], t.started)
      OBVIOUS
    <3>1. CASE i \in Ids /\ history'[i] = history[i]
      <4>1. SeenUpTo(history[i], prevStarted)
        BY <1>1, <3>1 DEF HistoryInv
      <4>2. 1..prevStarted \subseteq 1..t.started
        BY <1>5, <1>7
      <4> QED BY <3>1, <4>1, <4>2 DEF SeenUpTo
    <3> QED BY <1>3, <3>1
  <2>2. \A i \in Ids' : IsScheduled(history'[i]) => history'[i].ref <= t.started
    BY <1>5, <1>7, <1>9
  <2>3. task'.status # "started"
    BY <1>2 DEF NoTask, ScheduledTask
  <2>4. t.started <= Len(history')
    BY <1>2, <1>5, <1>7 DEF HistoryKept
  <2> HIDE DEF t
  <2> QED BY <1>2, <2>1, <2>2, <2>3, <2>4 DEF HistoryInv, t
<1>12. ReplicatedWasRecorded'
  <2> SUFFICES ASSUME NEW k \in 1..Len(stream)
               PROVE  \E i \in 1..Len(history') :
                        isStateMarker(history'[i]) /\ history'[i].state = stream[k]
    BY DEF ReplicatedWasRecorded, Ids
  <2>1. IsRecordedState(stream[k])
    BY <1>1 DEF ReplicatedWasRecorded, IsRecordedState
  <2> QED BY <1>2, <1>5, <2>1, RecordedStays
<1>13. /\ pc' \in [Workers -> PCs] /\ tick' \in [Workers -> Tick]
       /\ pc'[w] = label /\ tick'[w] = t1
       /\ \A v \in Workers \ {w} : pc'[v] = pc[v] /\ tick'[v] = tick[v]
  BY <1>1, GoType DEF PCs
<1>14. TypeOK'
  BY <1>1, <1>2, <1>5, <1>13
     DEF TypeOK, ServiceTypeOK, HistoryKept, NoTask, ScheduledTask, TaskStatus
<1>15. TickInv(pc[w], tick[w])'
  <2>1. CASE label = "poll"
    BY <1>13, <2>1, IdleInv
  <2>2. CASE label = "replicate"
    <3>1. tick'[w] = t /\ ~t.failed
      BY <1>13, <2>2
    <3>2. IsRecordedState(tick[w].saved)'
      BY <1>4, <3>1 DEF IsRecordedState
    <3> QED BY <1>13, <2>2, <3>2 DEF TickInv, Working, Deciding
  <2> QED BY <2>1, <2>2
<1>16. ASSUME NEW v \in Workers, v # w
       PROVE  TickInv(pc[v], tick[v])'
  <2>1. pc'[v] = pc[v] /\ tick'[v] = tick[v]
    BY <1>13, <1>16
  <2>2. task' # StartedTask(tick[v].started)
    BY <1>2 DEF NoTask, ScheduledTask, StartedTask
  <2> QED BY <1>1, <1>2, <2>1, <2>2, OthersKeep
<1> QED BY <1>10, <1>11, <1>12, <1>14, <1>15, <1>16 DEF IInv

LEMMA RespondSteps ==
  ASSUME IInv, NEW w \in Workers, Respond(w) \/ RespondReplyLost(w)
  PROVE  IInv'
<1> DEFINE t == tick[w]
<1>1. /\ pc[w] = "respond" /\ CompleteTask(t.started, t.decisions)
      /\ stream' = stream
  BY DEF Respond, RespondReplyLost
<1>2. faults \in 0..MaxFaults /\ t \in Tick /\ IdleTick \in Tick
  BY DataTypes DEF IInv, TypeOK
<1>3. faults' \in 0..MaxFaults
  BY <1>2, MaxFaultsAssumption DEF Respond, RespondReplyLost, Fault
<1>4. Go(w, "poll", IdleTick) \/ (~t.failed /\ Go(w, "replicate", t))
  BY DEF Respond, RespondReplyLost
<1>5. CASE Go(w, "poll", IdleTick)
  BY <1>1, <1>2, <1>3, <1>5, CompletedInv
<1>6. CASE ~t.failed /\ Go(w, "replicate", t)
  BY <1>1, <1>2, <1>3, <1>6, CompletedInv
<1> QED BY <1>4, <1>5, <1>6

(***************************************************************************)
(* The invariant.                                                          *)
(***************************************************************************)
LEMMA InitInv ==
  ASSUME Init
  PROVE  IInv
<1> DEFINE d == Event("WorkflowExecutionStarted", "", 0)
           e == Event("DecisionTaskScheduled", "", 0)
<1>1. /\ d \in HistoryEvent /\ d.state = NoState /\ d.report = NoReport
      /\ ~IsScheduled(d)
  BY EventType DEF EventTypes, Labels, Event, IsScheduled
<1>2. /\ e \in HistoryEvent /\ e.state = NoState /\ e.report = NoReport
      /\ ~IsScheduled(e)
  BY EventType DEF EventTypes, Labels, Event, IsScheduled
<1>3. /\ history = <<d, e>> /\ task = ScheduledTask /\ prevStarted = 0
      /\ open = TRUE /\ stream = <<>> /\ faults = 0
      /\ pc = [w \in Workers |-> "poll"] /\ tick = [w \in Workers |-> IdleTick]
  BY DEF Init, ServiceInit
<1> HIDE DEF d, e
<1>4. /\ history \in Seq(HistoryEvent) /\ Len(history) = 2
      /\ \A i \in Ids : history[i] = d \/ history[i] = e
  BY <1>1, <1>2, <1>3 DEF Ids
<1>5. TypeOK
  BY <1>3, <1>4, DataTypes, MaxFaultsAssumption
     DEF TypeOK, ServiceTypeOK, ScheduledTask, TaskStatus, PCs
<1>6. HistoryInv
  <2>1. \A i \in Ids : SeenUpTo(history[i], 0)
    BY <1>1, <1>2, <1>4, NoStateSeen
  <2> QED BY <1>1, <1>2, <1>3, <1>4, <2>1 DEF HistoryInv, ScheduledTask
<1>7. EffectsAtMostOnce
  BY <1>1, <1>2, <1>4 DEF EffectsAtMostOnce, IsScheduled
<1>8. ReplicatedWasRecorded
  BY <1>3 DEF ReplicatedWasRecorded
<1>9. \A w \in Workers : TickInv(pc[w], tick[w])
  BY <1>3 DEF TickInv, Working, Deciding
<1> QED BY <1>5, <1>6, <1>7, <1>8, <1>9 DEF IInv

LEMMA StepInv ==
  ASSUME IInv, [Next]_vars
  PROVE  IInv'
<1>1. ASSUME NEW w \in Workers, WorkerStep(w)
      PROVE  IInv'
  BY <1>1, PollStep, FindStateStep, HandleErrorEventStep, RecoverStateStep,
     HandleEventStep, MissingStateStep, FinishTickStep, StateSerializationFailsStep,
     RespondSteps, IdleSteps, ReplicateStep, Zenon DEF WorkerStep
<1>2. ASSUME NEW w \in Workers, WorkerFault(w)
      PROVE  IInv'
  BY <1>2, RespondSteps, IdleSteps, Zenon DEF WorkerFault
<1>3. CASE TimeOutAbandoned \/ TimeOutSlow \/ Environment
  <2>1. TypeOK
    BY DEF IInv
  <2>2. EnvStep
    BY <1>3, <2>1, EnvironmentSteps
  <2> QED BY <2>2, EnvStepInv
<1>4. CASE UNCHANGED vars
  BY <1>4 DEF vars, IInv, TypeOK, ServiceTypeOK, HistoryInv, EffectsAtMostOnce,
              ReplicatedWasRecorded, TickInv, TickPosition, TickSeen,
              IsRecordedState, Ids
<1> QED BY <1>1, <1>2, <1>3, <1>4, Zenon DEF Next

(* The windows of the ticks whose responses are accepted follow one another; *)
(* the rest of the invariant says what that makes of the history.           *)
THEOREM Invariance == Spec => []IInv
<1>1. Init => IInv
  BY InitInv
<1>2. IInv /\ [Next]_vars => IInv'
  BY StepInv
<1> QED BY <1>1, <1>2, PTL DEF Spec

(* Every variable keeps its type in every behaviour of the workers and SWF. *)
THEOREM TypeCorrect == Spec => []TypeOK
<1>1. IInv => TypeOK
  BY DEF IInv
<1> QED BY <1>1, Invariance, PTL

(* However many workers run a decider on an event, and whatever becomes of  *)
(* their responses (handleDecisionTask, Tick), the event makes one activity *)
(* be scheduled at most.                                                    *)
THEOREM EffectsOnce == Spec => []EffectsAtMostOnce
<1>1. IInv => EffectsAtMostOnce
  BY DEF IInv
<1> QED BY <1>1, Invariance, PTL

(* handleDecisionTask replicates no state that SWF did not record.          *)
THEOREM ReplicatedRecorded == Spec => []ReplicatedWasRecorded
<1>1. IInv => ReplicatedWasRecorded
  BY DEF IInv
<1> QED BY <1>1, Invariance, PTL

(* Tick shows no decider an event that the data it shows or recovers from   *)
(* the history already accounts for.                                        *)
THEOREM ShownOnce == Spec => []ShownAtMostOnce
<1>1. ASSUME IInv, NEW w \in Workers, pc[w] \in {"errors", "events"}
      PROVE  (tick[w].todo \cup tick[w].errs) \cap
               (tick[w].data.seen \cup tick[w].saved.data.seen) = {}
  <2> DEFINE t == tick[w]
  <2>1. /\ TickPosition(t) /\ TickSeen(pc[w], t) /\ pc[w] \in Deciding
        /\ t.prev \in Nat
    BY <1>1 DEF IInv, TypeOK, Tick, TickInv, Working, Deciding
  <2>2. t.saved.data.seen \subseteq 1..t.prev /\ t.data.seen \cap Left(t) = {}
    BY <2>1 DEF TickSeen
  <2>3. Left(t) \cap 1..t.prev = {}
    BY <2>1 DEF TickPosition, InWindow
  <2> QED BY <2>2, <2>3 DEF Left
<1>2. IInv => ShownAtMostOnce
  BY <1>1 DEF ShownAtMostOnce
<1> QED BY <1>2, Invariance, PTL
=============================================================================
