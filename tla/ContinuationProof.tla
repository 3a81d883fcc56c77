--------------------------- MODULE ContinuationProof ---------------------------
(***************************************************************************)
(* The safety properties of a continued workflow, for any requests of the   *)
(* user, any size of history and any page size.                            *)
(***************************************************************************)
EXTENDS ContinuationInvariant, WellFoundedInduction, SequenceTheorems,
        FiniteSetTheorems, TLAPS

(***************************************************************************)
(* Induction over the natural numbers, for sets.                           *)
(***************************************************************************)
LEMMA Least ==
  ASSUME NEW S, S \subseteq Nat, S # {}
  PROVE  \E x \in S : \A y \in S : x <= y
<1> DEFINE R == OpToRel(<, Nat)
<1>1. IsWellFoundedOn(R, Nat)
  BY NatLessThanWellFounded
<1> HIDE DEF R
<1>2. PICK x \in S : \A y \in S : <<y, x>> \notin R
  BY <1>1, WFMin
<1>3. \A y \in S : ~(y < x)
  BY <1>2 DEF R, OpToRel
<1> QED BY <1>3

LEMMA Induction ==
  ASSUME NEW S, 0 \in S, \A n \in Nat : n \in S => n + 1 \in S
  PROVE  \A n \in Nat : n \in S
<1> SUFFICES ASSUME Nat \ S # {} PROVE FALSE
  OBVIOUS
<1>1. PICK x \in Nat \ S : \A y \in Nat \ S : x <= y
  BY Least
<1>2. x # 0 /\ x - 1 \in Nat
  BY <1>1
<1>3. x - 1 \in S
  BY <1>1, <1>2
<1> QED BY <1>1, <1>2, <1>3

(* What is true of 0 and of n + 1 if it is of n < m, is true up to m.       *)
LEMMA BoundedInduction ==
  ASSUME NEW m \in Nat, NEW S, 0 \in S, \A n \in 0..(m - 1) : n \in S => n + 1 \in S
  PROVE  \A n \in 0..m : n \in S
<1> DEFINE T == S \cup {n \in Nat : n > m}
<1>1. \A n \in Nat : n \in T => n + 1 \in T
  OBVIOUS
<1> HIDE DEF T
<1>2. 0 \in T
  BY DEF T
<1>3. \A n \in Nat : n \in T
  BY <1>1, <1>2, Induction
<1> QED BY <1>3 DEF T

-----------------------------------------------------------------------------
(* The recursive functions of the model compute what they are defined to:   *)
(* by induction there is a function that satisfies the recursion.           *)
ConsultedAt(deciders, data, f, n) ==
  IF n = 0 THEN ContinueDecision(data, <<>>) ELSE Consult(f[n - 1], deciders[n])

LEMMA ConsultedIsFunction ==
  ASSUME NEW deciders, NEW data, Len(deciders) \in Nat
  PROVE  LET f == Consulted(deciders, data)
         IN  f = [n \in 0..Len(deciders) |-> ConsultedAt(deciders, data, f, n)]
<1> DEFINE Upto(f, m) == f = [n \in 0..m |-> ConsultedAt(deciders, data, f, n)]
           Good == {m \in Nat : \E f : Upto(f, m)}
<1>1. 0 \in Good
  <2> DEFINE g == [n \in 0..0 |-> ContinueDecision(data, <<>>)]
  <2>1. Upto(g, 0)
    BY DEF ConsultedAt
  <2> QED BY <2>1
<1>2. ASSUME NEW m \in Nat, m \in Good
      PROVE  m + 1 \in Good
  <2>1. PICK f : Upto(f, m)
    BY <1>2
  <2> DEFINE g == [n \in 0..(m + 1) |-> ConsultedAt(deciders, data, f, n)]
  <2>2. \A n \in 0..m : g[n] = f[n]
    BY <2>1
  <2>3. g = [n \in 0..(m + 1) |-> ConsultedAt(deciders, data, f, n)]
    OBVIOUS
  <2> HIDE DEF g
  <2>4. \A n \in 0..(m + 1) : n = 0 \/ n - 1 \in 0..m
    OBVIOUS
  <2>5. \A n \in 0..(m + 1) :
          ConsultedAt(deciders, data, f, n) = ConsultedAt(deciders, data, g, n)
    BY <2>2, <2>4 DEF ConsultedAt
  <2>6. Upto(g, m + 1)
    BY <2>3, <2>5
  <2> QED BY <2>6
<1>3. \A m \in Nat : m \in Good
  <2> HIDE DEF Good
  <2> QED BY <1>1, <1>2, Induction
<1>4. PICK f : Upto(f, Len(deciders))
  BY <1>3
<1>5. Consulted(deciders, data) = CHOOSE g : Upto(g, Len(deciders))
  BY DEF Consulted, ConsultedAt
<1> QED BY <1>4, <1>5

IntermediateAt(started, todo, f, n) ==
  IF n = 0 THEN Recovered(started) ELSE Turn(f[n - 1], n, todo)

LEMMA IntermediateIsFunction ==
  ASSUME NEW started \in Nat, NEW todo, todo = LastEvents(history, prevStarted, started)
  PROVE  LET f == IntermediateOutcomes(started)
         IN  f = [n \in 0..started |-> IntermediateAt(started, todo, f, n)]
<1> DEFINE Upto(f, m) == f = [n \in 0..m |-> IntermediateAt(started, todo, f, n)]
           Good == {m \in Nat : \E f : Upto(f, m)}
<1>1. 0 \in Good
  <2> DEFINE g == [n \in 0..0 |-> Recovered(started)]
  <2>1. Upto(g, 0)
    BY DEF IntermediateAt
  <2> QED BY <2>1
<1>2. ASSUME NEW m \in Nat, m \in Good
      PROVE  m + 1 \in Good
  <2>1. PICK f : Upto(f, m)
    BY <1>2
  <2> DEFINE g == [n \in 0..(m + 1) |-> IntermediateAt(started, todo, f, n)]
  <2>2. \A n \in 0..m : g[n] = f[n]
    BY <2>1
  <2>3. g = [n \in 0..(m + 1) |-> IntermediateAt(started, todo, f, n)]
    OBVIOUS
  <2> HIDE DEF g
  <2>4. \A n \in 0..(m + 1) : n = 0 \/ n - 1 \in 0..m
    OBVIOUS
  <2>5. \A n \in 0..(m + 1) :
          IntermediateAt(started, todo, f, n) = IntermediateAt(started, todo, g, n)
    BY <2>2, <2>4 DEF IntermediateAt
  <2>6. Upto(g, m + 1)
    BY <2>3, <2>5
  <2> QED BY <2>6
<1>3. \A m \in Nat : m \in Good
  <2> HIDE DEF Good
  <2> QED BY <1>1, <1>2, Induction
<1>4. PICK f : Upto(f, started)
  BY <1>3
<1>5. IntermediateOutcomes(started) = CHOOSE g : Upto(g, started)
  BY DEF IntermediateOutcomes, IntermediateAt
<1> QED BY <1>4, <1>5

CarriedAt(h, ds, unhandled, f, n) ==
  IF n = 0 THEN [h |-> h, by |-> <<>>] ELSE Carry(f[n - 1], ds[n], unhandled)

LEMMA CarriedIsFunction ==
  ASSUME NEW h, NEW ds, NEW unhandled, Len(ds) \in Nat
  PROVE  LET f == Carried(h, ds, unhandled)
         IN  f = [n \in 0..Len(ds) |-> CarriedAt(h, ds, unhandled, f, n)]
<1> DEFINE Upto(f, m) == f = [n \in 0..m |-> CarriedAt(h, ds, unhandled, f, n)]
           Good == {m \in Nat : \E f : Upto(f, m)}
<1>1. 0 \in Good
  <2> DEFINE g == [n \in 0..0 |-> [h |-> h, by |-> <<>>]]
  <2>1. Upto(g, 0)
    BY DEF CarriedAt
  <2> QED BY <2>1
<1>2. ASSUME NEW m \in Nat, m \in Good
      PROVE  m + 1 \in Good
  <2>1. PICK f : Upto(f, m)
    BY <1>2
  <2> DEFINE g == [n \in 0..(m + 1) |-> CarriedAt(h, ds, unhandled, f, n)]
  <2>2. \A n \in 0..m : g[n] = f[n]
    BY <2>1
  <2>3. g = [n \in 0..(m + 1) |-> CarriedAt(h, ds, unhandled, f, n)]
    OBVIOUS
  <2> HIDE DEF g
  <2>4. \A n \in 0..(m + 1) : n = 0 \/ n - 1 \in 0..m
    OBVIOUS
  <2>5. \A n \in 0..(m + 1) :
          CarriedAt(h, ds, unhandled, f, n) = CarriedAt(h, ds, unhandled, g, n)
    BY <2>2, <2>4 DEF CarriedAt
  <2>6. Upto(g, m + 1)
    BY <2>3, <2>5
  <2> QED BY <2>6
<1>3. \A m \in Nat : m \in Good
  <2> HIDE DEF Good
  <2> QED BY <1>1, <1>2, Induction
<1>4. PICK f : Upto(f, Len(ds))
  BY <1>3
<1>5. Carried(h, ds, unhandled) = CHOOSE g : Upto(g, Len(ds))
  BY DEF Carried, CarriedAt
<1> QED BY <1>4, <1>5

None(data) == ContinueDecision(data, <<>>)

LEMMA ComposedSteps ==
  ASSUME NEW a, NEW b, NEW c, NEW data
  PROVE  ComposedDecider(<<a, b, c>>, data) = Consult(Consult(Consult(None(data), a), b), c)
<1> DEFINE s == <<a, b, c>>
           f == Consulted(s, data)
<1>1. Len(s) = 3 /\ s[1] = a /\ s[2] = b /\ s[3] = c
  OBVIOUS
<1>2. ComposedDecider(s, data) = f[3]
  BY <1>1 DEF ComposedDecider
<1>3. f = [n \in 0..3 |-> ConsultedAt(s, data, f, n)]
  <2> HIDE DEF s
  <2> QED BY <1>1, ConsultedIsFunction
<1> HIDE DEF s, f
<1>4. \A n \in 0..3 : f[n] = ConsultedAt(s, data, f, n)
  BY <1>3
<1>5. f[0] = ContinueDecision(data, <<>>)
  BY <1>4 DEF ConsultedAt
<1>6. f[1] = Consult(f[0], a) /\ f[2] = Consult(f[1], b) /\ f[3] = Consult(f[2], c)
  BY <1>1, <1>4 DEF ConsultedAt
<1> QED BY <1>2, <1>5, <1>6 DEF s, None

LEMMA IntermediateSteps ==
  ASSUME NEW started \in Nat
  PROVE  LET f == IntermediateOutcomes(started)
         IN  /\ f[0] = Recovered(started)
             /\ \A n \in 0..(started - 1) :
                  f[n + 1] = Turn(f[n], n + 1, LastEvents(history, prevStarted, started))
<1> DEFINE f == IntermediateOutcomes(started)
           todo == LastEvents(history, prevStarted, started)
<1>1. f = [n \in 0..started |-> IntermediateAt(started, todo, f, n)]
  BY IntermediateIsFunction
<1> HIDE DEF f, todo
<1>2. \A n \in 0..started : f[n] = IntermediateAt(started, todo, f, n)
  BY <1>1
<1>3. \A n \in 0..(started - 1) : n + 1 \in 0..started /\ n + 1 # 0 /\ (n + 1) - 1 = n
  OBVIOUS
<1> QED BY <1>2, <1>3 DEF f, todo, IntermediateAt

LEMMA CarriedSteps ==
  ASSUME NEW h, NEW ds, NEW unhandled, Len(ds) \in Nat
  PROVE  LET f == Carried(h, ds, unhandled)
         IN  /\ f[0] = [h |-> h, by |-> <<>>]
             /\ \A n \in 0..(Len(ds) - 1) :
                  f[n + 1] = Carry(f[n], ds[n + 1], unhandled)
<1> DEFINE f == Carried(h, ds, unhandled)
<1>1. f = [n \in 0..Len(ds) |-> CarriedAt(h, ds, unhandled, f, n)]
  BY CarriedIsFunction
<1> HIDE DEF f
<1>2. \A n \in 0..Len(ds) : f[n] = CarriedAt(h, ds, unhandled, f, n)
  BY <1>1
<1>3. \A n \in 0..(Len(ds) - 1) : n + 1 \in 0..Len(ds) /\ n + 1 # 0 /\ (n + 1) - 1 = n
  OBVIOUS
<1> QED BY <1>2, <1>3 DEF f, CarriedAt

-----------------------------------------------------------------------------
(* The records of the model.                                               *)
LEMMA DataTypes ==
  /\ ZeroData \in Data /\ NilData \in Data
  /\ NoState \in SerializedState /\ NoReport \in ErrorReport
  BY DEF ZeroData, NilData, Data, NoState, SerializedState, StateNames, NoReport,
         ErrorReport, ErrorTypes

LEMMA EventType ==
  ASSUME NEW type \in EventTypes, NEW label \in Labels, NEW ref \in Nat
  PROVE  Event(type, label, ref) \in HistoryEvent
  BY DataTypes DEF Event, HistoryEvent

LEMMA NewDecisionType ==
  ASSUME NEW type \in DecisionTypes, NEW label \in Labels, NEW ref \in Nat
  PROVE  NewDecision(type, label, ref) \in Decision
  BY DataTypes DEF NewDecision, Decision

LEMMA Singleton ==
  ASSUME NEW S, NEW e \in S
  PROVE  /\ <<e>> \in Seq(S) /\ Len(<<e>>) = 1 /\ <<e>>[1] = e
         /\ \A k \in 1..Len(<<e>>) : k = 1 /\ <<e>>[k] = e
  OBVIOUS

LEMMA MovedTo == movedTo \in States /\ movedTo \in StateNames
  BY RequestsAssumption DEF movedTo, StateNames

LEMMA MaxIsNewest ==
  ASSUME NEW m \in Nat, NEW S \in SUBSET (1..m), S # {}
  PROVE  IsNewest(Max(S), S)
<1> DEFINE T == {k \in Nat : m - k \in S}
<1>1. T # {}
  <2>1. PICK x \in S : TRUE
    OBVIOUS
  <2>2. m - x \in Nat /\ m - (m - x) = x
    BY <2>1
  <2> QED BY <2>1, <2>2
<1>2. PICK k \in T : \A y \in T : k <= y
  <2> HIDE DEF T
  <2>1. T \subseteq Nat
    BY DEF T
  <2> QED BY <1>1, <2>1, Least
<1>3. \A y \in S : m - k >= y
  <2> TAKE y \in S
  <2>1. y \in Nat /\ m - y \in T
    OBVIOUS
  <2>2. k \in Nat /\ k <= m - y
    BY <1>2, <2>1
  <2> QED BY <2>1, <2>2
<1>4. \E x \in S : \A y \in S : x >= y
  BY <1>2, <1>3
<1>5. Max(S) \in S /\ \A y \in S : Max(S) >= y
  BY <1>4 DEF Max
<1> QED BY <1>5 DEF IsNewest

-----------------------------------------------------------------------------
(* The deciders.                                                           *)
Asked(e) == /\ e.type \in {"TimerFired", "WorkflowExecutionSignaled"}
            /\ e.label = ContinueSignal

(* What ManagedContinuations and a request to restart may ask for, given    *)
(* the data after the event.                                               *)
ContinuesFrom(ctx, data, x) ==
  /\ ctx.pending = {} /\ ctx.h.type # "ActivityTaskScheduled"
  /\ x.state.version = ctx.stateVersion /\ x.state.pending = {}
  /\ x.state.data.form = "ok" /\ x.state.data.seen = data.seen
  /\ x.state.name = IF ctx.h.label = "restart" THEN initialState ELSE ctx.state

IsExtra(ctx, data, x) ==
  /\ x \in Decision /\ x.ref = ctx.i
  /\ x.type \in {"StartTimer", "SignalExternalWorkflowExecution",
                 "ContinueAsNewWorkflowExecution"}
  /\ x.type = "SignalExternalWorkflowExecution" => x.label = ContinueSignal
  /\ x.type = "ContinueAsNewWorkflowExecution" => ContinuesFrom(ctx, data, x)

One(x) == <<x>>

LEMMA ExtraSeq ==
  ASSUME NEW ctx, NEW data, NEW x, IsExtra(ctx, data, x)
  PROVE  One(x) \in Seq(Decision)
  BY DEF IsExtra, One

LEMMA ContinueAsNewType ==
  ASSUME NEW ctx \in Context, NEW data \in Data, data.form = "ok", NEW name \in StateNames,
         ctx.pending = {}, ctx.h.type # "ActivityTaskScheduled",
         name = IF ctx.h.label = "restart" THEN initialState ELSE ctx.state
  PROVE  IsExtra(ctx, data, ContinueAsNew(ctx, name, data))
<1> DEFINE d == NewDecision("ContinueAsNewWorkflowExecution", "", ctx.i)
           s == [name |-> name, version |-> ctx.stateVersion, data |-> data, pending |-> {}]
           x == ContinueAsNew(ctx, name, data)
<1>1. d \in Decision /\ d.type = "ContinueAsNewWorkflowExecution" /\ d.ref = ctx.i
  BY NewDecisionType DEF DecisionTypes, Labels, Context, NewDecision
<1>2. s \in SerializedState
  BY DEF SerializedState, Context
<1>3. x = [d EXCEPT !.state = s]
  BY DEF ContinueAsNew, Stored
<1> HIDE DEF d, x
<1>4. x \in Decision /\ x.type = d.type /\ x.ref = d.ref /\ x.state = s
  <2> HIDE DEF s
  <2> QED BY <1>1, <1>2, <1>3 DEF Decision
<1>5. x.state.version = ctx.stateVersion /\ x.state.pending = {} /\ x.state.data = data
      /\ x.state.name = name
  BY <1>4
<1> HIDE DEF s
<1>6. IsExtra(ctx, data, x)
  BY <1>1, <1>4, <1>5 DEF IsExtra, ContinuesFrom
<1> QED BY <1>6 DEF x

LEMMA StartTimerType ==
  ASSUME NEW ctx \in Context, NEW data
  PROVE  IsExtra(ctx, data, StartTimer(ctx))
<1>1. StartTimer(ctx) \in Decision
  BY NewDecisionType DEF StartTimer, DecisionTypes, Labels, Context, ContinueTimer, ContinueSignal
<1> QED BY <1>1 DEF IsExtra, StartTimer, NewDecision

LEMMA SignalSelfType ==
  ASSUME NEW ctx \in Context, NEW data
  PROVE  IsExtra(ctx, data, SignalSelf(ctx))
<1>1. SignalSelf(ctx) \in Decision
  BY NewDecisionType DEF SignalSelf, DecisionTypes, Labels, Context
<1> QED BY <1>1 DEF IsExtra, SignalSelf, NewDecision

LEMMA ContinueOrWait ==
  ASSUME NEW ctx \in Context, NEW data, ctx.stateData = data, data.form = "ok",
         Asked(ctx.h)
  PROVE  \E x : continueOrWait(ctx, data) = Stay(data, One(x)) /\ IsExtra(ctx, data, x)
<1>1. data \in Data /\ ctx.state \in StateNames
  BY DEF Context
<1>2. ctx.h.label # "restart" /\ ctx.h.type # "ActivityTaskScheduled"
  BY DEF Asked, ContinueSignal
<1>3. CASE ctx.pending = {}
  BY <1>1, <1>2, <1>3, ContinueAsNewType DEF continueOrWait, ContinueWorkflowDecision, One
<1>4. CASE ctx.pending # {}
  BY <1>4, StartTimerType DEF continueOrWait, One
<1> QED BY <1>3, <1>4

(* One decider of the composition.                                         *)
LEMMA ConsultSteps ==
  ASSUME NEW sofar, NEW f
  PROVE  /\ sofar.kind # "Continue" => Consult(sofar, f) = sofar
         /\ f[sofar.data] = Pass => Consult(sofar, f) = sofar
  BY DEF Consult

(* What a decider in a normal state returns.                               *)
Usual == {"Continue", "Stay", "Transition"}

LEMMA Contributes ==
  ASSUME NEW sofar, NEW kind \in Usual, NEW state, NEW data, NEW Y
  PROVE  Contribute(sofar, Outcome(kind, state, data, Y))
           = Outcome(kind, state, data, sofar.decisions \o Y)
<1> DEFINE o == Outcome(kind, state, data, Y)
           Z == sofar.decisions \o Y
<1>1. o.kind = kind /\ o.decisions = Y
  BY DEF Outcome
<1>2. Contribute(sofar, o) = [o EXCEPT !.decisions = Z, !.kind = kind]
  <2> HIDE DEF o
  <2> QED BY <1>1 DEF Contribute, Usual
<1>3. [o EXCEPT !.decisions = Z, !.kind = kind] = [[o EXCEPT !.decisions = Z] EXCEPT !.kind = kind]
  <2> HIDE DEF o, Z
  <2> QED OBVIOUS
<1>4. [o EXCEPT !.decisions = Z] = Outcome(kind, state, data, Z)
  <2> HIDE DEF Z
  <2> QED BY DEF Outcome
<1>5. [Outcome(kind, state, data, Z) EXCEPT !.kind = kind] = Outcome(kind, state, data, Z)
  <2> HIDE DEF Z
  <2> QED BY DEF Outcome
<1> QED BY <1>2, <1>3, <1>4, <1>5

LEMMA ConsultAdds ==
  ASSUME NEW before, NEW X, NEW f, NEW kind \in Usual, NEW state, NEW data, NEW Y,
         f[before] = Outcome(kind, state, data, Y)
  PROVE  Consult(ContinueDecision(before, X), f) = Outcome(kind, state, data, X \o Y)
<1> DEFINE sofar == ContinueDecision(before, X)
           o == Outcome(kind, state, data, Y)
<1>1. o # Pass
  BY DEF Outcome, Pass, Usual
<1>2. sofar.kind = "Continue" /\ sofar.data = before /\ sofar.decisions = X
  BY DEF Outcome, ContinueDecision
<1>3. Contribute(sofar, o) = Outcome(kind, state, data, X \o Y)
  BY <1>2, Contributes
<1> HIDE DEF o, sofar
<1>4. Consult(sofar, f) = Contribute(sofar, o)
  BY <1>1, <1>2 DEF Consult, o
<1> QED BY <1>3, <1>4 DEF sofar

LEMMA ConsultStay ==
  ASSUME NEW before, NEW X, NEW f, NEW data, NEW Y, f[before] = Stay(data, Y)
  PROVE  Consult(ContinueDecision(before, X), f) = Stay(data, X \o Y)
<1> DEFINE kind == "Stay"
           state == ""
<1>1. kind \in Usual /\ f[before] = Outcome(kind, state, data, Y)
  BY DEF Usual, Stay
<1>2. Stay(data, X \o Y) = Outcome(kind, state, data, X \o Y)
  BY DEF Stay
<1> HIDE DEF kind, state
<1>3. Consult(ContinueDecision(before, X), f) = Outcome(kind, state, data, X \o Y)
  BY <1>1, ConsultAdds, SMT
<1> QED BY <1>2, <1>3

LEMMA ConsultContinue ==
  ASSUME NEW before, NEW X, NEW f, NEW data, NEW Y, f[before] = ContinueDecision(data, Y)
  PROVE  Consult(ContinueDecision(before, X), f) = ContinueDecision(data, X \o Y)
<1> DEFINE kind == "Continue"
           state == ""
<1>1. kind \in Usual /\ f[before] = Outcome(kind, state, data, Y)
  BY DEF Usual, ContinueDecision
<1>2. ContinueDecision(data, X \o Y) = Outcome(kind, state, data, X \o Y)
  BY DEF ContinueDecision
<1> HIDE DEF kind, state
<1>3. Consult(ContinueDecision(before, X), f) = Outcome(kind, state, data, X \o Y)
  BY <1>1, ConsultAdds, SMT
<1> QED BY <1>2, <1>3

LEMMA ConsultGoto ==
  ASSUME NEW before, NEW X, NEW f, NEW s, NEW data, NEW Y, f[before] = Goto(s, data, Y)
  PROVE  Consult(ContinueDecision(before, X), f) = Goto(s, data, X \o Y)
<1> DEFINE kind == "Transition"
           state == s
<1>1. kind \in Usual /\ f[before] = Outcome(kind, state, data, Y)
  BY DEF Usual, Goto
<1>2. Goto(s, data, X \o Y) = Outcome(kind, state, data, X \o Y)
  BY DEF Goto
<1> HIDE DEF kind, state
<1>3. Consult(ContinueDecision(before, X), f) = Outcome(kind, state, data, X \o Y)
  BY <1>1, ConsultAdds, SMT
<1> QED BY <1>2, <1>3

LEMMA FirstStay ==
  ASSUME NEW before, NEW f, NEW data, NEW S, NEW Y \in Seq(S), f[before] = Stay(data, Y)
  PROVE  Consult(None(before), f) = Stay(data, Y)
<1> DEFINE X == <<>>
<1>1. X \o Y = Y
  OBVIOUS
<1> HIDE DEF X
<1>2. Consult(ContinueDecision(before, X), f) = Stay(data, X \o Y)
  BY ConsultStay
<1> QED BY <1>1, <1>2 DEF X, None

LEMMA FirstContinue ==
  ASSUME NEW before, NEW f, NEW data, NEW S, NEW Y \in Seq(S), f[before] = ContinueDecision(data, Y)
  PROVE  Consult(None(before), f) = ContinueDecision(data, Y)
<1> DEFINE X == <<>>
<1>1. X \o Y = Y
  OBVIOUS
<1> HIDE DEF X
<1>2. Consult(ContinueDecision(before, X), f) = ContinueDecision(data, X \o Y)
  BY ConsultContinue
<1> QED BY <1>1, <1>2 DEF X, None

LEMMA FirstGoto ==
  ASSUME NEW before, NEW f, NEW s, NEW data, NEW S, NEW Y \in Seq(S), f[before] = Goto(s, data, Y)
  PROVE  Consult(None(before), f) = Goto(s, data, Y)
<1> DEFINE X == <<>>
<1>1. X \o Y = Y
  OBVIOUS
<1> HIDE DEF X
<1>2. Consult(ContinueDecision(before, X), f) = Goto(s, data, X \o Y)
  BY ConsultGoto
<1> QED BY <1>1, <1>2 DEF X, None

LEMMA Managed ==
  ASSUME NEW ctx \in Context, NEW data \in Data, data.form = "ok",
         Asked(ctx.h) => ctx.stateData = data
  PROVE  LET M == ManagedContinuations(ctx, data, historySize)
         IN  \/ M = None(data)
             \/ \E x : M = Stay(data, One(x)) /\ IsExtra(ctx, data, x)
<1> DEFINE a == [before \in Data |-> handleContinuationTimer(ctx, before)]
           b == [before \in Data |-> handleContinuationSignal(ctx, before)]
           c == [before \in Data |->
                   signalContinuationWhenHistoryLarge(ctx, before, historySize)]
           none == None(data)
           M == ManagedContinuations(ctx, data, historySize)
<1>1. /\ a[data] = handleContinuationTimer(ctx, data)
      /\ b[data] = handleContinuationSignal(ctx, data)
      /\ c[data] = signalContinuationWhenHistoryLarge(ctx, data, historySize)
  OBVIOUS
<1>2. M = Consult(Consult(Consult(none, a), b), c)
  BY ComposedSteps DEF ManagedContinuations
<1> HIDE DEF a, b, c, M
<1>3. none.kind = "Continue" /\ none.data = data /\ \A Y : Stay(data, Y).kind = "Stay"
  BY DEF None, ContinueDecision, Stay, Outcome
<1>4. ContinueTimer = ContinueSignal
  BY DEF ContinueTimer, ContinueSignal
<1>5. CASE Asked(ctx.h) /\ ctx.h.type = "TimerFired"
  <2>1. PICK x : continueOrWait(ctx, data) = Stay(data, One(x)) /\ IsExtra(ctx, data, x)
    BY <1>5, ContinueOrWait
  <2>2. a[data] = Stay(data, One(x))
    BY <1>1, <1>4, <1>5, <2>1 DEF handleContinuationTimer, Asked
  <2>3. Consult(none, a) = Stay(data, One(x))
    <3>1. One(x) \in Seq(Decision)
      BY <2>1, ExtraSeq
    <3> QED BY <2>2, <3>1, FirstStay
  <2> QED BY <1>2, <1>3, <2>1, <2>3, ConsultSteps DEF M
<1>6. CASE Asked(ctx.h) /\ ctx.h.type # "TimerFired"
  <2>1. PICK x : continueOrWait(ctx, data) = Stay(data, One(x)) /\ IsExtra(ctx, data, x)
    BY <1>6, ContinueOrWait
  <2>2. a[data] = Pass /\ b[data] = Stay(data, One(x))
    BY <1>1, <1>6, <2>1 DEF handleContinuationTimer, handleContinuationSignal, Asked
  <2>3. Consult(none, a) = none /\ Consult(none, b) = Stay(data, One(x))
    <3>1. One(x) \in Seq(Decision)
      BY <2>1, ExtraSeq
    <3>2. Consult(none, b) = Stay(data, One(x))
      BY <2>2, <3>1, FirstStay
    <3> QED BY <1>3, <2>2, <3>2, ConsultSteps
  <2> QED BY <1>2, <1>3, <2>1, <2>3, ConsultSteps DEF M
<1>7. CASE ~Asked(ctx.h)
  <2>1. a[data] = Pass /\ b[data] = Pass
    BY <1>1, <1>4, <1>7 DEF handleContinuationTimer, handleContinuationSignal, Asked
  <2>2. M = Consult(none, c)
    BY <1>2, <1>3, <2>1, ConsultSteps
  <2>3. CASE ctx.i > historySize
    <3>1. c[data] = Stay(data, One(SignalSelf(ctx)))
      BY <1>1, <2>3 DEF signalContinuationWhenHistoryLarge, One
    <3>2. Consult(none, c) = Stay(data, One(SignalSelf(ctx)))
      BY <3>1, SignalSelfType, ExtraSeq, FirstStay
    <3> QED BY <2>2, <3>2, SignalSelfType DEF M
  <2>4. CASE ~(ctx.i > historySize)
    <3>1. c[data] = Pass
      BY <1>1, <2>4 DEF signalContinuationWhenHistoryLarge
    <3> QED BY <1>3, <2>2, <3>1, ConsultSteps DEF M
  <2> QED BY <2>3, <2>4
<1> QED BY <1>5, <1>6, <1>7

(* What a composed decision asks for: at most one activity, and that if the *)
(* event is a request for one.                                             *)
Work(ctx) == NewDecision("ScheduleActivityTask", "", ctx.i)

Schedules(d) == d.type = "ScheduleActivityTask"

HasWork(D) == \E k \in 1..Len(D) : Schedules(D[k])

AskedFor(ctx, data, D) ==
  /\ D \in Seq(Decision)
  /\ \A k \in 1..Len(D) : D[k] = Work(ctx) \/ IsExtra(ctx, data, D[k])
  /\ \A k, l \in 1..Len(D) : Schedules(D[k]) /\ Schedules(D[l]) => k = l

Nothing == <<>>

LEMMA WorkType ==
  ASSUME NEW ctx \in Context
  PROVE  Work(ctx) \in Decision /\ Schedules(Work(ctx)) /\ Work(ctx).ref = ctx.i
<1>1. Work(ctx) \in Decision
  BY NewDecisionType DEF Work, DecisionTypes, Labels, Context
<1> QED BY <1>1 DEF Work, Schedules, NewDecision

LEMMA NothingAsked ==
  ASSUME NEW ctx, NEW data
  PROVE  AskedFor(ctx, data, Nothing) /\ Nothing \in Seq(Decision)
  BY DEF AskedFor, Nothing

LEMMA OneOf ==
  ASSUME NEW S, NEW x \in S
  PROVE  /\ One(x) \in Seq(S) /\ Len(One(x)) = 1 /\ One(x)[1] = x
         /\ \A k \in 1..Len(One(x)) : k = 1 /\ One(x)[k] = x
  BY DEF One

LEMMA ExtraAsked ==
  ASSUME NEW ctx, NEW data, NEW x, IsExtra(ctx, data, x)
  PROVE  AskedFor(ctx, data, One(x))
<1>1. x \in Decision
  BY DEF IsExtra
<1>2. One(x) \in Seq(Decision) /\ \A k \in 1..Len(One(x)) : k = 1 /\ One(x)[k] = x
  BY <1>1, OneOf
<1> QED BY <1>2 DEF AskedFor

LEMMA WorkAsked ==
  ASSUME NEW ctx \in Context, NEW data
  PROVE  AskedFor(ctx, data, One(Work(ctx))) /\ HasWork(One(Work(ctx)))
<1> DEFINE w == Work(ctx)
<1>1. w \in Decision /\ Schedules(w)
  BY WorkType
<1> HIDE DEF w
<1>2. /\ One(w) \in Seq(Decision) /\ Len(One(w)) = 1
      /\ \A k \in 1..Len(One(w)) : k = 1 /\ One(w)[k] = w
  BY <1>1, OneOf
<1>3. AskedFor(ctx, data, One(w)) /\ HasWork(One(w))
  BY <1>1, <1>2 DEF AskedFor, HasWork, w
<1> QED BY <1>3 DEF w

IsPair(D, S, x, y) == D \in Seq(S) /\ Len(D) = 2 /\ D[1] = x /\ D[2] = y

LEMMA TwoOf ==
  ASSUME NEW S, NEW x \in S, NEW y \in S
  PROVE  IsPair(One(x) \o One(y), S, x, y)
<1> DEFINE v == One(x)
           w == One(y)
           D == v \o w
<1>1. v \in Seq(S) /\ w \in Seq(S) /\ Len(v) = 1 /\ Len(w) = 1 /\ v[1] = x /\ w[1] = y
  BY OneOf
<1> HIDE DEF v, w
<1>5. v \in Seq(S) /\ w \in Seq(S)
  BY <1>1
<1>2. D \in Seq(S) /\ Len(D) = 2
  <2>1. D \in Seq(S) /\ Len(D) = Len(v) + Len(w)
    BY <1>5, ConcatProperties
  <2> QED BY <1>1, <2>1
<1>3. \A i \in 1..2 : D[i] = IF i <= 1 THEN v[i] ELSE w[i - 1]
  <2>1. \A i \in 1..Len(v) + Len(w) : D[i] = IF i <= Len(v) THEN v[i] ELSE w[i - Len(v)]
    BY <1>5, ConcatProperties
  <2>2. Len(v) = 1 /\ Len(w) = 1
    BY <1>1
  <2> HIDE DEF D
  <2> QED BY <2>1, <2>2
<1> HIDE DEF D
<1>4. D[1] = v[1] /\ D[2] = w[1]
  BY <1>3
<1> QED BY <1>1, <1>2, <1>4 DEF v, w, D, IsPair

LEMMA BothAsked ==
  ASSUME NEW ctx \in Context, NEW data, NEW x, IsExtra(ctx, data, x)
  PROVE  LET D == One(Work(ctx)) \o One(x) IN AskedFor(ctx, data, D) /\ HasWork(D)
<1> DEFINE w == Work(ctx)
<1>1. w \in Decision /\ Schedules(w) /\ x \in Decision /\ ~Schedules(x)
  BY WorkType DEF IsExtra, Schedules
<1> HIDE DEF w
<1> DEFINE D == One(w) \o One(x)
<1>2. IsPair(D, Decision, w, x)
  BY <1>1, TwoOf
<1>3. D \in Seq(Decision) /\ Len(D) = 2 /\ D[1] = w /\ D[2] = x
  BY <1>2 DEF IsPair
<1> HIDE DEF D
<1>4. \A k \in 1..Len(D) : (k = 1 /\ D[k] = w) \/ (k = 2 /\ D[k] = x)
  BY <1>3
<1>5. AskedFor(ctx, data, D) /\ HasWork(D)
  BY <1>1, <1>3, <1>4 DEF AskedFor, HasWork, w
<1> QED BY <1>5 DEF D, w

LEMMA NothingAfter ==
  ASSUME NEW S, NEW X \in Seq(S)
  PROVE  X \o Nothing = X
  BY DEF Nothing

Noted(ctx, data) == [data EXCEPT !.seen = @ \cup {ctx.h.ref}]

LEMMA NotedType ==
  ASSUME NEW ctx \in Context, NEW data \in Data
  PROVE  /\ Noted(ctx, data) \in Data /\ Noted(ctx, data).form = data.form
         /\ Noted(ctx, data).seen = data.seen \cup {ctx.h.ref}
<1>1. ctx.h.ref \in Nat
  BY DEF Context, HistoryEvent
<1> QED BY <1>1 DEF Noted, Data

LEMMA Users ==
  ASSUME NEW ctx \in Context, NEW data
  PROVE  /\ ~IsRequest(ctx.h) => user(ctx, data) = Pass
         /\ IsRequest(ctx.h) /\ ctx.h.label = "user" =>
              user(ctx, data) = ContinueDecision(Noted(ctx, data), Nothing)
         /\ IsRequest(ctx.h) /\ ctx.h.label = "work" =>
              user(ctx, data) = ContinueDecision(Noted(ctx, data), One(Work(ctx)))
         /\ IsRequest(ctx.h) /\ ctx.h.label = "move" =>
              user(ctx, data) = Goto(movedTo, Noted(ctx, data), Nothing)
         /\ IsRequest(ctx.h) /\ ctx.h.label = "restart" =>
              user(ctx, data) =
                Stay(Noted(ctx, data),
                     IF ctx.pending = {}
                     THEN One(ContinueFSMWorkflowInput(ctx, Noted(ctx, data))) ELSE Nothing)
<1> DEFINE noted == [data EXCEPT !.seen = @ \cup {ctx.h.ref}]
           label == ctx.h.label
           U == user(ctx, data)
           R == IF ctx.pending = {} THEN One(ContinueFSMWorkflowInput(ctx, noted)) ELSE Nothing
<1>1. U = IF ~IsRequest(ctx.h) THEN Pass
          ELSE CASE label = "user" -> ContinueDecision(noted, Nothing)
            [] label = "work" -> ContinueDecision(noted, One(Work(ctx)))
            [] label = "move" -> Goto(movedTo, noted, Nothing)
            [] label = "restart" -> Stay(noted, R)
  BY DEF user, Work, One, Nothing
<1>2. IsRequest(ctx.h) => label \in {"user", "work", "move", "restart"}
  BY DEF IsRequest, UserLabels
<1>3. noted = Noted(ctx, data)
  BY DEF Noted
<1>4. R = IF ctx.pending = {} THEN One(ContinueFSMWorkflowInput(ctx, Noted(ctx, data))) ELSE Nothing
  BY <1>3
<1> HIDE DEF noted, label, U, R
<1>5. ~IsRequest(ctx.h) => U = Pass
  BY <1>1
<1>6. IsRequest(ctx.h) =>
        /\ label = "user" => U = ContinueDecision(noted, Nothing)
        /\ label = "work" => U = ContinueDecision(noted, One(Work(ctx)))
        /\ label = "move" => U = Goto(movedTo, noted, Nothing)
        /\ label = "restart" => U = Stay(noted, R)
  <2> SUFFICES ASSUME IsRequest(ctx.h) PROVE
        /\ label = "user" => U = ContinueDecision(noted, Nothing)
        /\ label = "work" => U = ContinueDecision(noted, One(Work(ctx)))
        /\ label = "move" => U = Goto(movedTo, noted, Nothing)
        /\ label = "restart" => U = Stay(noted, R)
    OBVIOUS
  <2>1. CASE label = "user"
    BY <1>1, <2>1
  <2>2. CASE label = "work"
    BY <1>1, <2>2
  <2>3. CASE label = "move"
    BY <1>1, <2>3
  <2>4. CASE label = "restart"
    BY <1>1, <2>4
  <2> QED BY <1>2, <2>1, <2>2, <2>3, <2>4
<1> QED BY <1>3, <1>4, <1>5, <1>6 DEF U, label

(* What the composed decider makes of an event.                            *)
Moves(e) == IsRequest(e) /\ e.label = "move"

IsAnswer(ctx, data, o) ==
  /\ o.data \in Data /\ o.data.form = "ok"
  /\ o.data.seen = IF IsRequest(ctx.h) THEN data.seen \cup {ctx.h.ref} ELSE data.seen
  /\ IF Moves(ctx.h) THEN o.kind = "Transition" /\ o.state = movedTo ELSE o.kind = "Stay"
  /\ AskedFor(ctx, o.data, o.decisions)
  /\ IsRequest(ctx.h) /\ ctx.h.label = "work" => HasWork(o.decisions)

LEMMA StayAnswersOther ==
  ASSUME NEW ctx, NEW data, NEW after \in Data, after.form = "ok", ~IsRequest(ctx.h),
         after.seen = data.seen, NEW D, AskedFor(ctx, after, D)
  PROVE  IsAnswer(ctx, data, Stay(after, D))
<1> DEFINE o == Stay(after, D)
<1>1. o.kind = "Stay" /\ o.data = after /\ o.decisions = D
  BY DEF Stay, Outcome
<1> HIDE DEF o
<1>2. IsAnswer(ctx, data, o)
  BY <1>1 DEF IsAnswer, Moves
<1> QED BY <1>2 DEF o

LEMMA StayAnswersRequest ==
  ASSUME NEW ctx, NEW data, NEW after \in Data, after.form = "ok", IsRequest(ctx.h),
         after.seen = data.seen \cup {ctx.h.ref},
         ~Moves(ctx.h), NEW D, AskedFor(ctx, after, D),
         ctx.h.label = "work" => HasWork(D)
  PROVE  IsAnswer(ctx, data, Stay(after, D))
<1> DEFINE o == Stay(after, D)
<1>1. o.kind = "Stay" /\ o.data = after /\ o.decisions = D
  BY DEF Stay, Outcome
<1> HIDE DEF o
<1>2. IsAnswer(ctx, data, o)
  BY <1>1 DEF IsAnswer
<1> QED BY <1>2 DEF o

LEMMA GotoAnswers ==
  ASSUME NEW ctx, NEW data, NEW after \in Data, after.form = "ok",
         after.seen = data.seen \cup {ctx.h.ref}, Moves(ctx.h)
  PROVE  IsAnswer(ctx, data, Goto(movedTo, after, Nothing))
<1> DEFINE o == Goto(movedTo, after, Nothing)
<1>1. o.kind = "Transition" /\ o.state = movedTo /\ o.data = after /\ o.decisions = Nothing
  BY DEF Goto, Outcome
<1>2. AskedFor(ctx, o.data, Nothing)
  BY NothingAsked
<1> HIDE DEF o
<1>3. ~(ctx.h.label = "work")
  BY DEF Moves
<1>4. IsAnswer(ctx, data, o)
  BY <1>1, <1>2, <1>3 DEF IsAnswer, Moves
<1> QED BY <1>4 DEF o

LEMMA StayIsFinal ==
  ASSUME NEW sofar, sofar.kind # "Continue", NEW f, NEW g
  PROVE  Consult(Consult(sofar, f), g) = sofar
  BY ConsultSteps

LEMMA Final ==
  ASSUME NEW data, NEW D, NEW s
  PROVE  Stay(data, D).kind # "Continue" /\ Goto(s, data, D).kind # "Continue"
  BY DEF Stay, Goto, Outcome

LEMMA Decides ==
  ASSUME NEW ctx \in Context, NEW data \in Data, data.form = "ok", ctx.stateData = data
  PROVE  IsAnswer(ctx, data, Decide(ctx, data))
<1> DEFINE a == [before \in Data |-> user(ctx, before)]
           b == [before \in Data |-> ManagedContinuations(ctx, before, historySize)]
           c == [before \in Data |-> DefaultDecider(ctx, before)]
           M(d) == ManagedContinuations(ctx, d, historySize)
           noted == Noted(ctx, data)
<1>1. a[data] = user(ctx, data) /\ \A d \in Data : b[d] = M(d) /\ c[d] = Stay(d, Nothing)
  BY DEF DefaultDecider, Nothing
<1>2. Decide(ctx, data) = Consult(Consult(Consult(None(data), a), b), c)
  BY ComposedSteps DEF Decide
<1>3. noted \in Data /\ noted.form = "ok" /\ noted.seen = data.seen \cup {ctx.h.ref}
  BY NotedType
<1> HIDE DEF a, b, c, M, noted
<1>4. None(data) = ContinueDecision(data, Nothing) /\ None(data).kind = "Continue" /\ None(data).data = data
  BY DEF None, Nothing, ContinueDecision, Outcome
<1>5. CASE ~IsRequest(ctx.h)
  <2>1. Consult(None(data), a) = None(data)
    BY <1>1, <1>4, <1>5, Users, ConsultSteps
  <2>3. CASE M(data) = None(data)
    <3>0. b[data] = ContinueDecision(data, Nothing) /\ c[data] = Stay(data, Nothing)
          /\ Nothing \in Seq(Decision)
      BY <1>1, <1>4, <2>3, NothingAsked
    <3>1. Consult(None(data), b) = ContinueDecision(data, Nothing)
      BY <3>0, FirstContinue
    <3>2. Consult(None(data), c) = Stay(data, Nothing)
      BY <3>0, FirstStay
    <3>3. Decide(ctx, data) = Stay(data, Nothing)
      BY <1>2, <1>4, <2>1, <3>1, <3>2
    <3> QED BY <1>5, <3>3, NothingAsked, StayAnswersOther
  <2>4. ASSUME NEW x, M(data) = Stay(data, One(x)), IsExtra(ctx, data, x)
        PROVE  IsAnswer(ctx, data, Decide(ctx, data))
    <3>1. One(x) \in Seq(Decision)
      BY <2>4, ExtraSeq
    <3>2. b[data] = Stay(data, One(x))
      BY <1>1, <2>4
    <3>20. Consult(None(data), b) = Stay(data, One(x))
      BY <3>1, <3>2, FirstStay
    <3>3. Decide(ctx, data) = Stay(data, One(x))
      BY <1>2, <2>1, <3>20, Final, ConsultSteps
    <3>4. AskedFor(ctx, data, One(x))
      BY <2>4, ExtraAsked
    <3> QED BY <1>5, <3>3, <3>4, StayAnswersOther
  <2> QED BY <2>3, <2>4, Managed DEF M
<1>6. ASSUME NEW W \in Seq(Decision), IsRequest(ctx.h), ~Moves(ctx.h),
             a[data] = ContinueDecision(noted, W),
             AskedFor(ctx, noted, W), ctx.h.label = "work" => HasWork(W),
             \A x : IsExtra(ctx, noted, x) =>
                      /\ AskedFor(ctx, noted, W \o One(x))
                      /\ ctx.h.label = "work" => HasWork(W \o One(x))
      PROVE  IsAnswer(ctx, data, Decide(ctx, data))
  <2>1. Consult(None(data), a) = ContinueDecision(noted, W)
    BY <1>6, FirstContinue
  <2>2. ~Asked(ctx.h)
    BY <1>6 DEF IsRequest, Asked, UserLabels, ContinueSignal
  <2>3. CASE M(noted) = None(noted)
    <3>1. b[noted] = ContinueDecision(noted, Nothing) /\ c[noted] = Stay(noted, Nothing)
      BY <1>1, <1>3, <2>3 DEF None, Nothing
    <3>0. W \o Nothing = W
      BY NothingAfter
    <3>2. Consult(ContinueDecision(noted, W), b) = ContinueDecision(noted, W \o Nothing)
      BY <3>1, ConsultContinue
    <3>3. Consult(ContinueDecision(noted, W), c) = Stay(noted, W \o Nothing)
      BY <3>1, ConsultStay
    <3>4. Decide(ctx, data) = Stay(noted, W)
      BY <1>2, <2>1, <3>0, <3>2, <3>3
    <3> QED BY <1>3, <1>6, <3>4, StayAnswersRequest
  <2>4. ASSUME NEW x, M(noted) = Stay(noted, One(x)), IsExtra(ctx, noted, x)
        PROVE  IsAnswer(ctx, data, Decide(ctx, data))
    <3>1. b[noted] = Stay(noted, One(x))
      BY <1>1, <1>3, <2>4
    <3>2. Consult(ContinueDecision(noted, W), b) = Stay(noted, W \o One(x))
      BY <3>1, ConsultStay
    <3>3. Decide(ctx, data) = Stay(noted, W \o One(x))
      BY <1>2, <2>1, <3>2, Final, ConsultSteps
    <3> QED BY <1>3, <1>6, <2>4, <3>3, StayAnswersRequest
  <2> QED BY <1>3, <2>2, <2>3, <2>4, Managed DEF M
<1>7. CASE IsRequest(ctx.h) /\ ctx.h.label = "user"
  <2>1. a[data] = ContinueDecision(noted, Nothing) /\ ~Moves(ctx.h) /\ ~(ctx.h.label = "work")
    BY <1>1, <1>7, Users DEF noted, Moves
  <2>2. \A x : Nothing \o One(x) = One(x)
    BY DEF Nothing, One
  <2> QED BY <1>6, <1>7, <2>1, <2>2, NothingAsked, ExtraAsked
<1>8. CASE IsRequest(ctx.h) /\ ctx.h.label = "work"
  <2>1. a[data] = ContinueDecision(noted, One(Work(ctx))) /\ ~Moves(ctx.h)
    BY <1>1, <1>8, Users DEF noted, Moves
  <2>2. One(Work(ctx)) \in Seq(Decision)
    BY WorkType, OneOf
  <2> QED BY <1>6, <1>8, <2>1, <2>2, WorkAsked, BothAsked
<1>9. CASE IsRequest(ctx.h) /\ ctx.h.label = "move"
  <2>1. a[data] = Goto(movedTo, noted, Nothing) /\ Moves(ctx.h)
    BY <1>1, <1>9, Users DEF noted, Moves
  <2>2. Consult(None(data), a) = Goto(movedTo, noted, Nothing)
    <3>1. Nothing \in Seq(Decision)
      BY NothingAsked
    <3> QED BY <2>1, <3>1, FirstGoto
  <2>3. Decide(ctx, data) = Goto(movedTo, noted, Nothing)
    BY <1>2, <2>2, Final, StayIsFinal
  <2> QED BY <1>3, <2>1, <2>3, GotoAnswers
<1>10. CASE IsRequest(ctx.h) /\ ctx.h.label = "restart"
  <2> DEFINE x == ContinueFSMWorkflowInput(ctx, noted)
             X == IF ctx.pending = {} THEN One(x) ELSE Nothing
  <2>1. a[data] = Stay(noted, X) /\ ~Moves(ctx.h) /\ ~(ctx.h.label = "work")
    BY <1>1, <1>10, Users DEF noted, Moves
  <2>2. AskedFor(ctx, noted, X) /\ X \in Seq(Decision)
    <3>1. CASE ctx.pending = {}
      <4>1. initialState \in StateNames /\ ctx.h.type # "ActivityTaskScheduled"
        BY <1>10, StatesAssumption DEF StateNames, IsRequest
      <4>2. IsExtra(ctx, noted, x)
        BY <1>3, <1>10, <3>1, <4>1, ContinueAsNewType DEF ContinueFSMWorkflowInput
      <4> HIDE DEF x
      <4> QED BY <3>1, <4>2, ExtraSeq, ExtraAsked
    <3>2. CASE ctx.pending # {}
      BY <3>2, NothingAsked
    <3> QED BY <3>1, <3>2
  <2> HIDE DEF X
  <2>3. Consult(None(data), a) = Stay(noted, X)
    BY <2>1, <2>2, FirstStay
  <2>4. Decide(ctx, data) = Stay(noted, X)
    BY <1>2, <2>3, Final, StayIsFinal
  <2>5. /\ IsRequest(ctx.h) /\ ~Moves(ctx.h) /\ AskedFor(ctx, noted, X)
        /\ ctx.h.label = "work" => HasWork(X)
    BY <1>10, <2>1, <2>2
  <2>6. IsAnswer(ctx, data, Stay(noted, X))
    BY <1>3, <2>5, StayAnswersRequest
  <2> QED BY <2>4, <2>6
<1>11. IsRequest(ctx.h) => ctx.h.label \in {"user", "work", "move", "restart"}
  BY DEF IsRequest, UserLabels
<1> QED BY <1>5, <1>7, <1>8, <1>9, <1>10, <1>11

-----------------------------------------------------------------------------
(* The tick.                                                               *)
LEMMA Typed ==
  ASSUME TypeOK
  PROVE  /\ history \in Seq(HistoryEvent) /\ Len(history) \in Nat
         /\ Ids = 1..Len(history) /\ \A i \in Ids : history[i] \in HistoryEvent
         /\ prevStarted \in Nat /\ task.started \in Nat
         /\ task \in [status : TaskStatus, started : Nat]
         /\ run \in Nat \ {0} /\ sent \in 0..Len(Requests) /\ Len(Requests) \in Nat
         /\ stream \in Seq([run : Nat \ {0}, state : SerializedState])
<1>1. Len(Requests) \in Nat
  BY RequestsAssumption
<1> QED BY <1>1 DEF TypeOK, ServiceTypeOK, Ids

LEMMA Ref ==
  ASSUME NEW e \in HistoryEvent
  PROVE  /\ e.ref \in Nat /\ e.state \in SerializedState /\ e.state.data \in Data
         /\ e.state.version \in Nat /\ e.state.pending \in SUBSET Nat
         /\ e.state.name \in StateNames /\ e.type \in EventTypes /\ e.label \in Labels
  BY DEF HistoryEvent, SerializedState

LEMMA Found ==
  ASSUME NEW e \in HistoryEvent
  PROVE  /\ findSerializedState(e) \in SerializedState
         /\ findSerializedState(e).data = e.state.data
         /\ findSerializedState(e).version = e.state.version
         /\ findSerializedState(e).pending = e.state.pending
<1>1. e.state \in SerializedState /\ initialState \in StateNames
  BY Ref, StatesAssumption DEF StateNames
<1> QED BY <1>1 DEF findSerializedState, SerializedState

(* What one more event adds.                                               *)
LEMMA OneMoreSignal ==
  ASSUME TypeOK, NEW n \in Nat, n + 1 \in Ids
  PROVE  SignalsUpTo(n + 1) =
           IF IsRequest(history[n + 1]) THEN SignalsUpTo(n) \cup {history[n + 1].ref}
           ELSE SignalsUpTo(n)
<1>1. \A k \in Ids : k <= n + 1 <=> k <= n \/ k = n + 1
  BY Typed
<1> QED BY <1>1 DEF SignalsUpTo

LEMMA OneMoreMove ==
  ASSUME TypeOK, NEW n \in Nat, n + 1 \in Ids
  PROVE  StateAfter(n + 1) = IF Moves(history[n + 1]) THEN movedTo ELSE StateAfter(n)
<1>1. \A k \in Ids : k <= n + 1 <=> k <= n \/ k = n + 1
  BY Typed
<1> QED BY <1>1 DEF StateAfter, Moves

LEMMA OneMoreInFlight ==
  ASSUME TypeOK, EventsInv, NEW n \in Nat, n + 1 \in Ids
  PROVE  InFlight(n + 1) = Track(InFlight(n), n + 1, history[n + 1])
<1> DEFINE e == history[n + 1]
           P == InFlight(n)
<1>1. \A k \in Ids : k \in Nat /\ (k <= n + 1 <=> k <= n \/ k = n + 1) /\ (k <= n => k # n + 1)
  BY Typed
<1>2. Closed(e) => e.type # "ActivityTaskScheduled"
  BY DEF Closed, ActivityClosed
<1>3. \A j \in Ids : j <= n /\ Closed(history[j]) => history[j].ref # n + 1
  BY <1>1, Typed, Ref DEF EventsInv
<1>4. Track(P, n + 1, e) = (IF Closed(e) THEN P \ {e.ref} ELSE P)
                              \cup (IF e.type = "ActivityTaskScheduled" THEN {n + 1} ELSE {})
  BY DEF Track, Correlate, RemoveCorrelation, Closed
<1>5. n + 1 \notin P
  BY <1>1 DEF InFlight
<1> HIDE DEF e
<1>6. \A i \in Ids : i \in InFlight(n + 1) <=>
        \/ i \in P /\ (Closed(e) => e.ref # i)
        \/ i = n + 1 /\ e.type = "ActivityTaskScheduled" /\ (Closed(e) => e.ref # i)
  BY <1>1, <1>3 DEF InFlight, e
<1>7. InFlight(n + 1) \subseteq Ids /\ P \subseteq Ids
  BY DEF InFlight
<1> QED BY <1>2, <1>4, <1>5, <1>6, <1>7 DEF e

LEMMA Silent ==
  ASSUME NEW e, ~Delivered(e)
  PROVE  /\ ~IsRequest(e) /\ ~Closed(e) /\ e.type # "ActivityTaskScheduled"
         /\ ~(IsRequest(e) /\ e.label = "work") /\ ~Moves(e)
  BY DEF Delivered, DecisionTaskTypes, isStateMarker, isErrorSignal, IsRequest, Closed,
         ActivityClosed, Moves, UserLabels, ErrorSignal, SystemErrorSignal

Intermediate == [saved : SerializedState, state : StateNames, data : Data, version : Nat,
                 pending : SUBSET Nat, decisions : Seq(Decision)]

(* A decision of the task, when n of its events have been handled; version  *)
(* is that of the recovered state.                                         *)
ContinuesAt(d, version) ==
  /\ InFlight(d.ref - 1) = {} /\ history[d.ref].type # "ActivityTaskScheduled"
  /\ d.state.version = version /\ d.state.pending = {} /\ d.state.data.form = "ok"
  /\ d.state.data.seen = history[1].state.data.seen \cup SignalsUpTo(d.ref)
  /\ d.state.name = IF history[d.ref].label = "restart" THEN initialState
                    ELSE StateAfter(d.ref - 1)

UserTypes == {"ScheduleActivityTask", "StartTimer", "SignalExternalWorkflowExecution",
              "ContinueAsNewWorkflowExecution"}

DecisionInv(d, n, version) ==
  /\ d.ref \in Nat /\ prevStarted < d.ref /\ d.ref <= n
  /\ d.type \in UserTypes
  /\ d.type = "SignalExternalWorkflowExecution" => d.label = ContinueSignal
  /\ d.type = "ContinueAsNewWorkflowExecution" => ContinuesAt(d, version)

DecisionsInv(ds, n, version) ==
  /\ ds \in Seq(Decision)
  /\ \A k \in 1..Len(ds) : DecisionInv(ds[k], n, version)
  /\ \A i \in (prevStarted + 1)..n : IsWork(i) =>
       \E k \in 1..Len(ds) : Schedules(ds[k]) /\ ds[k].ref = i
  /\ \A k, l \in 1..Len(ds) :
       Schedules(ds[k]) /\ Schedules(ds[l]) /\ ds[k].ref = ds[l].ref => k = l

TurnInv(t, n, version) ==
  /\ t \in Intermediate /\ t.version = version
  /\ t.state = StateAfter(n)
  /\ t.data.form = "ok"
  /\ t.data.seen = history[1].state.data.seen \cup SignalsUpTo(n)
  /\ t.pending = InFlight(n)
  /\ DecisionsInv(t.decisions, n, version)

(* One more event and the decisions D asked for at it.                     *)
LEMMA MoreDecisions ==
  ASSUME NEW n \in Nat, prevStarted \in Nat, prevStarted <= n, NEW version,
         NEW ds, DecisionsInv(ds, n, version), NEW D \in Seq(Decision),
         \A k \in 1..Len(D) : D[k].ref = n + 1 /\ DecisionInv(D[k], n + 1, version),
         IsWork(n + 1) => HasWork(D),
         \A k, l \in 1..Len(D) : Schedules(D[k]) /\ Schedules(D[l]) => k = l
  PROVE  DecisionsInv(ds \o D, n + 1, version)
<1> DEFINE all == ds \o D
<1>1. ds \in Seq(Decision)
  BY DEF DecisionsInv
<1>2. all \in Seq(Decision) /\ Len(all) = Len(ds) + Len(D) /\ Len(ds) \in Nat /\ Len(D) \in Nat
  BY <1>1, ConcatProperties
<1>3. \A k \in 1..Len(ds) + Len(D) : all[k] = IF k <= Len(ds) THEN ds[k] ELSE D[k - Len(ds)]
  BY <1>1, ConcatProperties
<1> HIDE DEF all
<1>4. \A k \in 1..Len(all) :
        \/ k \in 1..Len(ds) /\ all[k] = ds[k] /\ all[k].ref \in Nat /\ all[k].ref <= n
        \/ /\ k - Len(ds) \in 1..Len(D) /\ k \notin 1..Len(ds)
           /\ all[k] = D[k - Len(ds)] /\ all[k].ref = n + 1
  <2> SUFFICES ASSUME NEW k \in 1..Len(all)
               PROVE  \/ k \in 1..Len(ds) /\ all[k] = ds[k] /\ all[k].ref \in Nat /\ all[k].ref <= n
                      \/ /\ k - Len(ds) \in 1..Len(D) /\ k \notin 1..Len(ds)
                         /\ all[k] = D[k - Len(ds)] /\ all[k].ref = n + 1
    OBVIOUS
  <2>1. CASE k <= Len(ds)
    <3>1. k \in 1..Len(ds) /\ all[k] = ds[k]
      BY <1>2, <1>3, <2>1
    <3> QED BY <3>1 DEF DecisionsInv, DecisionInv
  <2>2. CASE k > Len(ds)
    <3>1. k - Len(ds) \in 1..Len(D) /\ k \notin 1..Len(ds) /\ all[k] = D[k - Len(ds)]
      BY <1>2, <1>3, <2>2
    <3> QED BY <3>1
  <2> QED BY <1>2, <2>1, <2>2
<1>5. /\ \A k \in 1..Len(ds) : k \in 1..Len(all) /\ all[k] = ds[k]
      /\ \A l \in 1..Len(D) : l + Len(ds) \in 1..Len(all) /\ all[l + Len(ds)] = D[l]
  <2>1. ASSUME NEW k \in 1..Len(ds)
        PROVE  k \in 1..Len(all) /\ all[k] = ds[k]
    BY <1>2, <1>3
  <2>2. ASSUME NEW l \in 1..Len(D)
        PROVE  l + Len(ds) \in 1..Len(all) /\ all[l + Len(ds)] = D[l]
    <3>1. /\ l + Len(ds) \in 1..Len(ds) + Len(D) /\ ~(l + Len(ds) <= Len(ds))
          /\ l + Len(ds) - Len(ds) = l
      BY <1>2
    <3> QED BY <1>2, <1>3, <3>1
  <2> QED BY <2>1, <2>2
<1>6. \A d : DecisionInv(d, n, version) => DecisionInv(d, n + 1, version)
  BY DEF DecisionInv
<1>7. \A k \in 1..Len(all) : DecisionInv(all[k], n + 1, version)
  BY <1>4, <1>6 DEF DecisionsInv
<1>8. ASSUME NEW i \in (prevStarted + 1)..(n + 1), IsWork(i)
      PROVE  \E k \in 1..Len(all) : Schedules(all[k]) /\ all[k].ref = i
  <2>1. CASE i <= n
    <3>1. i \in (prevStarted + 1)..n
      BY <1>8, <2>1
    <3>2. PICK k \in 1..Len(ds) : Schedules(ds[k]) /\ ds[k].ref = i
      BY <1>8, <3>1 DEF DecisionsInv
    <3> QED BY <1>5, <3>2
  <2>2. CASE i = n + 1
    <3>1. PICK l \in 1..Len(D) : Schedules(D[l])
      BY <1>8, <2>2 DEF HasWork
    <3> QED BY <1>5, <2>2, <3>1
  <2> QED BY <1>8, <2>1, <2>2
<1>9. ASSUME NEW k \in 1..Len(all), NEW l \in 1..Len(all), Schedules(all[k]), Schedules(all[l]),
             all[k].ref = all[l].ref
      PROVE  k = l
  <2>1. CASE all[k].ref <= n
    <3>1. all[k].ref # n + 1 /\ all[l].ref # n + 1
      BY <1>4, <1>9, <2>1
    <3>2. k \in 1..Len(ds) /\ l \in 1..Len(ds) /\ all[k] = ds[k] /\ all[l] = ds[l]
      BY <1>4, <3>1
    <3> QED BY <1>9, <3>2 DEF DecisionsInv
  <2>2. CASE all[k].ref = n + 1
    <3>1. all[l].ref = n + 1 /\ ~(n + 1 <= n)
      BY <1>9, <2>2
    <3>2. /\ k - Len(ds) \in 1..Len(D) /\ all[k] = D[k - Len(ds)]
          /\ l - Len(ds) \in 1..Len(D) /\ all[l] = D[l - Len(ds)]
      BY <1>4, <2>2, <3>1
    <3>3. k - Len(ds) = l - Len(ds)
      BY <1>9, <3>2
    <3> QED BY <1>2, <3>3
  <2> QED BY <1>4, <2>1, <2>2
<1>10. DecisionsInv(all, n + 1, version)
  BY <1>2, <1>7, <1>8, <1>9 DEF DecisionsInv
<1> QED BY <1>10 DEF all

LEMMA NoMoreDecisions ==
  ASSUME NEW n \in Nat, prevStarted \in Nat, prevStarted <= n, NEW version,
         NEW ds, DecisionsInv(ds, n, version), ~IsWork(n + 1)
  PROVE  DecisionsInv(ds, n + 1, version)
<1>1. \A d : DecisionInv(d, n, version) => DecisionInv(d, n + 1, version)
  BY DEF DecisionInv
<1>2. \A i \in (prevStarted + 1)..(n + 1) : i \in (prevStarted + 1)..n \/ i = n + 1
  OBVIOUS
<1> QED BY <1>1, <1>2 DEF DecisionsInv

ContextAt(t, i) == [i |-> i, h |-> history[i], state |-> t.state, stateData |-> t.data,
                    stateVersion |-> t.version, pending |-> t.pending]

IsMerged(t, o, P, r) ==
  /\ r \in Intermediate /\ r.saved = t.saved /\ r.version = t.version
  /\ r.data = o.data /\ r.pending = P
  /\ r.state = IF o.kind = "Stay" THEN t.state ELSE o.state
  /\ r.decisions = t.decisions \o o.decisions

LEMMA Merges ==
  ASSUME NEW t \in Intermediate, NEW o, o.data \in Data, o.decisions \in Seq(Decision),
         o.kind = "Stay" \/ o.state \in StateNames, NEW P \in SUBSET Nat
  PROVE  IsMerged(t, o, P, [mergeOutcomes(t, o) EXCEPT !.pending = P])
<1> DEFINE ds == t.decisions \o o.decisions
           m == mergeOutcomes(t, o)
           r == [m EXCEPT !.pending = P]
<1>1. t.decisions \in Seq(Decision)
  BY DEF Intermediate
<1>2. ds \in Seq(Decision)
  BY <1>1, ConcatProperties
<1> HIDE DEF ds
<1>3. m = [t EXCEPT !.decisions = ds, !.data = o.data,
                    !.state = IF o.kind = "Stay" THEN @ ELSE o.state]
  BY DEF mergeOutcomes, ds
<1> HIDE DEF m
<1>4. /\ m \in Intermediate /\ m.saved = t.saved /\ m.version = t.version
      /\ m.data = o.data /\ m.decisions = ds
      /\ m.state = IF o.kind = "Stay" THEN t.state ELSE o.state
  BY <1>2, <1>3 DEF Intermediate
<1>5. /\ r \in Intermediate /\ r.saved = m.saved /\ r.version = m.version
      /\ r.data = m.data /\ r.decisions = m.decisions /\ r.state = m.state /\ r.pending = P
  BY <1>4 DEF Intermediate
<1> HIDE DEF r
<1>6. IsMerged(t, o, P, r)
  BY <1>4, <1>5 DEF IsMerged, ds
<1> QED BY <1>6 DEF r, m

LEMMA ContextType ==
  ASSUME NEW t \in Intermediate, NEW i \in Nat, history[i] \in HistoryEvent
  PROVE  /\ ContextAt(t, i) \in Context /\ t.data \in Data
         /\ ContextAt(t, i).i = i /\ ContextAt(t, i).h = history[i]
         /\ ContextAt(t, i).state = t.state /\ ContextAt(t, i).stateData = t.data
         /\ ContextAt(t, i).stateVersion = t.version /\ ContextAt(t, i).pending = t.pending
  BY DEF ContextAt, Context, Intermediate

LEMMA HandleEventIs ==
  ASSUME NEW t, NEW i
  PROVE  HandleEvent(t, i) =
           [mergeOutcomes(t, Decide(ContextAt(t, i), t.data)) EXCEPT
              !.pending = Track(@, i, history[i])]
  BY DEF HandleEvent, ContextAt

LEMMA PendingKept ==
  ASSUME NEW t \in Intermediate, NEW o
  PROVE  mergeOutcomes(t, o).pending = t.pending
  BY DEF mergeOutcomes, Intermediate

LEMMA HandleEventMerges ==
  ASSUME NEW t \in Intermediate, NEW i, NEW o, o = Decide(ContextAt(t, i), t.data),
         o.data \in Data, o.decisions \in Seq(Decision),
         o.kind = "Stay" \/ o.state \in StateNames,
         Track(t.pending, i, history[i]) \in SUBSET Nat
  PROVE  IsMerged(t, o, Track(t.pending, i, history[i]), HandleEvent(t, i))
<1> DEFINE m == mergeOutcomes(t, o)
           P == Track(t.pending, i, history[i])
<1>1. HandleEvent(t, i) = [m EXCEPT !.pending = Track(@, i, history[i])]
  BY HandleEventIs
<1>2. m.pending = t.pending
  BY PendingKept
<1> HIDE DEF m
<1>3. HandleEvent(t, i) = [m EXCEPT !.pending = P]
  BY <1>1, <1>2
<1> HIDE DEF P
<1>4. IsMerged(t, o, P, [mergeOutcomes(t, o) EXCEPT !.pending = P])
  BY Merges DEF P
<1> QED BY <1>3, <1>4 DEF m, P

(* The turn of an event that the deciders are shown.                       *)
LEMMA DecisionsOfEvent ==
  ASSUME TypeOK, NEW n \in Nat, prevStarted <= n, n + 1 \in Ids,
         NEW t, NEW version, TurnInv(t, n, version),
         NEW o, IsAnswer(ContextAt(t, n + 1), t.data, o)
  PROVE  \A k \in 1..Len(o.decisions) :
           o.decisions[k].ref = n + 1 /\ DecisionInv(o.decisions[k], n + 1, version)
<1> DEFINE ctx == ContextAt(t, n + 1)
           e == history[n + 1]
<1>1. t \in Intermediate /\ e \in HistoryEvent /\ prevStarted \in Nat
  BY Typed DEF TurnInv
<1>2. /\ ctx \in Context /\ ctx.i = n + 1 /\ ctx.h = e /\ ctx.state = t.state
      /\ ctx.stateVersion = t.version /\ ctx.pending = t.pending
  BY <1>1, ContextType
<1> HIDE DEF ctx
<1>3. o.data.seen = history[1].state.data.seen \cup SignalsUpTo(n + 1)
  <2>1. o.data.seen = IF IsRequest(e) THEN t.data.seen \cup {e.ref} ELSE t.data.seen
    BY <1>2 DEF IsAnswer, ctx
  <2>2. t.data.seen = history[1].state.data.seen \cup SignalsUpTo(n)
    BY DEF TurnInv
  <2>3. SignalsUpTo(n + 1) =
          IF IsRequest(e) THEN SignalsUpTo(n) \cup {e.ref} ELSE SignalsUpTo(n)
    BY OneMoreSignal
  <2> QED BY <2>1, <2>2, <2>3
<1>4. (n + 1) - 1 = n /\ prevStarted < n + 1 /\ n + 1 <= n + 1 /\ n + 1 \in Nat
  BY <1>1
<1>5. ASSUME NEW d, d = Work(ctx)
      PROVE  d.ref = n + 1 /\ DecisionInv(d, n + 1, version)
  <2>1. d.ref = n + 1 /\ d.type = "ScheduleActivityTask"
    BY <1>2, <1>5, WorkType DEF Schedules
  <2> QED BY <1>4, <2>1 DEF DecisionInv, UserTypes
<1>6. ASSUME NEW d, IsExtra(ctx, o.data, d)
      PROVE  d.ref = n + 1 /\ DecisionInv(d, n + 1, version)
  <2>1. d.ref = n + 1 /\ d.type \in UserTypes
        /\ (d.type = "SignalExternalWorkflowExecution" => d.label = ContinueSignal)
    BY <1>2, <1>6 DEF IsExtra, UserTypes
  <2>2. ASSUME d.type = "ContinueAsNewWorkflowExecution"
        PROVE  ContinuesAt(d, version)
    <3>1. ContinuesFrom(ctx, o.data, d)
      BY <1>6, <2>2 DEF IsExtra
    <3>2. /\ t.pending = {} /\ e.type # "ActivityTaskScheduled"
          /\ d.state.version = t.version /\ d.state.pending = {}
          /\ d.state.data.form = "ok" /\ d.state.data.seen = o.data.seen
          /\ d.state.name = IF e.label = "restart" THEN initialState ELSE t.state
      BY <1>2, <3>1 DEF ContinuesFrom
    <3>3. t.pending = InFlight(n) /\ t.state = StateAfter(n) /\ t.version = version
      BY DEF TurnInv
    <3>4. InFlight(d.ref - 1) = {} /\ StateAfter(d.ref - 1) = t.state
          /\ SignalsUpTo(d.ref) = SignalsUpTo(n + 1) /\ history[d.ref] = e
      BY <1>4, <2>1, <3>2, <3>3
    <3> QED BY <1>3, <3>2, <3>3, <3>4 DEF ContinuesAt
  <2> QED BY <1>4, <2>1, <2>2 DEF DecisionInv
<1>7. \A k \in 1..Len(o.decisions) :
        o.decisions[k] = Work(ctx) \/ IsExtra(ctx, o.data, o.decisions[k])
  BY DEF IsAnswer, AskedFor, ctx
<1> QED BY <1>5, <1>6, <1>7

LEMMA EventTurn ==
  ASSUME TypeOK, EventsInv, NEW n \in Nat, prevStarted <= n, n + 1 \in Ids,
         NEW t, NEW version, TurnInv(t, n, version)
  PROVE  TurnInv(HandleEvent(t, n + 1), n + 1, version)
<1> DEFINE ctx == ContextAt(t, n + 1)
           e == history[n + 1]
           o == Decide(ctx, t.data)
           P == Track(t.pending, n + 1, e)
           r == HandleEvent(t, n + 1)
<1>1. t \in Intermediate /\ e \in HistoryEvent /\ prevStarted \in Nat /\ t.data.form = "ok"
      /\ n + 1 \in Nat
  BY Typed DEF TurnInv
<1>2. ctx \in Context /\ t.data \in Data /\ ctx.h = e /\ ctx.stateData = t.data
  BY <1>1, ContextType
<1> HIDE DEF ctx
<1>3. IsAnswer(ctx, t.data, o)
  BY <1>1, <1>2, Decides
<1> HIDE DEF o
<1>4. P = InFlight(n + 1) /\ P \in SUBSET Nat
  <2>1. P = InFlight(n + 1)
    BY OneMoreInFlight DEF TurnInv
  <2>2. InFlight(n + 1) \in SUBSET Nat
    BY Typed DEF InFlight
  <2> QED BY <2>1, <2>2
<1>5. /\ o.data \in Data /\ o.decisions \in Seq(Decision)
      /\ o.kind = "Stay" \/ o.state \in StateNames
  BY <1>3, MovedTo DEF IsAnswer, AskedFor
<1> HIDE DEF P
<1>6. IsMerged(t, o, P, r)
  BY <1>1, <1>4, <1>5, HandleEventMerges DEF o, ctx, P
<1> HIDE DEF r
<1>7. r \in Intermediate /\ r.version = version /\ r.pending = InFlight(n + 1)
      /\ r.data.form = "ok"
  BY <1>3, <1>4, <1>6 DEF IsMerged, TurnInv, IsAnswer
<1>8. r.state = StateAfter(n + 1)
  <2>1. Moves(e) => o.kind # "Stay" /\ o.state = movedTo
    BY <1>2, <1>3 DEF IsAnswer
  <2>2. ~Moves(e) => o.kind = "Stay"
    BY <1>2, <1>3 DEF IsAnswer
  <2> QED BY <1>6, <2>1, <2>2, OneMoreMove DEF IsMerged, TurnInv
<1>9. r.data.seen = history[1].state.data.seen \cup SignalsUpTo(n + 1)
  <2>1. r.data.seen = IF IsRequest(e) THEN t.data.seen \cup {e.ref} ELSE t.data.seen
    BY <1>2, <1>3, <1>6 DEF IsAnswer, IsMerged
  <2>2. t.data.seen = history[1].state.data.seen \cup SignalsUpTo(n)
    BY DEF TurnInv
  <2> QED BY <2>1, <2>2, OneMoreSignal
<1>10. DecisionsInv(r.decisions, n + 1, version)
  <2>1. DecisionsInv(t.decisions, n, version)
    BY DEF TurnInv
  <2>2. \A k \in 1..Len(o.decisions) :
          o.decisions[k].ref = n + 1 /\ DecisionInv(o.decisions[k], n + 1, version)
    BY <1>3, DecisionsOfEvent DEF ctx
  <2>3. IsWork(n + 1) => HasWork(o.decisions)
    BY <1>2, <1>3 DEF IsAnswer, IsWork
  <2>4. \A k, l \in 1..Len(o.decisions) :
          Schedules(o.decisions[k]) /\ Schedules(o.decisions[l]) => k = l
    BY <1>3 DEF IsAnswer, AskedFor
  <2>5. DecisionsInv(t.decisions \o o.decisions, n + 1, version)
    BY <1>1, <1>5, <2>1, <2>2, <2>3, <2>4, MoreDecisions
  <2> QED BY <1>6, <2>5 DEF IsMerged
<1>11. TurnInv(r, n + 1, version)
  BY <1>7, <1>8, <1>9, <1>10 DEF TurnInv
<1> QED BY <1>11 DEF r

LEMMA SilentTurn ==
  ASSUME TypeOK, EventsInv, NEW n \in Nat, prevStarted <= n, n + 1 \in Ids,
         ~Delivered(history[n + 1]), NEW t, NEW version, TurnInv(t, n, version)
  PROVE  TurnInv(t, n + 1, version)
<1> DEFINE e == history[n + 1]
<1>1. ~IsRequest(e) /\ ~Closed(e) /\ e.type # "ActivityTaskScheduled" /\ ~Moves(e)
      /\ ~IsWork(n + 1)
  BY Silent DEF IsWork
<1>2. SignalsUpTo(n + 1) = SignalsUpTo(n)
  BY <1>1, OneMoreSignal
<1>3. StateAfter(n + 1) = StateAfter(n)
  BY <1>1, OneMoreMove
<1>4. InFlight(n + 1) = InFlight(n)
  BY <1>1, OneMoreInFlight DEF Track, Correlate, RemoveCorrelation, Closed
<1>5. DecisionsInv(t.decisions, n + 1, version)
  BY <1>1, Typed, NoMoreDecisions DEF TurnInv
<1> QED BY <1>2, <1>3, <1>4, <1>5 DEF TurnInv

(* The task's page shows the newest state and all the events of the task.  *)
LEMMA RecordedExists ==
  ASSUME TypeOK, StartInv
  PROVE  \E i \in Ids : IsRecorded(i)
<1> DEFINE S == {j \in Ids : HoldsState(history[j])}
<1>1. 1 \in S
  BY Typed DEF StartInv, HoldsState
<1>2. S \in SUBSET (1..Len(history)) /\ Len(history) \in Nat
  BY Typed
<1> HIDE DEF S
<1>3. IsNewest(Max(S), S)
  BY <1>1, <1>2, MaxIsNewest
<1>4. IsNewest(Max(S), {j \in Ids : HoldsState(history[j])})
  BY <1>3 DEF S
<1> QED BY <1>4 DEF IsRecorded, IsNewest

LEMMA PageShows ==
  ASSUME TypeOK, TaskInv, task.status = "started", prevStarted + 1 \in Page(task.started)
  PROVE  /\ task.started \in Ids /\ prevStarted < task.started
         /\ \A k \in Nat : prevStarted < k /\ k <= task.started => k \in Page(task.started) /\ k \in Ids
         /\ Page(task.started) \in SUBSET (1..task.started)
         /\ Page(task.started) \subseteq Ids
<1>1. /\ task.started \in Ids /\ prevStarted < task.started /\ prevStarted \in Nat
      /\ task.started \in Nat /\ Ids = 1..Len(history) /\ Len(history) \in Nat
  BY Typed DEF TaskInv
<1>2. PageSize \in Nat /\ prevStarted + 1 + PageSize > task.started
  BY PageAssumption DEF Page
<1>3. \A k \in Nat : prevStarted < k /\ k <= task.started =>
        k \in 1..task.started /\ k + PageSize > task.started
  BY <1>1, <1>2
<1> QED BY <1>1, <1>3 DEF Page

LEMMA RecoveredFacts ==
  ASSUME TypeOK, StartInv, TaskInv, StateInv, task.status = "started",
         prevStarted + 1 \in Page(task.started), NEW i \in Ids, IsRecorded(i)
  PROVE  TurnInv(Recovered(task.started), prevStarted, history[i].state.version)
<1> DEFINE S == StateEvents(history, task.started)
           T == {j \in Ids : HoldsState(history[j])}
           saved == findSerializedState(history[i])
           t == [saved |-> saved, state |-> saved.name, data |-> saved.data,
                 version |-> saved.version, pending |-> saved.pending, decisions |-> <<>>]
<1>1. i \in T /\ \A j \in T : j <= i
  BY DEF IsRecorded, IsNewest
<1>2. prevStarted < i /\ i <= task.started /\ i \in Nat
  BY Typed DEF StateInv
<1>3. i \in S
  BY <1>1, <1>2, PageShows DEF StateEvents
<1>4. S \subseteq T /\ S \in SUBSET (1..task.started) /\ task.started \in Nat
  BY PageShows, Typed DEF StateEvents
<1> HIDE DEF S, T
<1>5. IsNewest(Max(S), S)
  BY <1>3, <1>4, MaxIsNewest
<1>6. Max(S) = i
  <2> DEFINE x == Max(S)
  <2>1. IsNewest(x, S)
    BY <1>5
  <2> HIDE DEF x
  <2>2. x \in S /\ i <= x
    BY <1>3, <2>1 DEF IsNewest
  <2>3. x \in T /\ x \in Nat /\ x <= i
    BY <1>1, <1>4, <2>2
  <2>4. x = i
    BY <1>2, <2>2, <2>3
  <2> QED BY <2>4 DEF x
<1>7. Recovered(task.started) = t
  BY <1>6 DEF Recovered, S
<1>8. history[i] \in HistoryEvent
  BY Typed
<1>9. /\ saved \in SerializedState /\ saved.data = history[i].state.data
      /\ saved.version = history[i].state.version /\ saved.pending = history[i].state.pending
  BY <1>8, Found
<1>10. saved.name = StateAfter(prevStarted)
  BY DEF StateInv
<1> HIDE DEF saved
<1>11. /\ t \in Intermediate /\ t.saved = saved /\ t.version = saved.version
       /\ t.state = saved.name /\ t.data = saved.data /\ t.pending = saved.pending
       /\ t.decisions = <<>>
  BY <1>9 DEF Intermediate, SerializedState
<1> HIDE DEF t
<1>12. DecisionsInv(t.decisions, prevStarted, history[i].state.version)
  <2>1. prevStarted \in Nat
    BY Typed
  <2> QED BY <1>11, <2>1 DEF DecisionsInv
<1>13. TurnInv(t, prevStarted, history[i].state.version)
  BY <1>9, <1>10, <1>11, <1>12 DEF TurnInv, StateInv
<1> QED BY <1>7, <1>13

(* The loop over lastEvents.                                               *)
LEMMA LoopInv ==
  ASSUME TypeOK, StartInv, TaskInv, EventsInv, StateInv, task.status = "started",
         prevStarted + 1 \in Page(task.started), NEW i \in Ids, IsRecorded(i)
  PROVE  TurnInv(IntermediateOutcomes(task.started)[task.started], task.started,
                 history[i].state.version)
<1> DEFINE m == task.started
           f == IntermediateOutcomes(m)
           version == history[i].state.version
           Good == {n \in 0..m : /\ n <= prevStarted => f[n] = Recovered(m)
                                 /\ prevStarted <= n => TurnInv(f[n], n, version)}
           todo == LastEvents(history, prevStarted, m)
<1>1. m \in Nat /\ prevStarted \in Nat /\ prevStarted < m /\ m \in Ids
  BY Typed, PageShows
<1>2. f[0] = Recovered(m) /\ \A n \in 0..(m - 1) : f[n + 1] = Turn(f[n], n + 1, todo)
  BY <1>1, IntermediateSteps
<1>3. TurnInv(Recovered(m), prevStarted, version)
  BY RecoveredFacts
<1>4. \A k \in Nat : k \in todo <=> prevStarted < k /\ k <= m /\ Delivered(history[k])
  <2>1. \A k \in Page(m) : k <= m
    BY <1>1, PageShows
  <2> QED BY <1>1, <2>1, PageShows DEF LastEvents, Window
<1>5. \A k \in Nat : prevStarted < k /\ k <= m => k \in Ids
  BY PageShows
<1> HIDE DEF m, f, todo, version
<1>6. 0 \in Good
  BY <1>1, <1>2, <1>3
<1>7. ASSUME NEW n \in 0..(m - 1), n \in Good
      PROVE  n + 1 \in Good
  <2>1. n + 1 \in 0..m /\ n + 1 \in Nat /\ n \in Nat /\ n + 1 <= m
    BY <1>1
  <2>2. f[n + 1] = Turn(f[n], n + 1, todo)
    BY <1>2
  <2>3. CASE n + 1 <= prevStarted
    <3>1. n + 1 \notin todo
      BY <1>1, <1>4, <2>1, <2>3
    <3>2. f[n + 1] = Recovered(m)
      BY <1>1, <1>7, <2>2, <2>3, <3>1 DEF Turn
    <3>3. prevStarted <= n + 1 => TurnInv(f[n + 1], n + 1, version)
      BY <1>1, <1>3, <2>1, <2>3, <3>2
    <3> QED BY <2>1, <3>2, <3>3
  <2>4. CASE prevStarted <= n
    <3>1. TurnInv(f[n], n, version) /\ n + 1 \in Ids /\ prevStarted < n + 1
      BY <1>1, <1>5, <1>7, <2>1, <2>4
    <3>2. TurnInv(f[n + 1], n + 1, version)
      <4>1. CASE n + 1 \in todo
        <5>1. f[n + 1] = HandleEvent(f[n], n + 1)
          BY <2>2, <4>1 DEF Turn
        <5> QED BY <2>1, <2>4, <3>1, <5>1, EventTurn
      <4>2. CASE n + 1 \notin todo
        <5>1. f[n + 1] = f[n] /\ ~Delivered(history[n + 1])
          BY <1>4, <2>1, <2>2, <3>1, <4>2 DEF Turn
        <5> QED BY <2>1, <2>4, <3>1, <5>1, SilentTurn
      <4> QED BY <4>1, <4>2
    <3> QED BY <1>1, <2>1, <2>4, <3>2
  <2> QED BY <1>1, <2>1, <2>3, <2>4
<1>8. \A n \in 0..m : n \in Good
  <2> HIDE DEF Good
  <2> QED BY <1>1, <1>6, <1>7, BoundedInduction
<1>9. m \in Good
  BY <1>1, <1>8
<1> QED BY <1>1, <1>9 DEF m, f, version

(* Tick records the state after its last event.                            *)
IsTick(r, version) ==
  /\ r.saved \in SerializedState
  /\ r.saved.name = StateAfter(task.started) /\ r.saved.version = version + 1
  /\ r.saved.data.form = "ok"
  /\ r.saved.data.seen = history[1].state.data.seen \cup SignalsUpTo(task.started)
  /\ r.saved.pending = InFlight(task.started)
  /\ \E ds : r.decisions = One(Marker(r.saved)) \o ds /\ DecisionsInv(ds, task.started, version)

LEMMA TickFacts ==
  ASSUME TypeOK, StartInv, TaskInv, EventsInv, StateInv, task.status = "started",
         prevStarted + 1 \in Page(task.started), NEW i \in Ids, IsRecorded(i)
  PROVE  IsTick(Tick(task.started), history[i].state.version)
<1> DEFINE n == task.started
           version == history[i].state.version
           t == IntermediateOutcomes(n)[n]
           s == [name |-> t.state, version |-> t.version + 1, data |-> Stored(t.data),
                 pending |-> t.pending]
           r == [t EXCEPT !.saved = s, !.decisions = <<Marker(s)>> \o @]
<1>1. TurnInv(t, n, version)
  BY LoopInv
<1>2. Tick(n) = r
  BY DEF Tick, recordStateMarker
<1> HIDE DEF t, version, n
<1>3. t \in Intermediate /\ Stored(t.data) = t.data
  BY <1>1 DEF TurnInv, Stored
<1>4. /\ s \in SerializedState /\ s.name = t.state /\ s.version = t.version + 1
      /\ s.data = t.data /\ s.pending = t.pending
  BY <1>3 DEF Intermediate, SerializedState
<1> HIDE DEF s
<1>5. r.saved = s /\ r.decisions = One(Marker(s)) \o t.decisions
  BY <1>3 DEF Intermediate, One
<1> HIDE DEF r
<1>6. IsTick(r, version)
  BY <1>1, <1>4, <1>5 DEF IsTick, TurnInv, n
<1> QED BY <1>2, <1>6 DEF version, n

-----------------------------------------------------------------------------
(* What the service makes of the decisions.                                *)
ResultOf(d, e) ==
  /\ e \in HistoryEvent /\ e.label = d.label /\ e.ref = d.ref /\ e.state = d.state
  /\ d.type = "RecordMarker" => e.type = "MarkerRecorded"
  /\ d.type = "ScheduleActivityTask" => e.type = "ActivityTaskScheduled"
  /\ d.type = "SignalExternalWorkflowExecution" =>
       e.type = "SignalExternalWorkflowExecutionInitiated"
  /\ d.type = "StartTimer" => e.type \in {"TimerStarted", "StartTimerFailed"}
  /\ d.type = "ContinueAsNewWorkflowExecution" =>
       e.type = "ContinueAsNewWorkflowExecutionFailed"

TickTypes == UserTypes \cup {"RecordMarker"}

NewsAfter(h, m, ref) == \E q \in 1..m : h[q].type = "ActivityTaskScheduled" /\ ref < q

Refusable(d, unhandled, h, m) ==
  d.type = "ContinueAsNewWorkflowExecution" => unhandled \/ NewsAfter(h, m, d.ref)

Grown(h, D, n, unhandled) ==
  /\ h \in Seq(HistoryEvent) /\ Len(h) = Len(history) + 1 + n
  /\ \A i \in Ids : h[i] = history[i]
  /\ h[Len(history) + 1] = Event("DecisionTaskCompleted", "", 0)
  /\ \A k \in 1..n : /\ ResultOf(D[k], h[Len(history) + 1 + k])
                     /\ Refusable(D[k], unhandled, h, Len(history) + k)

CarriedInv(r, D, n, unhandled) ==
  /\ r \in [h : Seq(HistoryEvent), by : Seq(Decision)]
  /\ \/ r.by = <<>> /\ Grown(r.h, D, n, unhandled)
     \/ \E k \in 1..n : /\ r.by = One(D[k])
                        /\ D[k].type = "ContinueAsNewWorkflowExecution"

(* A continuation was asked for when nothing was in flight.                *)
AskedInTime(d) ==
  d.type = "ContinueAsNewWorkflowExecution" =>
    /\ d.ref \in Nat \ {0} /\ d.ref <= Len(history)
    /\ InFlight(d.ref - 1) = {} /\ history[d.ref].type # "ActivityTaskScheduled"

LEMMA ResultTyped ==
  ASSUME NEW d \in Decision, d.type \in TickTypes, NEW h, NEW unhandled
  PROVE  ResultOf(d, [d EXCEPT !.type = ResultType(h, d, unhandled)])
<1> DEFINE type == ResultType(h, d, unhandled)
           e == [d EXCEPT !.type = type]
<1>1. /\ d.type = "RecordMarker" => type = "MarkerRecorded"
      /\ d.type = "ScheduleActivityTask" => type = "ActivityTaskScheduled"
      /\ d.type = "SignalExternalWorkflowExecution" =>
           type = "SignalExternalWorkflowExecutionInitiated"
      /\ d.type = "StartTimer" => type \in {"TimerStarted", "StartTimerFailed"}
      /\ d.type = "ContinueAsNewWorkflowExecution" =>
           type = "ContinueAsNewWorkflowExecutionFailed"
  BY DEF ResultType, DecisionEventType
<1>2. type \in EventTypes
  BY <1>1 DEF TickTypes, UserTypes, EventTypes
<1> HIDE DEF type
<1>3. /\ e \in HistoryEvent /\ e.type = type /\ e.label = d.label /\ e.ref = d.ref
      /\ e.state = d.state
  BY <1>2 DEF Decision, HistoryEvent
<1> HIDE DEF e
<1>4. ResultOf(d, e)
  BY <1>1, <1>3 DEF ResultOf
<1> QED BY <1>4 DEF e, type

LEMMA AppendFacts ==
  ASSUME NEW S, NEW h \in Seq(S), NEW e \in S
  PROVE  /\ Append(h, e) \in Seq(S) /\ Len(Append(h, e)) = Len(h) + 1
         /\ \A i \in 1..Len(h) : Append(h, e)[i] = h[i]
         /\ Append(h, e)[Len(h) + 1] = e
  OBVIOUS

(* An activity that is open when a continuation is refused was scheduled    *)
(* after the event that made the decider ask for it.                       *)
LEMMA OpenIsNews ==
  ASSUME TypeOK, NEW h \in Seq(HistoryEvent), NEW m \in Nat, Len(h) = m,
         Len(history) <= m, \A i \in Ids : h[i] = history[i],
         NEW d, AskedInTime(d), d.type = "ContinueAsNewWorkflowExecution",
         OpenActivities(h) # {}
  PROVE  NewsAfter(h, m, d.ref)
<1>1. PICK q \in OpenActivities(h) : TRUE
  OBVIOUS
<1>2. /\ q \in 1..m /\ h[q].type = "ActivityTaskScheduled"
      /\ \A j \in 1..m : Closed(h[j]) => h[j].ref # q
  BY <1>1 DEF OpenActivities, Closed
<1>3. d.ref \in Nat \ {0} /\ d.ref <= Len(history) /\ InFlight(d.ref - 1) = {}
      /\ history[d.ref].type # "ActivityTaskScheduled"
  BY DEF AskedInTime
<1>4. Ids = 1..Len(history) /\ Len(history) \in Nat /\ Ids \subseteq 1..m
  BY Typed
<1>5. d.ref \in Ids /\ q # d.ref
  BY <1>2, <1>3, <1>4
<1>6. ~(q <= d.ref - 1)
  <2> SUFFICES ASSUME q <= d.ref - 1 PROVE q \in InFlight(d.ref - 1)
    BY <1>3
  <2>1. q \in Ids /\ history[q].type = "ActivityTaskScheduled"
    BY <1>2, <1>3, <1>4
  <2>2. \A j \in Ids : Closed(history[j]) => history[j].ref # q
    BY <1>2, <1>4
  <2> QED BY <2>1, <2>2 DEF InFlight
<1> QED BY <1>2, <1>3, <1>5, <1>6 DEF NewsAfter

LEMMA CarryStep ==
  ASSUME TypeOK, NEW D \in Seq(Decision), NEW unhandled \in BOOLEAN,
         \A k \in 1..Len(D) : D[k].type \in TickTypes /\ AskedInTime(D[k]),
         NEW n \in 0..(Len(D) - 1), NEW r, CarriedInv(r, D, n, unhandled)
  PROVE  CarriedInv(Carry(r, D[n + 1], unhandled), D, n + 1, unhandled)
<1> DEFINE d == D[n + 1]
           c == Carry(r, d, unhandled)
<1>1. Len(D) \in Nat /\ n \in Nat /\ n + 1 \in 1..Len(D) /\ \A k \in 1..n : k \in 1..(n + 1)
  OBVIOUS
<1>2. d \in Decision /\ d.type \in TickTypes /\ AskedInTime(d)
  BY <1>1
<1> HIDE DEF d
<1>3. r \in [h : Seq(HistoryEvent), by : Seq(Decision)]
  BY DEF CarriedInv
<1>4. CASE r.by # <<>>
  <2>1. c = r
    BY <1>4 DEF Carry
  <2> QED BY <1>1, <1>3, <1>4, <2>1 DEF CarriedInv, d
<1>5. CASE r.by = <<>> /\ Continues(r.h, d, unhandled)
  <2>1. c = [r EXCEPT !.by = <<d>>]
    BY <1>5 DEF Carry
  <2>2. c \in [h : Seq(HistoryEvent), by : Seq(Decision)] /\ c.by = One(d)
    <3>1. One(d) \in Seq(Decision)
      BY <1>2, OneOf
    <3>2. c = [r EXCEPT !.by = One(d)]
      BY <2>1 DEF One
    <3> QED BY <1>3, <3>1, <3>2
  <2>3. d.type = "ContinueAsNewWorkflowExecution"
    BY <1>5 DEF Continues
  <2> HIDE DEF c
  <2>4. CarriedInv(c, D, n + 1, unhandled)
    BY <1>1, <2>2, <2>3 DEF CarriedInv, d
  <2> QED BY <2>4 DEF c, d
<1>6. CASE r.by = <<>> /\ ~Continues(r.h, d, unhandled)
  <2> DEFINE h == r.h
             e == [d EXCEPT !.type = ResultType(h, d, unhandled)]
             g == Append(h, e)
             m == Len(history) + 1 + n
  <2>1. c = [r EXCEPT !.h = Append(@, [d EXCEPT !.type = ResultType(r.h, d, unhandled)])]
    BY <1>6 DEF Carry
  <2>2. c = [r EXCEPT !.h = g]
    BY <2>1
  <2>3. ResultOf(d, e)
    BY <1>2, ResultTyped
  <2>4. ~Continues(h, d, unhandled)
    BY <1>6
  <2>5. r.by # One(d)
    BY <1>6 DEF One
  <2>6. Grown(h, D, n, unhandled)
    <3>1. \A x : One(x) # <<>>
      BY DEF One
    <3> QED BY <1>6, <3>1 DEF CarriedInv
  <2> HIDE DEF e, h
  <2>7. e \in HistoryEvent /\ h \in Seq(HistoryEvent) /\ Len(h) = m /\ Len(history) \in Nat
        /\ Ids = 1..Len(history) /\ m \in Nat
    <3>1. e \in HistoryEvent
      BY <2>3 DEF ResultOf
    <3>2. h \in Seq(HistoryEvent) /\ Len(h) = m
      BY <2>6 DEF Grown
    <3>3. Ids = 1..Len(history) /\ Len(history) \in Nat
      BY Typed
    <3> QED BY <1>1, <3>1, <3>2, <3>3
  <2>8. /\ g \in Seq(HistoryEvent) /\ Len(g) = Len(h) + 1
        /\ \A i \in 1..Len(h) : g[i] = h[i]
        /\ g[Len(h) + 1] = e
    <3>1. e \in HistoryEvent /\ h \in Seq(HistoryEvent)
      BY <2>7
    <3> QED BY <3>1, AppendFacts
  <2> HIDE DEF g
  <2>9. c \in [h : Seq(HistoryEvent), by : Seq(Decision)] /\ c.by = <<>> /\ c.h = g
    BY <1>3, <1>6, <2>2, <2>8
  <2>10. \A i \in 1..m : g[i] = h[i]
    BY <2>7, <2>8
  <2>11. \A i \in Ids : g[i] = history[i]
    <3>1. \A i \in Ids : i \in 1..m
      BY <1>1, <2>7
    <3> QED BY <2>6, <2>10, <3>1 DEF Grown
  <2>12. g[Len(history) + 1] = Event("DecisionTaskCompleted", "", 0)
    <3>1. Len(history) + 1 \in 1..m
      BY <1>1, <2>7
    <3> QED BY <2>6, <2>10, <3>1 DEF Grown
  <2>13. Refusable(d, unhandled, g, Len(history) + (n + 1))
    <3> SUFFICES ASSUME d.type = "ContinueAsNewWorkflowExecution", ~unhandled
                 PROVE  NewsAfter(g, m, d.ref)
      <4>1. m = Len(history) + (n + 1)
        BY <1>1, <2>7
      <4> HIDE DEF m
      <4> QED BY <4>1 DEF Refusable
    <3>1. OpenActivities(h) # {}
      BY <2>4 DEF Continues
    <3>2. \A i \in Ids : h[i] = history[i]
      BY <2>6 DEF Grown
    <3>3. Len(history) <= m
      BY <1>1, <2>7
    <3> HIDE DEF m
    <3>4. NewsAfter(h, m, d.ref)
      BY <1>2, <2>7, <3>1, <3>2, <3>3, OpenIsNews
    <3> QED BY <2>10, <3>4 DEF NewsAfter
  <2>14. ASSUME NEW k \in 1..(n + 1)
         PROVE  /\ ResultOf(D[k], g[Len(history) + 1 + k])
                /\ Refusable(D[k], unhandled, g, Len(history) + k)
    <3>1. CASE k = n + 1
      <4>1. g[Len(history) + 1 + k] = e
        BY <2>7, <2>8, <3>1
      <4> QED BY <2>3, <2>13, <3>1, <4>1 DEF d
    <3>2. CASE k \in 1..n
      <4>1. Len(history) + 1 + k \in 1..m /\ 1..(Len(history) + k) \subseteq 1..m
        BY <1>1, <2>7, <3>2
      <4>2. ResultOf(D[k], h[Len(history) + 1 + k]) /\ Refusable(D[k], unhandled, h, Len(history) + k)
        BY <2>6, <3>2 DEF Grown
      <4>3. Refusable(D[k], unhandled, g, Len(history) + k)
        BY <2>10, <4>1, <4>2 DEF Refusable, NewsAfter
      <4> QED BY <2>10, <4>1, <4>2, <4>3
    <3> QED BY <1>1, <3>1, <3>2
  <2>15. Len(g) = Len(history) + 1 + (n + 1)
    BY <1>1, <2>7, <2>8
  <2>16. Grown(g, D, n + 1, unhandled)
    BY <2>8, <2>11, <2>12, <2>14, <2>15 DEF Grown
  <2> HIDE DEF c
  <2>17. CarriedInv(c, D, n + 1, unhandled)
    BY <2>9, <2>16 DEF CarriedInv
  <2> QED BY <2>17 DEF c, d
<1> QED BY <1>4, <1>5, <1>6 DEF d

LEMMA CarryBase ==
  ASSUME TypeOK, NEW D, NEW unhandled
  PROVE  CarriedInv([h |-> Completed, by |-> <<>>], D, 0, unhandled)
<1> DEFINE e == Event("DecisionTaskCompleted", "", 0)
           r == [h |-> Completed, by |-> <<>>]
<1>1. e \in HistoryEvent
  BY EventType DEF EventTypes, Labels
<1>2. history \in Seq(HistoryEvent) /\ Len(history) \in Nat /\ Ids = 1..Len(history)
  BY Typed
<1>3. Completed = Append(history, e)
  BY DEF Completed
<1> HIDE DEF e
<1>4. /\ Completed \in Seq(HistoryEvent) /\ Len(Completed) = Len(history) + 1
      /\ \A i \in Ids : Completed[i] = history[i]
      /\ Completed[Len(history) + 1] = e
  BY <1>1, <1>2, <1>3, AppendFacts
<1> DEFINE c == Completed
<1> HIDE DEF c
<1>5. Grown(c, D, 0, unhandled)
  <2>1. /\ c \in Seq(HistoryEvent) /\ Len(c) = Len(history) + 1 + 0
        /\ \A i \in Ids : c[i] = history[i]
        /\ c[Len(history) + 1] = e
    BY <1>2, <1>4 DEF c
  <2>2. \A k \in 1..0 : FALSE
    OBVIOUS
  <2> QED BY <2>1, <2>2 DEF Grown, e
<1>6. r \in [h : Seq(HistoryEvent), by : Seq(Decision)] /\ r.by = <<>> /\ r.h = Completed
  BY <1>4
<1> HIDE DEF r
<1>7. CarriedInv(r, D, 0, unhandled)
  BY <1>5, <1>6 DEF CarriedInv, c
<1> QED BY <1>7 DEF r

LEMMA CarriesOut ==
  ASSUME TypeOK, NEW D \in Seq(Decision), NEW unhandled \in BOOLEAN,
         \A k \in 1..Len(D) : D[k].type \in TickTypes /\ AskedInTime(D[k])
  PROVE  CarriedInv(CarryOut(Completed, D, unhandled), D, Len(D), unhandled)
<1> DEFINE f == Carried(Completed, D, unhandled)
           Good == {n \in 0..Len(D) : CarriedInv(f[n], D, n, unhandled)}
<1>1. Len(D) \in Nat
  OBVIOUS
<1>2. /\ f[0] = [h |-> Completed, by |-> <<>>]
      /\ \A n \in 0..(Len(D) - 1) : f[n + 1] = Carry(f[n], D[n + 1], unhandled)
  BY <1>1, CarriedSteps
<1> HIDE DEF f
<1>3. 0 \in Good
  BY <1>1, <1>2, CarryBase
<1>4. \A n \in 0..(Len(D) - 1) : n \in Good => n + 1 \in Good
  <2> SUFFICES ASSUME NEW n \in 0..(Len(D) - 1), CarriedInv(f[n], D, n, unhandled)
               PROVE  n + 1 \in Good
    OBVIOUS
  <2>1. CarriedInv(Carry(f[n], D[n + 1], unhandled), D, n + 1, unhandled)
    BY CarryStep
  <2> QED BY <1>1, <1>2, <2>1
<1>5. \A n \in 0..Len(D) : n \in Good
  <2> HIDE DEF Good
  <2> QED BY <1>1, <1>3, <1>4, BoundedInduction
<1> QED BY <1>1, <1>5 DEF CarryOut, f

LEMMA MarkerType ==
  ASSUME NEW s \in SerializedState
  PROVE  /\ Marker(s) \in Decision /\ Marker(s).type = "RecordMarker"
         /\ Marker(s).label = StateMarker /\ Marker(s).state = s
<1>1. NewDecision("RecordMarker", StateMarker, 0) \in Decision
  BY NewDecisionType DEF DecisionTypes, Labels
<1> QED BY <1>1 DEF Marker, Decision, NewDecision

(* A decision task that the worker has answered.                           *)
Response(s, ds) == One(Marker(s)) \o ds

LEMMA ResponseIs ==
  ASSUME NEW s \in SerializedState, NEW ds \in Seq(Decision)
  PROVE  /\ Response(s, ds) \in Seq(Decision) /\ Len(ds) \in Nat
         /\ Len(Response(s, ds)) = Len(ds) + 1
         /\ Response(s, ds)[1] = Marker(s)
         /\ \A k \in 1..Len(ds) : Response(s, ds)[k + 1] = ds[k]
<1> DEFINE m == One(Marker(s))
           D == m \o ds
<1>1. m \in Seq(Decision) /\ Len(m) = 1 /\ m[1] = Marker(s)
  BY MarkerType, OneOf
<1> HIDE DEF m
<1>2. D \in Seq(Decision) /\ Len(D) = Len(m) + Len(ds) /\ Len(ds) \in Nat
  <2>1. m \in Seq(Decision)
    BY <1>1
  <2> QED BY <2>1, ConcatProperties
<1>4. \A i \in 1..Len(m) + Len(ds) : D[i] = IF i <= Len(m) THEN m[i] ELSE ds[i - Len(m)]
  <2>1. m \in Seq(Decision)
    BY <1>1
  <2> QED BY <2>1, ConcatProperties
<1> HIDE DEF D
<1>3. D[1] = Marker(s) /\ \A k \in 1..Len(ds) : D[k + 1] = ds[k]
  BY <1>1, <1>2, <1>4
<1> QED BY <1>1, <1>2, <1>3 DEF Response, D, m

IsSaved(s, version) ==
  /\ s \in SerializedState
  /\ s.name = StateAfter(task.started) /\ s.version = version + 1
  /\ s.data.form = "ok"
  /\ s.data.seen = history[1].state.data.seen \cup SignalsUpTo(task.started)
  /\ s.pending = InFlight(task.started)

Answered(s, ds, r, version) ==
  /\ task.status = "started"
  /\ IsSaved(s, version)
  /\ DecisionsInv(ds, task.started, version)
  /\ CarriedInv(r, Response(s, ds), Len(ds) + 1, Unhandled(task.started))
  /\ \/ r.by = <<>> /\ GoesOn(r.h, Unhandled(task.started))
     \/ r.by # <<>> /\ StartsAnew(r.by[1])
  /\ stream' = Append(stream, [run |-> run, state |-> s])
  /\ UNCHANGED <<open, sent>>

LEMMA Handles ==
  ASSUME TypeOK, StartInv, TaskInv, EventsInv, StateInv, HandleDecisionTask,
         NEW i \in Ids, IsRecorded(i)
  PROVE  \E s, ds, r : Answered(s, ds, r, history[i].state.version)
<1> DEFINE t == Tick(task.started)
           u == Unhandled(task.started)
           version == history[i].state.version
           s == t.saved
           r == CarryOut(Completed, t.decisions, u)
<1>1. /\ task.status = "started" /\ prevStarted + 1 \in Page(task.started)
      /\ \/ r.by = <<>> /\ GoesOn(r.h, u)
         \/ r.by # <<>> /\ StartsAnew(r.by[1])
      /\ stream' = Append(stream, [run |-> run, state |-> s])
      /\ UNCHANGED <<open, sent>>
  BY DEF HandleDecisionTask
<1>2. IsTick(t, version)
  BY <1>1, TickFacts
<1>3. /\ prevStarted \in Nat /\ task.started \in Nat /\ Len(history) \in Nat
      /\ task.started <= Len(history) /\ u \in BOOLEAN
  BY <1>1, Typed DEF TaskInv, Unhandled
<1> HIDE DEF t, u, version
<1>4. PICK ds : t.decisions = Response(s, ds) /\ DecisionsInv(ds, task.started, version)
  BY <1>2 DEF IsTick, Response
<1>5. IsSaved(s, version) /\ s \in SerializedState /\ ds \in Seq(Decision)
  BY <1>2, <1>4 DEF IsTick, IsSaved, DecisionsInv
<1> DEFINE D == Response(s, ds)
<1> HIDE DEF s
<1>6. /\ D \in Seq(Decision) /\ Len(ds) \in Nat /\ Len(D) = Len(ds) + 1 /\ D[1] = Marker(s)
      /\ \A k \in 1..Len(ds) : D[k + 1] = ds[k]
  BY <1>5, ResponseIs
<1> HIDE DEF D
<1>7. \A k \in 1..Len(D) : D[k].type \in TickTypes /\ AskedInTime(D[k])
  <2> SUFFICES ASSUME NEW k \in 1..Len(D)
               PROVE  D[k].type \in TickTypes /\ AskedInTime(D[k])
    OBVIOUS
  <2>1. CASE k = 1
    <3>1. D[k].type = "RecordMarker"
      BY <1>5, <1>6, <2>1, MarkerType
    <3> QED BY <3>1 DEF TickTypes, AskedInTime
  <2>2. CASE k # 1
    <3>1. k - 1 \in 1..Len(ds) /\ D[k] = ds[k - 1]
      BY <1>6, <2>2
    <3>2. DecisionInv(D[k], task.started, version)
      BY <1>4, <3>1 DEF DecisionsInv
    <3>3. D[k].ref \in Nat \ {0} /\ D[k].ref <= Len(history)
      BY <1>3, <3>2 DEF DecisionInv
    <3> QED BY <3>2, <3>3 DEF DecisionInv, TickTypes, AskedInTime, ContinuesAt
  <2> QED BY <2>1, <2>2
<1>8. CarriedInv(CarryOut(Completed, D, u), D, Len(D), u)
  BY <1>3, <1>6, <1>7, CarriesOut
<1>9. CarriedInv(r, D, Len(ds) + 1, u)
  BY <1>4, <1>6, <1>8 DEF D
<1> HIDE DEF r
<1>10. Answered(s, ds, r, version)
  BY <1>1, <1>4, <1>5, <1>9 DEF Answered, D, u
<1> QED BY <1>10 DEF version

-----------------------------------------------------------------------------
(* What the invariant reads out of the history, as functions of it.        *)
SignalsOf(h, n) == {h[j].ref : j \in {k \in DOMAIN h : k <= n /\ IsRequest(h[k])}}

FlightOf(h, n) ==
  {i \in DOMAIN h : /\ i <= n /\ h[i].type = "ActivityTaskScheduled"
                    /\ \A j \in DOMAIN h : j <= n /\ Closed(h[j]) => h[j].ref # i}

StateOf(h, n) ==
  IF \E j \in DOMAIN h : j <= n /\ Moves(h[j]) THEN movedTo ELSE findSerializedState(h[1]).name

RecordedIn(h, i) == IsNewest(i, {j \in DOMAIN h : HoldsState(h[j])})

ScheduledFor(h, i) == {j \in EventsOf(h, "ActivityTaskScheduled") : h[j].ref = i}

CompletedBefore(h, j) == {k \in EventsOf(h, "DecisionTaskCompleted") : k < j}

MissedIn(h, j) == h[Max(CompletedBefore(h, j)) - 1].type # "DecisionTaskStarted"

NewsIn(h, j) == \E k \in EventsOf(h, "ActivityTaskScheduled") : h[j].ref < k /\ k < j

GoodStart(h) ==
  /\ DOMAIN h # {} /\ h[1].type = "WorkflowExecutionStarted"
  /\ h[1].state.data.form = "ok" /\ h[1].state.pending = {}
  /\ \A i \in DOMAIN h : h[i].type = "WorkflowExecutionStarted" => i = 1

GoodEvent(h, prev, i) ==
  /\ Closed(h[i]) => h[i].ref < i
  /\ h[i].type = "ActivityTaskScheduled" => h[i].ref <= prev
  /\ h[i].type = "SignalExternalWorkflowExecutionInitiated" => h[i].label = ContinueSignal
  /\ h[i].type = "ContinueAsNewWorkflowExecutionFailed" => CompletedBefore(h, i) # {}

GoodState(h, prev, i) ==
  /\ prev < i
  /\ findSerializedState(h[i]).name = StateOf(h, prev)
  /\ h[i].state.data.form = "ok"
  /\ h[i].state.data.seen = h[1].state.data.seen \cup SignalsOf(h, prev)
  /\ h[i].state.pending = FlightOf(h, prev)

GoodStream(h, stm, current, i) ==
  \A k \in 1..Len(stm) :
    /\ stm[k].run <= current
    /\ stm[k].state.version <= h[i].state.version + (IF stm[k].run = current THEN 0 ELSE 1)

GoodWork(h, prev, i) ==
  i <= prev /\ IsRequest(h[i]) /\ h[i].label = "work" => Cardinality(ScheduledFor(h, i)) = 1

GoodRefusal(h, j) ==
  h[j].type = "ContinueAsNewWorkflowExecutionFailed" => MissedIn(h, j) \/ NewsIn(h, j)

InvForm ==
  /\ StartInv <=> GoodStart(history)
  /\ EventsInv <=> \A i \in DOMAIN history : GoodEvent(history, prevStarted, i)
  /\ StateInv <=> \A i \in DOMAIN history : RecordedIn(history, i) =>
       GoodState(history, prevStarted, i) /\ (task.status = "started" => i <= task.started)
  /\ StreamInv <=> \A i \in DOMAIN history : RecordedIn(history, i) =>
       GoodStream(history, stream, run, i)
  /\ WorkIsScheduled <=> \A i \in DOMAIN history : GoodWork(history, prevStarted, i)
  /\ RefusedForNewsOnly <=> \A j \in DOMAIN history : GoodRefusal(history, j)

LEMMA InvIs == InvForm
<1>1. StartInv <=> GoodStart(history)
  BY DEF StartInv, GoodStart, Ids
<1>2. EventsInv <=> \A i \in DOMAIN history : GoodEvent(history, prevStarted, i)
  BY DEF EventsInv, GoodEvent, Ids, CompletedBefore, EventsOf
<1>3. \A n : SignalsUpTo(n) = SignalsOf(history, n) /\ InFlight(n) = FlightOf(history, n)
             /\ StateAfter(n) = StateOf(history, n)
  BY DEF SignalsUpTo, SignalsOf, InFlight, FlightOf, StateAfter, StateOf, Moves, Ids
<1>4. \A i : IsRecorded(i) <=> RecordedIn(history, i)
  BY DEF IsRecorded, RecordedIn, IsNewest, Ids
<1>5. StateInv <=> \A i \in DOMAIN history : RecordedIn(history, i) =>
        GoodState(history, prevStarted, i) /\ (task.status = "started" => i <= task.started)
  BY <1>3, <1>4 DEF StateInv, GoodState, Ids
<1>6. StreamInv <=> \A i \in DOMAIN history : RecordedIn(history, i) =>
        GoodStream(history, stream, run, i)
  BY <1>4 DEF StreamInv, GoodStream, Ids
<1>7. WorkIsScheduled <=> \A i \in DOMAIN history : GoodWork(history, prevStarted, i)
  BY DEF WorkIsScheduled, GoodWork, ScheduledFor, Ids
<1>8. RefusedForNewsOnly <=> \A j \in DOMAIN history : GoodRefusal(history, j)
  BY DEF RefusedForNewsOnly, GoodRefusal, MissedEvents, MissedIn, NewsIn, CompletedBefore,
         EventsOf, Ids
<1> QED BY <1>1, <1>2, <1>5, <1>6, <1>7, <1>8 DEF InvForm

LEMMA InvIsNext ==
  /\ StartInv' <=> GoodStart(history')
  /\ EventsInv' <=> \A i \in DOMAIN history' : GoodEvent(history', prevStarted', i)
  /\ StateInv' <=> \A i \in DOMAIN history' : RecordedIn(history', i) =>
       /\ GoodState(history', prevStarted', i)
       /\ task'.status = "started" => i <= task'.started
  /\ StreamInv' <=> \A i \in DOMAIN history' : RecordedIn(history', i) =>
       GoodStream(history', stream', run', i)
  /\ WorkIsScheduled' <=> \A i \in DOMAIN history' : GoodWork(history', prevStarted', i)
  /\ RefusedForNewsOnly' <=> \A j \in DOMAIN history' : GoodRefusal(history', j)
<1>1. InvForm'
  BY InvIs, PTL
<1> QED BY <1>1 DEF InvForm

(* A history that only grows keeps what is known of its first events.      *)
Grows(h, g) ==
  /\ h \in Seq(HistoryEvent) /\ g \in Seq(HistoryEvent)
  /\ Len(h) <= Len(g) /\ \A i \in 1..Len(h) : g[i] = h[i]

LEMMA GrowsIds ==
  ASSUME NEW h, NEW g, Grows(h, g)
  PROVE  /\ Len(h) \in Nat /\ Len(g) \in Nat /\ DOMAIN h = 1..Len(h) /\ DOMAIN g = 1..Len(g)
         /\ DOMAIN h \subseteq DOMAIN g /\ \A i \in DOMAIN h : g[i] = h[i]
         /\ \A i \in DOMAIN g \ DOMAIN h : i > Len(h) /\ i \in Nat
  BY DEF Grows

LEMMA KeptUpTo ==
  ASSUME NEW h, NEW g, Grows(h, g), NEW n \in Nat, n <= Len(h), h # <<>>
  PROVE  /\ SignalsOf(g, n) = SignalsOf(h, n) /\ FlightOf(g, n) = FlightOf(h, n)
         /\ StateOf(g, n) = StateOf(h, n)
<1>1. /\ \A i \in DOMAIN g : i <= n => i \in DOMAIN h
      /\ \A i \in DOMAIN h : i \in DOMAIN g /\ g[i] = h[i]
      /\ g[1] = h[1]
  BY GrowsIds DEF Grows
<1>2. SignalsOf(g, n) = SignalsOf(h, n)
  BY <1>1 DEF SignalsOf
<1>3. FlightOf(g, n) = FlightOf(h, n)
  BY <1>1 DEF FlightOf
<1>4. StateOf(g, n) = StateOf(h, n)
  BY <1>1 DEF StateOf
<1> QED BY <1>2, <1>3, <1>4

LEMMA KeptBefore ==
  ASSUME NEW h, NEW g, Grows(h, g), NEW j \in DOMAIN h
  PROVE  CompletedBefore(g, j) = CompletedBefore(h, j) /\ (NewsIn(h, j) => NewsIn(g, j))
<1>1. /\ \A i \in DOMAIN g : i < j => i \in DOMAIN h
      /\ \A i \in DOMAIN h : i \in DOMAIN g /\ g[i] = h[i]
  BY GrowsIds
<1>2. CompletedBefore(g, j) = CompletedBefore(h, j)
  BY <1>1 DEF CompletedBefore, EventsOf
<1>3. NewsIn(h, j) => NewsIn(g, j)
  BY <1>1 DEF NewsIn, EventsOf
<1> QED BY <1>2, <1>3

LEMMA LastCompleted ==
  ASSUME NEW h \in Seq(HistoryEvent), NEW j \in DOMAIN h, CompletedBefore(h, j) # {},
         GoodStart(h)
  PROVE  LET c == Max(CompletedBefore(h, j))
         IN  c \in CompletedBefore(h, j) /\ (\A k \in CompletedBefore(h, j) : k <= c)
             /\ c \in DOMAIN h /\ c - 1 \in DOMAIN h
<1> DEFINE S == CompletedBefore(h, j)
           c == Max(S)
<1>1. S \in SUBSET (1..Len(h)) /\ Len(h) \in Nat /\ DOMAIN h = 1..Len(h)
      /\ \A k \in S : h[k].type = "DecisionTaskCompleted"
  BY DEF CompletedBefore, EventsOf
<1> HIDE DEF S
<1>2. IsNewest(c, S)
  BY <1>1, MaxIsNewest DEF S
<1> HIDE DEF c
<1>3. c \in S /\ (\A k \in S : k <= c) /\ c \in 1..Len(h) /\ c # 1
  BY <1>1, <1>2 DEF IsNewest, GoodStart
<1>4. c - 1 \in 1..Len(h)
  BY <1>1, <1>3
<1> QED BY <1>1, <1>3, <1>4 DEF S, c

LEMMA RefusalKept ==
  ASSUME NEW h, NEW g, Grows(h, g), GoodStart(h), NEW j \in DOMAIN h, NEW prev,
         GoodEvent(h, prev, j), GoodRefusal(h, j)
  PROVE  GoodRefusal(g, j)
<1> SUFFICES ASSUME h[j].type = "ContinueAsNewWorkflowExecutionFailed"
             PROVE  MissedIn(g, j) \/ NewsIn(g, j)
  BY GrowsIds DEF GoodRefusal
<1>1. CASE NewsIn(h, j)
  BY <1>1, KeptBefore
<1>2. CASE MissedIn(h, j)
  <2> DEFINE c == Max(CompletedBefore(h, j))
  <2>1. h \in Seq(HistoryEvent) /\ CompletedBefore(h, j) # {}
    BY DEF Grows, GoodEvent
  <2>2. c - 1 \in DOMAIN h
    BY <2>1, LastCompleted
  <2>3. g[c - 1] = h[c - 1] /\ Max(CompletedBefore(g, j)) = c
    BY <2>2, GrowsIds, KeptBefore
  <2>4. h[c - 1].type # "DecisionTaskStarted"
    BY <1>2 DEF MissedIn
  <2> QED BY <2>3, <2>4 DEF MissedIn
<1> QED BY <1>1, <1>2 DEF GoodRefusal

LEMMA EventKept ==
  ASSUME NEW h, NEW g, Grows(h, g), NEW j \in DOMAIN h, NEW prev \in Nat, NEW next \in Nat,
         prev <= next, GoodEvent(h, prev, j)
  PROVE  GoodEvent(g, next, j)
<1>1. g[j] = h[j] /\ h[j].ref \in Nat
  BY GrowsIds, Ref DEF Grows
<1>2. CompletedBefore(g, j) = CompletedBefore(h, j)
  BY KeptBefore
<1> QED BY <1>1, <1>2 DEF GoodEvent

LEMMA WorkKept ==
  ASSUME NEW h, NEW g, Grows(h, g), NEW i \in DOMAIN h, NEW prev, GoodWork(h, prev, i),
         \A j \in DOMAIN g \ DOMAIN h : g[j].type = "ActivityTaskScheduled" => g[j].ref # i
  PROVE  GoodWork(g, prev, i)
<1>1. /\ DOMAIN h \subseteq DOMAIN g /\ \A j \in DOMAIN h : g[j] = h[j]
  BY GrowsIds
<1>2. ScheduledFor(g, i) = ScheduledFor(h, i)
  BY <1>1 DEF ScheduledFor, EventsOf
<1> QED BY <1>1, <1>2 DEF GoodWork

LEMMA StartKept ==
  ASSUME NEW h, NEW g, Grows(h, g), GoodStart(h),
         \A i \in DOMAIN g \ DOMAIN h : g[i].type # "WorkflowExecutionStarted"
  PROVE  GoodStart(g) /\ h # <<>> /\ 1 \in DOMAIN h /\ g[1] = h[1]
<1>1. 1 \in DOMAIN h
  BY GrowsIds DEF GoodStart
<1> QED BY <1>1, GrowsIds DEF GoodStart

LEMMA StateKept ==
  ASSUME NEW h, NEW g, Grows(h, g), GoodStart(h), NEW prev \in Nat, prev <= Len(h),
         NEW i \in DOMAIN h, GoodState(h, prev, i)
  PROVE  GoodState(g, prev, i)
<1>1. g[i] = h[i] /\ g[1] = h[1] /\ h # <<>>
  BY GrowsIds DEF GoodStart
<1>2. /\ SignalsOf(g, prev) = SignalsOf(h, prev) /\ FlightOf(g, prev) = FlightOf(h, prev)
      /\ StateOf(g, prev) = StateOf(h, prev)
  BY <1>1, KeptUpTo
<1> QED BY <1>1, <1>2 DEF GoodState

LEMMA RecordedKept ==
  ASSUME NEW h, NEW g, Grows(h, g), NEW i, RecordedIn(g, i),
         \A j \in DOMAIN g \ DOMAIN h : ~HoldsState(g[j])
  PROVE  RecordedIn(h, i) /\ i \in DOMAIN h
<1>1. /\ DOMAIN h \subseteq DOMAIN g /\ \A j \in DOMAIN h : g[j] = h[j]
  BY GrowsIds
<1> QED BY <1>1 DEF RecordedIn, IsNewest

Quiet(e, i) ==
  /\ ~HoldsState(e)
  /\ e.type \notin {"ActivityTaskScheduled", "ContinueAsNewWorkflowExecutionFailed",
                    "SignalExternalWorkflowExecutionInitiated"}
  /\ Closed(e) => e.ref < i

LEMMA QuietGrowth ==
  ASSUME IInv, TypeOK', TaskInv', Grows(history, history'),
         \A i \in DOMAIN history' \ DOMAIN history : Quiet(history'[i], i),
         prevStarted' = prevStarted, run' = run, stream' = stream,
         task'.status = "started" => task' = task \/ task'.started > Len(history)
  PROVE  IInv'
<1>1. /\ GoodStart(history)
      /\ \A i \in DOMAIN history : /\ GoodEvent(history, prevStarted, i)
                                   /\ GoodWork(history, prevStarted, i)
                                   /\ GoodRefusal(history, i)
      /\ \A i \in DOMAIN history : RecordedIn(history, i) =>
           /\ GoodState(history, prevStarted, i) /\ GoodStream(history, stream, run, i)
           /\ task.status = "started" => i <= task.started
  BY InvIs DEF IInv, RunInv, InvForm
<1>2. /\ prevStarted \in Nat /\ prevStarted <= Len(history) /\ Len(history) \in Nat
      /\ DOMAIN history = 1..Len(history)
  BY Typed DEF IInv, RunInv, TaskInv
<1>3. VersionsNeverGoBack'
  BY DEF IInv, RunInv, VersionsNeverGoBack
<1>4. \A i \in DOMAIN history' \ DOMAIN history :
        /\ ~HoldsState(history'[i])
        /\ history'[i].type \notin {"ActivityTaskScheduled", "WorkflowExecutionStarted",
             "ContinueAsNewWorkflowExecutionFailed", "SignalExternalWorkflowExecutionInitiated"}
        /\ Closed(history'[i]) => history'[i].ref < i
  BY DEF Quiet, HoldsState
<1>5. GoodStart(history')
  BY <1>1, <1>4, StartKept
<1>6. ASSUME NEW i \in DOMAIN history'
      PROVE  /\ GoodEvent(history', prevStarted', i)
             /\ GoodWork(history', prevStarted', i)
             /\ GoodRefusal(history', i)
  <2>1. CASE i \in DOMAIN history
    <3>1. GoodEvent(history', prevStarted, i)
      <4>1. GoodEvent(history, prevStarted, i) /\ prevStarted \in Nat /\ prevStarted <= prevStarted
        BY <1>1, <1>2, <2>1
      <4> QED BY <2>1, <4>1, EventKept
    <3>2. GoodWork(history', prevStarted, i)
      BY <1>1, <1>4, <2>1, WorkKept
    <3>3. GoodRefusal(history', i)
      BY <1>1, <2>1, RefusalKept
    <3> QED BY <3>1, <3>2, <3>3
  <2>2. CASE i \notin DOMAIN history
    <3>1. ~(i <= prevStarted')
      BY <1>2, <2>2, GrowsIds
    <3> QED BY <1>4, <2>2, <3>1 DEF GoodEvent, GoodWork, GoodRefusal
  <2> QED BY <2>1, <2>2
<1>7. ASSUME NEW i \in DOMAIN history', RecordedIn(history', i)
      PROVE  /\ GoodState(history', prevStarted', i) /\ GoodStream(history', stream', run', i)
             /\ task'.status = "started" => i <= task'.started
  <2>1. RecordedIn(history, i) /\ i \in DOMAIN history
    BY <1>4, <1>7, RecordedKept
  <2>2. GoodState(history', prevStarted, i)
    BY <1>1, <1>2, <2>1, StateKept
  <2>3. GoodStream(history', stream, run, i)
    BY <1>1, <2>1, GrowsIds DEF GoodStream
  <2>4. task'.status = "started" => i <= task'.started
    <3>1. CASE task' = task
      BY <1>1, <2>1, <3>1
    <3>2. CASE task'.started > Len(history)
      <4>1. task'.started \in Nat
        BY DEF TypeOK, ServiceTypeOK
      <4> QED BY <1>2, <2>1, <3>2, <4>1
    <3> QED BY <3>1, <3>2
  <2> QED BY <2>2, <2>3, <2>4
<1>8. StartInv' /\ EventsInv' /\ StateInv' /\ StreamInv' /\ WorkIsScheduled' /\ RefusedForNewsOnly'
  BY <1>5, <1>6, <1>7, InvIsNext
<1> QED BY <1>3, <1>8 DEF IInv, RunInv

(* Events that begin and complete no decision task either.                 *)
Calm(e, i) ==
  Quiet(e, i) /\ e.type \notin {"DecisionTaskStarted", "DecisionTaskCompleted"}

LEMMA CalmGrowth ==
  ASSUME IInv, TypeOK', Grows(history, history'),
         \A i \in DOMAIN history' \ DOMAIN history : Calm(history'[i], i),
         prevStarted' = prevStarted, run' = run, stream' = stream,
         task' = task \/ task'.status # "started"
  PROVE  IInv'
<1>1. \A i \in DOMAIN history' \ DOMAIN history : Quiet(history'[i], i)
  BY DEF Calm
<1>2. TaskInv'
  <2>1. /\ prevStarted \in Nat /\ prevStarted <= Len(history) /\ Len(history) \in Nat
        /\ Len(history') \in Nat /\ Len(history) <= Len(history')
    BY Typed, GrowsIds DEF IInv, RunInv, TaskInv, Grows
  <2>2. prevStarted' \in 0..Len(history')
    BY <2>1
  <2>3. ASSUME task'.status = "started"
        PROVE  /\ task'.started \in Ids' /\ prevStarted' < task'.started
               /\ \A k \in Ids' : k > task'.started =>
                    /\ history'[k].type \notin {"DecisionTaskStarted", "DecisionTaskCompleted"}
                    /\ ~HoldsState(history'[k])
    <3>1. /\ task' = task /\ task.started \in Ids /\ prevStarted < task.started
          /\ \A k \in Ids : k > task.started =>
               /\ history[k].type \notin {"DecisionTaskStarted", "DecisionTaskCompleted"}
               /\ ~HoldsState(history[k])
      BY <2>3 DEF IInv, RunInv, TaskInv
    <3>2. /\ Ids = DOMAIN history /\ Ids' = DOMAIN history' /\ Ids \subseteq Ids'
          /\ \A k \in Ids : history'[k] = history[k]
      BY GrowsIds DEF Ids
    <3>3. \A k \in Ids' : k \notin Ids =>
            /\ history'[k].type \notin {"DecisionTaskStarted", "DecisionTaskCompleted"}
            /\ ~HoldsState(history'[k])
      BY <3>2 DEF Calm, Quiet
    <3> QED BY <3>1, <3>2, <3>3
  <2> QED BY <2>2, <2>3 DEF TaskInv
<1>3. task'.status = "started" => task' = task \/ task'.started > Len(history)
  OBVIOUS
<1> QED BY <1>1, <1>2, <1>3, QuietGrowth

LEMMA Growing ==
  ASSUME NEW h \in Seq(HistoryEvent), NEW xs \in Seq(HistoryEvent)
  PROVE  /\ Grows(h, h \o xs)
         /\ \A i \in DOMAIN (h \o xs) \ DOMAIN h :
              \E k \in 1..Len(xs) : (h \o xs)[i] = xs[k] /\ i > Len(h) /\ i \in Nat
<1> DEFINE g == h \o xs
<1>1. /\ g \in Seq(HistoryEvent) /\ Len(g) = Len(h) + Len(xs)
      /\ Len(h) \in Nat /\ Len(xs) \in Nat
  BY ConcatProperties
<1>2. \A i \in 1..Len(h) + Len(xs) : g[i] = IF i <= Len(h) THEN h[i] ELSE xs[i - Len(h)]
  BY ConcatProperties
<1> HIDE DEF g
<1>3. Grows(h, g)
  BY <1>1, <1>2 DEF Grows
<1>4. ASSUME NEW i \in DOMAIN g \ DOMAIN h
      PROVE  \E k \in 1..Len(xs) : g[i] = xs[k] /\ i > Len(h) /\ i \in Nat
  <2>1. i \in 1..Len(g) /\ i > Len(h)
    BY <1>3, <1>4, GrowsIds
  <2>2. i - Len(h) \in 1..Len(xs) /\ g[i] = xs[i - Len(h)]
    BY <1>1, <1>2, <2>1
  <2> QED BY <1>1, <2>1, <2>2
<1> QED BY <1>3, <1>4 DEF g

(* The environment adds calm events.                                       *)
CalmEvents(es) ==
  /\ es \in Seq(HistoryEvent)
  /\ \A k \in 1..Len(es) : \A i \in Nat : i > Len(history) => Calm(es[k], i)

LEMMA SchedulingIs ==
  ASSUME NEW es \in Seq(HistoryEvent)
  PROVE  /\ es \o Scheduling \in Seq(HistoryEvent)
         /\ \A k \in 1..Len(es \o Scheduling) :
              \/ \E l \in 1..Len(es) : (es \o Scheduling)[k] = es[l]
              \/ (es \o Scheduling)[k] = Event("DecisionTaskScheduled", "", 0)
<1> DEFINE e == Event("DecisionTaskScheduled", "", 0)
           S == Scheduling
           xs == es \o S
<1>1. e \in HistoryEvent
  BY EventType DEF EventTypes, Labels
<1>2. S \in Seq(HistoryEvent) /\ \A k \in 1..Len(S) : S[k] = e
  <2>1. S = One(e) \/ S = Nothing
    BY DEF Scheduling, One, Nothing
  <2> HIDE DEF S, e
  <2>2. CASE S = One(e)
    BY <1>1, <2>2, OneOf
  <2>3. CASE S = Nothing
    BY <2>3 DEF Nothing
  <2> QED BY <2>1, <2>2, <2>3
<1> HIDE DEF S, e
<1>3. /\ xs \in Seq(HistoryEvent) /\ Len(xs) = Len(es) + Len(S) /\ Len(es) \in Nat
      /\ Len(S) \in Nat
  BY <1>2, ConcatProperties
<1>4. \A i \in 1..Len(es) + Len(S) : xs[i] = IF i <= Len(es) THEN es[i] ELSE S[i - Len(es)]
  BY <1>2, ConcatProperties
<1> HIDE DEF xs
<1>5. ASSUME NEW k \in 1..Len(xs)
      PROVE  (\E l \in 1..Len(es) : xs[k] = es[l]) \/ xs[k] = e
  <2>1. CASE k <= Len(es)
    BY <1>3, <1>4, <2>1
  <2>2. CASE k > Len(es)
    <3>1. k - Len(es) \in 1..Len(S) /\ xs[k] = S[k - Len(es)]
      BY <1>3, <1>4, <2>2
    <3> QED BY <1>2, <3>1
  <2> QED BY <1>3, <2>1, <2>2
<1> QED BY <1>3, <1>5 DEF xs, S, e

LEMMA AddEventsCalm ==
  ASSUME IInv, NEW es, CalmEvents(es), AddEvents(es), run' = run, stream' = stream,
         sent' \in 0..Len(Requests)
  PROVE  IInv'
<1> DEFINE xs == es \o Scheduling
<1>1. TypeOK /\ history \in Seq(HistoryEvent) /\ Len(history) \in Nat
  BY Typed DEF IInv, RunInv
<1>2. /\ history' = history \o xs /\ prevStarted' = prevStarted /\ open' = open
      /\ task' = IF task.status = "none" THEN ScheduledTask ELSE task
  BY DEF AddEvents
<1>3. /\ xs \in Seq(HistoryEvent)
      /\ \A k \in 1..Len(xs) : (\E l \in 1..Len(es) : xs[k] = es[l])
                               \/ xs[k] = Event("DecisionTaskScheduled", "", 0)
  BY SchedulingIs DEF CalmEvents
<1>4. \A i : Calm(Event("DecisionTaskScheduled", "", 0), i)
  BY DEF Calm, Quiet, Event, HoldsState, isStateMarker, Closed, ActivityClosed
<1> HIDE DEF xs
<1>5. \A k \in 1..Len(xs) : \A i \in Nat : i > Len(history) => Calm(xs[k], i)
  BY <1>3, <1>4 DEF CalmEvents
<1>6. /\ Grows(history, history')
      /\ \A i \in DOMAIN history' \ DOMAIN history :
           \E k \in 1..Len(xs) : history'[i] = xs[k] /\ i > Len(history) /\ i \in Nat
  <2> DEFINE g == history \o xs
  <2>1. history \in Seq(HistoryEvent) /\ xs \in Seq(HistoryEvent)
    BY <1>1, <1>3
  <2>2. /\ Grows(history, g)
        /\ \A i \in DOMAIN g \ DOMAIN history :
             \E k \in 1..Len(xs) : g[i] = xs[k] /\ i > Len(history) /\ i \in Nat
    BY <2>1, Growing
  <2>3. history' = g
    BY <1>2
  <2> HIDE DEF g
  <2> QED BY <2>2, <2>3
<1>7. \A i \in DOMAIN history' \ DOMAIN history : Calm(history'[i], i)
  BY <1>5, <1>6
<1>8. ScheduledTask \in [status : TaskStatus, started : Nat] /\ ScheduledTask.status # "started"
  BY DEF ScheduledTask, TaskStatus
<1>9. task' = task \/ task'.status # "started"
  BY <1>2, <1>8
<1>10. TypeOK'
  BY <1>1, <1>2, <1>6, <1>8 DEF TypeOK, ServiceTypeOK, Grows
<1> QED BY <1>2, <1>6, <1>7, <1>9, <1>10, CalmGrowth

LEMMA OneCalm ==
  ASSUME NEW e \in HistoryEvent, \A i \in Nat : i > Len(history) => Calm(e, i)
  PROVE  CalmEvents(<<e>>)
<1>1. <<e>> \in Seq(HistoryEvent) /\ \A k \in 1..Len(<<e>>) : <<e>>[k] = e
  BY Singleton
<1> DEFINE es == <<e>>
<1> HIDE DEF es
<1>2. CalmEvents(es)
  BY <1>1 DEF CalmEvents, es
<1> QED BY <1>2 DEF es

LEMMA SignalInv ==
  ASSUME IInv, Signal
  PROVE  IInv'
<1>1. /\ sent < Len(Requests) /\ sent' = sent + 1 /\ run' = run /\ stream' = stream
  BY DEF Signal
<1>2. sent \in Nat /\ Len(Requests) \in Nat /\ sent' \in 0..Len(Requests)
      /\ sent + 1 \in 1..Len(Requests)
  BY <1>1, Typed DEF IInv, RunInv
<1>3. PICK request \in Requests[sent + 1] :
        AddEvents(<<Event("WorkflowExecutionSignaled", request, sent + 1)>>)
  BY DEF Signal
<1>4. request \in Labels
  <2>1. Requests[sent + 1] \in SUBSET (UserLabels \cup {ContinueSignal})
    BY <1>2, RequestsAssumption
  <2> QED BY <2>1 DEF Labels
<1> DEFINE e == Event("WorkflowExecutionSignaled", request, sent + 1)
<1>5. e \in HistoryEvent
  BY <1>2, <1>4, EventType DEF EventTypes
<1>6. \A i : Calm(e, i)
  BY DEF Calm, Quiet, Event, HoldsState, isStateMarker, Closed, ActivityClosed
<1> HIDE DEF e
<1>7. CalmEvents(<<e>>)
  BY <1>5, <1>6, OneCalm
<1> QED BY <1>1, <1>2, <1>3, <1>7, AddEventsCalm DEF e

LEMMA ActivityClosesInv ==
  ASSUME IInv, ActivityCloses
  PROVE  IInv'
<1>1. run' = run /\ stream' = stream /\ sent' = sent
  BY DEF ActivityCloses
<1>2. PICK j \in DOMAIN history, type \in Closings : CloseActivity(j, type)
  BY DEF ActivityCloses
<1> DEFINE e == Event(type, "", j)
<1>3. AddEvents(<<e>>)
  BY <1>2 DEF CloseActivity
<1>4. j \in Nat /\ j <= Len(history) /\ Len(history) \in Nat /\ sent' \in 0..Len(Requests)
  BY <1>1, Typed DEF IInv, RunInv, Ids
<1>5. type \in ActivityClosed
  BY ClosingsAssumption
<1>6. e \in HistoryEvent
  BY <1>4, <1>5, EventType DEF EventTypes, Labels, ActivityClosed
<1>7. e.type = type /\ e.ref = j
  BY DEF Event
<1> HIDE DEF e
<1>8. ASSUME NEW i \in Nat, i > Len(history)
      PROVE  Calm(e, i)
  BY <1>4, <1>5, <1>7, <1>8 DEF Calm, Quiet, HoldsState, isStateMarker, ActivityClosed
<1>9. CalmEvents(<<e>>)
  BY <1>6, <1>8, OneCalm
<1> QED BY <1>1, <1>3, <1>4, <1>9, AddEventsCalm

LEMMA TimerFiresInv ==
  ASSUME IInv, TimerFires
  PROVE  IInv'
<1> DEFINE e == Event("TimerFired", ContinueTimer, 0)
<1>1. run' = run /\ stream' = stream /\ sent' = sent /\ AddEvents(<<e>>)
  BY DEF TimerFires
<1>2. sent' \in 0..Len(Requests)
  BY <1>1, Typed DEF IInv, RunInv
<1>3. e \in HistoryEvent
  <2>1. ContinueTimer \in Labels
    BY DEF Labels, ContinueTimer, ContinueSignal
  <2> QED BY <2>1, EventType DEF EventTypes
<1>4. \A i : Calm(e, i)
  BY DEF Calm, Quiet, Event, HoldsState, isStateMarker, Closed, ActivityClosed
<1> HIDE DEF e
<1>5. CalmEvents(<<e>>)
  BY <1>3, <1>4, OneCalm
<1> QED BY <1>1, <1>2, <1>5, AddEventsCalm

LEMMA ContinueSignalArrivesInv ==
  ASSUME IInv, ContinueSignalArrives
  PROVE  IInv'
<1>1. run' = run /\ stream' = stream /\ sent' = sent
  BY DEF ContinueSignalArrives
<1>2. PICK j : j \in DOMAIN history /\ DeliverSignal(j)
  BY DEF ContinueSignalArrives, EventsOf
<1> DEFINE d == [history[j] EXCEPT !.type = "WorkflowExecutionSignaled"]
           e == Event("ExternalWorkflowExecutionSignaled", "", j)
           es == <<d, e>>
<1>3. AddEvents(es)
  BY <1>2 DEF DeliverSignal
<1>4. history[j] \in HistoryEvent /\ j \in Nat /\ sent' \in 0..Len(Requests)
  BY <1>1, <1>2, Typed DEF IInv, RunInv, Ids
<1>5. d \in HistoryEvent /\ d.type = "WorkflowExecutionSignaled"
  BY <1>4 DEF HistoryEvent, EventTypes
<1>6. e \in HistoryEvent /\ e.type = "ExternalWorkflowExecutionSignaled"
  <2>1. e \in HistoryEvent
    BY <1>4, EventType DEF EventTypes, Labels
  <2> QED BY <2>1 DEF Event
<1> HIDE DEF d, e
<1>7. \A i : Calm(d, i) /\ Calm(e, i)
  BY <1>5, <1>6 DEF Calm, Quiet, HoldsState, isStateMarker, Closed, ActivityClosed
<1>8. es \in Seq(HistoryEvent) /\ \A k \in 1..Len(es) : es[k] = d \/ es[k] = e
  BY <1>5, <1>6
<1> HIDE DEF es
<1>9. CalmEvents(es)
  BY <1>7, <1>8 DEF CalmEvents
<1> QED BY <1>1, <1>3, <1>4, <1>9, AddEventsCalm

LEMMA PollForTaskInv ==
  ASSUME IInv, PollForTask
  PROVE  IInv'
<1> DEFINE e == Event("DecisionTaskStarted", "", 0)
<1>1. /\ history' = Append(history, e) /\ task' = StartedTask(Len(history) + 1)
      /\ prevStarted' = prevStarted /\ open' = open /\ run' = run /\ sent' = sent
      /\ stream' = stream
  BY DEF PollForTask, StartTask
<1>2. TypeOK /\ history \in Seq(HistoryEvent) /\ Len(history) \in Nat /\ prevStarted \in Nat
      /\ prevStarted <= Len(history)
  BY Typed DEF IInv, RunInv, TaskInv
<1>3. e \in HistoryEvent
  BY EventType DEF EventTypes, Labels
<1>4. \A i : Quiet(e, i)
  BY DEF Quiet, Event, HoldsState, isStateMarker, Closed, ActivityClosed
<1> HIDE DEF e
<1>5. /\ history' \in Seq(HistoryEvent) /\ Len(history') = Len(history) + 1
      /\ \A i \in 1..Len(history) : history'[i] = history[i]
      /\ history'[Len(history) + 1] = e
  BY <1>1, <1>2, <1>3, AppendFacts
<1>6. Grows(history, history')
  BY <1>2, <1>5 DEF Grows
<1>7. \A i \in DOMAIN history' \ DOMAIN history : Quiet(history'[i], i)
  <2>1. \A i \in DOMAIN history' \ DOMAIN history : i = Len(history) + 1
    BY <1>2, <1>5, <1>6, GrowsIds
  <2> QED BY <1>4, <1>5, <2>1
<1>8. /\ task' \in [status : TaskStatus, started : Nat]
      /\ task'.status = "started" /\ task'.started = Len(history) + 1
  BY <1>1, <1>2 DEF StartedTask, TaskStatus
<1>9. TypeOK'
  BY <1>1, <1>2, <1>5, <1>8 DEF TypeOK, ServiceTypeOK
<1>10. TaskInv'
  <2>1. Ids' = 1..(Len(history) + 1)
    BY <1>5 DEF Ids
  <2>2. \A k \in Ids' : ~(k > task'.started)
    BY <1>2, <1>8, <2>1
  <2>3. task'.started \in Ids' /\ prevStarted' < task'.started
        /\ prevStarted' \in 0..Len(history')
    BY <1>1, <1>2, <1>5, <1>8, <2>1
  <2> QED BY <2>2, <2>3 DEF TaskInv
<1>11. task'.started > Len(history)
  BY <1>2, <1>8
<1> QED BY <1>1, <1>6, <1>7, <1>9, <1>10, <1>11, QuietGrowth

-----------------------------------------------------------------------------
(* A run that goes on: the events that its answered decision task brings.   *)
GrownBy(s, ds, g, unhandled) ==
  /\ Grows(history, g)
  /\ Len(history) + 2 + Len(ds) <= Len(g)
  /\ g[Len(history) + 1].type = "DecisionTaskCompleted"
  /\ isStateMarker(g[Len(history) + 2]) /\ g[Len(history) + 2].state = s
  /\ \A k \in 1..Len(ds) : /\ ResultOf(ds[k], g[Len(history) + 2 + k])
                           /\ Refusable(ds[k], unhandled, g, Len(history) + 1 + k)
  /\ \A j \in DOMAIN g \ DOMAIN history :
       \/ j = Len(history) + 1 \/ j = Len(history) + 2
       \/ \E k \in 1..Len(ds) : j = Len(history) + 2 + k
       \/ g[j].type = "DecisionTaskScheduled"

LEMMA GrownGrows ==
  ASSUME TypeOK, NEW s \in SerializedState, NEW ds \in Seq(Decision), NEW unhandled,
         NEW h, Grown(h, Response(s, ds), Len(ds) + 1, unhandled)
  PROVE  GrownBy(s, ds, h, unhandled)
<1> DEFINE L == Len(history)
           D == Response(s, ds)
<1>1. L \in Nat /\ DOMAIN history = 1..L /\ history \in Seq(HistoryEvent) /\ Ids = 1..L
  BY Typed DEF Ids
<1>2. /\ Len(ds) \in Nat /\ D[1] = Marker(s) /\ \A k \in 1..Len(ds) : D[k + 1] = ds[k]
  BY ResponseIs
<1> HIDE DEF D
<1>3. /\ h \in Seq(HistoryEvent) /\ Len(h) = L + 1 + (Len(ds) + 1)
      /\ \A i \in 1..L : h[i] = history[i]
  BY <1>1 DEF Grown
<1>10. h[L + 1] = Event("DecisionTaskCompleted", "", 0)
  BY DEF Grown
<1>11. \A k \in 1..(Len(ds) + 1) : /\ ResultOf(D[k], h[L + 1 + k])
                                   /\ Refusable(D[k], unhandled, h, L + k)
  BY DEF Grown, D
<1>4. Grows(history, h)
  BY <1>1, <1>2, <1>3 DEF Grows
<1>5. h[L + 1].type = "DecisionTaskCompleted"
  <2>1. Event("DecisionTaskCompleted", "", 0).type = "DecisionTaskCompleted"
    BY DEF Event
  <2> QED BY <1>10, <2>1
<1>6. isStateMarker(h[L + 2]) /\ h[L + 2].state = s
  <2>1. ResultOf(Marker(s), h[L + 2])
    <3>1. 1 \in 1..(Len(ds) + 1) /\ L + 1 + 1 = L + 2
      BY <1>1, <1>2
    <3> QED BY <1>2, <1>11, <3>1
  <2> QED BY <2>1, MarkerType DEF ResultOf, isStateMarker
<1>7. ASSUME NEW k \in 1..Len(ds)
      PROVE  ResultOf(ds[k], h[L + 2 + k]) /\ Refusable(ds[k], unhandled, h, L + 1 + k)
  <2>1. k + 1 \in 1..(Len(ds) + 1) /\ L + 1 + (k + 1) = L + 2 + k /\ L + (k + 1) = L + 1 + k
    BY <1>1, <1>2
  <2> QED BY <1>2, <1>11, <2>1
<1>8. \A j \in DOMAIN h \ DOMAIN history :
        j = L + 1 \/ j = L + 2 \/ \E k \in 1..Len(ds) : j = L + 2 + k
  <2> TAKE j \in DOMAIN h \ DOMAIN history
  <2>1. j \in Nat /\ L < j /\ j <= L + 1 + (Len(ds) + 1)
    BY <1>1, <1>2, <1>3
  <2>2. j = L + 1 \/ j = L + 2 \/ (j - (L + 2) \in 1..Len(ds) /\ j = L + 2 + (j - (L + 2)))
    BY <1>1, <1>2, <2>1
  <2> QED BY <2>2
<1>9. L + 2 + Len(ds) <= Len(h)
  BY <1>1, <1>2, <1>3
<1> QED BY <1>4, <1>5, <1>6, <1>7, <1>8, <1>9 DEF GrownBy

LEMMA GrownAndScheduled ==
  ASSUME TypeOK, NEW s, NEW ds \in Seq(Decision), NEW unhandled, NEW h,
         GrownBy(s, ds, h, unhandled), NEW e \in HistoryEvent,
         e.type = "DecisionTaskScheduled"
  PROVE  GrownBy(s, ds, Append(h, e), unhandled)
<1> DEFINE L == Len(history)
           g == Append(h, e)
<1>1. /\ L \in Nat /\ DOMAIN history = 1..L /\ Len(ds) \in Nat
      /\ h \in Seq(HistoryEvent) /\ Len(h) \in Nat /\ DOMAIN h = 1..Len(h)
      /\ L + 2 + Len(ds) <= Len(h)
  BY Typed DEF Ids, GrownBy, Grows
<1>2. /\ g \in Seq(HistoryEvent) /\ Len(g) = Len(h) + 1
      /\ \A i \in 1..Len(h) : g[i] = h[i]
      /\ g[Len(h) + 1] = e
  BY <1>1, AppendFacts
<1> HIDE DEF g
<1>10. DOMAIN g = 1..(Len(h) + 1)
  BY <1>2
<1>3. Grows(history, g)
  BY <1>1, <1>2 DEF GrownBy, Grows
<1>4. g[L + 1] = h[L + 1] /\ g[L + 2] = h[L + 2]
  <2>1. L + 1 \in 1..Len(h) /\ L + 2 \in 1..Len(h)
    BY <1>1
  <2> QED BY <1>2, <2>1
<1>5. ASSUME NEW k \in 1..Len(ds)
      PROVE  ResultOf(ds[k], g[L + 2 + k]) /\ Refusable(ds[k], unhandled, g, L + 1 + k)
  <2>1. L + 2 + k \in 1..Len(h) /\ 1..(L + 1 + k) \subseteq 1..Len(h)
    BY <1>1
  <2>2. ResultOf(ds[k], h[L + 2 + k]) /\ Refusable(ds[k], unhandled, h, L + 1 + k)
    BY DEF GrownBy
  <2>3. NewsAfter(h, L + 1 + k, ds[k].ref) => NewsAfter(g, L + 1 + k, ds[k].ref)
    BY <1>2, <2>1 DEF NewsAfter
  <2> QED BY <1>2, <2>1, <2>2, <2>3 DEF Refusable
<1>6. ASSUME NEW j \in DOMAIN g \ DOMAIN history
      PROVE  \/ j = L + 1 \/ j = L + 2 \/ \E k \in 1..Len(ds) : j = L + 2 + k
             \/ g[j].type = "DecisionTaskScheduled"
  <2>1. j = Len(h) + 1 \/ j \in 1..Len(h)
    BY <1>1, <1>10
  <2> QED BY <1>1, <1>2, <2>1 DEF GrownBy
<1>7. L + 2 + Len(ds) <= Len(g)
  BY <1>1, <1>2
<1>8. /\ g[L + 1].type = "DecisionTaskCompleted"
      /\ isStateMarker(g[L + 2]) /\ g[L + 2].state = s
  BY <1>4 DEF GrownBy
<1>9. GrownBy(s, ds, g, unhandled)
  BY <1>3, <1>5, <1>6, <1>7, <1>8 DEF GrownBy
<1> QED BY <1>9 DEF g

(* What is true of each of them.                                           *)
IsNews(ds, unhandled, g, j) ==
  /\ ~Closed(g[j]) /\ g[j].type # "WorkflowExecutionStarted"
  /\ HoldsState(g[j]) => j = Len(history) + 2
  /\ g[j].type = "DecisionTaskCompleted" => j = Len(history) + 1
  /\ g[j].type = "ActivityTaskScheduled" =>
       \E k \in 1..Len(ds) : /\ j = Len(history) + 2 + k /\ Schedules(ds[k])
                             /\ ds[k].ref = g[j].ref
  /\ g[j].type = "SignalExternalWorkflowExecutionInitiated" => g[j].label = ContinueSignal
  /\ g[j].type = "ContinueAsNewWorkflowExecutionFailed" =>
       \E k \in 1..Len(ds) : /\ j = Len(history) + 2 + k
                             /\ unhandled \/ NewsAfter(g, Len(history) + 1 + k, g[j].ref)

LEMMA NewEvent ==
  ASSUME TypeOK, NEW s, NEW ds, NEW n, NEW version, DecisionsInv(ds, n, version),
         NEW unhandled, NEW g, GrownBy(s, ds, g, unhandled),
         NEW j \in DOMAIN g \ DOMAIN history
  PROVE  IsNews(ds, unhandled, g, j)
<1>1. CASE j = Len(history) + 1
  <2>1. g[j].type = "DecisionTaskCompleted"
    BY <1>1 DEF GrownBy
  <2> QED BY <1>1, <2>1 DEF IsNews, Closed, ActivityClosed, HoldsState, isStateMarker
<1>2. CASE j = Len(history) + 2
  <2>1. g[j].type = "MarkerRecorded"
    BY <1>2 DEF GrownBy, isStateMarker
  <2> QED BY <1>2, <2>1 DEF IsNews, Closed, ActivityClosed
<1>3. CASE \E k \in 1..Len(ds) : j = Len(history) + 2 + k
  <2>1. PICK k \in 1..Len(ds) : j = Len(history) + 2 + k
    BY <1>3
  <2>2. ResultOf(ds[k], g[j]) /\ Refusable(ds[k], unhandled, g, Len(history) + 1 + k)
    BY <2>1 DEF GrownBy
  <2>3. ds[k].type \in UserTypes
        /\ (ds[k].type = "SignalExternalWorkflowExecution" => ds[k].label = ContinueSignal)
    BY DEF DecisionsInv, DecisionInv
  <2>4. CASE ds[k].type = "ScheduleActivityTask"
    <3>1. g[j].type = "ActivityTaskScheduled" /\ ds[k].ref = g[j].ref
      BY <2>2, <2>4 DEF ResultOf
    <3> QED BY <2>1, <2>4, <3>1 DEF IsNews, Closed, ActivityClosed, HoldsState, isStateMarker, Schedules
  <2>5. CASE ds[k].type = "StartTimer"
    <3>1. g[j].type \in {"TimerStarted", "StartTimerFailed"}
      BY <2>2, <2>5 DEF ResultOf
    <3> QED BY <3>1 DEF IsNews, Closed, ActivityClosed, HoldsState, isStateMarker
  <2>6. CASE ds[k].type = "SignalExternalWorkflowExecution"
    <3>1. g[j].type = "SignalExternalWorkflowExecutionInitiated" /\ g[j].label = ContinueSignal
      BY <2>2, <2>3, <2>6 DEF ResultOf
    <3> QED BY <3>1 DEF IsNews, Closed, ActivityClosed, HoldsState, isStateMarker
  <2>7. CASE ds[k].type = "ContinueAsNewWorkflowExecution"
    <3>1. g[j].type = "ContinueAsNewWorkflowExecutionFailed" /\ ds[k].ref = g[j].ref
      BY <2>2, <2>7 DEF ResultOf
    <3>2. unhandled \/ NewsAfter(g, Len(history) + 1 + k, ds[k].ref)
      BY <2>2, <2>7 DEF Refusable
    <3> QED BY <2>1, <3>1, <3>2 DEF IsNews, Closed, ActivityClosed, HoldsState, isStateMarker
  <2> QED BY <2>3, <2>4, <2>5, <2>6, <2>7 DEF UserTypes
<1>4. CASE g[j].type = "DecisionTaskScheduled"
  BY <1>4 DEF IsNews, Closed, ActivityClosed, HoldsState, isStateMarker
<1> QED BY <1>1, <1>2, <1>3, <1>4 DEF GrownBy

LEMMA GrownRefusal ==
  ASSUME TypeOK, StartInv, TaskInv, task.status = "started", NEW s, NEW ds, NEW version,
         DecisionsInv(ds, task.started, version), NEW g,
         GrownBy(s, ds, g, Unhandled(task.started)), GoodStart(g),
         NEW j \in DOMAIN g \ DOMAIN history,
         g[j].type = "ContinueAsNewWorkflowExecutionFailed"
  PROVE  CompletedBefore(g, j) # {} /\ (MissedIn(g, j) \/ NewsIn(g, j))
<1> DEFINE L == Len(history)
           S == CompletedBefore(g, j)
           u == Unhandled(task.started)
<1>1. L \in Nat /\ Grows(history, g) /\ Len(ds) \in Nat /\ L + 2 + Len(ds) <= Len(g)
  BY Typed DEF GrownBy, DecisionsInv
<1>2. PICK k \in 1..Len(ds) : j = L + 2 + k /\ (u \/ NewsAfter(g, L + 1 + k, g[j].ref))
  <2>1. IsNews(ds, u, g, j)
    BY NewEvent
  <2> HIDE DEF u
  <2> QED BY <2>1 DEF IsNews
<1>3. L + 1 \in S
  <2>1. L + 1 \in DOMAIN g /\ L + 1 < j
    BY <1>1, <1>2, GrowsIds
  <2>2. g[L + 1].type = "DecisionTaskCompleted"
    BY DEF GrownBy
  <2> QED BY <2>1, <2>2 DEF CompletedBefore, EventsOf
<1>4. CASE NewsAfter(g, L + 1 + k, g[j].ref)
  <2>1. PICK q \in 1..(L + 1 + k) : g[q].type = "ActivityTaskScheduled" /\ g[j].ref < q
    BY <1>4 DEF NewsAfter
  <2>2. q \in DOMAIN g /\ q < j
    BY <1>1, <1>2, GrowsIds
  <2>3. NewsIn(g, j)
    BY <2>1, <2>2 DEF NewsIn, EventsOf
  <2> QED BY <1>3, <2>3
<1>5. CASE u
  <2> DEFINE c == Max(S)
  <2>1. c \in S /\ (\A m \in S : m <= c) /\ c \in DOMAIN g
    BY <1>1, <1>3, LastCompleted DEF Grows
  <2> HIDE DEF c
  <2>2. c \in Nat /\ L + 1 <= c /\ g[c].type = "DecisionTaskCompleted"
    BY <1>1, <1>3, <2>1, GrowsIds DEF CompletedBefore, EventsOf
  <2>3. c \notin DOMAIN history
    BY <1>1, <2>2, GrowsIds
  <2>4. c = L + 1
    <3>1. IsNews(ds, u, g, c)
      BY <2>1, <2>3, NewEvent
    <3> HIDE DEF u
    <3> QED BY <2>2, <3>1 DEF IsNews
  <2>5. task.started \in Nat /\ L > task.started /\ L \in Ids /\ L \in DOMAIN history
    BY <1>1, <1>5, Typed DEF Unhandled, Ids
  <2>6. history[L].type # "DecisionTaskStarted"
    BY <2>5 DEF TaskInv
  <2>7. g[c - 1].type # "DecisionTaskStarted"
    <3>1. c - 1 = L /\ g[L] = history[L]
      BY <1>1, <2>4, <2>5, GrowsIds
    <3> QED BY <2>6, <3>1
  <2> QED BY <1>3, <2>7 DEF MissedIn, c
<1> QED BY <1>2, <1>4, <1>5

LEMMA GrownWork ==
  ASSUME TypeOK, TaskInv, EventsInv, task.status = "started", NEW s, NEW ds, NEW version,
         DecisionsInv(ds, task.started, version), NEW unhandled, NEW g,
         GrownBy(s, ds, g, unhandled), NEW i \in DOMAIN g, GoodWork(history, prevStarted, i)
  PROVE  GoodWork(g, task.started, i)
<1> DEFINE L == Len(history)
           n == task.started
<1> SUFFICES ASSUME i <= n, IsRequest(g[i]), g[i].label = "work"
             PROVE  Cardinality(ScheduledFor(g, i)) = 1
  BY DEF GoodWork
<1>1. /\ L \in Nat /\ n \in 1..L /\ prevStarted \in Nat /\ prevStarted < n /\ Ids = 1..L
      /\ DOMAIN history = 1..L /\ Grows(history, g) /\ Len(ds) \in Nat
      /\ L + 2 + Len(ds) <= Len(g)
  BY Typed DEF TaskInv, GrownBy, DecisionsInv, Ids
<1>2. i \in Nat /\ i \in DOMAIN history /\ g[i] = history[i]
  BY <1>1, GrowsIds
<1>3. ASSUME NEW j \in DOMAIN g \ DOMAIN history, g[j].type = "ActivityTaskScheduled"
      PROVE  /\ prevStarted < g[j].ref
             /\ \E k \in 1..Len(ds) : /\ j = L + 2 + k /\ Schedules(ds[k])
                                      /\ ds[k].ref = g[j].ref
  <2>1. IsNews(ds, unhandled, g, j)
    BY NewEvent
  <2>2. PICK k \in 1..Len(ds) : j = L + 2 + k /\ Schedules(ds[k]) /\ ds[k].ref = g[j].ref
    BY <1>3, <2>1 DEF IsNews
  <2>3. prevStarted < ds[k].ref
    BY DEF DecisionsInv, DecisionInv
  <2> QED BY <2>2, <2>3
<1>4. CASE i <= prevStarted
  <2>1. \A j \in DOMAIN g \ DOMAIN history :
          g[j].type = "ActivityTaskScheduled" => g[j].ref # i
    <3> TAKE j \in DOMAIN g \ DOMAIN history
    <3>1. g[j].ref \in Nat
      BY <1>1, Ref DEF Grows
    <3> QED BY <1>1, <1>2, <1>3, <1>4, <3>1
  <2>2. GoodWork(g, prevStarted, i)
    BY <1>1, <1>2, <2>1, WorkKept
  <2> QED BY <1>4, <2>2 DEF GoodWork
<1>5. CASE ~(i <= prevStarted)
  <2>1. i \in (prevStarted + 1)..n /\ IsWork(i)
    BY <1>1, <1>2, <1>5 DEF IsWork
  <2>2. PICK k \in 1..Len(ds) : Schedules(ds[k]) /\ ds[k].ref = i
    BY <2>1 DEF DecisionsInv
  <2>3. \A l \in 1..Len(ds) : Schedules(ds[l]) /\ ds[l].ref = i => l = k
    BY <2>2 DEF DecisionsInv
  <2>4. L + 2 + k \in DOMAIN g
    BY <1>1, GrowsIds
  <2>5. g[L + 2 + k].type = "ActivityTaskScheduled" /\ g[L + 2 + k].ref = i
    <3>1. ResultOf(ds[k], g[L + 2 + k])
      BY DEF GrownBy
    <3> QED BY <2>2, <3>1 DEF ResultOf, Schedules
  <2>6. ASSUME NEW j \in DOMAIN g, g[j].type = "ActivityTaskScheduled", g[j].ref = i
        PROVE  j = L + 2 + k
    <3>1. CASE j \in DOMAIN history
      <4>1. g[j] = history[j] /\ j \in Ids
        BY <1>1, <3>1, GrowsIds
      <4>2. i <= prevStarted
        BY <2>6, <4>1 DEF EventsInv
      <4> QED BY <1>5, <4>2
    <3>2. CASE j \notin DOMAIN history
      BY <1>3, <2>3, <2>6, <3>2
    <3> QED BY <3>1, <3>2
  <2>7. ScheduledFor(g, i) = {L + 2 + k}
    BY <2>4, <2>5, <2>6 DEF ScheduledFor, EventsOf
  <2> QED BY <2>7, FS_Singleton
<1> QED BY <1>4, <1>5

LEMMA GrownGood ==
  ASSUME IInv, task.status = "started", NEW s, NEW ds, NEW version,
         DecisionsInv(ds, task.started, version), NEW g,
         GrownBy(s, ds, g, Unhandled(task.started))
  PROVE  GoodStart(g) /\ \A i \in DOMAIN g : /\ GoodEvent(g, task.started, i)
                                             /\ GoodWork(g, task.started, i)
                                             /\ GoodRefusal(g, i)
<1> DEFINE u == Unhandled(task.started)
           n == task.started
<1>1. /\ GoodStart(history)
      /\ \A i \in DOMAIN history : /\ GoodEvent(history, prevStarted, i)
                                   /\ GoodWork(history, prevStarted, i)
                                   /\ GoodRefusal(history, i)
  BY InvIs DEF IInv, RunInv, InvForm
<1>2. /\ prevStarted \in Nat /\ n \in Nat /\ prevStarted <= n /\ n <= Len(history)
      /\ Len(history) \in Nat /\ Grows(history, g)
      /\ DOMAIN history = 1..Len(history)
  BY Typed DEF IInv, RunInv, TaskInv, GrownBy, Ids
<1>3. \A j \in DOMAIN g \ DOMAIN history : IsNews(ds, u, g, j)
  BY NewEvent DEF IInv, RunInv
<1> HIDE DEF n
<1>4. GoodStart(g)
  <2>1. \A j \in DOMAIN g \ DOMAIN history : g[j].type # "WorkflowExecutionStarted"
    BY <1>3 DEF IsNews
  <2> QED BY <1>1, <1>2, <2>1, StartKept
<1>5. ASSUME NEW i \in DOMAIN history
      PROVE  GoodEvent(g, n, i) /\ GoodRefusal(g, i)
  <2>1. GoodEvent(history, prevStarted, i) /\ GoodRefusal(history, i)
    BY <1>1
  <2>2. GoodEvent(g, n, i)
    BY <1>2, <2>1, EventKept
  <2>3. GoodRefusal(g, i)
    BY <1>1, <1>2, <2>1, RefusalKept
  <2> QED BY <2>2, <2>3
<1>6. ASSUME NEW i \in DOMAIN g \ DOMAIN history
      PROVE  GoodEvent(g, n, i) /\ GoodRefusal(g, i)
  <2>1. g[i].type = "ContinueAsNewWorkflowExecutionFailed" =>
          CompletedBefore(g, i) # {} /\ (MissedIn(g, i) \/ NewsIn(g, i))
    BY <1>4, GrownRefusal DEF IInv, RunInv
  <2>2. g[i].type = "ActivityTaskScheduled" => g[i].ref <= n
    <3>1. SUFFICES ASSUME g[i].type = "ActivityTaskScheduled" PROVE g[i].ref <= n
      OBVIOUS
    <3>2. IsNews(ds, u, g, i)
      BY <1>3
    <3> HIDE DEF u
    <3>3. PICK k \in 1..Len(ds) : ds[k].ref = g[i].ref
      BY <3>1, <3>2 DEF IsNews
    <3>4. ds[k].ref <= n
      BY DEF DecisionsInv, DecisionInv, n
    <3> QED BY <3>3, <3>4
  <2>3. /\ ~Closed(g[i])
        /\ g[i].type = "SignalExternalWorkflowExecutionInitiated" => g[i].label = ContinueSignal
    <3>1. IsNews(ds, u, g, i)
      BY <1>3
    <3> HIDE DEF u
    <3> QED BY <3>1 DEF IsNews
  <2> QED BY <2>1, <2>2, <2>3 DEF GoodEvent, GoodRefusal
<1>7. ASSUME NEW i \in DOMAIN g
      PROVE  GoodWork(g, n, i)
  <2>1. CASE i \in DOMAIN history
    <3>1. GoodWork(history, prevStarted, i)
      BY <1>1, <2>1
    <3> QED BY <3>1, GrownWork DEF IInv, RunInv, n
  <2>2. CASE i \notin DOMAIN history
    <3>1. ~(i <= n)
      BY <1>2, <2>2, GrowsIds
    <3> QED BY <3>1 DEF GoodWork
  <2> QED BY <2>1, <2>2
<1> QED BY <1>4, <1>5, <1>6, <1>7 DEF n

LEMMA GrownState ==
  ASSUME TypeOK, StartInv, TaskInv, task.status = "started", NEW s, NEW version,
         IsSaved(s, version), NEW ds, DecisionsInv(ds, task.started, version),
         NEW unhandled, NEW g, GrownBy(s, ds, g, unhandled), NEW i, RecordedIn(g, i)
  PROVE  i = Len(history) + 2 /\ g[i].state = s /\ GoodState(g, task.started, i)
<1> DEFINE L == Len(history)
           n == task.started
<1>1. /\ L \in Nat /\ n \in 1..L /\ Ids = 1..L /\ DOMAIN history = 1..L
      /\ Grows(history, g) /\ Len(ds) \in Nat /\ L + 2 + Len(ds) <= Len(g)
  BY Typed DEF TaskInv, GrownBy, DecisionsInv, Ids
<1>2. L + 2 \in DOMAIN g /\ HoldsState(g[L + 2]) /\ g[L + 2].state = s
      /\ g[L + 2].type = "MarkerRecorded"
  BY <1>1, GrowsIds DEF GrownBy, HoldsState, isStateMarker
<1>3. i \in DOMAIN g /\ HoldsState(g[i]) /\ L + 2 <= i /\ i \in Nat
  BY <1>1, <1>2, GrowsIds DEF RecordedIn, IsNewest
<1>4. i = L + 2
  <2>1. i \in DOMAIN g \ DOMAIN history
    BY <1>1, <1>3
  <2>2. IsNews(ds, unhandled, g, i)
    BY <2>1, NewEvent
  <2> QED BY <1>3, <2>2 DEF IsNews
<1>5. findSerializedState(g[i]) = s
  BY <1>2, <1>4 DEF findSerializedState
<1>6. /\ SignalsOf(g, n) = SignalsUpTo(n) /\ FlightOf(g, n) = InFlight(n)
      /\ StateOf(g, n) = StateAfter(n) /\ g[1] = history[1]
  <2>1. n \in Nat /\ n <= L /\ history # <<>> /\ 1 \in DOMAIN history
    <3>3. n \in 1..L /\ L \in Nat /\ DOMAIN history = 1..L
      BY <1>1
    <3>1. n \in Nat /\ n <= L /\ 1 \in DOMAIN history
      BY <3>3
    <3>2. history # <<>>
      BY <3>1
    <3> QED BY <3>1, <3>2
  <2>2. /\ SignalsOf(g, n) = SignalsOf(history, n) /\ FlightOf(g, n) = FlightOf(history, n)
        /\ StateOf(g, n) = StateOf(history, n)
    BY <1>1, <2>1, KeptUpTo
  <2>3. /\ SignalsUpTo(n) = SignalsOf(history, n) /\ InFlight(n) = FlightOf(history, n)
        /\ StateAfter(n) = StateOf(history, n)
    BY DEF SignalsUpTo, SignalsOf, InFlight, FlightOf, StateAfter, StateOf, Moves, Ids
  <2> QED BY <1>1, <2>1, <2>2, <2>3, GrowsIds
<1>7. n < i
  BY <1>1, <1>4
<1> QED BY <1>2, <1>4, <1>5, <1>6, <1>7 DEF IsSaved, GoodState

LEMMA StreamAt ==
  ASSUME NEW stm \in Seq([run : Nat \ {0}, state : SerializedState]), NEW k \in 1..Len(stm)
  PROVE  stm[k].run \in Nat /\ stm[k].state.version \in Nat
<1> DEFINE R == [run : Nat \ {0}, state : SerializedState]
<1> HIDE DEF R
<1>1. stm \in Seq(R)
  BY DEF R
<1>2. stm[k] \in R
  BY <1>1, ElementOfSeq
<1> QED BY <1>2 DEF R, SerializedState

(* The stream, when the state after the newest one goes up.                *)
LEMMA StreamGrown ==
  ASSUME TypeOK, StreamInv, VersionsNeverGoBack, NEW i \in Ids, IsRecorded(i),
         NEW s \in SerializedState, s.version = history[i].state.version + 1,
         stream' = Append(stream, [run |-> run, state |-> s])
  PROVE  /\ VersionsNeverGoBack'
         /\ stream' \in Seq([run : Nat \ {0}, state : SerializedState])
         /\ \A k \in 1..Len(stream') :
              stream'[k].run <= run /\ stream'[k].state.version <= s.version
<1> DEFINE x == [run |-> run, state |-> s]
           n == Len(stream)
           v == history[i].state.version
<1>1. /\ stream \in Seq([run : Nat \ {0}, state : SerializedState]) /\ n \in Nat
      /\ run \in Nat \ {0} /\ v \in Nat
  BY Typed, Ref
<1>2. x \in [run : Nat \ {0}, state : SerializedState] /\ x.run = run /\ x.state = s
  BY <1>1
<1> HIDE DEF x
<1>3. /\ stream' \in Seq([run : Nat \ {0}, state : SerializedState]) /\ Len(stream') = n + 1
      /\ \A k \in 1..n : stream'[k] = stream[k]
      /\ stream'[n + 1] = x
  BY <1>1, <1>2, AppendFacts DEF x
<1>4. ASSUME NEW k \in 1..n
      PROVE  /\ stream[k].run \in Nat /\ stream[k].state.version \in Nat
             /\ stream[k].run <= run
             /\ stream[k].state.version <= v + (IF stream[k].run = run THEN 0 ELSE 1)
  <2>1. stream[k].run \in Nat /\ stream[k].state.version \in Nat
    BY <1>1, StreamAt
  <2> QED BY <2>1 DEF StreamInv
<1> HIDE DEF v
<1>5. s.version = v + 1
  BY DEF v
<1>6. ASSUME NEW k \in 1..Len(stream')
      PROVE  stream'[k].run <= run /\ stream'[k].state.version <= s.version
  <2>1. CASE k \in 1..n
    BY <1>1, <1>3, <1>4, <1>5, <2>1
  <2>2. CASE k = n + 1
    BY <1>1, <1>2, <1>3, <1>5, <2>2
  <2> QED BY <1>1, <1>3, <2>1, <2>2
<1>7. ASSUME NEW k \in 1..Len(stream'), NEW l \in 1..(k - 1)
      PROVE  /\ stream'[l].run <= stream'[k].run
             /\ stream'[l].state.version <= stream'[k].state.version
             /\ stream'[l].state.version = stream'[k].state.version
                  => stream'[l].run < stream'[k].run
  <2>1. l \in 1..n /\ stream'[l] = stream[l]
    BY <1>1, <1>3
  <2>2. CASE k \in 1..n
    BY <1>3, <2>1, <2>2 DEF VersionsNeverGoBack
  <2>3. CASE k = n + 1
    <3>1. stream'[k].run = run /\ stream'[k].state.version = v + 1
      BY <1>2, <1>3, <1>5, <2>3
    <3> QED BY <1>1, <1>4, <2>1, <3>1
  <2> QED BY <1>1, <1>3, <2>2, <2>3
<1> QED BY <1>3, <1>6, <1>7 DEF VersionsNeverGoBack

LEMMA GoesOnShape ==
  ASSUME TypeOK, NEW s, NEW ds, NEW r, NEW version, Answered(s, ds, r, version), r.by = <<>>
  PROVE  /\ GrownBy(s, ds, history', Unhandled(task.started))
         /\ prevStarted' = task.started /\ run' = run /\ open' = open /\ sent' = sent
         /\ task' \in [status : TaskStatus, started : Nat] /\ task'.status # "started"
<1> DEFINE u == Unhandled(task.started)
           e == Event("DecisionTaskScheduled", "", 0)
<1>1. s \in SerializedState /\ ds \in Seq(Decision)
  BY DEF Answered, IsSaved, DecisionsInv
<1>2. Grown(r.h, Response(s, ds), Len(ds) + 1, u)
  <2>1. \A x : One(x) # <<>>
    BY DEF One
  <2>2. CarriedInv(r, Response(s, ds), Len(ds) + 1, u)
    BY DEF Answered
  <2> HIDE DEF u
  <2> QED BY <2>1, <2>2 DEF CarriedInv
<1>3. GrownBy(s, ds, r.h, u)
  BY <1>1, <1>2, GrownGrows
<1>4. e \in HistoryEvent /\ e.type = "DecisionTaskScheduled"
  <2>1. e \in HistoryEvent
    BY EventType DEF EventTypes, Labels
  <2> QED BY <2>1 DEF Event
<1>5. /\ prevStarted' = task.started /\ run' = run /\ open' = open /\ sent' = sent
      /\ history' = Append(r.h, e) \/ history' = r.h
      /\ task' = ScheduledTask \/ task' = NoTask
  BY DEF Answered, GoesOn
<1> HIDE DEF e
<1>6. GrownBy(s, ds, Append(r.h, e), u)
  BY <1>1, <1>3, <1>4, GrownAndScheduled
<1>7. GrownBy(s, ds, history', u)
  BY <1>3, <1>5, <1>6
<1>8. task' \in [status : TaskStatus, started : Nat] /\ task'.status # "started"
  BY <1>5 DEF ScheduledTask, NoTask, TaskStatus
<1> QED BY <1>5, <1>7, <1>8

LEMMA GoesOnInv ==
  ASSUME IInv, NEW s, NEW ds, NEW r, NEW i \in Ids, IsRecorded(i),
         Answered(s, ds, r, history[i].state.version), r.by = <<>>
  PROVE  IInv'
<1> DEFINE version == history[i].state.version
           L == Len(history)
           u == Unhandled(task.started)
<1>1. /\ GrownBy(s, ds, history', u)
      /\ prevStarted' = task.started /\ run' = run /\ open' = open /\ sent' = sent
      /\ task' \in [status : TaskStatus, started : Nat] /\ task'.status # "started"
  BY GoesOnShape DEF IInv, RunInv
<1>2. /\ task.status = "started" /\ IsSaved(s, version) /\ s \in SerializedState
      /\ s.version = version + 1
      /\ DecisionsInv(ds, task.started, version)
      /\ stream' = Append(stream, [run |-> run, state |-> s])
  BY DEF Answered, IsSaved
<1>3. /\ VersionsNeverGoBack'
      /\ stream' \in Seq([run : Nat \ {0}, state : SerializedState])
      /\ \A k \in 1..Len(stream') :
           stream'[k].run <= run /\ stream'[k].state.version <= s.version
  BY <1>2, StreamGrown DEF IInv, RunInv
<1> HIDE DEF u, version
<1>4. GoodStart(history') /\ \A j \in DOMAIN history' : /\ GoodEvent(history', task.started, j)
                                                       /\ GoodWork(history', task.started, j)
                                                       /\ GoodRefusal(history', j)
  BY <1>1, <1>2, GrownGood DEF u
<1>5. ASSUME NEW j, RecordedIn(history', j)
      PROVE  GoodState(history', task.started, j) /\ GoodStream(history', stream', run, j)
  <2>1. history'[j].state = s /\ GoodState(history', task.started, j)
    BY <1>1, <1>2, <1>5, GrownState DEF IInv, RunInv
  <2>2. \A k \in 1..Len(stream') : stream'[k].state.version \in Nat /\ s.version \in Nat
    <3>1. s.version \in Nat
      BY <1>2 DEF SerializedState
    <3> QED BY <1>3, <3>1, StreamAt
  <2> QED BY <1>3, <2>1, <2>2 DEF GoodStream
<1>6. TypeOK'
  <2>1. history' \in Seq(HistoryEvent)
    BY <1>1 DEF GrownBy, Grows
  <2>2. task.started \in Nat /\ TypeOK
    BY Typed DEF IInv, RunInv
  <2> QED BY <1>1, <1>3, <2>1, <2>2 DEF TypeOK, ServiceTypeOK
<1>7. TaskInv'
  <2>1. task.started \in Ids /\ Ids = 1..L /\ L \in Nat /\ Len(history') \in Nat
        /\ L <= Len(history')
    BY <1>1, <1>2, Typed DEF IInv, RunInv, TaskInv, GrownBy, Grows
  <2>2. task.started \in 0..Len(history')
    BY <2>1
  <2> QED BY <1>1, <2>2 DEF TaskInv
<1>8. StartInv' /\ EventsInv' /\ StateInv' /\ StreamInv' /\ WorkIsScheduled' /\ RefusedForNewsOnly'
  BY <1>1, <1>4, <1>5, InvIsNext
<1> QED BY <1>3, <1>6, <1>7, <1>8 DEF IInv, RunInv

-----------------------------------------------------------------------------
(* A run that begins.                                                      *)
Fresh(h, state) ==
  /\ h \in Seq(HistoryEvent) /\ Len(h) = 2
  /\ h[1].type = "WorkflowExecutionStarted" /\ h[1].state = state
  /\ h[2].type = "DecisionTaskScheduled"

LEMMA FreshHistory ==
  ASSUME NEW state \in SerializedState, NEW e \in HistoryEvent,
         e.type = "WorkflowExecutionStarted", e.state = state
  PROVE  Fresh(<<e, Event("DecisionTaskScheduled", "", 0)>>, state)
<1> DEFINE f == Event("DecisionTaskScheduled", "", 0)
           h == <<e, f>>
<1>1. f \in HistoryEvent /\ f.type = "DecisionTaskScheduled"
  <2>1. f \in HistoryEvent
    BY EventType DEF EventTypes, Labels
  <2> QED BY <2>1 DEF Event
<1> HIDE DEF f
<1>2. h \in Seq(HistoryEvent) /\ Len(h) = 2 /\ h[1] = e /\ h[2] = f
  BY <1>1
<1> HIDE DEF h
<1>3. Fresh(h, state)
  BY <1>1, <1>2 DEF Fresh
<1> QED BY <1>3 DEF h, f

LEMMA FreshGood ==
  ASSUME NEW h, NEW state \in SerializedState, Fresh(h, state), state.data.form = "ok",
         state.pending = {}
  PROVE  /\ GoodStart(h)
         /\ \A j \in DOMAIN h : GoodEvent(h, 0, j) /\ GoodWork(h, 0, j) /\ GoodRefusal(h, j)
         /\ \A j \in DOMAIN h : RecordedIn(h, j) => j = 1 /\ GoodState(h, 0, j)
<1>1. DOMAIN h = {1, 2}
  <2>1. DOMAIN h = 1..2
    BY DEF Fresh
  <2> QED BY <2>1
<1>2. /\ h[1].type = "WorkflowExecutionStarted" /\ h[1].state = state
      /\ h[2].type = "DecisionTaskScheduled"
  BY DEF Fresh
<1>3. GoodStart(h)
  BY <1>1, <1>2 DEF GoodStart
<1>4. \A j \in DOMAIN h : GoodEvent(h, 0, j) /\ GoodWork(h, 0, j) /\ GoodRefusal(h, j)
  BY <1>1, <1>2 DEF GoodEvent, GoodWork, GoodRefusal, Closed, ActivityClosed
<1>5. SignalsOf(h, 0) = {} /\ FlightOf(h, 0) = {}
      /\ StateOf(h, 0) = findSerializedState(h[1]).name
  BY <1>1 DEF SignalsOf, FlightOf, StateOf
<1>6. ASSUME NEW j \in DOMAIN h, RecordedIn(h, j)
      PROVE  j = 1 /\ GoodState(h, 0, j)
  <2>1. HoldsState(h[j])
    BY <1>6 DEF RecordedIn, IsNewest
  <2>2. j = 1
    BY <1>1, <1>2, <2>1 DEF HoldsState, isStateMarker
  <2> QED BY <1>2, <1>5, <2>2 DEF GoodState
<1> QED BY <1>3, <1>4, <1>6

LEMMA AnewShape ==
  ASSUME TypeOK, NEW s, NEW ds, NEW r, NEW version, Answered(s, ds, r, version), r.by # <<>>
  PROVE  \E k \in 1..Len(ds) : /\ ds[k].type = "ContinueAsNewWorkflowExecution"
                               /\ ds[k] \in Decision
                               /\ DecisionInv(ds[k], task.started, version)
                               /\ StartsAnew(ds[k])
<1> DEFINE D == Response(s, ds)
<1>1. s \in SerializedState /\ ds \in Seq(Decision)
  BY DEF Answered, IsSaved, DecisionsInv
<1>2. /\ Len(ds) \in Nat /\ D[1] = Marker(s) /\ \A k \in 1..Len(ds) : D[k + 1] = ds[k]
  BY <1>1, ResponseIs
<1> HIDE DEF D
<1>3. PICK k \in 1..(Len(ds) + 1) : r.by = One(D[k])
                                   /\ D[k].type = "ContinueAsNewWorkflowExecution"
  BY DEF Answered, CarriedInv, D
<1>4. k # 1
  <2>1. Marker(s).type = "RecordMarker"
    BY <1>1, MarkerType
  <2> QED BY <1>2, <1>3, <2>1
<1>5. k - 1 \in 1..Len(ds) /\ D[k] = ds[k - 1]
  BY <1>2, <1>4
<1>6. ds[k - 1] \in Decision
  BY <1>1, <1>5, ElementOfSeq
<1>7. DecisionInv(ds[k - 1], task.started, version)
  BY <1>5 DEF Answered, DecisionsInv
<1>8. StartsAnew(r.by[1]) /\ r.by[1] = D[k]
  <2>1. \A x : One(x)[1] = x
    BY DEF One
  <2> QED BY <1>3, <2>1 DEF Answered
<1> QED BY <1>3, <1>5, <1>6, <1>7, <1>8

LEMMA StartsAnewInv ==
  ASSUME IInv, NEW s, NEW ds, NEW r, NEW i \in Ids, IsRecorded(i),
         Answered(s, ds, r, history[i].state.version), r.by # <<>>
  PROVE  IInv'
<1> DEFINE version == history[i].state.version
<1>1. PICK k \in 1..Len(ds) : /\ ds[k].type = "ContinueAsNewWorkflowExecution"
                              /\ ds[k] \in Decision
                              /\ DecisionInv(ds[k], task.started, version)
                              /\ StartsAnew(ds[k])
  BY AnewShape DEF IInv, RunInv
<1> DEFINE d == ds[k]
<1>2. /\ IsSaved(s, version) /\ s \in SerializedState /\ s.version = version + 1
      /\ stream' = Append(stream, [run |-> run, state |-> s])
      /\ open' = open /\ sent' = sent
  BY DEF Answered, IsSaved
<1>3. /\ VersionsNeverGoBack'
      /\ stream' \in Seq([run : Nat \ {0}, state : SerializedState])
      /\ \A m \in 1..Len(stream') :
           stream'[m].run <= run /\ stream'[m].state.version <= s.version
  BY <1>2, StreamGrown DEF IInv, RunInv
<1>4. /\ d.state \in SerializedState /\ d.state.version = version /\ d.state.pending = {}
      /\ d.state.data.form = "ok" /\ d.ref \in Nat /\ version \in Nat
  BY <1>1 DEF DecisionInv, ContinuesAt, Decision, SerializedState
<1> DEFINE e == [Event("WorkflowExecutionStarted", "", d.ref) EXCEPT !.state = d.state]
<1>5. /\ history' = <<e, Event("DecisionTaskScheduled", "", 0)>>
      /\ task' = ScheduledTask /\ prevStarted' = 0 /\ run' = run + 1
  BY <1>1 DEF StartsAnew
<1>14. prevStarted' = 0 /\ run' = run + 1
  BY <1>5
<1> HIDE DEF version, d
<1>6. e \in HistoryEvent /\ e.type = "WorkflowExecutionStarted" /\ e.state = d.state
  <2>1. Event("WorkflowExecutionStarted", "", d.ref) \in HistoryEvent
    BY <1>4, EventType DEF EventTypes, Labels
  <2> QED BY <1>4, <2>1 DEF HistoryEvent, Event
<1> HIDE DEF e
<1>7. Fresh(history', d.state)
  BY <1>4, <1>5, <1>6, FreshHistory
<1>8. /\ GoodStart(history')
      /\ \A j \in DOMAIN history' : /\ GoodEvent(history', prevStarted', j)
                                    /\ GoodWork(history', prevStarted', j)
                                    /\ GoodRefusal(history', j)
      /\ \A j \in DOMAIN history' : RecordedIn(history', j) =>
           j = 1 /\ GoodState(history', prevStarted', j)
  BY <1>4, <1>5, <1>7, FreshGood
<1>9. task' \in [status : TaskStatus, started : Nat] /\ task'.status # "started"
  BY <1>5 DEF ScheduledTask, TaskStatus
<1>10. ASSUME NEW j \in DOMAIN history', RecordedIn(history', j)
       PROVE  GoodStream(history', stream', run', j)
  <2>1. history'[j].state.version = version
    BY <1>4, <1>7, <1>8, <1>10 DEF Fresh
  <2>2. run \in Nat
    BY Typed DEF IInv, RunInv
  <2>3. ASSUME NEW m \in 1..Len(stream')
        PROVE  stream'[m].run <= run' /\ stream'[m].run # run'
               /\ stream'[m].state.version <= version + 1
    <3>1. /\ stream'[m].run \in Nat /\ stream'[m].run <= run
          /\ stream'[m].state.version <= version + 1
      BY <1>2, <1>3, StreamAt
    <3> QED BY <1>14, <2>2, <3>1
  <2> QED BY <2>1, <2>3 DEF GoodStream
<1>11. TypeOK'
  <2>1. history' \in Seq(HistoryEvent)
    BY <1>7 DEF Fresh
  <2>2. run' \in Nat \ {0} /\ TypeOK
    <3>1. run \in Nat /\ TypeOK
      BY Typed DEF IInv, RunInv
    <3> QED BY <1>14, <3>1
  <2> QED BY <1>2, <1>3, <1>5, <1>9, <2>1, <2>2 DEF TypeOK, ServiceTypeOK
<1>12. TaskInv'
  <2>1. Len(history') = 2
    BY <1>7 DEF Fresh
  <2>2. prevStarted' \in 0..Len(history')
    BY <1>14, <2>1
  <2> QED BY <1>9, <2>2 DEF TaskInv
<1>13. StartInv' /\ EventsInv' /\ StateInv' /\ StreamInv' /\ WorkIsScheduled' /\ RefusedForNewsOnly'
  BY <1>8, <1>9, <1>10, InvIsNext
<1> QED BY <1>3, <1>11, <1>12, <1>13 DEF IInv, RunInv

LEMMA HandleDecisionTaskInv ==
  ASSUME IInv, HandleDecisionTask
  PROVE  IInv'
<1>1. PICK i \in Ids : IsRecorded(i)
  BY RecordedExists DEF IInv, RunInv
<1>2. PICK s, ds, r : Answered(s, ds, r, history[i].state.version)
  BY <1>1, Handles DEF IInv, RunInv
<1>3. CASE r.by = <<>>
  BY <1>1, <1>2, <1>3, GoesOnInv
<1>4. CASE r.by # <<>>
  BY <1>1, <1>2, <1>4, StartsAnewInv
<1> QED BY <1>3, <1>4

LEMMA StutterInv ==
  ASSUME IInv, UNCHANGED vars
  PROVE  IInv'
<1>1. /\ TypeOK' /\ TaskInv' /\ VersionsNeverGoBack'
  BY DEF IInv, RunInv, vars, TypeOK, ServiceTypeOK, TaskInv, VersionsNeverGoBack, Ids
<1>2. /\ Grows(history, history') /\ DOMAIN history' \ DOMAIN history = {}
      /\ prevStarted' = prevStarted /\ run' = run /\ stream' = stream /\ task' = task
  BY Typed DEF IInv, RunInv, vars, Grows
<1> QED BY <1>1, <1>2, QuietGrowth

LEMMA InitInv ==
  ASSUME Init
  PROVE  IInv
<1> DEFINE e == Event("WorkflowExecutionStarted", "", 0)
<1>1. /\ history = <<e, Event("DecisionTaskScheduled", "", 0)>> /\ task = ScheduledTask
      /\ prevStarted = 0 /\ open = TRUE /\ run = 1 /\ sent = 0 /\ stream = <<>>
  BY DEF Init, ServiceInit
<1>2. e \in HistoryEvent /\ e.type = "WorkflowExecutionStarted" /\ e.state = NoState
  <2>1. e \in HistoryEvent
    BY EventType DEF EventTypes, Labels
  <2> QED BY <2>1 DEF Event
<1>13. prevStarted = 0 /\ open = TRUE /\ run = 1 /\ sent = 0
  BY <1>1
<1> HIDE DEF e
<1>3. NoState \in SerializedState /\ NoState.data.form = "ok" /\ NoState.pending = {}
  BY DataTypes DEF NoState, ZeroData
<1>4. Fresh(history, NoState)
  BY <1>1, <1>2, <1>3, FreshHistory
<1>5. /\ GoodStart(history)
      /\ \A j \in DOMAIN history : /\ GoodEvent(history, prevStarted, j)
                                   /\ GoodWork(history, prevStarted, j)
                                   /\ GoodRefusal(history, j)
      /\ \A j \in DOMAIN history : RecordedIn(history, j) =>
           j = 1 /\ GoodState(history, prevStarted, j)
  BY <1>1, <1>3, <1>4, FreshGood
<1>6. task \in [status : TaskStatus, started : Nat] /\ task.status # "started"
  BY <1>1 DEF ScheduledTask, TaskStatus
<1>7. stream \in Seq([run : Nat \ {0}, state : SerializedState]) /\ Len(stream) = 0
  <2>1. stream = <<>>
    BY <1>1
  <2> QED BY <2>1
<1>8. TypeOK
  <2>1. history \in Seq(HistoryEvent)
    BY <1>4 DEF Fresh
  <2>2. sent \in 0..Len(Requests)
    <3>1. Len(Requests) \in Nat
      BY RequestsAssumption
    <3> QED BY <1>13, <3>1
  <2> QED BY <1>13, <1>6, <1>7, <2>1, <2>2 DEF TypeOK, ServiceTypeOK
<1>9. TaskInv
  <2>1. Len(history) = 2 /\ prevStarted = 0
    BY <1>1, <1>4 DEF Fresh
  <2> QED BY <1>6, <2>1 DEF TaskInv
<1>10. \A j : GoodStream(history, stream, run, j)
  BY <1>7 DEF GoodStream
<1>11. VersionsNeverGoBack
  BY <1>7 DEF VersionsNeverGoBack
<1>12. StartInv /\ EventsInv /\ StateInv /\ StreamInv /\ WorkIsScheduled /\ RefusedForNewsOnly
  BY <1>5, <1>6, <1>10, InvIs DEF InvForm
<1> QED BY <1>8, <1>9, <1>11, <1>12 DEF IInv, RunInv

(* Every step of a continued workflow preserves what its state, its stream  *)
(* and its history have in common.                                         *)
THEOREM Invariance == Spec => []IInv
<1>1. IInv /\ [Next]_vars => IInv'
  <2> SUFFICES ASSUME IInv, [Next]_vars PROVE IInv'
    OBVIOUS
  <2>1. CASE PollForTask
    BY <2>1, PollForTaskInv
  <2>2. CASE HandleDecisionTask
    BY <2>2, HandleDecisionTaskInv
  <2>3. CASE Signal
    BY <2>3, SignalInv
  <2>4. CASE ActivityCloses
    BY <2>4, ActivityClosesInv
  <2>5. CASE TimerFires
    BY <2>5, TimerFiresInv
  <2>6. CASE ContinueSignalArrives
    BY <2>6, ContinueSignalArrivesInv
  <2>7. CASE UNCHANGED vars
    BY <2>7, StutterInv
  <2> QED BY <2>1, <2>2, <2>3, <2>4, <2>5, <2>6, <2>7 DEF Next
<1>2. Init => IInv
  BY InitInv
<1> QED BY <1>1, <1>2, PTL DEF Spec

-----------------------------------------------------------------------------
(* The history of a run and the stream are sequences of events and states,  *)
(* and no more signals come than the user sends.                           *)
THEOREM TypeCorrect == Spec => []TypeOK
<1>1. IInv => TypeOK
  BY DEF IInv, RunInv
<1> QED BY <1>1, Invariance, PTL

(* The newest state of a run has the name, the data and the pending          *)
(* activities that its events up to the last completed decision task call    *)
(* for, and no state on the stream is newer than the next one will be.       *)
THEOREM RunInvariance == Spec => []RunInv
<1>1. IInv => RunInv
  BY DEF IInv
<1> QED BY <1>1, Invariance, PTL

(* In each run the data in the newest state marker accounts for what the    *)
(* run's input did and for every signal of this run up to the last completed *)
(* decision task, whatever the deciders made of the event                   *)
(* (ComposedDecider.Decide, mergeOutcomes).                                 *)
THEOREM NoSignalIsLost == Spec => []EverySignalCounts
<1>1. IInv => EverySignalCounts
  <2> SUFFICES ASSUME IInv PROVE EverySignalCounts
    OBVIOUS
  <2> DEFINE S == {j \in Ids : HoldsState(history[j])}
             i == Max(S)
  <2>1. S \in SUBSET (1..Len(history)) /\ Len(history) \in Nat
    BY Typed DEF IInv, RunInv
  <2>2. S # {}
    BY RecordedExists DEF IInv, RunInv, IsRecorded, IsNewest
  <2> HIDE DEF S
  <2>3. IsNewest(i, S)
    BY <2>1, <2>2, MaxIsNewest
  <2> HIDE DEF i
  <2>4. i \in Ids /\ IsRecorded(i)
    BY <2>3 DEF IsNewest, IsRecorded, S
  <2>5. history[i].state.data.seen = history[1].state.data.seen \cup SignalsUpTo(prevStarted)
    BY <2>4 DEF IInv, RunInv, StateInv
  <2> QED BY <2>5 DEF EverySignalCounts, Recorded, i, S
<1> QED BY <1>1, Invariance, PTL

(* What the deciders ask for at an event of the user is scheduled once:     *)
(* neither the composition nor the merging of outcomes drops or doubles a   *)
(* decision, and no event is shown to the deciders twice.                  *)
THEOREM WorkScheduledOnce == Spec => []WorkIsScheduled
<1>1. IInv => WorkIsScheduled
  BY DEF IInv, RunInv
<1> QED BY <1>1, Invariance, PTL

(* The service refuses to continue a run only for events that the decider   *)
(* could not know: the activities it is shown as pending are those open at   *)
(* the event (ActivityCorrelator, handleContinuationTimer).                *)
THEOREM OnlyNewsRefuse == Spec => []RefusedForNewsOnly
<1>1. IInv => RefusedForNewsOnly
  BY DEF IInv, RunInv
<1> QED BY <1>1, Invariance, PTL

(* The versions of the states on the Kinesis stream go up within a run and  *)
(* do not go down from one run to the next (ContinueAsNew's stateVersion).  *)
THEOREM StreamOfAllRuns == Spec => []VersionsNeverGoBack
<1>1. IInv => VersionsNeverGoBack
  BY DEF IInv, RunInv
<1> QED BY <1>1, Invariance, PTL

(* A new run begins with the state and the data as of the event at which    *)
(* the run before was continued, and nothing in flight: no later event of   *)
(* the same task is in it, and none of an earlier, refused, request        *)
(* (ContinueWorkflowDecision, ContinueFSMWorkflowInput).                   *)
THEOREM NewRunIsCurrent == Spec => ContinuedStateIsCurrent
<1> DEFINE Current ==
      run' # run =>
        LET from == history'[1]
            seen == history[1].state.data.seen \cup SignalsUpTo(from.ref)
        IN  /\ prevStarted < from.ref
            /\ from.state.data.seen = seen
            /\ from.state.pending = {}
            /\ from.state.name = IF history[from.ref].label = "restart"
                                 THEN initialState ELSE StateAt(from.ref)
<1>1. IInv /\ [Next]_vars => [Current]_vars
  <2> SUFFICES ASSUME IInv, [Next]_vars, run' # run PROVE Current
    OBVIOUS
  <2>1. HandleDecisionTask
    BY DEF Next, PollForTask, Signal, ActivityCloses, TimerFires, ContinueSignalArrives, vars
  <2>2. PICK i \in Ids : IsRecorded(i)
    BY RecordedExists DEF IInv, RunInv
  <2> DEFINE version == history[i].state.version
  <2>3. PICK s, ds, r : Answered(s, ds, r, version)
    BY <2>1, <2>2, Handles DEF IInv, RunInv
  <2> HIDE DEF version
  <2>4. r.by # <<>>
    BY <2>3 DEF Answered, GoesOn
  <2>5. PICK k \in 1..Len(ds) : /\ ds[k].type = "ContinueAsNewWorkflowExecution"
                                /\ ds[k] \in Decision
                                /\ DecisionInv(ds[k], task.started, version)
                                /\ StartsAnew(ds[k])
    BY <2>3, <2>4, AnewShape DEF IInv, RunInv
  <2> DEFINE d == ds[k]
             from == history'[1]
  <2>6. from.ref = d.ref /\ from.state = d.state
    <3> DEFINE e == [Event("WorkflowExecutionStarted", "", d.ref) EXCEPT !.state = d.state]
    <3>1. e.ref = d.ref /\ e.state = d.state
      BY DEF Event
    <3>2. history' = <<e, Event("DecisionTaskScheduled", "", 0)>>
      BY <2>5 DEF StartsAnew
    <3> HIDE DEF e
    <3>3. history'[1] = e
      BY <3>2
    <3> QED BY <3>1, <3>3
  <2>7. d.ref \in Nat /\ prevStarted < d.ref /\ ContinuesAt(d, version)
    BY <2>5 DEF DecisionInv
  <2> HIDE DEF d, from
  <2>8. StateAfter(d.ref - 1) = StateAt(d.ref)
    <3>1. \A j \in Ids : j <= d.ref - 1 <=> j < d.ref
      BY <2>7, Typed DEF IInv, RunInv
    <3> QED BY <3>1 DEF StateAfter, StateAt
  <2> QED BY <2>6, <2>7, <2>8 DEF ContinuesAt, from
<1> QED BY <1>1, Invariance, PTL DEF Spec, ContinuedStateIsCurrent
=============================================================================
