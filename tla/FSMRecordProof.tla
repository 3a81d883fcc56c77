--------------------------- MODULE FSMRecordProof ---------------------------
(***************************************************************************)
(* The recorded states follow one another: RecordInv is an invariant, and  *)
(* VersionsFollow holds, for any workers, deciders, pages and faults.      *)
(***************************************************************************)
EXTENDS FSMRecord, FSMProof

LEMMA Typed ==
  ASSUME IInv
  PROVE  /\ history \in Seq(HistoryEvent) /\ Len(history) \in Nat
         /\ prevStarted \in Nat /\ prevStarted <= Len(history)
         /\ task.started \in Nat
         /\ \A i \in Ids : i \in Nat /\ history[i] \in HistoryEvent
         /\ \A w \in Workers : /\ pc[w] \in PCs /\ tick[w] \in Tick
                               /\ tick[w].started \in Nat /\ tick[w].prev \in Nat
                               /\ tick[w].decisions \in Seq(Decision)
                               /\ TickInv(pc[w], tick[w])
<1>1. TypeOK /\ HistoryInv
  BY DEF IInv
<1>2. history \in Seq(HistoryEvent) /\ Len(history) \in Nat
  BY <1>1 DEF TypeOK, ServiceTypeOK
<1>3. \A i \in Ids : i \in Nat /\ history[i] \in HistoryEvent
  BY <1>2 DEF Ids
<1>4. \A w \in Workers : tick[w] \in Tick /\ pc[w] \in PCs
  BY <1>1 DEF TypeOK
<1>5. prevStarted \in Nat /\ task.started \in Nat
  BY <1>1 DEF TypeOK, ServiceTypeOK
<1> QED BY <1>1, <1>2, <1>3, <1>4, <1>5 DEF IInv, HistoryInv, Tick

(* Elements of a sequence.                                                 *)
LEMMA SeqOf ==
  ASSUME NEW D, NEW S, NEW s \in Seq(D), \A k \in 1..Len(s) : s[k] \in S
  PROVE  s \in Seq(S)
  OBVIOUS

LEMMA ElementsOf ==
  ASSUME NEW S, NEW s \in Seq(S)
  PROVE  \A k \in 1..Len(s) : s[k] \in S
  OBVIOUS

(***************************************************************************)
(* The window of a task is settled when the task starts.                   *)
(***************************************************************************)
LEMMA WindowIds ==
  ASSUME NEW prev \in Nat, NEW started \in Nat, NEW i \in Window(prev, started)
  PROVE  i \in Nat /\ i \in 1..started /\ prev < i
  BY DEF Window, Page

LEMMA WindowKept ==
  ASSUME HistoryKept, history \in Seq(HistoryEvent),
         NEW prev \in Nat, NEW started \in Nat, started <= Len(history)
  PROVE  /\ ErrorEvents(history', prev, started) = ErrorEvents(history, prev, started)
         /\ LastEvents(history', prev, started) = LastEvents(history, prev, started)
         /\ LastEvents(history, prev, started) \subseteq Ids
<1>1. Len(history) \in Nat
  OBVIOUS
<1>2. \A i \in Window(prev, started) : i \in 1..Len(history) /\ history'[i] = history[i]
  BY <1>1, WindowIds DEF HistoryKept
<1> QED BY <1>2 DEF ErrorEvents, LastEvents, Ids

LEMMA TrackedKept ==
  ASSUME NEW pending, NEW H, \A i \in H : history'[i] = history[i]
  PROVE  Tracked(pending, H)' = Tracked(pending, H)
<1>1. Tracked(pending, H)'
        = {j \in pending \cup {i \in H : IsScheduled(history'[i])} :
             \A k \in H : Closed(history'[k]) => history'[k].ref # j}
  BY DEF Tracked, IsScheduled, Closed
<1>2. @ = {j \in pending \cup {i \in H : IsScheduled(history[i])} :
             \A k \in H : Closed(history[k]) => history[k].ref # j}
  OBVIOUS
<1> QED BY <1>1, <1>2 DEF Tracked

(* A tick that takes no part in a step.                                    *)
RecordKept == \A i \in Ids' : IsRecorded(i)' =>
                i \in Ids /\ IsRecorded(i) /\ Recorded(i)' = Recorded(i)

LEMMA TickKept ==
  ASSUME IInv, HistoryKept,
         NEW v \in Workers, tick'[v] = tick[v], pc[v] \in Working
  PROVE  /\ Errors(tick[v])' = Errors(tick[v]) /\ Events(tick[v])' = Events(tick[v])
         /\ Handled(tick[v])' = Handled(tick[v])
         /\ \A i \in Events(tick[v]) : history'[i] = history[i]
         /\ \A i \in Handled(tick[v]) : history'[i] = history[i]
<1> DEFINE t == tick[v]
<1>2. /\ t.started \in Nat /\ t.prev \in Nat /\ t.started <= Len(history)
      /\ history \in Seq(HistoryEvent)
  BY Typed DEF TickInv, TickPosition
<1>3. /\ Errors(tick[v])' = Errors(tick[v]) /\ Events(tick[v])' = Events(tick[v])
      /\ \A i \in Events(t) : history'[i] = history[i]
  <2>1. Events(t) \subseteq Ids
    BY <1>2, WindowKept DEF Events
  <2> QED BY <1>2, <2>1, WindowKept DEF Errors, Events, HistoryKept, Ids
<1>4. /\ Handled(tick[v])' = Handled(t)
      /\ \A i \in Handled(t) : history'[i] = history[i]
  BY <1>3 DEF Handled
<1> QED BY <1>3, <1>4

LEMMA OthersRecord ==
  ASSUME IInv, HistoryKept,
         NEW v \in Workers, pc'[v] = pc[v], tick'[v] = tick[v],
         RecordTick(pc[v], tick[v]),
         pc[v] \in Working /\ task' = StartedTask(tick[v].started)
           => task' = task /\ RecordKept
  PROVE  RecordTick(pc[v], tick[v])'
<1> DEFINE t == tick[v]
<1> SUFFICES ASSUME pc[v] \in Working
             PROVE  RecordTick(pc[v], tick[v])'
  BY DEF RecordTick
<1>1. /\ TickEvents(pc[v], t) /\ TickDecisions(pc[v], t) /\ TickFound(pc[v], t)
      /\ TickCarries(pc[v], t) /\ TickRecords(pc[v], t)
  BY DEF RecordTick
<1>3. /\ Errors(tick[v])' = Errors(tick[v]) /\ Events(tick[v])' = Events(tick[v])
      /\ \A i \in Events(t) : history'[i] = history[i]
  BY TickKept
<1>4. /\ Handled(tick[v])' = Handled(t)
      /\ \A i \in Handled(t) : history'[i] = history[i]
  BY TickKept
<1>5. ASSUME NEW pending
      PROVE  /\ Tracked(pending, Handled(tick[v]))' = Tracked(pending, Handled(t))
             /\ Tracked(pending, Events(tick[v]))' = Tracked(pending, Events(t))
  BY <1>3, <1>4, TrackedKept
<1>6. TickEvents(pc[v], tick[v])'
  BY <1>1, <1>3, <1>4 DEF TickEvents
<1>7. TickDecisions(pc[v], tick[v])'
  BY <1>1, <1>3 DEF TickDecisions, Asks, Recording, Reporting
<1>8. TickFound(pc[v], tick[v])'
  BY <1>1 DEF TickFound, Valid, RecordKept
<1>9. TickCarries(pc[v], tick[v])'
  BY <1>1, <1>3, <1>4, <1>5 DEF TickCarries
<1>10. TickRecords(pc[v], tick[v])'
  <2> SUFFICES ASSUME pc'[v] = "respond", ~tick'[v].failed, Valid(tick[v])',
                      NEW i \in Ids', IsRecorded(i)'
               PROVE  Succeeds(tick[v], Recorded(i))'
    BY DEF TickRecords
  <2>1. /\ Valid(t) /\ i \in Ids /\ IsRecorded(i) /\ Recorded(i)' = Recorded(i)
    BY DEF Valid, RecordKept
  <2>2. Succeeds(t, Recorded(i))
    BY <1>1, <2>1 DEF TickRecords
  <2> QED BY <1>3, <1>5, <2>1, <2>2 DEF Succeeds
<1> QED BY <1>6, <1>7, <1>8, <1>9, <1>10 DEF RecordTick

(***************************************************************************)
(* Steps of the environment, time-outs and the start of a task: the        *)
(* history grows by events that say nothing about states, completed tasks  *)
(* or failures that it did not say.                                        *)
(***************************************************************************)
Initiated(e) == e.type = "SignalExternalWorkflowExecutionInitiated"
Starting(e) == e.type \in {"DecisionTaskStarted", "DecisionTaskTimedOut"}

Mild(e) ==
  /\ ~HoldsState(e) /\ ~Initiated(e) /\ ~IsScheduled(e)
  /\ e.type # "DecisionTaskCompleted"
  /\ Closed(e) => e.ref \in Ids
  /\ isErrorSignal(e) => ~Clean
  /\ e.state.data.form # "nil"

MildEvents == {e \in HistoryEvent : Mild(e)}

(* A step that completes no task.                                          *)
MildGrowth ==
  /\ HistoryKept
  /\ \A i \in Ids' : \/ i \in Ids /\ history'[i] = history[i]
                     \/ i \notin Ids /\ i > Len(history) /\ Mild(history'[i])

LEMMA Newer ==
  ASSUME history \in Seq(HistoryEvent), HistoryKept
  PROVE  /\ Ids \subseteq Ids' /\ \A i \in Ids : history'[i] = history[i]
         /\ \A i \in Ids' : i \in Nat /\ (i \notin Ids => i > Len(history))
         /\ \A i \in Ids : i \in Nat /\ i <= Len(history)
         /\ Len(history) \in Nat /\ Len(history') \in Nat
         /\ Ids = 1..Len(history) /\ Ids' = 1..Len(history')
  BY DEF HistoryKept, Ids

LEMMA MildGrows ==
  ASSUME history \in Seq(HistoryEvent), NEW es \in Seq(MildEvents),
         history' = history \o es
  PROVE  /\ MildGrowth
         /\ \A i \in Ids' \ Ids : \E k \in 1..Len(es) : history'[i] = es[k]
<1>1. es \in Seq(HistoryEvent) /\ \A k \in 1..Len(es) : Mild(es[k])
  BY DEF MildEvents
<1>2. Grows(es)
  BY <1>1, Growing
<1>3. HistoryKept
  BY <1>1, <1>2, GrowingKeeps
<1>4. \A i \in Ids' \ Ids : \E k \in 1..Len(es) : history'[i] = es[k]
  BY <1>2, <1>3, Newer DEF Grows
<1>5. \A i \in Ids' : i \in Ids => history'[i] = history[i]
  BY <1>3, Newer
<1> QED BY <1>1, <1>3, <1>4, <1>5, Newer DEF MildGrowth

(* The last completed tasks and the newest state are what they were.       *)
LEMMA MildFacts ==
  ASSUME history \in Seq(HistoryEvent), MildGrowth
  PROVE  /\ Clean' <=> Clean
         /\ CompletedAt' = CompletedAt
         /\ \A i : IsRecorded(i)' <=> IsRecorded(i)
         /\ \A i \in Ids : Recorded(i)' = Recorded(i)
         /\ RecordKept
<1>0. HistoryKept
  BY DEF MildGrowth
<1>1. /\ Ids \subseteq Ids' /\ \A i \in Ids : history'[i] = history[i]
      /\ \A i \in Ids : i \in Nat /\ i <= Len(history)
      /\ Len(history) \in Nat /\ Ids = 1..Len(history) /\ Ids' = 1..Len(history')
      /\ \A i \in Ids' : i \in Nat
      /\ Len(history') \in Nat
  BY <1>0, Newer
<1>2. \A i \in Ids' : i \in Ids \/ (i > Len(history) /\ Mild(history'[i]))
  BY DEF MildGrowth
<1>3. Clean' <=> Clean
  BY <1>1, <1>2 DEF Clean, Mild, Initiated
<1>4. {j \in Ids' : HoldsState(history'[j])} = {j \in Ids : HoldsState(history[j])}
  BY <1>1, <1>2 DEF Mild
<1>5. \A i : IsRecorded(i)' <=> IsRecorded(i)
  BY <1>4 DEF IsRecorded, IsNewest, HoldsState, isStateMarker
<1>6. \A i \in Ids : Recorded(i)' = Recorded(i)
  BY <1>1 DEF Recorded, findSerializedState
<1>7. \A i : IsRecorded(i) => i \in Ids
  BY DEF IsRecorded, IsNewest
<1>8. \A s : s \in CompletedAt => s \in CompletedAt'
  <2> SUFFICES ASSUME NEW s \in CompletedAt
               PROVE  s \in CompletedAt'
    OBVIOUS
  <2>1. s \in Ids /\ history[s].type = "DecisionTaskStarted"
    BY DEF CompletedAt
  <2>2. PICK c \in Ids :
          /\ s < c /\ history[c].type = "DecisionTaskCompleted"
          /\ \A k \in (s + 1)..(c - 1) :
               history[k].type # "DecisionTaskStarted"
               /\ history[k].type # "DecisionTaskTimedOut"
    BY DEF CompletedAt
  <2>3. \A k \in (s + 1)..(c - 1) : k \in Ids
    BY <1>1, <2>1, <2>2
  <2>4. /\ c \in Ids' /\ s < c /\ history'[c].type = "DecisionTaskCompleted"
        /\ \A k \in (s + 1)..(c - 1) :
               history'[k].type # "DecisionTaskStarted"
               /\ history'[k].type # "DecisionTaskTimedOut"
    BY <1>1, <2>2, <2>3
  <2>5. s \in Ids' /\ history'[s].type = "DecisionTaskStarted"
    BY <1>1, <2>1
  <2> QED BY <2>4, <2>5 DEF CompletedAt
<1>9. \A s : s \in CompletedAt' => s \in CompletedAt
  <2> SUFFICES ASSUME NEW s \in CompletedAt'
               PROVE  s \in CompletedAt
    OBVIOUS
  <2>1. s \in Ids' /\ history'[s].type = "DecisionTaskStarted"
    BY DEF CompletedAt
  <2>2. PICK c \in Ids' :
          /\ s < c /\ history'[c].type = "DecisionTaskCompleted"
          /\ \A k \in (s + 1)..(c - 1) :
               history'[k].type # "DecisionTaskStarted"
               /\ history'[k].type # "DecisionTaskTimedOut"
    BY DEF CompletedAt
  <2>3. c \in Ids
    BY <1>2, <2>2 DEF Mild
  <2>4. s \in Ids /\ \A k \in (s + 1)..(c - 1) : k \in Ids
    BY <1>1, <2>1, <2>2, <2>3
  <2> QED BY <1>1, <2>1, <2>2, <2>3, <2>4 DEF CompletedAt
<1>10. CompletedAt' = CompletedAt
  BY <1>8, <1>9
<1> QED BY <1>3, <1>5, <1>6, <1>7, <1>10 DEF RecordKept

LEMMA MildEventsInv ==
  ASSUME history \in Seq(HistoryEvent), MildGrowth, EventsInv
  PROVE  EventsInv'
<1>1. /\ Clean' <=> Clean
      /\ \A i : IsRecorded(i)' <=> IsRecorded(i)
  BY MildFacts
<1>2. HistoryKept
  BY DEF MildGrowth
<1>3. \E i \in Ids' : IsRecorded(i)'
  BY <1>1, <1>2, Newer DEF EventsInv
<1>4. ASSUME NEW i \in Ids'
      PROVE  /\ Closed(history'[i]) => history'[i].ref < i
             /\ isErrorSignal(history'[i]) => ~Clean
             /\ history'[i].state.data.form # "nil"
  <2>1. CASE i \in Ids /\ history'[i] = history[i]
    BY <2>1 DEF EventsInv
  <2>2. CASE i > Len(history) /\ Mild(history'[i])
    <3>1. history'[i].ref \in Ids => history'[i].ref < i
      BY <1>2, <2>2, Newer
    <3> QED BY <2>2, <3>1 DEF Mild
  <2> QED BY <2>1, <2>2 DEF MildGrowth
<1> QED BY <1>1, <1>3, <1>4 DEF EventsInv, Closed, isErrorSignal

LEMMA PlainEventMild ==
  ASSUME NEW type \in EventTypes, NEW label \in Labels, NEW ref \in Nat,
         type \notin {"MarkerRecorded", "WorkflowExecutionStarted",
                      "SignalExternalWorkflowExecutionInitiated",
                      "ActivityTaskScheduled", "DecisionTaskCompleted"},
         label \notin {ErrorSignal, SystemErrorSignal},
         type \in ActivityClosed => ref \in Ids
  PROVE  Event(type, label, ref) \in MildEvents
<1> DEFINE e == Event(type, label, ref)
<1>1. /\ e \in HistoryEvent /\ e.type = type /\ e.label = label /\ e.ref = ref
      /\ e.state = NoState
  BY EventType DEF Event
<1>2. NoState.data.form # "nil"
  BY DEF NoState, ZeroData
<1> HIDE DEF e
<1>3. Mild(e)
  BY <1>1, <1>2 DEF Mild, HoldsState, isStateMarker, Initiated, IsScheduled,
                    Closed, isErrorSignal
<1> QED BY <1>1, <1>3 DEF MildEvents, e

(* A step of the environment or a time-out, as the ticks see it.           *)
MildStep ==
  /\ MildGrowth
  /\ \/ task' = ScheduledTask
     \/ task' = task /\ \A i \in Ids' \ Ids : ~Starting(history'[i])
  /\ UNCHANGED <<prevStarted, pc, tick, stream>>

LEMMA AddEventsMild ==
  ASSUME IInv, NEW es \in Seq(MildEvents), AddEvents(es),
         \A k \in 1..Len(es) : ~Starting(es[k])
  PROVE  /\ MildGrowth
         /\ \/ task' = ScheduledTask
            \/ task' = task /\ \A i \in Ids' \ Ids : ~Starting(history'[i])
<1> DEFINE e == Event("DecisionTaskScheduled", "", 0)
<1>1. e \in MildEvents /\ ~Starting(e)
  BY PlainEventMild DEF EventTypes, Labels, ErrorSignal, SystemErrorSignal,
                        ActivityClosed, Starting, Event
<1> HIDE DEF e
<1>2. history \in Seq(HistoryEvent)
  BY Typed
<1>3. CASE task.status = "none"
  <2>1. <<e>> \in Seq(MildEvents)
    BY <1>1
  <2>2. es \o <<e>> \in Seq(MildEvents) /\ history' = history \o (es \o <<e>>)
    BY <1>3, <2>1, ConcatProperties DEF AddEvents, Scheduling, e
  <2> QED BY <1>2, <1>3, <2>2, MildGrows DEF AddEvents
<1>4. CASE task.status # "none"
  <2>1. es \o <<>> = es
    OBVIOUS
  <2>2. history' = history \o es /\ task' = task
    BY <1>4, <2>1 DEF AddEvents, Scheduling
  <2>3. /\ MildGrowth
        /\ \A i \in Ids' \ Ids : \E k \in 1..Len(es) : history'[i] = es[k]
    BY <1>2, <2>2, MildGrows
  <2> QED BY <2>2, <2>3
<1> QED BY <1>3, <1>4

LEMMA EnvironmentMild ==
  ASSUME IInv, EventsInv, Environment \/ TimeOutAbandoned \/ TimeOutSlow
  PROVE  MildStep
<1>1. /\ history \in Seq(HistoryEvent)
      /\ \A i \in Ids : i \in Nat /\ history[i] \in HistoryEvent
  BY Typed
<1>2. CASE Signal
  <2> DEFINE e == Event("WorkflowExecutionSignaled", "user", 0)
  <2>1. e \in MildEvents /\ ~Starting(e)
    BY PlainEventMild DEF EventTypes, Labels, UserLabels, ErrorSignal,
                          SystemErrorSignal, ActivityClosed, Starting, Event
  <2>2. AddEvents(<<e>>) /\ UNCHANGED <<pc, tick, stream>>
    BY <1>2 DEF Signal, SignalWorkflow
  <2> HIDE DEF e
  <2>3. <<e>> \in Seq(MildEvents) /\ \A k \in 1..Len(<<e>>) : ~Starting(<<e>>[k])
    BY <2>1, Singleton
  <2> QED BY <2>2, <2>3, AddEventsMild DEF MildStep, AddEvents
<1>3. CASE ActivityCloses
  <2>1. PICK i \in Ids, type \in Closings : CloseActivity(i, type)
    BY <1>3 DEF ActivityCloses, Ids
  <2> DEFINE e == Event(type, "", i)
  <2>2. type \in ActivityClosed /\ type \in EventTypes
    BY ClosingsAssumption DEF ActivityClosed, EventTypes
  <2>3. e \in MildEvents
    BY <1>1, <2>2, PlainEventMild DEF Labels, ErrorSignal, SystemErrorSignal,
                                      ActivityClosed
  <2>4. ~Starting(e)
    BY <2>2 DEF Starting, Event, ActivityClosed
  <2>5. AddEvents(<<e>>) /\ UNCHANGED <<pc, tick, stream>>
    BY <1>3, <2>1 DEF ActivityCloses, CloseActivity
  <2> HIDE DEF e
  <2>6. <<e>> \in Seq(MildEvents) /\ \A k \in 1..Len(<<e>>) : ~Starting(<<e>>[k])
    BY <2>3, <2>4, Singleton
  <2> QED BY <2>5, <2>6, AddEventsMild DEF MildStep, AddEvents
<1>4. CASE ErrorSignalArrives
  <2>1. PICK i \in Ids : DeliverSignal(i)
    BY <1>4 DEF ErrorSignalArrives, Ids
  <2> DEFINE d == [history[i] EXCEPT !.type = "WorkflowExecutionSignaled"]
             e == Event("ExternalWorkflowExecutionSignaled", "", i)
  <2>2. Initiated(history[i]) /\ ~Clean
    BY <2>1 DEF DeliverSignal, Initiated, Clean
  <2>3. d \in HistoryEvent /\ d.type = "WorkflowExecutionSignaled"
        /\ d.state = history[i].state
    BY <1>1 DEF HistoryEvent, EventTypes
  <2>4. d.state.data.form # "nil"
    BY <2>3 DEF EventsInv
  <2>5. Mild(d) /\ ~Starting(d)
    BY <2>2, <2>3, <2>4 DEF Mild, HoldsState, isStateMarker, Initiated,
                            IsScheduled, Closed, ActivityClosed, Starting
  <2>6. e \in MildEvents /\ ~Starting(e)
    BY <1>1, PlainEventMild DEF EventTypes, Labels, ErrorSignal,
                        SystemErrorSignal, ActivityClosed, Starting, Event
  <2>7. AddEvents(<<d, e>>) /\ UNCHANGED <<pc, tick, stream>>
    BY <1>4, <2>1 DEF ErrorSignalArrives, DeliverSignal
  <2>8. d \in MildEvents
    BY <2>3, <2>5 DEF MildEvents
  <2> HIDE DEF d, e
  <2>9. /\ <<d, e>> \in Seq(MildEvents)
        /\ \A k \in 1..Len(<<d, e>>) : ~Starting(<<d, e>>[k])
    BY <2>5, <2>6, <2>8
  <2> QED BY <2>7, <2>9, AddEventsMild DEF MildStep, AddEvents
<1>5. CASE TimeOutAbandoned \/ TimeOutSlow
  <2> DEFINE d == Event("DecisionTaskTimedOut", "", 0)
             e == Event("DecisionTaskScheduled", "", 0)
  <2>1. TimeOutTask /\ UNCHANGED <<pc, tick, stream>>
    BY <1>5 DEF TimeOutAbandoned, TimeOutSlow, worker
  <2>2. d \in MildEvents /\ e \in MildEvents
    BY PlainEventMild DEF EventTypes, Labels, ErrorSignal, SystemErrorSignal,
                          ActivityClosed
  <2>3. /\ history' = history \o <<d, e>> /\ task' = ScheduledTask
        /\ prevStarted' = prevStarted
    BY <2>1 DEF TimeOutTask
  <2> HIDE DEF d, e
  <2>4. <<d, e>> \in Seq(MildEvents)
    BY <2>2
  <2> QED BY <1>1, <2>1, <2>3, <2>4, MildGrows DEF MildStep
<1> QED BY <1>2, <1>3, <1>4, <1>5 DEF Environment

LEMMA MildStepRecord ==
  ASSUME IInv, RecordInv, MildStep
  PROVE  RecordInv'
<1>1. /\ history \in Seq(HistoryEvent) /\ prevStarted' = prevStarted
      /\ MildGrowth /\ HistoryKept
  BY Typed DEF MildStep, MildGrowth
<1>2. EventsInv'
  BY <1>1, MildEventsInv DEF RecordInv
<1>3. PrevStartedInv'
  BY <1>1, MildFacts DEF RecordInv, PrevStartedInv
<1>4. TaskInv'
  <2>1. CASE task' = ScheduledTask
    BY <2>1 DEF TaskInv, ScheduledTask
  <2>2. CASE /\ task' = task
             /\ \A i \in Ids' \ Ids : ~Starting(history'[i])
    <3> SUFFICES ASSUME task.status = "started"
                 PROVE  TaskInv'
      BY <2>2 DEF TaskInv
    <3>1. task.started \in Ids
      BY Typed DEF IInv, HistoryInv, Ids
    <3>2. history'[task.started].type = "DecisionTaskStarted"
      BY <1>1, <3>1, Newer DEF RecordInv, TaskInv
    <3>3. ASSUME NEW k \in Ids', k > task.started
          PROVE  /\ history'[k].type \notin
                      {"DecisionTaskStarted", "DecisionTaskTimedOut"}
                 /\ ~HoldsState(history'[k])
      <4>1. CASE k \in Ids
        BY <1>1, <3>3, <4>1, Newer DEF RecordInv, TaskInv
      <4>2. CASE k \notin Ids
        BY <1>1, <2>2, <4>2 DEF MildGrowth, Mild, Starting
      <4> QED BY <4>1, <4>2
    <3> QED BY <2>2, <3>2, <3>3 DEF TaskInv, HoldsState, isStateMarker
  <2> QED BY <2>1, <2>2 DEF MildStep
<1>5. ASSUME NEW v \in Workers
      PROVE  RecordTick(pc[v], tick[v])'
  <2>1. task' = StartedTask(tick[v].started) => task' = task
    BY DEF MildStep, ScheduledTask, StartedTask
  <2>2. RecordKept
    BY <1>1, MildFacts
  <2> QED BY <1>1, <2>1, <2>2, OthersRecord DEF MildStep, RecordInv
<1> QED BY <1>2, <1>3, <1>4, <1>5 DEF RecordInv

(***************************************************************************)
(* A worker polls: its window is what the task's page shows.               *)
(***************************************************************************)
LEMMA PollMild ==
  ASSUME IInv, NEW w \in Workers, PollForTask(w)
  PROVE  LET n == Len(history) + 1 IN
         /\ MildGrowth /\ HistoryKept
         /\ Len(history') = n /\ history'[n].type = "DecisionTaskStarted"
<1> DEFINE e == Event("DecisionTaskStarted", "", 0)
           n == Len(history) + 1
<1>1. /\ history \in Seq(HistoryEvent) /\ Len(history) \in Nat
  BY Typed
<1>2. history' = Append(history, e)
  BY DEF PollForTask, StartTask
<1>3. e \in MildEvents /\ e.type = "DecisionTaskStarted"
  BY PlainEventMild DEF EventTypes, Labels, ErrorSignal, SystemErrorSignal,
                        ActivityClosed, Event
<1> HIDE DEF e
<1>4. e \in HistoryEvent
  BY <1>3 DEF MildEvents
<1>5. history' = history \o <<e>>
  BY <1>1, <1>2, <1>4, AppendIsConcat
<1>6. <<e>> \in Seq(MildEvents)
  BY <1>3
<1>7. Len(history') = n /\ history'[n] = e
  BY <1>1, <1>2, <1>4, AppendProperties
<1> QED BY <1>1, <1>3, <1>5, <1>6, <1>7, MildGrows DEF MildGrowth

LEMMA PollRecord ==
  ASSUME IInv, RecordInv, NEW w \in Workers, PollForTask(w)
  PROVE  RecordInv'
<1> DEFINE n == Len(history) + 1
           t == [IdleTick EXCEPT !.prev = prevStarted, !.started = n,
                                 !.errs = ErrorEvents(history', prevStarted, n),
                                 !.todo = LastEvents(history', prevStarted, n)]
<1>1. /\ TypeOK /\ history \in Seq(HistoryEvent) /\ Len(history) \in Nat
      /\ prevStarted \in Nat /\ n \in Nat
  BY Typed DEF IInv
<1>2. /\ task' = StartedTask(n)
      /\ Go(w, "begin", t) /\ prevStarted' = prevStarted
  BY DEF PollForTask, StartTask
<1>4. /\ MildGrowth /\ HistoryKept
      /\ Len(history') = n /\ history'[n].type = "DecisionTaskStarted"
  BY PollMild
<1>5. /\ ErrorEvents(history', prevStarted, n) \in SUBSET Nat
      /\ LastEvents(history', prevStarted, n) \in SUBSET Nat
  BY <1>1, PageIds
<1>6. /\ t \in Tick /\ t.prev = prevStarted /\ t.started = n
      /\ t.errs = ErrorEvents(history', prevStarted, n)
      /\ t.todo = LastEvents(history', prevStarted, n)
      /\ t.version = 0 /\ t.decisions = <<>>
  <2>1. IdleTick \in Tick
    BY DataTypes
  <2>2. t \in Tick
    BY <1>1, <1>5, <2>1 DEF Tick
  <2> QED BY <2>2 DEF IdleTick
<1> HIDE DEF t
<1>7. /\ pc'[w] = "begin" /\ tick'[w] = t
      /\ \A v \in Workers \ {w} : pc'[v] = pc[v] /\ tick'[v] = tick[v]
  BY <1>1, <1>2, <1>6, GoType DEF PCs
<1>8. EventsInv'
  BY <1>1, <1>4, MildEventsInv DEF RecordInv
<1>9. PrevStartedInv'
  BY <1>1, <1>2, <1>4, MildFacts DEF RecordInv, PrevStartedInv
<1>10. TaskInv'
  <2>1. task'.started = n
    BY <1>2 DEF StartedTask
  <2>2. \A k \in Ids' : ~(k > n)
    BY <1>1, <1>4, Newer
  <2> QED BY <1>4, <2>1, <2>2 DEF TaskInv
<1>11. RecordTick(pc[w], tick[w])'
  <2>1. /\ Errors(tick[w])' = t.errs /\ Events(tick[w])' = t.todo
        /\ Handled(tick[w])' = {}
    BY <1>6, <1>7 DEF Errors, Events, Handled
  <2>2. TickEvents(pc[w], tick[w])'
    BY <1>7, <2>1 DEF TickEvents
  <2>3. TickDecisions(pc[w], tick[w])'
    BY <1>6, <1>7 DEF TickDecisions
  <2>4. TickFound(pc[w], tick[w])' /\ TickRecords(pc[w], tick[w])'
    BY <1>7 DEF TickFound, TickRecords
  <2>5. TickCarries(pc[w], tick[w])'
    BY <1>6, <1>7 DEF TickCarries
  <2> QED BY <2>2, <2>3, <2>4, <2>5 DEF RecordTick
<1>12. ASSUME NEW v \in Workers, v # w
       PROVE  RecordTick(pc[v], tick[v])'
  <2>1. pc'[v] = pc[v] /\ tick'[v] = tick[v]
    BY <1>7, <1>12
  <2>2. pc[v] \in Working => task' # StartedTask(tick[v].started)
    <3>1. tick[v].started \in Nat
      BY Typed
    <3>2. pc[v] \in Working => tick[v].started <= Len(history)
      BY Typed DEF TickInv, TickPosition
    <3> QED BY <1>1, <1>2, <3>1, <3>2 DEF StartedTask
  <2> QED BY <1>4, <2>1, <2>2, OthersRecord DEF RecordInv
<1> QED BY <1>8, <1>9, <1>10, <1>11, <1>12 DEF RecordInv

(***************************************************************************)
(* The steps of Tick touch nothing but the tick.                           *)
(***************************************************************************)
LEMMA RecordLocal ==
  ASSUME IInv, RecordInv, NEW w \in Workers, NEW label \in PCs, NEW t \in Tick,
         Go(w, label, t), UNCHANGED <<history, task, prevStarted>>,
         RecordTick(label, t)
  PROVE  RecordInv'
<1>1. /\ pc'[w] = label /\ tick'[w] = t
      /\ \A v \in Workers \ {w} : pc'[v] = pc[v] /\ tick'[v] = tick[v]
  BY GoType DEF IInv
<1>2. \A i : /\ IsRecorded(i)' <=> IsRecorded(i)
             /\ Recorded(i)' = Recorded(i)
  BY DEF IsRecorded, Recorded, Ids
<1>3. EventsInv' /\ PrevStartedInv' /\ TaskInv'
  <2>1. Clean' <=> Clean
    BY DEF Clean, Ids
  <2>2. CompletedAt' = CompletedAt
    BY DEF CompletedAt, Ids
  <2>3. EventsInv'
    BY <1>2, <2>1 DEF RecordInv, EventsInv, Ids, Closed, isErrorSignal
  <2>4. PrevStartedInv'
    BY <2>2 DEF RecordInv, PrevStartedInv
  <2>5. TaskInv'
    BY DEF RecordInv, TaskInv, Ids, HoldsState, isStateMarker
  <2> QED BY <2>3, <2>4, <2>5
<1>4. HistoryKept /\ RecordKept
  BY <1>2, Typed DEF HistoryKept, RecordKept, Ids
<1>5. ASSUME NEW v \in Workers, v # w
      PROVE  RecordTick(pc[v], tick[v])'
  BY <1>1, <1>4, <1>5, OthersRecord DEF RecordInv
<1>6. RecordTick(pc[w], tick[w])'
  <2>1. /\ Errors(tick[w])' = Errors(t) /\ Events(tick[w])' = Events(t)
        /\ Handled(tick[w])' = Handled(t)
    BY <1>1 DEF Errors, Events, Handled
  <2>2. \A pending, H : Tracked(pending, H)' = Tracked(pending, H)
    BY DEF Tracked, IsScheduled, Closed
  <2>3. TickEvents(label, t) => TickEvents(pc[w], tick[w])'
    BY <1>1, <2>1 DEF TickEvents
  <2>4. TickDecisions(label, t) => TickDecisions(pc[w], tick[w])'
    BY <1>1, <2>1 DEF TickDecisions, Asks, Recording, Reporting
  <2>5. TickFound(label, t) => TickFound(pc[w], tick[w])'
    BY <1>1, <1>2 DEF TickFound, Valid, Ids
  <2>6. TickCarries(label, t) => TickCarries(pc[w], tick[w])'
    BY <1>1, <2>1, <2>2 DEF TickCarries
  <2>7. TickRecords(label, t) => TickRecords(pc[w], tick[w])'
    BY <1>1, <1>2, <2>1, <2>2 DEF TickRecords, Succeeds, Valid, Ids
  <2> QED BY <1>1, <2>3, <2>4, <2>5, <2>6, <2>7 DEF RecordTick
<1> QED BY <1>1, <1>3, <1>5, <1>6 DEF RecordInv

(* A tick that gives up.                                                   *)
LEMMA ReportDecisions ==
  ASSUME NEW signal \in {ErrorSignal, SystemErrorSignal},
         NEW report \in ErrorReport
  PROVE  LET d == captureError(signal, report)
         IN  Reporting(d) /\ d.state.data.form = "ok"
  BY DEF captureError, NewDecision, Reporting, NoState, ZeroData

LEMMA GiveUpTick ==
  ASSUME NEW t \in Tick, NEW label \in Deciding, RecordTick(label, t),
         NEW d \in Decision, Reporting(d), d.state.data.form # "nil"
  PROVE  Failing(t, d) \in Tick /\ RecordTick("respond", Failing(t, d))
<1> DEFINE f == Failing(t, d)
           ds == t.decisions
<1>1. ds \in Seq(Decision) /\ Len(ds) \in Nat
  BY DEF Tick
<1>2. /\ Append(ds, d) \in Seq(Decision)
      /\ Len(Append(ds, d)) = Len(ds) + 1
      /\ \A k \in 1..Len(ds) : Append(ds, d)[k] = ds[k]
      /\ Append(ds, d)[Len(ds) + 1] = d
  BY <1>1, AppendProperties
<1>3. /\ f \in Tick /\ f.decisions = Append(ds, d) /\ f.failed = TRUE
      /\ f.prev = t.prev /\ f.started = t.started /\ f.errs = t.errs
      /\ f.todo = t.todo
  BY <1>2 DEF Failing, Tick
<1>4. \A k \in 1..Len(f.decisions) : k \in 1..Len(ds) \/ k = Len(ds) + 1
  BY <1>1, <1>2, <1>3
<1>5. TickEvents(label, t) /\ TickDecisions(label, t)
  BY DEF RecordTick, Working
<1> HIDE DEF f
<1>6. Errors(f) = Errors(t) /\ Events(f) = Events(t) /\ Handled(f) = Handled(t)
  BY <1>3 DEF Errors, Events, Handled
<1>7. TickEvents("respond", f)
  BY <1>3, <1>5, <1>6 DEF TickEvents
<1>8. TickDecisions("respond", f)
  <2>1. ASSUME NEW k \in 1..Len(f.decisions)
        PROVE  /\ Asks(f.decisions[k]) =>
                    f.decisions[k].ref \in Events(f) \cup Errors(f)
               /\ ~Recording(f.decisions[k])
               /\ f.decisions[k].state.data.form # "nil"
    <3>1. CASE k \in 1..Len(ds)
      BY <1>2, <1>3, <1>5, <1>6, <3>1 DEF TickDecisions, Deciding
    <3>2. CASE k = Len(ds) + 1
      BY <1>2, <1>3, <3>2 DEF Reporting, Asks, Recording
    <3> QED BY <1>4, <3>1, <3>2
  <2>2. \E k \in 1..Len(f.decisions) : Reporting(f.decisions[k])
    <3>1. Len(ds) + 1 \in 1..Len(f.decisions) /\ f.decisions[Len(ds) + 1] = d
      BY <1>1, <1>2, <1>3
    <3> QED BY <3>1
  <2> QED BY <2>1, <2>2 DEF TickDecisions
<1>9. TickFound("respond", f) /\ TickCarries("respond", f)
  BY DEF TickFound, TickCarries
<1>10. TickRecords("respond", f)
  BY <1>3 DEF TickRecords
<1> QED BY <1>3, <1>7, <1>8, <1>9, <1>10 DEF RecordTick, f

LEMMA GiveUpRecord ==
  ASSUME IInv, RecordInv, NEW w \in Workers, pc[w] \in Deciding,
         NEW signal \in {ErrorSignal, SystemErrorSignal},
         NEW report \in ErrorReport,
         Go(w, "respond", Failing(tick[w], captureError(signal, report))),
         UNCHANGED <<history, task, prevStarted>>
  PROVE  RecordInv'
<1> DEFINE d == captureError(signal, report)
<1>1. d \in Decision /\ Reporting(d) /\ d.state.data.form # "nil"
  <2>1. d \in Decision
    BY captureErrorProps
  <2>2. Reporting(d) /\ d.state.data.form = "ok"
    BY ReportDecisions
  <2> QED BY <2>1, <2>2
<1>2. tick[w] \in Tick /\ RecordTick(pc[w], tick[w])
  BY Typed DEF RecordInv
<1> HIDE DEF d
<1>3. Failing(tick[w], d) \in Tick /\ RecordTick("respond", Failing(tick[w], d))
  BY <1>1, <1>2, GiveUpTick
<1> QED BY <1>3, RecordLocal DEF PCs, d

(* The reports of the machinery are reports.                               *)
LEMMA ReportsTyped ==
  ASSUME NEW ids \in SUBSET Nat
  PROVE  /\ \A type \in ErrorTypes :
              [NoReport EXCEPT !.type = type, !.unprocessed = eventIDs(ids)]
                \in ErrorReport
         /\ \A i \in Nat, state \in StateNames, data \in Data :
              [type |-> "", failed |-> i,
               unprocessed |-> eventIDs({j \in ids : j < i}),
               state |-> state, data |-> Stored(data)] \in ErrorReport
<1>1. /\ eventIDs(ids) \in SUBSET Nat /\ NoReport \in ErrorReport
      /\ \A i \in Nat : eventIDs({j \in ids : j < i}) \in SUBSET Nat
  BY eventIDsType, DataTypes
<1>2. \A type \in ErrorTypes :
        [NoReport EXCEPT !.type = type, !.unprocessed = eventIDs(ids)] \in ErrorReport
  BY <1>1 DEF ErrorReport
<1>3. ASSUME NEW i \in Nat, NEW state \in StateNames, NEW data \in Data
      PROVE  [type |-> "", failed |-> i,
              unprocessed |-> eventIDs({j \in ids : j < i}),
              state |-> state, data |-> Stored(data)] \in ErrorReport
  BY <1>1, StoredType DEF ErrorReport, ErrorTypes
<1> QED BY <1>2, <1>3

LEMMA SystemErrorRecord ==
  ASSUME IInv, RecordInv, NEW w \in Workers, pc[w] \in Deciding,
         NEW type \in ErrorTypes, NEW ids \in SUBSET Nat,
         Go(w, "respond", Failing(tick[w], captureSystemError(type, ids))), Local
  PROVE  RecordInv'
<1> DEFINE report == [NoReport EXCEPT !.type = type, !.unprocessed = eventIDs(ids)]
<1>1. report \in ErrorReport
  BY ReportsTyped
<1>2. captureSystemError(type, ids) = captureError(SystemErrorSignal, report)
  BY DEF captureSystemError
<1> HIDE DEF report
<1> QED BY <1>1, <1>2, GiveUpRecord DEF Local

LEMMA DecisionErrorRecord ==
  ASSUME IInv, RecordInv, NEW w \in Workers, pc[w] \in Deciding,
         NEW i \in Nat, NEW ids \in SUBSET Nat,
         Go(w, "respond", Failing(tick[w],
              captureDecisionError(i, ids, tick[w].state, tick[w].data))), Local
  PROVE  RecordInv'
<1> DEFINE t == tick[w]
           report == [type |-> "", failed |-> i,
                      unprocessed |-> eventIDs({j \in ids : j < i}),
                      state |-> t.state, data |-> Stored(t.data)]
<1>1. t.state \in StateNames /\ t.data \in Data
  BY Typed DEF Tick
<1>2. report \in ErrorReport
  BY <1>1, ReportsTyped
<1>3. captureDecisionError(i, ids, t.state, t.data) = captureError(ErrorSignal, report)
  BY DEF captureDecisionError
<1> HIDE DEF report
<1> QED BY <1>2, <1>3, GiveUpRecord DEF Local

(***************************************************************************)
(* findSerializedState: the marker on the page is the newest there is when  *)
(* the task is still the outstanding one.                                  *)
(***************************************************************************)
LEMMA FoundIsNewest ==
  ASSUME IInv, RecordInv, NEW w \in Workers, pc[w] \in Working, Valid(tick[w]),
         NEW i, IsNewest(i, StateEvents(history, tick[w].started)),
         NEW j \in Ids, IsRecorded(j)
  PROVE  i = j
<1> DEFINE n == tick[w].started
<1>1. n \in Nat /\ n <= Len(history) /\ Len(history) \in Nat
  BY Typed DEF TickInv, TickPosition
<1>2. task.started = n /\ task.status = "started"
  BY DEF Valid, StartedTask
<1>3. \A k \in Ids : k > n => ~HoldsState(history[k])
  BY <1>2 DEF RecordInv, TaskInv
<1>4. HoldsState(history[j]) /\ \A k \in Ids : HoldsState(history[k]) => k <= j
  BY DEF IsRecorded, IsNewest
<1>5. i \in Page(n) /\ HoldsState(history[i])
      /\ \A k \in Page(n) : HoldsState(history[k]) => k <= i
  BY DEF IsNewest, StateEvents
<1>6. i \in Ids /\ i \in Nat /\ j \in Nat /\ i <= j
  BY <1>1, <1>4, <1>5 DEF Page, Ids
<1>7. j <= n
  BY <1>1, <1>3, <1>4, <1>6
<1>8. j \in Page(n)
  BY <1>1, <1>5, <1>6, <1>7, PageAssumption DEF Page, Ids
<1> QED BY <1>4, <1>5, <1>6, <1>8

LEMMA FoundProps ==
  ASSUME NEW e \in HistoryEvent
  PROVE  /\ findSerializedState(e) \in SerializedState
         /\ findSerializedState(e).version = e.state.version
         /\ findSerializedState(e).data = e.state.data
         /\ findSerializedState(e).pending = e.state.pending
<1>1. e.state \in SerializedState /\ initialState \in StateNames
  BY StatesAssumption DEF HistoryEvent, StateNames
<1> QED BY <1>1 DEF findSerializedState, SerializedState

LEMMA FindStateRecord ==
  ASSUME IInv, RecordInv, NEW w \in Workers, FindState(w)
  PROVE  RecordInv'
<1> DEFINE t == tick[w]
           S == StateEvents(history, t.started)
           Found(s) == [t EXCEPT !.saved = s, !.pending = s.pending,
                                 !.state = IF t.errs = {} THEN "" ELSE errorState,
                                 !.data = IF t.errs = {} THEN NilData ELSE ZeroData]
<1>1. /\ t \in Tick /\ t.started \in Nat /\ t.started <= Len(history)
      /\ Len(history) \in Nat /\ pc[w] = "begin" /\ pc[w] \in Deciding
      /\ pc[w] \in Working /\ Local /\ RecordTick("begin", t)
  BY Typed DEF FindState, Deciding, Working, RecordInv, TickInv, TickPosition
<1>2. CASE Go(w, "respond", Failing(t, captureSystemError("FindSerializedStateError",
                                                          Page(t.started))))
  BY <1>1, <1>2, PageIds, SystemErrorRecord DEF ErrorTypes
<1>3. ASSUME NEW i \in S, IsNewest(i, S),
             Go(w, "errors", Found(findSerializedState(history[i])))
      PROVE  RecordInv'
  <2> DEFINE s == findSerializedState(history[i])
             t1 == Found(s)
  <2>1. i \in Ids /\ history[i] \in HistoryEvent
    BY <1>1, Typed DEF StateEvents, Page, Ids
  <2>2. s \in SerializedState /\ s.data = history[i].state.data
    BY <2>1, FoundProps
  <2>3. s.data.form # "nil"
    BY <2>1, <2>2 DEF RecordInv, EventsInv
  <2>4. \A j \in Ids : Valid(t) /\ IsRecorded(j) => s = Recorded(j)
    BY <1>1, <1>3, FoundIsNewest, Zenon DEF Recorded
  <2>5. s.pending \in SUBSET Nat /\ errorState \in StateNames /\ "" \in StateNames
    BY <2>2 DEF SerializedState, StateNames
  <2> HIDE DEF s
  <2>6. /\ t1 \in Tick /\ t1.prev = t.prev /\ t1.started = t.started
        /\ t1.errs = t.errs /\ t1.todo = t.todo /\ t1.saved = s
        /\ t1.decisions = t.decisions /\ t1.version = t.version
        /\ t1.pending = s.pending
    BY <1>1, <2>2, <2>5, DataTypes DEF Tick
  <2>7. t.errs = {} => t1.state = "" /\ t1.data = NilData
    BY <1>1, <2>2, <2>5 DEF Tick
  <2>8. Go(w, "errors", t1)
    BY <1>3 DEF s
  <2> HIDE DEF t1
  <2>9. Errors(t1) = Errors(t) /\ Events(t1) = Events(t) /\ Handled(t1) = Handled(t)
    BY <2>6 DEF Errors, Events, Handled
  <2>10. TickEvents("begin", t) /\ TickDecisions("begin", t) /\ TickCarries("begin", t)
    BY <1>1 DEF RecordTick
  <2>11. TickEvents("errors", t1)
    BY <2>6, <2>9, <2>10 DEF TickEvents
  <2>12. TickDecisions("errors", t1)
    BY <2>6, <2>9, <2>10 DEF TickDecisions
  <2>13. TickFound("errors", t1)
    BY <2>3, <2>4, <2>6 DEF TickFound, Valid
  <2>14. TickCarries("errors", t1)
    BY <2>6, <2>7, <2>9, <2>10 DEF TickCarries, TickEvents
  <2>15. TickRecords("errors", t1)
    BY DEF TickRecords
  <2>16. RecordTick("errors", t1)
    BY <2>11, <2>12, <2>13, <2>14, <2>15 DEF RecordTick
  <2> QED BY <1>1, <2>6, <2>8, <2>16, RecordLocal DEF PCs, Local
<1> QED BY <1>2, <1>3 DEF FindState

(***************************************************************************)
(* A decider records no state, and completes the workflow only together     *)
(* with the transition to the complete state.                              *)
(***************************************************************************)
Ordinary(o) == \A k \in 1..Len(o.decisions) :
                 /\ ~Recording(o.decisions[k])
                 /\ Completing(o.decisions[k]) =>
                      o.kind = "Complete" /\ o.state = CompleteState

(* Neither a marker of the FSM nor a completion.                           *)
Plain == {d \in Decision : ~Recording(d) /\ ~Completing(d)}

LEMMA UserDecisionsOrdinary ==
  ASSUME NEW i \in Nat, NEW e, NEW ds \in UserDecisions(i, e)
  PROVE  ds \in Seq(Plain)
<1>1. NewDecision("ScheduleActivityTask", "", i) \in Plain
  BY NewDecisionType DEF Plain, NewDecision, Recording, Completing, DecisionTypes,
                         Labels
<1>2. NewDecision("RecordMarker", "user", i) \in Plain
  BY NewDecisionType DEF Plain, NewDecision, Recording, Completing, DecisionTypes,
                         Labels, UserLabels, StateMarker
<1>3. /\ <<>> \in Seq(Plain)
      /\ <<NewDecision("ScheduleActivityTask", "", i)>> \in Seq(Plain)
      /\ <<NewDecision("RecordMarker", "user", i)>> \in Seq(Plain)
  <2>1. \A d \in Plain : <<d>> \in Seq(Plain)
    OBVIOUS
  <2>2. <<>> \in Seq(Plain)
    OBVIOUS
  <2> QED BY <1>1, <1>2, <2>1, <2>2, Zenon
<1>4. \A f : EffectDecisions(f, i) \in Seq(Plain)
  BY <1>3 DEF EffectDecisions
<1> QED BY <1>3, <1>4 DEF UserDecisions

LEMMA PlainOrdinary ==
  ASSUME NEW kind, NEW state, NEW data, NEW ds \in Seq(Plain)
  PROVE  Ordinary(Outcome(kind, state, data, ds))
<1>1. \A k \in 1..Len(ds) : ds[k] \in Plain
  BY ElementsOf
<1>2. Outcome(kind, state, data, ds).decisions = ds
  BY DEF Outcome
<1> QED BY <1>1, <1>2 DEF Ordinary, Plain

LEMMA CompleteOrdinary ==
  ASSUME NEW i \in Nat, NEW data, NEW ds \in Seq(Plain)
  PROVE  Ordinary(Complete(i, data, ds))
<1> DEFINE d == CompletionDecision(i)
           s == Append(ds, d)
<1>1. d \in {x \in Decision : ~Recording(x)}
  BY NewDecisionType DEF CompletionDecision, NewDecision, Recording, DecisionTypes,
                         Labels
<1> HIDE DEF d
<1>2. ds \in Seq({x \in Decision : ~Recording(x)})
  <2>1. \A k \in 1..Len(ds) : ds[k] \in Plain
    BY ElementsOf
  <2> QED BY <2>1, SeqOf DEF Plain
<1>3. s \in Seq({x \in Decision : ~Recording(x)})
  BY <1>1, <1>2, AppendProperties
<1> HIDE DEF s
<1>4. \A k \in 1..Len(s) : ~Recording(s[k])
  BY <1>3, ElementsOf
<1>5. Ordinary(Outcome("Complete", CompleteState, data, s))
  BY <1>4 DEF Ordinary, Outcome
<1>6. <<>> \in Seq(Plain)
  OBVIOUS
<1>7. Ordinary(Outcome("panic", "", data, <<>>))
  BY <1>6, PlainOrdinary
<1> QED BY <1>5, <1>7, Zenon DEF Complete, s, d

LEMMA DecideOrdinary ==
  ASSUME NEW state, NEW i \in Nat, NEW data, NEW o \in Decide(state, i, data)
  PROVE  Ordinary(o)
<1> DEFINE e == history[i]
<1>1. \A ds \in UserDecisions(i, e) \cup {<<>>} : ds \in Seq(Plain)
  <2>1. <<>> \in Seq(Plain)
    OBVIOUS
  <2> QED BY <2>1, UserDecisionsOrdinary
<1> DEFINE shown == Shown(data, i)
           from == Restored(i, e, shown)
<1>2. \/ IsOutcome(o, "Stay", "", shown, i, e)
      \/ \E s \in States : IsOutcome(o, "Transition", s, shown, i, e)
      \/ IsOutcome(o, "Continue", "", shown, i, e)
      \/ IsOutcome(o, "Error", ErrorState, shown, i, e)
      \/ IsOutcome(o, "Stay", "", Refused(shown), i, e)
      \/ \E ds \in UserDecisions(i, e) : o = Complete(i, shown, ds)
      \/ IsOutcome(o, "Transition", from.state, from.data, i, e)
      \/ o = Outcome("Continue", "", NilData, <<>>)
      \/ o = Outcome("panic", "", shown, <<>>)
      \/ o = Outcome("nil", "", shown, <<>>)
  <2>1. o \in DeciderOutcomes(BehavioursIn(state), i, e, data)
    BY DEF Decide
  <2> QED BY <2>1, OutcomeShapes, Zenon
<1> HIDE DEF shown, from
<1>3. \/ \E kind, s, d : IsOutcome(o, kind, s, d, i, e)
      \/ \E d : \E ds \in UserDecisions(i, e) : o = Complete(i, d, ds)
      \/ \E kind, d : o = Outcome(kind, "", d, <<>>)
  BY <1>2, Zenon
<1> HIDE DEF e
<1>4. \/ \E kind, s, d : \E ds \in UserDecisions(i, e) \cup {<<>>} :
           o = Outcome(kind, s, d, ds)
      \/ \E d : \E ds \in UserDecisions(i, e) \cup {<<>>} : o = Complete(i, d, ds)
  BY <1>3 DEF IsOutcome
<1> QED BY <1>1, <1>4, PlainOrdinary, CompleteOrdinary

(***************************************************************************)
(* Tick's loops, step by step.                                             *)
(***************************************************************************)
LEMMA TrackOne ==
  ASSUME NEW pending, NEW H, NEW i \in Nat,
         \A k \in H : k \in Nat /\ k < i /\ (Closed(history[k]) => history[k].ref \in Nat
                                               /\ history[k].ref < k)
  PROVE  Track(Tracked(pending, H), i, history[i]) = Tracked(pending, H \cup {i})
<1> DEFINE e == history[i]
           T == Tracked(pending, H)
           U == Tracked(pending, H \cup {i})
<1>0. \A j : j \in T <=> /\ j \in pending \/ (j \in H /\ IsScheduled(history[j]))
                         /\ \A k \in H : Closed(history[k]) => history[k].ref # j
  BY DEF Tracked
<1>1. \A j : j \in U <=>
         /\ j \in pending \/ (j \in H /\ IsScheduled(history[j])) \/ (j = i /\ IsScheduled(e))
         /\ \A k \in H : Closed(history[k]) => history[k].ref # j
         /\ Closed(e) => e.ref # j
  BY DEF Tracked
<1>2. \A k \in H : Closed(history[k]) => history[k].ref # i
  OBVIOUS
<1>3. ~(Closed(e) /\ IsScheduled(e))
  BY DEF Closed, IsScheduled, ActivityClosed
<1>4. Track(T, i, e) = (IF Closed(e) THEN T \ {e.ref} ELSE T)
                         \cup (IF IsScheduled(e) THEN {i} ELSE {})
  BY DEF Track, Correlate, RemoveCorrelation, Closed, IsScheduled
<1> HIDE DEF T, U
<1>5. ASSUME Closed(e)
      PROVE  Track(T, i, e) = U
  <2>1. Track(T, i, e) = T \ {e.ref}
    BY <1>3, <1>4, <1>5
  <2>2. \A j : j \in U <=> j \in T /\ j # e.ref
    BY <1>0, <1>1, <1>3, <1>5
  <2> QED BY <2>1, <2>2
<1>6. ASSUME ~Closed(e)
      PROVE  Track(T, i, e) = U
  <2>1. Track(T, i, e) = T \cup (IF IsScheduled(e) THEN {i} ELSE {})
    BY <1>4, <1>6
  <2>2. \A j : j \in U <=> j \in T \/ (j = i /\ IsScheduled(e))
    BY <1>0, <1>1, <1>2, <1>6
  <2> QED BY <2>1, <2>2
<1> QED BY <1>5, <1>6 DEF T, U

LEMMA MergedDecisions ==
  ASSUME NEW t \in Tick, NEW label \in Deciding, TickDecisions(label, t),
         NEW i, NEW o, NEW seen, GoodOutcome(o, i, seen), Ordinary(o),
         i \in Events(t) \cup Errors(t), NEW next \in Deciding,
         NEW t1, Events(t1) = Events(t), Errors(t1) = Errors(t),
         t1.decisions = t.decisions \o o.decisions
  PROVE  TickDecisions(next, t1)
<1> DEFINE D == {d \in Decision : /\ Asks(d) => d.ref \in Events(t) \cup Errors(t)
                                  /\ ~Recording(d)
                                  /\ d.state.data.form # "nil"}
           ds == t.decisions
           os == o.decisions
<1>1. ds \in Seq(Decision) /\ os \in Seq(Decision)
  BY DEF Tick, GoodOutcome, PlainDecisions
<1>2. \A k \in 1..Len(ds) : ds[k] \in D
  BY <1>1 DEF TickDecisions, Deciding
<1>3. \A k \in 1..Len(os) : os[k] \in D
  <2>1. NoState.data.form # "nil"
    BY DEF NoState, ZeroData
  <2>2. \A k \in 1..Len(os) : os[k] \in Decision
    BY <1>1, ElementsOf
  <2>3. PlainDecisions(os, i)
    BY DEF GoodOutcome
  <2>4. \A k \in 1..Len(os) : os[k].state = NoState /\ (Asks(os[k]) => os[k].ref = i)
    BY <2>3 DEF PlainDecisions
  <2>5. \A k \in 1..Len(os) : ~Recording(os[k])
    BY DEF Ordinary
  <2> QED BY <2>1, <2>2, <2>4, <2>5
<1> HIDE DEF D
<1>4. ds \in Seq(D) /\ os \in Seq(D)
  BY <1>1, <1>2, <1>3, SeqOf
<1>5. t1.decisions \in Seq(D)
  BY <1>4, ConcatProperties
<1>6. \A k \in 1..Len(t1.decisions) : t1.decisions[k] \in D
  BY <1>5, ElementsOf
<1> QED BY <1>6 DEF TickDecisions, D, Deciding

(* A turn of the loop over errorEvents.                                    *)
TurnedError(t, o, i) == [mergeOutcomes(t, o) EXCEPT !.errs = @ \ {i}]
FollowsError(t1, t, o, i) ==
  /\ t1 \in Tick /\ t1.prev = t.prev /\ t1.started = t.started
  /\ t1.errs = t.errs \ {i} /\ t1.todo = t.todo /\ t1.saved = t.saved
  /\ t1.decisions = t.decisions \o o.decisions /\ t1.version = t.version
  /\ t1.pending = t.pending /\ t1.data = o.data
  /\ t1.state = IF o.kind = "Stay" THEN t.state ELSE o.state

LEMMA MergedError ==
  ASSUME NEW t \in Tick, NEW o, NEW i, NEW seen, GoodOutcome(o, i, seen)
  PROVE  FollowsError(TurnedError(t, o, i), t, o, i)
<1> DEFINE s == IF o.kind = "Stay" THEN t.state ELSE o.state
           ds == t.decisions \o o.decisions
           t1 == TurnedError(t, o, i)
<1>1. s \in StateNames /\ o.data \in Data /\ ds \in Seq(Decision)
  <2>1. t.state \in StateNames /\ t.decisions \in Seq(Decision)
    BY DEF Tick
  <2>2. o.state \in StateNames /\ o.data \in Data /\ o.decisions \in Seq(Decision)
    BY DEF GoodOutcome, PlainDecisions
  <2> QED BY <2>1, <2>2, ConcatProperties
<1>2. t1 = [t EXCEPT !.decisions = ds, !.data = o.data, !.state = s,
                     !.errs = t.errs \ {i}]
  BY DEF TurnedError, mergeOutcomes, Tick
<1> HIDE DEF s, ds, t1
<1>3. /\ t1 \in Tick /\ t1.prev = t.prev /\ t1.started = t.started
      /\ t1.errs = t.errs \ {i} /\ t1.todo = t.todo /\ t1.saved = t.saved
      /\ t1.decisions = ds /\ t1.version = t.version
      /\ t1.pending = t.pending /\ t1.data = o.data /\ t1.state = s
  BY <1>1, <1>2 DEF Tick
<1> QED BY <1>3 DEF s, ds, t1, FollowsError

LEMMA HandleErrorEventRecord ==
  ASSUME IInv, RecordInv, NEW w \in Workers, HandleErrorEvent(w)
  PROVE  RecordInv'
<1> DEFINE t == tick[w]
           ids == ErrorEvents(history, t.prev, t.started)
<1>1. PICK i \in t.errs : \E o \in Decide(errorState, i, t.data) :
        IF Returned(o)
        THEN Go(w, "errors", [mergeOutcomes(t, o) EXCEPT !.errs = @ \ {i}])
        ELSE Go(w, "respond", Failing(t, captureDecisionError(i, ids,
                                                      t.state, t.data)))
  BY DEF HandleErrorEvent
<1>0. PICK o \in Decide(errorState, i, t.data) :
        IF Returned(o)
        THEN Go(w, "errors", [mergeOutcomes(t, o) EXCEPT !.errs = @ \ {i}])
        ELSE Go(w, "respond", Failing(t, captureDecisionError(i, ids,
                                                      t.state, t.data)))
  BY <1>1
<1>2. pc[w] = "errors" /\ pc[w] \in Deciding /\ Local
  BY DEF HandleErrorEvent, Deciding
<1>3. t \in Tick /\ TickInv(pc[w], t) /\ RecordTick("errors", t)
      /\ t.decisions \in Seq(Decision)
  BY <1>2, Typed DEF RecordInv
<1>4. i \in Left(t) /\ i \in Nat /\ history[i] \in HistoryEvent
  BY <1>2, LeftEvents DEF Left
<1>5. CASE Returned(o)
  <2> DEFINE t1 == TurnedError(t, o, i)
  <2>1. GoodOutcome(o, i, t.data.seen \cup history[i].report.data.seen) /\ Ordinary(o)
    BY <1>3, <1>4, DecideGood, DecideOrdinary DEF Tick
  <2>2. "errors" \in Deciding
    BY DEF Deciding
  <2>4. Go(w, "errors", t1)
    BY <1>0, <1>5 DEF TurnedError
  <2>0. FollowsError(t1, t, o, i)
    BY <1>3, <2>1, MergedError
  <2> HIDE DEF t1
  <2>3. /\ t1 \in Tick /\ t1.prev = t.prev /\ t1.started = t.started
        /\ t1.errs = t.errs \ {i} /\ t1.todo = t.todo /\ t1.saved = t.saved
        /\ t1.decisions = t.decisions \o o.decisions /\ t1.version = t.version
        /\ t1.pending = t.pending
    BY <2>0 DEF FollowsError
  <2>5. Errors(t1) = Errors(t) /\ Events(t1) = Events(t) /\ Handled(t1) = Handled(t)
    BY <2>3 DEF Errors, Events, Handled
  <2>6. /\ TickEvents("errors", t) /\ TickDecisions("errors", t)
        /\ TickFound("errors", t) /\ TickCarries("errors", t)
    BY <1>3 DEF RecordTick, Working, Deciding
  <2>7. TickEvents("errors", t1)
    BY <2>3, <2>5, <2>6 DEF TickEvents
  <2>8. TickDecisions("errors", t1)
    <3>1. i \in Events(t) \cup Errors(t)
      BY <1>1, <2>6 DEF TickEvents
    <3> QED BY <1>3, <2>1, <2>2, <2>3, <2>5, <2>6, <3>1, MergedDecisions
  <2>9. TickFound("errors", t1)
    BY <2>3, <2>6 DEF TickFound, Valid
  <2>10. Errors(t1) # {}
    BY <1>1, <2>5, <2>6 DEF TickEvents
  <2>11. TickCarries("errors", t1)
    BY <2>3, <2>6, <2>10 DEF TickCarries
  <2>12. TickRecords("errors", t1)
    BY DEF TickRecords
  <2>13. RecordTick("errors", t1)
    BY <2>7, <2>8, <2>9, <2>11, <2>12 DEF RecordTick
  <2> QED BY <1>2, <2>3, <2>4, <2>13, RecordLocal DEF PCs, Local
<1>6. CASE ~Returned(o)
  <2>1. ids \in SUBSET Nat
    BY <1>3, PageIds DEF Tick
  <2>2. Go(w, "respond", Failing(t, captureDecisionError(i, ids, t.state, t.data)))
    BY <1>0, <1>6
  <2> QED BY <1>2, <1>4, <2>1, <2>2, DecisionErrorRecord
<1> QED BY <1>5, <1>6

LEMMA RecoverStateRecord ==
  ASSUME IInv, RecordInv, NEW w \in Workers, RecoverState(w)
  PROVE  RecordInv'
<1> DEFINE t == tick[w]
           t1 == [t EXCEPT !.state = t.saved.name, !.data = t.saved.data,
                           !.version = t.saved.version]
           d == captureSystemError("DeserializeStateError", Page(t.started))
<1>1. /\ t \in Tick /\ t.started \in Nat /\ t.saved \in SerializedState
      /\ pc[w] = "errors" /\ pc[w] \in Deciding /\ Local
      /\ RecordTick("errors", t) /\ t.errs = {}
  BY Typed DEF RecordInv, Tick, RecoverState, Deciding
<1>2. \/ Go(w, "events", t1)
      \/ Go(w, "respond", Failing(t, d))
      \/ Go(w, "events", t) /\ ~(t.data.form = "nil" /\ t.state = "")
  BY DEF RecoverState
<1>3. /\ TickEvents("errors", t) /\ TickDecisions("errors", t)
      /\ TickFound("errors", t) /\ TickCarries("errors", t)
  BY <1>1 DEF RecordTick, Working, Deciding
<1>4. Handled(t) = {} /\ Tracked(t.saved.pending, {}) = t.saved.pending
  BY <1>3 DEF TickEvents, Handled, Tracked
<1>5. CASE Go(w, "events", t1)
  <2>1. /\ t1 \in Tick /\ t1.prev = t.prev /\ t1.started = t.started
        /\ t1.errs = t.errs /\ t1.todo = t.todo /\ t1.saved = t.saved
        /\ t1.decisions = t.decisions /\ t1.version = t.saved.version
        /\ t1.pending = t.pending
    BY <1>1 DEF Tick, SerializedState
  <2> HIDE DEF t1
  <2>2. Errors(t1) = Errors(t) /\ Events(t1) = Events(t) /\ Handled(t1) = Handled(t)
    BY <2>1 DEF Errors, Events, Handled
  <2>3. TickEvents("events", t1)
    BY <1>3, <2>1, <2>2 DEF TickEvents
  <2>4. TickDecisions("events", t1)
    BY <1>3, <2>1, <2>2 DEF TickDecisions
  <2>5. TickFound("events", t1)
    BY <1>3, <2>1 DEF TickFound, Valid
  <2>6. TickCarries("events", t1)
    BY <1>3, <1>4, <2>1, <2>2 DEF TickCarries
  <2>7. TickRecords("events", t1)
    BY DEF TickRecords
  <2>8. RecordTick("events", t1)
    BY <2>3, <2>4, <2>5, <2>6, <2>7 DEF RecordTick
  <2> QED BY <1>1, <1>5, <2>1, <2>8, RecordLocal DEF PCs, Local
<1>6. CASE Go(w, "respond", Failing(t, d))
  BY <1>1, <1>6, PageIds, SystemErrorRecord DEF ErrorTypes
<1>7. CASE Go(w, "events", t) /\ ~(t.data.form = "nil" /\ t.state = "")
  <2>1. Errors(t) # {} /\ t.version = 0
    <3>1. NilData.form = "nil"
      BY DEF NilData
    <3>2. Errors(t) = {} => t.state = "" /\ t.data = NilData
      BY <1>3 DEF TickCarries
    <3>3. t.version = 0
      BY <1>3 DEF TickCarries
    <3> QED BY <1>7, <3>1, <3>2, <3>3
  <2>2. TickEvents("events", t) /\ TickDecisions("events", t) /\ TickFound("events", t)
    BY <1>3 DEF TickEvents, TickDecisions, TickFound
  <2>3. TickCarries("events", t)
    BY <1>3, <1>4, <2>1 DEF TickCarries
  <2>4. TickRecords("events", t)
    BY DEF TickRecords
  <2>5. RecordTick("events", t)
    BY <2>2, <2>3, <2>4 DEF RecordTick
  <2> QED BY <1>1, <1>7, <2>5, RecordLocal DEF PCs, Local
<1> QED BY <1>2, <1>5, <1>6, <1>7

LEMMA EventFacts ==
  ASSUME IInv, EventsInv, NEW w \in Workers, pc[w] \in Working,
         NEW k \in Events(tick[w])
  PROVE  /\ k \in Nat /\ k \in Ids /\ history[k] \in HistoryEvent
         /\ Closed(history[k]) => history[k].ref \in Nat /\ history[k].ref < k
<1>1. /\ tick[w].started \in Nat /\ tick[w].prev \in Nat
      /\ tick[w].started <= Len(history) /\ Len(history) \in Nat
  BY Typed DEF TickInv, TickPosition
<1>2. k \in Nat /\ k \in Ids
  BY <1>1, WindowIds DEF Events, LastEvents, Ids
<1>3. history[k] \in HistoryEvent
  BY <1>2, Typed
<1> QED BY <1>2, <1>3 DEF EventsInv, HistoryEvent

(* One turn of the loop over lastEvents.                                   *)
Turned(t, o, i, pending) ==
  [mergeOutcomes(t, o) EXCEPT !.todo = @ \ {i}, !.pending = pending]

FollowsOn(t1, t, o, i, pending) ==
  /\ t1 \in Tick /\ t1.prev = t.prev /\ t1.started = t.started
  /\ t1.errs = t.errs /\ t1.todo = t.todo \ {i} /\ t1.saved = t.saved
  /\ t1.decisions = t.decisions \o o.decisions /\ t1.version = t.version
  /\ t1.pending = pending /\ t1.data = o.data
  /\ t1.state = IF o.kind = "Stay" THEN t.state ELSE o.state

LEMMA MergedTick ==
  ASSUME NEW t \in Tick, NEW o, NEW i, NEW seen, GoodOutcome(o, i, seen),
         NEW pending \in SUBSET Nat,
         NEW t1, t1 = Turned(t, o, i, pending)
  PROVE  FollowsOn(t1, t, o, i, pending)
<1> DEFINE m == mergeOutcomes(t, o)
           s == IF o.kind = "Stay" THEN t.state ELSE o.state
           ds == t.decisions \o o.decisions
<1>1. s \in StateNames /\ o.data \in Data /\ ds \in Seq(Decision)
  <2>1. t.state \in StateNames /\ t.decisions \in Seq(Decision)
    BY DEF Tick
  <2>2. o.state \in StateNames /\ o.data \in Data /\ o.decisions \in Seq(Decision)
    BY DEF GoodOutcome, PlainDecisions
  <2> QED BY <2>1, <2>2, ConcatProperties
<1>2. m = [t EXCEPT !.decisions = ds, !.data = o.data, !.state = s]
  BY DEF mergeOutcomes, Tick
<1> HIDE DEF m, s, ds
<1>3. /\ m \in Tick /\ m.prev = t.prev /\ m.started = t.started
      /\ m.errs = t.errs /\ m.todo = t.todo /\ m.saved = t.saved
      /\ m.decisions = ds /\ m.version = t.version
      /\ m.data = o.data /\ m.state = s
  BY <1>1, <1>2 DEF Tick
<1>4. t1 = [m EXCEPT !.todo = @ \ {i}, !.pending = pending]
  BY DEF m, Turned
<1>5. /\ t1 \in Tick /\ t1.prev = m.prev /\ t1.started = m.started
      /\ t1.errs = m.errs /\ t1.todo = m.todo \ {i} /\ t1.saved = m.saved
      /\ t1.decisions = m.decisions /\ t1.version = m.version
      /\ t1.pending = pending /\ t1.data = m.data /\ t1.state = m.state
  BY <1>3, <1>4 DEF Tick
<1> QED BY <1>3, <1>5 DEF s, ds, FollowsOn

LEMMA HandleEventRecord ==
  ASSUME IInv, RecordInv, NEW w \in Workers, HandleEvent(w)
  PROVE  RecordInv'
<1> DEFINE t == tick[w]
           ids == LastEvents(history, t.prev, t.started)
<1>1. PICK i \in t.todo : IsOldest(i, t.todo) /\ \E o \in Decide(t.state, i, t.data) :
        IF Returned(o)
        THEN Go(w, "events", [mergeOutcomes(t, o) EXCEPT !.todo = @ \ {i},
                                !.pending = Track(@, i, history[i])])
        ELSE Go(w, "respond", Failing(t, captureDecisionError(i, ids,
                                                      t.state, t.data)))
  BY DEF HandleEvent
<1>0. PICK o \in Decide(t.state, i, t.data) :
        IF Returned(o)
        THEN Go(w, "events", [mergeOutcomes(t, o) EXCEPT !.todo = @ \ {i},
                                !.pending = Track(@, i, history[i])])
        ELSE Go(w, "respond", Failing(t, captureDecisionError(i, ids,
                                                      t.state, t.data)))
  BY <1>1
<1>2. pc[w] = "events" /\ pc[w] \in Deciding /\ pc[w] \in Working /\ Local
  BY DEF HandleEvent, Deciding, Working
<1>3. t \in Tick /\ TickInv(pc[w], t) /\ RecordTick("events", t)
  BY <1>2, Typed DEF RecordInv
<1>4. i \in Left(t) /\ i \in Nat /\ history[i] \in HistoryEvent
  BY <1>2, LeftEvents DEF Left
<1>5. CASE Returned(o)
  <2> DEFINE pending == Track(t.pending, i, history[i])
             t1 == [mergeOutcomes(t, o) EXCEPT !.todo = @ \ {i},
                                               !.pending = pending]
  <2>1. GoodOutcome(o, i, t.data.seen \cup history[i].report.data.seen) /\ Ordinary(o)
    BY <1>3, <1>4, DecideGood, DecideOrdinary DEF Tick
  <2>2. /\ pending \in SUBSET Nat /\ o.state \in StateNames /\ o.data \in Data
        /\ t.decisions \o o.decisions \in Seq(Decision)
    <3>1. t.decisions \in Seq(Decision) /\ o.decisions \in Seq(Decision)
      BY <1>3, <2>1 DEF Tick, GoodOutcome, PlainDecisions
    <3> QED BY <1>3, <1>4, <2>1, <3>1, TrackType, ConcatProperties DEF Tick, GoodOutcome
  <2>3. Go(w, "events", t1)
    <3>1. mergeOutcomes(t, o).pending = t.pending
      BY <1>3 DEF Tick, mergeOutcomes
    <3>2. [mergeOutcomes(t, o) EXCEPT !.todo = @ \ {i}, !.pending = Track(@, i, history[i])]
            = t1
      BY <1>3, <3>1 DEF Tick, mergeOutcomes
    <3> QED BY <1>0, <1>5, <3>2
  <2> HIDE DEF pending
  <2>0. t1 = Turned(t, o, i, pending)
    BY DEF Turned
  <2> HIDE DEF t1
  <2>4. /\ t1 \in Tick /\ t1.prev = t.prev /\ t1.started = t.started
        /\ t1.errs = t.errs /\ t1.todo = t.todo \ {i} /\ t1.saved = t.saved
        /\ t1.decisions = t.decisions \o o.decisions /\ t1.version = t.version
        /\ t1.pending = pending
    <3>1. FollowsOn(t1, t, o, i, pending)
      BY <1>3, <2>1, <2>2, <2>0, MergedTick
    <3> QED BY <3>1 DEF FollowsOn
  <2>5. /\ TickEvents("events", t) /\ TickDecisions("events", t)
        /\ TickFound("events", t) /\ TickCarries("events", t)
    BY <1>3 DEF RecordTick, Working, Deciding
  <2>6. /\ Errors(t1) = Errors(t) /\ Events(t1) = Events(t) /\ i \in Events(t)
        /\ Handled(t1) = Handled(t) \cup {i}
    BY <2>4, <2>5 DEF Errors, Events, Handled, TickEvents
  <2>7. \A k \in Handled(t) : k < i
    BY <2>5 DEF TickEvents
  <2>8. \A j \in t1.todo : i < j /\ \A k \in Handled(t) : k < j
    <3>1. t.todo \in SUBSET Nat
      BY <1>3 DEF Tick
    <3> QED BY <1>1, <1>4, <2>4, <2>5, <3>1 DEF IsOldest, TickEvents
  <2>9. TickEvents("events", t1)
    BY <2>4, <2>5, <2>6, <2>8 DEF TickEvents
  <2>10. TickDecisions("events", t1)
    <3>1. "events" \in Deciding /\ i \in Events(t) \cup Errors(t)
      BY <2>6 DEF Deciding
    <3> QED BY <1>3, <2>1, <2>4, <2>5, <2>6, <3>1, MergedDecisions
  <2>11. TickFound("events", t1)
    BY <2>4, <2>5 DEF TickFound, Valid
  <2>12. TickCarries("events", t1)
    <3>1. \A k \in Handled(t) :
            k \in Nat /\ k < i /\ (Closed(history[k]) => history[k].ref \in Nat
                                                         /\ history[k].ref < k)
      BY <1>2, <2>7, EventFacts DEF RecordInv, Handled
    <3>2. Track(Tracked(t.saved.pending, Handled(t)), i, history[i])
            = Tracked(t.saved.pending, Handled(t) \cup {i})
      BY <1>4, <3>1, TrackOne
    <3>3. t1.pending = Tracked(t1.saved.pending, Handled(t1))
      BY <2>4, <2>5, <2>6, <3>2 DEF TickCarries, pending
    <3> QED BY <2>4, <2>5, <2>6, <3>3 DEF TickCarries
  <2>13. TickRecords("events", t1)
    BY DEF TickRecords
  <2>14. RecordTick("events", t1)
    BY <2>9, <2>10, <2>11, <2>12, <2>13 DEF RecordTick
  <2> QED BY <1>2, <2>3, <2>4, <2>14, RecordLocal DEF PCs, Local
<1>6. CASE ~Returned(o)
  <2>1. ids \in SUBSET Nat
    BY <1>3, PageIds DEF Tick
  <2>2. Go(w, "respond", Failing(t, captureDecisionError(i, ids, t.state, t.data)))
    BY <1>0, <1>6
  <2> QED BY <1>2, <1>4, <2>1, <2>2, DecisionErrorRecord
<1> QED BY <1>5, <1>6

LEMMA MissingStateRecord ==
  ASSUME IInv, RecordInv, NEW w \in Workers, MissingState(w)
  PROVE  RecordInv'
<1> DEFINE t == tick[w]
<1>1. PICK i \in t.todo :
        Go(w, "respond", Failing(t, captureSystemError("MissingFsmStateError",
             {j \in LastEvents(history, t.prev, t.started) : j <= i})))
  BY DEF MissingState
<1>2. pc[w] \in Deciding /\ Local
  BY DEF MissingState, Deciding
<1>3. {j \in LastEvents(history, t.prev, t.started) : j <= i} \in SUBSET Nat
  BY Typed, PageIds
<1> QED BY <1>1, <1>2, <1>3, SystemErrorRecord DEF ErrorTypes

LEMMA StateSerializationFailsRecord ==
  ASSUME IInv, RecordInv, NEW w \in Workers, StateSerializationFails(w)
  PROVE  RecordInv'
<1>1. /\ pc[w] \in Deciding /\ Local
      /\ Go(w, "respond", Failing(tick[w],
                    captureSystemError("StateSerializationError", {})))
  BY DEF StateSerializationFails, Deciding
<1>2. {} \in SUBSET Nat /\ "StateSerializationError" \in ErrorTypes
  BY DEF ErrorTypes
<1> QED BY <1>1, <1>2, SystemErrorRecord

(***************************************************************************)
(* recordStateMarker: every event of the task has been handled.            *)
(***************************************************************************)
LEMMA FinishTickRecord ==
  ASSUME IInv, RecordInv, NEW w \in Workers, FinishTick(w)
  PROVE  RecordInv'
<1> DEFINE t == tick[w]
           ds == t.decisions
           s == [name |-> t.state, version |-> t.version + 1,
                 data |-> Stored(t.data), pending |-> t.pending]
           ms == <<Marker(s)>> \o ds
           t1 == [t EXCEPT !.saved = s, !.decisions = ms]
<1>1. /\ t \in Tick /\ ds \in Seq(Decision) /\ t.data \in Data
      /\ pc[w] = "events" /\ t.todo = {} /\ Local /\ RecordTick("events", t)
      /\ ~t.failed
  BY Typed DEF FinishTick, Tick, RecordInv, TickInv, TickMarker, Working, Deciding
<1>2. Go(w, "respond", t1)
  BY DEF FinishTick, recordStateMarker
<1>3. s \in SerializedState /\ s.data.form # "nil"
  <2>1. Stored(t.data) \in Data /\ Stored(t.data).form # "nil"
    BY <1>1, StoredType DEF Stored, ZeroData
  <2> QED BY <1>1, <2>1 DEF Tick, SerializedState
<1>4. s.version = t.version + 1 /\ s.pending = t.pending
  OBVIOUS
<1> HIDE DEF s
<1>5. Marker(s) \in Decision /\ Marker(s).state = s /\ ~Asks(Marker(s))
      /\ Marker(s).type = "RecordMarker"
  BY <1>3, MarkerType DEF Marker, NewDecision, Asks
<1>6. /\ ms \in Seq(Decision) /\ ms[1] = Marker(s)
      /\ \A k \in 1..Len(ms) :
           k = 1 \/ (k - 1 \in 1..Len(ds) /\ ms[k] = ds[k - 1])
  BY <1>1, <1>5, ConcatFirst
<1> HIDE DEF ms
<1>7. /\ t1 \in Tick /\ t1.prev = t.prev /\ t1.started = t.started
      /\ t1.errs = t.errs /\ t1.todo = t.todo /\ t1.saved = s
      /\ t1.decisions = ms /\ t1.failed = t.failed
  BY <1>1, <1>3, <1>6 DEF Tick
<1> HIDE DEF t1
<1>8. /\ TickEvents("events", t) /\ TickDecisions("events", t)
      /\ TickFound("events", t) /\ TickCarries("events", t)
  BY <1>1 DEF RecordTick, Working, Deciding
<1>9. /\ Errors(t1) = Errors(t) /\ Events(t1) = Events(t)
      /\ Handled(t1) = Handled(t) /\ Handled(t) = Events(t)
  BY <1>1, <1>7 DEF Errors, Events, Handled
<1>10. TickEvents("respond", t1)
  BY <1>7, <1>8, <1>9 DEF TickEvents
<1>11. TickDecisions("respond", t1)
  <2>1. ASSUME NEW k \in 1..Len(t1.decisions)
        PROVE  /\ Asks(t1.decisions[k]) =>
                     t1.decisions[k].ref \in Events(t1) \cup Errors(t1)
               /\ Recording(t1.decisions[k]) => k = 1
               /\ t1.decisions[k].state.data.form # "nil"
    <3>1. CASE k = 1
      BY <1>3, <1>5, <1>6, <1>7, <3>1
    <3>2. CASE k - 1 \in 1..Len(ds) /\ ms[k] = ds[k - 1]
      BY <1>7, <1>8, <1>9, <3>2 DEF TickDecisions
    <3> QED BY <1>6, <1>7, <3>1, <3>2
  <2> QED BY <1>1, <1>7, <2>1 DEF TickDecisions
<1>12. TickFound("respond", t1) /\ TickCarries("respond", t1)
  BY DEF TickFound, TickCarries
<1>13. TickRecords("respond", t1)
  <2> SUFFICES ASSUME Valid(t1), NEW i \in Ids, IsRecorded(i)
               PROVE  Succeeds(t1, Recorded(i))
    BY DEF TickRecords
  <2>1. t.saved = Recorded(i)
    BY <1>7, <1>8 DEF TickFound, Valid
  <2>2. t.pending = Tracked(t.saved.pending, Events(t))
    BY <1>8, <1>9 DEF TickCarries
  <2>3. t.version = t.saved.version \/ (t.version = 0 /\ Errors(t) # {})
    BY <1>8 DEF TickCarries
  <2> QED BY <1>4, <1>7, <1>9, <2>1, <2>2, <2>3 DEF Succeeds
<1>14. RecordTick("respond", t1)
  BY <1>10, <1>11, <1>12, <1>13 DEF RecordTick
<1> QED BY <1>1, <1>2, <1>7, <1>14, RecordLocal DEF PCs, Local

(***************************************************************************)
(* The response is accepted: one DecisionTaskCompleted event, the events of *)
(* the decisions and perhaps the next DecisionTaskScheduled.               *)
(***************************************************************************)
CompletionGrowth(ds, n, u) ==
  /\ n \in 0..Len(ds) /\ u \in BOOLEAN /\ Effective(ds, n, u)
  /\ HistoryKept
  /\ Len(history) + 1 + n <= Len(history')
  /\ \A i \in Ids' : i \notin Ids =>
       \/ i = Len(history) + 1 /\ history'[i] = Event("DecisionTaskCompleted", "", 0)
       \/ /\ i - Len(history) - 1 \in 1..n
          /\ history'[i] = DecisionEvent(ds[i - Len(history) - 1], u)
       \/ i > Len(history) + 1 + n /\ history'[i] = Event("DecisionTaskScheduled", "", 0)
  /\ history'[Len(history) + 1] = Event("DecisionTaskCompleted", "", 0)

LEMMA CompletionGrows ==
  ASSUME IInv, NEW w \in Workers, pc[w] = "respond",
         CompleteTask(tick[w].started, tick[w].decisions)
  PROVE  /\ \E u \in BOOLEAN : \E n \in 0..Len(tick[w].decisions) :
              CompletionGrowth(tick[w].decisions, n, u)
         /\ task = StartedTask(tick[w].started) /\ prevStarted' = tick[w].started
         /\ task' \in {NoTask, ScheduledTask}
<1> DEFINE t == tick[w]
           ds == t.decisions
           u == Unhandled(t.started)
<1>1. /\ history \in Seq(HistoryEvent) /\ Len(history) \in Nat
      /\ ds \in Seq(Decision) /\ Len(ds) \in Nat
  BY Typed
<1>2. u \in BOOLEAN
  BY DEF Unhandled
<1> HIDE DEF u
<1>3. PICK n \in 0..Len(ds) :
        /\ Effective(ds, n, u)
        /\ history' = history \o CompletionEvents(ds, n, u)
        /\ task' = IF u THEN ScheduledTask ELSE NoTask
  BY Zenon DEF CompleteTask, u
<1>4. /\ prevStarted' = t.started /\ task = StartedTask(t.started)
      /\ task' \in {NoTask, ScheduledTask}
  BY <1>3 DEF CompleteTask
<1> DEFINE es == CompletionEvents(ds, n, u)
<1>5. /\ es \in Seq(HistoryEvent) /\ Len(es) > n
      /\ \A k \in 1..n : es[k + 1] = DecisionEvent(ds[k], u)
      /\ \A k \in 1..Len(es) :
           \/ k \in 2..(n + 1)
           \/ k = 1 /\ es[k] = Event("DecisionTaskCompleted", "", 0)
           \/ k > n + 1 /\ es[k] = Event("DecisionTaskScheduled", "", 0)
  BY <1>1, <1>2, CompletionEventsType
<1>6. history' = history \o es
  BY <1>3
<1> HIDE DEF es
<1>7. /\ Grows(es) /\ HistoryKept /\ n \in Nat /\ Len(es) \in Nat /\ Len(es) > n
  <2>1. n \in Nat
    BY <1>1
  <2>2. Len(es) \in Nat
    BY <1>5, LenProperties
  <2>3. Len(es) > n
    BY <1>5
  <2> QED BY <1>1, <1>5, <1>6, <2>1, <2>2, <2>3, Growing, GrowingKeeps
<1>8. Len(history') = Len(history) + Len(es)
  BY <1>1, <1>5, <1>6, ConcatProperties
<1>9. ASSUME NEW i \in Ids', i \notin Ids
      PROVE  \/ i = Len(history) + 1 /\ history'[i] = Event("DecisionTaskCompleted", "", 0)
             \/ /\ i - Len(history) - 1 \in 1..n
                /\ history'[i] = DecisionEvent(ds[i - Len(history) - 1], u)
             \/ /\ i > Len(history) + 1 + n
                /\ history'[i] = Event("DecisionTaskScheduled", "", 0)
  <2> DEFINE k == i - Len(history)
  <2>1. i \in Nat /\ k \in 1..Len(es) /\ history'[i] = es[k]
    <3>1. i \in 1..Len(history') /\ i > Len(history) /\ i \in Nat
      BY <1>1, <1>7, <1>9, Newer
    <3> QED BY <1>7, <3>1 DEF Grows
  <2> HIDE DEF k
  <2>2. i = Len(history) + k /\ k \in Nat
    BY <1>1, <1>7, <2>1 DEF k
  <2>3. CASE k \in 2..(n + 1)
    <3>1. k - 1 \in 1..n /\ (k - 1) + 1 = k
      BY <1>7, <2>3
    <3>2. es[k] = DecisionEvent(ds[k - 1], u)
      BY <1>5, <3>1
    <3>3. i - Len(history) - 1 = k - 1
      BY <1>1, <2>2
    <3> QED BY <2>1, <3>1, <3>2, <3>3
  <2>4. CASE k = 1 /\ es[k] = Event("DecisionTaskCompleted", "", 0)
    BY <2>1, <2>2, <2>4
  <2>5. CASE k > n + 1 /\ es[k] = Event("DecisionTaskScheduled", "", 0)
    <3>0. k > n + 1
      BY <2>5
    <3>1. i > Len(history) + 1 + n
      BY <1>1, <1>7, <2>2, <3>0
    <3> QED BY <2>1, <2>5, <3>1
  <2> QED BY <1>5, <2>1, <2>3, <2>4, <2>5
<1>10. history'[Len(history) + 1] = Event("DecisionTaskCompleted", "", 0)
  <2>1. 1 \in 1..Len(es) /\ 1 \notin 2..(n + 1) /\ ~(1 > n + 1)
    BY <1>7
  <2>2. es[1] = Event("DecisionTaskCompleted", "", 0)
    BY <1>5, <2>1
  <2> QED BY <1>7, <2>1, <2>2 DEF Grows
<1>11. Len(history) + 1 + n <= Len(history')
  BY <1>1, <1>7, <1>8
<1>12. CompletionGrowth(ds, n, u)
  BY <1>2, <1>3, <1>7, <1>9, <1>10, <1>11 DEF CompletionGrowth
<1> QED BY <1>2, <1>4, <1>12

(* The events a response adds.                                             *)
LEMMA DecisionEventFacts ==
  ASSUME NEW d \in Decision, NEW u \in BOOLEAN
  PROVE  LET e == DecisionEvent(d, u) IN
         /\ ~Closed(e) /\ ~isErrorSignal(e) /\ ~Starting(e)
         /\ e.type # "DecisionTaskCompleted"
         /\ HoldsState(e) <=> Recording(d)
         /\ isStateMarker(e) <=> Recording(d)
         /\ e.state = d.state /\ e.ref = d.ref
         /\ Reporting(d) => Initiated(e)
         /\ IsScheduled(e) <=> Asks(d)
<1> DEFINE e == DecisionEvent(d, u)
<1>1. /\ e.type = DecisionEventType(d, u) /\ e.label = d.label /\ e.ref = d.ref
      /\ e.state = d.state
  BY DecisionEventTyped
<1> HIDE DEF e
<1>2. /\ d.type \in DecisionTypes
      /\ e.type \in {"MarkerRecorded", "ActivityTaskScheduled",
                     "SignalExternalWorkflowExecutionInitiated",
                     "CompleteWorkflowExecutionFailed", "WorkflowExecutionCompleted"}
      /\ e.type = "MarkerRecorded" <=> d.type = "RecordMarker"
      /\ e.type = "ActivityTaskScheduled" <=> d.type = "ScheduleActivityTask"
      /\ d.type = "SignalExternalWorkflowExecution" =>
           e.type = "SignalExternalWorkflowExecutionInitiated"
  BY <1>1 DEF DecisionEventType, Decision, DecisionTypes
<1>3. /\ ~Closed(e) /\ ~isErrorSignal(e) /\ ~Starting(e)
      /\ e.type # "DecisionTaskCompleted"
      /\ HoldsState(e) <=> Recording(d)
      /\ isStateMarker(e) <=> Recording(d)
      /\ Reporting(d) => Initiated(e)
      /\ IsScheduled(e) <=> Asks(d)
  BY <1>1, <1>2 DEF Closed, ActivityClosed, isErrorSignal, Starting, HoldsState,
                    isStateMarker, Recording, Reporting, Initiated, IsScheduled, Asks
<1> QED BY <1>1, <1>3 DEF e

LEMMA PlainCompletionEvents ==
  ASSUME NEW type \in {"DecisionTaskCompleted", "DecisionTaskScheduled"}
  PROVE  LET e == Event(type, "", 0) IN
         /\ ~Closed(e) /\ ~isErrorSignal(e) /\ ~Starting(e) /\ ~HoldsState(e)
         /\ ~IsScheduled(e) /\ ~Initiated(e) /\ e.state.data.form # "nil"
         /\ e.type = type
<1>1. NoState.data.form # "nil"
  BY DEF NoState, ZeroData
<1>2. /\ Event(type, "", 0).type = type /\ Event(type, "", 0).label = ""
      /\ Event(type, "", 0).state = NoState
  BY DEF Event
<1> QED BY <1>1, <1>2 DEF Closed, ActivityClosed, isErrorSignal, Starting, HoldsState,
                    isStateMarker, Initiated, IsScheduled

LEMMA CompletionEventFacts ==
  ASSUME IInv, RecordInv, NEW w \in Workers, pc[w] = "respond",
         NEW n, NEW u, CompletionGrowth(tick[w].decisions, n, u)
  PROVE  LET t == tick[w]
             At(i) == i - Len(history) - 1 IN
         /\ \A i \in Ids' : i \notin Ids =>
              /\ i > Len(history) /\ i \in Nat
              /\ ~Closed(history'[i]) /\ ~isErrorSignal(history'[i])
              /\ ~Starting(history'[i]) /\ history'[i].state.data.form # "nil"
              /\ history'[i].type = "DecisionTaskCompleted" => i = Len(history) + 1
              /\ HoldsState(history'[i]) => ~t.failed /\ i = Len(history) + 2
              /\ IsScheduled(history'[i]) =>
                   /\ At(i) \in 1..Len(t.decisions) /\ Asks(t.decisions[At(i)])
                   /\ history'[i].ref = t.decisions[At(i)].ref
         /\ ~t.failed => /\ Len(history) + 2 \in Ids'
                         /\ isStateMarker(history'[Len(history) + 2])
                         /\ history'[Len(history) + 2].state = t.saved
         /\ Len(history) + 1 \in Ids'
         /\ history'[Len(history) + 1].type = "DecisionTaskCompleted"
<1> DEFINE t == tick[w]
           ds == t.decisions
           L == Len(history)
<1>1. /\ history \in Seq(HistoryEvent) /\ L \in Nat
      /\ ds \in Seq(Decision) /\ Len(ds) \in Nat /\ n \in 0..Len(ds) /\ n \in Nat
      /\ u \in BOOLEAN /\ HistoryKept /\ L + 1 + n <= Len(history')
      /\ Len(history') \in Nat /\ Ids' = 1..Len(history')
  <2>1. history \in Seq(HistoryEvent) /\ L \in Nat /\ ds \in Seq(Decision)
        /\ Len(ds) \in Nat
    BY Typed
  <2>2. HistoryKept
    BY DEF CompletionGrowth
  <2>0. n \in 0..Len(ds)
    BY DEF CompletionGrowth
  <2>3. n \in Nat
    BY <2>0, <2>1
  <2> QED BY <2>0, <2>1, <2>2, <2>3, Newer DEF CompletionGrowth
<1>2. TickDecisions("respond", t) /\ TickMarker("respond", t)
  BY Typed DEF RecordInv, RecordTick, Working, TickInv
<1>3. ASSUME NEW i \in Ids', i \notin Ids
      PROVE  /\ i > L /\ i \in Nat
             /\ ~Closed(history'[i]) /\ ~isErrorSignal(history'[i])
             /\ ~Starting(history'[i]) /\ history'[i].state.data.form # "nil"
             /\ history'[i].type = "DecisionTaskCompleted" => i = L + 1
             /\ HoldsState(history'[i]) => ~t.failed /\ i = L + 2
             /\ IsScheduled(history'[i]) =>
                  /\ i - L - 1 \in 1..Len(ds) /\ Asks(ds[i - L - 1])
                  /\ history'[i].ref = ds[i - L - 1].ref
  <2>1. i > L /\ i \in Nat
    BY <1>1, <1>3, Newer
  <2>2. CASE i - L - 1 \in 1..n /\ history'[i] = DecisionEvent(ds[i - L - 1], u)
    <3> DEFINE k == i - L - 1
               d == ds[k]
    <3>1. k \in 1..Len(ds) /\ d \in Decision /\ history'[i] = DecisionEvent(d, u)
      BY <1>1, <2>2
    <3>2. Recording(d) => ~t.failed /\ i = L + 2
      <4>1. Recording(d) => ~t.failed /\ k = 1
        BY <1>2, <3>1 DEF TickDecisions
      <4> QED BY <1>1, <2>1, <4>1
    <3>3. d.state.data.form # "nil"
      BY <1>2, <3>1 DEF TickDecisions
    <3> HIDE DEF k, d
    <3>4. /\ ~Closed(history'[i]) /\ ~isErrorSignal(history'[i])
          /\ ~Starting(history'[i]) /\ history'[i].state = d.state
          /\ history'[i].type # "DecisionTaskCompleted"
          /\ HoldsState(history'[i]) <=> Recording(d)
          /\ history'[i].ref = d.ref /\ (IsScheduled(history'[i]) <=> Asks(d))
      BY <1>1, <3>1, DecisionEventFacts
    <3> QED BY <2>1, <3>1, <3>2, <3>3, <3>4 DEF k, d
  <2>3. CASE i = L + 1 /\ history'[i] = Event("DecisionTaskCompleted", "", 0)
    BY <2>1, <2>3, PlainCompletionEvents
  <2>4. CASE history'[i] = Event("DecisionTaskScheduled", "", 0)
    BY <2>1, <2>4, PlainCompletionEvents
  <2> QED BY <1>3, <2>2, <2>3, <2>4 DEF CompletionGrowth
<1>4. ASSUME ~t.failed
      PROVE  /\ L + 2 \in Ids' /\ isStateMarker(history'[L + 2])
             /\ history'[L + 2].state = t.saved
  <2>1. Len(ds) > 0 /\ ds[1] = Marker(t.saved)
    BY <1>2, <1>4 DEF TickMarker
  <2>2. n > 0
    <3>1. Effective(ds, n, u)
      BY DEF CompletionGrowth
    <3>2. n < Len(ds) => n > 0
      BY <3>1 DEF Effective
    <3> QED BY <1>1, <2>1, <3>2
  <2>3. L + 2 \in Ids' /\ L + 2 \notin Ids
    BY <1>1, <2>2 DEF Ids
  <2>4. history'[L + 2] = DecisionEvent(ds[1], u)
    <3>1. ~(L + 2 > L + 1 + n) /\ L + 2 # L + 1 /\ (L + 2) - L - 1 = 1
      BY <1>1, <2>2
    <3> QED BY <2>3, <3>1 DEF CompletionGrowth
  <2>5. ds[1] \in Decision
    BY <1>1, <2>1
  <2>6. Recording(ds[1]) /\ ds[1].state = t.saved
    BY <2>1 DEF Marker, NewDecision, Recording
  <2> QED BY <1>1, <2>3, <2>4, <2>5, <2>6, DecisionEventFacts
<1>5. L + 1 \in Ids' /\ history'[L + 1].type = "DecisionTaskCompleted"
  <2>1. L + 1 \in Ids'
    BY <1>1 DEF Ids
  <2> QED BY <2>1, PlainCompletionEvents DEF CompletionGrowth
<1> QED BY <1>3, <1>4, <1>5

(* The task that completes is the newest that completed.                   *)
LEMMA CompletionRecords ==
  ASSUME IInv, RecordInv, NEW w \in Workers, pc[w] = "respond",
         CompleteTask(tick[w].started, tick[w].decisions)
  PROVE  LET t == tick[w] IN
         /\ ~t.failed => \A i : /\ IsRecorded(i)' <=> i = Len(history) + 2
                                /\ IsRecorded(i)' => Recorded(i)' = t.saved
         /\ t.failed => /\ \A i : IsRecorded(i)' <=> IsRecorded(i)
                        /\ \A i \in Ids : Recorded(i)' = Recorded(i)
         /\ CompletedAt' = CompletedAt \cup {t.started}
         /\ t.started \in Ids /\ Valid(t)
         /\ t.prev = prevStarted /\ t.prev < t.started
<1> DEFINE t == tick[w]
           L == Len(history)
           s == t.started
<1>1. PICK u \in BOOLEAN, n \in 0..Len(t.decisions) : CompletionGrowth(t.decisions, n, u)
  BY CompletionGrows
<1>2. /\ task = StartedTask(s) /\ prevStarted' = s
  BY CompletionGrows
<1>3. /\ HistoryKept /\ history \in Seq(HistoryEvent)
  BY <1>1, Typed DEF CompletionGrowth
<1>4. /\ Ids \subseteq Ids' /\ \A i \in Ids : history'[i] = history[i]
      /\ \A i \in Ids' : i \in Nat /\ (i \notin Ids => i > L)
      /\ \A i \in Ids : i \in Nat /\ i <= L
      /\ L \in Nat /\ Ids = 1..L /\ Ids' = 1..Len(history')
      /\ Len(history') \in Nat
  BY <1>3, Newer
<1>5. /\ s \in Nat /\ t.prev \in Nat /\ t.prev < s /\ s <= L /\ t.prev = prevStarted
      /\ s \in Ids /\ Valid(t)
  <2>1. TickPosition(t) /\ s \in Nat /\ t.prev \in Nat
    BY Typed DEF TickInv, Working
  <2> QED BY <1>2, <1>4, <2>1 DEF TickPosition, Valid
<1>6. \A i \in Ids' : i \notin Ids =>
              /\ ~Starting(history'[i])
              /\ history'[i].type = "DecisionTaskCompleted" => i = L + 1
              /\ HoldsState(history'[i]) => ~t.failed /\ i = L + 2
  BY <1>1, CompletionEventFacts
<1>7. L + 1 \in Ids' /\ history'[L + 1].type = "DecisionTaskCompleted"
  BY <1>1, CompletionEventFacts
<1>8. ASSUME ~t.failed
      PROVE  \A i : /\ IsRecorded(i)' <=> i = L + 2
                    /\ IsRecorded(i)' => Recorded(i)' = t.saved
  <2>1. /\ L + 2 \in Ids' /\ isStateMarker(history'[L + 2])
        /\ history'[L + 2].state = t.saved
    BY <1>1, <1>8, CompletionEventFacts
  <2>2. \A i \in Ids' : HoldsState(history'[i]) => i <= L + 2
    BY <1>4, <1>6
  <2>3. L + 2 \in {j \in Ids' : HoldsState(history'[j])}
    BY <2>1 DEF HoldsState
  <2>4. \A i \in Ids' : i <= L + 2 /\ L + 2 <= i => i = L + 2
    BY <1>4
  <2>5. \A i : IsRecorded(i)' <=> /\ i \in Ids' /\ HoldsState(history'[i])
                                  /\ \A j \in Ids' : HoldsState(history'[j]) => j <= i
    BY DEF IsRecorded, IsNewest, HoldsState, isStateMarker
  <2>6. \A i : IsRecorded(i)' <=> i = L + 2
    BY <2>2, <2>3, <2>4, <2>5
  <2>7. \A i : i = L + 2 => Recorded(i)' = t.saved
    BY <2>1 DEF Recorded, findSerializedState, isStateMarker
  <2> QED BY <2>6, <2>7
<1>9. ASSUME t.failed
      PROVE  /\ \A i : IsRecorded(i)' <=> IsRecorded(i)
             /\ \A i \in Ids : Recorded(i)' = Recorded(i)
  <2>1. {j \in Ids' : HoldsState(history'[j])} = {j \in Ids : HoldsState(history[j])}
    BY <1>4, <1>6, <1>9
  <2>2. \A i : IsRecorded(i)' <=> IsRecorded(i)
    BY <2>1 DEF IsRecorded, IsNewest, HoldsState, isStateMarker
  <2>3. \A i \in Ids : Recorded(i)' = Recorded(i)
    BY <1>4 DEF Recorded, findSerializedState
  <2> QED BY <2>2, <2>3
<1>10. /\ history[s].type = "DecisionTaskStarted"
       /\ \A k \in Ids : k > s =>
            history[k].type \notin {"DecisionTaskStarted", "DecisionTaskTimedOut"}
  BY <1>2 DEF RecordInv, TaskInv, StartedTask
<1>11. \A r : r \in CompletedAt \cup {s} => r \in CompletedAt'
  <2>1. s \in CompletedAt'
    <3>1. s \in Ids' /\ history'[s].type = "DecisionTaskStarted"
      BY <1>4, <1>5, <1>10
    <3>2. \A k \in (s + 1)..((L + 1) - 1) : /\ history'[k].type # "DecisionTaskStarted"
                                            /\ history'[k].type # "DecisionTaskTimedOut"
      <4>1. \A k \in (s + 1)..((L + 1) - 1) : k \in Ids /\ k > s
        BY <1>4, <1>5
      <4> QED BY <1>4, <1>10, <4>1
    <3>3. s < L + 1
      BY <1>4, <1>5
    <3> QED BY <1>7, <3>1, <3>2, <3>3 DEF CompletedAt
  <2>2. ASSUME NEW r \in CompletedAt
        PROVE  r \in CompletedAt'
    <3>1. r \in Ids /\ history[r].type = "DecisionTaskStarted"
      BY DEF CompletedAt
    <3>2. PICK c \in Ids :
            /\ r < c /\ history[c].type = "DecisionTaskCompleted"
            /\ \A k \in (r + 1)..(c - 1) :
                 history[k].type # "DecisionTaskStarted"
                 /\ history[k].type # "DecisionTaskTimedOut"
      BY DEF CompletedAt
    <3>3. \A k \in (r + 1)..(c - 1) : k \in Ids
      BY <1>4, <3>1, <3>2
    <3>4. /\ c \in Ids' /\ r < c /\ history'[c].type = "DecisionTaskCompleted"
          /\ \A k \in (r + 1)..(c - 1) :
                 history'[k].type # "DecisionTaskStarted"
                 /\ history'[k].type # "DecisionTaskTimedOut"
      BY <1>4, <3>2, <3>3
    <3>5. r \in Ids' /\ history'[r].type = "DecisionTaskStarted"
      BY <1>4, <3>1
    <3> QED BY <3>4, <3>5 DEF CompletedAt
  <2> QED BY <2>1, <2>2
<1>12. \A r : r \in CompletedAt' => r \in CompletedAt \cup {s}
  <2> SUFFICES ASSUME NEW r \in CompletedAt', r # s
               PROVE  r \in CompletedAt
    OBVIOUS
  <2>1. r \in Ids' /\ history'[r].type = "DecisionTaskStarted"
    BY DEF CompletedAt
  <2>2. r \in Ids /\ history[r].type = "DecisionTaskStarted" /\ r < s
    <3>1. r \in Ids /\ history[r].type = "DecisionTaskStarted"
      BY <1>4, <1>6, <2>1 DEF Starting
    <3>2. ~(r > s)
      BY <1>10, <3>1
    <3> QED BY <1>4, <1>5, <3>1, <3>2
  <2>3. PICK c \in Ids' :
          /\ r < c /\ history'[c].type = "DecisionTaskCompleted"
          /\ \A k \in (r + 1)..(c - 1) :
               history'[k].type # "DecisionTaskStarted"
               /\ history'[k].type # "DecisionTaskTimedOut"
    BY DEF CompletedAt
  <2>4. c \in Ids
    <3> SUFFICES ASSUME c \notin Ids
                 PROVE  FALSE
      OBVIOUS
    <3>1. s \in (r + 1)..(c - 1)
      BY <1>4, <1>5, <2>2
    <3>2. history'[s].type = "DecisionTaskStarted"
      BY <1>4, <1>5, <1>10
    <3> QED BY <2>3, <3>1, <3>2
  <2>5. \A k \in (r + 1)..(c - 1) : k \in Ids
    BY <1>4, <2>2, <2>4
  <2> QED BY <1>4, <2>2, <2>3, <2>4, <2>5 DEF CompletedAt
<1>13. CompletedAt' = CompletedAt \cup {s}
  BY <1>11, <1>12
<1> QED BY <1>5, <1>8, <1>9, <1>13

LEMMA CompletionRecord ==
  ASSUME IInv, RecordInv, NEW w \in Workers, pc[w] = "respond",
         CompleteTask(tick[w].started, tick[w].decisions),
         NEW label \in {"poll", "replicate"}, NEW t1 \in Tick, Go(w, label, t1)
  PROVE  RecordInv'
<1> DEFINE t == tick[w]
           L == Len(history)
<1>1. PICK u \in BOOLEAN, n \in 0..Len(t.decisions) : CompletionGrowth(t.decisions, n, u)
  BY CompletionGrows
<1>2. /\ prevStarted' = t.started /\ task' \in {NoTask, ScheduledTask}
  BY CompletionGrows
<1>3. /\ HistoryKept /\ history \in Seq(HistoryEvent)
  BY <1>1, Typed DEF CompletionGrowth
<1>4. /\ Ids \subseteq Ids' /\ \A i \in Ids : history'[i] = history[i] /\ i \in Nat
      /\ L \in Nat
  BY <1>3, Newer
<1>5. \A i \in Ids' : i \notin Ids =>
              /\ ~Closed(history'[i]) /\ ~isErrorSignal(history'[i])
              /\ history'[i].state.data.form # "nil"
  BY <1>1, CompletionEventFacts
<1>6. TaskInv'
  BY <1>2 DEF TaskInv, NoTask, ScheduledTask
<1>7. EventsInv'
  <2>1. \E i \in Ids' : IsRecorded(i)'
    <3>1. CASE t.failed
      <4>1. PICK i \in Ids : IsRecorded(i)
        BY DEF RecordInv, EventsInv
      <4> QED BY <1>4, <3>1, <4>1, CompletionRecords
    <3>2. CASE ~t.failed
      <4>1. L + 2 \in Ids'
        BY <1>1, <3>2, CompletionEventFacts
      <4>2. \A i : i = L + 2 => IsRecorded(i)'
        BY <3>2, CompletionRecords
      <4> QED BY <4>1, <4>2
    <3> QED BY <3>1, <3>2
  <2>2. ~Clean => ~Clean'
    BY <1>4 DEF Clean
  <2>3. ASSUME NEW i \in Ids'
        PROVE  /\ Closed(history'[i]) => history'[i].ref < i
               /\ isErrorSignal(history'[i]) => ~Clean'
               /\ history'[i].state.data.form # "nil"
    <3>1. CASE i \in Ids
      BY <1>4, <2>2, <3>1 DEF RecordInv, EventsInv
    <3>2. CASE i \notin Ids
      BY <1>5, <3>2
    <3> QED BY <3>1, <3>2
  <2> QED BY <2>1, <2>3 DEF EventsInv, Closed, isErrorSignal
<1>8. PrevStartedInv'
  <2>1. /\ CompletedAt' = CompletedAt \cup {t.started} /\ t.started \in Ids
        /\ t.prev = prevStarted /\ t.prev < t.started
    BY CompletionRecords
  <2>2. \A r \in CompletedAt : r \in Nat /\ r <= prevStarted
    BY <1>4 DEF RecordInv, PrevStartedInv, CompletedAt
  <2>3. prevStarted \in Nat /\ t.started \in Nat
    BY Typed
  <2> QED BY <1>2, <2>1, <2>2, <2>3 DEF PrevStartedInv
<1>9. ASSUME NEW v \in Workers
      PROVE  RecordTick(pc[v], tick[v])'
  <2>1. label \in PCs
    BY DEF PCs
  <2>2. CASE v = w
    <3>1. pc'[w] = label
      BY <2>1, GoType DEF IInv
    <3> QED BY <2>2, <3>1 DEF RecordTick, Working, Deciding
  <2>3. CASE v # w
    <3>1. pc'[v] = pc[v] /\ tick'[v] = tick[v]
      BY <2>1, <2>3, GoType DEF IInv
    <3>2. task' # StartedTask(tick[v].started)
      BY <1>2 DEF NoTask, ScheduledTask, StartedTask
    <3> QED BY <1>3, <3>1, <3>2, OthersRecord DEF RecordInv
  <2> QED BY <2>2, <2>3
<1> QED BY <1>6, <1>7, <1>8, <1>9 DEF RecordInv

LEMMA RespondRecord ==
  ASSUME IInv, RecordInv, NEW w \in Workers, Respond(w) \/ RespondReplyLost(w)
  PROVE  RecordInv'
<1> DEFINE t == tick[w]
<1>1. pc[w] = "respond" /\ CompleteTask(t.started, t.decisions)
  BY DEF Respond, RespondReplyLost
<1>2. Go(w, "poll", IdleTick) \/ Go(w, "replicate", t)
  BY DEF Respond, RespondReplyLost
<1>3. t \in Tick /\ IdleTick \in Tick
  BY Typed, DataTypes
<1> QED BY <1>1, <1>2, <1>3, CompletionRecord

LEMMA IdleRecord ==
  ASSUME IInv, RecordInv, NEW w \in Workers,
         \/ RespondRefused(w) \/ RespondRequestLost(w) \/ ReplicateFails(w)
         \/ ProcessPanics(w) \/ Crash(w) \/ Replicate(w)
  PROVE  RecordInv'
<1>1. Go(w, "poll", IdleTick) /\ UNCHANGED <<history, task, prevStarted>>
  BY DEF RespondRefused, RespondRequestLost, ReplicateFails, ProcessPanics, Crash,
         Replicate, Local
<1>2. RecordTick("poll", IdleTick)
  BY DEF RecordTick, Working, Deciding
<1> QED BY <1>1, <1>2, DataTypes, RecordLocal DEF PCs

LEMMA InitRecord ==
  ASSUME Init
  PROVE  RecordInv
<1> DEFINE d == Event("WorkflowExecutionStarted", "", 0)
           e == Event("DecisionTaskScheduled", "", 0)
<1>1. /\ d.type = "WorkflowExecutionStarted" /\ d.state = NoState
      /\ e.type = "DecisionTaskScheduled" /\ e.state = NoState
  BY DEF Event
<1>2. NoState.data.form # "nil"
  BY DEF NoState, ZeroData
<1>3. /\ history = <<d, e>> /\ task = ScheduledTask /\ prevStarted = 0
      /\ pc = [w \in Workers |-> "poll"]
  BY DEF Init, ServiceInit
<1> HIDE DEF d, e
<1>4. /\ Ids = {1, 2} /\ history[1] = d /\ history[2] = e
  BY <1>3 DEF Ids
<1>5. TaskInv
  BY <1>3 DEF TaskInv, ScheduledTask
<1>6. EventsInv
  <2>1. IsRecorded(1)
    BY <1>1, <1>4 DEF IsRecorded, IsNewest, HoldsState, isStateMarker
  <2> QED BY <1>1, <1>2, <1>4, <2>1
          DEF EventsInv, Closed, ActivityClosed, isErrorSignal
<1>7. PrevStartedInv
  BY <1>1, <1>3, <1>4 DEF PrevStartedInv, CompletedAt
<1>8. \A w \in Workers : RecordTick(pc[w], tick[w])
  BY <1>3 DEF RecordTick, Working, Deciding
<1> QED BY <1>5, <1>6, <1>7, <1>8 DEF RecordInv

LEMMA StepRecord ==
  ASSUME IInv, RecordInv, [Next]_vars
  PROVE  RecordInv'
<1>1. ASSUME NEW w \in Workers, WorkerStep(w)
      PROVE  RecordInv'
  BY <1>1, PollRecord, FindStateRecord, HandleErrorEventRecord, RecoverStateRecord,
     HandleEventRecord, MissingStateRecord, FinishTickRecord,
     StateSerializationFailsRecord, RespondRecord, IdleRecord, Zenon DEF WorkerStep
<1>2. ASSUME NEW w \in Workers, WorkerFault(w)
      PROVE  RecordInv'
  BY <1>2, RespondRecord, IdleRecord, Zenon DEF WorkerFault
<1>3. CASE TimeOutAbandoned \/ TimeOutSlow \/ Environment
  BY <1>3, EnvironmentMild, MildStepRecord DEF RecordInv
<1>4. CASE UNCHANGED vars
  <2>1. history' = history /\ UNCHANGED <<task, prevStarted, pc, tick, stream>>
    BY <1>4 DEF vars
  <2>2. MildStep
    BY <2>1, Typed DEF MildStep, MildGrowth, HistoryKept, Ids
  <2> QED BY <2>2, MildStepRecord
<1> QED BY <1>1, <1>2, <1>3, <1>4, Zenon DEF Next

(* What the workers carry between the recorded states holds in every        *)
(* behaviour.                                                              *)
THEOREM RecordInvariance == Spec => [](IInv /\ RecordInv)
<1>1. Init => IInv /\ RecordInv
  BY InitInv, InitRecord
<1>2. IInv /\ RecordInv /\ [Next]_vars => (IInv /\ RecordInv)'
  BY StepInv, StepRecord
<1> QED BY <1>1, <1>2, PTL DEF Spec

-----------------------------------------------------------------------------
(* What a task that completes puts on record, seen from its tick.           *)
LEMMA StepFollows ==
  ASSUME IInv, RecordInv, [Next]_vars,
         NEW j \in Ids' \ Ids, isStateMarker(history'[j]), NEW i \in Ids, IsRecorded(i)
  PROVE  \/ history'[j].state.version = history[i].state.version + 1
         \/ /\ ErrorEvents(history, prevStarted, prevStarted') # {}
            /\ history'[j].state.version = 1
<1>0. history \in Seq(HistoryEvent) /\ history[i] \in HistoryEvent
  BY Typed
<1>1. ~MildGrowth
  BY DEF MildGrowth, Mild, HoldsState
<1>2. history' # history
  BY DEF Ids
<1>3. PICK w \in Workers : Respond(w) \/ RespondReplyLost(w)
  <2>1. ~(TimeOutAbandoned \/ TimeOutSlow \/ Environment)
    BY <1>1, EnvironmentMild DEF RecordInv, MildStep
  <2>2. \A w \in Workers : ~PollForTask(w)
    BY <1>1, PollMild
  <2>3. PICK w \in Workers : WorkerStep(w) \/ WorkerFault(w)
    BY <1>2, <2>1, Zenon DEF Next, vars
  <2>4. ~(FindState(w) \/ HandleErrorEvent(w) \/ RecoverState(w) \/ HandleEvent(w)
          \/ MissingState(w) \/ FinishTick(w) \/ StateSerializationFails(w)
          \/ RespondRefused(w))
    BY <1>2 DEF FindState, HandleErrorEvent, RecoverState, HandleEvent, MissingState,
                FinishTick, StateSerializationFails, RespondRefused, Local
  <2>5. ~(Replicate(w) \/ RespondRequestLost(w) \/ ReplicateFails(w)
          \/ ProcessPanics(w) \/ Crash(w))
    BY <1>2 DEF Replicate, RespondRequestLost, ReplicateFails, ProcessPanics, Crash
  <2> QED BY <2>2, <2>3, <2>4, <2>5, Zenon DEF WorkerStep, WorkerFault
<1> DEFINE t == tick[w]
<1>4. pc[w] = "respond" /\ CompleteTask(t.started, t.decisions)
  BY <1>3 DEF Respond, RespondReplyLost
<1>5. PICK u \in BOOLEAN, n \in 0..Len(t.decisions) : CompletionGrowth(t.decisions, n, u)
  BY <1>4, CompletionGrows
<1>6. ~t.failed /\ history'[j].state = t.saved
  <2>1. HoldsState(history'[j])
    BY DEF HoldsState
  <2> QED BY <1>4, <1>5, <2>1, CompletionEventFacts
<1>7. Valid(t) /\ t.prev = prevStarted /\ prevStarted' = t.started
  BY <1>4, CompletionRecords, CompletionGrows
<1>8. Succeeds(t, Recorded(i))
  BY <1>4, <1>6, <1>7 DEF RecordInv, RecordTick, Working, TickRecords
<1>9. Recorded(i).version = history[i].state.version
  BY <1>0, FoundProps DEF Recorded
<1> QED BY <1>6, <1>7, <1>8, <1>9 DEF Succeeds, Errors

(* A state recorded by any worker is the successor of the state it replaces, *)
(* and only error signals in its task let the version start over at 1       *)
(* (findSerializedState, recordStateMarker, stateVersion).                  *)
THEOREM VersionsFollowOn == Spec => VersionsFollow
<1> DEFINE A == \A j \in Ids' \ Ids : isStateMarker(history'[j]) =>
         \A i \in Ids : IsRecorded(i) =>
           \/ history'[j].state.version = history[i].state.version + 1
           \/ /\ ErrorEvents(history, prevStarted, prevStarted') # {}
              /\ history'[j].state.version = 1
<1>1. IInv /\ RecordInv /\ [Next]_vars => [A]_vars
  BY StepFollows, Zenon
<1>2. VersionsFollow <=> [][A]_vars
  BY DEF VersionsFollow
<1> QED BY <1>1, <1>2, RecordInvariance, PTL DEF Spec

-----------------------------------------------------------------------------
(***************************************************************************)
(* A single worker replicates a version before it records the next one.    *)
(***************************************************************************)
LEMMA StreamKept ==
  ASSUME IInv, StreamInv, MildGrowth, stream' = stream,
         \A w \in Workers : pc'[w] = "replicate" =>
           pc[w] = "replicate" /\ tick'[w] = tick[w]
  PROVE  StreamInv'
<1>1. /\ Clean' <=> Clean
      /\ \A i : IsRecorded(i)' <=> IsRecorded(i)
      /\ \A i \in Ids : Recorded(i)' = Recorded(i)
  BY Typed, MildFacts
<1>2. \A i : IsRecorded(i) => i \in Ids
  BY DEF IsRecorded, IsNewest
<1>3. StreamInOrder'
  BY <1>1 DEF StreamInv, StreamInOrder
<1> QED BY <1>1, <1>2, <1>3 DEF StreamInv

LEMMA LocalStream ==
  ASSUME IInv, StreamInv, NEW w \in Workers, NEW label, label # "replicate",
         NEW t, Go(w, label, t), history' = history, stream' = stream
  PROVE  StreamInv'
<1>1. MildGrowth
  BY Typed DEF MildGrowth, HistoryKept, Ids
<1>2. pc \in [Workers -> PCs] /\ tick \in [Workers -> Tick]
  BY DEF IInv, TypeOK
<1>3. \A v \in Workers : pc'[v] = "replicate" => pc[v] = "replicate" /\ tick'[v] = tick[v]
  BY <1>2 DEF Go
<1> QED BY <1>1, <1>3, StreamKept

LEMMA TickStream ==
  ASSUME IInv, StreamInv, NEW w \in Workers,
         \/ FindState(w) \/ HandleErrorEvent(w) \/ RecoverState(w) \/ HandleEvent(w)
         \/ MissingState(w) \/ FinishTick(w) \/ StateSerializationFails(w)
         \/ RespondRefused(w) \/ RespondRequestLost(w) \/ ReplicateFails(w) \/ ProcessPanics(w) \/ Crash(w)
  PROVE  StreamInv'
<1>1. \E label : label # "replicate" /\ \E t : Go(w, label, t)
  <2>1. CASE FindState(w)
    BY <2>1, Zenon DEF FindState
  <2>2. CASE HandleErrorEvent(w)
    BY <2>2, Zenon DEF HandleErrorEvent
  <2>3. CASE RecoverState(w)
    BY <2>3, Zenon DEF RecoverState
  <2>4. CASE HandleEvent(w)
    BY <2>4, Zenon DEF HandleEvent
  <2>5. CASE \/ MissingState(w) \/ FinishTick(w) \/ StateSerializationFails(w)
             \/ RespondRefused(w) \/ RespondRequestLost(w) \/ ReplicateFails(w) \/ ProcessPanics(w) \/ Crash(w)
    BY <2>5, Zenon DEF MissingState, FinishTick, StateSerializationFails, RespondRefused,
                       RespondRequestLost, ReplicateFails, ProcessPanics, Crash
  <2> QED BY <2>1, <2>2, <2>3, <2>4, <2>5
<1>2. history' = history /\ stream' = stream
  BY DEF FindState, HandleErrorEvent, RecoverState, HandleEvent, MissingState, FinishTick,
         StateSerializationFails, RespondRefused, Local, RespondRequestLost, ReplicateFails, ProcessPanics, Crash
<1> QED BY <1>1, <1>2, LocalStream

LEMMA PollStream ==
  ASSUME IInv, StreamInv, NEW w \in Workers, PollForTask(w)
  PROVE  StreamInv'
<1>1. pc \in [Workers -> PCs] /\ tick \in [Workers -> Tick]
  BY DEF IInv, TypeOK
<1>2. \E t : Go(w, "begin", t)
  BY Zenon DEF PollForTask
<1>3. \A v \in Workers : pc'[v] = "replicate" => pc[v] = "replicate" /\ tick'[v] = tick[v]
  BY <1>1, <1>2 DEF Go
<1> QED BY <1>3, PollMild, StreamKept DEF PollForTask

LEMMA ReplicateStream ==
  ASSUME IInv, RecordInv, StreamInv, OneWorker, NEW w \in Workers, Replicate(w)
  PROVE  StreamInv'
<1> DEFINE s == tick[w].saved
<1>1. /\ pc[w] = "replicate" /\ stream' = Append(stream, s) /\ history' = history
      /\ Go(w, "poll", IdleTick)
  BY DEF Replicate
<1>2. /\ stream \in Seq(SerializedState) /\ s \in SerializedState /\ Len(stream) \in Nat
      /\ TypeOK
  <2>1. TypeOK /\ stream \in Seq(SerializedState)
    BY DEF IInv, TypeOK
  <2>2. tick[w] \in Tick
    BY Typed
  <2>3. s \in SerializedState
    BY <2>2 DEF Tick
  <2> QED BY <2>1, <2>3
<1>3. \A v \in Workers : pc'[v] # "replicate"
  <2>1. pc'[w] = "poll"
    BY <1>1, <1>2, DataTypes, GoType DEF PCs
  <2> QED BY <2>1 DEF OneWorker
<1> HIDE DEF s
<1>4. /\ Len(stream') = Len(stream) + 1 /\ stream'[Len(stream) + 1] = s
      /\ \A k \in 1..Len(stream) : stream'[k] = stream[k]
  BY <1>1, <1>2
<1>5. /\ \A k \in 1..Len(stream') : k \in 1..Len(stream) \/ k = Len(stream) + 1
      /\ \A k \in 1..Len(stream') : \A l \in 1..(k-1) : l \in 1..Len(stream)
  BY <1>2, <1>4
<1>6. /\ Clean' <=> Clean
      /\ \A i : IsRecorded(i)' <=> IsRecorded(i)
      /\ \A i : Recorded(i)' = Recorded(i)
      /\ Ids' = Ids
  BY <1>1 DEF Clean, IsRecorded, Recorded, Ids
<1>7. ASSUME Clean, NEW i \in Ids, IsRecorded(i)
      PROVE  /\ s.version <= Recorded(i).version
             /\ \A k \in 1..Len(stream) : /\ stream[k].version < s.version
                                          /\ stream[k].version <= Recorded(i).version
  BY <1>1, <1>7 DEF StreamInv, s
<1>8. StreamInOrder'
  <2> SUFFICES ASSUME Clean, NEW k \in 1..Len(stream'), NEW l \in 1..(k-1)
               PROVE  stream'[l].version < stream'[k].version
    BY <1>6 DEF StreamInOrder
  <2>1. CASE k \in 1..Len(stream)
    BY <1>4, <1>5, <2>1 DEF StreamInv, StreamInOrder
  <2>2. CASE k = Len(stream) + 1
    <3>1. PICK i \in Ids : IsRecorded(i)
      BY DEF RecordInv, EventsInv
    <3> QED BY <1>4, <1>5, <1>7, <2>2, <3>1
  <2> QED BY <1>5, <2>1, <2>2
<1>9. \A i \in Ids : Clean /\ IsRecorded(i) =>
        \A k \in 1..Len(stream') : stream'[k].version <= Recorded(i).version
  BY <1>4, <1>5, <1>7
<1> QED BY <1>3, <1>6, <1>8, <1>9 DEF StreamInv

(* What a single worker records is newer than all that it replicated.       *)
LEMMA CompletionStream ==
  ASSUME IInv, RecordInv, StreamInv, OneWorker, NEW w \in Workers, pc[w] = "respond",
         CompleteTask(tick[w].started, tick[w].decisions), stream' = stream,
         NEW label \in PCs, NEW t1 \in Tick, Go(w, label, t1),
         label = "replicate" => ~tick[w].failed /\ t1 = tick[w]
  PROVE  StreamInv'
<1> DEFINE t == tick[w]
<1>1. /\ pc'[w] = label /\ tick'[w] = t1
  BY GoType DEF IInv
<1>2. \A v \in Workers : v = w
  BY DEF OneWorker
<1>3. HistoryKept /\ history \in Seq(HistoryEvent)
  <2>1. PICK u \in BOOLEAN, n \in 0..Len(t.decisions) : CompletionGrowth(t.decisions, n, u)
    BY CompletionGrows
  <2> QED BY <2>1, Typed DEF CompletionGrowth
<1>4. Clean' => Clean
  BY <1>3, Newer DEF Clean
<1>5. StreamInOrder'
  BY <1>4 DEF StreamInv, StreamInOrder
<1> SUFFICES ASSUME Clean', NEW i \in Ids', IsRecorded(i)'
             PROVE  /\ \A k \in 1..Len(stream) : stream[k].version <= Recorded(i)'.version
                    /\ label = "replicate" =>
                         /\ t.saved.version <= Recorded(i)'.version
                         /\ \A k \in 1..Len(stream) : stream[k].version < t.saved.version
  BY <1>1, <1>2, <1>5 DEF StreamInv
<1>6. CASE t.failed
  <2>1. \A j : IsRecorded(j) => j \in Ids
    BY DEF IsRecorded, IsNewest
  <2>2. i \in Ids /\ IsRecorded(i) /\ Recorded(i)' = Recorded(i)
    BY <1>6, <2>1, CompletionRecords
  <2> QED BY <1>4, <1>6, <2>2 DEF StreamInv
<1>7. CASE ~t.failed
  <2>1. Recorded(i)' = t.saved /\ Valid(t) /\ t.started \in Ids
    BY <1>7, CompletionRecords
  <2>2. PICK j \in Ids : IsRecorded(j)
    BY DEF RecordInv, EventsInv
  <2>3. Errors(t) = {}
    <3> SUFFICES ASSUME NEW e \in Errors(t)
                 PROVE  FALSE
      OBVIOUS
    <3>1. e \in Window(t.prev, t.started) /\ isErrorSignal(history[e])
      BY DEF Errors, ErrorEvents
    <3>2. t.prev \in Nat /\ t.started \in Nat /\ Len(history) \in Nat
      BY Typed
    <3>3. e \in Ids
      BY <2>1, <3>1, <3>2, WindowIds DEF Ids
    <3> QED BY <1>4, <3>1, <3>3 DEF RecordInv, EventsInv
  <2>4. t.saved.version = Recorded(j).version + 1
    BY <1>7, <2>1, <2>2, <2>3 DEF RecordInv, RecordTick, Working, TickRecords, Succeeds
  <2>5. \A k \in 1..Len(stream) : stream[k].version <= Recorded(j).version
    BY <1>4, <2>2 DEF StreamInv
  <2>6. /\ \A k \in 1..Len(stream) : stream[k].version \in Nat
        /\ Recorded(j).version \in Nat
    <3>1. \A k \in 1..Len(stream) : stream[k] \in SerializedState
      <4>1. stream \in Seq(SerializedState)
        BY DEF IInv, TypeOK
      <4> QED BY <4>1
    <3>2. Recorded(j) \in SerializedState
      BY <2>2, Typed, FoundProps DEF Recorded
    <3> QED BY <3>1, <3>2 DEF SerializedState
  <2>7. \A k \in 1..Len(stream) : stream[k].version < t.saved.version
    BY <2>4, <2>5, <2>6
  <2>8. t.saved.version \in Nat
    BY <2>4, <2>6
  <2> QED BY <2>1, <2>6, <2>7, <2>8
<1> QED BY <1>6, <1>7

LEMMA RespondStream ==
  ASSUME IInv, RecordInv, StreamInv, OneWorker, NEW w \in Workers,
         Respond(w) \/ RespondReplyLost(w)
  PROVE  StreamInv'
<1> DEFINE t == tick[w]
<1>1. pc[w] = "respond" /\ CompleteTask(t.started, t.decisions) /\ stream' = stream
  BY DEF Respond, RespondReplyLost
<1>2. Go(w, "poll", IdleTick) \/ (~t.failed /\ Go(w, "replicate", t))
  BY DEF Respond, RespondReplyLost
<1>3. t \in Tick /\ IdleTick \in Tick
  BY Typed, DataTypes
<1> QED BY <1>1, <1>2, <1>3, CompletionStream DEF PCs

LEMMA StepStream ==
  ASSUME IInv, RecordInv, StreamInv, OneWorker, [Next]_vars
  PROVE  StreamInv'
<1>1. ASSUME NEW w \in Workers, WorkerStep(w)
      PROVE  StreamInv'
  BY <1>1, PollStream, TickStream, RespondStream, ReplicateStream, Zenon DEF WorkerStep
<1>2. ASSUME NEW w \in Workers, WorkerFault(w)
      PROVE  StreamInv'
  BY <1>2, TickStream, RespondStream, Zenon DEF WorkerFault
<1>3. CASE TimeOutAbandoned \/ TimeOutSlow \/ Environment
  BY <1>3, EnvironmentMild, StreamKept DEF RecordInv, MildStep
<1>4. CASE UNCHANGED vars
  BY <1>4, Typed, StreamKept DEF vars, MildGrowth, HistoryKept, Ids
<1> QED BY <1>1, <1>2, <1>3, <1>4, Zenon DEF Next

(* The invariant behind it: until a tick fails nothing in the stream is     *)
(* newer than the recorded state, and what the single worker is about to    *)
(* replicate is newer than all of the stream.                              *)
THEOREM StreamInvariance ==
  ASSUME OneWorker
  PROVE  Spec => []StreamInv
<1>1. Init => IInv /\ RecordInv /\ StreamInv
  <2>1. Init => StreamInv
    BY DEF Init, StreamInv, StreamInOrder
  <2> QED BY <2>1, InitInv, InitRecord
<1>2. IInv /\ RecordInv /\ StreamInv /\ [Next]_vars => (IInv /\ RecordInv /\ StreamInv)'
  BY StepInv, StepRecord, StepStream
<1> QED BY <1>1, <1>2, PTL DEF Spec

(* As long as no tick has failed a single worker replicates the versions in *)
(* increasing order, whatever deciders, faults and time-outs do             *)
(* (handleDecisionTask replicates what was just recorded, and before the    *)
(* next poll).                                                              *)
THEOREM StreamIsOrdered ==
  ASSUME OneWorker
  PROVE  Spec => []StreamInOrder
<1>1. StreamInv => StreamInOrder
  BY DEF StreamInv
<1> QED BY <1>1, StreamInvariance, PTL
=============================================================================
