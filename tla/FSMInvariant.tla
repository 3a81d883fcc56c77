---------------------------- MODULE FSMInvariant ----------------------------
(***************************************************************************)
(* The inductive invariant behind the safety properties of FSMProperties.  *)
(* A task token is worth something only while its task is the started one, *)
(* and then the tick's `prev' is still the service's; so the windows of    *)
(* the ticks whose responses are accepted follow one another and never     *)
(* overlap.                                                                *)
(***************************************************************************)
EXTENDS FSMProperties

Deciding == {"begin", "errors", "events"}
Working == Deciding \cup {"respond"}

Asks(d) == d.type = "ScheduleActivityTask"
IsScheduled(e) == e.type = "ActivityTaskScheduled"

(* The data an event or a decision carries comes from the events up to n.  *)
SeenUpTo(e, n) == e.state.data.seen \cup e.report.data.seen \subseteq 1..n

IsRecordedState(s) ==
    \E i \in Ids : isStateMarker(history[i]) /\ history[i].state = s

-----------------------------------------------------------------------------
(* Where a tick stands in the history.                                     *)
InWindow(t) == (t.prev + 1)..t.started
Left(t) == t.errs \cup t.todo

TickPosition(t) ==
    /\ t.prev < t.started /\ t.started <= Len(history)
    /\ Left(t) \subseteq InWindow(t)
    /\ t.errs \cap t.todo = {}
    /\ task = StartedTask(t.started) => t.prev = prevStarted

(* The activities asked for in a tick come from events of its window that   *)
(* it has dealt with, one each.                                             *)
TickCauses(t) ==
    /\ \A k \in 1..Len(t.decisions) :
         Asks(t.decisions[k]) => t.decisions[k].ref \in InWindow(t) \ Left(t)
    /\ \A k, l \in 1..Len(t.decisions) :
         /\ Asks(t.decisions[k]) /\ Asks(t.decisions[l])
         /\ t.decisions[k].ref = t.decisions[l].ref
         => k = l

(* The data a tick can read is about events before its window; what it      *)
(* decides and records, about events it has handled.                        *)
TickSeen(label, t) ==
    /\ \A i \in 1..t.started : SeenUpTo(history[i], t.prev)
    /\ \A k \in 1..Len(t.decisions) : SeenUpTo(t.decisions[k], t.started)
    /\ t.data.seen \subseteq 1..t.started
    /\ t.saved.data.seen \subseteq 1..t.started
    /\ label \in Deciding => /\ t.saved.data.seen \subseteq 1..t.prev
                             /\ t.data.seen \cap Left(t) = {}

(* A tick that did not fail puts its marker first.                          *)
TickMarker(label, t) ==
    /\ label \in Deciding => ~t.failed
    /\ label = "respond" /\ ~t.failed =>
         Len(t.decisions) > 0 /\ t.decisions[1] = Marker(t.saved)

TickInv(label, t) ==
    /\ label \in Working => /\ TickPosition(t)
                            /\ TickCauses(t)
                            /\ TickSeen(label, t)
                            /\ TickMarker(label, t)
    /\ label = "replicate" => IsRecordedState(t.saved)

-----------------------------------------------------------------------------
(* The history speaks of events of completed tasks only.                    *)
HistoryInv ==
    /\ prevStarted <= Len(history)
    /\ task.status = "started" =>
         prevStarted < task.started /\ task.started <= Len(history)
    /\ \A i \in Ids : SeenUpTo(history[i], prevStarted)
    /\ \A i \in Ids : IsScheduled(history[i]) => history[i].ref <= prevStarted

IInv ==
    /\ TypeOK
    /\ HistoryInv
    /\ EffectsAtMostOnce
    /\ ReplicatedWasRecorded
    /\ \A w \in Workers : TickInv(pc[w], tick[w])
=============================================================================
