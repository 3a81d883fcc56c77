# A TLA+ model of swf4go

swf4go is a Go client for Amazon SWF with a finite-state-machine layer on top:
a workflow's state and data live in its history, and an `FSM` turns every
decision task into decisions and the next state. This directory holds TLA+
modules for the parts of the library in which processes, failures and retries
meet, the TLC configurations that check them on small instances, and proofs
checked by TLAPS.

```
tlc -config MCFSM_processing.cfg MCFSM      # model-check one run
tlapm FSMProof.tla                          # check the proofs of a module
```

## 1. The system

| Component | Source | State | Operations |
|---|---|---|---|
| FSM decision-task processing | `fsm.go`, `fsm_models.go` | none between tasks; everything is in the workflow's history. During a task: the serialized state, `intermediateOutcome`, the lists of events | `Init`, `Start`, `handleDecisionTask`, `Tick`, `mergeOutcomes`, `recordStateMarker`, `findSerializedState`, `findLastEvents` |
| Error capture, error state | `fsm.go` | error reports travel as signals of the workflow to itself | `captureDecisionError`, `captureSystemError`, `captureError`, `DefaultErrorState` |
| ActivityCorrelator | `fsm_models.go` | map of pending activities, in the state marker | `Track`, `Correlate`, `RemoveCorrelation`, `ActivityType` |
| Kinesis replication | `fsm.go` | the stream | `PutRecord` after an accepted response |
| Pollers, PollerShutdownManager | `poller.go`, `fsm.go` | an unlocked map of pollers, two channels for each; `FSM.stop` | `PollUntilShutdownBy`, `Register`, `Deregister`, `StopPollers`, `FSM.Stop` |
| Types migrators | `types.go` | the account: domains, types, streams | `Migrate` of four migrators |
| Composed deciders, managed continuations | `deciders.go`, `fsm_models.go` | none; a continued workflow starts a new run from the state given to it | `ComposedDecider.Decide`, `ManagedContinuations`, `ContinueWorkflowDecision`, `ContinueFSMWorkflowInput` |
| Typed deciders | `deciders.go` | none | `Typed`, `typeCheck` |
| Client | `clients.go` | none | one method per endpoint over four request functions, which make results and errors of replies |
| Protocol, serializers | `protocol.go`, `fsm_models.go` | none | JSON and protobuf encodings |

How they interact. `FSM.Start` spawns a `DecisionTaskPoller`, registered with a
`PollerShutdownManager`; the poller calls `handleDecisionTask` for every task it
gets; that calls `Tick`, which calls the user's deciders and returns decisions;
the response goes to SWF, and an accepted state goes to Kinesis. Errors of a
tick become a signal to the workflow itself, which a later tick hands to the
error state. Several processes run the same FSM on the same task list.

What is hard about it:

* SWF gives a task to somebody else when it has timed out, while the first
  worker is still at it. Responses and replies get lost. The only protection is
  the task token. Deciders may run many times on an event.
* What a tick processes is determined by two unrelated things, the service's
  `PreviousStartedEventID` and the newest state marker on the page.
* A tick can fail at six points (finding the state, an error event, reading the
  data, a decider, a state that is missing, recording the state), each with its own
  idea of what is kept.
* `StopPollers` reads a map without a lock while pollers register in it.
* Migrators ask first and act later, next to other processes doing the same, and
  take one kind of error for an answer and another for a reason to panic.
* A decision to continue the workflow is made from the state before an event, in
  the middle of a task whose other events change it, and carried out after
  things the task did not see.

What makes each part correct: every event reaches a decider once and is reflected
in the recorded state; effects happen once; the version and the pending
activities are those of the history; only recorded states are replicated, in
order; errors reach the error state; completion takes effect; `StopPollers`
returns, and when it does nobody is working; a migration ends with the account
as configured; what each part of a composed decider contributes counts; a new
run starts from the state it was meant to, and a request to continue is not
forgotten. `PROJECT.json` lists the hazards line by line with the
properties that watch them.

## 2. The modules

| Module | What it is |
|---|---|
| `SWFHistory` | Events, state markers and error reports; what `fsm.go` reads out of a page of history, as pure operators |
| `SWFService` | SWF as the code uses it (external): the history of one execution, its decision task, the effect of decisions |
| `Outcomes` | What deciders return, and what `mergeOutcomes` and `recordStateMarker` make of it |
| `FSM` | The workers: one action for each step of `Tick` and `handleDecisionTask` that another process or a fault can come between, and the faults |
| `FSMProperties` | Safety and liveness properties of `FSM` |
| `SequentialWorkflow` | What the user may believe: one worker that is never interrupted handles events in atomic batches. The abstract specification `FSM` refines |
| `FSMInvariant` | The inductive invariant `IInv`: what windows and late responses have to do with `prevStarted` |
| `FSMRecord` | The invariants on top of it, `RecordInv`, `LedgerInv`, `StreamInv`, `StateInv`: what recorded states have to do with the history |
| `FSMProof` | Theorems about `FSM` from `IInv` |
| `FSMRecordProof`, `FSMLedgerProof`, `FSMSequentialProof`, `FSMStatesProof` | Theorems from the invariants of `FSMRecord`, in that order: versions, the events a state accounts for, the refinement of `SequentialWorkflow`, names of states |
| `MCFSM` | Symmetry for TLC |
| `Deciders` | `deciders.go` and the helpers of `FSMContext` that build a continuation, as pure operators |
| `Continuation` | A workflow over several runs whose FSM has a composed decider with `ManagedContinuations` |
| `ContinuationProperties`, `MCContinuation` | Its properties; the user's requests for TLC |
| `ContinuationInvariant`, `ContinuationProof` | Its inductive invariant and the theorems from it |
| `PollerShutdown` | The polling loops, the manager's map and `StopPollers` statement by statement, and its properties |
| `GracefulShutdown` | What stopping pollers promises: the abstract specification `PollerShutdown` refines |
| `PollerShutdownProof`, `MCPollerShutdown` | Theorems; the names of the pollers for TLC |
| `Client` | What a caller gets for a reply: nil, an `*ErrorResponse`, or another error |
| `TypesMigrator`, `TypesMigratorProof`, `MCTypesMigrator` | The migrators over `Client`, their theorems, and a deployment for TLC |

### Decision-task processing

`history` is the event list (EventID = index). `task` is the one outstanding
decision task. A worker's `pc` is where it is in its loop: `poll`; `begin`
(`findSerializedState`); `errors` (loop over error signals); `events` (loop over
the other events); `respond`; `replicate`. `tick` holds the locals of `Tick`:
`saved` is `serializedState`, `state`/`data`/`version`/`decisions` the
`intermediateOutcome`, `errs` and `todo` what is left of the two event lists,
`pending` the correlator. An early return of `Tick` is `Failing`: the decisions
collected so far and the error signal are sent, no state.

Data is abstracted to the set `seen` of the events whose deciders contributed to
it, and to its `form` (nil, serializable or not). That is what makes loss and
duplication visible: a decider shown event `i` returns data whose `seen`
includes `i`. Deciders are the user's, so a step may take any of the outcomes
the configuration's `Behaviours` allow: stay, transition, continue, complete,
error, panic, nil, unserializable data, each with or without a decision of its own.
`CompleteBehaviours` and `ErrorBehaviours` say the same of the complete and the error
state, which are deciders of the user's too; `{"complete"}` is `DefaultCompleteState`
and `{"error"}` is `DefaultErrorState`. An error state may also take over the state and
data of the report it is shown (`"restore"`) or return a `ContinueOutcome` with nil
data (`"recover"`), after which `Tick` reads the marker as usual. `SerializerFails`
allows a serializer of the user's to refuse a whole state (`StateSerializationFails`),
which JSON does not. A page of history is the newest
`PageSize` events, for the poller asks in reverse order and never follows
`NextPageToken`.

Faults: a worker dies (also between SWF's answer and its arrival, the "disconnected
worker" of `doc.go`); the request or the reply of a response is lost; `PutRecord`
fails; a task times out under a worker that is merely slow; a panic outside
`panicSafeDecide` ends the process (nil outcome; error report that does not
serialize). `MaxFaults` bounds them, `MaxHistory` bounds what the environment
adds.

Not in this model: `allowPanics` (a test switch), an FSM without a Kinesis
stream, a `KinesisReplicator` that retries, child workflows, timers and
cancellation (their events reach deciders the way signals do). Continuing as a
new run is the subject of `Continuation`. `completeState` and `errorState` are
the names given to `AddCompleteState` and `AddErrorState`.

`SequentialWorkflow` is the abstract specification. Its state is what the user
can tell: the events that `arrived`, how far they are `handled`, which of them
the state accounts for (`applied`), and the `effects` so far, each with the event
behind it. `FSMProperties` maps them to the events of the history that a task
shows to a decider (ordinary ones and error signals), `prevStarted`, the data of the newest recorded state, and the scheduled activities
with their causes, by their place in the history. Everything the workers do
between a poll and an accepted response is a stutter; the response is one
`HandleBatch`. After a failed tick, or a page that did not hold a task's window,
only `arrived`, `handled` and the effects are promised anything.

### Continuing a workflow

`Deciders` has `ComposedDecider` as a loop over the list of deciders: a recursive
function says what it has after the first `n`. A decider that was given its context is a function from data to outcomes: the data is the
only thing that changes on the way through the list. The result is a record
whose `kind` is the Go type of the outcome, so a composition is a decider again,
as `ManagedContinuations` is one within the stack of `Continuation`:
`<<user, ManagedContinuations, DefaultDecider>>`. The stack follows the two
comments of `deciders.go`: a catch-all comes last, and `ManagedContinuations` comes
last of what decides anything. The `user` part notes every signal of the user in
the data (`seen` holds their numbers, which are unique over all runs) and does as
asked: go on to the next decider (`"user"`), schedule an activity and go on
(`"work"`), move to another state (`"move"`), or continue the workflow from the
initial state with `ContinueFSMWorkflowInput` (`"restart"`). A user may also send
the signal `FSM.ContinueWorkflow`. Deciders are handed the context as
`fsm.go:335` sets it: state and data before the event, the version the tick
started from.

`HandleDecisionTask` is a whole tick and its response in one step: there is one
worker here, it does not fail, and what can come between the steps of a tick is
checked in `FSM`. Its loop over `lastEvents` is the recursive function
`IntermediateOutcomes`. It is enabled for tasks whose page reaches back to the task
before; what a tick does that misses events or the state is the subject of `FSM`. Between `PollForTask` and it anything may happen: signals
arrive, activities close, the timer fires. `CarryOut` is SWF: decisions in their
order; a continuation is refused when there are events the task did not show or
an activity is open; a timer that is already running is not started again; what
follows the decision that closes a run is dropped. Whether a refused decision
alone brings a new decision task is left open. The new run (`StartsAnew`) has the
state in its first event, which is where `findSerializedState` finds it.

### Stopping pollers

A poller is `spawned`, then in its `select`, in a `poll`, in a `task`, or has
`returned`. Channels are counters with the capacity of the Go channels. A caller
of `StopPollers` is in its `sending` or its `awaiting` loop; a range loop over
the map may or may not visit entries added while it runs and never visits
deleted ones, hence `entries`, `visited` and `LoopIsOver`. The map is used
without a lock, so its readers and writers interleave freely; that the Go run
time may abort the program when it detects this is not modelled.

### Migrating

`Plan` is the list of steps `TypesMigrator.Migrate` goes through: for domains,
workflow types, activity types and streams, first what is to be deprecated, then
what is to be registered. `Describe` and `Act` are the two requests of a step.
Errors that the code does not expect panic, and the process is started again.

A reply is a status code and a body, and `Client` says what the four request
functions of `clients.go` make of it. `BadReplies` are those a call may get
instead of the service's: none, an error page that is no JSON, a fault that
has nothing to do with the question (throttling), a body cut short. A request
whose reply is bad may have been carried out; a 200 is only sent for one that
was. The three questions of the migrators (`isDeprecated`,
`isRegisteredNotDeprecated`, `isCreated`) differ in what they make of an error,
and are modelled one by one.

## 3. The runs

Symmetry of workers is used for safety only. `CHECK_DEADLOCK FALSE` everywhere:
a workflow that is closed, pollers that have returned and migrations that are
done have nothing left to do.

| Run | Bounds | Checked | It shows |
|---|---|---|---|
| `processing` | 2 workers, 2 faults, history to 11 + what a step adds, page of 8 | `NoEventLost`, `EffectsAtMostOnce`, `ReplicatedWasRecorded`, `VersionCountsCleanTasks`, `CleanPendingIsInFlight`, `LedgerInv`, `SequentialSpec` | deciders that do not fail are run on every event and count once, through all faults, except for events that drop off a page; to the user the workers are one that is never interrupted |
| `errors` | 2 workers, 1 fault, history to 10 + what a step adds, page of 12; deciders that stay or panic and ask for an activity; error states that stay in error, restore, recover, return nil or data that does not serialize; a serializer that refuses states | `TypeOK`, `IInv`, `RecordInv`, `ShownAtMostOnce`, `VersionsFollow` | failing ticks and what becomes of their error signals: reports restored, states recovered, errors in error states, versions that start again at 1, activities that close meanwhile, pages that miss the start of the workflow or the marker |
| `one_worker` | 1 worker, 1 fault, 1 state of the user's, a complete state that completes at every event, an error state called `"failed"` that transitions, recovers or restores, history to 9 | `StreamInOrder`, `StreamInv`, `StateInv`, `RecordedStateExists`, `CompletionTakesEffect`, `EventsAreHandled` | failing ticks and error recovery, completion that fails and is tried again; no state is recorded that the FSM does not have |
| `shutdown` | 3 pollers, 1 call | `TypeOK`, `AllHaveReturned`, `StopPollersReturns`, `GracefulSpec` | a graceful shutdown, by refinement of `GracefulShutdown` |
| `shutdown_races` | 2 pollers, 2 calls, late registration, `Deregister` | `AwaitedHaveReturned`, `StopsAreHeeded` | what still holds under races: of the pollers still in the map, those a call awaited have returned with it, and a stop that was sent is heeded, also by a poller nobody awaits any more because it was deregistered |
| `continuations` | 3 signals of the user, the second of which continues the workflow, `historySize` 15, 1 signal to itself delivered and 1 early timer per run | `TypeOK`, `RunInv`, `EverySignalCounts`, `WorkIsScheduled`, `RefusedForNewsOnly`, `VersionsNeverGoBack`, `ContinuedStateIsCurrent`, `ContinuationIsTried` | within each run, relative to its input, the parts of a composed decider all count; continuations start from the right state, are refused only for what their decider could not know, and are tried again while activities are open |
| `deployment` | 2 processes, 3 faults | `TypeOK`, `DoneIsMigrated`, `MigratedStays`, `MigrationConverges` | concurrent migration with lost calls, from every account in which the type to be deprecated exists |

`IInv`, `RecordInv`, `LedgerInv`, `StreamInv`, `StateInv` and `RunInv` are the invariants the proofs
of section 4 are made of; each is checked in the run whose constants meet its
theorem's hypotheses and give it most to do.

The bounds. Two workers are enough for a stale worker next to a current one, and
two faults for a time-out with a lost reply. A history of 11 holds two or
three completed decision tasks with an activity each and what arrives in
between, and exceeds the page of 8, so that markers and events drop off it. In the
`errors` run an error signal is delivered as event 6 at the earliest and an activity
closes as event 8 at the earliest: up to 10 the environment does both, also before
one and the same task, whose page of 12 still reaches back to the state; a report
is restored, and version 1 is recorded over a version that is not smaller. What the machinery adds after
that, a time-out for example, moves the state off the page. Three signals are enough for two in one task,
one of which continues the workflow, with an activity of an earlier one open; a
run with all of them and a refused attempt passes 15 events, where
`ManagedContinuations` starts to signal. Each signal to itself adds events that
bring another, hence `MaxDelivered`; a timer that fires while an activity is open
is started again, hence `MaxFires`, which does not hold back the timer once
activities have closed. In every run a violation, when a mistake is put into the
code, appears well within the bounds (see below).

Findings: runs that TLC must find violated, each one a promise of the
documentation that the code does not keep.

| Run | Promise | What happens |
|---|---|---|
| `no_transition` | an empty state means no transition (`fsm_models.go:25`) | `ContinueOutcome` erases the state |
| `unreadable` | errors are included in the decisions (`fsm.go:268`) | the serialization error of the data is overwritten |
| `unprocessed` | `UnprocessedEventIDs` (`fsm_models.go:143`) | they are the processed ones |
| `shutdown_late` | registered pollers are asked, then awaited (`poller.go:150`) | one that registers in between is only awaited, and the call does not return |
| `continued_data` | the continuation has the expected state as its input (`fsm_models.go:333`); a task with two signals is assumed away (`deciders.go:199`) | in a task with two signals the first continues the workflow and the second is lost to the new run, though its data is recorded and replicated |

The models show more of the kind, which the runs keep out of the way by their
constants or by a premise of the property:

* the version counts decision tasks (`fsm_models.go:365`) only until an error
  state has taken over, when it starts again at 1 (`VersionCountsCleanTasks`,
  `VersionsFollow`);
* `ActivitiesInfo` returns "all in-flight activities" (`fsm_models.go:306`) only
  until a tick fails, when those scheduled in its window are forgotten
  (`PendingIsInFlight`, which `CleanPendingIsInFlight` restricts);
* events drop off a page without an error when more of them come between two
  tasks than a page holds; time-outs alone can do it, for each adds events and
  the service's page starts at the newest (`WindowsFit`);
* with a complete or error state of another name, `CompleteOutcome` and
  `ErrorOutcome` still lead to `"complete"` and `"error"` (`fsm_models.go:96`, `112`)
  and the next event is a `MissingFsmStateError`; the error state itself is found
  under any name (`one_worker`);
* `fsm.go:604` speaks of an epoch and an id that "provide a total ordering of state
  over the lifetime of different runs"; there is neither, and since the new run
  starts from the version before the task that continued it, its first marker
  repeats the last version of the run before. `VersionsNeverGoBack` says what is
  left of the order;
* a continuation that is refused because of events that arrived meanwhile is not
  tried again unless something asks for it: no timer is started for it and the
  refusal is shown to the deciders as an event like any other;
* beyond `historySize` every event that no decider in front handles makes the
  workflow signal itself, and delivering that signal adds three events of the same
  kind: where it cannot be continued, the workflow goes on signalling itself;
* `FSM.Stop` "causes the DecisionTask select loop to exit" (`fsm.go:576`), but nobody
  reads its channel; in `PollerShutdown` it is an action that changes nothing
  else, and a second call blocks;
* an error signal that is delivered after the workflow has reached the complete
  state lets the error state lead it elsewhere (`CompletionTakesEffect`);
* a tick whose page holds no marker fails before it asks the error state about
  the error signals on the page, and so does every one after it;
* a second `StopPollers` (`Callers` with two elements) never returns, and of two
  pollers with one name (`OneName`) only the last is stopped;
* in an account that never had the type to be deprecated `Migrate` panics at every
  start.

`NoEventLost`, `SequentialSpec`, `StreamInOrder`, `CompletionTakesEffect` and the
properties with `Clean` in their names are about executions in which no tick has failed: after a
failure the window is lost by design of the code (the error report names its
events, wrongly) and the version starts over.

Mistakes. To see that a property depends on the code, the modules define variants
of operators with a plausible mistake, `Window_WholePage` and so on, next to the
right ones; they are used nowhere else. `PROJECT.json` ("mutants") says which
property notices which: `findLastEvents` that does not stop at the previous task
or stops one event late, a missing `return` after a refused response, a version
that is not incremented, a correlator that forgets to remove, a merge that lets a
`StayOutcome` change the state, a completion without its decision, a worker that retries a stale token
for ever, a poller that leaves without an acknowledgement or in the middle of a
task or does not look at its channels after one, a `StopPollers` without its second loop, a migrator that takes any fault
for an answer, skips a step or registers types before domains, a client that does not look at
the status, a composition that drops the data or the decisions of the deciders
before, a continuation from version 0, from the wrong state or past the tracker,
a `ManagedContinuations` without its timer.

### Fairness

`FSM`: weak fairness of each worker's next step (a goroutine is scheduled, a poll
returns, a decider terminates) and of the time-out of a task nobody works on.
Nothing is assumed of signals, activities, error signals on their way or faults;
the number of faults is bounded, so `EventsAreHandled` says what happens once
they stop. A process that died is the same worker polling again: processes are
restarted by whatever runs them. `PollerShutdown`: weak fairness of pollers and
callers (SWF answers a long poll within 60 seconds, tasks end); nobody has to
call `StopPollers`. `TypesMigrator`: weak fairness of each process, restarts
included; failures are not fair and bounded. `Continuation`: the worker polls and
answers each task it got (stated as "infinitely often no task is started", which
for a step that is enabled whenever a task is started is the same as weak
fairness, and every task fits the page of 100 in the run), activities close because they have time-outs, and timers fire. Nothing
is assumed of the user's signals or of signals on their way. `ContinuationIsTried`
therefore rests on the timer that `ManagedContinuations` starts.

## 4. The proofs

All proofs hold for every value of the constants under the assumptions in the
modules (names of states, page size at least 1, bounds that are natural numbers,
one name per poller where stated, coherent lists where stated).

`FSMProof`: `Spec => []IInv`, and from it `TypeOK`, `EffectsAtMostOnce`,
`ReplicatedWasRecorded` and `ShownAtMostOnce`. The properties are not inductive:
that no event has two activities depends on why a late response cannot have been
accepted already. `IInv` says (`TickPosition`) that while a worker's task is the
started one, its window begins at the service's `prevStarted`; (`TickCauses`)
that activities asked for in a tick come from events of its window already dealt
with, one each; (`HistoryInv`) that events in the history speak only of events
up to `prevStarted`; (`TickSeen`) that data a tick can read is older than its
window; (`TickMarker`) that a tick that did not fail puts its marker first. When
a response is accepted the task is the started one, so its window lies entirely
after `prevStarted` and everything scheduled before is caused by events before
it: no duplicates, and `prevStarted` moves to the end of the window. The proof
goes action by action; steps of a worker that leave the history alone share one
lemma, and so do steps of the service that only append.

`FSMRecordProof`: `Spec => []RecordInv`, from it `VersionsFollow`, and, with one
worker (`OneWorker`), `Spec => []StreamInv` and `StreamInOrder`. Being the next version of the state that is
replaced is again a question of late responses. `RecordInv` says (`TaskInv`) that
between the start of a task and its end nothing is recorded and no other task
starts; hence (`TickFound`) a tick whose token is still good found the newest
state, however long ago it looked; (`TickEvents`) the events it has left are the
newest of its window; (`TickCarries`) its version is the one found and its pending
map the one found brought up to date by the events handled (`Tracked`), unless
error signals made it start over; and so (`TickRecords`) what it is about to record
succeeds the newest state. `TickDecisions` is there because only the marker in
front of the decisions may become a state. With several workers the stream is in
no order, for a worker may be slow to replicate. `StreamInv` adds that what is in
the stream is older than what the worker is about to put there.

`FSMLedgerProof`: for a `Considerate` user, `Spec => []LedgerInv`, and from it
`NoEventLost`, `VersionCountsCleanTasks` and `CleanPendingIsInFlight`. `LedgerInv` says
(`Accounts`) that, until a tick fails, the newest recorded state has the version,
the events and the pending activities of the completed tasks, as long as windows fit
in pages for the latter two; and (`LedgerTick`) that a tick's data holds what it
found and what it handled. `Considerate` means that no error state
returns `ContinueDecision(nil, nil)`, which throws the data away without a failure when
a decider's `ErrorOutcome` led there, and that a tick which
has decided to complete the workflow does not fail after that: the complete state is
called `"complete"`, only stays or completes, and the serializer takes every state.
Otherwise the decisions of the failing tick close the workflow before its failure is
reported. Without the first or the name TLC finds `NoEventLost` violated.

`FSMSequentialProof`: under the same hypothesis `Spec => SequentialSpec`, step by step
under the mapping of `FSMProperties`. A response that completes a task is a
`HandleBatch`: `RecordInv` and `IInv` give its window, `LedgerInv` what its state
accounts for, and `TickCauses` that its effects are of the batch and one for an
event. All other steps, those of a worker whose response is refused included, are
`Arrive` or a stutter.

`FSMStatesProof`: under `NamesKnown`, `Spec` implies `[]StateInv` and `[]RecordedStateExists`. The hypothesis is what
the code needs for "an empty string means no transition": no decider returns
`ContinueDecision` with data, which erases the state (`no_transition` shows what happens when one
does); the complete and error states have the names `CompleteOutcome` and
`ErrorOutcome` use, if anybody returns those; and an error state that recovers by
`ContinueDecision(nil, nil)` is neither entered by a decider, nor stayed in, nor restored from a
report it may itself have caused. The last part is enough; we do not claim that it is
necessary. `StateInv` carries the name through the places it waits in: markers,
error reports and decisions on their way (`Restorable`), and the tick, where it may
be empty only for as long as error signals are handled. The states in which a task
may end are `Lasting`.

`PollerShutdownProof`: `Spec => []AwaitedHaveReturned` and `Spec => []TypeOK`, with
`OwnNames`. `AwaitedHaveReturned` is about pollers that were in the map when a call's
second loop began and are in it when the call has returned; one that was sent a stop
and deregistered before that loop came to it may still be in a task then. The invariant relates acknowledgements to pollers that have returned and
the visited part of the loop to the acknowledgements received. `OwnNames` is needed:
a poller whose name was taken over is not in the map any more. For an application
that behaves as in `doc.go` (`Orderly`: names are unique, the first `StopPollers` comes
after all pollers have registered, nobody calls `Deregister`) also
`Spec => []AllHaveReturned` and `Spec => GracefulSpec`, for any number of calls. What the
proofs add is `SettledInv`: once a call has begun every poller is in the map and in
what the calls go through, and a stop in a channel comes from a call.

`TypesMigratorProof`: under `Coherent`, `Spec` implies `[]TypeOK`, `[]DoneIsMigrated`
and `MigratedStays`. The invariant is that a process's passed steps are done and
stay done because no step of any process undoes them. Three lemmas connect it to
`Client`: a describe that lets a process pass said the truth (`AnswerIsTrue`), no bad
reply lets it pass (`BadIsNoYes`), and a call that returned no error was carried out
(`NilIsDone`).

`ContinuationProof`: `Spec => []IInv` (the one of `ContinuationInvariant`), and from it
`TypeOK`, `RunInv`, `EverySignalCounts`, `WorkIsScheduled`, `RefusedForNewsOnly`,
`VersionsNeverGoBack` and the action property `ContinuedStateIsCurrent`, for any requests
of the user, any `historySize`, any page and any bounds. `RunInv` says that the newest
state has the data, the name and the pending activities of exactly the events that
completed tasks have shown (`StateInv`), that nothing is recorded while a task is out
(`TaskInv`), that activities are scheduled for events of completed tasks (`EventsInv`)
and that the stream is at most one version ahead of a run that has just begun
(`StreamInv`). `IInv` is `RunInv` together with `TypeOK`, `WorkIsScheduled`,
`RefusedForNewsOnly` and `VersionsNeverGoBack`, each of which the run checks. A step here is a whole tick, so the proof that `HandleDecisionTask`
preserves it follows the loops of the code:

- `Decides` goes through the composition: whatever `ManagedContinuations` and
  `DefaultDecider` return after the user's part, the outcome has the user's data and
  state, the user's decision, and at most one decision more (`IsAnswer`), and a
  continuation among them was asked for with nothing pending.
- `EventTurn` and `SilentTurn` are one turn of the loop over `lastEvents`, and `LoopInv`
  all of them: after `n` events the intermediate outcome has the state, the data and
  the pending map of the first `n` events, a decision for each request of the window
  among them and none twice, and every continuation asked for carries the state as
  of its event (`TurnInv`). `TickFacts` adds the marker.
- `CarryStep` is one decision in the hands of SWF, and `CarriesOut` all of them
  (`CarriedInv`): what a refused continuation could not know is an activity that is open
  now and was not at its event (`OpenIsNews`), or an event the task did not show.
- `GoesOnInv` and `StartsAnewInv` are the two ends of a task. The other actions only
  append events that no part of the invariant speaks of (`CalmGrowth`).

The loops are recursive functions over numbers, and what they compute is proved by
induction. The library's induction theorems take a predicate as a parameter; `Induction`
and `BoundedInduction` say the same of sets of numbers and follow from the
well-foundedness of `<`, which the library states without such a parameter.

Only model-checked: liveness, which is out of the prover's reach under fairness
(`CompletionTakesEffect`, `EventsAreHandled`, `StopPollersReturns`, `StopsAreHeeded`,
`MigrationConverges`, `ContinuationIsTried`). The findings are TLC's counterexamples.

## 5. Plan

The modules are complete as planned, and every safety property that a passing run
checks is proved for all values of the constants. What a next step could add are
liveness proofs, for which other tools are needed, and the hazards
that no property covers: `PROJECT.json` ("hazards") lists these ten with the reason. Most
are things the code has no defence against and no promise about: pages too short for
what happens between two tasks, rounds of errors, a decider that ends every process, a
second `StopPollers`, two pollers of one name, an object to deprecate that never was.

Not modelled, and why: signing, HTTP connections and the two HTTP clients (I/O, no
state), the encodings of JSON and protobuf (library code; `Stored` says what they
leave of the data), `Date`, the attribute structures of `protocol.go` beyond the
fields in use, the reflection of `Typed` (it checks Go types when deciders are
built), `EventData` (a table from event type to attribute, without state; for a
`ChildWorkflowExecutionFailed` event it reads the attributes of another type and
panics in the decider, which is an outcome of `FSM`), logging. A `Continuation`
with workers that fail is not modelled as one specification: its tick is the one
of `FSM`, whose faults leave the history as if the task had been handled once
(`SequentialSpec`).
