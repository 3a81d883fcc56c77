--------------------------- MODULE PollerShutdown ---------------------------
(***************************************************************************)
(* The polling loops of poller.go and the PollerShutdownManager that stops *)
(* them.  Each poller is a goroutine that registers itself and then polls; *)
(* the application's goroutines call StopPollers.  The decision and the    *)
(* activity poller have the same loop.  The manager's map has no lock:     *)
(* goroutines read and write it in any order, and a `range' loop over it   *)
(* sees an entry that is added meanwhile or not.  (The Go runtime may also *)
(* end the program when it notices such a race; that is not modelled.)     *)
(***************************************************************************)
EXTENDS Naturals

CONSTANTS Pollers,   \* goroutines that run PollUntilShutdownBy
          Names,     \* poller names
          name,      \* the name each poller registers under
          Callers,   \* goroutines that call StopPollers, once each
          Early,     \* the application stops pollers only once all registered
          Removable, \* names the application may Deregister
          Nobody     \* stands for no poller

ASSUME NameAssumption == name \in [Pollers -> Names]

ASSUME NobodyAssumption == Nobody \notin Pollers

ASSUME EarlyAssumption == Early \in BOOLEAN /\ Removable \subseteq Names

VARIABLES registeredPollers, \* the map: names, each with its poller's channels
          stopChannel,       \* values in each poller's stop channel
          stopAckChannel,    \* values in each poller's ack channel
          stop,              \* values in the stop channel of the poller's FSM
          poller,            \* where each poller is
          caller,            \* where each caller is in StopPollers
          entries,           \* names in the map when the caller's loop began
          visited,           \* names the loop has been at
          at                 \* the poller whose channel the loop is at

manager == <<registeredPollers, stopChannel, stopAckChannel>>
loop == <<entries, visited, at>>
vars == <<registeredPollers, stopChannel, stopAckChannel, stop, poller, caller,
          entries, visited, at>>

-----------------------------------------------------------------------------
TypeOK ==
    /\ \E S \in SUBSET Names : registeredPollers \in [S -> Pollers]
    /\ stopChannel \in [Pollers -> 0..1]
    /\ stopAckChannel \in [Pollers -> 0..1]
    /\ stop \in [Pollers -> 0..1]
    /\ poller \in [Pollers -> {"spawned", "select", "poll", "task", "returned"}]
    /\ caller \in [Callers -> {"idle", "sending", "awaiting", "returned"}]
    /\ entries \in [Callers -> SUBSET Names]
    /\ visited \in [Callers -> SUBSET Names]
    /\ at \in [Callers -> Pollers \cup {Nobody}]

(* FSM.Start has spawned the pollers.                                      *)
Init ==
    /\ registeredPollers = [n \in {} |-> Nobody]
    /\ stopChannel = [p \in Pollers |-> 0]
    /\ stopAckChannel = [p \in Pollers |-> 0]
    /\ stop = [p \in Pollers |-> 0]
    /\ poller = [p \in Pollers |-> "spawned"]
    /\ caller = [c \in Callers |-> "idle"]
    /\ entries = [c \in Callers |-> {}]
    /\ visited = [c \in Callers |-> {}]
    /\ at = [c \in Callers |-> Nobody]

-----------------------------------------------------------------------------
(* PollUntilShutdownBy.                                                    *)
Register(p) ==
    /\ poller[p] = "spawned"
    /\ registeredPollers' =
         [n \in DOMAIN registeredPollers \cup {name[p]} |->
            IF n = name[p] THEN p ELSE registeredPollers[n]]
    /\ poller' = [poller EXCEPT ![p] = "select"]
    /\ UNCHANGED <<stopChannel, stopAckChannel, stop, caller, loop>>

ReceiveStop_NoAck(p) ==
    /\ poller[p] = "select" /\ stopChannel[p] = 1
    /\ stopChannel' = [stopChannel EXCEPT ![p] = 0]
    /\ poller' = [poller EXCEPT ![p] = "returned"]
    /\ UNCHANGED <<registeredPollers, stopAckChannel, stop, caller, loop>>
ReceiveStop_InTask(p) ==
    /\ poller[p] \in {"select", "task"} /\ stopChannel[p] = 1
    /\ stopChannel' = [stopChannel EXCEPT ![p] = 0]
    /\ stopAckChannel' = [stopAckChannel EXCEPT ![p] = 1]
    /\ poller' = [poller EXCEPT ![p] = "returned"]
    /\ UNCHANGED <<registeredPollers, stop, caller, loop>>
ReceiveStop(p) ==
    /\ poller[p] = "select" /\ stopChannel[p] = 1
    /\ stopChannel' = [stopChannel EXCEPT ![p] = 0]
    /\ stopAckChannel' = [stopAckChannel EXCEPT ![p] = 1]
    /\ poller' = [poller EXCEPT ![p] = "returned"]
    /\ UNCHANGED <<registeredPollers, stop, caller, loop>>

Poll(p) ==
    /\ poller[p] = "select" /\ stopChannel[p] = 0
    /\ poller' = [poller EXCEPT ![p] = "poll"]
    /\ UNCHANGED <<manager, stop, caller, loop>>

(* An error and an empty response are the same to the loop.                *)
PollReturns(p) ==
    /\ poller[p] = "poll"
    /\ \E next \in {"select", "task"} : poller' = [poller EXCEPT ![p] = next]
    /\ UNCHANGED <<manager, stop, caller, loop>>

OnTaskReturns_Polls(p) ==
    /\ poller[p] = "task"
    /\ poller' = [poller EXCEPT ![p] = "poll"]
    /\ UNCHANGED <<manager, stop, caller, loop>>
OnTaskReturns(p) ==
    /\ poller[p] = "task"
    /\ poller' = [poller EXCEPT ![p] = "select"]
    /\ UNCHANGED <<manager, stop, caller, loop>>

-----------------------------------------------------------------------------
(* StopPollers: one loop sends, a second one receives.                     *)
Enter(c, label) ==
    /\ caller' = [caller EXCEPT ![c] = label]
    /\ entries' = [entries EXCEPT ![c] = DOMAIN registeredPollers]
    /\ visited' = [visited EXCEPT ![c] = {}]

StopPollers(c) ==
    /\ caller[c] = "idle"
    /\ Early => \A p \in Pollers : poller[p] # "spawned"
    /\ Enter(c, "sending")
    /\ UNCHANGED <<manager, stop, poller, at>>

NextEntry(c) ==
    /\ caller[c] \in {"sending", "awaiting"} /\ at[c] = Nobody
    /\ \E n \in DOMAIN registeredPollers \ visited[c] :
         /\ visited' = [visited EXCEPT ![c] = @ \cup {n}]
         /\ at' = [at EXCEPT ![c] = registeredPollers[n]]
    /\ UNCHANGED <<manager, stop, poller, caller, entries>>

SendStop(c) ==
    LET p == at[c] IN
    /\ caller[c] = "sending" /\ p # Nobody
    /\ stopChannel[p] = 0
    /\ stopChannel' = [stopChannel EXCEPT ![p] = 1]
    /\ at' = [at EXCEPT ![c] = Nobody]
    /\ UNCHANGED <<registeredPollers, stopAckChannel, stop, poller, caller,
                   entries, visited>>

ReceiveAck(c) ==
    LET p == at[c] IN
    /\ caller[c] = "awaiting" /\ p # Nobody
    /\ stopAckChannel[p] = 1
    /\ stopAckChannel' = [stopAckChannel EXCEPT ![p] = 0]
    /\ at' = [at EXCEPT ![c] = Nobody]
    /\ UNCHANGED <<registeredPollers, stopChannel, stop, poller, caller,
                   entries, visited>>

LoopIsOver(c) ==
    /\ at[c] = Nobody
    /\ entries[c] \cap DOMAIN registeredPollers \subseteq visited[c]

StopsSent_Returns(c) ==
    /\ caller[c] = "sending" /\ LoopIsOver(c)
    /\ Enter(c, "returned")
    /\ UNCHANGED <<manager, stop, poller, at>>
StopsSent(c) ==
    /\ caller[c] = "sending" /\ LoopIsOver(c)
    /\ Enter(c, "awaiting")
    /\ UNCHANGED <<manager, stop, poller, at>>

AcksReceived(c) ==
    /\ caller[c] = "awaiting" /\ LoopIsOver(c)
    /\ caller' = [caller EXCEPT ![c] = "returned"]
    /\ UNCHANGED <<manager, stop, poller, loop>>

Deregister(n) ==
    /\ n \in Removable \cap DOMAIN registeredPollers
    /\ registeredPollers' = [m \in DOMAIN registeredPollers \ {n} |->
                               registeredPollers[m]]
    /\ UNCHANGED <<stopChannel, stopAckChannel, stop, poller, caller, loop>>

(* FSM.Stop of the FSM that started the poller: the second call blocks.    *)
Stop_Unbuffered(p) ==
    /\ stop' = [stop EXCEPT ![p] = @ + 1]
    /\ UNCHANGED <<manager, poller, caller, loop>>
Stop(p) ==
    /\ stop[p] = 0
    /\ stop' = [stop EXCEPT ![p] = 1]
    /\ UNCHANGED <<manager, poller, caller, loop>>

-----------------------------------------------------------------------------
PollerStep(p) == \/ Register(p) \/ ReceiveStop(p) \/ Poll(p) \/ PollReturns(p)
                 \/ OnTaskReturns(p)

CallerStep(c) == \/ NextEntry(c) \/ SendStop(c) \/ ReceiveAck(c)
                 \/ StopsSent(c) \/ AcksReceived(c)

Next == \/ \E p \in Pollers : PollerStep(p) \/ Stop(p)
        \/ \E c \in Callers : StopPollers(c) \/ CallerStep(c)
        \/ \E n \in Names : Deregister(n)

Spec == Init /\ [][Next]_vars

(* Goroutines are scheduled, every poll is answered and every task ends;    *)
(* nobody has to call StopPollers.                                         *)
Fairness == /\ \A p \in Pollers : WF_vars(PollerStep(p))
            /\ \A c \in Callers : WF_vars(CallerStep(c))

FairSpec == Spec /\ Fairness

-----------------------------------------------------------------------------
(* What the application may rely on when its StopPollers has returned, if    *)
(* other calls, registrations and Deregister overlapped with it: a poller    *)
(* that was in the map when the second loop began, and is in it still, has   *)
(* left its polls and tasks.  Nothing is said of a poller that was asked to  *)
(* stop and deregistered before the second loop came to it, which nobody     *)
(* waits for (poller.go:179, 191-194); StopsAreHeeded is about that one.     *)
AwaitedHaveReturned ==
    \A c \in Callers, n \in DOMAIN registeredPollers :
      caller[c] = "returned" /\ n \in entries[c]
        => poller[registeredPollers[n]] = "returned"

(* The manager sends "to each of the stopChan that have been registered,    *)
(* then recieve from each of the ackChan that have been registered. At this *)
(* point StopPollers() returns" (poller.go): with all pollers registered    *)
(* before the call, every one of them has returned after it.                *)
AllHaveReturned ==
    (\E c \in Callers : caller[c] = "returned")
      => \A p \in Pollers : poller[p] = "returned"

(* "StopPollers blocks until it is able to stop all the registered pollers, *)
(* which can take up to 60 seconds" (poller.go): it returns.                *)
StopPollersReturns ==
    \A c \in Callers : caller[c] = "sending" ~> caller[c] = "returned"

(* A poller that has been sent a stop ends, whether or not somebody waits    *)
(* for it: also one that Deregister took out of the map after the stop was   *)
(* sent, and one to which two calls send (PollUntilShutdownBy's select).     *)
StopsAreHeeded ==
    \A p \in Pollers : stopChannel[p] = 1 ~> poller[p] = "returned"

(* One call on registered pollers is a graceful shutdown.                   *)
Graceful == INSTANCE GracefulShutdown WITH
    running <- {p \in Pollers : poller[p] # "returned"},
    busy <- {p \in Pollers : poller[p] \in {"poll", "task"}},
    phase <- IF \A c \in Callers : caller[c] = "idle" THEN "open"
             ELSE IF \E c \in Callers : caller[c] = "returned" THEN "closed"
             ELSE "stopping"

GracefulSpec == Graceful!Spec
=============================================================================
