-------------------------- MODULE SequentialWorkflow --------------------------
(***************************************************************************)
(* What the user of an FSM may believe: the events of a workflow are        *)
(* handled in order and in batches by one worker that is never interrupted. *)
(* A batch is atomic.  It changes the state by exactly its events and has   *)
(* the effects their deciders ask for, each event at most one.  Once a      *)
(* batch has failed nothing is said about the state any more, but the       *)
(* events handled do not come back and effects are not repeated.            *)
(***************************************************************************)
EXTENDS Naturals

VARIABLES arrived, \* the events, numbered as they arrive
          handled, \* the batches so far cover the events up to this one
          applied, \* the events the state accounts for
          effects, \* the event behind each effect, by its place in the record
          failed   \* a batch has failed, or was not shown all its events

vars == <<arrived, handled, applied, effects, failed>>

UpTo(n) == {i \in arrived : i <= n}

Init ==
    /\ arrived = {1}
    /\ handled = 0
    /\ applied = {}
    /\ effects = [p \in {} |-> 0]
    /\ failed = FALSE

MoreArrive ==
    /\ arrived \subseteq arrived'
    /\ \A i \in arrived, j \in arrived' \ arrived : i < j

Arrive ==
    /\ MoreArrive
    /\ UNCHANGED <<handled, applied, effects, failed>>

(* The effects that are new now are those of the batch, one for an event.   *)
Happens ==
    LET new == DOMAIN effects' \ DOMAIN effects IN
    /\ \A p \in DOMAIN effects :
         /\ p \in DOMAIN effects' /\ effects'[p] = effects[p]
         /\ \A q \in new : p < q
    /\ \A p \in new : effects'[p] \in UpTo(handled') \ UpTo(handled)
    /\ \A p, q \in new : effects'[p] = effects'[q] => p = q

HandleBatch ==
    /\ MoreArrive
    /\ handled < handled'
    /\ Happens
    /\ \/ ~failed /\ ~failed' /\ applied' = UpTo(handled')
       \/ failed'

Next == Arrive \/ HandleBatch

Spec == Init /\ [][Next]_vars
=============================================================================
