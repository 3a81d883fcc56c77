-------------------------- MODULE GracefulShutdown --------------------------
(***************************************************************************)
(* What stopping a set of pollers promises an application that is about to *)
(* exit (doc.go: "await all in-flight polls to complete").                 *)
(***************************************************************************)
CONSTANT Pollers

VARIABLES running, \* pollers that have not ended
          busy,    \* pollers that wait for a task or work on one
          phase    \* "open", then "stopping", then "closed"

vars == <<running, busy, phase>>

Init == running = Pollers /\ busy = {} /\ phase = "open"

Begin(p) == /\ p \in running \ busy
            /\ busy' = busy \cup {p}
            /\ UNCHANGED <<running, phase>>

End(p) == /\ p \in busy
          /\ busy' = busy \ {p}
          /\ UNCHANGED <<running, phase>>

Ask == /\ phase = "open"
       /\ phase' = "stopping"
       /\ UNCHANGED <<running, busy>>

(* A poller ends between two tasks, and only when it was asked to.         *)
Leave(p) == /\ phase = "stopping"
            /\ p \in running \ busy
            /\ running' = running \ {p}
            /\ UNCHANGED <<busy, phase>>

Close == /\ phase = "stopping" /\ running = {}
         /\ phase' = "closed"
         /\ UNCHANGED <<running, busy>>

Next == Ask \/ Close \/ \E p \in Pollers : Begin(p) \/ End(p) \/ Leave(p)

Spec == Init /\ [][Next]_vars
=============================================================================
