-------------------------- MODULE MCPollerShutdown --------------------------
(***************************************************************************)
(* PollerShutdown for TLC: who registers under which name.                 *)
(***************************************************************************)
EXTENDS PollerShutdown

DistinctNames == [p \in Pollers |-> p]
OneName == [p \in Pollers |-> "orders"]
=============================================================================
