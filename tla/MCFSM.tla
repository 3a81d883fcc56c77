------------------------------- MODULE MCFSM -------------------------------
(***************************************************************************)
(* FSM for TLC: workers are interchangeable.                               *)
(***************************************************************************)
EXTENDS FSMRecord, TLC

WorkerSymmetry == Permutations(Workers)
=============================================================================
