---------------------------- MODULE MCContinuation ----------------------------
(***************************************************************************)
(* Continuation for TLC: three signals of the user, the second of which     *)
(* asks to continue the workflow.                                          *)
(***************************************************************************)
EXTENDS ContinuationInvariant

MCRequests == <<{"work", "move"},
                {"restart", ContinueSignal},
                {"user", ContinueSignal}>>
=============================================================================
