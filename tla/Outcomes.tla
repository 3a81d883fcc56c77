------------------------------ MODULE Outcomes ------------------------------
(***************************************************************************)
(* What a decider returns for an event, the decisions in it, and what Tick *)
(* makes of it: fsm_models.go's Outcome and the intermediateOutcome that    *)
(* the outcomes of one decision task are merged into.                      *)
(***************************************************************************)
EXTENDS SWFService

NewDecision(type, label, ref) == [type |-> type, label |-> label, ref |-> ref,
                                  state |-> NoState, report |-> NoReport]
Marker(state) ==
    [NewDecision("RecordMarker", StateMarker, 0) EXCEPT !.state = state]

CompletionDecision(i) == NewDecision("CompleteWorkflowExecution", "", i)

(* kind is the Go type of the outcome; "nil" is Pass, and "panic" stands for *)
(* a decider that returns no outcome at all.                                *)
Outcome(kind, state, data, decisions) ==
    [kind |-> kind, state |-> state, data |-> data, decisions |-> decisions]

Pass == Outcome("nil", "", NilData, <<>>)

(* t is a record with the fields of intermediateOutcome.                    *)
mergeOutcomes_Kind(t, o) ==
    [t EXCEPT !.decisions = @ \o o.decisions, !.data = o.data,
              !.state = IF o.kind = "Stay" THEN @ ELSE o.kind]
mergeOutcomes_NoStay(t, o) ==
    [t EXCEPT !.decisions = @ \o o.decisions, !.data = o.data, !.state = o.state]
mergeOutcomes(t, o) ==
    [t EXCEPT !.decisions = @ \o o.decisions,
              !.data = o.data,
              !.state = IF o.kind = "Stay" THEN @ ELSE o.state]

(* recordStateMarker: the marker goes in front of the decisions.  When the  *)
(* data does not serialize the error is overwritten and the marker carries  *)
(* empty StateData.                                                         *)
recordStateMarker_SameVersion(t) ==
    LET s == [name |-> t.state, version |-> t.version,
              data |-> Stored(t.data), pending |-> t.pending]
    IN  [t EXCEPT !.saved = s, !.decisions = <<Marker(s)>> \o @]
recordStateMarker(t) ==
    LET s == [name |-> t.state, version |-> t.version + 1,
              data |-> Stored(t.data), pending |-> t.pending]
    IN  [t EXCEPT !.saved = s, !.decisions = <<Marker(s)>> \o @]
=============================================================================
