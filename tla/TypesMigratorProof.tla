------------------------- MODULE TypesMigratorProof -------------------------
(***************************************************************************)
(* Migrate leaves the account as configured, for any number of processes   *)
(* and of failed calls and whatever the account held before, provided that *)
(* nothing is both to be registered and to be deprecated.                  *)
(***************************************************************************)
EXTENDS TypesMigrator, SequenceTheorems, TLAPS

Step == [op : {"deprecate", "register"}, on : Objects]

Coherent == \A k, l \in 1..Len(Plan) : Plan[k].on = Plan[l].on => Plan[k] = Plan[l]

(* What a process has passed is as it should be.                           *)
PassedInv ==
    \A m \in Migrators :
      /\ pc[m] = "act" => next[m] <= Len(Plan)
      /\ pc[m] = "done" => next[m] > Len(Plan)
      /\ \A k \in 1..Len(Plan) : k < next[m] =>
           status[Plan[k].on] = Target(Plan[k].op)

IInv == TypeOK /\ PassedInv

-----------------------------------------------------------------------------
LEMMA SeqMonotone ==
  ASSUME NEW S, NEW T, S \in SUBSET T, NEW seq \in Seq(S)
  PROVE  seq \in Seq(T)
<1>1. Len(seq) \in Nat /\ seq \in [1..Len(seq) -> S]
  BY LenProperties
<1>2. seq \in [1..Len(seq) -> T]
  BY <1>1
<1> QED BY <1>1, <1>2, SeqDef

LEMMA StepsType ==
  ASSUME NEW op \in {"deprecate", "register"}, NEW objects \in Seq(Objects)
  PROVE  Steps(op, objects) \in Seq(Step)
<1>1. Len(objects) \in Nat /\ \A k \in 1..Len(objects) : objects[k] \in Objects
  OBVIOUS
<1>2. Steps(op, objects) \in [1..Len(objects) -> Step]
  BY <1>1 DEF Steps, Step
<1> QED BY <1>1, <1>2, SeqDef

LEMMA PlanType ==
  /\ Plan \in Seq(Step) /\ Len(Plan) \in Nat
  /\ \A k \in 1..Len(Plan) : Plan[k] \in Step
<1>1. ASSUME NEW k \in 1..4
      PROVE  Migrate(k) \in Seq(Step)
  <2>1. Kinds[k] \in SUBSET Objects
    BY DEF Kinds, Objects, Types
  <2>2. toDeprecate[k] \in Seq(Objects) /\ toRegister[k] \in Seq(Objects)
    <3>1. toDeprecate[k] \in Seq(Kinds[k]) /\ toRegister[k] \in Seq(Kinds[k])
      BY ListsAssumption
    <3> QED BY <2>1, <3>1, SeqMonotone
  <2>3. /\ Steps("deprecate", toDeprecate[k]) \in Seq(Step)
        /\ Steps("register", toRegister[k]) \in Seq(Step)
    BY <2>2, StepsType
  <2> QED BY <2>3, ConcatProperties DEF Migrate
<1>2. /\ Migrate(1) \in Seq(Step) /\ Migrate(2) \in Seq(Step)
      /\ Migrate(3) \in Seq(Step) /\ Migrate(4) \in Seq(Step)
  BY <1>1
<1>3. Migrate(1) \o Migrate(2) \in Seq(Step)
  BY <1>2, ConcatProperties
<1>4. Migrate(1) \o Migrate(2) \o Migrate(3) \in Seq(Step)
  BY <1>2, <1>3, ConcatProperties
<1>5. Plan \in Seq(Step)
  BY <1>2, <1>4, ConcatProperties DEF Plan
<1> QED BY <1>5

LEMMA InitInv ==
  ASSUME Init
  PROVE  IInv
<1>1. TypeOK
  <2>1. 1 \in 1..(Len(Plan) + 1)
    BY PlanType
  <2> QED BY <2>1, InitiallyAssumption, FaultsAssumption DEF Init, TypeOK
<1>2. PassedInv
  <2> SUFFICES ASSUME NEW m \in Migrators
               PROVE  /\ pc[m] = "act" => next[m] <= Len(Plan)
                      /\ pc[m] = "done" => next[m] > Len(Plan)
                      /\ \A k \in 1..Len(Plan) : k < next[m] =>
                           status[Plan[k].on] = Target(Plan[k].op)
    BY Zenon DEF PassedInv
  <2>1. pc[m] = "describe" /\ next[m] = 1
    BY DEF Init
  <2>2. \A k \in 1..Len(Plan) : ~(k < 1)
    BY PlanType
  <2> QED BY <2>1, <2>2
<1> QED BY <1>1, <1>2 DEF IInv

(* Steps that leave the account alone.                                     *)
LEMMA ReadSteps ==
  ASSUME IInv, NEW m \in Migrators, UNCHANGED status, faults' \in 0..MaxFaults,
         NEW label \in {"describe", "act", "panicked", "done"}, Go(m, label),
         \/ next' = next
         \/ next' = [next EXCEPT ![m] = 1]
         \/ /\ next[m] <= Len(Plan)
            /\ status[Plan[next[m]].on] = Target(Plan[next[m]].op)
            /\ next' = [next EXCEPT ![m] = @ + 1]
            /\ label = "describe",
         label = "act" => next[m] <= Len(Plan) /\ next' = next,
         label = "done" => next[m] > Len(Plan) /\ next' = next
  PROVE  IInv'
<1>1. TypeOK /\ PassedInv
  BY DEF IInv
<1>2. /\ pc'[m] = label
      /\ \A v \in Migrators \ {m} : pc'[v] = pc[v] /\ next'[v] = next[v]
      /\ pc' \in [Migrators -> {"describe", "act", "panicked", "done"}]
  BY <1>1 DEF TypeOK, Go
<1>3. /\ Len(Plan) \in Nat /\ next[m] \in 1..(Len(Plan) + 1)
      /\ next \in [Migrators -> 1..(Len(Plan) + 1)]
  BY <1>1, PlanType DEF TypeOK
<1>4. next' \in [Migrators -> 1..(Len(Plan) + 1)]
  BY <1>3
<1>5. TypeOK'
  BY <1>1, <1>2, <1>4 DEF TypeOK
<1>6. ASSUME NEW k \in 1..Len(Plan), k < next'[m]
      PROVE  status[Plan[k].on] = Target(Plan[k].op)
  <2>1. \/ k < next[m]
        \/ k = next[m] /\ status[Plan[k].on] = Target(Plan[k].op)
    <3>1. CASE next' = next
      BY <1>6, <3>1
    <3>2. CASE next' = [next EXCEPT ![m] = 1]
      BY <1>3, <1>6, <3>2
    <3>3. CASE /\ status[Plan[next[m]].on] = Target(Plan[next[m]].op)
               /\ next' = [next EXCEPT ![m] = @ + 1]
      <4>1. next'[m] = next[m] + 1
        BY <1>3, <3>3
      <4>2. k < next[m] \/ k = next[m]
        BY <1>3, <1>6, <4>1
      <4> QED BY <3>3, <4>2
    <3> QED BY <3>1, <3>2, <3>3
  <2> QED BY <1>1, <2>1 DEF PassedInv
<1>7. PassedInv'
  BY <1>1, <1>2, <1>3, <1>6 DEF PassedInv
<1> QED BY <1>5, <1>7 DEF IInv

(* A call that the service carried out.                                    *)
LEMMA CallSteps ==
  ASSUME Coherent, IInv, NEW m \in Migrators, pc[m] = "act",
         NEW label \in {"describe", "panicked"}, Go(m, label),
         status' = [status EXCEPT ![Plan[next[m]].on] = Target(Plan[next[m]].op)],
         \/ next' = next
         \/ next' = [next EXCEPT ![m] = @ + 1],
         faults' \in 0..MaxFaults
  PROVE  IInv'
<1> DEFINE n == next[m]
<1>1. TypeOK /\ PassedInv
  BY DEF IInv
<1>2. /\ Len(Plan) \in Nat /\ n \in 1..Len(Plan)
      /\ next \in [Migrators -> 1..(Len(Plan) + 1)]
      /\ status \in [Objects -> Status]
      /\ \A k \in 1..Len(Plan) : Plan[k].on \in Objects
  BY <1>1, PlanType DEF TypeOK, PassedInv, Step
<1>3. /\ pc'[m] = label
      /\ \A v \in Migrators \ {m} : pc'[v] = pc[v] /\ next'[v] = next[v]
      /\ pc' \in [Migrators -> {"describe", "act", "panicked", "done"}]
      /\ next' \in [Migrators -> 1..(Len(Plan) + 1)]
      /\ next'[m] \in {n, n + 1}
  BY <1>1, <1>2 DEF TypeOK, Go
<1>4. status' \in [Objects -> Status]
  BY <1>2 DEF Target, Status
<1>5. TypeOK'
  BY <1>1, <1>3, <1>4 DEF TypeOK
<1>6. ASSUME NEW k \in 1..Len(Plan)
      PROVE  \/ status'[Plan[k].on] = Target(Plan[k].op)
             \/ k # n /\ status'[Plan[k].on] = status[Plan[k].on]
  <2>1. CASE Plan[k].on = Plan[n].on
    BY <1>2, <2>1 DEF Coherent
  <2>2. CASE Plan[k].on # Plan[n].on
    BY <1>2, <2>2
  <2> QED BY <2>1, <2>2
<1>7. PassedInv'
  <2> SUFFICES ASSUME NEW v \in Migrators
               PROVE  /\ pc'[v] = "act" => next'[v] <= Len(Plan)
                      /\ pc'[v] = "done" => next'[v] > Len(Plan)
                      /\ \A k \in 1..Len(Plan) : k < next'[v] =>
                           status'[Plan[k].on] = Target(Plan[k].op)
    BY Zenon DEF PassedInv
  <2>1. CASE v = m
    <3>1. pc'[m] # "act" /\ pc'[m] # "done"
      BY <1>3
    <3>2. ASSUME NEW k \in 1..Len(Plan), k < next'[m]
          PROVE  status'[Plan[k].on] = Target(Plan[k].op)
      <4>1. k < n \/ k = n
        BY <1>2, <1>3, <3>2
      <4>2. k < n => status[Plan[k].on] = Target(Plan[k].op)
        BY <1>1 DEF PassedInv
      <4> QED BY <1>6, <4>1, <4>2
    <3> QED BY <2>1, <3>1, <3>2
  <2>2. CASE v # m
    <3>1. pc'[v] = pc[v] /\ next'[v] = next[v]
      BY <1>3, <2>2
    <3>2. /\ pc[v] = "act" => next[v] <= Len(Plan)
          /\ pc[v] = "done" => next[v] > Len(Plan)
          /\ \A k \in 1..Len(Plan) : k < next[v] =>
               status[Plan[k].on] = Target(Plan[k].op)
      BY <1>1 DEF PassedInv
    <3> QED BY <1>6, <3>1, <3>2
  <2> QED BY <2>1, <2>2
<1> QED BY <1>5, <1>7 DEF IInv

(* What a describe makes a process believe is so.                          *)
LEMMA AnswerIsTrue ==
  ASSUME NEW step \in Step, status \in [Objects -> Status],
         Check(step, Answer(step.on)) = "yes"
  PROVE  status[step.on] = Target(step.op)
<1>1. /\ step.op \in {"deprecate", "register"}
      /\ status[step.on] \in {"absent", "registered", "deprecated"}
  BY DEF Step, Status
<1>2. CASE ~Exists(step.on)
  <2>1. Answer(step.on) = [code |-> 400, json |-> TRUE, field |-> NotFound(step.on)]
    BY <1>2 DEF Answer, Reply
  <2>2. /\ swfReqWithResponse(Answer(step.on)).err = "fault"
        /\ kinesisReqWithResponse(Answer(step.on)).err = "fault"
    BY <2>1 DEF swfReqWithResponse, kinesisReqWithResponse,
      prepareAndExecuteRequest, Refusal, Result
  <2> QED BY <2>2 DEF Check, isDeprecated, isCreated, isRegisteredNotDeprecated
<1>3. CASE Exists(step.on)
  <2>1. Answer(step.on) = [code |-> 200, json |-> TRUE, field |-> status[step.on]]
    BY <1>3 DEF Answer, Reply
  <2>2. /\ swfReqWithResponse(Answer(step.on)).field = status[step.on]
        /\ swfReqWithResponse(Answer(step.on)).err = "nil"
    BY <2>1 DEF swfReqWithResponse, prepareAndExecuteRequest, Result
  <2>3. CASE step.op = "register" /\ step.on \in Streams
    BY <1>3, <2>3 DEF Exists, Target
  <2>4. CASE step.op = "register" /\ step.on \notin Streams
    BY <2>2, <2>4 DEF Check, isRegisteredNotDeprecated, Target
  <2>5. CASE step.op = "deprecate"
    BY <2>2, <2>5 DEF Check, isDeprecated, Target
  <2> QED BY <1>1, <2>3, <2>4, <2>5
<1> QED BY <1>2, <1>3

(* A call that went wrong makes a process believe nothing.                 *)
LEMMA BadIsNoYes ==
  ASSUME NEW step, NEW reply \in BadReplies
  PROVE  Check(step, reply) # "yes"
<1>1. reply.code # 200 \/ ~reply.json
  <2>1. /\ NoReply.json = FALSE /\ ErrorPage.json = FALSE
        /\ Throttled.code = 400 /\ CutShort.json = FALSE
    BY DEF NoReply, ErrorPage, Throttled, CutShort, Reply
  <2>2. reply \in {NoReply, ErrorPage, Throttled, CutShort}
    BY DEF BadReplies
  <2> QED BY <2>1, <2>2
<1>2. /\ swfReqWithResponse(reply).err \in {"fault", "other"}
      /\ kinesisReqWithResponse(reply).err \in {"fault", "other"}
  <2>1. Other.err = "other" /\ Refusal(reply).err \in {"fault", "other"}
    BY DEF Refusal, Other, Result
  <2> QED BY <1>1, <2>1 DEF swfReqWithResponse, kinesisReqWithResponse
<1> QED BY <1>2 DEF Check, isDeprecated, isCreated, isRegisteredNotDeprecated

(* A call that returns no error was carried out: a 200 is sent for nothing   *)
(* else, and no other reply is taken for one.                              *)
LEMMA NilIsDone ==
  ASSUME NEW m, NEW reply \in BadReplies \cup {Refused}, ActGets(m, reply)
  PROVE  \/ Go(m, "panicked") /\ UNCHANGED next
         \/ reply.code = 200 /\ Advance(m)
<1>1. CASE reply.code = 200
  BY <1>1 DEF ActGets
<1>2. CASE reply.code # 200
  <2>1. /\ swfReqNoResponse(reply).err # "nil"
        /\ kinesisReqNoResponse(reply).err # "nil"
    BY <1>2 DEF swfReqNoResponse, kinesisReqNoResponse, prepareAndExecuteRequest,
      Refusal, Other, Result
  <2> QED BY <2>1 DEF ActGets
<1> QED BY <1>1, <1>2

LEMMA StepInv ==
  ASSUME Coherent, IInv, [Next]_vars
  PROVE  IInv'
<1>1. faults \in 0..MaxFaults /\ (Fault => faults' \in 0..MaxFaults)
  BY FaultsAssumption DEF IInv, TypeOK, Fault
<1>2. ASSUME NEW m \in Migrators, Describe(m)
      PROVE  IInv'
  <2> DEFINE step == Plan[next[m]]
  <2>1. next[m] \in 1..Len(Plan) /\ step \in Step
    BY <1>2, PlanType DEF IInv, TypeOK, Describe
  <2>2. CASE Check(step, Answer(step.on)) = "yes" /\ Advance(m)
    <3>1. status[step.on] = Target(step.op)
      BY <2>1, <2>2, AnswerIsTrue DEF IInv, TypeOK
    <3> QED BY <1>1, <1>2, <2>2, <3>1, ReadSteps DEF Describe, Advance
  <2>3. CASE Go(m, "act") /\ UNCHANGED next
    BY <1>1, <1>2, <2>3, ReadSteps DEF Describe
  <2>4. CASE Go(m, "panicked") /\ UNCHANGED next
    BY <1>1, <1>2, <2>4, ReadSteps DEF Describe
  <2> QED BY <1>2, <2>2, <2>3, <2>4 DEF Describe, DescribeGets
<1>3. ASSUME NEW m \in Migrators, DescribeFails(m)
      PROVE  IInv'
  <2>1. PICK reply \in BadReplies : DescribeGets(m, reply)
    BY <1>3 DEF DescribeFails
  <2>2. \/ Go(m, "act") /\ UNCHANGED next
        \/ Go(m, "panicked") /\ UNCHANGED next
    BY <2>1, BadIsNoYes DEF DescribeGets
  <2> QED BY <1>1, <1>3, <2>2, ReadSteps DEF DescribeFails
<1>4. ASSUME NEW m \in Migrators, Act(m)
      PROVE  IInv'
  <2>1. \/ Advance(m)
        \/ Go(m, "panicked") /\ UNCHANGED next
    BY <1>4 DEF Act, ActGets
  <2>2. /\ pc[m] = "act" /\ faults' \in 0..MaxFaults
        /\ status' = [status EXCEPT ![Plan[next[m]].on] = Target(Plan[next[m]].op)]
    BY <1>1, <1>4 DEF Act, CarryOut
  <2>3. CASE Go(m, "panicked") /\ UNCHANGED next
    BY <2>2, <2>3, CallSteps
  <2>4. CASE Advance(m)
    <3>1. Go(m, "describe") /\ next' = [next EXCEPT ![m] = @ + 1]
      BY <2>4 DEF Advance
    <3> QED BY <2>2, <3>1, CallSteps
  <2> QED BY <2>1, <2>3, <2>4
<1>5. ASSUME NEW m \in Migrators, ActRefused(m)
      PROVE  IInv'
  <2>1. Refused.code # 200
    BY DEF Refused, Reply
  <2>2. Go(m, "panicked") /\ UNCHANGED next
    BY <1>5, <2>1, NilIsDone DEF ActRefused
  <2> QED BY <1>1, <1>5, <2>2, ReadSteps DEF ActRefused
<1>6. ASSUME NEW m \in Migrators, ActFails(m)
      PROVE  IInv'
  <2>1. PICK reply \in BadReplies :
          /\ ActGets(m, reply)
          /\ \/ reply.code # 200 /\ UNCHANGED status
             \/ Allowed(Plan[next[m]]) /\ CarryOut(Plan[next[m]])
    BY <1>6 DEF ActFails
  <2>2. \/ Go(m, "panicked") /\ UNCHANGED next
        \/ reply.code = 200 /\ Advance(m)
    BY <2>1, NilIsDone
  <2>3. CASE reply.code # 200 /\ UNCHANGED status
    <3>1. Go(m, "panicked") /\ UNCHANGED next /\ faults' \in 0..MaxFaults
      BY <1>1, <1>6, <2>2, <2>3 DEF ActFails
    <3> QED BY <2>3, <3>1, ReadSteps
  <2>4. CASE CarryOut(Plan[next[m]])
    <3>1. /\ pc[m] = "act" /\ faults' \in 0..MaxFaults
          /\ status' = [status EXCEPT ![Plan[next[m]].on] = Target(Plan[next[m]].op)]
      BY <1>1, <1>6, <2>4 DEF ActFails, CarryOut
    <3>2. CASE Go(m, "panicked") /\ UNCHANGED next
      BY <3>1, <3>2, CallSteps
    <3>3. CASE Advance(m)
      <4>1. Go(m, "describe") /\ next' = [next EXCEPT ![m] = @ + 1]
        BY <3>3 DEF Advance
      <4> QED BY <3>1, <4>1, CallSteps
    <3> QED BY <2>2, <3>2, <3>3
  <2> QED BY <2>1, <2>3, <2>4
<1>7. ASSUME NEW m \in Migrators, Finish(m) \/ Restart(m)
      PROVE  IInv'
  <2>1. CASE Finish(m)
    BY <1>1, <2>1, ReadSteps DEF Finish
  <2>2. CASE Restart(m)
    BY <1>1, <2>2, ReadSteps DEF Restart
  <2> QED BY <1>7, <2>1, <2>2
<1>8. CASE UNCHANGED vars
  BY <1>8 DEF vars, IInv, TypeOK, PassedInv
<1> QED BY <1>2, <1>3, <1>4, <1>5, <1>6, <1>7, <1>8, Zenon DEF Next, MigratorStep

(* A process never passes a step that is not done.                         *)
THEOREM Invariance == ASSUME Coherent PROVE Spec => []IInv
<1>1. Init => IInv
  BY InitInv
<1>2. IInv /\ [Next]_vars => IInv'
  BY StepInv
<1> QED BY <1>1, <1>2, PTL DEF Spec

(* When Migrate returns, in any of the processes, everything on its lists   *)
(* is deprecated or registered (types.go).                                  *)
THEOREM MigrateMigrates == ASSUME Coherent PROVE Spec => []DoneIsMigrated
<1>1. IInv => DoneIsMigrated
  <2> SUFFICES ASSUME IInv, NEW m \in Migrators, pc[m] = "done",
                      NEW op \in {"deprecate", "register"}, NEW o \in Wanted(op)
               PROVE  status[o] = Target(op)
    BY DEF DoneIsMigrated
  <2>1. PICK k \in 1..Len(Plan) : Plan[k] = [op |-> op, on |-> o]
    BY DEF Wanted
  <2>2. k < next[m]
    BY PlanType DEF IInv, TypeOK, PassedInv
  <2> QED BY <2>1, <2>2 DEF IInv, PassedInv
<1> QED BY <1>1, Invariance, PTL

(* Every variable of the migrators keeps its type.                          *)
THEOREM TypeCorrect == ASSUME Coherent PROVE Spec => []TypeOK
<1>1. IInv => TypeOK
  BY DEF IInv
<1> QED BY <1>1, Invariance, PTL

(* Once Migrate returned in one process, the account stays as it is: what    *)
(* the others still ask for is refused (types.go).                          *)
THEOREM Stays == ASSUME Coherent PROVE Spec => MigratedStays
<1>1. ASSUME IInv, [Next]_vars, NEW d \in Migrators, pc[d] = "done"
      PROVE  UNCHANGED status
  <2>1. ASSUME NEW k \in 1..Len(Plan)
        PROVE  /\ Plan[k] \in Step
               /\ status[Plan[k].on] = Target(Plan[k].op)
    BY <1>1, <2>1, PlanType DEF IInv, TypeOK, PassedInv
  <2>2. ASSUME NEW k \in 1..Len(Plan)
        PROVE  ~Allowed(Plan[k])
    BY <2>1, <2>2 DEF Allowed, Target, Step
  <2>3. ASSUME NEW m \in Migrators, pc[m] = "act"
        PROVE  next[m] \in 1..Len(Plan)
    BY <1>1, <2>3, PlanType DEF IInv, TypeOK, PassedInv
  <2>4. ASSUME NEW m \in Migrators, Act(m) \/ ActFails(m)
        PROVE  UNCHANGED status
    BY <2>2, <2>3, <2>4 DEF Act, ActFails
  <2> QED BY <1>1, <2>4 DEF Next, MigratorStep, Describe, DescribeFails, ActRefused,
        Finish, Restart, vars
<1>2. IInv /\ [Next]_vars => ((\E m \in Migrators : pc[m] = "done") => status' = status)
  BY <1>1
<1>3. QED
  <2>1. IInv /\ [Next]_vars => [(\E m \in Migrators : pc[m] = "done") => status' = status]_vars
    BY <1>2
  <2> QED BY <2>1, Invariance, PTL DEF Spec, MigratedStays
=============================================================================
