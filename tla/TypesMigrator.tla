---------------------------- MODULE TypesMigrator ----------------------------
(***************************************************************************)
(* types.go: each process of a deployment runs TypesMigrator.Migrate, which *)
(* goes through the configured domains, workflow types, activity types and *)
(* streams, asks the service for each one and then registers or deprecates *)
(* it.  An error it does not expect panics; the process is started again.  *)
(* The processes of one deployment have the same configuration and run at  *)
(* the same time.                                                          *)
(***************************************************************************)
EXTENDS Client, Sequences

CONSTANTS Migrators,    \* processes that call Migrate
          Domains, WorkflowTypes, ActivityTypes, Streams,
          domain,       \* the domain of each workflow and activity type
          toDeprecate,  \* the Deprecated... lists, one sequence for each kind
          toRegister,   \* the Registered... lists and Streams
          Initially,    \* what the account may look like before
          MaxFaults     \* bound: failed calls in one behaviour

Types == WorkflowTypes \cup ActivityTypes
Objects == Domains \cup Types \cup Streams
Kinds == <<Domains, WorkflowTypes, ActivityTypes, Streams>>
Status == {"absent", "registered", "deprecated"}

ASSUME DomainAssumption == domain \in [Types -> Domains]

ASSUME ListsAssumption ==
    \A k \in 1..4 : /\ toDeprecate[k] \in Seq(Kinds[k])
                    /\ toRegister[k] \in Seq(Kinds[k])

ASSUME InitiallyAssumption == Initially \subseteq [Objects -> Status]

ASSUME FaultsAssumption == MaxFaults \in Nat

VARIABLES status, \* of each object in the account; a stream exists or not
          pc,     \* where each process is
          next,   \* the step of the plan it is at
          faults

vars == <<status, pc, next, faults>>

-----------------------------------------------------------------------------
Steps(op, objects) == [k \in 1..Len(objects) |-> [op |-> op, on |-> objects[k]]]

(* One Migrate: what is deprecated first, then what is registered.         *)
Migrate(k) == Steps("deprecate", toDeprecate[k]) \o Steps("register", toRegister[k])

(* TypesMigrator.Migrate: domains, workflow types, activity types, streams. *)
Plan_DomainsLast == Migrate(2) \o Migrate(3) \o Migrate(4) \o Migrate(1)
Plan == Migrate(1) \o Migrate(2) \o Migrate(3) \o Migrate(4)

Target(op) == IF op = "deprecate" THEN "deprecated" ELSE "registered"

TypeOK ==
    /\ status \in [Objects -> Status]
    /\ pc \in [Migrators -> {"describe", "act", "panicked", "done"}]
    /\ next \in [Migrators -> 1..(Len(Plan) + 1)]
    /\ faults \in 0..MaxFaults

Init ==
    /\ status \in Initially
    /\ pc = [m \in Migrators |-> "describe"]
    /\ next = [m \in Migrators |-> 1]
    /\ faults = 0

-----------------------------------------------------------------------------
(* What the service answers.                                               *)
DomainIsThere(o) == o \in Types => status[domain[o]] = "registered"

Allowed(step) ==
    /\ DomainIsThere(step.on)
    /\ IF step.op = "register" THEN status[step.on] = "absent"
       ELSE status[step.on] = "registered"

Exists(o) == IF o \in Streams THEN status[o] = "registered" ELSE status[o] # "absent"

NotFound(o) == IF o \in Streams THEN StreamNotFound ELSE UnknownResource

Answer(o) == IF Exists(o) THEN Reply(200, TRUE, status[o])
             ELSE Reply(400, TRUE, NotFound(o))

Done == Reply(200, FALSE, "")
Refused == Reply(400, TRUE, "TypeAlreadyExistsFault")

Fault == faults < MaxFaults /\ faults' = faults + 1

Go(m, label) == pc' = [pc EXCEPT ![m] = label]

Advance(m) == /\ Go(m, "describe")
              /\ next' = [next EXCEPT ![m] = @ + 1]

-----------------------------------------------------------------------------
(* The questions a migrator asks, given what its describe returned.  An     *)
(* error that is no *ErrorResponse panics in describe's type assertion.     *)
(* isDeprecated takes any fault for "not deprecated".                       *)
isDeprecated_TakesFaults(result) ==
    IF result.err = "other" THEN "panic"
    ELSE IF result.err = "fault" \/ result.field = "deprecated" THEN "yes" ELSE "no"
isDeprecated(result) ==
    IF result.err = "other" THEN "panic"
    ELSE IF result.err = "nil" /\ result.field = "deprecated" THEN "yes" ELSE "no"

isRegisteredNotDeprecated(result) ==
    IF result.err = "nil"
    THEN IF result.field = "registered" THEN "yes" ELSE "no"
    ELSE IF result = Result("fault", UnknownResource) THEN "no" ELSE "panic"

isCreated(result) ==
    IF result.err = "nil" THEN "yes"
    ELSE IF result = Result("fault", StreamNotFound) THEN "no" ELSE "panic"

Check(step, reply) ==
    IF step.op = "deprecate" THEN isDeprecated(swfReqWithResponse(reply))
    ELSE IF step.on \in Streams THEN isCreated(kinesisReqWithResponse(reply))
    ELSE isRegisteredNotDeprecated(swfReqWithResponse(reply))

(* An object that is not there, or not in the wanted state, is acted on.    *)
DescribeGets(m, reply) ==
    LET check == Check(Plan[next[m]], reply) IN
    \/ check = "yes" /\ Advance(m)
    \/ check = "no" /\ Go(m, "act") /\ UNCHANGED next
    \/ check = "panic" /\ Go(m, "panicked") /\ UNCHANGED next

Describe(m) ==
    /\ pc[m] = "describe" /\ next[m] <= Len(Plan)
    /\ DescribeGets(m, Answer(Plan[next[m]].on))
    /\ UNCHANGED <<status, faults>>

DescribeFails(m) ==
    /\ pc[m] = "describe" /\ next[m] <= Len(Plan)
    /\ Fault
    /\ \E reply \in BadReplies : DescribeGets(m, reply)
    /\ UNCHANGED status

(* register, deprecate, create: an error panics.                            *)
ActGets_SkipsNext(m, reply) ==
    LET result == IF Plan[next[m]].on \in Streams THEN kinesisReqNoResponse(reply)
                  ELSE swfReqNoResponse(reply)
    IN  IF result.err = "nil"
        THEN Go(m, "describe") /\ next' = [next EXCEPT ![m] = @ + 2]
        ELSE Go(m, "panicked") /\ UNCHANGED next
ActGets(m, reply) ==
    LET result == IF Plan[next[m]].on \in Streams THEN kinesisReqNoResponse(reply)
                  ELSE swfReqNoResponse(reply)
    IN  IF result.err = "nil" THEN Advance(m) ELSE Go(m, "panicked") /\ UNCHANGED next

CarryOut(step) == status' = [status EXCEPT ![step.on] = Target(step.op)]

Act(m) ==
    /\ pc[m] = "act" /\ Allowed(Plan[next[m]])
    /\ CarryOut(Plan[next[m]])
    /\ ActGets(m, Done)
    /\ UNCHANGED faults

ActRefused(m) ==
    /\ pc[m] = "act" /\ ~Allowed(Plan[next[m]])
    /\ ActGets(m, Refused)
    /\ UNCHANGED <<status, faults>>

(* The request or its reply is lost or spoilt; a 200 is sent for what was    *)
(* carried out only.                                                       *)
ActFails(m) ==
    /\ pc[m] = "act"
    /\ Fault
    /\ \E reply \in BadReplies :
         /\ ActGets(m, reply)
         /\ \/ reply.code # 200 /\ UNCHANGED status
            \/ Allowed(Plan[next[m]]) /\ CarryOut(Plan[next[m]])

Finish(m) ==
    /\ pc[m] = "describe" /\ next[m] > Len(Plan)
    /\ Go(m, "done")
    /\ UNCHANGED <<status, next, faults>>

Restart(m) ==
    /\ pc[m] = "panicked"
    /\ Go(m, "describe")
    /\ next' = [next EXCEPT ![m] = 1]
    /\ UNCHANGED <<status, faults>>

MigratorStep(m) == \/ Describe(m) \/ Act(m) \/ ActRefused(m) \/ Finish(m)
                   \/ Restart(m)

Next == \E m \in Migrators : MigratorStep(m) \/ DescribeFails(m) \/ ActFails(m)

Spec == Init /\ [][Next]_vars

(* A process runs, and is started again when it has panicked.              *)
FairSpec == Spec /\ \A m \in Migrators : WF_vars(MigratorStep(m))

-----------------------------------------------------------------------------
Wanted(op) == {o \in Objects : \E k \in 1..Len(Plan) : Plan[k] = [op |-> op, on |-> o]}

(* A process that got through Migrate leaves the account as configured:     *)
(* everything on its lists is deprecated or registered (Migrate "asserts    *)
(* that ... are deprecated or deprecates them, then asserts that ... are    *)
(* registered or registers them", types.go).                               *)
DoneIsMigrated ==
    \A m \in Migrators : pc[m] = "done" =>
      \A op \in {"deprecate", "register"} : \A o \in Wanted(op) :
        status[o] = Target(op)

(* Once a process got through, what the others found before and act on now  *)
(* changes nothing any more (the checks and the calls of types.go are       *)
(* separate requests).                                                     *)
MigratedStays ==
    [][(\E m \in Migrators : pc[m] = "done") => status' = status]_vars

(* However the processes race and whatever calls fail, all of them get      *)
(* through in the end.                                                     *)
MigrationConverges == <>(\A m \in Migrators : pc[m] = "done")
=============================================================================
