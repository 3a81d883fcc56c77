------------------------ MODULE PollerShutdownProof ------------------------
(***************************************************************************)
(* What StopPollers guarantees when it returns, for any number of pollers  *)
(* and of calls, provided that no two pollers share a name.                *)
(***************************************************************************)
EXTENDS PollerShutdown, TLAPS

OwnNames == \A p, q \in Pollers : name[p] = name[q] => p = q

(* An entry of the map is a poller that has registered, under its name; a   *)
(* name a caller has come across is not registered again.                   *)
MapInv ==
    /\ \A n \in DOMAIN registeredPollers :
         /\ name[registeredPollers[n]] = n
         /\ poller[registeredPollers[n]] # "spawned"
    /\ \A c \in Callers, p \in Pollers :
         poller[p] = "spawned" => name[p] \notin entries[c] \cup visited[c]

(* An ack is the last thing a poller does; a caller that is past an entry   *)
(* in its second loop has its ack.                                         *)
AckInv ==
    /\ \A p \in Pollers : stopAckChannel[p] = 1 => poller[p] = "returned"
    /\ \A c \in Callers, n \in DOMAIN registeredPollers :
         caller[c] = "awaiting" /\ n \in visited[c]
           => \/ poller[registeredPollers[n]] = "returned"
              \/ at[c] = registeredPollers[n]

IInv == TypeOK /\ MapInv /\ AckInv /\ AwaitedHaveReturned

-----------------------------------------------------------------------------
LEMMA InitInv ==
  ASSUME Init
  PROVE  IInv
<1>1. TypeOK
  <2>1. registeredPollers \in [{} -> Pollers] /\ {} \in SUBSET Names
    BY DEF Init
  <2>2. \E S \in SUBSET Names : registeredPollers \in [S -> Pollers]
    BY <2>1
  <2>3. /\ stopChannel \in [Pollers -> 0..1] /\ stopAckChannel \in [Pollers -> 0..1]
        /\ stop \in [Pollers -> 0..1]
    BY DEF Init
  <2> QED BY <2>2, <2>3 DEF Init, TypeOK
<1>2. DOMAIN registeredPollers = {}
  BY DEF Init
<1> QED BY <1>1, <1>2 DEF Init, IInv, MapInv, AckInv, AwaitedHaveReturned

(* The parts of the type invariant, in the form the steps use.             *)
LEMMA Types ==
  ASSUME TypeOK
  PROVE  /\ DOMAIN registeredPollers \in SUBSET Names
         /\ registeredPollers \in [DOMAIN registeredPollers -> Pollers]
         /\ \A n \in DOMAIN registeredPollers :
              n \in Names /\ registeredPollers[n] \in Pollers
<1>1. PICK S \in SUBSET Names : registeredPollers \in [S -> Pollers]
  BY DEF TypeOK
<1> QED BY <1>1

LEMMA RegisterStep ==
  ASSUME OwnNames, IInv, NEW p \in Pollers, Register(p)
  PROVE  IInv'
<1> DEFINE D == DOMAIN registeredPollers
           D1 == D \cup {name[p]}
<1>1. /\ TypeOK /\ MapInv /\ AckInv /\ AwaitedHaveReturned
      /\ D \in SUBSET Names /\ registeredPollers \in [D -> Pollers]
      /\ name[p] \in Names
  BY Types, NameAssumption DEF IInv
<1>2. /\ poller[p] = "spawned" /\ poller' = [poller EXCEPT ![p] = "select"]
      /\ UNCHANGED <<stopChannel, stopAckChannel, stop, caller, entries,
                     visited, at>>
      /\ registeredPollers' = [n \in D1 |-> IF n = name[p] THEN p
                                            ELSE registeredPollers[n]]
  BY DEF Register, loop
<1>3. /\ registeredPollers' \in [D1 -> Pollers] /\ DOMAIN registeredPollers' = D1
      /\ registeredPollers'[name[p]] = p
      /\ \A n \in D : n # name[p] => registeredPollers'[n] = registeredPollers[n]
  BY <1>1, <1>2
<1> HIDE DEF D1
<1>4. poller'[p] = "select" /\ \A q \in Pollers \ {p} : poller'[q] = poller[q]
  BY <1>1, <1>2 DEF TypeOK
<1>5. \A n \in DOMAIN registeredPollers' : n = name[p] \/
        (/\ n \in D /\ n # name[p]
         /\ registeredPollers'[n] = registeredPollers[n]
         /\ registeredPollers[n] \in Pollers \ {p}
         /\ poller'[registeredPollers[n]] = poller[registeredPollers[n]])
  BY <1>1, <1>2, <1>3, <1>4 DEF MapInv, D1
<1>6. TypeOK'
  <2>1. D1 \in SUBSET Names
    BY <1>1 DEF D1
  <2>2. (\E S \in SUBSET Names : registeredPollers \in [S -> Pollers])'
    BY <1>3, <2>1
  <2> QED BY <1>1, <1>2, <2>2 DEF TypeOK
<1>7. MapInv'
  <2>1. \A n \in DOMAIN registeredPollers' :
          /\ name[registeredPollers'[n]] = n
          /\ poller'[registeredPollers'[n]] # "spawned"
    BY <1>1, <1>3, <1>4, <1>5 DEF MapInv
  <2>2. \A c \in Callers, q \in Pollers :
          poller'[q] = "spawned" => name[q] \notin entries'[c] \cup visited'[c]
    BY <1>1, <1>2, <1>4 DEF MapInv
  <2> QED BY <2>1, <2>2 DEF MapInv
<1>8. \A c \in Callers : name[p] \notin entries[c] \cup visited[c]
  BY <1>1, <1>2 DEF MapInv
<1>9. AckInv'
  BY <1>1, <1>2, <1>4, <1>5, <1>8 DEF AckInv
<1>10. AwaitedHaveReturned'
  BY <1>1, <1>2, <1>5, <1>8 DEF AwaitedHaveReturned
<1> QED BY <1>6, <1>7, <1>9, <1>10 DEF IInv

(* The other steps of a poller.                                            *)
LEMMA PollerSteps ==
  ASSUME IInv, NEW p \in Pollers,
         ReceiveStop(p) \/ Poll(p) \/ PollReturns(p) \/ OnTaskReturns(p)
  PROVE  IInv'
<1>1. /\ TypeOK /\ MapInv /\ AckInv /\ AwaitedHaveReturned
      /\ \A n \in DOMAIN registeredPollers : registeredPollers[n] \in Pollers
  BY Types DEF IInv
<1>2. /\ UNCHANGED <<registeredPollers, stop, caller, entries, visited, at>>
      /\ \E s \in {"select", "poll", "task", "returned"} :
           poller' = [poller EXCEPT ![p] = s]
      /\ poller[p] \in {"select", "poll", "task"}
  BY DEF ReceiveStop, Poll, PollReturns, OnTaskReturns, manager, loop
<1>3. /\ \A q \in Pollers \ {p} : poller'[q] = poller[q]
      /\ poller'[p] \in {"select", "poll", "task", "returned"}
  BY <1>1, <1>2 DEF TypeOK
<1>4. /\ stopChannel' \in [Pollers -> 0..1] /\ stopAckChannel' \in [Pollers -> 0..1]
      /\ \A q \in Pollers : stopAckChannel'[q] = 1 =>
           stopAckChannel[q] = 1 \/ (q = p /\ poller'[p] = "returned")
  <2>1. CASE ReceiveStop(p)
    BY <1>1, <1>3, <2>1 DEF TypeOK, ReceiveStop, manager
  <2>2. CASE Poll(p) \/ PollReturns(p) \/ OnTaskReturns(p)
    BY <1>1, <2>2 DEF TypeOK, Poll, PollReturns, OnTaskReturns, manager
  <2> QED BY <2>1, <2>2
<1>5. TypeOK'
  <2>1. poller' \in [Pollers -> {"spawned", "select", "poll", "task", "returned"}]
    BY <1>1, <1>2 DEF TypeOK
  <2>2. \E S \in SUBSET Names : registeredPollers' \in [S -> Pollers]
    BY <1>1, <1>2, Zenon DEF TypeOK
  <2> QED BY <1>1, <1>2, <1>4, <2>1, <2>2 DEF TypeOK
<1>6. MapInv'
  BY <1>1, <1>2, <1>3 DEF MapInv
<1>7. AckInv'
  BY <1>1, <1>2, <1>3, <1>4 DEF AckInv
<1>8. AwaitedHaveReturned'
  BY <1>1, <1>2, <1>3 DEF AwaitedHaveReturned
<1> QED BY <1>5, <1>6, <1>7, <1>8 DEF IInv

(* StopPollers.                                                            *)
LEMMA EnterStep ==
  ASSUME OwnNames, IInv, NEW c \in Callers, NEW label \in {"sending", "awaiting"},
         Enter(c, label), UNCHANGED <<manager, stop, poller, at>>
  PROVE  IInv'
<1>1. /\ TypeOK /\ MapInv /\ AckInv /\ AwaitedHaveReturned
      /\ DOMAIN registeredPollers \in SUBSET Names
      /\ \A n \in DOMAIN registeredPollers : registeredPollers[n] \in Pollers
  BY Types DEF IInv
<1>2. /\ caller' = [caller EXCEPT ![c] = label]
      /\ entries' = [entries EXCEPT ![c] = DOMAIN registeredPollers]
      /\ visited' = [visited EXCEPT ![c] = {}]
      /\ UNCHANGED <<registeredPollers, stopChannel, stopAckChannel, stop,
                     poller, at>>
  BY DEF Enter, manager
<1>3. /\ caller'[c] = label /\ entries'[c] = DOMAIN registeredPollers
      /\ visited'[c] = {}
      /\ \A d \in Callers \ {c} : /\ caller'[d] = caller[d]
                                  /\ entries'[d] = entries[d]
                                  /\ visited'[d] = visited[d]
  BY <1>1, <1>2 DEF TypeOK
<1>4. TypeOK'
  BY <1>1, <1>2 DEF TypeOK
<1>5. MapInv'
  <2>1. \A q \in Pollers : poller[q] = "spawned" =>
          name[q] \notin DOMAIN registeredPollers
    BY <1>1 DEF MapInv, OwnNames
  <2> QED BY <1>1, <1>2, <1>3, <2>1 DEF MapInv
<1>6. AckInv'
  BY <1>1, <1>2, <1>3 DEF AckInv
<1>7. AwaitedHaveReturned'
  BY <1>1, <1>2, <1>3 DEF AwaitedHaveReturned
<1> QED BY <1>4, <1>5, <1>6, <1>7 DEF IInv

LEMMA LoopSteps ==
  ASSUME OwnNames, IInv, NEW c \in Callers,
         \/ StopPollers(c) \/ NextEntry(c) \/ SendStop(c) \/ ReceiveAck(c)
         \/ StopsSent(c) \/ AcksReceived(c)
  PROVE  IInv'
<1>1. /\ TypeOK /\ MapInv /\ AckInv /\ AwaitedHaveReturned
      /\ DOMAIN registeredPollers \in SUBSET Names
      /\ \A n \in DOMAIN registeredPollers : registeredPollers[n] \in Pollers
  BY Types DEF IInv
<1>2. CASE StopPollers(c) \/ StopsSent(c)
  BY <1>2, EnterStep DEF StopPollers, StopsSent
<1>3. CASE NextEntry(c)
  <2>1. PICK n \in DOMAIN registeredPollers \ visited[c] :
          /\ visited' = [visited EXCEPT ![c] = @ \cup {n}]
          /\ at' = [at EXCEPT ![c] = registeredPollers[n]]
    BY <1>3 DEF NextEntry
  <2>2. /\ at[c] = Nobody
        /\ UNCHANGED <<registeredPollers, stopChannel, stopAckChannel, stop,
                       poller, caller, entries>>
    BY <1>3 DEF NextEntry, manager
  <2>3. /\ visited'[c] = visited[c] \cup {n} /\ at'[c] = registeredPollers[n]
        /\ \A d \in Callers \ {c} : visited'[d] = visited[d] /\ at'[d] = at[d]
    BY <1>1, <2>1 DEF TypeOK
  <2>4. TypeOK'
    BY <1>1, <2>1, <2>2 DEF TypeOK
  <2>5. MapInv'
    <3>1. \A q \in Pollers : poller[q] = "spawned" => name[q] # n
      BY <1>1 DEF MapInv, OwnNames
    <3> QED BY <1>1, <2>2, <2>3, <3>1 DEF MapInv
  <2>6. AckInv'
    <3>1. \A m \in DOMAIN registeredPollers : registeredPollers[m] # at[c]
      BY <1>1, <2>2, NobodyAssumption
    <3> QED BY <1>1, <2>2, <2>3, <3>1 DEF AckInv
  <2>7. AwaitedHaveReturned'
    BY <1>1, <2>2 DEF AwaitedHaveReturned
  <2> QED BY <2>4, <2>5, <2>6, <2>7 DEF IInv
<1>4. CASE SendStop(c)
  <2>1. /\ caller[c] = "sending"
        /\ stopChannel' = [stopChannel EXCEPT ![at[c]] = 1]
        /\ at' = [at EXCEPT ![c] = Nobody]
        /\ UNCHANGED <<registeredPollers, stopAckChannel, stop, poller, caller,
                       entries, visited>>
    BY <1>4 DEF SendStop
  <2>2. \A d \in Callers \ {c} : at'[d] = at[d]
    BY <1>1, <2>1 DEF TypeOK
  <2>3. TypeOK'
    <3>1. stopChannel' \in [Pollers -> 0..1]
      <4>1. at[c] \in Pollers
        BY <1>1, <1>4 DEF SendStop, TypeOK
      <4>2. stopChannel \in [Pollers -> 0..1] /\ 1 \in 0..1
        BY <1>1 DEF TypeOK
      <4> QED BY <2>1, <4>1, <4>2
    <3>2. at' \in [Callers -> Pollers \cup {Nobody}]
      BY <1>1, <2>1 DEF TypeOK
    <3> QED BY <1>1, <2>1, <3>1, <3>2 DEF TypeOK
  <2>4. MapInv' /\ AwaitedHaveReturned'
    BY <1>1, <2>1 DEF MapInv, AwaitedHaveReturned
  <2>5. AckInv'
    BY <1>1, <2>1, <2>2 DEF AckInv
  <2> QED BY <2>3, <2>4, <2>5 DEF IInv
<1>5. CASE ReceiveAck(c)
  <2>1. /\ caller[c] = "awaiting" /\ stopAckChannel[at[c]] = 1 /\ at[c] # Nobody
        /\ stopAckChannel' = [stopAckChannel EXCEPT ![at[c]] = 0]
        /\ at' = [at EXCEPT ![c] = Nobody]
        /\ UNCHANGED <<registeredPollers, stopChannel, stop, poller, caller,
                       entries, visited>>
    BY <1>5 DEF ReceiveAck
  <2>2. at[c] \in Pollers /\ poller[at[c]] = "returned"
    BY <1>1, <2>1 DEF TypeOK, AckInv
  <2>3. /\ \A d \in Callers \ {c} : at'[d] = at[d]
        /\ \A q \in Pollers : stopAckChannel'[q] = 1 => stopAckChannel[q] = 1
    BY <1>1, <2>1 DEF TypeOK
  <2>4. TypeOK'
    BY <1>1, <2>1 DEF TypeOK
  <2>5. MapInv' /\ AwaitedHaveReturned'
    BY <1>1, <2>1 DEF MapInv, AwaitedHaveReturned
  <2>6. AckInv'
    BY <1>1, <2>1, <2>2, <2>3 DEF AckInv
  <2> QED BY <2>4, <2>5, <2>6 DEF IInv
<1>6. CASE AcksReceived(c)
  <2>1. /\ caller[c] = "awaiting" /\ at[c] = Nobody
        /\ entries[c] \cap DOMAIN registeredPollers \subseteq visited[c]
        /\ caller' = [caller EXCEPT ![c] = "returned"]
        /\ UNCHANGED <<registeredPollers, stopChannel, stopAckChannel, stop,
                       poller, entries, visited, at>>
    BY <1>6 DEF AcksReceived, LoopIsOver, manager, loop
  <2>2. caller'[c] = "returned" /\ \A d \in Callers \ {c} : caller'[d] = caller[d]
    BY <1>1, <2>1 DEF TypeOK
  <2>3. TypeOK'
    BY <1>1, <2>1 DEF TypeOK
  <2>4. MapInv'
    BY <1>1, <2>1 DEF MapInv
  <2>5. AckInv'
    BY <1>1, <2>1, <2>2 DEF AckInv
  <2>6. \A n \in DOMAIN registeredPollers :
          n \in entries[c] => poller[registeredPollers[n]] = "returned"
    BY <1>1, <2>1, NobodyAssumption DEF AckInv
  <2>7. AwaitedHaveReturned'
    BY <1>1, <2>1, <2>2, <2>6 DEF AwaitedHaveReturned
  <2> QED BY <2>3, <2>4, <2>5, <2>7 DEF IInv
<1> QED BY <1>2, <1>3, <1>4, <1>5, <1>6

LEMMA DeregisterStep ==
  ASSUME IInv, NEW n \in Names, Deregister(n)
  PROVE  IInv'
<1> DEFINE D == DOMAIN registeredPollers
<1>1. /\ TypeOK /\ MapInv /\ AckInv /\ AwaitedHaveReturned
      /\ D \in SUBSET Names /\ registeredPollers \in [D -> Pollers]
  BY Types DEF IInv
<1>2. /\ registeredPollers' = [m \in D \ {n} |-> registeredPollers[m]]
      /\ UNCHANGED <<stopChannel, stopAckChannel, stop, poller, caller,
                     entries, visited, at>>
  BY DEF Deregister, loop
<1>3. /\ DOMAIN registeredPollers' = D \ {n}
      /\ \A m \in D \ {n} : registeredPollers'[m] = registeredPollers[m]
      /\ registeredPollers' \in [D \ {n} -> Pollers]
  BY <1>1, <1>2
<1>4. TypeOK'
  <2>1. D \ {n} \in SUBSET Names
    BY <1>1
  <2>2. (\E S \in SUBSET Names : registeredPollers \in [S -> Pollers])'
    BY <1>3, <2>1
  <2> QED BY <1>1, <1>2, <2>2 DEF TypeOK
<1>5. MapInv' /\ AckInv' /\ AwaitedHaveReturned'
  BY <1>1, <1>2, <1>3 DEF MapInv, AckInv, AwaitedHaveReturned
<1> QED BY <1>4, <1>5 DEF IInv

LEMMA StepInv ==
  ASSUME OwnNames, IInv, [Next]_vars
  PROVE  IInv'
<1>1. ASSUME NEW p \in Pollers, PollerStep(p)
      PROVE  IInv'
  BY <1>1, RegisterStep, PollerSteps, Zenon DEF PollerStep
<1>2. ASSUME NEW p \in Pollers, Stop(p)
      PROVE  IInv'
  BY <1>2 DEF Stop, manager, loop, IInv, TypeOK, MapInv, AckInv,
              AwaitedHaveReturned
<1>3. ASSUME NEW c \in Callers, StopPollers(c) \/ CallerStep(c)
      PROVE  IInv'
  BY <1>3, LoopSteps, Zenon DEF CallerStep
<1>4. ASSUME NEW n \in Names, Deregister(n)
      PROVE  IInv'
  BY <1>4, DeregisterStep
<1>5. CASE UNCHANGED vars
  BY <1>5 DEF vars, IInv, TypeOK, MapInv, AckInv, AwaitedHaveReturned
<1> QED BY <1>1, <1>2, <1>3, <1>4, <1>5, Zenon DEF Next

(* The manager's map, the acks and the calls stay in step.                 *)
THEOREM Invariance == ASSUME OwnNames PROVE Spec => []IInv
<1>1. Init => IInv
  BY InitInv
<1>2. IInv /\ [Next]_vars => IInv'
  BY StepInv
<1> QED BY <1>1, <1>2, PTL DEF Spec

(* Whatever calls of StopPollers, late registrations and Deregisters         *)
(* overlap, a call that returns leaves no poller in a poll or a task that    *)
(* was in the map when its second loop began and is in it still             *)
(* (StopPollers and PollUntilShutdownBy).  A poller that was deregistered   *)
(* before that loop came to it is not among them.                           *)
THEOREM StopPollersAwaits == ASSUME OwnNames PROVE Spec => []AwaitedHaveReturned
<1>1. IInv => AwaitedHaveReturned
  BY DEF IInv
<1> QED BY <1>1, Invariance, PTL

(* The map of names, the channels and the calls stay within their types.   *)
THEOREM TypeCorrect == ASSUME OwnNames PROVE Spec => []TypeOK
<1>1. IInv => TypeOK
  BY DEF IInv
<1> QED BY <1>1, Invariance, PTL

-----------------------------------------------------------------------------
(* The application that doc.go describes: it starts its pollers, stops them *)
(* once all have registered, and never Deregisters one.                    *)
Orderly == OwnNames /\ Early /\ Removable = {}

(* A poller that has registered stays in the map; once a call has begun,    *)
(* every poller is in the map and in what the calls go through; and a stop  *)
(* in a channel comes from a call.                                         *)
SettledInv ==
    /\ \A p \in Pollers :
         poller[p] # "spawned" => name[p] \in DOMAIN registeredPollers
    /\ \A c \in Callers, p \in Pollers :
         caller[c] # "idle" => poller[p] # "spawned" /\ name[p] \in entries[c]
    /\ \A p \in Pollers :
         stopChannel[p] = 1 => \E c \in Callers : caller[c] # "idle"

LEMMA SettledPollers ==
  ASSUME Orderly, IInv, SettledInv, NEW p \in Pollers, PollerStep(p) \/ Stop(p)
  PROVE  SettledInv'
<1>1. /\ TypeOK /\ DOMAIN registeredPollers \in SUBSET Names
      /\ UNCHANGED <<caller, entries>>
  BY Types DEF IInv, PollerStep, Register, ReceiveStop, Poll, PollReturns,
               OnTaskReturns, Stop, loop
<1>2. \A q \in Pollers : stopChannel'[q] = 1 => stopChannel[q] = 1
  BY <1>1 DEF TypeOK, PollerStep, Register, ReceiveStop, Poll, PollReturns,
              OnTaskReturns, Stop, manager
<1>3. /\ \A q \in Pollers : poller'[q] = "spawned" => poller[q] = "spawned"
      /\ \A q \in Pollers : poller'[q] # "spawned" =>
           poller[q] # "spawned" \/ (q = p /\ Register(p))
  BY <1>1 DEF TypeOK, PollerStep, Register, ReceiveStop, Poll, PollReturns,
              OnTaskReturns, Stop
<1>4. /\ DOMAIN registeredPollers \subseteq DOMAIN registeredPollers'
      /\ Register(p) => name[p] \in DOMAIN registeredPollers'
  BY DEF PollerStep, Register, ReceiveStop, Poll, PollReturns, OnTaskReturns,
         Stop, manager
<1> QED BY <1>1, <1>2, <1>3, <1>4 DEF SettledInv

LEMMA SettledCallers ==
  ASSUME Orderly, IInv, SettledInv, NEW c \in Callers,
         StopPollers(c) \/ CallerStep(c)
  PROVE  SettledInv'
<1>1. TypeOK /\ UNCHANGED <<registeredPollers, poller>>
  BY DEF IInv, StopPollers, CallerStep, NextEntry, SendStop, ReceiveAck,
         StopsSent, AcksReceived, manager
<1>2. \A p \in Pollers : caller'[c] # "idle" => poller[p] # "spawned"
  BY DEF Orderly, SettledInv, StopPollers, CallerStep, NextEntry, SendStop,
         ReceiveAck, StopsSent, AcksReceived
<1>3. \A d \in Callers : caller[d] # "idle" => caller'[d] # "idle"
  BY <1>1 DEF TypeOK, StopPollers, CallerStep, NextEntry, SendStop, ReceiveAck,
              StopsSent, AcksReceived, Enter
<1>4. \A d \in Callers : caller'[d] # "idle" =>
        \/ entries'[d] = DOMAIN registeredPollers /\ d = c
        \/ entries'[d] = entries[d] /\ caller[d] # "idle"
  BY <1>1 DEF TypeOK, StopPollers, CallerStep, NextEntry, SendStop, ReceiveAck,
              StopsSent, AcksReceived, Enter, loop
<1>5. \A p \in Pollers : stopChannel'[p] = 1 =>
        stopChannel[p] = 1 \/ caller[c] = "sending"
  BY <1>1 DEF TypeOK, StopPollers, CallerStep, NextEntry, SendStop, ReceiveAck,
              StopsSent, AcksReceived, manager
<1>6. \A d \in Callers, p \in Pollers : caller'[d] # "idle" =>
        poller'[p] # "spawned" /\ name[p] \in entries'[d]
  BY <1>1, <1>2, <1>4 DEF SettledInv
<1>7. \A p \in Pollers :
        stopChannel'[p] = 1 => \E d \in Callers : caller'[d] # "idle"
  BY <1>3, <1>5 DEF SettledInv
<1> QED BY <1>1, <1>6, <1>7 DEF SettledInv

LEMMA SettledStep ==
  ASSUME Orderly, IInv, SettledInv, [Next]_vars
  PROVE  SettledInv'
<1>1. ~ \E n \in Names : Deregister(n)
  BY DEF Orderly, Deregister
<1>2. CASE UNCHANGED vars
  BY <1>2 DEF vars, SettledInv
<1> QED BY <1>1, <1>2, SettledPollers, SettledCallers, Zenon DEF Next

LEMMA Settled == ASSUME Orderly PROVE Spec => [](IInv /\ SettledInv)
<1>1. Init => SettledInv
  BY DEF Init, SettledInv
<1>2. IInv /\ SettledInv /\ [Next]_vars => SettledInv'
  BY SettledStep
<1>3. OwnNames
  BY DEF Orderly
<1> QED BY <1>1, <1>2, <1>3, Invariance, PTL DEF Spec

LEMMA NobodyIsLeft ==
  ASSUME Orderly, IInv, SettledInv
  PROVE  AllHaveReturned
<1> SUFFICES ASSUME NEW c \in Callers, caller[c] = "returned", NEW p \in Pollers
             PROVE  poller[p] = "returned"
  BY DEF AllHaveReturned
<1>1. name[p] \in DOMAIN registeredPollers /\ name[p] \in entries[c]
  BY DEF SettledInv
<1>2. registeredPollers[name[p]] = p
  BY <1>1, Types DEF IInv, MapInv, Orderly, OwnNames
<1> QED BY <1>1, <1>2 DEF IInv, AwaitedHaveReturned

(* When StopPollers returns to such an application, no goroutine of it is   *)
(* polling or at work: "at this point StopPollers() returns" (poller.go).   *)
THEOREM EveryoneReturned == ASSUME Orderly PROVE Spec => []AllHaveReturned
<1>1. IInv /\ SettledInv => AllHaveReturned
  BY NobodyIsLeft
<1> QED BY <1>1, Settled, PTL

-----------------------------------------------------------------------------
(* The refinement.  What the graceful shutdown sees of a step.             *)
running == {p \in Pollers : poller[p] # "returned"}
busy == {p \in Pollers : poller[p] \in {"poll", "task"}}
phase == IF \A c \in Callers : caller[c] = "idle" THEN "open"
         ELSE IF \E c \in Callers : caller[c] = "returned" THEN "closed"
         ELSE "stopping"

(* A step of a poller begins or ends a poll or a task, leaves, or is not    *)
(* seen.                                                                   *)
LEMMA PollerRefines ==
  ASSUME IInv, SettledInv, AllHaveReturned, NEW p \in Pollers,
         PollerStep(p) \/ Stop(p)
  PROVE  [Graceful!Next]_(Graceful!vars)
<1> USE DEF running, busy, phase
<1>1. TypeOK /\ UNCHANGED phase
  BY DEF IInv, PollerStep, Register, ReceiveStop, Poll, PollReturns,
         OnTaskReturns, Stop, loop
<1>2. CASE Register(p) \/ Stop(p)
  <2>1. UNCHANGED running /\ UNCHANGED busy
    BY <1>1, <1>2 DEF Register, Stop, TypeOK
  <2> QED BY <1>1, <2>1 DEF Graceful!vars
<1>3. CASE Poll(p)
  <2>1. running' = running /\ p \in running \ busy /\ busy' = busy \cup {p}
    BY <1>1, <1>3 DEF Poll, TypeOK
  <2>2. Graceful!Begin(p)
    BY <1>1, <2>1 DEF Graceful!Begin
  <2> QED BY <2>2 DEF Graceful!Next
<1>4. CASE PollReturns(p) \/ OnTaskReturns(p)
  <2>1. /\ running' = running /\ p \in busy
        /\ busy' = busy \/ busy' = busy \ {p}
    BY <1>1, <1>4 DEF PollReturns, OnTaskReturns, TypeOK
  <2>2. Graceful!End(p) \/ UNCHANGED Graceful!vars
    BY <1>1, <2>1 DEF Graceful!End, Graceful!vars
  <2> QED BY <2>2 DEF Graceful!Next
<1>5. CASE ReceiveStop(p)
  <2>1. /\ p \in running \ busy /\ running' = running \ {p} /\ busy' = busy
        /\ stopChannel[p] = 1 /\ poller[p] = "select"
    BY <1>1, <1>5 DEF ReceiveStop, TypeOK
  <2>2. phase = "stopping"
    BY <2>1 DEF SettledInv, AllHaveReturned
  <2>3. Graceful!Leave(p)
    BY <1>1, <2>1, <2>2 DEF Graceful!Leave
  <2> QED BY <2>3 DEF Graceful!Next
<1> QED BY <1>2, <1>3, <1>4, <1>5 DEF PollerStep

(* A step of a call asks the pollers to end, closes, or is not seen.       *)
LEMMA CallerRefines ==
  ASSUME IInv, AllHaveReturned', NEW c \in Callers,
         StopPollers(c) \/ CallerStep(c)
  PROVE  [Graceful!Next]_(Graceful!vars)
<1> USE DEF running, busy, phase
<1>1. TypeOK /\ running' = running /\ busy' = busy
  BY DEF IInv, StopPollers, CallerStep, NextEntry, SendStop, ReceiveAck,
         StopsSent, AcksReceived
<1>2. CASE StopPollers(c)
  <2>1. /\ caller[c] = "idle" /\ caller'[c] = "sending"
        /\ \A d \in Callers \ {c} : caller'[d] = caller[d]
    BY <1>1, <1>2 DEF StopPollers, Enter, TypeOK
  <2>2. phase' = phase \/ (phase = "open" /\ phase' = "stopping")
    BY <2>1
  <2>3. Graceful!Ask \/ UNCHANGED Graceful!vars
    BY <1>1, <2>2 DEF Graceful!Ask, Graceful!vars
  <2> QED BY <2>3 DEF Graceful!Next
<1>3. CASE NextEntry(c) \/ SendStop(c) \/ ReceiveAck(c) \/ StopsSent(c)
  <2>1. \/ caller' = caller
        \/ /\ caller[c] = "sending" /\ caller'[c] = "awaiting"
           /\ \A d \in Callers \ {c} : caller'[d] = caller[d]
    BY <1>1, <1>3 DEF NextEntry, SendStop, ReceiveAck, StopsSent, Enter, TypeOK
  <2>2. phase' = phase
    BY <2>1
  <2> QED BY <1>1, <2>2 DEF Graceful!vars
<1>4. CASE AcksReceived(c)
  <2>1. /\ caller[c] = "awaiting" /\ caller'[c] = "returned"
        /\ \A d \in Callers \ {c} : caller'[d] = caller[d]
        /\ poller' = poller
    BY <1>1, <1>4 DEF AcksReceived, TypeOK
  <2>2. phase' = "closed" /\ phase \in {"stopping", "closed"} /\ running = {}
    BY <2>1 DEF AllHaveReturned
  <2>3. Graceful!Close \/ UNCHANGED Graceful!vars
    BY <1>1, <2>2 DEF Graceful!Close, Graceful!vars
  <2> QED BY <2>3 DEF Graceful!Next
<1> QED BY <1>2, <1>3, <1>4 DEF CallerStep

(* The pollers and the manager implement the graceful shutdown: pollers     *)
(* leave only between two tasks and when asked to, and a call returns only  *)
(* when all have left.                                                     *)
THEOREM ImplementsGraceful == ASSUME Orderly PROVE Spec => GracefulSpec
<1>1. Init => Graceful!Init
  BY DEF Init, Graceful!Init
<1>2. ASSUME IInv, SettledInv, AllHaveReturned, AllHaveReturned', [Next]_vars
      PROVE  [Graceful!Next]_(Graceful!vars)
  <2>1. ~ \E n \in Names : Deregister(n)
    BY DEF Orderly, Deregister
  <2>2. CASE UNCHANGED vars
    BY <2>2 DEF vars, Graceful!vars
  <2> QED BY <1>2, <2>1, <2>2, PollerRefines, CallerRefines, Zenon DEF Next
<1> QED BY <1>1, <1>2, Settled, EveryoneReturned, PTL
        DEF Spec, GracefulSpec, Graceful!Spec
=============================================================================
