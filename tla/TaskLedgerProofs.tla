-------------------------- MODULE TaskLedgerProofs --------------------------
(* TaskManager implements TaskLedger, for all tasks, messages and faults. *)
EXTENDS TaskManagerProofs

LEMMA DeliveredGrows ==
    ASSUME stored \subseteq stored'
    PROVE  Delivered \subseteq Delivered' /\ Delivered' \subseteq Tasks
  BY DEF Delivered

(* A step that touches neither the queue nor a promise is a step of the *)
(* network: it can only let more arrive.                                *)
LEMMA QuietStep ==
    ASSUME UNCHANGED <<tasks, ticket, done>>, stored \subseteq stored'
    PROVE  Ledger!Next
  <1>1. Ahead' = Ahead
    BY DEF Ahead
  <1>2. Ledger!Arrive
    BY <1>1, DeliveredGrows DEF Ledger!Arrive
  <1>. QED
    BY <1>2 DEF Ledger!Next

(* Enqueue puts a task behind all others. *)
LEMMA EnqueueJoins ==
    ASSUME TypeOK, QueueInv, NEW t \in Tasks, done[t] = "new", Enqueue(t), UNCHANGED stored
    PROVE  Ledger!Join(t)
  <1>1. t \notin tasks /\ tasks' = tasks \union {t} /\ tasks \subseteq Tasks
    BY DEF QueueInv, PendingIffQueued, Enqueue, TypeOK, ManagerType
  <1>2. \A u \in Tasks : ticket'[u] = IF u = t THEN nextTicket ELSE ticket[u]
    BY DEF Enqueue, TicketFor, TypeOK, ManagerType
  <1>3. \A u \in tasks : ticket[u] \in Nat /\ ticket[u] < nextTicket /\ nextTicket \in Nat
    BY <1>1 DEF QueueInv, TypeOK, ManagerType
  <1>4. Ahead' = Ahead \union (tasks \X {t})
    <2>1. \A u, v \in tasks' : ticket'[u] < ticket'[v] <=>
             \/ u \in tasks /\ v \in tasks /\ ticket[u] < ticket[v]
             \/ u \in tasks /\ v = t
      <3> SUFFICES ASSUME NEW u \in tasks', NEW v \in tasks'
                   PROVE  ticket'[u] < ticket'[v] <=>
                             \/ u \in tasks /\ v \in tasks /\ ticket[u] < ticket[v]
                             \/ u \in tasks /\ v = t
        OBVIOUS
      <3>1. ticket'[t] = nextTicket /\ \A w \in tasks : ticket'[w] = ticket[w]
        BY <1>1, <1>2
      <3>2. CASE u \in tasks /\ v \in tasks
        BY <1>1, <1>3, <3>1, <3>2
      <3>3. CASE u \in tasks /\ v = t
        BY <1>3, <3>1, <3>3
      <3>4. CASE u = t
        <4>1. ticket'[u] = nextTicket /\ u \notin tasks
          BY <1>1, <3>1, <3>4
        <4>2. ticket'[v] <= nextTicket /\ ticket'[v] \in Nat /\ nextTicket \in Nat
          BY <1>1, <1>3, <3>1 DEF TypeOK, ManagerType
        <4>. QED
          BY <4>1, <4>2
      <3>. QED
        BY <1>1, <3>2, <3>3, <3>4
    <2>. QED
      BY <1>1, <2>1 DEF Ahead
  <1>5. Delivered' = Delivered
    BY DEF Delivered
  <1>. QED
    BY <1>1, <1>4, <1>5 DEF Ledger!Join, Enqueue

(* A task that returns is completed, or stays in line. *)
LEMMA ReturnCompletes ==
    ASSUME TasksAssumption, BoundsAssumption, IndInv, ReflectReturns
    PROVE  Ledger!Next
  <1>1. UNCHANGED <<ticket, stored>>
    BY DEF ReflectReturns, serverVars
  <1>2. CASE UNCHANGED <<tasks, done>>
    BY <1>1, <1>2, QuietStep
  <1>3. CASE /\ running.kind = "active" /\ tasks' = tasks \ {running.task}
             /\ done' = [done EXCEPT ![running.task] = "resolved"]
    <2> DEFINE t == running.task
    <2>1. t \in Tasks /\ t \in tasks /\ \A u \in tasks : ticket[t] <= ticket[u]
      BY <1>3 DEF IndInv, QueueInv, RunsFirstInLine, IsFirst, TypeOK, ManagerType
    <2>2. \A k \in 1..Envelopes[t] : <<t, k>> \in stored
      BY <1>3, DoneIsStored DEF ReflectReturns, BatchDone, IndInv
    <2>3. t \in Delivered /\ Delivered' = Delivered
      BY <1>1, <2>1, <2>2 DEF Delivered
    <2>4. \A u \in tasks : <<u, t>> \notin Ahead
      <3>1. \A u \in tasks : ticket[u] \in Nat
        BY DEF IndInv, TypeOK, ManagerType
      <3>. QED
        BY <2>1, <3>1 DEF Ahead
    <2>5. Ahead' = Ahead \intersect (tasks' \X tasks')
      BY <1>1, <1>3 DEF Ahead
    <2>6. Ledger!Complete(t)
      BY <1>3, <2>1, <2>3, <2>4, <2>5 DEF Ledger!Complete
    <2>. QED
      BY <2>1, <2>6 DEF Ledger!Next
  <1>4. \/ UNCHANGED <<tasks, done>>
        \/ /\ running.kind = "active" /\ tasks' = tasks \ {running.task}
           /\ done' = [done EXCEPT ![running.task] = "resolved"]
    BY DEF ReflectReturns, TaskReturns
  <1>. QED
    BY <1>2, <1>3, <1>4

(* A new connection cancels the volatile tasks and nothing else. *)
LEMMA ConnectCancels ==
    ASSUME TasksAssumption, BoundsAssumption, IndInv, Connect
    PROVE  Ledger!Next
  <1>1. tasks' = tasks \intersect Persistent /\ UNCHANGED <<ticket, stored>>
    BY DEF Connect, Kept
  <1>2. done' = [t \in Tasks |-> IF t \in tasks \ Persistent THEN "aborted" ELSE done[t]]
    BY DEF Connect, AbortedByReconnect, Kept
  <1>3. Ahead' = Ahead \intersect (tasks' \X tasks')
    BY <1>1 DEF Ahead
  <1>4. Delivered' = Delivered
    BY <1>1 DEF Delivered
  <1>5. Ledger!CancelVolatile
    BY <1>1, <1>2, <1>3, <1>4 DEF Ledger!CancelVolatile
  <1>. QED
    BY <1>5 DEF Ledger!Next

LEMMA LedgerStep ==
    ASSUME TasksAssumption, BoundsAssumption, IndInv, [Next]_vars
    PROVE  [Ledger!Next]_(Ledger!vars)
  <1> USE DEF managerVars, serverVars
  <1>a. TypeOK /\ QueueInv /\ stored \subseteq stored'
    BY OutcomeStepOk DEF IndInv, OutcomeStep
  <1>1. CASE UNCHANGED vars
    <2>1. UNCHANGED <<tasks, ticket, done, stored>>
      BY <1>1 DEF vars
    <2>. QED
      BY <2>1, QuietStep
  <1>2. ASSUME NEW t \in Tasks, Schedule(t) PROVE Ledger!Next
    <2>1. done[t] = "new" /\ UNCHANGED stored
      BY <1>2 DEF Schedule, ScheduleDisconnected, ScheduleConnected
    <2>2. CASE Enqueue(t)
      BY <1>a, <2>1, <2>2, EnqueueJoins DEF Ledger!Next
    <2>3. CASE /\ \/ t \notin Persistent /\ done' = [done EXCEPT ![t] = "aborted"]
                  \/ done' = [done EXCEPT ![t] = "thrown"]
               /\ UNCHANGED <<tasks, ticket>>
      <3>1. Ahead' = Ahead /\ Delivered' = Delivered
        BY <2>1, <2>3 DEF Ahead, Delivered
      <3>2. Ledger!TurnDown(t, "aborted") \/ Ledger!TurnDown(t, "thrown")
        BY <2>1, <2>3, <3>1 DEF Ledger!TurnDown
      <3>. QED
        BY <3>2 DEF Ledger!Next
    <2>. QED
      BY <1>2, <2>2, <2>3 DEF Schedule, ScheduleDisconnected, ScheduleConnected
  <1>3. CASE Connect
    BY <1>3, ConnectCancels DEF IndInv
  <1>4. CASE ReflectReturns
    BY <1>4, ReturnCompletes
  <1>5. CASE AcknowledgeInbound
    <2>1. running.kind # "active"
      BY <1>a, <1>5 DEF AcknowledgeInbound, TypeOK, LoopType, Runs, RunOf, NoTask
    <2>2. UNCHANGED <<tasks, ticket, done>>
      BY <1>5, <2>1 DEF AcknowledgeInbound, TaskReturns
    <2>. QED
      BY <1>a, <2>2, QuietStep
  <1>6. CASE Disconnect \/ Abort \/ Network \/ TaskThrows
    <2>1. UNCHANGED <<tasks, ticket, done>>
      BY <1>6 DEF Disconnect, Abort, Network, Deliver, ServerReceive, ServerSend, TaskThrows
    <2>. QED
      BY <1>a, <2>1, QuietStep
  <1>7. CASE Loop
    <2>1. UNCHANGED <<tasks, ticket, done>>
      BY <1>7 DEF Loop, StartRun, NextInbound, NextError, AssertNoTasksFails, HandleInbound, NextTask
    <2>. QED
      BY <1>a, <2>1, QuietStep
  <1>8. CASE Codec /\ ~ReflectReturns /\ ~AcknowledgeInbound
    <2>1. UNCHANGED <<tasks, ticket, done>>
      BY <1>8 DEF Codec, ExternalDone, WriteReflect, ReadBypass, ReadAccept, ReadBacklog,
                  ReadMismatch, CodecError, ProcessReflected, DetectUnrecoverable, WriteDrop,
                  DropError, BypassDone
    <2>. QED
      BY <1>a, <2>1, QuietStep
  <1>. QED
    BY <1>1, <1>2, <1>3, <1>4, <1>5, <1>6, <1>7, <1>8 DEF Next

(* The task manager implements the ledger of promises: completion in the   *)
(* order of scheduling, after delivery, over any number of reconnections   *)
(* (schedule, replace and the main loop of manager.ts).                    *)
THEOREM ImplementsLedger == Spec => KeepsLedger
  <1>1. Init => Ledger!Init
    BY DEF Init, Ledger!Init, Ahead, Delivered
  <1>2. IndInv /\ [Next]_vars => [Ledger!Next]_(Ledger!vars)
    BY LedgerStep, TasksAssumption, BoundsAssumption
  <1>. QED
    BY <1>1, <1>2, Invariance, PTL DEF Spec, Ledger!Spec, KeepsLedger
=============================================================================
