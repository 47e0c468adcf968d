------------------------- MODULE TaskManagerProofs -------------------------
(* Proofs about TaskManager, for all tasks, messages and bounds. *)
EXTENDS TaskManager, TLAPS

-----------------------------------------------------------------------------
(* The data the main loop and the codec work on *)

(* The runs the main loop starts, and the steps of a run. *)
LEMMA RunShapes ==
    ASSUME TasksAssumption, BoundsAssumption, rsn \in Nat
    PROVE  /\ \A t \in Tasks : Reflecting("active", t, rsn) \in Runs
           /\ \A t \in Tasks :
                  [Reflecting("active", t, 0) EXCEPT !.phase = "external"] \in Runs
           /\ \A n \in 1..NCsp : IncomingTask(n) \in Runs
           /\ \A n \in 1..NReflected :
                  [Reflecting("reflected", n, 0) EXCEPT !.phase = "process"] \in Runs
           /\ [NoTask EXCEPT !.kind = "drop", !.phase = "drop"] \in Runs
           /\ NoTask \in Runs
  BY DEF TasksAssumption, BoundsAssumption, Reflecting, IncomingTask, Runs, RunOf, NoTask

LEMMA RunSteps ==
    ASSUME NEW run \in Runs
    PROVE  /\ run.phase = "reflect" =>
                  /\ [run EXCEPT !.written = @ + 1] \in Runs
                  /\ [run EXCEPT !.acked = @ + 1] \in Runs
           /\ run.phase = "process" \/ run.kind = "incoming" =>
                  [run EXCEPT !.phase = "ack"] \in Runs
           /\ run.phase = "drop" => [run EXCEPT !.phase = "dropAck"] \in Runs
           /\ run.phase = "external" => run.kind = "active"
           /\ run.kind = "active" => run.task \in Tasks
           /\ run.phase \in {"external", "reflect"} => run.kind \in {"active", "incoming"}
           /\ run.first \in Nat /\ run.written \in Nat /\ run.acked \in Nat
  BY DEF Runs, RunOf, NoTask

(* How many envelopes a run reflects is a natural number. *)
LEMMA EnvelopeCount ==
    ASSUME TasksAssumption, BoundsAssumption
    PROVE  /\ \A t \in Tasks : Envelopes[t] \in Nat
           /\ \A run \in Runs : EnvelopesOf(run) \in Nat
  <1>1. \A t \in Tasks : Envelopes[t] \in Nat
    BY DEF TasksAssumption
  <1>. QED
    BY <1>1, RunSteps DEF EnvelopesOf

(* What the messages from the servers look like. *)
LEMMA MessageShapes ==
    /\ InboundMsg \subseteq Messages /\ DropAck \in Messages
    /\ \A n \in Nat : Ack(n) \in Messages
    /\ \A m \in Messages :
           /\ m.kind = "csp" => m.id \in 1..NCsp
           /\ m.kind = "reflected" => m \in InboundMsg /\ m.id \in 1..NReflected
  BY DEF Messages, InboundMsg, Csp, Reflected, DropAck, Ack

(* The frames that are written to the servers. *)
LEMMA FrameShapes ==
    /\ \A n \in Nat, e \in EnvelopeIds : Frame("reflect", n, e) \in Frames
    /\ \A n \in Nat, k \in {"cspAck", "reflectedAck", "drop"} :
           Frame(k, n, NoEnvelope) \in Frames
    /\ \A f \in Frames : f.kind = "reflect" => f.of \in EnvelopeIds
    /\ \A f \in Frames : f.id \in Nat
  BY DEF Frames, Frame

LEMMA EnvelopeShapes ==
    ASSUME BoundsAssumption, NEW run \in Runs, run.phase = "reflect", NEW k \in Nat
    PROVE  Envelope(run, k) \in EnvelopeIds
  BY DEF BoundsAssumption, Envelope, EnvelopeIds, Runs, RunOf, NoTask

(* Sequences: concatenations, heads and tails stay over the same set. *)
LEMMA SeqFacts ==
    ASSUME NEW S, NEW s \in Seq(S), NEW r \in Seq(S)
    PROVE  /\ s \o r \in Seq(S)
           /\ s # <<>> => Head(s) \in S /\ Tail(s) \in Seq(S)
           /\ \A x \in S : Append(s, x) \in Seq(S)
           /\ \A x \in S : <<x>> \in Seq(S) /\ Len(<<x>>) = 1
           /\ <<>> \in Seq(S) /\ Len(<<>>) = 0
  OBVIOUS

-----------------------------------------------------------------------------
(* Type correctness *)

LEMMA TypeInit ==
    ASSUME TasksAssumption, BoundsAssumption, Init
    PROVE  TypeOK
  <1>1. NoTask \in Runs
    BY DEF Runs
  <1>2. <<>> \in Seq(Messages) /\ <<>> \in Seq(Frames) /\ Len(<<>>) = 0
    BY SeqFacts
  <1>3. ManagerType
    BY DEF Init, ManagerType
  <1>4. LoopType
    BY <1>1 DEF Init, LoopType
  <1>5. QueueType
    <2>1. codecBacklog = <<>> /\ backlog = <<>> /\ slot = <<>>
      BY DEF Init
    <2>2. backlogError \in BOOLEAN /\ netError \in BOOLEAN
      BY DEF Init
    <2>. QED
      BY ONLY <1>2, <2>1, <2>2 DEF QueueType
  <1>6. FaultType
    BY DEF Init, FaultType
  <1>7. ServerType
    <2>1. up = <<>> /\ down = <<>>
      BY DEF Init
    <2>2. unacked \subseteq InboundMsg /\ sent \subseteq InboundMsg /\ stored \subseteq EnvelopeIds
      BY DEF Init
    <2>. QED
      BY ONLY <1>2, <2>1, <2>2 DEF ServerType
  <1>. QED
    BY <1>3, <1>4, <1>5, <1>6, <1>7 DEF TypeOK

(* A part of the state that a step leaves alone keeps its type. *)
LEMMA TypeUnchanged ==
    /\ ManagerType /\ UNCHANGED managerVars => ManagerType'
    /\ LoopType /\ UNCHANGED loopVars => LoopType'
    /\ QueueType /\ UNCHANGED queueVars => QueueType'
    /\ FaultType /\ UNCHANGED faultVars => FaultType'
    /\ ServerType /\ UNCHANGED serverVars => ServerType'
  BY DEF ManagerType, LoopType, QueueType, FaultType, ServerType,
         managerVars, loopVars, queueVars, faultVars, serverVars

(* The catch block of run leaves well-typed variables behind. *)
LEMMA TypeExitLoop ==
    ASSUME TasksAssumption, BoundsAssumption, TypeOK, ExitLoop,
           UNCHANGED <<inner, tasks, ticket, nextTicket, done, rsn>>,
           backlog' \in Seq(Messages), slot' = slot \/ slot' = <<>>
    PROVE  ManagerType' /\ LoopType' /\ QueueType'
  <1>1. NoTask \in Runs
    BY DEF Runs
  <1>2. <<>> \in Seq(Messages) /\ Len(<<>>) = 0
    BY SeqFacts
  <1>3. ManagerType'
    BY DEF TypeOK, ManagerType, ExitLoop
  <1>4. LoopType'
    BY <1>1 DEF TypeOK, LoopType, ExitLoop
  <1>5. QueueType'
    <2>1. codecBacklog' \in Seq(Messages)
      BY <1>2 DEF ExitLoop
    <2>2. slot' \in Seq(Messages) /\ Len(slot') <= 1
      <3>1. slot \in Seq(Messages) /\ Len(slot) <= 1
        BY DEF TypeOK, QueueType
      <3>2. CASE slot' = slot
        BY <3>1, <3>2
      <3>3. CASE slot' = <<>>
        BY <1>2, <3>3
      <3>. QED
        BY <3>2, <3>3
    <2>3. backlogError' \in BOOLEAN /\ netError' \in BOOLEAN
      BY DEF ExitLoop
    <2>. QED
      BY <2>1, <2>2, <2>3 DEF QueueType
  <1>. QED
    BY <1>3, <1>4, <1>5

(* So does a task that returns. *)
LEMMA TypeTaskReturns ==
    ASSUME TasksAssumption, BoundsAssumption, TypeOK, TaskReturns,
           running.kind = "active" => running.task \in Tasks,
           UNCHANGED <<inner, ticket, nextTicket, rsn, slot>>
    PROVE  ManagerType' /\ LoopType' /\ QueueType'
  <1>1. CASE backlogError
    <2>1. ExitLoop /\ UNCHANGED <<tasks, done, backlog>>
      BY <1>1 DEF TaskReturns
    <2>. QED
      BY <2>1, TypeExitLoop DEF TypeOK, QueueType
  <1>2. CASE ~backlogError
    <2>1. NoTask \in Runs
      BY DEF Runs
    <2>2. Transferred \in Seq(Messages)
      BY SeqFacts DEF Transferred, TypeOK, QueueType
    <2>3. ManagerType'
      BY <1>2 DEF TaskReturns, TypeOK, ManagerType
    <2>4. LoopType'
      BY <1>2, <2>1 DEF TaskReturns, TypeOK, LoopType
    <2>5. QueueType'
      BY <1>2, <2>2 DEF TaskReturns, TypeOK, QueueType
    <2>. QED
      BY <2>3, <2>4, <2>5
  <1>. QED
    BY <1>1, <1>2

(* A run starts: the backlog moves to the codec, and a fresh one is in place. *)
LEMMA TypeMovedBacklog ==
    ASSUME netError \in BOOLEAN, codecBacklog' \in Seq(Messages),
           backlog' = <<>>, backlogError' = FALSE,
           slot' \in Seq(Messages), Len(slot') <= 1, netError' = netError
    PROVE  QueueType'
  <1>1. backlog' \in Seq(Messages)
    BY SeqFacts
  <1>. QED
    BY <1>1 DEF QueueType

(* What a codec can read, and what it leaves after reading. *)
LEMMA TypeRead ==
    ASSUME TypeOK, Readable # <<>>
    PROVE  /\ Head(Readable) \in Messages
           /\ ConsumeRead =>
                  /\ codecBacklog' \in Seq(Messages)
                  /\ slot' \in Seq(Messages) /\ Len(slot') <= 1
  <1>1. codecBacklog \in Seq(Messages) /\ slot \in Seq(Messages) /\ Len(slot) <= 1
    BY DEF TypeOK, QueueType
  <1>2. Readable \in Seq(Messages)
    BY <1>1, SeqFacts DEF Readable
  <1>3. Head(Readable) \in Messages
    BY <1>2, SeqFacts
  <1>4. ASSUME ConsumeRead
        PROVE  /\ codecBacklog' \in Seq(Messages)
               /\ slot' \in Seq(Messages) /\ Len(slot') <= 1
    <2>1. CASE codecBacklog = <<>>
      <3>1. slot' = <<>> /\ codecBacklog' = codecBacklog
        BY <1>4, <2>1 DEF ConsumeRead
      <3>. QED
        BY <1>1, <3>1, SeqFacts
    <2>2. CASE codecBacklog # <<>>
      <3>1. codecBacklog' = Tail(codecBacklog) /\ slot' = slot
        BY <1>4, <2>2 DEF ConsumeRead
      <3>. QED
        BY <1>1, <2>2, <3>1, SeqFacts
    <2>. QED
      BY <2>1, <2>2
  <1>. QED
    BY <1>3, <1>4

LEMMA TypeStep ==
    ASSUME TasksAssumption, BoundsAssumption, TypeOK, [Next]_vars
    PROVE  TypeOK'
  <1> USE TasksAssumption, BoundsAssumption
  <1>a. ManagerType /\ LoopType /\ QueueType /\ FaultType /\ ServerType
    BY DEF TypeOK
  <1>b. /\ codecBacklog \in Seq(Messages) /\ backlog \in Seq(Messages)
        /\ slot \in Seq(Messages) /\ Len(slot) <= 1
        /\ up \in Seq(Frames) /\ down \in Seq(Messages)
        /\ running \in Runs /\ rsn \in Nat
    BY <1>a DEF QueueType, ServerType, LoopType
  <1>c. <<>> \in Seq(Messages) /\ <<>> \in Seq(Frames) /\ Len(<<>>) = 0
    BY SeqFacts
  <1>d. NoTask \in Runs
    BY DEF Runs
  <1>0. CASE UNCHANGED vars
    BY <1>a, <1>0, TypeUnchanged DEF vars, TypeOK
  <1>1. ASSUME NEW t \in Tasks, ScheduleDisconnected(t) PROVE TypeOK'
    <2>1. ManagerType'
      BY <1>a, <1>1 DEF ScheduleDisconnected, ManagerType, Enqueue, TicketFor, managerVars
    <2>2. UNCHANGED <<loopVars, queueVars, faultVars, serverVars>>
      BY <1>1 DEF ScheduleDisconnected, managerVars, loopVars, queueVars, faultVars, serverVars
    <2>. QED
      BY <1>a, <2>1, <2>2, TypeUnchanged DEF TypeOK
  <1>2. ASSUME NEW t \in Tasks, ScheduleConnected(t) PROVE TypeOK'
    <2>1. ManagerType'
      BY <1>a, <1>2 DEF ScheduleConnected, ManagerType, Enqueue, TicketFor
    <2>2. UNCHANGED <<loopVars, queueVars, faultVars, serverVars>>
      BY <1>2 DEF ScheduleConnected, managerVars, loopVars, queueVars, faultVars, serverVars
    <2>. QED
      BY <1>a, <2>1, <2>2, TypeUnchanged DEF TypeOK
  <1>3. CASE Connect
    <2>1. ManagerType'
      BY <1>a, <1>3 DEF Connect, ManagerType, Kept, AbortedByReconnect
    <2>2. LoopType'
      BY <1>a, <1>3, <1>d DEF Connect, LoopType
    <2>3. QueueType'
      <3>1. codecBacklog' = <<>> /\ backlog' = <<>> /\ slot' = <<>>
        BY <1>3 DEF Connect
      <3>2. backlogError' \in BOOLEAN /\ netError' \in BOOLEAN
        BY <1>3 DEF Connect
      <3>. QED
        BY ONLY <1>c, <3>1, <3>2 DEF QueueType
    <2>4. ServerType'
      <3>1. up' = <<>> /\ down' = <<>>
        BY <1>3 DEF Connect
      <3>2. sent' = {} /\ UNCHANGED <<unacked, stored>>
        BY <1>3 DEF Connect
      <3>. QED
        BY <1>a, <1>c, <3>1, <3>2 DEF ServerType
    <2>5. UNCHANGED <<faultVars>>
      BY <1>3 DEF Connect, managerVars, loopVars, queueVars, faultVars, serverVars
    <2>. QED
      BY <1>a, <2>1, <2>2, <2>3, <2>4, <2>5, TypeUnchanged DEF TypeOK
  <1>4. CASE Disconnect
    <2>1. ManagerType'
      BY <1>a, <1>4 DEF Disconnect, ManagerType
    <2>2. LoopType'
      BY <1>a, <1>4, <1>d DEF Disconnect, LoopType
    <2>3. FaultType'
      BY <1>a, <1>4 DEF Disconnect, FaultType
    <2>4. QueueType'
      <3>1. codecBacklog' = <<>> /\ backlog' = <<>> /\ slot' = <<>>
        BY <1>4 DEF Disconnect
      <3>2. backlogError' \in BOOLEAN /\ netError' \in BOOLEAN
        BY <1>a, <1>4 DEF Disconnect, QueueType
      <3>. QED
        BY ONLY <1>c, <3>1, <3>2 DEF QueueType
    <2>5. ServerType'
      <3>1. up' = <<>> /\ down' = <<>>
        BY <1>4 DEF Disconnect
      <3>2. sent' = {} /\ UNCHANGED <<unacked, stored>>
        BY <1>4 DEF Disconnect
      <3>. QED
        BY <1>a, <1>c, <3>1, <3>2 DEF ServerType
    <2>. QED
      BY <1>a, <2>1, <2>2, <2>3, <2>4, <2>5 DEF TypeOK
  <1>5. CASE Abort
    <2>1. QueueType'
      BY <1>a, <1>5 DEF Abort, QueueType
    <2>2. FaultType'
      BY <1>a, <1>5 DEF Abort, FaultType
    <2>3. ServerType'
      <3>1. up' = <<>> /\ down' = <<>>
        BY <1>5 DEF Abort
      <3>2. UNCHANGED <<unacked, stored, sent>>
        BY <1>5 DEF Abort
      <3>. QED
        BY <1>a, <1>c, <3>1, <3>2 DEF ServerType
    <2>4. UNCHANGED <<managerVars, loopVars>>
      BY <1>5 DEF Abort, managerVars, loopVars, queueVars, faultVars, serverVars
    <2>. QED
      BY <1>a, <2>1, <2>2, <2>3, <2>4, TypeUnchanged DEF TypeOK
  <1>6. CASE StartRun
    <2>1. LoopType'
      BY <1>a, <1>6 DEF StartRun, LoopType
    <2>2. UNCHANGED <<managerVars, queueVars, faultVars, serverVars>>
      BY <1>6 DEF StartRun, managerVars, loopVars, queueVars, faultVars, serverVars
    <2>. QED
      BY <1>a, <2>1, <2>2, TypeUnchanged DEF TypeOK
  <1>7. CASE NextInbound
    <2>1. LoopType'
      BY <1>a, <1>7 DEF NextInbound, LoopType
    <2>2. UNCHANGED <<managerVars, queueVars, faultVars, serverVars>>
      BY <1>7 DEF NextInbound, managerVars, loopVars, queueVars, faultVars, serverVars
    <2>. QED
      BY <1>a, <2>1, <2>2, TypeUnchanged DEF TypeOK
  <1>8. CASE NextError
    <2>1. ExitLoop /\ UNCHANGED <<inner, tasks, ticket, nextTicket, done, rsn>>
      BY <1>8 DEF NextError
    <2>2. backlog' = backlog /\ (slot' = slot \/ slot' = <<>>)
      BY <1>8 DEF NextError
    <2>3. ManagerType' /\ LoopType' /\ QueueType'
      BY <1>b, <2>1, <2>2, TypeExitLoop
    <2>4. FaultType' /\ ServerType'
      BY <1>a, <1>8 DEF NextError, FaultType, ServerType, faultVars, serverVars
    <2>. QED
      BY <2>3, <2>4 DEF TypeOK
  <1>9. CASE AssertNoTasksFails
    <2>1. ExitLoop /\ UNCHANGED <<inner, tasks, ticket, nextTicket, done, rsn>>
      BY <1>9 DEF AssertNoTasksFails
    <2>2. backlog' = backlog /\ (slot' = slot \/ slot' = <<>>)
      BY <1>9 DEF AssertNoTasksFails
    <2>3. ManagerType' /\ LoopType' /\ QueueType'
      BY <1>b, <2>1, <2>2, TypeExitLoop
    <2>4. FaultType' /\ ServerType'
      BY <1>a, <1>9 DEF AssertNoTasksFails, FaultType, ServerType, faultVars, serverVars
    <2>. QED
      BY <2>3, <2>4 DEF TypeOK
  <1>10. CASE HandleInbound
    <2> DEFINE rest == IF backlog # <<>> THEN Tail(backlog) ELSE <<>>
    <2>1. Inbound \in Messages
      <3>1. backlog \o slot \in Seq(Messages) /\ backlog \o slot # <<>>
        BY <1>b, <1>10, SeqFacts DEF HandleInbound
      <3>. QED
        BY <3>1, SeqFacts DEF Inbound
    <2>2. /\ Inbound.kind = "csp" => Inbound.id \in 1..NCsp
          /\ Inbound.kind = "reflected" => Inbound.id \in 1..NReflected
      BY <2>1, MessageShapes
    <2>3. rest \in Seq(Messages)
      BY <1>b, <1>c, SeqFacts DEF rest
    <2> HIDE DEF rest
    <2>4. LoopType'
      <3>1. CASE Inbound.kind = "csp"
        BY <1>a, <1>10, <2>1, <2>2, <3>1, RunShapes DEF HandleInbound, LoopType
      <3>2. CASE Inbound.kind = "reflected"
        BY <1>a, <1>10, <2>1, <2>2, <3>2, RunShapes DEF HandleInbound, LoopType
      <3>3. CASE Inbound.kind \in {"ack", "dropAck"}
        BY <1>a, <1>10, <3>3 DEF HandleInbound, LoopType
      <3>. QED
        BY <1>10, <3>1, <3>2, <3>3 DEF HandleInbound
    <2>5. QueueType'
      <3>1. slot' \in Seq(Messages) /\ Len(slot') <= 1
        <4>1. CASE backlog # <<>>
          BY <1>b, <1>10, <4>1 DEF HandleInbound
        <4>2. CASE backlog = <<>>
          BY <1>c, <1>10, <4>2 DEF HandleInbound
        <4>. QED
          BY <4>1, <4>2
      <3>2. CASE Inbound.kind \in {"csp", "reflected"}
        <4>1. /\ codecBacklog' = rest /\ backlog' = <<>> /\ backlogError' = FALSE
              /\ netError' = netError
          BY <1>10, <3>2 DEF HandleInbound, rest
        <4>2. netError \in BOOLEAN
          BY <1>a DEF QueueType
        <4>. QED
          BY <2>3, <3>1, <4>1, <4>2, TypeMovedBacklog
      <3>3. CASE Inbound.kind \in {"ack", "dropAck"}
        <4>1. backlog' = rest /\ UNCHANGED <<codecBacklog, backlogError, netError>>
          BY <1>10, <3>3 DEF HandleInbound, rest
        <4>. QED
          BY <1>a, <2>3, <3>1, <4>1 DEF QueueType
      <3>. QED
        BY <1>10, <3>2, <3>3 DEF HandleInbound
    <2>6. UNCHANGED <<managerVars, faultVars, serverVars>>
      BY <1>10 DEF HandleInbound, managerVars, loopVars, queueVars, faultVars, serverVars
    <2>. QED
      BY <1>a, <2>4, <2>5, <2>6, TypeUnchanged DEF TypeOK
  <1>11. ASSUME NEW t \in Tasks, NextTask(t) PROVE TypeOK'
    <2>1. LoopType'
      BY <1>a, <1>11, RunShapes, EnvelopeCount DEF NextTask, LoopType
    <2>2. QueueType'
      <3>1. codecBacklog' = backlog /\ backlog' = <<>> /\ backlogError' = FALSE
        BY <1>11 DEF NextTask
      <3>2. slot' = slot /\ netError' = netError /\ netError \in BOOLEAN
        BY <1>a, <1>11 DEF NextTask, QueueType
      <3>. QED
        BY <1>b, <3>1, <3>2, TypeMovedBacklog
    <2>3. UNCHANGED <<managerVars, faultVars, serverVars>>
      BY <1>11 DEF NextTask, managerVars, loopVars, queueVars, faultVars, serverVars
    <2>. QED
      BY <1>a, <2>1, <2>2, <2>3, TypeUnchanged DEF TypeOK
  <1>12. CASE ExternalDone
    <2>1. running.task \in Tasks
      BY <1>b, <1>12, RunSteps DEF ExternalDone
    <2>2. LoopType'
      BY <1>a, <1>12, <2>1, RunShapes, EnvelopeCount DEF ExternalDone, LoopType
    <2>3. UNCHANGED <<managerVars, queueVars, faultVars, serverVars>>
      BY <1>12 DEF ExternalDone, managerVars, loopVars, queueVars, faultVars, serverVars
    <2>. QED
      BY <1>a, <2>2, <2>3, TypeUnchanged DEF TypeOK
  <1>13. CASE WriteReflect
    <2>1. /\ Envelope(running, running.written + 1) \in EnvelopeIds
          /\ running.first + running.written \in Nat
      <3>1. running.phase = "reflect" /\ running \in Runs
        BY <1>b, <1>13 DEF WriteReflect
      <3>2. running.first \in Nat /\ running.written \in Nat
        BY <3>1, RunSteps
      <3>3. running.written + 1 \in Nat /\ running.first + running.written \in Nat
        BY <3>2
      <3>. QED
        BY <3>1, <3>3, EnvelopeShapes
    <2>2. Frame("reflect", running.first + running.written,
                Envelope(running, running.written + 1)) \in Frames
      BY <2>1, FrameShapes
    <2>3. LoopType'
      BY <1>a, <1>13, RunSteps DEF WriteReflect, LoopType
    <2>4. ServerType'
      BY <1>a, <1>13, <2>2, SeqFacts DEF WriteReflect, ServerType
    <2>5. UNCHANGED <<managerVars, queueVars, faultVars>>
      BY <1>13 DEF WriteReflect, managerVars, loopVars, queueVars, faultVars, serverVars
    <2>. QED
      BY <1>a, <2>3, <2>4, <2>5, TypeUnchanged DEF TypeOK
  <1>14. CASE ReadBypass
    <2>1. Head(Readable) \in Messages /\ Head(Readable).kind = "reflected"
      BY <1>14, TypeRead DEF ReadBypass
    <2>2. QueueType'
      BY <1>a, <1>14, <1>b, <2>1, TypeRead DEF ReadBypass, QueueType
    <2>3. FaultType'
      BY <1>a, <1>14, <2>1, MessageShapes DEF ReadBypass, FaultType
    <2>4. UNCHANGED <<managerVars, loopVars, serverVars>>
      BY <1>14 DEF ReadBypass, managerVars, loopVars, queueVars, faultVars, serverVars
    <2>. QED
      BY <1>a, <2>2, <2>3, <2>4, TypeUnchanged DEF TypeOK
  <1>15. CASE ReadAccept
    <2>1. /\ codecBacklog' \in Seq(Messages)
          /\ slot' \in Seq(Messages) /\ Len(slot') <= 1
      BY <1>15, TypeRead DEF ReadAccept
    <2>2. LoopType' /\ ManagerType'
      BY <1>a, <1>d, <1>15, RunSteps DEF ReadAccept, LoopType, ManagerType
    <2>3. QueueType'
      <3>1. UNCHANGED backlog /\ backlogError' \in BOOLEAN /\ netError' \in BOOLEAN
        BY <1>a, <1>15 DEF ReadAccept, QueueType
      <3>. QED
        BY <1>b, <2>1, <3>1 DEF QueueType
    <2>4. UNCHANGED <<faultVars, serverVars>>
      BY <1>15 DEF ReadAccept
    <2>. QED
      BY <1>a, <2>2, <2>3, <2>4, TypeUnchanged DEF TypeOK
  <1>16. CASE ReadBacklog
    <2>1. /\ codecBacklog' \in Seq(Messages)
          /\ slot' \in Seq(Messages) /\ Len(slot') <= 1
      BY <1>16, TypeRead DEF ReadBacklog
    <2>2. QueueType'
      <3>1. Head(Readable) \in Messages
        BY <1>16, TypeRead DEF ReadBacklog
      <3>2. backlog' = BacklogLast(Head(Readable)) \/ backlog' = backlog
        BY <1>16 DEF ReadBacklog
      <3>3. backlog' \in Seq(Messages)
        BY <1>b, <3>1, <3>2, SeqFacts DEF BacklogLast
      <3>4. UNCHANGED <<backlogError, netError>>
        BY <1>16 DEF ReadBacklog
      <3>. QED
        BY <1>a, <2>1, <3>3, <3>4 DEF QueueType
    <2>3. UNCHANGED <<managerVars, loopVars, faultVars, serverVars>>
      BY <1>16 DEF ReadBacklog
    <2>. QED
      BY <1>a, <2>2, <2>3, TypeUnchanged DEF TypeOK
  <1>17. CASE ReadMismatch
    <2>1. ExitLoop /\ UNCHANGED <<inner, tasks, ticket, nextTicket, done, rsn>>
      BY <1>17 DEF ReadMismatch
    <2>2. backlog' = backlog /\ (slot' = slot \/ slot' = <<>>)
      BY <1>17 DEF ReadMismatch
    <2>3. ManagerType' /\ LoopType' /\ QueueType'
      BY <1>b, <2>1, <2>2, TypeExitLoop
    <2>4. FaultType' /\ ServerType'
      BY <1>a, <1>17 DEF ReadMismatch, FaultType, ServerType, faultVars, serverVars
    <2>. QED
      BY <2>3, <2>4 DEF TypeOK
  <1>18. CASE CodecError
    <2>1. ExitLoop /\ UNCHANGED <<inner, tasks, ticket, nextTicket, done, rsn>>
      BY <1>18 DEF CodecError
    <2>2. backlog' = backlog /\ (slot' = slot \/ slot' = <<>>)
      BY <1>18 DEF CodecError
    <2>3. ManagerType' /\ LoopType' /\ QueueType'
      BY <1>b, <2>1, <2>2, TypeExitLoop
    <2>4. FaultType' /\ ServerType'
      BY <1>a, <1>18 DEF CodecError, FaultType, ServerType, faultVars, serverVars
    <2>. QED
      BY <2>3, <2>4 DEF TypeOK
  <1>19. CASE ReflectReturns
    <2>1. running.kind = "active" => running.task \in Tasks
      BY <1>b, RunSteps
    <2>2. UNCHANGED <<inner, ticket, nextTicket, rsn, slot, faultVars, serverVars>>
      BY <1>19 DEF ReflectReturns
    <2>3. CASE TaskReturns
      <3>1. ManagerType' /\ LoopType' /\ QueueType'
        BY <2>1, <2>2, <2>3, TypeTaskReturns
      <3>. QED
        BY <1>a, <2>2, <3>1, TypeUnchanged DEF TypeOK
    <2>4. CASE /\ running.kind = "incoming" /\ running' = [running EXCEPT !.phase = "ack"]
               /\ UNCHANGED <<tasks, done, tasksError, loop, codecBacklog, backlog,
                              backlogError, netError>>
      <3>1. LoopType'
        BY <1>a, <2>2, <2>4, RunSteps DEF LoopType
      <3>2. UNCHANGED <<managerVars, queueVars>>
        BY <2>2, <2>4 DEF managerVars, queueVars
      <3>. QED
        BY <1>a, <2>2, <3>1, <3>2, TypeUnchanged DEF TypeOK
    <2>. QED
      BY <1>19, <2>3, <2>4 DEF ReflectReturns
  <1>20. CASE ProcessReflected
    <2>1. LoopType'
      BY <1>a, <1>20, RunSteps DEF ProcessReflected, LoopType
    <2>2. UNCHANGED <<managerVars, queueVars, faultVars, serverVars>>
      BY <1>20 DEF ProcessReflected, managerVars, loopVars, queueVars, faultVars, serverVars
    <2>. QED
      BY <1>a, <2>1, <2>2, TypeUnchanged DEF TypeOK
  <1>21. CASE AcknowledgeInbound
    <2>1. running.kind # "active"
      BY <1>b, <1>21 DEF AcknowledgeInbound, Runs, RunOf, NoTask
    <2>2. UNCHANGED <<inner, ticket, nextTicket, rsn, slot, faultVars>>
      BY <1>21 DEF AcknowledgeInbound
    <2>3. ManagerType' /\ LoopType' /\ QueueType'
      BY <1>21, <2>1, <2>2, TypeTaskReturns DEF AcknowledgeInbound
    <2>4. Frame(IF running.kind = "incoming" THEN "cspAck" ELSE "reflectedAck",
                running.task, NoEnvelope) \in Frames
      <3>1. running.task \in Nat
        BY <1>b, <1>21 DEF AcknowledgeInbound, Runs, RunOf, NoTask
      <3>. QED
        BY <3>1, FrameShapes
    <2>5. ServerType'
      BY <1>a, <1>21, <2>4, SeqFacts DEF AcknowledgeInbound, ServerType
    <2>. QED
      BY <1>a, <2>2, <2>3, <2>5, TypeUnchanged DEF TypeOK
  <1>22. CASE DetectUnrecoverable
    <2>1. Frame("reflectedAck", running.task, NoEnvelope) \in Frames
      <3>1. running.task \in Nat
        BY <1>22 DEF DetectUnrecoverable, BoundsAssumption
      <3>. QED
        BY <3>1, FrameShapes
    <2>2. LoopType'
      BY <1>a, <1>22, RunShapes DEF DetectUnrecoverable, LoopType
    <2>3. QueueType'
      <3>1. codecBacklog' = backlog /\ backlog' = <<>> /\ backlogError' = FALSE
        BY <1>22 DEF DetectUnrecoverable
      <3>2. slot' = slot /\ netError' = netError /\ netError \in BOOLEAN
        BY <1>a, <1>22 DEF DetectUnrecoverable, QueueType
      <3>. QED
        BY <1>b, <3>1, <3>2, TypeMovedBacklog
    <2>4. FaultType'
      BY <1>a, <1>22 DEF DetectUnrecoverable, FaultType
    <2>5. ServerType'
      BY <1>a, <1>22, <2>1, SeqFacts DEF DetectUnrecoverable, ServerType
    <2>6. UNCHANGED <<managerVars>>
      BY <1>22 DEF DetectUnrecoverable, managerVars, loopVars, queueVars, faultVars, serverVars
    <2>. QED
      BY <1>a, <2>2, <2>3, <2>4, <2>5, <2>6, TypeUnchanged DEF TypeOK
  <1>23. CASE WriteDrop
    <2>1. Frame("drop", 0, NoEnvelope) \in Frames
      BY FrameShapes
    <2>2. LoopType'
      BY <1>a, <1>23, RunSteps DEF WriteDrop, LoopType
    <2>3. ServerType'
      BY <1>a, <1>23, <2>1, SeqFacts DEF WriteDrop, ServerType
    <2>4. UNCHANGED <<managerVars, queueVars, faultVars>>
      BY <1>23 DEF WriteDrop, managerVars, loopVars, queueVars, faultVars, serverVars
    <2>. QED
      BY <1>a, <2>2, <2>3, <2>4, TypeUnchanged DEF TypeOK
  <1>24. CASE DropError
    <2>1. LoopType'
      BY <1>a, <1>24, <1>d DEF DropError, LoopType
    <2>2. QueueType'
      <3>1. codecBacklog' = <<>> /\ UNCHANGED <<backlog, slot, backlogError, netError>>
        BY <1>24 DEF DropError
      <3>. QED
        BY <1>a, <1>c, <3>1 DEF QueueType
    <2>3. UNCHANGED <<managerVars, faultVars, serverVars>>
      BY <1>24 DEF DropError, managerVars, loopVars, queueVars, faultVars, serverVars
    <2>. QED
      BY <1>a, <2>1, <2>2, <2>3, TypeUnchanged DEF TypeOK
  <1>25. ASSUME NEW m \in InboundMsg, BypassDone(m) PROVE TypeOK'
    <2>1. Frame("reflectedAck", m.id, NoEnvelope) \in Frames
      <3>1. m.id \in Nat
        BY BoundsAssumption DEF BoundsAssumption, InboundMsg, Csp, Reflected
      <3>. QED
        BY <3>1, FrameShapes
    <2>2. FaultType'
      BY <1>a, <1>25 DEF BypassDone, FaultType
    <2>3. ServerType'
      BY <1>a, <1>25, <2>1, SeqFacts DEF BypassDone, ServerType
    <2>4. UNCHANGED <<managerVars, loopVars, queueVars>>
      BY <1>25 DEF BypassDone, managerVars, loopVars, queueVars, faultVars, serverVars
    <2>. QED
      BY <1>a, <2>2, <2>3, <2>4, TypeUnchanged DEF TypeOK
  <1>26. CASE Deliver
    <2>1. QueueType'
      <3>1. slot' = <<Head(down)>> /\ Head(down) \in Messages
        BY <1>b, <1>26, SeqFacts DEF Deliver
      <3>2. UNCHANGED <<codecBacklog, backlog, backlogError, netError>>
        BY <1>26 DEF Deliver
      <3>. QED
        BY <1>a, <3>1, <3>2, SeqFacts DEF QueueType
    <2>2. ServerType'
      <3>1. down' \in Seq(Messages)
        BY <1>b, <1>26, SeqFacts DEF Deliver
      <3>2. UNCHANGED <<up, unacked, stored, sent>>
        BY <1>26 DEF Deliver
      <3>. QED
        BY <1>a, <3>1, <3>2 DEF ServerType
    <2>3. UNCHANGED <<managerVars, loopVars, faultVars>>
      BY <1>26 DEF Deliver, managerVars, loopVars, queueVars, faultVars, serverVars
    <2>. QED
      BY <1>a, <2>1, <2>2, <2>3, TypeUnchanged DEF TypeOK
  <1>27. CASE ServerReceive
    <2>1. /\ Head(up) \in Frames /\ Head(up).id \in Nat
          /\ Head(up).kind = "reflect" => Head(up).of \in EnvelopeIds
      BY <1>b, <1>27, SeqFacts, FrameShapes DEF ServerReceive
    <2>2. FaultType'
      BY <1>a, <1>27 DEF ServerReceive, FaultType
    <2>3. ServerType'
      <3>1. down' \in Seq(Messages)
        <4>1. Ack(Head(up).id) \in Messages /\ DropAck \in Messages
          BY <2>1, MessageShapes
        <4>2. Append(down, Ack(Head(up).id)) \in Seq(Messages)
          BY <1>b, <4>1, SeqFacts
        <4>3. down \o <<Ack(Head(up).id), Ack(Head(up).id)>> \in Seq(Messages)
          BY <1>b, <4>1
        <4>4. Append(down, DropAck) \in Seq(Messages)
          BY <1>b, <4>1, SeqFacts
        <4>. QED
          BY <1>b, <1>27, <4>2, <4>3, <4>4 DEF ServerReceive
      <3>2. up' \in Seq(Frames)
        BY <1>b, <1>27, SeqFacts DEF ServerReceive
      <3>3. stored' \subseteq EnvelopeIds /\ unacked' \subseteq InboundMsg
        BY <1>a, <1>27, <2>1 DEF ServerReceive, ServerType
      <3>. QED
        BY <1>a, <1>27, <3>1, <3>2, <3>3 DEF ServerReceive, ServerType
    <2>4. UNCHANGED <<managerVars, loopVars, queueVars>>
      BY <1>27 DEF ServerReceive, managerVars, loopVars, queueVars, faultVars, serverVars
    <2>. QED
      BY <1>a, <2>2, <2>3, <2>4, TypeUnchanged DEF TypeOK
  <1>28. ASSUME NEW m \in InboundMsg, ServerSend(m) PROVE TypeOK'
    <2>1. ServerType'
      BY <1>a, <1>28, <1>b, MessageShapes, SeqFacts DEF ServerSend, ServerType
    <2>2. UNCHANGED <<managerVars, loopVars, queueVars, faultVars>>
      BY <1>28 DEF ServerSend, managerVars, loopVars, queueVars, faultVars, serverVars
    <2>. QED
      BY <1>a, <2>1, <2>2, TypeUnchanged DEF TypeOK
  <1>29. CASE TaskThrows
    <2>1. ExitLoop /\ UNCHANGED <<inner, tasks, ticket, nextTicket, done, rsn, backlog, slot>>
      BY <1>29 DEF TaskThrows
    <2>2. ManagerType' /\ LoopType' /\ QueueType'
      BY <1>b, <2>1, TypeExitLoop
    <2>3. FaultType' /\ ServerType'
      BY <1>a, <1>29 DEF TaskThrows, FaultType, ServerType, serverVars
    <2>. QED
      BY <2>2, <2>3 DEF TypeOK
  <1>. QED
    BY <1>0, <1>1, <1>2, <1>3, <1>4, <1>5, <1>6, <1>7, <1>8, <1>9, <1>10, <1>11,
       <1>12, <1>13, <1>14, <1>15, <1>16, <1>17, <1>18, <1>19, <1>20, <1>21, <1>22,
       <1>23, <1>24, <1>25, <1>26, <1>27, <1>28, <1>29
       DEF Next, Schedule, Loop, Codec, Network

-----------------------------------------------------------------------------
(* The inductive invariant *)

(* The promises, the queue and the main loop agree. *)
QueueInv ==
    /\ PendingIffQueued
    /\ \A t \in tasks : ticket[t] < nextTicket
    /\ RunsFirstInLine

(* Messages that may still be read on this connection. *)
InFlight == Elements(codecBacklog) \union Elements(backlog) \union
            Elements(slot) \union Elements(down)

(* The k-th envelope of a batch has the id first + k - 1. *)
BatchEnvelope(id) == Envelope(running, id - running.first + 1)

(* Everything on the connection has an id that was issued on it.  What has *)
(* an id of the running batch belongs to that batch.                       *)
FramesInv ==
    \A f \in Elements(up) : f.kind = "reflect" =>
        /\ f.id < rsn
        /\ running.phase = "reflect" /\ f.id >= running.first => f.of = BatchEnvelope(f.id)

AcksInv ==
    \A n \in Nat : Ack(n) \in InFlight =>
        /\ n < rsn
        /\ running.phase = "reflect" /\ n >= running.first => BatchEnvelope(n) \in stored

(* The running batch got the last ids, and its acknowledged envelopes are *)
(* stored.                                                                *)
BatchInv ==
    running.phase = "reflect" =>
        /\ rsn = running.first + EnvelopesOf(running)
        /\ running.written <= EnvelopesOf(running)
        /\ \A k \in 1..running.acked : Envelope(running, k) \in stored

(* A chat message is acknowledged only once its envelope is stored. *)
CspInv ==
    /\ running.kind = "incoming" /\ running.phase = "ack" => <<"csp", running.task>> \in stored
    /\ \A f \in Elements(up) : f.kind = "cspAck" => <<"csp", f.id>> \in stored
    /\ ForgottenAfterStored

IndInv == TypeOK /\ QueueInv /\ FramesInv /\ AcksInv /\ BatchInv /\ CspInv /\ ResolvedAfterStored

LEMMA InvInit ==
    ASSUME TasksAssumption, BoundsAssumption, Init
    PROVE  IndInv
  <1>1. TypeOK
    BY TypeInit
  <1>2. QueueInv
    BY DEF Init, QueueInv, PendingIffQueued, RunsFirstInLine, NoTask,
           TasksAssumption
  <1>3. Elements(<<>>) = {}
    BY DEF Elements
  <1>4. InFlight = {} /\ Elements(up) = {}
    BY <1>3 DEF Init, InFlight
  <1>5. FramesInv /\ AcksInv
    BY <1>4 DEF FramesInv, AcksInv
  <1>6. BatchInv /\ CspInv
    BY <1>4 DEF Init, BatchInv, CspInv, ForgottenAfterStored, NoTask, InboundMsg
  <1>7. ResolvedAfterStored
    BY DEF Init, ResolvedAfterStored
  <1>. QED
    BY <1>1, <1>2, <1>5, <1>6, <1>7 DEF IndInv

(* A step that leaves the queue and the promises alone, and that starts no *)
(* active task, preserves QueueInv.                                        *)
LEMMA QueueUnchanged ==
    ASSUME QueueInv, UNCHANGED <<tasks, ticket, nextTicket, done>>,
           running' = running \/ running'.kind # "active" \/
               (running'.kind = running.kind /\ running'.task = running.task)
    PROVE  QueueInv'
  BY DEF QueueInv, PendingIffQueued, RunsFirstInLine, IsFirst

(* A task that is put into the queue goes last. *)
LEMMA QueueEnqueue ==
    ASSUME TypeOK, QueueInv, NEW t \in Tasks, done[t] = "new", Enqueue(t), running' = running
    PROVE  QueueInv'
  <1>1. t \notin tasks
    BY DEF QueueInv, PendingIffQueued
  <1>2. \A u \in Tasks : done'[u] = IF u = t THEN "pending" ELSE done[u]
    BY DEF Enqueue, TypeOK, ManagerType
  <1>3. \A u \in Tasks : ticket'[u] = IF u = t THEN nextTicket ELSE ticket[u]
    BY DEF Enqueue, TicketFor, TypeOK, ManagerType
  <1>4. tasks' = tasks \union {t} /\ nextTicket' = nextTicket + 1 /\ nextTicket \in Nat
    BY DEF Enqueue, TypeOK, ManagerType
  <1>5. PendingIffQueued'
    BY <1>1, <1>2, <1>4, TasksAssumption
       DEF QueueInv, PendingIffQueued, TasksAssumption
  <1>6. \A u \in tasks : u \in Tasks /\ u # t /\ ticket'[u] = ticket[u] /\ ticket[u] \in Nat
    BY <1>1, <1>3 DEF TypeOK, ManagerType
  <1>7. \A u \in tasks' : ticket'[u] < nextTicket'
    BY <1>3, <1>4, <1>6 DEF QueueInv
  <1>8. RunsFirstInLine'
    BY <1>3, <1>4, <1>6 DEF QueueInv, RunsFirstInLine, IsFirst
  <1>. QED
    BY <1>5, <1>7, <1>8 DEF QueueInv

(* A task that returns is removed, or stays with its promise pending. *)
LEMMA QueueTaskReturns ==
    ASSUME TypeOK, QueueInv, TaskReturns, UNCHANGED <<ticket, nextTicket>>
    PROVE  QueueInv'
  <1>1. running' = NoTask
    BY DEF TaskReturns, ExitLoop
  <1>2. CASE UNCHANGED <<tasks, done>>
    BY <1>1, <1>2, QueueUnchanged DEF NoTask
  <1>3. CASE /\ running.kind = "active" /\ tasks' = tasks \ {running.task}
             /\ done' = [done EXCEPT ![running.task] = "resolved"]
    <2>1. running.task \in tasks /\ running.task \in Tasks
      BY <1>3 DEF QueueInv, RunsFirstInLine, IsFirst, TypeOK, ManagerType
    <2>2. \A u \in Tasks : done'[u] = IF u = running.task THEN "resolved" ELSE done[u]
      BY <1>3, <2>1 DEF TypeOK, ManagerType
    <2>3. PendingIffQueued'
      BY <1>3, <2>1, <2>2, TasksAssumption
         DEF QueueInv, PendingIffQueued, TasksAssumption
    <2>4. \A u \in tasks' : ticket'[u] < nextTicket'
      BY <1>3 DEF QueueInv
    <2>5. RunsFirstInLine'
      BY <1>1 DEF RunsFirstInLine, NoTask
    <2>. QED
      BY <2>3, <2>4, <2>5 DEF QueueInv
  <1>. QED
    BY <1>2, <1>3 DEF TaskReturns

LEMMA QueueStep ==
    ASSUME TasksAssumption, BoundsAssumption, TypeOK, QueueInv, [Next]_vars
    PROVE  QueueInv'
  <1> USE DEF managerVars, loopVars
  <1>0. CASE UNCHANGED vars
    BY <1>0, QueueUnchanged DEF vars
  <1>1. ASSUME NEW t \in Tasks, ScheduleDisconnected(t) PROVE QueueInv'
    <2>1. CASE t \in Persistent
      BY <1>1, <2>1, QueueEnqueue DEF ScheduleDisconnected
    <2>2. CASE t \notin Persistent
      BY <1>1, <2>2, TasksAssumption
         DEF ScheduleDisconnected, TasksAssumption, QueueInv, PendingIffQueued,
             RunsFirstInLine, IsFirst, TypeOK, ManagerType
    <2>. QED
      BY <2>1, <2>2
  <1>2. ASSUME NEW t \in Tasks, ScheduleConnected(t) PROVE QueueInv'
    <2>1. CASE ~tasksError
      BY <1>2, <2>1, QueueEnqueue DEF ScheduleConnected
    <2>2. CASE tasksError
      BY <1>2, <2>2
         DEF ScheduleConnected, QueueInv, PendingIffQueued,
             RunsFirstInLine, IsFirst, TypeOK, ManagerType
    <2>. QED
      BY <2>1, <2>2
  <1>3. CASE Connect
    <2>1. \A t \in Tasks : done'[t] = IF AbortedByReconnect(t) THEN "aborted" ELSE done[t]
      BY <1>3 DEF Connect
    <2>2. tasks' = Kept /\ UNCHANGED <<ticket, nextTicket>> /\ running' = NoTask
      BY <1>3 DEF Connect
    <2>3. PendingIffQueued'
      BY <2>1, <2>2
         DEF TasksAssumption, QueueInv, PendingIffQueued, Kept,
             AbortedByReconnect
    <2>. QED
      BY <2>2, <2>3 DEF QueueInv, RunsFirstInLine, Kept, NoTask
  <1>4. CASE Disconnect
    BY <1>4, QueueUnchanged DEF Disconnect, NoTask
  <1>5. CASE Abort
    BY <1>5, QueueUnchanged DEF Abort
  <1>6. CASE StartRun
    BY <1>6, QueueUnchanged DEF StartRun
  <1>7. CASE NextInbound
    BY <1>7, QueueUnchanged DEF NextInbound
  <1>8. CASE NextError
    BY <1>8, QueueUnchanged DEF NextError, ExitLoop, NoTask
  <1>9. CASE AssertNoTasksFails
    BY <1>9, QueueUnchanged DEF AssertNoTasksFails, ExitLoop, NoTask
  <1>10. CASE HandleInbound
    BY <1>10, QueueUnchanged DEF HandleInbound, IncomingTask, Reflecting
  <1>11. ASSUME NEW t \in Tasks, NextTask(t) PROVE QueueInv'
    <2>1. running'.task = t /\ UNCHANGED <<tasks, ticket, nextTicket, done>> /\ IsFirst(t)
      BY <1>11 DEF NextTask, Reflecting
    <2>. QED
      BY <2>1 DEF QueueInv, PendingIffQueued, RunsFirstInLine, IsFirst
  <1>12. CASE ExternalDone
    <2>1. running.kind = "active"
      BY <1>12, RunSteps DEF ExternalDone, TypeOK, LoopType
    <2>2. running'.kind = running.kind /\ running'.task = running.task
      BY <1>12, <2>1 DEF ExternalDone, Reflecting
    <2>. QED
      BY <1>12, <2>2, QueueUnchanged DEF ExternalDone
  <1>13. CASE WriteReflect
    <2>1. running'.kind = running.kind /\ running'.task = running.task
      BY <1>13 DEF WriteReflect, TypeOK, LoopType, Runs, RunOf, NoTask
    <2>. QED
      BY <1>13, <2>1, QueueUnchanged DEF WriteReflect
  <1>14. CASE ReadBypass
    BY <1>14, QueueUnchanged DEF ReadBypass
  <1>15. CASE ReadAccept
    <2>1. \/ running'.kind = running.kind /\ running'.task = running.task
          \/ running' = NoTask
      BY <1>15 DEF ReadAccept, TypeOK, LoopType, Runs, RunOf, NoTask
    <2>. QED
      BY <1>15, <2>1, QueueUnchanged DEF ReadAccept, NoTask
  <1>16. CASE ReadBacklog
    BY <1>16, QueueUnchanged DEF ReadBacklog
  <1>17. CASE ReadMismatch
    BY <1>17, QueueUnchanged DEF ReadMismatch, ExitLoop, NoTask
  <1>18. CASE CodecError
    BY <1>18, QueueUnchanged DEF CodecError, ExitLoop, NoTask
  <1>19. CASE ReflectReturns
    <2>1. UNCHANGED <<ticket, nextTicket>>
      BY <1>19 DEF ReflectReturns
    <2>2. CASE TaskReturns
      BY <2>1, <2>2, QueueTaskReturns
    <2>3. CASE running.kind = "incoming" /\ running' = [running EXCEPT !.phase = "ack"]
      <3>1. running'.kind = "incoming"
        BY <2>3 DEF TypeOK, LoopType, Runs, RunOf, NoTask
      <3>2. UNCHANGED <<tasks, done>>
        BY <1>19, <2>3 DEF ReflectReturns
      <3>. QED
        BY <2>1, <3>1, <3>2, QueueUnchanged
    <2>. QED
      BY <1>19, <2>2, <2>3 DEF ReflectReturns
  <1>20. CASE ProcessReflected
    <2>1. running'.kind = running.kind /\ running'.task = running.task
      BY <1>20 DEF ProcessReflected, TypeOK, LoopType, Runs, RunOf, NoTask
    <2>. QED
      BY <1>20, <2>1, QueueUnchanged DEF ProcessReflected
  <1>21. CASE AcknowledgeInbound
    BY <1>21, QueueTaskReturns DEF AcknowledgeInbound
  <1>22. CASE DetectUnrecoverable
    BY <1>22, QueueUnchanged DEF DetectUnrecoverable, NoTask
  <1>23. CASE WriteDrop
    <2>1. running'.kind = running.kind /\ running'.task = running.task
      BY <1>23 DEF WriteDrop, TypeOK, LoopType, Runs, RunOf, NoTask
    <2>. QED
      BY <1>23, <2>1, QueueUnchanged DEF WriteDrop
  <1>24. CASE DropError
    BY <1>24, QueueUnchanged DEF DropError, NoTask
  <1>25. ASSUME NEW m \in InboundMsg, BypassDone(m) PROVE QueueInv'
    BY <1>25, QueueUnchanged DEF BypassDone
  <1>26. CASE Deliver
    BY <1>26, QueueUnchanged DEF Deliver
  <1>27. CASE ServerReceive
    BY <1>27, QueueUnchanged DEF ServerReceive
  <1>28. ASSUME NEW m \in InboundMsg, ServerSend(m) PROVE QueueInv'
    BY <1>28, QueueUnchanged DEF ServerSend
  <1>29. CASE TaskThrows
    BY <1>29, QueueUnchanged DEF TaskThrows, ExitLoop, NoTask
  <1>. QED
    BY <1>0, <1>1, <1>2, <1>3, <1>4, <1>5, <1>6, <1>7, <1>8, <1>9, <1>10, <1>11,
       <1>12, <1>13, <1>14, <1>15, <1>16, <1>17, <1>18, <1>19, <1>20, <1>21, <1>22,
       <1>23, <1>24, <1>25, <1>26, <1>27, <1>28, <1>29
       DEF Next, Schedule, Loop, Codec, Network

-----------------------------------------------------------------------------
(* What a step may do to the running batch and to what is on the connection *)

(* A run gets a batch of fresh ids. *)
NewBatch ==
    /\ running'.phase = "reflect" /\ running'.first = rsn
    /\ running'.written = 0 /\ running'.acked = 0
    /\ rsn' = rsn + EnvelopesOf(running') /\ running' \in Runs
    /\ UNCHANGED <<up, stored>>

(* The next acknowledgement of the running batch is read. *)
AckRead ==
    /\ running.phase = "reflect" /\ Ack(running.first + running.acked) \in InFlight
    /\ running' = [running EXCEPT !.acked = @ + 1]
    /\ UNCHANGED <<rsn, stored>>

LEMMA ElementsFacts ==
    ASSUME NEW S, NEW s \in Seq(S), NEW r \in Seq(S)
    PROVE  /\ Elements(<<>>) = {}
           /\ Elements(s \o r) = Elements(s) \union Elements(r)
           /\ s # <<>> => Head(s) \in Elements(s) /\ Elements(Tail(s)) \subseteq Elements(s)
           /\ \A x \in S : Elements(Append(s, x)) = Elements(s) \union {x}
           /\ \A x \in S : Elements(<<x>>) = {x}
  <1>1. Elements(<<>>) = {}
    BY DEF Elements
  <1>2. Elements(s \o r) = Elements(s) \union Elements(r)
    <2>1. ASSUME NEW i \in 1..Len(r) PROVE r[i] = (s \o r)[Len(s) + i] /\ Len(s) + i \in 1..Len(s \o r)
      OBVIOUS
    <2>2. ASSUME NEW i \in 1..Len(s) PROVE s[i] = (s \o r)[i] /\ i \in 1..Len(s \o r)
      OBVIOUS
    <2>3. ASSUME NEW i \in 1..Len(s \o r)
          PROVE  \/ i \in 1..Len(s) /\ (s \o r)[i] = s[i]
                 \/ i - Len(s) \in 1..Len(r) /\ (s \o r)[i] = r[i - Len(s)]
      OBVIOUS
    <2>4. DOMAIN s = 1..Len(s) /\ DOMAIN r = 1..Len(r) /\ DOMAIN (s \o r) = 1..Len(s \o r)
      OBVIOUS
    <2>5. Elements(s \o r) \subseteq Elements(s) \union Elements(r)
      BY <2>3, <2>4 DEF Elements
    <2>6. Elements(s) \subseteq Elements(s \o r)
      BY <2>2, <2>4 DEF Elements
    <2>7. Elements(r) \subseteq Elements(s \o r)
      <3> SUFFICES ASSUME NEW i \in 1..Len(r) PROVE r[i] \in Elements(s \o r)
        BY <2>4 DEF Elements
      <3>. QED
        BY <2>1, <2>4 DEF Elements
    <2>. QED
      BY <2>5, <2>6, <2>7
  <1>3. s # <<>> => Head(s) \in Elements(s) /\ Elements(Tail(s)) \subseteq Elements(s)
    <2> SUFFICES ASSUME s # <<>> PROVE Head(s) \in Elements(s) /\ Elements(Tail(s)) \subseteq Elements(s)
      OBVIOUS
    <2>1. Head(s) = s[1] /\ 1 \in DOMAIN s
      OBVIOUS
    <2>2. ASSUME NEW i \in DOMAIN Tail(s) PROVE i + 1 \in DOMAIN s /\ Tail(s)[i] = s[i + 1]
      OBVIOUS
    <2>. QED
      BY <2>1, <2>2 DEF Elements
  <1>4. ASSUME NEW x \in S PROVE Elements(Append(s, x)) = Elements(s) \union {x}
    <2>1. /\ DOMAIN Append(s, x) = 1..(Len(s) + 1) /\ DOMAIN s = 1..Len(s)
          /\ Append(s, x)[Len(s) + 1] = x /\ Len(s) \in Nat
      OBVIOUS
    <2>2. \A i \in 1..Len(s) : Append(s, x)[i] = s[i]
      OBVIOUS
    <2>3. \A i \in 1..(Len(s) + 1) : i \in 1..Len(s) \/ i = Len(s) + 1
      BY <2>1
    <2>4. \A i \in 1..Len(s) : i \in 1..(Len(s) + 1)
      BY <2>1
    <2>5. Len(s) + 1 \in 1..(Len(s) + 1)
      BY <2>1
    <2>. QED
      BY ONLY <2>1, <2>2, <2>3, <2>4, <2>5 DEF Elements
  <1>5. ASSUME NEW x \in S PROVE Elements(<<x>>) = {x}
    BY DEF Elements
  <1>. QED
    BY <1>1, <1>2, <1>3, <1>4, <1>5

(* How a step changes what the main loop runs. *)
RunningStep ==
    \/ running' = running /\ UNCHANGED rsn
    \/ running'.phase # "reflect" /\ (rsn' = rsn \/ Connect)
    \/ NewBatch
    \/ WriteReflect
    \/ AckRead

LEMMA RunningStepOk ==
    ASSUME TasksAssumption, BoundsAssumption, TypeOK, [Next]_vars
    PROVE  RunningStep
  <1> USE DEF managerVars, loopVars
  <1>a. running \in Runs /\ rsn \in Nat
    BY DEF TypeOK, LoopType
  <1>0. CASE UNCHANGED vars
    BY <1>0 DEF vars, RunningStep
  <1>1. ASSUME NEW t \in Tasks, ScheduleDisconnected(t) PROVE RunningStep
    BY <1>1 DEF ScheduleDisconnected, RunningStep
  <1>2. ASSUME NEW t \in Tasks, ScheduleConnected(t) PROVE RunningStep
    BY <1>2 DEF ScheduleConnected, RunningStep
  <1>3. CASE Connect
    BY <1>3 DEF Connect, RunningStep, ExitLoop, NoTask
  <1>4. CASE Disconnect
    BY <1>4 DEF Disconnect, RunningStep, ExitLoop, NoTask
  <1>5. CASE Abort
    BY <1>5 DEF Abort, RunningStep
  <1>6. CASE StartRun
    BY <1>6 DEF StartRun, RunningStep
  <1>7. CASE NextInbound
    BY <1>7 DEF NextInbound, RunningStep
  <1>8. CASE NextError
    BY <1>8 DEF NextError, RunningStep, ExitLoop, NoTask
  <1>9. CASE AssertNoTasksFails
    BY <1>9 DEF AssertNoTasksFails, RunningStep, ExitLoop, NoTask
  <1>10. CASE HandleInbound
    <2>1. CASE Inbound.kind = "csp"
      <3>1. running' = IncomingTask(Inbound.id) /\ rsn' = rsn + 1 /\ UNCHANGED <<up, stored>>
        BY <1>10, <2>1 DEF HandleInbound, serverVars
      <3>2. running' \in Runs
        BY <1>10, TypeStep DEF TypeOK, LoopType, Next, Loop
      <3>3. NewBatch
        BY <3>1, <3>2 DEF NewBatch, IncomingTask, Reflecting, EnvelopesOf
      <3>. QED
        BY <3>3 DEF RunningStep
    <2>2. CASE Inbound.kind = "reflected"
      BY <1>10, <2>2 DEF HandleInbound, RunningStep, Reflecting
    <2>3. CASE Inbound.kind \in {"ack", "dropAck"}
      BY <1>10, <2>3 DEF HandleInbound, RunningStep
    <2>. QED
      BY <1>10, <2>1, <2>2, <2>3 DEF HandleInbound
  <1>11. ASSUME NEW t \in Tasks, NextTask(t) PROVE RunningStep
    <2>1. CASE t \in External
      BY <1>11, <2>1 DEF NextTask, RunningStep, Reflecting
    <2>2. CASE t \notin External
      <3>1. /\ running' = Reflecting("active", t, rsn) /\ rsn' = rsn + Envelopes[t]
            /\ UNCHANGED <<up, stored>>
        BY <1>11, <2>2 DEF NextTask, serverVars
      <3>2. running' \in Runs
        BY <1>a, <3>1, RunShapes
      <3>3. NewBatch
        BY <3>1, <3>2 DEF NewBatch, Reflecting, EnvelopesOf
      <3>. QED
        BY <3>3 DEF RunningStep
    <2>. QED
      BY <2>1, <2>2
  <1>12. CASE ExternalDone
    <2>1. /\ running' = Reflecting("active", running.task, rsn)
          /\ rsn' = rsn + Envelopes[running.task] /\ UNCHANGED <<up, stored>>
      BY <1>12 DEF ExternalDone, serverVars
    <2>2. running' \in Runs
      BY <1>a, <1>12, <2>1, RunSteps, RunShapes DEF ExternalDone
    <2>3. NewBatch
      BY <2>1, <2>2 DEF NewBatch, Reflecting, EnvelopesOf
    <2>. QED
      BY <2>3 DEF RunningStep
  <1>13. CASE WriteReflect
    BY <1>13 DEF RunningStep
  <1>14. CASE ReadBypass
    BY <1>14 DEF ReadBypass, RunningStep
  <1>15. CASE ReadAccept
    <2>1. UNCHANGED <<rsn, stored>>
      BY <1>15 DEF ReadAccept, serverVars
    <2>2. CASE /\ running.phase = "reflect" /\ IsExpected(Head(Readable))
               /\ running' = [running EXCEPT !.acked = @ + 1]
      <3>1. Head(Readable) \in InFlight
        <4>1. codecBacklog \in Seq(Messages) /\ slot \in Seq(Messages)
          BY DEF TypeOK, QueueType
        <4>2. Readable \in Seq(Messages) /\ Readable # <<>>
          BY <1>15, <4>1, SeqFacts DEF ReadAccept, Readable
        <4>3. Elements(Readable) = Elements(codecBacklog) \union Elements(slot)
          BY <4>1, ElementsFacts DEF Readable
        <4>. QED
          BY <4>2, <4>3, ElementsFacts DEF InFlight
      <3>2. AckRead
        BY <2>1, <2>2, <3>1 DEF AckRead, IsExpected
      <3>. QED
        BY <3>2 DEF RunningStep
    <2>3. CASE running' = NoTask
      BY <2>1, <2>3 DEF RunningStep, NoTask
    <2>. QED
      BY <1>15, <2>2, <2>3 DEF ReadAccept
  <1>16. CASE ReadBacklog
    BY <1>16 DEF ReadBacklog, RunningStep
  <1>17. CASE ReadMismatch
    BY <1>17 DEF ReadMismatch, RunningStep, ExitLoop, NoTask
  <1>18. CASE CodecError
    BY <1>18 DEF CodecError, RunningStep, ExitLoop, NoTask
  <1>19. CASE ReflectReturns
    <2>1. UNCHANGED rsn
      BY <1>19 DEF ReflectReturns
    <2>2. CASE TaskReturns
      BY <2>1, <2>2 DEF TaskReturns, ExitLoop, NoTask, RunningStep
    <2>3. CASE running.kind = "incoming" /\ running' = [running EXCEPT !.phase = "ack"]
      BY <1>a, <2>1, <2>3 DEF RunningStep, Runs, RunOf, NoTask
    <2>. QED
      BY <1>19, <2>2, <2>3 DEF ReflectReturns
  <1>20. CASE ProcessReflected
    BY <1>a, <1>20 DEF ProcessReflected, RunningStep, Runs, RunOf, NoTask
  <1>21. CASE AcknowledgeInbound
    BY <1>21 DEF AcknowledgeInbound, TaskReturns, ExitLoop, NoTask, RunningStep
  <1>22. CASE DetectUnrecoverable
    BY <1>22 DEF DetectUnrecoverable, RunningStep, ExitLoop, NoTask
  <1>23. CASE WriteDrop
    BY <1>a, <1>23 DEF WriteDrop, RunningStep, Runs, RunOf, NoTask
  <1>24. CASE DropError
    BY <1>24 DEF DropError, RunningStep, ExitLoop, NoTask
  <1>25. ASSUME NEW m \in InboundMsg, BypassDone(m) PROVE RunningStep
    BY <1>25 DEF BypassDone, RunningStep
  <1>26. CASE Deliver
    BY <1>26 DEF Deliver, RunningStep
  <1>27. CASE ServerReceive
    BY <1>27 DEF ServerReceive, RunningStep
  <1>28. ASSUME NEW m \in InboundMsg, ServerSend(m) PROVE RunningStep
    BY <1>28 DEF ServerSend, RunningStep
  <1>29. CASE TaskThrows
    BY <1>29 DEF TaskThrows, RunningStep, ExitLoop, NoTask
  <1>. QED
    BY <1>0, <1>1, <1>2, <1>3, <1>4, <1>5, <1>6, <1>7, <1>8, <1>9, <1>10, <1>11,
       <1>12, <1>13, <1>14, <1>15, <1>16, <1>17, <1>18, <1>19, <1>20, <1>21, <1>22,
       <1>23, <1>24, <1>25, <1>26, <1>27, <1>28, <1>29
       DEF Next, Schedule, Loop, Codec, Network

(* Frames that come onto the connection. *)
FramesStep ==
    \A f \in Elements(up') :
        \/ f \in Elements(up)
        \/ f.kind \in {"reflectedAck", "drop"}
        \/ /\ WriteReflect
           /\ f = Frame("reflect", running.first + running.written,
                        Envelope(running, running.written + 1))
        \/ /\ running.kind = "incoming" /\ running.phase = "ack"
           /\ f = Frame("cspAck", running.task, NoEnvelope)

LEMMA FramesStepOk ==
    ASSUME TasksAssumption, BoundsAssumption, TypeOK, [Next]_vars
    PROVE  FramesStep
  <1> USE DEF serverVars
  <1>a. /\ up \in Seq(Frames) /\ running \in Runs /\ rsn \in Nat
        /\ up' \in Seq(Frames)
    BY TypeStep DEF TypeOK, ServerType, LoopType
  <1>b. Elements(<<>>) = {}
    BY DEF Elements
  <1>0. CASE UNCHANGED vars
    BY <1>0 DEF vars, FramesStep
  <1>1. ASSUME NEW t \in Tasks, ScheduleDisconnected(t) PROVE FramesStep
    BY <1>1 DEF ScheduleDisconnected, FramesStep
  <1>2. ASSUME NEW t \in Tasks, ScheduleConnected(t) PROVE FramesStep
    BY <1>2 DEF ScheduleConnected, FramesStep
  <1>3. CASE Connect
    BY <1>b, <1>3 DEF Connect, FramesStep
  <1>4. CASE Disconnect
    BY <1>b, <1>4 DEF Disconnect, FramesStep
  <1>5. CASE Abort
    BY <1>b, <1>5 DEF Abort, FramesStep
  <1>6. CASE StartRun
    BY <1>6 DEF StartRun, FramesStep
  <1>7. CASE NextInbound
    BY <1>7 DEF NextInbound, FramesStep
  <1>8. CASE NextError
    BY <1>8 DEF NextError, FramesStep
  <1>9. CASE AssertNoTasksFails
    BY <1>9 DEF AssertNoTasksFails, FramesStep
  <1>10. CASE HandleInbound
    BY <1>10 DEF HandleInbound, FramesStep
  <1>11. ASSUME NEW t \in Tasks, NextTask(t) PROVE FramesStep
    BY <1>11 DEF NextTask, FramesStep
  <1>12. CASE ExternalDone
    BY <1>12 DEF ExternalDone, FramesStep
  <1>13. CASE WriteReflect
    <2> DEFINE f == Frame("reflect", running.first + running.written,
                         Envelope(running, running.written + 1))
    <2>1. up' = Append(up, f)
      BY <1>13 DEF WriteReflect
    <2>2. f \in Frames
      <3>1. running.phase = "reflect" /\ running.first \in Nat /\ running.written \in Nat
        BY <1>a, <1>13, RunSteps DEF WriteReflect
      <3>2. running.written + 1 \in Nat /\ running.first + running.written \in Nat
        BY <3>1
      <3>3. Envelope(running, running.written + 1) \in EnvelopeIds
        BY <1>a, <3>1, <3>2, EnvelopeShapes
      <3>. QED
        BY <3>2, <3>3, FrameShapes
    <2>3. Elements(up') = Elements(up) \union {f}
      BY <1>a, <2>1, <2>2, ElementsFacts
    <2>. QED
      BY <1>13, <2>3 DEF FramesStep, WriteReflect
  <1>14. CASE ReadBypass
    BY <1>14 DEF ReadBypass, FramesStep
  <1>15. CASE ReadAccept
    BY <1>15 DEF ReadAccept, FramesStep
  <1>16. CASE ReadBacklog
    BY <1>16 DEF ReadBacklog, FramesStep
  <1>17. CASE ReadMismatch
    BY <1>17 DEF ReadMismatch, FramesStep
  <1>18. CASE CodecError
    BY <1>18 DEF CodecError, FramesStep
  <1>19. CASE ReflectReturns
    BY <1>19 DEF ReflectReturns, FramesStep
  <1>20. CASE ProcessReflected
    BY <1>20 DEF ProcessReflected, FramesStep
  <1>21. CASE AcknowledgeInbound
    <2> DEFINE f == Frame(IF running.kind = "incoming" THEN "cspAck" ELSE "reflectedAck",
                         running.task, NoEnvelope)
    <2>1. up' = Append(up, f)
      BY <1>21 DEF AcknowledgeInbound
    <2>2. f \in Frames
      <3>1. running.task \in Nat
        BY <1>a, <1>21 DEF AcknowledgeInbound, Runs, RunOf, NoTask
      <3>. QED
        BY <3>1, FrameShapes
    <2>3. Elements(up') = Elements(up) \union {f}
      BY <1>a, <2>1, <2>2, ElementsFacts
    <2>. QED
      BY <1>21, <2>3 DEF FramesStep, AcknowledgeInbound, Frame
  <1>22. CASE DetectUnrecoverable
    <2> DEFINE f == Frame("reflectedAck", running.task, NoEnvelope)
    <2>1. up' = Append(up, f)
      BY <1>22 DEF DetectUnrecoverable
    <2>2. f \in Frames
      <3>1. running.task \in Nat
        BY <1>22 DEF DetectUnrecoverable, BoundsAssumption
      <3>. QED
        BY <3>1, FrameShapes
    <2>3. Elements(up') = Elements(up) \union {f}
      BY <1>a, <2>1, <2>2, ElementsFacts
    <2>. QED
      BY <1>22, <2>3 DEF FramesStep, Frame
  <1>23. CASE WriteDrop
    <2> DEFINE f == Frame("drop", 0, NoEnvelope)
    <2>1. up' = Append(up, f)
      BY <1>23 DEF WriteDrop
    <2>2. f \in Frames
      BY FrameShapes
    <2>3. Elements(up') = Elements(up) \union {f}
      BY <1>a, <2>1, <2>2, ElementsFacts
    <2>. QED
      BY <1>23, <2>3 DEF FramesStep, Frame
  <1>24. CASE DropError
    BY <1>24 DEF DropError, FramesStep
  <1>25. ASSUME NEW m \in InboundMsg, BypassDone(m) PROVE FramesStep
    <2>1. CASE netError
      BY <1>25, <2>1 DEF BypassDone, FramesStep
    <2>2. CASE ~netError
      <3> DEFINE f == Frame("reflectedAck", m.id, NoEnvelope)
      <3>1. up' = Append(up, f)
        BY <1>25, <2>2 DEF BypassDone
      <3>2. f \in Frames
        <4>1. m.id \in Nat
          BY DEF BoundsAssumption, InboundMsg, Csp, Reflected
        <4>. QED
          BY <4>1, FrameShapes
      <3>3. Elements(up') = Elements(up) \union {f}
        BY <1>a, <3>1, <3>2, ElementsFacts
      <3>. QED
        BY <3>3 DEF FramesStep, Frame
    <2>. QED
      BY <2>1, <2>2
  <1>26. CASE Deliver
    BY <1>26 DEF Deliver, FramesStep
  <1>27. CASE ServerReceive
    <2>1. Elements(up') \subseteq Elements(up)
      BY <1>a, <1>27, ElementsFacts DEF ServerReceive
    <2>. QED
      BY <2>1 DEF FramesStep
  <1>28. ASSUME NEW m \in InboundMsg, ServerSend(m) PROVE FramesStep
    BY <1>28 DEF ServerSend, FramesStep
  <1>29. CASE TaskThrows
    BY <1>29 DEF TaskThrows, FramesStep
  <1>. QED
    BY <1>0, <1>1, <1>2, <1>3, <1>4, <1>5, <1>6, <1>7, <1>8, <1>9, <1>10, <1>11,
       <1>12, <1>13, <1>14, <1>15, <1>16, <1>17, <1>18, <1>19, <1>20, <1>21, <1>22,
       <1>23, <1>24, <1>25, <1>26, <1>27, <1>28, <1>29
       DEF Next, Schedule, Loop, Codec, Network

(* Acknowledgements that come onto the connection: the mediator sends one *)
(* for the frame it receives.                                             *)
AcksStep ==
    \A n \in Nat : Ack(n) \in InFlight' =>
        \/ Ack(n) \in InFlight
        \/ ServerReceive /\ Head(up).kind = "reflect" /\ n = Head(up).id

LEMMA AckIsNotInbound ==
    \A n \in Nat : Ack(n) \notin InboundMsg /\ Ack(n) # DropAck
  BY DEF Ack, InboundMsg, Csp, Reflected, DropAck

(* Reading and moving backlogs brings nothing new. *)
LEMMA ReadKeeps ==
    ASSUME TypeOK, Readable # <<>>, ConsumeRead,
           backlog' = backlog \/ backlog' = Append(backlog, Head(Readable)), down' = down
    PROVE  InFlight' \subseteq InFlight
  <1>1. /\ codecBacklog \in Seq(Messages) /\ slot \in Seq(Messages)
        /\ backlog \in Seq(Messages)
    BY DEF TypeOK, QueueType
  <1>2. Readable \in Seq(Messages)
    BY <1>1, SeqFacts DEF Readable
  <1>3. Elements(Readable) = Elements(codecBacklog) \union Elements(slot)
    BY <1>1, ElementsFacts DEF Readable
  <1>4. Head(Readable) \in Elements(codecBacklog) \union Elements(slot)
    BY <1>2, <1>3, ElementsFacts
  <1>5. Head(Readable) \in Messages
    BY <1>2, SeqFacts
  <1>6. Elements(backlog') \subseteq Elements(backlog) \union {Head(Readable)}
    <2>1. Elements(Append(backlog, Head(Readable))) = Elements(backlog) \union {Head(Readable)}
      BY <1>1, <1>5, ElementsFacts
    <2>. QED
      BY <2>1
  <1>7. /\ Elements(codecBacklog') \subseteq Elements(codecBacklog)
        /\ Elements(slot') \subseteq Elements(slot)
    <2>1. CASE codecBacklog = <<>>
      <3>1. slot' = <<>> /\ codecBacklog' = codecBacklog
        BY <2>1 DEF ConsumeRead
      <3>. QED
        BY <1>1, <3>1, ElementsFacts
    <2>2. CASE codecBacklog # <<>>
      <3>1. slot' = slot /\ codecBacklog' = Tail(codecBacklog)
        BY <2>2 DEF ConsumeRead
      <3>. QED
        BY <1>1, <2>2, <3>1, ElementsFacts
    <2>. QED
      BY <2>1, <2>2
  <1>. QED
    BY <1>4, <1>6, <1>7 DEF InFlight

LEMMA AcksStepOk ==
    ASSUME TasksAssumption, BoundsAssumption, TypeOK, [Next]_vars
    PROVE  AcksStep
  <1> USE DEF queueVars, serverVars
  <1>a. /\ codecBacklog \in Seq(Messages) /\ backlog \in Seq(Messages)
        /\ slot \in Seq(Messages) /\ down \in Seq(Messages) /\ up \in Seq(Frames)
    BY DEF TypeOK, QueueType, ServerType
  <1>b. Elements(<<>>) = {}
    BY DEF Elements
  <1>0. CASE UNCHANGED vars
    BY <1>0 DEF vars, AcksStep, InFlight
  <1>1. ASSUME NEW t \in Tasks, ScheduleDisconnected(t) PROVE AcksStep
    BY <1>1 DEF ScheduleDisconnected, AcksStep, InFlight
  <1>2. ASSUME NEW t \in Tasks, ScheduleConnected(t) PROVE AcksStep
    BY <1>2 DEF ScheduleConnected, AcksStep, InFlight
  <1>3. CASE Connect
    BY <1>b, <1>3 DEF Connect, ExitLoop, AcksStep, InFlight
  <1>4. CASE Disconnect
    BY <1>b, <1>4 DEF Disconnect, ExitLoop, AcksStep, InFlight
  <1>5. CASE Abort
    BY <1>b, <1>5 DEF Abort, ExitLoop, AcksStep, InFlight
  <1>6. CASE StartRun
    BY <1>6 DEF StartRun, AcksStep, InFlight
  <1>7. CASE NextInbound
    BY <1>7 DEF NextInbound, AcksStep, InFlight
  <1>8. CASE NextError
    BY <1>b, <1>8 DEF NextError, ExitLoop, AcksStep, InFlight
  <1>9. CASE AssertNoTasksFails
    BY <1>b, <1>9 DEF AssertNoTasksFails, ExitLoop, AcksStep, InFlight
  <1>10. CASE HandleInbound
    <2> DEFINE rest == IF backlog # <<>> THEN Tail(backlog) ELSE <<>>
    <2>1. Elements(rest) \subseteq Elements(backlog)
      BY <1>a, <1>b, ElementsFacts
    <2>2. slot' = slot \/ slot' = <<>>
      BY <1>10 DEF HandleInbound
    <2>3. \/ codecBacklog' = rest /\ backlog' = <<>>
          \/ codecBacklog' = codecBacklog /\ backlog' = rest
      BY <1>10 DEF HandleInbound
    <2>4. down' = down
      BY <1>10 DEF HandleInbound
    <2> HIDE DEF rest
    <2>. QED
      BY <1>b, <2>1, <2>2, <2>3, <2>4 DEF AcksStep, InFlight
  <1>11. ASSUME NEW t \in Tasks, NextTask(t) PROVE AcksStep
    BY <1>b, <1>11 DEF NextTask, ExitLoop, AcksStep, InFlight
  <1>12. CASE ExternalDone
    BY <1>12 DEF ExternalDone, AcksStep, InFlight
  <1>13. CASE WriteReflect
    BY <1>13 DEF WriteReflect, AcksStep, InFlight
  <1>14. CASE ReadBypass
    <2>1. /\ Readable # <<>> /\ ConsumeRead /\ down' = down
          /\ backlog' = backlog
      BY <1>14 DEF ReadBypass, BacklogLast
    <2>. QED
      BY <2>1, ReadKeeps DEF AcksStep
  <1>15. CASE ReadAccept
    <2>1. /\ Readable # <<>> /\ ConsumeRead /\ down' = down
          /\ backlog' = backlog
      BY <1>15 DEF ReadAccept, BacklogLast
    <2>. QED
      BY <2>1, ReadKeeps DEF AcksStep
  <1>16. CASE ReadBacklog
    <2>1. /\ Readable # <<>> /\ ConsumeRead /\ down' = down
          /\ backlog' = backlog \/ backlog' = Append(backlog, Head(Readable))
      BY <1>16 DEF ReadBacklog, BacklogLast
    <2>. QED
      BY <2>1, ReadKeeps DEF AcksStep
  <1>17. CASE ReadMismatch
    <2>1. slot' = slot \/ slot' = <<>>
      BY <1>17 DEF ReadMismatch
    <2>2. codecBacklog' = <<>> /\ backlog' = backlog /\ down' = down
      BY <1>17 DEF ReadMismatch, ExitLoop
    <2>. QED
      BY <1>b, <2>1, <2>2 DEF AcksStep, InFlight
  <1>18. CASE CodecError
    BY <1>b, <1>18 DEF CodecError, ExitLoop, AcksStep, InFlight
  <1>19. CASE ReflectReturns
    <2>1. slot' = slot /\ down' = down
      BY <1>19 DEF ReflectReturns
    <2>2. CASE TaskReturns
      <3>1. Elements(Transferred) = Elements(codecBacklog) \union Elements(backlog)
        BY <1>a, ElementsFacts DEF Transferred
      <3>. QED
        BY <1>b, <2>1, <2>2, <3>1 DEF TaskReturns, ExitLoop, AcksStep, InFlight
    <2>3. CASE UNCHANGED <<codecBacklog, backlog>>
      BY <2>1, <2>3 DEF AcksStep, InFlight
    <2>. QED
      BY <1>19, <2>2, <2>3 DEF ReflectReturns
  <1>20. CASE ProcessReflected
    BY <1>20 DEF ProcessReflected, AcksStep, InFlight
  <1>21. CASE AcknowledgeInbound
    <2>1. slot' = slot /\ down' = down
      BY <1>21 DEF AcknowledgeInbound
    <2>2. CASE TaskReturns
      <3>1. Elements(Transferred) = Elements(codecBacklog) \union Elements(backlog)
        BY <1>a, ElementsFacts DEF Transferred
      <3>. QED
        BY <1>b, <2>1, <2>2, <3>1 DEF TaskReturns, ExitLoop, AcksStep, InFlight
    <2>. QED
      BY <1>21, <2>2 DEF AcknowledgeInbound
  <1>22. CASE DetectUnrecoverable
    BY <1>b, <1>22 DEF DetectUnrecoverable, ExitLoop, AcksStep, InFlight
  <1>23. CASE WriteDrop
    BY <1>23 DEF WriteDrop, AcksStep, InFlight
  <1>24. CASE DropError
    BY <1>b, <1>24 DEF DropError, ExitLoop, AcksStep, InFlight
  <1>25. ASSUME NEW m \in InboundMsg, BypassDone(m) PROVE AcksStep
    BY <1>25 DEF BypassDone, AcksStep, InFlight
  <1>26. CASE Deliver
    <2>1. down # <<>> /\ slot' = <<Head(down)>> /\ down' = Tail(down)
          /\ UNCHANGED <<codecBacklog, backlog>>
      BY <1>26 DEF Deliver
    <2>2. Head(down) \in Messages
      BY <1>a, <2>1, SeqFacts
    <2>3. Elements(slot') = {Head(down)}
      BY <1>a, <2>1, <2>2, ElementsFacts
    <2>4. Head(down) \in Elements(down) /\ Elements(down') \subseteq Elements(down)
      BY <1>a, <2>1, ElementsFacts
    <2>. QED
      BY <2>1, <2>3, <2>4 DEF AcksStep, InFlight
  <1>27. CASE ServerReceive
    <2> DEFINE f == Head(up)
    <2>1. f \in Frames /\ f.id \in Nat
      BY <1>a, <1>27, SeqFacts, FrameShapes DEF ServerReceive
    <2>2. UNCHANGED <<codecBacklog, backlog, slot>>
      BY <1>27 DEF ServerReceive
    <2>3. Ack(f.id) \in Messages /\ DropAck \in Messages
      BY <2>1, MessageShapes
    <2>4. CASE f.kind = "reflect"
      <3>1. Append(down, Ack(f.id)) \in Seq(Messages)
        BY <1>a, <2>3, SeqFacts
      <3>2. \/ down' = Append(down, Ack(f.id))
            \/ down' = down \o <<Ack(f.id), Ack(f.id)>>
        BY <1>27, <2>4 DEF ServerReceive
      <3>3. Elements(down') = Elements(down) \union {Ack(f.id)}
        <4> DEFINE two == <<Ack(f.id), Ack(f.id)>>
        <4>1. two \in Seq(Messages) /\ Elements(two) = {Ack(f.id)}
          BY <2>3 DEF Elements
        <4> HIDE DEF two
        <4>2. Elements(down \o two) = Elements(down) \union {Ack(f.id)}
          BY ONLY <1>a, <4>1, ElementsFacts
        <4>3. Elements(Append(down, Ack(f.id))) = Elements(down) \union {Ack(f.id)}
          BY <1>a, <2>3, ElementsFacts
        <4>. QED
          BY <3>2, <4>2, <4>3 DEF two
      <3>4. \A n \in Nat : Ack(n) = Ack(f.id) => n = f.id
        BY DEF Ack
      <3>. QED
        BY <1>27, <2>2, <2>4, <3>3, <3>4 DEF AcksStep, InFlight
    <2>5. CASE f.kind = "drop"
      <3>1. down' = Append(down, DropAck)
        BY <1>27, <2>5 DEF ServerReceive
      <3>2. Elements(down') = Elements(down) \union {DropAck}
        BY <1>a, <2>3, <3>1, ElementsFacts
      <3>. QED
        BY <2>2, <3>2, AckIsNotInbound DEF AcksStep, InFlight
    <2>6. CASE f.kind \in {"cspAck", "reflectedAck"}
      BY <1>27, <2>2, <2>6 DEF ServerReceive, AcksStep, InFlight
    <2>. QED
      BY <1>27, <2>4, <2>5, <2>6 DEF ServerReceive
  <1>28. ASSUME NEW m \in InboundMsg, ServerSend(m) PROVE AcksStep
    <2>1. down' = Append(down, m) /\ UNCHANGED <<codecBacklog, backlog, slot>> /\ m \in Messages
      BY <1>28, MessageShapes DEF ServerSend
    <2>2. Elements(down') = Elements(down) \union {m}
      BY <1>a, <2>1, ElementsFacts
    <2>. QED
      BY <2>1, <2>2, AckIsNotInbound DEF AcksStep, InFlight
  <1>29. CASE TaskThrows
    BY <1>b, <1>29 DEF TaskThrows, ExitLoop, AcksStep, InFlight
  <1>. QED
    BY <1>0, <1>1, <1>2, <1>3, <1>4, <1>5, <1>6, <1>7, <1>8, <1>9, <1>10, <1>11,
       <1>12, <1>13, <1>14, <1>15, <1>16, <1>17, <1>18, <1>19, <1>20, <1>21, <1>22,
       <1>23, <1>24, <1>25, <1>26, <1>27, <1>28, <1>29
       DEF Next, Schedule, Loop, Codec, Network

(* What the mediator stores, what the servers forget, which promises are *)
(* resolved and when a chat message is about to be acknowledged.         *)
BatchDone == running.phase = "reflect" /\ BatchComplete

OutcomeStep ==
    /\ stored \subseteq stored'
    /\ \A m \in Csp : m \in unacked /\ m \notin unacked' =>
           ServerReceive /\ Head(up).kind = "cspAck" /\ m.id = Head(up).id
    /\ \A t \in Tasks : done'[t] = "resolved" =>
           done[t] = "resolved" \/ (BatchDone /\ running.kind = "active" /\ running.task = t)
    /\ running'.kind = "incoming" /\ running'.phase = "ack" =>
           /\ running.kind = "incoming" /\ running'.task = running.task
           /\ running.phase = "ack" \/ BatchDone

(* A step that stores, forgets and resolves nothing and only lets a run of *)
(* another kind go on has no such outcome.                                 *)
LEMMA NoOutcome ==
    ASSUME UNCHANGED <<stored, unacked>>,
           \A t \in Tasks : done'[t] = "resolved" => done[t] = "resolved",
           running' = running \/ running'.kind # "incoming" \/ running'.phase # "ack"
    PROVE  OutcomeStep
  BY DEF OutcomeStep

LEMMA OutcomeStepOk ==
    ASSUME TasksAssumption, BoundsAssumption, TypeOK, [Next]_vars
    PROVE  OutcomeStep
  <1> USE DEF managerVars, loopVars, serverVars
  <1>a. running \in Runs /\ done \in [Tasks -> {"new", "pending", "resolved", "aborted", "thrown"}]
    BY DEF TypeOK, LoopType, ManagerType
  <1>0. CASE UNCHANGED vars
    BY <1>0, NoOutcome DEF vars
  <1>1. ASSUME NEW t \in Tasks, ScheduleDisconnected(t) PROVE OutcomeStep
    BY <1>a, <1>1, NoOutcome DEF ScheduleDisconnected, Enqueue
  <1>2. ASSUME NEW t \in Tasks, ScheduleConnected(t) PROVE OutcomeStep
    BY <1>a, <1>2, NoOutcome DEF ScheduleConnected, Enqueue
  <1>3. CASE Connect
    BY <1>3, NoOutcome DEF Connect, NoTask
  <1>4. CASE Disconnect
    BY <1>4, NoOutcome DEF Disconnect, NoTask
  <1>5. CASE Abort
    BY <1>5, NoOutcome DEF Abort
  <1>6. CASE StartRun
    BY <1>6, NoOutcome DEF StartRun
  <1>7. CASE NextInbound
    BY <1>7, NoOutcome DEF NextInbound
  <1>8. CASE NextError
    BY <1>8, NoOutcome DEF NextError, ExitLoop, NoTask
  <1>9. CASE AssertNoTasksFails
    BY <1>9, NoOutcome DEF AssertNoTasksFails, ExitLoop, NoTask
  <1>10. CASE HandleInbound
    BY <1>10, NoOutcome DEF HandleInbound, Reflecting, IncomingTask
  <1>11. ASSUME NEW t \in Tasks, NextTask(t) PROVE OutcomeStep
    BY <1>11, NoOutcome DEF NextTask, Reflecting, IncomingTask
  <1>12. CASE ExternalDone
    BY <1>12, NoOutcome DEF ExternalDone, Reflecting, IncomingTask
  <1>13. CASE WriteReflect
    BY <1>a, <1>13, NoOutcome DEF WriteReflect, Runs, RunOf, NoTask
  <1>14. CASE ReadBypass
    BY <1>14, NoOutcome DEF ReadBypass
  <1>15. CASE ReadAccept
    <2>1. running' = NoTask \/ (running.phase = "reflect" /\ running' = [running EXCEPT !.acked = @ + 1])
      BY <1>15 DEF ReadAccept
    <2>2. running'.kind # "incoming" \/ running'.phase # "ack"
      BY <1>a, <2>1 DEF Runs, RunOf, NoTask
    <2>. QED
      BY <1>15, <2>2, NoOutcome DEF ReadAccept
  <1>16. CASE ReadBacklog
    BY <1>16, NoOutcome DEF ReadBacklog
  <1>17. CASE ReadMismatch
    BY <1>17, NoOutcome DEF ReadMismatch, ExitLoop, NoTask
  <1>18. CASE CodecError
    BY <1>18, NoOutcome DEF CodecError, ExitLoop, NoTask
  <1>19. CASE ReflectReturns
    <2>1. BatchDone /\ UNCHANGED <<stored, unacked>>
      BY <1>19 DEF ReflectReturns, BatchDone
    <2>2. CASE running.kind = "active" /\ TaskReturns
      <3>1. running' = NoTask
        BY <2>2 DEF TaskReturns, ExitLoop
      <3>2. done' = done \/ done' = [done EXCEPT ![running.task] = "resolved"]
        BY <2>2 DEF TaskReturns
      <3>3. \A t \in Tasks : done'[t] = "resolved" => done[t] = "resolved" \/ running.task = t
        BY <1>a, <3>2
      <3>. QED
        BY <2>1, <2>2, <3>1, <3>3 DEF OutcomeStep, NoTask
    <2>3. CASE /\ running.kind = "incoming" /\ running' = [running EXCEPT !.phase = "ack"]
               /\ UNCHANGED done
      <3>1. running'.task = running.task
        BY <1>a, <2>3 DEF Runs, RunOf, NoTask
      <3>. QED
        BY <2>1, <2>3, <3>1 DEF OutcomeStep
    <2>. QED
      BY <1>19, <2>2, <2>3 DEF ReflectReturns
  <1>20. CASE ProcessReflected
    BY <1>a, <1>20, NoOutcome DEF ProcessReflected, Runs, RunOf, NoTask
  <1>21. CASE AcknowledgeInbound
    <2>1. running.kind # "active"
      BY <1>a, <1>21 DEF AcknowledgeInbound, Runs, RunOf, NoTask
    <2>2. running' = NoTask /\ done' = done
      BY <1>21, <2>1 DEF AcknowledgeInbound, TaskReturns, ExitLoop
    <2>. QED
      BY <1>21, <2>2, NoOutcome DEF AcknowledgeInbound, NoTask
  <1>22. CASE DetectUnrecoverable
    BY <1>22, NoOutcome DEF DetectUnrecoverable, NoTask
  <1>23. CASE WriteDrop
    BY <1>a, <1>23, NoOutcome DEF WriteDrop, Runs, RunOf, NoTask
  <1>24. CASE DropError
    BY <1>24, NoOutcome DEF DropError, NoTask
  <1>25. ASSUME NEW m \in InboundMsg, BypassDone(m) PROVE OutcomeStep
    BY <1>25, NoOutcome DEF BypassDone
  <1>26. CASE Deliver
    BY <1>26, NoOutcome DEF Deliver
  <1>27. CASE ServerReceive
    <2>1. UNCHANGED <<running, done>> /\ stored \subseteq stored'
      BY <1>27 DEF ServerReceive
    <2>2. ASSUME NEW m \in Csp, m \in unacked, m \notin unacked'
          PROVE  Head(up).kind = "cspAck" /\ m.id = Head(up).id
      <3>1. /\ Head(up).kind \in {"cspAck", "reflectedAck"}
            /\ m = [kind |-> IF Head(up).kind = "cspAck" THEN "csp" ELSE "reflected",
                    id |-> Head(up).id]
        BY <1>27, <2>2 DEF ServerReceive
      <3>2. m.kind = "csp"
        BY DEF Csp
      <3>. QED
        BY <3>1, <3>2
    <2>. QED
      BY <1>27, <2>1, <2>2 DEF OutcomeStep
  <1>28. ASSUME NEW m \in InboundMsg, ServerSend(m) PROVE OutcomeStep
    BY <1>28, NoOutcome DEF ServerSend
  <1>29. CASE TaskThrows
    BY <1>29, NoOutcome DEF TaskThrows, ExitLoop, NoTask
  <1>. QED
    BY <1>0, <1>1, <1>2, <1>3, <1>4, <1>5, <1>6, <1>7, <1>8, <1>9, <1>10, <1>11,
       <1>12, <1>13, <1>14, <1>15, <1>16, <1>17, <1>18, <1>19, <1>20, <1>21, <1>22,
       <1>23, <1>24, <1>25, <1>26, <1>27, <1>28, <1>29
       DEF Next, Schedule, Loop, Codec, Network

-----------------------------------------------------------------------------
(* The invariant is preserved *)

(* Progress within a batch changes neither its ids nor its envelopes. *)
LEMMA SameBatch ==
    ASSUME NEW run \in Runs, run.phase = "reflect", NEW next,
           next = [run EXCEPT !.written = @ + 1] \/ next = [run EXCEPT !.acked = @ + 1]
    PROVE  /\ next.phase = "reflect" /\ next.first = run.first
           /\ next.kind = run.kind /\ next.task = run.task
           /\ EnvelopesOf(next) = EnvelopesOf(run)
           /\ \A k : Envelope(next, k) = Envelope(run, k)
  <1>1. /\ next.phase = "reflect" /\ next.first = run.first
        /\ next.kind = run.kind /\ next.task = run.task
    BY DEF Runs, RunOf, NoTask
  <1>. QED
    BY <1>1 DEF EnvelopesOf, Envelope

LEMMA ConnectIsFresh ==
    ASSUME Connect
    PROVE  Elements(up') = {} /\ InFlight' = {} /\ running'.phase # "reflect"
  <1>1. Elements(<<>>) = {}
    BY DEF Elements
  <1>. QED
    BY <1>1 DEF Connect, InFlight, NoTask

LEMMA WriteReflectFacts ==
    ASSUME TasksAssumption, BoundsAssumption, TypeOK, BatchInv, WriteReflect
    PROVE  /\ running.phase = "reflect" /\ running' = [running EXCEPT !.written = @ + 1]
           /\ rsn' = rsn /\ stored' = stored
           /\ running.first + running.written < rsn
           /\ running.written + 1 <= EnvelopesOf(running)
           /\ BatchEnvelope(running.first + running.written) = Envelope(running, running.written + 1)
  <1>1. /\ running.phase = "reflect" /\ running' = [running EXCEPT !.written = @ + 1]
        /\ rsn' = rsn /\ stored' = stored /\ running.written < EnvelopesOf(running)
    BY DEF WriteReflect
  <1>2. /\ running \in Runs /\ running.first \in Nat /\ running.written \in Nat
        /\ EnvelopesOf(running) \in Nat
    BY RunSteps, EnvelopeCount DEF TypeOK, LoopType
  <1>3. rsn = running.first + EnvelopesOf(running)
    BY <1>1 DEF BatchInv
  <1>4. (running.first + running.written) - running.first + 1 = running.written + 1
    BY <1>2
  <1>. QED
    BY <1>1, <1>2, <1>3, <1>4 DEF BatchEnvelope

LEMMA FramesInvStep ==
    ASSUME TasksAssumption, BoundsAssumption, IndInv, [Next]_vars
    PROVE  FramesInv'
  <1>1. RunningStep /\ FramesStep
    BY RunningStepOk, FramesStepOk DEF IndInv
  <1>2. TypeOK /\ TypeOK' /\ FramesInv /\ BatchInv
    BY TypeStep DEF IndInv
  <1>3. SUFFICES ASSUME NEW f \in Elements(up'), f.kind = "reflect"
                 PROVE  /\ f.id < rsn'
                        /\ running'.phase = "reflect" /\ f.id >= running'.first =>
                               f.of = BatchEnvelope(f.id)'
    BY DEF FramesInv
  <1>4. f.id \in Nat
    <2>1. up' \in Seq(Frames)
      BY <1>2 DEF TypeOK, ServerType
    <2>2. f \in Frames
      BY <2>1 DEF Elements
    <2>. QED
      BY <2>2, FrameShapes
  <1>5. running \in Runs /\ rsn \in Nat /\ rsn' \in Nat /\ running.first \in Nat
    BY <1>2, RunSteps DEF TypeOK, LoopType
  <1>6. CASE WriteReflect
    <2>1. /\ running.phase = "reflect" /\ running' = [running EXCEPT !.written = @ + 1]
          /\ rsn' = rsn
          /\ running.first + running.written < rsn
          /\ BatchEnvelope(running.first + running.written) = Envelope(running, running.written + 1)
      BY <1>2, <1>6, WriteReflectFacts
    <2>2. running'.first = running.first /\ BatchEnvelope(f.id)' = BatchEnvelope(f.id)
      BY <1>5, <2>1, SameBatch DEF BatchEnvelope
    <2>3. \/ f \in Elements(up)
          \/ f = Frame("reflect", running.first + running.written,
                       Envelope(running, running.written + 1))
      BY <1>1, <1>3, <2>1 DEF FramesStep, Frame
    <2>. QED
      BY <1>2, <1>3, <2>1, <2>2, <2>3 DEF FramesInv, Frame
  <1>7. CASE ~WriteReflect
    <2>1. f \in Elements(up)
      BY <1>1, <1>3, <1>7 DEF FramesStep, Frame
    <2>2. f.id < rsn /\ (running.phase = "reflect" /\ f.id >= running.first => f.of = BatchEnvelope(f.id))
      BY <1>2, <1>3, <2>1 DEF FramesInv
    <2>3. CASE running' = running /\ rsn' = rsn
      BY <2>2, <2>3 DEF BatchEnvelope
    <2>4. CASE running'.phase # "reflect" /\ (rsn' = rsn \/ Connect)
      BY <1>3, <2>2, <2>4, ConnectIsFresh
    <2>5. CASE NewBatch
      <3>1. running'.first = rsn /\ rsn' = rsn + EnvelopesOf(running') /\ EnvelopesOf(running') \in Nat
        BY <2>5, EnvelopeCount DEF NewBatch
      <3>. QED
        BY <1>4, <1>5, <2>2, <3>1
    <2>6. CASE AckRead
      <3>1. /\ running.phase = "reflect" /\ rsn' = rsn
            /\ running'.first = running.first /\ BatchEnvelope(f.id)' = BatchEnvelope(f.id)
        BY <1>5, <2>6, SameBatch DEF AckRead, BatchEnvelope
      <3>. QED
        BY <2>2, <3>1
    <2>. QED
      BY <1>1, <1>7, <2>3, <2>4, <2>5, <2>6 DEF RunningStep
  <1>. QED
    BY <1>6, <1>7

LEMMA AcksInvStep ==
    ASSUME TasksAssumption, BoundsAssumption, IndInv, [Next]_vars
    PROVE  AcksInv'
  <1>1. RunningStep /\ AcksStep /\ OutcomeStep
    BY RunningStepOk, AcksStepOk, OutcomeStepOk DEF IndInv
  <1>2. TypeOK /\ TypeOK' /\ FramesInv /\ AcksInv /\ BatchInv
    BY TypeStep DEF IndInv
  <1>3. SUFFICES ASSUME NEW n \in Nat, Ack(n) \in InFlight'
                 PROVE  /\ n < rsn'
                        /\ running'.phase = "reflect" /\ n >= running'.first =>
                               BatchEnvelope(n)' \in stored'
    BY DEF AcksInv
  <1>4. running \in Runs /\ rsn \in Nat /\ rsn' \in Nat /\ running.first \in Nat
    BY <1>2, RunSteps DEF TypeOK, LoopType
  <1>5. CASE Ack(n) \in InFlight
    <2>1. /\ n < rsn
          /\ running.phase = "reflect" /\ n >= running.first => BatchEnvelope(n) \in stored'
      BY <1>1, <1>2, <1>5 DEF AcksInv, OutcomeStep
    <2>2. CASE running' = running /\ rsn' = rsn
      BY <2>1, <2>2 DEF BatchEnvelope
    <2>3. CASE running'.phase # "reflect" /\ (rsn' = rsn \/ Connect)
      BY <1>3, <2>1, <2>3, ConnectIsFresh
    <2>4. CASE NewBatch
      <3>1. running'.first = rsn /\ rsn' = rsn + EnvelopesOf(running') /\ EnvelopesOf(running') \in Nat
        BY <2>4, EnvelopeCount DEF NewBatch
      <3>. QED
        BY <1>4, <2>1, <3>1
    <2>5. CASE WriteReflect
      <3>1. running.phase = "reflect" /\ running' = [running EXCEPT !.written = @ + 1] /\ rsn' = rsn
        BY <2>5, <1>2, WriteReflectFacts
      <3>2. running'.first = running.first /\ BatchEnvelope(n)' = BatchEnvelope(n)
        BY <1>4, <3>1, SameBatch DEF BatchEnvelope
      <3>. QED
        BY <2>1, <3>1, <3>2
    <2>6. CASE AckRead
      <3>1. /\ running.phase = "reflect" /\ rsn' = rsn
            /\ running'.first = running.first /\ BatchEnvelope(n)' = BatchEnvelope(n)
        BY <1>4, <2>6, SameBatch DEF AckRead, BatchEnvelope
      <3>. QED
        BY <2>1, <3>1
    <2>. QED
      BY <1>1, <2>2, <2>3, <2>4, <2>5, <2>6 DEF RunningStep
  <1>6. CASE ServerReceive /\ Head(up).kind = "reflect" /\ n = Head(up).id
    <2>1. up # <<>> /\ UNCHANGED <<running, rsn>> /\ stored' = stored \union {Head(up).of}
      BY <1>6 DEF ServerReceive, loopVars
    <2>2. Head(up) \in Elements(up)
      BY <1>2, <2>1, ElementsFacts DEF TypeOK, ServerType
    <2>3. /\ n < rsn
          /\ running.phase = "reflect" /\ n >= running.first => Head(up).of = BatchEnvelope(n)
      BY <1>2, <1>6, <2>2 DEF FramesInv
    <2>. QED
      BY <2>1, <2>3 DEF BatchEnvelope
  <1>. QED
    BY <1>1, <1>3, <1>5, <1>6 DEF AcksStep

LEMMA BatchInvStep ==
    ASSUME TasksAssumption, BoundsAssumption, IndInv, [Next]_vars
    PROVE  BatchInv'
  <1>1. RunningStep /\ OutcomeStep
    BY RunningStepOk, OutcomeStepOk DEF IndInv
  <1>2. TypeOK /\ TypeOK' /\ AcksInv /\ BatchInv
    BY TypeStep DEF IndInv
  <1>3. /\ running \in Runs /\ rsn \in Nat /\ running.first \in Nat
        /\ running.written \in Nat /\ running.acked \in Nat
    BY <1>2, RunSteps DEF TypeOK, LoopType
  <1>4. CASE running' = running /\ rsn' = rsn
    BY <1>1, <1>2, <1>4 DEF BatchInv, OutcomeStep
  <1>5. CASE running'.phase # "reflect"
    BY <1>5 DEF BatchInv
  <1>6. CASE NewBatch
    <2>1. EnvelopesOf(running') \in Nat /\ running'.acked = 0 /\ running'.written = 0
      BY <1>6, EnvelopeCount DEF NewBatch
    <2>2. 1..running'.acked = {}
      BY <2>1
    <2>. QED
      BY <1>6, <2>1, <2>2 DEF NewBatch, BatchInv
  <1>7. CASE WriteReflect
    <2>1. /\ running.phase = "reflect" /\ running' = [running EXCEPT !.written = @ + 1]
          /\ rsn' = rsn /\ stored' = stored /\ running.written + 1 <= EnvelopesOf(running)
      BY <1>2, <1>7, WriteReflectFacts
    <2>2. running'.written = running.written + 1 /\ running'.acked = running.acked
      BY <1>3, <2>1 DEF Runs, RunOf, NoTask
    <2>. QED
      BY <1>2, <1>3, <2>1, <2>2, SameBatch DEF BatchInv
  <1>8. CASE AckRead
    <2>1. /\ running.phase = "reflect" /\ running' = [running EXCEPT !.acked = @ + 1]
          /\ rsn' = rsn /\ stored' = stored
          /\ Ack(running.first + running.acked) \in InFlight
      BY <1>8 DEF AckRead
    <2>2. running'.acked = running.acked + 1 /\ running'.written = running.written
      BY <1>3, <2>1 DEF Runs, RunOf, NoTask
    <2>3. Envelope(running, running.acked + 1) \in stored
      <3>1. running.first + running.acked \in Nat /\ running.first + running.acked >= running.first
        BY <1>3
      <3>2. (running.first + running.acked) - running.first + 1 = running.acked + 1
        BY <1>3
      <3>. QED
        BY <1>2, <2>1, <3>1, <3>2 DEF AcksInv, BatchEnvelope
    <2>4. \A k \in 1..(running.acked + 1) : k \in 1..running.acked \/ k = running.acked + 1
      BY <1>3
    <2>5. \A k \in 1..running'.acked : Envelope(running, k) \in stored
      BY <1>2, <2>1, <2>2, <2>3, <2>4 DEF BatchInv
    <2>. QED
      BY <1>2, <1>3, <2>1, <2>2, <2>5, SameBatch DEF BatchInv
  <1>. QED
    BY <1>1, <1>4, <1>5, <1>6, <1>7, <1>8 DEF RunningStep

(* A complete batch is stored, whatever it stands for. *)
LEMMA DoneIsStored ==
    ASSUME TasksAssumption, BoundsAssumption, TypeOK, BatchInv, BatchDone
    PROVE  /\ running.kind = "active" =>
                  \A k \in 1..Envelopes[running.task] : <<running.task, k>> \in stored
           /\ running.kind = "incoming" => <<"csp", running.task>> \in stored
  <1>1. /\ running.phase = "reflect" /\ running.acked = EnvelopesOf(running)
        /\ \A k \in 1..EnvelopesOf(running) : Envelope(running, k) \in stored
    BY DEF BatchDone, BatchComplete, BatchInv
  <1>2. running.kind = "incoming" => EnvelopesOf(running) = 1 /\ 1 \in 1..1
    BY DEF EnvelopesOf
  <1>. QED
    BY <1>1, <1>2 DEF EnvelopesOf, Envelope

LEMMA CspInvStep ==
    ASSUME TasksAssumption, BoundsAssumption, IndInv, [Next]_vars
    PROVE  CspInv'
  <1>1. FramesStep /\ OutcomeStep
    BY FramesStepOk, OutcomeStepOk DEF IndInv
  <1>2. TypeOK /\ BatchInv /\ CspInv
    BY DEF IndInv
  <1>3. (running.kind = "incoming" /\ running.phase = "ack" => <<"csp", running.task>> \in stored)'
    BY <1>1, <1>2, DoneIsStored DEF OutcomeStep, CspInv
  <1>4. ASSUME NEW f \in Elements(up'), f.kind = "cspAck"
        PROVE  <<"csp", f.id>> \in stored'
    BY <1>1, <1>2, <1>4 DEF FramesStep, Frame, CspInv, OutcomeStep
  <1>5. ForgottenAfterStored'
    <2> SUFFICES ASSUME NEW m \in Csp, m \notin unacked' PROVE <<"csp", m.id>> \in stored'
      BY DEF ForgottenAfterStored
    <2>1. CASE m \notin unacked
      BY <1>1, <1>2, <2>1 DEF CspInv, ForgottenAfterStored, OutcomeStep
    <2>2. CASE m \in unacked
      <3>1. ServerReceive /\ Head(up).kind = "cspAck" /\ m.id = Head(up).id
        BY <1>1, <2>2 DEF OutcomeStep
      <3>2. Head(up) \in Elements(up)
        BY <1>2, <3>1, ElementsFacts DEF ServerReceive, TypeOK, ServerType
      <3>. QED
        BY <1>1, <1>2, <3>1, <3>2 DEF CspInv, OutcomeStep
    <2>. QED
      BY <2>1, <2>2
  <1>. QED
    BY <1>3, <1>4, <1>5 DEF CspInv

LEMMA ResolvedStep ==
    ASSUME TasksAssumption, BoundsAssumption, IndInv, [Next]_vars
    PROVE  ResolvedAfterStored'
  <1>1. OutcomeStep
    BY OutcomeStepOk DEF IndInv
  <1>2. TypeOK /\ BatchInv /\ ResolvedAfterStored
    BY DEF IndInv
  <1> SUFFICES ASSUME NEW t \in Tasks, done'[t] = "resolved", NEW k \in 1..Envelopes[t]
               PROVE  <<t, k>> \in stored'
    BY DEF ResolvedAfterStored
  <1>3. CASE done[t] = "resolved"
    BY <1>1, <1>2, <1>3 DEF ResolvedAfterStored, OutcomeStep
  <1>4. CASE BatchDone /\ running.kind = "active" /\ running.task = t
    BY <1>1, <1>2, <1>4, DoneIsStored DEF OutcomeStep
  <1>. QED
    BY <1>1, <1>3, <1>4 DEF OutcomeStep

LEMMA InvStep ==
    ASSUME TasksAssumption, BoundsAssumption, IndInv, [Next]_vars
    PROVE  IndInv'
  <1>1. TypeOK'
    BY TypeStep DEF IndInv
  <1>2. QueueInv'
    BY QueueStep DEF IndInv
  <1>. QED
    BY <1>1, <1>2, FramesInvStep, AcksInvStep, BatchInvStep, CspInvStep, ResolvedStep DEF IndInv

-----------------------------------------------------------------------------
(* Theorems *)

(* The invariant holds in every behaviour of the task manager, whatever the *)
(* tasks, the messages and the faults.                                      *)
THEOREM Invariance == Spec => []IndInv
  <1>1. Init => IndInv
    BY InvInit, TasksAssumption, BoundsAssumption
  <1>2. IndInv /\ [Next]_vars => IndInv'
    BY InvStep, TasksAssumption, BoundsAssumption
  <1>. QED
    BY <1>1, <1>2, PTL DEF Spec

(* Every variable keeps its type (the state of manager.ts and queue.ts). *)
THEOREM TypeCorrect == Spec => []TypeOK
  <1>1. IndInv => TypeOK
    BY DEF IndInv
  <1>. QED
    BY <1>1, Invariance, PTL

(* TaskManager.replace, schedule and run settle a promise exactly when they *)
(* take its task out of the queue.                                          *)
THEOREM PromisesMatchQueue == Spec => []PendingIffQueued
  <1>1. IndInv => PendingIffQueued
    BY DEF IndInv, QueueInv
  <1>. QED
    BY <1>1, Invariance, PTL

(* consume in UnboundedQueue finds the running task at the head. *)
THEOREM RunningIsHead == Spec => []RunsFirstInLine
  <1>1. IndInv => RunsFirstInLine
    BY DEF IndInv, QueueInv
  <1>. QED
    BY <1>1, Invariance, PTL

(* A resolved promise means that the mediator has stored everything, even  *)
(* with duplicate acknowledgements and after any number of reconnections.  *)
THEOREM ResolvedIsStored == Spec => []ResolvedAfterStored
  <1>1. IndInv => ResolvedAfterStored
    BY DEF IndInv
  <1>. QED
    BY <1>1, Invariance, PTL

(* The chat server forgets no chat message that the other devices miss. *)
THEOREM ForgottenIsStored == Spec => []ForgottenAfterStored
  <1>1. IndInv => ForgottenAfterStored
    BY DEF IndInv, CspInv
  <1>. QED
    BY <1>1, Invariance, PTL
=============================================================================
