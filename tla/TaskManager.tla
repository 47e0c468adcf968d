---------------------------- MODULE TaskManager ----------------------------
(***************************************************************************)
(* The task manager of the desktop app (network/protocol/task/manager.ts)  *)
(* on top of the queues of utils/queue.ts: a manager that is replaced on   *)
(* every connect and disconnect, the main loop of the connected one, the   *)
(* codec through which the running task reads and writes, and the servers  *)
(* at the other end of the connection.                                     *)
(*                                                                         *)
(* A task is a member of Tasks.  What a task does on the network is        *)
(* abstracted to: wait for something outside of the connection (a blob     *)
(* upload) if it is in External, then reflect Envelopes[t] envelopes in    *)
(* one batch and wait for their acknowledgements.                          *)
(***************************************************************************)
EXTENDS Naturals, Sequences, FiniteSets

CONSTANTS
    Tasks,          \* active tasks the application schedules
    Persistent,     \* those with persist = true
    External,       \* those that first wait for something outside the connection
    Envelopes,      \* number of envelopes each task reflects
    NCsp,           \* chat messages waiting at the chat server
    NReflected,     \* reflected messages waiting at the mediator
    Poison,         \* ids of those that reveal an unrecoverable state
    DuplicateAcks,  \* whether the mediator may acknowledge an envelope twice
    MaxFailures     \* bound on connection losses and errors thrown in a task

ASSUME TasksAssumption ==
    /\ Persistent \subseteq Tasks
    /\ External \subseteq Tasks
    /\ Envelopes \in [Tasks -> Nat]
    /\ \A t \in External : Envelopes[t] > 0

ASSUME BoundsAssumption ==
    /\ NCsp \in Nat /\ NReflected \in Nat
    /\ Poison \subseteq 1..NReflected /\ DuplicateAcks \in BOOLEAN
    /\ MaxFailures \in Nat

VARIABLES
    inner,          \* which manager is in place
    tasks,          \* tasks in the task queue, ordered by their ticket
    ticket,         \* position at which a task was put into the queue
    nextTicket,     \* position of the next one
    tasksError,     \* the task queue of the connected manager has errored
    done,           \* state of the promise that schedule returned
    loop,           \* where the main loop of the connected manager is
    running,        \* the task the main loop runs
    codecBacklog,   \* backlog that was moved to the running task's codec
    backlog,        \* backlog of the manager
    slot,           \* decoder queue (it holds at most one message)
    backlogError,   \* the manager's backlog has errored
    netError,       \* decoder and encoder queue have errored
    rsn,            \* next reflect id on this connection
    bypassed,       \* reflected messages whose bypass task is under way
    unrecoverable,  \* persisted flag unrecoverableStateDetected
    failures,       \* connection losses and errors so far
    registered,     \* the mediator knows this device
    up, down,       \* frames in flight to and from the servers
    unacked,        \* inbound messages the servers still hold
    stored,         \* envelopes the mediator has stored for the other devices
    sent            \* those sent on this connection

managerVars == <<inner, tasks, ticket, nextTicket, tasksError, done>>
loopVars    == <<loop, running, rsn>>
queueVars   == <<codecBacklog, backlog, slot, backlogError, netError>>
faultVars   == <<bypassed, unrecoverable, failures, registered>>
serverVars  == <<up, down, unacked, stored, sent>>
vars == <<managerVars, loopVars, queueVars, faultVars, serverVars>>

-----------------------------------------------------------------------------
(* Messages and tasks *)

Csp        == [kind : {"csp"}, id : 1..NCsp]
Reflected  == [kind : {"reflected"}, id : 1..NReflected]
InboundMsg == Csp \union Reflected
Ack(n)     == [kind |-> "ack", id |-> n]
DropAck    == [kind |-> "dropAck", id |-> 0]
Frame(k, n, envelope) == [kind |-> k, id |-> n, of |-> envelope]
NoEnvelope == <<"none", 0>>
EnvelopeIds == (Tasks \union {"csp"}) \X Nat

Messages == InboundMsg \union [kind : {"ack"}, id : Nat] \union {DropAck}
Frames ==
    [kind : {"reflect"}, id : Nat, of : EnvelopeIds] \union
    [kind : {"cspAck", "reflectedAck", "drop"}, id : Nat, of : {NoEnvelope}]

NoTask == [kind |-> "none", task |-> 0, phase |-> "none",
           first |-> 0, written |-> 0, acked |-> 0]

(* What the main loop may be running, and in which phase it may be. *)
RunOf(kind, ids, phases) ==
    [kind : {kind}, task : ids, phase : phases, first : Nat, written : Nat, acked : Nat]

Runs ==
    {NoTask} \union RunOf("active", Tasks, {"external", "reflect"})
             \union RunOf("incoming", 1..NCsp, {"reflect", "ack"})
             \union RunOf("reflected", 1..NReflected, {"process", "ack"})
             \union RunOf("drop", {0}, {"drop", "dropAck"})

(* A task about to reflect its first envelope: its ids start at first. *)
Reflecting(kind, t, first) ==
    [kind |-> kind, task |-> t, phase |-> "reflect",
     first |-> first, written |-> 0, acked |-> 0]

(* What the k-th envelope of a task stands for. *)
Envelope(run, k) ==
    IF run.kind = "active" THEN <<run.task, k>> ELSE <<"csp", run.task>>

EnvelopesOf(run) == IF run.kind = "active" THEN Envelopes[run.task] ELSE 1

(* UnboundedQueue: the task that is first in line. *)
IsFirst(t) == t \in tasks /\ \A u \in tasks : ticket[t] <= ticket[u]

ManagerType ==
    /\ inner \in {"disconnected", "connected"}
    /\ tasks \subseteq Tasks
    /\ ticket \in [Tasks -> Nat] /\ nextTicket \in Nat
    /\ tasksError \in BOOLEAN
    /\ done \in [Tasks -> {"new", "pending", "resolved", "aborted", "thrown"}]

LoopType ==
    /\ loop \in {"idle", "next", "inbound", "run", "exited"}
    /\ running \in Runs /\ rsn \in Nat

QueueType ==
    /\ codecBacklog \in Seq(Messages) /\ backlog \in Seq(Messages)
    /\ slot \in Seq(Messages) /\ Len(slot) <= 1
    /\ backlogError \in BOOLEAN /\ netError \in BOOLEAN

FaultType ==
    /\ bypassed \subseteq InboundMsg
    /\ unrecoverable \in BOOLEAN
    /\ failures \in Nat /\ registered \in BOOLEAN

ServerType ==
    /\ up \in Seq(Frames) /\ down \in Seq(Messages)
    /\ unacked \subseteq InboundMsg /\ sent \subseteq InboundMsg
    /\ stored \subseteq EnvelopeIds

TypeOK == ManagerType /\ LoopType /\ QueueType /\ FaultType /\ ServerType

Init ==
    /\ inner = "disconnected"
    /\ tasks = {} /\ ticket = [t \in Tasks |-> 0] /\ nextTicket = 0 /\ tasksError = FALSE
    /\ done = [t \in Tasks |-> "new"]
    /\ loop = "idle" /\ running = NoTask /\ rsn = 0
    /\ codecBacklog = <<>> /\ backlog = <<>> /\ slot = <<>>
    /\ backlogError = FALSE /\ netError = FALSE
    /\ bypassed = {}
    /\ unrecoverable = FALSE /\ failures = 0 /\ registered = TRUE
    /\ up = <<>> /\ down = <<>> /\ unacked = InboundMsg /\ sent = {}
    /\ stored = {}

-----------------------------------------------------------------------------
(* TaskManager: schedule and replace *)

FrontTicket(t) == Cardinality(Tasks) - nextTicket

(* A put appends to the queue. *)
TicketFor(t) == nextTicket

Enqueue(t) ==
    /\ tasks' = tasks \union {t}
    /\ ticket' = [ticket EXCEPT ![t] = TicketFor(t)] /\ nextTicket' = nextTicket + 1
    /\ done' = [done EXCEPT ![t] = "pending"]

(* Without a connection, only persistent tasks are kept. *)
ScheduleDisconnected(t) ==
    /\ inner = "disconnected" /\ done[t] = "new"
    /\ IF t \in Persistent
       THEN Enqueue(t)
       ELSE done' = [done EXCEPT ![t] = "aborted"] /\ UNCHANGED <<tasks, ticket, nextTicket>>
    /\ UNCHANGED <<inner, tasksError, loopVars, queueVars, faultVars, serverVars>>

(* With a connection, every task is put into the queue; the put throws once *)
(* the main loop has exited and errored the queue.                          *)
ScheduleConnected(t) ==
    /\ inner = "connected" /\ done[t] = "new"
    /\ IF tasksError
       THEN done' = [done EXCEPT ![t] = "thrown"] /\ UNCHANGED <<tasks, ticket, nextTicket>>
       ELSE Enqueue(t)
    /\ UNCHANGED <<inner, tasksError, loopVars, queueVars, faultVars, serverVars>>

KeepNone == {}
NeverAborted(t) == FALSE

(* What the constructor of the connected manager does with the tasks of its *)
(* predecessor: it keeps some and rejects the promises of the others.       *)
Kept == tasks \intersect Persistent
AbortedByReconnect(t) == t \in tasks \ Kept

(* replace(CONNECTING): a connected manager takes the persistent tasks over *)
(* and aborts the others; its sequence numbers and queues are fresh.  Once   *)
(* the mediator refuses the device, auto-connect is off.                     *)
Connect ==
    /\ inner = "disconnected" /\ registered
    /\ inner' = "connected"
    /\ tasks' = Kept
    /\ done' = [t \in Tasks |-> IF AbortedByReconnect(t) THEN "aborted" ELSE done[t]]
    /\ rsn' = 0 /\ loop' = "idle" /\ running' = NoTask
    /\ codecBacklog' = <<>> /\ backlog' = <<>> /\ slot' = <<>>
    /\ backlogError' = FALSE /\ netError' = FALSE /\ tasksError' = FALSE
    /\ up' = <<>> /\ down' = <<>> /\ sent' = {}
    /\ UNCHANGED <<ticket, nextTicket, faultVars, unacked, stored>>

(* replace(DISCONNECTED): the disconnected manager takes all tasks over.  *)
(* The old main loop does not hold this up: what is left of it is either  *)
(* over or waiting outside of the connection.  A bypass task still under  *)
(* way fails as soon as it acknowledges.                                  *)
Disconnect ==
    /\ inner = "connected" /\ netError
    /\ loop \in {"idle", "exited"} \/ running.phase = "external"
    /\ inner' = "disconnected"
    /\ loop' = "idle" /\ running' = NoTask /\ tasksError' = FALSE
    /\ codecBacklog' = <<>> /\ backlog' = <<>> /\ slot' = <<>>
    /\ up' = <<>> /\ down' = <<>> /\ sent' = {}
    /\ bypassed' = {}
    /\ UNCHANGED <<tasks, ticket, nextTicket, done, rsn, backlogError, netError,
                   unrecoverable, failures, registered, unacked, stored>>

(* The abort signal of the connection: subscribed by run, it errors the *)
(* decoder and the encoder queue and the manager's current backlog.     *)
Abort ==
    /\ inner = "connected" /\ ~netError
    /\ failures < MaxFailures \/ ~registered
    /\ failures' = IF registered THEN failures + 1 ELSE failures
    /\ netError' = TRUE /\ backlogError' = TRUE
    /\ up' = <<>> /\ down' = <<>>
    /\ UNCHANGED <<managerVars, loopVars, codecBacklog, backlog, slot, bypassed,
                   unrecoverable, registered, unacked, stored, sent>>

-----------------------------------------------------------------------------
(* ConnectedTaskManager: the main loop *)

StartRun ==
    /\ inner = "connected" /\ loop = "idle"
    /\ loop' = "next"
    /\ UNCHANGED <<managerVars, running, rsn, queueVars, faultVars, serverVars>>

(* The catch block of run for a recoverable error: error all queues. *)
ExitLoop ==
    /\ loop' = "exited" /\ running' = NoTask /\ codecBacklog' = <<>>
    /\ tasksError' = TRUE /\ backlogError' = TRUE /\ netError' = TRUE

(* _next with a pending task: it wins the race, whatever else is ready. *)
(* _run then moves the backlog to the codec of the task.                *)
NextTask(t) ==
    /\ loop = "next" /\ ~tasksError /\ IsFirst(t)
    /\ loop' = "run"
    /\ IF t \in External
       THEN running' = [Reflecting("active", t, 0) EXCEPT !.phase = "external"]
            /\ UNCHANGED rsn
       ELSE running' = Reflecting("active", t, rsn) /\ rsn' = rsn + Envelopes[t]
    /\ codecBacklog' = backlog /\ backlog' = <<>> /\ backlogError' = FALSE
    /\ UNCHANGED <<managerVars, slot, netError, faultVars, serverVars>>

(* _next without a pending task: the backlog comes before the decoder queue  *)
(* in the race, so that a message in it wins even if that queue has errored. *)
InboundReady ==
    /\ ~backlogError
    /\ backlog # <<>> \/ (~netError /\ slot # <<>>)

(* The race is decided for an inbound message. *)
NextInbound ==
    /\ loop = "next" /\ tasks = {} /\ InboundReady
    /\ loop' = "inbound"
    /\ UNCHANGED <<managerVars, running, rsn, queueVars, faultVars, serverVars>>

NextError ==
    /\ loop = "next" /\ tasks = {} /\ netError /\ ~InboundReady
    /\ ExitLoop
    /\ UNCHANGED <<inner, tasks, ticket, nextTicket, done, rsn, backlog, slot, faultVars, serverVars>>

(* The continuation of the race runs in a later microtask.  It asserts that *)
(* no task has been queued since.                                           *)
AssertNoTasksFails ==
    /\ loop = "inbound" /\ tasks # {}
    /\ ExitLoop
    /\ UNCHANGED <<inner, tasks, ticket, nextTicket, done, rsn, backlog, slot, faultVars, serverVars>>

Inbound == Head(backlog \o slot)

IncomingAcksFirst(n) == [Reflecting("incoming", n, rsn) EXCEPT !.phase = "ack"]

(* IncomingMessageTask: reflects the chat message before it acknowledges it. *)
IncomingTask(n) == Reflecting("incoming", n, rsn)

(* Consume the inbound message; a task is created from it and run at once, *)
(* unless it is an acknowledgement nobody waits for.                       *)
HandleInbound ==
    /\ loop = "inbound" /\ tasks = {} /\ backlog \o slot # <<>>
    /\ LET rest == IF backlog # <<>> THEN Tail(backlog) ELSE <<>> IN
       /\ slot' = IF backlog # <<>> THEN slot ELSE <<>>
       /\ \/ /\ Inbound.kind = "csp"
             /\ running' = IncomingTask(Inbound.id) /\ rsn' = rsn + 1
             /\ loop' = "run" /\ codecBacklog' = rest /\ backlog' = <<>>
             /\ backlogError' = FALSE
          \/ /\ Inbound.kind = "reflected"
             /\ running' = [Reflecting("reflected", Inbound.id, 0) EXCEPT !.phase = "process"]
             /\ loop' = "run" /\ codecBacklog' = rest /\ backlog' = <<>>
             /\ backlogError' = FALSE /\ UNCHANGED rsn
          \/ /\ Inbound.kind \in {"ack", "dropAck"}
             /\ loop' = "next" /\ backlog' = rest
             /\ UNCHANGED <<running, rsn, codecBacklog, backlogError>>
    /\ UNCHANGED <<managerVars, netError, faultVars, serverVars>>

ForgetCodecBacklog == backlog

(* prepend: what the task left of its backlog comes before what it put *)
(* into the manager's backlog.                                         *)
Transferred == codecBacklog \o backlog

(* The task returns: transfer what it left of its backlog, remove it from *)
(* the queue and settle its promise.  The transfer throws if the backlog  *)
(* has errored meanwhile, which leaves the task in the queue.             *)
TaskReturns ==
    IF backlogError
    THEN /\ ExitLoop
         /\ UNCHANGED <<tasks, done, backlog>>
    ELSE /\ backlog' = Transferred /\ codecBacklog' = <<>>
         /\ loop' = "next" /\ running' = NoTask
         /\ IF running.kind = "active"
            THEN /\ tasks' = tasks \ {running.task}
                 /\ done' = [done EXCEPT ![running.task] = "resolved"]
            ELSE UNCHANGED <<tasks, done>>
         /\ UNCHANGED <<tasksError, backlogError, netError>>

(* The task throws an error. *)
TaskThrows ==
    /\ loop = "run" /\ running.kind # "drop"
    /\ failures < MaxFailures
    /\ failures' = failures + 1
    /\ ExitLoop
    /\ UNCHANGED <<inner, tasks, ticket, nextTicket, done, rsn, backlog, slot,
                   bypassed, unrecoverable, registered, serverVars>>

(* ReflectedTask meets an unrecoverable state: it acknowledges the message  *)
(* and throws.  The catch block of run persists the flag and runs           *)
(* DropDeviceTask before it errors any queue.                               *)
DetectUnrecoverable ==
    /\ loop = "run" /\ running.phase = "process" /\ running.task \in Poison
    /\ ~netError
    /\ up' = Append(up, Frame("reflectedAck", running.task, NoEnvelope))
    /\ unrecoverable' = TRUE
    /\ running' = [NoTask EXCEPT !.kind = "drop", !.phase = "drop"]
    /\ codecBacklog' = backlog /\ backlog' = <<>> /\ backlogError' = FALSE
    /\ UNCHANGED <<managerVars, loop, rsn, slot, netError, bypassed,
                   failures, registered, down, unacked, stored, sent>>

-----------------------------------------------------------------------------
(* TaskCodec: what the running task does *)

ExternalDone ==
    /\ loop = "run" /\ running.phase = "external"
    /\ running' = Reflecting("active", running.task, rsn)
    /\ rsn' = rsn + Envelopes[running.task]
    /\ UNCHANGED <<managerVars, loop, queueVars, faultVars, serverVars>>

(* reflect, the writing half: all envelopes are written in one batch. *)
WriteReflect ==
    /\ loop = "run" /\ running.phase = "reflect"
    /\ running.written < EnvelopesOf(running) /\ ~netError
    /\ up' = Append(up, Frame("reflect", running.first + running.written,
                              Envelope(running, running.written + 1)))
    /\ running' = [running EXCEPT !.written = @ + 1]
    /\ UNCHANGED <<managerVars, loop, rsn, queueVars, faultVars, down, unacked, stored, sent>>

Reading == /\ loop = "run"
           /\ \/ running.phase = "reflect" /\ running.acked < EnvelopesOf(running)
              \/ running.phase = "dropAck"

Readable == codecBacklog \o slot

(* read takes the next message of its backlog, then of the decoder queue. *)
ConsumeRead ==
    IF codecBacklog # <<>>
    THEN codecBacklog' = Tail(codecBacklog) /\ UNCHANGED slot
    ELSE slot' = <<>> /\ UNCHANGED codecBacklog

(* A reflected message bypasses the reading task: its own task is started *)
(* and not awaited.                                                       *)
ReadBypass ==
    /\ Reading /\ ~netError /\ Readable # <<>> /\ Head(Readable).kind = "reflected"
    /\ ConsumeRead
    /\ bypassed' = bypassed \union {Head(Readable)}
    /\ UNCHANGED <<managerVars, loopVars, backlog, backlogError, netError,
                   unrecoverable, failures, registered, serverVars>>

AnyAck(m) == m.kind = "ack"

(* The acknowledgement the reading half of reflect waits for. *)
IsExpected(m) == m = Ack(running.first + running.acked)

(* The acknowledgement of the next envelope, or of the device drop. *)
ReadAccept ==
    /\ Reading /\ ~netError /\ Readable # <<>>
    /\ ConsumeRead
    /\ \/ /\ running.phase = "reflect" /\ IsExpected(Head(Readable))
          /\ running' = [running EXCEPT !.acked = @ + 1]
          /\ UNCHANGED <<loop, tasksError, backlogError, netError, backlog>>
       \/ /\ running.phase = "dropAck" /\ Head(Readable) = DropAck
          /\ loop' = "exited" /\ running' = NoTask
          /\ tasksError' = TRUE /\ backlogError' = TRUE /\ netError' = TRUE
          /\ UNCHANGED backlog
    /\ UNCHANGED <<inner, tasks, ticket, nextTicket, done, rsn, faultVars, serverVars>>

BacklogFirst(m) == <<m>> \o backlog

BacklogLast(m) == Append(backlog, m)

(* Not for this task: put it into the manager's backlog.  While waiting for *)
(* the drop acknowledgement, reflect acknowledgements are thrown away.      *)
ReadBacklog ==
    /\ Reading /\ ~netError /\ Readable # <<>>
    /\ LET m == Head(Readable) IN
       \/ /\ \/ m.kind = "csp"
             \/ /\ running.phase = "reflect" /\ ~IsExpected(m)
                /\ m.kind = "ack" => running.acked = 0
                /\ m.kind # "reflected"
          /\ backlog' = BacklogLast(m)
       \/ /\ running.phase = "dropAck" /\ m.kind = "ack"
          /\ UNCHANGED backlog
    /\ ConsumeRead
    /\ UNCHANGED <<managerVars, loopVars, backlogError, netError, faultVars, serverVars>>

(* An acknowledgement out of order in the middle of a batch: the thrown *)
(* ProtocolError keeps consume from taking the message.                 *)
ReadMismatch ==
    /\ Reading /\ ~netError /\ Readable # <<>>
    /\ running.phase = "reflect" /\ running.acked > 0
    /\ Head(Readable).kind = "ack" /\ ~IsExpected(Head(Readable))
    /\ ExitLoop
    /\ UNCHANGED <<inner, tasks, ticket, nextTicket, done, rsn, backlog, slot, faultVars, serverVars>>

(* Any read or write on errored queues throws. *)
CodecError ==
    /\ loop = "run" /\ netError /\ running.kind # "drop"
    /\ running.phase \in {"ack", "reflect"}
    /\ running.phase = "reflect" => running.acked < EnvelopesOf(running)
    /\ ExitLoop
    /\ UNCHANGED <<inner, tasks, ticket, nextTicket, done, rsn, backlog, slot, faultVars, serverVars>>

WrittenOnly == running.written = EnvelopesOf(running)

(* Promise.all of the writing and the reading half. *)
BatchComplete ==
    running.written = EnvelopesOf(running) /\ running.acked = running.written

ReflectReturns ==
    /\ loop = "run" /\ running.phase = "reflect"
    /\ BatchComplete
    /\ \/ /\ running.kind = "active" /\ TaskReturns
       \/ /\ running.kind = "incoming"
          /\ running' = [running EXCEPT !.phase = "ack"]
          /\ UNCHANGED <<tasks, done, tasksError, loop, codecBacklog, backlog,
                         backlogError, netError>>
    /\ UNCHANGED <<inner, ticket, nextTicket, rsn, slot, faultVars, serverVars>>

(* ReflectedTask run by the main loop: its effects are applied ... *)
ProcessReflected ==
    /\ loop = "run" /\ running.phase = "process"
    /\ running.task \notin Poison \/ netError
    /\ running' = [running EXCEPT !.phase = "ack"]
    /\ UNCHANGED <<managerVars, loop, rsn, queueVars, faultVars, serverVars>>

(* ... and an inbound message is acknowledged to its server at the end. *)
AcknowledgeInbound ==
    /\ loop = "run" /\ running.phase = "ack" /\ ~netError
    /\ up' = Append(up, Frame(IF running.kind = "incoming" THEN "cspAck" ELSE "reflectedAck",
                              running.task, NoEnvelope))
    /\ TaskReturns
    /\ UNCHANGED <<inner, ticket, nextTicket, rsn, slot, faultVars, down, unacked, stored, sent>>

(* The bypass task of m is over: it has acknowledged m, or, the connection *)
(* being gone or m revealing an unrecoverable state, it has thrown into    *)
(* assertUnreachable.                                                      *)
BypassDone(m) ==
    /\ m \in bypassed
    /\ bypassed' = bypassed \ {m}
    /\ up' = IF netError THEN up ELSE Append(up, Frame("reflectedAck", m.id, NoEnvelope))
    /\ UNCHANGED <<managerVars, loopVars, queueVars, unrecoverable, failures,
                   registered, down, unacked, stored, sent>>

(* DropDeviceTask, started by the catch block of run. *)
WriteDrop ==
    /\ loop = "run" /\ running.phase = "drop" /\ ~netError
    /\ up' = Append(up, Frame("drop", 0, NoEnvelope))
    /\ running' = [running EXCEPT !.phase = "dropAck"]
    /\ UNCHANGED <<managerVars, loop, rsn, queueVars, faultVars, down, unacked, stored, sent>>

(* Its error leaves the catch block before the queues are errored. *)
DropError ==
    /\ loop = "run" /\ running.kind = "drop" /\ netError
    /\ loop' = "exited" /\ running' = NoTask /\ codecBacklog' = <<>>
    /\ UNCHANGED <<managerVars, rsn, backlog, slot, backlogError, netError,
                   faultVars, serverVars>>

-----------------------------------------------------------------------------
(* The transport and the servers *)

DeliverWithoutWaiting ==
    /\ inner = "connected" /\ ~netError /\ down # <<>>
    /\ slot' = Append(slot, Head(down)) /\ down' = Tail(down)
    /\ UNCHANGED <<managerVars, loopVars, codecBacklog, backlog, backlogError,
                   netError, faultVars, up, unacked, stored, sent>>

(* Layer 5 waits until the decoder queue is free. *)
Deliver ==
    /\ inner = "connected" /\ ~netError /\ down # <<>> /\ slot = <<>>
    /\ slot' = <<Head(down)>> /\ down' = Tail(down)
    /\ UNCHANGED <<managerVars, loopVars, codecBacklog, backlog, backlogError,
                   netError, faultVars, up, unacked, stored, sent>>

(* The servers answer requests in the order they were sent and forget an *)
(* inbound message once it is acknowledged; the mediator forgets a device *)
(* that was dropped.                                                      *)
ServerReceive ==
    /\ inner = "connected" /\ up # <<>>
    /\ up' = Tail(up)
    /\ LET f == Head(up) IN
       \/ /\ f.kind = "reflect"
          /\ stored' = stored \union {f.of}
          /\ \/ down' = Append(down, Ack(f.id))
             \/ DuplicateAcks /\ down' = down \o <<Ack(f.id), Ack(f.id)>>
          /\ UNCHANGED <<unacked, registered>>
       \/ /\ f.kind = "drop"
          /\ down' = Append(down, DropAck) /\ registered' = FALSE
          /\ UNCHANGED <<unacked, stored>>
       \/ /\ f.kind \in {"cspAck", "reflectedAck"} /\ UNCHANGED <<down, registered, stored>>
          /\ unacked' = unacked \
                {[kind |-> IF f.kind = "cspAck" THEN "csp" ELSE "reflected", id |-> f.id]}
    /\ UNCHANGED <<managerVars, loopVars, queueVars, bypassed,
                   unrecoverable, failures, sent>>

(* A message is (re)sent once per connection, in the order of its kind. *)
ServerSend(m) ==
    /\ inner = "connected" /\ ~netError
    /\ m \in unacked \ sent
    /\ \A n \in unacked \ sent : n.kind = m.kind => m.id <= n.id
    /\ down' = Append(down, m) /\ sent' = sent \union {m}
    /\ UNCHANGED <<managerVars, loopVars, queueVars, faultVars, up, unacked, stored>>

-----------------------------------------------------------------------------

Schedule(t) == ScheduleDisconnected(t) \/ ScheduleConnected(t)

Loop ==
    \/ StartRun \/ NextInbound \/ NextError \/ AssertNoTasksFails \/ HandleInbound
    \/ \E t \in Tasks : NextTask(t)

Codec ==
    \/ ExternalDone \/ WriteReflect \/ ReadBypass \/ ReadAccept \/ ReadBacklog
    \/ ReadMismatch \/ CodecError \/ ReflectReturns \/ ProcessReflected
    \/ AcknowledgeInbound \/ DetectUnrecoverable \/ WriteDrop \/ DropError
    \/ \E m \in InboundMsg : BypassDone(m)

Network == Deliver \/ ServerReceive \/ \E m \in InboundMsg : ServerSend(m)

Next ==
    \/ \E t \in Tasks : Schedule(t)
    \/ Connect \/ Disconnect \/ Abort
    \/ Loop \/ Codec \/ Network
    \/ TaskThrows

Spec == Init /\ [][Next]_vars

(* Everything that is merely waiting for its turn happens eventually. *)
Fairness ==
    /\ WF_vars(Connect) /\ WF_vars(Disconnect)
    /\ WF_vars(Loop) /\ WF_vars(Codec)
    /\ WF_vars(Deliver) /\ WF_vars(ServerReceive)
    /\ WF_vars(\E m \in InboundMsg : ServerSend(m))

FairSpec == Spec /\ Fairness
-----------------------------------------------------------------------------
(* Properties *)

(* A promise that schedule returned is pending exactly as long as its task  *)
(* is in the queue: no connect, disconnect, error or abort drops a task     *)
(* without settling its promise, and no settled task is run again.          *)
PendingIffQueued == \A t \in Tasks : done[t] = "pending" <=> t \in tasks

(* The task that the main loop runs is still first in line: consume finds  *)
(* it at the head of the queue ("Expected current value to be the first in *)
(* line in queue").                                                        *)
RunsFirstInLine == running.kind = "active" => IsFirst(running.task)

(* A promise is resolved only after the mediator has stored every envelope *)
(* of the task for the other devices, over however many connections.       *)
ResolvedAfterStored ==
    \A t \in Tasks : done[t] = "resolved" =>
        \A k \in 1..Envelopes[t] : <<t, k>> \in stored

(* The chat server forgets a chat message only after the mediator has       *)
(* stored it for the other devices.                                         *)
ForgottenAfterStored == \A m \in Csp \ unacked : <<"csp", m.id>> \in stored

Elements(s) == {s[i] : i \in DOMAIN s}

(* On a working connection, a message that was sent and not acknowledged is *)
(* always somewhere: in flight, in one of the queues, being processed, or   *)
(* its acknowledgement is on its way.  Moving the backlog to a codec and    *)
(* back loses nothing.                                                      *)
NoInboundLost ==
    inner = "connected" /\ ~netError =>
        \A m \in sent \intersect unacked :
            \/ m \in Elements(codecBacklog \o backlog \o slot \o down)
            \/ m \in bypassed
            \/ running.kind = "incoming" /\ m = [kind |-> "csp", id |-> running.task]
            \/ running.kind = "reflected" /\ m = [kind |-> "reflected", id |-> running.task]
            \/ \E f \in Elements(up) :
                   /\ f.id = m.id
                   /\ f.kind = (IF m.kind = "csp" THEN "cspAck" ELSE "reflectedAck")

(* Whenever the main loop looks for work, the chat messages are lined up in *)
(* the order of their arrival, however often they were moved between the    *)
(* backlogs of the manager and of codecs.                                   *)
CspInOrder ==
    loop \in {"next", "inbound"} =>
        LET line == backlog \o slot \o down
        IN  \A i, j \in DOMAIN line :
                i < j /\ line[i].kind = "csp" /\ line[j].kind = "csp"
                    => line[i].id < line[j].id

(* Every acknowledgement that can still be read belongs to the batch of    *)
(* the running task: no task sees the acknowledgements of another one.     *)
AcksOfRunningTask ==
    \A m \in Elements(codecBacklog \o backlog \o slot \o down) :
        m.kind = "ack" /\ ~netError =>
            /\ running.phase = "reflect"
            /\ m.id \in running.first + running.acked .. running.first + running.written - 1

(* A persistent task that was accepted is completed in the end, whatever   *)
(* (finitely many) connection losses and errors occur in between.          *)
PersistentCompletes ==
    \A t \in Persistent : done[t] = "pending" ~> (done[t] = "resolved" \/ ~registered)

(* No caller waits forever for a volatile task. *)
VolatileSettles ==
    \A t \in Tasks \ Persistent :
        done[t] = "pending" ~> (done[t] \in {"resolved", "aborted"} \/ ~registered)

(* Every inbound message is processed and acknowledged in the end. *)
InboundAcknowledged == \A m \in InboundMsg : <>(m \notin unacked \/ ~registered)

(* "Expected no tasks to be queued": when the main loop takes an inbound   *)
(* message, no task is queued (manager.ts, _next).                         *)
NoTaskQueuedForInbound == loop = "inbound" => tasks = {}

(* "If this is a protocol error, we want the task-manager to handle it"    *)
(* (reflected.ts): once a message that reveals an unrecoverable state is   *)
(* acknowledged, the task manager has recorded that state.                 *)
ProtocolErrorHandled ==
    \A m \in Reflected \ unacked : m.id \in Poison => unrecoverable

Delivered == {t \in Tasks : \A k \in 1..Envelopes[t] : <<t, k>> \in stored}
Ahead == {p \in tasks \X tasks : ticket[p[1]] < ticket[p[2]]}

Ledger == INSTANCE TaskLedger
            WITH outcome <- done, waiting <- tasks, before <- Ahead, delivered <- Delivered

(* The whole machinery implements the ledger of promises: tasks are         *)
(* completed in the order they were scheduled in, after everything they     *)
(* reflect has reached the mediator, however often connections are lost.    *)
KeepsLedger == Ledger!Spec
=============================================================================
