---------------------------- MODULE ContactSync ----------------------------
(***************************************************************************)
(* How the devices of a group keep one contact, or its profile picture, in *)
(* sync: the transactions of TaskCodec (network/protocol/task/manager.ts), *)
(* the controller that runs its updates inside of them (model/contact.ts;  *)
(* model/profile-picture.ts does the same), and the mediator, which hands  *)
(* out the device group lock and reflects what was committed               *)
(* (md-d2m.proto describes it).                                            *)
(*                                                                         *)
(* A local update comes from the user interface: it takes the lock of the  *)
(* contact, then schedules a volatile task.  A remote one is made by the   *)
(* task that processes a chat message: that task is already running when   *)
(* it takes the lock, and runs the transaction itself.                     *)
(* A reflected update is named by its place in the log of the mediator.    *)
(***************************************************************************)
EXTENDS Naturals, Sequences, SequencesExt

CONSTANTS
    Devices,        \* devices of the group
    Updates,        \* updates of the contact that are attempted
    Owner,          \* the device that attempts it
    Remote,         \* those made by the task of an incoming chat message
    Slow,           \* those that set a picture, which the others download
    None,           \* no device, no update
    MaxLosses       \* bound on connection losses

ASSUME ContactSyncAssumption ==
    /\ Owner \in [Updates -> Devices]
    /\ Remote \subseteq Updates /\ Slow \subseteq Updates
    /\ None \notin Devices \union Updates \union {"reflected"}
    /\ "reflected" \notin Updates
    /\ MaxLosses \in Nat

VARIABLES
    status,         \* how far each update is
    stale,          \* those whose contact has a newer version than was noted
    seenAtStart,    \* what the contact had seen at that time (history)
    lock,           \* AsyncLock of the contact: updates in line
    tasks,          \* sync tasks in the task queue
    running,        \* what the main loop runs
    phase,          \* where the transaction is
    codec,          \* backlog of the running task's codec
    backlog,        \* backlog of the manager
    applied,        \* entries of the log the contact has seen (history)
    value,          \* the entry that set its current value
    downloads,      \* reflected entries of which the picture is being downloaded
    orphans,        \* those that arrived on an earlier connection
    acking,         \* those about to be acknowledged, and whether their nonce is held
    nonces,         \* those of which the nonce is committed
    missed,         \* those of which the download has failed (history)
    connected,
    losses,
    holder,         \* mediator: the device that holds the lock
    staged,         \* mediator: what was reflected inside the transaction
    log,            \* mediator: what was committed so far
    mailbox,        \* mediator: entries a device has not acknowledged
    up, down        \* messages on the connection of each device

updateVars == <<status, stale, seenAtStart>>
reflectedVars == <<downloads, orphans, acking, nonces, missed>>
contactVars == <<lock, applied, value, reflectedVars>>
taskVars == <<tasks, running, phase, codec, backlog>>
linkVars == <<connected, losses>>
mediatorVars == <<holder, staged, log, mailbox>>
vars == <<updateVars, contactVars, taskVars, linkVars, mediatorVars, up, down>>

-----------------------------------------------------------------------------

Local == Updates \ Remote

Msg(kind, of) == [kind |-> kind, of |-> of]
Bare(kind) == Msg(kind, 0)
Reflected(entry) == Msg("reflected", entry)

Requests ==
    [kind : {"begin", "commit", "ack"}, of : Nat] \union [kind : {"reflect"}, of : Updates]
Answers ==
    [kind : {"ack", "rejected", "ended", "reflectAck", "commitAck", "reflected"}, of : Nat]

TypeOK ==
    /\ status \in [Updates -> {"new", "queued", "held", "done", "failed"}]
    /\ stale \subseteq Updates /\ seenAtStart \in [Updates -> SUBSET Nat]
    /\ lock \in [Devices -> Seq(Updates)] /\ tasks \in [Devices -> Seq(Local)]
    /\ running \in [Devices -> Updates \union {None, "reflected"}]
    /\ phase \in [Devices -> {"idle", "begin", "waiting", "open", "upload", "execute", "commit",
                          "skip"}]
    /\ codec \in [Devices -> Seq(Answers)] /\ backlog \in [Devices -> Seq(Answers)]
    /\ applied \in [Devices -> SUBSET Nat] /\ value \in [Devices -> Nat]
    /\ downloads \in [Devices -> SUBSET Nat] /\ orphans \in [Devices -> SUBSET Nat]
    /\ acking \in [Devices -> SUBSET (Nat \X BOOLEAN)] /\ nonces \in [Devices -> SUBSET Nat]
    /\ missed \in [Devices -> SUBSET Nat]
    /\ connected \in [Devices -> BOOLEAN] /\ losses \in Nat
    /\ holder \in Devices \union {None}
    /\ staged \in Seq(Updates) /\ log \in Seq([update : Updates, seen : SUBSET Nat])
    /\ mailbox \in [Devices -> Seq(Nat)]
    /\ up \in [Devices -> Seq(Requests)] /\ down \in [Devices -> Seq(Answers)]

Everywhere(x) == [d \in Devices |-> x]

(* A line or mailbox without e, which is in it once at most. *)
Without(s, e) ==
    IF e \in ToSet(s) THEN RemoveAt(s, CHOOSE i \in DOMAIN s : s[i] = e) ELSE s

Init ==
    /\ status = [u \in Updates |-> "new"]
    /\ stale = {} /\ seenAtStart = [u \in Updates |-> {}]
    /\ lock = Everywhere(<<>>) /\ applied = Everywhere({}) /\ value = Everywhere(0)
    /\ downloads = Everywhere({}) /\ orphans = Everywhere({}) /\ acking = Everywhere({})
    /\ nonces = Everywhere({}) /\ missed = Everywhere({})
    /\ tasks = Everywhere(<<>>) /\ running = Everywhere(None) /\ phase = Everywhere("idle")
    /\ codec = Everywhere(<<>>) /\ backlog = Everywhere(<<>>)
    /\ connected = Everywhere(TRUE) /\ losses = 0
    /\ holder = None /\ staged = <<>> /\ log = <<>> /\ mailbox = Everywhere(<<>>)
    /\ up = Everywhere(<<>>) /\ down = Everywhere(<<>>)

Write(d, message) == up' = [up EXCEPT ![d] = Append(@, message)]
Phase(d, p) == phase' = [phase EXCEPT ![d] = p]

(* _run moves the backlog of the manager to the codec of the task. *)
Run(d, task) ==
    /\ running' = [running EXCEPT ![d] = task]
    /\ codec' = [codec EXCEPT ![d] = backlog[d]]
    /\ backlog' = [backlog EXCEPT ![d] = <<>>]

(* What the task left of its backlog is prepended again. *)
Returned(d) ==
    /\ running' = [running EXCEPT ![d] = None]
    /\ backlog' = [backlog EXCEPT ![d] = codec[d] \o @]
    /\ codec' = [codec EXCEPT ![d] = <<>>]

-----------------------------------------------------------------------------
(* The contact controller *)

(* update.fromLocal: get in line for the contact. *)
RequestLocal(u) ==
    /\ u \in Local /\ status[u] = "new"
    /\ status' = [status EXCEPT ![u] = "queued"]
    /\ lock' = [lock EXCEPT ![Owner[u]] = Append(@, u)]
    /\ UNCHANGED <<stale, seenAtStart, applied, value, reflectedVars, taskVars, linkVars,
                   mediatorVars, up, down>>

(* The task of an incoming chat message starts; active tasks go first. *)
StartIncoming(u) ==
    LET d == Owner[u] IN
    /\ u \in Remote /\ status[u] = "new"
    /\ connected[d] /\ running[d] = None /\ tasks[d] = <<>>
    /\ Run(d, u)
    /\ UNCHANGED <<updateVars, contactVars, tasks, phase, linkVars, mediatorVars, up, down>>

(* It wants the contact to change (update.fromRemote) and gets in line. *)
UpdateFromRemote(u) ==
    /\ u \in Remote /\ status[u] = "new" /\ running[Owner[u]] = u
    /\ status' = [status EXCEPT ![u] = "queued"]
    /\ lock' = [lock EXCEPT ![Owner[u]] = Append(@, u)]
    /\ UNCHANGED <<stale, seenAtStart, applied, value, reflectedVars, taskVars, linkVars,
                   mediatorVars, up, down>>

Served(u) ==
    /\ status[u] = "queued" /\ Head(lock[Owner[u]]) = u

NoteVersion(u) ==
    /\ stale' = stale \ {u}
    /\ seenAtStart' = [seenAtStart EXCEPT ![u] = applied[Owner[u]]]

(* The executor of the lock notes the version of the contact and schedules *)
(* the sync task.                                                          *)
HoldLocal(u) ==
    LET d == Owner[u] IN
    /\ u \in Local /\ Served(u) /\ connected[d]
    /\ status' = [status EXCEPT ![u] = "held"]
    /\ NoteVersion(u)
    /\ tasks' = [tasks EXCEPT ![d] = Append(@, u)]
    /\ UNCHANGED <<contactVars, running, phase, codec, backlog, linkVars, mediatorVars, up, down>>

(* Without a connection, schedule aborts the volatile task. *)
AbortLocal(u) ==
    LET d == Owner[u] IN
    /\ u \in Local /\ Served(u) /\ ~connected[d]
    /\ status' = [status EXCEPT ![u] = "failed"]
    /\ lock' = [lock EXCEPT ![d] = Tail(@)]
    /\ UNCHANGED <<stale, seenAtStart, applied, value, reflectedVars, taskVars, linkVars,
                   mediatorVars, up, down>>

(* The running task of a chat message goes on to its transaction. *)
HoldRemote(u) ==
    LET d == Owner[u] IN
    /\ u \in Remote /\ Served(u)
    /\ status' = [status EXCEPT ![u] = "held"]
    /\ NoteVersion(u)
    /\ Phase(d, "begin") /\ Write(d, Bare("begin"))
    /\ UNCHANGED <<contactVars, tasks, running, codec, backlog, linkVars, mediatorVars, down>>

(* The main loop takes the sync task: the transaction begins. *)
StartTask(d) ==
    /\ connected[d] /\ running[d] = None /\ tasks[d] # <<>>
    /\ Run(d, Head(tasks[d]))
    /\ Phase(d, "begin") /\ Write(d, Bare("begin"))
    /\ UNCHANGED <<updateVars, contactVars, tasks, linkVars, mediatorVars, down>>

NoPrecondition(d) == TRUE

(* The contact was not updated since the version was noted. *)
Precondition(d) == running[d] \notin stale

SetToUpdate(d, entry) ==
    /\ stale' = stale \union {u \in Updates : Owner[u] = d /\ status[u] = "held"}
    /\ applied' = [applied EXCEPT ![d] = @ \union {entry}]
    /\ value' = [value EXCEPT ![d] = log[entry].update]

(* The contact takes the value of a log entry, and a new version: for an *)
(* update under way, the one it noted is stale.                          *)
Set(d, entry) ==
    /\ stale' = stale \union {u \in Updates : Owner[u] = d /\ status[u] = "held"}
    /\ applied' = [applied EXCEPT ![d] = @ \union {entry}]
    /\ value' = [value EXCEPT ![d] = entry]

(* The executor of the lock returns or throws; the next in line is served. *)
Finish(d, result) ==
    LET u == running[d] IN
    /\ status' = [status EXCEPT ![u] = result]
    /\ lock' = [lock EXCEPT ![d] = Tail(@)]
    /\ tasks' = [tasks EXCEPT ![d] = IF u \in Local THEN Tail(@) ELSE @]
    /\ Phase(d, "idle") /\ Returned(d)

-----------------------------------------------------------------------------
(* The connection *)

(* The connection of d is closed.  The queues are gone; a chat message that *)
(* was being processed will be received again; a sync task stays queued; a  *)
(* download goes on.                                                        *)
(* The mediator aborts an open transaction and tells the others.            *)
CloseConnection(d) ==
    LET u == running[d] IN
    /\ connected' = [connected EXCEPT ![d] = FALSE]
    /\ running' = [running EXCEPT ![d] = None] /\ Phase(d, "idle")
    /\ codec' = [codec EXCEPT ![d] = <<>>] /\ backlog' = [backlog EXCEPT ![d] = <<>>]
    /\ acking' = [acking EXCEPT ![d] = {}]
    /\ downloads' = [downloads EXCEPT ![d] = {}]
    /\ orphans' = [orphans EXCEPT ![d] = @ \union downloads[d]]
    /\ status' = [v \in Updates |-> IF v = u /\ u \in Remote THEN "new" ELSE status[v]]
    /\ lock' = [lock EXCEPT ![d] = IF u \in Remote THEN Without(@, u) ELSE @]
    /\ up' = [up EXCEPT ![d] = <<>>]
    /\ IF holder = d
       THEN /\ holder' = None /\ staged' = <<>>
            /\ down' = [e \in Devices |->
                          IF e = d THEN <<>>
                          ELSE IF connected[e] THEN Append(down[e], Bare("ended"))
                          ELSE down[e]]
       ELSE /\ down' = [down EXCEPT ![d] = <<>>] /\ UNCHANGED <<holder, staged>>

LoseConnection(d) ==
    /\ connected[d] /\ losses < MaxLosses
    /\ losses' = losses + 1
    /\ CloseConnection(d)
    /\ UNCHANGED <<stale, seenAtStart, applied, value, nonces, missed, tasks, log, mailbox>>

(* The new task manager aborts the volatile sync task, the mediator sends *)
(* what was not acknowledged.                                             *)
Reconnect(d) ==
    /\ ~connected[d]
    /\ connected' = [connected EXCEPT ![d] = TRUE]
    /\ down' = [down EXCEPT ![d] = [i \in DOMAIN mailbox[d] |-> Reflected(mailbox[d][i])]]
    /\ tasks' = [tasks EXCEPT ![d] = <<>>]
    /\ status' = [u \in Updates |->
                    IF \E i \in DOMAIN tasks[d] : tasks[d][i] = u THEN "failed" ELSE status[u]]
    /\ lock' = [lock EXCEPT ![d] = IF tasks[d] # <<>> THEN Tail(@) ELSE @]
    /\ UNCHANGED <<stale, seenAtStart, applied, value, reflectedVars,
                   running, phase, codec, backlog, losses, mediatorVars, up>>

-----------------------------------------------------------------------------
(* TaskCodec.transaction *)

QueueFirst(d) == down[d] = <<>>

(* read looks at the backlog of the task, then at the decoder queue. *)
FromBacklog(d) == codec[d] # <<>>

Reading(d) ==
    /\ phase[d] \in {"begin", "waiting", "execute", "commit", "skip"}
    /\ codec[d] \o down[d] # <<>>

Message(d) == IF FromBacklog(d) THEN Head(codec[d]) ELSE Head(down[d])

Consume(d) ==
    IF FromBacklog(d)
    THEN codec' = [codec EXCEPT ![d] = Tail(@)] /\ UNCHANGED down
    ELSE down' = [down EXCEPT ![d] = Tail(@)] /\ UNCHANGED codec

(* An acknowledgement that is due is written within microtasks: before an *)
(* answer of the mediator arrives, or an error has closed the connection.  *)
AcksWritten(d) == acking[d] = {}

(* The precondition does not hold: the caller of a local update gets an *)
(* error; thrown by the task of a chat message, it ends the connection. *)
Conflict(d) ==
    IF running[d] \in Local
    THEN Finish(d, "failed") /\ UNCHANGED <<downloads, orphans, acking, connected, up, holder, staged>>
    ELSE AcksWritten(d) /\ CloseConnection(d) /\ UNCHANGED tasks

ReadAck(d) ==
    /\ Reading(d) /\ phase[d] = "begin" /\ Message(d) = Bare("ack")
    /\ Consume(d) /\ Phase(d, "open")
    /\ UNCHANGED <<updateVars, contactVars, tasks, running, backlog, linkVars, mediatorVars, up>>

SkipWithoutCommit(d) == Phase(d, "skip") /\ UNCHANGED up

(* Without the precondition, the executor is skipped and the empty *)
(* transaction committed.                                          *)
Skip(d) == Phase(d, "skip") /\ Write(d, Bare("commit"))

(* A picture that was set here has to be uploaded before it is reflected; *)
(* one that a contact has sent is on the blob server already.              *)
Uploads(d) == running[d] \in Slow \intersect Local

Execute(d) == Phase(d, "execute") /\ Write(d, Msg("reflect", running[d]))

(* The lock is ours.  With messages left in the backlog of the task, it    *)
(* throws a ProtocolError.  The executor uploads a picture first: the lock *)
(* of the device group is held all the while, and nothing is read.         *)
OpenTransaction(d) ==
    /\ phase[d] = "open"
    /\ IF codec[d] # <<>>
       THEN CloseConnection(d)
       ELSE /\ IF Precondition(d)
               THEN IF Uploads(d) THEN Phase(d, "upload") /\ UNCHANGED up ELSE Execute(d)
               ELSE Skip(d)
            /\ UNCHANGED <<status, lock, downloads, orphans, acking, running, codec, backlog, connected,
                           holder, staged, down>>
    /\ UNCHANGED <<stale, seenAtStart, applied, value, nonces, missed, tasks, losses,
                   log, mailbox>>

(* The upload is over.  The precondition is not looked at again; an upload  *)
(* that failed throws into the main loop, which ends the connection.        *)
EndUpload(d) ==
    /\ phase[d] = "upload"
    /\ \/ /\ Execute(d)
          /\ UNCHANGED <<status, lock, downloads, orphans, acking, running, codec, backlog, connected,
                         holder, staged, down>>
       \/ CloseConnection(d)
    /\ UNCHANGED <<stale, seenAtStart, applied, value, nonces, missed, tasks, losses,
                   log, mailbox>>

ReadRejected(d) ==
    /\ Reading(d) /\ phase[d] = "begin" /\ Message(d) = Bare("rejected")
    /\ Consume(d) /\ Phase(d, "waiting")
    /\ UNCHANGED <<updateVars, contactVars, tasks, running, backlog, linkVars, mediatorVars, up>>

RetryWithoutBegin(d) == Phase(d, "begin") /\ UNCHANGED up

Retry(d) == Phase(d, "begin") /\ Write(d, Bare("begin"))

(* The other transaction has ended: try again, unless the precondition no *)
(* longer holds.                                                          *)
ReadEnded(d) ==
    /\ Reading(d) /\ phase[d] = "waiting" /\ Message(d) = Bare("ended")
    /\ IF Precondition(d)
       THEN /\ Consume(d) /\ Retry(d)
            /\ UNCHANGED <<status, lock, downloads, orphans, acking, tasks, running, backlog, connected, holder, staged>>
       ELSE /\ Conflict(d)
            /\ running[d] \in Local => down' = [down EXCEPT ![d] = Tail(@)]
    /\ UNCHANGED <<stale, seenAtStart, applied, value, nonces, missed, losses, log, mailbox>>

(* The executor has reflected the update. *)
ReadReflectAck(d) ==
    /\ Reading(d) /\ phase[d] = "execute" /\ Message(d) = Bare("reflectAck")
    /\ AcksWritten(d)
    /\ Consume(d) /\ Phase(d, "commit") /\ Write(d, Bare("commit"))
    /\ UNCHANGED <<updateVars, contactVars, tasks, running, backlog, linkVars, mediatorVars>>

(* The update is committed: only now the contact itself is updated. *)
ReadCommitAck(d) ==
    /\ Reading(d) /\ phase[d] = "commit" /\ Message(d).kind = "commitAck"
    /\ Set(d, Message(d).of) /\ Finish(d, "done")
    /\ down' = [down EXCEPT ![d] = Tail(@)]
    /\ UNCHANGED <<seenAtStart, reflectedVars, linkVars, mediatorVars, up>>

ReadSkipAck(d) ==
    /\ Reading(d) /\ phase[d] = "skip" /\ Message(d).kind = "commitAck"
    /\ Conflict(d)
    /\ running[d] \in Local => down' = [down EXCEPT ![d] = Tail(@)]
    /\ UNCHANGED <<stale, seenAtStart, applied, value, nonces, missed, losses, log, mailbox>>

(* Not for the transaction: into the backlog of the manager. *)
ReadOther(d) ==
    /\ Reading(d) /\ Message(d).kind = "ended" /\ phase[d] # "waiting"
    /\ Consume(d) /\ backlog' = [backlog EXCEPT ![d] = Append(@, Message(d))]
    /\ UNCHANGED <<updateVars, contactVars, tasks, running, phase, linkVars, mediatorVars, up>>

-----------------------------------------------------------------------------
(* Reflected updates *)

ApplyUnlessUpdating(d, entry) ==
    /\ acking' = [acking EXCEPT ![d] = @ \union {<<entry, TRUE>>}]
    /\ IF lock[d] = <<>> THEN Set(d, entry) ELSE UNCHANGED <<stale, applied, value>>
    /\ UNCHANGED downloads

(* ReflectedContactSyncTask sets the contact at once, whoever is reading,   *)
(* but a picture has to be downloaded first.  A message of which the nonce  *)
(* is known is discarded.                                                   *)
Apply(d, entry) ==
    IF entry \in nonces[d] \union downloads[d] \union orphans[d]
    THEN /\ acking' = [acking EXCEPT ![d] = @ \union {<<entry, FALSE>>}]
         /\ UNCHANGED <<stale, applied, value, downloads>>
    ELSE IF log[entry].update \in Slow
    THEN /\ downloads' = [downloads EXCEPT ![d] = @ \union {entry}]
         /\ UNCHANGED <<stale, applied, value, acking>>
    ELSE /\ Set(d, entry)
         /\ acking' = [acking EXCEPT ![d] = @ \union {<<entry, TRUE>>}]
         /\ UNCHANGED downloads

Applied(d, entry) == Set(d, entry) /\ UNCHANGED missed

(* The error of a download is logged and goes no further. *)
Missed(d, entry) ==
    /\ missed' = [missed EXCEPT ![d] = @ \union {entry}]
    /\ UNCHANGED <<stale, applied, value>>

(* The download is over.  If it failed, the update is acknowledged all the *)
(* same, though the contact has not taken it.  A task of an earlier        *)
(* connection can no longer acknowledge it.                                *)
FinishDownload(d, entry) ==
    /\ entry \in downloads[d] \union orphans[d]
    /\ Applied(d, entry) \/ Missed(d, entry)
    /\ acking' = [acking EXCEPT ![d] = @ \union (IF entry \in downloads[d] THEN {<<entry, TRUE>>} ELSE {})]
    /\ downloads' = [downloads EXCEPT ![d] = @ \ {entry}]
    /\ orphans' = [orphans EXCEPT ![d] = @ \ {entry}]
    /\ UNCHANGED <<status, seenAtStart, lock, nonces, taskVars, linkVars, mediatorVars, up, down>>

(* It bypasses a reading task ... *)
ReadReflected(d) ==
    /\ Reading(d) /\ Message(d).kind = "reflected"
    /\ Consume(d) /\ Apply(d, Message(d).of)
    /\ UNCHANGED <<status, seenAtStart, lock, orphans, nonces, missed, tasks, running, phase, backlog,
                   linkVars, mediatorVars, up>>

Idle(d) == connected[d] /\ running[d] = None /\ tasks[d] = <<>>

(* ... or is run by the main loop. *)
RunReflected(d) ==
    /\ Idle(d) /\ backlog[d] = <<>> /\ down[d] # <<>> /\ Head(down[d]).kind = "reflected"
    /\ Run(d, "reflected") /\ Apply(d, Head(down[d]).of)
    /\ down' = [down EXCEPT ![d] = Tail(@)]
    /\ UNCHANGED <<status, seenAtStart, lock, orphans, nonces, missed, tasks, phase, linkVars, mediatorVars, up>>

(* The main loop ignores the other messages. *)
Ignore(d) ==
    /\ Idle(d) /\ backlog[d] \o down[d] # <<>>
    /\ IF backlog[d] # <<>>
       THEN backlog' = [backlog EXCEPT ![d] = Tail(@)] /\ UNCHANGED down
       ELSE /\ Head(down[d]).kind # "reflected"
            /\ down' = [down EXCEPT ![d] = Tail(@)] /\ UNCHANGED backlog
    /\ UNCHANGED <<updateVars, contactVars, tasks, running, phase, codec, linkVars,
                   mediatorVars, up>>

(* ReflectedTask acknowledges in the order of arrival, downloads apart, then *)
(* commits the nonce.  The task of the main loop is the one that arrived     *)
(* last.                                                                     *)
Acknowledge(d, entry, guarded) ==
    /\ <<entry, guarded>> \in acking[d]
    /\ \A a \in acking[d] : a[1] < entry => log[a[1]].update \in Slow
    /\ Write(d, Msg("ack", entry))
    /\ acking' = [acking EXCEPT ![d] = @ \ {<<entry, guarded>>}]
    /\ nonces' = [nonces EXCEPT ![d] = IF guarded THEN @ \union {entry} ELSE @]
    /\ IF /\ running[d] = "reflected"
          /\ \A e \in downloads[d] \union {a[1] : a \in acking[d]} : e <= entry
       THEN Returned(d)
       ELSE UNCHANGED <<running, codec, backlog>>
    /\ UNCHANGED <<updateVars, lock, applied, value, downloads, orphans, missed, tasks,
                   phase, linkVars, mediatorVars, down>>

-----------------------------------------------------------------------------
(* The mediator *)

Answer(d, message) == down' = [down EXCEPT ![d] = Append(@, message)]

Begin(d) ==
    /\ IF holder = None
       THEN holder' = d /\ Answer(d, Bare("ack"))
       ELSE UNCHANGED holder /\ Answer(d, Bare("rejected"))
    /\ UNCHANGED <<staged, log, mailbox>>

Stage(d, update) ==
    /\ staged' = Append(staged, update) /\ Answer(d, Bare("reflectAck"))
    /\ UNCHANGED <<holder, log, mailbox>>

(* What was staged is reflected to the other devices, then they are told *)
(* that the transaction has ended.                                       *)
Commit(d) ==
    LET entry   == Len(log) + 1
        entries == IF staged = <<>> THEN <<>> ELSE <<entry>>
        news    == [i \in DOMAIN entries |-> Reflected(entries[i])] \o <<Bare("ended")>>
    IN
    /\ log' = log \o [i \in DOMAIN staged |->
                        [update |-> staged[i], seen |-> seenAtStart[staged[i]]]]
    /\ mailbox' = [e \in Devices |-> IF e = d THEN mailbox[e] ELSE mailbox[e] \o entries]
    /\ down' = [e \in Devices |->
                  IF e = d THEN Append(down[e], Msg("commitAck", Len(log) + Len(staged)))
                  ELSE IF connected[e] THEN down[e] \o news
                  ELSE down[e]]
    /\ holder' = None /\ staged' = <<>>

Receive(d) ==
    /\ up[d] # <<>>
    /\ up' = [up EXCEPT ![d] = Tail(@)]
    /\ LET m == Head(up[d]) IN
       \/ m.kind = "begin" /\ Begin(d)
       \/ m.kind = "reflect" /\ Stage(d, m.of)
       \/ m.kind = "commit" /\ Commit(d)
       \/ /\ m.kind = "ack"
          /\ mailbox' = [mailbox EXCEPT ![d] = Without(@, m.of)]
          /\ UNCHANGED <<holder, staged, log, down>>
    /\ UNCHANGED <<updateVars, contactVars, taskVars, linkVars>>

-----------------------------------------------------------------------------

Controller(u) ==
    \/ UpdateFromRemote(u) \/ HoldLocal(u) \/ AbortLocal(u) \/ HoldRemote(u)

Transaction(d) ==
    \/ StartTask(d) \/ ReadAck(d) \/ OpenTransaction(d) \/ ReadRejected(d) \/ ReadEnded(d)
    \/ ReadReflectAck(d) \/ ReadCommitAck(d) \/ ReadSkipAck(d) \/ ReadOther(d)
    \/ ReadReflected(d) \/ RunReflected(d) \/ Ignore(d)

Reflection(d) == \E a \in acking[d] : Acknowledge(d, a[1], a[2])

(* The blob server answers, or fails, at any time. *)
Blobs(d) ==
    \/ EndUpload(d)
    \/ \E entry \in downloads[d] \union orphans[d] : FinishDownload(d, entry)

Next ==
    \/ \E u \in Updates : RequestLocal(u) \/ StartIncoming(u) \/ Controller(u)
    \/ \E d \in Devices :
        \/ Transaction(d) \/ Reflection(d) \/ Blobs(d) \/ Receive(d)
        \/ LoseConnection(d) \/ Reconnect(d)

Spec == Init /\ [][Next]_vars

(* The microtasks of a device and the mediator go on; nobody has to make an *)
(* update, no connection has to be lost, and, as nothing limits the time of *)
(* an upload or a download, the blob server does not have to answer.        *)
Fairness ==
    /\ \A u \in Updates : WF_vars(Controller(u))
    /\ \A d \in Devices :
        /\ WF_vars(Transaction(d)) /\ WF_vars(Reflection(d))
        /\ WF_vars(Receive(d)) /\ WF_vars(Reconnect(d))

FairSpec == Spec /\ Fairness
-----------------------------------------------------------------------------
(* Properties *)

(* From the moment an update has the lock of the contact, nothing gets past *)
(* it: whatever the other devices committed before it, the contact had seen *)
(* by then, pictures that had yet to be downloaded apart.  (What the user   *)
(* saw when making the change is another matter: the change waits for the   *)
(* lock, and what arrives meanwhile is overwritten.)                        *)
NothingMissedSinceLock ==
    \A i, j \in DOMAIN log :
        /\ j < i /\ Owner[log[j].update] # Owner[log[i].update]
        /\ log[j].update \notin Slow
        => j \in log[i].seen

(* "Ensure no incoming messages are backlogged for the task.  This cannot   *)
(* be the case" (manager.ts, transaction): when a transaction is open, the  *)
(* task has read its whole backlog.                                         *)
NoPendingBacklog == \A d \in Devices : phase[d] = "open" => codec[d] = <<>>

(* Nothing is under way, except for what nobody has asked for. *)
Quiet ==
    /\ holder = None
    /\ \A d \in Devices :
        /\ connected[d] /\ lock[d] = <<>> /\ mailbox[d] = <<>>
        /\ downloads[d] = {} /\ orphans[d] = {} /\ acking[d] = {}
        /\ up[d] = <<>> /\ down[d] = <<>>

(* The entries that d has to know: all but its own ones that were committed *)
(* without d learning of it.                                                *)
Confirmed(d) ==
    {i \in DOMAIN log : Owner[log[i].update] # d \/ i \in applied[d]}

(* In the end a device has applied every update of the others of which it   *)
(* did not fail to download the picture, and, unless there were pictures,   *)
(* it has the value that was committed last, of those whose commit was      *)
(* acknowledged to it.                                                      *)
ConvergesUnlessMissed ==
    Quiet => \A d \in Devices :
        /\ Confirmed(d) \subseteq applied[d] \union missed[d]
        /\ \/ \E i \in DOMAIN log : log[i].update \in Slow
           \/ \A i \in Confirmed(d) : i <= value[d]

NotUploading(d) == phase[d] # "upload"

(* A transaction keeps the device group lock for as long as it uploads a    *)
(* picture, for which nothing sets a limit, and for no other reason.        *)
LockReleased == \A d \in Devices : []<>NotUploading(d) => []<>(holder # d)

(* As long as uploads come to an end, so does every transaction, also one   *)
(* that was rejected and has to wait: it is committed, gives up, or goes    *)
(* with the connection.                                                     *)
TransactionEnds ==
    (\A e \in Devices : []<>NotUploading(e)) => \A d \in Devices : []<>(phase[d] = "idle")

(* "A promise that resolves once the task has been processed" (manager.ts,  *)
(* schedule): an update by the user succeeds or fails, in the end.          *)
LocalUpdateSettles ==
    \A u \in Local : status[u] = "held" ~> status[u] \in {"done", "failed"}
=============================================================================
