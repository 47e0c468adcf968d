-------------------------- MODULE IncomingMessage --------------------------
(***************************************************************************)
(* What becomes of the messages the chat server holds for the user:        *)
(* IncomingMessageTask (network/protocol/task/csp/incoming-message.ts),    *)
(* the nonces it guards (crypto/nonce.ts), and the messages that another   *)
(* device processed and reflected (d2d/reflected-incoming-message.ts).     *)
(*                                                                         *)
(* A delivery is a message with its nonce: the sender may send a message   *)
(* again with a new one.  The device loses its connection, or the program  *)
(* is restarted; meanwhile another device may become the leader.           *)
(* A task that waits for something other than the connection (a request to *)
(* the directory, a download) outlives it: there is a task per connection. *)
(***************************************************************************)
EXTENDS Naturals

CONSTANTS
    Deliveries,     \* deliveries the chat server holds at first
    Ids, Id,        \* messages, and the one a delivery carries
    Control,        \* deliveries that update something: the others are
                    \* conversation messages
    Rejected,       \* may be discarded by the validation, or by the group
                    \* receive steps: a blocked contact, an unknown group
    Unknown,        \* of a type that is not known
    Waits,          \* wait for the directory or a download while they hold
                    \* the nonce: messages of groups, and updates
    Downloads,      \* the updates that wait for the download of a picture
    None,           \* no delivery
    LeaderMoves,    \* whether other devices may take over
    MaxLosses       \* bound on connection losses and restarts

ASSUME IncomingMessageAssumption ==
    /\ Id \in [Deliveries -> Ids]
    /\ Control \subseteq Deliveries /\ Unknown \subseteq Deliveries
    /\ Rejected \subseteq Deliveries
    /\ Waits \subseteq Deliveries \ Unknown
    /\ Downloads \subseteq Waits \intersect Control
    /\ None \notin Deliveries
    /\ LeaderMoves \in BOOLEAN
    /\ MaxLosses \in Nat

VARIABLES
    server,         \* deliveries the chat server holds
    delivered,      \* those it has sent on this connection
    connected,
    connection,     \* number of the connection
    losses,
    tasks,          \* the task of each connection
    nonces,         \* nonces in the database
    saves,          \* how often a message was added to its conversation
    updated,        \* deliveries whose update was made
    frame,          \* what the running task has sent and waits for
    acks,           \* acknowledgements on their way to the chat server
    dropped,        \* deliveries that validation has discarded (history)
    receipts,       \* delivery receipts the chat server got, by message
    known,          \* deliveries of which the other devices have the nonce
    mailbox         \* mediator: reflected by the others

linkVars == <<delivered, connected, connection, losses>>
storeVars == <<nonces, saves, updated>>
sentVars == <<frame, acks, receipts>>
otherVars == <<known, mailbox>>
vars == <<server, linkVars, tasks, storeVars, sentVars, dropped, otherVars>>

-----------------------------------------------------------------------------

Connections == 1 .. MaxLosses + 1
Steps == {"none", "lookup", "prepare", "reflect", "process", "ack", "receipt", "answer", "discard"}

(* A task: its delivery, its step, and whether it holds a nonce guard. *)
Task(delivery, step, guard) == [of |-> delivery, at |-> step, guard |-> guard]
NoTask == Task(None, "none", FALSE)

TypeOK ==
    /\ server \subseteq Deliveries /\ delivered \subseteq Deliveries
    /\ connected \in BOOLEAN /\ connection \in Connections /\ losses \in 0 .. MaxLosses
    /\ tasks \in [Connections -> [of : Deliveries \union {None}, at : Steps, guard : BOOLEAN]]
    /\ nonces \subseteq Deliveries /\ updated \subseteq Deliveries
    /\ saves \in [Ids -> Nat] /\ receipts \in [Ids -> Nat]
    /\ frame \in {"none", "sent", "stored"}
    /\ acks \subseteq Deliveries /\ dropped \subseteq Deliveries
    /\ known \subseteq Deliveries /\ mailbox \subseteq Deliveries

Init ==
    /\ server = Deliveries /\ delivered = {}
    /\ connected = TRUE /\ connection = 1 /\ losses = 0
    /\ tasks = [c \in Connections |-> NoTask]
    /\ nonces = {} /\ saves = [i \in Ids |-> 0] /\ updated = {}
    /\ frame = "none" /\ acks = {} /\ dropped = {}
    /\ receipts = [i \in Ids |-> 0]
    /\ known = {} /\ mailbox = {}

(* The task of connection c can still read and write. *)
Online(c) == connected /\ c = connection

LeaveGuard(c) == tasks' = [tasks EXCEPT ![c].at = "none"]

LeaveTask(c) == tasks' = [tasks EXCEPT ![c].at = "discarded"]

Go(c, step, guard) == tasks' = [tasks EXCEPT ![c] = Task(@.of, step, guard)]

(* The task ends; what it did not commit it discards. *)
Stop(c) == tasks' = [tasks EXCEPT ![c] = NoTask]

-----------------------------------------------------------------------------
(* Nonces *)

Registered == {tasks[c].of : c \in {e \in Connections : tasks[e].guard}}

CommittedOnly == nonces

(* NonceRegistry: registered in memory, or committed to the database. *)
Reused == Registered \union nonces

NeverCommitted(delivery) == nonces

Commit(delivery) == nonces \union {delivery}

-----------------------------------------------------------------------------
(* The task *)

(* The mediator lets the chat server send when this device is the leader, *)
(* which it becomes once it has received what was reflected.              *)
Receive(delivery) ==
    /\ connected /\ mailbox = {}
    /\ tasks[connection].at = "none"
    /\ delivery \in server \ delivered
    /\ tasks' = [tasks EXCEPT ![connection] = Task(delivery, "lookup", FALSE)]
    /\ delivered' = delivered \union {delivery}
    /\ UNCHANGED <<server, connected, connection, losses, storeVars, sentVars, dropped, otherVars>>

(* The sender was looked up; the message is decrypted, which needs a fresh *)
(* nonce.  What cannot be decrypted is discarded like what validation      *)
(* rejects (a blocked contact, invalid content); a message of an unknown   *)
(* type is left alone.                                                     *)
FinishLookup(c) ==
    LET delivery == tasks[c].of
        reused   == delivery \in Reused
    IN
    /\ tasks[c].at = "lookup"
    /\ \/ /\ reused \/ delivery \in Rejected
          /\ \E guard \in {FALSE, ~reused} :
                IF Online(c) THEN Go(c, "discard", guard) ELSE Stop(c)
          /\ dropped' = IF reused THEN dropped ELSE dropped \union {delivery}
       \/ /\ ~reused /\ delivery \in Unknown
          /\ Stop(c) /\ UNCHANGED dropped
       \/ /\ ~reused /\ delivery \notin Unknown
          /\ IF Online(c) \/ delivery \in Waits THEN Go(c, "prepare", TRUE) ELSE Stop(c)
          /\ UNCHANGED dropped
    /\ UNCHANGED <<server, linkVars, storeVars, sentVars, otherVars>>

(* The contact is updated, the group receive steps are done; then the *)
(* message is reflected, unless these steps discard it.               *)
FinishPrepare(c) ==
    LET delivery == tasks[c].of IN
    /\ tasks[c].at = "prepare"
    /\ \/ /\ IF Online(c)
             THEN Go(c, "reflect", TRUE) /\ frame' = "sent"
             ELSE Stop(c) /\ UNCHANGED frame
          /\ UNCHANGED dropped
       \/ /\ Online(c) /\ delivery \in Rejected
          /\ Go(c, "discard", TRUE)
          /\ dropped' = dropped \union {delivery} /\ UNCHANGED frame
    /\ UNCHANGED <<server, linkVars, storeVars, acks, receipts, otherVars>>

(* The answers of the servers to what the running task has sent. *)
Store ==
    LET task == tasks[connection] IN
    /\ connected /\ frame = "sent"
    /\ frame' = "stored"
    /\ \/ /\ task.at = "reflect"
          /\ known' = known \union {task.of}
          /\ UNCHANGED receipts
       \/ /\ task.at = "answer" /\ task.of \notin acks
          /\ receipts' = [receipts EXCEPT ![Id[task.of]] = @ + 1]
          /\ UNCHANGED known
    /\ UNCHANGED <<server, linkVars, tasks, storeVars, acks, dropped, mailbox>>

WrittenOnly == frame # "none"

Answered == frame = "stored"

ReflectAcked(c) ==
    /\ Online(c) /\ tasks[c].at = "reflect" /\ Answered
    /\ Go(c, "process", TRUE) /\ frame' = "none"
    /\ UNCHANGED <<server, linkVars, storeVars, acks, dropped, receipts, otherVars>>

(* A download that fails is logged and given up: the update is not made. *)
Download(delivery) ==
    \/ updated' = updated \union {delivery}
    \/ delivery \in Downloads /\ UNCHANGED updated

NoMessage(id) == FALSE

HasMessage(id) == saves[id] > 0

(* The message is added to its conversation, unless it is already there, *)
(* or the subtask makes the update, which takes the connection.          *)
Process(c) ==
    LET delivery == tasks[c].of IN
    /\ tasks[c].at = "process"
    /\ \/ /\ delivery \in Control
          /\ IF Online(c)
             THEN Download(delivery) /\ Go(c, "ack", TRUE)
             ELSE Stop(c) /\ UNCHANGED updated
          /\ UNCHANGED saves
       \/ /\ delivery \notin Control /\ HasMessage(Id[delivery])
          /\ Go(c, "discard", TRUE)
          /\ UNCHANGED <<saves, updated>>
       \/ /\ delivery \notin Control /\ ~HasMessage(Id[delivery])
          /\ saves' = [saves EXCEPT ![Id[delivery]] = @ + 1] /\ Go(c, "ack", TRUE)
          /\ UNCHANGED updated
    /\ UNCHANGED <<server, linkVars, nonces, sentVars, dropped, otherVars>>

ForgetAck(delivery) == UNCHANGED acks

WriteAck(delivery) == acks' = acks \union {delivery}

Acknowledge(c) ==
    LET delivery == tasks[c].of IN
    /\ Online(c) /\ tasks[c].at = "ack"
    /\ WriteAck(delivery)
    /\ IF delivery \in Control
       THEN Stop(c) /\ nonces' = Commit(delivery)
       ELSE Go(c, "receipt", TRUE) /\ UNCHANGED nonces
    /\ UNCHANGED <<server, linkVars, saves, updated, frame, dropped, receipts, otherVars>>

SendReceipt(c) ==
    /\ Online(c) /\ tasks[c].at = "receipt"
    /\ Go(c, "answer", TRUE) /\ frame' = "sent"
    /\ UNCHANGED <<server, linkVars, storeVars, acks, dropped, receipts, otherVars>>

ReceiptAcked(c) ==
    /\ Online(c) /\ tasks[c].at = "answer" /\ Answered
    /\ Stop(c) /\ nonces' = Commit(tasks[c].of) /\ frame' = "none"
    /\ UNCHANGED <<server, linkVars, saves, updated, acks, dropped, receipts, otherVars>>

(* _discard acknowledges, and commits the nonce if it has one. *)
Discard(c) ==
    LET task == tasks[c] IN
    /\ Online(c) /\ task.at = "discard"
    /\ WriteAck(task.of)
    /\ nonces' = IF task.guard THEN Commit(task.of) ELSE nonces
    /\ Stop(c)
    /\ UNCHANGED <<server, linkVars, saves, updated, frame, dropped, receipts, otherVars>>

ServerForgets(delivery) ==
    /\ delivery \in acks
    /\ acks' = acks \ {delivery} /\ server' = server \ {delivery}
    /\ dropped' = dropped \ {delivery}
    /\ UNCHANGED <<linkVars, tasks, storeVars, frame, receipts, otherVars>>

-----------------------------------------------------------------------------
(* Failures, and the other devices *)

Closed ==
    /\ connected' = FALSE /\ losses' = losses + 1
    /\ frame' = "none" /\ acks' = {}
    /\ UNCHANGED <<server, delivered, connection, storeVars, dropped, receipts, otherVars>>

(* Does the task of connection c wait for something else?  The group       *)
(* receive steps look up the creator of the group, an update the members   *)
(* of a group, or it downloads a picture.                                  *)
Outlives(c) ==
    \/ tasks[c].at = "lookup"
    \/ tasks[c].at = "prepare" /\ tasks[c].of \in Waits
    \/ tasks[c].at = "process" /\ tasks[c].of \in Waits \intersect Control

(* A task that uses the connection gets an error, and discards its nonce. *)
LoseConnection ==
    /\ connected /\ losses < MaxLosses
    /\ Closed
    /\ IF Outlives(connection) THEN UNCHANGED tasks ELSE Stop(connection)

(* An error of the directory ends the connection. *)
LookupFails(c) ==
    /\ Outlives(c) /\ Stop(c)
    /\ tasks[c].at = "process" => tasks[c].of \notin Downloads
    /\ \/ Online(c) /\ losses < MaxLosses /\ Closed
       \/ ~Online(c) /\ UNCHANGED <<server, linkVars, storeVars, sentVars, dropped, otherVars>>

(* Only the database survives. *)
Restart ==
    /\ connected /\ losses < MaxLosses
    /\ Closed
    /\ tasks' = [c \in Connections |-> NoTask]

Connect ==
    /\ ~connected
    /\ connected' = TRUE /\ connection' = connection + 1
    /\ delivered' = {}
    /\ UNCHANGED <<server, losses, tasks, storeVars, sentVars, dropped, otherVars>>

(* Another leader has the message from us: it has the nonce, and discards *)
(* it.  Otherwise it reflects it, and may lose its connection before it   *)
(* acknowledges it.                                                       *)
OtherLeader(delivery) ==
    /\ LeaderMoves /\ ~connected
    /\ delivery \in server \ Unknown
    /\ \/ server' = server \ {delivery}
       \/ delivery \notin known /\ UNCHANGED server
    /\ mailbox' = IF delivery \in known THEN mailbox ELSE mailbox \union {delivery}
    /\ known' = known \union {delivery}
    /\ UNCHANGED <<linkVars, tasks, storeVars, sentVars, dropped>>

(* ReflectedIncomingMessageTask commits the nonce if it is fresh, and goes *)
(* on in any case.                                                         *)
ReadReflected(delivery) ==
    /\ connected /\ delivery \in mailbox
    /\ mailbox' = mailbox \ {delivery}
    /\ nonces' = IF delivery \in Reused THEN nonces ELSE Commit(delivery)
    /\ IF delivery \in Control
       THEN Download(delivery) /\ UNCHANGED saves
       ELSE /\ saves' = [saves EXCEPT ![Id[delivery]] = IF HasMessage(Id[delivery]) THEN @ ELSE @ + 1]
            /\ UNCHANGED updated
    /\ UNCHANGED <<server, linkVars, tasks, sentVars, dropped, known>>

-----------------------------------------------------------------------------

Run(c) ==
    \/ FinishLookup(c) \/ FinishPrepare(c) \/ ReflectAcked(c) \/ Process(c)
    \/ Acknowledge(c) \/ SendReceipt(c) \/ ReceiptAcked(c) \/ Discard(c)

Servers ==
    \/ Store
    \/ \E delivery \in Deliveries : ServerForgets(delivery) \/ ReadReflected(delivery)

Next ==
    \/ \E delivery \in Deliveries : Receive(delivery) \/ OtherLeader(delivery)
    \/ \E c \in Connections : Run(c) \/ LookupFails(c)
    \/ Servers \/ LoseConnection \/ Restart \/ Connect

Spec == Init /\ [][Next]_vars

(* The servers answer, the microtasks run, requests and downloads end,     *)
(* and the connection manager connects again.                              *)
Fairness ==
    /\ WF_vars(Servers) /\ WF_vars(Connect)
    /\ \A c \in Connections : WF_vars(Run(c))
    /\ \A delivery \in Deliveries : WF_vars(Receive(delivery))

FairSpec == Spec /\ Fairness

-----------------------------------------------------------------------------
(* Properties *)

Done(delivery) ==
    IF delivery \in Control THEN delivery \in updated ELSE HasMessage(Id[delivery])

(* A message appears once in its conversation, however often it is sent,   *)
(* delivered or reflected.                                                 *)
SavedOnce == \A i \in Ids : saves[i] <= 1

(* "If the processing of an incoming message does not complete             *)
(* successfully, the message will not be acked and will be re-processed    *)
(* later" (incoming-message.ts): what this device acknowledges, it has     *)
(* processed, or discarded after validation.                               *)
AckedIsDone == acks \subseteq {d \in Deliveries : Done(d)} \union dropped

(* A message is acknowledged undone in two cases only: its picture could   *)
(* not be downloaded, or a connection was lost while it waited for         *)
(* something else, and it was taken for a duplicate of itself on another.  *)
MayBeUndone == Downloads \union {d \in Waits : losses > 0}

AckedOrWaits == acks \subseteq {d \in Deliveries : Done(d)} \union dropped \union MayBeUndone

(* What this device has processed, the other devices have received.        *)
DoneIsShared ==
    \A d \in Deliveries :
        Done(d) => \E e \in known : Id[e] = Id[d]

(* The sender gets at most one delivery receipt for a message.             *)
ReceiptOnce == \A i \in Ids : receipts[i] <= 1

(* In the end the chat server holds nothing that could be processed.       *)
InboxEmpties == <>[](server \subseteq Unknown)
=============================================================================
