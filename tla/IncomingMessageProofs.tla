----------------------- MODULE IncomingMessageProofs -----------------------
(* Proofs about IncomingMessage, for all deliveries and any number of      *)
(* connection losses.                                                      *)
EXTENDS IncomingMessage, TLAPS

-----------------------------------------------------------------------------
(* The inductive invariant *)

(* Connections are counted by the losses between them. *)
CountInv ==
    /\ connected => connection = losses + 1
    /\ ~connected => connection = losses /\ frame = "none" /\ acks = {}

(* Of a task whose connection is gone, only the steps that wait for         *)
(* something else are left; the connections to come have no task.           *)
TaskInv ==
    \A c \in Connections :
        /\ tasks[c].at # "none" => tasks[c].of \in Deliveries
        /\ tasks[c].at \in {"none", "lookup"} => ~tasks[c].guard
        /\ c > connection => tasks[c].at = "none"
        /\ ~Online(c) =>
              \/ tasks[c].at \in {"none", "lookup"}
              \/ tasks[c].at = "prepare" /\ tasks[c].of \in Waits
              \/ tasks[c].at = "process" /\ tasks[c].of \in Waits \intersect Control

(* The other devices know of a message before this device processes it. *)
SharedInv ==
    /\ mailbox \subseteq known /\ updated \subseteq known
    /\ \A i \in Ids : saves[i] > 0 => \E e \in known : Id[e] = i
    /\ \A c \in Connections :
           tasks[c].at \in {"process", "ack", "receipt", "answer"} => tasks[c].of \in known
    /\ connected /\ tasks[connection].at = "reflect" /\ frame = "stored" =>
           tasks[connection].of \in known

DoneOrGivenUp(delivery) == Done(delivery) \/ delivery \in Downloads

(* What is about to be acknowledged has been processed, unless its picture  *)
(* could not be downloaded, and its receipt has not been sent yet.          *)
ReceiptInv ==
    /\ \A i \in Ids : receipts[i] <= saves[i]
    /\ \A c \in Connections :
           /\ tasks[c].at \in {"ack", "receipt", "answer"} => DoneOrGivenUp(tasks[c].of)
           /\ tasks[c].at \in {"receipt", "answer"} => tasks[c].of \notin Control
           /\ \/ tasks[c].at \in {"ack", "receipt"}
              \/ tasks[c].at = "answer" /\ frame # "stored"
              => tasks[c].of \in Control \/ receipts[Id[tasks[c].of]] = 0

Settled == {d \in Deliveries : Done(d)} \union dropped \union MayBeUndone

(* What the running task has not acknowledged, the chat server still holds; *)
(* every other nonce in the database belongs to a message that is settled.  *)
AckInv ==
    /\ acks \subseteq delivered /\ acks \subseteq Settled
    /\ nonces \intersect server \subseteq Settled
    /\ connected /\ tasks[connection].at # "none" => tasks[connection].of \in delivered
    /\ connected /\ tasks[connection].at \notin {"none", "receipt", "answer"} =>
           tasks[connection].of \in server \ acks
    /\ connected /\ tasks[connection].at = "discard" => tasks[connection].of \in Settled

IndInv == TypeOK /\ CountInv /\ TaskInv /\ SharedInv /\ SavedOnce /\ ReceiptInv /\ AckInv


-----------------------------------------------------------------------------
(* What the steps do to the tasks *)

TaskRecords == [of : Deliveries \union {None}, at : Steps, guard : BOOLEAN]

LEMMA TasksType ==
    ASSUME TypeOK
    PROVE  /\ tasks \in [Connections -> TaskRecords]
           /\ NoTask \in TaskRecords
           /\ \A delivery \in Deliveries \union {None}, step \in Steps, guard \in BOOLEAN :
                  Task(delivery, step, guard) \in TaskRecords
  BY DEF TypeOK, TaskRecords, Task, NoTask, Steps

(* A task that goes on, or stops, is still a task. *)
LEMMA TasksUpdate ==
    ASSUME TypeOK, NEW c \in Connections
    PROVE  /\ Stop(c) => tasks' \in [Connections -> TaskRecords]
           /\ \A step \in Steps, guard \in BOOLEAN :
                  Go(c, step, guard) => tasks' \in [Connections -> TaskRecords]
  <1>1. tasks[c].of \in Deliveries \union {None}
    BY TasksType DEF TaskRecords
  <1>. QED
    BY <1>1, TasksType DEF Stop, Go

(* FinishLookup stops the task, discards its delivery or prepares it. *)
LEMMA LookupOutcome ==
    ASSUME IncomingMessageAssumption, TypeOK, TaskInv, NEW c \in Connections, FinishLookup(c)
    PROVE  /\ tasks[c].at = "lookup" /\ tasks[c].of \in Deliveries
           /\ dropped \subseteq dropped' /\ dropped' \subseteq Deliveries
           /\ \/ Stop(c)
              \/ /\ Online(c) /\ tasks[c].of \in Reused \union dropped'
                 /\ \E guard \in BOOLEAN : Go(c, "discard", guard)
              \/ /\ Online(c) \/ tasks[c].of \in Waits
                 /\ Go(c, "prepare", TRUE)
           /\ UNCHANGED <<server, linkVars, storeVars, sentVars, otherVars>>
  <1>1. tasks[c].at = "lookup" /\ tasks[c].of \in Deliveries
    BY DEF FinishLookup, TaskInv
  <1>2. dropped \subseteq dropped' /\ dropped' \subseteq Deliveries
    BY <1>1 DEF FinishLookup, TypeOK
  <1>. DEFINE reused == tasks[c].of \in Reused
  <1>3. CASE /\ reused \/ tasks[c].of \in Rejected
             /\ \E guard \in {FALSE, ~reused} :
                   IF Online(c) THEN Go(c, "discard", guard) ELSE Stop(c)
             /\ dropped' = IF reused THEN dropped ELSE dropped \union {tasks[c].of}
    <2>1. reused \in BOOLEAN
      OBVIOUS
    <2>2. PICK guard \in {FALSE, ~reused} : IF Online(c) THEN Go(c, "discard", guard) ELSE Stop(c)
      BY <1>3
    <2>3. guard \in BOOLEAN
      BY <2>1, <2>2
    <2>4. tasks[c].of \in Reused \union dropped'
      BY <1>3
    <2>. QED
      BY <1>1, <1>2, <2>2, <2>3, <2>4 DEF FinishLookup
  <1>4. CASE ~reused /\ Stop(c)
    BY <1>1, <1>2, <1>4 DEF FinishLookup
  <1>5. CASE /\ ~reused
             /\ IF Online(c) \/ tasks[c].of \in Waits THEN Go(c, "prepare", TRUE) ELSE Stop(c)
    BY <1>1, <1>2, <1>5 DEF FinishLookup
  <1>. QED
    BY <1>3, <1>4, <1>5 DEF FinishLookup

(* The connection is closed: what the servers hold stays. *)
LEMMA ClosedType ==
    ASSUME IncomingMessageAssumption, TypeOK, losses < MaxLosses, Closed,
           tasks' \in [Connections -> TaskRecords]
    PROVE  TypeOK'
  <1>1. losses' \in 0 .. MaxLosses
    BY DEF IncomingMessageAssumption, TypeOK, Closed
  <1>2. /\ connected' \in BOOLEAN /\ frame' \in {"none", "sent", "stored"} /\ acks' \subseteq Deliveries
        /\ UNCHANGED <<server, delivered, connection, nonces, saves, updated, dropped, receipts, known, mailbox>>
    BY DEF Closed, storeVars, otherVars
  <1>. QED
    BY ONLY <1>1, <1>2, TypeOK, tasks' \in [Connections -> TaskRecords], Connections' = Connections
    DEF TypeOK, TaskRecords, Connections

(* A step of one task leaves the others alone. *)
LEMMA TaskChanges ==
    ASSUME TypeOK, NEW c \in Connections
    PROVE  /\ Stop(c) =>
                  /\ tasks'[c].at = "none" /\ tasks'[c].guard = FALSE
                  /\ \A e \in Connections \ {c} : tasks'[e] = tasks[e]
           /\ \A step, guard : Go(c, step, guard) =>
                  /\ tasks'[c].at = step /\ tasks'[c].guard = guard
                  /\ tasks'[c].of = tasks[c].of
                  /\ \A e \in Connections \ {c} : tasks'[e] = tasks[e]
  BY TasksType DEF Stop, Go, Task, NoTask

(* A request that fails stops its task, and its connection if it has one. *)
LEMMA FailOutcome ==
    ASSUME IncomingMessageAssumption, TypeOK, NEW c \in Connections, LookupFails(c)
    PROVE  /\ tasks'[c].at = "none" /\ tasks'[c].guard = FALSE
           /\ \A e \in Connections \ {c} : tasks'[e] = tasks[e]
           /\ UNCHANGED <<server, delivered, connection, nonces, saves, updated, dropped,
                          receipts, known, mailbox>>
           /\ \/ UNCHANGED <<connected, losses, frame, acks>>
              \/ /\ Online(c) /\ losses' = losses + 1 /\ connected' = FALSE
                 /\ frame' = "none" /\ acks' = {}
  <1>1. /\ tasks'[c].at = "none" /\ tasks'[c].guard = FALSE
        /\ \A e \in Connections \ {c} : tasks'[e] = tasks[e]
    BY TaskChanges DEF LookupFails
  <1>. QED
    BY <1>1 DEF LookupFails, Closed, linkVars, storeVars, sentVars, otherVars

(* Process saves the message, makes the update, discards a message that is *)
(* already there, or stops with its connection.                            *)
LEMMA ProcessOutcome ==
    ASSUME IncomingMessageAssumption, TypeOK, TaskInv, NEW c \in Connections, Process(c)
    PROVE  /\ tasks[c].at = "process" /\ tasks[c].of \in Deliveries /\ Id[tasks[c].of] \in Ids
           /\ saves' \in [Ids -> Nat] /\ updated \subseteq updated' /\ updated' \subseteq Deliveries
           /\ \A i \in Ids : saves'[i] >= saves[i]
           /\ \/ Stop(c) /\ UNCHANGED <<saves, updated>>
              \/ /\ Online(c) /\ tasks[c].of \in Control /\ Go(c, "ack", TRUE)
                 /\ tasks[c].of \in updated' \union Downloads /\ UNCHANGED saves
              \/ /\ Online(c) /\ tasks[c].of \notin Control /\ Go(c, "discard", TRUE)
                 /\ saves[Id[tasks[c].of]] > 0 /\ UNCHANGED <<saves, updated>>
              \/ /\ Online(c) /\ tasks[c].of \notin Control /\ Go(c, "ack", TRUE)
                 /\ saves[Id[tasks[c].of]] = 0 /\ saves'[Id[tasks[c].of]] = 1
                 /\ UNCHANGED updated
  <1>. DEFINE delivery == tasks[c].of
  <1>1. tasks[c].at = "process" /\ delivery \in Deliveries /\ Id[delivery] \in Ids
    BY DEF Process, TaskInv, IncomingMessageAssumption
  <1>2. delivery \notin Control => Online(c)
    BY <1>1 DEF TaskInv, IncomingMessageAssumption
  <1>3. saves \in [Ids -> Nat] /\ updated \subseteq Deliveries
    BY DEF TypeOK
  <1>4. CASE /\ delivery \in Control /\ UNCHANGED saves
             /\ IF Online(c)
                THEN Download(delivery) /\ Go(c, "ack", TRUE)
                ELSE Stop(c) /\ UNCHANGED updated
    <2>1. saves' \in [Ids -> Nat] /\ \A i \in Ids : saves'[i] >= saves[i]
      BY <1>3, <1>4
    <2>2. CASE Online(c) /\ Download(delivery) /\ Go(c, "ack", TRUE)
      <3>1. /\ updated \subseteq updated' /\ updated' \subseteq Deliveries
            /\ delivery \in updated' \union Downloads
        BY <1>1, <1>3, <2>2 DEF Download
      <3>. QED
        BY <1>1, <1>4, <2>1, <2>2, <3>1
    <2>3. CASE Stop(c) /\ UNCHANGED updated
      BY <1>1, <1>3, <1>4, <2>1, <2>3
    <2>. QED
      BY <1>4, <2>2, <2>3
  <1>5. CASE /\ delivery \notin Control /\ HasMessage(Id[delivery])
             /\ Go(c, "discard", TRUE) /\ UNCHANGED <<saves, updated>>
    <2>1. saves' \in [Ids -> Nat] /\ \A i \in Ids : saves'[i] >= saves[i]
      BY <1>3, <1>5
    <2>2. saves[Id[delivery]] > 0 /\ Online(c) /\ updated' = updated
      BY <1>2, <1>5 DEF HasMessage
    <2>. QED
      BY <1>1, <1>3, <1>5, <2>1, <2>2
  <1>6. CASE /\ delivery \notin Control /\ ~HasMessage(Id[delivery])
             /\ saves' = [saves EXCEPT ![Id[delivery]] = @ + 1]
             /\ Go(c, "ack", TRUE) /\ UNCHANGED updated
    <2>1. saves[Id[delivery]] = 0
      BY <1>1, <1>3, <1>6 DEF HasMessage
    <2>. HIDE DEF delivery
    <2>2. /\ saves' \in [Ids -> Nat] /\ saves'[Id[delivery]] = 1
          /\ \A i \in Ids : saves'[i] >= saves[i]
      BY <1>1, <1>3, <1>6, <2>1
    <2>. QED
      BY <1>1, <1>2, <1>3, <1>6, <2>1, <2>2 DEF delivery
  <1>. QED
    BY <1>4, <1>5, <1>6 DEF Process

-----------------------------------------------------------------------------
(* The steps and the parts of the invariant *)

(* Every step keeps the types. *)
LEMMA TypeStep ==
    ASSUME IncomingMessageAssumption, IndInv, [Next]_vars
    PROVE  TypeOK'
  <1>0. TypeOK /\ CountInv /\ TaskInv
    BY DEF IndInv
  <1>1. ASSUME NEW d \in Deliveries, Receive(d) PROVE TypeOK'
    BY <1>0, <1>1 DEF Receive, Task, storeVars, sentVars, otherVars, TypeOK, Steps
  <1>2. ASSUME NEW d \in Deliveries, OtherLeader(d) PROVE TypeOK'
    BY <1>0, <1>2 DEF OtherLeader, linkVars, storeVars, sentVars, TypeOK
  <1>3. ASSUME NEW c \in Connections, FinishLookup(c) PROVE TypeOK'
    <2>1. tasks' \in [Connections -> TaskRecords]
      BY <1>0, <1>3, LookupOutcome, TasksUpdate DEF Steps
    <2>. QED
      BY <1>0, <2>1, <1>3, LookupOutcome
      DEF TypeOK, TaskRecords, linkVars, storeVars, sentVars, otherVars
  <1>4. ASSUME NEW c \in Connections, FinishPrepare(c) PROVE TypeOK'
    <2>1. tasks' \in [Connections -> TaskRecords]
      BY <1>0, <1>4, TasksUpdate DEF Steps, FinishPrepare
    <2>2. tasks[c].of \in Deliveries
      BY <1>0, <1>4 DEF FinishPrepare, TaskInv
    <2>. QED
      BY <1>0, <2>1, <2>2, <1>4
      DEF TypeOK, TaskRecords, FinishPrepare, linkVars, storeVars, sentVars, otherVars
  <1>5. ASSUME NEW c \in Connections, ReflectAcked(c) PROVE TypeOK'
    BY <1>0, <1>5
    DEF ReflectAcked, Go, Task, linkVars, storeVars, otherVars, TypeOK, Steps
  <1>6. ASSUME NEW c \in Connections, Process(c) PROVE TypeOK'
    <2>1. tasks' \in [Connections -> TaskRecords]
      BY <1>0, <1>6, TasksUpdate DEF Steps, Process
    <2>2. updated' \subseteq Deliveries /\ saves' \in [Ids -> Nat]
      BY <1>0, <1>6, ProcessOutcome DEF TypeOK
    <2>. QED
      BY <1>0, <2>1, <2>2, <1>6
      DEF TypeOK, TaskRecords, Process, linkVars, sentVars, otherVars
  <1>7. ASSUME NEW c \in Connections, Acknowledge(c) PROVE TypeOK'
    <2>1. tasks' \in [Connections -> TaskRecords]
      BY <1>0, <1>7, TasksUpdate DEF Steps, Acknowledge
    <2>2. tasks[c].of \in Deliveries
      BY <1>0, <1>7 DEF Acknowledge, TaskInv
    <2>. QED
      BY <1>0, <2>1, <2>2, <1>7
      DEF TypeOK, TaskRecords, Acknowledge, WriteAck, Commit, linkVars, storeVars, sentVars, otherVars
  <1>8. ASSUME NEW c \in Connections, SendReceipt(c) PROVE TypeOK'
    BY <1>0, <1>8
    DEF SendReceipt, Go, Task, linkVars, storeVars, otherVars, TypeOK, Steps
  <1>9. ASSUME NEW c \in Connections, ReceiptAcked(c) PROVE TypeOK'
    BY <1>0, <1>9
    DEF ReceiptAcked, Stop, Task, NoTask, linkVars, otherVars, TypeOK, TaskInv, Steps,
        Commit
  <1>10. ASSUME NEW c \in Connections, Discard(c) PROVE TypeOK'
    BY <1>0, <1>10
    DEF Discard, Stop, Task, NoTask, linkVars, otherVars, TypeOK, TaskInv, Steps,
        WriteAck, Commit
  <1>11. ASSUME NEW c \in Connections, LookupFails(c) PROVE TypeOK'
    <2>1. tasks' \in [Connections -> TaskRecords]
      BY <1>0, <1>11, TasksUpdate DEF LookupFails
    <2>2. CASE Online(c) /\ losses < MaxLosses /\ Closed
      BY <1>0, <2>1, <2>2, ClosedType
    <2>3. CASE UNCHANGED <<server, linkVars, storeVars, sentVars, dropped, otherVars>>
      BY <1>0, <2>1, <2>3
      DEF TypeOK, TaskRecords, linkVars, storeVars, sentVars, otherVars
    <2>. QED
      BY <1>11, <2>2, <2>3 DEF LookupFails
  <1>12. CASE Store
    <2>1. tasks[connection] \in TaskRecords /\ connection \in Connections
      BY <1>0, TasksType DEF TypeOK
    <2>2. CASE tasks[connection].at = "reflect" /\ known' = known \union {tasks[connection].of}
               /\ UNCHANGED receipts
      BY <1>0, <1>12, <2>1, <2>2 DEF Store, TypeOK, TaskInv, linkVars, storeVars
    <2>3. CASE /\ tasks[connection].at = "answer"
               /\ receipts' = [receipts EXCEPT ![Id[tasks[connection].of]] = @ + 1]
               /\ UNCHANGED known
      <3>1. Id[tasks[connection].of] \in Ids
        BY <1>0, <2>1, <2>3 DEF TaskInv, IncomingMessageAssumption
      <3>. QED
        BY <1>0, <1>12, <2>1, <2>3, <3>1 DEF Store, TypeOK, linkVars, storeVars
    <2>. QED
      BY <1>12, <2>2, <2>3 DEF Store
  <1>13. ASSUME NEW d \in Deliveries, ServerForgets(d) PROVE TypeOK'
    BY <1>0, <1>13 DEF ServerForgets, linkVars, storeVars, otherVars, TypeOK
  <1>14. ASSUME NEW d \in Deliveries, ReadReflected(d) PROVE TypeOK'
    BY <1>0, <1>14 DEF ReadReflected, Download, linkVars, sentVars, TypeOK, CountInv, Commit
  <1>15. CASE LoseConnection
    <2>1. tasks' \in [Connections -> TaskRecords]
      BY <1>0, <1>15, TasksType, TasksUpdate DEF LoseConnection, TypeOK
    <2>. QED
      BY <1>0, <2>1, <1>15, ClosedType DEF LoseConnection
  <1>16. CASE Restart
    <2>1. tasks' \in [Connections -> TaskRecords]
      BY <1>0, <1>16, TasksType DEF Restart
    <2>. QED
      BY <1>0, <2>1, <1>16, ClosedType DEF Restart
  <1>17. CASE Connect
    BY <1>0, <1>17
    DEF Connect, storeVars, sentVars, otherVars, TypeOK, CountInv, Connections
  <1>18. CASE UNCHANGED vars
    BY <1>0, <1>18 DEF vars, linkVars, storeVars, sentVars, otherVars, TypeOK
  <1>. QED
    BY <1>1, <1>2, <1>3, <1>4, <1>5, <1>6, <1>7, <1>8, <1>9, <1>10, <1>11, <1>12,
       <1>13, <1>14, <1>15, <1>16, <1>17, <1>18
    DEF Next, Run, Servers

(* Only the steps that close or open a connection count it. *)
LEMMA CountStep ==
    ASSUME IncomingMessageAssumption, IndInv, [Next]_vars
    PROVE  CountInv'
  <1>0. TypeOK /\ CountInv
    BY DEF IndInv
  <1>1. ASSUME NEW d \in Deliveries, Receive(d) PROVE CountInv'
    BY <1>0, <1>1 DEF Receive, CountInv
  <1>2. ASSUME NEW d \in Deliveries, OtherLeader(d) PROVE CountInv'
    BY <1>0, <1>2 DEF OtherLeader, linkVars, sentVars, CountInv
  <1>3. ASSUME NEW c \in Connections, FinishLookup(c) PROVE CountInv'
    <2>. UNCHANGED <<connected, connection, losses, frame, acks>>
      BY <1>3 DEF FinishLookup, linkVars, sentVars
    <2>. QED
      BY <1>0 DEF CountInv
  <1>4. ASSUME NEW c \in Connections, FinishPrepare(c) PROVE CountInv'
    BY <1>0, <1>4 DEF FinishPrepare, Online, linkVars, CountInv
  <1>5. ASSUME NEW c \in Connections, ReflectAcked(c) PROVE CountInv'
    BY <1>0, <1>5 DEF ReflectAcked, linkVars, CountInv
  <1>6. ASSUME NEW c \in Connections, Process(c) PROVE CountInv'
    BY <1>0, <1>6 DEF Process, linkVars, sentVars, CountInv
  <1>7. ASSUME NEW c \in Connections, Acknowledge(c) PROVE CountInv'
    BY <1>0, <1>7 DEF Acknowledge, Online, linkVars, CountInv
  <1>8. ASSUME NEW c \in Connections, SendReceipt(c) PROVE CountInv'
    BY <1>0, <1>8 DEF SendReceipt, Online, linkVars, CountInv
  <1>9. ASSUME NEW c \in Connections, ReceiptAcked(c) PROVE CountInv'
    BY <1>0, <1>9 DEF ReceiptAcked, linkVars, CountInv
  <1>10. ASSUME NEW c \in Connections, Discard(c) PROVE CountInv'
    BY <1>0, <1>10 DEF Discard, Online, linkVars, CountInv
  <1>11. ASSUME NEW c \in Connections, LookupFails(c) PROVE CountInv'
    <2>1. connected' = connected /\ connection' = connection /\ losses' = losses
          /\ frame' = frame /\ acks' = acks => CountInv'
      BY <1>0 DEF CountInv
    <2>2. CASE Online(c) /\ losses < MaxLosses /\ Closed
      BY <1>0, <2>2 DEF Online, Closed, CountInv, TypeOK
    <2>3. CASE UNCHANGED <<server, linkVars, storeVars, sentVars, dropped, otherVars>>
      BY <2>1, <2>3 DEF linkVars, sentVars
    <2>. QED
      BY <1>11, <2>2, <2>3 DEF LookupFails
  <1>12. CASE Store
    BY <1>0, <1>12 DEF Store, linkVars, CountInv
  <1>13. ASSUME NEW d \in Deliveries, ServerForgets(d) PROVE CountInv'
    BY <1>0, <1>13 DEF ServerForgets, linkVars, CountInv
  <1>14. ASSUME NEW d \in Deliveries, ReadReflected(d) PROVE CountInv'
    BY <1>0, <1>14 DEF ReadReflected, linkVars, CountInv
  <1>15. CASE LoseConnection
    BY <1>0, <1>15 DEF LoseConnection, CountInv, Closed
  <1>16. CASE Restart
    BY <1>0, <1>16 DEF Restart, CountInv, Closed
  <1>17. CASE Connect
    BY <1>0, <1>17 DEF Connect, CountInv
  <1>18. CASE UNCHANGED vars
    BY <1>0, <1>18 DEF vars, linkVars, sentVars, CountInv
  <1>. QED
    BY <1>1, <1>2, <1>3, <1>4, <1>5, <1>6, <1>7, <1>8, <1>9, <1>10, <1>11, <1>12,
       <1>13, <1>14, <1>15, <1>16, <1>17, <1>18
    DEF Next, Run, Servers

(* A task is created on the connection, and leaves it only to wait for *)
(* the directory or a download.                                         *)
LEMMA TaskStep ==
    ASSUME IncomingMessageAssumption, IndInv, [Next]_vars
    PROVE  TaskInv'
  <1>0. TypeOK /\ CountInv /\ TaskInv
    BY DEF IndInv
  <1>1. ASSUME NEW d \in Deliveries, Receive(d) PROVE TaskInv'
    BY <1>0, <1>1 DEF Receive, Task, Online, TaskInv, Connections
  <1>2. ASSUME NEW d \in Deliveries, OtherLeader(d) PROVE TaskInv'
    BY <1>0, <1>2 DEF OtherLeader, Online, linkVars, TaskInv
  <1>3. ASSUME NEW c \in Connections, FinishLookup(c) PROVE TaskInv'
    <2>1. UNCHANGED <<connected, connection>>
      BY <1>3 DEF FinishLookup, linkVars
    <2>2. /\ \A e \in Connections \ {c} : tasks'[e] = tasks[e]
          /\ \/ tasks'[c].at = "none" /\ tasks'[c].guard = FALSE
             \/ Online(c) /\ tasks'[c].at = "discard" /\ tasks'[c].of = tasks[c].of
             \/ /\ Online(c) \/ tasks[c].of \in Waits
                /\ tasks'[c].at = "prepare" /\ tasks'[c].of = tasks[c].of
      BY <1>0, <1>3, LookupOutcome, TaskChanges
    <2>3. tasks[c].at = "lookup" /\ tasks[c].of \in Deliveries
      BY <1>0, <1>3, LookupOutcome
    <2>. QED
      BY <1>0, <2>1, <2>2, <2>3 DEF TaskInv, Online, Connections
  <1>4. ASSUME NEW c \in Connections, FinishPrepare(c) PROVE TaskInv'
    BY <1>0, <1>4
    DEF FinishPrepare, Go, Stop, Task, NoTask, Online, linkVars, TypeOK, TaskInv
  <1>5. ASSUME NEW c \in Connections, ReflectAcked(c) PROVE TaskInv'
    BY <1>0, <1>5 DEF ReflectAcked, Go, Task, Online, linkVars, TaskInv
  <1>6. ASSUME NEW c \in Connections, Process(c) PROVE TaskInv'
    BY <1>0, <1>6 DEF Process, Go, Stop, Task, NoTask, Online, linkVars, TypeOK, TaskInv
  <1>7. ASSUME NEW c \in Connections, Acknowledge(c) PROVE TaskInv'
    BY <1>0, <1>7
    DEF Acknowledge, Go, Stop, Task, NoTask, Online, linkVars, TypeOK, TaskInv
  <1>8. ASSUME NEW c \in Connections, SendReceipt(c) PROVE TaskInv'
    BY <1>0, <1>8 DEF SendReceipt, Go, Task, Online, linkVars, TaskInv
  <1>9. ASSUME NEW c \in Connections, ReceiptAcked(c) PROVE TaskInv'
    BY <1>0, <1>9 DEF ReceiptAcked, Stop, Task, NoTask, Online, linkVars, TaskInv
  <1>10. ASSUME NEW c \in Connections, Discard(c) PROVE TaskInv'
    BY <1>0, <1>10 DEF Discard, Stop, Task, NoTask, Online, linkVars, TaskInv
  <1>11. ASSUME NEW c \in Connections, LookupFails(c) PROVE TaskInv'
    BY <1>0, <1>11, FailOutcome DEF TaskInv, Online
  <1>12. CASE Store
    BY <1>0, <1>12 DEF Store, Online, linkVars, TaskInv
  <1>13. ASSUME NEW d \in Deliveries, ServerForgets(d) PROVE TaskInv'
    BY <1>0, <1>13 DEF ServerForgets, Online, linkVars, TaskInv
  <1>14. ASSUME NEW d \in Deliveries, ReadReflected(d) PROVE TaskInv'
    BY <1>0, <1>14 DEF ReadReflected, Online, linkVars, TaskInv
  <1>15. CASE LoseConnection
    <2>1. connected /\ ~connected' /\ connection' = connection /\ connection \in Connections
      BY <1>0, <1>15 DEF LoseConnection, Closed, TypeOK
    <2>2. CASE Outlives(connection) /\ UNCHANGED tasks
      BY <1>0, <2>1, <2>2 DEF TaskInv, Online, Outlives, Connections
    <2>3. CASE Stop(connection)
      <3>1. /\ tasks'[connection].at = "none" /\ tasks'[connection].guard = FALSE
            /\ \A e \in Connections \ {connection} : tasks'[e] = tasks[e]
        BY <1>0, <2>1, <2>3, TaskChanges
      <3>. QED
        BY <1>0, <2>1, <3>1 DEF TaskInv, Online, Connections
    <2>. QED
      BY <1>15, <2>2, <2>3 DEF LoseConnection
  <1>16. CASE Restart
    BY <1>0, <1>16 DEF Restart, Task, NoTask, TaskInv
  <1>17. CASE Connect
    BY <1>0, <1>17 DEF Connect, Online, TypeOK, TaskInv, Connections
  <1>18. CASE UNCHANGED vars
    <2>1. UNCHANGED <<connected, connection, tasks>>
      BY <1>18 DEF vars, linkVars
    <2>. QED
      BY <1>0, <2>1 DEF TaskInv, Online, Connections
  <1>. QED
    BY <1>1, <1>2, <1>3, <1>4, <1>5, <1>6, <1>7, <1>8, <1>9, <1>10, <1>11, <1>12,
       <1>13, <1>14, <1>15, <1>16, <1>17, <1>18
    DEF Next, Run, Servers

(* What the mediator has stored, it has stored for all the devices. *)
LEMMA SharedStep ==
    ASSUME IncomingMessageAssumption, IndInv, [Next]_vars
    PROVE  SharedInv'
  <1>0. TypeOK /\ CountInv /\ TaskInv /\ SharedInv
    BY DEF IndInv
  <1>1. ASSUME NEW d \in Deliveries, Receive(d) PROVE SharedInv'
    BY <1>0, <1>1 DEF Receive, Task, storeVars, otherVars, SharedInv
  <1>2. ASSUME NEW d \in Deliveries, OtherLeader(d) PROVE SharedInv'
    BY <1>0, <1>2 DEF OtherLeader, storeVars, sentVars, CountInv, SharedInv
  <1>3. ASSUME NEW c \in Connections, FinishLookup(c) PROVE SharedInv'
    <2>1. UNCHANGED <<connected, connection, frame, saves, updated, known, mailbox>>
      BY <1>3 DEF FinishLookup, linkVars, storeVars, sentVars, otherVars
    <2>2. /\ tasks'[c].at \in {"none", "discard", "prepare"}
          /\ \A e \in Connections \ {c} : tasks'[e] = tasks[e]
      BY <1>0, <1>3, LookupOutcome, TaskChanges
    <2>. QED
      BY <1>0, <2>1, <2>2 DEF SharedInv, TypeOK
  <1>4. ASSUME NEW c \in Connections, FinishPrepare(c) PROVE SharedInv'
    <2>1. UNCHANGED <<connected, connection, saves, updated, known, mailbox>>
      BY <1>4 DEF FinishPrepare, linkVars, storeVars, otherVars
    <2>2. \A e \in Connections \ {c} : tasks'[e] = tasks[e]
      BY <1>0, <1>4, TaskChanges DEF FinishPrepare
    <2>3. \/ tasks'[c].at \in {"none", "discard"} /\ UNCHANGED frame
          \/ Online(c) /\ tasks'[c].at = "reflect" /\ frame' = "sent"
      BY <1>0, <1>4, TaskChanges DEF FinishPrepare
    <2>. QED
      BY <1>0, <2>1, <2>2, <2>3 DEF SharedInv, Online, TypeOK
  <1>5. ASSUME NEW c \in Connections, ReflectAcked(c) PROVE SharedInv'
    BY <1>0, <1>5
    DEF ReflectAcked, Go, Task, Online, storeVars, otherVars, SharedInv, Answered
  <1>6. ASSUME NEW c \in Connections, Process(c) PROVE SharedInv'
    BY <1>0, <1>6
    DEF Process, Download, Go, Stop, Task, NoTask, Online, linkVars, sentVars, otherVars, TypeOK,
        CountInv, TaskInv, SharedInv
  <1>7. ASSUME NEW c \in Connections, Acknowledge(c) PROVE SharedInv'
    BY <1>0, <1>7
    DEF Acknowledge, Go, Stop, Task, NoTask, linkVars, otherVars, TypeOK, CountInv,
        SharedInv
  <1>8. ASSUME NEW c \in Connections, SendReceipt(c) PROVE SharedInv'
    BY <1>0, <1>8 DEF SendReceipt, Go, Task, storeVars, otherVars, SharedInv
  <1>9. ASSUME NEW c \in Connections, ReceiptAcked(c) PROVE SharedInv'
    BY <1>0, <1>9 DEF ReceiptAcked, Stop, Task, NoTask, otherVars, SharedInv
  <1>10. ASSUME NEW c \in Connections, Discard(c) PROVE SharedInv'
    BY <1>0, <1>10 DEF Discard, Stop, Task, NoTask, linkVars, otherVars, SharedInv
  <1>11. ASSUME NEW c \in Connections, LookupFails(c) PROVE SharedInv'
    BY <1>0, <1>11
    DEF LookupFails, Stop, Task, NoTask, linkVars, storeVars, sentVars, otherVars,
        SharedInv, Closed
  <1>12. CASE Store
    BY <1>0, <1>12 DEF Store, linkVars, storeVars, SharedInv
  <1>13. ASSUME NEW d \in Deliveries, ServerForgets(d) PROVE SharedInv'
    BY <1>0, <1>13 DEF ServerForgets, linkVars, storeVars, otherVars, SharedInv
  <1>14. ASSUME NEW d \in Deliveries, ReadReflected(d) PROVE SharedInv'
    BY <1>0, <1>14 DEF ReadReflected, Download, linkVars, sentVars, TypeOK, SharedInv
  <1>15. CASE LoseConnection
    BY <1>0, <1>15
    DEF LoseConnection, Stop, Task, NoTask, Online, storeVars, otherVars, TypeOK,
        SharedInv, Closed
  <1>16. CASE Restart
    BY <1>0, <1>16 DEF Restart, Task, NoTask, storeVars, otherVars, SharedInv, Closed
  <1>17. CASE Connect
    BY <1>0, <1>17
    DEF Connect, storeVars, otherVars, TypeOK, CountInv, TaskInv, SharedInv,
        Connections
  <1>18. CASE UNCHANGED vars
    BY <1>0, <1>18 DEF vars, linkVars, storeVars, sentVars, otherVars, SharedInv
  <1>. QED
    BY <1>1, <1>2, <1>3, <1>4, <1>5, <1>6, <1>7, <1>8, <1>9, <1>10, <1>11, <1>12,
       <1>13, <1>14, <1>15, <1>16, <1>17, <1>18
    DEF Next, Run, Servers

(* A message is added to its conversation only when it is not there. *)
LEMMA SavedStep ==
    ASSUME IncomingMessageAssumption, IndInv, [Next]_vars
    PROVE  SavedOnce'
  <1>0. TypeOK /\ TaskInv /\ SavedOnce
    BY DEF IndInv
  <1>1. ASSUME NEW d \in Deliveries, Receive(d) PROVE SavedOnce'
    BY <1>0, <1>1 DEF Receive, storeVars, SavedOnce
  <1>2. ASSUME NEW d \in Deliveries, OtherLeader(d) PROVE SavedOnce'
    BY <1>0, <1>2 DEF OtherLeader, storeVars, SavedOnce
  <1>3. ASSUME NEW c \in Connections, FinishLookup(c) PROVE SavedOnce'
    BY <1>0, <1>3, LookupOutcome DEF storeVars, SavedOnce
  <1>4. ASSUME NEW c \in Connections, FinishPrepare(c) PROVE SavedOnce'
    BY <1>0, <1>4 DEF FinishPrepare, storeVars, SavedOnce
  <1>5. ASSUME NEW c \in Connections, ReflectAcked(c) PROVE SavedOnce'
    BY <1>0, <1>5 DEF ReflectAcked, storeVars, SavedOnce, Answered
  <1>6. ASSUME NEW c \in Connections, Process(c) PROVE SavedOnce'
    BY <1>0, <1>6 DEF Process, Go, Task, TypeOK, SavedOnce, HasMessage
  <1>7. ASSUME NEW c \in Connections, Acknowledge(c) PROVE SavedOnce'
    BY <1>0, <1>7 DEF Acknowledge, SavedOnce, WriteAck, Commit
  <1>8. ASSUME NEW c \in Connections, SendReceipt(c) PROVE SavedOnce'
    BY <1>0, <1>8 DEF SendReceipt, storeVars, SavedOnce
  <1>9. ASSUME NEW c \in Connections, ReceiptAcked(c) PROVE SavedOnce'
    BY <1>0, <1>9 DEF ReceiptAcked, SavedOnce, Commit, Answered
  <1>10. ASSUME NEW c \in Connections, Discard(c) PROVE SavedOnce'
    BY <1>0, <1>10 DEF Discard, SavedOnce, WriteAck, Commit
  <1>11. ASSUME NEW c \in Connections, LookupFails(c) PROVE SavedOnce'
    BY <1>0, <1>11 DEF LookupFails, storeVars, SavedOnce, Closed
  <1>12. CASE Store
    BY <1>0, <1>12 DEF Store, storeVars, SavedOnce
  <1>13. ASSUME NEW d \in Deliveries, ServerForgets(d) PROVE SavedOnce'
    BY <1>0, <1>13 DEF ServerForgets, storeVars, SavedOnce
  <1>14. ASSUME NEW d \in Deliveries, ReadReflected(d) PROVE SavedOnce'
    BY <1>0, <1>14 DEF ReadReflected, TypeOK, SavedOnce, Commit, HasMessage
  <1>15. CASE LoseConnection
    BY <1>0, <1>15 DEF LoseConnection, storeVars, SavedOnce, Closed, Outlives
  <1>16. CASE Restart
    BY <1>0, <1>16 DEF Restart, storeVars, SavedOnce, Closed
  <1>17. CASE Connect
    BY <1>0, <1>17 DEF Connect, storeVars, SavedOnce
  <1>18. CASE UNCHANGED vars
    BY <1>0, <1>18 DEF vars, storeVars, SavedOnce
  <1>. QED
    BY <1>1, <1>2, <1>3, <1>4, <1>5, <1>6, <1>7, <1>8, <1>9, <1>10, <1>11, <1>12,
       <1>13, <1>14, <1>15, <1>16, <1>17, <1>18
    DEF Next, Run, Servers

(* The receipt is sent by the task that has processed the message. *)
LEMMA ReceiptStep ==
    ASSUME IncomingMessageAssumption, IndInv, [Next]_vars
    PROVE  ReceiptInv'
  <1>0. TypeOK /\ CountInv /\ TaskInv /\ ReceiptInv /\ SavedOnce
    BY DEF IndInv
  <1>1. ASSUME NEW d \in Deliveries, Receive(d) PROVE ReceiptInv'
    BY <1>0, <1>1 DEF Receive, Task, storeVars, sentVars, ReceiptInv, DoneOrGivenUp, Done, HasMessage
  <1>2. ASSUME NEW d \in Deliveries, OtherLeader(d) PROVE ReceiptInv'
    BY <1>0, <1>2 DEF OtherLeader, storeVars, sentVars, ReceiptInv, DoneOrGivenUp, Done, HasMessage
  <1>3. ASSUME NEW c \in Connections, FinishLookup(c) PROVE ReceiptInv'
    <2>1. UNCHANGED <<frame, saves, updated, receipts>>
      BY <1>3 DEF FinishLookup, storeVars, sentVars
    <2>2. /\ tasks'[c].at \in {"none", "discard", "prepare"}
          /\ \A e \in Connections \ {c} : tasks'[e] = tasks[e]
      BY <1>0, <1>3, LookupOutcome, TaskChanges
    <2>. QED
      BY <1>0, <2>1, <2>2 DEF ReceiptInv, DoneOrGivenUp, Done, HasMessage, Connections
  <1>4. ASSUME NEW c \in Connections, FinishPrepare(c) PROVE ReceiptInv'
    BY <1>0, <1>4
    DEF FinishPrepare, Go, Stop, Task, NoTask, Online, linkVars, storeVars, TypeOK,
        CountInv, TaskInv, ReceiptInv, DoneOrGivenUp, Done, HasMessage
  <1>5. ASSUME NEW c \in Connections, ReflectAcked(c) PROVE ReceiptInv'
    BY <1>0, <1>5 DEF ReflectAcked, Go, Task, Online, storeVars, TaskInv, ReceiptInv
  <1>6. ASSUME NEW c \in Connections, Process(c) PROVE ReceiptInv'
    <2>. DEFINE delivery == tasks[c].of
    <2>1. UNCHANGED <<connected, connection, frame, receipts>> /\ tasks[c].at = "process"
      BY <1>6 DEF Process, linkVars, sentVars
    <2>2. \A i \in Ids : saves'[i] >= saves[i] /\ saves'[i] \in Nat
      BY <1>0, <1>6, ProcessOutcome DEF TypeOK
    <2>3. updated \subseteq updated'
      BY <1>0, <1>6, ProcessOutcome
    <2>4. /\ \A e \in Connections \ {c} : tasks'[e] = tasks[e]
          /\ \/ tasks'[c].at \in {"none", "discard"}
             \/ /\ tasks'[c].at = "ack" /\ tasks'[c].of = delivery /\ DoneOrGivenUp(delivery)'
                /\ delivery \in Control \/ saves[Id[delivery]] = 0
      <3>1. CASE Stop(c) \/ Go(c, "discard", TRUE)
        BY <1>0, <3>1, TaskChanges
      <3>2. CASE Go(c, "ack", TRUE) /\ delivery \in Control /\ delivery \in updated' \union Downloads
        BY <1>0, <3>2, TaskChanges DEF DoneOrGivenUp, Done
      <3>3. CASE /\ Go(c, "ack", TRUE) /\ delivery \notin Control
                 /\ saves[Id[delivery]] = 0 /\ saves'[Id[delivery]] = 1
        <4>1. /\ tasks'[c].at = "ack" /\ tasks'[c].of = delivery
              /\ \A e \in Connections \ {c} : tasks'[e] = tasks[e]
          BY <1>0, <3>3, TaskChanges
        <4>2. saves'[Id[delivery]] > 0
          BY <3>3
        <4>. QED
          BY <3>3, <4>1, <4>2 DEF DoneOrGivenUp, Done, HasMessage
      <3>. QED
        BY <1>0, <1>6, <3>1, <3>2, <3>3, ProcessOutcome
    <2>5. \A d \in Deliveries : DoneOrGivenUp(d) => DoneOrGivenUp(d)'
      BY <1>0, <2>2, <2>3
      DEF DoneOrGivenUp, Done, HasMessage, TypeOK, IncomingMessageAssumption
    <2>6. \A i \in Ids : saves[i] = 0 => receipts[i] = 0
      BY <1>0 DEF ReceiptInv, TypeOK
    <2>7. delivery \in Deliveries /\ Id[delivery] \in Ids
      BY <1>0, <1>6, ProcessOutcome
    <2>8. \A e \in Connections : tasks[e].at \in {"ack", "receipt", "answer"} => tasks[e].of \in Deliveries
      BY <1>0 DEF TaskInv
    <2>9. \A i \in Ids : receipts'[i] <= saves'[i]
      BY <1>0, <2>1, <2>2 DEF ReceiptInv, TypeOK
    <2>. HIDE DEF delivery
    <2>. QED
      BY <1>0, <2>1, <2>4, <2>5, <2>6, <2>7, <2>8, <2>9
      DEF ReceiptInv, Connections, delivery
  <1>7. ASSUME NEW c \in Connections, Acknowledge(c) PROVE ReceiptInv'
    BY <1>0, <1>7
    DEF Acknowledge, Go, Stop, Task, NoTask, Online, linkVars, TypeOK, CountInv,
        TaskInv, ReceiptInv, DoneOrGivenUp, Done, HasMessage
  <1>8. ASSUME NEW c \in Connections, SendReceipt(c) PROVE ReceiptInv'
    BY <1>0, <1>8
    DEF SendReceipt, Go, Task, Online, storeVars, TaskInv, ReceiptInv, DoneOrGivenUp, Done,
        HasMessage
  <1>9. ASSUME NEW c \in Connections, ReceiptAcked(c) PROVE ReceiptInv'
    BY <1>0, <1>9
    DEF ReceiptAcked, Stop, Task, NoTask, Online, TypeOK, TaskInv, ReceiptInv
  <1>10. ASSUME NEW c \in Connections, Discard(c) PROVE ReceiptInv'
    BY <1>0, <1>10 DEF Discard, Stop, Task, NoTask, ReceiptInv, DoneOrGivenUp, Done, HasMessage
  <1>11. ASSUME NEW c \in Connections, LookupFails(c) PROVE ReceiptInv'
    <2>1. UNCHANGED <<saves, updated, receipts>> /\ tasks'[c].at = "none"
          /\ \A e \in Connections \ {c} : tasks'[e] = tasks[e]
      BY <1>0, <1>11, FailOutcome
    <2>2. UNCHANGED frame \/ \A e \in Connections : tasks'[e].at \notin {"ack", "receipt", "answer"}
      BY <1>0, <1>11, FailOutcome DEF TaskInv, Online
    <2>. QED
      BY <1>0, <2>1, <2>2 DEF ReceiptInv, DoneOrGivenUp, Done, HasMessage, Connections
  <1>12. CASE Store
    <2>. DEFINE delivery == tasks[connection].of
    <2>1. UNCHANGED <<tasks, saves, updated, connected, connection>> /\ connected
          /\ connection \in Connections /\ frame = "sent" /\ frame' = "stored"
      BY <1>0, <1>12 DEF Store, linkVars, storeVars, TypeOK
    <2>2. CASE tasks[connection].at = "reflect" /\ UNCHANGED receipts
      BY <1>0, <2>1, <2>2 DEF ReceiptInv, DoneOrGivenUp, Done, HasMessage, Connections
    <2>3. CASE /\ tasks[connection].at = "answer"
               /\ receipts' = [receipts EXCEPT ![Id[delivery]] = @ + 1]
      <3>1. /\ delivery \in Deliveries /\ delivery \notin Control /\ Done(delivery)
            /\ Id[delivery] \in Ids /\ receipts[Id[delivery]] = 0
        BY <1>0, <2>1, <2>3 DEF TaskInv, ReceiptInv, DoneOrGivenUp, IncomingMessageAssumption
      <3>2. saves[Id[delivery]] > 0
        BY <3>1 DEF Done, HasMessage
      <3>3. \A i \in Ids : receipts'[i] <= saves'[i]
        BY <1>0, <2>1, <2>3, <3>1, <3>2 DEF ReceiptInv, TypeOK
      <3>4. \A c \in Connections : c # connection => tasks[c].at \notin {"ack", "receipt", "answer"}
        BY <1>0 DEF TaskInv, Online
      <3>. QED
        BY <1>0, <2>1, <2>3, <3>3, <3>4 DEF ReceiptInv, DoneOrGivenUp, Done, HasMessage, Connections
    <2>. QED
      BY <1>12, <2>2, <2>3 DEF Store
  <1>13. ASSUME NEW d \in Deliveries, ServerForgets(d) PROVE ReceiptInv'
    BY <1>0, <1>13 DEF ServerForgets, storeVars, ReceiptInv, DoneOrGivenUp, Done, HasMessage
  <1>14. ASSUME NEW d \in Deliveries, ReadReflected(d) PROVE ReceiptInv'
    <2>1. UNCHANGED <<tasks, frame, receipts>>
      BY <1>14 DEF ReadReflected, sentVars
    <2>2. \A i \in Ids : saves'[i] >= saves[i] /\ saves'[i] \in Nat
      BY <1>0, <1>14 DEF ReadReflected, TypeOK
    <2>3. updated \subseteq updated'
      BY <1>14 DEF ReadReflected, Download
    <2>4. \A e \in Deliveries : DoneOrGivenUp(e) => DoneOrGivenUp(e)'
      BY <1>0, <2>2, <2>3
      DEF DoneOrGivenUp, Done, HasMessage, TypeOK, IncomingMessageAssumption
    <2>5. \A c \in Connections : tasks[c].at \in {"ack", "receipt", "answer"} => tasks[c].of \in Deliveries
      BY <1>0 DEF TaskInv
    <2>6. \A i \in Ids : receipts'[i] <= saves'[i]
      BY <1>0, <2>1, <2>2 DEF ReceiptInv, TypeOK
    <2>. QED
      BY <1>0, <2>1, <2>4, <2>5, <2>6 DEF ReceiptInv, Connections
  <1>15. CASE LoseConnection
    <2>1. UNCHANGED <<saves, updated, receipts>> /\ connection \in Connections
      BY <1>0, <1>15 DEF LoseConnection, Closed, storeVars, TypeOK
    <2>2. \A e \in Connections : tasks'[e].at \in {"none", "lookup", "prepare", "process"}
      <3>1. \A e \in Connections \ {connection} :
                tasks[e].at \in {"none", "lookup", "prepare", "process"}
        BY <1>0 DEF TaskInv, Online
      <3>2. CASE Outlives(connection) /\ UNCHANGED tasks
        BY <3>1, <3>2 DEF Outlives
      <3>3. CASE Stop(connection)
        BY <1>0, <2>1, <3>1, <3>3, TaskChanges
      <3>. QED
        BY <1>15, <3>2, <3>3 DEF LoseConnection
    <2>. QED
      BY <1>0, <2>1, <2>2 DEF ReceiptInv, Connections
  <1>16. CASE Restart
    BY <1>0, <1>16 DEF Restart, Task, NoTask, storeVars, ReceiptInv, Closed
  <1>17. CASE Connect
    BY <1>0, <1>17 DEF Connect, storeVars, sentVars, ReceiptInv, DoneOrGivenUp, Done, HasMessage
  <1>18. CASE UNCHANGED vars
    BY <1>0, <1>18 DEF vars, storeVars, sentVars, ReceiptInv, DoneOrGivenUp, Done, HasMessage
  <1>. QED
    BY <1>1, <1>2, <1>3, <1>4, <1>5, <1>6, <1>7, <1>8, <1>9, <1>10, <1>11, <1>12,
       <1>13, <1>14, <1>15, <1>16, <1>17, <1>18
    DEF Next, Run, Servers

(* What is settled stays settled when connections are lost. *)
LEMMA LossesSettle ==
    ASSUME TypeOK, UNCHANGED <<saves, updated, dropped>>, losses' \in Nat, losses' >= losses
    PROVE  Settled \subseteq Settled'
  BY DEF TypeOK, Settled, MayBeUndone, Done, HasMessage

LEMMA ClosedSettles ==
    ASSUME TypeOK, AckInv, Closed
    PROVE  AckInv'
  <1>1. losses' = losses + 1 /\ losses \in Nat /\ losses' \in Nat
    BY DEF Closed, TypeOK
  <1>2. /\ ~connected' /\ acks' = {}
        /\ UNCHANGED <<server, delivered, nonces, saves, updated, dropped>>
    BY DEF Closed, storeVars
  <1>3. Settled \subseteq Settled'
    BY <1>1, <1>2, LossesSettle
  <1>. QED
    BY <1>2, <1>3 DEF AckInv

(* The nonce is committed after the acknowledgement, so that a message *)
(* whose nonce is in the database is settled.                          *)
LEMMA AckStep ==
    ASSUME IncomingMessageAssumption, IndInv, [Next]_vars
    PROVE  AckInv'
  <1>0. TypeOK /\ CountInv /\ TaskInv /\ AckInv /\ ReceiptInv
    BY DEF IndInv
  <1>1. ASSUME NEW d \in Deliveries, Receive(d) PROVE AckInv'
    BY <1>0, <1>1
    DEF Receive, Task, storeVars, sentVars, AckInv, Done, HasMessage, Settled, MayBeUndone
  <1>2. ASSUME NEW d \in Deliveries, OtherLeader(d) PROVE AckInv'
    BY <1>0, <1>2
    DEF OtherLeader, linkVars, storeVars, sentVars, AckInv, Done, HasMessage, Settled, MayBeUndone
  <1>3. ASSUME NEW c \in Connections, FinishLookup(c) PROVE AckInv'
    <2>1. /\ UNCHANGED <<server, delivered, connected, connection, losses, nonces, saves, updated, acks>>
          /\ dropped \subseteq dropped'
      BY <1>0, <1>3, LookupOutcome DEF linkVars, storeVars, sentVars
    <2>2. Settled \subseteq Settled'
      BY <2>1 DEF Settled, MayBeUndone, Done, HasMessage
    <2>3. tasks[c].at = "lookup" /\ \A e \in Connections \ {c} : tasks'[e] = tasks[e]
      BY <1>0, <1>3, LookupOutcome, TaskChanges
    <2>4. CASE tasks'[c].at = "none"
      BY <1>0, <2>1, <2>2, <2>3, <2>4 DEF AckInv, TypeOK
    <2>5. CASE tasks'[c].at = "prepare" /\ tasks'[c].of = tasks[c].of
      BY <1>0, <2>1, <2>2, <2>3, <2>5 DEF AckInv, TypeOK
    <2>6. CASE /\ tasks'[c].at = "discard" /\ tasks'[c].of = tasks[c].of
               /\ Online(c) /\ tasks[c].of \in Reused \union dropped'
      <3>1. tasks[c].of \in server /\ c = connection /\ connected
        BY <2>3, <2>6, <1>0 DEF AckInv, Online
      <3>2. ASSUME NEW e \in Connections, tasks[e].guard, tasks[e].of = tasks[c].of
            PROVE  tasks[c].of \in MayBeUndone
        <4>1. e # c /\ e \in 1 .. connection /\ e # connection
          BY <1>0, <2>3, <3>1, <3>2 DEF TaskInv, Connections, TypeOK
        <4>2. losses > 0
          BY <1>0, <3>1, <4>1 DEF CountInv, TypeOK, Connections
        <4>. QED
          BY <1>0, <3>1, <3>2, <4>1, <4>2 DEF TaskInv, Online, MayBeUndone
      <3>3. tasks[c].of \in Settled'
        BY <1>0, <2>2, <2>6, <3>1, <3>2 DEF Reused, Registered, AckInv, Settled, TypeOK
      <3>. QED
        BY <1>0, <2>1, <2>2, <2>3, <2>6, <3>1, <3>3 DEF AckInv, TypeOK
    <2>. QED
      BY <1>0, <1>3, <2>4, <2>5, <2>6, LookupOutcome, TaskChanges
  <1>4. ASSUME NEW c \in Connections, FinishPrepare(c) PROVE AckInv'
    BY <1>0, <1>4
    DEF FinishPrepare, Go, Stop, Task, Online, linkVars, storeVars, TypeOK, AckInv,
        Done, HasMessage, Settled, MayBeUndone
  <1>5. ASSUME NEW c \in Connections, ReflectAcked(c) PROVE AckInv'
    BY <1>0, <1>5
    DEF ReflectAcked, Go, Task, linkVars, storeVars, AckInv, Done, HasMessage, Settled, MayBeUndone
  <1>6. ASSUME NEW c \in Connections, Process(c) PROVE AckInv'
    <2>1. UNCHANGED <<server, delivered, connected, connection, losses, nonces, acks, dropped>>
      BY <1>6 DEF Process, linkVars, sentVars
    <2>2. /\ updated \subseteq updated' /\ saves' \in [Ids -> Nat]
          /\ \A i \in Ids : saves'[i] >= saves[i]
      BY <1>0, <1>6, ProcessOutcome
    <2>3. Settled \subseteq Settled'
      BY <1>0, <2>1, <2>2
      DEF Settled, MayBeUndone, Done, HasMessage, TypeOK, IncomingMessageAssumption
    <2>4. tasks[c].at = "process" /\ \A e \in Connections \ {c} : tasks'[e] = tasks[e]
      BY <1>0, <1>6, ProcessOutcome, TaskChanges
    <2>5. \/ tasks'[c].at = "none"
          \/ tasks'[c].at = "ack" /\ tasks'[c].of = tasks[c].of
          \/ /\ tasks'[c].at = "discard" /\ tasks'[c].of = tasks[c].of
             /\ tasks[c].of \in Settled
      <3>1. tasks[c].of \in Deliveries
        BY <1>0, <1>6, ProcessOutcome
      <3>2. tasks[c].of \notin Control /\ saves[Id[tasks[c].of]] > 0 => tasks[c].of \in Settled
        BY <3>1 DEF Settled, MayBeUndone, Done, HasMessage
      <3>. QED
        BY <1>0, <1>6, <3>2, ProcessOutcome, TaskChanges
    <2>. QED
      BY <1>0, <2>1, <2>3, <2>4, <2>5 DEF AckInv, TypeOK
  <1>7. ASSUME NEW c \in Connections, Acknowledge(c) PROVE AckInv'
    BY <1>0, <1>7
    DEF Acknowledge, Go, Stop, Task, NoTask, Online, linkVars, TypeOK, AckInv,
        ReceiptInv, DoneOrGivenUp, Done, HasMessage, Settled, MayBeUndone, WriteAck, Commit
  <1>8. ASSUME NEW c \in Connections, SendReceipt(c) PROVE AckInv'
    BY <1>0, <1>8
    DEF SendReceipt, Go, Task, linkVars, storeVars, AckInv, Done, HasMessage, Settled, MayBeUndone
  <1>9. ASSUME NEW c \in Connections, ReceiptAcked(c) PROVE AckInv'
    BY <1>0, <1>9
    DEF ReceiptAcked, Stop, Task, NoTask, linkVars, TaskInv, AckInv, ReceiptInv, DoneOrGivenUp, Done,
        HasMessage, Settled, MayBeUndone, Commit
  <1>10. ASSUME NEW c \in Connections, Discard(c) PROVE AckInv'
    BY <1>0, <1>10
    DEF Discard, Stop, Task, NoTask, Online, linkVars, TypeOK, AckInv, Done,
        HasMessage, Settled, MayBeUndone, WriteAck, Commit
  <1>11. ASSUME NEW c \in Connections, LookupFails(c) PROVE AckInv'
    <2>0. losses \in Nat
      BY <1>0 DEF TypeOK
    <2>1. losses' \in Nat /\ losses' >= losses /\ acks' \subseteq acks
          /\ UNCHANGED <<server, delivered, connection, nonces, saves, updated, dropped>>
      <3>1. UNCHANGED <<server, delivered, connection, nonces, saves, updated, dropped>>
        BY <1>0, <1>11, FailOutcome
      <3>2. \/ losses' = losses /\ acks' = acks
            \/ losses' = losses + 1 /\ acks' = {}
        BY <1>0, <1>11, FailOutcome
      <3>. QED
        BY <2>0, <3>1, <3>2
    <2>2. Settled \subseteq Settled'
      BY <1>0, <2>1, LossesSettle
    <2>3. connected' => connected /\ acks' = acks
      BY <1>0, <1>11, FailOutcome
    <2>4. tasks'[c].at = "none" /\ \A e \in Connections \ {c} : tasks'[e] = tasks[e]
      BY <1>0, <1>11, FailOutcome
    <2>. QED
      BY <1>0, <2>1, <2>2, <2>3, <2>4 DEF AckInv, TypeOK
  <1>12. CASE Store
    BY <1>0, <1>12 DEF Store, linkVars, storeVars, AckInv, Done, HasMessage, Settled, MayBeUndone
  <1>13. ASSUME NEW d \in Deliveries, ServerForgets(d) PROVE AckInv'
    BY <1>0, <1>13
    DEF ServerForgets, linkVars, storeVars, AckInv, Done, HasMessage, Settled, MayBeUndone
  <1>14. ASSUME NEW d \in Deliveries, ReadReflected(d) PROVE AckInv'
    <2>1. UNCHANGED <<server, delivered, connected, connection, losses, tasks, acks, dropped>>
      BY <1>14 DEF ReadReflected, linkVars, sentVars
    <2>2. /\ updated \subseteq updated' /\ saves' \in [Ids -> Nat]
          /\ \A i \in Ids : saves'[i] >= saves[i]
      BY <1>0, <1>14 DEF ReadReflected, Download, TypeOK
    <2>3. Settled \subseteq Settled'
      BY <1>0, <2>1, <2>2
      DEF Settled, MayBeUndone, Done, HasMessage, TypeOK, IncomingMessageAssumption
    <2>4. nonces' \subseteq nonces \union {d}
      BY <1>14 DEF ReadReflected, Commit
    <2>5. Done(d)' \/ d \in Downloads
      <3>1. Id[d] \in Ids /\ saves[Id[d]] \in Nat
        BY <1>0 DEF TypeOK, IncomingMessageAssumption
      <3>. QED
        BY <1>0, <1>14, <3>1 DEF ReadReflected, Download, Done, HasMessage, TypeOK
    <2>. QED
      BY <1>0, <2>1, <2>3, <2>4, <2>5 DEF AckInv, Settled, MayBeUndone
  <1>15. CASE LoseConnection
    BY <1>0, <1>15, ClosedSettles DEF LoseConnection
  <1>16. CASE Restart
    BY <1>0, <1>16, ClosedSettles DEF Restart
  <1>17. CASE Connect
    BY <1>0, <1>17
    DEF Connect, storeVars, sentVars, TypeOK, CountInv, TaskInv, AckInv, Done,
        HasMessage, Settled, MayBeUndone, Connections
  <1>18. CASE UNCHANGED vars
    BY <1>0, <1>18
    DEF vars, linkVars, storeVars, sentVars, AckInv, Done, HasMessage, Settled, MayBeUndone
  <1>. QED
    BY <1>1, <1>2, <1>3, <1>4, <1>5, <1>6, <1>7, <1>8, <1>9, <1>10, <1>11, <1>12,
       <1>13, <1>14, <1>15, <1>16, <1>17, <1>18
    DEF Next, Run, Servers

-----------------------------------------------------------------------------
(* The theorems *)

LEMMA InvInit ==
    ASSUME IncomingMessageAssumption, Init
    PROVE  IndInv
  <1>. NoTask \in TaskRecords /\ 1 \in Connections /\ 0 \in 0 .. MaxLosses
    BY DEF IncomingMessageAssumption, NoTask, Task, TaskRecords, Steps, Connections
  <1>1. \A c \in Connections : tasks[c] = NoTask
    BY DEF Init
  <1>2. \A c \in Connections : tasks[c].at = "none" /\ tasks[c].guard = FALSE
    BY <1>1 DEF NoTask, Task
  <1>3. TypeOK
    BY DEF Init, TypeOK, TaskRecords
  <1>4. CountInv /\ TaskInv
    BY <1>2 DEF Init, CountInv, TaskInv
  <1>5. SharedInv /\ SavedOnce
    BY <1>2 DEF Init, SharedInv, SavedOnce
  <1>6. ReceiptInv
    BY <1>2 DEF Init, ReceiptInv
  <1>7. AckInv
    BY <1>2 DEF Init, AckInv
  <1>. QED
    BY <1>3, <1>4, <1>5, <1>6, <1>7 DEF IndInv

LEMMA InvStep ==
    ASSUME IncomingMessageAssumption, IndInv, [Next]_vars
    PROVE  IndInv'
  BY TypeStep, CountStep, TaskStep, SharedStep, SavedStep, ReceiptStep, AckStep DEF IndInv

(* IndInv says what the properties say. *)
LEMMA InvProperties ==
    ASSUME IncomingMessageAssumption, IndInv
    PROVE  TypeOK /\ SavedOnce /\ AckedOrWaits /\ DoneIsShared /\ ReceiptOnce
  <1>1. AckedOrWaits
    BY DEF IndInv, AckInv, Settled, AckedOrWaits
  <1>2. DoneIsShared
    BY DEF IndInv, TypeOK, SharedInv, IncomingMessageAssumption, DoneIsShared, Done, HasMessage
  <1>3. ReceiptOnce
    BY DEF IndInv, TypeOK, ReceiptInv, SavedOnce, ReceiptOnce
  <1>. QED
    BY <1>1, <1>2, <1>3 DEF IndInv

(* The invariant holds in every reachable state. *)
THEOREM Invariance == Spec => []IndInv
  BY IncomingMessageAssumption, InvInit, InvStep, PTL DEF Spec

(* Every variable has its type: each connection has one task at most. *)
THEOREM TypeCorrect == Spec => []TypeOK
  BY IncomingMessageAssumption, Invariance, InvProperties, PTL

(* However often a message is sent, delivered or reflected, and whenever the *)
(* connection is lost or the program restarted, it is added to its           *)
(* conversation once.                                                        *)
THEOREM SavedOnceAlways == Spec => []SavedOnce
  BY IncomingMessageAssumption, Invariance, InvProperties, PTL

(* What this device acknowledges, it has processed or discarded after        *)
(* validation, except an update whose picture could not be downloaded, and,  *)
(* once a connection was lost, a message that waits for something else: that *)
(* behaviour is the one MCIncomingMessageHung shows.                         *)
THEOREM AckedOrWaitsAlways == Spec => []AckedOrWaits
  BY IncomingMessageAssumption, Invariance, InvProperties, PTL

(* No message is processed here that the other devices do not know of: it is *)
(* reflected, and the mediator's answer awaited, first.                      *)
THEOREM DoneIsSharedAlways == Spec => []DoneIsShared
  BY IncomingMessageAssumption, Invariance, InvProperties, PTL

(* Retries and duplicates do not send a second delivery receipt. *)
THEOREM ReceiptOnceAlways == Spec => []ReceiptOnce
  BY IncomingMessageAssumption, Invariance, InvProperties, PTL
=============================================================================
