---------------------------- MODULE GroupsProofs ----------------------------
(* Proofs about Groups, for any set of members and any number of changes,   *)
(* leaves, posts and failures.                                              *)
EXTENDS Groups, TLAPS

-----------------------------------------------------------------------------
(* The inductive invariant *)

(* What a waiting update knows is still true of the member list, but for    *)
(* the members that have left since it was computed.                        *)
UpdateInv ==
    update.phase = "reflecting" /\ userState[Creator] = "member" =>
        LET kept == members[Creator] \ update.removed IN
        /\ update.added \subseteq update.members
        /\ kept \subseteq update.members
        /\ update.members \ (kept \union update.added) \subseteq raced

(* After a device has read the whole box, the last setup in it decides whom *)
(* it lists. `now' says whether it lists n today.                           *)
NoSetup(box) == \A i \in DOMAIN box : box[i].kind # "setup"
LastSetup(box, i) ==
    /\ i \in DOMAIN box /\ box[i].kind = "setup"
    /\ \A j \in DOMAIN box : j > i => box[j].kind # "setup"
Ends(box, now, n) ==
    \/ NoSetup(box) /\ now
    \/ \E i \in DOMAIN box : LastSetup(box, i) /\ n \in box[i].members

(* What m will make of the group with what is in his mailbox by now:        *)
(* whether he takes himself for a member, and whether he lists n.           *)
TakesPart(m) == Ends(mailbox[m], userState[m] = "member", m)
Lists(m, n) == Ends(mailbox[m], n \in members[m], n)

(* The creator has a task in line, or will as soon as the continuation of   *)
(* its transaction has run.                                                 *)
In(seq, task) == \E i \in DOMAIN seq : seq[i] = task
Queued(task) == task \in due \/ In(tasks[Creator], task)

(* He will announce his list to all on it, or an end to m, if it is still   *)
(* the time for it.                                                         *)
Announcing == \E task \in Task : Queued(task) /\ task.kind = "update"
TellsEnd(m) == \E task \in Task : Queued(task) /\ m \in task.to

(* The creator will learn that m has left, or has said so.                  *)
HoldsLeave(box, m) == \E i \in DOMAIN box : box[i].kind = "leave" /\ box[i].from = m
Leaving(m) == tasks[m] # <<>> \/ HoldsLeave(mailbox[Creator], m)

(* One transaction is finished after the other.                             *)
DueInv == \A a, b \in due : a = b

(* A leave comes from somebody who has departed, and reaches the creator.   *)
LeaveInv ==
    /\ \A m \in Members : tasks[m] # <<>> =>
          /\ Len(tasks[m]) = 1
          /\ Creator \in Head(tasks[m]).to /\ m \in departed
    /\ \A u \in Users, m \in Members : HoldsLeave(mailbox[u], m) => m \in departed

(* Who will take himself for a member is one, or will be told otherwise.    *)
OutsidersInv ==
    Creator \notin forgotten => \A m \in Members \ forgotten :
        TakesPart(m) => Belongs(m) \/ m \in stray \/ TellsEnd(m)

(* Who is a member will take himself for one and have the right list, or    *)
(* else he will be sent it, or has left.                                    *)
InsidersInv ==
    Creator \notin forgotten => \A m \in Members \ forgotten :
        Belongs(m) =>
            \/ Announcing
            \/ Leaving(m)
            \/ /\ TakesPart(m)
               /\ \A n \in Members \ ({m} \union departed) :
                     Lists(m, n) <=> n \in members[Creator]

SettledInv == DueInv /\ LeaveInv /\ OutsidersInv /\ InsidersInv

IndInv == TypeOK /\ UpdateInv /\ MirrorDiffers /\ SettledInv

-----------------------------------------------------------------------------
(* Mailboxes *)

\* What the devices send are messages.
LEMMA MessageTypes ==
    /\ \A set \in SUBSET Members : Setup(set) \in Message
    /\ \A m \in Members, kind \in {"leave", "request", "post"} : Sent(kind, m) \in Message
    /\ \A u \in Users : Sent("post", u) \in Message
  BY DEF Setup, Sent, Message, Users

\* The first message of a mailbox is one.
LEMMA HeadType ==
    ASSUME QueueType, NEW u \in Users, mailbox[u] # <<>>
    PROVE  Head(mailbox[u]) \in Message
  BY DEF QueueType

\* Delivering a message keeps the type of the mailboxes,
LEMMA DeliverType ==
    ASSUME NEW box \in [Users -> Seq(Message)], NEW to, NEW msg \in Message
    PROVE  Deliver(box, to, msg) \in [Users -> Seq(Message)]
  BY DEF Deliver

\* and so do an announcement,
LEMMA AnnounceType ==
    ASSUME GroupType, QueueType, Creator \in Users, NEW receivers, AnnounceTo(receivers)
    PROVE  mailbox' \in [Users -> Seq(Message)]
  <1>. DEFINE box == Deliver(mailbox, Announced \intersect receivers, Setup(members[Creator]))
  <1>1. Setup(members[Creator]) \in Message /\ Setup({}) \in Message
    BY MessageTypes DEF GroupType
  <1>2. box \in [Users -> Seq(Message)]
    BY <1>1, DeliverType DEF QueueType
  <1>3. mailbox' = Deliver(box, Removed \intersect receivers, Setup({}))
    BY DEF AnnounceTo
  <1>. HIDE DEF box
  <1>. QED
    BY <1>1, <1>2, <1>3, DeliverType

\* a reply,
LEMMA ReplyType ==
    ASSUME QueueType, NEW u \in Users, mailbox[u] # <<>>, NEW to, NEW msg \in Message,
           Reply(u, to, msg)
    PROVE  mailbox' \in [Users -> Seq(Message)]
  <1>. DEFINE rest == [mailbox EXCEPT ![u] = Tail(@)]
  <1>1. rest \in [Users -> Seq(Message)]
    BY DEF QueueType
  <1>2. mailbox' = Deliver(rest, to, msg) \/ mailbox' = Deliver(mailbox, to, msg)
    BY DEF Reply
  <1>3. mailbox \in [Users -> Seq(Message)]
    BY DEF QueueType
  <1>. HIDE DEF rest
  <1>4. CASE mailbox' = Deliver(rest, to, msg)
    BY <1>1, <1>4, DeliverType
  <1>5. CASE mailbox' = Deliver(mailbox, to, msg)
    BY <1>3, <1>5, DeliverType
  <1>. QED
    BY <1>2, <1>4, <1>5

\* and a request for a setup.
LEMMA RequestType ==
    ASSUME QueueType, NEW m \in Members, m \in Users, mailbox[m] # <<>>, RequestSync(m)
    PROVE  mailbox' \in [Users -> Seq(Message)]
  <1>1. Sent("request", m) \in Message /\ Setup({}) \in Message
    BY MessageTypes
  <1>2. CASE Reply(m, {}, Setup({})) \/ Reply(m, {Creator}, Sent("request", m))
    BY <1>1, <1>2, ReplyType
  <1>3. CASE mailbox' = Deliver(mailbox, {Creator}, Sent("request", m))
    BY <1>1, <1>3, DeliverType DEF QueueType
  <1>. QED
    BY <1>2, <1>3 DEF RequestSync, Done

-----------------------------------------------------------------------------
(* The steps *)

(* The copies of the group. *)
LEMMA GroupStep ==
    ASSUME ConstantsAssumption, TypeOK, [Next]_vars
    PROVE  GroupType'
  <1>0. GroupType /\ QueueType /\ CreatorType /\ Creator \in Users /\ Members \subseteq Users
    BY DEF TypeOK, Users
  <1>1. ASSUME NEW set \in SUBSET Members, Create(set)
        PROVE  GroupType'
    BY <1>0, <1>1 DEF Create, pending, recent, history, Idle, GroupType
  <1>2. ASSUME NEW set \in SUBSET Members, StartUpdate(set)
        PROVE  GroupType'
    BY <1>0, <1>2 DEF StartUpdate, recent, history, GroupType
  <1>3. CASE LoseUpdate
    BY <1>0, <1>3 DEF LoseUpdate, ConnectionLost, recent, Idle, GroupType
  <1>4. CASE RequestDisband
    BY <1>0, <1>4 DEF RequestDisband, recent, bounds, history, GroupType
  <1>5. CASE AnnouncePartly
    BY <1>0, <1>5 DEF AnnouncePartly, AnnounceTo, ConnectionLost, recent, GroupType
  <1>6. CASE CommitUpdate
    BY <1>0, <1>6 DEF CommitUpdate, CreatorType, GroupType, Update
  <1>7. CASE ScheduleDue
    BY <1>0, <1>7 DEF ScheduleDue, pending, recent, bounds, history, GroupType
  <1>8. CASE Announce
    BY <1>0, <1>8 DEF Announce, pending, AnnounceTo, creatorVars, recent, bounds, NextTask,
        GroupType
  <1>9. CASE BeginHandling
    BY <1>0, <1>9 DEF BeginHandling, pending, recent, bounds, history, GroupType
  <1>10. ASSUME NEW u \in Users, HandleLeave(u)
        PROVE  GroupType'
    BY <1>0, <1>10 DEF HandleLeave, GroupType
  <1>11. ASSUME NEW u \in Users, HandlePost(u)
        PROVE  GroupType'
    BY <1>0, <1>11 DEF HandlePost, GroupType
  <1>12. CASE HandleRequest
    BY <1>0, <1>12 DEF HandleRequest, GroupType
  <1>13. ASSUME NEW m \in Members, SendLeave(m)
        PROVE  GroupType'
    BY <1>0, <1>13 DEF SendLeave, creatorVars, recent, bounds, history, NextTask,
        GroupType
  <1>14. ASSUME NEW m \in Members, HandleSetup(m)
        PROVE  GroupType'
    <2>1. Head(mailbox[m]).members \subseteq Members
      BY <1>0, <1>14, HeadType DEF HandleSetup, Handles, Message
    <2>. QED
      BY <1>0, <2>1, <1>14 DEF HandleSetup, GroupType
  <1>15. ASSUME NEW m \in Members, Leave(m)
        PROVE  GroupType'
    BY <1>0, <1>15 DEF Leave, pending, Remove, recent, GroupType
  <1>16. ASSUME NEW m \in Members, SendLeavePartly(m)
        PROVE  GroupType'
    BY <1>0, <1>16 DEF SendLeavePartly, ConnectionLost, recent, history, GroupType
  <1>17. ASSUME NEW m \in Members, Expire(m)
        PROVE  GroupType'
    BY <1>0, <1>17 DEF Expire, creatorVars, bounds, history, GroupType
  <1>18. ASSUME NEW u \in Users, Delete(u)
        PROVE  GroupType'
    BY <1>0, <1>18 DEF Delete, pending, Remove, recent, bounds, history, GroupType
  <1>19. ASSUME NEW u \in Users, Post(u)
        PROVE  GroupType'
    BY <1>0, <1>19 DEF Post, creatorVars, recent, history, GroupType
  <1>20. ASSUME NEW u \in Users, Restart(u)
        PROVE  GroupType'
    BY <1>0, <1>20 DEF Restart, pending, GroupType
  <1>21. CASE UNCHANGED vars
    BY <1>0, <1>21 DEF vars, creatorVars, recent, bounds, history, GroupType
  <1>22. CASE LoseDisband
    BY <1>0, <1>22 DEF LoseDisband, ConnectionLost, recent, GroupType
  <1>23. CASE CommitDisband
    BY <1>0, <1>23 DEF CommitDisband, Remove, recent, bounds, history, GroupType
  <1>24. CASE AnnounceThrows
    BY <1>0, <1>24 DEF AnnounceThrows, recent, bounds, history, GroupType
  <1>. QED
    BY <1>1, <1>2, <1>3, <1>4, <1>5, <1>6, <1>7, <1>8, <1>9, <1>10, <1>11, <1>12,
       <1>13, <1>14, <1>15, <1>16, <1>17, <1>18, <1>19, <1>20, <1>21, <1>22, <1>23,
       <1>24
    DEF Next, CreatorStep, MemberStep, Users

(* The tasks. *)
LEMMA TasksStep ==
    ASSUME ConstantsAssumption, TypeOK, [Next]_vars
    PROVE  tasks' \in [Users -> Seq(Task)]
  <1>0. GroupType /\ QueueType /\ CreatorType /\ Creator \in Users /\ Members \subseteq Users
    BY DEF TypeOK, Users
  <1>1. ASSUME NEW set \in SUBSET Members, Create(set)
        PROVE  tasks' \in [Users -> Seq(Task)]
    BY <1>0, <1>1 DEF Create, pending, QueueType, Task
  <1>2. ASSUME NEW set \in SUBSET Members, StartUpdate(set)
        PROVE  tasks' \in [Users -> Seq(Task)]
    BY <1>0, <1>2 DEF StartUpdate, recent, history, QueueType
  <1>3. CASE LoseUpdate
    BY <1>0, <1>3 DEF LoseUpdate, ConnectionLost, recent, Idle, QueueType
  <1>4. CASE RequestDisband
    BY <1>0, <1>4 DEF RequestDisband, recent, bounds, history, QueueType
  <1>5. CASE AnnouncePartly
    BY <1>0, <1>5 DEF AnnouncePartly, AnnounceTo, ConnectionLost, recent, QueueType
  <1>6. CASE CommitUpdate
    BY <1>0, <1>6 DEF CommitUpdate, recent, bounds, history, Idle, QueueType
  <1>7. CASE ScheduleDue
    <2>1. PICK task \in Task : tasks' = [tasks EXCEPT ![Creator] = Append(@, task)]
      BY <1>0, <1>7 DEF ScheduleDue, CreatorType
    <2>. QED
      BY <1>0, <2>1 DEF QueueType
  <1>8. CASE Announce
    BY <1>0, <1>8 DEF Announce, Announces, NextTask, QueueType
  <1>9. CASE BeginHandling
    BY <1>0, <1>9 DEF BeginHandling, pending, recent, bounds, history, QueueType
  <1>10. ASSUME NEW u \in Users, HandleLeave(u)
        PROVE  tasks' \in [Users -> Seq(Task)]
    BY <1>0, <1>10 DEF HandleLeave, Handles, QueueType
  <1>11. ASSUME NEW u \in Users, HandlePost(u)
        PROVE  tasks' \in [Users -> Seq(Task)]
    BY <1>0, <1>11 DEF HandlePost, Handles, QueueType
  <1>12. CASE HandleRequest
    BY <1>0, <1>12 DEF HandleRequest, Handles, QueueType
  <1>13. ASSUME NEW m \in Members, SendLeave(m)
        PROVE  tasks' \in [Users -> Seq(Task)]
    BY <1>0, <1>13 DEF SendLeave, NextTask, QueueType
  <1>14. ASSUME NEW m \in Members, HandleSetup(m)
        PROVE  tasks' \in [Users -> Seq(Task)]
    BY <1>0, <1>14 DEF HandleSetup, Handles, QueueType
  <1>15. ASSUME NEW m \in Members, Leave(m)
        PROVE  tasks' \in [Users -> Seq(Task)]
    BY <1>0, <1>15 DEF Leave, pending, QueueType, Task, GroupType
  <1>16. ASSUME NEW m \in Members, SendLeavePartly(m)
        PROVE  tasks' \in [Users -> Seq(Task)]
    BY <1>0, <1>16 DEF SendLeavePartly, ConnectionLost, recent, history, QueueType
  <1>17. ASSUME NEW m \in Members, Expire(m)
        PROVE  tasks' \in [Users -> Seq(Task)]
    BY <1>0, <1>17 DEF Expire, creatorVars, bounds, history, QueueType
  <1>18. ASSUME NEW u \in Users, Delete(u)
        PROVE  tasks' \in [Users -> Seq(Task)]
    BY <1>0, <1>18 DEF Delete, pending, Remove, recent, bounds, history, QueueType
  <1>19. ASSUME NEW u \in Users, Post(u)
        PROVE  tasks' \in [Users -> Seq(Task)]
    BY <1>0, <1>19 DEF Post, creatorVars, recent, history, QueueType
  <1>20. ASSUME NEW u \in Users, Restart(u)
        PROVE  tasks' \in [Users -> Seq(Task)]
    BY <1>0, <1>20 DEF Restart, pending, QueueType
  <1>21. CASE UNCHANGED vars
    BY <1>0, <1>21 DEF vars, creatorVars, recent, bounds, history, QueueType
  <1>22. CASE LoseDisband
    BY <1>0, <1>22 DEF LoseDisband, ConnectionLost, recent, QueueType
  <1>23. CASE CommitDisband
    BY <1>0, <1>23 DEF CommitDisband, Remove, recent, bounds, history, QueueType
  <1>24. CASE AnnounceThrows
    BY <1>0, <1>24 DEF AnnounceThrows, recent, bounds, history, QueueType
  <1>. QED
    BY <1>1, <1>2, <1>3, <1>4, <1>5, <1>6, <1>7, <1>8, <1>9, <1>10, <1>11, <1>12,
       <1>13, <1>14, <1>15, <1>16, <1>17, <1>18, <1>19, <1>20, <1>21, <1>22, <1>23,
       <1>24
    DEF Next, CreatorStep, MemberStep, Users

(* The mailboxes. *)
LEMMA BoxStep ==
    ASSUME ConstantsAssumption, TypeOK, [Next]_vars
    PROVE  mailbox' \in [Users -> Seq(Message)]
  <1>0. GroupType /\ QueueType /\ CreatorType /\ Creator \in Users /\ Members \subseteq Users
    BY DEF TypeOK, Users
  <1>s. \A set \in SUBSET Members : Setup(set) \in Message
    BY MessageTypes
  <1>1. ASSUME NEW set \in SUBSET Members, Create(set)
        PROVE  mailbox' \in [Users -> Seq(Message)]
    BY <1>0, <1>1 DEF Create, pending, recent, history, Idle, QueueType
  <1>2. ASSUME NEW set \in SUBSET Members, StartUpdate(set)
        PROVE  mailbox' \in [Users -> Seq(Message)]
    BY <1>0, <1>2 DEF StartUpdate, recent, history, QueueType
  <1>3. CASE LoseUpdate
    BY <1>0, <1>3 DEF LoseUpdate, ConnectionLost, recent, Idle, QueueType
  <1>4. CASE RequestDisband
    BY <1>0, <1>4 DEF RequestDisband, recent, bounds, history, QueueType
  <1>5. CASE AnnouncePartly
    BY <1>0, <1>5, AnnounceType DEF AnnouncePartly
  <1>6. CASE CommitUpdate
    BY <1>0, <1>6 DEF CommitUpdate, recent, bounds, history, Idle, QueueType
  <1>7. CASE ScheduleDue
    BY <1>0, <1>7 DEF ScheduleDue, pending, recent, bounds, history, QueueType
  <1>8. CASE Announce
    BY <1>0, <1>8, AnnounceType DEF Announce, pending, QueueType
  <1>9. CASE BeginHandling
    BY <1>0, <1>9 DEF BeginHandling, pending, recent, bounds, history, QueueType
  <1>10. ASSUME NEW u \in Users, HandleLeave(u)
        PROVE  mailbox' \in [Users -> Seq(Message)]
    <2>1. CASE Done(u)
      BY <1>0, <1>s, <2>1, <1>10, ReplyType DEF HandleLeave, Handles, Done, QueueType
    <2>2. CASE u # Creator /\ RequestSync(u)
      BY <1>0, <2>2, <1>10, RequestType DEF HandleLeave, Handles, Users
    <2>3. CASE UNCHANGED mailbox
      BY <1>0, <2>3 DEF QueueType
    <2>. QED
      BY <2>1, <2>2, <2>3, <1>10 DEF HandleLeave
  <1>11. ASSUME NEW u \in Users, HandlePost(u)
        PROVE  mailbox' \in [Users -> Seq(Message)]
    <2>. DEFINE from == Head(mailbox[u]).from
    <2>1. CASE Done(u)
      BY <1>0, <1>s, <2>1, <1>11, ReplyType DEF HandlePost, Handles, Done, QueueType
    <2>2. CASE u # Creator /\ RequestSync(u)
      BY <1>0, <2>2, <1>11, RequestType DEF HandlePost, Handles, Users
    <2>3. CASE Reply(u, {from}, Setup({}))
      BY <1>0, <1>s, <2>3, <1>11, ReplyType DEF HandlePost, Handles, QueueType
    <2>4. CASE u # Creator /\ Reply(u, {from}, Sent("leave", u))
      BY <1>0, <2>4, <1>11, ReplyType, MessageTypes DEF HandlePost, Handles, QueueType, Users
    <2>. QED
      BY <2>1, <2>2, <2>3, <2>4, <1>11 DEF HandlePost
  <1>12. CASE HandleRequest
    <2>. DEFINE m == Head(mailbox[Creator]).from
                list == IF Belongs(m) THEN members[Creator] ELSE {}
    <2>1. CASE Done(Creator)
      BY <1>0, <1>s, <2>1, <1>12, ReplyType DEF HandleRequest, Handles, Done, QueueType
    <2>2. CASE Reply(Creator, {m}, Setup(list))
      <3>1. list \in SUBSET Members
        BY <1>0 DEF GroupType
      <3>2. Setup(list) \in Message
        BY <1>s, <3>1
      <3>. QED
        BY <1>0, <2>2, <3>2, <1>12, ReplyType DEF HandleRequest, Handles, QueueType
    <2>3. CASE UNCHANGED mailbox
      BY <1>0, <2>3 DEF QueueType
    <2>. QED
      BY <2>1, <2>2, <2>3, <1>12 DEF HandleRequest
  <1>13. ASSUME NEW m \in Members, SendLeave(m)
        PROVE  mailbox' \in [Users -> Seq(Message)]
    BY <1>0, <1>13, DeliverType, MessageTypes DEF SendLeave, QueueType
  <1>14. ASSUME NEW m \in Members, HandleSetup(m)
        PROVE  mailbox' \in [Users -> Seq(Message)]
    BY <1>0, <1>s, <1>14, ReplyType DEF HandleSetup, Handles, Done, QueueType
  <1>15. ASSUME NEW m \in Members, Leave(m)
        PROVE  mailbox' \in [Users -> Seq(Message)]
    BY <1>0, <1>15 DEF Leave, pending, Remove, recent, QueueType
  <1>16. ASSUME NEW m \in Members, SendLeavePartly(m)
        PROVE  mailbox' \in [Users -> Seq(Message)]
    <2>1. PICK reached : mailbox' = Deliver(mailbox, reached, Sent("leave", m))
      BY <1>16 DEF SendLeavePartly
    <2>2. mailbox \in [Users -> Seq(Message)] /\ Sent("leave", m) \in Message
      BY <1>0, MessageTypes DEF QueueType
    <2>. QED
      BY <2>1, <2>2, DeliverType
  <1>17. ASSUME NEW m \in Members, Expire(m)
        PROVE  mailbox' \in [Users -> Seq(Message)]
    BY <1>0, <1>17 DEF Expire, creatorVars, bounds, history, QueueType
  <1>18. ASSUME NEW u \in Users, Delete(u)
        PROVE  mailbox' \in [Users -> Seq(Message)]
    BY <1>0, <1>18 DEF Delete, pending, Remove, recent, bounds, history, QueueType
  <1>19. ASSUME NEW u \in Users, Post(u)
        PROVE  mailbox' \in [Users -> Seq(Message)]
    BY <1>0, <1>19, DeliverType, MessageTypes DEF Post, QueueType
  <1>20. ASSUME NEW u \in Users, Restart(u)
        PROVE  mailbox' \in [Users -> Seq(Message)]
    BY <1>0, <1>20 DEF Restart, pending, QueueType
  <1>21. CASE UNCHANGED vars
    BY <1>0, <1>21 DEF vars, creatorVars, recent, bounds, history, QueueType
  <1>22. CASE LoseDisband
    BY <1>0, <1>22 DEF LoseDisband, ConnectionLost, recent, QueueType
  <1>23. CASE CommitDisband
    BY <1>0, <1>23 DEF CommitDisband, Remove, recent, bounds, history, QueueType
  <1>24. CASE AnnounceThrows
    BY <1>0, <1>24 DEF AnnounceThrows, recent, bounds, history, QueueType
  <1>. QED
    BY <1>1, <1>2, <1>3, <1>4, <1>5, <1>6, <1>7, <1>8, <1>9, <1>10, <1>11, <1>12,
       <1>13, <1>14, <1>15, <1>16, <1>17, <1>18, <1>19, <1>20, <1>21, <1>22, <1>23,
       <1>24
    DEF Next, CreatorStep, MemberStep, Users

(* A transaction that moves up in the line keeps everything else. *)
LEMMA AdvanceFacts ==
    ASSUME CreatorType
    PROVE  /\ Advance(update) \in Update /\ Advance(ending) \in Ending
           /\ Advance(update).phase = update.phase
           /\ Advance(update).members = update.members
           /\ Advance(update).added = update.added
           /\ Advance(update).removed = update.removed
  BY DEF CreatorType, Advance, Update, Ending

\* The place in the line is a number.
LEMMA AheadType ==
    ASSUME QueueType, Creator \in Users, NEW other
    PROVE  Ahead(other) \in Nat
  <1>1. Len(tasks[Creator]) \in Nat
    BY DEF QueueType
  <1>2. CASE other.phase = "none"
    BY <1>1, <1>2 DEF Ahead
  <1>3. CASE other.phase # "none"
    BY <1>1, <1>3 DEF Ahead
  <1>. QED
    BY <1>2, <1>3

(* The creator's device. *)
LEMMA CreatorStepType ==
    ASSUME ConstantsAssumption, TypeOK, [Next]_vars
    PROVE  CreatorType'
  <1>0. /\ GroupType /\ QueueType /\ CreatorType /\ Creator \in Users
        /\ NoUpdate \in Update /\ NoEnding \in Ending
    BY DEF TypeOK, NoUpdate, Update, NoEnding, Ending, Users
  <1>a. Advance(update) \in Update /\ Advance(ending) \in Ending
    BY <1>0, AdvanceFacts
  <1>b. \A other : Ahead(other) \in Nat
    BY <1>0, AheadType
  <1>c. ASSUME NEW u \in Users, ConnectionLost(u)
        PROVE  update' \in Update /\ ending' \in Ending
    BY <1>0, <1>c DEF ConnectionLost, CreatorType
  <1>1. ASSUME NEW set \in SUBSET Members, Create(set)
        PROVE  CreatorType'
    BY <1>0, <1>1 DEF Create, pending, recent, history, Idle, CreatorType
  <1>2. ASSUME NEW set \in SUBSET Members, StartUpdate(set)
        PROVE  CreatorType'
    <2>1. Ahead(ending) \in Nat /\ members[Creator] \in SUBSET Members
      BY <1>0, <1>b DEF GroupType
    <2>2. update' \in Update
      BY <2>1, <1>2 DEF StartUpdate, Update
    <2>. QED
      BY <1>0, <1>2, <2>2 DEF StartUpdate, CreatorType
  <1>3. CASE LoseUpdate
    <2>1. mirror' \subseteq Members
      BY <1>0, <1>3 DEF LoseUpdate, CreatorType, Update
    <2>. QED
      BY <1>0, <1>3, <1>c, <2>1 DEF LoseUpdate, CreatorType
  <1>4. CASE RequestDisband
    <2>1. ending' \in Ending
      BY <1>b, <1>4 DEF RequestDisband, Ending
    <2>. QED
      BY <1>0, <1>4, <2>1 DEF RequestDisband, CreatorType
  <1>5. CASE AnnouncePartly
    BY <1>0, <1>c, <1>5 DEF AnnouncePartly, CreatorType
  <1>6. CASE CommitUpdate
    <2>1. mirror' \subseteq Members
      BY <1>0, <1>6 DEF CommitUpdate, CreatorType, Update
    <2>2. due' \subseteq Task
      BY <1>0, <1>6 DEF CommitUpdate, CreatorType, Update, Task, Users
    <2>. QED
      BY <1>0, <1>a, <1>6, <2>1, <2>2 DEF CommitUpdate, CreatorType
  <1>7. CASE ScheduleDue
    BY <1>0, <1>7 DEF ScheduleDue, pending, recent, bounds, history, CreatorType
  <1>8. CASE Announce
    BY <1>0, <1>a, <1>8 DEF Announce, CreatorType
  <1>9. CASE BeginHandling
    BY <1>0, <1>9 DEF BeginHandling, pending, recent, bounds, history, CreatorType
  <1>10. ASSUME NEW u \in Users, HandleLeave(u)
        PROVE  CreatorType'
    BY <1>0, <1>10 DEF HandleLeave, Handles, Done, Reply, pending, RequestSync, ConnectionLost,
        ReflectedWithout, CreatorType, GroupType, Users
  <1>11. ASSUME NEW u \in Users, HandlePost(u)
        PROVE  CreatorType'
    BY <1>0, <1>11 DEF HandlePost, Handles, Done, Reply, pending, RequestSync, ConnectionLost,
        CreatorType
  <1>12. CASE HandleRequest
    BY <1>0, <1>12 DEF HandleRequest, Handles, Done, Reply, pending, ConnectionLost,
        CreatorType
  <1>13. ASSUME NEW m \in Members, SendLeave(m)
        PROVE  CreatorType'
    BY <1>0, <1>13 DEF SendLeave, creatorVars, pending, recent, bounds, history, NextTask,
        CreatorType
  <1>14. ASSUME NEW m \in Members, HandleSetup(m)
        PROVE  CreatorType'
    BY <1>0, <1>14 DEF HandleSetup, Handles, Done, Reply, pending, ConnectionLost, recent,
        CreatorType
  <1>15. ASSUME NEW m \in Members, Leave(m)
        PROVE  CreatorType'
    BY <1>0, <1>15 DEF Leave, pending, Remove, recent, CreatorType
  <1>16. ASSUME NEW m \in Members, SendLeavePartly(m)
        PROVE  CreatorType'
    BY <1>0, <1>16 DEF SendLeavePartly, ConnectionLost, recent, history, CreatorType
  <1>17. ASSUME NEW m \in Members, Expire(m)
        PROVE  CreatorType'
    BY <1>0, <1>17 DEF Expire, creatorVars, pending, bounds, history, CreatorType
  <1>18. ASSUME NEW u \in Users, Delete(u)
        PROVE  CreatorType'
    BY <1>0, <1>18 DEF Delete, pending, Remove, recent, bounds, history, CreatorType
  <1>19. ASSUME NEW u \in Users, Post(u)
        PROVE  CreatorType'
    BY <1>0, <1>19 DEF Post, creatorVars, pending, recent, history, CreatorType
  <1>20. ASSUME NEW u \in Users, Restart(u)
        PROVE  CreatorType'
    BY <1>0, <1>20 DEF Restart, pending, CreatorType
  <1>21. CASE UNCHANGED vars
    BY <1>0, <1>21 DEF vars, creatorVars, pending, recent, bounds, history, CreatorType
  <1>22. CASE LoseDisband
    <2>1. mirror' \subseteq Members
      BY <1>0, <1>22 DEF LoseDisband, CreatorType
    <2>. QED
      BY <1>0, <1>c, <1>22, <2>1 DEF LoseDisband, CreatorType
  <1>23. CASE CommitDisband
    <2>1. due' \subseteq Task
      BY <1>0, <1>23 DEF CommitDisband, GroupType, Task, Users
    <2>2. mirror' \subseteq Members
      BY <1>0, <1>23 DEF CommitDisband, Remove, CreatorType
    <2>. QED
      BY <1>0, <1>a, <1>23, <2>1, <2>2 DEF CommitDisband, CreatorType
  <1>24. CASE AnnounceThrows
    BY <1>0, <1>24 DEF AnnounceThrows, recent, bounds, history, CreatorType
  <1>. QED
    BY <1>1, <1>2, <1>3, <1>4, <1>5, <1>6, <1>7, <1>8, <1>9, <1>10, <1>11, <1>12,
       <1>13, <1>14, <1>15, <1>16, <1>17, <1>18, <1>19, <1>20, <1>21, <1>22, <1>23,
       <1>24
    DEF Next, CreatorStep, MemberStep, Users

(* The bounds and the history. *)
LEMMA HistoryStep ==
    ASSUME ConstantsAssumption, TypeOK, [Next]_vars
    PROVE  HistoryType'
  <1>0. HistoryType /\ Creator \in Users /\ Members \subseteq Users
    BY DEF TypeOK, Users
  <1>1. ASSUME NEW set \in SUBSET Members, Create(set)
        PROVE  HistoryType'
    BY <1>0, <1>1 DEF Create, pending, recent, history, Idle, HistoryType
  <1>2. ASSUME NEW set \in SUBSET Members, StartUpdate(set)
        PROVE  HistoryType'
    BY <1>0, <1>2 DEF StartUpdate, recent, history, HistoryType
  <1>3. CASE LoseUpdate
    <2>1. unconfirmed' \in BOOLEAN
      BY <1>0, <1>3 DEF LoseUpdate, HistoryType
    <2>. QED
      BY <1>0, <2>1, <1>3 DEF LoseUpdate, ConnectionLost, recent, HistoryType
  <1>4. CASE RequestDisband
    BY <1>0, <1>4 DEF RequestDisband, recent, bounds, history, HistoryType
  <1>5. CASE AnnouncePartly
    BY <1>0, <1>5 DEF AnnouncePartly, AnnounceTo, ConnectionLost, recent, HistoryType
  <1>6. CASE CommitUpdate
    BY <1>0, <1>6 DEF CommitUpdate, recent, bounds, history, Idle, HistoryType
  <1>7. CASE ScheduleDue
    BY <1>0, <1>7 DEF ScheduleDue, pending, recent, bounds, history, HistoryType
  <1>8. CASE Announce
    BY <1>0, <1>8 DEF Announce, pending, AnnounceTo, creatorVars, recent, bounds, NextTask,
        HistoryType
  <1>9. CASE BeginHandling
    BY <1>0, <1>9 DEF BeginHandling, pending, recent, bounds, history, HistoryType
  <1>10. ASSUME NEW u \in Users, HandleLeave(u)
        PROVE  HistoryType'
    <2>1. u # Creator => u \in Members
      BY DEF Users
    <2>2. Head(mailbox[u]).from \in Members
      BY <1>10, HeadType DEF TypeOK, HandleLeave, Handles, Message
    <2>3. unconfirmed' \in BOOLEAN
      BY <1>0, <1>10 DEF HandleLeave, HistoryType
    <2>4. failures' \in Nat
      BY <1>0, <1>10 DEF HandleLeave, Done, Reply, RequestSync, ConnectionLost, HistoryType
    <2>5. requested' \subseteq Members
      BY <1>0, <2>1, <1>10 DEF HandleLeave, RequestSync, HistoryType
    <2>6. raced' \subseteq Members
      BY <1>0, <2>2, <1>10 DEF HandleLeave, HistoryType
    <2>7. stray' \subseteq Members
      BY <1>0, <2>2, <1>10 DEF HandleLeave, HistoryType
    <2>. QED
      BY <1>0, <2>3, <2>4, <2>5, <2>6, <2>7, <1>10 DEF HandleLeave, Handles, HistoryType
  <1>11. ASSUME NEW u \in Users, HandlePost(u)
        PROVE  HistoryType'
    <2>1. u # Creator => u \in Members
      BY DEF Users
    <2>2. failures' \in Nat
      BY <1>0, <1>11 DEF HandlePost, Done, Reply, RequestSync, ConnectionLost, HistoryType
    <2>3. requested' \subseteq Members
      BY <1>0, <2>1, <1>11 DEF HandlePost, RequestSync, HistoryType
    <2>4. stray' \subseteq Members /\ departed' \subseteq Members
      BY <1>0, <2>1, <1>11 DEF HandlePost, HistoryType
    <2>. QED
      BY <1>0, <2>2, <2>3, <2>4, <1>11 DEF HandlePost, Handles, HistoryType
  <1>12. CASE HandleRequest
    <2>2. Head(mailbox[Creator]).from \in Members
      BY <1>0, <1>12, HeadType DEF TypeOK, HandleRequest, Handles, Message
    <2>. QED
      BY <1>0, <2>2, <1>12 DEF HandleRequest, Handles, Done, Reply, ConnectionLost, HistoryType
  <1>13. ASSUME NEW m \in Members, SendLeave(m)
        PROVE  HistoryType'
    BY <1>0, <1>13 DEF SendLeave, creatorVars, recent, bounds, history, NextTask,
        HistoryType
  <1>14. ASSUME NEW m \in Members, HandleSetup(m)
        PROVE  HistoryType'
    BY <1>0, <1>14 DEF HandleSetup, Handles, Done, Reply, ConnectionLost, recent,
        HistoryType
  <1>15. ASSUME NEW m \in Members, Leave(m)
        PROVE  HistoryType'
    BY <1>0, <1>15 DEF Leave, pending, Remove, recent, HistoryType
  <1>16. ASSUME NEW m \in Members, SendLeavePartly(m)
        PROVE  HistoryType'
    BY <1>0, <1>16 DEF SendLeavePartly, ConnectionLost, recent, history, HistoryType
  <1>17. ASSUME NEW m \in Members, Expire(m)
        PROVE  HistoryType'
    BY <1>0, <1>17 DEF Expire, creatorVars, bounds, history, HistoryType
  <1>18. ASSUME NEW u \in Users, Delete(u)
        PROVE  HistoryType'
    BY <1>0, <1>18 DEF Delete, pending, Remove, recent, bounds, history, HistoryType
  <1>19. ASSUME NEW u \in Users, Post(u)
        PROVE  HistoryType'
    BY <1>0, <1>19 DEF Post, creatorVars, recent, history, HistoryType
  <1>20. ASSUME NEW u \in Users, Restart(u)
        PROVE  HistoryType'
    BY <1>0, <1>20 DEF Restart, pending, HistoryType, Users
  <1>21. CASE UNCHANGED vars
    BY <1>0, <1>21 DEF vars, creatorVars, recent, bounds, history, HistoryType
  <1>22. CASE LoseDisband
    <2>1. unconfirmed' \in BOOLEAN
      BY <1>0, <1>22 DEF LoseDisband, HistoryType
    <2>. QED
      BY <1>0, <2>1, <1>22 DEF LoseDisband, ConnectionLost, recent, HistoryType
  <1>23. CASE CommitDisband
    BY <1>0, <1>23 DEF CommitDisband, Remove, recent, bounds, history, HistoryType
  <1>24. CASE AnnounceThrows
    BY <1>0, <1>24 DEF AnnounceThrows, recent, bounds, history, HistoryType
  <1>. QED
    BY <1>1, <1>2, <1>3, <1>4, <1>5, <1>6, <1>7, <1>8, <1>9, <1>10, <1>11, <1>12,
       <1>13, <1>14, <1>15, <1>16, <1>17, <1>18, <1>19, <1>20, <1>21, <1>22, <1>23,
       <1>24
    DEF Next, CreatorStep, MemberStep, Users

(* The update that is under way. *)
LEMMA UpdateStep ==
    ASSUME ConstantsAssumption, TypeOK, UpdateInv, [Next]_vars
    PROVE  UpdateInv'
  <1>0. /\ UpdateInv /\ GroupType /\ CreatorType /\ HistoryType /\ Creator \in Users
        /\ \A x \in Members : x # Creator /\ x \in Users
    BY DEF TypeOK, Users, ConstantsAssumption
  <1>a. ASSUME update' = Advance(update), members' = members, userState' = userState,
               raced' = raced
        PROVE  UpdateInv'
    BY <1>0, <1>a, AdvanceFacts DEF UpdateInv
  <1>1. ASSUME NEW set \in SUBSET Members, Create(set)
        PROVE  UpdateInv'
    BY <1>1 DEF Create, Idle, pending, UpdateInv
  <1>2. ASSUME NEW set \in SUBSET Members, StartUpdate(set)
        PROVE  UpdateInv'
    BY <1>0, <1>2 DEF StartUpdate, UpdateInv, GroupType, HistoryType
  <1>3. CASE LoseUpdate
    BY <1>0, <1>3 DEF LoseUpdate, ConnectionLost, recent, Idle, UpdateInv, NoUpdate,
        GroupType
  <1>4. CASE RequestDisband
    BY <1>0, <1>4 DEF RequestDisband, recent, bounds, history, UpdateInv, NoUpdate, GroupType
  <1>5. CASE AnnouncePartly
    BY <1>0, <1>5 DEF AnnouncePartly, AnnounceTo, ConnectionLost, recent, UpdateInv,
        NoUpdate, GroupType
  <1>6. CASE CommitUpdate
    BY <1>6 DEF CommitUpdate, UpdateInv, NoUpdate
  <1>7. CASE ScheduleDue
    BY <1>0, <1>7 DEF ScheduleDue, pending, recent, bounds, history, UpdateInv, NoUpdate, GroupType
  <1>8. CASE Announce
    BY <1>8, <1>a DEF Announce
  <1>9. CASE BeginHandling
    BY <1>0, <1>9 DEF BeginHandling, pending, recent, bounds, history, UpdateInv, NoUpdate,
        GroupType
  <1>10. ASSUME NEW u \in Users, HandleLeave(u)
        PROVE  UpdateInv'
    BY <1>0, <1>10 DEF HandleLeave, Handles, Done, Reply, pending, RequestSync, ConnectionLost,
        UpdateInv, NoUpdate, GroupType
  <1>11. ASSUME NEW u \in Users, HandlePost(u)
        PROVE  UpdateInv'
    BY <1>0, <1>11 DEF HandlePost, Handles, Done, Reply, pending, RequestSync, ConnectionLost,
        UpdateInv, NoUpdate, GroupType
  <1>12. CASE HandleRequest
    BY <1>0, <1>12 DEF HandleRequest, Handles, Done, Reply, pending, ConnectionLost, UpdateInv,
        NoUpdate, GroupType
  <1>13. ASSUME NEW m \in Members, SendLeave(m)
        PROVE  UpdateInv'
    BY <1>0, <1>13 DEF SendLeave, creatorVars, pending, recent, bounds, history, NextTask,
        UpdateInv, NoUpdate, GroupType
  <1>14. ASSUME NEW m \in Members, HandleSetup(m)
        PROVE  UpdateInv'
    BY <1>0, <1>14 DEF HandleSetup, Handles, Done, Reply, pending, ConnectionLost, recent,
        UpdateInv, NoUpdate, GroupType
  <1>15. ASSUME NEW m \in Members, Leave(m)
        PROVE  UpdateInv'
    BY <1>0, <1>15 DEF Leave, pending, Remove, recent, UpdateInv, NoUpdate, GroupType
  <1>16. ASSUME NEW m \in Members, SendLeavePartly(m)
        PROVE  UpdateInv'
    BY <1>0, <1>16 DEF SendLeavePartly, ConnectionLost, recent, history, UpdateInv,
        NoUpdate, GroupType
  <1>17. ASSUME NEW m \in Members, Expire(m)
        PROVE  UpdateInv'
    BY <1>0, <1>17 DEF Expire, creatorVars, pending, bounds, history, UpdateInv, NoUpdate,
        GroupType
  <1>18. ASSUME NEW u \in Users, Delete(u)
        PROVE  UpdateInv'
    BY <1>0, <1>18 DEF Delete, pending, Remove, recent, bounds, history, UpdateInv, NoUpdate,
        GroupType
  <1>19. ASSUME NEW u \in Users, Post(u)
        PROVE  UpdateInv'
    BY <1>0, <1>19 DEF Post, creatorVars, pending, recent, history, UpdateInv, NoUpdate,
        GroupType
  <1>20. ASSUME NEW u \in Users, Restart(u)
        PROVE  UpdateInv'
    BY <1>0, <1>20 DEF Restart, pending, UpdateInv, NoUpdate, GroupType
  <1>21. CASE UNCHANGED vars
    BY <1>0, <1>21 DEF vars, creatorVars, pending, recent, bounds, history, UpdateInv,
        NoUpdate, GroupType
  <1>22. CASE LoseDisband
    BY <1>0, <1>22 DEF LoseDisband, ConnectionLost, recent, UpdateInv, NoUpdate, GroupType
  <1>23. CASE CommitDisband
    <2>1. userState'[Creator] # "member"
      BY <1>0, <1>23 DEF CommitDisband, Remove, GroupType
    <2>. QED
      BY <2>1 DEF UpdateInv
  <1>24. CASE AnnounceThrows
    BY <1>0, <1>24 DEF AnnounceThrows, recent, bounds, history, UpdateInv, NoUpdate, GroupType
  <1>. QED
    BY <1>1, <1>2, <1>3, <1>4, <1>5, <1>6, <1>7, <1>8, <1>9, <1>10, <1>11, <1>12,
       <1>13, <1>14, <1>15, <1>16, <1>17, <1>18, <1>19, <1>20, <1>21, <1>22, <1>23,
       <1>24
    DEF Next, CreatorStep, MemberStep, Users

(* What the other devices of the creator have. *)
LEMMA MirrorStep ==
    ASSUME ConstantsAssumption, TypeOK, UpdateInv, MirrorDiffers, [Next]_vars
    PROVE  MirrorDiffers'
  <1>0. /\ UpdateInv /\ MirrorDiffers /\ GroupType /\ CreatorType /\ Creator \in Users
        /\ \A x \in Members : x # Creator /\ x \in Users
    BY DEF TypeOK, Users, ConstantsAssumption
  <1>1. ASSUME NEW set \in SUBSET Members, Create(set)
        PROVE  MirrorDiffers'
    BY <1>0, <1>1 DEF Create, pending, recent, history, Idle, MirrorDiffers, GroupType
  <1>2. ASSUME NEW set \in SUBSET Members, StartUpdate(set)
        PROVE  MirrorDiffers'
    BY <1>0, <1>2 DEF StartUpdate, recent, history, MirrorDiffers, GroupType
  <1>3. CASE LoseUpdate
    BY <1>0, <1>3 DEF LoseUpdate, MirrorDiffers
  <1>4. CASE RequestDisband
    BY <1>0, <1>4 DEF RequestDisband, recent, bounds, history, MirrorDiffers, GroupType
  <1>5. CASE AnnouncePartly
    BY <1>0, <1>5 DEF AnnouncePartly, AnnounceTo, ConnectionLost, recent, MirrorDiffers,
        GroupType
  <1>6. CASE CommitUpdate
    BY <1>0, <1>6 DEF CommitUpdate, IsTurn, recent, bounds, history, UpdateInv, MirrorDiffers,
        GroupType, CreatorType, Update
  <1>7. CASE ScheduleDue
    BY <1>0, <1>7 DEF ScheduleDue, pending, recent, bounds, history, MirrorDiffers, GroupType
  <1>8. CASE Announce
    BY <1>0, <1>8 DEF Announce, pending, AnnounceTo, creatorVars, pending, recent, bounds, NextTask,
        MirrorDiffers, GroupType
  <1>9. CASE BeginHandling
    BY <1>0, <1>9 DEF BeginHandling, pending, recent, bounds, history, MirrorDiffers, GroupType
  <1>10. ASSUME NEW u \in Users, HandleLeave(u)
        PROVE  MirrorDiffers'
    BY <1>0, <1>10 DEF HandleLeave, Handles, ReflectedWithout, MirrorDiffers, GroupType
  <1>11. ASSUME NEW u \in Users, HandlePost(u)
        PROVE  MirrorDiffers'
    BY <1>0, <1>11 DEF HandlePost, Handles, Done, Reply, pending, RequestSync, ConnectionLost,
        MirrorDiffers, GroupType
  <1>12. CASE HandleRequest
    BY <1>0, <1>12 DEF HandleRequest, Handles, Done, Reply, pending, ConnectionLost,
        MirrorDiffers, GroupType
  <1>13. ASSUME NEW m \in Members, SendLeave(m)
        PROVE  MirrorDiffers'
    BY <1>0, <1>13 DEF SendLeave, creatorVars, pending, recent, bounds, history, NextTask,
        MirrorDiffers, GroupType
  <1>14. ASSUME NEW m \in Members, HandleSetup(m)
        PROVE  MirrorDiffers'
    BY <1>0, <1>14 DEF HandleSetup, Handles, Done, Reply, pending, ConnectionLost, recent,
        MirrorDiffers, GroupType
  <1>15. ASSUME NEW m \in Members, Leave(m)
        PROVE  MirrorDiffers'
    BY <1>0, <1>15 DEF Leave, pending, Remove, recent, MirrorDiffers, GroupType
  <1>16. ASSUME NEW m \in Members, SendLeavePartly(m)
        PROVE  MirrorDiffers'
    BY <1>0, <1>16 DEF SendLeavePartly, ConnectionLost, recent, history,
        MirrorDiffers, GroupType
  <1>17. ASSUME NEW m \in Members, Expire(m)
        PROVE  MirrorDiffers'
    BY <1>0, <1>17 DEF Expire, creatorVars, pending, bounds, history, MirrorDiffers, GroupType
  <1>18. ASSUME NEW u \in Users, Delete(u)
        PROVE  MirrorDiffers'
    BY <1>0, <1>18 DEF Delete, pending, Remove, recent, bounds, history, MirrorDiffers,
        GroupType
  <1>19. ASSUME NEW u \in Users, Post(u)
        PROVE  MirrorDiffers'
    BY <1>0, <1>19 DEF Post, creatorVars, pending, recent, history, MirrorDiffers, GroupType
  <1>20. ASSUME NEW u \in Users, Restart(u)
        PROVE  MirrorDiffers'
    BY <1>0, <1>20 DEF Restart, pending, MirrorDiffers, GroupType
  <1>21. CASE UNCHANGED vars
    BY <1>0, <1>21 DEF vars, creatorVars, pending, recent, bounds, history, MirrorDiffers,
        GroupType
  <1>22. CASE LoseDisband
    BY <1>0, <1>22 DEF LoseDisband, ConnectionLost, recent, MirrorDiffers, GroupType
  <1>23. CASE CommitDisband
    BY <1>0, <1>23 DEF CommitDisband, Remove, recent, bounds, history, MirrorDiffers, GroupType
  <1>24. CASE AnnounceThrows
    BY <1>0, <1>24 DEF AnnounceThrows, recent, bounds, history, MirrorDiffers, GroupType
  <1>. QED
    BY <1>1, <1>2, <1>3, <1>4, <1>5, <1>6, <1>7, <1>8, <1>9, <1>10, <1>11, <1>12,
       <1>13, <1>14, <1>15, <1>16, <1>17, <1>18, <1>19, <1>20, <1>21, <1>22, <1>23,
       <1>24
    DEF Next, CreatorStep, MemberStep, Users

-----------------------------------------------------------------------------
(* The last setup in a box *)

(* Another message does not change the outcome. *)
LEMMA EndsAppendOther ==
    ASSUME NEW box \in Seq(Message), NEW msg \in Message, msg.kind # "setup",
           NEW now \in BOOLEAN, NEW n
    PROVE  Ends(Append(box, msg), now, n) <=> Ends(box, now, n)
  <1>. DEFINE new == Append(box, msg)
  <1>1. /\ DOMAIN new = DOMAIN box \cup {Len(box) + 1} /\ new[Len(box) + 1] = msg
        /\ \A i \in DOMAIN box : new[i] = box[i]
        /\ Len(box) \in Nat /\ DOMAIN box = 1 .. Len(box)
    OBVIOUS
  <1>. HIDE DEF new
  <1>2. NoSetup(new) <=> NoSetup(box)
    BY <1>1 DEF NoSetup
  <1>3. ASSUME NEW i \in DOMAIN box
        PROVE  LastSetup(new, i) <=> LastSetup(box, i)
    BY <1>1 DEF LastSetup
  <1>4. ~LastSetup(new, Len(box) + 1)
    BY <1>1 DEF LastSetup
  <1>5. Ends(new, now, n) <=> Ends(box, now, n)
    BY <1>1, <1>2, <1>3, <1>4 DEF Ends
  <1>. QED
    BY <1>5 DEF new

(* A new setup decides. *)
LEMMA EndsAppendSetup ==
    ASSUME NEW box \in Seq(Message), NEW msg \in Message, msg.kind = "setup",
           NEW now \in BOOLEAN, NEW n
    PROVE  Ends(Append(box, msg), now, n) <=> n \in msg.members
  <1>. DEFINE new == Append(box, msg)
              last == Len(box) + 1
  <1>1. /\ DOMAIN new = DOMAIN box \cup {last} /\ new[last] = msg
        /\ Len(box) \in Nat /\ DOMAIN box = 1 .. Len(box)
    OBVIOUS
  <1>. HIDE DEF new
  <1>2. LastSetup(new, last) /\ ~NoSetup(new)
    BY <1>1 DEF LastSetup, NoSetup
  <1>3. \A i \in DOMAIN box : ~LastSetup(new, i)
    BY <1>1 DEF LastSetup
  <1>4. Ends(new, now, n) <=> n \in msg.members
    BY <1>1, <1>2, <1>3 DEF Ends
  <1>. QED
    BY <1>4 DEF new

\* Reading the first message of a mailbox, position by position.
LEMMA TailFacts ==
    ASSUME NEW box \in Seq(Message), box # <<>>
    PROVE  /\ Len(box) \in Nat /\ DOMAIN box = 1 .. Len(box) /\ 1 \in DOMAIN box
           /\ Tail(box) \in Seq(Message) /\ DOMAIN Tail(box) = 1 .. (Len(box) - 1)
           /\ \A i \in DOMAIN Tail(box) : i + 1 \in DOMAIN box /\ Tail(box)[i] = box[i + 1]
           /\ \A i \in DOMAIN box : i = 1 \/ i - 1 \in DOMAIN Tail(box)
           /\ Head(box) = box[1] /\ Head(box) \in Message
  OBVIOUS

(* Reading what is not a setup does not change the outcome. *)
LEMMA EndsTailOther ==
    ASSUME NEW box \in Seq(Message), box # <<>>, Head(box).kind # "setup",
           NEW now \in BOOLEAN, NEW n
    PROVE  Ends(Tail(box), now, n) <=> Ends(box, now, n)
  <1>1. PICK rest : rest = Tail(box)
    OBVIOUS
  <1>2. /\ Len(box) \in Nat /\ DOMAIN box = 1 .. Len(box) /\ DOMAIN rest = 1 .. (Len(box) - 1)
        /\ \A i \in DOMAIN rest : i + 1 \in DOMAIN box /\ rest[i] = box[i + 1]
        /\ \A i \in DOMAIN box : i = 1 \/ i - 1 \in DOMAIN rest
        /\ box[1].kind # "setup"
    BY <1>1, TailFacts
  <1>3. \A i \in DOMAIN box : i # 1 => rest[i - 1] = box[i]
    BY <1>2
  <1>4. NoSetup(rest) <=> NoSetup(box)
    BY <1>2, <1>3 DEF NoSetup
  <1>5. ASSUME NEW i \in DOMAIN rest
        PROVE  LastSetup(rest, i) <=> LastSetup(box, i + 1)
    <2>1. CASE LastSetup(rest, i)
      <3>1. ASSUME NEW j \in DOMAIN box, j > i + 1
            PROVE  box[j].kind # "setup"
        <4>1. j - 1 \in DOMAIN rest /\ rest[j - 1] = box[j] /\ j - 1 > i
          BY <1>2, <1>3, <3>1
        <4>. QED
          BY <2>1, <4>1 DEF LastSetup
      <3>. QED
        BY <1>2, <2>1, <3>1 DEF LastSetup
    <2>2. CASE LastSetup(box, i + 1)
      BY <1>2, <2>2 DEF LastSetup
    <2>. QED
      BY <2>1, <2>2
  <1>6. ~LastSetup(box, 1)
    BY <1>2 DEF LastSetup
  <1>7. ASSUME NEW i \in DOMAIN box, LastSetup(box, i)
        PROVE  i - 1 \in DOMAIN rest /\ LastSetup(rest, i - 1) /\ rest[i - 1] = box[i]
    <2>1. i # 1 /\ i - 1 \in DOMAIN rest /\ rest[i - 1] = box[i] /\ (i - 1) + 1 = i
      BY <1>2, <1>3, <1>6, <1>7
    <2>. QED
      BY <1>5, <1>7, <2>1
  <1>8. Ends(rest, now, n) <=> Ends(box, now, n)
    BY <1>2, <1>4, <1>5, <1>7 DEF Ends
  <1>. QED
    BY <1>1, <1>8

(* Reading a setup: the list becomes the one of the setup, unless a later   *)
(* one decides anyway.                                                      *)
LEMMA EndsTailSetup ==
    ASSUME NEW box \in Seq(Message), box # <<>>, Head(box).kind = "setup",
           NEW now \in BOOLEAN, NEW after \in BOOLEAN, NEW n,
           NoSetup(Tail(box)) => (after <=> n \in Head(box).members)
    PROVE  Ends(Tail(box), after, n) <=> Ends(box, now, n)
  <1>1. PICK rest : rest = Tail(box)
    OBVIOUS
  <1>2. /\ Len(box) \in Nat /\ DOMAIN box = 1 .. Len(box) /\ DOMAIN rest = 1 .. (Len(box) - 1)
        /\ \A i \in DOMAIN rest : i + 1 \in DOMAIN box /\ rest[i] = box[i + 1]
        /\ \A i \in DOMAIN box : i = 1 \/ i - 1 \in DOMAIN rest
        /\ 1 \in DOMAIN box /\ Head(box) = box[1] /\ box[1].kind = "setup"
    BY <1>1, TailFacts
  <1>3. \A i \in DOMAIN box : i # 1 => i - 1 \in DOMAIN rest /\ rest[i - 1] = box[i]
    BY <1>2
  <1>4. ~NoSetup(box)
    BY <1>2 DEF NoSetup
  <1>5. ASSUME NEW i \in DOMAIN rest
        PROVE  LastSetup(rest, i) <=> LastSetup(box, i + 1)
    <2>1. CASE LastSetup(rest, i)
      <3>1. ASSUME NEW j \in DOMAIN box, j > i + 1
            PROVE  box[j].kind # "setup"
        <4>1. j - 1 \in DOMAIN rest /\ rest[j - 1] = box[j] /\ j - 1 > i
          BY <1>2, <1>3, <3>1
        <4>. QED
          BY <2>1, <4>1 DEF LastSetup
      <3>. QED
        BY <1>2, <2>1, <3>1 DEF LastSetup
    <2>2. CASE LastSetup(box, i + 1)
      BY <1>2, <2>2 DEF LastSetup
    <2>. QED
      BY <2>1, <2>2
  <1>6. ASSUME NEW i \in DOMAIN box, LastSetup(box, i), i # 1
        PROVE  i - 1 \in DOMAIN rest /\ LastSetup(rest, i - 1) /\ rest[i - 1] = box[i]
    <2>1. i - 1 \in DOMAIN rest /\ rest[i - 1] = box[i] /\ (i - 1) + 1 = i
      BY <1>2, <1>3, <1>6
    <2>. QED
      BY <1>5, <1>6, <2>1
  <1>7. LastSetup(box, 1) <=> NoSetup(rest)
    <2>1. CASE NoSetup(rest)
      <3>1. ASSUME NEW j \in DOMAIN box, j > 1
            PROVE  box[j].kind # "setup"
        BY <1>2, <1>3, <2>1, <3>1 DEF NoSetup
      <3>. QED
        BY <1>2, <2>1, <3>1 DEF LastSetup
    <2>2. CASE LastSetup(box, 1)
      <3>1. ASSUME NEW i \in DOMAIN rest
            PROVE  rest[i].kind # "setup"
        <4>1. i + 1 \in DOMAIN box /\ rest[i] = box[i + 1] /\ i + 1 > 1
          BY <1>2
        <4>. QED
          BY <2>2, <4>1 DEF LastSetup
      <3>. QED
        BY <2>2, <3>1 DEF NoSetup
    <2>. QED
      BY <2>1, <2>2
  <1>8. Ends(rest, after, n) <=> Ends(box, now, n)
    <2>1. CASE NoSetup(rest)
      <3>1. \A i \in DOMAIN box : LastSetup(box, i) => i = 1
        BY <1>6, <2>1 DEF NoSetup, LastSetup
      <3>2. \A i \in DOMAIN rest : ~LastSetup(rest, i)
        BY <2>1 DEF NoSetup, LastSetup
      <3>3. after <=> n \in box[1].members
        BY <1>1, <1>2, <2>1
      <3>. QED
        BY <1>2, <1>4, <1>7, <2>1, <3>1, <3>2, <3>3 DEF Ends
    <2>2. CASE ~NoSetup(rest)
      <3>1. ~LastSetup(box, 1)
        BY <1>7, <2>2
      <3>. QED
        BY <1>2, <1>4, <1>5, <1>6, <2>2, <3>1 DEF Ends
    <2>. QED
      BY <2>1, <2>2
  <1>. QED
    BY <1>1, <1>8

(* While there is a setup in the box, what the device has now is of no      *)
(* account.                                                                 *)
LEMMA EndsNotNow ==
    ASSUME NEW box, ~NoSetup(box), NEW now, NEW other, NEW n
    PROVE  Ends(box, now, n) <=> Ends(box, other, n)
  BY DEF Ends

-----------------------------------------------------------------------------
(* What a step does to the copy of a member *)

(* m's copy ends as before, but for those who have departed. *)
Kept(m) ==
    /\ TakesPart(m)' <=> TakesPart(m)
    /\ TakesPart(m) => \A n \in Members \ ({m} \union departed') : Lists(m, n)' <=> Lists(m, n)

(* m is sent what the creator has. *)
Told(m) ==
    /\ userState'[Creator] = userState[Creator] /\ members'[Creator] = members[Creator]
    /\ TakesPart(m)' <=> Belongs(m)
    /\ Belongs(m) => \A n \in Members : Lists(m, n)' <=> n \in members[Creator]

(* m leaves. *)
Departs(m) ==
    /\ Leaving(m)'
    /\ TakesPart(m)' => TakesPart(m)

CopyStep(m) ==
    \/ Told(m)
    \/ /\ m \in stray => m \in stray'
       /\ Kept(m) \/ Departs(m)

(* m reads nothing or something that is not a setup, and is sent nothing or *)
(* something that is not a setup.                                           *)
OtherMail(m) == \E box \in Seq(Message) :
    /\ \/ box = mailbox[m]
       \/ mailbox[m] # <<>> /\ Head(mailbox[m]).kind # "setup" /\ box = Tail(mailbox[m])
    /\ \/ mailbox'[m] = box
       \/ \E msg \in Message : msg.kind # "setup" /\ mailbox'[m] = Append(box, msg)

\* The creator is a user, but none of the members.
LEMMA Senders ==
    /\ Creator \in Users /\ Members \subseteq Users
    /\ ConstantsAssumption => Creator \notin Members
  BY DEF Users, ConstantsAssumption

(* Without a setup, m's copy is kept. *)
LEMMA KeptWithoutSetup ==
    ASSUME QueueType, NEW m \in Members, OtherMail(m),
           userState'[m] = userState[m],
           \A n \in Members \ ({m} \union departed') : n \in members'[m] <=> n \in members[m]
    PROVE  Kept(m)
  <1>0. mailbox[m] \in Seq(Message)
    BY Senders DEF QueueType
  <1>1. PICK box \in Seq(Message) :
          /\ \/ box = mailbox[m]
             \/ mailbox[m] # <<>> /\ Head(mailbox[m]).kind # "setup" /\ box = Tail(mailbox[m])
          /\ \/ mailbox'[m] = box
             \/ \E msg \in Message : msg.kind # "setup" /\ mailbox'[m] = Append(box, msg)
    BY DEF OtherMail
  <1>2. ASSUME NEW now \in BOOLEAN, NEW n
        PROVE  Ends(mailbox'[m], now, n) <=> Ends(mailbox[m], now, n)
    <2>1. Ends(box, now, n) <=> Ends(mailbox[m], now, n)
      <3>1. CASE box = mailbox[m]
        BY <3>1
      <3>2. CASE box # mailbox[m]
        <4>1. mailbox[m] # <<>> /\ Head(mailbox[m]).kind # "setup" /\ box = Tail(mailbox[m])
          BY <1>1, <3>2
        <4>2. Ends(Tail(mailbox[m]), now, n) <=> Ends(mailbox[m], now, n)
          BY <1>0, <4>1, EndsTailOther
        <4>. QED
          BY <4>1, <4>2
      <3>. QED
        BY <3>1, <3>2
    <2>2. Ends(mailbox'[m], now, n) <=> Ends(box, now, n)
      <3>1. CASE mailbox'[m] = box
        BY <3>1
      <3>2. CASE mailbox'[m] # box
        <4>1. PICK msg \in Message : msg.kind # "setup" /\ mailbox'[m] = Append(box, msg)
          BY <1>1, <3>2
        <4>2. Ends(Append(box, msg), now, n) <=> Ends(box, now, n)
          BY <4>1, EndsAppendOther
        <4>. QED
          BY <4>1, <4>2
      <3>. QED
        BY <3>1, <3>2
    <2>. QED
      BY <2>1, <2>2
  <1>3. TakesPart(m)' <=> TakesPart(m)
    <2>1. (userState[m] = "member") \in BOOLEAN
      OBVIOUS
    <2>. QED
      BY <1>2, <2>1 DEF TakesPart
  <1>4. ASSUME NEW n \in Members \ ({m} \union departed')
        PROVE  Lists(m, n)' <=> Lists(m, n)
    <2>1. (n \in members[m]) \in BOOLEAN /\ (n \in members'[m] <=> n \in members[m])
      OBVIOUS
    <2>2. Ends(mailbox'[m], n \in members'[m], n) <=> Ends(mailbox'[m], n \in members[m], n)
      BY <2>1 DEF Ends
    <2>3. Ends(mailbox'[m], n \in members[m], n) <=> Ends(mailbox[m], n \in members[m], n)
      BY <1>2, <2>1
    <2>. QED
      BY <2>2, <2>3 DEF Lists
  <1>. QED
    BY <1>3, <1>4 DEF Kept

(* When nothing is read or sent, and m's copy does not change. *)
LEMMA KeptUnchanged ==
    ASSUME QueueType, NEW m \in Members, mailbox'[m] = mailbox[m],
           userState'[m] = userState[m], members'[m] = members[m]
    PROVE  Kept(m)
  <1>1. mailbox[m] \in Seq(Message)
    BY Senders DEF QueueType
  <1>2. OtherMail(m)
    BY <1>1 DEF OtherMail
  <1>. QED
    BY <1>2, KeptWithoutSetup

(* A setup with the creator's list, or an empty one for those not on it. *)
LEMMA ToldBySetup ==
    ASSUME QueueType, NEW m \in Members, NEW set \in SUBSET Members, NEW box \in Seq(Message),
           mailbox'[m] = Append(box, Setup(set)),
           set = IF Belongs(m) THEN members[Creator] ELSE {},
           userState'[Creator] = userState[Creator], members'[Creator] = members[Creator]
    PROVE  Told(m)
  <1>1. Setup(set) \in Message /\ Setup(set).kind = "setup" /\ Setup(set).members = set
    BY MessageTypes DEF Setup
  <1>2. \A now \in BOOLEAN : \A n : Ends(mailbox'[m], now, n) <=> n \in set
    BY <1>1, EndsAppendSetup
  <1>3. TakesPart(m)' <=> m \in set
    <2>1. (userState'[m] = "member") \in BOOLEAN
      OBVIOUS
    <2>. QED
      BY <1>2, <2>1 DEF TakesPart
  <1>4. \A n : Lists(m, n)' <=> n \in set
    <2>1. \A n : (n \in members'[m]) \in BOOLEAN
      OBVIOUS
    <2>. QED
      BY <1>2, <2>1 DEF Lists
  <1>5. m \in set <=> Belongs(m)
    BY DEF Belongs
  <1>. QED
    BY <1>3, <1>4, <1>5 DEF Told, Belongs

\* The mailbox of u when a message is delivered.
LEMMA DeliverFacts ==
    ASSUME NEW box \in [Users -> Seq(Message)], NEW to, NEW msg, NEW u \in Users
    PROVE  Deliver(box, to, msg)[u] = IF u \in to THEN Append(box[u], msg) ELSE box[u]
  BY DEF Deliver

(* The mailbox of v when u replies. *)
LEMMA ReplyFacts ==
    ASSUME QueueType, NEW u \in Users, mailbox[u] # <<>>, NEW to, NEW msg \in Message,
           Reply(u, to, msg), NEW v \in Users
    PROVE  \E box \in Seq(Message) :
              /\ box = mailbox[v] \/ (v = u /\ box = Tail(mailbox[v]))
              /\ mailbox'[v] = IF v \in to THEN Append(box, msg) ELSE box
  <1>1. PICK rest : rest = [mailbox EXCEPT ![u] = Tail(@)]
    OBVIOUS
  <1>2. rest \in [Users -> Seq(Message)] /\ mailbox \in [Users -> Seq(Message)]
    BY <1>1 DEF QueueType
  <1>3. rest[v] = mailbox[v] \/ (v = u /\ rest[v] = Tail(mailbox[v]))
    BY <1>1 DEF QueueType
  <1>4. mailbox' = Deliver(rest, to, msg) \/ mailbox' = Deliver(mailbox, to, msg)
    BY <1>1 DEF Reply
  <1>5. CASE mailbox' = Deliver(rest, to, msg)
    <2>1. Deliver(rest, to, msg)[v] = IF v \in to THEN Append(rest[v], msg) ELSE rest[v]
      BY <1>2 DEF Deliver
    <2>. QED
      BY <1>2, <1>3, <1>5, <2>1
  <1>6. CASE mailbox' = Deliver(mailbox, to, msg)
    <2>1. Deliver(mailbox, to, msg)[v] = IF v \in to THEN Append(mailbox[v], msg) ELSE mailbox[v]
      BY <1>2 DEF Deliver
    <2>. QED
      BY <1>2, <1>6, <2>1
  <1>. QED
    BY <1>4, <1>5, <1>6

(* A reply that is not a setup, after reading what is not a setup. *)
LEMMA ReplyOther ==
    ASSUME QueueType, NEW u \in Users, mailbox[u] # <<>>, Head(mailbox[u]).kind # "setup",
           NEW to, NEW msg \in Message, msg.kind # "setup" \/ to = {},
           Reply(u, to, msg), NEW m \in Members
    PROVE  OtherMail(m)
  <1>1. PICK box \in Seq(Message) :
              /\ box = mailbox[m] \/ (m = u /\ box = Tail(mailbox[m]))
              /\ mailbox'[m] = IF m \in to THEN Append(box, msg) ELSE box
    BY ReplyFacts, Senders
  <1>. QED
    BY <1>1 DEF OtherMail

\* A member who asks for a setup changes nobody's setups.
LEMMA RequestOther ==
    ASSUME QueueType, NEW u \in Members, mailbox[u] # <<>>, Head(mailbox[u]).kind # "setup",
           RequestSync(u), NEW m \in Members
    PROVE  OtherMail(m)
  <1>1. /\ Sent("request", u) \in Message /\ Sent("request", u).kind # "setup"
        /\ Setup({}) \in Message /\ u \in Users /\ m \in Users
    BY MessageTypes, Senders DEF Sent
  <1>2. CASE Reply(u, {Creator}, Sent("request", u))
    BY <1>1, <1>2, ReplyOther
  <1>3. CASE Reply(u, {}, Setup({}))
    BY <1>1, <1>3, ReplyOther
  <1>4. CASE mailbox' = Deliver(mailbox, {Creator}, Sent("request", u))
    <2>1. mailbox \in [Users -> Seq(Message)] /\ mailbox[m] \in Seq(Message)
      BY <1>1 DEF QueueType
    <2>2. mailbox'[m] = IF m \in {Creator} THEN Append(mailbox[m], Sent("request", u))
                        ELSE mailbox[m]
      BY <1>1, <1>4, <2>1, DeliverFacts
    <2>. QED
      BY <1>1, <2>1, <2>2 DEF OtherMail
  <1>. QED
    BY <1>2, <1>3, <1>4 DEF RequestSync, Done

(* An announcement tells each receiver what the creator has. *)
LEMMA AnnouncementTells ==
    ASSUME TypeOK, tasks[Creator] # <<>>, Precondition,
           NEW receivers, AnnounceTo(receivers),
           UNCHANGED <<userState, members>>, NEW m \in Members
    PROVE  IF m \in (Announced \union Removed) \intersect receivers
           THEN Told(m)
           ELSE Kept(m) /\ (m \in stray => m \in stray')
  <1>0. /\ GroupType /\ QueueType /\ m \in Users
        /\ mailbox \in [Users -> Seq(Message)] /\ mailbox[m] \in Seq(Message)
        /\ members[Creator] \in SUBSET Members
    BY Senders DEF TypeOK, QueueType, GroupType
  <1>1. /\ m \in Announced => Belongs(m) /\ m \notin Removed
        /\ m \in Removed => ~Belongs(m)
        /\ m \in Announced => members[Creator] # {}
    BY DEF Announced, Removed, Precondition, Belongs
  <1>2. PICK box : box = Deliver(mailbox, Announced \intersect receivers, Setup(members[Creator]))
    OBVIOUS
  <1>3. box[m] = IF m \in Announced \intersect receivers
                 THEN Append(mailbox[m], Setup(members[Creator])) ELSE mailbox[m]
    BY <1>0, <1>2 DEF Deliver
  <1>4. mailbox' = Deliver(box, Removed \intersect receivers, Setup({}))
    BY <1>2 DEF AnnounceTo
  <1>5. mailbox'[m] = IF m \in Removed \intersect receivers
                      THEN Append(box[m], Setup({})) ELSE box[m]
    BY <1>0, <1>4 DEF Deliver
  <1>6. CASE m \in Announced \intersect receivers
    <2>1. mailbox'[m] = Append(mailbox[m], Setup(members[Creator]))
      BY <1>1, <1>3, <1>5, <1>6
    <2>2. Told(m)
      BY <1>0, <1>1, <1>6, <2>1, ToldBySetup
    <2>. QED
      BY <1>6, <2>2
  <1>7. CASE m \in Removed \intersect receivers
    <2>1. mailbox'[m] = Append(mailbox[m], Setup({}))
      BY <1>1, <1>3, <1>5, <1>7
    <2>2. Told(m)
      BY <1>0, <1>1, <1>7, <2>1, ToldBySetup
    <2>. QED
      BY <1>7, <2>2
  <1>8. CASE m \notin (Announced \union Removed) \intersect receivers
    <2>1. mailbox'[m] = mailbox[m]
      BY <1>3, <1>5, <1>8
    <2>2. Kept(m)
      BY <1>0, <2>1, KeptUnchanged
    <2>3. m \in stray => m \in stray'
      BY <1>8 DEF AnnounceTo
    <2>. QED
      BY <1>8, <2>2, <2>3
  <1>. QED
    BY <1>6, <1>7, <1>8

(* Reading a setup changes nothing about how m's copy ends. *)
LEMMA SetupKeeps ==
    ASSUME TypeOK, ConstantsAssumption, NEW u \in Members, HandleSetup(u), NEW m \in Members
    PROVE  Kept(m)
  <1>0. /\ GroupType /\ QueueType /\ u \in Users /\ m \in Users /\ u # Creator
        /\ mailbox[u] # <<>> /\ Head(mailbox[u]).kind = "setup"
        /\ mailbox[u] \in Seq(Message)
    BY Senders DEF TypeOK, QueueType, HandleSetup, Handles
  <1>1. PICK box \in Seq(Message) :
          /\ box = mailbox[m] \/ (m = u /\ box = Tail(mailbox[m]))
          /\ mailbox'[m] = box
    <2>1. Setup({}) \in Message
      BY MessageTypes
    <2>2. Reply(u, {}, Setup({}))
      BY DEF HandleSetup, Done
    <2>. QED
      BY <1>0, <2>1, <2>2, ReplyFacts
  <1>2. CASE m # u
    <2>1. mailbox'[m] = mailbox[m] /\ userState'[m] = userState[m] /\ members'[m] = members[m]
      BY <1>0, <1>1, <1>2 DEF HandleSetup, GroupType
    <2>. QED
      BY <1>0, <2>1, KeptUnchanged
  <1>3. CASE m = u
    <2>. DEFINE list == Head(mailbox[m]).members
    <2>1. (userState'[m] = "member") <=> m \in list
      BY <1>0, <1>3 DEF HandleSetup, GroupType
    <2>2. m \in list => members'[m] = list \ {m}
      BY <1>0, <1>3 DEF HandleSetup, GroupType
    <2>3. CASE mailbox'[m] = mailbox[m]
      <3>1. ~NoSetup(mailbox[m])
        BY <1>0, <1>3 DEF NoSetup
      <3>2. TakesPart(m)' <=> TakesPart(m)
        BY <2>3, <3>1 DEF TakesPart, Ends
      <3>3. \A n : Lists(m, n)' <=> Lists(m, n)
        BY <2>3, <3>1 DEF Lists, Ends
      <3>. QED
        BY <3>2, <3>3 DEF Kept
    <2>4. CASE mailbox'[m] = Tail(mailbox[m])
      <3>. DEFINE now == userState[m] = "member"
                  after == userState'[m] = "member"
      <3>1. Ends(Tail(mailbox[m]), after, m) <=> Ends(mailbox[m], now, m)
        <4>1. now \in BOOLEAN /\ after \in BOOLEAN
          OBVIOUS
        <4>2. after <=> m \in list
          BY <2>1
        <4>. HIDE DEF now, after
        <4>. QED
          BY <1>0, <1>3, <4>1, <4>2, EndsTailSetup
      <3>2. TakesPart(m)' <=> TakesPart(m)
        BY <2>4, <3>1 DEF TakesPart
      <3>3. ASSUME TakesPart(m), NEW n \in Members \ ({m} \union departed')
            PROVE  Lists(m, n)' <=> Lists(m, n)
        <4>. DEFINE had == n \in members[m]
                    has == n \in members'[m]
        <4>1. had \in BOOLEAN /\ has \in BOOLEAN
          OBVIOUS
        <4>2. NoSetup(Tail(mailbox[m])) => (has <=> n \in list)
          <5>1. ASSUME NoSetup(Tail(mailbox[m]))
                PROVE  m \in list
            <6>1. Ends(Tail(mailbox[m]), after, m)
              BY <2>4, <3>2, <3>3 DEF TakesPart
            <6>2. after
              BY <5>1, <6>1 DEF Ends, NoSetup, LastSetup
            <6>. QED
              BY <2>1, <6>2
          <5>. QED
            BY <2>2, <5>1
        <4>3. Ends(Tail(mailbox[m]), has, n) <=> Ends(mailbox[m], had, n)
          <5>. HIDE DEF had, has
          <5>. QED
            BY <1>0, <1>3, <4>1, <4>2, EndsTailSetup
        <4>. QED
          BY <2>4, <4>3 DEF Lists
      <3>. QED
        BY <3>2, <3>3 DEF Kept
    <2>. QED
      BY <1>1, <2>3, <2>4
  <1>. QED
    BY <1>2, <1>3

\* What handling a leave does to m's copy at its end,
LEMMA LeaveCopyStep ==
    ASSUME TypeOK, ConstantsAssumption, LeaveInv, NEW u \in Users, HandleLeave(u),
           NEW m \in Members
    PROVE  CopyStep(m)
  <1>0. /\ GroupType /\ QueueType /\ m \in Users
        /\ mailbox[u] # <<>> /\ Head(mailbox[u]).kind = "leave" /\ mailbox[u] \in Seq(Message)
        /\ u # Creator => u \in Members
    BY Senders DEF TypeOK, QueueType, HandleLeave, Handles, Users
  <1>1. OtherMail(m)
    <2>1. CASE Done(u)
      <3>1. Setup({}) \in Message
        BY MessageTypes
      <3>. QED
        BY <1>0, <2>1, <3>1, ReplyOther DEF Done
    <2>2. CASE u # Creator /\ RequestSync(u)
      BY <1>0, <2>2, RequestOther
    <2>3. CASE UNCHANGED mailbox
      <3>1. mailbox[m] \in Seq(Message)
        BY <1>0 DEF QueueType
      <3>. QED
        BY <2>3, <3>1 DEF OtherMail
    <2>. QED
      BY <2>1, <2>2, <2>3 DEF HandleLeave
  <1>2. userState'[m] = userState[m] /\ (m \in stray => m \in stray')
    BY DEF HandleLeave
  <1>3. Head(mailbox[u]).from \in departed'
    <2>1. /\ Head(mailbox[u]) = mailbox[u][1] /\ 1 \in DOMAIN mailbox[u]
          /\ Head(mailbox[u]).from \in Members
      BY <1>0, HeadType DEF Message
    <2>2. HoldsLeave(mailbox[u], Head(mailbox[u]).from)
      BY <1>0, <2>1 DEF HoldsLeave
    <2>. QED
      BY <2>1, <2>2 DEF LeaveInv, HandleLeave
  <1>4. \A n \in Members \ ({m} \union departed') : n \in members'[m] <=> n \in members[m]
    BY <1>0, <1>3 DEF HandleLeave, GroupType
  <1>5. Kept(m)
    BY <1>0, <1>1, <1>2, <1>4, KeptWithoutSetup
  <1>. QED
    BY <1>2, <1>5 DEF CopyStep

\* handling a post,
LEMMA PostCopyStep ==
    ASSUME TypeOK, ConstantsAssumption, NEW u \in Users, HandlePost(u), NEW m \in Members
    PROVE  CopyStep(m)
  <1>. DEFINE from == Head(mailbox[u]).from
  <1>0. /\ GroupType /\ QueueType /\ m \in Users
        /\ mailbox[u] # <<>> /\ Head(mailbox[u]).kind = "post" /\ mailbox[u] \in Seq(Message)
        /\ u # Creator => u \in Members
        /\ Setup({}) \in Message
    BY Senders, MessageTypes DEF TypeOK, QueueType, HandlePost, Handles, Users
  <1>1. userState'[m] = userState[m] /\ members'[m] = members[m]
        /\ userState'[Creator] = userState[Creator] /\ members'[Creator] = members[Creator]
    BY DEF HandlePost
  <1>2. CASE /\ u = Creator /\ Reply(u, {from}, Setup({})) /\ stray' = stray \ {from}
             /\ \/ userState[u] \in {"left", "kicked"}
                \/ userState[u] = "member" /\ from \notin members[u] \union {Creator}
    <2>1. PICK box \in Seq(Message) :
              /\ box = mailbox[m] \/ (m = u /\ box = Tail(mailbox[m]))
              /\ mailbox'[m] = IF m \in {from} THEN Append(box, Setup({})) ELSE box
      BY <1>0, <1>2, ReplyFacts
    <2>2. CASE m = from
      <3>1. ~Belongs(m)
        BY <1>2, <2>2 DEF Belongs
      <3>2. mailbox'[m] = Append(box, Setup({}))
        BY <2>1, <2>2
      <3>3. Told(m)
        BY <1>0, <1>1, <3>1, <3>2, ToldBySetup
      <3>. QED
        BY <3>3 DEF CopyStep
    <2>3. CASE m # from
      <3>1. m # u
        BY <1>2, Senders
      <3>2. mailbox'[m] = mailbox[m]
        BY <2>1, <2>3, <3>1
      <3>3. Kept(m)
        BY <1>0, <1>1, <3>2, KeptUnchanged
      <3>. QED
        BY <1>2, <2>3, <3>3 DEF CopyStep
    <2>. QED
      BY <2>2, <2>3
  <1>3. CASE (Done(u) \/ (u # Creator /\ (Reply(u, {from}, Sent("leave", u)) \/ RequestSync(u))))
             /\ UNCHANGED stray
    <2>1. OtherMail(m)
      <3>1. CASE Done(u)
        BY <1>0, <3>1, ReplyOther DEF Done
      <3>2. CASE u # Creator /\ Reply(u, {from}, Sent("leave", u))
        <4>1. Sent("leave", u) \in Message /\ Sent("leave", u).kind # "setup"
          BY <1>0, <3>2, MessageTypes DEF Sent
        <4>. QED
          BY <1>0, <3>2, <4>1, ReplyOther
      <3>3. CASE u # Creator /\ RequestSync(u)
        BY <1>0, <3>3, RequestOther
      <3>. QED
        BY <1>3, <3>1, <3>2, <3>3
    <2>2. Kept(m)
      BY <1>0, <1>1, <2>1, KeptWithoutSetup
    <2>. QED
      BY <1>3, <2>2 DEF CopyStep
  <1>. QED
    BY <1>2, <1>3 DEF HandlePost

\* and handling a request.
LEMMA RequestCopyStep ==
    ASSUME TypeOK, ConstantsAssumption, HandleRequest, NEW m \in Members
    PROVE  CopyStep(m)
  <1>. DEFINE from == Head(mailbox[Creator]).from
              set == IF Belongs(from) THEN members[Creator] ELSE {}
  <1>0. /\ GroupType /\ QueueType /\ m \in Users /\ Creator \in Users /\ m # Creator
        /\ mailbox[Creator] # <<>> /\ Head(mailbox[Creator]).kind = "request"
        /\ mailbox[Creator] \in Seq(Message) /\ mailbox[m] \in Seq(Message)
        /\ Setup({}) \in Message
    BY Senders, MessageTypes DEF TypeOK, QueueType, HandleRequest, Handles
  <1>1. UNCHANGED <<userState, members>>
    BY DEF HandleRequest
  <1>2. CASE Reply(Creator, {from}, Setup(set)) /\ stray' = stray \ {from}
    <2>1. set \in SUBSET Members
      BY <1>0 DEF GroupType
    <2>2. Setup(set) \in Message
      BY <2>1, MessageTypes
    <2>3. mailbox'[m] = IF m \in {from} THEN Append(mailbox[m], Setup(set)) ELSE mailbox[m]
      BY <1>0, <1>2, <2>2, ReplyFacts
    <2>4. CASE m = from
      <3>1. mailbox'[m] = Append(mailbox[m], Setup(set))
        BY <2>3, <2>4
      <3>2. Told(m)
        BY <1>0, <1>1, <2>1, <2>4, <3>1, ToldBySetup
      <3>. QED
        BY <3>2 DEF CopyStep
    <2>5. CASE m # from
      <3>1. Kept(m)
        BY <1>0, <1>1, <2>3, <2>5, KeptUnchanged
      <3>. QED
        BY <1>2, <2>5, <3>1 DEF CopyStep
    <2>. QED
      BY <2>4, <2>5
  <1>3. CASE Done(Creator) /\ UNCHANGED stray
    <2>1. OtherMail(m)
      BY <1>0, <1>3, ReplyOther DEF Done
    <2>2. Kept(m)
      BY <1>0, <1>1, <2>1, KeptWithoutSetup
    <2>. QED
      BY <1>3, <2>2 DEF CopyStep
  <1>4. CASE UNCHANGED <<mailbox, stray>>
    BY <1>0, <1>1, <1>4, KeptUnchanged DEF CopyStep
  <1>. QED
    BY <1>2, <1>3, <1>4 DEF HandleRequest

(* Leaving, and deleting what is over. *)
LEMMA LeaveDeletes ==
    ASSUME TypeOK, ConstantsAssumption, NEW u \in Users, Delete(u) \/ (u \in Members /\ Leave(u)),
           NEW m \in Members
    PROVE  CopyStep(m)
  <1>0. GroupType /\ QueueType /\ m \in Users /\ UNCHANGED <<mailbox, stray>>
    BY Senders DEF TypeOK, Delete, Leave, Remove, history
  <1>1. CASE m # u
    <2>1. userState'[m] = userState[m] /\ members'[m] = members[m]
      BY <1>0, <1>1 DEF Delete, Leave, Remove, GroupType
    <2>2. Kept(m)
      BY <1>0, <2>1, KeptUnchanged
    <2>. QED
      BY <1>0, <2>2 DEF CopyStep
  <1>2. CASE m = u /\ Delete(u)
    <2>1. userState[m] # "member" /\ userState'[m] # "member"
      BY <1>0, <1>2 DEF Delete, Remove, GroupType
    <2>2. TakesPart(m)' <=> TakesPart(m)
      BY <1>0, <2>1 DEF TakesPart, Ends
    <2>3. TakesPart(m) => \A n : Lists(m, n)' <=> Lists(m, n)
      BY <1>0, <2>1 DEF TakesPart, Lists, Ends, NoSetup, LastSetup
    <2>. QED
      BY <1>0, <2>2, <2>3 DEF CopyStep, Kept
  <1>3. CASE m = u /\ Leave(u)
    <2>1. userState[m] = "member" /\ tasks'[m] # <<>>
      BY <1>0, <1>3 DEF Leave, TypeOK, QueueType
    <2>2. TakesPart(m)' => TakesPart(m)
      BY <1>0, <2>1 DEF TakesPart, Ends
    <2>. QED
      BY <1>0, <2>1, <2>2 DEF CopyStep, Departs, Leaving
  <1>. QED
    BY <1>1, <1>2, <1>3

(* Every step keeps how m's copy ends, or the creator tells m what he has,  *)
(* or m leaves.                                                             *)
LEMMA CopyStepOk ==
    ASSUME TypeOK, ConstantsAssumption, LeaveInv, [Next]_vars, NEW m \in Members
    PROVE  CopyStep(m)
  <1>0. /\ GroupType /\ QueueType /\ m \in Users /\ m # Creator /\ Creator \in Users
        /\ mailbox \in [Users -> Seq(Message)] /\ mailbox[m] \in Seq(Message)
        /\ Members \subseteq Users
    BY Senders DEF TypeOK, QueueType
  <1>a. ASSUME mailbox'[m] = mailbox[m], userState'[m] = userState[m],
               members'[m] = members[m], stray \subseteq stray'
        PROVE  CopyStep(m)
    BY <1>0, <1>a, KeptUnchanged DEF CopyStep
  <1>b. ASSUME NEW to, NEW u \in Users, NEW kind \in {"leave", "post"},
               Sent(kind, u) \in Message, mailbox' = Deliver(mailbox, to, Sent(kind, u)),
               UNCHANGED <<userState, members, stray>>
        PROVE  CopyStep(m)
    <2>1. mailbox'[m] = IF m \in to THEN Append(mailbox[m], Sent(kind, u)) ELSE mailbox[m]
      BY <1>0, <1>b DEF Deliver
    <2>2. Sent(kind, u).kind # "setup"
      BY DEF Sent
    <2>3. OtherMail(m)
      BY <1>0, <1>b, <2>1, <2>2 DEF OtherMail
    <2>4. Kept(m)
      BY <1>0, <1>b, <2>3, KeptWithoutSetup
    <2>. QED
      BY <1>b, <2>4 DEF CopyStep
  <1>1. ASSUME NEW set \in SUBSET Members, Create(set)
        PROVE  CopyStep(m)
    BY <1>0, <1>1, <1>a DEF Create, history, GroupType
  <1>2. ASSUME NEW set \in SUBSET Members, StartUpdate(set)
        PROVE  CopyStep(m)
    BY <1>2, <1>a DEF StartUpdate, history
  <1>3. CASE LoseUpdate
    BY <1>3, <1>a DEF LoseUpdate
  <1>4. CASE RequestDisband
    BY <1>4, <1>a DEF RequestDisband, history
  <1>5. CASE AnnouncePartly
    <2>1. PICK receivers : AnnounceTo(receivers)
      BY <1>5 DEF AnnouncePartly
    <2>2. tasks[Creator] # <<>> /\ Precondition /\ UNCHANGED <<userState, members>>
      BY <1>5 DEF AnnouncePartly, Announces
    <2>. QED
      BY <2>1, <2>2, AnnouncementTells DEF CopyStep
  <1>6. CASE CommitUpdate
    BY <1>0, <1>6, <1>a DEF CommitUpdate, history, GroupType
  <1>7. CASE ScheduleDue
    BY <1>7, <1>a DEF ScheduleDue, history
  <1>8. CASE Announce
    <2>0. tasks[Creator] # <<>> /\ UNCHANGED <<userState, members>>
      BY <1>8 DEF Announce, Announces
    <2>1. CASE Precondition
      <3>1. AnnounceTo(Members)
        BY <1>8, <2>1 DEF Announce
      <3>. QED
        BY <2>0, <2>1, <3>1, AnnouncementTells DEF CopyStep
    <2>2. CASE ~Precondition
      BY <1>8, <2>0, <2>2, <1>a DEF Announce
    <2>. QED
      BY <2>1, <2>2
  <1>9. CASE BeginHandling
    BY <1>9, <1>a DEF BeginHandling, history
  <1>10. ASSUME NEW u \in Users, HandleLeave(u)
        PROVE  CopyStep(m)
    BY <1>10, LeaveCopyStep
  <1>11. ASSUME NEW u \in Users, HandlePost(u)
        PROVE  CopyStep(m)
    BY <1>11, PostCopyStep
  <1>12. CASE HandleRequest
    BY <1>12, RequestCopyStep
  <1>13. ASSUME NEW u \in Members, SendLeave(u)
        PROVE  CopyStep(m)
    <2>1. Sent("leave", u) \in Message /\ u \in Users
      BY <1>0, MessageTypes
    <2>. QED
      BY <2>1, <1>13, <1>b DEF SendLeave, history
  <1>14. ASSUME NEW u \in Members, HandleSetup(u)
        PROVE  CopyStep(m)
    <2>1. Kept(m)
      BY <1>14, SetupKeeps
    <2>. QED
      BY <1>14, <2>1 DEF CopyStep, HandleSetup
  <1>15. ASSUME NEW u \in Members, Leave(u)
        PROVE  CopyStep(m)
    BY <1>0, <1>15, LeaveDeletes
  <1>16. ASSUME NEW u \in Members, SendLeavePartly(u)
        PROVE  CopyStep(m)
    <2>1. Sent("leave", u) \in Message /\ u \in Users
      BY <1>0, MessageTypes
    <2>2. PICK reached : mailbox' = Deliver(mailbox, reached, Sent("leave", u))
      BY <1>16 DEF SendLeavePartly
    <2>. QED
      BY <2>1, <2>2, <1>16, <1>b DEF SendLeavePartly, history
  <1>17. ASSUME NEW u \in Members, Expire(u)
        PROVE  CopyStep(m)
    BY <1>17, <1>a DEF Expire, history
  <1>18. ASSUME NEW u \in Users, Delete(u)
        PROVE  CopyStep(m)
    BY <1>18, LeaveDeletes
  <1>19. ASSUME NEW u \in Users, Post(u)
        PROVE  CopyStep(m)
    <2>1. Sent("post", u) \in Message
      BY MessageTypes
    <2>2. PICK to : mailbox' = Deliver(mailbox, to, Sent("post", u))
      BY <1>19 DEF Post
    <2>. QED
      BY <2>1, <2>2, <1>19, <1>b DEF Post, history
  <1>20. ASSUME NEW u \in Users, Restart(u)
        PROVE  CopyStep(m)
    BY <1>20, <1>a DEF Restart
  <1>21. CASE UNCHANGED vars
    BY <1>21, <1>a DEF vars, history
  <1>22. CASE LoseDisband
    BY <1>22, <1>a DEF LoseDisband
  <1>23. CASE CommitDisband
    BY <1>0, <1>23, <1>a DEF CommitDisband, Remove, history, GroupType
  <1>24. CASE AnnounceThrows
    BY <1>24, <1>a DEF AnnounceThrows, history
  <1>. QED
    BY <1>0, <1>1, <1>2, <1>3, <1>4, <1>5, <1>6, <1>7, <1>8, <1>9, <1>10, <1>11, <1>12,
       <1>13, <1>14, <1>15, <1>16, <1>17, <1>18, <1>19, <1>20, <1>21, <1>22, <1>23,
       <1>24
    DEF Next, CreatorStep, MemberStep

-----------------------------------------------------------------------------
(* Leaves on their way *)

\* Whether a mailbox holds a leave of m: one message more,
LEMMA HoldsAppend ==
    ASSUME NEW box \in Seq(Message), NEW msg \in Message, NEW m
    PROVE  HoldsLeave(Append(box, msg), m)
             <=> HoldsLeave(box, m) \/ (msg.kind = "leave" /\ msg.from = m)
  <1>. DEFINE new == Append(box, msg)
  <1>1. /\ DOMAIN new = DOMAIN box \cup {Len(box) + 1} /\ new[Len(box) + 1] = msg
        /\ \A i \in DOMAIN box : new[i] = box[i]
    OBVIOUS
  <1>. HIDE DEF new
  <1>2. HoldsLeave(new, m) <=> HoldsLeave(box, m) \/ (msg.kind = "leave" /\ msg.from = m)
    BY <1>1 DEF HoldsLeave
  <1>. QED
    BY <1>2 DEF new

\* one message less,
LEMMA HoldsTail ==
    ASSUME NEW box \in Seq(Message), box # <<>>, NEW m
    PROVE  HoldsLeave(box, m) <=> HoldsLeave(Tail(box), m)
                                  \/ (Head(box).kind = "leave" /\ Head(box).from = m)
  <1>1. PICK rest : rest = Tail(box)
    OBVIOUS
  <1>2. /\ \A i \in DOMAIN rest : i + 1 \in DOMAIN box /\ rest[i] = box[i + 1]
        /\ \A i \in DOMAIN box : i = 1 \/ (i - 1 \in DOMAIN rest /\ rest[i - 1] = box[i])
        /\ 1 \in DOMAIN box /\ Head(box) = box[1]
    <2>1. /\ Len(box) \in Nat /\ DOMAIN box = 1 .. Len(box) /\ DOMAIN rest = 1 .. (Len(box) - 1)
          /\ \A i \in DOMAIN rest : i + 1 \in DOMAIN box /\ rest[i] = box[i + 1]
          /\ 1 \in DOMAIN box /\ Head(box) = box[1]
      BY <1>1, TailFacts
    <2>. QED
      BY <2>1
  <1>3. HoldsLeave(box, m) <=> HoldsLeave(rest, m) \/ (box[1].kind = "leave" /\ box[1].from = m)
    BY <1>2 DEF HoldsLeave
  <1>. QED
    BY <1>1, <1>2, <1>3

\* a message delivered,
LEMMA HoldsDeliver ==
    ASSUME NEW box \in [Users -> Seq(Message)], NEW to, NEW msg \in Message, NEW u \in Users, NEW m
    PROVE  HoldsLeave(Deliver(box, to, msg)[u], m)
             <=> HoldsLeave(box[u], m) \/ (u \in to /\ msg.kind = "leave" /\ msg.from = m)
  <1>1. Deliver(box, to, msg)[u] = IF u \in to THEN Append(box[u], msg) ELSE box[u]
    BY DEF Deliver
  <1>2. box[u] \in Seq(Message)
    OBVIOUS
  <1>3. CASE u \in to
    <2>1. Deliver(box, to, msg)[u] = Append(box[u], msg)
      BY <1>1, <1>3
    <2>2. HoldsLeave(Append(box[u], msg), m)
             <=> HoldsLeave(box[u], m) \/ (msg.kind = "leave" /\ msg.from = m)
      BY <1>2, HoldsAppend
    <2>. QED
      BY <1>3, <2>1, <2>2
  <1>4. CASE u \notin to
    BY <1>1, <1>4
  <1>. QED
    BY <1>3, <1>4

(* The leaves of m in the mailbox of v, when u replies. *)
LEMMA HoldsReply ==
    ASSUME QueueType, NEW u \in Users, mailbox[u] # <<>>, NEW to, NEW msg \in Message,
           Reply(u, to, msg), NEW v \in Users, NEW m
    PROVE  /\ HoldsLeave(mailbox'[v], m) =>
                 HoldsLeave(mailbox[v], m) \/ (v \in to /\ msg.kind = "leave" /\ msg.from = m)
           /\ HoldsLeave(mailbox[v], m) =>
                 \/ HoldsLeave(mailbox'[v], m)
                 \/ v = u /\ Head(mailbox[v]).kind = "leave" /\ Head(mailbox[v]).from = m
  <1>0. mailbox[v] \in Seq(Message)
    BY DEF QueueType
  <1>1. PICK box \in Seq(Message) :
              /\ box = mailbox[v] \/ (v = u /\ box = Tail(mailbox[v]))
              /\ mailbox'[v] = IF v \in to THEN Append(box, msg) ELSE box
    BY ReplyFacts
  <1>2. /\ HoldsLeave(box, m) => HoldsLeave(mailbox[v], m)
        /\ HoldsLeave(mailbox[v], m) =>
              \/ HoldsLeave(box, m)
              \/ v = u /\ Head(mailbox[v]).kind = "leave" /\ Head(mailbox[v]).from = m
    <2>1. CASE box = mailbox[v]
      BY <2>1
    <2>2. CASE v = u /\ box = Tail(mailbox[v])
      <3>1. mailbox[v] # <<>>
        BY <2>2
      <3>. QED
        BY <1>0, <2>2, <3>1, HoldsTail
    <2>. QED
      BY <1>1, <2>1, <2>2
  <1>3. CASE v \in to
    <2>1. mailbox'[v] = Append(box, msg)
      BY <1>1, <1>3
    <2>2. HoldsLeave(Append(box, msg), m)
             <=> HoldsLeave(box, m) \/ (msg.kind = "leave" /\ msg.from = m)
      BY HoldsAppend
    <2>. QED
      BY <1>2, <1>3, <2>1, <2>2
  <1>4. CASE v \notin to
    BY <1>1, <1>2, <1>4
  <1>. QED
    BY <1>3, <1>4

\* a request for a setup,
LEMMA HoldsRequest ==
    ASSUME QueueType, NEW u \in Members, mailbox[u] # <<>>, RequestSync(u), NEW v \in Users, NEW m
    PROVE  /\ HoldsLeave(mailbox'[v], m) => HoldsLeave(mailbox[v], m)
           /\ HoldsLeave(mailbox[v], m) => HoldsLeave(mailbox'[v], m) \/ v = u
  <1>0. /\ u \in Users /\ Setup({}) \in Message /\ Setup({}).kind # "leave"
        /\ Sent("request", u) \in Message /\ Sent("request", u).kind # "leave"
        /\ mailbox \in [Users -> Seq(Message)]
    BY Senders, MessageTypes DEF Setup, Sent, QueueType
  <1>1. CASE Reply(u, {Creator}, Sent("request", u))
    BY <1>0, <1>1, HoldsReply
  <1>2. CASE Reply(u, {}, Setup({}))
    BY <1>0, <1>2, HoldsReply
  <1>3. CASE mailbox' = Deliver(mailbox, {Creator}, Sent("request", u))
    <2>1. HoldsLeave(Deliver(mailbox, {Creator}, Sent("request", u))[v], m)
            <=> HoldsLeave(mailbox[v], m)
      BY <1>0, HoldsDeliver
    <2>. QED
      BY <1>3, <2>1
  <1>. QED
    BY <1>1, <1>2, <1>3 DEF RequestSync, Done

\* an announcement.
LEMMA HoldsAnnouncement ==
    ASSUME TypeOK, NEW receivers, AnnounceTo(receivers), NEW v \in Users, NEW m
    PROVE  HoldsLeave(mailbox'[v], m) <=> HoldsLeave(mailbox[v], m)
  <1>0. /\ mailbox \in [Users -> Seq(Message)] /\ members[Creator] \in SUBSET Members
        /\ Setup(members[Creator]) \in Message /\ Setup(members[Creator]).kind # "leave"
        /\ Setup({}) \in Message /\ Setup({}).kind # "leave"
    BY Senders, MessageTypes DEF Setup, TypeOK, QueueType, GroupType
  <1>1. PICK box : box = Deliver(mailbox, Announced \intersect receivers, Setup(members[Creator]))
    OBVIOUS
  <1>2. box \in [Users -> Seq(Message)]
    BY <1>0, <1>1, DeliverType
  <1>3. mailbox' = Deliver(box, Removed \intersect receivers, Setup({}))
    BY <1>1 DEF AnnounceTo
  <1>4. HoldsLeave(box[v], m) <=> HoldsLeave(mailbox[v], m)
    BY <1>0, <1>1, HoldsDeliver
  <1>5. HoldsLeave(Deliver(box, Removed \intersect receivers, Setup({}))[v], m)
          <=> HoldsLeave(box[v], m)
    BY <1>0, <1>2, HoldsDeliver
  <1>. QED
    BY <1>3, <1>4, <1>5

(* Leaves come from those who have departed, and do not disappear before    *)
(* the creator has handled them.                                            *)
LeaveFlow(m) ==
    /\ \A v \in Users : HoldsLeave(mailbox'[v], m) => HoldsLeave(mailbox[v], m) \/ m \in departed'
    /\ Leaving(m) => Leaving(m)' \/ ~Belongs(m)' \/ m \in forgotten'

\* How any step moves the leaves of m.
LEMMA LeaveFlowOk ==
    ASSUME TypeOK, ConstantsAssumption, LeaveInv, [Next]_vars, NEW m \in Members
    PROVE  LeaveFlow(m)
  <1>0. /\ GroupType /\ QueueType /\ m \in Users /\ m # Creator /\ Creator \in Users
        /\ mailbox \in [Users -> Seq(Message)] /\ tasks \in [Users -> Seq(Task)]
        /\ Members \subseteq Users /\ Setup({}) \in Message /\ Setup({}).kind = "setup"
        /\ \A u \in Users : u # Creator => u \in Members
    BY Senders, MessageTypes DEF TypeOK, QueueType, Setup, Users
  <1>a. ASSUME mailbox' = mailbox, tasks'[m] = tasks[m]
        PROVE  LeaveFlow(m)
    BY <1>a DEF LeaveFlow, Leaving
  <1>b. ASSUME NEW receivers, AnnounceTo(receivers), tasks'[m] = tasks[m]
        PROVE  LeaveFlow(m)
    <2>1. \A v \in Users : HoldsLeave(mailbox'[v], m) <=> HoldsLeave(mailbox[v], m)
      BY <1>0, <1>b, HoldsAnnouncement
    <2>. QED
      BY <1>0, <1>b, <2>1 DEF LeaveFlow, Leaving
  <1>c. ASSUME NEW u \in Users, mailbox[u] # <<>>, Head(mailbox[u]).kind # "leave" \/ u # Creator,
               NEW to, NEW msg \in Message, msg.kind # "leave" \/ (msg.from = u /\ u \in departed'),
               Reply(u, to, msg), tasks'[m] = tasks[m]
        PROVE  LeaveFlow(m)
    <2>1. ASSUME NEW v \in Users
          PROVE  HoldsLeave(mailbox'[v], m) =>
                   HoldsLeave(mailbox[v], m) \/ (v \in to /\ msg.kind = "leave" /\ msg.from = m)
      BY <1>0, <1>c, HoldsReply
    <2>2. HoldsLeave(mailbox[Creator], m) => HoldsLeave(mailbox'[Creator], m)
      BY <1>0, <1>c, HoldsReply
    <2>3. \A v \in Users :
             HoldsLeave(mailbox'[v], m) => HoldsLeave(mailbox[v], m) \/ m \in departed'
      BY <1>c, <2>1
    <2>. QED
      BY <1>c, <2>2, <2>3 DEF LeaveFlow, Leaving
  <1>d. ASSUME NEW u \in Members, mailbox[u] # <<>>, RequestSync(u), tasks'[m] = tasks[m]
        PROVE  LeaveFlow(m)
    <2>1. \A v \in Users : HoldsLeave(mailbox'[v], m) => HoldsLeave(mailbox[v], m)
      BY <1>0, <1>d, HoldsRequest
    <2>2. HoldsLeave(mailbox[Creator], m) => HoldsLeave(mailbox'[Creator], m)
      BY <1>0, <1>d, HoldsRequest DEF ConstantsAssumption
    <2>. QED
      BY <1>d, <2>1, <2>2 DEF LeaveFlow, Leaving
  <1>e. ASSUME NEW u \in Users, NEW kind \in {"leave", "post"}, Sent(kind, u) \in Message,
               kind = "leave" => u \in departed', tasks'[m] = tasks[m] \/ (u = m /\ kind = "leave"),
               NEW to, mailbox' = Deliver(mailbox, to, Sent(kind, u)),
               tasks'[m] # tasks[m] => Creator \in to
        PROVE  LeaveFlow(m)
    <2>0. Sent(kind, u).kind = kind /\ Sent(kind, u).from = u
      BY DEF Sent
    <2>1. ASSUME NEW v \in Users
          PROVE  HoldsLeave(mailbox'[v], m)
                   <=> HoldsLeave(mailbox[v], m) \/ (v \in to /\ kind = "leave" /\ u = m)
      <3>1. HoldsLeave(Deliver(mailbox, to, Sent(kind, u))[v], m)
              <=> HoldsLeave(mailbox[v], m)
                  \/ (v \in to /\ Sent(kind, u).kind = "leave" /\ Sent(kind, u).from = m)
        <4>1. PICK msg \in Message : msg = Sent(kind, u)
          BY <1>e
        <4>2. Deliver(mailbox, to, msg)[v] = IF v \in to THEN Append(mailbox[v], msg)
                                             ELSE mailbox[v]
          BY <1>0 DEF Deliver
        <4>3. HoldsLeave(Append(mailbox[v], msg), m)
                <=> HoldsLeave(mailbox[v], m) \/ (msg.kind = "leave" /\ msg.from = m)
          BY <1>0, HoldsAppend
        <4>. QED
          BY <4>1, <4>2, <4>3
      <3>. QED
        BY <1>e, <2>0, <3>1
    <2>2. \A v \in Users :
             HoldsLeave(mailbox'[v], m) => HoldsLeave(mailbox[v], m) \/ m \in departed'
      BY <1>e, <2>1
    <2>3. Leaving(m) => Leaving(m)'
      BY <1>0, <1>e, <2>1 DEF Leaving
    <2>. QED
      BY <2>2, <2>3 DEF LeaveFlow
  <1>1. ASSUME NEW set \in SUBSET Members, Create(set)
        PROVE  LeaveFlow(m)
    BY <1>0, <1>1, <1>a DEF Create
  <1>2. ASSUME NEW set \in SUBSET Members, StartUpdate(set)
        PROVE  LeaveFlow(m)
    BY <1>2, <1>a DEF StartUpdate
  <1>3. CASE LoseUpdate
    BY <1>3, <1>a DEF LoseUpdate
  <1>4. CASE RequestDisband
    BY <1>4, <1>a DEF RequestDisband
  <1>5. CASE AnnouncePartly
    BY <1>5, <1>b DEF AnnouncePartly
  <1>6. CASE CommitUpdate
    BY <1>6, <1>a DEF CommitUpdate
  <1>7. CASE ScheduleDue
    BY <1>0, <1>7, <1>a DEF ScheduleDue
  <1>8. CASE Announce
    <2>1. tasks'[m] = tasks[m]
      BY <1>0, <1>8 DEF Announce, NextTask
    <2>. QED
      BY <1>8, <2>1, <1>a, <1>b DEF Announce, NextTask, LeaveFlow, Leaving
  <1>9. CASE BeginHandling
    BY <1>9, <1>a DEF BeginHandling
  <1>10. ASSUME NEW u \in Users, HandleLeave(u)
        PROVE  LeaveFlow(m)
    <2>0. mailbox[u] # <<>> /\ UNCHANGED tasks /\ Head(mailbox[u]).from \in Members
          /\ Head(mailbox[u]).kind = "leave"
      BY <1>0, <1>10, HeadType DEF HandleLeave, Handles, Message
    <2>1. CASE u # Creator
      BY <1>0, <1>10, <2>0, <2>1, <1>a, <1>c, <1>d DEF HandleLeave, Done
    <2>2. CASE u = Creator /\ UNCHANGED mailbox
      BY <2>0, <2>2, <1>a
    <2>3. CASE u = Creator /\ Done(u) /\ mailbox' # mailbox
      <3>1. ASSUME NEW v \in Users
            PROVE  HoldsLeave(mailbox'[v], m) => HoldsLeave(mailbox[v], m)
        BY <1>0, <2>0, <2>3, HoldsReply DEF Done
      <3>2. CASE Head(mailbox[u]).from = m
        <4>1. ~Belongs(m)'
          <5>1. CASE userState[u] # "member" \/ m \notin members[u]
            BY <1>0, <1>10, <2>0, <2>3, <3>2, <5>1 DEF HandleLeave, Belongs, GroupType
          <5>2. CASE userState[u] = "member" /\ m \in members[u]
            BY <1>0, <1>10, <2>3, <3>2, <5>2 DEF HandleLeave, Belongs, GroupType
          <5>. QED
            BY <5>1, <5>2
        <4>. QED
          BY <3>1, <4>1 DEF LeaveFlow
      <3>3. CASE Head(mailbox[u]).from # m
        <4>1. HoldsLeave(mailbox[Creator], m) => HoldsLeave(mailbox'[Creator], m)
          BY <1>0, <2>0, <2>3, <3>3, HoldsReply DEF Done
        <4>. QED
          BY <2>0, <3>1, <4>1 DEF LeaveFlow, Leaving
      <3>. QED
        BY <3>2, <3>3
    <2>. QED
      BY <1>10, <2>1, <2>2, <2>3 DEF HandleLeave
  <1>11. ASSUME NEW u \in Users, HandlePost(u)
        PROVE  LeaveFlow(m)
    <2>0. mailbox[u] # <<>> /\ UNCHANGED tasks /\ Head(mailbox[u]).kind = "post"
      BY <1>11 DEF HandlePost, Handles
    <2>1. CASE \E to : Reply(u, to, Setup({}))
      BY <1>0, <2>0, <2>1, <1>c
    <2>2. CASE u # Creator /\ RequestSync(u)
      BY <1>0, <2>0, <2>2, <1>d
    <2>3. CASE \E to : /\ u # Creator /\ Reply(u, to, Sent("leave", u))
                        /\ departed' = departed \union {u}
      <3>1. /\ Sent("leave", u) \in Message /\ Sent("leave", u).from = u /\ u \in departed'
        BY <1>0, <2>3, MessageTypes DEF Sent
      <3>. QED
        BY <1>0, <2>0, <2>3, <3>1, <1>c
    <2>. QED
      BY <1>11, <2>1, <2>2, <2>3 DEF HandlePost, Done
  <1>12. CASE HandleRequest
    <2>0. /\ mailbox[Creator] # <<>> /\ UNCHANGED tasks /\ Head(mailbox[Creator]).kind = "request"
      BY <1>12 DEF HandleRequest, Handles
    <2>1. CASE UNCHANGED mailbox
      BY <2>0, <2>1, <1>a
    <2>2. CASE Done(Creator)
      BY <1>0, <2>0, <2>2, <1>c DEF Done
    <2>3. CASE \E to : \E set \in SUBSET Members : Reply(Creator, to, Setup(set))
      <3>1. \A set \in SUBSET Members : Setup(set) \in Message /\ Setup(set).kind # "leave"
        BY MessageTypes DEF Setup
      <3>. QED
        BY <1>0, <2>0, <2>3, <3>1, <1>c
    <2>4. Belongs(Head(mailbox[Creator]).from) => members[Creator] \in SUBSET Members
      BY <1>0 DEF GroupType
    <2>. QED
      BY <1>12, <2>1, <2>2, <2>3, <2>4 DEF HandleRequest
  <1>13. ASSUME NEW u \in Members, SendLeave(u)
        PROVE  LeaveFlow(m)
    <2>1. /\ Sent("leave", u) \in Message /\ u \in Users /\ u \in departed'
          /\ Creator \in Head(tasks[u]).to
          /\ mailbox' = Deliver(mailbox, Head(tasks[u]).to, Sent("leave", u))
          /\ tasks'[m] # tasks[m] => u = m
      BY <1>0, <1>13, MessageTypes DEF SendLeave, NextTask, history, LeaveInv
    <2>. QED
      BY <2>1, <1>e
  <1>14. ASSUME NEW u \in Members, HandleSetup(u)
        PROVE  LeaveFlow(m)
    BY <1>0, <1>14, <1>c DEF HandleSetup, Handles, Done, ConstantsAssumption
  <1>15. ASSUME NEW u \in Members, Leave(u)
        PROVE  LeaveFlow(m)
    <2>1. CASE u # m
      BY <1>0, <1>15, <2>1, <1>a DEF Leave
    <2>2. CASE u = m
      BY <1>0, <1>15, <2>2 DEF Leave, LeaveFlow, Leaving
    <2>. QED
      BY <2>1, <2>2
  <1>16. ASSUME NEW u \in Members, SendLeavePartly(u)
        PROVE  LeaveFlow(m)
    <2>1. /\ Sent("leave", u) \in Message /\ u \in Users /\ u \in departed'
          /\ UNCHANGED tasks
      BY <1>0, <1>16, MessageTypes DEF SendLeavePartly, history, LeaveInv
    <2>2. PICK to : mailbox' = Deliver(mailbox, to, Sent("leave", u))
      BY <1>16 DEF SendLeavePartly
    <2>. QED
      BY <2>1, <2>2, <1>e
  <1>17. ASSUME NEW u \in Members, Expire(u)
        PROVE  LeaveFlow(m)
    BY <1>17, <1>a DEF Expire
  <1>18. ASSUME NEW u \in Users, Delete(u)
        PROVE  LeaveFlow(m)
    BY <1>18, <1>a DEF Delete
  <1>19. ASSUME NEW u \in Users, Post(u)
        PROVE  LeaveFlow(m)
    <2>1. Sent("post", u) \in Message /\ UNCHANGED tasks
      BY <1>19, MessageTypes DEF Post
    <2>2. PICK to : mailbox' = Deliver(mailbox, to, Sent("post", u))
      BY <1>19 DEF Post
    <2>. QED
      BY <2>1, <2>2, <1>e
  <1>20. ASSUME NEW u \in Users, Restart(u)
        PROVE  LeaveFlow(m)
    <2>1. CASE tasks'[m] = tasks[m]
      BY <1>20, <2>1, <1>a DEF Restart
    <2>2. CASE tasks'[m] # tasks[m]
      BY <1>0, <1>20, <2>2 DEF Restart, LeaveFlow
    <2>. QED
      BY <2>1, <2>2
  <1>21. CASE UNCHANGED vars
    BY <1>21, <1>a DEF vars
  <1>22. CASE LoseDisband
    BY <1>22, <1>a DEF LoseDisband
  <1>23. CASE CommitDisband
    BY <1>23, <1>a DEF CommitDisband
  <1>24. CASE AnnounceThrows
    BY <1>24, <1>a DEF AnnounceThrows
  <1>. QED
    BY <1>0, <1>1, <1>2, <1>3, <1>4, <1>5, <1>6, <1>7, <1>8, <1>9, <1>10, <1>11, <1>12,
       <1>13, <1>14, <1>15, <1>16, <1>17, <1>18, <1>19, <1>20, <1>21, <1>22, <1>23,
       <1>24
    DEF Next, CreatorStep, MemberStep

-----------------------------------------------------------------------------
(* The invariants of the tasks *)

\* Nothing comes after the only task.
LEMMA TailOfOne ==
    ASSUME NEW s \in Seq(Task), Len(s) = 1
    PROVE  Tail(s) = <<>>
  <1>0. s # <<>> /\ Tail(s) \in Seq(Task) /\ Len(Tail(s)) = 0
    OBVIOUS
  <1>1. PICK rest : rest = Tail(s)
    OBVIOUS
  <1>2. rest \in Seq(Task) /\ Len(rest) = 0
    BY <1>0, <1>1
  <1>. QED
    BY <1>1, <1>2

\* Leaves come from members who have departed.
LEMMA LeaveInvStep ==
    ASSUME TypeOK, ConstantsAssumption, LeaveInv, [Next]_vars
    PROVE  LeaveInv'
  <1>0. /\ tasks \in [Users -> Seq(Task)] /\ Creator \in Users /\ Members \subseteq Users
        /\ Creator \notin Members
    BY Senders DEF TypeOK, QueueType
  <1>1. departed \subseteq departed'
    BY DEF Next, CreatorStep, MemberStep, vars, Create, StartUpdate, LoseUpdate, CommitUpdate,
       RequestDisband, LoseDisband, CommitDisband, ScheduleDue, Announce, AnnounceThrows,
       AnnouncePartly, BeginHandling, HandleLeave,
       HandlePost, HandleRequest, SendLeave, HandleSetup, Leave, SendLeavePartly, Expire,
       Delete, Post, Restart, history
  <1>2. ASSUME NEW u \in Users, NEW m \in Members, HoldsLeave(mailbox'[u], m)
        PROVE  m \in departed'
    BY <1>1, <1>2, LeaveFlowOk DEF LeaveFlow, LeaveInv
  <1>3. ASSUME NEW m \in Members
        PROVE  \/ tasks'[m] = tasks[m] \/ tasks'[m] = <<>>
               \/ tasks[m] # <<>> /\ tasks'[m] = Tail(tasks[m])
               \/ /\ tasks'[m] = <<[kind |-> "leave", to |-> members[m] \union {Creator}]>>
                  /\ m \in departed'
    BY <1>0 DEF Next, CreatorStep, MemberStep, vars, Create, StartUpdate, LoseUpdate, CommitUpdate,
       RequestDisband, LoseDisband, CommitDisband, ScheduleDue, Announce, AnnounceThrows,
       AnnouncePartly, BeginHandling, HandleLeave,
       HandlePost, HandleRequest, SendLeave, HandleSetup, Leave, SendLeavePartly, Expire,
       Delete, Post, Restart, Handles, NextTask
  <1>4. ASSUME NEW m \in Members, tasks'[m] # <<>>
        PROVE  /\ Len(tasks'[m]) = 1
               /\ Creator \in Head(tasks'[m]).to /\ m \in departed'
    <2>1. tasks[m] \in Seq(Task)
      BY <1>0
    <2>2. CASE tasks'[m] = tasks[m]
      BY <1>1, <1>4, <2>2 DEF LeaveInv
    <2>3. CASE tasks[m] # <<>> /\ tasks'[m] = Tail(tasks[m])
      <3>1. Len(tasks[m]) = 1
        BY <2>3 DEF LeaveInv
      <3>2. Tail(tasks[m]) = <<>>
        BY <2>1, <3>1, TailOfOne
      <3>. QED
        BY <1>4, <2>3, <3>2
    <2>4. CASE /\ tasks'[m] = <<[kind |-> "leave", to |-> members[m] \union {Creator}]>>
               /\ m \in departed'
      BY <2>4
    <2>. QED
      BY <1>3, <1>4, <2>2, <2>3, <2>4
  <1>. QED
    BY <1>2, <1>4 DEF LeaveInv

\* What is in a queue: one task more,
LEMMA InAppend ==
    ASSUME NEW seq \in Seq(Task), NEW last \in Task, NEW task
    PROVE  In(Append(seq, last), task) <=> In(seq, task) \/ task = last
  <1>. DEFINE new == Append(seq, last)
  <1>1. /\ DOMAIN new = DOMAIN seq \cup {Len(seq) + 1} /\ new[Len(seq) + 1] = last
        /\ \A i \in DOMAIN seq : new[i] = seq[i]
    OBVIOUS
  <1>. HIDE DEF new
  <1>2. In(new, task) <=> In(seq, task) \/ task = last
    BY <1>1 DEF In
  <1>. QED
    BY <1>2 DEF new

\* and the first one less.
LEMMA InTail ==
    ASSUME NEW seq \in Seq(Task), seq # <<>>, NEW task, In(seq, task)
    PROVE  task = Head(seq) \/ In(Tail(seq), task)
  <1>. DEFINE rest == Tail(seq)
  <1>1. /\ \A i \in DOMAIN seq : i # 1 => i - 1 \in DOMAIN rest /\ rest[i - 1] = seq[i]
        /\ Head(seq) = seq[1]
    OBVIOUS
  <1>. HIDE DEF rest
  <1>2. task = Head(seq) \/ In(rest, task)
    BY <1>1 DEF In
  <1>. QED
    BY <1>2 DEF rest

(* What the creator has to announce, he announces; the end that he does not *)
(* announce to m, because the group is over, leaves m stray.                *)
PlanStep ==
    /\ DueInv'
    /\ Creator \notin forgotten' => \A m \in Members :
          /\ Announcing /\ Belongs(m) => Announcing' \/ Told(m)
          /\ TellsEnd(m) => TellsEnd(m)' \/ Told(m) \/ m \in stray'

\* What the first announcement of the creator leaves to do.
LEMMA AnnouncePlan ==
    ASSUME TypeOK, ConstantsAssumption, DueInv, Announce
    PROVE  PlanStep
  <1>0. /\ tasks \in [Users -> Seq(Task)] /\ tasks[Creator] \in Seq(Task)
        /\ Creator \in Users /\ Members \subseteq Users
    BY Senders DEF TypeOK, QueueType
  <1>1. PICK first : first = Head(tasks[Creator])
    OBVIOUS
  <1>2. /\ tasks[Creator] # <<>> /\ due' = due /\ UNCHANGED <<userState, members>>
        /\ tasks'[Creator] = Tail(tasks[Creator])
    BY <1>0 DEF Announce, Announces, NextTask
  <1>3. ASSUME NEW task, Queued(task)
        PROVE  task = first \/ Queued(task)'
    BY <1>0, <1>1, <1>2, <1>3, InTail DEF Queued
  <1>4. DueInv'
    BY <1>2 DEF DueInv
  <1>5. ASSUME Precondition, NEW m \in Members,
               \/ first.kind = "update" /\ Belongs(m)
               \/ m \in first.to
        PROVE  Told(m)
    <2>1. m \in Announced \union Removed
      BY <1>1, <1>5 DEF Announced, Removed, Belongs
    <2>2. AnnounceTo(Members)
      BY <1>5 DEF Announce
    <2>. QED
      BY <1>2, <1>5, <2>1, <2>2, AnnouncementTells
  <1>6. ASSUME ~Precondition, NEW m \in Members
        PROVE  /\ ~(first.kind = "update" /\ Belongs(m))
               /\ m \in first.to => m \in stray'
    BY <1>1, <1>6 DEF Precondition, Belongs, Announce
  <1>7. ASSUME NEW m \in Members, Announcing, Belongs(m)
        PROVE  Announcing' \/ Told(m)
    <2>1. PICK task \in Task : Queued(task) /\ task.kind = "update"
      BY <1>7 DEF Announcing
    <2>2. CASE task = first
      BY <1>5, <1>6, <1>7, <2>1, <2>2
    <2>3. CASE Queued(task)'
      BY <2>1, <2>3 DEF Announcing
    <2>. QED
      BY <1>3, <2>1, <2>2, <2>3
  <1>8. ASSUME NEW m \in Members, TellsEnd(m)
        PROVE  TellsEnd(m)' \/ Told(m) \/ m \in stray'
    <2>1. PICK task \in Task : Queued(task) /\ m \in task.to
      BY <1>8 DEF TellsEnd
    <2>2. CASE task = first
      BY <1>5, <1>6, <2>1, <2>2
    <2>3. CASE Queued(task)'
      BY <2>1, <2>3 DEF TellsEnd
    <2>. QED
      BY <1>3, <2>1, <2>2, <2>3
  <1>. QED
    BY <1>4, <1>7, <1>8 DEF PlanStep

\* What any step does to the announcements of the creator.
LEMMA PlanStepOk ==
    ASSUME TypeOK, ConstantsAssumption, DueInv, [Next]_vars
    PROVE  PlanStep
  <1>0. /\ tasks \in [Users -> Seq(Task)] /\ tasks[Creator] \in Seq(Task)
        /\ Creator \in Users /\ Members \subseteq Users
        /\ due \subseteq Task /\ Creator \notin Members
    BY Senders DEF TypeOK, QueueType, CreatorType
  <1>a. ASSUME \A task \in Task : Queued(task) => Queued(task)', DueInv'
        PROVE  PlanStep
    <2>1. Announcing => Announcing'
      BY <1>a DEF Announcing
    <2>2. \A m : TellsEnd(m) => TellsEnd(m)'
      BY <1>a DEF TellsEnd
    <2>. QED
      BY <1>a, <2>1, <2>2 DEF PlanStep
  <1>b. ASSUME tasks'[Creator] = tasks[Creator], due' = due
        PROVE  PlanStep
    BY <1>a, <1>b DEF Queued, DueInv
  <1>c. ASSUME tasks[Creator] = <<>>, due = {}, DueInv'
        PROVE  PlanStep
    BY <1>a, <1>c DEF Queued, In
  <1>1. ASSUME NEW set \in SUBSET Members, Create(set)
        PROVE  PlanStep
    BY <1>1, <1>c DEF Create, Idle, DueInv
  <1>2. ASSUME NEW set \in SUBSET Members, StartUpdate(set)
        PROVE  PlanStep
    BY <1>2, <1>b DEF StartUpdate
  <1>3. CASE LoseUpdate
    BY <1>3, <1>b DEF LoseUpdate
  <1>4. CASE RequestDisband
    BY <1>4, <1>b DEF RequestDisband
  <1>5. CASE AnnouncePartly
    BY <1>5, <1>b DEF AnnouncePartly
  <1>6. CASE CommitUpdate
    <2>1. due = {} /\ tasks' = tasks
      BY <1>6 DEF CommitUpdate, IsTurn
    <2>2. DueInv'
      BY <1>6, <2>1 DEF CommitUpdate, DueInv
    <2>. QED
      BY <1>a, <2>1, <2>2 DEF Queued
  <1>7. CASE ScheduleDue
    <2>1. PICK task \in due : tasks'[Creator] = Append(tasks[Creator], task)
      BY <1>0, <1>7 DEF ScheduleDue
    <2>2. ASSUME NEW other \in Task, Queued(other)
          PROVE  Queued(other)'
      <3>1. other = task \/ In(tasks[Creator], other)
        BY <2>2 DEF Queued, DueInv
      <3>2. In(Append(tasks[Creator], task), other)
        BY <1>0, <3>1, InAppend
      <3>. QED
        BY <2>1, <3>2 DEF Queued
    <2>3. DueInv'
      BY <1>7 DEF ScheduleDue, DueInv
    <2>. QED
      BY <1>a, <2>2, <2>3
  <1>8. CASE Announce
    BY <1>8, AnnouncePlan
  <1>9. CASE BeginHandling
    BY <1>9, <1>b DEF BeginHandling
  <1>10. ASSUME NEW u \in Users, HandleLeave(u)
        PROVE  PlanStep
    BY <1>10, <1>b DEF HandleLeave, Handles
  <1>11. ASSUME NEW u \in Users, HandlePost(u)
        PROVE  PlanStep
    BY <1>11, <1>b DEF HandlePost, Handles
  <1>12. CASE HandleRequest
    BY <1>12, <1>b DEF HandleRequest, Handles
  <1>13. ASSUME NEW u \in Members, SendLeave(u)
        PROVE  PlanStep
    BY <1>0, <1>13, <1>b DEF SendLeave, NextTask, creatorVars
  <1>14. ASSUME NEW u \in Members, HandleSetup(u)
        PROVE  PlanStep
    BY <1>14, <1>b DEF HandleSetup, Handles
  <1>15. ASSUME NEW u \in Members, Leave(u)
        PROVE  PlanStep
    BY <1>0, <1>15, <1>b DEF Leave
  <1>16. ASSUME NEW u \in Members, SendLeavePartly(u)
        PROVE  PlanStep
    BY <1>16, <1>b DEF SendLeavePartly
  <1>17. ASSUME NEW u \in Members, Expire(u)
        PROVE  PlanStep
    BY <1>17, <1>b DEF Expire, creatorVars
  <1>18. ASSUME NEW u \in Users, Delete(u)
        PROVE  PlanStep
    BY <1>18, <1>b DEF Delete
  <1>19. ASSUME NEW u \in Users, Post(u)
        PROVE  PlanStep
    BY <1>19, <1>b DEF Post, creatorVars
  <1>20. ASSUME NEW u \in Users, Restart(u)
        PROVE  PlanStep
    <2>1. CASE u # Creator
      BY <1>0, <1>20, <2>1, <1>b DEF Restart
    <2>2. CASE u = Creator
      <3>1. DueInv'
        BY <1>20, <2>2 DEF Restart, DueInv
      <3>2. CASE tasks[Creator] = <<>> /\ due = {}
        BY <1>c, <3>1, <3>2
      <3>3. CASE tasks[Creator] # <<>> \/ due # {}
        <4>1. Creator \in forgotten'
          BY <1>20, <2>2, <3>3 DEF Restart
        <4>. QED
          BY <3>1, <4>1 DEF PlanStep
      <3>. QED
        BY <3>2, <3>3
    <2>. QED
      BY <2>1, <2>2
  <1>21. CASE UNCHANGED vars
    BY <1>21, <1>b DEF vars, creatorVars
  <1>22. CASE LoseDisband
    BY <1>22, <1>b DEF LoseDisband
  <1>23. CASE CommitDisband
    <2>1. due = {} /\ tasks' = tasks
      BY <1>23 DEF CommitDisband, IsTurn
    <2>2. DueInv'
      BY <1>23, <2>1 DEF CommitDisband, DueInv
    <2>. QED
      BY <1>a, <2>1, <2>2 DEF Queued
  <1>24. CASE AnnounceThrows
    BY <1>24, <1>b DEF AnnounceThrows
  <1>. QED
    BY <1>0, <1>1, <1>2, <1>3, <1>4, <1>5, <1>6, <1>7, <1>8, <1>9, <1>10, <1>11, <1>12,
       <1>13, <1>14, <1>15, <1>16, <1>17, <1>18, <1>19, <1>20, <1>21, <1>22, <1>23,
       <1>24
    DEF Next, CreatorStep, MemberStep

-----------------------------------------------------------------------------
(* The creator's list *)

(* A member that is added will be announced; who is taken off is told, or   *)
(* has left; and among those who have not, every change is announced.       *)
ListStep(m) ==
    /\ Belongs(m)' => Belongs(m) \/ Announcing'
    /\ Belongs(m) /\ TakesPart(m) => Belongs(m)' \/ TellsEnd(m)' \/ m \in stray'
    /\ Belongs(m) /\ Belongs(m)' =>
          \/ Announcing'
          \/ \A n \in Members \ departed' : n \in members'[Creator] <=> n \in members[Creator]

\* How any step changes the creator's own list.
LEMMA ListStepOk ==
    ASSUME TypeOK, ConstantsAssumption, LeaveInv, [Next]_vars, NEW m \in Members
    PROVE  ListStep(m)
  <1>0. /\ tasks \in [Users -> Seq(Task)] /\ Creator \in Users /\ Members \subseteq Users
        /\ m # Creator /\ GroupType /\ CreatorType /\ Creator \notin Members
    BY Senders DEF TypeOK, QueueType
  <1>a. ASSUME userState'[Creator] = userState[Creator], members'[Creator] = members[Creator]
        PROVE  ListStep(m)
    BY <1>a DEF ListStep, Belongs
  <1>1. ASSUME NEW set \in SUBSET Members, Create(set)
        PROVE  ListStep(m)
    <2>1. userState[Creator] # "member"
      BY <1>1 DEF Create
    <2>2. tasks'[Creator] = <<[kind |-> "update", to |-> {}]>>
      BY <1>0, <1>1 DEF Create
    <2>3. Announcing'
      <3>1. PICK task : task = [kind |-> "update", to |-> {}]
        OBVIOUS
      <3>2. task \in Task /\ task.kind = "update"
        BY <3>1 DEF Task
      <3>3. 1 \in DOMAIN tasks'[Creator] /\ tasks'[Creator][1] = task
        BY <2>2, <3>1
      <3>. QED
        BY <3>2, <3>3 DEF Announcing, Queued, In
    <2>. QED
      BY <2>1, <2>3 DEF ListStep, Belongs
  <1>2. ASSUME NEW set \in SUBSET Members, StartUpdate(set)
        PROVE  ListStep(m)
    BY <1>2, <1>a DEF StartUpdate
  <1>3. CASE LoseUpdate
    BY <1>3, <1>a DEF LoseUpdate
  <1>4. CASE RequestDisband
    BY <1>4, <1>a DEF RequestDisband
  <1>5. CASE AnnouncePartly
    BY <1>5, <1>a DEF AnnouncePartly
  <1>6. CASE CommitUpdate
    <2>1. CASE userState[Creator] # "member"
      BY <1>6, <2>1, <1>a DEF CommitUpdate
    <2>2. CASE userState[Creator] = "member"
      <3>1. PICK task : task = [kind |-> "update", to |-> update.removed]
        OBVIOUS
      <3>2. task \in Task /\ task.kind = "update" /\ task.to = update.removed
        BY <1>0, <3>1 DEF Task, CreatorType, Update
      <3>3. /\ due' = {task} /\ userState' = userState
            /\ members'[Creator] = (members[Creator] \ update.removed) \union update.added
        BY <1>0, <1>6, <2>2, <3>1 DEF CommitUpdate, GroupType
      <3>4. Announcing'
        BY <3>2, <3>3 DEF Announcing, Queued
      <3>5. Belongs(m) => Belongs(m)' \/ TellsEnd(m)'
        BY <3>2, <3>3 DEF Belongs, TellsEnd, Queued
      <3>. QED
        BY <3>4, <3>5 DEF ListStep
    <2>. QED
      BY <2>1, <2>2
  <1>7. CASE ScheduleDue
    BY <1>7, <1>a DEF ScheduleDue
  <1>8. CASE Announce
    BY <1>8, <1>a DEF Announce
  <1>9. CASE BeginHandling
    BY <1>9, <1>a DEF BeginHandling
  <1>10. ASSUME NEW u \in Users, HandleLeave(u)
        PROVE  ListStep(m)
    <2>. DEFINE from == Head(mailbox[u]).from
    <2>1. CASE u # Creator \/ members' = members
      BY <1>0, <1>10, <2>1, <1>a DEF HandleLeave, GroupType
    <2>2. CASE u = Creator /\ members' # members
      <3>1. /\ userState' = userState /\ userState[Creator] = "member"
            /\ members'[Creator] = members[Creator] \ {from}
            /\ stray' = IF Counted(from) THEN stray \union {from} ELSE stray
        BY <1>0, <1>10, <2>2 DEF HandleLeave, GroupType
      <3>2. from \in departed'
        <4>1. mailbox[u] \in Seq(Message) /\ mailbox[u] # <<>> /\ Head(mailbox[u]).kind = "leave"
          BY <1>10 DEF HandleLeave, Handles, TypeOK, QueueType
        <4>2. Head(mailbox[u]) = mailbox[u][1] /\ 1 \in DOMAIN mailbox[u] /\ from \in Members
          BY <4>1, HeadType DEF Message, TypeOK
        <4>3. HoldsLeave(mailbox[u], from)
          BY <4>1, <4>2 DEF HoldsLeave
        <4>. QED
          BY <1>10, <4>2, <4>3 DEF LeaveInv, HandleLeave
      <3>3. TakesPart(from) => Counted(from)
        BY DEF TakesPart, Ends, Counted, LastSetup
      <3>4. Belongs(m)' => Belongs(m)
        BY <3>1 DEF Belongs
      <3>5. Belongs(m) /\ TakesPart(m) => Belongs(m)' \/ m \in stray'
        BY <3>1, <3>3 DEF Belongs
      <3>6. \A n \in Members \ departed' : n \in members'[Creator] <=> n \in members[Creator]
        BY <3>1, <3>2
      <3>. QED
        BY <3>4, <3>5, <3>6 DEF ListStep
    <2>. QED
      BY <2>1, <2>2
  <1>11. ASSUME NEW u \in Users, HandlePost(u)
        PROVE  ListStep(m)
    BY <1>11, <1>a DEF HandlePost
  <1>12. CASE HandleRequest
    BY <1>12, <1>a DEF HandleRequest
  <1>13. ASSUME NEW u \in Members, SendLeave(u)
        PROVE  ListStep(m)
    BY <1>13, <1>a DEF SendLeave
  <1>14. ASSUME NEW u \in Members, HandleSetup(u)
        PROVE  ListStep(m)
    BY <1>0, <1>14, <1>a DEF HandleSetup, GroupType
  <1>15. ASSUME NEW u \in Members, Leave(u)
        PROVE  ListStep(m)
    BY <1>0, <1>15, <1>a DEF Leave, Remove, GroupType
  <1>16. ASSUME NEW u \in Members, SendLeavePartly(u)
        PROVE  ListStep(m)
    BY <1>16, <1>a DEF SendLeavePartly
  <1>17. ASSUME NEW u \in Members, Expire(u)
        PROVE  ListStep(m)
    BY <1>17, <1>a DEF Expire
  <1>18. ASSUME NEW u \in Users, Delete(u)
        PROVE  ListStep(m)
    <2>1. CASE u # Creator
      BY <1>0, <1>18, <2>1, <1>a DEF Delete, Remove, GroupType
    <2>2. CASE u = Creator
      <3>1. userState[Creator] # "member" /\ userState'[Creator] # "member"
        BY <1>0, <1>18, <2>2 DEF Delete, Remove, GroupType
      <3>. QED
        BY <3>1 DEF ListStep, Belongs
    <2>. QED
      BY <2>1, <2>2
  <1>19. ASSUME NEW u \in Users, Post(u)
        PROVE  ListStep(m)
    BY <1>19, <1>a DEF Post
  <1>20. ASSUME NEW u \in Users, Restart(u)
        PROVE  ListStep(m)
    BY <1>20, <1>a DEF Restart
  <1>21. CASE UNCHANGED vars
    BY <1>21, <1>a DEF vars
  <1>22. CASE LoseDisband
    BY <1>22, <1>a DEF LoseDisband
  <1>23. CASE CommitDisband
    <2>1. PICK task : task = [kind |-> "disband", to |-> members[Creator]]
      OBVIOUS
    <2>2. task \in Task /\ task.to = members[Creator]
      BY <1>0, <2>1 DEF Task, GroupType
    <2>3. due' = {task} /\ userState'[Creator] # "member"
      BY <1>0, <1>23, <2>1 DEF CommitDisband, Remove, GroupType
    <2>4. Belongs(m) => TellsEnd(m)'
      BY <2>2, <2>3 DEF Belongs, TellsEnd, Queued
    <2>. QED
      BY <2>3, <2>4 DEF ListStep, Belongs
  <1>24. CASE AnnounceThrows
    BY <1>24, <1>a DEF AnnounceThrows
  <1>. QED
    BY <1>0, <1>1, <1>2, <1>3, <1>4, <1>5, <1>6, <1>7, <1>8, <1>9, <1>10, <1>11, <1>12,
       <1>13, <1>14, <1>15, <1>16, <1>17, <1>18, <1>19, <1>20, <1>21, <1>22, <1>23,
       <1>24
    DEF Next, CreatorStep, MemberStep

-----------------------------------------------------------------------------
(* What is settled *)

(* A device that has forgotten an announcement, or somebody who has         *)
(* departed, stays one.                                                     *)
LEMMA HistoryGrows ==
    ASSUME [Next]_vars
    PROVE  forgotten \subseteq forgotten' /\ departed \subseteq departed'
  <1>1. departed \subseteq departed'
    BY DEF Next, CreatorStep, MemberStep, vars, Create, StartUpdate, LoseUpdate, CommitUpdate,
       RequestDisband, LoseDisband, CommitDisband, ScheduleDue, Announce, AnnounceThrows,
       AnnouncePartly, BeginHandling, HandleLeave,
       HandlePost, HandleRequest, SendLeave, HandleSetup, Leave, SendLeavePartly, Expire,
       Delete, Post, Restart, history
  <1>2. forgotten \subseteq forgotten'
    BY DEF Next, CreatorStep, MemberStep, vars, Create, StartUpdate, LoseUpdate, CommitUpdate,
       RequestDisband, LoseDisband, CommitDisband, ScheduleDue, Announce, AnnounceThrows,
       AnnouncePartly, BeginHandling, HandleLeave,
       HandlePost, HandleRequest, SendLeave, HandleSetup, Leave, SendLeavePartly, Expire,
       Delete, Post, Restart, Handles, history
  <1>. QED
    BY <1>1, <1>2

\* Who takes part at the end belongs to the group, is stray, or will be told.
LEMMA OutsidersStep ==
    ASSUME TypeOK, ConstantsAssumption, DueInv, LeaveInv, OutsidersInv,
           [Next]_vars
    PROVE  OutsidersInv'
  <1>. SUFFICES ASSUME Creator \notin forgotten', NEW m \in Members, m \notin forgotten',
                       TakesPart(m)'
                PROVE  Belongs(m)' \/ m \in stray' \/ TellsEnd(m)'
    BY DEF OutsidersInv
  <1>0. Creator \notin forgotten /\ m \in Members \ forgotten
    BY HistoryGrows
  <1>1. CopyStep(m) /\ PlanStep /\ ListStep(m)
    BY CopyStepOk, PlanStepOk, ListStepOk
  <1>2. CASE Told(m)
    BY <1>2 DEF Told, Belongs
  <1>3. CASE ~Told(m)
    <2>1. /\ m \in stray => m \in stray'
          /\ TakesPart(m)
      BY <1>1, <1>3 DEF CopyStep, Kept, Departs
    <2>2. Belongs(m) \/ m \in stray \/ TellsEnd(m)
      BY <1>0, <2>1 DEF OutsidersInv
    <2>. QED
      BY <1>1, <1>3, <2>1, <2>2 DEF PlanStep, ListStep
  <1>. QED
    BY <1>2, <1>3

\* Who belongs to the group and is not about to be told takes part at the end.
LEMMA InsidersStep ==
    ASSUME TypeOK, ConstantsAssumption, DueInv, LeaveInv, InsidersInv,
           [Next]_vars
    PROVE  InsidersInv'
  <1>. SUFFICES ASSUME Creator \notin forgotten', NEW m \in Members, m \notin forgotten',
                       Belongs(m)', ~Announcing', ~Leaving(m)'
                PROVE  /\ TakesPart(m)'
                       /\ \A n \in Members \ ({m} \union departed') :
                             Lists(m, n)' <=> n \in members'[Creator]
    BY DEF InsidersInv
  <1>0. Creator \notin forgotten /\ m \in Members \ forgotten /\ departed \subseteq departed'
    BY HistoryGrows
  <1>1. CopyStep(m) /\ PlanStep /\ ListStep(m) /\ LeaveFlow(m)
    BY CopyStepOk, PlanStepOk, ListStepOk, LeaveFlowOk
  <1>2. Belongs(m)
    BY <1>1 DEF ListStep
  <1>3. CASE Told(m)
    BY <1>2, <1>3 DEF Told
  <1>4. CASE ~Told(m)
    <2>1. Kept(m)
      BY <1>1, <1>4 DEF CopyStep, Departs
    <2>2. ~Announcing /\ ~Leaving(m)
      BY <1>1, <1>2, <1>4 DEF PlanStep, LeaveFlow
    <2>3. /\ TakesPart(m)
          /\ \A n \in Members \ ({m} \union departed) : Lists(m, n) <=> n \in members[Creator]
      BY <1>0, <1>2, <2>2 DEF InsidersInv
    <2>4. \A n \in Members \ departed' : n \in members'[Creator] <=> n \in members[Creator]
      BY <1>1, <1>2 DEF ListStep
    <2>. QED
      BY <1>0, <2>1, <2>3, <2>4 DEF Kept
  <1>. QED
    BY <1>3, <1>4

\* The four parts together.
LEMMA SettledInvStep ==
    ASSUME TypeOK, ConstantsAssumption, SettledInv, [Next]_vars
    PROVE  SettledInv'
  <1>1. DueInv /\ LeaveInv /\ OutsidersInv /\ InsidersInv
    BY DEF SettledInv
  <1>2. DueInv'
    BY <1>1, PlanStepOk DEF PlanStep
  <1>3. LeaveInv' /\ OutsidersInv' /\ InsidersInv'
    BY <1>1, LeaveInvStep, OutsidersStep, InsidersStep
  <1>. QED
    BY <1>2, <1>3 DEF SettledInv

(* When all is quiet, there is nothing left to be read or to be announced.  *)
LEMMA SettledInvImplies ==
    ASSUME TypeOK, SettledInv
    PROVE  Settled
  <1>. SUFFICES ASSUME Quiet, Creator \notin forgotten, NEW m \in Members \ forgotten
                PROVE  /\ userState[m] = "member" => Belongs(m) \/ m \in stray
                       /\ Belongs(m) =>
                             /\ userState[m] = "member"
                             /\ \A n \in Members \ ({m} \union departed) :
                                   n \in members[m] <=> n \in members[Creator]
    BY DEF Settled
  <1>1. /\ tasks[m] = <<>> /\ mailbox[m] = <<>> /\ tasks[Creator] = <<>>
        /\ mailbox[Creator] = <<>> /\ due = {}
    BY Senders DEF Quiet
  <1>2. NoSetup(mailbox[m]) /\ \A i : ~LastSetup(mailbox[m], i)
    BY <1>1 DEF NoSetup, LastSetup
  <1>3. TakesPart(m) <=> userState[m] = "member"
    BY <1>2 DEF TakesPart, Ends
  <1>4. \A n : Lists(m, n) <=> n \in members[m]
    BY <1>2 DEF Lists, Ends
  <1>5. ~Announcing /\ ~TellsEnd(m) /\ ~Leaving(m)
    BY <1>1 DEF Announcing, TellsEnd, Queued, In, Leaving, HoldsLeave
  <1>. QED
    BY <1>3, <1>4, <1>5 DEF SettledInv, OutsidersInv, InsidersInv

-----------------------------------------------------------------------------
(* The theorems *)

\* The invariant holds initially,
LEMMA Initially ==
    ASSUME ConstantsAssumption, Init
    PROVE  IndInv
  <1>1. GroupType
    BY DEF Init, GroupType
  <1>2. QueueType
    BY DEF Init, QueueType
  <1>3. CreatorType
    BY DEF Init, CreatorType, NoUpdate, Update, NoEnding, Ending
  <1>4. HistoryType
    BY DEF Init, HistoryType
  <1>5. UpdateInv
    BY DEF Init, UpdateInv, NoUpdate
  <1>6. MirrorDiffers
    BY DEF Init, MirrorDiffers, Users
  <1>7. SettledInv
    <2>0. Creator \in Users /\ Members \subseteq Users
      BY Senders
    <2>1. DueInv
      BY DEF Init, DueInv
    <2>2. LeaveInv
      BY <2>0 DEF Init, LeaveInv, HoldsLeave
    <2>3. OutsidersInv
      BY <2>0 DEF Init, OutsidersInv, TakesPart, Ends, LastSetup
    <2>4. InsidersInv
      BY <2>0 DEF Init, InsidersInv, Belongs
    <2>. QED
      BY <2>1, <2>2, <2>3, <2>4 DEF SettledInv
  <1>. QED
    BY <1>1, <1>2, <1>3, <1>4, <1>5, <1>6, <1>7 DEF IndInv, TypeOK

\* and every step keeps it.
LEMMA Step ==
    ASSUME ConstantsAssumption, IndInv, [Next]_vars
    PROVE  IndInv'
  <1>1. TypeOK /\ UpdateInv /\ MirrorDiffers /\ SettledInv
    BY DEF IndInv
  <1>2. TypeOK'
    BY <1>1, GroupStep, TasksStep, BoxStep, CreatorStepType, HistoryStep DEF TypeOK, QueueType
  <1>3. UpdateInv' /\ MirrorDiffers'
    BY <1>1, UpdateStep, MirrorStep
  <1>4. SettledInv'
    BY <1>1, SettledInvStep
  <1>. QED
    BY <1>2, <1>3, <1>4 DEF IndInv

(* The invariant that carries the others holds in every reachable state.    *)
THEOREM Invariance == Spec => []IndInv
  <1>1. Init => IndInv
    BY Initially, ConstantsAssumption
  <1>2. IndInv /\ [Next]_vars => IndInv'
    BY Step, ConstantsAssumption
  <1>. QED
    BY <1>1, <1>2, PTL DEF Spec

(* Every variable of the devices and the chat server keeps its type.        *)
THEOREM TypeCorrect == Spec => []TypeOK
  <1>1. IndInv => TypeOK
    BY DEF IndInv
  <1>. QED
    BY <1>1, Invariance, PTL

(* The other devices of the creator lack no member, and have more only of   *)
(* those who left while a change of the member list was waiting.            *)
THEOREM MirrorDiffersAlways == Spec => []MirrorDiffers
  <1>1. IndInv => MirrorDiffers
    BY DEF IndInv
  <1>. QED
    BY <1>1, Invariance, PTL

(* Whenever all is quiet, everybody who belongs to the group by the         *)
(* creator's list takes himself for a member and agrees with the list, and  *)
(* nobody else does, except somebody whose leave crossed a setup, or whose  *)
(* removal was overtaken by the end of the group.                           *)
THEOREM SettledAlways == Spec => []Settled
  <1>1. IndInv => Settled
    BY SettledInvImplies DEF IndInv
  <1>. QED
    BY <1>1, Invariance, PTL

=============================================================================
