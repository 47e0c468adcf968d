------------------------------- MODULE Groups -------------------------------
(***************************************************************************)
(* The membership of one group: the device of its creator, the devices of  *)
(* the members, and the control messages between them. A setup names the   *)
(* members and comes from the creator only, a leave goes from a member to  *)
(* everybody, a request asks the creator for a setup, and a post stands    *)
(* for any message to the group.                                           *)
(*                                                                         *)
(* A device runs its own tasks before it takes the next message from its   *)
(* mailbox at the chat server, and a message stays there until it has been *)
(* acknowledged: what a lost connection interrupts is done again.          *)
(* The creator's device also has tasks that do not survive a connection:   *)
(* the transactions that reflect a change of the member list, or the end   *)
(* of the group. They are in line with the others.                         *)
(***************************************************************************)
EXTENDS Naturals, Sequences, FiniteSets

CONSTANTS
    Creator,        \* the user who creates the group
    Members,        \* the users who are or can be its members
    MaxUpdates,     \* bound: creation and changes of the member list
    MaxLeaves,      \* bound: members leaving
    MaxPosts,       \* bound: posts to the group
    MaxFailures     \* bound: connections lost at a bad moment, restarts, hours passed

ASSUME ConstantsAssumption ==
    /\ IsFiniteSet(Members) /\ Creator \notin Members
    /\ {MaxUpdates, MaxLeaves, MaxPosts, MaxFailures} \subseteq Nat

Users == Members \union {Creator}

VARIABLES
    userState,      \* what each user is in his own copy of the group
    members,        \* the members each user knows, without himself and the creator
    tasks,          \* persistent tasks of each device, in memory only
    mailbox,        \* messages to each user at the chat server
    \* the device of the creator
    update,         \* the change of the member list that is to be reflected
    ending,         \* the end of the group that is to be reflected
    due,            \* the announcement that a finished transaction will schedule
    handling,       \* it has begun to process the first message of its mailbox
    mirror,         \* the member list its other devices have
    answered,       \* members whose request was answered within the hour
    \* the devices of the members
    requested,      \* members that sent a request within the hour
    \* bounds and history
    updates, leaves, posts, failures,
    forgotten,      \* devices that lost a task in a restart
    unconfirmed,    \* a reflection whose acknowledgement was lost
    raced,          \* members that left while an update was waiting
    departed,       \* members who have ever sent a leave, or are about to
    stray           \* members whose leave crossed a setup that names them, or whose
                    \* removal was overtaken by the end of the group, and to whom
                    \* the creator has not sent a setup since

pending == <<update, ending>>
creatorVars == <<pending, due, handling, mirror>>
recent == <<answered, requested>>
bounds == <<updates, leaves, posts, failures>>
history == <<forgotten, unconfirmed, raced, departed, stray>>
vars == <<userState, members, tasks, mailbox, creatorVars, recent, bounds, history>>

\* The creator lists himself.
SetupNamesCreator(set) ==
    [kind |-> "setup", from |-> Creator, members |-> set \union {Creator}]

Setup(set) == [kind |-> "setup", from |-> Creator, members |-> set]
Sent(kind, u) == [kind |-> kind, from |-> u, members |-> {}]
Message == [kind : {"setup"}, from : {Creator}, members : SUBSET Members]
           \union [kind : {"leave", "request"}, from : Members, members : {{}}]
           \union [kind : {"post"}, from : Users, members : {{}}]

\* An update task knows whom it removes, the others to whom they go.
Task == [kind : {"update", "disband", "leave"}, to : SUBSET Users]

\* A transaction that waits for its turn has some tasks ahead of it.
NoUpdate == [phase |-> "none", behind |-> 0, members |-> {}, added |-> {}, removed |-> {}]
Update == [phase : {"none", "reflecting"}, behind : Nat, members : SUBSET Members,
           added : SUBSET Members, removed : SUBSET Members]
NoEnding == [phase |-> "none", behind |-> 0]
Ending == [phase : {"none", "disband", "disband-and-delete"}, behind : Nat]

Init ==
    /\ userState = [u \in Users |-> "none"]
    /\ members = [u \in Users |-> {}]
    /\ tasks = [u \in Users |-> <<>>]
    /\ mailbox = [u \in Users |-> <<>>]
    /\ update = NoUpdate /\ ending = NoEnding /\ due = {}
    /\ handling = FALSE /\ mirror = {}
    /\ answered = {} /\ requested = {}
    /\ updates = 0 /\ leaves = 0 /\ posts = 0 /\ failures = 0
    /\ forgotten = {} /\ unconfirmed = FALSE /\ raced = {}
    /\ departed = {} /\ stray = {}

\* A member in the creator's eyes.
Belongs(m) == userState[Creator] = "member" /\ m \in members[Creator]

\* Nothing of its own to do: the device may take up something else.
Idle(u) ==
    /\ tasks[u] = <<>>
    /\ u = Creator => /\ update.phase = "none" /\ ending.phase = "none"
                       /\ due = {} /\ ~handling

\* The tasks of the creator that are ahead of one that is scheduled now; other
\* is the other transaction.
Ahead(other) == Len(tasks[Creator]) + (IF other.phase = "none" THEN 0 ELSE 1)

\* A task that was ahead of the transaction is done.
Advance(transaction) ==
    [transaction EXCEPT !.behind = IF @ = 0 THEN 0 ELSE @ - 1]

\* The creator's device has nothing else to run before the transaction.
IsTurn(transaction) ==
    transaction.phase # "none" /\ transaction.behind = 0 /\ ~handling /\ due = {}

\* Every u in to gets the message.
Deliver(box, to, msg) ==
    [u \in Users |-> IF u \in to THEN Append(box[u], msg) ELSE box[u]]

NextTask(u) == tasks' = [tasks EXCEPT ![u] = Tail(@)]

\* The connection is lost: transactions that wait for their turn are given up.
ConnectionLost(u) ==
    /\ failures < MaxFailures /\ failures' = failures + 1
    /\ update' = IF u = Creator THEN NoUpdate ELSE update
    /\ ending' = IF u = Creator THEN NoEnding ELSE ending

\* The group is removed from all devices of the user.
Remove(u) ==
    /\ userState' = [userState EXCEPT ![u] = "none"]
    /\ members' = [members EXCEPT ![u] = {}]
    /\ mirror' = IF u = Creator THEN {} ELSE mirror

-----------------------------------------------------------------------------
(* The creator edits the group *)

\* The group is reflected and stored, the announcement follows at once.
Create(set) ==
    /\ userState[Creator] = "none" /\ updates = 0 /\ Idle(Creator)
    /\ userState' = [userState EXCEPT ![Creator] = "member"]
    /\ members' = [members EXCEPT ![Creator] = set]
    /\ mirror' = set
    /\ tasks' = [tasks EXCEPT ![Creator] = <<[kind |-> "update", to |-> {}]>>]
    /\ updates' = 1
    /\ UNCHANGED <<mailbox, pending, due, handling, recent, leaves, posts, failures,
                   history>>

\* The user edits the member list: what is added and removed is determined
\* now, under the group's lock, and the task that reflects it is scheduled. The
\* lock is free as soon as the change before is stored.
StartUpdate(set) ==
    /\ userState[Creator] = "member" /\ update.phase = "none"
    /\ set # members[Creator]
    /\ updates < MaxUpdates
    /\ updates' = updates + 1
    /\ update' = [phase |-> "reflecting", behind |-> Ahead(ending), members |-> set,
                  added |-> set \ members[Creator], removed |-> members[Creator] \ set]
    /\ UNCHANGED <<userState, members, tasks, mailbox, ending, due, handling, mirror,
                   recent, leaves, posts, failures, history>>

\* The transaction: the whole list goes to the other devices, the difference to
\* the own database, and the announcement of both is to be scheduled. It is given
\* up if the group has been disbanded.
CommitUpdate ==
    /\ IsTurn(update)
    /\ IF userState[Creator] # "member"
       THEN UNCHANGED <<members, mirror, due>>
       ELSE /\ mirror' = update.members
            /\ members' = [members EXCEPT ![Creator] =
                              (@ \ update.removed) \union update.added]
            /\ due' = {[kind |-> "update", to |-> update.removed]}
    /\ update' = NoUpdate /\ ending' = Advance(ending)
    /\ UNCHANGED <<userState, tasks, mailbox, handling, recent, bounds, history>>

\* The connection is lost during the transaction: the volatile task is gone,
\* whether or not the mediator has stored the reflected list.
LoseUpdate ==
    /\ IsTurn(update)
    /\ ConnectionLost(Creator)
    /\ \/ UNCHANGED <<mirror, unconfirmed>>
       \/ mirror' = update.members /\ unconfirmed' = TRUE
    /\ UNCHANGED <<userState, members, tasks, mailbox, due, handling, recent, updates,
                   leaves, posts, forgotten, raced, departed, stray>>

\* Disband the group, and possibly delete it. There is no lock, and no look at a
\* change that is under way.
RequestDisband ==
    /\ userState[Creator] = "member" /\ ending.phase = "none" /\ due = {}
    /\ \E intent \in {"disband", "disband-and-delete"} :
          ending' = [phase |-> intent, behind |-> Ahead(update)]
    /\ UNCHANGED <<userState, members, tasks, mailbox, update, due, handling, mirror,
                   recent, bounds, history>>

\* The transaction: the end of the group is reflected and stored.
CommitDisband ==
    /\ IsTurn(ending)
    /\ due' = {[kind |-> "disband", to |-> members[Creator]]}
    /\ IF ending.phase = "disband"
       THEN /\ userState' = [userState EXCEPT ![Creator] = "left"]
            /\ UNCHANGED <<members, mirror>>
       ELSE Remove(Creator)
    /\ ending' = NoEnding /\ update' = Advance(update)
    /\ UNCHANGED <<tasks, mailbox, handling, recent, bounds, history>>

\* The connection is lost during this one.
LoseDisband ==
    /\ IsTurn(ending)
    /\ ConnectionLost(Creator)
    /\ \/ UNCHANGED <<mirror, unconfirmed>>
       \/ /\ mirror' = IF ending.phase = "disband" THEN mirror ELSE {}
          /\ unconfirmed' = TRUE
    /\ UNCHANGED <<userState, members, tasks, mailbox, due, handling, recent, updates,
                   leaves, posts, forgotten, raced, departed, stray>>

\* The continuation of a transaction schedules the announcement, a few microtasks
\* later, behind whatever has been scheduled meanwhile. A message that was waiting
\* may have been taken up before.
ScheduleDue ==
    /\ \E task \in due : tasks' = [tasks EXCEPT ![Creator] = Append(@, task)]
    /\ due' = {}
    /\ UNCHANGED <<userState, members, mailbox, pending, handling, mirror, recent,
                   bounds, history>>

-----------------------------------------------------------------------------
(* The announcements of the creator *)

\* Whom the first task of the creator sends an empty setup.
Removed ==
    LET task == Head(tasks[Creator]) IN
    IF task.kind = "update" THEN task.to \ members[Creator] ELSE task.to

\* Whom it sends the member list, as it is by now.
Announced == IF Head(tasks[Creator]).kind = "update" THEN members[Creator] ELSE {}

\* An update is only announced while the group is there, the end of a group
\* only when it is not.
Precondition ==
    (Head(tasks[Creator]).kind = "update") = (userState[Creator] = "member")

\* The task of an update looks for the group before all else.
GroupIsThere == Head(tasks[Creator]).kind = "update" => userState[Creator] # "none"

AnnounceTo(receivers) ==
    /\ mailbox' = Deliver(Deliver(mailbox, Announced \intersect receivers,
                                  Setup(members[Creator])),
                          Removed \intersect receivers, Setup({}))
    /\ stray' = stray \ ((Announced \union Removed) \intersect receivers)

\* The creator's device runs its first announcement.
Announces ==
    tasks[Creator] # <<>> /\ ~handling /\ due = {} /\ ~IsTurn(update) /\ ~IsTurn(ending)

\* Without its precondition it is dropped: those whose removal it was to announce
\* are not told by it.
Announce ==
    /\ Announces /\ GroupIsThere
    /\ IF Precondition
       THEN AnnounceTo(Members)
       ELSE stray' = stray \union (Head(tasks[Creator]).to \intersect Members)
            /\ UNCHANGED mailbox
    /\ NextTask(Creator)
    /\ update' = Advance(update) /\ ending' = Advance(ending)
    /\ UNCHANGED <<userState, members, due, handling, mirror, recent, bounds, forgotten,
                   unconfirmed, raced, departed>>

\* The group has been deleted: an assertion fails, the error ends the connection,
\* and the task, still the first, will be run once more, and fail again.
AnnounceThrows ==
    /\ Announces /\ ~GroupIsThere
    /\ update' = NoUpdate /\ ending' = NoEnding
    /\ UNCHANGED <<userState, members, tasks, mailbox, due, handling, mirror, recent,
                   bounds, history>>

\* The task is given up with the connection.
AnnouncePartlyGivesUp ==
    /\ Announces /\ Precondition
    /\ ConnectionLost(Creator) /\ NextTask(Creator)
    /\ \E reached \in SUBSET Members : AnnounceTo(reached)
    /\ UNCHANGED <<userState, members, due, handling, mirror, recent, updates, leaves,
                   posts, forgotten, unconfirmed, raced, departed>>

\* The connection is lost on the way: the task runs again from the start.
AnnouncePartly ==
    /\ Announces /\ Precondition
    /\ ConnectionLost(Creator)
    /\ \E reached \in SUBSET Members : AnnounceTo(reached)
    /\ UNCHANGED <<userState, members, tasks, due, handling, mirror, recent, updates,
                   leaves, posts, forgotten, unconfirmed, raced, departed>>

-----------------------------------------------------------------------------
(* The members *)

\* Leave the group, and possibly delete it: stored, then announced.
Leave(m) ==
    /\ userState[m] = "member" /\ Idle(m)
    /\ leaves < MaxLeaves /\ leaves' = leaves + 1
    /\ tasks' = [tasks EXCEPT ![m] =
                    <<[kind |-> "leave", to |-> members[m] \union {Creator}]>>]
    /\ departed' = departed \union {m}
    /\ \/ userState' = [userState EXCEPT ![m] = "left"] /\ UNCHANGED <<members, mirror>>
       \/ Remove(m)
    /\ UNCHANGED <<mailbox, pending, due, handling, recent, updates, posts, failures,
                   forgotten, unconfirmed, raced, stray>>

\* The leave is sent, whatever became of the group: the precondition of the
\* task looks for a group the user has created.
SendLeave(m) ==
    /\ tasks[m] # <<>>
    /\ mailbox' = Deliver(mailbox, Head(tasks[m]).to, Sent("leave", m))
    /\ NextTask(m)
    /\ UNCHANGED <<userState, members, creatorVars, recent, bounds, history>>

SendLeavePartly(m) ==
    /\ tasks[m] # <<>>
    /\ ConnectionLost(m)
    /\ \E reached \in SUBSET Head(tasks[m]).to :
          mailbox' = Deliver(mailbox, reached, Sent("leave", m))
    /\ UNCHANGED <<userState, members, tasks, due, handling, mirror, recent, updates,
                   leaves, posts, history>>

\* A group that is over is deleted.
Delete(u) ==
    /\ userState[u] \in {"left", "kicked"} /\ Idle(u)
    /\ Remove(u)
    /\ UNCHANGED <<tasks, mailbox, pending, due, handling, recent, bounds, history>>

\* Send a message to the group.
Post(u) ==
    /\ userState[u] = "member" /\ Idle(u)
    /\ posts < MaxPosts /\ posts' = posts + 1
    /\ mailbox' = Deliver(mailbox, (members[u] \union {Creator}) \ {u}, Sent("post", u))
    /\ UNCHANGED <<userState, members, tasks, creatorVars, recent, updates, leaves,
                   failures, history>>

-----------------------------------------------------------------------------
(* Incoming messages *)

\* The creator's device takes up the next message: it has no task, but some may
\* be scheduled before it is done with the message.
BeginHandling ==
    /\ tasks[Creator] = <<>> /\ update.phase = "none" /\ ending.phase = "none"
    /\ ~handling /\ mailbox[Creator] # <<>>
    /\ handling' = TRUE
    /\ UNCHANGED <<userState, members, tasks, mailbox, pending, due, mirror, recent,
                   bounds, history>>

\* u is about to finish the message. It is acknowledged and gone, or the
\* connection is lost before and it will be delivered once more.
Handles(u, kind) ==
    /\ IF u = Creator THEN handling /\ due = {} ELSE tasks[u] = <<>>
    /\ mailbox[u] # <<>> /\ Head(mailbox[u]).kind = kind
    /\ handling' = IF u = Creator THEN FALSE ELSE handling
    /\ UNCHANGED <<tasks, due, updates, leaves, posts, forgotten>>

\* The mailboxes after u is done, having sent msg to the users of to.
Reply(u, to, msg) ==
    \/ /\ mailbox' = Deliver([mailbox EXCEPT ![u] = Tail(@)], to, msg)
       /\ UNCHANGED <<pending, failures>>
    \/ /\ ConnectionLost(u)
       /\ mailbox' = Deliver(mailbox, to, msg)

Done(u) == Reply(u, {}, Setup({}))

\* IncomingGroupSetupTask
HandleSetup(m) ==
    /\ Handles(m, "setup")
    /\ LET list == Head(mailbox[m]).members IN
       IF m \in list
       THEN /\ userState' = [userState EXCEPT ![m] = "member"]
            /\ members' = [members EXCEPT ![m] = list \ {m}]
       ELSE /\ userState' = [userState EXCEPT ![m] = IF @ = "member" THEN "kicked" ELSE @]
            /\ UNCHANGED members
    /\ Done(m)
    /\ UNCHANGED <<mirror, recent, unconfirmed, raced, departed, stray>>

\* sendGroupSyncRequestSteps: at most once an hour, and marked when it is sent.
\* The connection may be lost in between.
RequestSync(m) ==
    IF m \in requested
    THEN Done(m) /\ UNCHANGED requested
    ELSE \/ Reply(m, {Creator}, Sent("request", m)) /\ requested' = requested \union {m}
         \/ /\ ConnectionLost(m)
            /\ mailbox' = Deliver(mailbox, {Creator}, Sent("request", m))
            /\ UNCHANGED requested

ReflectedBefore(m) == members[Creator]

\* The member list that is reflected when m leaves.
ReflectedWithout(m) == members[Creator] \ {m}

\* m takes himself for a member, or will when he reads what is sent to him.
Counted(m) ==
    \/ userState[m] = "member"
    \/ \E i \in DOMAIN mailbox[m] :
          mailbox[m][i].kind = "setup" /\ m \in mailbox[m][i].members

\* IncomingGroupLeaveTask. The connection may be lost after the creator's device
\* has reflected the leave, and before it has removed the member.
HandleLeave(u) ==
    /\ Handles(u, "leave")
    /\ LET m == Head(mailbox[u]).from IN
       \/ /\ userState[u] # "member"
          /\ IF u = Creator THEN Done(u) /\ UNCHANGED requested ELSE RequestSync(u)
          /\ UNCHANGED <<members, mirror, raced, unconfirmed, stray>>
       \/ /\ userState[u] = "member" /\ m \notin members[u]
          /\ Done(u)
          /\ UNCHANGED <<members, mirror, raced, requested, unconfirmed, stray>>
       \/ /\ userState[u] = "member" /\ m \in members[u]
          /\ members' = [members EXCEPT ![u] = @ \ {m}]
          /\ mirror' = IF u = Creator THEN ReflectedWithout(m) ELSE mirror
          /\ raced' = IF u = Creator /\ update.phase = "reflecting"
                      THEN raced \union {m} ELSE raced
          /\ stray' = IF u = Creator /\ Counted(m) THEN stray \union {m} ELSE stray
          /\ Done(u)
          /\ UNCHANGED <<requested, unconfirmed>>
       \/ /\ u = Creator /\ Belongs(m)
          /\ ConnectionLost(u)
          /\ mirror' = ReflectedWithout(m) /\ unconfirmed' = TRUE
          /\ UNCHANGED <<members, mailbox, raced, requested, stray>>
    /\ UNCHANGED <<userState, answered, departed>>

\* commonGroupReceiveSteps
HandlePost(u) ==
    /\ Handles(u, "post")
    /\ LET from == Head(mailbox[u]).from
           known == from \in members[u] \union {Creator} IN
       \/ /\ u = Creator
          /\ IF userState[u] \in {"left", "kicked"} \/ (userState[u] = "member" /\ ~known)
             THEN Reply(u, {from}, Setup({})) /\ stray' = stray \ {from}
             ELSE Done(u) /\ UNCHANGED stray
          /\ UNCHANGED <<requested, departed>>
       \/ /\ u # Creator /\ userState[u] \in {"left", "kicked"}
          /\ Reply(u, {from}, Sent("leave", u))
          /\ departed' = departed \union {u}
          /\ UNCHANGED <<requested, stray>>
       \/ /\ u # Creator /\ (userState[u] = "none" \/ (userState[u] = "member" /\ ~known))
          /\ RequestSync(u)
          /\ UNCHANGED <<departed, stray>>
       \/ /\ u # Creator /\ userState[u] = "member" /\ known
          /\ Done(u)
          /\ UNCHANGED <<requested, departed, stray>>
    /\ UNCHANGED <<userState, members, mirror, answered, unconfirmed, raced>>

\* IncomingGroupSyncRequestTask: one answer per member and hour. The member is
\* marked as answered before the answer is sent; when the connection is lost
\* in between, the request that comes again is not answered any more.
HandleRequest ==
    /\ Handles(Creator, "request")
    /\ LET m == Head(mailbox[Creator]).from IN
       IF userState[Creator] = "none" \/ m \in answered
       THEN Done(Creator) /\ UNCHANGED <<answered, stray>>
       ELSE /\ answered' = answered \union {m}
            /\ \/ /\ Reply(Creator, {m}, Setup(IF Belongs(m) THEN members[Creator] ELSE {}))
                  /\ stray' = stray \ {m}
               \/ ConnectionLost(Creator) /\ UNCHANGED <<mailbox, stray>>
    /\ UNCHANGED <<userState, members, mirror, requested, unconfirmed, raced, departed>>

\* An hour passes.
Expire(m) ==
    /\ failures < MaxFailures /\ failures' = failures + 1
    /\ m \in answered \union requested
    /\ \/ answered' = answered \ {m} /\ UNCHANGED requested
       \/ requested' = requested \ {m} /\ UNCHANGED answered
    /\ UNCHANGED <<userState, members, tasks, mailbox, creatorVars, updates,
                   leaves, posts, history>>

\* A restart: tasks, timers and transactions that are under way are forgotten.
Restart(u) ==
    /\ failures < MaxFailures /\ failures' = failures + 1
    /\ tasks[u] # <<>> \/ (u = Creator /\ ~Idle(u))
    /\ tasks' = [tasks EXCEPT ![u] = <<>>]
    /\ forgotten' = IF tasks[u] # <<>> \/ (u = Creator /\ due # {})
                    THEN forgotten \union {u} ELSE forgotten
    /\ IF u = Creator
       THEN /\ update' = NoUpdate /\ ending' = NoEnding /\ due' = {}
            /\ handling' = FALSE /\ answered' = {} /\ UNCHANGED requested
       ELSE requested' = requested \ {u} /\ UNCHANGED <<pending, due, handling, answered>>
    /\ UNCHANGED <<userState, members, mailbox, mirror, updates, leaves, posts,
                   unconfirmed, raced, departed, stray>>

-----------------------------------------------------------------------------
CreatorStep ==
    \/ CommitUpdate \/ CommitDisband \/ ScheduleDue \/ Announce \/ AnnounceThrows
    \/ BeginHandling
    \/ HandleLeave(Creator) \/ HandlePost(Creator) \/ HandleRequest

MemberStep(m) == SendLeave(m) \/ HandleSetup(m) \/ HandleLeave(m) \/ HandlePost(m)

Next ==
    \/ \E set \in SUBSET Members : Create(set) \/ StartUpdate(set)
    \/ LoseUpdate \/ RequestDisband \/ LoseDisband \/ AnnouncePartly
    \/ CreatorStep
    \/ \E m \in Members : MemberStep(m) \/ Leave(m) \/ SendLeavePartly(m) \/ Expire(m)
    \/ \E u \in Users : Delete(u) \/ Post(u) \/ Restart(u)

Spec == Init /\ [][Next]_vars

-----------------------------------------------------------------------------
(* Properties *)

GroupType ==
    /\ userState \in [Users -> {"none", "member", "left", "kicked"}]
    /\ members \in [Users -> SUBSET Members]

QueueType ==
    /\ tasks \in [Users -> Seq(Task)]
    /\ mailbox \in [Users -> Seq(Message)]

CreatorType ==
    /\ update \in Update /\ ending \in Ending /\ due \subseteq Task
    /\ handling \in BOOLEAN
    /\ mirror \subseteq Members

HistoryType ==
    /\ updates \in Nat /\ leaves \in Nat /\ posts \in Nat /\ failures \in Nat
    /\ answered \subseteq Members /\ requested \subseteq Members
    /\ forgotten \subseteq Users /\ unconfirmed \in BOOLEAN
    /\ raced \subseteq Members /\ stray \subseteq Members /\ departed \subseteq Members

\* Every variable has its type.
TypeOK == GroupType /\ QueueType /\ CreatorType /\ HistoryType

Quiet ==
    /\ \A u \in Users : tasks[u] = <<>> /\ mailbox[u] = <<>>
    /\ update = NoUpdate /\ ending = NoEnding /\ due = {}

\* What the group is settled on once all is quiet, as long as no device has lost
\* an announcement in a restart. Whoever belongs to the group by the creator's
\* list takes himself for a member. Nobody else does, except somebody whose leave
\* crossed a setup that named him, or whose removal was not announced because
\* the group was disbanded meanwhile, until the creator has sent him a setup again.
\* And on those who have never sent a leave, the members agree with the creator.
Settled ==
    Quiet /\ Creator \notin forgotten =>
        \A m \in Members \ forgotten :
            /\ userState[m] = "member" => Belongs(m) \/ m \in stray
            /\ Belongs(m) =>
                  /\ userState[m] = "member"
                  /\ \A n \in Members \ ({m} \union departed) :
                        n \in members[m] <=> n \in members[Creator]

\* The other devices of the creator never lack a member that this one has; they
\* have more only of those whose leave was processed while a change of the list,
\* computed before, waited for its transaction. (Unless the acknowledgement of a
\* reflected list was lost.)
MirrorDiffers ==
    ~unconfirmed => /\ members[Creator] \subseteq mirror
                    /\ mirror \ members[Creator] \subseteq raced

=============================================================================
