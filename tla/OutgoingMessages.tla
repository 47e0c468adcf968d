-------------------------- MODULE OutgoingMessages --------------------------
(***************************************************************************)
(* Outgoing conversation messages of a group: the persistent task of each  *)
(* message, and the task it is composed of that addresses the members,     *)
(* distributes the user's profile picture, reflects everything to the      *)
(* other devices, sends it to the chat server member by member and         *)
(* reflects that the message is sent. A lost connection ends the run       *)
(* anywhere, and the next connection runs the task again from the start;   *)
(* what the run has written to the persistent protocol state stays.        *)
(***************************************************************************)
EXTENDS Naturals, Sequences, SequencesExt, FiniteSets

CONSTANTS
    Contacts,       \* the contacts that are or can be members of the group
    Messages,       \* the messages the user writes
    Omits,          \* Omits[m]: contacts a message is not sent to (`omit`)
    MaxBlobs,       \* bound: blobs told apart at the same time
    MaxFailures,    \* bound: connections lost and restarts
    MaxChanges      \* bound: changes of the group, of settings and of pictures

ASSUME ConstantsAssumption ==
    /\ IsFiniteSet(Contacts)
    /\ Omits \in [Messages -> SUBSET Contacts]
    /\ MaxBlobs \in Nat /\ MaxBlobs > Cardinality(Contacts) + 2
    /\ MaxFailures \in Nat /\ MaxChanges \in Nat

\* Values of the distribution cache next to the blob IDs 1 .. MaxBlobs.
NoEntry == 0
Removed == MaxBlobs + 1
CacheValues == 0 .. MaxBlobs + 1
\* Pictures are numbered like the changes that brought them in, the one the user
\* has at first comes last.
NoPicture == 0
FirstPicture == MaxChanges + 1
Pictures == 0 .. MaxChanges + 1

VARIABLES
    \* the device
    queue,          \* the persistent tasks, the first one runs
    written,        \* the messages in the order the user wrote them
    members,        \* members of the group
    blocked,        \* contacts the user blocks
    sharedWith,     \* contacts the user shares the profile picture with
    profile,        \* the profile settings' picture, its blob, and whether that is too old
    cache,          \* persistent protocol state: last distribution per contact
    contentOf,      \* the picture behind each blob
    sentAt,         \* messages marked as sent
    \* the run of the first task
    connected,
    phase,          \* where the run is
    pending,        \* receivers the message is still to be sent to
    nonces,         \* prepared nonces left
    uploading,      \* a picture, the receivers whose turn needs an upload of it, and
                    \* the blob ID that the messages carry (`set`)
    pics,           \* profile picture messages to send
    awaited,        \* the message written last, until its acknowledgement is read
    ghost,          \* a run that outlived its connection and waits for an upload
    \* the servers and the receivers
    mirrored,       \* messages the mediator has stored
    inbox,          \* messages each contact has got, in order of their arrival
    pictureAt,      \* the profile picture each contact has got last
    \* bounds and history
    failures, changes,
    addressed,      \* whom the last run of each message addressed
    lost            \* contacts whose picture message was given up after its caching

settings == <<members, blocked, sharedWith>>
protocolState == <<profile, cache, contentOf>>
run == <<connected, phase, pending, nonces, uploading, pics, awaited>>
servers == <<mirrored, inbox, pictureAt>>
history == <<addressed, lost>>
vars == <<queue, written, settings, protocolState, sentAt, run, ghost, servers,
          failures, changes, history>>

NoUpload == [to |-> {}, picture |-> NoPicture, blob |-> NoEntry]
NotAwaited == [state |-> "no"]

Init ==
    /\ queue = <<>> /\ written = <<>>
    /\ members = Contacts /\ blocked = {} /\ sharedWith = Contacts
    /\ profile = [picture |-> FirstPicture, blob |-> 1, expired |-> FALSE]
    /\ cache = [c \in Contacts |-> NoEntry]
    /\ contentOf = [b \in 1 .. MaxBlobs |-> IF b = 1 THEN FirstPicture ELSE NoPicture]
    /\ sentAt = {}
    /\ connected = FALSE /\ phase = "idle"
    /\ pending = {} /\ nonces = 0 /\ uploading = NoUpload /\ pics = {}
    /\ awaited = NotAwaited
    /\ ghost = NoUpload
    /\ mirrored = {}
    /\ inbox = [c \in Contacts |-> <<>>]
    /\ pictureAt = [c \in Contacts |-> NoPicture]
    /\ failures = 0 /\ changes = 0
    /\ addressed = [m \in Messages |-> {}] /\ lost = {}

Changes == changes < MaxChanges /\ changes' = changes + 1
Fails == failures < MaxFailures /\ failures' = failures + 1
-----------------------------------------------------------------------------
(* The user *)

\* addMessage.fromLocal: the message is added and its task scheduled.
WriteMessage ==
    /\ \E m \in Messages \ ToSet(written) :
        /\ written' = Append(written, m)
        /\ queue' = Append(queue, m)
    /\ UNCHANGED <<settings, protocolState, sentAt, run, ghost, servers, failures,
                   changes, history>>

\* Members come and go, contacts are blocked, the picture is shared with others.
ChangeSettings ==
    /\ Changes
    /\ \E c \in Contacts :
        \/ /\ members' = IF c \in members THEN members \ {c} ELSE members \cup {c}
           /\ UNCHANGED <<blocked, sharedWith>>
        \/ /\ blocked' = blocked \cup {c}
           /\ UNCHANGED <<members, sharedWith>>
        \/ /\ sharedWith' = sharedWith \ {c}
           /\ UNCHANGED <<members, blocked>>
    /\ UNCHANGED <<queue, written, protocolState, sentAt, run, ghost, servers,
                   failures, history>>

\* A blob ID that neither the profile nor the cache nor a message holds any more.
FreshBlob == CHOOSE b \in 1 .. MaxBlobs :
                b \notin {profile.blob, uploading.blob} /\ \A c \in Contacts : cache[c] # b

\* A picture of the user becomes the profile's with a blob of its own, or is
\* removed. Both are tasks of their own, so they take effect between two runs.
SetPicture ==
    /\ connected /\ phase = "idle"
    /\ Changes
    /\ contentOf' = [contentOf EXCEPT ![FreshBlob] = changes']
    /\ profile' = [picture |-> changes', blob |-> FreshBlob, expired |-> FALSE]
    /\ UNCHANGED <<queue, written, settings, cache, sentAt, run, ghost, servers,
                   failures, history>>

RemovePicture ==
    /\ connected /\ phase = "idle" /\ profile.picture # NoPicture
    /\ Changes
    /\ profile' = [picture |-> NoPicture, blob |-> NoEntry, expired |-> FALSE]
    /\ UNCHANGED <<queue, written, settings, cache, contentOf, sentAt, run,
                   ghost, servers, failures, history>>

\* Seven days later: the blob is to be uploaded again, a cache entry is dropped.
Expire ==
    /\ Changes
    /\ \/ /\ profile.picture # NoPicture
          /\ profile' = [profile EXCEPT !.expired = TRUE]
          /\ UNCHANGED cache
       \/ /\ \E c \in Contacts : cache' = [cache EXCEPT ![c] = NoEntry]
          /\ UNCHANGED profile
    /\ UNCHANGED <<queue, written, settings, contentOf, sentAt, run, ghost,
                   servers, failures, history>>
-----------------------------------------------------------------------------
(* A run: receivers and profile pictures *)

Message == Head(queue)

\* profilePictureDistributionSteps up to its first upload. A contact the picture
\* is not shared with is to remove it, any other is to get it, unless the cache
\* says that the contact was told so before. The cache is updated at once.
Distribute(receivers) ==
    LET granted == IF profile.picture = NoPicture THEN {} ELSE receivers \cap sharedWith
        removes == {c \in receivers \ granted : cache[c] # Removed}
        sets == IF profile.expired THEN {}
                ELSE {c \in granted : cache[c] # profile.blob}
    IN  /\ cache' = [c \in Contacts |-> IF c \in removes THEN Removed
                                        ELSE IF c \in sets THEN profile.blob
                                        ELSE cache[c]]
        /\ pics' = {[to |-> c, removes |-> TRUE] : c \in removes}
                     \cup {[to |-> c, removes |-> FALSE] : c \in sets}
        /\ uploading' = [to |-> IF profile.expired THEN granted ELSE {},
                         picture |-> profile.picture,
                         blob |-> IF sets = {} THEN NoEntry ELSE profile.blob]

\* A nonce taken back twice for a member that is blocked.
StartRunPopsTwice ==
    /\ connected /\ phase = "idle" /\ queue # <<>>
    /\ pending' = members \ blocked
    /\ nonces' = Cardinality(members \ blocked) - Cardinality(members \cap blocked)
    /\ addressed' = [addressed EXCEPT ![Message] = (members \ blocked) \ Omits[Message]]
    /\ Distribute(members \ blocked)
    /\ phase' = IF uploading'.to = {} THEN "reflect" ELSE "upload"
    /\ UNCHANGED <<queue, written, settings, profile, contentOf, sentAt,
                   connected, awaited, ghost, servers, failures, changes, lost>>

\* The task starts or, after a lost connection, starts again: members that are
\* blocked are no receivers, and a nonce is prepared for every receiver.
StartRun ==
    /\ connected /\ phase = "idle" /\ queue # <<>>
    /\ LET receivers == members \ blocked IN
        /\ pending' = receivers
        /\ nonces' = Cardinality(members) - Cardinality(members \cap blocked)
        /\ addressed' = [addressed EXCEPT ![Message] = receivers \ Omits[Message]]
        /\ Distribute(receivers)
    /\ phase' = IF uploading'.to = {} THEN "reflect" ELSE "upload"
    /\ UNCHANGED <<queue, written, settings, profile, contentOf, sentAt,
                   connected, awaited, ghost, servers, failures, changes, lost>>

\* The upload for one receiver: a new blob for the picture the run has read
\* before its first upload.
Uploaded(c, picture) ==
    /\ contentOf' = [contentOf EXCEPT ![FreshBlob] = picture]
    /\ profile' = [picture |-> picture, blob |-> FreshBlob, expired |-> FALSE]
    /\ cache' = [cache EXCEPT ![c] = FreshBlob]

\* All messages carry the blob ID of the first upload (`set ??=`), although the
\* cache has for each receiver the one of its own.
FirstBlob == IF uploading.blob = NoEntry THEN FreshBlob ELSE uploading.blob

\* Only the first contact the picture is uploaded for is added to the message.
UploadForFirst ==
    /\ connected /\ phase = "upload"
    /\ \E c \in uploading.to :
        /\ Uploaded(c, uploading.picture)
        /\ uploading' = [uploading EXCEPT !.to = @ \ {c}, !.blob = FirstBlob]
        /\ pics' = IF \E p \in pics : ~p.removes THEN pics
                   ELSE pics \cup {[to |-> c, removes |-> FALSE]}
        /\ phase' = IF uploading.to = {c} THEN "reflect" ELSE "upload"
    /\ UNCHANGED <<queue, written, settings, sentAt, connected, pending, nonces,
                   awaited, ghost, servers, failures, changes, history>>

\* After the last one the loop goes on to the profile picture messages, which
\* it does not send to a contact the user has blocked meanwhile.
UploadPicture ==
    /\ connected /\ phase = "upload"
    /\ \E c \in uploading.to :
        LET all == pics \cup {[to |-> c, removes |-> FALSE]}
            done == uploading.to = {c}
        IN  /\ Uploaded(c, uploading.picture)
            /\ uploading' = [uploading EXCEPT !.to = @ \ {c}, !.blob = FirstBlob]
            /\ pics' = {p \in all : done => p.to \notin blocked}
            /\ lost' = lost \cup {p.to : p \in all \ pics'}
            /\ phase' = IF done THEN "reflect" ELSE "upload"
    /\ UNCHANGED <<queue, written, settings, sentAt, connected, pending, nonces,
                   awaited, ghost, servers, failures, changes, addressed>>

\* A run whose connection is gone still gets its uploads, and records them,
\* before its next use of the connection ends it.
GhostUploads ==
    /\ \E c \in ghost.to :
        /\ Uploaded(c, ghost.picture)
        /\ ghost' = [ghost EXCEPT !.to = @ \ {c}]
        /\ lost' = lost \cup {c}
    /\ UNCHANGED <<queue, written, settings, sentAt, run, servers, failures, changes,
                   addressed>>
-----------------------------------------------------------------------------
(* A run: reflecting and sending *)

\* The message and the profile picture messages are reflected in one batch.
MirrorMessages ==
    /\ connected /\ phase = "reflect"
    /\ mirrored' = mirrored \cup {Message}
    /\ phase' = "reflected"
    /\ UNCHANGED <<queue, written, settings, protocolState, sentAt, connected,
                   pending, nonces, uploading, pics, awaited, ghost, inbox,
                   pictureAt, failures, changes, history>>

ReadReflectAcks ==
    /\ connected /\ phase = "reflected"
    /\ phase' = "send"
    /\ UNCHANGED <<queue, written, settings, protocolState, sentAt, connected,
                   pending, nonces, uploading, pics, awaited, ghost, servers,
                   failures, changes, history>>

\* A receiver left out, and the nonce prepared for it kept.
OmitKeepsNonce ==
    /\ connected /\ phase = "send" /\ awaited = NotAwaited
    /\ \E c \in pending \cap Omits[Message] : pending' = pending \ {c}
    /\ UNCHANGED <<queue, written, settings, protocolState, sentAt, connected, phase,
                   nonces, uploading, pics, awaited, ghost, servers, failures,
                   changes, history>>

\* A receiver that omits the message uses up a nonce all the same.
OmitReceiver ==
    /\ connected /\ phase = "send" /\ awaited = NotAwaited
    /\ \E c \in pending \cap Omits[Message] : pending' = pending \ {c}
    /\ nonces' = nonces - 1
    /\ UNCHANGED <<queue, written, settings, protocolState, sentAt, connected, phase,
                   uploading, pics, awaited, ghost, servers, failures, changes,
                   history>>

SendToReceiver ==
    /\ connected /\ phase = "send" /\ awaited = NotAwaited
    /\ \E c \in pending \ Omits[Message] :
        /\ awaited' = [state |-> "written", to |-> c, removes |-> FALSE, main |-> TRUE]
        /\ pending' = pending \ {c}
    /\ nonces' = nonces - 1
    /\ UNCHANGED <<queue, written, settings, protocolState, sentAt, connected, phase,
                   uploading, pics, ghost, servers, failures, changes, history>>

\* The profile picture messages come after the message, when its nonces are used.
SendPicture ==
    /\ connected /\ phase = "send" /\ awaited = NotAwaited
    /\ pending = {} /\ nonces = 0
    /\ \E p \in pics :
        /\ awaited' = [state |-> "written", to |-> p.to, removes |-> p.removes,
                       main |-> FALSE]
        /\ pics' = pics \ {p}
    /\ UNCHANGED <<queue, written, settings, protocolState, sentAt, connected, phase,
                   pending, nonces, uploading, ghost, servers, failures, changes,
                   history>>

\* The picture that a message gives to its receiver.
Conveyed(removes) == IF removes THEN NoPicture ELSE contentOf[uploading.blob]

\* The chat server queues the message for its receiver, who keeps the first of
\* several copies of a conversation message, and acknowledges it.
ChatServerStores ==
    /\ connected /\ awaited.state = "written"
    /\ IF awaited.main
       THEN /\ inbox' = IF Message \in ToSet(inbox[awaited.to]) THEN inbox
                        ELSE [inbox EXCEPT ![awaited.to] = Append(@, Message)]
            /\ UNCHANGED <<pictureAt, lost>>
       ELSE /\ pictureAt' = [pictureAt EXCEPT ![awaited.to] = Conveyed(awaited.removes)]
            /\ lost' = IF cache[awaited.to] = NoEntry THEN lost
                       ELSE lost \ {c \in {awaited.to} :
                                IF cache[c] = Removed THEN awaited.removes
                                ELSE contentOf[cache[c]] = Conveyed(awaited.removes)}
            /\ UNCHANGED inbox
    /\ awaited' = [awaited EXCEPT !.state = "stored"]
    /\ UNCHANGED <<queue, written, settings, protocolState, sentAt, connected, phase,
                   pending, nonces, uploading, pics, ghost, mirrored, failures,
                   changes, addressed>>

\* A read that accepts no acknowledgement but the conversation message's.
ReadMainAck ==
    /\ connected /\ awaited.state = "stored" /\ awaited.main
    /\ awaited' = NotAwaited
    /\ UNCHANGED <<queue, written, settings, protocolState, sentAt, connected, phase,
                   pending, nonces, uploading, pics, ghost, servers, failures,
                   changes, history>>

ReadMessageAck ==
    /\ connected /\ awaited.state = "stored"
    /\ awaited' = NotAwaited
    /\ UNCHANGED <<queue, written, settings, protocolState, sentAt, connected, phase,
                   pending, nonces, uploading, pics, ghost, servers, failures,
                   changes, history>>

\* The last acknowledgement is not waited for.
MirrorSentUnacked ==
    /\ connected /\ phase = "send"
    /\ pending = {} /\ nonces = 0 /\ pics = {}
    /\ phase' = "sent"
    /\ UNCHANGED <<queue, written, settings, protocolState, sentAt, connected,
                   pending, nonces, uploading, pics, awaited, ghost, servers,
                   failures, changes, history>>

\* Everything is acknowledged: that the message is sent is reflected.
MirrorSent ==
    /\ connected /\ phase = "send" /\ awaited = NotAwaited
    /\ pending = {} /\ nonces = 0 /\ pics = {}
    /\ phase' = "sent"
    /\ UNCHANGED <<queue, written, settings, protocolState, sentAt, connected,
                   pending, nonces, uploading, pics, awaited, ghost, servers,
                   failures, changes, history>>

\* Its acknowledgement marks the message as sent and ends the task.
FinishRun ==
    /\ connected /\ phase = "sent"
    /\ sentAt' = sentAt \cup {Message}
    /\ queue' = Tail(queue)
    /\ phase' = "idle"
    /\ UNCHANGED <<written, settings, protocolState, connected, pending, nonces,
                   uploading, pics, awaited, ghost, servers, failures, changes,
                   history>>
-----------------------------------------------------------------------------
(* Connections and restarts *)

Connect ==
    /\ ~connected
    /\ connected' = TRUE
    /\ UNCHANGED <<queue, written, settings, protocolState, sentAt, phase, pending,
                   nonces, uploading, pics, awaited, ghost, servers, failures,
                   changes, history>>

\* Contacts that were to be told about the picture and have not been.
Untold == {p.to : p \in pics}
            \cup IF awaited.state = "written" /\ ~awaited.main
                 THEN {awaited.to} ELSE {}

\* The run ends where it is; the task stays first in the queue. A run in the
\* middle of an upload is not interrupted (one such run is modelled at a time).
EndRun ==
    /\ connected' = FALSE
    /\ phase' = "idle" /\ pending' = {} /\ nonces' = 0
    /\ uploading' = NoUpload /\ pics' = {} /\ awaited' = NotAwaited
    /\ lost' = lost \cup Untold

\* The interrupted task goes behind the others.
LoseTurn ==
    /\ connected
    /\ Fails
    /\ phase = "upload" => ghost.to = {}
    /\ EndRun
    /\ ghost' = IF phase = "upload" THEN uploading ELSE ghost
    /\ queue' = IF queue = <<>> THEN queue ELSE Append(Tail(queue), Message)
    /\ UNCHANGED <<written, settings, protocolState, sentAt, servers, changes,
                   addressed>>

LoseConnection ==
    /\ connected
    /\ Fails
    /\ phase = "upload" => ghost.to = {}
    /\ EndRun
    /\ ghost' = IF phase = "upload" THEN uploading ELSE ghost
    /\ UNCHANGED <<queue, written, settings, protocolState, sentAt, servers, changes,
                   addressed>>

\* The queue of the task manager is in memory only.
Restart ==
    /\ Fails
    /\ EndRun
    /\ queue' = <<>> /\ ghost' = NoUpload
    /\ UNCHANGED <<written, settings, protocolState, sentAt, servers, changes,
                   addressed>>
-----------------------------------------------------------------------------
Sending == OmitReceiver \/ SendToReceiver \/ SendPicture \/ ReadMessageAck
Running == StartRun \/ UploadPicture \/ ReadReflectAcks \/ Sending \/ MirrorSent
             \/ FinishRun
Servers == MirrorMessages \/ ChatServerStores
User == WriteMessage \/ ChangeSettings \/ SetPicture \/ RemovePicture

Next == User \/ Expire \/ Running \/ GhostUploads \/ Servers \/ Connect
          \/ LoseConnection \/ Restart

Spec == Init /\ [][Next]_vars

\* The task manager runs what it has, the servers answer, the loop reconnects.
FairSpec == Spec /\ WF_vars(Running) /\ WF_vars(Servers) /\ WF_vars(Connect)
-----------------------------------------------------------------------------
(* Properties *)

TypeOK ==
    /\ queue \in Seq(Messages) /\ written \in Seq(Messages)
    /\ members \subseteq Contacts /\ blocked \subseteq Contacts
    /\ sharedWith \subseteq Contacts
    /\ profile \in [picture : Pictures, blob : 0 .. MaxBlobs, expired : BOOLEAN]
    /\ cache \in [Contacts -> CacheValues]
    /\ contentOf \in [1 .. MaxBlobs -> Pictures]
    /\ sentAt \subseteq Messages
    /\ connected \in BOOLEAN
    /\ phase \in {"idle", "upload", "reflect", "reflected", "send", "sent"}
    /\ pending \subseteq Contacts /\ nonces \in Nat
    /\ uploading \in [to : SUBSET Contacts, picture : Pictures, blob : 0 .. MaxBlobs]
    /\ pics \subseteq [to : Contacts, removes : BOOLEAN]
    /\ awaited \in [state : {"written", "stored"}, to : Contacts,
                    removes : BOOLEAN, main : BOOLEAN] \cup {NotAwaited}
    /\ ghost \in [to : SUBSET Contacts, picture : Pictures, blob : 0 .. MaxBlobs]
    /\ mirrored \subseteq Messages
    /\ inbox \in [Contacts -> Seq(Messages)]
    /\ pictureAt \in [Contacts -> Pictures]
    /\ failures \in 0 .. MaxFailures /\ changes \in 0 .. MaxChanges
    /\ addressed \in [Messages -> SUBSET Contacts] /\ lost \subseteq Contacts

\* A message is marked as sent only when the other devices have it and the chat
\* server has it for everyone its last run addressed; and no contact ever gets a
\* message the other devices do not have.
SentMeansStored ==
    /\ \A m \in sentAt : \A c \in addressed[m] : m \in ToSet(inbox[c])
    /\ \A c \in Contacts : ToSet(inbox[c]) \subseteq mirrored

\* Every contact gets the messages in the order in which the user wrote them,
\* however often a run fails half-way through the members.
InOrder ==
    \A c \in Contacts : \A i, j \in 1 .. Len(inbox[c]) : i < j =>
        \E k, l \in 1 .. Len(written) :
            /\ k < l
            /\ written[k] = inbox[c][i] /\ written[l] = inbox[c][j]

\* The prepared nonces last exactly for the receivers left: none is missing, and
\* "all prepared nonces must have been consumed" holds after the last one.
NoncesMatch == phase # "idle" => nonces = Cardinality(pending)

\* What the cache says a contact was told is what the contact was told, or it is
\* about to be told; only a run that failed, or that was overtaken by a block, can
\* have left an entry of a message that was never sent.
ToldAsCached ==
    \A c \in Contacts \ (lost \cup Untold) :
        cache[c] # NoEntry =>
            pictureAt[c] = IF cache[c] = Removed THEN NoPicture
                           ELSE contentOf[cache[c]]

\* Every task ends: a message leaves the queue sent, or the device restarts.
TasksEnd == \A m \in Messages : m \in ToSet(queue) ~> m \notin ToSet(queue)
=============================================================================
