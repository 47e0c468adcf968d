----------------------- MODULE OutgoingMessagesProofs -----------------------
(* Proofs about OutgoingMessages, for any contacts, messages and pictures   *)
(* and any number of lost connections, restarts and changes.                *)
EXTENDS OutgoingMessages, FunctionTheorems, FiniteSetTheorems, TLAPS

-----------------------------------------------------------------------------
(* The inductive invariant *)

(* m was written before n. *)
Before(m, n) ==
    \E k, l \in 1 .. Len(written) : k < l /\ written[k] = m /\ written[l] = n

(* The picture a contact is told by its cache entry. *)
Content(c) == IF cache[c] = Removed THEN NoPicture ELSE contentOf[cache[c]]

(* A run needs a connection and a task; what is left of it after its last   *)
(* step is nothing.                                                         *)
RunInv ==
    /\ phase # "idle" => connected /\ queue # <<>>
    /\ awaited # NotAwaited => phase = "send"
    /\ phase # "upload" => uploading.to = {}
    /\ phase \in {"idle", "sent"} => pics = {}

(* Messages are written once; those in the queue are not sent.              *)
QueueInv ==
    /\ \A i, j \in 1 .. Len(written) : written[i] = written[j] => i = j
    /\ ToSet(queue) \subseteq ToSet(written) \ sentAt
    /\ sentAt \subseteq ToSet(written)
    /\ \A c \in Contacts : ToSet(inbox[c]) \subseteq ToSet(written)

(* The queue is in order, and whatever a contact has got already was        *)
(* written before what is queued, unless it is the message being sent.      *)
OrderInv ==
    /\ \A k, l \in 1 .. Len(queue) : k < l => Before(queue[k], queue[l])
    /\ \A c \in Contacts : \A m \in ToSet(inbox[c]) : \A k \in 1 .. Len(queue) :
          Before(m, queue[k]) \/ (k = 1 /\ m = queue[1])

(* Everyone the run addressed is still to be sent the message, is being     *)
(* sent it, or has it.                                                      *)
StoreInv ==
    /\ \A m \in Messages : addressed[m] \cap Omits[m] = {}
    /\ phase # "idle" => \A c \in addressed[Message] :
          \/ c \in pending
          \/ awaited.state = "written" /\ awaited.main /\ awaited.to = c
          \/ Message \in ToSet(inbox[c])
    /\ phase \in {"reflected", "send", "sent"} => Message \in mirrored
    /\ phase = "sent" => pending = {}

(* The message that is about to tell c something tells what the cache says. *)
Tells(c, picture) ==
    c \in lost \/ cache[c] = NoEntry \/ picture = Content(c)

(* Of the picture messages there is one for each contact, and none for a    *)
(* contact whose upload is still to come.  The blob ID that they carry is   *)
(* that of a blob with the picture.                                         *)
PictureInv ==
    /\ profile.picture # NoPicture =>
          /\ profile.blob # NoEntry
          /\ contentOf[profile.blob] = profile.picture
    /\ uploading.blob # NoEntry => contentOf[uploading.blob] = uploading.picture
    /\ \A p \in pics : /\ p.to \notin uploading.to /\ Tells(p.to, Conveyed(p.removes))
                       /\ p.removes \/ uploading.blob # NoEntry
    /\ \A p, q \in pics : p.to = q.to => p = q
    /\ awaited # NotAwaited /\ ~awaited.main =>
          /\ \A p \in pics : p.to # awaited.to
          /\ awaited.state = "written" => Tells(awaited.to, Conveyed(awaited.removes))
          /\ awaited.removes \/ uploading.blob # NoEntry

IndInv ==
    /\ TypeOK /\ RunInv /\ QueueInv /\ OrderInv /\ InOrder
    /\ StoreInv /\ SentMeansStored /\ NoncesMatch
    /\ PictureInv /\ ToldAsCached

-----------------------------------------------------------------------------
(* Sets, sequences and blobs *)

(* The elements of a sequence that grows, and of one that shrinks. *)
LEMMA AppendSet ==
    ASSUME NEW S, NEW s \in Seq(S), NEW e \in S
    PROVE  ToSet(Append(s, e)) = ToSet(s) \cup {e}
  <1>1. /\ DOMAIN Append(s, e) = 1 .. Len(s) + 1 /\ DOMAIN s = 1 .. Len(s)
        /\ Append(s, e)[Len(s) + 1] = e /\ Len(s) \in Nat
    OBVIOUS
  <1>2. \A i \in 1 .. Len(s) : Append(s, e)[i] = s[i]
    OBVIOUS
  <1>3. 1 .. Len(s) + 1 = 1 .. Len(s) \cup {Len(s) + 1}
    BY <1>1
  <1>. QED
    BY <1>1, <1>2, <1>3 DEF ToSet

\* Taking the first message leaves a part of the queue.
LEMMA TailSet ==
    ASSUME NEW S, NEW s \in Seq(S), s # <<>>
    PROVE  /\ ToSet(Tail(s)) \subseteq ToSet(s)
           /\ Head(s) \in ToSet(s) /\ Head(s) = s[1]
  BY DEF ToSet

(* There is always a blob that nothing refers to: one is the profile's, one *)
(* is what the messages carry, and each contact's cache has one more.       *)
LEMMA FreshBlobIsFresh ==
    ASSUME ConstantsAssumption, TypeOK
    PROVE  /\ FreshBlob \in 1 .. MaxBlobs
           /\ FreshBlob # profile.blob /\ FreshBlob # uploading.blob
           /\ \A c \in Contacts : cache[c] # FreshBlob
  <1>. DEFINE Blobs == 1 .. MaxBlobs
              Cached == {cache[c] : c \in Contacts}
              Used == (Cached \cup {profile.blob}) \cup {uploading.blob}
  <1>1. cache \in Surjection(Contacts, Cached)
    BY DEF TypeOK, Surjection
  <1>2. IsFiniteSet(Cached) /\ Cardinality(Cached) <= Cardinality(Contacts)
    BY <1>1, FS_Surjection DEF ConstantsAssumption
  <1>3. IsFiniteSet(Used) /\ Cardinality(Used) <= Cardinality(Cached) + 2
    <2>. DEFINE Some == Cached \cup {profile.blob}
    <2>. HIDE DEF Cached
    <2>1. Cardinality(Cached) \in Nat
      BY <1>2, FS_CardinalityType
    <2>2. /\ IsFiniteSet(Some)
          /\ Cardinality(Some) =
                IF profile.blob \in Cached THEN Cardinality(Cached) ELSE Cardinality(Cached) + 1
      BY <1>2, FS_AddElement
    <2>. HIDE DEF Some
    <2>3. Cardinality(Some) \in Nat
      BY <2>2, FS_CardinalityType
    <2>4. /\ IsFiniteSet(Some \cup {uploading.blob})
          /\ Cardinality(Some \cup {uploading.blob}) =
                IF uploading.blob \in Some THEN Cardinality(Some) ELSE Cardinality(Some) + 1
      BY <2>2, FS_AddElement
    <2>. QED
      BY <2>1, <2>2, <2>3, <2>4 DEF Some
  <1>4. IsFiniteSet(Blobs) /\ Cardinality(Blobs) = MaxBlobs
    BY FS_Interval DEF ConstantsAssumption
  <1>5. ~ (Blobs \subseteq Used)
    <2>1. SUFFICES ASSUME Blobs \subseteq Used
                   PROVE  FALSE
      OBVIOUS
    <2>. HIDE DEF Blobs, Used, Cached
    <2>2. Cardinality(Blobs) <= Cardinality(Used)
      BY <1>3, <2>1, FS_Subset
    <2>3. Cardinality(Contacts) \in Nat /\ Cardinality(Cached) \in Nat
          /\ Cardinality(Used) \in Nat
      BY <1>2, <1>3, FS_CardinalityType DEF ConstantsAssumption
    <2>. QED
      BY <1>2, <1>3, <1>4, <2>2, <2>3 DEF ConstantsAssumption
  <1>6. \E b \in 1 .. MaxBlobs : /\ b \notin {profile.blob, uploading.blob}
                               /\ \A c \in Contacts : cache[c] # b
    BY <1>5
  <1>. QED
    BY <1>6 DEF FreshBlob

-----------------------------------------------------------------------------
(* TypeOK in parts *)

QueueType ==
    /\ queue \in Seq(Messages) /\ written \in Seq(Messages)
    /\ inbox \in [Contacts -> Seq(Messages)]

SettingsType ==
    /\ members \subseteq Contacts /\ blocked \subseteq Contacts
    /\ sharedWith \subseteq Contacts
    /\ failures \in 0 .. MaxFailures /\ changes \in 0 .. MaxChanges

PictureType ==
    /\ profile \in [picture : Pictures, blob : 0 .. MaxBlobs, expired : BOOLEAN]
    /\ cache \in [Contacts -> CacheValues]
    /\ contentOf \in [1 .. MaxBlobs -> Pictures]
    /\ uploading \in [to : SUBSET Contacts, picture : Pictures, blob : 0 .. MaxBlobs]
    /\ ghost \in [to : SUBSET Contacts, picture : Pictures, blob : 0 .. MaxBlobs]
    /\ pics \subseteq [to : Contacts, removes : BOOLEAN]
    /\ pictureAt \in [Contacts -> Pictures]
    /\ lost \subseteq Contacts

RunType ==
    /\ sentAt \subseteq Messages /\ mirrored \subseteq Messages
    /\ connected \in BOOLEAN
    /\ phase \in {"idle", "upload", "reflect", "reflected", "send", "sent"}
    /\ pending \subseteq Contacts
    /\ addressed \in [Messages -> SUBSET Contacts]

AwaitedType ==
    awaited \in [state : {"written", "stored"}, to : Contacts,
                removes : BOOLEAN, main : BOOLEAN] \cup {NotAwaited}

(* The types, in the parts that steps are checked by. *)
LEMMA TypeParts ==
    TypeOK <=> /\ QueueType /\ SettingsType /\ PictureType /\ RunType /\ AwaitedType
               /\ nonces \in Nat
  BY DEF TypeOK, QueueType, SettingsType, PictureType, RunType, AwaitedType

(* What has a value at all has one of the records. *)
LEMMA AwaitedShape ==
    ASSUME AwaitedType
    PROVE  /\ awaited # NotAwaited <=> awaited.state \in {"written", "stored"}
           /\ awaited # NotAwaited => /\ awaited.to \in Contacts /\ awaited.removes \in BOOLEAN
                                      /\ awaited.main \in BOOLEAN
  BY DEF AwaitedType, NotAwaited

(* The queue, what was written and what has arrived. *)
LEMMA QueueTypeStep ==
    ASSUME ConstantsAssumption, IndInv, [Next]_vars
    PROVE  QueueType'
  <1>0. QueueType /\ SettingsType /\ PictureType /\ RunType /\ AwaitedType /\ RunInv
    BY TypeParts DEF IndInv
  <1>1. CASE WriteMessage
    BY <1>0, <1>1
    DEF WriteMessage, settings, protocolState, run, servers, history, QueueType
  <1>2. CASE ChangeSettings
    BY <1>0, <1>2
    DEF ChangeSettings, Changes, protocolState, run, servers, history, QueueType
  <1>3. CASE SetPicture
    BY <1>0, <1>3
    DEF SetPicture, Changes, settings, run, servers, history, QueueType
  <1>4. CASE RemovePicture
    BY <1>0, <1>4
    DEF RemovePicture, Changes, settings, run, servers, history, QueueType
  <1>5. CASE Expire
    BY <1>0, <1>5
    DEF Expire, Changes, settings, run, servers, history, QueueType
  <1>6. CASE StartRun
    BY <1>0, <1>6
    DEF StartRun, Distribute, settings, servers, QueueType
  <1>7. CASE UploadPicture
    BY <1>0, <1>7
    DEF UploadPicture, settings, servers, QueueType
  <1>8. CASE ReadReflectAcks
    BY <1>0, <1>8
    DEF ReadReflectAcks, settings, protocolState, servers, history, QueueType
  <1>9. CASE OmitReceiver
    BY <1>0, <1>9
    DEF OmitReceiver, settings, protocolState, servers, history, QueueType
  <1>10. CASE SendToReceiver
    BY <1>0, <1>10
    DEF SendToReceiver, settings, protocolState, servers, history, QueueType
  <1>11. CASE SendPicture
    BY <1>0, <1>11
    DEF SendPicture, settings, protocolState, servers, history, QueueType
  <1>12. CASE ReadMessageAck
    BY <1>0, <1>12
    DEF ReadMessageAck, settings, protocolState, servers, history, QueueType
  <1>13. CASE MirrorSent
    BY <1>0, <1>13
    DEF MirrorSent, settings, protocolState, servers, history, QueueType
  <1>14. CASE FinishRun
    BY <1>0, <1>14
    DEF FinishRun, settings, protocolState, servers, history, QueueType, RunInv
  <1>15. CASE GhostUploads
    BY <1>0, <1>15
    DEF GhostUploads, Uploaded, settings, run, servers, QueueType
  <1>16. CASE MirrorMessages
    BY <1>0, <1>16
    DEF MirrorMessages, settings, protocolState, history, QueueType
  <1>17. CASE ChatServerStores
    <2>1. Message \in Messages /\ awaited.to \in Contacts
      BY <1>0, <1>17, AwaitedShape DEF ChatServerStores, RunInv, QueueType, Message
    <2>2. inbox[awaited.to] \in Seq(Messages)
      BY <1>0, <2>1 DEF QueueType
    <2>3. Append(inbox[awaited.to], Message) \in Seq(Messages)
      BY <2>1, <2>2
    <2>4. \/ inbox' = inbox
          \/ inbox' = [inbox EXCEPT ![awaited.to] = Append(@, Message)]
      BY <1>17 DEF ChatServerStores
    <2>. QED
      BY <1>0, <1>17, <2>3, <2>4 DEF ChatServerStores, QueueType
  <1>18. CASE Connect
    BY <1>0, <1>18
    DEF Connect, settings, protocolState, servers, history, QueueType
  <1>19. CASE LoseConnection
    BY <1>0, <1>19
    DEF LoseConnection, Fails, EndRun, Untold, settings, protocolState, servers,
        QueueType
  <1>20. CASE Restart
    BY <1>0, <1>20
    DEF Restart, Fails, EndRun, Untold, settings, protocolState, servers,
        QueueType
  <1>21. CASE UNCHANGED vars
    BY <1>0, <1>21
    DEF vars, settings, protocolState, run, servers, history, QueueType
  <1>. QED
    BY <1>1, <1>2, <1>3, <1>4, <1>5, <1>6, <1>7, <1>8, <1>9, <1>10, <1>11,
       <1>12, <1>13, <1>14, <1>15, <1>16, <1>17, <1>18, <1>19, <1>20, <1>21
    DEF Next, User, Running, Sending, Servers

(* The settings and the bounds. *)
LEMMA SettingsTypeStep ==
    ASSUME ConstantsAssumption, IndInv, [Next]_vars
    PROVE  SettingsType'
  <1>0. QueueType /\ SettingsType /\ PictureType /\ RunType /\ AwaitedType /\ RunInv
    BY TypeParts DEF IndInv
  <1>1. CASE WriteMessage
    BY <1>0, ConstantsAssumption, <1>1
    DEF WriteMessage, settings, protocolState, run, servers, history,
        SettingsType
  <1>2. CASE ChangeSettings
    BY <1>0, ConstantsAssumption, <1>2
    DEF ChangeSettings, Changes, protocolState, run, servers, history,
        SettingsType
  <1>3. CASE SetPicture
    BY <1>0, ConstantsAssumption, <1>3
    DEF SetPicture, Changes, settings, run, servers, history, SettingsType
  <1>4. CASE RemovePicture
    BY <1>0, ConstantsAssumption, <1>4
    DEF RemovePicture, Changes, settings, run, servers, history, SettingsType
  <1>5. CASE Expire
    BY <1>0, ConstantsAssumption, <1>5
    DEF Expire, Changes, settings, run, servers, history, SettingsType
  <1>6. CASE StartRun
    BY <1>0, <1>6
    DEF StartRun, settings, SettingsType
  <1>7. CASE UploadPicture
    BY <1>0, ConstantsAssumption, <1>7
    DEF UploadPicture, Uploaded, settings, servers, SettingsType
  <1>8. CASE ReadReflectAcks
    BY <1>0, ConstantsAssumption, <1>8
    DEF ReadReflectAcks, settings, protocolState, servers, history, SettingsType
  <1>9. CASE OmitReceiver
    BY <1>0, ConstantsAssumption, <1>9
    DEF OmitReceiver, settings, protocolState, servers, history, SettingsType
  <1>10. CASE SendToReceiver
    BY <1>0, ConstantsAssumption, <1>10
    DEF SendToReceiver, settings, protocolState, servers, history, SettingsType
  <1>11. CASE SendPicture
    BY <1>0, ConstantsAssumption, <1>11
    DEF SendPicture, settings, protocolState, servers, history, SettingsType
  <1>12. CASE ReadMessageAck
    BY <1>0, ConstantsAssumption, <1>12
    DEF ReadMessageAck, settings, protocolState, servers, history, SettingsType
  <1>13. CASE MirrorSent
    BY <1>0, ConstantsAssumption, <1>13
    DEF MirrorSent, settings, protocolState, servers, history, SettingsType
  <1>14. CASE FinishRun
    BY <1>0, ConstantsAssumption, <1>14
    DEF FinishRun, settings, protocolState, servers, history, SettingsType
  <1>15. CASE GhostUploads
    BY <1>0, ConstantsAssumption, <1>15
    DEF GhostUploads, Uploaded, settings, run, servers, SettingsType
  <1>16. CASE MirrorMessages
    BY <1>0, ConstantsAssumption, <1>16
    DEF MirrorMessages, settings, protocolState, history, SettingsType
  <1>17. CASE ChatServerStores
    BY <1>0, ConstantsAssumption, <1>17
    DEF ChatServerStores, settings, protocolState, SettingsType
  <1>18. CASE Connect
    BY <1>0, ConstantsAssumption, <1>18
    DEF Connect, settings, protocolState, servers, history, SettingsType
  <1>19. CASE LoseConnection
    BY <1>0, ConstantsAssumption, <1>19
    DEF LoseConnection, Fails, EndRun, Untold, settings, protocolState, servers,
        SettingsType
  <1>20. CASE Restart
    BY <1>0, ConstantsAssumption, <1>20
    DEF Restart, Fails, EndRun, Untold, settings, protocolState, servers,
        SettingsType
  <1>21. CASE UNCHANGED vars
    BY <1>0, ConstantsAssumption, <1>21
    DEF vars, settings, protocolState, run, servers, history, SettingsType
  <1>. QED
    BY <1>1, <1>2, <1>3, <1>4, <1>5, <1>6, <1>7, <1>8, <1>9, <1>10, <1>11,
       <1>12, <1>13, <1>14, <1>15, <1>16, <1>17, <1>18, <1>19, <1>20, <1>21
    DEF Next, User, Running, Sending, Servers

(* The message whose acknowledgement is awaited. *)
LEMMA AwaitedTypeStep ==
    ASSUME ConstantsAssumption, IndInv, [Next]_vars
    PROVE  AwaitedType'
  <1>0. QueueType /\ SettingsType /\ PictureType /\ RunType /\ AwaitedType /\ RunInv
    BY TypeParts DEF IndInv
  <1>1. CASE WriteMessage
    BY <1>0, <1>1
    DEF WriteMessage, settings, protocolState, run, servers, history,
        AwaitedType
  <1>2. CASE ChangeSettings
    BY <1>0, <1>2
    DEF ChangeSettings, Changes, protocolState, run, servers, history,
        AwaitedType
  <1>3. CASE SetPicture
    BY <1>0, <1>3
    DEF SetPicture, Changes, settings, run, servers, history, AwaitedType
  <1>4. CASE RemovePicture
    BY <1>0, <1>4
    DEF RemovePicture, Changes, settings, run, servers, history, AwaitedType
  <1>5. CASE Expire
    BY <1>0, <1>5
    DEF Expire, Changes, settings, run, servers, history, AwaitedType
  <1>6. CASE StartRun
    BY <1>0, <1>6
    DEF StartRun, AwaitedType
  <1>7. CASE UploadPicture
    BY <1>0, <1>7
    DEF UploadPicture, Uploaded, settings, servers, AwaitedType
  <1>8. CASE ReadReflectAcks
    BY <1>0, <1>8
    DEF ReadReflectAcks, settings, protocolState, servers, history, AwaitedType
  <1>9. CASE OmitReceiver
    BY <1>0, <1>9
    DEF OmitReceiver, settings, protocolState, servers, history, AwaitedType
  <1>10. CASE SendToReceiver
    BY <1>0, <1>10
    DEF SendToReceiver, settings, protocolState, servers, history, AwaitedType,
        RunType, Pictures, NoPicture
  <1>11. CASE SendPicture
    BY <1>0, <1>11
    DEF SendPicture, settings, protocolState, servers, history, AwaitedType,
        PictureType
  <1>12. CASE ReadMessageAck
    BY <1>0, <1>12
    DEF ReadMessageAck, settings, protocolState, servers, history, AwaitedType
  <1>13. CASE MirrorSent
    BY <1>0, <1>13
    DEF MirrorSent, settings, protocolState, servers, history, AwaitedType
  <1>14. CASE FinishRun
    BY <1>0, <1>14
    DEF FinishRun, settings, protocolState, servers, history, AwaitedType
  <1>15. CASE GhostUploads
    BY <1>0, <1>15
    DEF GhostUploads, Uploaded, settings, run, servers, AwaitedType
  <1>16. CASE MirrorMessages
    BY <1>0, <1>16
    DEF MirrorMessages, settings, protocolState, history, AwaitedType
  <1>17. CASE ChatServerStores
    <2>1. awaited \in [state : {"written", "stored"}, to : Contacts,
                        removes : BOOLEAN, main : BOOLEAN]
      BY <1>0, <1>17 DEF ChatServerStores, AwaitedType, NotAwaited
    <2>2. awaited' = [awaited EXCEPT !.state = "stored"]
      BY <1>17 DEF ChatServerStores
    <2>. QED
      BY <2>1, <2>2 DEF AwaitedType
  <1>18. CASE Connect
    BY <1>0, <1>18
    DEF Connect, settings, protocolState, servers, history, AwaitedType
  <1>19. CASE LoseConnection
    BY <1>0, <1>19
    DEF LoseConnection, EndRun, AwaitedType
  <1>20. CASE Restart
    BY <1>0, <1>20
    DEF Restart, EndRun, AwaitedType
  <1>21. CASE UNCHANGED vars
    BY <1>0, <1>21
    DEF vars, settings, protocolState, run, servers, history, AwaitedType
  <1>. QED
    BY <1>1, <1>2, <1>3, <1>4, <1>5, <1>6, <1>7, <1>8, <1>9, <1>10, <1>11,
       <1>12, <1>13, <1>14, <1>15, <1>16, <1>17, <1>18, <1>19, <1>20, <1>21
    DEF Next, User, Running, Sending, Servers

(* Where the run is, and what is sent. *)
LEMMA RunTypeStep ==
    ASSUME ConstantsAssumption, IndInv, [Next]_vars
    PROVE  RunType'
  <1>0. QueueType /\ SettingsType /\ PictureType /\ RunType /\ AwaitedType /\ RunInv
    BY TypeParts DEF IndInv
  <1>1. CASE WriteMessage
    BY <1>0, <1>1
    DEF WriteMessage, settings, protocolState, run, servers, history, RunType
  <1>2. CASE ChangeSettings
    BY <1>0, <1>2
    DEF ChangeSettings, Changes, protocolState, run, servers, history, RunType
  <1>3. CASE SetPicture
    BY <1>0, <1>3
    DEF SetPicture, Changes, settings, run, servers, history, RunType
  <1>4. CASE RemovePicture
    BY <1>0, <1>4
    DEF RemovePicture, Changes, settings, run, servers, history, RunType
  <1>5. CASE Expire
    BY <1>0, <1>5
    DEF Expire, Changes, settings, run, servers, history, RunType
  <1>6. CASE StartRun
    <2>1. Message \in Messages
      BY <1>0, <1>6 DEF StartRun, QueueType, Message
    <2>2. pending' \subseteq Contacts /\ phase' \in {"upload", "reflect"}
      BY <1>0, <1>6 DEF StartRun, SettingsType
    <2>3. addressed' \in [Messages -> SUBSET Contacts]
      BY <1>0, <1>6, <2>1 DEF StartRun, SettingsType, RunType
    <2>. QED
      BY <1>0, <1>6, <2>2, <2>3 DEF StartRun, servers, RunType
  <1>7. CASE UploadPicture
    BY <1>0, <1>7
    DEF UploadPicture, servers, RunType
  <1>8. CASE ReadReflectAcks
    BY <1>0, <1>8
    DEF ReadReflectAcks, settings, protocolState, servers, history, RunType
  <1>9. CASE OmitReceiver
    BY <1>0, <1>9
    DEF OmitReceiver, settings, protocolState, servers, history, RunType
  <1>10. CASE SendToReceiver
    BY <1>0, <1>10
    DEF SendToReceiver, settings, protocolState, servers, history, RunType
  <1>11. CASE SendPicture
    BY <1>0, <1>11
    DEF SendPicture, settings, protocolState, servers, history, RunType
  <1>12. CASE ReadMessageAck
    BY <1>0, <1>12
    DEF ReadMessageAck, settings, protocolState, servers, history, RunType
  <1>13. CASE MirrorSent
    BY <1>0, <1>13
    DEF MirrorSent, settings, protocolState, servers, history, RunType
  <1>14. CASE FinishRun
    <2>1. Message \in Messages
      BY <1>0, <1>14 DEF FinishRun, RunInv, QueueType, Message
    <2>. QED
      BY <1>0, <1>14, <2>1 DEF FinishRun, servers, history, RunType
  <1>15. CASE GhostUploads
    BY <1>0, <1>15
    DEF GhostUploads, run, servers, RunType
  <1>16. CASE MirrorMessages
    <2>1. Message \in Messages
      BY <1>0, <1>16 DEF MirrorMessages, RunInv, QueueType, Message
    <2>. QED
      BY <1>0, <1>16, <2>1 DEF MirrorMessages, history, RunType
  <1>17. CASE ChatServerStores
    BY <1>0, <1>17
    DEF ChatServerStores, settings, protocolState, RunType
  <1>18. CASE Connect
    BY <1>0, <1>18
    DEF Connect, settings, protocolState, servers, history, RunType
  <1>19. CASE LoseConnection
    BY <1>0, <1>19
    DEF LoseConnection, Fails, EndRun, Untold, settings, protocolState, servers,
        RunType
  <1>20. CASE Restart
    BY <1>0, <1>20
    DEF Restart, Fails, EndRun, Untold, settings, protocolState, servers,
        RunType
  <1>21. CASE UNCHANGED vars
    BY <1>0, <1>21
    DEF vars, settings, protocolState, run, servers, history, RunType
  <1>. QED
    BY <1>1, <1>2, <1>3, <1>4, <1>5, <1>6, <1>7, <1>8, <1>9, <1>10, <1>11,
       <1>12, <1>13, <1>14, <1>15, <1>16, <1>17, <1>18, <1>19, <1>20, <1>21
    DEF Next, User, Running, Sending, Servers

(* The pictures and their blobs. *)
LEMMA PictureTypeStep ==
    ASSUME ConstantsAssumption, IndInv, [Next]_vars
    PROVE  PictureType'
  <1>0. QueueType /\ SettingsType /\ PictureType /\ RunType /\ AwaitedType /\ RunInv
    BY TypeParts DEF IndInv
  <1>1. CASE WriteMessage
    BY <1>0, <1>1
    DEF WriteMessage, settings, protocolState, run, servers, history,
        PictureType
  <1>2. CASE ChangeSettings
    BY <1>0, <1>2
    DEF ChangeSettings, Changes, protocolState, run, servers, history,
        PictureType
  <1>3. CASE SetPicture
    <2>1. FreshBlob \in 1 .. MaxBlobs /\ 1 .. MaxBlobs \subseteq CacheValues
      BY FreshBlobIsFresh DEF IndInv, CacheValues, ConstantsAssumption
    <2>2. changes' \in Pictures
      BY <1>0, <1>3 DEF SetPicture, Changes, SettingsType, Pictures, ConstantsAssumption
    <2>. QED
      BY <1>0, <1>3, <2>1, <2>2 DEF SetPicture, run, servers, history, PictureType
  <1>4. CASE RemovePicture
    <2>1. NoPicture \in Pictures /\ NoEntry \in 0 .. MaxBlobs
      BY DEF NoPicture, Pictures, NoEntry, ConstantsAssumption
    <2>2. profile' \in [picture : Pictures, blob : 0 .. MaxBlobs, expired : BOOLEAN]
      BY <1>4, <2>1 DEF RemovePicture
    <2>. QED
      BY <1>0, <1>4, <2>2
      DEF RemovePicture, Changes, settings, run, servers, history, PictureType
  <1>5. CASE Expire
    <2>1. NoEntry \in CacheValues
      BY DEF NoEntry, CacheValues, ConstantsAssumption
    <2>2. profile' \in [picture : Pictures, blob : 0 .. MaxBlobs, expired : BOOLEAN]
      BY <1>0, <1>5 DEF Expire, PictureType
    <2>3. cache' \in [Contacts -> CacheValues]
      BY <1>0, <1>5, <2>1 DEF Expire, PictureType
    <2>. QED
      BY <1>0, <1>5, <2>2, <2>3 DEF Expire, run, servers, history, PictureType
  <1>6. CASE StartRun
    <2>1. Removed \in CacheValues /\ profile.blob \in CacheValues /\ NoPicture \in Pictures
      BY <1>0 DEF PictureType, Removed, CacheValues, NoPicture, Pictures, ConstantsAssumption
    <2>2. cache' \in [Contacts -> CacheValues]
      BY <1>0, <1>6, <2>1 DEF StartRun, Distribute, PictureType
    <2>3. pics' \subseteq [to : Contacts, removes : BOOLEAN]
      <3>1. members \ blocked \subseteq Contacts
        BY <1>0 DEF SettingsType
      <3>2. \A c \in Contacts : \A b \in BOOLEAN :
               [to |-> c, removes |-> b] \in [to : Contacts, removes : BOOLEAN]
        OBVIOUS
      <3>3. \A p \in pics' : \E c \in members \ blocked : \E b \in BOOLEAN :
               p = [to |-> c, removes |-> b]
        BY <1>6 DEF StartRun, Distribute
      <3>. QED
        BY <3>1, <3>2, <3>3
    <2>4. uploading' \in [to : SUBSET Contacts, picture : Pictures, blob : 0 .. MaxBlobs]
      BY <1>0, <1>6 DEF StartRun, Distribute, PictureType, SettingsType, NoEntry, ConstantsAssumption
    <2>. QED
      BY <1>0, <1>6, <2>2, <2>3, <2>4 DEF StartRun, servers, PictureType
  <1>7. CASE UploadPicture
    <2>1. FreshBlob \in 1 .. MaxBlobs /\ 1 .. MaxBlobs \subseteq CacheValues
      BY FreshBlobIsFresh DEF IndInv, CacheValues, ConstantsAssumption
    <2>2. PICK c \in uploading.to :
                /\ Uploaded(c, uploading.picture)
                /\ uploading' = [uploading EXCEPT !.to = @ \ {c}, !.blob = FirstBlob]
                /\ pics' \subseteq pics \cup {[to |-> c, removes |-> FALSE]}
                /\ lost' \subseteq lost \cup
                       {p.to : p \in pics \cup {[to |-> c, removes |-> FALSE]}}
      BY <1>7 DEF UploadPicture
    <2>3. c \in Contacts /\ uploading.picture \in Pictures
      BY <1>0, <2>2 DEF PictureType
    <2>4. /\ profile' \in [picture : Pictures, blob : 0 .. MaxBlobs, expired : BOOLEAN]
          /\ cache' \in [Contacts -> CacheValues]
          /\ contentOf' \in [1 .. MaxBlobs -> Pictures]
      BY <1>0, <2>1, <2>2, <2>3 DEF Uploaded, PictureType
    <2>5. pics' \subseteq [to : Contacts, removes : BOOLEAN] /\ lost' \subseteq Contacts
      <3>1. [to |-> c, removes |-> FALSE] \in [to : Contacts, removes : BOOLEAN]
        BY <2>3
      <3>2. pics \cup {[to |-> c, removes |-> FALSE]} \subseteq
               [to : Contacts, removes : BOOLEAN]
        BY <1>0, <3>1 DEF PictureType
      <3>3. \A p \in pics \cup {[to |-> c, removes |-> FALSE]} : p.to \in Contacts
        BY <3>2
      <3>. QED
        BY <1>0, <2>2, <3>2, <3>3 DEF PictureType
    <2>6. FirstBlob \in 0 .. MaxBlobs
      BY <1>0, <2>1 DEF FirstBlob, PictureType
    <2>. QED
      BY <1>0, <1>7, <2>2, <2>4, <2>5, <2>6 DEF UploadPicture, servers, PictureType
  <1>8. CASE ReadReflectAcks
    BY <1>0, <1>8
    DEF ReadReflectAcks, settings, protocolState, servers, history, PictureType
  <1>9. CASE OmitReceiver
    BY <1>0, <1>9
    DEF OmitReceiver, settings, protocolState, servers, history, PictureType
  <1>10. CASE SendToReceiver
    BY <1>0, <1>10
    DEF SendToReceiver, settings, protocolState, servers, history, PictureType
  <1>11. CASE SendPicture
    BY <1>0, <1>11
    DEF SendPicture, settings, protocolState, servers, history, PictureType
  <1>12. CASE ReadMessageAck
    BY <1>0, <1>12
    DEF ReadMessageAck, settings, protocolState, servers, history, PictureType
  <1>13. CASE MirrorSent
    BY <1>0, <1>13
    DEF MirrorSent, settings, protocolState, servers, history, PictureType
  <1>14. CASE FinishRun
    BY <1>0, <1>14
    DEF FinishRun, settings, protocolState, servers, history, PictureType
  <1>15. CASE GhostUploads
    <2>1. FreshBlob \in 1 .. MaxBlobs /\ 1 .. MaxBlobs \subseteq CacheValues
      BY FreshBlobIsFresh DEF IndInv, CacheValues, ConstantsAssumption
    <2>2. PICK c \in ghost.to :
                /\ Uploaded(c, ghost.picture)
                /\ ghost' = [ghost EXCEPT !.to = @ \ {c}]
                /\ lost' = lost \cup {c}
      BY <1>15 DEF GhostUploads
    <2>3. c \in Contacts /\ ghost.picture \in Pictures
      BY <1>0, <2>2 DEF PictureType
    <2>4. /\ profile' \in [picture : Pictures, blob : 0 .. MaxBlobs, expired : BOOLEAN]
          /\ cache' \in [Contacts -> CacheValues]
          /\ contentOf' \in [1 .. MaxBlobs -> Pictures]
      BY <1>0, <2>1, <2>2, <2>3 DEF Uploaded, PictureType
    <2>. QED
      BY <1>0, <1>15, <2>2, <2>3, <2>4 DEF GhostUploads, run, servers, PictureType
  <1>16. CASE MirrorMessages
    BY <1>0, <1>16
    DEF MirrorMessages, settings, protocolState, history, PictureType
  <1>17. CASE ChatServerStores
    <2>1. /\ awaited.to \in Contacts /\ awaited.removes \in BOOLEAN
          /\ ~awaited.main => awaited.removes \/ uploading.blob # NoEntry
      BY <1>0, <1>17, AwaitedShape DEF ChatServerStores, IndInv, PictureInv
    <2>2. ~awaited.main => Conveyed(awaited.removes) \in Pictures
      BY <1>0, <2>1 DEF Conveyed, PictureType, NoEntry, NoPicture, Pictures, ConstantsAssumption
    <2>3. pictureAt' \in [Contacts -> Pictures] /\ lost' \subseteq lost
      BY <1>0, <1>17, <2>1, <2>2 DEF ChatServerStores, PictureType
    <2>. QED
      BY <1>0, <1>17, <2>3 DEF ChatServerStores, protocolState, PictureType
  <1>18. CASE Connect
    BY <1>0, <1>18
    DEF Connect, settings, protocolState, servers, history, PictureType
  <1>19. CASE LoseConnection
    <2>1. Untold \subseteq Contacts
      BY <1>0, AwaitedShape DEF Untold, PictureType
    <2>2. NoUpload \in [to : SUBSET Contacts, picture : Pictures, blob : 0 .. MaxBlobs]
      BY DEF NoUpload, NoEntry, NoPicture, Pictures, ConstantsAssumption
    <2>. QED
      BY <1>0, <1>19, <2>1, <2>2
      DEF LoseConnection, EndRun, protocolState, servers, PictureType
  <1>20. CASE Restart
    <2>1. Untold \subseteq Contacts
      BY <1>0, AwaitedShape DEF Untold, PictureType
    <2>2. NoUpload \in [to : SUBSET Contacts, picture : Pictures, blob : 0 .. MaxBlobs]
      BY DEF NoUpload, NoEntry, NoPicture, Pictures, ConstantsAssumption
    <2>. QED
      BY <1>0, <1>20, <2>1, <2>2
      DEF Restart, EndRun, protocolState, servers, PictureType
  <1>21. CASE UNCHANGED vars
    BY <1>0, <1>21
    DEF vars, settings, protocolState, run, servers, history, PictureType
  <1>. QED
    BY <1>1, <1>2, <1>3, <1>4, <1>5, <1>6, <1>7, <1>8, <1>9, <1>10, <1>11,
       <1>12, <1>13, <1>14, <1>15, <1>16, <1>17, <1>18, <1>19, <1>20, <1>21
    DEF Next, User, Running, Sending, Servers

-----------------------------------------------------------------------------
(* The run *)

(* A run begins with a connection and ends with nothing left. *)
LEMMA RunInvStep ==
    ASSUME ConstantsAssumption, IndInv, [Next]_vars
    PROVE  RunInv'
  <1>0. QueueType /\ SettingsType /\ PictureType /\ RunType /\ AwaitedType /\ RunInv
    BY TypeParts DEF IndInv
  <1>1. CASE WriteMessage
    <2>1. UNCHANGED <<connected, phase, awaited, uploading, pics>>
      BY <1>1 DEF WriteMessage, run
    <2>2. queue' # <<>>
      BY <1>0, <1>1 DEF WriteMessage, QueueType
    <2>. QED
      BY <1>0, <2>1, <2>2 DEF RunInv
  <1>2. CASE ChangeSettings
    BY <1>0, <1>2
    DEF ChangeSettings, Changes, protocolState, run, servers, history, RunInv
  <1>3. CASE SetPicture
    BY <1>0, <1>3
    DEF SetPicture, Changes, settings, run, servers, history, RunInv
  <1>4. CASE RemovePicture
    BY <1>0, <1>4
    DEF RemovePicture, Changes, settings, run, servers, history, RunInv
  <1>5. CASE Expire
    BY <1>0, <1>5
    DEF Expire, Changes, settings, run, servers, history, RunInv
  <1>6. CASE StartRun
    <2>1. phase' # "idle" /\ connected' /\ queue' # <<>> /\ awaited' = NotAwaited
      BY <1>0, <1>6 DEF StartRun, RunInv
    <2>2. phase' # "upload" => uploading'.to = {}
      BY <1>6 DEF StartRun
    <2>3. phase' \notin {"idle", "sent"}
      BY <1>6 DEF StartRun
    <2>. QED
      BY <2>1, <2>2, <2>3 DEF RunInv
  <1>7. CASE UploadPicture
    <2>1. uploading' = [uploading EXCEPT !.to = uploading'.to, !.blob = FirstBlob]
          /\ (phase' # "upload" => uploading'.to = {}) /\ phase' \in {"upload", "reflect"}
      BY <1>0, <1>7 DEF UploadPicture, PictureType
    <2>. QED
      BY <1>0, <1>7, <2>1 DEF UploadPicture, RunInv
  <1>8. CASE ReadReflectAcks
    BY <1>0, <1>8
    DEF ReadReflectAcks, settings, protocolState, servers, history, RunInv
  <1>9. CASE OmitReceiver
    BY <1>0, <1>9
    DEF OmitReceiver, settings, protocolState, servers, history, RunInv
  <1>10. CASE SendToReceiver
    BY <1>0, <1>10
    DEF SendToReceiver, settings, protocolState, servers, history, RunInv
  <1>11. CASE SendPicture
    BY <1>0, <1>11
    DEF SendPicture, settings, protocolState, servers, history, RunInv
  <1>12. CASE ReadMessageAck
    BY <1>0, <1>12
    DEF ReadMessageAck, settings, protocolState, servers, history, RunInv
  <1>13. CASE MirrorSent
    BY <1>0, <1>13
    DEF MirrorSent, settings, protocolState, servers, history, RunInv
  <1>14. CASE FinishRun
    BY <1>0, <1>14
    DEF FinishRun, settings, protocolState, servers, history, RunInv
  <1>15. CASE GhostUploads
    BY <1>0, <1>15
    DEF GhostUploads, Uploaded, settings, run, servers, RunInv
  <1>16. CASE MirrorMessages
    BY <1>0, <1>16
    DEF MirrorMessages, settings, protocolState, history, RunInv
  <1>17. CASE ChatServerStores
    <2>1. phase = "send"
      BY <1>0, <1>17, AwaitedShape DEF ChatServerStores, RunInv
    <2>. QED
      BY <1>0, <1>17, <2>1 DEF ChatServerStores, protocolState, RunInv
  <1>18. CASE Connect
    BY <1>0, <1>18
    DEF Connect, settings, protocolState, servers, history, RunInv
  <1>19. CASE LoseConnection
    BY <1>0, <1>19
    DEF LoseConnection, Fails, EndRun, Untold, settings, protocolState, servers,
        RunInv, NoUpload
  <1>20. CASE Restart
    BY <1>0, <1>20
    DEF Restart, Fails, EndRun, Untold, settings, protocolState, servers,
        RunInv, NoUpload
  <1>21. CASE UNCHANGED vars
    BY <1>0, <1>21
    DEF vars, settings, protocolState, run, servers, history, RunInv
  <1>. QED
    BY <1>1, <1>2, <1>3, <1>4, <1>5, <1>6, <1>7, <1>8, <1>9, <1>10, <1>11,
       <1>12, <1>13, <1>14, <1>15, <1>16, <1>17, <1>18, <1>19, <1>20, <1>21
    DEF Next, User, Running, Sending, Servers

(* Preparing the nonces and using up one of them. *)
LEMMA NoncesPrepared ==
    ASSUME ConstantsAssumption, SettingsType
    PROVE  Cardinality(members) - Cardinality(members \cap blocked)
             = Cardinality(members \ blocked)
  <1>1. IsFiniteSet(members)
    BY FS_Subset DEF ConstantsAssumption, SettingsType
  <1>2. /\ Cardinality(members \ blocked)
             = Cardinality(members) - Cardinality(members \cap blocked)
    BY <1>1, FS_Difference
  <1>. QED
    BY <1>2

\* Each receiver that is done takes one nonce.
LEMMA NonceUsed ==
    ASSUME ConstantsAssumption, NEW set \in SUBSET Contacts, NEW c \in set
    PROVE  /\ Cardinality(set) - 1 \in Nat
           /\ Cardinality(set \ {c}) = Cardinality(set) - 1
  <1>1. IsFiniteSet(set)
    BY FS_Subset DEF ConstantsAssumption
  <1>2. IsFiniteSet(set \ {c}) /\ Cardinality(set \ {c}) = Cardinality(set) - 1
    BY <1>1, FS_RemoveElement
  <1>. QED
    BY <1>2, FS_CardinalityType

(* As many nonces as receivers are left. *)
LEMMA NoncesStep ==
    ASSUME ConstantsAssumption, IndInv, [Next]_vars
    PROVE  nonces' \in Nat /\ NoncesMatch'
  <1>0. QueueType /\ SettingsType /\ PictureType /\ RunType /\ AwaitedType /\ RunInv
        /\ nonces \in Nat /\ NoncesMatch
    BY TypeParts DEF IndInv
  <1>1. CASE WriteMessage
    BY <1>0, <1>1
    DEF WriteMessage, settings, protocolState, run, servers, history,
        NoncesMatch
  <1>2. CASE ChangeSettings
    BY <1>0, <1>2
    DEF ChangeSettings, Changes, protocolState, run, servers, history,
        NoncesMatch
  <1>3. CASE SetPicture
    BY <1>0, <1>3
    DEF SetPicture, Changes, settings, run, servers, history, NoncesMatch
  <1>4. CASE RemovePicture
    BY <1>0, <1>4
    DEF RemovePicture, Changes, settings, run, servers, history, NoncesMatch
  <1>5. CASE Expire
    BY <1>0, <1>5
    DEF Expire, Changes, settings, run, servers, history, NoncesMatch
  <1>6. CASE StartRun
    <2>1. nonces' = Cardinality(members \ blocked) /\ pending' = members \ blocked
      BY <1>0, <1>6, NoncesPrepared DEF StartRun
    <2>2. IsFiniteSet(members \ blocked)
      BY <1>0, FS_Subset DEF ConstantsAssumption, SettingsType
    <2>. QED
      BY <2>1, <2>2, FS_CardinalityType DEF NoncesMatch
  <1>7. CASE UploadPicture
    BY <1>0, <1>7
    DEF UploadPicture, NoncesMatch
  <1>8. CASE ReadReflectAcks
    BY <1>0, <1>8
    DEF ReadReflectAcks, settings, protocolState, servers, history, NoncesMatch
  <1>9. CASE OmitReceiver
    <2>1. PICK c \in pending : pending' = pending \ {c}
      BY <1>9 DEF OmitReceiver
    <2>2. nonces = Cardinality(pending)
      BY <1>0, <1>9 DEF OmitReceiver, NoncesMatch
    <2>. QED
      BY <1>0, <1>9, <2>1, <2>2, NonceUsed DEF OmitReceiver, RunType, NoncesMatch
  <1>10. CASE SendToReceiver
    <2>1. PICK c \in pending : pending' = pending \ {c}
      BY <1>10 DEF SendToReceiver
    <2>2. nonces = Cardinality(pending)
      BY <1>0, <1>10 DEF SendToReceiver, NoncesMatch
    <2>. QED
      BY <1>0, <1>10, <2>1, <2>2, NonceUsed DEF SendToReceiver, RunType, NoncesMatch
  <1>11. CASE SendPicture
    BY <1>0, <1>11
    DEF SendPicture, settings, protocolState, servers, history, NoncesMatch
  <1>12. CASE ReadMessageAck
    BY <1>0, <1>12
    DEF ReadMessageAck, settings, protocolState, servers, history, NoncesMatch
  <1>13. CASE MirrorSent
    BY <1>0, <1>13
    DEF MirrorSent, settings, protocolState, servers, history, NoncesMatch
  <1>14. CASE FinishRun
    BY <1>0, <1>14
    DEF FinishRun, settings, protocolState, servers, history, NoncesMatch
  <1>15. CASE GhostUploads
    BY <1>0, <1>15
    DEF GhostUploads, Uploaded, settings, run, servers, NoncesMatch
  <1>16. CASE MirrorMessages
    BY <1>0, <1>16
    DEF MirrorMessages, settings, protocolState, history, NoncesMatch
  <1>17. CASE ChatServerStores
    BY <1>0, <1>17
    DEF ChatServerStores, settings, protocolState, NoncesMatch
  <1>18. CASE Connect
    BY <1>0, <1>18
    DEF Connect, settings, protocolState, servers, history, NoncesMatch
  <1>19. CASE LoseConnection
    BY <1>0, <1>19
    DEF LoseConnection, Fails, EndRun, Untold, settings, protocolState, servers,
        NoncesMatch
  <1>20. CASE Restart
    BY <1>0, <1>20
    DEF Restart, Fails, EndRun, Untold, settings, protocolState, servers,
        NoncesMatch
  <1>21. CASE UNCHANGED vars
    BY <1>0, <1>21
    DEF vars, settings, protocolState, run, servers, history, NoncesMatch
  <1>. QED
    BY <1>1, <1>2, <1>3, <1>4, <1>5, <1>6, <1>7, <1>8, <1>9, <1>10, <1>11,
       <1>12, <1>13, <1>14, <1>15, <1>16, <1>17, <1>18, <1>19, <1>20, <1>21
    DEF Next, User, Running, Sending, Servers

-----------------------------------------------------------------------------
(* The order of the messages *)

(* What was written before something stays so. *)
LEMMA BeforeStays ==
    ASSUME QueueType, NEW m, NEW n, Before(m, n),
           written' = written \/ \E e \in Messages : written' = Append(written, e)
    PROVE  Before(m, n)'
  <1>1. PICK k, l \in 1 .. Len(written) : k < l /\ written[k] = m /\ written[l] = n
    BY DEF Before
  <1>2. CASE written' = written
    BY <1>1, <1>2 DEF Before
  <1>3. ASSUME NEW e \in Messages, written' = Append(written, e)
        PROVE  Before(m, n)'
    <2>1. /\ Len(written') = Len(written) + 1 /\ Len(written) \in Nat
          /\ written'[k] = written[k] /\ written'[l] = written[l]
      BY <1>1, <1>3 DEF QueueType
    <2>2. k \in 1 .. Len(written') /\ l \in 1 .. Len(written')
      BY <1>1, <2>1
    <2>. QED
      BY <1>1, <2>1, <2>2 DEF Before
  <1>. QED
    BY <1>2, <1>3

(* A message that is written comes after all that were written before it.   *)
LEMMA WrittenLast ==
    ASSUME QueueType, NEW e \in Messages, written' = Append(written, e),
           NEW m \in ToSet(written)
    PROVE  Before(m, e)'
  <1>1. PICK k \in 1 .. Len(written) : written[k] = m
    BY DEF ToSet, QueueType
  <1>2. /\ Len(written') = Len(written) + 1 /\ Len(written) \in Nat
        /\ written'[k] = m /\ written'[Len(written) + 1] = e
    BY <1>1 DEF QueueType
  <1>3. k \in 1 .. Len(written') /\ Len(written) + 1 \in 1 .. Len(written') /\ k < Len(written) + 1
    BY <1>1, <1>2
  <1>. QED
    BY <1>2, <1>3 DEF Before

(* Nothing is written before itself. *)
LEMMA BeforeIrreflexive ==
    ASSUME QueueInv, QueueType, NEW m
    PROVE  ~Before(m, m)
  <1>. SUFFICES ASSUME NEW k \in 1 .. Len(written), NEW l \in 1 .. Len(written),
                       k < l, written[k] = written[l]
                PROVE  FALSE
    BY DEF Before
  <1>1. k = l
    BY DEF QueueInv
  <1>. QED
    BY <1>1 DEF QueueType

(* The first task of the queue is not there twice. *)
LEMMA HeadOnce ==
    ASSUME QueueInv, QueueType, OrderInv, queue # <<>>
    PROVE  ToSet(Tail(queue)) \subseteq ToSet(queue) \ {Message}
  <1>. SUFFICES ASSUME NEW i \in 1 .. Len(Tail(queue)), Tail(queue)[i] = Message
                PROVE  FALSE
    <2>1. DOMAIN Tail(queue) = 1 .. Len(Tail(queue))
      BY DEF QueueType
    <2>. QED
      BY <2>1, TailSet DEF ToSet, QueueType
  <1>1. /\ Tail(queue)[i] = queue[i + 1] /\ i + 1 \in 1 .. Len(queue)
        /\ 1 \in 1 .. Len(queue) /\ 1 < i + 1 /\ Message = queue[1]
    BY DEF QueueType, Message
  <1>2. Before(queue[1], queue[i + 1])
    BY <1>1 DEF OrderInv
  <1>. QED
    BY <1>1, <1>2, BeforeIrreflexive

(* The message the run is about. *)
LEMMA MessageQueued ==
    ASSUME QueueType, queue # <<>>
    PROVE  /\ Message \in Messages /\ Message \in ToSet(queue) /\ Message = queue[1]
           /\ 1 \in 1 .. Len(queue)
  BY TailSet DEF QueueType, Message

(* A contact's messages after the chat server has stored one more. *)
LEMMA InboxAfterStore ==
    ASSUME QueueType, AwaitedType, RunInv, ChatServerStores
    PROVE  /\ queue # <<>> /\ awaited.to \in Contacts
           /\ \A c \in Contacts :
                 \/ inbox'[c] = inbox[c]
                 \/ /\ Message \notin ToSet(inbox[c])
                    /\ inbox'[c] = Append(inbox[c], Message)
                    /\ ToSet(inbox'[c]) = ToSet(inbox[c]) \cup {Message}
  <1>1. queue # <<>> /\ awaited.to \in Contacts
    BY AwaitedShape DEF ChatServerStores, RunInv
  <1>2. ASSUME NEW c \in Contacts, inbox'[c] # inbox[c]
        PROVE  /\ Message \notin ToSet(inbox[c])
               /\ inbox'[c] = Append(inbox[c], Message)
               /\ ToSet(inbox'[c]) = ToSet(inbox[c]) \cup {Message}
    <2>1. Message \notin ToSet(inbox[c]) /\ inbox'[c] = Append(inbox[c], Message)
      BY <1>1, <1>2 DEF ChatServerStores, QueueType
    <2>2. inbox[c] \in Seq(Messages) /\ Message \in Messages
      BY <1>1, MessageQueued DEF QueueType
    <2>. QED
      BY <2>1, <2>2, AppendSet
  <1>. QED
    BY <1>1, <1>2

(* Nothing changes for the order of the messages. *)
LEMMA InboxFrame ==
    ASSUME InOrder, UNCHANGED <<written, inbox>>
    PROVE  InOrder'
  BY DEF InOrder

\* The order is kept by steps that neither send nor queue.
LEMMA OrderFrame ==
    ASSUME OrderInv, InOrder, UNCHANGED <<queue, written, inbox>>
    PROVE  OrderInv' /\ InOrder'
  <1>1. \A m, n : Before(m, n)' <=> Before(m, n)
    BY DEF Before
  <1>2. OrderInv'
    BY <1>1 DEF OrderInv
  <1>. QED
    BY <1>2, InboxFrame

(* Messages that have arrived stay in order when others are written. *)
LEMMA InboxKept ==
    ASSUME QueueType, InOrder, inbox' = inbox,
           NEW e \in Messages, written' = Append(written, e)
    PROVE  InOrder'
  <1>. SUFFICES ASSUME NEW c \in Contacts, NEW i \in 1 .. Len(inbox[c]),
                       NEW j \in 1 .. Len(inbox[c]), i < j
                PROVE  \E k, l \in 1 .. Len(written') :
                          /\ k < l
                          /\ written'[k] = inbox[c][i] /\ written'[l] = inbox[c][j]
    BY DEF InOrder
  <1>1. Before(inbox[c][i], inbox[c][j])
    BY DEF InOrder, Before
  <1>2. \A m, n : Before(m, n) => Before(m, n)'
    BY BeforeStays
  <1>3. \A m, n : Before(m, n)' => \E k, l \in 1 .. Len(written') :
                                     k < l /\ written'[k] = m /\ written'[l] = n
    BY DEF Before
  <1>. QED
    BY <1>1, <1>2, <1>3

(* What is queued is written and not sent. *)
LEMMA QueueInvStep ==
    ASSUME ConstantsAssumption, IndInv, [Next]_vars
    PROVE  QueueInv'
  <1>0. QueueType /\ SettingsType /\ PictureType /\ RunType /\ AwaitedType /\ RunInv /\ QueueInv
        /\ OrderInv /\ InOrder
    BY TypeParts DEF IndInv
  <1>1. CASE WriteMessage
    <2>1. PICK e \in Messages \ ToSet(written) :
             written' = Append(written, e) /\ queue' = Append(queue, e)
      BY <1>1 DEF WriteMessage
    <2>2. ToSet(written') = ToSet(written) \cup {e} /\ ToSet(queue') = ToSet(queue) \cup {e}
      BY <1>0, <2>1, AppendSet DEF QueueType
    <2>3. \A i, j \in 1 .. Len(written') : written'[i] = written'[j] => i = j
      <3>1. /\ Len(written') = Len(written) + 1 /\ Len(written) \in Nat
            /\ written'[Len(written) + 1] = e
            /\ \A i \in 1 .. Len(written) : written'[i] = written[i] /\ written[i] # e
        BY <1>0, <2>1 DEF QueueType, ToSet
      <3>2. \A i \in 1 .. Len(written') : i \in 1 .. Len(written) \/ i = Len(written) + 1
        BY <3>1
      <3>. QED
        BY <1>0, <3>1, <3>2 DEF QueueInv
    <2>. QED
      BY <1>0, <1>1, <2>1, <2>2, <2>3 DEF WriteMessage, servers, QueueInv
  <1>2. CASE ChangeSettings
    BY <1>0, <1>2
    DEF ChangeSettings, Changes, protocolState, run, servers, history, QueueInv
  <1>3. CASE SetPicture
    BY <1>0, <1>3
    DEF SetPicture, Changes, settings, run, servers, history, QueueInv
  <1>4. CASE RemovePicture
    BY <1>0, <1>4
    DEF RemovePicture, Changes, settings, run, servers, history, QueueInv
  <1>5. CASE Expire
    BY <1>0, <1>5
    DEF Expire, Changes, settings, run, servers, history, QueueInv
  <1>6. CASE StartRun
    BY <1>0, <1>6
    DEF StartRun, Distribute, settings, servers, QueueInv
  <1>7. CASE UploadPicture
    BY <1>0, <1>7
    DEF UploadPicture, Uploaded, settings, servers, QueueInv
  <1>8. CASE ReadReflectAcks
    BY <1>0, <1>8
    DEF ReadReflectAcks, settings, protocolState, servers, history, QueueInv
  <1>9. CASE OmitReceiver
    BY <1>0, <1>9
    DEF OmitReceiver, settings, protocolState, servers, history, QueueInv
  <1>10. CASE SendToReceiver
    BY <1>0, <1>10
    DEF SendToReceiver, settings, protocolState, servers, history, QueueInv
  <1>11. CASE SendPicture
    BY <1>0, <1>11
    DEF SendPicture, settings, protocolState, servers, history, QueueInv
  <1>12. CASE ReadMessageAck
    BY <1>0, <1>12
    DEF ReadMessageAck, settings, protocolState, servers, history, QueueInv
  <1>13. CASE MirrorSent
    BY <1>0, <1>13
    DEF MirrorSent, settings, protocolState, servers, history, QueueInv
  <1>14. CASE FinishRun
    <2>1. ToSet(queue') \subseteq ToSet(queue) \ {Message} /\ Message \in ToSet(queue)
      BY <1>0, <1>14, HeadOnce, MessageQueued DEF FinishRun, RunInv
    <2>. QED
      BY <1>0, <1>14, <2>1 DEF FinishRun, servers, QueueInv
  <1>15. CASE GhostUploads
    BY <1>0, <1>15
    DEF GhostUploads, Uploaded, settings, run, servers, QueueInv
  <1>16. CASE MirrorMessages
    BY <1>0, <1>16
    DEF MirrorMessages, settings, protocolState, history, QueueInv
  <1>17. CASE ChatServerStores
    <2>1. Message \in ToSet(written)
      BY <1>0, <1>17, InboxAfterStore, MessageQueued DEF QueueInv
    <2>2. \A c \in Contacts : ToSet(inbox'[c]) \subseteq ToSet(inbox[c]) \cup {Message}
      BY <1>0, <1>17, InboxAfterStore
    <2>. QED
      BY <1>0, <1>17, <2>1, <2>2 DEF ChatServerStores, QueueInv
  <1>18. CASE Connect
    BY <1>0, <1>18
    DEF Connect, settings, protocolState, servers, history, QueueInv
  <1>19. CASE LoseConnection
    BY <1>0, <1>19
    DEF LoseConnection, Fails, EndRun, Untold, settings, protocolState, servers,
        QueueInv
  <1>20. CASE Restart
    <2>1. ToSet(queue') = {}
      BY <1>20 DEF Restart, ToSet
    <2>. QED
      BY <1>0, <1>20, <2>1 DEF Restart, servers, QueueInv
  <1>21. CASE UNCHANGED vars
    BY <1>0, <1>21
    DEF vars, settings, protocolState, run, servers, history, QueueInv
  <1>. QED
    BY <1>1, <1>2, <1>3, <1>4, <1>5, <1>6, <1>7, <1>8, <1>9, <1>10, <1>11,
       <1>12, <1>13, <1>14, <1>15, <1>16, <1>17, <1>18, <1>19, <1>20, <1>21
    DEF Next, User, Running, Sending, Servers

(* The queue and the arrived messages stay in order. *)
LEMMA OrderStep ==
    ASSUME ConstantsAssumption, IndInv, [Next]_vars
    PROVE  OrderInv' /\ InOrder'
  <1>0. QueueType /\ SettingsType /\ PictureType /\ RunType /\ AwaitedType /\ RunInv /\ QueueInv
        /\ OrderInv /\ InOrder
    BY TypeParts DEF IndInv
  <1>1. CASE WriteMessage
    <2>1. PICK e \in Messages \ ToSet(written) :
             written' = Append(written, e) /\ queue' = Append(queue, e) /\ inbox' = inbox
      BY <1>1 DEF WriteMessage, servers
    <2>2. /\ Len(queue') = Len(queue) + 1 /\ Len(queue) \in Nat /\ queue'[Len(queue) + 1] = e
          /\ \A k \in 1 .. Len(queue) : queue'[k] = queue[k] /\ queue[k] \in ToSet(written)
      <3>1. \A k \in 1 .. Len(queue) : queue[k] \in ToSet(queue)
        BY <1>0 DEF QueueType, ToSet
      <3>2. queue \in Seq(Messages) /\ e \in Messages /\ queue' = Append(queue, e)
        BY <1>0, <2>1 DEF QueueType
      <3>3. /\ Len(queue') = Len(queue) + 1 /\ Len(queue) \in Nat
            /\ queue'[Len(queue) + 1] = e
        BY <3>2
      <3>4. \A k \in 1 .. Len(queue) : queue'[k] = queue[k]
        BY <3>2
      <3>5. \A m \in ToSet(queue) : m \in ToSet(written)
        BY <1>0 DEF QueueInv
      <3>. QED
        BY <3>1, <3>3, <3>4, <3>5
    <2>3. \A k \in 1 .. Len(queue') : k \in 1 .. Len(queue) \/ k = Len(queue) + 1
      BY <2>2
    <2>4. \A k \in 1 .. Len(queue) : k >= 1 /\ k < Len(queue) + 1
      BY <2>2
    <2>5. ASSUME NEW k \in 1 .. Len(queue'), NEW l \in 1 .. Len(queue'), k < l
          PROVE  Before(queue[k], queue[l])'
      <3>1. k \in 1 .. Len(queue)
        BY <2>2, <2>3, <2>5
      <3>2. CASE l \in 1 .. Len(queue)
        <4>1. Before(queue[k], queue[l])
          BY <1>0, <2>5, <3>1, <3>2 DEF OrderInv
        <4>. QED
          BY <1>0, <2>1, <2>2, <3>1, <3>2, <4>1, BeforeStays
      <3>3. CASE l = Len(queue) + 1
        BY <1>0, <2>1, <2>2, <3>1, <3>3, WrittenLast
      <3>. QED
        BY <2>3, <3>2, <3>3
    <2>6. ASSUME NEW c \in Contacts, NEW m \in ToSet(inbox[c]), NEW k \in 1 .. Len(queue')
          PROVE  Before(m, queue[k])' \/ (k = 1 /\ m = queue'[1])
      <3>1. CASE k \in 1 .. Len(queue)
        <4>1. Before(m, queue[k]) \/ (k = 1 /\ m = queue[1])
          BY <1>0, <3>1 DEF OrderInv
        <4>. QED
          BY <1>0, <2>1, <2>2, <3>1, <4>1, BeforeStays
      <3>2. CASE k = Len(queue) + 1
        BY <1>0, <2>1, <2>2, <3>2, WrittenLast DEF QueueInv
      <3>. QED
        BY <2>3, <3>1, <3>2
    <2>7. InOrder'
      BY <1>0, <2>1, InboxKept
    <2>8. OrderInv'
      BY <2>1, <2>5, <2>6 DEF OrderInv
    <2>. QED
      BY <2>7, <2>8
  <1>2. CASE ChangeSettings
    <2>1. UNCHANGED <<queue, written, inbox>>
      BY <1>2 DEF ChangeSettings, Changes, protocolState, run, servers
    <2>. QED
      BY <1>0, <2>1, OrderFrame
  <1>3. CASE SetPicture
    <2>1. UNCHANGED <<queue, written, inbox>>
      BY <1>3 DEF SetPicture, Changes, settings, run, servers
    <2>. QED
      BY <1>0, <2>1, OrderFrame
  <1>4. CASE RemovePicture
    <2>1. UNCHANGED <<queue, written, inbox>>
      BY <1>4 DEF RemovePicture, Changes, settings, run, servers
    <2>. QED
      BY <1>0, <2>1, OrderFrame
  <1>5. CASE Expire
    <2>1. UNCHANGED <<queue, written, inbox>>
      BY <1>5 DEF Expire, Changes, settings, run, servers
    <2>. QED
      BY <1>0, <2>1, OrderFrame
  <1>6. CASE StartRun
    <2>1. UNCHANGED <<queue, written, inbox>>
      BY <1>6 DEF StartRun, settings, servers
    <2>. QED
      BY <1>0, <2>1, OrderFrame
  <1>7. CASE UploadPicture
    <2>1. UNCHANGED <<queue, written, inbox>>
      BY <1>7 DEF UploadPicture, settings, servers
    <2>. QED
      BY <1>0, <2>1, OrderFrame
  <1>8. CASE ReadReflectAcks
    <2>1. UNCHANGED <<queue, written, inbox>>
      BY <1>8 DEF ReadReflectAcks, settings, protocolState, servers
    <2>. QED
      BY <1>0, <2>1, OrderFrame
  <1>9. CASE OmitReceiver
    <2>1. UNCHANGED <<queue, written, inbox>>
      BY <1>9 DEF OmitReceiver, settings, protocolState, servers
    <2>. QED
      BY <1>0, <2>1, OrderFrame
  <1>10. CASE SendToReceiver
    <2>1. UNCHANGED <<queue, written, inbox>>
      BY <1>10 DEF SendToReceiver, settings, protocolState, servers
    <2>. QED
      BY <1>0, <2>1, OrderFrame
  <1>11. CASE SendPicture
    <2>1. UNCHANGED <<queue, written, inbox>>
      BY <1>11 DEF SendPicture, settings, protocolState, servers
    <2>. QED
      BY <1>0, <2>1, OrderFrame
  <1>12. CASE ReadMessageAck
    <2>1. UNCHANGED <<queue, written, inbox>>
      BY <1>12 DEF ReadMessageAck, settings, protocolState, servers
    <2>. QED
      BY <1>0, <2>1, OrderFrame
  <1>13. CASE MirrorSent
    <2>1. UNCHANGED <<queue, written, inbox>>
      BY <1>13 DEF MirrorSent, settings, protocolState, servers
    <2>. QED
      BY <1>0, <2>1, OrderFrame
  <1>14. CASE FinishRun
    <2>1. queue # <<>> /\ queue' = Tail(queue) /\ UNCHANGED <<written, inbox>>
      BY <1>0, <1>14 DEF FinishRun, servers, RunInv
    <2>2. \A k \in 1 .. Len(queue') :
             queue'[k] = queue[k + 1] /\ k + 1 \in 1 .. Len(queue) /\ k + 1 # 1
      BY <1>0, <2>1 DEF QueueType
    <2>3. \A k, l \in 1 .. Len(queue') : k < l => Before(queue[k + 1], queue[l + 1])
      BY <1>0, <2>2 DEF OrderInv
    <2>4. \A c \in Contacts : \A m \in ToSet(inbox[c]) : \A k \in 1 .. Len(queue') :
             Before(m, queue[k + 1])
      BY <1>0, <2>2 DEF OrderInv
    <2>5. \A m, n : Before(m, n)' <=> Before(m, n)
      BY <2>1 DEF Before
    <2>6. OrderInv'
      BY <2>1, <2>2, <2>3, <2>4, <2>5 DEF OrderInv
    <2>7. InOrder'
      BY <1>0, <2>1, InboxFrame
    <2>. QED
      BY <2>6, <2>7
  <1>15. CASE GhostUploads
    <2>1. UNCHANGED <<queue, written, inbox>>
      BY <1>15 DEF GhostUploads, settings, run, servers
    <2>. QED
      BY <1>0, <2>1, OrderFrame
  <1>16. CASE MirrorMessages
    <2>1. UNCHANGED <<queue, written, inbox>>
      BY <1>16 DEF MirrorMessages, settings, protocolState
    <2>. QED
      BY <1>0, <2>1, OrderFrame
  <1>17. CASE ChatServerStores
    <2>1. UNCHANGED <<queue, written>> /\ queue # <<>>
      BY <1>17, <1>0, InboxAfterStore DEF ChatServerStores
    <2>2. Message = queue[1] /\ Message \in Messages /\ 1 \in 1 .. Len(queue)
      BY <1>0, <2>1, MessageQueued
    <2>3. \A k \in 1 .. Len(queue) : k # 1 => 1 < k
      OBVIOUS
    <2>4. ASSUME NEW c \in Contacts, NEW m \in ToSet(inbox'[c]), NEW k \in 1 .. Len(queue)
          PROVE  Before(m, queue[k]) \/ (k = 1 /\ m = queue[1])
      <3>1. m \in ToSet(inbox[c]) \/ m = Message
        BY <1>0, <1>17, InboxAfterStore
      <3>. QED
        BY <1>0, <2>2, <2>3, <3>1 DEF OrderInv
    <2>5. ASSUME NEW c \in Contacts, NEW i \in 1 .. Len(inbox'[c]), NEW j \in 1 .. Len(inbox'[c]),
                 i < j
          PROVE  Before(inbox'[c][i], inbox'[c][j])
      <3>1. CASE inbox'[c] = inbox[c]
        BY <1>0, <2>5, <3>1 DEF InOrder, Before
      <3>2. CASE /\ Message \notin ToSet(inbox[c]) /\ inbox'[c] = Append(inbox[c], Message)
        <4>1. /\ Len(inbox'[c]) = Len(inbox[c]) + 1 /\ Len(inbox[c]) \in Nat
              /\ inbox'[c][Len(inbox[c]) + 1] = Message
              /\ \A k \in 1 .. Len(inbox[c]) : inbox'[c][k] = inbox[c][k]
              /\ \A k \in 1 .. Len(inbox[c]) : inbox[c][k] \in ToSet(inbox[c])
          BY <1>0, <2>2, <3>2 DEF QueueType, ToSet
        <4>2. i \in 1 .. Len(inbox[c]) /\ (j \in 1 .. Len(inbox[c]) \/ j = Len(inbox[c]) + 1)
          BY <2>5, <4>1
        <4>3. CASE j \in 1 .. Len(inbox[c])
          BY <1>0, <2>5, <4>1, <4>2, <4>3 DEF InOrder, Before
        <4>4. CASE j = Len(inbox[c]) + 1
          <5>1. inbox[c][i] \in ToSet(inbox[c]) /\ inbox[c][i] # queue[1]
            BY <2>2, <3>2, <4>1, <4>2
          <5>2. Before(inbox[c][i], queue[1])
            BY <1>0, <2>2, <5>1 DEF OrderInv
          <5>. QED
            BY <2>2, <4>1, <4>2, <4>4, <5>2
        <4>. QED
          BY <4>2, <4>3, <4>4
      <3>. QED
        BY <1>0, <1>17, <3>1, <3>2, InboxAfterStore
    <2>. QED
      BY <1>0, <2>1, <2>4, <2>5 DEF OrderInv, InOrder, Before
  <1>18. CASE Connect
    <2>1. UNCHANGED <<queue, written, inbox>>
      BY <1>18 DEF Connect, settings, protocolState, servers
    <2>. QED
      BY <1>0, <2>1, OrderFrame
  <1>19. CASE LoseConnection
    <2>1. UNCHANGED <<queue, written, inbox>>
      BY <1>19 DEF LoseConnection, settings, protocolState, servers
    <2>. QED
      BY <1>0, <2>1, OrderFrame
  <1>20. CASE Restart
    <2>1. queue' = <<>> /\ UNCHANGED <<written, inbox>>
      BY <1>20 DEF Restart, servers
    <2>. QED
      BY <1>0, <2>1 DEF OrderInv, InOrder, Before
  <1>21. CASE UNCHANGED vars
    BY <1>0, <1>21, OrderFrame
    DEF vars, servers
  <1>. QED
    BY <1>1, <1>2, <1>3, <1>4, <1>5, <1>6, <1>7, <1>8, <1>9, <1>10, <1>11,
       <1>12, <1>13, <1>14, <1>15, <1>16, <1>17, <1>18, <1>19, <1>20, <1>21
    DEF Next, User, Running, Sending, Servers

-----------------------------------------------------------------------------
(* What is stored *)

(* Everyone addressed is to be sent the message, or has it. *)
LEMMA StoreStep ==
    ASSUME ConstantsAssumption, IndInv, [Next]_vars
    PROVE  StoreInv' /\ SentMeansStored'
  <1>0. /\ QueueType /\ RunType /\ AwaitedType /\ RunInv /\ QueueInv
        /\ StoreInv /\ SentMeansStored
    BY TypeParts DEF IndInv
  <1>1. CASE WriteMessage
    <2>1. UNCHANGED <<addressed, phase, pending, awaited, inbox, mirrored, sentAt>>
      BY <1>1 DEF WriteMessage, run, servers, history
    <2>2. phase # "idle" => Head(queue') = Head(queue)
      BY <1>0, <1>1 DEF WriteMessage, RunInv, QueueType
    <2>. QED
      BY <1>0, <2>1, <2>2 DEF StoreInv, SentMeansStored, Message, RunType
  <1>2. CASE ChangeSettings
    <2>1. UNCHANGED <<queue, addressed, phase, pending, awaited, inbox, mirrored, sentAt>>
      BY <1>2 DEF ChangeSettings, Changes, protocolState, run, servers, history
    <2>. QED
      BY <1>0, <2>1 DEF StoreInv, SentMeansStored, Message
  <1>3. CASE SetPicture
    <2>1. UNCHANGED <<queue, addressed, phase, pending, awaited, inbox, mirrored, sentAt>>
      BY <1>3 DEF SetPicture, Changes, settings, run, servers, history
    <2>. QED
      BY <1>0, <2>1 DEF StoreInv, SentMeansStored, Message
  <1>4. CASE RemovePicture
    <2>1. UNCHANGED <<queue, addressed, phase, pending, awaited, inbox, mirrored, sentAt>>
      BY <1>4 DEF RemovePicture, Changes, settings, run, servers, history
    <2>. QED
      BY <1>0, <2>1 DEF StoreInv, SentMeansStored, Message
  <1>5. CASE Expire
    <2>1. UNCHANGED <<queue, addressed, phase, pending, awaited, inbox, mirrored, sentAt>>
      BY <1>5 DEF Expire, Changes, settings, run, servers, history
    <2>. QED
      BY <1>0, <2>1 DEF StoreInv, SentMeansStored, Message
  <1>6. CASE StartRun
    <2>1. Message \in Messages /\ Message \notin sentAt
      BY <1>0, <1>6, MessageQueued DEF StartRun, QueueInv
    <2>2. /\ addressed' = [addressed EXCEPT ![Message] = (members \ blocked) \ Omits[Message]]
          /\ pending' = members \ blocked
          /\ phase' \in {"upload", "reflect"}
          /\ UNCHANGED <<queue, inbox, mirrored, sentAt>>
      BY <1>6 DEF StartRun, servers
    <2>3. SentMeansStored'
      BY <1>0, <2>1, <2>2 DEF SentMeansStored, RunType
    <2>4. StoreInv'
      BY <1>0, <2>1, <2>2 DEF StoreInv, RunType, Message
    <2>. QED
      BY <2>3, <2>4
  <1>7. CASE UploadPicture
    <2>1. UNCHANGED <<queue, addressed, pending, awaited, inbox, mirrored, sentAt>> /\ phase # "idle"
          /\ phase' \in {"upload", "reflect"}
      BY <1>0, <1>7 DEF UploadPicture, servers
    <2>. QED
      BY <1>0, <2>1 DEF StoreInv, SentMeansStored, Message
  <1>8. CASE ReadReflectAcks
    <2>1. UNCHANGED <<queue, addressed, pending, awaited, inbox, mirrored, sentAt>> /\ phase = "reflected" /\ phase' = "send"
      BY <1>0, <1>8 DEF ReadReflectAcks, servers, history
    <2>. QED
      BY <1>0, <2>1 DEF StoreInv, SentMeansStored, Message
  <1>9. CASE OmitReceiver
    <2>1. /\ UNCHANGED <<queue, addressed, phase, awaited, inbox, mirrored, sentAt>>
          /\ phase = "send" /\ \E c \in Omits[Message] : pending' = pending \ {c}
      BY <1>9 DEF OmitReceiver, servers, history
    <2>2. Message \in Messages
      BY <1>0, <2>1, MessageQueued DEF RunInv
    <2>. QED
      BY <1>0, <2>1, <2>2 DEF StoreInv, SentMeansStored, Message
  <1>10. CASE SendToReceiver
    <2>1. /\ UNCHANGED <<queue, addressed, phase, inbox, mirrored, sentAt>>
          /\ phase = "send" /\ awaited = NotAwaited
      BY <1>10 DEF SendToReceiver, servers, history
    <2>2. PICK c \in pending :
             /\ awaited' = [state |-> "written", to |-> c, removes |-> FALSE, main |-> TRUE]
             /\ pending' = pending \ {c}
      BY <1>10 DEF SendToReceiver
    <2>3. awaited.state # "written"
      BY <2>1 DEF NotAwaited
    <2>. QED
      BY <1>0, <2>1, <2>2, <2>3 DEF StoreInv, SentMeansStored, Message
  <1>11. CASE SendPicture
    <2>1. /\ UNCHANGED <<queue, addressed, phase, pending, inbox, mirrored, sentAt>>
          /\ phase = "send" /\ awaited = NotAwaited
      BY <1>11 DEF SendPicture, servers, history
    <2>2. awaited.state # "written"
      BY <2>1 DEF NotAwaited
    <2>. QED
      BY <1>0, <2>1, <2>2 DEF StoreInv, SentMeansStored, Message
  <1>12. CASE ReadMessageAck
    <2>1. /\ UNCHANGED <<queue, addressed, phase, pending, inbox, mirrored, sentAt>>
          /\ awaited.state = "stored"
      BY <1>12 DEF ReadMessageAck, servers, history
    <2>. QED
      BY <1>0, <2>1 DEF StoreInv, SentMeansStored, Message
  <1>13. CASE MirrorSent
    <2>1. UNCHANGED <<queue, addressed, pending, awaited, inbox, mirrored, sentAt>> /\ phase = "send" /\ phase' = "sent" /\ pending = {}
      BY <1>0, <1>13 DEF MirrorSent, servers, history
    <2>. QED
      BY <1>0, <2>1 DEF StoreInv, SentMeansStored, Message
  <1>14. CASE FinishRun
    <2>1. UNCHANGED <<addressed, pending, awaited, inbox, mirrored>> /\ phase = "sent" /\ phase' = "idle"
      BY <1>14 DEF FinishRun, servers, history
    <2>2. sentAt' = sentAt \cup {Message}
      BY <1>14 DEF FinishRun
    <2>3. awaited.state # "written"
      BY <1>0, <2>1 DEF RunInv, NotAwaited
    <2>4. \A c \in addressed[Message] : Message \in ToSet(inbox[c])
      BY <1>0, <2>1, <2>3 DEF StoreInv
    <2>. QED
      BY <1>0, <2>1, <2>2, <2>4 DEF StoreInv, SentMeansStored
  <1>15. CASE GhostUploads
    <2>1. UNCHANGED <<queue, addressed, phase, pending, awaited, inbox, mirrored, sentAt>>
      BY <1>15 DEF GhostUploads, settings, run, servers
    <2>. QED
      BY <1>0, <2>1 DEF StoreInv, SentMeansStored, Message
  <1>16. CASE MirrorMessages
    <2>1. /\ UNCHANGED <<queue, addressed, pending, awaited, inbox, sentAt>>
          /\ phase = "reflect" /\ phase' = "reflected" /\ mirrored' = mirrored \cup {Message}
      BY <1>16 DEF MirrorMessages, history
    <2>. QED
      BY <1>0, <2>1 DEF StoreInv, SentMeansStored, Message
  <1>17. CASE ChatServerStores
    <2>1. /\ UNCHANGED <<queue, addressed, phase, pending, mirrored, sentAt>>
          /\ phase = "send" /\ awaited.state = "written"
          /\ awaited'.state = "stored"
      <3>1. awaited # NotAwaited /\ awaited.state = "written"
        BY <1>0, <1>17, AwaitedShape DEF ChatServerStores
      <3>2. awaited \in [state : {"written", "stored"}, to : Contacts,
                         removes : BOOLEAN, main : BOOLEAN]
        BY <1>0, <3>1 DEF AwaitedType
      <3>. QED
        BY <1>0, <1>17, <3>1, <3>2 DEF ChatServerStores, RunInv
    <2>2. \A c \in Contacts : ToSet(inbox[c]) \subseteq ToSet(inbox'[c])
                              /\ ToSet(inbox'[c]) \subseteq ToSet(inbox[c]) \cup {Message}
      BY <1>0, <1>17, InboxAfterStore
    <2>3. awaited.main => Message \in ToSet(inbox'[awaited.to])
      <3>1. SUFFICES ASSUME awaited.main
                     PROVE  Message \in ToSet(inbox'[awaited.to])
        OBVIOUS
      <3>2. inbox' = IF Message \in ToSet(inbox[awaited.to]) THEN inbox
                     ELSE [inbox EXCEPT ![awaited.to] = Append(@, Message)]
        BY <1>17, <3>1 DEF ChatServerStores
      <3>3. awaited.to \in Contacts /\ Message \in Messages
        BY <1>0, <1>17, InboxAfterStore, MessageQueued
      <3>4. inbox[awaited.to] \in Seq(Messages)
        BY <1>0, <3>3 DEF QueueType
      <3>5. Message \in ToSet(Append(inbox[awaited.to], Message))
        BY <3>3, <3>4, AppendSet
      <3>. QED
        BY <1>0, <3>2, <3>3, <3>5 DEF QueueType
    <2>4. addressed \in [Messages -> SUBSET Contacts] /\ Message \in Messages /\ sentAt \subseteq Messages
      BY <1>0, <1>17, InboxAfterStore, MessageQueued DEF RunType
    <2>5. SentMeansStored'
      BY <1>0, <2>1, <2>2, <2>4 DEF SentMeansStored, StoreInv
    <2>6. StoreInv'
      BY <1>0, <2>1, <2>2, <2>3, <2>4 DEF StoreInv, Message
    <2>. QED
      BY <2>5, <2>6
  <1>18. CASE Connect
    <2>1. UNCHANGED <<queue, addressed, phase, pending, awaited, inbox, mirrored, sentAt>>
      BY <1>18 DEF Connect, settings, protocolState, servers, history
    <2>. QED
      BY <1>0, <2>1 DEF StoreInv, SentMeansStored, Message
  <1>19. CASE LoseConnection
    <2>1. UNCHANGED <<addressed, inbox, mirrored, sentAt>> /\ phase' = "idle"
      BY <1>19 DEF LoseConnection, EndRun, servers
    <2>. QED
      BY <1>0, <2>1 DEF StoreInv, SentMeansStored
  <1>20. CASE Restart
    <2>1. UNCHANGED <<addressed, inbox, mirrored, sentAt>> /\ phase' = "idle"
      BY <1>20 DEF Restart, EndRun, servers
    <2>. QED
      BY <1>0, <2>1 DEF StoreInv, SentMeansStored
  <1>21. CASE UNCHANGED vars
    <2>1. UNCHANGED <<queue, addressed, phase, pending, awaited, inbox, mirrored, sentAt>>
      BY <1>21 DEF vars, run, servers, history
    <2>. QED
      BY <1>0, <2>1 DEF StoreInv, SentMeansStored, Message
  <1>. QED
    BY <1>1, <1>2, <1>3, <1>4, <1>5, <1>6, <1>7, <1>8, <1>9, <1>10, <1>11,
       <1>12, <1>13, <1>14, <1>15, <1>16, <1>17, <1>18, <1>19, <1>20, <1>21
    DEF Next, User, Running, Sending, Servers

-----------------------------------------------------------------------------
(* What the contacts have been told *)

(* Nothing changes for the pictures. *)
LEMMA PictureFrame ==
    ASSUME PictureInv, ToldAsCached,
           UNCHANGED <<profile, cache, contentOf, uploading, pics, awaited, pictureAt, lost>>
    PROVE  PictureInv' /\ ToldAsCached'
  BY DEF PictureInv, ToldAsCached, Untold, Tells, Content, Conveyed

(* A new blob replaces none that an entry refers to. *)
LEMMA ContentKept ==
    ASSUME ConstantsAssumption, TypeOK, NEW picture, NEW c \in Contacts,
           contentOf' = [contentOf EXCEPT ![FreshBlob] = picture],
           cache'[c] = cache[c], cache[c] # NoEntry
    PROVE  Content(c)' = Content(c)
  <1>1. cache[c] # FreshBlob /\ FreshBlob \in 1 .. MaxBlobs
    BY FreshBlobIsFresh
  <1>2. cache[c] = Removed \/ cache[c] \in 1 .. MaxBlobs
    BY DEF TypeOK, CacheValues, NoEntry, Removed, ConstantsAssumption
  <1>3. contentOf \in [1 .. MaxBlobs -> Pictures]
    BY DEF TypeOK
  <1>. QED
    BY <1>1, <1>2, <1>3 DEF Content

(* Nor the one that messages carry. *)
LEMMA ConveyedKept ==
    ASSUME ConstantsAssumption, TypeOK, NEW picture, NEW removes,
           contentOf' = [contentOf EXCEPT ![FreshBlob] = picture],
           uploading'.blob = uploading.blob, removes \/ uploading.blob # NoEntry
    PROVE  Conveyed(removes)' = Conveyed(removes)
  <1>1. uploading.blob # FreshBlob
    BY FreshBlobIsFresh
  <1>2. uploading.blob \in 0 .. MaxBlobs /\ contentOf \in [1 .. MaxBlobs -> Pictures]
    BY DEF TypeOK
  <1>. QED
    BY <1>1, <1>2 DEF Conveyed, NoEntry

(* What an upload for c writes. *)
LEMMA UploadedContent ==
    ASSUME ConstantsAssumption, TypeOK, NEW c \in Contacts, NEW picture, Uploaded(c, picture)
    PROVE  /\ cache'[c] # NoEntry /\ Content(c)' = picture
           /\ profile'.blob # NoEntry /\ profile'.picture = picture
           /\ contentOf'[profile'.blob] = picture /\ contentOf'[FreshBlob] = picture
           /\ FreshBlob # NoEntry
           /\ contentOf' = [contentOf EXCEPT ![FreshBlob] = picture]
           /\ \A d \in Contacts : d # c => cache'[d] = cache[d]
           /\ \A d \in Contacts : d # c /\ cache[d] # NoEntry => Content(d)' = Content(d)
  <1>1. FreshBlob \in 1 .. MaxBlobs
    BY FreshBlobIsFresh
  <1>2. FreshBlob # NoEntry /\ FreshBlob # Removed
    BY <1>1 DEF NoEntry, Removed, ConstantsAssumption
  <1>3. cache \in [Contacts -> CacheValues] /\ contentOf \in [1 .. MaxBlobs -> Pictures]
    BY DEF TypeOK
  <1>4. \A d \in Contacts : d # c /\ cache[d] # NoEntry => Content(d)' = Content(d)
    BY <1>3, ContentKept DEF Uploaded
  <1>. QED
    BY <1>1, <1>2, <1>3, <1>4 DEF Uploaded, Content

\* A picture message consists of its receiver and what it is about.
LEMMA PictureShape ==
    ASSUME PictureType, NEW p \in pics
    PROVE  p = [to |-> p.to, removes |-> p.removes] /\ p.to \in Contacts /\ p.removes \in BOOLEAN
  BY DEF PictureType

\* Who is still to be told is awaited or in line.
LEMMA UntoldShape ==
    ASSUME AwaitedType
    PROVE  /\ \A c : c \in Untold <=> \/ \E p \in pics : p.to = c
                                      \/ /\ awaited # NotAwaited /\ awaited.state = "written"
                                         /\ ~awaited.main /\ awaited.to = c
  BY AwaitedShape DEF Untold

(* The cache tells what was told. *)
LEMMA PictureStep ==
    ASSUME ConstantsAssumption, IndInv, [Next]_vars
    PROVE  PictureInv' /\ ToldAsCached'
  <1>0. /\ SettingsType /\ PictureType /\ AwaitedType /\ RunInv /\ TypeOK
        /\ PictureInv /\ ToldAsCached
    BY TypeParts DEF IndInv
  <1>1. CASE WriteMessage
    <2>1. UNCHANGED <<profile, cache, contentOf, uploading, pics, awaited, pictureAt, lost>>
      BY <1>1 DEF WriteMessage, settings, protocolState, run, servers, history
    <2>. QED
      BY <1>0, <2>1, PictureFrame
  <1>2. CASE ChangeSettings
    <2>1. UNCHANGED <<profile, cache, contentOf, uploading, pics, awaited, pictureAt, lost>>
      BY <1>2 DEF ChangeSettings, Changes, protocolState, run, servers, history
    <2>. QED
      BY <1>0, <2>1, PictureFrame
  <1>3. CASE SetPicture
    <2>1. /\ UNCHANGED <<cache, uploading, pics, awaited, pictureAt, lost>>
          /\ pics = {} /\ awaited = NotAwaited
          /\ contentOf' = [contentOf EXCEPT ![FreshBlob] = changes']
          /\ profile' = [picture |-> changes', blob |-> FreshBlob, expired |-> FALSE]
      BY <1>0, <1>3 DEF SetPicture, run, servers, history, RunInv
    <2>2. FreshBlob \in 1 .. MaxBlobs /\ FreshBlob # NoEntry
      BY <1>0, FreshBlobIsFresh DEF NoEntry
    <2>3. PictureInv'
      <3>1. uploading.blob # FreshBlob
        BY <1>0, FreshBlobIsFresh
      <3>2. uploading'.blob # NoEntry => contentOf'[uploading'.blob] = uploading'.picture
        BY <1>0, <2>1, <2>2, <3>1 DEF PictureInv, PictureType, NoEntry
      <3>. QED
        BY <1>0, <2>1, <2>2, <3>2 DEF PictureInv, PictureType
    <2>4. \A c \in Contacts : cache[c] # NoEntry => Content(c)' = Content(c)
      BY <1>0, <2>1, ContentKept
    <2>5. ToldAsCached'
      BY <1>0, <2>1, <2>4 DEF ToldAsCached, Untold, Content
    <2>. QED
      BY <2>3, <2>5
  <1>4. CASE RemovePicture
    <2>1. /\ UNCHANGED <<cache, contentOf, uploading, pics, awaited, pictureAt, lost>>
          /\ profile'.picture = NoPicture
      BY <1>4 DEF RemovePicture, run, servers, history
    <2>. QED
      BY <1>0, <2>1 DEF PictureInv, ToldAsCached, Untold, Tells, Content, Conveyed
  <1>5. CASE Expire
    <2>1. /\ UNCHANGED <<contentOf, uploading, pics, awaited, pictureAt, lost>>
          /\ profile'.picture = profile.picture /\ profile'.blob = profile.blob
          /\ \A c \in Contacts : cache'[c] = NoEntry \/ cache'[c] = cache[c]
      BY <1>0, <1>5 DEF Expire, run, servers, history, PictureType
    <2>2. \A c \in Contacts : Tells(c, pictureAt[c]) => Tells(c, pictureAt[c])'
      BY <2>1 DEF Tells, Content
    <2>3. \A p \in pics : p.to \in Contacts
      BY <1>0 DEF PictureType
    <2>4. awaited # NotAwaited => awaited.to \in Contacts
      BY <1>0, AwaitedShape
    <2>. QED
      BY <1>0, <2>1, <2>3, <2>4 DEF PictureInv, ToldAsCached, Untold, Tells, Content, Conveyed
  <1>6. CASE StartRun
    <2>. DEFINE receivers == members \ blocked
                granted == IF profile.picture = NoPicture THEN {} ELSE receivers \cap sharedWith
                removes == {c \in receivers \ granted : cache[c] # Removed}
                sets == IF profile.expired THEN {} ELSE {c \in granted : cache[c] # profile.blob}
    <2>1. /\ cache' = [c \in Contacts |-> IF c \in removes THEN Removed
                                         ELSE IF c \in sets THEN profile.blob
                                         ELSE cache[c]]
          /\ pics' = {[to |-> c, removes |-> TRUE] : c \in removes}
                       \cup {[to |-> c, removes |-> FALSE] : c \in sets}
          /\ uploading'.to = IF profile.expired THEN granted ELSE {}
          /\ uploading'.picture = profile.picture
          /\ uploading'.blob = IF sets = {} THEN NoEntry ELSE profile.blob
      BY <1>6 DEF StartRun, Distribute
    <2>2. UNCHANGED <<profile, contentOf, awaited, pictureAt, lost>>
      BY <1>6 DEF StartRun, servers
    <2>3. /\ removes \subseteq Contacts /\ sets \subseteq Contacts
          /\ removes \cap sets = {}
          /\ removes \cap uploading'.to = {} /\ sets \cap uploading'.to = {}
      BY <1>0, <2>1 DEF SettingsType
    <2>4. sets # {} => /\ profile.picture # NoPicture /\ profile.blob # Removed
                       /\ profile.blob # NoEntry
                       /\ contentOf[profile.blob] = profile.picture
      BY <1>0 DEF PictureInv, PictureType, Removed, ConstantsAssumption
    <2>5. pics = {} /\ awaited = NotAwaited /\ awaited.state # "written"
      BY <1>0, <1>6 DEF StartRun, RunInv, NotAwaited
    <2>. HIDE DEF removes, sets, granted, receivers
    <2>6. \A p \in pics' : \/ p.to \in removes /\ p = [to |-> p.to, removes |-> TRUE]
                           \/ p.to \in sets /\ p = [to |-> p.to, removes |-> FALSE]
      BY <2>1
    <2>14. /\ Conveyed(TRUE)' = NoPicture
           /\ sets # {} => Conveyed(FALSE)' = profile.picture
      BY <2>1, <2>2, <2>4 DEF Conveyed
    <2>15. \A p \in pics' : \/ p.to \in removes /\ p.removes /\ p.removes = TRUE
                            \/ p.to \in sets /\ sets # {} /\ ~p.removes /\ p.removes = FALSE
      BY <2>6
    <2>7. \A c \in removes : Content(c)' = NoPicture
      BY <2>1, <2>3 DEF Content
    <2>8. \A c \in sets : Content(c)' = profile.picture
      BY <2>1, <2>2, <2>3, <2>4 DEF Content
    <2>9. PictureInv'
      <3>1. \A p, q \in pics' : p.to = q.to => p = q
        BY <2>3, <2>6
      <3>2. \A p \in pics' : p.to \notin uploading'.to /\ Tells(p.to, Conveyed(p.removes))'
        <4>1. \A c \in removes : Tells(c, Conveyed(TRUE))'
          BY <2>7, <2>14 DEF Tells
        <4>2. \A c \in sets : Tells(c, Conveyed(FALSE))'
          BY <2>8, <2>14 DEF Tells
        <4>. QED
          BY <2>3, <2>15, <4>1, <4>2
      <3>3. /\ \A p \in pics' : p.removes \/ uploading'.blob # NoEntry
            /\ uploading'.blob # NoEntry => contentOf'[uploading'.blob] = uploading'.picture
        BY <2>1, <2>2, <2>4, <2>15
      <3>. QED
        BY <1>0, <2>2, <2>5, <3>1, <3>2, <3>3 DEF PictureInv
    <2>10. \A c \in removes \cup sets : \E p \in pics' : p.to = c
      <3>1. \A c \in removes : [to |-> c, removes |-> TRUE] \in pics'
        BY <2>1
      <3>2. \A c \in sets : [to |-> c, removes |-> FALSE] \in pics'
        BY <2>1
      <3>. QED
        BY <3>1, <3>2
    <2>11. \A c \in Contacts \ (removes \cup sets) : cache'[c] = cache[c]
      BY <2>1
    <2>12. Untold = {} /\ removes \cup sets \subseteq Untold'
      BY <2>5, <2>10 DEF Untold
    <2>13. ToldAsCached'
      BY <1>0, <2>2, <2>11, <2>12 DEF ToldAsCached
    <2>. QED
      BY <2>9, <2>13
  <1>7. CASE UploadPicture
    <2>. DEFINE picture == uploading.picture
    <2>1. PICK c \in uploading.to :
             /\ Uploaded(c, picture)
             /\ uploading' = [uploading EXCEPT !.to = @ \ {c}, !.blob = FirstBlob]
             /\ pics' \subseteq pics \cup {[to |-> c, removes |-> FALSE]}
             /\ lost' = lost \cup {p.to : p \in (pics \cup {[to |-> c, removes |-> FALSE]})
                                                   \ pics'}
      BY <1>7 DEF UploadPicture
    <2>11. /\ uploading'.to = uploading.to \ {c} /\ uploading'.blob = FirstBlob
           /\ uploading'.picture = picture
      BY <1>0, <2>1 DEF PictureType
    <2>. HIDE DEF picture
    <2>. DEFINE new == [to |-> c, removes |-> FALSE]
    <2>2. awaited = NotAwaited /\ awaited.state # "written" /\ UNCHANGED <<awaited, pictureAt>>
      BY <1>0, <1>7 DEF UploadPicture, servers, RunInv, NotAwaited
    <2>3. c \in Contacts /\ \A p \in pics : p.to # c /\ p.to \in Contacts
      BY <1>0, <2>1 DEF PictureInv, PictureType
    <2>4. new.to = c /\ new.removes = FALSE
      OBVIOUS
    <2>5. \A p \in pics' : p \in pics \/ p = new
      BY <2>1
    <2>6. \A p \in pics \cup {new} : p \in pics' \/ p.to \in lost'
      BY <2>1
    <2>. HIDE DEF new
    <2>7. lost \subseteq lost'
      BY <2>1
    <2>8. /\ Content(c)' = picture
          /\ \A d \in Contacts \ {c} : cache[d] # NoEntry => Content(d)' = Content(d)
          /\ \A d \in Contacts \ {c} : cache'[d] = cache[d]
          /\ profile'.blob # NoEntry /\ contentOf'[profile'.blob] = profile'.picture
          /\ FreshBlob # NoEntry /\ contentOf'[FreshBlob] = picture
          /\ contentOf' = [contentOf EXCEPT ![FreshBlob] = picture]
      BY <1>0, <2>1, <2>3, UploadedContent
    <2>12. /\ uploading'.blob # NoEntry /\ contentOf'[uploading'.blob] = picture
           /\ uploading.blob # NoEntry => uploading'.blob = uploading.blob
      <3>1. CASE uploading.blob = NoEntry
        BY <2>8, <2>11, <3>1 DEF FirstBlob
      <3>2. CASE uploading.blob # NoEntry
        <4>1. contentOf[uploading.blob] = picture
          BY <1>0, <3>2 DEF PictureInv, picture
        <4>2. Conveyed(FALSE)' = Conveyed(FALSE) /\ uploading'.blob = uploading.blob
          BY <1>0, <2>8, <2>11, <3>2, ConveyedKept DEF FirstBlob
        <4>. QED
          BY <3>2, <4>1, <4>2 DEF Conveyed
      <3>. QED
        BY <3>1, <3>2
    <2>13. \A p \in pics : Conveyed(p.removes)' = Conveyed(p.removes)
      <3>1. SUFFICES ASSUME NEW p \in pics
                     PROVE  Conveyed(p.removes)' = Conveyed(p.removes)
        OBVIOUS
      <3>2. p.removes \/ uploading.blob # NoEntry
        BY <1>0 DEF PictureInv
      <3>3. CASE uploading.blob # NoEntry
        BY <1>0, <2>8, <2>12, <3>3, ConveyedKept
      <3>4. CASE p.removes
        BY <3>4 DEF Conveyed
      <3>. QED
        BY <3>2, <3>3, <3>4
    <2>9. PictureInv'
      <3>1. \A p \in pics : Tells(p.to, Conveyed(p.removes))'
        <4>1. \A p \in pics : Tells(p.to, Conveyed(p.removes))
          BY <1>0 DEF PictureInv
        <4>. QED
          BY <2>3, <2>7, <2>8, <2>13, <4>1 DEF Tells
      <3>2. Tells(new.to, Conveyed(new.removes))'
        <4>1. Conveyed(FALSE)' = picture
          BY <2>12 DEF Conveyed
        <4>. QED
          BY <2>4, <2>8, <4>1 DEF Tells
      <3>3. \A p, q \in pics' : p.to = q.to => p = q
        BY <1>0, <2>3, <2>4, <2>5 DEF PictureInv
      <3>4. \A p \in pics' : p.to \notin uploading'.to
        BY <1>0, <2>11, <2>4, <2>5 DEF PictureInv
      <3>. QED
        BY <2>2, <2>5, <2>8, <2>11, <2>12, <3>1, <3>2, <3>3, <3>4 DEF PictureInv
    <2>10. ToldAsCached'
      <3>1. ASSUME NEW d \in Contacts, d \notin lost', d \notin Untold'
            PROVE  d # c /\ d \notin lost /\ d \notin Untold
        <4>1. \A p \in pics \cup {new} : p.to # d
          BY <2>6, <3>1 DEF Untold
        <4>. QED
          BY <2>2, <2>4, <2>7, <3>1, <4>1 DEF Untold
      <3>. QED
        BY <1>0, <2>2, <2>8, <3>1 DEF ToldAsCached, Content
    <2>. QED
      BY <2>9, <2>10
  <1>8. CASE ReadReflectAcks
    <2>1. UNCHANGED <<profile, cache, contentOf, uploading, pics, awaited, pictureAt, lost>>
      BY <1>8 DEF ReadReflectAcks, settings, protocolState, servers, history
    <2>. QED
      BY <1>0, <2>1, PictureFrame
  <1>9. CASE OmitReceiver
    <2>1. UNCHANGED <<profile, cache, contentOf, uploading, pics, awaited, pictureAt, lost>>
      BY <1>9 DEF OmitReceiver, settings, protocolState, servers, history
    <2>. QED
      BY <1>0, <2>1, PictureFrame
  <1>10. CASE SendToReceiver
    <2>1. /\ UNCHANGED <<profile, cache, contentOf, uploading, pics, pictureAt, lost>>
          /\ awaited = NotAwaited /\ awaited'.main
      BY <1>10 DEF SendToReceiver, protocolState, servers, history
    <2>2. awaited.state # "written" /\ Untold' = Untold
      BY <2>1 DEF NotAwaited, Untold
    <2>. QED
      BY <1>0, <2>1, <2>2 DEF PictureInv, ToldAsCached, Tells, Content, Conveyed
  <1>11. CASE SendPicture
    <2>1. PICK p \in pics : /\ awaited' = [state |-> "written", to |-> p.to, removes |-> p.removes,
                                          main |-> FALSE]
                            /\ pics' = pics \ {p}
      BY <1>11 DEF SendPicture
    <2>2. /\ UNCHANGED <<profile, cache, contentOf, uploading, pictureAt, lost>>
          /\ awaited = NotAwaited /\ awaited.state # "written"
      BY <1>11 DEF SendPicture, protocolState, servers, history, NotAwaited
    <2>3. Untold' = Untold
      BY <2>1, <2>2 DEF Untold
    <2>4. PictureInv'
      <3>1. \A q \in pics' : q \in pics /\ q.to # p.to
        BY <1>0, <2>1 DEF PictureInv
      <3>2. Tells(p.to, Conveyed(p.removes)) /\ (p.removes \/ uploading.blob # NoEntry)
        BY <1>0, <2>1 DEF PictureInv
      <3>3. \A c, removes : Tells(c, Conveyed(removes)) => Tells(c, Conveyed(removes))'
        BY <2>2 DEF Tells, Content, Conveyed
      <3>4. awaited'.to = p.to /\ awaited'.removes = p.removes
        BY <2>1
      <3>. QED
        BY <1>0, <2>2, <3>1, <3>2, <3>3, <3>4 DEF PictureInv
    <2>5. ToldAsCached'
      BY <1>0, <2>2, <2>3 DEF ToldAsCached
    <2>. QED
      BY <2>4, <2>5
  <1>12. CASE ReadMessageAck
    <2>1. /\ UNCHANGED <<profile, cache, contentOf, uploading, pics, pictureAt, lost>>
          /\ awaited.state = "stored" /\ awaited' = NotAwaited
      BY <1>12 DEF ReadMessageAck, protocolState, servers, history
    <2>2. Untold' = Untold
      BY <2>1 DEF NotAwaited, Untold
    <2>. QED
      BY <1>0, <2>1, <2>2 DEF PictureInv, ToldAsCached, Tells, Content, Conveyed
  <1>13. CASE MirrorSent
    <2>1. UNCHANGED <<profile, cache, contentOf, uploading, pics, awaited, pictureAt, lost>>
      BY <1>13 DEF MirrorSent, settings, protocolState, servers, history
    <2>. QED
      BY <1>0, <2>1, PictureFrame
  <1>14. CASE FinishRun
    <2>1. UNCHANGED <<profile, cache, contentOf, uploading, pics, awaited, pictureAt, lost>>
      BY <1>14 DEF FinishRun, settings, protocolState, servers, history
    <2>. QED
      BY <1>0, <2>1, PictureFrame
  <1>15. CASE GhostUploads
    <2>1. PICK c \in ghost.to : Uploaded(c, ghost.picture) /\ lost' = lost \cup {c}
      BY <1>15 DEF GhostUploads
    <2>2. UNCHANGED <<uploading, pics, awaited, pictureAt>>
      BY <1>15 DEF GhostUploads, run, servers
    <2>3. c \in Contacts /\ \A p \in pics : p.to \in Contacts
      BY <1>0, <2>1 DEF PictureType
    <2>4. /\ \A d \in Contacts \ {c} : cache[d] # NoEntry => Content(d)' = Content(d)
          /\ \A d \in Contacts \ {c} : cache'[d] = cache[d]
          /\ profile'.blob # NoEntry /\ contentOf'[profile'.blob] = profile'.picture
          /\ contentOf' = [contentOf EXCEPT ![FreshBlob] = ghost.picture]
      BY <1>0, <2>1, <2>3, UploadedContent
    <2>10. \A removes : removes \/ uploading.blob # NoEntry =>
              Conveyed(removes)' = Conveyed(removes)
      BY <1>0, <2>2, <2>4, ConveyedKept
    <2>11. uploading.blob # NoEntry => contentOf'[uploading.blob] = contentOf[uploading.blob]
      BY <2>2, <2>10 DEF Conveyed
    <2>5. \A d \in Contacts : \A picture : Tells(d, picture) => Tells(d, picture)'
      BY <2>1, <2>4 DEF Tells
    <2>6. awaited # NotAwaited => awaited.to \in Contacts
      BY <1>0, AwaitedShape
    <2>7. PictureInv'
      <3>1. \A p \in pics : Tells(p.to, Conveyed(p.removes))'
        BY <1>0, <2>3, <2>5, <2>10 DEF PictureInv
      <3>2. awaited # NotAwaited /\ ~awaited.main /\ awaited.state = "written" =>
               Tells(awaited.to, Conveyed(awaited.removes))'
        <4>. SUFFICES ASSUME awaited # NotAwaited, ~awaited.main, awaited.state = "written"
                      PROVE  Tells(awaited.to, Conveyed(awaited.removes))'
          OBVIOUS
        <4>1. Tells(awaited.to, Conveyed(awaited.removes)) /\ awaited.to \in Contacts
          BY <1>0, <2>6 DEF PictureInv
        <4>2. awaited.removes \/ uploading.blob # NoEntry
          BY <1>0 DEF PictureInv
        <4>3. Conveyed(awaited.removes)' = Conveyed(awaited.removes)
          BY <2>2, <2>10, <4>2 DEF Conveyed
        <4>. QED
          BY <2>2, <2>5, <4>1, <4>3 DEF Tells
      <3>. QED
        BY <1>0, <2>2, <2>4, <2>11, <3>1, <3>2 DEF PictureInv
    <2>8. Untold' = Untold
      BY <2>2 DEF Untold
    <2>9. ToldAsCached'
      BY <1>0, <2>1, <2>2, <2>4, <2>8 DEF ToldAsCached, Content
    <2>. QED
      BY <2>7, <2>9
  <1>16. CASE MirrorMessages
    <2>1. UNCHANGED <<profile, cache, contentOf, uploading, pics, awaited, pictureAt, lost>>
      BY <1>16 DEF MirrorMessages, settings, protocolState, history
    <2>. QED
      BY <1>0, <2>1, PictureFrame
  <1>17. CASE ChatServerStores
    <2>1. /\ UNCHANGED <<profile, cache, contentOf, uploading, pics>>
          /\ awaited.state = "written" /\ awaited' = [awaited EXCEPT !.state = "stored"]
      BY <1>17 DEF ChatServerStores, protocolState
    <2>2. awaited \in [state : {"written", "stored"}, to : Contacts,
                       removes : BOOLEAN, main : BOOLEAN]
      BY <1>0, <2>1 DEF AwaitedType, NotAwaited
    <2>3. /\ awaited'.state = "stored" /\ awaited'.to = awaited.to
          /\ awaited'.main = awaited.main /\ awaited # NotAwaited
          /\ awaited'.removes = awaited.removes
      BY <2>1, <2>2 DEF NotAwaited
    <2>4. CASE awaited.main
      <3>1. UNCHANGED <<pictureAt, lost>>
        BY <1>17, <2>4 DEF ChatServerStores
      <3>2. Untold' = Untold
        BY <2>1, <2>3, <2>4 DEF Untold
      <3>. QED
        BY <1>0, <2>1, <2>3, <2>4, <3>1, <3>2 DEF PictureInv, ToldAsCached, Tells, Content, Conveyed
    <2>5. CASE ~awaited.main
      <3>1. /\ pictureAt' = [pictureAt EXCEPT ![awaited.to] = Conveyed(awaited.removes)]
            /\ lost' \subseteq lost /\ lost \ {awaited.to} \subseteq lost'
            /\ awaited.to \in lost /\ awaited.to \notin lost' =>
                  cache[awaited.to] # NoEntry /\ Conveyed(awaited.removes) = Content(awaited.to)
        <4>1. /\ pictureAt' = [pictureAt EXCEPT ![awaited.to] = Conveyed(awaited.removes)]
              /\ lost' = IF cache[awaited.to] = NoEntry THEN lost
                         ELSE lost \ {c \in {awaited.to} :
                                  IF cache[c] = Removed THEN awaited.removes
                                  ELSE contentOf[cache[c]] = Conveyed(awaited.removes)}
          BY <1>17, <2>5 DEF ChatServerStores
        <4>. QED
          BY <4>1 DEF Content, Conveyed
      <3>2. \A p \in pics : p.to # awaited.to
        BY <1>0, <2>3, <2>5 DEF PictureInv
      <3>3. Tells(awaited.to, Conveyed(awaited.removes))
        BY <1>0, <2>1, <2>3, <2>5 DEF PictureInv
      <3>4. /\ \A c \in Contacts : Content(c)' = Content(c) /\ cache'[c] = cache[c]
            /\ \A removes : Conveyed(removes)' = Conveyed(removes)
        BY <2>1 DEF Content, Conveyed
      <3>5. PictureInv'
        <4>1. \A p \in pics : Tells(p.to, Conveyed(p.removes))'
          <5>1. \A p \in pics : Tells(p.to, Conveyed(p.removes)) /\ p.to \in Contacts
            BY <1>0 DEF PictureInv, PictureType
          <5>. QED
            BY <2>1, <3>1, <3>2, <3>4, <5>1 DEF Tells
        <4>. QED
          BY <1>0, <2>1, <2>3, <3>2, <4>1 DEF PictureInv
      <3>6. Untold = Untold' \cup {awaited.to}
        BY <2>1, <2>2, <2>3, <2>5 DEF Untold
      <3>7. ASSUME NEW c \in Contacts, c \notin lost', c \notin Untold', cache[c] # NoEntry
            PROVE  pictureAt'[c] = Content(c)
        <4>1. CASE c = awaited.to
          BY <1>0, <2>2, <3>1, <3>3, <3>7, <4>1 DEF Tells, PictureType
        <4>2. CASE c # awaited.to
          <5>1. c \notin lost /\ c \notin Untold
            BY <3>1, <3>6, <3>7, <4>2
          <5>2. pictureAt[c] = Content(c)
            BY <1>0, <3>7, <5>1 DEF ToldAsCached, Content
          <5>. QED
            BY <1>0, <3>1, <4>2, <5>2 DEF PictureType
        <4>. QED
          BY <4>1, <4>2
      <3>8. ToldAsCached'
        BY <2>1, <3>4, <3>7 DEF ToldAsCached, Content
      <3>. QED
        BY <3>5, <3>8
    <2>. QED
      BY <2>4, <2>5
  <1>18. CASE Connect
    <2>1. UNCHANGED <<profile, cache, contentOf, uploading, pics, awaited, pictureAt, lost>>
      BY <1>18 DEF Connect, settings, protocolState, servers, history
    <2>. QED
      BY <1>0, <2>1, PictureFrame
  <1>19. CASE LoseConnection
    <2>1. /\ UNCHANGED <<profile, cache, contentOf, pictureAt>>
          /\ pics' = {} /\ awaited' = NotAwaited /\ lost' = lost \cup Untold
          /\ uploading'.blob = NoEntry
      BY <1>19 DEF LoseConnection, EndRun, NoUpload, protocolState, servers
    <2>2. PictureInv'
      BY <1>0, <2>1 DEF PictureInv
    <2>3. ToldAsCached'
      BY <1>0, <2>1 DEF ToldAsCached, Content
    <2>. QED
      BY <2>2, <2>3
  <1>20. CASE Restart
    <2>1. /\ UNCHANGED <<profile, cache, contentOf, pictureAt>>
          /\ pics' = {} /\ awaited' = NotAwaited /\ lost' = lost \cup Untold
          /\ uploading'.blob = NoEntry
      BY <1>20 DEF Restart, EndRun, NoUpload, protocolState, servers
    <2>2. PictureInv'
      BY <1>0, <2>1 DEF PictureInv
    <2>3. ToldAsCached'
      BY <1>0, <2>1 DEF ToldAsCached, Content
    <2>. QED
      BY <2>2, <2>3
  <1>21. CASE UNCHANGED vars
    <2>1. UNCHANGED <<profile, cache, contentOf, uploading, pics, awaited, pictureAt, lost>>
      BY <1>21 DEF vars, protocolState, run, servers, history
    <2>. QED
      BY <1>0, <2>1, PictureFrame
  <1>. QED
    BY <1>1, <1>2, <1>3, <1>4, <1>5, <1>6, <1>7, <1>8, <1>9, <1>10, <1>11,
       <1>12, <1>13, <1>14, <1>15, <1>16, <1>17, <1>18, <1>19, <1>20, <1>21
    DEF Next, User, Running, Sending, Servers

-----------------------------------------------------------------------------
(* Theorems *)

(* The inductive invariant holds at first, and every step keeps it. *)
LEMMA Initially ==
    ASSUME ConstantsAssumption, Init
    PROVE  IndInv
  <1>1. Cardinality(Contacts) \in Nat
    BY FS_CardinalityType DEF ConstantsAssumption
  <1>2. 1 \in 1 .. MaxBlobs /\ 0 \in Pictures /\ FirstPicture \in Pictures
    BY <1>1 DEF ConstantsAssumption, Pictures, FirstPicture
  <1>3. QueueType /\ RunType /\ AwaitedType /\ nonces \in Nat
    <2>1. QueueType
      BY DEF Init, QueueType
    <2>2. RunType
      BY DEF Init, RunType
    <2>3. AwaitedType
      BY DEF Init, AwaitedType
    <2>4. nonces \in Nat
      BY DEF Init
    <2>. QED
      BY <2>1, <2>2, <2>3, <2>4
  <1>4. SettingsType
    BY DEF Init, SettingsType, ConstantsAssumption
  <1>5. PictureType
    BY <1>2 DEF Init, PictureType, NoUpload, NoPicture, NoEntry, CacheValues, ConstantsAssumption
  <1>6. TypeOK
    BY <1>3, <1>4, <1>5, TypeParts
  <1>7. RunInv /\ NoncesMatch
    BY DEF Init, RunInv, NoncesMatch, NoUpload
  <1>8. QueueInv /\ OrderInv /\ InOrder
    BY DEF Init, QueueInv, OrderInv, InOrder, ToSet
  <1>9. StoreInv /\ SentMeansStored
    BY DEF Init, StoreInv, SentMeansStored, ToSet
  <1>10. PictureInv
    <2>1. profile.blob = 1 /\ contentOf[profile.blob] = profile.picture
      BY <1>2 DEF Init
    <2>2. uploading.blob = NoEntry /\ pics = {} /\ awaited = NotAwaited
      BY DEF Init, NoUpload
    <2>. QED
      BY <2>1, <2>2 DEF PictureInv, NoEntry
  <1>11. ToldAsCached
    BY DEF Init, ToldAsCached
  <1>. QED
    BY <1>6, <1>7, <1>8, <1>9, <1>10, <1>11 DEF IndInv

\* Every step keeps the invariant.
LEMMA Inductive ==
    ASSUME ConstantsAssumption, IndInv, [Next]_vars
    PROVE  IndInv'
  <1>1. QueueType' /\ SettingsType' /\ AwaitedType' /\ RunType' /\ PictureType'
    BY QueueTypeStep, SettingsTypeStep, AwaitedTypeStep, RunTypeStep, PictureTypeStep
  <1>2. nonces' \in Nat /\ NoncesMatch'
    BY NoncesStep
  <1>3. TypeOK'
    BY <1>1, <1>2
    DEF TypeOK, QueueType, SettingsType, AwaitedType, RunType, PictureType
  <1>4. RunInv' /\ QueueInv' /\ OrderInv' /\ InOrder'
    BY RunInvStep, QueueInvStep, OrderStep
  <1>5. StoreInv' /\ SentMeansStored' /\ PictureInv' /\ ToldAsCached'
    BY StoreStep, PictureStep
  <1>. QED
    BY <1>2, <1>3, <1>4, <1>5 DEF IndInv

(* The inductive invariant holds in every state of every behaviour of the   *)
(* outgoing message tasks.                                                  *)
THEOREM Invariance == Spec => []IndInv
  <1>1. Init => IndInv
    BY ConstantsAssumption, Initially
  <1>2. IndInv /\ [Next]_vars => IndInv'
    BY ConstantsAssumption, Inductive
  <1>. QED
    BY <1>1, <1>2, PTL DEF Spec

(* Every variable of OutgoingMessages keeps its type; in particular, there  *)
(* is always a blob ID left for an upload.                                  *)
THEOREM TypeCorrect == Spec => []TypeOK
  <1>1. IndInv => TypeOK
    BY DEF IndInv
  <1>. QED
    BY <1>1, Invariance, PTL

(* A message that the task marks as sent (OutgoingConversationMessageTask)  *)
(* is stored for everyone its last run addressed, and no contact gets what  *)
(* was not reflected before, however often runs fail half-way.              *)
THEOREM SentMeansStoredAlways == Spec => []SentMeansStored
  <1>1. IndInv => SentMeansStored
    BY DEF IndInv
  <1>. QED
    BY <1>1, Invariance, PTL

(* Every contact gets the user's messages in the order they were written,   *)
(* although a lost connection makes the task start again.                   *)
THEOREM InOrderAlways == Spec => []InOrder
  <1>1. IndInv => InOrder
    BY DEF IndInv
  <1>. QED
    BY <1>1, Invariance, PTL

(* The nonces prepared before the reflection are those needed afterwards    *)
(* ("all prepared nonces must have been consumed"), for any group, any      *)
(* blocked contacts and any receivers left out.                             *)
THEOREM NoncesMatchAlways == Spec => []NoncesMatch
  <1>1. IndInv => NoncesMatch
    BY DEF IndInv
  <1>. QED
    BY <1>1, Invariance, PTL

(* The distribution cache of the profile picture tells what the contact has *)
(* been told or is about to be told, but for runs that failed in between    *)
(* and contacts blocked meanwhile.                                          *)
THEOREM ToldAsCachedAlways == Spec => []ToldAsCached
  <1>1. IndInv => ToldAsCached
    BY DEF IndInv
  <1>. QED
    BY <1>1, Invariance, PTL

=============================================================================
