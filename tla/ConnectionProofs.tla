-------------------------- MODULE ConnectionProofs --------------------------
(* Proofs about Connection, for any reflection queue and any number of      *)
(* failures, requests and unread messages.                                  *)
EXTENDS Connection, TLAPS

-----------------------------------------------------------------------------
(* The inductive invariant *)

(* The main connection is current only while the loop waits for it; a task  *)
(* manager torn away by a failed fallback is not replaced any more.         *)
HandleInv ==
    /\ closed = "no" => ~drained
    /\ handle = "main" => loop \in {"open", "dead"}
    /\ torn => /\ inner = "disconnected" /\ state = "disconnected"
               /\ loop \in {"create", "open", "dead"}

(* An open connection can be told from a closed one by the manager's state. *)
StateInv ==
    /\ ManagersAgree
    /\ ~torn /\ loop = "open" /\ closed = "no" => state # "disconnected"

(* The steps of the D2M handshake follow each other.                        *)
DryInv ==
    /\ dry => reflected = Reflected
    /\ leader => dry
    /\ unblocked => csp = "complete" /\ leader

(* Auto-connect turned off during the creation stays unnoticed.             *)
OffInv ==
    /\ OffClosesConnection
    /\ loop = "create" /\ ~auto => missed

HasVerdict(messages) == \E i \in 1 .. Len(messages) : messages[i] # "message"

(* While auto-connect is on, a verdict of a server is the close code, or a  *)
(* message the closing sequence waits for.                                  *)
VerdictInv ==
    /\ NoBarredReconnect
    /\ barred /\ auto /\ loop = "open" /\ inner = "connected" =>
          \/ closed \in FinalCodes
          \/ ~ClosingDone /\ HasVerdict(inFlight)

IndInv == TypeOK /\ HandleInv /\ StateInv /\ DryInv /\ OffInv /\ VerdictInv

-----------------------------------------------------------------------------
(* TypeOK in three parts: what the loop and the handshakes are at, what the *)
(* closing sequence has, and the flags.                                     *)

DataType ==
    /\ loop \in {"auto", "create", "open", "dialog", "sleep", "dead"}
    /\ handle \in {"none", "main", "d2m"}
    /\ state \in {"disconnected", "connecting", "handshake", "partially", "connected"}
    /\ leaderState \in {"nonleader", "leader"}
    /\ inner \in {"disconnected", "connected"}
    /\ fallback \in {"no", "create", "open"}
    /\ csp \in {"serverHello", "loginAck", "complete"}
    /\ d2m \in {"serverHello", "complete"}
    /\ reflected \subseteq Reflected
    /\ failures \in 0 .. MaxFailures /\ requests \in 0 .. MaxRequests

ClosingType == closed \in {"no"} \cup CloseReasons /\ inFlight \in Seq(Kinds)

FlagType ==
    /\ auto \in BOOLEAN /\ skip \in BOOLEAN
    /\ info \in BOOLEAN /\ dry \in BOOLEAN /\ leader \in BOOLEAN
    /\ unblocked \in BOOLEAN /\ drained \in BOOLEAN /\ alert \in BOOLEAN
    /\ barred \in BOOLEAN /\ missed \in BOOLEAN /\ torn \in BOOLEAN

LEMMA TypeParts == TypeOK <=> DataType /\ ClosingType /\ FlagType
  BY DEF TypeOK, DataType, ClosingType, FlagType

-----------------------------------------------------------------------------
(* Verdicts among the unread messages *)

LEMMA NothingUnread == ~HasVerdict(<<>>)
  BY DEF HasVerdict

LEMMA VerdictAppended ==
    ASSUME NEW messages \in Seq(Kinds), NEW kind \in Kinds
    PROVE  HasVerdict(messages) \/ kind # "message" => HasVerdict(Append(messages, kind))
  <1>. DEFINE longer == Append(messages, kind)
  <1>1. /\ Len(longer) = Len(messages) + 1
        /\ longer[Len(messages) + 1] = kind
        /\ \A i \in 1 .. Len(messages) : longer[i] = messages[i]
    OBVIOUS
  <1>2. Len(messages) \in Nat
    OBVIOUS
  <1>. HIDE DEF longer
  <1>. QED
    BY <1>1, <1>2 DEF HasVerdict, longer

LEMMA VerdictLeft ==
    ASSUME NEW messages \in Seq(Kinds), messages # <<>>, Head(messages) = "message",
           HasVerdict(messages)
    PROVE  HasVerdict(Tail(messages))
  <1>1. PICK i \in 1 .. Len(messages) : messages[i] # "message"
    BY DEF HasVerdict
  <1>2. i # 1 /\ Len(messages) \in Nat /\ Len(Tail(messages)) = Len(messages) - 1
    BY <1>1
  <1>3. Tail(messages)[i - 1] = messages[i] /\ i - 1 \in 1 .. Len(Tail(messages))
    BY <1>1, <1>2
  <1>. QED
    BY <1>1, <1>3 DEF HasVerdict

-----------------------------------------------------------------------------
(* The steps *)

(* The loop, the connection's states and the bounds. *)
LEMMA DataStep ==
    ASSUME BoundsAssumption, IndInv, [Next]_vars
    PROVE  DataType'
  <1>0. TypeOK
    BY DEF IndInv
  <1>1. CASE StartConnecting
    BY <1>0, <1>1 DEF StartConnecting, TypeOK, DataType
  <1>2. CASE Opened
    BY <1>0, <1>2 DEF Opened, closing, handshake, history, TypeOK, DataType
  <1>3. CASE Finish
    BY <1>0, <1>3 DEF Finish, ClosingDone, DroppedCodes, FatalCodes, FinalCodes,
        LocalCodes, Pause, UpdateCodes, closing, handshake, history, TypeOK,
        DataType
  <1>4. CASE Wake
    BY <1>0, <1>4 DEF Wake, closing, handshake, history, TypeOK, DataType
  <1>5. CASE CreateFails
    BY <1>0, <1>5 DEF CreateFails, Fails, Pause, closing, handshake, history,
        TypeOK, DataType
  <1>6. CASE DialogConfirmed
    BY <1>0, <1>6 DEF DialogConfirmed, closing, handshake, history, TypeOK, DataType
  <1>7. CASE DialogDismissed
    BY <1>0, <1>7 DEF DialogDismissed, DisableAutoConnect, DisconnectFallback,
        Pause, handshake, TypeOK, DataType
  <1>8. CASE ReadCspServerHello
    BY <1>0, <1>8 DEF ReadCspServerHello, HandshakeFrame, Live, history, TypeOK,
        DataType
  <1>9. CASE ReadCspLoginAck
    BY <1>0, <1>9 DEF ReadCspLoginAck, Completed, HandshakeFrame, Live, Unblock,
        history, TypeOK, DataType
  <1>10. CASE ReadD2mServerHello
    BY <1>0, <1>10 DEF ReadD2mServerHello, Completed, HandshakeFrame, Live, history,
        TypeOK, DataType
  <1>11. CASE ReadReflected
    BY <1>0, <1>11 DEF ReadReflected, HandshakeFrame, Live, history, TypeOK,
        DataType
  <1>12. CASE ReadRolePromotedToLeader
    BY <1>0, <1>12 DEF ReadRolePromotedToLeader, HandshakeFrame, Live, Unblock,
        history, TypeOK, DataType
  <1>13. CASE ReadCloseError
    BY <1>0, <1>13 DEF ReadCloseError, DisableAutoConnect, DisconnectFallback,
        handshake, TypeOK, DataType
  <1>14. CASE ReadDeviceCookieChanged
    BY <1>0, <1>14 DEF ReadDeviceCookieChanged, DisableAutoConnect,
        DisconnectFallback, handshake, TypeOK, DataType
  <1>15. CASE ServerSends
    BY <1>0, <1>15 DEF ServerSends, Fails, Kinds, Live, handshake, manager, TypeOK,
        DataType
  <1>16. CASE ServerCloses
    BY <1>0, <1>16 DEF ServerCloses, DroppedCodes, Fails, FatalCodes, FinalCodes,
        Live, RecoverableCodes, RemoteCodes, UpdateCodes, handshake, TypeOK,
        DataType
  <1>17. CASE PipeErrs
    BY <1>0, <1>17 DEF PipeErrs, DroppedCodes, Fails, FatalCodes, FinalCodes,
        UpdateCodes, handshake, manager, TypeOK, DataType
  <1>18. CASE LocalDisconnect
    BY <1>0, <1>18 DEF LocalDisconnect, Fails, Live, handshake, TypeOK, DataType
  <1>19. CASE ReadOldServerHello
    BY <1>0, <1>19 DEF ReadOldServerHello, Fails, Live, handshake, TypeOK, DataType
  <1>20. CASE ToggleOff
    BY <1>0, <1>20 DEF ToggleOff, Asks, DisableAutoConnect, DisconnectFallback,
        handshake, TypeOK, DataType
  <1>21. CASE ToggleOn
    BY <1>0, <1>21 DEF ToggleOn, Asks, EnableAutoConnect, closing, handshake,
        TypeOK, DataType
  <1>22. CASE SelfKick
    BY <1>0, <1>22 DEF SelfKick, Asks, DisableAutoConnect, handshake, TypeOK,
        DataType
  <1>23. CASE FallbackOpens
    BY <1>0, <1>23 DEF FallbackOpens, closing, handshake, history, TypeOK, DataType
  <1>24. CASE FallbackFails
    BY <1>0, <1>24 DEF FallbackFails, EnableAutoConnect, Fails, closing, handshake,
        TypeOK, DataType
  <1>25. CASE FallbackCloses
    BY <1>0, <1>25 DEF FallbackCloses, closing, handshake, history, TypeOK, DataType
  <1>26. CASE ReadServerInfo \/ ReadReflectionQueueDry \/ ReadMessage \/ PipeEnds \/
      AlertConfirmed \/ AlertDismissed
    BY <1>0, <1>26 DEF ReadServerInfo, ReadReflectionQueueDry, ReadMessage,
        PipeEnds, AlertConfirmed, AlertDismissed, HandshakeFrame, closing,
        handshake, history, manager, TypeOK, DataType
  <1>27. CASE UNCHANGED vars
    BY <1>0, <1>27 DEF vars, manager, handshake, closing, history, TypeOK, DataType
  <1>. QED
    BY <1>1, <1>2, <1>3, <1>4, <1>5, <1>6, <1>7, <1>8, <1>9, <1>10, <1>11, <1>12,
        <1>13, <1>14, <1>15, <1>16, <1>17, <1>18, <1>19, <1>20, <1>21, <1>22, <1>23,
        <1>24, <1>25, <1>26, <1>27 DEF Next, LoopStep, Reading, Failure, User,
        Unlinking, ReadHandshake

(* The close information and the unread messages. *)
LEMMA ClosingStep ==
    ASSUME BoundsAssumption, IndInv, [Next]_vars
    PROVE  ClosingType'
  <1>0. TypeOK
    BY DEF IndInv
  <1>1. CASE StartConnecting
    BY <1>0, <1>1 DEF StartConnecting, TypeOK, ClosingType, CloseReasons,
        RemoteCodes, LocalCodes, RecoverableCodes, FinalCodes, DroppedCodes,
        UpdateCodes, FatalCodes
  <1>2. CASE DialogDismissed
    BY <1>0, <1>2 DEF DialogDismissed, DisableAutoConnect, DisconnectFallback,
        Pause, handshake, TypeOK, ClosingType, CloseReasons, RemoteCodes,
        LocalCodes, RecoverableCodes, FinalCodes, DroppedCodes, UpdateCodes,
        FatalCodes
  <1>3. CASE ReadCspLoginAck
    BY <1>0, <1>3 DEF ReadCspLoginAck, Completed, HandshakeFrame, Live, Unblock,
        history, TypeOK, ClosingType, CloseReasons, RemoteCodes, LocalCodes,
        RecoverableCodes, FinalCodes, DroppedCodes, UpdateCodes, FatalCodes
  <1>4. CASE ReadD2mServerHello
    BY <1>0, <1>4 DEF ReadD2mServerHello, Completed, HandshakeFrame, Live, history,
        TypeOK, ClosingType, CloseReasons, RemoteCodes, LocalCodes,
        RecoverableCodes, FinalCodes, DroppedCodes, UpdateCodes, FatalCodes
  <1>5. CASE ReadMessage
    BY <1>0, <1>5 DEF ReadMessage, handshake, history, manager, TypeOK, ClosingType,
        CloseReasons, RemoteCodes, LocalCodes, RecoverableCodes, FinalCodes,
        DroppedCodes, UpdateCodes, FatalCodes
  <1>6. CASE ReadCloseError
    BY <1>0, <1>6 DEF ReadCloseError, DisableAutoConnect, DisconnectFallback,
        handshake, TypeOK, ClosingType, CloseReasons, RemoteCodes, LocalCodes,
        RecoverableCodes, FinalCodes, DroppedCodes, UpdateCodes, FatalCodes
  <1>7. CASE ReadDeviceCookieChanged
    BY <1>0, <1>7 DEF ReadDeviceCookieChanged, DisableAutoConnect,
        DisconnectFallback, handshake, TypeOK, ClosingType, CloseReasons,
        RemoteCodes, LocalCodes, RecoverableCodes, FinalCodes, DroppedCodes,
        UpdateCodes, FatalCodes
  <1>8. CASE ServerSends
    BY <1>0, <1>8 DEF ServerSends, Fails, Kinds, Live, handshake, manager, TypeOK,
        ClosingType, CloseReasons, RemoteCodes, LocalCodes, RecoverableCodes,
        FinalCodes, DroppedCodes, UpdateCodes, FatalCodes
  <1>9. CASE ServerCloses
    BY <1>0, <1>9 DEF ServerCloses, DroppedCodes, Fails, FatalCodes, FinalCodes,
        Live, RecoverableCodes, RemoteCodes, UpdateCodes, handshake, TypeOK,
        ClosingType, CloseReasons, LocalCodes
  <1>10. CASE PipeErrs
    BY <1>0, <1>10 DEF PipeErrs, DroppedCodes, Fails, FatalCodes, FinalCodes,
        UpdateCodes, handshake, manager, TypeOK, ClosingType, CloseReasons,
        RemoteCodes, LocalCodes, RecoverableCodes
  <1>11. CASE LocalDisconnect
    BY <1>0, <1>11 DEF LocalDisconnect, Fails, Live, handshake, TypeOK, ClosingType,
        CloseReasons, RemoteCodes, LocalCodes, RecoverableCodes, FinalCodes,
        DroppedCodes, UpdateCodes, FatalCodes
  <1>12. CASE ReadOldServerHello
    BY <1>0, <1>12 DEF ReadOldServerHello, Fails, Live, handshake, TypeOK,
        ClosingType, CloseReasons, RemoteCodes, LocalCodes, RecoverableCodes,
        FinalCodes, DroppedCodes, UpdateCodes, FatalCodes
  <1>13. CASE ToggleOff
    BY <1>0, <1>13 DEF ToggleOff, Asks, DisableAutoConnect, DisconnectFallback,
        handshake, TypeOK, ClosingType, CloseReasons, RemoteCodes, LocalCodes,
        RecoverableCodes, FinalCodes, DroppedCodes, UpdateCodes, FatalCodes
  <1>14. CASE SelfKick
    BY <1>0, <1>14 DEF SelfKick, Asks, DisableAutoConnect, handshake, TypeOK,
        ClosingType, CloseReasons, RemoteCodes, LocalCodes, RecoverableCodes,
        FinalCodes, DroppedCodes, UpdateCodes, FatalCodes
  <1>15. CASE Opened \/ Finish \/ Wake \/ CreateFails \/ DialogConfirmed \/
      ReadCspServerHello \/ ReadServerInfo \/ ReadReflected \/
      ReadReflectionQueueDry \/ ReadRolePromotedToLeader \/ PipeEnds \/ ToggleOn \/
      AlertConfirmed \/ AlertDismissed \/ FallbackOpens \/ FallbackFails \/
      FallbackCloses
    BY <1>0, <1>15 DEF Opened, Finish, Wake, CreateFails, DialogConfirmed,
        ReadCspServerHello, ReadServerInfo, ReadReflected, ReadReflectionQueueDry,
        ReadRolePromotedToLeader, PipeEnds, ToggleOn, AlertConfirmed,
        AlertDismissed, FallbackOpens, FallbackFails, FallbackCloses,
        HandshakeFrame, closing, handshake, history, manager, TypeOK, ClosingType,
        CloseReasons, RemoteCodes, LocalCodes, RecoverableCodes, FinalCodes,
        DroppedCodes, UpdateCodes, FatalCodes
  <1>16. CASE UNCHANGED vars
    BY <1>0, <1>16 DEF vars, manager, handshake, closing, history, TypeOK,
        ClosingType, CloseReasons, RemoteCodes, LocalCodes, RecoverableCodes,
        FinalCodes, DroppedCodes, UpdateCodes, FatalCodes
  <1>. QED
    BY <1>1, <1>2, <1>3, <1>4, <1>5, <1>6, <1>7, <1>8, <1>9, <1>10, <1>11, <1>12,
        <1>13, <1>14, <1>15, <1>16 DEF Next, LoopStep, Reading, Failure, User,
        Unlinking, ReadHandshake

(* The flags. *)
LEMMA FlagStep ==
    ASSUME BoundsAssumption, IndInv, [Next]_vars
    PROVE  FlagType'
  <1>0. TypeOK
    BY DEF IndInv
  <1>1. CASE StartConnecting
    BY <1>0, <1>1 DEF StartConnecting, TypeOK, FlagType
  <1>2. CASE Finish
    BY <1>0, <1>2 DEF Finish, ClosingDone, DroppedCodes, FatalCodes, FinalCodes,
        LocalCodes, Pause, UpdateCodes, closing, handshake, history, TypeOK,
        FlagType
  <1>3. CASE DialogConfirmed
    BY <1>0, <1>3 DEF DialogConfirmed, closing, handshake, history, TypeOK, FlagType
  <1>4. CASE DialogDismissed
    BY <1>0, <1>4 DEF DialogDismissed, DisableAutoConnect, DisconnectFallback,
        Pause, handshake, TypeOK, FlagType
  <1>5. CASE ReadCspLoginAck
    BY <1>0, <1>5 DEF ReadCspLoginAck, Completed, HandshakeFrame, Live, Unblock,
        history, TypeOK, FlagType
  <1>6. CASE ReadD2mServerHello
    <2>1. drained' \in BOOLEAN
      BY <1>0, <1>6 DEF ReadD2mServerHello, Completed, TypeOK
    <2>. QED
      BY <1>0, <1>6, <2>1 DEF ReadD2mServerHello, HandshakeFrame, history, TypeOK,
          FlagType
  <1>7. CASE ReadServerInfo
    BY <1>0, <1>7 DEF ReadServerInfo, HandshakeFrame, Live, history, TypeOK,
        FlagType
  <1>8. CASE ReadReflectionQueueDry
    BY <1>0, <1>8 DEF ReadReflectionQueueDry, HandshakeFrame, Live, history, TypeOK,
        FlagType
  <1>9. CASE ReadRolePromotedToLeader
    BY <1>0, <1>9 DEF ReadRolePromotedToLeader, HandshakeFrame, Live, Unblock,
        history, TypeOK, FlagType
  <1>10. CASE ReadCloseError
    BY <1>0, <1>10 DEF ReadCloseError, DisableAutoConnect, DisconnectFallback,
        handshake, TypeOK, FlagType
  <1>11. CASE ReadDeviceCookieChanged
    BY <1>0, <1>11 DEF ReadDeviceCookieChanged, DisableAutoConnect,
        DisconnectFallback, handshake, TypeOK, FlagType
  <1>12. CASE ServerSends
    BY <1>0, <1>12 DEF ServerSends, Fails, Kinds, Live, handshake, manager, TypeOK,
        FlagType
  <1>13. CASE ServerCloses
    BY <1>0, <1>13 DEF ServerCloses, DroppedCodes, Fails, FatalCodes, FinalCodes,
        Live, RecoverableCodes, RemoteCodes, UpdateCodes, handshake, TypeOK,
        FlagType
  <1>14. CASE PipeEnds
    BY <1>0, <1>14 DEF PipeEnds, handshake, history, manager, TypeOK, FlagType
  <1>15. CASE PipeErrs
    BY <1>0, <1>15 DEF PipeErrs, DroppedCodes, Fails, FatalCodes, FinalCodes,
        UpdateCodes, handshake, manager, TypeOK, FlagType
  <1>16. CASE LocalDisconnect
    BY <1>0, <1>16 DEF LocalDisconnect, Fails, Live, handshake, TypeOK, FlagType
  <1>17. CASE ReadOldServerHello
    BY <1>0, <1>17 DEF ReadOldServerHello, Fails, Live, handshake, TypeOK, FlagType
  <1>18. CASE ToggleOff
    BY <1>0, <1>18 DEF ToggleOff, Asks, DisableAutoConnect, DisconnectFallback,
        handshake, TypeOK, FlagType
  <1>19. CASE ToggleOn
    BY <1>0, <1>19 DEF ToggleOn, Asks, EnableAutoConnect, closing, handshake,
        TypeOK, FlagType
  <1>20. CASE AlertConfirmed
    BY <1>0, <1>20 DEF AlertConfirmed, EnableAutoConnect, closing, handshake,
        TypeOK, FlagType
  <1>21. CASE AlertDismissed
    BY <1>0, <1>21 DEF AlertDismissed, closing, handshake, history, manager, TypeOK,
        FlagType
  <1>22. CASE SelfKick
    BY <1>0, <1>22 DEF SelfKick, Asks, DisableAutoConnect, handshake, TypeOK,
        FlagType
  <1>23. CASE FallbackFails
    BY <1>0, <1>23 DEF FallbackFails, EnableAutoConnect, Fails, closing, handshake,
        TypeOK, FlagType
  <1>24. CASE Opened \/ Wake \/ CreateFails \/ ReadCspServerHello \/ ReadReflected
      \/ ReadMessage \/ FallbackOpens \/ FallbackCloses
    BY <1>0, <1>24 DEF Opened, Wake, CreateFails, ReadCspServerHello, ReadReflected,
        ReadMessage, FallbackOpens, FallbackCloses, HandshakeFrame, closing,
        handshake, history, manager, TypeOK, FlagType
  <1>25. CASE UNCHANGED vars
    BY <1>0, <1>25 DEF vars, manager, handshake, closing, history, TypeOK, FlagType
  <1>. QED
    BY <1>1, <1>2, <1>3, <1>4, <1>5, <1>6, <1>7, <1>8, <1>9, <1>10, <1>11, <1>12,
        <1>13, <1>14, <1>15, <1>16, <1>17, <1>18, <1>19, <1>20, <1>21, <1>22, <1>23,
        <1>24, <1>25 DEF Next, LoopStep, Reading, Failure, User, Unlinking,
        ReadHandshake

(* What is current, and what a failed fallback leaves behind. *)
LEMMA HandleStep ==
    ASSUME BoundsAssumption, IndInv, [Next]_vars
    PROVE  HandleInv'
  <1>0. TypeOK /\ HandleInv /\ StateInv
    BY DEF IndInv
  <1>1. CASE StartConnecting
    BY <1>0, <1>1 DEF StartConnecting, HandleInv, StateInv, ManagersAgree
  <1>2. CASE Opened
    BY <1>0, <1>2 DEF Opened, closing, handshake, history, HandleInv, StateInv,
        ManagersAgree
  <1>3. CASE Finish
    BY <1>0, <1>3 DEF Finish, ClosingDone, DroppedCodes, FatalCodes, FinalCodes,
        LocalCodes, Pause, UpdateCodes, closing, handshake, history, HandleInv,
        StateInv, ManagersAgree
  <1>4. CASE Wake
    BY <1>0, <1>4 DEF Wake, closing, handshake, history, HandleInv, StateInv,
        ManagersAgree
  <1>5. CASE CreateFails
    BY <1>0, <1>5 DEF CreateFails, Fails, Pause, closing, handshake, history,
        HandleInv, StateInv, ManagersAgree
  <1>6. CASE DialogConfirmed
    BY <1>0, <1>6 DEF DialogConfirmed, closing, handshake, history, HandleInv,
        StateInv, ManagersAgree
  <1>7. CASE DialogDismissed
    BY <1>0, <1>7 DEF DialogDismissed, DisableAutoConnect, DisconnectFallback,
        Pause, handshake, HandleInv, StateInv, ManagersAgree
  <1>8. CASE ReadCspLoginAck
    BY <1>0, <1>8 DEF ReadCspLoginAck, Completed, HandshakeFrame, Live, Unblock,
        history, HandleInv, StateInv, ManagersAgree
  <1>9. CASE ReadD2mServerHello
    BY <1>0, <1>9 DEF ReadD2mServerHello, Completed, HandshakeFrame, Live, history,
        HandleInv, StateInv, ManagersAgree
  <1>10. CASE ReadCloseError
    BY <1>0, <1>10 DEF ReadCloseError, DisableAutoConnect, DisconnectFallback,
        handshake, HandleInv, StateInv, ManagersAgree
  <1>11. CASE ReadDeviceCookieChanged
    BY <1>0, <1>11 DEF ReadDeviceCookieChanged, DisableAutoConnect,
        DisconnectFallback, handshake, HandleInv, StateInv, ManagersAgree
  <1>12. CASE ServerCloses
    BY <1>0, <1>12 DEF ServerCloses, DroppedCodes, Fails, FatalCodes, FinalCodes,
        Live, RecoverableCodes, RemoteCodes, UpdateCodes, handshake, HandleInv,
        StateInv, ManagersAgree
  <1>13. CASE PipeEnds
    BY <1>0, <1>13 DEF PipeEnds, handshake, history, manager, HandleInv, StateInv,
        ManagersAgree
  <1>14. CASE PipeErrs
    BY <1>0, <1>14 DEF PipeErrs, DroppedCodes, Fails, FatalCodes, FinalCodes,
        UpdateCodes, handshake, manager, HandleInv, StateInv, ManagersAgree
  <1>15. CASE LocalDisconnect
    BY <1>0, <1>15 DEF LocalDisconnect, Fails, Live, handshake, HandleInv, StateInv,
        ManagersAgree
  <1>16. CASE ReadOldServerHello
    BY <1>0, <1>16 DEF ReadOldServerHello, Fails, Live, handshake, HandleInv,
        StateInv, ManagersAgree
  <1>17. CASE ToggleOff
    BY <1>0, <1>17 DEF ToggleOff, Asks, DisableAutoConnect, DisconnectFallback,
        handshake, HandleInv, StateInv, ManagersAgree
  <1>18. CASE SelfKick
    BY <1>0, <1>18 DEF SelfKick, Asks, DisableAutoConnect, handshake, HandleInv,
        StateInv, ManagersAgree
  <1>19. CASE FallbackOpens
    BY <1>0, <1>19 DEF FallbackOpens, closing, handshake, history, HandleInv,
        StateInv, ManagersAgree
  <1>20. CASE FallbackFails
    BY <1>0, <1>20 DEF FallbackFails, EnableAutoConnect, Fails, closing, handshake,
        HandleInv, StateInv, ManagersAgree
  <1>21. CASE ReadCspServerHello \/ ReadServerInfo \/ ReadReflected \/
      ReadReflectionQueueDry \/ ReadRolePromotedToLeader \/ ReadMessage \/
      ServerSends \/ ToggleOn \/ AlertConfirmed \/ AlertDismissed \/ FallbackCloses
    BY <1>0, <1>21 DEF ReadCspServerHello, ReadServerInfo, ReadReflected,
        ReadReflectionQueueDry, ReadRolePromotedToLeader, ReadMessage, ServerSends,
        ToggleOn, AlertConfirmed, AlertDismissed, FallbackCloses, HandshakeFrame,
        closing, handshake, history, manager, HandleInv, StateInv, ManagersAgree
  <1>22. CASE UNCHANGED vars
    BY <1>0, <1>22 DEF vars, manager, handshake, closing, history, HandleInv,
        StateInv, ManagersAgree
  <1>. QED
    BY <1>1, <1>2, <1>3, <1>4, <1>5, <1>6, <1>7, <1>8, <1>9, <1>10, <1>11, <1>12,
        <1>13, <1>14, <1>15, <1>16, <1>17, <1>18, <1>19, <1>20, <1>21, <1>22 DEF
        Next, LoopStep, Reading, Failure, User, Unlinking, ReadHandshake

(* The task manager and the stores agree with the loop. *)
LEMMA StateStep ==
    ASSUME BoundsAssumption, IndInv, [Next]_vars
    PROVE  StateInv'
  <1>0. TypeOK /\ HandleInv /\ StateInv
    BY DEF IndInv
  <1>1. CASE StartConnecting
    BY <1>0, <1>1 DEF StartConnecting, TypeOK, HandleInv, StateInv, ManagersAgree,
        FatalCodes
  <1>2. CASE Opened
    BY <1>0, <1>2 DEF Opened, closing, handshake, history, TypeOK, HandleInv,
        StateInv, ManagersAgree, FatalCodes
  <1>3. CASE Finish
    BY <1>0, <1>3 DEF Finish, ClosingDone, DroppedCodes, FatalCodes, FinalCodes,
        LocalCodes, Pause, UpdateCodes, closing, handshake, history, TypeOK,
        HandleInv, StateInv, ManagersAgree
  <1>4. CASE Wake
    BY <1>0, <1>4 DEF Wake, closing, handshake, history, TypeOK, HandleInv,
        StateInv, ManagersAgree, FatalCodes
  <1>5. CASE CreateFails
    BY <1>0, <1>5 DEF CreateFails, Fails, Pause, closing, handshake, history,
        TypeOK, HandleInv, StateInv, ManagersAgree, FatalCodes
  <1>6. CASE DialogConfirmed
    BY <1>0, <1>6 DEF DialogConfirmed, closing, handshake, history, TypeOK,
        HandleInv, StateInv, ManagersAgree, FatalCodes
  <1>7. CASE DialogDismissed
    BY <1>0, <1>7 DEF DialogDismissed, DisableAutoConnect, DisconnectFallback,
        Pause, handshake, TypeOK, HandleInv, StateInv, ManagersAgree, FatalCodes
  <1>8. CASE ReadCspLoginAck
    BY <1>0, <1>8 DEF ReadCspLoginAck, Completed, HandshakeFrame, Live, Unblock,
        history, TypeOK, HandleInv, StateInv, ManagersAgree, FatalCodes
  <1>9. CASE ReadD2mServerHello
    BY <1>0, <1>9 DEF ReadD2mServerHello, Completed, HandshakeFrame, Live, history,
        TypeOK, HandleInv, StateInv, ManagersAgree, FatalCodes
  <1>10. CASE ReadRolePromotedToLeader
    BY <1>0, <1>10 DEF ReadRolePromotedToLeader, HandshakeFrame, Live, Unblock,
        history, TypeOK, HandleInv, StateInv, ManagersAgree, FatalCodes
  <1>11. CASE ReadCloseError
    BY <1>0, <1>11 DEF ReadCloseError, DisableAutoConnect, DisconnectFallback,
        handshake, TypeOK, HandleInv, StateInv, ManagersAgree, FatalCodes
  <1>12. CASE ReadDeviceCookieChanged
    BY <1>0, <1>12 DEF ReadDeviceCookieChanged, DisableAutoConnect,
        DisconnectFallback, handshake, TypeOK, HandleInv, StateInv, ManagersAgree,
        FatalCodes
  <1>13. CASE ServerCloses
    BY <1>0, <1>13 DEF ServerCloses, DroppedCodes, Fails, FatalCodes, FinalCodes,
        Live, RecoverableCodes, RemoteCodes, UpdateCodes, handshake, TypeOK,
        HandleInv, StateInv, ManagersAgree
  <1>14. CASE PipeEnds
    BY <1>0, <1>14 DEF PipeEnds, handshake, history, manager, TypeOK, HandleInv,
        StateInv, ManagersAgree, FatalCodes
  <1>15. CASE PipeErrs
    BY <1>0, <1>15 DEF PipeErrs, DroppedCodes, Fails, FatalCodes, FinalCodes,
        UpdateCodes, handshake, manager, TypeOK, HandleInv, StateInv, ManagersAgree
  <1>16. CASE LocalDisconnect
    BY <1>0, <1>16 DEF LocalDisconnect, Fails, Live, handshake, TypeOK, HandleInv,
        StateInv, ManagersAgree, FatalCodes
  <1>17. CASE ReadOldServerHello
    BY <1>0, <1>17 DEF ReadOldServerHello, Fails, Live, handshake, TypeOK,
        HandleInv, StateInv, ManagersAgree, FatalCodes
  <1>18. CASE ToggleOff
    BY <1>0, <1>18 DEF ToggleOff, Asks, DisableAutoConnect, DisconnectFallback,
        handshake, TypeOK, HandleInv, StateInv, ManagersAgree, FatalCodes
  <1>19. CASE SelfKick
    BY <1>0, <1>19 DEF SelfKick, Asks, DisableAutoConnect, handshake, TypeOK,
        HandleInv, StateInv, ManagersAgree, FatalCodes
  <1>20. CASE FallbackOpens
    BY <1>0, <1>20 DEF FallbackOpens, closing, handshake, history, TypeOK,
        HandleInv, StateInv, ManagersAgree, FatalCodes
  <1>21. CASE FallbackFails
    BY <1>0, <1>21 DEF FallbackFails, EnableAutoConnect, Fails, closing, handshake,
        TypeOK, HandleInv, StateInv, ManagersAgree, FatalCodes
  <1>22. CASE ReadCspServerHello \/ ReadServerInfo \/ ReadReflected \/
      ReadReflectionQueueDry \/ ReadMessage \/ ServerSends \/ ToggleOn \/
      AlertConfirmed \/ AlertDismissed \/ FallbackCloses
    BY <1>0, <1>22 DEF ReadCspServerHello, ReadServerInfo, ReadReflected,
        ReadReflectionQueueDry, ReadMessage, ServerSends, ToggleOn, AlertConfirmed,
        AlertDismissed, FallbackCloses, HandshakeFrame, closing, handshake, history,
        manager, TypeOK, HandleInv, StateInv, ManagersAgree, FatalCodes
  <1>23. CASE UNCHANGED vars
    BY <1>0, <1>23 DEF vars, manager, handshake, closing, history, TypeOK,
        HandleInv, StateInv, ManagersAgree, FatalCodes
  <1>. QED
    BY <1>1, <1>2, <1>3, <1>4, <1>5, <1>6, <1>7, <1>8, <1>9, <1>10, <1>11, <1>12,
        <1>13, <1>14, <1>15, <1>16, <1>17, <1>18, <1>19, <1>20, <1>21, <1>22, <1>23
        DEF Next, LoopStep, Reading, Failure, User, Unlinking, ReadHandshake

(* The reflection queue comes before the promotion, and both before the chat server's messages. *)
LEMMA DryStep ==
    ASSUME BoundsAssumption, IndInv, [Next]_vars
    PROVE  DryInv'
  <1>0. TypeOK /\ DryInv
    BY DEF IndInv
  <1>1. CASE StartConnecting
    BY <1>0, <1>1 DEF StartConnecting, TypeOK, DryInv
  <1>2. CASE ReadCspServerHello
    BY <1>0, <1>2 DEF ReadCspServerHello, HandshakeFrame, Live, history, TypeOK,
        DryInv
  <1>3. CASE ReadCspLoginAck
    BY <1>0, <1>3 DEF ReadCspLoginAck, Completed, HandshakeFrame, Live, Unblock,
        history, TypeOK, DryInv
  <1>4. CASE ReadReflected
    BY <1>0, <1>4 DEF ReadReflected, HandshakeFrame, Live, history, TypeOK, DryInv
  <1>5. CASE ReadReflectionQueueDry
    BY <1>0, <1>5 DEF ReadReflectionQueueDry, HandshakeFrame, Live, history, TypeOK,
        DryInv
  <1>6. CASE ReadRolePromotedToLeader
    BY <1>0, <1>6 DEF ReadRolePromotedToLeader, HandshakeFrame, Live, Unblock,
        history, TypeOK, DryInv
  <1>7. CASE Opened \/ Finish \/ Wake \/ CreateFails \/ DialogConfirmed \/
      DialogDismissed \/ ReadD2mServerHello \/ ReadServerInfo \/ ReadMessage \/
      ReadCloseError \/ ReadDeviceCookieChanged \/ ServerSends \/ ServerCloses \/
      PipeEnds \/ PipeErrs \/ LocalDisconnect \/ ReadOldServerHello \/ ToggleOff \/
      ToggleOn \/ AlertConfirmed \/ AlertDismissed \/ SelfKick \/ FallbackOpens \/
      FallbackFails \/ FallbackCloses
    BY <1>0, <1>7 DEF Opened, Finish, Wake, CreateFails, DialogConfirmed,
        DialogDismissed, ReadD2mServerHello, ReadServerInfo, ReadMessage,
        ReadCloseError, ReadDeviceCookieChanged, ServerSends, ServerCloses,
        PipeEnds, PipeErrs, LocalDisconnect, ReadOldServerHello, ToggleOff,
        ToggleOn, AlertConfirmed, AlertDismissed, SelfKick, FallbackOpens,
        FallbackFails, FallbackCloses, HandshakeFrame, closing, handshake, history,
        manager, TypeOK, DryInv
  <1>8. CASE UNCHANGED vars
    BY <1>0, <1>8 DEF vars, manager, handshake, closing, history, TypeOK, DryInv
  <1>. QED
    BY <1>1, <1>2, <1>3, <1>4, <1>5, <1>6, <1>7, <1>8 DEF Next, LoopStep, Reading,
        Failure, User, Unlinking, ReadHandshake

(* Turning auto-connect off closes the connection or is missed. *)
LEMMA OffStep ==
    ASSUME BoundsAssumption, IndInv, [Next]_vars
    PROVE  OffInv'
  <1>0. TypeOK /\ HandleInv /\ StateInv /\ OffInv
    BY DEF IndInv
  <1>1. CASE StartConnecting
    BY <1>0, <1>1 DEF StartConnecting, TypeOK, HandleInv, StateInv, ManagersAgree,
        OffInv, OffClosesConnection
  <1>2. CASE Opened
    BY <1>0, <1>2 DEF Opened, closing, handshake, history, TypeOK, HandleInv,
        StateInv, ManagersAgree, OffInv, OffClosesConnection
  <1>3. CASE Finish
    BY <1>0, <1>3 DEF Finish, ClosingDone, DroppedCodes, FatalCodes, FinalCodes,
        LocalCodes, Pause, UpdateCodes, closing, handshake, history, TypeOK,
        HandleInv, StateInv, ManagersAgree, OffInv, OffClosesConnection
  <1>4. CASE Wake
    BY <1>0, <1>4 DEF Wake, closing, handshake, history, TypeOK, HandleInv,
        StateInv, ManagersAgree, OffInv, OffClosesConnection
  <1>5. CASE CreateFails
    BY <1>0, <1>5 DEF CreateFails, Fails, Pause, closing, handshake, history,
        TypeOK, HandleInv, StateInv, ManagersAgree, OffInv, OffClosesConnection
  <1>6. CASE DialogConfirmed
    BY <1>0, <1>6 DEF DialogConfirmed, closing, handshake, history, TypeOK,
        HandleInv, StateInv, ManagersAgree, OffInv, OffClosesConnection
  <1>7. CASE DialogDismissed
    BY <1>0, <1>7 DEF DialogDismissed, DisableAutoConnect, DisconnectFallback,
        Pause, handshake, TypeOK, HandleInv, StateInv, ManagersAgree, OffInv,
        OffClosesConnection
  <1>8. CASE ReadCspLoginAck
    BY <1>0, <1>8 DEF ReadCspLoginAck, Completed, HandshakeFrame, Live, Unblock,
        history, TypeOK, HandleInv, StateInv, ManagersAgree, OffInv,
        OffClosesConnection
  <1>9. CASE ReadD2mServerHello
    BY <1>0, <1>9 DEF ReadD2mServerHello, Completed, HandshakeFrame, Live, history,
        TypeOK, HandleInv, StateInv, ManagersAgree, OffInv, OffClosesConnection
  <1>10. CASE ReadCloseError
    BY <1>0, <1>10 DEF ReadCloseError, DisableAutoConnect, DisconnectFallback,
        handshake, TypeOK, HandleInv, StateInv, ManagersAgree, OffInv,
        OffClosesConnection
  <1>11. CASE ReadDeviceCookieChanged
    BY <1>0, <1>11 DEF ReadDeviceCookieChanged, DisableAutoConnect,
        DisconnectFallback, handshake, TypeOK, HandleInv, StateInv, ManagersAgree,
        OffInv, OffClosesConnection
  <1>12. CASE ServerCloses
    BY <1>0, <1>12 DEF ServerCloses, DroppedCodes, Fails, FatalCodes, FinalCodes,
        Live, RecoverableCodes, RemoteCodes, UpdateCodes, handshake, TypeOK,
        HandleInv, StateInv, ManagersAgree, OffInv, OffClosesConnection
  <1>13. CASE PipeErrs
    BY <1>0, <1>13 DEF PipeErrs, DroppedCodes, Fails, FatalCodes, FinalCodes,
        UpdateCodes, handshake, manager, TypeOK, HandleInv, StateInv, ManagersAgree,
        OffInv, OffClosesConnection
  <1>14. CASE LocalDisconnect
    BY <1>0, <1>14 DEF LocalDisconnect, Fails, Live, handshake, TypeOK, HandleInv,
        StateInv, ManagersAgree, OffInv, OffClosesConnection
  <1>15. CASE ReadOldServerHello
    BY <1>0, <1>15 DEF ReadOldServerHello, Fails, Live, handshake, TypeOK,
        HandleInv, StateInv, ManagersAgree, OffInv, OffClosesConnection
  <1>16. CASE ToggleOff
    BY <1>0, <1>16 DEF ToggleOff, Asks, DisableAutoConnect, DisconnectFallback,
        handshake, TypeOK, HandleInv, StateInv, ManagersAgree, OffInv,
        OffClosesConnection
  <1>17. CASE ToggleOn
    BY <1>0, <1>17 DEF ToggleOn, Asks, EnableAutoConnect, closing, handshake,
        TypeOK, HandleInv, StateInv, ManagersAgree, OffInv, OffClosesConnection
  <1>18. CASE AlertConfirmed
    BY <1>0, <1>18 DEF AlertConfirmed, EnableAutoConnect, closing, handshake,
        TypeOK, HandleInv, StateInv, ManagersAgree, OffInv, OffClosesConnection
  <1>19. CASE SelfKick
    BY <1>0, <1>19 DEF SelfKick, Asks, DisableAutoConnect, handshake, TypeOK,
        HandleInv, StateInv, ManagersAgree, OffInv, OffClosesConnection
  <1>20. CASE FallbackFails
    BY <1>0, <1>20 DEF FallbackFails, EnableAutoConnect, Fails, closing, handshake,
        TypeOK, HandleInv, StateInv, ManagersAgree, OffInv, OffClosesConnection
  <1>21. CASE ReadCspServerHello \/ ReadServerInfo \/ ReadReflected \/
      ReadReflectionQueueDry \/ ReadRolePromotedToLeader \/ ReadMessage \/
      ServerSends \/ PipeEnds \/ AlertDismissed \/ FallbackOpens \/ FallbackCloses
    BY <1>0, <1>21 DEF ReadCspServerHello, ReadServerInfo, ReadReflected,
        ReadReflectionQueueDry, ReadRolePromotedToLeader, ReadMessage, ServerSends,
        PipeEnds, AlertDismissed, FallbackOpens, FallbackCloses, HandshakeFrame,
        closing, handshake, history, manager, TypeOK, HandleInv, StateInv,
        ManagersAgree, OffInv, OffClosesConnection
  <1>22. CASE UNCHANGED vars
    BY <1>0, <1>22 DEF vars, manager, handshake, closing, history, TypeOK,
        HandleInv, StateInv, ManagersAgree, OffInv, OffClosesConnection
  <1>. QED
    BY <1>1, <1>2, <1>3, <1>4, <1>5, <1>6, <1>7, <1>8, <1>9, <1>10, <1>11, <1>12,
        <1>13, <1>14, <1>15, <1>16, <1>17, <1>18, <1>19, <1>20, <1>21, <1>22 DEF
        Next, LoopStep, Reading, Failure, User, Unlinking, ReadHandshake

(* A server's verdict is obeyed or still to be read. *)
LEMMA VerdictStep ==
    ASSUME BoundsAssumption, IndInv, [Next]_vars
    PROVE  VerdictInv'
  <1>0. TypeOK /\ HandleInv /\ StateInv /\ VerdictInv
    BY DEF IndInv
  <1>1. CASE StartConnecting
    BY <1>0, <1>1 DEF StartConnecting, TypeOK, HandleInv, StateInv, ManagersAgree,
        VerdictInv, NoBarredReconnect, ClosingDone, LocalCodes, FinalCodes,
        DroppedCodes, UpdateCodes, FatalCodes
  <1>2. CASE Opened
    BY <1>0, <1>2 DEF Opened, closing, handshake, history, TypeOK, HandleInv,
        StateInv, ManagersAgree, VerdictInv, NoBarredReconnect, ClosingDone,
        LocalCodes, FinalCodes, DroppedCodes, UpdateCodes, FatalCodes
  <1>3. CASE Finish
    BY <1>0, <1>3 DEF Finish, ClosingDone, DroppedCodes, FatalCodes, FinalCodes,
        LocalCodes, Pause, UpdateCodes, closing, handshake, history, TypeOK,
        HandleInv, StateInv, ManagersAgree, VerdictInv, NoBarredReconnect
  <1>4. CASE Wake
    BY <1>0, <1>4 DEF Wake, closing, handshake, history, TypeOK, HandleInv,
        StateInv, ManagersAgree, VerdictInv, NoBarredReconnect, ClosingDone,
        LocalCodes, FinalCodes, DroppedCodes, UpdateCodes, FatalCodes
  <1>5. CASE CreateFails
    BY <1>0, <1>5 DEF CreateFails, Fails, Pause, closing, handshake, history,
        TypeOK, HandleInv, StateInv, ManagersAgree, VerdictInv, NoBarredReconnect,
        ClosingDone, LocalCodes, FinalCodes, DroppedCodes, UpdateCodes, FatalCodes
  <1>6. CASE DialogConfirmed
    BY <1>0, <1>6 DEF DialogConfirmed, closing, handshake, history, TypeOK,
        HandleInv, StateInv, ManagersAgree, VerdictInv, NoBarredReconnect,
        ClosingDone, LocalCodes, FinalCodes, DroppedCodes, UpdateCodes, FatalCodes
  <1>7. CASE DialogDismissed
    BY <1>0, <1>7 DEF DialogDismissed, DisableAutoConnect, DisconnectFallback,
        Pause, handshake, TypeOK, HandleInv, StateInv, ManagersAgree, VerdictInv,
        NoBarredReconnect, ClosingDone, LocalCodes, FinalCodes, DroppedCodes,
        UpdateCodes, FatalCodes
  <1>8. CASE ReadCspLoginAck
    BY <1>0, <1>8 DEF ReadCspLoginAck, Completed, HandshakeFrame, Live, Unblock,
        history, TypeOK, HandleInv, StateInv, ManagersAgree, VerdictInv,
        NoBarredReconnect, ClosingDone, LocalCodes, FinalCodes, DroppedCodes,
        UpdateCodes, FatalCodes
  <1>9. CASE ReadD2mServerHello
    BY <1>0, <1>9 DEF ReadD2mServerHello, Completed, HandshakeFrame, Live, history,
        TypeOK, HandleInv, StateInv, ManagersAgree, VerdictInv, NoBarredReconnect,
        ClosingDone, LocalCodes, FinalCodes, DroppedCodes, UpdateCodes, FatalCodes
  <1>10. CASE ReadMessage
    <2>1. HasVerdict(inFlight) => HasVerdict(inFlight')
      BY <1>0, <1>10, VerdictLeft DEF ReadMessage, TypeOK
    <2>. QED
      BY <1>0, <1>10, <2>1 DEF ReadMessage, handshake, history, manager, VerdictInv,
          NoBarredReconnect, ClosingDone
  <1>11. CASE ReadCloseError
    BY <1>0, <1>11 DEF ReadCloseError, DisableAutoConnect, DisconnectFallback,
        handshake, TypeOK, HandleInv, StateInv, ManagersAgree, VerdictInv,
        NoBarredReconnect, ClosingDone, LocalCodes, FinalCodes, DroppedCodes,
        UpdateCodes, FatalCodes
  <1>12. CASE ReadDeviceCookieChanged
    BY <1>0, <1>12 DEF ReadDeviceCookieChanged, DisableAutoConnect,
        DisconnectFallback, handshake, TypeOK, HandleInv, StateInv, ManagersAgree,
        VerdictInv, NoBarredReconnect, ClosingDone, LocalCodes, FinalCodes,
        DroppedCodes, UpdateCodes, FatalCodes
  <1>13. CASE ServerSends
    <2>1. PICK kind \in Kinds :
            /\ inFlight' = Append(inFlight, kind)
            /\ kind = "message" => UNCHANGED barred
      BY <1>13 DEF ServerSends
    <2>2. HasVerdict(inFlight) \/ kind # "message" => HasVerdict(inFlight')
      BY <1>0, <2>1, VerdictAppended DEF TypeOK
    <2>3. ~ClosingDone'
      BY <1>0, <1>13 DEF ServerSends, Live, ClosingDone, LocalCodes, HandleInv
    <2>. QED
      BY <1>0, <1>13, <2>1, <2>2, <2>3 DEF ServerSends, Live, manager, VerdictInv,
          NoBarredReconnect, ClosingDone, LocalCodes
  <1>14. CASE ServerCloses
    BY <1>0, <1>14 DEF ServerCloses, DroppedCodes, Fails, FatalCodes, FinalCodes,
        Live, RecoverableCodes, RemoteCodes, UpdateCodes, handshake, TypeOK,
        HandleInv, StateInv, ManagersAgree, VerdictInv, NoBarredReconnect,
        ClosingDone, LocalCodes
  <1>15. CASE PipeEnds
    BY <1>0, <1>15, NothingUnread DEF PipeEnds, handshake, history, manager, TypeOK,
        HandleInv, StateInv, ManagersAgree, VerdictInv, NoBarredReconnect,
        ClosingDone, LocalCodes, FinalCodes, DroppedCodes, UpdateCodes, FatalCodes
  <1>16. CASE PipeErrs
    BY <1>0, <1>16 DEF PipeErrs, DroppedCodes, Fails, FatalCodes, FinalCodes,
        UpdateCodes, handshake, manager, TypeOK, HandleInv, StateInv, ManagersAgree,
        VerdictInv, NoBarredReconnect, ClosingDone, LocalCodes
  <1>17. CASE LocalDisconnect
    BY <1>0, <1>17 DEF LocalDisconnect, Fails, Live, handshake, TypeOK, HandleInv,
        StateInv, ManagersAgree, VerdictInv, NoBarredReconnect, ClosingDone,
        LocalCodes, FinalCodes, DroppedCodes, UpdateCodes, FatalCodes
  <1>18. CASE ReadOldServerHello
    BY <1>0, <1>18 DEF ReadOldServerHello, Fails, Live, handshake, TypeOK,
        HandleInv, StateInv, ManagersAgree, VerdictInv, NoBarredReconnect,
        ClosingDone, LocalCodes, FinalCodes, DroppedCodes, UpdateCodes, FatalCodes
  <1>19. CASE ToggleOff
    BY <1>0, <1>19 DEF ToggleOff, Asks, DisableAutoConnect, DisconnectFallback,
        handshake, TypeOK, HandleInv, StateInv, ManagersAgree, VerdictInv,
        NoBarredReconnect, ClosingDone, LocalCodes, FinalCodes, DroppedCodes,
        UpdateCodes, FatalCodes
  <1>20. CASE ToggleOn
    BY <1>0, <1>20 DEF ToggleOn, Asks, EnableAutoConnect, closing, handshake,
        TypeOK, HandleInv, StateInv, ManagersAgree, VerdictInv, NoBarredReconnect,
        ClosingDone, LocalCodes, FinalCodes, DroppedCodes, UpdateCodes, FatalCodes
  <1>21. CASE AlertConfirmed
    BY <1>0, <1>21 DEF AlertConfirmed, EnableAutoConnect, closing, handshake,
        TypeOK, HandleInv, StateInv, ManagersAgree, VerdictInv, NoBarredReconnect,
        ClosingDone, LocalCodes, FinalCodes, DroppedCodes, UpdateCodes, FatalCodes
  <1>22. CASE SelfKick
    BY <1>0, <1>22 DEF SelfKick, Asks, DisableAutoConnect, handshake, TypeOK,
        HandleInv, StateInv, ManagersAgree, VerdictInv, NoBarredReconnect,
        ClosingDone, LocalCodes, FinalCodes, DroppedCodes, UpdateCodes, FatalCodes
  <1>23. CASE FallbackFails
    BY <1>0, <1>23 DEF FallbackFails, EnableAutoConnect, Fails, closing, handshake,
        TypeOK, HandleInv, StateInv, ManagersAgree, VerdictInv, NoBarredReconnect,
        ClosingDone, LocalCodes, FinalCodes, DroppedCodes, UpdateCodes, FatalCodes
  <1>24. CASE ReadCspServerHello \/ ReadServerInfo \/ ReadReflected \/
      ReadReflectionQueueDry \/ ReadRolePromotedToLeader \/ AlertDismissed \/
      FallbackOpens \/ FallbackCloses
    BY <1>0, <1>24 DEF ReadCspServerHello, ReadServerInfo, ReadReflected,
        ReadReflectionQueueDry, ReadRolePromotedToLeader, AlertDismissed,
        FallbackOpens, FallbackCloses, HandshakeFrame, closing, handshake, history,
        manager, TypeOK, HandleInv, StateInv, ManagersAgree, VerdictInv,
        NoBarredReconnect, ClosingDone, LocalCodes, FinalCodes, DroppedCodes,
        UpdateCodes, FatalCodes
  <1>25. CASE UNCHANGED vars
    BY <1>0, <1>25 DEF vars, manager, handshake, closing, history, TypeOK,
        HandleInv, StateInv, ManagersAgree, VerdictInv, NoBarredReconnect,
        ClosingDone, LocalCodes, FinalCodes, DroppedCodes, UpdateCodes, FatalCodes
  <1>. QED
    BY <1>1, <1>2, <1>3, <1>4, <1>5, <1>6, <1>7, <1>8, <1>9, <1>10, <1>11, <1>12,
        <1>13, <1>14, <1>15, <1>16, <1>17, <1>18, <1>19, <1>20, <1>21, <1>22, <1>23,
        <1>24, <1>25 DEF Next, LoopStep, Reading, Failure, User, Unlinking,
        ReadHandshake

-----------------------------------------------------------------------------
(* The invariant *)

LEMMA InvInit ==
    ASSUME BoundsAssumption, Init
    PROVE  IndInv
  <1>1. DataType
    BY DEF Init, DataType, BoundsAssumption
  <1>2. ClosingType
    BY DEF Init, ClosingType
  <1>4. FlagType
    BY DEF Init, FlagType
  <1>3. HandleInv /\ StateInv /\ DryInv /\ OffInv /\ VerdictInv
    BY DEF Init, HandleInv, StateInv, ManagersAgree, DryInv, OffInv,
           OffClosesConnection, VerdictInv, NoBarredReconnect
  <1>. QED
    BY <1>1, <1>2, <1>3, <1>4, TypeParts DEF IndInv

LEMMA InvStep ==
    ASSUME BoundsAssumption, IndInv, [Next]_vars
    PROVE  IndInv'
  <1>1. TypeOK'
    BY DataStep, ClosingStep, FlagStep DEF TypeOK, DataType, ClosingType, FlagType
  <1>. QED
    BY <1>1, HandleStep, StateStep, DryStep, OffStep, VerdictStep DEF IndInv

LEMMA InvProperties ==
    ASSUME IndInv
    PROVE  /\ TypeOK /\ ManagersAgree /\ UnblockedAfterQueue
           /\ OffClosesConnection /\ NoBarredReconnect
  <1>1. UnblockedAfterQueue
    BY DEF IndInv, DryInv, UnblockedAfterQueue
  <1>. QED
    BY <1>1 DEF IndInv, StateInv, OffInv, VerdictInv

(* The invariant holds in every reachable state. *)
THEOREM Invariance == Spec => []IndInv
  BY BoundsAssumption, InvInit, InvStep, PTL DEF Spec

(* Every variable of the connection manager and its connection has its type. *)
THEOREM TypeCorrect == Spec => []TypeOK
  BY Invariance, InvProperties, PTL

(* The task manager is connected exactly while the loop has or creates a     *)
(* connection; no assertion of TaskManager.replace and no step back of the   *)
(* state store is hit unless the fallback of the self kick failed under a    *)
(* running connection.                                                       *)
THEOREM ManagersAgreeAlways == Spec => []ManagersAgree
  BY Invariance, InvProperties, PTL

(* The chat server is not asked for messages before the reflection queue is  *)
(* dry, whatever the order in which the two handshakes complete.             *)
THEOREM UnblockedAfterQueueAlways == Spec => []UnblockedAfterQueue
  BY Invariance, InvProperties, PTL

(* Turning auto-connect off closes the connection the loop waits for; the    *)
(* exceptions are the ones the history variable names.                       *)
THEOREM OffClosesConnectionAlways == Spec => []OffClosesConnection
  BY Invariance, InvProperties, PTL

(* A verdict of a server is obeyed even if it is unread when the connection  *)
(* closes, and however closing, alerts and toggles interleave.               *)
THEOREM NoBarredReconnectAlways == Spec => []NoBarredReconnect
  BY Invariance, InvProperties, PTL
=============================================================================
