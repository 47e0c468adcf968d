----------------------------- MODULE Connection -----------------------------
(***************************************************************************)
(* The connection manager of the backend worker and the connection to the  *)
(* mediator server it runs: the loop that connects, waits until closed and *)
(* reconnects; auto-connect, which the user and the servers turn off; the  *)
(* two handshakes that go over one web socket (D2M with the mediator, CSP  *)
(* with the chat server behind it); the closing sequence, which drains     *)
(* what was read before the loop goes on; and the connection to the        *)
(* mediator alone by which a device unlinks itself.                        *)
(***************************************************************************)
EXTENDS Naturals, Sequences

CONSTANTS
    Reflected,      \* the messages waiting in the reflection queue
    MaxFailures,    \* bound: how often the network or a server fails
    MaxRequests,    \* bound: how often the user asks for something
    MaxInFlight     \* bound: unread messages behind the handshakes

ASSUME BoundsAssumption ==
    MaxFailures \in Nat /\ MaxRequests \in Nat /\ MaxInFlight \in Nat

VARIABLES
    \* ConnectionManager
    loop,           \* where the _run generator is
    auto,           \* _autoConnect is resolved
    skip,           \* skipConnectionDelay
    handle,         \* _connection: none, the main or the D2M-only connection
    state,          \* the manager's ConnectionState store
    leaderState,    \* the manager's D2mLeaderState store
    inner,          \* TaskManager._inner
    fallback,       \* the D2M-only connection of selfKickFromMediator
    \* the main connection and its protocol controller
    csp, d2m,       \* the two authentication states
    info, dry, leader,  \* serverInfo, reflectionQueueDry, promotedToLeader
    unblocked,      \* UnblockIncomingMessages has been sent
    reflected,      \* reflected messages read from this connection
    closed,         \* the close information raised, "no" while it is open
    drained,        \* the readable side of the pipe has ended
    inFlight,       \* messages sent by the servers and not read yet
    \* the user's dialog, bounds and history
    alert,          \* a server alert is open
    failures, requests,
    barred,         \* a server has ended the connection for good
    missed,         \* auto-connect was turned off with no main connection to close
    torn            \* a failed fallback has reset the manager under its loop

manager == <<loop, auto, skip, handle, state, leaderState, inner, fallback>>
handshake == <<csp, d2m, info, dry, leader, unblocked, reflected>>
closing == <<closed, drained, inFlight>>
history == <<barred, missed, torn>>
vars == <<manager, handshake, closing, alert, failures, requests, history>>

\* Close codes a server can end the connection with.
RecoverableCodes == {"recoverable"}
DroppedCodes == {"deviceDropped"}
UpdateCodes == {"clientUpdateRequired"}
FatalCodes == {"deviceLimitReached"}
FinalCodes == DroppedCodes \cup UpdateCodes \cup FatalCodes
RemoteCodes == RecoverableCodes \cup FinalCodes
\* Close information of the device's own: a plain disconnect, a mediator that
\* is too old, a CSP close-error (declared as remote), an error of the pipe.
LocalCodes == {"local", "mediatorUpdateRequired"}
CloseReasons == RemoteCodes \cup LocalCodes \cup {"closeError", "error"}

\* The closing sequence cut short whoever closes the connection.
NoDraining == closed # "no"

\* The closing sequence is over: at once for a local close or an error,
\* otherwise when everything read before has been processed.
ClosingDone == closed \in LocalCodes \cup {"error"} \/ drained

\* The loop waits for a connection that nothing has closed yet.
Live == loop = "open" /\ closed = "no"

Init ==
    /\ loop = "auto" /\ auto = TRUE /\ skip = FALSE
    /\ handle = "none" /\ state = "disconnected" /\ leaderState = "nonleader"
    /\ inner = "disconnected" /\ fallback = "no"
    /\ csp = "serverHello" /\ d2m = "serverHello"
    /\ info = FALSE /\ dry = FALSE /\ leader = FALSE
    /\ unblocked = FALSE /\ reflected = {}
    /\ closed = "no" /\ drained = FALSE /\ inFlight = <<>>
    /\ alert = FALSE /\ failures = 0 /\ requests = 0
    /\ barred = FALSE /\ missed = FALSE /\ torn = FALSE

Fails == failures < MaxFailures /\ failures' = failures + 1
Asks == requests < MaxRequests /\ requests' = requests + 1
-----------------------------------------------------------------------------
(* Auto-connect *)

\* Auto-connect turned off, and the connection left open.
DisableOnly(reason) ==
    /\ auto' = FALSE
    /\ UNCHANGED <<missed, closed, state>>

\* disconnectAndDisableAutoConnect(info): the current connection is closed, and
\* with it the state of the connection becomes "disconnected" at once.
DisableAutoConnect(reason) ==
    /\ auto' = FALSE
    /\ missed' = (missed \/ (loop \in {"create", "open"} /\ handle # "main"))
    /\ IF handle = "main" /\ closed = "no"
       THEN closed' = reason /\ state' = "disconnected"
       ELSE UNCHANGED <<closed, state>>

\* The same call when the D2M-only connection is the current one.
DisconnectFallback ==
    fallback' = IF handle = "d2m" /\ fallback = "open" THEN "no" ELSE fallback

\* enableAutoConnect().
EnableAutoConnect ==
    /\ auto' = TRUE
    /\ barred' = (barred /\ auto)
-----------------------------------------------------------------------------
(* The run loop *)

\* Where the loop goes after a connection: it sleeps, unless it is to skip delays.
Pause == IF skip THEN "auto" ELSE "sleep"

\* The first half of _connectAndWaitUntilClosed: the task manager is replaced
\* by a connected one and a connection is being created.
StartConnecting ==
    /\ loop = "auto" /\ auto /\ inner = "disconnected"
    /\ loop' = "create" /\ inner' = "connected"
    /\ state' = "connecting"
    /\ csp' = "serverHello" /\ d2m' = "serverHello"
    /\ info' = FALSE /\ dry' = FALSE /\ leader' = FALSE
    /\ unblocked' = FALSE /\ reflected' = {}
    /\ closed' = "no" /\ drained' = FALSE /\ inFlight' = <<>>
    /\ missed' = FALSE
    /\ UNCHANGED <<auto, skip, handle, leaderState, fallback, alert, failures,
                   requests, barred, torn>>

\* A failed attempt that leaves the connected task manager in place.
CreateFailsUnreplaced ==
    /\ loop = "create"
    /\ Fails
    /\ state' = "disconnected" /\ leaderState' = "nonleader" /\ loop' = Pause
    /\ UNCHANGED <<auto, skip, handle, inner, fallback, handshake, closing, alert,
                   requests, history>>

\* The web socket cannot be opened. TaskManager.replace asserts that it still
\* is the connected one; the assertion ends the loop when it is not.
CreateFails ==
    /\ loop = "create"
    /\ Fails
    /\ IF inner = "connected"
       THEN /\ inner' = "disconnected" /\ state' = "disconnected"
            /\ leaderState' = "nonleader" /\ loop' = Pause
       ELSE /\ loop' = "dead"
            /\ UNCHANGED <<inner, state, leaderState>>
    /\ UNCHANGED <<auto, skip, handle, fallback, handshake, closing, alert,
                   requests, history>>

\* The pipe is attached, and the states of the connection are forwarded to the
\* manager's: from "disconnected" the store refuses to go back, which throws.
Opened ==
    /\ loop = "create"
    /\ handle' = "main"
    /\ IF state = "connecting"
       THEN loop' = "open" /\ state' = "handshake"
       ELSE loop' = "dead" /\ UNCHANGED state
    /\ UNCHANGED <<auto, skip, leaderState, inner, fallback, handshake, closing,
                   alert, failures, requests, history>>

\* The rest of _connectAndWaitUntilClosed and of the loop's body once the
\* closing sequence is done: _reset(), then what the close code asks for.
Finish ==
    /\ loop = "open" /\ closed # "no" /\ ClosingDone
    /\ IF inner = "connected"
       THEN /\ inner' = "disconnected" /\ state' = "disconnected"
            /\ leaderState' = "nonleader" /\ handle' = "none"
            /\ auto' = (auto /\ closed \notin FinalCodes)
            /\ loop' = CASE closed \in FatalCodes -> "dead"
                         [] closed = "mediatorUpdateRequired" -> "dialog"
                         [] OTHER -> Pause
       ELSE /\ loop' = "dead"
            /\ UNCHANGED <<inner, state, leaderState, handle, auto>>
    /\ UNCHANGED <<skip, fallback, handshake, closing, alert, failures, requests,
                   history>>

\* The user agrees to reconnect to a mediator that is too old.
DialogConfirmed ==
    /\ loop = "dialog"
    /\ loop' = "auto" /\ skip' = TRUE
    /\ UNCHANGED <<auto, handle, state, leaderState, inner, fallback, handshake,
                   closing, alert, failures, requests, history>>

DialogDismissed ==
    /\ loop = "dialog"
    /\ loop' = Pause
    /\ DisableAutoConnect("mediatorUpdateRequired") /\ DisconnectFallback
    /\ UNCHANGED <<skip, handle, leaderState, inner, handshake, drained, inFlight,
                   alert, failures, requests, barred, torn>>

\* The delay between two attempts has elapsed.
Wake ==
    /\ loop = "sleep"
    /\ loop' = "auto"
    /\ UNCHANGED <<auto, skip, handle, state, leaderState, inner, fallback,
                   handshake, closing, alert, failures, requests, history>>
-----------------------------------------------------------------------------
(* The handshakes: what the layer 3 decoder does with what it reads *)

\* The authentication state forwarded where the connection state belongs.
CompletedForwarding(other) ==
    /\ state' = IF other = "complete" THEN "connected" ELSE other
    /\ UNCHANGED <<closed, drained>>

\* Both handshakes report to the same store: the first to complete makes the
\* connection partially connected, the second one connected. When a failed
\* fallback has moved the manager's state on, the store throws into the pipe.
Completed(other) ==
    IF state = "disconnected"
    THEN closed' = "error" /\ drained' = TRUE /\ UNCHANGED state
    ELSE /\ state' = IF other = "complete" THEN "connected" ELSE "partially"
         /\ UNCHANGED <<closed, drained>>

\* CSP messages unblocked as soon as CSP is authenticated.
UnblockAtLogin == unblocked' = (csp' = "complete")

\* CSP messages are unblocked once CSP is authenticated and the device leads.
Unblock == unblocked' = (csp' = "complete" /\ leader')

HandshakeFrame ==
    UNCHANGED <<loop, auto, skip, handle, inner, fallback, inFlight, alert,
                failures, requests, history>>

ReadCspServerHello ==
    /\ Live /\ csp = "serverHello"
    /\ csp' = "loginAck"
    /\ HandshakeFrame
    /\ UNCHANGED <<state, leaderState, closed, drained, d2m, info, dry, leader,
                   unblocked, reflected>>

ReadCspLoginAck ==
    /\ Live /\ csp = "loginAck"
    /\ csp' = "complete"
    /\ Completed(d2m)
    /\ leader' = leader
    /\ Unblock
    /\ HandshakeFrame
    /\ UNCHANGED <<leaderState, d2m, info, dry, reflected>>

ReadD2mServerHello ==
    /\ Live /\ d2m = "serverHello"
    /\ d2m' = "complete"
    /\ Completed(csp)
    /\ HandshakeFrame
    /\ UNCHANGED <<leaderState, csp, info, dry, leader, unblocked, reflected>>

\* A mediator whose protocol is too old: the connection is closed locally.
ReadOldServerHello ==
    /\ Live /\ d2m = "serverHello"
    /\ Fails
    /\ closed' = "mediatorUpdateRequired" /\ state' = "disconnected"
    /\ drained' = TRUE /\ inFlight' = <<>>
    /\ barred' = (barred /\ ~auto)
    /\ UNCHANGED <<loop, auto, skip, handle, leaderState, inner, fallback,
                   handshake, alert, requests, missed, torn>>

\* The mediator answers with the server info, the reflection queue, the mark of
\* its end and, when no other device leads, the promotion to leader.
ReadServerInfo ==
    /\ Live /\ d2m = "complete" /\ ~info
    /\ info' = TRUE
    /\ HandshakeFrame
    /\ UNCHANGED <<state, leaderState, closed, drained, csp, d2m, dry, leader,
                   unblocked, reflected>>

ReadReflected ==
    /\ Live /\ info /\ ~dry
    /\ \E r \in Reflected \ reflected : reflected' = reflected \cup {r}
    /\ HandshakeFrame
    /\ UNCHANGED <<state, leaderState, closed, drained, csp, d2m, info, dry,
                   leader, unblocked>>

ReadReflectionQueueDry ==
    /\ Live /\ info /\ ~dry /\ reflected = Reflected
    /\ dry' = TRUE
    /\ HandshakeFrame
    /\ UNCHANGED <<state, leaderState, closed, drained, csp, d2m, info, leader,
                   unblocked, reflected>>

ReadRolePromotedToLeader ==
    /\ Live /\ dry /\ ~leader
    /\ leader' = TRUE /\ leaderState' = "leader"
    /\ csp' = csp
    /\ Unblock
    /\ HandshakeFrame
    /\ UNCHANGED <<state, closed, drained, d2m, info, dry, reflected>>

ReadHandshake ==
    \/ ReadCspServerHello \/ ReadCspLoginAck
    \/ ReadD2mServerHello \/ ReadServerInfo
    \/ ReadReflected \/ ReadReflectionQueueDry \/ ReadRolePromotedToLeader
-----------------------------------------------------------------------------
(* Behind the handshakes: messages in flight and the closing sequence *)

\* A message for the tasks of layer 5, a close-error of the chat server that
\* forbids to reconnect, or the indication that the device cookie has changed.
Kinds == {"message", "closeError", "cookieChanged"}

ServerSends ==
    /\ Live /\ csp = "complete"
    /\ Len(inFlight) < MaxInFlight
    /\ \E kind \in Kinds :
        /\ inFlight' = Append(inFlight, kind)
        /\ IF kind = "message" THEN UNCHANGED <<failures, barred>>
           ELSE Fails /\ barred' = TRUE
    /\ UNCHANGED <<manager, handshake, closed, drained, alert, requests, missed,
                   torn>>

\* Layer 4 handles alerts and close-errors even while closing. Layer 5 hands a
\* message to the task manager; a message it cannot hand over any more is lost,
\* and it delays the error until the closing sequence is done.
ReadMessage ==
    /\ loop = "open" /\ ~drained
    /\ inFlight # <<>> /\ Head(inFlight) = "message"
    /\ inFlight' = Tail(inFlight)
    /\ UNCHANGED <<manager, handshake, closed, drained, alert, failures, requests,
                   history>>

ReadCloseError ==
    /\ loop = "open" /\ ~drained
    /\ inFlight # <<>> /\ Head(inFlight) = "closeError"
    /\ inFlight' = Tail(inFlight)
    /\ alert' = TRUE
    /\ DisableAutoConnect("closeError") /\ DisconnectFallback
    /\ UNCHANGED <<loop, skip, handle, leaderState, inner, handshake, drained,
                   failures, requests, barred, torn>>

ReadDeviceCookieChanged ==
    /\ loop = "open" /\ ~drained
    /\ inFlight # <<>> /\ Head(inFlight) = "cookieChanged"
    /\ inFlight' = Tail(inFlight)
    /\ DisableAutoConnect("local") /\ DisconnectFallback
    /\ UNCHANGED <<loop, skip, handle, leaderState, inner, handshake, drained,
                   alert, failures, requests, barred, torn>>

\* The mediator closes the web socket. What it sent before is still read.
ServerCloses ==
    /\ Live
    /\ Fails
    /\ \E code \in RemoteCodes :
        /\ closed' = code
        /\ barred' = (barred \/ code \in FinalCodes)
    /\ state' = "disconnected"
    /\ UNCHANGED <<loop, auto, skip, handle, leaderState, inner, fallback,
                   handshake, drained, inFlight, alert, requests, missed, torn>>

\* The end of the readable side that does not resolve the closing sequence.
PipeEndsUnnoticed ==
    /\ loop = "open" /\ closed # "no" /\ ~drained /\ inFlight = <<>>
    /\ UNCHANGED vars

\* Everything read before the web socket was closed has been processed.
PipeEnds ==
    /\ loop = "open" /\ closed # "no" /\ ~drained /\ inFlight = <<>>
    /\ drained' = TRUE
    /\ UNCHANGED <<manager, handshake, closed, inFlight, alert, failures,
                   requests, history>>

\* A side of the pipe or the task manager errs: what is in flight is lost.
PipeErrs ==
    /\ loop = "open" /\ ~drained
    /\ Fails
    /\ closed' = IF closed = "no" THEN "error" ELSE closed
    /\ drained' = TRUE /\ inFlight' = <<>>
    /\ barred' = (barred /\ (closed \in FinalCodes \/ ~auto))
    /\ UNCHANGED <<manager, handshake, alert, requests, missed, torn>>

\* disconnect(): an echo request timed out, or the user interface asks for it.
LocalDisconnect ==
    /\ Live
    /\ Fails
    /\ closed' = "local" /\ state' = "disconnected"
    /\ barred' = (barred /\ ~auto)
    /\ UNCHANGED <<loop, auto, skip, handle, leaderState, inner, fallback,
                   handshake, drained, inFlight, alert, requests, missed, torn>>
-----------------------------------------------------------------------------
(* The user *)

ToggleOff ==
    /\ auto
    /\ Asks
    /\ DisableAutoConnect("local") /\ DisconnectFallback
    /\ UNCHANGED <<loop, skip, handle, leaderState, inner, handshake, drained,
                   inFlight, alert, failures, barred, torn>>

ToggleOn ==
    /\ ~auto
    /\ Asks
    /\ EnableAutoConnect
    /\ UNCHANGED <<loop, skip, handle, state, leaderState, inner, fallback,
                   handshake, closing, alert, failures, missed, torn>>

\* The server's alert is closed; confirming it means to reconnect.
AlertConfirmed ==
    /\ alert
    /\ alert' = FALSE
    /\ EnableAutoConnect
    /\ UNCHANGED <<loop, skip, handle, state, leaderState, inner, fallback,
                   handshake, closing, failures, requests, missed, torn>>

AlertDismissed ==
    /\ alert
    /\ alert' = FALSE
    /\ UNCHANGED <<manager, handshake, closing, failures, requests, history>>

\* selfKickFromMediator() while disconnected: the volatile DropDeviceTask is
\* refused, and _startD2mOnlyConnectionAndUnlink asserts that no connection is
\* left before it creates its own.
SelfKick ==
    /\ inner = "disconnected" /\ fallback = "no"
    /\ Asks
    /\ DisableAutoConnect("local")
    /\ fallback' = IF handle = "none" THEN "create" ELSE fallback
    /\ UNCHANGED <<loop, skip, handle, leaderState, inner, handshake, drained,
                   inFlight, alert, failures, barred, torn>>

\* createD2mOnly resolves, and its connection replaces whatever was current.
FallbackOpens ==
    /\ fallback = "create"
    /\ fallback' = "open" /\ handle' = "d2m"
    /\ UNCHANGED <<loop, auto, skip, state, leaderState, inner, handshake,
                   closing, alert, failures, requests, history>>

\* createD2mOnly fails: _reset(), whose assertion fails when the task manager
\* is disconnected already, and auto-connect is turned on again.
FallbackFails ==
    /\ fallback = "create"
    /\ Fails
    /\ fallback' = "no"
    /\ IF inner = "connected"
       THEN /\ inner' = "disconnected" /\ state' = "disconnected"
            /\ leaderState' = "nonleader" /\ handle' = "none"
            /\ torn' = TRUE
            /\ EnableAutoConnect
       ELSE UNCHANGED <<inner, state, leaderState, handle, torn, auto, barred>>
    /\ UNCHANGED <<loop, skip, handshake, closing, alert, requests, missed>>

\* The device is dropped, or the D2M-only connection is lost.
FallbackCloses ==
    /\ fallback = "open"
    /\ fallback' = "no"
    /\ UNCHANGED <<loop, auto, skip, handle, state, leaderState, inner, handshake,
                   closing, alert, failures, requests, history>>
-----------------------------------------------------------------------------
LoopStep == StartConnecting \/ Opened \/ Finish \/ Wake
Reading == ReadHandshake \/ ReadMessage \/ ReadCloseError \/ ReadDeviceCookieChanged
Failure == CreateFails \/ ServerCloses \/ PipeErrs \/ LocalDisconnect
             \/ ReadOldServerHello
User == ToggleOff \/ ToggleOn \/ AlertConfirmed \/ AlertDismissed
          \/ DialogConfirmed \/ DialogDismissed
Unlinking == SelfKick \/ FallbackOpens \/ FallbackFails \/ FallbackCloses

Next == LoopStep \/ Reading \/ ServerSends \/ PipeEnds \/ Failure \/ User \/ Unlinking

Spec == Init /\ [][Next]_vars

\* The loop and the pipe make progress and the servers answer; nothing makes the
\* user act, a server fail or a creation fail.
Fairness ==
    /\ WF_vars(StartConnecting) /\ WF_vars(Opened) /\ WF_vars(Finish) /\ WF_vars(Wake)
    /\ WF_vars(ReadCspServerHello) /\ WF_vars(ReadCspLoginAck)
    /\ WF_vars(ReadD2mServerHello)
    /\ WF_vars(ReadMessage) /\ WF_vars(ReadCloseError)
    /\ WF_vars(ReadDeviceCookieChanged) /\ WF_vars(PipeEnds)

FairSpec == Spec /\ Fairness
-----------------------------------------------------------------------------
(* Properties *)

TypeOK ==
    /\ loop \in {"auto", "create", "open", "dialog", "sleep", "dead"}
    /\ auto \in BOOLEAN /\ skip \in BOOLEAN
    /\ handle \in {"none", "main", "d2m"}
    /\ state \in {"disconnected", "connecting", "handshake", "partially", "connected"}
    /\ leaderState \in {"nonleader", "leader"}
    /\ inner \in {"disconnected", "connected"}
    /\ fallback \in {"no", "create", "open"}
    /\ csp \in {"serverHello", "loginAck", "complete"}
    /\ d2m \in {"serverHello", "complete"}
    /\ info \in BOOLEAN /\ dry \in BOOLEAN /\ leader \in BOOLEAN
    /\ unblocked \in BOOLEAN /\ reflected \subseteq Reflected
    /\ closed \in {"no"} \cup CloseReasons
    /\ drained \in BOOLEAN /\ inFlight \in Seq(Kinds)
    /\ alert \in BOOLEAN
    /\ failures \in 0 .. MaxFailures /\ requests \in 0 .. MaxRequests
    /\ barred \in BOOLEAN /\ missed \in BOOLEAN /\ torn \in BOOLEAN

\* The task manager is the connected one exactly while the loop has a connection
\* or creates one; outside of that the stores say disconnected and not leader.
\* Only a failed D2M-only fallback breaks this, and only a fatal close code or
\* such a failure ends the loop: otherwise no assertion of TaskManager.replace
\* and no step back of the monotonic state store is ever hit.
ManagersAgree ==
    /\ inner = "connected" => loop \in {"create", "open"}
    /\ torn \/ /\ loop \in {"create", "open"} => inner = "connected"
               /\ loop = "create" => state = "connecting"
               /\ inner = "disconnected" => /\ state = "disconnected"
                                            /\ leaderState = "nonleader"
                                            /\ handle # "main"
               /\ loop = "dead" => closed \in FatalCodes

\* The chat server is told to send its messages only when every reflected
\* message has been read: what a device sees of the chat server follows all that
\* the other devices reflected while it was away.
UnblockedAfterQueue ==
    unblocked => csp = "complete" /\ dry /\ leader /\ reflected = Reflected

\* Turning auto-connect off closes the connection the loop waits for. It misses
\* that connection only when it is turned off while the connection is being
\* created, or while the D2M-only connection has taken its place.
OffClosesConnection ==
    loop = "open" /\ ~auto => closed # "no" \/ missed

\* A close code that is final, and a close-error or a changed device cookie the
\* chat server sent before the connection was closed, is obeyed: the loop makes
\* no further attempt before the user turns auto-connect on again. It takes the
\* draining of the pipe, since the message may still be unread at the close.
NoBarredReconnect ==
    barred => loop \in {"open", "dead"} \/ (~auto /\ loop # "create")

\* With auto-connect on the device gets connected eventually, unless the loop
\* waits for the user, has been ended, or lost its task manager to a failed
\* fallback.
Reconnects ==
    auto ~> (state = "connected" \/ ~auto \/ torn \/ loop \in {"dialog", "dead"})

\* "When we weren't connected, we wait exactly 5s before making another
\* attempt": a connection that could not be created is followed by the delay.
DelayAfterFailure ==
    [][loop = "create" => loop' \in {"create", "open", "sleep", "dead"}]_vars
=============================================================================
