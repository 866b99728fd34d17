---------------------------- MODULE ChatController ----------------------------
(***************************************************************************)
(* Protocol::ChatController on every device, over the connections of       *)
(* P2PSocket: chat messages, their acknowledgements and typing indicators. *)
(*                                                                         *)
(* A message is its messageId, which is fresh for every sendMessage.  Its  *)
(* content, time stamps and recipientDeviceId are left out: the receiving  *)
(* code never reads the recipient.  A "delivered" or "read"                *)
(* acknowledgement names the message only, not the device that sent it.    *)
(***************************************************************************)
EXTENDS P2PSocket

CONSTANTS
    Messages,     \* message ids
    Typists,      \* devices whose user types (a bound of the model)
    Servers,      \* devices that called startServer
    NoMessage,    \* the state of an id that is not tracked
    MaxInFlight,  \* bound: frames in flight when a user starts something
    ShowBound     \* bound: how often a message counts as shown

ASSUME ChatAssumption ==
    /\ Typists \subseteq Devices
    /\ Servers \subseteq Devices
    /\ MaxInFlight \in Nat
    /\ ShowBound \in Nat \ {0}

VARIABLES
    outgoing,    \* m_outgoingMessages: MessageState of each tracked id
    ackTimers,   \* keys of m_ackTimers
    cache,       \* m_receivedMessageCache: "no", "fresh", or "old" entries
    peerTyping,  \* keys of m_peerTypingTimers: who is shown as typing
    localTyping, \* m_localIsTyping
    stopTimer,   \* m_localTypingStopTimer->isActive()
    shown,       \* history: how often messageReceived was emitted
    readBy,      \* history: ids a device has called sendReadReceipt for
    wired,       \* history: ids written to some connection
    forgotten    \* history: ids whose cache entry expired at a device

chatVars == <<outgoing, ackTimers, cache, peerTyping, localTyping, stopTimer>>
history  == <<shown, readBy, wired, forgotten>>
vars     == <<socketVars, chatVars, history>>

MessageState == {"Pending", "Sent", "Delivered", "Read", "Failed"}

ASSUME NoMessageAssumption == NoMessage \notin MessageState

ChatMessage(m, d) == [type |-> "ChatMessage", id |-> m, from |-> d]
MessageAck(m, s)  == [type |-> "MessageAck", id |-> m, status |-> s]
Typing(d, b)      == [type |-> "TypingIndicator", from |-> d, isTyping |-> b]

Frames ==
    {ChatMessage(m, d) : m \in Messages, d \in Devices}
    \cup {MessageAck(m, s) : m \in Messages, s \in {"delivered", "read"}}
    \cup {Typing(d, b) : d \in Devices, b \in BOOLEAN}

Init ==
    /\ SocketInit(Servers)
    /\ outgoing = [d \in Devices |-> [m \in Messages |-> NoMessage]]
    /\ ackTimers = [d \in Devices |-> {}]
    /\ cache = [d \in Devices |-> [m \in Messages |-> "no"]]
    /\ peerTyping = [d \in Devices |-> {}]
    /\ localTyping = [d \in Devices |-> FALSE]
    /\ stopTimer = [d \in Devices |-> FALSE]
    /\ shown = [d \in Devices |-> [m \in Messages |-> 0]]
    /\ readBy = [d \in Devices |-> {}]
    /\ wired = {}
    /\ forgotten = [d \in Devices |-> {}]

\* P2PSocket variables other than wire, untouched by sendFrame.
socketButWire == <<m_state, qt, pendingClose, link, dialer, listener, server,
                   listening>>

\* A user may start something only while little is in flight: a bound.
Quiet == \A k \in Conns, s \in Sides : Len(wire[k][s]) < MaxInFlight

-----------------------------------------------------------------------------
(* onSocketDisconnected and onPeerDisconnected: every indicator goes, also *)
(* those of peers whose connections are still up.                          *)

ClearPeerTyping(d) == peerTyping' = [peerTyping EXCEPT ![d] = {}]

ConnectAndNotify(d, e) ==
    \/ \E k \in Conns :
          /\ Dial(d, e, k)
          /\ IF DialDisconnects(d) THEN ClearPeerTyping(d)
                                   ELSE UNCHANGED peerTyping
    \/ /\ RedialWhileConnecting(d) \/ RedialWhileClosing(d)
       /\ UNCHANGED peerTyping

\* What a send does about a connection it lacks: with an empty peerVirtualIp
\* nothing, otherwise it dials.  The frame itself is not kept.
DialOrNot(d) ==
    /\ ~IsConnected(d)
    /\ \/ UNCHANGED <<socketVars, peerTyping>>
       \/ \E e \in Devices : ConnectAndNotify(d, e)

-----------------------------------------------------------------------------
(* sendMessage and the acknowledgement timer it starts.                    *)

TrackAs(d, m, state) ==
    /\ \A e \in Devices : outgoing[e][m] = NoMessage
    /\ outgoing' = [outgoing EXCEPT ![d][m] = state]
    /\ ackTimers' = [ackTimers EXCEPT ![d] = @ \cup {m}]
    /\ UNCHANGED <<cache, localTyping, stopTimer, shown, readBy, forgotten>>

\* Mistaken: the state is not raised to Sent after the write.
SendMessageStaysPending(d, m) ==
    /\ Quiet
    /\ IsConnected(d)
    /\ TrackAs(d, m, "Pending")
    /\ wire' = Broadcast(d, ChatMessage(m, d), wire)
    /\ wired' = wired \cup {m}
    /\ UNCHANGED <<socketButWire, peerTyping>>

SendMessage(d, m) ==
    /\ Quiet
    /\ IsConnected(d)
    /\ TrackAs(d, m, "Sent")
    /\ wire' = Broadcast(d, ChatMessage(m, d), wire)
    /\ wired' = wired \cup {m}
    /\ UNCHANGED <<socketButWire, peerTyping>>

\* Mistaken: the result of sendFrame is not looked at.
SendMessageAsSent(d, m) == DialOrNot(d) /\ TrackAs(d, m, "Sent") /\ UNCHANGED wired

\* sendFrame returned false and the socket is not connected: the message
\* waits as Pending, and nothing ever sends it again.
SendMessageUnconnected(d, m) ==
    /\ DialOrNot(d)
    /\ TrackAs(d, m, "Pending")
    /\ UNCHANGED wired

\* Mistaken: only a message that was sent can time out.
AckTimeoutOfSent(d, m) ==
    /\ m \in ackTimers[d]
    /\ ackTimers' = [ackTimers EXCEPT ![d] = @ \ {m}]
    /\ outgoing' = [outgoing EXCEPT ![d][m] = IF @ = "Sent" THEN "Failed" ELSE @]
    /\ UNCHANGED <<socketVars, cache, peerTyping, localTyping, stopTimer, history>>

AckTimeout(d, m) ==
    /\ m \in ackTimers[d]
    /\ ackTimers' = [ackTimers EXCEPT ![d] = @ \ {m}]
    /\ outgoing' = [outgoing EXCEPT ![d][m] =
                       IF @ \in {"Sent", "Pending"} THEN "Failed" ELSE @]
    /\ UNCHANGED <<socketVars, cache, peerTyping, localTyping, stopTimer, history>>

\* sendReadReceipt for a message on the screen.
SendReadReceipt(d, m) ==
    /\ Quiet
    /\ shown[d][m] > 0
    /\ readBy' = [readBy EXCEPT ![d] = @ \cup {m}]
    /\ \/ /\ IsConnected(d)
          /\ wire' = Broadcast(d, MessageAck(m, "read"), wire)
          /\ UNCHANGED <<socketButWire, peerTyping>>
       \/ DialOrNot(d)
    /\ UNCHANGED <<outgoing, ackTimers, cache, localTyping, stopTimer, shown, wired,
                   forgotten>>

-----------------------------------------------------------------------------
(* sendTypingNotification.  While m_localIsTyping holds, further calls     *)
(* with true only restart the stop timer.                                  *)

StartTyping(d) ==
    /\ Quiet
    /\ d \in Typists
    /\ ~localTyping[d]
    /\ localTyping' = [localTyping EXCEPT ![d] = TRUE]
    /\ stopTimer' = [stopTimer EXCEPT ![d] = TRUE]
    /\ \/ /\ IsConnected(d)
          /\ wire' = Broadcast(d, Typing(d, TRUE), wire)
          /\ UNCHANGED <<socketButWire, peerTyping>>
       \/ DialOrNot(d)
    /\ UNCHANGED <<outgoing, ackTimers, cache, history>>

\* sendTypingNotification(false), from the user or from the stop timer.
StopTyping(d) ==
    /\ localTyping[d]
    /\ localTyping' = [localTyping EXCEPT ![d] = FALSE]
    /\ stopTimer' = [stopTimer EXCEPT ![d] = FALSE]
    /\ wire' = Broadcast(d, Typing(d, FALSE), wire)
    /\ UNCHANGED <<socketButWire, outgoing, ackTimers, cache, peerTyping, history>>

-----------------------------------------------------------------------------
(* onFrameReceivedFrom: the handlers of frames read from a connection.     *)

Head1(k, s) == Head(wire[k][s])

\* Mistaken: a message that is shown is not entered into the cache.
ReceiveUncached(d, k, s) ==
    /\ CanRead(d, k, s) /\ Head1(k, s).type = "ChatMessage"
    /\ LET m == Head1(k, s).id
       IN  /\ cache[d][m] # "fresh"
           /\ shown' = [shown EXCEPT ![d][m] = IF @ < ShowBound THEN @ + 1 ELSE @]
           /\ wire' = Broadcast(d, MessageAck(m, "delivered"), Consumed(k, s))
    /\ UNCHANGED <<socketButWire, outgoing, ackTimers, cache, peerTyping, localTyping,
                   stopTimer, readBy, wired, forgotten>>

\* handleInboundChatMessage, the id is not in the cache once expired
\* entries are erased: it is shown and acknowledged.
ReceiveNewMessage(d, k, s) ==
    /\ CanRead(d, k, s) /\ Head1(k, s).type = "ChatMessage"
    /\ LET m == Head1(k, s).id
           expired == {i \in Messages : cache[d][i] = "old"}
       IN  /\ cache[d][m] # "fresh"
           /\ cache' = [cache EXCEPT ![d] =
                           [i \in Messages |-> IF i = m THEN "fresh"
                                               ELSE IF i \in expired THEN "no"
                                               ELSE @[i]]]
           /\ forgotten' = [forgotten EXCEPT ![d] = @ \cup expired]
           /\ peerTyping' = [peerTyping EXCEPT ![d] = @ \ {Head1(k, s).from}]
           /\ shown' = [shown EXCEPT ![d][m] = IF @ < ShowBound THEN @ + 1 ELSE @]
           /\ wire' = Broadcast(d, MessageAck(m, "delivered"), Consumed(k, s))
    /\ UNCHANGED <<socketButWire, outgoing, ackTimers, localTyping, stopTimer, readBy,
                   wired>>

\* Mistaken: a message known already is taken as read.
ReceiveDuplicateAsRead(d, k, s) ==
    /\ CanRead(d, k, s) /\ Head1(k, s).type = "ChatMessage"
    /\ cache[d][Head1(k, s).id] = "fresh"
    /\ wire' = Broadcast(d, MessageAck(Head1(k, s).id, "read"), Consumed(k, s))
    /\ UNCHANGED <<socketButWire, chatVars, history>>

\* handleInboundChatMessage, a duplicate: acknowledged again, not shown.
ReceiveDuplicate(d, k, s) ==
    /\ CanRead(d, k, s) /\ Head1(k, s).type = "ChatMessage"
    /\ LET m == Head1(k, s).id
           expired == {i \in Messages : cache[d][i] = "old"}
       IN  /\ cache[d][m] = "fresh"
           /\ cache' = [cache EXCEPT ![d] =
                           [i \in Messages |-> IF i \in expired THEN "no" ELSE @[i]]]
           /\ forgotten' = [forgotten EXCEPT ![d] = @ \cup expired]
           /\ wire' = Broadcast(d, MessageAck(m, "delivered"), Consumed(k, s))
    /\ UNCHANGED <<socketButWire, outgoing, ackTimers, peerTyping, localTyping,
                   stopTimer, shown, readBy, wired>>

\* Mistaken: the word of the wire is stored as the state.
AckedStateAsSent(status) == status

\* handleInboundMessageAck: the timer goes and the state is overwritten,
\* whatever it was.  An id that is not tracked is ignored.
AckedState(status) == IF status = "read" THEN "Read" ELSE "Delivered"

\* Mistaken: the timer keeps running.
ReceiveAckKeepsTimer(d, k, s) ==
    /\ CanRead(d, k, s) /\ Head1(k, s).type = "MessageAck"
    /\ LET m == Head1(k, s).id
       IN  outgoing' = [outgoing EXCEPT ![d][m] =
                           IF @ # NoMessage THEN AckedState(Head1(k, s).status) ELSE @]
    /\ wire' = Consumed(k, s)
    /\ UNCHANGED <<socketButWire, ackTimers, cache, peerTyping, localTyping, stopTimer,
                   history>>

\* Mistaken: an answer that comes after the timer is ignored.
ReceiveAckInTime(d, k, s) ==
    /\ CanRead(d, k, s) /\ Head1(k, s).type = "MessageAck"
    /\ LET m == Head1(k, s).id
       IN  /\ ackTimers' = [ackTimers EXCEPT ![d] = @ \ {m}]
           /\ outgoing' = [outgoing EXCEPT ![d][m] =
                 IF m \in ackTimers[d] THEN AckedState(Head1(k, s).status) ELSE @]
    /\ wire' = Consumed(k, s)
    /\ UNCHANGED <<socketButWire, cache, peerTyping, localTyping, stopTimer, history>>

ReceiveAck(d, k, s) ==
    /\ CanRead(d, k, s) /\ Head1(k, s).type = "MessageAck"
    /\ LET m == Head1(k, s).id
       IN  IF outgoing[d][m] # NoMessage
           THEN /\ ackTimers' = [ackTimers EXCEPT ![d] = @ \ {m}]
                /\ outgoing' = [outgoing EXCEPT ![d][m] = AckedState(Head1(k, s).status)]
           ELSE UNCHANGED <<ackTimers, outgoing>>
    /\ wire' = Consumed(k, s)
    /\ UNCHANGED <<socketButWire, cache, peerTyping, localTyping, stopTimer, history>>

\* handleInboundTypingIndicator: the expiry timer of the sender is started,
\* restarted or removed.
ReceiveTyping(d, k, s) ==
    /\ CanRead(d, k, s) /\ Head1(k, s).type = "TypingIndicator"
    /\ peerTyping' = [peerTyping EXCEPT ![d] =
                         IF Head1(k, s).isTyping THEN @ \cup {Head1(k, s).from}
                                                 ELSE @ \ {Head1(k, s).from}]
    /\ wire' = Consumed(k, s)
    /\ UNCHANGED <<socketButWire, outgoing, ackTimers, cache, localTyping, stopTimer,
                   history>>

\* Mistaken: the indicator is left to its sender while there is a connection.
PeerTypingTimeoutAlone(d, e) ==
    /\ ~IsConnected(d)
    /\ e \in peerTyping[d]
    /\ peerTyping' = [peerTyping EXCEPT ![d] = @ \ {e}]
    /\ UNCHANGED <<socketVars, outgoing, ackTimers, cache, localTyping, stopTimer,
                   history>>

PeerTypingTimeout(d, e) ==
    /\ e \in peerTyping[d]
    /\ peerTyping' = [peerTyping EXCEPT ![d] = @ \ {e}]
    /\ UNCHANGED <<socketVars, outgoing, ackTimers, cache, localTyping, stopTimer,
                   history>>

\* DUPLICATE_CACHE_WINDOW_SECS have passed for what device d has cached.
CacheWindowPasses(d) ==
    /\ \E m \in Messages : cache[d][m] = "fresh"
    /\ cache' = [cache EXCEPT ![d] =
                    [m \in Messages |-> IF @[m] = "fresh" THEN "old" ELSE @[m]]]
    /\ UNCHANGED <<socketVars, outgoing, ackTimers, peerTyping, localTyping, stopTimer,
                   history>>

-----------------------------------------------------------------------------
(* The socket's own events, with what the controller makes of them.        *)

chatButTyping == <<outgoing, ackTimers, cache, localTyping, stopTimer, history>>

\* The application calls connectToPeer or disconnectFromPeer.
UserConnects(d, e) == ConnectAndNotify(d, e) /\ UNCHANGED chatButTyping

UserDisconnects(d) ==
    /\ \/ DisconnectLater(d) /\ UNCHANGED peerTyping
       \/ DisconnectNow(d) /\ ClearPeerTyping(d)
    /\ UNCHANGED chatButTyping

Connected(d)     == SocketConnected(d) /\ UNCHANGED <<chatVars, history>>
DialFailed(d)    == SocketError(d) /\ UNCHANGED <<chatVars, history>>
Accepted(k)      == ServerNewConnection(k) /\ UNCHANGED <<chatVars, history>>
Refused(k)       == ServerRejectConnection(k) /\ UNCHANGED <<chatVars, history>>

ConnectedThenClosed(d) ==
    SocketConnectedThenClosed(d) /\ ClearPeerTyping(d) /\ UNCHANGED chatButTyping

Disconnected(d) ==
    SocketDisconnected(d) /\ ClearPeerTyping(d) /\ UNCHANGED chatButTyping

\* Mistaken: only the signal of the client socket is connected.
PeerDisconnectedUnheard(k) ==
    ServerClientDisconnected(k) /\ UNCHANGED <<chatVars, history>>

PeerDisconnected(k) ==
    /\ ServerClientDisconnected(k)
    /\ ClearPeerTyping(listener[k])
    /\ UNCHANGED chatButTyping

-----------------------------------------------------------------------------
Receive(d, k, s) ==
    \/ ReceiveNewMessage(d, k, s) \/ ReceiveDuplicate(d, k, s)
    \/ ReceiveAck(d, k, s) \/ ReceiveTyping(d, k, s)

User(d) ==
    \/ \E m \in Messages : \/ SendMessage(d, m) \/ SendMessageUnconnected(d, m)
                           \/ SendReadReceipt(d, m)
    \/ StartTyping(d) \/ StopTyping(d)

Timers(d) ==
    \/ \E m \in Messages : AckTimeout(d, m)
    \/ \E e \in Devices : PeerTypingTimeout(d, e)
    \/ CacheWindowPasses(d)

Socket ==
    \/ \E d \in Devices : \/ UserDisconnects(d) \/ Connected(d) \/ DialFailed(d)
                          \/ ConnectedThenClosed(d) \/ Disconnected(d)
                          \/ \E e \in Devices : UserConnects(d, e)
    \/ \E k \in Conns : Accepted(k) \/ Refused(k) \/ PeerDisconnected(k)

Next ==
    \/ \E d \in Devices : User(d) \/ Timers(d)
    \/ \E d \in Devices, k \in Conns, s \in Sides : Receive(d, k, s)
    \/ Socket

Spec == Init /\ [][Next]_vars

\* The event loop runs timers and reads what arrives; TCP answers dials, one
\* way or the other, and accepts connections.
Fairness ==
    /\ \A d \in Devices :
          /\ \A m \in Messages : WF_vars(AckTimeout(d, m))
          /\ \A e \in Devices : WF_vars(PeerTypingTimeout(d, e))
          /\ WF_vars(Connected(d) \/ DialFailed(d))
    /\ \A k \in Conns : WF_vars(Accepted(k))
    /\ \A d \in Devices, k \in Conns, s \in Sides : WF_vars(Receive(d, k, s))

FairSpec == Spec /\ Fairness

-----------------------------------------------------------------------------
TypeOK ==
    /\ SocketTypeOK(Frames)
    /\ outgoing \in [Devices -> [Messages -> MessageState \cup {NoMessage}]]
    /\ ackTimers \in [Devices -> SUBSET Messages]
    /\ cache \in [Devices -> [Messages -> {"no", "fresh", "old"}]]
    /\ peerTyping \in [Devices -> SUBSET Devices]
    /\ localTyping \in [Devices -> BOOLEAN]
    /\ stopTimer \in [Devices -> BOOLEAN]
    /\ shown \in [Devices -> [Messages -> 0..ShowBound]]
    /\ readBy \in [Devices -> SUBSET Messages]
    /\ wired \subseteq Messages
    /\ forgotten \in [Devices -> SUBSET Messages]

\* An acknowledgement timer runs exactly while its message is undecided: none
\* is left behind to overwrite an answer, none is missing so that a message
\* hangs.  (chat_controller.cpp:99-119, 318-326)
TimersMatchUndecided ==
    \A d \in Devices, m \in Messages :
        m \in ackTimers[d] <=> outgoing[d][m] \in {"Sent", "Pending"}

\* Frame f travels on side s of connection k; on some connection.
Carries(k, s, f) == \E i \in 1..Len(wire[k][s]) : wire[k][s][i] = f
InFlight(f) == \E k \in Conns, s \in Sides : Carries(k, s, f)

\* A message reported delivered has been shown by a device other than the
\* sender, one reported read was read there, although an acknowledgement does
\* not say whose it is and goes to every connection.
\* (handleInboundMessageAck, chat_controller.cpp:309-339)
DeliveredWasShown ==
    \A d \in Devices, m \in Messages :
        /\ outgoing[d][m] = "Delivered" => \E e \in Devices \ {d} : shown[e][m] > 0
        /\ outgoing[d][m] = "Read" => \E e \in Devices \ {d} : m \in readBy[e]

\* A message kept as Pending because nothing was connected stays at home:
\* it is not in flight and nobody has shown it or ever will.
\* (sendMessage, chat_controller.cpp:126-131)
PendingIsStranded ==
    \A d, e \in Devices, m \in Messages :
        outgoing[d][m] = "Pending" =>
            /\ ~InFlight(ChatMessage(m, d))
            /\ shown[e][m] = 0 /\ cache[e][m] = "no"

\* Two devices that dialled each other get every frame twice; still a message
\* is shown again only when its cache entry had expired.
\* (m_receivedMessageCache, chat_controller.cpp:232-279)
ShownOncePerWindow ==
    \A d \in Devices, m \in Messages : shown[d][m] > 1 => m \in forgotten[d]

\* A device that has no connection left shows nobody as typing, whichever of
\* the three disconnect signals told it so.  (chat_controller.cpp:20-24, 382-398)
TypingNeedsConnection ==
    \A d \in Devices :
        peerTyping[d] # {} => ServerClients(d) # {} \/ qt[d] \in {"Connected", "Closing"}

\* What makes DeliveredWasShown and PendingIsStranded inductive: an id has one
\* sender, only ids that were put on a connection are shown, the sender never
\* shows its own, and every frame in flight tells of something that happened.
Receiver(k, s) == IF s = "up" THEN listener[k] ELSE dialer[k]

Justified(f, k, s) ==
    CASE f.type = "ChatMessage" ->
            /\ f.id \in wired
            /\ outgoing[f.from][f.id] # NoMessage
            /\ f.from # Receiver(k, s)
      [] f.type = "MessageAck" ->
            IF f.status = "read" THEN \E e \in Devices : f.id \in readBy[e]
                                 ELSE \E e \in Devices : shown[e][f.id] > 0
      [] f.type = "TypingIndicator" -> TRUE

FramesAreJustified ==
    \A k \in Conns, s \in Sides : \A i \in 1..Len(wire[k][s]) :
        Justified(wire[k][s][i], k, s)

OneSender ==
    \A m \in Messages :
        /\ \A d, e \in Devices :
              outgoing[d][m] # NoMessage /\ outgoing[e][m] # NoMessage => d = e
        /\ m \in wired => \E d \in Devices : outgoing[d][m] # NoMessage
        /\ \A d \in Devices : outgoing[d][m] = "Pending" => m \notin wired

ShownWasWired ==
    \A e \in Devices, m \in Messages :
        /\ cache[e][m] # "no" => shown[e][m] > 0
        /\ shown[e][m] > 0 => m \in wired /\ outgoing[e][m] = NoMessage
        /\ m \in readBy[e] => shown[e][m] > 0

ChatInv ==
    /\ TypeOK /\ SocketInv
    /\ FramesAreJustified /\ OneSender /\ ShownWasWired
    /\ DeliveredWasShown /\ TimersMatchUndecided

\* With one connection between two devices the reports of a message never go
\* back from read to delivered: frames of one connection keep their order.
\* (chat_controller.cpp:325)
ReadIsFinal ==
    [][\A d \in Devices, m \in Messages :
          outgoing[d][m] = "Read" => outgoing'[d][m] = "Read"]_vars

\* The life of a message is the one MessageDelivery describes.
Delivery ==
    INSTANCE MessageDelivery WITH
        status <- [m \in Messages |->
                     IF \E d \in Devices : outgoing[d][m] # NoMessage
                     THEN outgoing[CHOOSE d \in Devices : outgoing[d][m] # NoMessage][m]
                     ELSE "New"],
        seen <- {m \in Messages : \E d \in Devices : shown[d][m] > 0},
        read <- UNION {readBy[d] : d \in Devices}

ImplementsDelivery == Delivery!Spec

\* Every message gets a verdict: delivered, read or failed.
EveryMessageIsDecided ==
    \A d \in Devices, m \in Messages :
        outgoing[d][m] \in {"Sent", "Pending"}
            ~> outgoing[d][m] \in {"Delivered", "Read", "Failed"}

\* Nobody is shown as typing for ever.
TypingEnds ==
    \A d, e \in Devices : e \in peerTyping[d] ~> e \notin peerTyping[d]

\* Nothing has closed either end of connection k, or is about to.
Whole(k) ==
    /\ DialerHolds(k) /\ server[k] # "closed"
    /\ qt[dialer[k]] \in {"Connecting", "Connected"} /\ ~pendingClose[dialer[k]]

\* A message that travels on a connection is in the end reported delivered to
\* its sender, even if the timer gave it up meanwhile and whatever else is sent
\* and answered, unless that connection breaks.
\* (handleInboundChatMessage, handleInboundMessageAck, chat_controller.cpp:244-339)
SentIsDelivered ==
    \A d \in Devices, m \in Messages, k \in Conns, s \in Sides :
        Whole(k) /\ Carries(k, s, ChatMessage(m, d))
            ~> ~Whole(k) \/ outgoing[d][m] \in {"Delivered", "Read"}
=============================================================================
