---------------------------- MODULE MqttSignaling ----------------------------
(***************************************************************************)
(* Network::MqttSignalingClient of one device, its TLS socket, and the     *)
(* broker.                                                                 *)
(*                                                                         *)
(* Socket and broker are external.  A connection that the client has given *)
(* up may live on at the broker, which still reads what was sent on it.    *)
(* There is one session per device: a later CONNECT ends the earlier one.  *)
(* A session that ends without DISCONNECT has its will published, which is *)
(* "offline".  Presence of other devices passes through the client without *)
(* changing its state, and is left out; so are PUBACKs.                    *)
(***************************************************************************)
EXTENDS Naturals, Sequences

CONSTANTS
    Conns,        \* names for connections to the broker
    NoConn,
    MaxInFlight   \* bound: packets in flight when someone starts something

ASSUME MqttAssumption == NoConn \notin Conns /\ MaxInFlight \in Nat

VARIABLES
    m_state,         \* m_state
    intentional,     \* m_intentionalDisconnect
    pingTimer,       \* m_pingTimer->isActive()
    pingTimeout,     \* m_pingTimeoutTimer->isActive()
    pingOutstanding, \* m_pingOutstanding
    reconnectTimer,  \* m_reconnectTimer->isActive()
    sock,            \* state of m_socket: TCP, then TLS, then in use
    pendingClose,    \* disconnectFromHost was called before TCP was up
    link,            \* the connection m_socket holds
    alive,           \* connections that exist for the broker
    up,              \* packets to the broker, per connection
    down,            \* packets to the client, per connection
    session,         \* the connection of the device's session at the broker
    subscribed,      \* that session has subscriptions
    last,            \* the presence subscribers were told last
    wanted,          \* history: the last call was connectToBroker
    announced        \* history: the presence the client published last

timers   == <<pingTimer, pingTimeout, pingOutstanding, reconnectTimer>>
client   == <<m_state, intentional, timers>>
socket   == <<sock, pendingClose, link>>
broker   == <<alive, session, subscribed, last>>
vars     == <<client, socket, up, down, broker, wanted, announced>>

MqttState == {"Disconnected", "Connecting", "Connected", "Subscribing", "Ready"}
SockState == {"Unconnected", "Connecting", "Handshake", "Encrypted", "Closing"}
ToBroker  == {"CONNECT", "SUBSCRIBE", "ONLINE", "OFFLINE", "PINGREQ", "DISCONNECT"}
ToClient  == {"CONNACK", "REFUSED", "SUBACK", "PINGRESP", "DISCOVERY"}

Init ==
    /\ m_state = "Disconnected" /\ intentional = FALSE
    /\ pingTimer = FALSE /\ pingTimeout = FALSE /\ pingOutstanding = FALSE
    /\ reconnectTimer = FALSE
    /\ sock = "Unconnected" /\ pendingClose = FALSE /\ link = NoConn
    /\ alive = {} /\ session = NoConn /\ subscribed = FALSE /\ last = "none"
    /\ up = [k \in Conns |-> <<>>] /\ down = [k \in Conns |-> <<>>]
    /\ wanted = FALSE /\ announced = "none"

-----------------------------------------------------------------------------
(* The socket.                                                             *)

\* TCP is up: only then does the end of a connection emit disconnected().
Up == sock \in {"Handshake", "Encrypted", "Closing"}

\* The client's end of its connection goes, and what was still to be read.
Unlinked == [k \in Conns |-> IF k = link THEN <<>> ELSE down[k]]

SocketGone ==
    /\ sock' = "Unconnected" /\ link' = NoConn /\ pendingClose' = FALSE
    /\ down' = Unlinked

\* Nothing gets out after the closing alert of TLS.
Send(packets) ==
    up' = IF sock = "Closing" THEN up ELSE [up EXCEPT ![link] = @ \o packets]

\* sendPublish of a presence, dropped unless the socket is connected.
Publish(p) == Send(<<p>>) /\ announced' = IF sock = "Closing" THEN announced ELSE p

StopPing == pingTimer' = FALSE /\ pingTimeout' = FALSE /\ pingOutstanding' = FALSE

\* Mistaken: the timeout of the last ping goes on.
OnSocketDisconnectedPinging ==
    /\ pingTimer' = FALSE /\ pingOutstanding' = FALSE /\ UNCHANGED pingTimeout
    /\ m_state' = "Disconnected"
    /\ reconnectTimer' = (reconnectTimer \/ ~intentional)

\* Mistaken: only a session that was ready is resumed.
OnSocketDisconnectedReady ==
    /\ StopPing
    /\ m_state' = "Disconnected"
    /\ reconnectTimer' = (reconnectTimer \/ (~intentional /\ m_state = "Ready"))

\* onSocketDisconnected, with scheduleReconnect unless the end was wanted.
OnSocketDisconnected ==
    /\ StopPing
    /\ m_state' = "Disconnected"
    /\ reconnectTimer' = (reconnectTimer \/ ~intentional)

\* abort() of a connected socket, or its end from outside.
ConnectionEnds ==
    /\ SocketGone /\ OnSocketDisconnected
    /\ UNCHANGED <<intentional, up, broker, wanted, announced>>

-----------------------------------------------------------------------------
(* connectToBroker and disconnectFromBroker.                               *)

\* Whether abort() emits disconnected(), which starts the reconnect timer: it
\* does when TCP is up and may during a dial.
AbortEmits == {Up, Up \/ sock = "Connecting"}

\* connectToBroker on connection k: whatever was there is aborted.
Dial(k, emits) ==
    /\ k \notin alive /\ k # link
    /\ intentional' = FALSE
    /\ IF emits THEN StopPing ELSE UNCHANGED <<pingTimer, pingTimeout, pingOutstanding>>
    /\ m_state' = "Connecting"
    /\ sock' = "Connecting" /\ link' = k /\ pendingClose' = FALSE
    /\ down' = Unlinked
    /\ up' = [up EXCEPT ![k] = <<>>]
    /\ UNCHANGED <<broker, announced>>

ConnectToBroker ==
    /\ \E k \in Conns, emits \in AbortEmits :
          /\ Dial(k, emits)
          /\ reconnectTimer' = (reconnectTimer \/ emits)
    /\ wanted' = TRUE

\* onReconnectTimer: the single shot is over when connectToBroker is called.
ReconnectTimer ==
    /\ reconnectTimer
    /\ IF intentional
       THEN /\ reconnectTimer' = FALSE
            /\ UNCHANGED <<m_state, intentional, pingTimer, pingTimeout, pingOutstanding,
                           socket, up, down, broker, announced>>
       ELSE \E k \in Conns, emits \in AbortEmits :
               Dial(k, emits) /\ reconnectTimer' = emits
    /\ UNCHANGED wanted

\* Mistaken: the broker is told good-bye only.
FarewellWithoutOffline ==
    IF m_state = "Ready"
    THEN Send(<<"DISCONNECT">>) /\ UNCHANGED announced
    ELSE UNCHANGED <<up, announced>>

\* What disconnectFromBroker still sends, if the client is ready.
Farewell ==
    IF m_state = "Ready"
    THEN /\ Send(<<"OFFLINE", "DISCONNECT">>)
         /\ announced' = IF sock = "Closing" THEN announced ELSE "OFFLINE"
    ELSE UNCHANGED <<up, announced>>

\* disconnectFromHost: at once, after what was written is sent, or, before TCP
\* is up, not until the TLS handshake is over.
CloseSocket ==
    \/ sock = "Unconnected" /\ UNCHANGED <<socket, down>>
    \/ sock = "Connecting" /\ pendingClose' = TRUE /\ UNCHANGED <<sock, link, down>>
    \/ Up /\ sock' = "Closing" /\ UNCHANGED <<pendingClose, link, down>>
    \/ Up /\ SocketGone

GoOffline ==
    /\ reconnectTimer' = FALSE /\ pingTimer' = FALSE /\ pingTimeout' = FALSE
    /\ Farewell
    /\ CloseSocket
    /\ pingOutstanding' = (pingOutstanding /\ sock' # "Unconnected")
    /\ m_state' = "Disconnected"
    /\ wanted' = FALSE
    /\ UNCHANGED broker

\* Mistaken: the end of the socket is taken for a loss.
DisconnectUnmarked == UNCHANGED intentional /\ GoOffline

DisconnectFromBroker == intentional' = TRUE /\ GoOffline

-----------------------------------------------------------------------------
(* Slots of the socket.                                                    *)

\* onSocketConnected does nothing; the handshake begins.
SocketConnected ==
    /\ sock = "Connecting"
    /\ sock' = "Handshake"
    /\ alive' = alive \cup {link}
    /\ UNCHANGED <<client, pendingClose, link, up, down, session, subscribed, last,
                   wanted, announced>>

\* Mistaken: the state tells of the error.
DialFailsAsError ==
    /\ sock = "Connecting"
    /\ SocketGone /\ m_state' = "Error"
    /\ UNCHANGED <<intentional, timers, up, broker, wanted, announced>>

\* onSocketError of a dial that fails, after which no disconnected() comes:
\* the state stays and no timer is started.
DialFails ==
    /\ sock = "Connecting"
    /\ SocketGone
    /\ UNCHANGED <<client, up, broker, wanted, announced>>

\* onSocketEncrypted and sendConnect; a close that was pending follows.
SocketEncrypted ==
    /\ sock = "Handshake"
    /\ Send(<<"CONNECT">>)
    /\ \/ /\ ~pendingClose
          /\ sock' = "Encrypted" /\ m_state' = "Connected"
          /\ UNCHANGED <<intentional, timers, pendingClose, link, down>>
       \/ /\ pendingClose
          /\ sock' = "Closing" /\ pendingClose' = FALSE /\ m_state' = "Connected"
          /\ UNCHANGED <<intentional, timers, link, down>>
       \/ /\ pendingClose
          /\ SocketGone /\ OnSocketDisconnected
          /\ UNCHANGED intentional
    /\ UNCHANGED <<broker, wanted, announced>>

\* The connection is lost, closed, or fails its handshake (onSslErrors).
SocketDisconnected == Up /\ ConnectionEnds

-----------------------------------------------------------------------------
(* processIncomingData: one packet.                                        *)

Reads(p) == sock \in {"Encrypted", "Closing"} /\ down[link] # <<>> /\ Head(down[link]) = p

Consumed == down' = [down EXCEPT ![link] = Tail(@)]

\* Mistaken: the ping timer is not started.
HandleConnackWithoutPing ==
    /\ Reads("CONNACK") /\ Consumed
    /\ m_state' = "Subscribing"
    /\ Send(<<"SUBSCRIBE">>)
    /\ UNCHANGED <<intentional, timers, socket, broker, wanted, announced>>

HandleConnack ==
    /\ Reads("CONNACK") /\ Consumed
    /\ m_state' = "Subscribing"
    /\ Send(<<"SUBSCRIBE">>)
    /\ pingTimer' = TRUE
    /\ UNCHANGED <<intentional, pingTimeout, pingOutstanding, reconnectTimer, socket,
                   broker, wanted, announced>>

HandleConnackRefused == Reads("REFUSED") /\ ConnectionEnds

\* Mistaken: the presence is left to the application.
HandleSubackSilently ==
    /\ Reads("SUBACK") /\ Consumed
    /\ m_state' = "Ready"
    /\ reconnectTimer' = FALSE
    /\ UNCHANGED <<intentional, pingTimer, pingTimeout, pingOutstanding, socket, up,
                   broker, wanted, announced>>

HandleSuback ==
    /\ Reads("SUBACK") /\ Consumed
    /\ m_state' = "Ready"
    /\ reconnectTimer' = FALSE
    /\ Publish("ONLINE")
    /\ UNCHANGED <<intentional, pingTimer, pingTimeout, pingOutstanding, socket, broker,
                   wanted>>

HandlePingresp ==
    /\ Reads("PINGRESP") /\ Consumed
    /\ pingOutstanding' = FALSE /\ pingTimeout' = FALSE
    /\ UNCHANGED <<m_state, intentional, pingTimer, reconnectTimer, socket, up, broker,
                   wanted, announced>>

\* handlePublish of a discovery request: the client announces itself.
HandleDiscovery ==
    /\ Reads("DISCOVERY") /\ Consumed
    /\ Publish("ONLINE")
    /\ UNCHANGED <<client, socket, broker, wanted>>

-----------------------------------------------------------------------------
(* Timers and calls while ready.                                           *)

\* onPingTimer.  PING_TIMEOUT_MS is less than PING_INTERVAL_MS, so the timeout
\* of the ping before is over.
PingTimer ==
    /\ pingTimer /\ ~pingTimeout
    /\ m_state = "Ready"
    /\ pingOutstanding' = TRUE /\ pingTimeout' = TRUE
    /\ Send(<<"PINGREQ">>)
    /\ UNCHANGED <<m_state, intentional, pingTimer, reconnectTimer, socket, down, broker,
                   wanted, announced>>

\* onPingTimeout
PingTimeout ==
    /\ pingTimeout
    /\ IF pingOutstanding
       THEN ConnectionEnds
       ELSE /\ pingTimeout' = FALSE
            /\ UNCHANGED <<m_state, intentional, pingTimer, pingOutstanding,
                           reconnectTimer, socket, up, down, broker, wanted, announced>>

\* The application announces the device again, or says it is away, while
\* isConnected().
Announce(p) ==
    /\ m_state = "Ready" /\ Len(up[link]) < MaxInFlight
    /\ Publish(p)
    /\ UNCHANGED <<client, socket, down, broker, wanted>>

-----------------------------------------------------------------------------
(* The broker.                                                             *)

\* The session that ends is not the device's wish: its will is published.
EndSession == session' = NoConn /\ subscribed' = FALSE /\ last' = "OFFLINE"

BrokerReads(k, p) == k \in alive /\ up[k] # <<>> /\ Head(up[k]) = p
BrokerConsumed(k) == up' = [up EXCEPT ![k] = Tail(@)]
BrokerAnswers(k, p) == down' = IF k = link THEN [down EXCEPT ![k] = Append(@, p)] ELSE down

BrokerAccepts(k) ==
    /\ BrokerReads(k, "CONNECT") /\ BrokerConsumed(k)
    /\ session' = k /\ subscribed' = FALSE
    /\ alive' = alive \ ({session} \ {k})
    /\ last' = IF session # NoConn THEN "OFFLINE" ELSE last
    /\ BrokerAnswers(k, "CONNACK")
    /\ UNCHANGED <<client, socket, wanted, announced>>

BrokerRefuses(k) ==
    /\ BrokerReads(k, "CONNECT") /\ BrokerConsumed(k)
    /\ BrokerAnswers(k, "REFUSED")
    /\ UNCHANGED <<client, socket, broker, wanted, announced>>

BrokerServes(k) ==
    /\ session = k
    /\ \/ /\ BrokerReads(k, "SUBSCRIBE")
          /\ BrokerAnswers(k, "SUBACK") /\ subscribed' = TRUE
          /\ UNCHANGED <<alive, session, last>>
       \/ /\ BrokerReads(k, "PINGREQ")
          /\ BrokerAnswers(k, "PINGRESP")
          /\ UNCHANGED broker
       \/ \E p \in {"ONLINE", "OFFLINE"} :
             /\ BrokerReads(k, p)
             /\ last' = p
             /\ UNCHANGED <<down, alive, session, subscribed>>
       \/ /\ BrokerReads(k, "DISCONNECT")
          /\ session' = NoConn /\ subscribed' = FALSE /\ alive' = alive \ {k}
          /\ UNCHANGED <<down, last>>
    /\ BrokerConsumed(k)
    /\ UNCHANGED <<client, socket, wanted, announced>>

\* The connection breaks, the keep-alive runs out, or the broker drops it.
BrokerDrops(k) ==
    /\ k \in alive
    /\ alive' = alive \ {k}
    /\ up' = [up EXCEPT ![k] = <<>>]
    /\ IF session = k THEN EndSession ELSE UNCHANGED <<session, subscribed, last>>
    /\ UNCHANGED <<client, socket, down, wanted, announced>>

\* Another device asks who is there.
BrokerForwards ==
    /\ subscribed /\ session = link
    /\ Len(down[session]) < MaxInFlight /\ Len(up[session]) < MaxInFlight
    /\ BrokerAnswers(session, "DISCOVERY")
    /\ UNCHANGED <<client, socket, up, broker, wanted, announced>>

-----------------------------------------------------------------------------
Handle ==
    \/ HandleConnack \/ HandleConnackRefused \/ HandleSuback \/ HandlePingresp
    \/ HandleDiscovery

Next ==
    \/ ConnectToBroker \/ DisconnectFromBroker \/ Announce("ONLINE") \/ Announce("OFFLINE")
    \/ ReconnectTimer \/ PingTimer \/ PingTimeout
    \/ SocketConnected \/ DialFails \/ SocketEncrypted \/ SocketDisconnected
    \/ Handle
    \/ \E k \in Conns : \/ BrokerAccepts(k) \/ BrokerRefuses(k) \/ BrokerServes(k)
                        \/ BrokerDrops(k)
    \/ BrokerForwards

Spec == Init /\ [][Next]_vars

\* Timers run out and dials are answered.  A step of getting ready that is tried
\* again and again succeeds in the end: the reconnect timer, which may cut it
\* short, waits longer each time, up to a minute, and the network and the broker
\* are not broken for ever.  The broker drops a connection its client has left.
\* Nothing tells the client that the broker's end of its connection is gone.
Fairness ==
    /\ WF_vars(ReconnectTimer) /\ WF_vars(PingTimer) /\ WF_vars(PingTimeout)
    /\ WF_vars(SocketConnected \/ DialFails)
    /\ WF_vars(sock = "Closing" /\ SocketDisconnected)
    /\ SF_vars(SocketConnected) /\ SF_vars(link \in alive /\ SocketEncrypted)
    /\ SF_vars(link \in alive /\ HandleConnack) /\ SF_vars(HandleSuback) /\ WF_vars(Handle)
    /\ \A k \in Conns : /\ SF_vars(k = link /\ BrokerAccepts(k))
                        /\ SF_vars(k = link /\ BrokerServes(k))
                        /\ WF_vars(k # link /\ BrokerDrops(k))

FairSpec == Spec /\ Fairness

-----------------------------------------------------------------------------
TypeOK ==
    /\ m_state \in MqttState /\ intentional \in BOOLEAN
    /\ pingTimer \in BOOLEAN /\ pingTimeout \in BOOLEAN /\ pingOutstanding \in BOOLEAN
    /\ reconnectTimer \in BOOLEAN
    /\ sock \in SockState /\ pendingClose \in BOOLEAN /\ link \in Conns \cup {NoConn}
    /\ alive \in SUBSET Conns /\ session \in alive \cup {NoConn}
    /\ subscribed \in BOOLEAN /\ last \in {"none", "ONLINE", "OFFLINE"}
    /\ up \in [Conns -> Seq(ToBroker)] /\ down \in [Conns -> Seq(ToClient)]
    /\ wanted \in BOOLEAN /\ announced \in {"none", "ONLINE", "OFFLINE"}

\* A session in use is not disturbed by timers that belong to others: neither
\* a reconnect scheduled before it was ready, nor the timeout of a ping that it
\* did not send.  (mqtt_signaling.cpp:237-250, 403-416, 502-504)
ReadyIsUndisturbed ==
    /\ m_state = "Ready" => sock \in {"Encrypted", "Closing"} /\ ~reconnectTimer
    /\ pingTimeout => m_state = "Ready" /\ pingOutstanding

\* A client that shall be connected and holds no socket waits for its timer.
\* The exception is a dial that failed before TCP was up: there the state stays
\* Connecting and nothing tries again.  (onSocketDisconnected and
\* onSocketError, mqtt_signaling.cpp:221-250)
WantedIsPursued ==
    wanted /\ sock = "Unconnected" => reconnectTimer \/ m_state = "Connecting"

\* After disconnectFromBroker nothing dials, although signals of the old socket
\* and timers may still come.  (mqtt_signaling.cpp:184-204, 247-249)
NoReturn == [][~wanted /\ ~wanted' /\ sock' = "Connecting" => sock = "Connecting"]_vars

\* However a session ends, subscribers are told: by the publication before
\* DISCONNECT, or by the will.  (mqtt_signaling.cpp:190-196, 289-309)
GoneIsOffline == session = NoConn => last # "ONLINE"

\* While the client is ready and the broker has read what it sent, subscribers
\* were told what it announced last, whatever happened to sessions before.
\* (mqtt_signaling.cpp:496-514)
ViewIsCurrent ==
    m_state = "Ready" /\ sock = "Encrypted" /\ session = link /\ up[link] = <<>>
        => last = announced

\* What the client never gets out of by itself: a dial that failed before TCP
\* was up, and a connection that died silently before the client was ready, as
\* the answers to CONNECT and SUBSCRIBE have no timeout.
Stuck ==
    \/ m_state = "Connecting" /\ sock = "Unconnected"
    \/ Up /\ link \notin alive

\* A client that has lost its connection gets ready again, unless it is told to
\* disconnect or ends up stuck.  (scheduleReconnect and onReconnectTimer,
\* mqtt_signaling.cpp:252-275)
LostSessionReturns ==
    (wanted /\ m_state = "Disconnected" ~> m_state = "Ready" \/ ~wanted) \/ <>[]Stuck

\* A client whose session has ended at the broker does not stay ready.
\* (onPingTimer and onPingTimeout, mqtt_signaling.cpp:403-416)
DeadSessionIsNoticed == m_state = "Ready" /\ session # link ~> m_state # "Ready"
=============================================================================
