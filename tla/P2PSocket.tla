------------------------------ MODULE P2PSocket ------------------------------
(***************************************************************************)
(* Network::P2PSocket: one client socket and one listening server per      *)
(* device, and the TCP connections between devices.                        *)
(*                                                                         *)
(* A connection k is dialled by the client socket of dialer[k] and         *)
(* accepted by the server of listener[k].  Each direction is a FIFO of     *)
(* whole frames: the framing and the byte stream are abstracted away.      *)
(* Each end learns of the loss of a connection on its own, at any time     *)
(* after it happened, so connections may stay half open; whatever was      *)
(* still travelling to an end that is gone is lost.                        *)
(*                                                                         *)
(* qt, pendingClose and link are the state of the QTcpSocket behind        *)
(* m_socket.  They are external: they follow the calls P2PSocket makes.    *)
(***************************************************************************)
EXTENDS Naturals, Sequences, FiniteSets

CONSTANTS
    Devices,          \* devices running the program
    Conns,            \* names for the TCP connections alive at one time
    MaxConnections,   \* MAX_CONCURRENT_CONNECTIONS of the server
    NoDevice,         \* "nobody": the end of an unused connection
    NoConn            \* the client socket holds no connection

ASSUME SocketAssumption ==
    /\ NoDevice \notin Devices
    /\ NoConn \notin Conns
    /\ MaxConnections \in Nat \ {0}

VARIABLES
    m_state,       \* P2PState of each device
    qt,            \* QTcpSocket::state() of each client socket
    pendingClose,  \* disconnectFromHost was called while qt was Connecting
    link,          \* the connection the client socket holds
    dialer,        \* who dialled a connection
    listener,      \* whose server it leads to
    server,        \* the server end: "none" (not accepted yet), "open", "closed"
    listening,     \* m_server->isListening()
    wire           \* frames in flight, per connection and direction

socketVars == <<m_state, qt, pendingClose, link, dialer, listener, server,
                listening, wire>>

\* "up" carries frames from the dialer to the listener, "down" the others.
Sides == {"up", "down"}

P2PState == {"Disconnected", "Connecting", "Connected", "Closing"}
QtState  == {"Unconnected", "Connecting", "Connected", "Closing"}

SocketTypeOK(Frame) ==
    /\ m_state \in [Devices -> P2PState]
    /\ qt \in [Devices -> QtState]
    /\ pendingClose \in [Devices -> BOOLEAN]
    /\ link \in [Devices -> Conns \cup {NoConn}]
    /\ dialer \in [Conns -> Devices \cup {NoDevice}]
    /\ listener \in [Conns -> Devices \cup {NoDevice}]
    /\ server \in [Conns -> {"none", "open", "closed"}]
    /\ listening \in [Devices -> BOOLEAN]
    /\ wire \in [Conns -> [Sides -> Seq(Frame)]]

\* The devices in up have called startServer.
SocketInit(up) ==
    /\ m_state = [d \in Devices |-> "Disconnected"]
    /\ qt = [d \in Devices |-> "Unconnected"]
    /\ pendingClose = [d \in Devices |-> FALSE]
    /\ link = [d \in Devices |-> NoConn]
    /\ dialer = [k \in Conns |-> NoDevice]
    /\ listener = [k \in Conns |-> NoDevice]
    /\ server = [k \in Conns |-> "closed"]
    /\ listening = [d \in Devices |-> d \in up]
    /\ wire = [k \in Conns |-> [s \in Sides |-> <<>>]]

\* The keys of m_serverClientBuffers of device d.
ServerClients(d) == {k \in Conns : server[k] = "open" /\ listener[k] = d}

\* P2PSocket::isConnected
IsConnected(d) == m_state[d] = "Connected" \/ ServerClients(d) # {}

\* The client end of connection k still exists.
DialerHolds(k) == dialer[k] # NoDevice /\ link[dialer[k]] = k

\* Both ends of k are gone: the name can be given to a new connection.
Reusable(k) == server[k] = "closed" /\ ~DialerHolds(k)

-----------------------------------------------------------------------------
(* sendFrame: one frame is written to the client connection, if it is up,  *)
(* and to every connection the server has accepted.                        *)

Writes(d, k, s) ==
    IF s = "up" THEN m_state[d] = "Connected" /\ qt[d] = "Connected" /\ link[d] = k
                ELSE k \in ServerClients(d)

\* The other end is still there to read what is written.
Reachable(k, s) ==
    IF s = "up" THEN server[k] # "closed" ELSE DialerHolds(k)

\* Mistaken: a frame overtakes those not yet written.
BroadcastFirst(d, f, w) ==
    [k \in Conns |-> [s \in Sides |->
        IF Writes(d, k, s) /\ Reachable(k, s) THEN <<f>> \o w[k][s] ELSE w[k][s]]]

\* The wires after device d has sent frame f on the wires w.
Broadcast(d, f, w) ==
    [k \in Conns |-> [s \in Sides |->
        IF Writes(d, k, s) /\ Reachable(k, s) THEN Append(w[k][s], f)
                                              ELSE w[k][s]]]

\* Device d has the first frame of side s of connection k ready to read.
\* (A QTcpSocket in ClosingState no longer reports incoming data.)
CanRead(d, k, s) ==
    /\ wire[k][s] # <<>>
    /\ IF s = "up" THEN k \in ServerClients(d)
                   ELSE qt[d] = "Connected" /\ link[d] = k

\* The wires after the first frame of side s of connection k was read.
Consumed(k, s) == [wire EXCEPT ![k][s] = Tail(@)]

-----------------------------------------------------------------------------
(* connectToPeer and disconnectFromPeer.                                   *)

\* connectToHost took effect: a new connection k towards the server of e.
\* A connection that was still up was closed first, all its data written.
Dial(d, e, k) ==
    /\ e # d
    /\ Reusable(k)
    /\ \/ qt[d] = "Unconnected"
       \/ qt[d] = "Connected"
       \/ qt[d] = "Closing" /\ m_state[d] = "Connecting"
    /\ m_state' = [m_state EXCEPT ![d] = "Connecting"]
    /\ qt' = [qt EXCEPT ![d] = "Connecting"]
    /\ pendingClose' = [pendingClose EXCEPT ![d] = FALSE]
    /\ link' = [link EXCEPT ![d] = k]
    /\ dialer' = [dialer EXCEPT ![k] = d]
    /\ listener' = [listener EXCEPT ![k] = e]
    /\ server' = [server EXCEPT ![k] = "none"]
    /\ wire' = [c \in Conns |-> [s \in Sides |->
                   IF c = k \/ (c = link[d] /\ s = "down") THEN <<>>
                                                          ELSE wire[c][s]]]
    /\ UNCHANGED listening

\* In Dial the old connection was closed inside the call: P2PSocket has
\* emitted disconnected() before connectToPeer returns.
DialDisconnects(d) == qt[d] # "Unconnected"

\* Mistaken: the dial under way is not closed first.
RedialWithoutClose(d) ==
    /\ qt[d] = "Connecting"
    /\ m_state' = [m_state EXCEPT ![d] = "Connecting"]
    /\ UNCHANGED <<qt, pendingClose, link, dialer, listener, server, listening, wire>>

\* connectToPeer during a dial: the dial under way is marked to be closed
\* and the second connectToHost is refused by the socket.
RedialWhileConnecting(d) ==
    /\ qt[d] = "Connecting"
    /\ m_state' = [m_state EXCEPT ![d] = "Connecting"]
    /\ pendingClose' = [pendingClose EXCEPT ![d] = TRUE]
    /\ UNCHANGED <<qt, link, dialer, listener, server, listening, wire>>

\* connectToPeer while the old connection has data left to write: it closes
\* later, and the second connectToHost is refused by the socket.
RedialWhileClosing(d) ==
    /\ qt[d] \in {"Connected", "Closing"}
    /\ m_state' = [m_state EXCEPT ![d] = "Connecting"]
    /\ qt' = [qt EXCEPT ![d] = "Closing"]
    /\ UNCHANGED <<pendingClose, link, dialer, listener, server, listening,
                   wire>>

\* The three outcomes of connectToPeer(virtual IP of e).
ConnectToPeer(d, e) ==
    \/ \E k \in Conns : Dial(d, e, k)
    \/ RedialWhileConnecting(d)
    \/ RedialWhileClosing(d)

\* disconnectFromPeer when nothing can be emitted from inside the call.
DisconnectLater(d) ==
    /\ m_state[d] \notin {"Disconnected", "Closing"}
    /\ m_state' = [m_state EXCEPT ![d] = "Closing"]
    /\ pendingClose' = [pendingClose EXCEPT ![d] = @ \/ qt[d] = "Connecting"]
    /\ qt' = [qt EXCEPT ![d] = IF @ \in {"Connected", "Closing"} THEN "Closing"
                                                               ELSE @]
    /\ UNCHANGED <<link, dialer, listener, server, listening, wire>>

\* Mistaken: m_state is left to the caller.
SocketDisconnectedSilently(d) ==
    /\ qt[d] \in {"Connected", "Closing"}
    /\ qt' = [qt EXCEPT ![d] = "Unconnected"]
    /\ pendingClose' = [pendingClose EXCEPT ![d] = FALSE]
    /\ wire' = [wire EXCEPT ![link[d]]["down"] = <<>>]
    /\ link' = [link EXCEPT ![d] = NoConn]
    /\ UNCHANGED <<m_state, dialer, listener, server, listening>>

\* onSocketDisconnected: the client socket reports the end of a connection
\* that had been up.
SocketDisconnected(d) ==
    /\ qt[d] \in {"Connected", "Closing"}
    /\ m_state' = [m_state EXCEPT ![d] = "Disconnected"]
    /\ qt' = [qt EXCEPT ![d] = "Unconnected"]
    /\ pendingClose' = [pendingClose EXCEPT ![d] = FALSE]
    /\ wire' = [wire EXCEPT ![link[d]]["down"] = <<>>]
    /\ link' = [link EXCEPT ![d] = NoConn]
    /\ UNCHANGED <<dialer, listener, server, listening>>

\* disconnectFromPeer with nothing left to write: disconnected() is emitted
\* before the call returns.
DisconnectNow(d) ==
    /\ m_state[d] \notin {"Disconnected", "Closing"}
    /\ SocketDisconnected(d)

-----------------------------------------------------------------------------
(* Answers of the network to a dial.                                       *)

\* onSocketConnected, no close was asked for meanwhile.
SocketConnected(d) ==
    /\ qt[d] = "Connecting" /\ ~pendingClose[d]
    /\ \/ server[link[d]] # "none"
       \/ listening[listener[link[d]]]
    /\ m_state' = [m_state EXCEPT ![d] = "Connected"]
    /\ qt' = [qt EXCEPT ![d] = "Connected"]
    /\ UNCHANGED <<pendingClose, link, dialer, listener, server, listening,
                   wire>>

\* onSocketConnected after a close was asked for: the socket closes the new
\* connection at once, connected() and disconnected() in the same call.
SocketConnectedThenClosed(d) ==
    /\ qt[d] = "Connecting" /\ pendingClose[d]
    /\ \/ server[link[d]] # "none"
       \/ listening[listener[link[d]]]
    /\ m_state' = [m_state EXCEPT ![d] = "Disconnected"]
    /\ qt' = [qt EXCEPT ![d] = "Unconnected"]
    /\ pendingClose' = [pendingClose EXCEPT ![d] = FALSE]
    /\ wire' = [wire EXCEPT ![link[d]]["down"] = <<>>]
    /\ link' = [link EXCEPT ![d] = NoConn]
    /\ UNCHANGED <<dialer, listener, server, listening>>

\* Mistaken: a fifth state that P2PState does not have.
SocketErrorState(d) ==
    /\ qt[d] = "Connecting"
    /\ server[link[d]] # "open"
    /\ m_state' = [m_state EXCEPT ![d] = "Error"]
    /\ qt' = [qt EXCEPT ![d] = "Unconnected"]
    /\ server' = [server EXCEPT ![link[d]] = "closed"]
    /\ link' = [link EXCEPT ![d] = NoConn]
    /\ UNCHANGED <<pendingClose, dialer, listener, listening, wire>>

\* onSocketError for a dial that failed: the error is reported, m_state is
\* left as it is and disconnected() is not emitted.
SocketError(d) ==
    /\ qt[d] = "Connecting"
    /\ server[link[d]] # "open"
    /\ qt' = [qt EXCEPT ![d] = "Unconnected"]
    /\ pendingClose' = [pendingClose EXCEPT ![d] = FALSE]
    /\ server' = [server EXCEPT ![link[d]] = "closed"]
    /\ link' = [link EXCEPT ![d] = NoConn]
    /\ UNCHANGED <<m_state, dialer, listener, listening, wire>>

-----------------------------------------------------------------------------
(* The server.                                                             *)

StartServer(d) ==
    /\ ~listening[d]
    /\ listening' = [listening EXCEPT ![d] = TRUE]
    /\ UNCHANGED <<m_state, qt, pendingClose, link, dialer, listener, server,
                   wire>>

\* The connections to device d that its server has not accepted yet.
Waiting(d) == {k \in Conns : server[k] = "none" /\ listener[k] = d}

\* Those that are established, and wait in the queue of the listening socket.
Established(d) == {k \in Waiting(d) : ~DialerHolds(k) \/ qt[dialer[k]] # "Connecting"}

\* startServer while the server listens: it closes first, which drops the
\* connections in its queue and perhaps dials on their way, and keeps the
\* accepted ones.  Listening again may fail.
RestartServer(d) ==
    /\ listening[d]
    /\ \E dropped \in SUBSET Waiting(d) :
          /\ Established(d) \subseteq dropped
          /\ server' = [k \in Conns |-> IF k \in dropped THEN "closed" ELSE server[k]]
          /\ wire' = [k \in Conns |-> [s \in Sides |->
                         IF k \in dropped /\ s = "up" THEN <<>> ELSE wire[k][s]]]
    /\ \E ok \in BOOLEAN : listening' = [listening EXCEPT ![d] = ok]
    /\ UNCHANGED <<m_state, qt, pendingClose, link, dialer, listener>>

\* stopServer: the accepted connections are aborted with their signals cut,
\* so peerDisconnected is not emitted; those not accepted yet are refused.
StopServer(d) ==
    /\ listening[d] \/ ServerClients(d) # {}
    /\ listening' = [listening EXCEPT ![d] = FALSE]
    /\ server' = [k \in Conns |-> IF listener[k] = d THEN "closed" ELSE server[k]]
    /\ wire' = [k \in Conns |-> [s \in Sides |->
                   IF listener[k] = d /\ s = "up" THEN <<>> ELSE wire[k][s]]]
    /\ UNCHANGED <<m_state, qt, pendingClose, link, dialer, listener>>

\* Mistaken: off by one.
ServerTakesOneMore(k) ==
    /\ server[k] = "none" /\ listening[listener[k]]
    /\ Cardinality(ServerClients(listener[k])) <= MaxConnections
    /\ server' = [server EXCEPT ![k] = "open"]
    /\ UNCHANGED <<m_state, qt, pendingClose, link, dialer, listener, listening, wire>>

\* onServerNewConnection, a slot is free.
ServerNewConnection(k) ==
    /\ server[k] = "none" /\ listening[listener[k]]
    /\ Cardinality(ServerClients(listener[k])) < MaxConnections
    /\ server' = [server EXCEPT ![k] = "open"]
    /\ UNCHANGED <<m_state, qt, pendingClose, link, dialer, listener,
                   listening, wire>>

\* onServerNewConnection with MAX_CONCURRENT_CONNECTIONS clients: aborted.
ServerRejectConnection(k) ==
    /\ server[k] = "none" /\ listening[listener[k]]
    /\ Cardinality(ServerClients(listener[k])) >= MaxConnections
    /\ server' = [server EXCEPT ![k] = "closed"]
    /\ wire' = [wire EXCEPT ![k]["up"] = <<>>]
    /\ UNCHANGED <<m_state, qt, pendingClose, link, dialer, listener,
                   listening>>

\* The disconnected() handler of an accepted connection: it is forgotten and
\* peerDisconnected is emitted.
ServerClientDisconnected(k) ==
    /\ server[k] = "open"
    /\ server' = [server EXCEPT ![k] = "closed"]
    /\ wire' = [wire EXCEPT ![k]["up"] = <<>>]
    /\ UNCHANGED <<m_state, qt, pendingClose, link, dialer, listener,
                   listening>>

-----------------------------------------------------------------------------
\* m_state, which the controllers ask, tells the truth about the TCP socket:
\* Connected exactly when it is up, Disconnected only when it is idle.  It is
\* assigned in four places (p2p_socket.cpp:144, 152, 220, 227), from calls and
\* from signals that arrive later.
StateTellsTheTruth ==
    \A d \in Devices :
        /\ m_state[d] = "Connected" <=> qt[d] = "Connected"
        /\ m_state[d] = "Disconnected" => qt[d] = "Unconnected"

\* A client socket holds a connection exactly while it is not idle, and holds
\* only one it dialled itself: the signals of one dial are never taken for
\* those of another one.  (p2p_socket.cpp:136-157)
HoldsItsOwnDial ==
    \A d \in Devices :
        /\ qt[d] = "Unconnected" <=> link[d] = NoConn
        /\ link[d] # NoConn => dialer[link[d]] = d

\* A connection in use leads from one device to another one; an unused name
\* carries nothing.
RoutesAreSound ==
    \A k \in Conns :
        \/ /\ dialer[k] \in Devices /\ listener[k] \in Devices
           /\ dialer[k] # listener[k]
        \/ /\ dialer[k] = NoDevice /\ listener[k] = NoDevice
           /\ server[k] = "closed"
           /\ \A s \in Sides : wire[k][s] = <<>>

SocketInv == StateTellsTheTruth /\ HoldsItsOwnDial /\ RoutesAreSound
=============================================================================
