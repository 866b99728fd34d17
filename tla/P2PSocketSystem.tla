--------------------------- MODULE P2PSocketSystem ---------------------------
(***************************************************************************)
(* P2PSocket on its own: every public operation of the class called by an  *)
(* application in any order, against the answers of the network.           *)
(* wanted[d] is a history variable: the peer named in the last             *)
(* connectToPeer call of d.                                                *)
(***************************************************************************)
EXTENDS P2PSocket

CONSTANTS
    Payload,      \* a frame: what it says does not matter here
    MaxInFlight   \* bound: frames in flight per connection and direction

VARIABLE wanted

vars == <<socketVars, wanted>>

Init ==
    /\ SocketInit({})
    /\ wanted = [d \in Devices |-> NoDevice]

\* An application calls connectToPeer, once to the peer it wants to reach.
Connect(d, e) ==
    /\ e # d
    /\ ConnectToPeer(d, e)
    /\ wanted' = [wanted EXCEPT ![d] = e]

Disconnect(d) == (DisconnectNow(d) \/ DisconnectLater(d)) /\ UNCHANGED wanted

\* sendFrame, which returns false and writes nothing when not connected.
SendFrame(d) ==
    /\ IsConnected(d)
    /\ \A k \in Conns, s \in Sides : Len(wire[k][s]) < MaxInFlight
    /\ wire' = Broadcast(d, Payload, wire)
    /\ UNCHANGED <<m_state, qt, pendingClose, link, dialer, listener, server,
                   listening, wanted>>

\* onSocketReadyRead and the readyRead handler of an accepted connection.
ReadFrame(d, k, s) ==
    /\ CanRead(d, k, s)
    /\ wire' = Consumed(k, s)
    /\ UNCHANGED <<m_state, qt, pendingClose, link, dialer, listener, server,
                   listening, wanted>>

Network(d) ==
    /\ \/ SocketConnected(d) \/ SocketConnectedThenClosed(d) \/ SocketError(d)
       \/ SocketDisconnected(d)
       \/ StartServer(d) \/ RestartServer(d) \/ StopServer(d)
    /\ UNCHANGED wanted

Server(k) ==
    /\ \/ ServerNewConnection(k) \/ ServerRejectConnection(k)
       \/ ServerClientDisconnected(k)
    /\ UNCHANGED wanted

Next ==
    \/ \E d, e \in Devices : Connect(d, e)
    \/ \E d \in Devices : Disconnect(d) \/ SendFrame(d) \/ Network(d)
    \/ \E d \in Devices, k \in Conns, s \in Sides : ReadFrame(d, k, s)
    \/ \E k \in Conns : Server(k)

Spec == Init /\ [][Next]_vars

-----------------------------------------------------------------------------
TypeOK ==
    /\ SocketTypeOK({Payload})
    /\ wanted \in [Devices -> Devices \cup {NoDevice}]

\* A device that is connected is connected to the peer of its last
\* connectToPeer call, even when that call came while an earlier dial was
\* still being answered or an earlier connection was still closing.
ConnectedToTheLastPeerAsked ==
    \A d \in Devices :
        m_state[d] = "Connected" => listener[link[d]] = wanted[d]

\* The server never keeps more than MAX_CONCURRENT_CONNECTIONS clients.
ServerCapacity ==
    \A d \in Devices : Cardinality(ServerClients(d)) <= MaxConnections
=============================================================================
