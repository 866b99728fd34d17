------------------------- MODULE P2PSocketSystemProofs -------------------------
(***************************************************************************)
(* Theorems about P2PSocketSystem for any devices, connections and limit,  *)
(* and any number of frames in flight.                                     *)
(***************************************************************************)
EXTENDS P2PSocketSystem, P2PSocketProofs, FiniteSetTheorems

\* The steps that neither send nor read a frame are steps of the socket
\* layer; Connect also notes the peer that is wanted.
LEMMA SystemSteps ==
    ASSUME [Next]_vars
    PROVE  \/ \E d, e \in Devices : Connect(d, e)
           \/ SocketStep /\ UNCHANGED wanted
           \/ \E d \in Devices : SendFrame(d)
           \/ \E d \in Devices, k \in Conns, s \in Sides : ReadFrame(d, k, s)
           \/ UNCHANGED vars
  <1>1. ASSUME NEW d \in Devices, Disconnect(d) \/ Network(d)
        PROVE  SocketStep /\ UNCHANGED wanted
    BY <1>1 DEF Disconnect, Network, SocketStep
  <1>2. ASSUME NEW k \in Conns, Server(k)
        PROVE  SocketStep /\ UNCHANGED wanted
    BY <1>2 DEF Server, SocketStep
  <1>3. QED
    BY <1>1, <1>2 DEF Next

LEMMA ConnectIsSocketStep ==
    ASSUME NEW d \in Devices, NEW e \in Devices, Connect(d, e)
    PROVE  SocketStep
  BY DEF Connect, SocketStep

-----------------------------------------------------------------------------
(* Types, and what m_state says of the socket.                             *)

SystemInv == TypeOK /\ SocketInv

LEMMA SystemInvStep ==
    ASSUME SystemInv, [Next]_vars, SocketAssumption
    PROVE  SystemInv'
  <1> USE DEF SystemInv
  <1>0. Payload \in {Payload} /\ SocketTypeOK({Payload})
    BY DEF TypeOK
  <1>1. CASE \E d, e \in Devices : Connect(d, e)
    <2>1. SocketStep
      BY <1>1, ConnectIsSocketStep
    <2>2. SocketTypeOK({Payload})' /\ SocketInv'
      BY <1>0, <2>1, SocketStepType, SocketStepInv
    <2>3. wanted' \in [Devices -> Devices \cup {NoDevice}]
      BY <1>1 DEF Connect, TypeOK
    <2>4. QED
      BY <2>2, <2>3 DEF TypeOK
  <1>2. CASE SocketStep /\ UNCHANGED wanted
    <2>1. SocketTypeOK({Payload})' /\ SocketInv'
      BY <1>0, <1>2, SocketStepType, SocketStepInv
    <2>2. QED
      BY <1>2, <2>1 DEF TypeOK
  <1>3. ASSUME NEW d \in Devices, SendFrame(d)
        PROVE  SystemInv'
    <2>1. wire' \in [Conns -> [Sides -> Seq({Payload})]]
      <3>1. wire \in [Conns -> [Sides -> Seq({Payload})]]
        BY <1>0 DEF SocketTypeOK
      <3>2. QED
        BY <1>0, <1>3, <3>1, BroadcastType DEF SendFrame
    <2>2. SocketInv'
      BY <1>0, <1>3, SendInv DEF SendFrame
    <2>3. SocketTypeOK({Payload})' /\ wanted' = wanted
      BY <1>0, <1>3, <2>1 DEF SendFrame, SocketTypeOK
    <2>4. QED
      BY <2>2, <2>3 DEF TypeOK
  <1>4. ASSUME NEW d \in Devices, NEW k \in Conns, NEW s \in Sides, ReadFrame(d, k, s)
        PROVE  SystemInv'
    <2>0. wire[k][s] # <<>>
      BY <1>4 DEF ReadFrame, CanRead
    <2>1. wire' \in [Conns -> [Sides -> Seq({Payload})]]
      <3>1. wire \in [Conns -> [Sides -> Seq({Payload})]]
        BY <1>0 DEF SocketTypeOK
      <3>2. QED
        BY <1>4, <2>0, <3>1, ConsumedType DEF ReadFrame
    <2>2. SocketInv'
      BY <1>0, <1>4, <2>0, ReadInv DEF ReadFrame
    <2>3. SocketTypeOK({Payload})' /\ wanted' = wanted
      BY <1>0, <1>4, <2>1 DEF ReadFrame, SocketTypeOK
    <2>4. QED
      BY <2>2, <2>3 DEF TypeOK
  <1>5. CASE UNCHANGED vars
    BY <1>5 DEF vars, socketVars, TypeOK, SocketTypeOK, SocketInv,
                StateTellsTheTruth, HoldsItsOwnDial, RoutesAreSound
  <1>6. QED
    BY <1>1, <1>2, <1>3, <1>4, <1>5, SystemSteps

LEMMA SystemInvInit == SocketAssumption /\ Init => SystemInv
  <1>1. SocketAssumption /\ Init => SocketTypeOK({Payload}) /\ SocketInv
    BY SocketInitial DEF Init
  <1>2. Init => wanted \in [Devices -> Devices \cup {NoDevice}]
    BY DEF Init
  <1>3. QED
    BY <1>1, <1>2 DEF SystemInv, TypeOK

\* Every variable keeps its type, and m_state tells what the TCP socket does,
\* whichever calls and answers of the network come in which order.
\* (p2p_socket.cpp:136-157, 218-232)
THEOREM StateIsTrue == Spec => [](TypeOK /\ StateTellsTheTruth)
  <1>1. SystemInv => TypeOK /\ StateTellsTheTruth
    BY DEF SystemInv, SocketInv
  <1>2. SystemInv /\ [Next]_vars => SystemInv'
    BY SystemInvStep, SocketAssumption
  <1>3. QED
    BY <1>1, <1>2, SystemInvInit, SocketAssumption, PTL DEF Spec

\* Sockets, servers and wires keep their types, a part of the above.
\* (p2p_socket.h, the members of P2PSocket)
THEOREM SocketTypeCorrect == Spec => []TypeOK
  <1>1. TypeOK /\ StateTellsTheTruth => TypeOK
    OBVIOUS
  <1>2. QED
    BY <1>1, StateIsTrue, PTL

-----------------------------------------------------------------------------
(* The connection that is up is the one that was asked for last.  It has   *)
(* to be said of the dials under way too, unless they are to be closed as  *)
(* soon as they succeed.                                                   *)

Pursues(d) ==
    qt[d] = "Connected" \/ (qt[d] = "Connecting" /\ ~pendingClose[d])
        => listener[link[d]] = wanted[d]

PursuesTheLast == \A d \in Devices : Pursues(d)

LEMMA PursuesStep ==
    ASSUME SystemInv, PursuesTheLast, [Next]_vars, SocketAssumption
    PROVE  PursuesTheLast'
  <1> USE DEF PursuesTheLast, Pursues
  <1>0. SocketTypeOK({Payload}) /\ HoldsItsOwnDial
        /\ wanted \in [Devices -> Devices \cup {NoDevice}]
    BY DEF SystemInv, TypeOK, SocketInv
  <1>1. ASSUME NEW d \in Devices, NEW e \in Devices, Connect(d, e)
        PROVE  PursuesTheLast'
    <2>1. ASSUME NEW k \in Conns, Dial(d, e, k)
          PROVE  PursuesTheLast'
      <3>1. Pursues(d)'
        BY <1>0, <1>1, <2>1 DEF Connect, Dial, SocketTypeOK
      <3>2. ASSUME NEW c \in Devices, c # d
            PROVE  Pursues(c)'
        <4>1. link[c] # k
          BY <1>0, <2>1, <3>2 DEF Dial, Reusable, DialerHolds, HoldsItsOwnDial,
                                  SocketAssumption
        <4>2. /\ qt'[c] = qt[c] /\ pendingClose'[c] = pendingClose[c]
              /\ link'[c] = link[c] /\ wanted'[c] = wanted[c]
              /\ link[c] \in Conns => listener'[link[c]] = listener[link[c]]
          BY <1>0, <1>1, <2>1, <3>2, <4>1 DEF Connect, Dial, SocketTypeOK
        <4>3. qt[c] # "Unconnected" => link[c] \in Conns
          BY <1>0 DEF HoldsItsOwnDial, SocketTypeOK
        <4>4. QED
          BY <4>2, <4>3
      <3>3. QED
        BY <3>1, <3>2
    <2>2. CASE RedialWhileConnecting(d)
      BY <1>0, <1>1, <2>2 DEF Connect, RedialWhileConnecting, SocketTypeOK
    <2>3. CASE RedialWhileClosing(d)
      BY <1>0, <1>1, <2>3 DEF Connect, RedialWhileClosing, SocketTypeOK
    <2>4. QED
      BY <1>1, <2>1, <2>2, <2>3 DEF Connect, ConnectToPeer
  <1>2. ASSUME NEW d \in Devices, Disconnect(d)
        PROVE  PursuesTheLast'
    BY <1>0, <1>2 DEF Disconnect, DisconnectNow, DisconnectLater, SocketDisconnected,
                      SocketTypeOK
  <1>3. ASSUME NEW d \in Devices, Network(d)
        PROVE  PursuesTheLast'
    <2>1. CASE SocketConnected(d)
      BY <1>0, <1>3, <2>1 DEF Network, SocketConnected, SocketTypeOK
    <2>2. CASE SocketConnectedThenClosed(d)
      BY <1>0, <1>3, <2>2 DEF Network, SocketConnectedThenClosed, SocketTypeOK
    <2>3. CASE SocketError(d)
      BY <1>0, <1>3, <2>3 DEF Network, SocketError, SocketTypeOK
    <2>4. CASE SocketDisconnected(d)
      BY <1>0, <1>3, <2>4 DEF Network, SocketDisconnected, SocketTypeOK
    <2>5. CASE StartServer(d) \/ RestartServer(d) \/ StopServer(d)
      BY <1>3, <2>5 DEF Network, StartServer, RestartServer, StopServer
    <2>6. QED
      BY <1>3, <2>1, <2>2, <2>3, <2>4, <2>5 DEF Network
  <1>4. ASSUME NEW k \in Conns, Server(k)
        PROVE  PursuesTheLast'
    BY <1>4 DEF Server, ServerNewConnection, ServerRejectConnection,
                ServerClientDisconnected
  <1>5. ASSUME NEW d \in Devices, SendFrame(d)
        PROVE  PursuesTheLast'
    BY <1>5 DEF SendFrame
  <1>6. ASSUME NEW d \in Devices, NEW k \in Conns, NEW s \in Sides, ReadFrame(d, k, s)
        PROVE  PursuesTheLast'
    BY <1>6 DEF ReadFrame
  <1>7. CASE UNCHANGED vars
    BY <1>7 DEF vars, socketVars
  <1>8. QED
    BY <1>1, <1>2, <1>3, <1>4, <1>5, <1>6, <1>7 DEF Next

\* A device that is connected is connected to the peer of its last
\* connectToPeer call.  (connectToPeer, p2p_socket.cpp:136-148)
THEOREM LastPeerWins == Spec => []ConnectedToTheLastPeerAsked
  <1>1. Init => PursuesTheLast
    BY DEF Init, SocketInit, PursuesTheLast, Pursues
  <1>2. SystemInv /\ PursuesTheLast => ConnectedToTheLastPeerAsked
    BY DEF SystemInv, SocketInv, StateTellsTheTruth, PursuesTheLast, Pursues,
           ConnectedToTheLastPeerAsked
  <1>3. SystemInv /\ PursuesTheLast /\ [Next]_vars => SystemInv' /\ PursuesTheLast'
    BY SystemInvStep, PursuesStep, SocketAssumption
  <1>4. QED
    BY <1>1, <1>2, <1>3, SystemInvInit, SocketAssumption, PTL DEF Spec

-----------------------------------------------------------------------------
(* The limit of the server: only accepting a connection adds a client.     *)

CapacityInv ==
    \A d \in Devices : /\ IsFiniteSet(ServerClients(d))
                       /\ Cardinality(ServerClients(d)) <= MaxConnections

LEMMA FewerClients ==
    ASSUME CapacityInv, NEW d \in Devices, ServerClients(d)' \subseteq ServerClients(d),
           SocketAssumption
    PROVE  /\ IsFiniteSet(ServerClients(d)')
           /\ Cardinality(ServerClients(d)') <= MaxConnections
  <1>1. IsFiniteSet(ServerClients(d)) /\ Cardinality(ServerClients(d)) <= MaxConnections
    BY DEF CapacityInv
  <1>2. /\ IsFiniteSet(ServerClients(d)')
        /\ Cardinality(ServerClients(d)') <= Cardinality(ServerClients(d))
    BY <1>1, FS_Subset
  <1>3. Cardinality(ServerClients(d)) \in Nat /\ Cardinality(ServerClients(d)') \in Nat
    BY <1>1, <1>2, FS_CardinalityType
  <1>4. QED
    BY <1>1, <1>2, <1>3 DEF SocketAssumption

LEMMA CapacityStep ==
    ASSUME SystemInv, CapacityInv, [Next]_vars, SocketAssumption
    PROVE  CapacityInv'
  <1>0. SocketTypeOK({Payload})
    BY DEF SystemInv, TypeOK
  <1>1. ASSUME NEW k \in Conns, ServerNewConnection(k)
        PROVE  CapacityInv'
    <2> SUFFICES ASSUME NEW d \in Devices
                 PROVE  /\ IsFiniteSet(ServerClients(d)')
                        /\ Cardinality(ServerClients(d)') <= MaxConnections
      BY DEF CapacityInv
    <2>1. CASE listener[k] # d
      <3>1. ServerClients(d)' \subseteq ServerClients(d)
        BY <1>0, <1>1, <2>1 DEF ServerNewConnection, ServerClients, SocketTypeOK
      <3>2. QED
        BY <3>1, FewerClients
    <2>2. CASE listener[k] = d
      <3>1. ServerClients(d)' = ServerClients(d) \cup {k}
        BY <1>0, <1>1, <2>2 DEF ServerNewConnection, ServerClients, SocketTypeOK
      <3>2. k \notin ServerClients(d) /\ IsFiniteSet(ServerClients(d))
        BY <1>1 DEF ServerNewConnection, ServerClients, CapacityInv
      <3>3. /\ IsFiniteSet(ServerClients(d) \cup {k})
            /\ Cardinality(ServerClients(d) \cup {k}) = Cardinality(ServerClients(d)) + 1
        BY <3>2, FS_AddElement
      <3>4. Cardinality(ServerClients(d)) < MaxConnections
        BY <1>1, <2>2 DEF ServerNewConnection
      <3>5. Cardinality(ServerClients(d)) \in Nat
        BY <3>2, FS_CardinalityType
      <3>6. QED
        BY <3>1, <3>3, <3>4, <3>5 DEF SocketAssumption
    <2>3. QED
      BY <2>1, <2>2
  <1>2. CASE \A d \in Devices : ServerClients(d)' \subseteq ServerClients(d)
    BY <1>2, FewerClients DEF CapacityInv
  <1>3. ASSUME NEW d \in Devices, NEW e \in Devices, ConnectToPeer(d, e)
        PROVE  \A c \in Devices : ServerClients(c)' \subseteq ServerClients(c)
    <2>1. ASSUME NEW k \in Conns, Dial(d, e, k)
          PROVE  \A c \in Devices : ServerClients(c)' \subseteq ServerClients(c)
      BY <1>0, <2>1 DEF Dial, ServerClients, SocketTypeOK
    <2>2. QED
      BY <1>3, <2>1 DEF ConnectToPeer, RedialWhileConnecting, RedialWhileClosing,
                        ServerClients
  <1>4. ASSUME NEW d \in Devices, Disconnect(d) \/ Network(d)
        PROVE  \A c \in Devices : ServerClients(c)' \subseteq ServerClients(c)
    <2> USE <1>0 DEF SocketTypeOK, ServerClients
    <2>1. CASE \/ DisconnectLater(d) \/ DisconnectNow(d) \/ SocketConnected(d)
               \/ SocketConnectedThenClosed(d) \/ SocketDisconnected(d)
      BY <2>1 DEF DisconnectLater, DisconnectNow, SocketConnected,
                  SocketConnectedThenClosed, SocketDisconnected
    <2>2. CASE SocketError(d)
      BY <2>2 DEF SocketError
    <2>3. CASE StartServer(d) \/ RestartServer(d) \/ StopServer(d)
      BY <2>3 DEF StartServer, RestartServer, StopServer
    <2>4. QED
      BY <1>4, <2>1, <2>2, <2>3 DEF Disconnect, Network
  <1>5. ASSUME NEW k \in Conns, ServerRejectConnection(k) \/ ServerClientDisconnected(k)
        PROVE  \A c \in Devices : ServerClients(c)' \subseteq ServerClients(c)
    BY <1>0, <1>5 DEF ServerRejectConnection, ServerClientDisconnected, ServerClients,
                      SocketTypeOK
  <1>6. ASSUME \/ \E d \in Devices : SendFrame(d)
               \/ \E d \in Devices, k \in Conns, s \in Sides : ReadFrame(d, k, s)
               \/ UNCHANGED vars
        PROVE  \A c \in Devices : ServerClients(c)' \subseteq ServerClients(c)
    BY <1>6 DEF SendFrame, ReadFrame, vars, socketVars, ServerClients
  <1>7. QED
    BY <1>1, <1>2, <1>3, <1>4, <1>5, <1>6 DEF Next, Connect, Server

\* The server never keeps more clients than MAX_CONCURRENT_CONNECTIONS.
\* (onServerNewConnection, p2p_socket.cpp:318-333)
THEOREM ServerIsBounded == Spec => []ServerCapacity
  <1>1. Init => CapacityInv
    <2>1. ASSUME Init, NEW d \in Devices
          PROVE  ServerClients(d) = {}
      BY <2>1 DEF Init, SocketInit, ServerClients
    <2>2. QED
      BY <2>1, FS_EmptySet, SocketAssumption DEF CapacityInv, SocketAssumption
  <1>2. CapacityInv => ServerCapacity
    BY DEF CapacityInv, ServerCapacity
  <1>3. SystemInv /\ CapacityInv /\ [Next]_vars => SystemInv' /\ CapacityInv'
    BY SystemInvStep, CapacityStep, SocketAssumption
  <1>4. QED
    BY <1>1, <1>2, <1>3, SystemInvInit, SocketAssumption, PTL DEF Spec
=============================================================================
