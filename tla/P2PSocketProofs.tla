---------------------------- MODULE P2PSocketProofs ----------------------------
(***************************************************************************)
(* What every step of P2PSocket preserves, for any number of devices and   *)
(* connections: the lemmas the proofs about the socket and about the       *)
(* controllers above it rest on.                                           *)
(***************************************************************************)
EXTENDS P2PSocket, SequenceTheorems, TLAPS

\* A step of the socket layer other than sending and reading frames.
SocketStep ==
    \/ \E d, e \in Devices : ConnectToPeer(d, e)
    \/ \E d \in Devices : \/ DisconnectLater(d) \/ DisconnectNow(d)
                          \/ SocketConnected(d) \/ SocketConnectedThenClosed(d)
                          \/ SocketError(d) \/ SocketDisconnected(d)
                          \/ StartServer(d) \/ RestartServer(d) \/ StopServer(d)
    \/ \E k \in Conns : \/ ServerNewConnection(k) \/ ServerRejectConnection(k)
                        \/ ServerClientDisconnected(k)

-----------------------------------------------------------------------------
(* Frames written and read.                                                *)

\* sendFrame appends a frame to the wires it writes on and leaves the others.
LEMMA BroadcastType ==
    ASSUME NEW F, NEW d, NEW f \in F,
           NEW w \in [Conns -> [Sides -> Seq(F)]]
    PROVE  Broadcast(d, f, w) \in [Conns -> [Sides -> Seq(F)]]
  <1>1. \A k \in Conns, s \in Sides : w[k][s] \in Seq(F) /\ Append(w[k][s], f) \in Seq(F)
    OBVIOUS
  <1>2. QED
    BY <1>1 DEF Broadcast

\* Reading takes the first frame of one wire.
LEMMA ConsumedType ==
    ASSUME NEW F, NEW k \in Conns, NEW s \in Sides,
           wire \in [Conns -> [Sides -> Seq(F)]], wire[k][s] # <<>>
    PROVE  /\ Consumed(k, s) \in [Conns -> [Sides -> Seq(F)]]
           /\ Head(wire[k][s]) \in F
  <1>1. wire[k][s] \in Seq(F)
    OBVIOUS
  <1>2. Tail(wire[k][s]) \in Seq(F) /\ Head(wire[k][s]) \in F
    BY <1>1, HeadTailProperties
  <1>3. QED
    BY <1>2 DEF Consumed

\* What is left on the wires after a read was there before.
LEMMA ConsumedElements ==
    ASSUME NEW F, wire \in [Conns -> [Sides -> Seq(F)]],
           NEW k \in Conns, NEW s \in Sides, wire[k][s] # <<>>,
           NEW c \in Conns, NEW t \in Sides,
           NEW i \in 1..Len(Consumed(k, s)[c][t])
    PROVE  \E j \in 1..Len(wire[c][t]) : Consumed(k, s)[c][t][i] = wire[c][t][j]
  <1>1. wire[k][s] \in Seq(F)
    OBVIOUS
  <1>2. CASE c = k /\ t = s
    <2>1. Consumed(k, s)[c][t] = Tail(wire[k][s])
      BY <1>2 DEF Consumed
    <2>2. Len(wire[k][s]) \in Nat
      BY <1>1, LenProperties
    <2>3. /\ Len(Tail(wire[k][s])) = Len(wire[k][s]) - 1
          /\ \A j \in 1..Len(Tail(wire[k][s])) : Tail(wire[k][s])[j] = wire[k][s][j + 1]
      BY <1>1, HeadTailProperties
    <2>4. i + 1 \in 1..Len(wire[c][t]) /\ Consumed(k, s)[c][t][i] = wire[c][t][i + 1]
      BY <1>2, <2>1, <2>2, <2>3
    <2>5. QED
      BY <2>4
  <1>3. CASE ~(c = k /\ t = s)
    BY <1>3 DEF Consumed
  <1>4. QED
    BY <1>2, <1>3

-----------------------------------------------------------------------------
(* The socket variables keep their types.                                  *)

LEMMA SocketStepType ==
    ASSUME NEW F, SocketTypeOK(F), SocketStep, SocketAssumption
    PROVE  SocketTypeOK(F)'
  <1> USE DEF SocketTypeOK, P2PState, QtState
  <1>0. <<>> \in Seq(F) /\ "up" \in Sides /\ "down" \in Sides
    BY DEF Sides
  <1>1. CASE \E d, e \in Devices : ConnectToPeer(d, e)
    <2> PICK d \in Devices, e \in Devices : ConnectToPeer(d, e)
      BY <1>1
    <2>1. ASSUME NEW k \in Conns, Dial(d, e, k)
          PROVE  SocketTypeOK(F)'
      BY <2>1, <1>0 DEF Dial
    <2>2. CASE RedialWhileConnecting(d)
      BY <2>2 DEF RedialWhileConnecting
    <2>3. CASE RedialWhileClosing(d)
      BY <2>3 DEF RedialWhileClosing
    <2>4. QED
      BY <2>1, <2>2, <2>3 DEF ConnectToPeer
  <1>2. ASSUME NEW d \in Devices, DisconnectLater(d)
        PROVE  SocketTypeOK(F)'
    BY <1>2 DEF DisconnectLater
  <1>3. ASSUME NEW d \in Devices, SocketDisconnected(d)
        PROVE  SocketTypeOK(F)'
    BY <1>3, <1>0 DEF SocketDisconnected
  <1>4. ASSUME NEW d \in Devices, SocketConnected(d)
        PROVE  SocketTypeOK(F)'
    BY <1>4 DEF SocketConnected
  <1>5. ASSUME NEW d \in Devices, SocketConnectedThenClosed(d)
        PROVE  SocketTypeOK(F)'
    BY <1>5, <1>0 DEF SocketConnectedThenClosed
  <1>6. ASSUME NEW d \in Devices, SocketError(d)
        PROVE  SocketTypeOK(F)'
    BY <1>6 DEF SocketError
  <1>7. ASSUME NEW d \in Devices, StartServer(d)
        PROVE  SocketTypeOK(F)'
    BY <1>7 DEF StartServer
  <1>8. ASSUME NEW d \in Devices, StopServer(d)
        PROVE  SocketTypeOK(F)'
    BY <1>8, <1>0 DEF StopServer
  <1>9. ASSUME NEW k \in Conns, ServerNewConnection(k)
        PROVE  SocketTypeOK(F)'
    BY <1>9 DEF ServerNewConnection
  <1>10. ASSUME NEW k \in Conns, ServerRejectConnection(k)
         PROVE  SocketTypeOK(F)'
    BY <1>10, <1>0 DEF ServerRejectConnection
  <1>11. ASSUME NEW k \in Conns, ServerClientDisconnected(k)
         PROVE  SocketTypeOK(F)'
    BY <1>11, <1>0 DEF ServerClientDisconnected
  <1>12. ASSUME NEW d \in Devices, RestartServer(d)
         PROVE  SocketTypeOK(F)'
    BY <1>12, <1>0 DEF RestartServer
  <1>13. QED
    BY <1>1, <1>2, <1>3, <1>4, <1>5, <1>6, <1>7, <1>8, <1>9, <1>10, <1>11, <1>12
       DEF SocketStep, DisconnectNow

-----------------------------------------------------------------------------
(* SocketInv is inductive, and a socket step creates no frame.             *)

LEMMA SocketStepInv ==
    ASSUME NEW F, SocketTypeOK(F), SocketInv, SocketStep, SocketAssumption
    PROVE  SocketInv'
  <1> USE DEF SocketTypeOK, P2PState, QtState, SocketInv, StateTellsTheTruth,
              HoldsItsOwnDial, RoutesAreSound, SocketAssumption
  <1>0. "up" \in Sides /\ "down" \in Sides
    BY DEF Sides
  <1>1. CASE \E d, e \in Devices : ConnectToPeer(d, e)
    <2> PICK d \in Devices, e \in Devices : ConnectToPeer(d, e)
      BY <1>1
    <2>1. ASSUME NEW k \in Conns, Dial(d, e, k)
          PROVE  SocketInv'
      <3>0. Reusable(k)
        BY <2>1 DEF Dial
      <3>1. \A c \in Devices : link[c] # k
        <4> SUFFICES ASSUME NEW c \in Devices, link[c] = k
                     PROVE  FALSE
          OBVIOUS
        <4>1. dialer[k] = c
          OBVIOUS
        <4>2. DialerHolds(k)
          BY <4>1 DEF DialerHolds
        <4>3. QED
          BY <3>0, <4>2 DEF Reusable
      <3>2. StateTellsTheTruth'
        BY <2>1 DEF Dial
      <3>3. HoldsItsOwnDial'
        BY <2>1, <3>1 DEF Dial
      <3>4. RoutesAreSound'
        BY <2>1, <1>0 DEF Dial
      <3>5. QED
        BY <3>2, <3>3, <3>4
    <2>2. CASE RedialWhileConnecting(d)
      BY <2>2 DEF RedialWhileConnecting
    <2>3. CASE RedialWhileClosing(d)
      BY <2>3 DEF RedialWhileClosing
    <2>4. QED
      BY <2>1, <2>2, <2>3 DEF ConnectToPeer
  <1>2. ASSUME NEW d \in Devices, DisconnectLater(d)
        PROVE  SocketInv'
    BY <1>2 DEF DisconnectLater
  <1>3. ASSUME NEW d \in Devices, SocketDisconnected(d)
        PROVE  SocketInv'
    BY <1>3, <1>0 DEF SocketDisconnected
  <1>4. ASSUME NEW d \in Devices, SocketConnected(d)
        PROVE  SocketInv'
    BY <1>4 DEF SocketConnected
  <1>5. ASSUME NEW d \in Devices, SocketConnectedThenClosed(d)
        PROVE  SocketInv'
    BY <1>5, <1>0 DEF SocketConnectedThenClosed
  <1>6. ASSUME NEW d \in Devices, SocketError(d)
        PROVE  SocketInv'
    BY <1>6 DEF SocketError
  <1>7. ASSUME NEW d \in Devices, StartServer(d)
        PROVE  SocketInv'
    BY <1>7 DEF StartServer
  <1>8. ASSUME NEW d \in Devices, StopServer(d)
        PROVE  SocketInv'
    BY <1>8, <1>0 DEF StopServer
  <1>9. ASSUME NEW k \in Conns, ServerNewConnection(k)
        PROVE  SocketInv'
    BY <1>9 DEF ServerNewConnection
  <1>10. ASSUME NEW k \in Conns, ServerRejectConnection(k)
         PROVE  SocketInv'
    BY <1>10, <1>0 DEF ServerRejectConnection
  <1>11. ASSUME NEW k \in Conns, ServerClientDisconnected(k)
         PROVE  SocketInv'
    BY <1>11, <1>0 DEF ServerClientDisconnected
  <1>12. ASSUME NEW d \in Devices, RestartServer(d)
         PROVE  SocketInv'
    BY <1>12, <1>0 DEF RestartServer
  <1>13. QED
    BY <1>1, <1>2, <1>3, <1>4, <1>5, <1>6, <1>7, <1>8, <1>9, <1>10, <1>11, <1>12
       DEF SocketStep, DisconnectNow

\* A wire is left as it is or emptied, and one that changes its ends is
\* emptied: no frame reaches a device it was not written for.
WiresOnlyLose ==
    \A k \in Conns, s \in Sides :
        \/ wire'[k][s] = <<>>
        \/ /\ wire'[k][s] = wire[k][s]
           /\ dialer'[k] = dialer[k] /\ listener'[k] = listener[k]

LEMMA SocketStepLoses ==
    ASSUME NEW F, SocketTypeOK(F), HoldsItsOwnDial, SocketStep, SocketAssumption
    PROVE  WiresOnlyLose
  <1> USE DEF SocketTypeOK, WiresOnlyLose, HoldsItsOwnDial, SocketAssumption, QtState
  <1>0. "up" \in Sides /\ "down" \in Sides
    BY DEF Sides
  <1>1. CASE \E d, e \in Devices : ConnectToPeer(d, e)
    BY <1>1 DEF ConnectToPeer, Dial, RedialWhileConnecting, RedialWhileClosing
  <1>2. CASE \E d \in Devices : SocketDisconnected(d)
    BY <1>2, <1>0 DEF SocketDisconnected
  <1>3. CASE \E d \in Devices : SocketConnectedThenClosed(d)
    BY <1>3, <1>0 DEF SocketConnectedThenClosed
  <1>4. CASE \E d \in Devices : StopServer(d) \/ RestartServer(d)
    BY <1>4, <1>0 DEF StopServer, RestartServer
  <1>5. CASE \E d \in Devices : \/ DisconnectLater(d) \/ SocketConnected(d)
                                \/ SocketError(d) \/ StartServer(d)
    BY <1>5 DEF DisconnectLater, SocketConnected, SocketError, StartServer
  <1>6. CASE \E k \in Conns : \/ ServerNewConnection(k) \/ ServerRejectConnection(k)
                              \/ ServerClientDisconnected(k)
    BY <1>6, <1>0 DEF ServerNewConnection, ServerRejectConnection,
                      ServerClientDisconnected
  <1>7. QED
    BY <1>1, <1>2, <1>3, <1>4, <1>5, <1>6 DEF SocketStep, DisconnectNow

-----------------------------------------------------------------------------
(* Sending and reading keep SocketInv.                                     *)

\* The wires of an unused connection stay empty when a device sends.
LEMMA SendInv ==
    ASSUME NEW F, SocketTypeOK(F), SocketInv, SocketAssumption,
           NEW d \in Devices, NEW f, NEW w,
           \A k \in Conns, s \in Sides : wire[k][s] = <<>> => w[k][s] = <<>>,
           UNCHANGED <<m_state, qt, pendingClose, link, dialer, listener, server,
                       listening>>,
           wire' = Broadcast(d, f, w)
    PROVE  SocketInv'
  <1>1. ASSUME NEW k \in Conns, NEW s \in Sides, dialer[k] = NoDevice
        PROVE  wire'[k][s] = <<>>
    <2>1. wire[k][s] = <<>> /\ server[k] = "closed"
      BY <1>1 DEF SocketInv, RoutesAreSound, SocketAssumption
    <2>2. ~Writes(d, k, s)
      BY <1>1, <2>1 DEF Writes, ServerClients, SocketInv, HoldsItsOwnDial,
                        SocketAssumption
    <2>3. QED
      BY <2>1, <2>2 DEF Broadcast
  <1>2. RoutesAreSound'
    BY <1>1 DEF SocketInv, RoutesAreSound
  <1>3. StateTellsTheTruth' /\ HoldsItsOwnDial'
    BY DEF SocketInv, StateTellsTheTruth, HoldsItsOwnDial
  <1>4. QED
    BY <1>2, <1>3 DEF SocketInv

\* Reading takes nothing from an empty wire.
LEMMA ReadInv ==
    ASSUME NEW F, SocketTypeOK(F), SocketInv,
           NEW k \in Conns, NEW s \in Sides, wire[k][s] # <<>>,
           UNCHANGED <<m_state, qt, pendingClose, link, dialer, listener, server,
                       listening>>,
           wire' = Consumed(k, s)
    PROVE  SocketInv'
  <1>1. \A c \in Conns, t \in Sides : wire[c][t] = <<>> => wire'[c][t] = <<>>
    BY DEF SocketTypeOK, Consumed
  <1>2. RoutesAreSound'
    BY <1>1 DEF SocketInv, RoutesAreSound
  <1>3. StateTellsTheTruth' /\ HoldsItsOwnDial'
    BY DEF SocketInv, StateTellsTheTruth, HoldsItsOwnDial
  <1>4. QED
    BY <1>2, <1>3 DEF SocketInv

\* The same, about the wires after a read that is followed by an answer.
LEMMA ConsumedKeepsEmpty ==
    ASSUME NEW F, SocketTypeOK(F), NEW k \in Conns, NEW s \in Sides,
           wire[k][s] # <<>>, NEW c \in Conns, NEW t \in Sides, wire[c][t] = <<>>
    PROVE  Consumed(k, s)[c][t] = <<>>
  BY DEF SocketTypeOK, Consumed

\* Initially nothing is connected.
LEMMA SocketInitial ==
    ASSUME NEW F, NEW up, SocketInit(up), SocketAssumption
    PROVE  SocketTypeOK(F) /\ SocketInv
  <1>1. <<>> \in Seq(F)
    OBVIOUS
  <1>2. SocketTypeOK(F)
    BY <1>1 DEF SocketInit, SocketTypeOK, P2PState, QtState
  <1>3. SocketInv
    BY DEF SocketInit, SocketInv, StateTellsTheTruth, HoldsItsOwnDial,
           RoutesAreSound, SocketAssumption
  <1>4. QED
    BY <1>2, <1>3
=============================================================================
