------------------------- MODULE ChatControllerProofs -------------------------
(***************************************************************************)
(* Theorems about ChatController for any devices, connections and          *)
(* messages.  ChatInv is inductive; TypeOK is proved first.                *)
(***************************************************************************)
EXTENDS ChatController, P2PSocketProofs

-----------------------------------------------------------------------------
(* Frames.                                                                 *)

\* The fields of a frame have the types its kind gives them.
LEMMA FrameFields ==
    ASSUME NEW f \in Frames
    PROVE  /\ f.type = "ChatMessage" => f.id \in Messages /\ f.from \in Devices
           /\ f.type = "MessageAck" =>
                 f.id \in Messages /\ f.status \in {"delivered", "read"}
           /\ f.type = "TypingIndicator" => f.from \in Devices /\ f.isTyping \in BOOLEAN
           /\ f.type \in {"ChatMessage", "MessageAck", "TypingIndicator"}
  BY DEF Frames, ChatMessage, MessageAck, Typing

\* Every frame the controller builds is one.
LEMMA FrameKinds ==
    /\ \A m \in Messages, d \in Devices : ChatMessage(m, d) \in Frames
    /\ \A m \in Messages : MessageAck(m, "delivered") \in Frames
    /\ \A m \in Messages : MessageAck(m, "read") \in Frames
    /\ \A d \in Devices, b \in BOOLEAN : Typing(d, b) \in Frames
  BY DEF Frames

\* A frame a device has ready to read is a frame, and reading it and sending
\* an answer leaves frames on the wires.
LEMMA ReadType ==
    ASSUME TypeOK, NEW d \in Devices, NEW k \in Conns, NEW s \in Sides,
           CanRead(d, k, s)
    PROVE  /\ Head1(k, s) \in Frames
           /\ Consumed(k, s) \in [Conns -> [Sides -> Seq(Frames)]]
           /\ \A f \in Frames :
                 Broadcast(d, f, Consumed(k, s)) \in [Conns -> [Sides -> Seq(Frames)]]
  <1>1. wire \in [Conns -> [Sides -> Seq(Frames)]] /\ wire[k][s] # <<>>
    BY DEF TypeOK, SocketTypeOK, CanRead
  <1>2. /\ Head1(k, s) \in Frames
        /\ Consumed(k, s) \in [Conns -> [Sides -> Seq(Frames)]]
    BY <1>1, ConsumedType DEF Head1
  <1>3. QED
    BY <1>2, BroadcastType

-----------------------------------------------------------------------------
(* The steps of the socket as the controller takes part in them.           *)

\* Steps that leave the controller alone but for clearing indicators.
SocketReaction ==
    /\ SocketStep
    /\ UNCHANGED chatButTyping
    /\ \/ UNCHANGED peerTyping
       \/ \E d \in Devices : ClearPeerTyping(d)

\* Sending that finds no connection: at most a dial.
LEMMA DialOrNotStep ==
    ASSUME NEW d \in Devices, DialOrNot(d)
    PROVE  /\ UNCHANGED socketVars \/ SocketStep
           /\ UNCHANGED peerTyping \/ \E c \in Devices : ClearPeerTyping(c)
  BY DEF DialOrNot, ConnectAndNotify, SocketStep, ConnectToPeer

\* The socket's own events, other than frames, are socket reactions.
LEMMA SocketIsReaction ==
    ASSUME TypeOK, RoutesAreSound, SocketAssumption, Socket
    PROVE  SocketReaction
  <1> USE DEF SocketReaction, SocketStep, chatButTyping, chatVars, history
  <1>1. ASSUME NEW d \in Devices, NEW e \in Devices, UserConnects(d, e)
        PROVE  SocketReaction
    BY <1>1 DEF UserConnects, ConnectAndNotify, ConnectToPeer
  <1>2. ASSUME NEW d \in Devices,
               \/ UserDisconnects(d) \/ ConnectedThenClosed(d) \/ Disconnected(d)
               \/ DialFailed(d) \/ Connected(d)
        PROVE  SocketReaction
    BY <1>2 DEF UserDisconnects, ConnectedThenClosed, Disconnected, DialFailed,
                Connected, DisconnectNow
  <1>3. ASSUME NEW k \in Conns, Accepted(k) \/ Refused(k)
        PROVE  SocketReaction
    BY <1>3 DEF Accepted, Refused
  <1>4. ASSUME NEW k \in Conns, PeerDisconnected(k)
        PROVE  SocketReaction
    <2>1. listener[k] \in Devices
      BY <1>4 DEF PeerDisconnected, ServerClientDisconnected, RoutesAreSound
    <2>2. QED
      BY <1>4, <2>1 DEF PeerDisconnected
  <1>5. QED
    BY <1>1, <1>2, <1>3, <1>4 DEF Socket

-----------------------------------------------------------------------------
(* Type correctness.                                                       *)

\* The controller's own part of TypeOK.
ChatTypeOK ==
    /\ outgoing \in [Devices -> [Messages -> MessageState \cup {NoMessage}]]
    /\ ackTimers \in [Devices -> SUBSET Messages]
    /\ cache \in [Devices -> [Messages -> {"no", "fresh", "old"}]]
    /\ peerTyping \in [Devices -> SUBSET Devices]
    /\ localTyping \in [Devices -> BOOLEAN]
    /\ stopTimer \in [Devices -> BOOLEAN]
    /\ shown \in [Devices -> [Messages -> 0..ShowBound]]
    /\ readBy \in [Devices -> SUBSET Messages]
    /\ wired \subseteq Messages
    /\ forgotten \in [Devices -> SUBSET Messages]

LEMMA TypeOKParts == TypeOK <=> SocketTypeOK(Frames) /\ ChatTypeOK
  BY DEF TypeOK, ChatTypeOK

\* Sending or reading touches no socket variable but the wires.
LEMMA WireType ==
    ASSUME TypeOK, UNCHANGED socketButWire,
           wire' \in [Conns -> [Sides -> Seq(Frames)]]
    PROVE  SocketTypeOK(Frames)'
  BY DEF TypeOK, SocketTypeOK, socketButWire

\* A broadcast on the wires as they are.
LEMMA SendType ==
    ASSUME TypeOK, NEW d, NEW f \in Frames, UNCHANGED socketButWire,
           wire' = Broadcast(d, f, wire)
    PROVE  SocketTypeOK(Frames)'
  <1>1. wire \in [Conns -> [Sides -> Seq(Frames)]]
    BY DEF TypeOK, SocketTypeOK
  <1>2. wire' \in [Conns -> [Sides -> Seq(Frames)]]
    BY <1>1, BroadcastType
  <1>3. QED
    BY <1>2, WireType

LEMMA NoSendType ==
    ASSUME TypeOK, SocketAssumption, UNCHANGED socketVars \/ SocketStep
    PROVE  SocketTypeOK(Frames)'
  <1>1. CASE UNCHANGED socketVars
    BY <1>1 DEF TypeOK, SocketTypeOK, socketVars
  <1>2. CASE SocketStep
    BY <1>2, SocketStepType DEF TypeOK
  <1>3. QED
    BY <1>1, <1>2

\* What the users do keeps the types.
LEMMA UserType ==
    ASSUME TypeOK, SocketAssumption, NEW d \in Devices, User(d)
    PROVE  TypeOK'
  <1> USE DEF ChatTypeOK, MessageState
  <1>0. ChatTypeOK
    BY TypeOKParts
  <1>1. ASSUME NEW m \in Messages, SendMessage(d, m)
        PROVE  TypeOK'
    <2>1. SocketTypeOK(Frames)'
      BY <1>1, SendType, FrameKinds DEF SendMessage, socketButWire
    <2>2. ChatTypeOK'
      BY <1>0, <1>1 DEF SendMessage, TrackAs
    <2>3. QED
      BY <2>1, <2>2 DEF TypeOK
  <1>2. ASSUME NEW m \in Messages, SendMessageUnconnected(d, m)
        PROVE  TypeOK'
    <2>1. SocketTypeOK(Frames)'
      BY <1>2, DialOrNotStep, NoSendType DEF SendMessageUnconnected
    <2>2. UNCHANGED peerTyping \/ \E c \in Devices : ClearPeerTyping(c)
      BY <1>2, DialOrNotStep DEF SendMessageUnconnected
    <2>3. ChatTypeOK'
      BY <1>0, <1>2, <2>2 DEF SendMessageUnconnected, TrackAs, ClearPeerTyping
    <2>4. QED
      BY <2>1, <2>3 DEF TypeOK
  <1>3. ASSUME NEW m \in Messages, SendReadReceipt(d, m)
        PROVE  TypeOK'
    <2>1. SocketTypeOK(Frames)'
      BY <1>3, DialOrNotStep, NoSendType, SendType, FrameKinds
         DEF SendReadReceipt
    <2>2. UNCHANGED peerTyping \/ \E c \in Devices : ClearPeerTyping(c)
      BY <1>3, DialOrNotStep DEF SendReadReceipt
    <2>3. ChatTypeOK'
      BY <1>0, <1>3, <2>2 DEF SendReadReceipt, ClearPeerTyping
    <2>4. QED
      BY <2>1, <2>3 DEF TypeOK
  <1>4. CASE StartTyping(d)
    <2>1. SocketTypeOK(Frames)'
      BY <1>4, DialOrNotStep, NoSendType, SendType, FrameKinds DEF StartTyping
    <2>2. UNCHANGED peerTyping \/ \E c \in Devices : ClearPeerTyping(c)
      BY <1>4, DialOrNotStep DEF StartTyping
    <2>3. ChatTypeOK'
      BY <1>0, <1>4, <2>2 DEF StartTyping, ClearPeerTyping, history
    <2>4. QED
      BY <2>1, <2>3 DEF TypeOK
  <1>5. CASE StopTyping(d)
    <2>1. SocketTypeOK(Frames)'
      BY <1>5, SendType, FrameKinds DEF StopTyping
    <2>2. ChatTypeOK'
      BY <1>0, <1>5 DEF StopTyping, history
    <2>3. QED
      BY <2>1, <2>2 DEF TypeOK
  <1>6. QED
    BY <1>1, <1>2, <1>3, <1>4, <1>5 DEF User

LEMMA TimersType ==
    ASSUME TypeOK, SocketAssumption, NEW d \in Devices, Timers(d)
    PROVE  TypeOK'
  <1> USE DEF ChatTypeOK, MessageState
  <1>0. ChatTypeOK
    BY TypeOKParts
  <1>1. SocketTypeOK(Frames)'
    BY NoSendType DEF Timers, AckTimeout, PeerTypingTimeout, CacheWindowPasses
  <1>2. ChatTypeOK'
    <2>1. ASSUME NEW m \in Messages, AckTimeout(d, m)
          PROVE  ChatTypeOK'
      BY <1>0, <2>1 DEF AckTimeout, history
    <2>2. ASSUME NEW e \in Devices, PeerTypingTimeout(d, e)
          PROVE  ChatTypeOK'
      BY <1>0, <2>2 DEF PeerTypingTimeout, history
    <2>3. CASE CacheWindowPasses(d)
      BY <1>0, <2>3 DEF CacheWindowPasses, history
    <2>4. QED
      BY <2>1, <2>2, <2>3 DEF Timers
  <1>3. QED
    BY <1>1, <1>2 DEF TypeOK

\* The frame handlers keep the types.
LEMMA ReceiveType ==
    ASSUME TypeOK, ChatAssumption,
           NEW d \in Devices, NEW k \in Conns, NEW s \in Sides, Receive(d, k, s)
    PROVE  TypeOK'
  <1> USE DEF ChatTypeOK, MessageState
  <1>0. ChatTypeOK
    BY TypeOKParts
  <1>1. CanRead(d, k, s)
    BY DEF Receive, ReceiveNewMessage, ReceiveDuplicate, ReceiveAck, ReceiveTyping
  <1> DEFINE f == Head1(k, s)
  <1>2. f \in Frames
    BY <1>1, ReadType
  <1>3. CASE ReceiveNewMessage(d, k, s)
    <2>1. f.type = "ChatMessage"
      BY <1>3 DEF ReceiveNewMessage
    <2>2. f.id \in Messages /\ f.from \in Devices
      BY <1>2, <2>1, FrameFields
    <2>3. wire' \in [Conns -> [Sides -> Seq(Frames)]]
      BY <1>1, <1>3, <2>2, ReadType, FrameKinds DEF ReceiveNewMessage
    <2>4. SocketTypeOK(Frames)'
      BY <1>3, <2>3, WireType DEF ReceiveNewMessage
    <2>5. ChatTypeOK'
      <3>1. UNCHANGED <<outgoing, ackTimers, localTyping, stopTimer, readBy, wired>>
        BY <1>3 DEF ReceiveNewMessage
      <3>2. cache' \in [Devices -> [Messages -> {"no", "fresh", "old"}]]
        BY <1>0, <1>3, <2>2 DEF ReceiveNewMessage
      <3>3. shown' \in [Devices -> [Messages -> 0..ShowBound]]
        BY <1>0, <1>3, <2>2 DEF ReceiveNewMessage, ChatAssumption
      <3>4. /\ peerTyping' \in [Devices -> SUBSET Devices]
            /\ forgotten' \in [Devices -> SUBSET Messages]
        BY <1>0, <1>3 DEF ReceiveNewMessage
      <3>5. QED
        BY <1>0, <3>1, <3>2, <3>3, <3>4
    <2>6. QED
      BY <2>4, <2>5 DEF TypeOK
  <1>4. CASE ReceiveDuplicate(d, k, s)
    <2>1. f.type = "ChatMessage"
      BY <1>4 DEF ReceiveDuplicate
    <2>2. f.id \in Messages
      BY <1>2, <2>1, FrameFields
    <2>3. wire' \in [Conns -> [Sides -> Seq(Frames)]]
      BY <1>1, <1>4, <2>2, ReadType, FrameKinds DEF ReceiveDuplicate
    <2>4. SocketTypeOK(Frames)'
      BY <1>4, <2>3, WireType DEF ReceiveDuplicate
    <2>5. ChatTypeOK'
      BY <1>0, <1>4 DEF ReceiveDuplicate
    <2>6. QED
      BY <2>4, <2>5 DEF TypeOK
  <1>5. CASE ReceiveAck(d, k, s)
    <2>1. SocketTypeOK(Frames)'
      BY <1>1, <1>5, ReadType, WireType DEF ReceiveAck
    <2>2. AckedState(f.status) \in MessageState
      BY DEF AckedState
    <2>3. /\ outgoing' \in [Devices -> [Messages -> MessageState \cup {NoMessage}]]
          /\ ackTimers' \in [Devices -> SUBSET Messages]
      <3>1. CASE outgoing[d][f.id] # NoMessage
        <4>1. /\ outgoing' = [outgoing EXCEPT ![d][f.id] = AckedState(f.status)]
              /\ ackTimers' = [ackTimers EXCEPT ![d] = @ \ {f.id}]
          BY <1>5, <3>1 DEF ReceiveAck
        <4>2. ackTimers' \in [Devices -> SUBSET Messages]
          BY <1>0, <4>1
        <4>3. outgoing' \in [Devices -> [Messages -> MessageState \cup {NoMessage}]]
          BY <1>0, <2>2, <4>1
        <4>4. QED
          BY <4>2, <4>3
      <3>2. CASE outgoing[d][f.id] = NoMessage
        BY <1>0, <1>5, <3>2 DEF ReceiveAck
      <3>3. QED
        BY <3>1, <3>2
    <2>4. ChatTypeOK'
      BY <1>0, <1>5, <2>3 DEF ReceiveAck, history
    <2>5. QED
      BY <2>1, <2>4 DEF TypeOK
  <1>6. CASE ReceiveTyping(d, k, s)
    <2>1. f.type = "TypingIndicator"
      BY <1>6 DEF ReceiveTyping
    <2>2. f.from \in Devices
      BY <1>2, <2>1, FrameFields
    <2>3. SocketTypeOK(Frames)'
      BY <1>1, <1>6, ReadType, WireType DEF ReceiveTyping
    <2>4. peerTyping' \in [Devices -> SUBSET Devices]
      BY <1>0, <1>6, <2>2 DEF ReceiveTyping
    <2>5. ChatTypeOK'
      BY <1>0, <1>6, <2>4 DEF ReceiveTyping, history
    <2>6. QED
      BY <2>3, <2>5 DEF TypeOK
  <1>7. QED
    BY <1>3, <1>4, <1>5, <1>6 DEF Receive

LEMMA ReactionType ==
    ASSUME TypeOK, SocketAssumption, SocketReaction
    PROVE  TypeOK'
  <1>1. SocketTypeOK(Frames)'
    BY NoSendType DEF SocketReaction
  <1>2. ChatTypeOK'
    BY TypeOKParts DEF ChatTypeOK, SocketReaction, chatButTyping, history,
                       ClearPeerTyping
  <1>3. QED
    BY <1>1, <1>2 DEF TypeOK, ChatTypeOK

-----------------------------------------------------------------------------
(* The socket invariant below the controller.                              *)

LEMMA SendKeepsSocketInv ==
    ASSUME TypeOK, SocketInv, SocketAssumption, NEW d \in Devices,
           UNCHANGED socketButWire, \E f \in Frames : wire' = Broadcast(d, f, wire)
    PROVE  SocketInv'
  BY SendInv DEF TypeOK, socketButWire

LEMMA UserSocketInv ==
    ASSUME TypeOK, SocketInv, SocketAssumption, NEW d \in Devices, User(d)
    PROVE  SocketInv'
  <1>1. CASE UNCHANGED socketVars
    BY <1>1 DEF socketVars, SocketInv, StateTellsTheTruth, HoldsItsOwnDial,
                RoutesAreSound
  <1>2. CASE SocketStep
    BY <1>2, SocketStepInv DEF TypeOK
  <1>3. CASE /\ UNCHANGED socketButWire
             /\ \E f \in Frames : wire' = Broadcast(d, f, wire)
    BY <1>3, SendKeepsSocketInv
  <1>4. ASSUME NEW m \in Messages,
               \/ SendMessage(d, m) \/ SendMessageUnconnected(d, m)
               \/ SendReadReceipt(d, m)
        PROVE  SocketInv'
    BY <1>1, <1>2, <1>3, <1>4, DialOrNotStep, FrameKinds
       DEF SendMessage, SendMessageUnconnected, SendReadReceipt, socketButWire
  <1>5. CASE StartTyping(d) \/ StopTyping(d)
    BY <1>1, <1>2, <1>3, <1>5, DialOrNotStep, FrameKinds
       DEF StartTyping, StopTyping, socketButWire
  <1>6. QED
    BY <1>4, <1>5 DEF User

LEMMA ReceiveSocketInv ==
    ASSUME TypeOK, SocketInv, SocketAssumption,
           NEW d \in Devices, NEW k \in Conns, NEW s \in Sides, Receive(d, k, s)
    PROVE  SocketInv'
  <1>1. wire[k][s] # <<>> /\ SocketTypeOK(Frames)
    BY DEF Receive, ReceiveNewMessage, ReceiveDuplicate, ReceiveAck, ReceiveTyping,
           CanRead, TypeOK
  <1>2. \A c \in Conns, t \in Sides : wire[c][t] = <<>> => Consumed(k, s)[c][t] = <<>>
    BY <1>1, ConsumedKeepsEmpty
  <1>3. CASE ReceiveNewMessage(d, k, s) \/ ReceiveDuplicate(d, k, s)
    <2>1. /\ UNCHANGED socketButWire
          /\ wire' = Broadcast(d, MessageAck(Head1(k, s).id, "delivered"), Consumed(k, s))
      BY <1>3 DEF ReceiveNewMessage, ReceiveDuplicate
    <2>2. QED
      BY <1>1, <1>2, <2>1, SendInv DEF socketButWire
  <1>4. CASE ReceiveAck(d, k, s) \/ ReceiveTyping(d, k, s)
    BY <1>1, <1>4, ReadInv DEF ReceiveAck, ReceiveTyping, socketButWire
  <1>5. QED
    BY <1>3, <1>4 DEF Receive

-----------------------------------------------------------------------------
\* The assumptions of the two modules on their constants.
Assumptions == SocketAssumption /\ ChatAssumption /\ NoMessageAssumption

LEMMA AssumptionsHold == Assumptions
  BY SocketAssumption, ChatAssumption, NoMessageAssumption DEF Assumptions

\* One step keeps the types and the socket invariant.
LEMMA TypeStep ==
    ASSUME Assumptions, TypeOK, SocketInv, [Next]_vars
    PROVE  TypeOK' /\ SocketInv'
  <1> USE DEF Assumptions
  <1>1. CASE UNCHANGED vars
    BY <1>1 DEF vars, socketVars, chatVars, history, TypeOK, SocketTypeOK, SocketInv,
                StateTellsTheTruth, HoldsItsOwnDial, RoutesAreSound
  <1>2. CASE \E d \in Devices : User(d)
    BY <1>2, UserType, UserSocketInv
  <1>3. CASE \E d \in Devices : Timers(d)
    <2>1. UNCHANGED socketVars
      BY <1>3 DEF Timers, AckTimeout, PeerTypingTimeout, CacheWindowPasses
    <2>2. SocketInv'
      BY <2>1 DEF socketVars, SocketInv, StateTellsTheTruth, HoldsItsOwnDial,
                  RoutesAreSound
    <2>3. QED
      BY <1>3, <2>2, TimersType
  <1>4. CASE SocketReaction
    <2>1. SocketInv'
      BY <1>4, SocketStepInv DEF SocketReaction, TypeOK
    <2>2. QED
      BY <1>4, <2>1, ReactionType
  <1>5. CASE \E d \in Devices, k \in Conns, s \in Sides : Receive(d, k, s)
    BY <1>5, ReceiveType, ReceiveSocketInv
  <1>6. QED
    BY <1>1, <1>2, <1>3, <1>4, <1>5, SocketIsReaction DEF Next, SocketInv

LEMMA TypeInitial ==
    ASSUME Assumptions, Init
    PROVE  TypeOK /\ SocketInv
  <1>1. SocketTypeOK(Frames) /\ SocketInv
    BY SocketInitial DEF Init, Assumptions
  <1>2. ChatTypeOK
    BY DEF Init, ChatTypeOK, Assumptions, ChatAssumption
  <1>3. QED
    BY <1>1, <1>2, TypeOKParts

\* Every variable keeps its type, and P2PSocket's m_state, connections and
\* wires stay consistent under everything ChatController does with them.
THEOREM TypeCorrect == Spec => [](TypeOK /\ SocketInv)
  <1>1. Init => TypeOK /\ SocketInv
    BY TypeInitial, AssumptionsHold
  <1>2. TypeOK /\ SocketInv /\ [Next]_vars => TypeOK' /\ SocketInv'
    BY TypeStep, AssumptionsHold
  <1>3. QED
    BY <1>1, <1>2, PTL DEF Spec

-----------------------------------------------------------------------------
(* Frames in flight stay justified.                                        *)

\* What a frame can tell of never becomes false again.
Grows ==
    /\ wired \subseteq wired'
    /\ \A d \in Devices, m \in Messages :
          /\ outgoing[d][m] # NoMessage => outgoing'[d][m] # NoMessage
          /\ shown[d][m] > 0 => shown'[d][m] > 0
    /\ \A d \in Devices : readBy[d] \subseteq readBy'[d]

LEMMA JustifiedKept ==
    ASSUME NEW f \in Frames, NEW k \in Conns, NEW s \in Sides, Grows,
           Justified(f, k, s), dialer'[k] = dialer[k], listener'[k] = listener[k]
    PROVE  Justified(f, k, s)'
  <1>1. CASE f.type = "ChatMessage"
    <2>1. f.id \in Messages /\ f.from \in Devices
      BY <1>1, FrameFields
    <2>2. QED
      BY <1>1, <2>1 DEF Justified, Grows, Receiver
  <1>2. CASE f.type = "MessageAck"
    <2>1. f.id \in Messages
      BY <1>2, FrameFields
    <2>2. QED
      BY <1>2, <2>1 DEF Justified, Grows
  <1>3. CASE f.type = "TypingIndicator"
    BY <1>3 DEF Justified
  <1>4. QED
    BY <1>1, <1>2, <1>3, FrameFields

\* Frames that were there before, or are justified, are all there is.
LEMMA FramesKept ==
    ASSUME TypeOK, FramesAreJustified, Grows,
           \A k \in Conns, s \in Sides : \A i \in 1..Len(wire'[k][s]) :
              \/ Justified(wire[k][s][i], k, s)'
              \/ /\ dialer'[k] = dialer[k] /\ listener'[k] = listener[k]
                 /\ \E j \in 1..Len(wire[k][s]) : wire'[k][s][i] = wire[k][s][j]
    PROVE  FramesAreJustified'
  <1> SUFFICES ASSUME NEW k \in Conns, NEW s \in Sides, NEW i \in 1..Len(wire'[k][s]),
                      ~Justified(wire[k][s][i], k, s)'
               PROVE  FALSE
    BY DEF FramesAreJustified
  <1>1. PICK j \in 1..Len(wire[k][s]) : wire'[k][s][i] = wire[k][s][j]
    OBVIOUS
  <1>2. dialer'[k] = dialer[k] /\ listener'[k] = listener[k]
    OBVIOUS
  <1>3. wire[k][s] \in Seq(Frames)
    BY DEF TypeOK, SocketTypeOK
  <1>4. wire[k][s][j] \in Frames
    BY <1>3, ElementOfSeq
  <1>5. PICK f \in Frames : f = wire[k][s][j]
    BY <1>4
  <1>6. Justified(f, k, s)
    BY <1>5 DEF FramesAreJustified
  <1>7. Justified(f, k, s)'
    BY <1>2, <1>6, JustifiedKept
  <1>8. wire'[k][s][i] = f
    BY <1>1, <1>5
  <1>9. Justified(wire[k][s][i], k, s)'
    BY <1>7, <1>8 DEF Justified
  <1>10. QED
    BY <1>9

\* A device writes only on wires that lead to somebody else, and reads only
\* from wires that lead to itself.
LEMMA WritesGoAway ==
    ASSUME TypeOK, SocketInv, SocketAssumption, NEW d \in Devices,
           NEW k \in Conns, NEW s \in Sides
    PROVE  /\ Writes(d, k, s) => Receiver(k, s) # d
           /\ CanRead(d, k, s) => Receiver(k, s) = d
  <1>1. k # NoConn /\ d # NoDevice
    BY DEF SocketAssumption
  <1>2. link[d] = k => dialer[k] = d
    BY <1>1 DEF SocketInv, HoldsItsOwnDial
  <1>3. \/ dialer[k] # listener[k]
        \/ dialer[k] = NoDevice /\ listener[k] = NoDevice
    BY DEF SocketInv, RoutesAreSound
  <1>4. CASE s = "up"
    BY <1>1, <1>2, <1>3, <1>4 DEF Writes, CanRead, ServerClients, Receiver
  <1>5. CASE s = "down"
    BY <1>1, <1>2, <1>3, <1>5 DEF Writes, CanRead, ServerClients, Receiver
  <1>6. QED
    BY <1>4, <1>5 DEF Sides

\* Sending a frame that is justified wherever it goes.
LEMMA SendKeepsFrames ==
    ASSUME TypeOK, FramesAreJustified, Grows, UNCHANGED socketButWire,
           NEW d \in Devices, NEW f \in Frames,
           NEW w \in [Conns -> [Sides -> Seq(Frames)]],
           \A k \in Conns, s \in Sides : \A i \in 1..Len(w[k][s]) :
              \E j \in 1..Len(wire[k][s]) : w[k][s][i] = wire[k][s][j],
           wire' = Broadcast(d, f, w),
           \A k \in Conns, s \in Sides : Writes(d, k, s) => Justified(f, k, s)'
    PROVE  FramesAreJustified'
  <1>1. ASSUME NEW k \in Conns, NEW s \in Sides, NEW i \in 1..Len(wire'[k][s])
        PROVE  \/ Justified(wire[k][s][i], k, s)'
               \/ /\ dialer'[k] = dialer[k] /\ listener'[k] = listener[k]
                  /\ \E j \in 1..Len(wire[k][s]) : wire'[k][s][i] = wire[k][s][j]
    <2>1. w[k][s] \in Seq(Frames)
      OBVIOUS
    <2>2. \/ wire'[k][s] = w[k][s]
          \/ Writes(d, k, s) /\ wire'[k][s] = Append(w[k][s], f)
      BY DEF Broadcast
    <2>3. \/ i \in 1..Len(w[k][s]) /\ wire'[k][s][i] = w[k][s][i]
          \/ Writes(d, k, s) /\ wire'[k][s][i] = f
      <3>1. CASE wire'[k][s] = w[k][s]
        BY <3>1
      <3>2. CASE Writes(d, k, s) /\ wire'[k][s] = Append(w[k][s], f)
        <4>1. Len(wire'[k][s]) = Len(w[k][s]) + 1 /\ Len(w[k][s]) \in Nat
          BY <2>1, <3>2, AppendProperties
        <4>2. CASE i = Len(w[k][s]) + 1
          BY <2>1, <3>2, <4>1, <4>2, AppendProperties
        <4>3. CASE i # Len(w[k][s]) + 1
          <5>1. i \in 1..Len(w[k][s])
            BY <4>1, <4>3
          <5>2. Append(w[k][s], f)[i] = w[k][s][i]
            BY <2>1, <5>1, AppendProperties
          <5>3. QED
            BY <3>2, <5>1, <5>2
        <4>4. QED
          BY <4>2, <4>3
      <3>3. QED
        BY <2>2, <3>1, <3>2
    <2>4. CASE i \in 1..Len(w[k][s]) /\ wire'[k][s][i] = w[k][s][i]
      <3>1. \E j \in 1..Len(wire[k][s]) : w[k][s][i] = wire[k][s][j]
        BY <2>4
      <3>2. QED
        BY <2>4, <3>1 DEF socketButWire
    <2>5. CASE Writes(d, k, s) /\ wire'[k][s][i] = f
      <3>1. Justified(f, k, s)'
        BY <2>5
      <3>2. QED
        BY <2>5, <3>1 DEF Justified
    <2>6. QED
      BY <2>3, <2>4, <2>5
  <1>2. QED
    BY <1>1, FramesKept

\* What Consumed leaves was there before.
LEMMA ConsumedSubset ==
    ASSUME TypeOK, NEW d \in Devices, NEW k \in Conns, NEW s \in Sides,
           CanRead(d, k, s)
    PROVE  \A c \in Conns, t \in Sides : \A i \in 1..Len(Consumed(k, s)[c][t]) :
              \E j \in 1..Len(wire[c][t]) : Consumed(k, s)[c][t][i] = wire[c][t][j]
  BY ConsumedElements DEF TypeOK, SocketTypeOK, CanRead

\* Reading without an answer.
LEMMA ReadKeepsFrames ==
    ASSUME TypeOK, FramesAreJustified, Grows, UNCHANGED socketButWire,
           NEW d \in Devices, NEW k \in Conns, NEW s \in Sides, CanRead(d, k, s),
           wire' = Consumed(k, s)
    PROVE  FramesAreJustified'
  <1>1. ASSUME NEW c \in Conns, NEW t \in Sides, NEW i \in 1..Len(wire'[c][t])
        PROVE  /\ dialer'[c] = dialer[c] /\ listener'[c] = listener[c]
               /\ \E j \in 1..Len(wire[c][t]) : wire'[c][t][i] = wire[c][t][j]
    BY ConsumedSubset DEF socketButWire
  <1>2. QED
    BY <1>1, FramesKept

\* Socket steps only lose frames.
LEMMA SocketKeepsFrames ==
    ASSUME TypeOK, SocketInv, SocketAssumption, FramesAreJustified, Grows,
           SocketStep \/ UNCHANGED socketVars
    PROVE  FramesAreJustified'
  <1>1. WiresOnlyLose \/ UNCHANGED socketVars
    BY SocketStepLoses DEF TypeOK, SocketInv
  <1>2. ASSUME NEW k \in Conns, NEW s \in Sides, NEW i \in 1..Len(wire'[k][s])
        PROVE  /\ dialer'[k] = dialer[k] /\ listener'[k] = listener[k]
               /\ \E j \in 1..Len(wire[k][s]) : wire'[k][s][i] = wire[k][s][j]
    <2>1. wire'[k][s] # <<>>
      OBVIOUS
    <2>2. /\ wire'[k][s] = wire[k][s]
          /\ dialer'[k] = dialer[k] /\ listener'[k] = listener[k]
      BY <1>1, <2>1 DEF WiresOnlyLose, socketVars
    <2>3. QED
      BY <2>2
  <1>3. QED
    BY <1>2, FramesKept

\* A frame at the head of a wire is justified.
LEMMA HeadIsJustified ==
    ASSUME TypeOK, FramesAreJustified, NEW d \in Devices,
           NEW k \in Conns, NEW s \in Sides, CanRead(d, k, s)
    PROVE  Justified(Head1(k, s), k, s)
  <1>1. wire[k][s] \in Seq(Frames) /\ wire[k][s] # <<>>
    BY DEF TypeOK, SocketTypeOK, CanRead
  <1>2. 1 \in 1..Len(wire[k][s]) /\ Head(wire[k][s]) = wire[k][s][1]
    BY <1>1
  <1>3. QED
    BY <1>2 DEF FramesAreJustified, Head1

-----------------------------------------------------------------------------
(* What the devices record of messages.                                    *)

RecordsInv == OneSender /\ ShownWasWired /\ DeliveredWasShown /\ TimersMatchUndecided

\* The records speak of these variables only.
LEMMA RecordsUnchanged ==
    ASSUME RecordsInv, UNCHANGED <<outgoing, ackTimers, cache, shown, readBy, wired>>
    PROVE  RecordsInv' /\ Grows
  BY DEF RecordsInv, OneSender, ShownWasWired, DeliveredWasShown, TimersMatchUndecided,
         Grows

\* Either form of sendMessage: nobody knew of the id.
LEMMA TrackKeepsRecords ==
    ASSUME Assumptions, TypeOK, RecordsInv, NEW d \in Devices, NEW m \in Messages,
           NEW state, TrackAs(d, m, state),
           \/ state = "Sent" /\ wired' = wired \cup {m}
           \/ state = "Pending" /\ wired' = wired
    PROVE  RecordsInv' /\ Grows
  <1> USE DEF RecordsInv, TypeOK, MessageState, Assumptions, NoMessageAssumption,
              ChatAssumption
  <1>1. m \notin wired /\ \A e \in Devices : shown[e][m] = 0 /\ m \notin readBy[e]
    BY DEF TrackAs, OneSender, ShownWasWired
  <1>2. /\ \A e \in Devices : outgoing[e][m] = NoMessage
        /\ outgoing' = [outgoing EXCEPT ![d][m] = state]
        /\ ackTimers' = [ackTimers EXCEPT ![d] = @ \cup {m}]
        /\ UNCHANGED <<cache, shown, readBy>>
    BY DEF TrackAs
  <1>3. \A e \in Devices, i \in Messages :
           /\ outgoing'[e][i] = IF e = d /\ i = m THEN state ELSE outgoing[e][i]
           /\ i \in ackTimers'[e] <=> i \in ackTimers[e] \/ (e = d /\ i = m)
    BY <1>2
  <1>4. state # NoMessage
    OBVIOUS
  <1>5. OneSender'
    BY <1>1, <1>2, <1>3, <1>4 DEF OneSender
  <1>6. ShownWasWired'
    BY <1>1, <1>2, <1>3 DEF ShownWasWired
  <1>7. DeliveredWasShown'
    BY <1>2, <1>3 DEF DeliveredWasShown
  <1>8. TimersMatchUndecided'
    BY <1>2, <1>3 DEF TimersMatchUndecided
  <1>9. Grows
    BY <1>2, <1>3, <1>4 DEF Grows
  <1>10. QED
    BY <1>5, <1>6, <1>7, <1>8, <1>9

LEMMA UserRecords ==
    ASSUME Assumptions, TypeOK, RecordsInv, NEW d \in Devices, User(d)
    PROVE  RecordsInv' /\ Grows
  <1>1. ASSUME NEW m \in Messages, SendMessage(d, m)
        PROVE  RecordsInv' /\ Grows
    BY <1>1, TrackKeepsRecords DEF SendMessage
  <1>2. ASSUME NEW m \in Messages, SendMessageUnconnected(d, m)
        PROVE  RecordsInv' /\ Grows
    BY <1>2, TrackKeepsRecords DEF SendMessageUnconnected
  <1>3. ASSUME NEW m \in Messages, SendReadReceipt(d, m)
        PROVE  RecordsInv' /\ Grows
    BY <1>3 DEF SendReadReceipt, TypeOK, RecordsInv, OneSender, ShownWasWired,
                DeliveredWasShown, TimersMatchUndecided, Grows
  <1>4. CASE StartTyping(d) \/ StopTyping(d)
    BY <1>4, RecordsUnchanged DEF StartTyping, StopTyping, history
  <1>5. QED
    BY <1>1, <1>2, <1>3, <1>4 DEF User

LEMMA TimersRecords ==
    ASSUME Assumptions, TypeOK, RecordsInv, NEW d \in Devices, Timers(d)
    PROVE  RecordsInv' /\ Grows
  <1> USE DEF TypeOK, MessageState, Assumptions, NoMessageAssumption
  <1>1. ASSUME NEW m \in Messages, AckTimeout(d, m)
        PROVE  RecordsInv' /\ Grows
    <2>1. /\ outgoing[d][m] \in {"Sent", "Pending"}
          /\ UNCHANGED <<cache, shown, readBy, wired>>
      BY <1>1 DEF AckTimeout, history, RecordsInv, TimersMatchUndecided
    <2>2. \A e \in Devices, i \in Messages :
             /\ outgoing'[e][i] = IF e = d /\ i = m THEN "Failed" ELSE outgoing[e][i]
             /\ i \in ackTimers'[e] <=> i \in ackTimers[e] /\ ~(e = d /\ i = m)
      BY <1>1, <2>1 DEF AckTimeout
    <2>3. \A e \in Devices, i \in Messages :
             /\ outgoing'[e][i] # NoMessage <=> outgoing[e][i] # NoMessage
             /\ outgoing'[e][i] = "Pending" => outgoing[e][i] = "Pending"
      BY <2>1, <2>2
    <2>4. DeliveredWasShown'
      BY <2>1, <2>2 DEF RecordsInv, DeliveredWasShown
    <2>5. TimersMatchUndecided'
      BY <2>1, <2>2 DEF RecordsInv, TimersMatchUndecided
    <2>6. Grows
      BY <2>1, <2>2 DEF Grows
    <2> HIDE DEF TypeOK, MessageState, Assumptions, NoMessageAssumption
    <2>7. OneSender'
      BY <2>1, <2>3 DEF RecordsInv, OneSender
    <2>8. ShownWasWired'
      BY <2>1, <2>3 DEF RecordsInv, ShownWasWired
    <2>9. QED
      BY <2>4, <2>5, <2>6, <2>7, <2>8 DEF RecordsInv
  <1>2. ASSUME NEW e \in Devices, PeerTypingTimeout(d, e)
        PROVE  RecordsInv' /\ Grows
    BY <1>2, RecordsUnchanged DEF PeerTypingTimeout, history
  <1>3. CASE CacheWindowPasses(d)
    <2>1. UNCHANGED <<outgoing, ackTimers, shown, readBy, wired>>
      BY <1>3 DEF CacheWindowPasses, history
    <2>2. \A e \in Devices, i \in Messages : cache'[e][i] # "no" => cache[e][i] # "no"
      BY <1>3 DEF CacheWindowPasses
    <2>3. QED
      BY <2>1, <2>2 DEF RecordsInv, OneSender, ShownWasWired, DeliveredWasShown,
                        TimersMatchUndecided, Grows
  <1>4. QED
    BY <1>1, <1>2, <1>3 DEF Timers

\* The frame handlers: what a frame tells is true, so what they record is.
LEMMA ReceiveRecords ==
    ASSUME Assumptions, TypeOK, SocketInv, FramesAreJustified, RecordsInv,
           NEW d \in Devices, NEW k \in Conns, NEW s \in Sides, Receive(d, k, s)
    PROVE  RecordsInv' /\ Grows
  <1> USE DEF TypeOK, MessageState, Assumptions, NoMessageAssumption, ChatAssumption
  <1> DEFINE f == Head1(k, s)
  <1>1. CanRead(d, k, s)
    BY DEF Receive, ReceiveNewMessage, ReceiveDuplicate, ReceiveAck, ReceiveTyping
  <1>2. Justified(f, k, s) /\ f \in Frames /\ Receiver(k, s) = d
    BY <1>1, HeadIsJustified, ReadType, WritesGoAway
  <1>3. CASE ReceiveNewMessage(d, k, s)
    <2>1. f.type = "ChatMessage" /\ f.id \in Messages /\ f.from \in Devices
      BY <1>2, <1>3, FrameFields DEF ReceiveNewMessage
    <2>2. f.id \in wired /\ outgoing[f.from][f.id] # NoMessage /\ f.from # d
      BY <1>2, <2>1 DEF Justified
    <2>3. outgoing[d][f.id] = NoMessage
      BY <2>1, <2>2 DEF RecordsInv, OneSender
    <2>4. /\ cache' = [cache EXCEPT ![d] =
                           [i \in Messages |->
                               IF i = f.id THEN "fresh"
                               ELSE IF i \in {j \in Messages : cache[d][j] = "old"}
                                    THEN "no" ELSE @[i]]]
          /\ shown' = [shown EXCEPT ![d][f.id] = IF @ < ShowBound THEN @ + 1 ELSE @]
          /\ UNCHANGED <<outgoing, ackTimers, readBy, wired>>
      BY <1>3 DEF ReceiveNewMessage
    <2>5. \A e \in Devices, i \in Messages :
             /\ cache'[e][i] # "no" => cache[e][i] # "no" \/ (e = d /\ i = f.id)
             /\ shown[e][i] > 0 => shown'[e][i] > 0
             /\ shown'[e][i] > 0 => shown[e][i] > 0 \/ (e = d /\ i = f.id)
      BY <2>1, <2>4
    <2>6. ShownWasWired'
      BY <2>2, <2>3, <2>4, <2>5 DEF RecordsInv, ShownWasWired
    <2>7. OneSender' /\ TimersMatchUndecided'
      BY <2>4 DEF RecordsInv, OneSender, TimersMatchUndecided
    <2>8. DeliveredWasShown' /\ Grows
      BY <2>4, <2>5 DEF RecordsInv, DeliveredWasShown, Grows
    <2>9. QED
      BY <2>6, <2>7, <2>8 DEF RecordsInv
  <1>4. CASE ReceiveDuplicate(d, k, s)
    <2>1. UNCHANGED <<outgoing, ackTimers, shown, readBy, wired>>
      BY <1>4 DEF ReceiveDuplicate
    <2>2. \A e \in Devices, i \in Messages : cache'[e][i] # "no" => cache[e][i] # "no"
      BY <1>4 DEF ReceiveDuplicate
    <2>3. QED
      BY <2>1, <2>2 DEF RecordsInv, OneSender, ShownWasWired, DeliveredWasShown,
                        TimersMatchUndecided, Grows
  <1>5. CASE ReceiveAck(d, k, s)
    <2>1. f.type = "MessageAck" /\ f.id \in Messages /\ f.status \in {"delivered", "read"}
      BY <1>2, <1>5, FrameFields DEF ReceiveAck
    <2>2. UNCHANGED <<cache, shown, readBy, wired>>
      BY <1>5 DEF ReceiveAck, history
    <2>3. CASE outgoing[d][f.id] = NoMessage
      BY <1>5, <2>2, <2>3, RecordsUnchanged DEF ReceiveAck
    <2>4. CASE outgoing[d][f.id] # NoMessage
      <3>1. PICK e \in Devices :
               /\ shown[e][f.id] > 0
               /\ f.status = "read" => f.id \in readBy[e]
        BY <1>2, <2>1 DEF Justified, RecordsInv, ShownWasWired
      <3>2. e # d
        BY <2>1, <2>4, <3>1 DEF RecordsInv, ShownWasWired
      <3>3. /\ outgoing' = [outgoing EXCEPT ![d][f.id] = AckedState(f.status)]
            /\ ackTimers' = [ackTimers EXCEPT ![d] = @ \ {f.id}]
        BY <1>5, <2>4 DEF ReceiveAck
      <3>4. PICK state : /\ state = AckedState(f.status)
                         /\ state \in {"Delivered", "Read"}
                         /\ state = "Read" => f.status = "read"
        BY <2>1 DEF AckedState
      <3>5. \A c \in Devices, i \in Messages :
               /\ outgoing'[c][i] = IF c = d /\ i = f.id THEN state ELSE outgoing[c][i]
               /\ i \in ackTimers'[c] <=> i \in ackTimers[c] /\ ~(c = d /\ i = f.id)
        BY <2>1, <3>3, <3>4
      <3>6. \A c \in Devices, i \in Messages :
               /\ outgoing'[c][i] # NoMessage <=> outgoing[c][i] # NoMessage
               /\ outgoing'[c][i] = "Pending" => outgoing[c][i] = "Pending"
        BY <2>4, <3>4, <3>5
      <3>7. OneSender'
        BY <2>2, <3>6 DEF RecordsInv, OneSender
      <3>8. ShownWasWired'
        BY <2>2, <3>6 DEF RecordsInv, ShownWasWired
      <3>9. DeliveredWasShown'
        <4>1. ASSUME NEW c \in Devices, NEW i \in Messages, ~(c = d /\ i = f.id)
              PROVE  outgoing'[c][i] = outgoing[c][i]
          BY <3>5, <4>1
        <4>2. outgoing'[d][f.id] = state
          BY <2>1, <3>5
        <4> HIDE DEF TypeOK, MessageState, Assumptions, NoMessageAssumption
        <4>3. QED
          BY <2>2, <3>1, <3>2, <3>4, <4>1, <4>2 DEF RecordsInv, DeliveredWasShown
      <3>10. TimersMatchUndecided'
        BY <3>4, <3>5 DEF RecordsInv, TimersMatchUndecided
      <3>11. Grows
        BY <2>2, <3>6 DEF Grows
      <3>12. QED
        BY <3>7, <3>8, <3>9, <3>10, <3>11 DEF RecordsInv
    <2>5. QED
      BY <2>3, <2>4
  <1>6. CASE ReceiveTyping(d, k, s)
    BY <1>6, RecordsUnchanged DEF ReceiveTyping, history
  <1>7. QED
    BY <1>3, <1>4, <1>5, <1>6 DEF Receive

-----------------------------------------------------------------------------
(* The invariant.                                                          *)

\* The state that Grows and WritesGoAway need is there when a user sends.
LEMMA UserFrames ==
    ASSUME Assumptions, ChatInv, NEW d \in Devices, User(d), Grows
    PROVE  FramesAreJustified'
  <1> USE DEF Assumptions, ChatInv
  <1>1. \A k \in Conns, s \in Sides : Writes(d, k, s) => Receiver(k, s) # d
    BY WritesGoAway
  <1>2. wire \in [Conns -> [Sides -> Seq(Frames)]]
    BY DEF TypeOK, SocketTypeOK
  <1>3. CASE SocketStep \/ UNCHANGED socketVars
    BY <1>3, SocketKeepsFrames
  <1>4. ASSUME NEW f \in Frames, UNCHANGED socketButWire,
               wire' = Broadcast(d, f, wire),
               \A k \in Conns, s \in Sides : Writes(d, k, s) => Justified(f, k, s)'
        PROVE  FramesAreJustified'
    BY <1>2, <1>4, SendKeepsFrames
  <1>5. ASSUME NEW m \in Messages, SendMessage(d, m)
        PROVE  FramesAreJustified'
    <2>1. PICK f \in Frames : f = ChatMessage(m, d)
      BY FrameKinds
    <2>2. f.type = "ChatMessage" /\ f.id = m /\ f.from = d
      BY <2>1 DEF ChatMessage
    <2>3. m \in wired' /\ outgoing'[d][m] # NoMessage
      BY <1>5 DEF SendMessage, TrackAs, TypeOK, NoMessageAssumption, MessageState
    <2>4. ASSUME NEW k \in Conns, NEW s \in Sides, Writes(d, k, s)
          PROVE  Justified(f, k, s)'
      BY <1>1, <1>5, <2>2, <2>3, <2>4
         DEF Justified, Receiver, SendMessage, socketButWire
    <2>5. QED
      BY <1>4, <1>5, <2>1, <2>4 DEF SendMessage
  <1>6. ASSUME NEW m \in Messages, SendMessageUnconnected(d, m)
        PROVE  FramesAreJustified'
    BY <1>3, <1>6, DialOrNotStep DEF SendMessageUnconnected
  <1>7. ASSUME NEW m \in Messages, SendReadReceipt(d, m)
        PROVE  FramesAreJustified'
    <2>1. CASE DialOrNot(d)
      BY <1>3, <2>1, DialOrNotStep
    <2>2. CASE ~DialOrNot(d)
      <3>1. PICK f \in Frames : f = MessageAck(m, "read")
        BY FrameKinds
      <3>2. f.type = "MessageAck" /\ f.id = m /\ f.status = "read"
        BY <3>1 DEF MessageAck
      <3>3. m \in readBy'[d]
        BY <1>7 DEF SendReadReceipt, TypeOK
      <3>4. ASSUME NEW k \in Conns, NEW s \in Sides
            PROVE  Justified(f, k, s)'
        BY <3>2, <3>3 DEF Justified
      <3>5. QED
        BY <1>4, <1>7, <2>2, <3>1, <3>4 DEF SendReadReceipt
    <2>3. QED
      BY <2>1, <2>2
  <1>8. ASSUME NEW b \in BOOLEAN, UNCHANGED socketButWire,
               wire' = Broadcast(d, Typing(d, b), wire)
        PROVE  FramesAreJustified'
    <2>1. PICK f \in Frames : f = Typing(d, b)
      BY FrameKinds
    <2>2. f.type = "TypingIndicator"
      BY <2>1 DEF Typing
    <2>3. ASSUME NEW k \in Conns, NEW s \in Sides
          PROVE  Justified(f, k, s)'
      BY <2>2 DEF Justified
    <2>4. QED
      BY <1>4, <1>8, <2>1, <2>3
  <1>9. CASE StartTyping(d)
    BY <1>3, <1>8, <1>9, DialOrNotStep DEF StartTyping
  <1>10. CASE StopTyping(d)
    BY <1>8, <1>10 DEF StopTyping
  <1>11. QED
    BY <1>5, <1>6, <1>7, <1>9, <1>10 DEF User

LEMMA ReceiveFrames ==
    ASSUME Assumptions, ChatInv, NEW d \in Devices, NEW k \in Conns, NEW s \in Sides,
           Receive(d, k, s), Grows
    PROVE  FramesAreJustified'
  <1> USE DEF Assumptions, ChatInv
  <1>1. CanRead(d, k, s)
    BY DEF Receive, ReceiveNewMessage, ReceiveDuplicate, ReceiveAck, ReceiveTyping
  <1>2. CASE ReceiveAck(d, k, s) \/ ReceiveTyping(d, k, s)
    BY <1>1, <1>2, ReadKeepsFrames DEF ReceiveAck, ReceiveTyping
  <1>3. CASE ReceiveNewMessage(d, k, s) \/ ReceiveDuplicate(d, k, s)
    <2>1. PICK m : m = Head1(k, s).id
      OBVIOUS
    <2>2. Head1(k, s) \in Frames /\ Head1(k, s).type = "ChatMessage"
      BY <1>1, <1>3, ReadType DEF ReceiveNewMessage, ReceiveDuplicate
    <2>3. m \in Messages
      BY <2>1, <2>2, FrameFields
    <2>4. PICK f \in Frames : f = MessageAck(m, "delivered")
      BY <2>3, FrameKinds
    <2>5. f.type = "MessageAck" /\ f.id = m /\ f.status = "delivered"
      BY <2>4 DEF MessageAck
    <2>6. shown'[d][m] > 0
      <3>1. CASE ReceiveNewMessage(d, k, s)
        BY <2>1, <2>3, <3>1 DEF ReceiveNewMessage, TypeOK, ChatAssumption
      <3>2. CASE ReceiveDuplicate(d, k, s)
        BY <2>1, <2>3, <3>2 DEF ReceiveDuplicate, ShownWasWired, TypeOK
      <3>3. QED
        BY <1>3, <3>1, <3>2
    <2>7. ASSUME NEW c \in Conns, NEW t \in Sides
          PROVE  Justified(f, c, t)'
      BY <2>5, <2>6 DEF Justified
    <2>8. PICK w \in [Conns -> [Sides -> Seq(Frames)]] : w = Consumed(k, s)
      BY <1>1, ReadType
    <2>9. wire' = Broadcast(d, f, w) /\ UNCHANGED socketButWire
      BY <1>3, <2>1, <2>4, <2>8 DEF ReceiveNewMessage, ReceiveDuplicate
    <2>10. \A c \in Conns, t \in Sides : \A i \in 1..Len(w[c][t]) :
              \E j \in 1..Len(wire[c][t]) : w[c][t][i] = wire[c][t][j]
      BY <1>1, <2>8, ConsumedSubset
    <2>11. QED
      BY <2>7, <2>9, <2>10, SendKeepsFrames
  <1>4. QED
    BY <1>2, <1>3 DEF Receive

\* ChatInv holds initially and every step keeps it.
LEMMA ChatInvInitial ==
    ASSUME Assumptions, Init
    PROVE  ChatInv
  <1>1. TypeOK /\ SocketInv
    BY TypeInitial
  <1>2. FramesAreJustified
    BY DEF Init, SocketInit, FramesAreJustified
  <1>3. OneSender /\ ShownWasWired /\ DeliveredWasShown /\ TimersMatchUndecided
    BY DEF Init, OneSender, ShownWasWired, DeliveredWasShown, TimersMatchUndecided,
           Assumptions, NoMessageAssumption, MessageState
  <1>4. QED
    BY <1>1, <1>2, <1>3 DEF ChatInv

LEMMA ChatInvStep ==
    ASSUME Assumptions, ChatInv, [Next]_vars
    PROVE  ChatInv'
  <1>1. TypeOK' /\ SocketInv'
    BY TypeStep DEF ChatInv
  <1>2. RecordsInv
    BY DEF ChatInv, RecordsInv
  <1>3. CASE \E d \in Devices : User(d)
    BY <1>1, <1>2, <1>3, UserRecords, UserFrames DEF ChatInv, RecordsInv
  <1>4. CASE \E d \in Devices : Timers(d)
    <2>1. RecordsInv' /\ Grows
      BY <1>2, <1>4, TimersRecords DEF ChatInv
    <2>2. UNCHANGED socketVars
      BY <1>4 DEF Timers, AckTimeout, PeerTypingTimeout, CacheWindowPasses
    <2>3. FramesAreJustified'
      BY <2>1, <2>2, SocketKeepsFrames DEF ChatInv, Assumptions
    <2>4. QED
      BY <1>1, <2>1, <2>3 DEF ChatInv, RecordsInv
  <1>5. CASE SocketReaction \/ UNCHANGED vars
    <2>1. RecordsInv' /\ Grows
      BY <1>2, <1>5, RecordsUnchanged
         DEF SocketReaction, chatButTyping, vars, chatVars, history
    <2>2. SocketStep \/ UNCHANGED socketVars
      BY <1>5 DEF SocketReaction, vars
    <2>3. FramesAreJustified'
      BY <2>1, <2>2, SocketKeepsFrames DEF ChatInv, Assumptions
    <2>4. QED
      BY <1>1, <2>1, <2>3 DEF ChatInv, RecordsInv
  <1>6. CASE \E d \in Devices, k \in Conns, s \in Sides : Receive(d, k, s)
    BY <1>1, <1>2, <1>6, ReceiveRecords, ReceiveFrames DEF ChatInv, RecordsInv
  <1>7. QED
    BY <1>3, <1>4, <1>5, <1>6, SocketIsReaction
       DEF Next, ChatInv, SocketInv, Assumptions

\* The invariant that carries the properties below: frames in flight tell the
\* truth, and so do the records made from them.
THEOREM ChatInvHolds == Spec => []ChatInv
  <1>1. Init => ChatInv
    BY ChatInvInitial, AssumptionsHold
  <1>2. ChatInv /\ [Next]_vars => ChatInv'
    BY ChatInvStep, AssumptionsHold
  <1>3. QED
    BY <1>1, <1>2, PTL DEF Spec

\* A message reported delivered was shown by another device, one reported
\* read was read there.  (handleInboundMessageAck, chat_controller.cpp:309-339)
THEOREM DeliveredOnlyIfShown == Spec => []DeliveredWasShown
  <1>1. ChatInv => DeliveredWasShown
    BY DEF ChatInv
  <1>2. QED
    BY <1>1, ChatInvHolds, PTL

\* An acknowledgement timer runs exactly while its message is undecided.
\* (chat_controller.cpp:99-119, 318-326)
THEOREM TimerIffUndecided == Spec => []TimersMatchUndecided
  <1>1. ChatInv => TimersMatchUndecided
    BY DEF ChatInv
  <1>2. QED
    BY <1>1, ChatInvHolds, PTL

\* A message left Pending is nowhere but at its sender.
\* (sendMessage, chat_controller.cpp:126-131)
THEOREM PendingStaysHome == Spec => []PendingIsStranded
  <1>1. ChatInv => PendingIsStranded
    <2> SUFFICES ASSUME ChatInv, NEW d \in Devices, NEW e \in Devices,
                        NEW m \in Messages, outgoing[d][m] = "Pending"
                 PROVE  ~InFlight(ChatMessage(m, d)) /\ shown[e][m] = 0 /\ cache[e][m] = "no"
      BY DEF PendingIsStranded
    <2>1. m \notin wired
      BY DEF ChatInv, OneSender
    <2>2. shown[e][m] = 0 /\ cache[e][m] = "no"
      BY <2>1 DEF ChatInv, ShownWasWired, TypeOK
    <2>3. ~InFlight(ChatMessage(m, d))
      <3> SUFFICES ASSUME NEW k \in Conns, NEW s \in Sides,
                          NEW i \in 1..Len(wire[k][s]),
                          wire[k][s][i] = ChatMessage(m, d)
                   PROVE  FALSE
        BY DEF InFlight, Carries
      <3>1. Justified(wire[k][s][i], k, s)
        BY DEF ChatInv, FramesAreJustified
      <3>2. wire[k][s][i].type = "ChatMessage" /\ wire[k][s][i].id = m
        BY DEF ChatMessage
      <3>3. QED
        BY <2>1, <3>1, <3>2 DEF Justified
    <2>4. QED
      BY <2>2, <2>3
  <1>2. QED
    BY <1>1, ChatInvHolds, PTL

-----------------------------------------------------------------------------
(* ChatController implements MessageDelivery.                              *)

\* The view of the sender: the state of the one device that tracks a message.
StatusOf(o) ==
    [m \in Messages |-> IF \E d \in Devices : o[d][m] # NoMessage
                        THEN o[CHOOSE d \in Devices : o[d][m] # NoMessage][m]
                        ELSE "New"]

SeenOf(sh) == {m \in Messages : \E d \in Devices : sh[d][m] > 0}
ReadOf(r)  == UNION {r[d] : d \in Devices}

OneTracks(o) ==
    \A m \in Messages, d, e \in Devices :
        o[d][m] # NoMessage /\ o[e][m] # NoMessage => d = e

LEMMA StatusFacts ==
    ASSUME NEW o, OneTracks(o), NEW m \in Messages
    PROVE  /\ \A d \in Devices : o[d][m] # NoMessage => StatusOf(o)[m] = o[d][m]
           /\ (\A d \in Devices : o[d][m] = NoMessage) => StatusOf(o)[m] = "New"
  <1>1. ASSUME NEW d \in Devices, o[d][m] # NoMessage
        PROVE  StatusOf(o)[m] = o[d][m]
    <2> DEFINE c == CHOOSE e \in Devices : o[e][m] # NoMessage
    <2>1. c \in Devices /\ o[c][m] # NoMessage
      BY <1>1
    <2>2. c = d
      BY <1>1, <2>1 DEF OneTracks
    <2>3. StatusOf(o)[m] = o[c][m]
      BY <1>1 DEF StatusOf
    <2>4. QED
      BY <2>2, <2>3
  <1>2. QED
    BY <1>1 DEF StatusOf

\* The state of one message changes at the device that tracks it, and so does
\* the view of this message only.
LEMMA StatusChanges ==
    ASSUME NEW o, OneTracks(o), NEW p, OneTracks(p),
           NEW d \in Devices, NEW m \in Messages, p[d][m] # NoMessage,
           \A e \in Devices, i \in Messages : i # m => p[e][i] = o[e][i]
    PROVE  StatusOf(p) = [StatusOf(o) EXCEPT ![m] = p[d][m]]
  <1>1. StatusOf(p)[m] = p[d][m]
    BY StatusFacts
  <1>2. ASSUME NEW i \in Messages, i # m
        PROVE  StatusOf(p)[i] = StatusOf(o)[i]
    <2>1. CASE \E e \in Devices : o[e][i] # NoMessage
      <3>1. PICK e \in Devices : o[e][i] # NoMessage
        BY <2>1
      <3>2. p[e][i] = o[e][i]
        BY <1>2
      <3>3. QED
        BY <3>1, <3>2, StatusFacts
    <2>2. CASE \A e \in Devices : o[e][i] = NoMessage
      BY <1>2, <2>2, StatusFacts
    <2>3. QED
      BY <2>1, <2>2
  <1>3. StatusOf(p) = [i \in Messages |-> IF i = m THEN p[d][m] ELSE StatusOf(o)[i]]
    BY <1>1, <1>2 DEF StatusOf
  <1>4. QED
    BY <1>3 DEF StatusOf

\* What MessageDelivery calls its variables.
LEMMA DeliveryInit ==
    StatusOf(outgoing) = [m \in Messages |-> "New"] /\ wired = {}
    /\ SeenOf(shown) = {} /\ ReadOf(readBy) = {} => Delivery!Init
  BY DEF Delivery!Init, StatusOf, SeenOf, ReadOf

LEMMA InitImplements ==
    ASSUME Assumptions, Init
    PROVE  Delivery!Init
  <1>1. \A d \in Devices, m \in Messages :
           outgoing[d][m] = NoMessage /\ shown[d][m] = 0 /\ readBy[d] = {}
    BY DEF Init
  <1>2. StatusOf(outgoing) = [m \in Messages |-> "New"]
    BY <1>1 DEF StatusOf
  <1>3. SeenOf(shown) = {} /\ ReadOf(readBy) = {} /\ wired = {}
    BY <1>1 DEF SeenOf, ReadOf, Init
  <1>4. QED
    BY <1>2, <1>3, DeliveryInit

\* The steps of MessageDelivery in terms of the controller's variables.
LEMMA DeliveryStutters ==
    ASSUME UNCHANGED <<outgoing, shown, readBy, wired>>
    PROVE  UNCHANGED Delivery!delivery
  BY DEF Delivery!delivery

LEMMA DeliveryMoves ==
    ASSUME NEW m \in Messages,
           LET st == StatusOf(outgoing)
               sn == SeenOf(shown)
               rd == ReadOf(readBy)
           IN  \/ /\ st[m] = "New"
                  /\ \/ /\ StatusOf(outgoing') = [st EXCEPT ![m] = "Sent"]
                        /\ wired' = wired \cup {m}
                     \/ /\ StatusOf(outgoing') = [st EXCEPT ![m] = "Pending"]
                        /\ wired' = wired
                  /\ SeenOf(shown') = sn /\ ReadOf(readBy') = rd
               \/ /\ m \in wired /\ SeenOf(shown') = sn \cup {m}
                  /\ StatusOf(outgoing') = st /\ wired' = wired /\ ReadOf(readBy') = rd
               \/ /\ m \in sn /\ ReadOf(readBy') = rd \cup {m}
                  /\ StatusOf(outgoing') = st /\ wired' = wired /\ SeenOf(shown') = sn
               \/ /\ st[m] \in {"Sent", "Pending"}
                  /\ StatusOf(outgoing') = [st EXCEPT ![m] = "Failed"]
                  /\ wired' = wired /\ SeenOf(shown') = sn /\ ReadOf(readBy') = rd
               \/ /\ st[m] # "New" /\ st[m] # "Pending"
                  /\ \/ m \in sn /\ StatusOf(outgoing') = [st EXCEPT ![m] = "Delivered"]
                     \/ m \in rd /\ StatusOf(outgoing') = [st EXCEPT ![m] = "Read"]
                  /\ wired' = wired /\ SeenOf(shown') = sn /\ ReadOf(readBy') = rd
    PROVE  Delivery!Next
  BY DEF Delivery!Next, Delivery!Submit, Delivery!Show, Delivery!MarkRead,
         Delivery!GiveUp, Delivery!Confirm, StatusOf, SeenOf, ReadOf

\* A step about one message, from what the devices record of it.
LEMMA TrackImplements ==
    ASSUME Assumptions, ChatInv, ChatInv', NEW d \in Devices, NEW m \in Messages,
           NEW st \in {"Sent", "Pending"}, TrackAs(d, m, st),
           wired' = IF st = "Sent" THEN wired \cup {m} ELSE wired
    PROVE  Delivery!Next
  <1>1. OneTracks(outgoing) /\ OneTracks(outgoing')
    BY DEF ChatInv, OneSender, OneTracks
  <1>2. /\ \A e \in Devices : outgoing[e][m] = NoMessage
        /\ outgoing'[d][m] = st
        /\ \A e \in Devices, i \in Messages : i # m => outgoing'[e][i] = outgoing[e][i]
        /\ UNCHANGED <<shown, readBy>>
    BY DEF TrackAs, ChatInv, TypeOK
  <1>3. st # NoMessage
    BY DEF Assumptions, NoMessageAssumption, MessageState
  <1>4. StatusOf(outgoing)[m] = "New"
    BY <1>1, <1>2, StatusFacts
  <1>5. StatusOf(outgoing') = [StatusOf(outgoing) EXCEPT ![m] = st]
    BY <1>1, <1>2, <1>3, StatusChanges
  <1>6. SeenOf(shown') = SeenOf(shown) /\ ReadOf(readBy') = ReadOf(readBy)
    BY <1>2 DEF SeenOf, ReadOf
  <1>7. QED
    BY <1>4, <1>5, <1>6, DeliveryMoves

LEMMA UserImplements ==
    ASSUME Assumptions, ChatInv, ChatInv', NEW d \in Devices, User(d)
    PROVE  Delivery!Next \/ UNCHANGED Delivery!delivery
  <1>1. ASSUME NEW m \in Messages, SendMessage(d, m) \/ SendMessageUnconnected(d, m)
        PROVE  Delivery!Next
    BY <1>1, TrackImplements DEF SendMessage, SendMessageUnconnected
  <1>2. ASSUME NEW m \in Messages, SendReadReceipt(d, m)
        PROVE  Delivery!Next
    <2>1. /\ shown[d][m] > 0 /\ UNCHANGED <<outgoing, shown, wired>>
          /\ readBy' = [readBy EXCEPT ![d] = @ \cup {m}]
      BY <1>2 DEF SendReadReceipt
    <2>2. m \in SeenOf(shown)
      BY <2>1 DEF SeenOf
    <2>3. ReadOf(readBy') = ReadOf(readBy) \cup {m}
      <3>1. readBy \in [Devices -> SUBSET Messages]
        BY DEF ChatInv, TypeOK
      <3>2. \A e \in Devices : readBy'[e] = IF e = d THEN readBy[e] \cup {m} ELSE readBy[e]
        BY <2>1, <3>1
      <3>3. QED
        BY <3>2 DEF ReadOf
    <2>4. StatusOf(outgoing') = StatusOf(outgoing) /\ SeenOf(shown') = SeenOf(shown)
      BY <2>1
    <2>5. QED
      BY <2>1, <2>2, <2>3, <2>4, DeliveryMoves
  <1>3. CASE StartTyping(d) \/ StopTyping(d)
    BY <1>3, DeliveryStutters DEF StartTyping, StopTyping, history
  <1>4. QED
    BY <1>1, <1>2, <1>3 DEF User

LEMMA TimersImplement ==
    ASSUME Assumptions, ChatInv, ChatInv', NEW d \in Devices, Timers(d)
    PROVE  Delivery!Next \/ UNCHANGED Delivery!delivery
  <1>1. ASSUME NEW m \in Messages, AckTimeout(d, m)
        PROVE  Delivery!Next
    <2>1. OneTracks(outgoing) /\ OneTracks(outgoing')
      BY DEF ChatInv, OneSender, OneTracks
    <2>2. outgoing[d][m] \in {"Sent", "Pending"} /\ UNCHANGED <<shown, readBy, wired>>
      BY <1>1 DEF AckTimeout, history, ChatInv, TimersMatchUndecided
    <2>3. outgoing' = [outgoing EXCEPT ![d][m] = "Failed"]
      BY <1>1, <2>2 DEF AckTimeout
    <2>4. /\ outgoing'[d][m] = "Failed"
          /\ \A e \in Devices, i \in Messages : i # m => outgoing'[e][i] = outgoing[e][i]
      BY <2>3 DEF ChatInv, TypeOK
    <2>5. outgoing[d][m] # NoMessage /\ "Failed" # NoMessage
      BY <2>2 DEF Assumptions, NoMessageAssumption, MessageState
    <2>6. StatusOf(outgoing)[m] \in {"Sent", "Pending"}
      BY <2>1, <2>2, <2>5, StatusFacts
    <2>7. StatusOf(outgoing') = [StatusOf(outgoing) EXCEPT ![m] = "Failed"]
      BY <2>1, <2>4, <2>5, StatusChanges
    <2>8. SeenOf(shown') = SeenOf(shown) /\ ReadOf(readBy') = ReadOf(readBy)
      BY <2>2 DEF SeenOf, ReadOf
    <2>9. QED
      BY <2>2, <2>6, <2>7, <2>8, DeliveryMoves
  <1>2. CASE (\E e \in Devices : PeerTypingTimeout(d, e)) \/ CacheWindowPasses(d)
    BY <1>2, DeliveryStutters DEF PeerTypingTimeout, CacheWindowPasses, history
  <1>3. QED
    BY <1>1, <1>2 DEF Timers

LEMMA ReceiveImplements ==
    ASSUME Assumptions, ChatInv, ChatInv', NEW d \in Devices, NEW k \in Conns,
           NEW s \in Sides, Receive(d, k, s)
    PROVE  Delivery!Next \/ UNCHANGED Delivery!delivery
  <1> DEFINE f == Head1(k, s)
  <1>1. CanRead(d, k, s)
    BY DEF Receive, ReceiveNewMessage, ReceiveDuplicate, ReceiveAck, ReceiveTyping
  <1>2. Justified(f, k, s) /\ f \in Frames
    BY <1>1, HeadIsJustified, ReadType DEF ChatInv
  <1>3. CASE ReceiveNewMessage(d, k, s)
    <2>1. f.type = "ChatMessage" /\ f.id \in Messages
      BY <1>2, <1>3, FrameFields DEF ReceiveNewMessage
    <2>2. PICK m \in Messages : m = f.id
      BY <2>1
    <2>3. m \in wired
      BY <1>2, <2>1, <2>2 DEF Justified
    <2>4. /\ UNCHANGED <<outgoing, readBy, wired>>
          /\ shown' = [shown EXCEPT ![d][m] = IF @ < ShowBound THEN @ + 1 ELSE @]
      BY <1>3, <2>2 DEF ReceiveNewMessage
    <2>5. \A e \in Devices, i \in Messages :
             shown'[e][i] > 0 <=> shown[e][i] > 0 \/ (e = d /\ i = m)
      BY <2>4 DEF ChatInv, TypeOK, Assumptions, ChatAssumption
    <2>6. SeenOf(shown') = SeenOf(shown) \cup {m}
      BY <2>5 DEF SeenOf
    <2>7. StatusOf(outgoing') = StatusOf(outgoing) /\ ReadOf(readBy') = ReadOf(readBy)
      BY <2>4
    <2>8. QED
      BY <2>3, <2>4, <2>6, <2>7, DeliveryMoves
  <1>4. CASE ReceiveDuplicate(d, k, s) \/ ReceiveTyping(d, k, s)
    BY <1>4, DeliveryStutters DEF ReceiveDuplicate, ReceiveTyping, history
  <1>5. CASE ReceiveAck(d, k, s)
    <2>1. f.type = "MessageAck" /\ f.id \in Messages /\ f.status \in {"delivered", "read"}
      BY <1>2, <1>5, FrameFields DEF ReceiveAck
    <2>2. PICK m \in Messages : m = f.id
      BY <2>1
    <2>3. UNCHANGED <<shown, readBy, wired>>
      BY <1>5 DEF ReceiveAck, history
    <2>4. CASE outgoing[d][m] = NoMessage
      BY <1>5, <2>2, <2>3, <2>4, DeliveryStutters DEF ReceiveAck
    <2>5. CASE outgoing[d][m] # NoMessage
      <3>1. PICK st \in {"Delivered", "Read"} :
               /\ st = AckedState(f.status) /\ (st = "Read" <=> f.status = "read")
        BY <2>1 DEF AckedState
      <3>2. outgoing' = [outgoing EXCEPT ![d][m] = st]
        BY <1>5, <2>2, <2>5, <3>1 DEF ReceiveAck
      <3>3. OneTracks(outgoing) /\ OneTracks(outgoing')
        BY DEF ChatInv, OneSender, OneTracks
      <3>4. /\ outgoing'[d][m] = st /\ st # NoMessage
            /\ \A e \in Devices, i \in Messages : i # m => outgoing'[e][i] = outgoing[e][i]
        BY <3>2 DEF ChatInv, TypeOK, Assumptions, NoMessageAssumption, MessageState
      <3>5. PICK e \in Devices :
               /\ shown[e][m] > 0
               /\ st = "Read" => m \in readBy[e]
        BY <1>2, <2>1, <2>2, <3>1 DEF Justified, ChatInv, ShownWasWired
      <3>6. m \in SeenOf(shown) /\ (st = "Read" => m \in ReadOf(readBy))
        BY <3>5 DEF SeenOf, ReadOf
      <3>7. outgoing[d][m] # "Pending" /\ outgoing[d][m] \in MessageState
        BY <2>5, <3>5 DEF ChatInv, ShownWasWired, OneSender, TypeOK
      <3>8. StatusOf(outgoing)[m] # "New" /\ StatusOf(outgoing)[m] # "Pending"
        BY <2>5, <3>3, <3>7, StatusFacts DEF MessageState
      <3>9. StatusOf(outgoing') = [StatusOf(outgoing) EXCEPT ![m] = st]
        BY <3>3, <3>4, StatusChanges
      <3>10. SeenOf(shown') = SeenOf(shown) /\ ReadOf(readBy') = ReadOf(readBy)
        BY <2>3 DEF SeenOf, ReadOf
      <3>11. QED
        BY <2>3, <3>6, <3>8, <3>9, <3>10, DeliveryMoves
    <2>6. QED
      BY <2>4, <2>5
  <1>6. QED
    BY <1>3, <1>4, <1>5 DEF Receive

\* The life of every message is one that MessageDelivery allows, however often
\* frames are repeated, lost, late or answered by the wrong device.
THEOREM ImplementsMessageDelivery == Spec => ImplementsDelivery
  <1>1. Init => Delivery!Init
    BY InitImplements, AssumptionsHold
  <1>2. ChatInv /\ ChatInv' /\ [Next]_vars => [Delivery!Next]_(Delivery!delivery)
    <2> SUFFICES ASSUME ChatInv, ChatInv', [Next]_vars
                 PROVE  Delivery!Next \/ UNCHANGED Delivery!delivery
      OBVIOUS
    <2>1. CASE \E d \in Devices : User(d)
      BY <2>1, UserImplements, AssumptionsHold
    <2>2. CASE \E d \in Devices : Timers(d)
      BY <2>2, TimersImplement, AssumptionsHold
    <2>3. CASE \E d \in Devices, k \in Conns, s \in Sides : Receive(d, k, s)
      BY <2>3, ReceiveImplements, AssumptionsHold
    <2>4. CASE SocketReaction \/ UNCHANGED vars
      BY <2>4, DeliveryStutters DEF SocketReaction, chatButTyping, vars, chatVars, history
    <2>5. QED
      BY <2>1, <2>2, <2>3, <2>4, SocketIsReaction, AssumptionsHold
         DEF Next, ChatInv, SocketInv, Assumptions
  <1>3. QED
    BY <1>1, <1>2, ChatInvHolds, PTL DEF Spec, ImplementsDelivery, Delivery!Spec

-----------------------------------------------------------------------------
(* What a device has shown stays in its cache until the entry expires.     *)

CacheRemembers ==
    \A d \in Devices, m \in Messages :
        /\ shown[d][m] > 0 => cache[d][m] # "no" \/ m \in forgotten[d]
        /\ shown[d][m] > 1 => m \in forgotten[d]

LEMMA CacheStep ==
    ASSUME Assumptions, TypeOK, CacheRemembers, [Next]_vars
    PROVE  CacheRemembers'
  <1> USE DEF CacheRemembers
  <1>1. CASE UNCHANGED <<cache, shown, forgotten>>
    BY <1>1
  <1>2. ASSUME NEW d \in Devices, User(d)
        PROVE  UNCHANGED <<cache, shown, forgotten>>
    BY <1>2 DEF User, SendMessage, SendMessageUnconnected, TrackAs, SendReadReceipt,
                StartTyping, StopTyping, history
  <1>3. ASSUME NEW d \in Devices, CacheWindowPasses(d)
        PROVE  CacheRemembers'
    BY <1>3 DEF CacheWindowPasses, history, TypeOK
  <1>4. ASSUME NEW d \in Devices,
               \/ \E m \in Messages : AckTimeout(d, m)
               \/ \E e \in Devices : PeerTypingTimeout(d, e)
        PROVE  UNCHANGED <<cache, shown, forgotten>>
    BY <1>4 DEF AckTimeout, PeerTypingTimeout, history
  <1>5. ASSUME NEW d \in Devices, NEW k \in Conns, NEW s \in Sides,
               ReceiveAck(d, k, s) \/ ReceiveTyping(d, k, s)
        PROVE  UNCHANGED <<cache, shown, forgotten>>
    BY <1>5 DEF ReceiveAck, ReceiveTyping, history
  <1>6. ASSUME NEW d \in Devices, NEW k \in Conns, NEW s \in Sides,
               ReceiveNewMessage(d, k, s)
        PROVE  CacheRemembers'
    <2>1. Head1(k, s) \in Frames /\ Head1(k, s).type = "ChatMessage"
      BY <1>6, ReadType DEF ReceiveNewMessage
    <2>2. PICK m \in Messages : m = Head1(k, s).id
      BY <2>1, FrameFields
    <2>3. /\ cache[d][m] # "fresh"
          /\ \A e \in Devices, i \in Messages :
                /\ cache'[e][i] = IF e # d THEN cache[e][i]
                                  ELSE IF i = m THEN "fresh"
                                  ELSE IF cache[d][i] = "old" THEN "no" ELSE cache[d][i]
                /\ i \in forgotten'[e] <=>
                      i \in forgotten[e] \/ (e = d /\ cache[d][i] = "old")
                /\ shown'[e][i] > shown[e][i] => e = d /\ i = m
                /\ shown'[e][i] \in {shown[e][i], shown[e][i] + 1}
      BY <1>6, <2>2 DEF ReceiveNewMessage, TypeOK
    <2>4. \A e \in Devices, i \in Messages : shown[e][i] \in Nat
      BY DEF TypeOK, Assumptions, ChatAssumption
    <2>5. ASSUME NEW e \in Devices, NEW i \in Messages
          PROVE  /\ shown'[e][i] > 0 => cache'[e][i] # "no" \/ i \in forgotten'[e]
                 /\ shown'[e][i] > 1 => i \in forgotten'[e]
      <3>1. CASE e = d /\ i = m
        <4>1. cache'[d][m] = "fresh"
          BY <2>3
        <4>2. shown'[d][m] > 1 => shown[d][m] > 0
          BY <2>3, <2>4
        <4>3. shown[d][m] > 0 => m \in forgotten'[d]
          BY <2>3 DEF TypeOK
        <4>4. QED
          BY <3>1, <4>1, <4>2, <4>3
      <3>2. CASE ~(e = d /\ i = m)
        <4>1. shown'[e][i] = shown[e][i]
          BY <2>3, <2>4, <3>2
        <4>2. cache'[e][i] = cache[e][i] \/ i \in forgotten'[e]
          BY <2>3, <3>2
        <4>3. i \in forgotten[e] => i \in forgotten'[e]
          BY <2>3
        <4>4. QED
          BY <4>1, <4>2, <4>3
      <3>3. QED
        BY <3>1, <3>2
    <2>6. QED
      BY <2>5
  <1>7. ASSUME NEW d \in Devices, NEW k \in Conns, NEW s \in Sides,
               ReceiveDuplicate(d, k, s)
        PROVE  CacheRemembers'
    <2>1. /\ UNCHANGED shown
          /\ \A e \in Devices, i \in Messages :
                /\ cache'[e][i] = IF e = d /\ cache[d][i] = "old" THEN "no"
                                                                 ELSE cache[e][i]
                /\ i \in forgotten'[e] <=>
                      i \in forgotten[e] \/ (e = d /\ cache[d][i] = "old")
      BY <1>7 DEF ReceiveDuplicate, TypeOK
    <2>2. QED
      BY <2>1
  <1>8. ASSUME Socket \/ UNCHANGED vars
        PROVE  UNCHANGED <<cache, shown, forgotten>>
    BY <1>8 DEF Socket, UserConnects, UserDisconnects, Connected, DialFailed, Accepted,
                Refused, ConnectedThenClosed, Disconnected, PeerDisconnected,
                chatButTyping, vars, chatVars, history
  <1>9. QED
    BY <1>1, <1>2, <1>3, <1>4, <1>5, <1>6, <1>7, <1>8 DEF Next, Timers, Receive

\* A message is shown again only after its cache entry had expired, however
\* many connections bring it.  (m_receivedMessageCache)
THEOREM ShownOnce == Spec => []ShownOncePerWindow
  <1>1. Init => CacheRemembers
    BY DEF Init, CacheRemembers
  <1>2. ChatInv /\ CacheRemembers /\ [Next]_vars => CacheRemembers'
    BY CacheStep, AssumptionsHold DEF ChatInv
  <1>3. CacheRemembers => ShownOncePerWindow
    BY DEF CacheRemembers, ShownOncePerWindow
  <1>4. QED
    BY <1>1, <1>2, <1>3, ChatInvHolds, PTL DEF Spec

-----------------------------------------------------------------------------
(* Indicators and connections.                                             *)

\* Something is left of the connections of d that a signal will report lost.
HasConnection(d) == ServerClients(d) # {} \/ qt[d] \in {"Connected", "Closing"}

\* A step keeps the property at device d if it clears the indicators, or the
\* connection stays.
TypingSafe(d) ==
    \/ peerTyping'[d] = {}
    \/ peerTyping'[d] \subseteq peerTyping[d] /\ (HasConnection(d) => HasConnection(d)')
    \/ HasConnection(d)'

LEMMA WireOnlyTypingSafe ==
    ASSUME UNCHANGED socketButWire, NEW d \in Devices,
           peerTyping'[d] \subseteq peerTyping[d]
    PROVE  TypingSafe(d)
  BY DEF TypingSafe, HasConnection, ServerClients, socketButWire

LEMMA ConnectTypingSafe ==
    ASSUME TypeOK, NEW d \in Devices, NEW e \in Devices, ConnectAndNotify(d, e),
           NEW c \in Devices
    PROVE  TypingSafe(c)
  <1> USE DEF TypeOK, SocketTypeOK
  <1>1. ASSUME NEW k \in Conns, Dial(d, e, k)
        PROVE  ServerClients(c) \subseteq ServerClients(c)'
    BY <1>1 DEF Dial, Reusable, ServerClients
  <1>2. ASSUME NEW k \in Conns, Dial(d, e, k),
               IF DialDisconnects(d) THEN ClearPeerTyping(d) ELSE UNCHANGED peerTyping
        PROVE  TypingSafe(c)
    <2>1. CASE c # d
      BY <1>1, <1>2, <2>1 DEF Dial, ClearPeerTyping, TypingSafe, HasConnection
    <2>2. CASE c = d
      BY <1>1, <1>2, <2>2 DEF Dial, DialDisconnects, ClearPeerTyping, TypingSafe,
                              HasConnection
    <2>3. QED
      BY <2>1, <2>2
  <1>3. CASE (RedialWhileConnecting(d) \/ RedialWhileClosing(d)) /\ UNCHANGED peerTyping
    BY <1>3 DEF RedialWhileConnecting, RedialWhileClosing, TypingSafe, HasConnection,
                ServerClients
  <1>4. QED
    BY <1>2, <1>3 DEF ConnectAndNotify

LEMMA DialOrNotTypingSafe ==
    ASSUME TypeOK, NEW d \in Devices, DialOrNot(d), NEW c \in Devices
    PROVE  TypingSafe(c)
  BY ConnectTypingSafe, WireOnlyTypingSafe DEF DialOrNot, socketVars, socketButWire

LEMMA SocketTypingSafe ==
    ASSUME TypeOK, SocketInv, SocketAssumption, Socket, NEW c \in Devices
    PROVE  TypingSafe(c)
  <1> USE DEF TypeOK, SocketTypeOK
  <1>1. ASSUME NEW d \in Devices, NEW e \in Devices, UserConnects(d, e)
        PROVE  TypingSafe(c)
    BY <1>1, ConnectTypingSafe DEF UserConnects
  <1>2. ASSUME NEW d \in Devices, SocketDisconnected(d) \/ SocketConnectedThenClosed(d),
               ClearPeerTyping(d)
        PROVE  TypingSafe(c)
    BY <1>2 DEF SocketDisconnected, SocketConnectedThenClosed, ClearPeerTyping,
                TypingSafe, HasConnection, ServerClients
  <1>3. ASSUME NEW d \in Devices, UserDisconnects(d)
        PROVE  TypingSafe(c)
    <2>1. CASE DisconnectLater(d) /\ UNCHANGED peerTyping
      BY <2>1 DEF DisconnectLater, TypingSafe, HasConnection, ServerClients
    <2>2. CASE DisconnectNow(d) /\ ClearPeerTyping(d)
      BY <1>2, <2>2 DEF DisconnectNow
    <2>3. QED
      BY <1>3, <2>1, <2>2 DEF UserDisconnects
  <1>4. ASSUME NEW d \in Devices, ConnectedThenClosed(d) \/ Disconnected(d)
        PROVE  TypingSafe(c)
    BY <1>2, <1>4 DEF ConnectedThenClosed, Disconnected
  <1>5. ASSUME NEW d \in Devices, Connected(d) \/ DialFailed(d)
        PROVE  TypingSafe(c)
    BY <1>5 DEF Connected, DialFailed, SocketConnected, SocketError, chatVars,
                TypingSafe, HasConnection, ServerClients
  <1>6. ASSUME NEW k \in Conns, Accepted(k) \/ Refused(k)
        PROVE  TypingSafe(c)
    BY <1>6 DEF Accepted, Refused, ServerNewConnection, ServerRejectConnection, chatVars,
                TypingSafe, HasConnection, ServerClients
  <1>7. ASSUME NEW k \in Conns, PeerDisconnected(k)
        PROVE  TypingSafe(c)
    BY <1>7 DEF PeerDisconnected, ServerClientDisconnected, ClearPeerTyping,
                TypingSafe, HasConnection, ServerClients
  <1>8. QED
    BY <1>1, <1>3, <1>4, <1>5, <1>6, <1>7 DEF Socket

LEMMA TypingStep ==
    ASSUME Assumptions, TypeOK, SocketInv, TypingNeedsConnection, [Next]_vars
    PROVE  TypingNeedsConnection'
  <1> SUFFICES ASSUME NEW c \in Devices
               PROVE  TypingSafe(c)
    BY DEF TypingSafe, TypingNeedsConnection, HasConnection
  <1> USE DEF TypeOK
  <1>1. ASSUME NEW d \in Devices, User(d)
        PROVE  TypingSafe(c)
    BY <1>1, WireOnlyTypingSafe, DialOrNotTypingSafe
       DEF User, SendMessage, SendMessageUnconnected, SendReadReceipt, StartTyping,
           StopTyping
  <1>2. ASSUME NEW d \in Devices, Timers(d)
        PROVE  TypingSafe(c)
    BY <1>2, WireOnlyTypingSafe
       DEF Timers, AckTimeout, PeerTypingTimeout, CacheWindowPasses, socketVars,
           socketButWire
  <1>3. ASSUME NEW d \in Devices, NEW k \in Conns, NEW s \in Sides, ReceiveTyping(d, k, s)
        PROVE  TypingSafe(c)
    <2>1. CASE c = d
      BY <1>3, <2>1 DEF ReceiveTyping, CanRead, TypingSafe, HasConnection, ServerClients,
                        socketButWire
    <2>2. CASE c # d
      BY <1>3, <2>2, WireOnlyTypingSafe DEF ReceiveTyping
    <2>3. QED
      BY <2>1, <2>2
  <1>4. ASSUME NEW d \in Devices, NEW k \in Conns, NEW s \in Sides,
               ReceiveNewMessage(d, k, s) \/ ReceiveDuplicate(d, k, s) \/ ReceiveAck(d, k, s)
        PROVE  TypingSafe(c)
    <2>1. /\ UNCHANGED socketButWire
          /\ \/ UNCHANGED peerTyping
             \/ \E e : peerTyping' = [peerTyping EXCEPT ![d] = @ \ {e}]
      BY <1>4 DEF ReceiveNewMessage, ReceiveDuplicate, ReceiveAck
    <2>2. peerTyping'[c] \subseteq peerTyping[c]
      BY <2>1
    <2>3. QED
      BY <2>1, <2>2, WireOnlyTypingSafe
  <1>5. CASE UNCHANGED vars
    BY <1>5, WireOnlyTypingSafe DEF vars, socketVars, chatVars, socketButWire
  <1>6. QED
    BY <1>1, <1>2, <1>3, <1>4, <1>5, SocketTypingSafe DEF Next, Receive, Assumptions

\* Whichever connection is lost last, the indicators go with it.
\* (the three disconnect signals, chat_controller.cpp:20-24, 382-398)
THEOREM NoTypingWithoutConnection == Spec => []TypingNeedsConnection
  <1>1. Init => TypingNeedsConnection
    BY DEF Init, TypingNeedsConnection
  <1>2. ChatInv /\ TypingNeedsConnection /\ [Next]_vars => TypingNeedsConnection'
    BY TypingStep, AssumptionsHold DEF ChatInv
  <1>3. QED
    BY <1>1, <1>2, ChatInvHolds, PTL DEF Spec

-----------------------------------------------------------------------------
(* Read is final.  With two connections between the same devices a message  *)
(* is acknowledged on both, and the slower answer takes back the faster; so *)
(* what follows is about one connection at a time.                          *)

OneConnection == \A k, l \in Conns : k = l

IsChat(f, m) == f.type = "ChatMessage" /\ f.id = m
IsAck(f, m, status) == f.type = "MessageAck" /\ f.id = m /\ f.status = status

\* Who writes on side s of connection k.
Source(k, s) == IF s = "up" THEN dialer[k] ELSE listener[k]

\* A message is on one wire, once, and nobody has shown it before it is read;
\* so one device shows it, and the answers in flight are that device's.
SentOnce ==
    \A m \in Messages, k, l \in Conns, r, s \in Sides :
        \A i \in 1..Len(wire[k][r]), j \in 1..Len(wire[l][s]) :
            IsChat(wire[k][r][i], m) /\ IsChat(wire[l][s][j], m) => k = l /\ r = s /\ i = j

NotYetShown ==
    \A m \in Messages, k \in Conns, s \in Sides : \A i \in 1..Len(wire[k][s]) :
        IsChat(wire[k][s][i], m) => \A e \in Devices : shown[e][m] = 0

OneShower ==
    \A m \in Messages, d, e \in Devices : shown[d][m] > 0 /\ shown[e][m] > 0 => d = e

AcksAreTheShowers ==
    \A m \in Messages, k \in Conns, s \in Sides : \A i \in 1..Len(wire[k][s]) :
        wire[k][s][i].type = "MessageAck" /\ wire[k][s][i].id = m
            => shown[Source(k, s)][m] > 0

\* "delivered" precedes "read", on the wire and at the sender.
ReadComesLast ==
    \A m \in Messages, k \in Conns, s \in Sides : \A i, j \in 1..Len(wire[k][s]) :
        IsAck(wire[k][s][i], m, "read") /\ IsAck(wire[k][s][j], m, "delivered") => j < i

ReadEndsIt ==
    \A d \in Devices, m \in Messages : outgoing[d][m] = "Read" =>
        \A k \in Conns, s \in Sides : \A i \in 1..Len(wire[k][s]) :
            ~IsAck(wire[k][s][i], m, "delivered")

OrderInv ==
    /\ SentOnce /\ NotYetShown /\ OneShower
    /\ AcksAreTheShowers /\ ReadComesLast /\ ReadEndsIt

\* The wires w carry what is left of those in flight when the first are read.
IsRest(w) ==
    \A k \in Conns, s \in Sides : \E n \in Nat : \A i \in 1..Len(w[k][s]) :
        i + n \in 1..Len(wire[k][s]) /\ w[k][s][i] = wire[k][s][i + n]

\* A step of the wires: what is left of them, and at most frame f of device d
\* behind it.
OldFrame(k, s, i, n) == i + n \in 1..Len(wire[k][s]) /\ wire'[k][s][i] = wire[k][s][i + n]
NewFrame(d, f, k, s, i) ==
    i = Len(wire'[k][s]) /\ wire'[k][s][i] = f /\ Writes(d, k, s) /\ Reachable(k, s)

Follows(d, f) ==
    \A k \in Conns, s \in Sides : \E n \in Nat : \A i \in 1..Len(wire'[k][s]) :
        /\ Source(k, s)' = Source(k, s)
        /\ OldFrame(k, s, i, n) \/ NewFrame(d, f, k, s, i)

LEMMA WiresAreRest == IsRest(wire)
  <1>1. \A i \in Nat : i + 0 = i
    OBVIOUS
  <1>2. ASSUME NEW k \in Conns, NEW s \in Sides
        PROVE  \A i \in 1..Len(wire[k][s]) :
                  i + 0 \in 1..Len(wire[k][s]) /\ wire[k][s][i] = wire[k][s][i + 0]
    BY <1>1
  <1>3. QED
    BY <1>2 DEF IsRest

LEMMA ReadLeavesRest ==
    ASSUME TypeOK, NEW d \in Devices, NEW k \in Conns, NEW s \in Sides, CanRead(d, k, s)
    PROVE  IsRest(Consumed(k, s))
  <1>1. /\ wire \in [Conns -> [Sides -> Seq(Frames)]]
        /\ wire[k][s] \in Seq(Frames) /\ wire[k][s] # <<>>
    BY DEF TypeOK, SocketTypeOK, CanRead
  <1>2. ASSUME NEW c \in Conns, NEW o \in Sides
        PROVE  \E n \in Nat : \A i \in 1..Len(Consumed(k, s)[c][o]) :
                  /\ i + n \in 1..Len(wire[c][o])
                  /\ Consumed(k, s)[c][o][i] = wire[c][o][i + n]
    <2>1. CASE c = k /\ o = s
      <3>1. Consumed(k, s)[c][o] = Tail(wire[k][s])
        BY <1>1, <2>1 DEF Consumed
      <3>2. /\ Len(Tail(wire[k][s])) = Len(wire[k][s]) - 1 /\ Len(wire[k][s]) \in Nat
            /\ \A i \in 1..Len(wire[k][s]) - 1 : Tail(wire[k][s])[i] = wire[k][s][i + 1]
        BY <1>1
      <3>3. \A i \in 1..Len(wire[k][s]) - 1 : i + 1 \in 1..Len(wire[k][s])
        BY <3>2
      <3>4. \A i \in 1..Len(Consumed(k, s)[c][o]) :
               /\ i + 1 \in 1..Len(wire[c][o])
               /\ Consumed(k, s)[c][o][i] = wire[c][o][i + 1]
        BY <2>1, <3>1, <3>2, <3>3
      <3>5. QED
        BY <3>4
    <2>2. CASE ~(c = k /\ o = s)
      <3>1. Consumed(k, s)[c][o] = wire[c][o]
        BY <1>1, <2>2 DEF Consumed
      <3>2. \E n \in Nat : \A i \in 1..Len(wire[c][o]) :
               i + n \in 1..Len(wire[c][o]) /\ wire[c][o][i] = wire[c][o][i + n]
        BY WiresAreRest DEF IsRest
      <3>3. QED
        BY <3>1, <3>2
    <2>3. QED
      BY <2>1, <2>2
  <1>3. QED
    BY <1>2 DEF IsRest

LEMMA ReadFollows ==
    ASSUME UNCHANGED socketButWire, NEW w, IsRest(w), wire' = w, NEW d, NEW f
    PROVE  Follows(d, f)
  <1>1. \A k \in Conns, s \in Sides : Source(k, s)' = Source(k, s)
    BY DEF Source, socketButWire
  <1>2. ASSUME NEW k \in Conns, NEW s \in Sides
        PROVE  \E n \in Nat : \A i \in 1..Len(wire'[k][s]) : OldFrame(k, s, i, n)
    BY DEF IsRest, OldFrame
  <1>3. QED
    BY <1>1, <1>2 DEF Follows

LEMMA SendFollows ==
    ASSUME UNCHANGED socketButWire, NEW w \in [Conns -> [Sides -> Seq(Frames)]],
           IsRest(w), NEW d, NEW f \in Frames, wire' = Broadcast(d, f, w)
    PROVE  Follows(d, f)
  <1>1. \A k \in Conns, s \in Sides : Source(k, s)' = Source(k, s)
    BY DEF Source, socketButWire
  <1>2. ASSUME NEW k \in Conns, NEW s \in Sides
        PROVE  \E n \in Nat : \A i \in 1..Len(wire'[k][s]) :
                  OldFrame(k, s, i, n) \/ NewFrame(d, f, k, s, i)
    <2>1. PICK n \in Nat : \A i \in 1..Len(w[k][s]) :
             i + n \in 1..Len(wire[k][s]) /\ w[k][s][i] = wire[k][s][i + n]
      BY DEF IsRest
    <2>2. w[k][s] \in Seq(Frames)
      OBVIOUS
    <2>3. /\ Len(Append(w[k][s], f)) = Len(w[k][s]) + 1 /\ Len(w[k][s]) \in Nat
          /\ Append(w[k][s], f)[Len(w[k][s]) + 1] = f
          /\ \A x \in 1..Len(w[k][s]) : Append(w[k][s], f)[x] = w[k][s][x]
      BY <2>2
    <2>4. CASE ~(Writes(d, k, s) /\ Reachable(k, s))
      <3>1. wire'[k][s] = w[k][s]
        BY <2>4 DEF Broadcast
      <3>2. QED
        BY <2>1, <3>1 DEF OldFrame
    <2>5. CASE Writes(d, k, s) /\ Reachable(k, s)
      <3>1. wire'[k][s] = Append(w[k][s], f)
        BY <2>5 DEF Broadcast
      <3>2. ASSUME NEW i \in 1..Len(wire'[k][s])
            PROVE  OldFrame(k, s, i, n) \/ NewFrame(d, f, k, s, i)
        <4>1. CASE i = Len(w[k][s]) + 1
          BY <2>3, <2>5, <3>1, <4>1 DEF NewFrame
        <4>2. CASE i # Len(w[k][s]) + 1
          <5>1. i \in 1..Len(w[k][s])
            BY <2>3, <3>1, <4>2
          <5>2. QED
            BY <2>1, <2>3, <3>1, <5>1 DEF OldFrame
        <4>3. QED
          BY <4>1, <4>2
      <3>3. QED
        BY <3>2
    <2>6. QED
      BY <2>4, <2>5
  <1>3. QED
    BY <1>1, <1>2 DEF Follows

LEMMA SocketFollows ==
    ASSUME TypeOK, SocketInv, SocketAssumption, SocketStep \/ UNCHANGED socketVars,
           NEW d, NEW f
    PROVE  Follows(d, f)
  <1>1. WiresOnlyLose \/ UNCHANGED socketVars
    BY SocketStepLoses DEF TypeOK, SocketInv
  <1>2. ASSUME NEW k \in Conns, NEW s \in Sides
        PROVE  \A i \in 1..Len(wire'[k][s]) :
                  Source(k, s)' = Source(k, s) /\ OldFrame(k, s, i, 0)
    <2>1. CASE wire'[k][s] = <<>>
      <3>1. Len(wire'[k][s]) = 0
        BY <2>1
      <3>2. QED
        BY <3>1
    <2>2. CASE wire'[k][s] # <<>>
      <3>1. wire'[k][s] = wire[k][s] /\ dialer'[k] = dialer[k] /\ listener'[k] = listener[k]
        BY <1>1, <2>2 DEF WiresOnlyLose, socketVars
      <3>2. \A i \in 1..Len(wire[k][s]) : i + 0 = i
        OBVIOUS
      <3>3. QED
        BY <3>1, <3>2 DEF Source, OldFrame
    <2>3. QED
      BY <2>1, <2>2
  <1>3. QED
    BY <1>2 DEF Follows

\* A device writes on the side that is its own.
LEMMA WriterIsSource ==
    ASSUME TypeOK, SocketInv, SocketAssumption, NEW d \in Devices,
           NEW k \in Conns, NEW s \in Sides, Writes(d, k, s)
    PROVE  Source(k, s) = d
  <1>1. k # NoConn
    BY DEF SocketAssumption
  <1>2. CASE s = "up"
    BY <1>1, <1>2 DEF Writes, Source, SocketInv, HoldsItsOwnDial
  <1>3. CASE s # "up"
    BY <1>3 DEF Writes, Source, ServerClients
  <1>4. QED
    BY <1>2, <1>3

\* The two sides of a connection in use have different writers.
LEMMA SourcesDiffer ==
    ASSUME SocketInv, SocketAssumption, NEW k \in Conns, NEW r \in Sides, NEW s \in Sides,
           \/ wire[k][s] # <<>>
           \/ Source(k, s) \in Devices
    PROVE  /\ Source(k, s) \in Devices
           /\ Source(k, r) = Source(k, s) => r = s
  BY DEF SocketInv, RoutesAreSound, Source, Sides, SocketAssumption

\* Frames other than messages leave what is known of messages in flight.
LEMMA ChatsKept ==
    ASSUME SentOnce, NEW d, NEW f, Follows(d, f), f.type # "ChatMessage"
    PROVE  SentOnce'
  <1> SUFFICES ASSUME NEW m \in Messages, NEW k \in Conns, NEW l \in Conns,
                      NEW r \in Sides, NEW s \in Sides,
                      NEW i \in 1..Len(wire'[k][r]), NEW j \in 1..Len(wire'[l][s]),
                      IsChat(wire'[k][r][i], m), IsChat(wire'[l][s][j], m)
               PROVE  k = l /\ r = s /\ i = j
    BY DEF SentOnce, IsChat
  <1>1. PICK n \in Nat : \A x \in 1..Len(wire'[k][r]) :
           OldFrame(k, r, x, n) \/ NewFrame(d, f, k, r, x)
    BY DEF Follows
  <1>2. PICK o \in Nat : \A x \in 1..Len(wire'[l][s]) :
           OldFrame(l, s, x, o) \/ NewFrame(d, f, l, s, x)
    BY DEF Follows
  <1>3. OldFrame(k, r, i, n) /\ OldFrame(l, s, j, o)
    BY <1>1, <1>2 DEF NewFrame, IsChat
  <1>4. /\ i + n \in 1..Len(wire[k][r]) /\ IsChat(wire[k][r][i + n], m)
        /\ j + o \in 1..Len(wire[l][s]) /\ IsChat(wire[l][s][j + o], m)
    BY <1>3 DEF OldFrame, IsChat
  <1>5. k = l /\ r = s
    BY <1>4 DEF SentOnce
  <1>6. OldFrame(k, r, j, n)
    BY <1>1, <1>5 DEF NewFrame, IsChat
  <1>7. j + n \in 1..Len(wire[k][r]) /\ IsChat(wire[k][r][j + n], m)
    BY <1>5, <1>6 DEF OldFrame, IsChat
  <1>8. i + n = j + n
    BY <1>4, <1>7 DEF SentOnce
  <1>9. QED
    BY <1>5, <1>8

LEMMA UnshownKept ==
    ASSUME NotYetShown, NEW d, NEW f, Follows(d, f), f.type # "ChatMessage",
           UNCHANGED shown
    PROVE  NotYetShown'
  <1> SUFFICES ASSUME NEW m \in Messages, NEW k \in Conns, NEW s \in Sides,
                      NEW i \in 1..Len(wire'[k][s]), IsChat(wire'[k][s][i], m),
                      NEW e \in Devices
               PROVE  shown[e][m] = 0
    BY DEF NotYetShown, IsChat
  <1>1. PICK n \in Nat : OldFrame(k, s, i, n) \/ NewFrame(d, f, k, s, i)
    BY DEF Follows
  <1>2. OldFrame(k, s, i, n)
    BY <1>1 DEF NewFrame, IsChat
  <1>3. QED
    BY <1>2 DEF OldFrame, NotYetShown

\* An acknowledgement is written by who has shown its message.
LEMMA AcksKept ==
    ASSUME Assumptions, TypeOK, SocketInv, AcksAreTheShowers,
           NEW d \in Devices, NEW f, Follows(d, f),
           \A e, m : shown[e][m] > 0 => shown'[e][m] > 0,
           f.type = "MessageAck" => shown'[d][f.id] > 0
    PROVE  AcksAreTheShowers'
  <1> SUFFICES ASSUME NEW m \in Messages, NEW k \in Conns, NEW s \in Sides,
                      NEW i \in 1..Len(wire'[k][s]),
                      wire'[k][s][i].type = "MessageAck", wire'[k][s][i].id = m
               PROVE  shown'[Source(k, s)'][m] > 0
    BY DEF AcksAreTheShowers, Source
  <1>1. PICK n \in Nat : /\ Source(k, s)' = Source(k, s)
                         /\ OldFrame(k, s, i, n) \/ NewFrame(d, f, k, s, i)
    BY DEF Follows
  <1>2. CASE OldFrame(k, s, i, n)
    <2>1. shown[Source(k, s)][m] > 0
      BY <1>2 DEF OldFrame, AcksAreTheShowers
    <2>2. QED
      BY <1>1, <2>1
  <1>3. CASE NewFrame(d, f, k, s, i)
    <2>1. Source(k, s) = d
      BY <1>3, WriterIsSource DEF NewFrame, Assumptions
    <2>2. QED
      BY <1>1, <1>3, <2>1 DEF NewFrame
  <1>4. QED
    BY <1>1, <1>2, <1>3

\* No "delivered" is sent behind a "read".
LEMMA OrderKept ==
    ASSUME ReadComesLast, NEW d, NEW f, Follows(d, f),
           \A m \in Messages : IsAck(f, m, "delivered") =>
              \A k \in Conns, s \in Sides : \A i \in 1..Len(wire[k][s]) :
                 ~IsAck(wire[k][s][i], m, "read")
    PROVE  ReadComesLast'
  <1> SUFFICES ASSUME NEW m \in Messages, NEW k \in Conns, NEW s \in Sides,
                      NEW i \in 1..Len(wire'[k][s]), NEW j \in 1..Len(wire'[k][s]),
                      IsAck(wire'[k][s][i], m, "read"),
                      IsAck(wire'[k][s][j], m, "delivered")
               PROVE  j < i
    BY DEF ReadComesLast, IsAck
  <1>1. PICK n \in Nat : \A x \in 1..Len(wire'[k][s]) :
           OldFrame(k, s, x, n) \/ NewFrame(d, f, k, s, x)
    BY DEF Follows
  <1>2. i # j
    BY DEF IsAck
  <1>3. CASE NewFrame(d, f, k, s, i)
    <2>1. i = Len(wire'[k][s])
      BY <1>3 DEF NewFrame
    <2>2. QED
      BY <1>2, <2>1
  <1>4. CASE OldFrame(k, s, i, n) /\ OldFrame(k, s, j, n)
    <2>1. j + n < i + n
      BY <1>4 DEF OldFrame, ReadComesLast, IsAck
    <2>2. QED
      BY <2>1
  <1>5. CASE OldFrame(k, s, i, n) /\ NewFrame(d, f, k, s, j)
    BY <1>5 DEF OldFrame, NewFrame, IsAck
  <1>6. QED
    BY <1>1, <1>3, <1>4, <1>5

LEMMA EndKept ==
    ASSUME ReadEndsIt, NEW d, NEW f, Follows(d, f),
           \A e \in Devices, m \in Messages : outgoing'[e][m] = "Read" =>
              outgoing[e][m] = "Read" /\ ~IsAck(f, m, "delivered")
    PROVE  ReadEndsIt'
  <1> SUFFICES ASSUME NEW e \in Devices, NEW m \in Messages, outgoing'[e][m] = "Read",
                      NEW k \in Conns, NEW s \in Sides,
                      NEW i \in 1..Len(wire'[k][s])
               PROVE  ~IsAck(wire'[k][s][i], m, "delivered")
    BY DEF ReadEndsIt, IsAck
  <1>1. PICK n \in Nat : OldFrame(k, s, i, n) \/ NewFrame(d, f, k, s, i)
    BY DEF Follows
  <1>2. QED
    BY <1>1 DEF OldFrame, NewFrame, ReadEndsIt, IsAck

\* What is read stays read, for this step.
StaysRead ==
    \A d \in Devices, m \in Messages : outgoing[d][m] = "Read" => outgoing'[d][m] = "Read"

\* Steps that show nothing, and end no message as read.
LEMMA PlainStep ==
    ASSUME Assumptions, TypeOK, SocketInv, OrderInv,
           NEW d \in Devices, NEW f, Follows(d, f), UNCHANGED shown,
           \/ f.type = "TypingIndicator"
           \/ f.type = "MessageAck" /\ f.status = "read" /\ shown[d][f.id] > 0,
           \A e \in Devices, m \in Messages :
              outgoing'[e][m] = "Read" => outgoing[e][m] = "Read"
    PROVE  OrderInv'
  <1>1. f.type # "ChatMessage" /\ \A m : ~IsAck(f, m, "delivered")
    BY DEF IsAck
  <1>2. SentOnce' /\ NotYetShown'
    BY <1>1, ChatsKept, UnshownKept DEF OrderInv
  <1>3. OneShower'
    BY DEF OrderInv, OneShower
  <1>4. AcksAreTheShowers'
    <2>1. f.type = "MessageAck" => shown'[d][f.id] > 0
      OBVIOUS
    <2>2. QED
      BY <2>1, AcksKept DEF OrderInv
  <1>5. ReadComesLast' /\ ReadEndsIt'
    BY <1>1, OrderKept, EndKept DEF OrderInv
  <1>6. QED
    BY <1>2, <1>3, <1>4, <1>5 DEF OrderInv

\* The steps that write nothing and read nothing.
LEMMA IdleOrder ==
    ASSUME Assumptions, TypeOK, SocketInv, OrderInv,
           SocketStep \/ UNCHANGED socketVars, UNCHANGED shown,
           NEW c \in Devices,
           \A e \in Devices, m \in Messages :
              outgoing'[e][m] = "Read" => outgoing[e][m] = "Read"
    PROVE  OrderInv'
  <1>1. PICK f : f = Typing(c, FALSE)
    OBVIOUS
  <1>2. f.type = "TypingIndicator"
    BY <1>1 DEF Typing
  <1>3. Follows(c, f)
    BY SocketFollows DEF Assumptions
  <1>4. QED
    BY <1>2, <1>3, PlainStep

\* A message put on its way is on one side of one connection.
LEMMA SendOrder ==
    ASSUME Assumptions, OneConnection, ChatInv, OrderInv,
           NEW d \in Devices, NEW m \in Messages, SendMessage(d, m)
    PROVE  OrderInv' /\ StaysRead
  <1> USE DEF Assumptions, ChatInv, OrderInv
  <1>1. PICK f \in Frames : f = ChatMessage(m, d)
    BY FrameKinds
  <1>2. f.type = "ChatMessage" /\ f.id = m
    BY <1>1 DEF ChatMessage
  <1>3. Follows(d, f)
    <2>1. PICK w \in [Conns -> [Sides -> Seq(Frames)]] : w = wire
      BY DEF TypeOK, SocketTypeOK
    <2>2. UNCHANGED socketButWire /\ wire' = Broadcast(d, f, w) /\ IsRest(w)
      BY <1>1, <2>1, WiresAreRest DEF SendMessage
    <2>3. QED
      BY <2>2, SendFollows
  <1>4. /\ UNCHANGED shown
        /\ \A e \in Devices : outgoing[e][m] = NoMessage
        /\ outgoing' = [outgoing EXCEPT ![d][m] = "Sent"]
    BY DEF SendMessage, TrackAs
  <1>5. m \notin wired /\ \A e \in Devices : shown[e][m] = 0
    <2>1. m \notin wired
      BY <1>4 DEF OneSender
    <2>2. QED
      BY <2>1 DEF ShownWasWired, TypeOK
  <1>6. \A k \in Conns, s \in Sides : \A i \in 1..Len(wire[k][s]) :
           ~IsChat(wire[k][s][i], m)
    BY <1>5 DEF FramesAreJustified, Justified, IsChat
  <1>7. StaysRead
    BY <1>4 DEF StaysRead, TypeOK, NoMessageAssumption, MessageState
  <1>8. \A e \in Devices, x \in Messages :
           outgoing'[e][x] = "Read" => outgoing[e][x] = "Read"
    BY <1>4 DEF TypeOK
  <1>9. SentOnce'
    <2> SUFFICES ASSUME NEW x \in Messages, NEW k \in Conns, NEW l \in Conns,
                        NEW r \in Sides, NEW s \in Sides,
                        NEW i \in 1..Len(wire'[k][r]), NEW j \in 1..Len(wire'[l][s]),
                        IsChat(wire'[k][r][i], x), IsChat(wire'[l][s][j], x)
                 PROVE  k = l /\ r = s /\ i = j
      BY DEF SentOnce, IsChat
    <2>1. PICK n \in Nat : \A y \in 1..Len(wire'[k][r]) :
             OldFrame(k, r, y, n) \/ NewFrame(d, f, k, r, y)
      BY <1>3 DEF Follows
    <2>2. PICK o \in Nat : \A y \in 1..Len(wire'[l][s]) :
             OldFrame(l, s, y, o) \/ NewFrame(d, f, l, s, y)
      BY <1>3 DEF Follows
    <2>3. k = l
      BY DEF OneConnection
    <2>4. CASE x = m
      <3>1. NewFrame(d, f, k, r, i) /\ NewFrame(d, f, l, s, j)
        BY <1>6, <2>1, <2>2, <2>4 DEF OldFrame, IsChat
      <3>2. Source(k, r) = d /\ Source(k, s) = d
        BY <2>3, <3>1, WriterIsSource DEF NewFrame
      <3>3. r = s
        BY <3>2, SourcesDiffer
      <3>4. QED
        BY <2>3, <3>1, <3>3 DEF NewFrame
    <2>5. CASE x # m
      <3>1. OldFrame(k, r, i, n) /\ OldFrame(l, s, j, o)
        BY <1>2, <2>1, <2>2, <2>5 DEF NewFrame, IsChat
      <3>2. r = s
        BY <2>3, <3>1, <2>5 DEF OldFrame, SentOnce, IsChat
      <3>3. OldFrame(k, r, j, n)
        BY <1>2, <2>1, <2>3, <2>5, <3>2 DEF NewFrame, IsChat
      <3>4. i + n = j + n
        BY <2>3, <3>1, <3>2, <3>3 DEF OldFrame, SentOnce
      <3>5. QED
        BY <2>3, <3>2, <3>4
    <2>6. QED
      BY <2>4, <2>5
  <1>10. NotYetShown'
    <2> SUFFICES ASSUME NEW x \in Messages, NEW k \in Conns, NEW s \in Sides,
                        NEW i \in 1..Len(wire'[k][s]), IsChat(wire'[k][s][i], x),
                        NEW e \in Devices
                 PROVE  shown[e][x] = 0
      BY <1>4 DEF NotYetShown, IsChat
    <2>1. PICK n \in Nat : OldFrame(k, s, i, n) \/ NewFrame(d, f, k, s, i)
      BY <1>3 DEF Follows
    <2>2. CASE OldFrame(k, s, i, n)
      BY <2>2 DEF OldFrame, NotYetShown
    <2>3. CASE NewFrame(d, f, k, s, i)
      BY <1>2, <1>5, <2>3 DEF NewFrame, IsChat
    <2>4. QED
      BY <2>1, <2>2, <2>3
  <1>11. OneShower'
    BY <1>4 DEF OneShower
  <1>12. AcksAreTheShowers'
    BY <1>2, <1>3, <1>4, AcksKept
  <1>13. ReadComesLast' /\ ReadEndsIt'
    <2>1. \A x : ~IsAck(f, x, "delivered")
      BY <1>2 DEF IsAck
    <2>2. QED
      BY <1>3, <1>8, <2>1, OrderKept, EndKept
  <1>14. QED
    BY <1>7, <1>9, <1>10, <1>11, <1>12, <1>13

\* A message that is read is gone from the wires, as it was there once.
LEMMA ChatIsTaken ==
    ASSUME TypeOK, SentOnce, NEW d \in Devices, NEW k \in Conns, NEW s \in Sides,
           CanRead(d, k, s), NEW m \in Messages, IsChat(Head1(k, s), m),
           NEW f \in Frames, f.type # "ChatMessage",
           wire' = Broadcast(d, f, Consumed(k, s))
    PROVE  \A l \in Conns, r \in Sides : \A i \in 1..Len(wire'[l][r]) :
              ~IsChat(wire'[l][r][i], m)
  <1> SUFFICES ASSUME NEW l \in Conns, NEW r \in Sides, NEW i \in 1..Len(wire'[l][r]),
                      IsChat(wire'[l][r][i], m)
               PROVE  FALSE
    OBVIOUS
  <1>1. /\ wire \in [Conns -> [Sides -> Seq(Frames)]]
        /\ wire[k][s] \in Seq(Frames) /\ wire[k][s] # <<>>
        /\ wire[l][r] \in Seq(Frames)
    BY DEF TypeOK, SocketTypeOK, CanRead
  <1>2. 1 \in 1..Len(wire[k][s]) /\ IsChat(wire[k][s][1], m)
    BY <1>1 DEF Head1
  <1>3. PICK w : w = Consumed(k, s)[l][r]
    OBVIOUS
  <1>4. w \in Seq(Frames)
    BY <1>3, ReadType
  <1>5. wire'[l][r] = w \/ wire'[l][r] = Append(w, f)
    BY <1>3 DEF Broadcast
  <1>6. i \in 1..Len(w) /\ IsChat(w[i], m)
    <2>1. CASE wire'[l][r] = w
      BY <2>1
    <2>2. CASE wire'[l][r] = Append(w, f)
      <3>1. /\ Len(Append(w, f)) = Len(w) + 1 /\ Len(w) \in Nat
            /\ Append(w, f)[Len(w) + 1] = f
            /\ \A x \in 1..Len(w) : Append(w, f)[x] = w[x]
        BY <1>4
      <3>2. i # Len(w) + 1
        BY <2>2, <3>1 DEF IsChat
      <3>3. i \in 1..Len(w)
        BY <2>2, <3>1, <3>2
      <3>4. QED
        BY <2>2, <3>1, <3>3
    <2>3. QED
      BY <1>5, <2>1, <2>2
  <1>7. CASE l = k /\ r = s
    <2>1. w = Tail(wire[k][s])
      BY <1>1, <1>3, <1>7 DEF Consumed
    <2>2. /\ Len(Tail(wire[k][s])) = Len(wire[k][s]) - 1 /\ Len(wire[k][s]) \in Nat
          /\ \A x \in 1..Len(wire[k][s]) - 1 : Tail(wire[k][s])[x] = wire[k][s][x + 1]
      BY <1>1
    <2>3. i + 1 \in 1..Len(wire[k][s]) /\ IsChat(wire[k][s][i + 1], m)
      BY <1>6, <2>1, <2>2
    <2>4. i + 1 = 1
      BY <1>2, <2>3 DEF SentOnce
    <2>5. QED
      BY <2>4
  <1>8. CASE ~(l = k /\ r = s)
    <2>1. w = wire[l][r]
      BY <1>1, <1>3, <1>8 DEF Consumed
    <2>2. QED
      BY <1>2, <1>6, <1>8, <2>1 DEF SentOnce
  <1>9. QED
    BY <1>7, <1>8

\* A message that is still in flight has been shown, read and answered by nobody.
LEMMA NothingIsKnown ==
    ASSUME Assumptions, ChatInv, OrderInv, NEW m \in Messages,
           \A e \in Devices : shown[e][m] = 0
    PROVE  /\ \A k \in Conns, s \in Sides : \A i \in 1..Len(wire[k][s]) :
                 ~IsAck(wire[k][s][i], m, "read")
           /\ \A e \in Devices : outgoing[e][m] # "Read"
  <1>1. ASSUME NEW k \in Conns, NEW s \in Sides, NEW i \in 1..Len(wire[k][s]),
               IsAck(wire[k][s][i], m, "read")
        PROVE  FALSE
    <2>1. shown[Source(k, s)][m] > 0
      BY <1>1 DEF OrderInv, AcksAreTheShowers, IsAck
    <2>2. wire[k][s] # <<>>
      BY <1>1
    <2>3. Source(k, s) \in Devices
      BY <2>2, SourcesDiffer DEF ChatInv, Assumptions
    <2>4. QED
      BY <2>1, <2>3
  <1>2. ASSUME NEW e \in Devices, outgoing[e][m] = "Read"
        PROVE  FALSE
    <2>1. PICK c \in Devices : m \in readBy[c]
      BY <1>2 DEF ChatInv, DeliveredWasShown
    <2>2. shown[c][m] > 0
      BY <2>1 DEF ChatInv, ShownWasWired
    <2>3. QED
      BY <2>2
  <1>3. QED
    BY <1>1, <1>2

LEMMA MessageOrder ==
    ASSUME Assumptions, ChatInv, OrderInv,
           NEW d \in Devices, NEW k \in Conns, NEW s \in Sides,
           ReceiveNewMessage(d, k, s) \/ ReceiveDuplicate(d, k, s)
    PROVE  OrderInv' /\ StaysRead
  <1> USE DEF Assumptions, ChatInv, OrderInv
  <1>1. CanRead(d, k, s) /\ Head1(k, s).type = "ChatMessage"
    BY DEF ReceiveNewMessage, ReceiveDuplicate
  <1>2. PICK m \in Messages : m = Head1(k, s).id
    BY <1>1, ReadType, FrameFields
  <1>3. IsChat(Head1(k, s), m)
    BY <1>1, <1>2 DEF IsChat
  <1>4. \A e \in Devices : shown[e][m] = 0
    <2>1. wire[k][s] \in Seq(Frames) /\ wire[k][s] # <<>>
      BY <1>1 DEF TypeOK, SocketTypeOK, CanRead
    <2>2. 1 \in 1..Len(wire[k][s]) /\ IsChat(wire[k][s][1], m)
      BY <1>3, <2>1 DEF Head1
    <2>3. QED
      BY <2>2 DEF NotYetShown
  <1>5. ReceiveNewMessage(d, k, s)
    <2>1. ~(shown[d][m] > 0)
      BY <1>4
    <2>2. cache[d][m] = "no"
      BY <2>1 DEF ShownWasWired
    <2>3. QED
      BY <1>2, <2>2 DEF ReceiveDuplicate
  <1>6. PICK f \in Frames : f = MessageAck(m, "delivered")
    BY FrameKinds
  <1>7. f.type = "MessageAck" /\ f.id = m /\ f.status = "delivered"
    BY <1>6 DEF MessageAck
  <1>8. wire' = Broadcast(d, f, Consumed(k, s)) /\ UNCHANGED <<socketButWire, outgoing>>
    BY <1>2, <1>5, <1>6 DEF ReceiveNewMessage
  <1>9. Follows(d, f)
    <2>1. PICK w \in [Conns -> [Sides -> Seq(Frames)]] : w = Consumed(k, s)
      BY <1>1, ReadType
    <2>2. IsRest(w)
      BY <1>1, <2>1, ReadLeavesRest
    <2>3. QED
      BY <1>8, <2>1, <2>2, SendFollows
  <1>10. /\ shown'[d][m] > 0
         /\ \A e \in Devices, x \in Messages :
               e # d \/ x # m => shown'[e][x] = shown[e][x]
    BY <1>2, <1>4, <1>5 DEF ReceiveNewMessage, TypeOK, ChatAssumption
  <1>11. SentOnce'
    BY <1>7, <1>9, ChatsKept
  <1>12. NotYetShown'
    <2> SUFFICES ASSUME NEW x \in Messages, NEW l \in Conns, NEW r \in Sides,
                        NEW i \in 1..Len(wire'[l][r]), IsChat(wire'[l][r][i], x),
                        NEW e \in Devices
                 PROVE  shown'[e][x] = 0
      BY DEF NotYetShown, IsChat
    <2>1. x # m
      BY <1>1, <1>3, <1>7, <1>8, ChatIsTaken
    <2>2. PICK n \in Nat : OldFrame(l, r, i, n) \/ NewFrame(d, f, l, r, i)
      BY <1>9 DEF Follows
    <2>3. OldFrame(l, r, i, n)
      BY <1>7, <2>2 DEF NewFrame, IsChat
    <2>4. shown[e][x] = 0
      BY <2>3 DEF OldFrame, NotYetShown
    <2>5. QED
      BY <1>10, <2>1, <2>4
  <1>13. OneShower'
    <2> SUFFICES ASSUME NEW x \in Messages, NEW c \in Devices, NEW e \in Devices,
                        shown'[c][x] > 0, shown'[e][x] > 0
                 PROVE  c = e
      BY DEF OneShower
    <2>1. CASE x = m
      BY <1>4, <1>10, <2>1
    <2>2. CASE x # m
      BY <1>10, <2>2 DEF OneShower
    <2>3. QED
      BY <2>1, <2>2
  <1>14. AcksAreTheShowers'
    <2> SUFFICES ASSUME NEW x \in Messages, NEW l \in Conns, NEW r \in Sides,
                        NEW i \in 1..Len(wire'[l][r]),
                        wire'[l][r][i].type = "MessageAck", wire'[l][r][i].id = x
                 PROVE  shown'[Source(l, r)'][x] > 0
      BY DEF AcksAreTheShowers, Source
    <2>1. PICK n \in Nat : /\ Source(l, r)' = Source(l, r)
                           /\ OldFrame(l, r, i, n) \/ NewFrame(d, f, l, r, i)
      BY <1>9 DEF Follows
    <2>2. CASE OldFrame(l, r, i, n)
      <3>1. shown[Source(l, r)][x] > 0 /\ wire[l][r] # <<>>
        BY <2>2 DEF OldFrame, AcksAreTheShowers
      <3>2. Source(l, r) \in Devices
        BY <3>1, SourcesDiffer
      <3>3. QED
        BY <1>10, <2>1, <3>1, <3>2
    <2>3. CASE NewFrame(d, f, l, r, i)
      <3>1. Source(l, r) = d /\ x = m
        BY <1>7, <2>3, WriterIsSource DEF NewFrame
      <3>2. QED
        BY <1>10, <2>1, <3>1
    <2>4. QED
      BY <2>1, <2>2, <2>3
  <1>15. ReadComesLast'
    <2>1. ASSUME NEW x \in Messages, IsAck(f, x, "delivered")
          PROVE  \A l \in Conns, r \in Sides : \A i \in 1..Len(wire[l][r]) :
                    ~IsAck(wire[l][r][i], x, "read")
      <3>1. x = m
        BY <1>7, <2>1 DEF IsAck
      <3>2. QED
        BY <1>4, <3>1, NothingIsKnown
    <2>2. QED
      BY <1>9, <2>1, OrderKept
  <1>16. ReadEndsIt'
    <2>1. ASSUME NEW e \in Devices, NEW x \in Messages, outgoing'[e][x] = "Read"
          PROVE  outgoing[e][x] = "Read" /\ ~IsAck(f, x, "delivered")
      <3>1. outgoing[e][x] = "Read"
        BY <1>8, <2>1
      <3>2. x # m
        BY <1>4, <3>1, NothingIsKnown
      <3>3. QED
        BY <1>7, <3>1, <3>2 DEF IsAck
    <2>2. QED
      BY <1>9, <2>1, EndKept
  <1>17. StaysRead
    BY <1>8 DEF StaysRead
  <1>18. QED
    BY <1>11, <1>12, <1>13, <1>14, <1>15, <1>16, <1>17

\* An acknowledgement that is read: "read" was the last word on its message,
\* and "delivered" comes before it.
LEMMA AckOrder ==
    ASSUME Assumptions, OneConnection, ChatInv, OrderInv,
           NEW d \in Devices, NEW k \in Conns, NEW s \in Sides, ReceiveAck(d, k, s)
    PROVE  OrderInv' /\ StaysRead
  <1> USE DEF Assumptions, ChatInv, OrderInv
  <1>1. CanRead(d, k, s) /\ Head1(k, s).type = "MessageAck"
    BY DEF ReceiveAck
  <1>2. PICK m \in Messages : m = Head1(k, s).id
    BY <1>1, ReadType, FrameFields
  <1>3. Head1(k, s).status \in {"delivered", "read"}
    BY <1>1, ReadType, FrameFields
  <1>4. 1 \in 1..Len(wire[k][s]) /\ wire[k][s][1] = Head1(k, s) /\ wire[k][s] # <<>>
    <2>1. wire[k][s] \in Seq(Frames) /\ wire[k][s] # <<>>
      BY <1>1 DEF TypeOK, SocketTypeOK, CanRead
    <2>2. QED
      BY <2>1 DEF Head1
  <1>5. PICK f : f = Typing(d, FALSE)
    OBVIOUS
  <1>6. f.type = "TypingIndicator"
    BY <1>5 DEF Typing
  <1>7. Follows(d, f)
    <2>1. PICK w : w = Consumed(k, s)
      OBVIOUS
    <2>2. IsRest(w) /\ wire' = w /\ UNCHANGED socketButWire
      BY <1>1, <2>1, ReadLeavesRest DEF ReceiveAck
    <2>3. QED
      BY <2>2, ReadFollows
  <1>8. UNCHANGED shown
    BY DEF ReceiveAck, history
  <1>9. \/ UNCHANGED outgoing
        \/ outgoing' = [outgoing EXCEPT ![d][m] = AckedState(Head1(k, s).status)]
    BY <1>2 DEF ReceiveAck
  <1>10. \A e \in Devices, x \in Messages :
            \/ outgoing'[e][x] = outgoing[e][x]
            \/ e = d /\ x = m /\ outgoing'[e][x] = AckedState(Head1(k, s).status)
    <2>1. PICK v : v = AckedState(Head1(k, s).status)
      OBVIOUS
    <2>2. \/ UNCHANGED outgoing
          \/ outgoing' = [outgoing EXCEPT ![d][m] = v]
      BY <1>9, <2>1
    <2>3. outgoing \in [Devices -> [Messages -> MessageState \cup {NoMessage}]]
      BY DEF TypeOK
    <2>4. ASSUME NEW e \in Devices, NEW x \in Messages
          PROVE  \/ outgoing'[e][x] = outgoing[e][x]
                 \/ e = d /\ x = m /\ outgoing'[e][x] = v
      <3>1. CASE UNCHANGED outgoing
        BY <3>1
      <3>2. CASE outgoing' = [outgoing EXCEPT ![d][m] = v]
        BY <2>3, <3>2
      <3>3. QED
        BY <2>2, <3>1, <3>2
    <2>5. QED
      BY <2>1, <2>4
  <1>11. CASE Head1(k, s).status = "delivered"
    <2>1. AckedState(Head1(k, s).status) = "Delivered"
      BY <1>11 DEF AckedState
    <2>2. \A e \in Devices, x \in Messages :
             outgoing'[e][x] = "Read" => outgoing[e][x] = "Read"
      BY <1>10, <2>1
    <2>3. OrderInv'
      BY <1>6, <1>7, <1>8, <2>2, PlainStep
    <2>4. \A e \in Devices : outgoing[e][m] # "Read"
      BY <1>1, <1>2, <1>4, <1>11 DEF ReadEndsIt, IsAck
    <2>5. StaysRead
      BY <1>10, <2>4 DEF StaysRead
    <2>6. QED
      BY <2>3, <2>5
  <1>12. CASE Head1(k, s).status = "read"
    <2>1. AckedState(Head1(k, s).status) = "Read"
      BY <1>12 DEF AckedState
    <2>2. StaysRead
      BY <1>10, <2>1 DEF StaysRead
    <2>3. SentOnce' /\ NotYetShown' /\ AcksAreTheShowers' /\ ReadComesLast'
      <3>1. f.type # "ChatMessage" /\ f.type # "MessageAck"
        BY <1>6
      <3>2. \A x : ~IsAck(f, x, "delivered")
        BY <1>6 DEF IsAck
      <3>3. SentOnce' /\ NotYetShown'
        BY <1>7, <1>8, <3>1, ChatsKept, UnshownKept
      <3>4. AcksAreTheShowers'
        BY <1>7, <1>8, <3>1, AcksKept
      <3>5. ReadComesLast'
        BY <1>7, <3>2, OrderKept
      <3>6. QED
        BY <3>3, <3>4, <3>5
    <2>4. OneShower'
      BY <1>8 DEF OneShower
    <2>5. ASSUME NEW l \in Conns, NEW r \in Sides, NEW i \in 1..Len(wire[l][r]),
                 IsAck(wire[l][r][i], m, "delivered")
          PROVE  FALSE
      <3>1. l = k
        BY DEF OneConnection
      <3>2. CASE r = s
        <4>1. i < 1
          BY <1>1, <1>2, <1>4, <1>12, <2>5, <3>1, <3>2 DEF ReadComesLast, IsAck
        <4>2. QED
          BY <4>1
      <3>3. CASE r # s
        <4>1. shown[Source(k, s)][m] > 0
          BY <1>1, <1>2, <1>4 DEF AcksAreTheShowers
        <4>2. shown[Source(k, r)][m] > 0
          BY <2>5, <3>1 DEF AcksAreTheShowers, IsAck
        <4>3. wire[k][r] # <<>>
          BY <3>1
        <4>4. Source(k, s) \in Devices /\ Source(k, r) \in Devices
          BY <1>4, <4>3, SourcesDiffer
        <4>5. Source(k, s) = Source(k, r)
          BY <4>1, <4>2, <4>4 DEF OneShower
        <4>6. QED
          BY <3>3, <4>4, <4>5, SourcesDiffer
      <3>4. QED
        BY <3>2, <3>3
    <2>6. ReadEndsIt'
      <3> SUFFICES ASSUME NEW e \in Devices, NEW x \in Messages,
                          outgoing'[e][x] = "Read", NEW l \in Conns, NEW r \in Sides,
                          NEW i \in 1..Len(wire'[l][r]),
                          IsAck(wire'[l][r][i], x, "delivered")
                   PROVE  FALSE
        BY DEF ReadEndsIt, IsAck
      <3>1. PICK n \in Nat : OldFrame(l, r, i, n) \/ NewFrame(d, f, l, r, i)
        BY <1>7 DEF Follows
      <3>2. OldFrame(l, r, i, n)
        BY <1>6, <3>1 DEF NewFrame, IsAck
      <3>3. CASE x = m
        BY <2>5, <3>2, <3>3 DEF OldFrame
      <3>4. CASE x # m
        <4>1. outgoing[e][x] = "Read"
          BY <1>10, <3>4
        <4>2. QED
          BY <3>2, <4>1 DEF OldFrame, ReadEndsIt
      <3>5. QED
        BY <3>3, <3>4
    <2>7. QED
      BY <2>2, <2>3, <2>4, <2>6
  <1>13. QED
    BY <1>3, <1>11, <1>12

LEMMA TypingOrder ==
    ASSUME Assumptions, ChatInv, OrderInv,
           NEW d \in Devices, NEW k \in Conns, NEW s \in Sides, ReceiveTyping(d, k, s)
    PROVE  OrderInv' /\ StaysRead
  <1>1. PICK f : f = Typing(d, FALSE)
    OBVIOUS
  <1>2. f.type = "TypingIndicator"
    BY <1>1 DEF Typing
  <1>3. PICK w : w = Consumed(k, s)
    OBVIOUS
  <1>4. IsRest(w) /\ wire' = w /\ UNCHANGED socketButWire
    BY <1>3, ReadLeavesRest DEF ReceiveTyping, ChatInv
  <1>5. Follows(d, f)
    BY <1>4, ReadFollows
  <1>6. UNCHANGED <<outgoing, shown>>
    BY DEF ReceiveTyping, history
  <1>7. QED
    BY <1>2, <1>5, <1>6, PlainStep DEF ChatInv, StaysRead

\* What the user of a device does.
LEMMA UserOrder ==
    ASSUME Assumptions, OneConnection, ChatInv, OrderInv, NEW d \in Devices, User(d)
    PROVE  OrderInv' /\ StaysRead
  <1> USE DEF ChatInv
  <1>1. ASSUME NEW f \in Frames, wire' = Broadcast(d, f, wire), UNCHANGED socketButWire
        PROVE  Follows(d, f)
    <2>1. PICK w \in [Conns -> [Sides -> Seq(Frames)]] : w = wire
      BY DEF TypeOK, SocketTypeOK
    <2>2. wire' = Broadcast(d, f, w) /\ IsRest(w)
      BY <1>1, <2>1, WiresAreRest
    <2>3. QED
      BY <1>1, <2>2, SendFollows
  <1>2. ASSUME NEW m \in Messages, SendMessageUnconnected(d, m)
        PROVE  OrderInv' /\ StaysRead
    <2>1. /\ SocketStep \/ UNCHANGED socketVars
          /\ UNCHANGED shown
          /\ \A e \in Devices : outgoing[e][m] = NoMessage
          /\ outgoing' = [outgoing EXCEPT ![d][m] = "Pending"]
      BY <1>2, DialOrNotStep DEF SendMessageUnconnected, TrackAs
    <2>2. \A e \in Devices, x \in Messages :
             outgoing'[e][x] = "Read" => outgoing[e][x] = "Read"
      BY <2>1 DEF TypeOK
    <2>3. StaysRead
      BY <2>1 DEF StaysRead, TypeOK, Assumptions, NoMessageAssumption, MessageState
    <2>4. QED
      BY <2>1, <2>2, <2>3, IdleOrder
  <1>3. ASSUME NEW m \in Messages, SendReadReceipt(d, m)
        PROVE  OrderInv' /\ StaysRead
    <2>1. UNCHANGED <<shown, outgoing>> /\ shown[d][m] > 0
      BY <1>3 DEF SendReadReceipt
    <2>2. CASE wire' = Broadcast(d, MessageAck(m, "read"), wire) /\ UNCHANGED socketButWire
      <3>1. PICK f \in Frames : f = MessageAck(m, "read")
        BY FrameKinds
      <3>2. f.type = "MessageAck" /\ f.status = "read" /\ f.id = m
        BY <3>1 DEF MessageAck
      <3>3. Follows(d, f)
        BY <1>1, <2>2, <3>1
      <3>4. QED
        BY <2>1, <3>2, <3>3, PlainStep DEF StaysRead
    <2>3. CASE DialOrNot(d)
      BY <2>1, <2>3, DialOrNotStep, IdleOrder DEF StaysRead
    <2>4. QED
      BY <1>3, <2>2, <2>3 DEF SendReadReceipt
  <1>4. ASSUME StartTyping(d) \/ StopTyping(d)
        PROVE  OrderInv' /\ StaysRead
    <2>1. UNCHANGED <<shown, outgoing>>
      BY <1>4 DEF StartTyping, StopTyping, history
    <2>2. ASSUME NEW b \in BOOLEAN, wire' = Broadcast(d, Typing(d, b), wire),
                 UNCHANGED socketButWire
          PROVE  OrderInv' /\ StaysRead
      <3>1. PICK f \in Frames : f = Typing(d, b)
        BY FrameKinds
      <3>2. f.type = "TypingIndicator"
        BY <3>1 DEF Typing
      <3>3. Follows(d, f)
        BY <1>1, <2>2, <3>1
      <3>4. QED
        BY <2>1, <3>2, <3>3, PlainStep DEF StaysRead
    <2>3. CASE DialOrNot(d)
      BY <2>1, <2>3, DialOrNotStep, IdleOrder DEF StaysRead
    <2>4. QED
      BY <1>4, <2>2, <2>3 DEF StartTyping, StopTyping
  <1>5. QED
    BY <1>2, <1>3, <1>4, SendOrder DEF User

LEMMA TimersOrder ==
    ASSUME Assumptions, ChatInv, OrderInv, NEW d \in Devices, Timers(d)
    PROVE  OrderInv' /\ StaysRead
  <1>1. UNCHANGED <<socketVars, shown>>
    BY DEF Timers, AckTimeout, PeerTypingTimeout, CacheWindowPasses, history
  <1>2. \A e \in Devices, m \in Messages :
           outgoing'[e][m] = "Read" <=> outgoing[e][m] = "Read"
    <2>1. ASSUME NEW m \in Messages, AckTimeout(d, m)
          PROVE  \A e \in Devices, x \in Messages :
                    outgoing'[e][x] = "Read" <=> outgoing[e][x] = "Read"
      BY <2>1 DEF AckTimeout, ChatInv, TypeOK
    <2>2. QED
      BY <2>1 DEF Timers, PeerTypingTimeout, CacheWindowPasses
  <1>3. QED
    BY <1>1, <1>2, IdleOrder DEF ChatInv, StaysRead

LEMMA OrderStep ==
    ASSUME Assumptions, OneConnection, ChatInv, OrderInv, [Next]_vars
    PROVE  OrderInv' /\ StaysRead
  <1>1. ASSUME NEW d \in Devices, User(d) \/ Timers(d)
        PROVE  OrderInv' /\ StaysRead
    BY <1>1, UserOrder, TimersOrder
  <1>2. ASSUME NEW d \in Devices, NEW k \in Conns, NEW s \in Sides, Receive(d, k, s)
        PROVE  OrderInv' /\ StaysRead
    BY <1>2, MessageOrder, AckOrder, TypingOrder DEF Receive
  <1>3. CASE Socket
    <2>1. SocketReaction
      BY <1>3, SocketIsReaction DEF ChatInv, SocketInv, Assumptions
    <2>2. SocketStep /\ UNCHANGED <<shown, outgoing>>
      BY <2>1 DEF SocketReaction, chatButTyping, history
    <2>3. PICK d \in Devices : TRUE
      <3>1. ASSUME Devices = {}
            PROVE  FALSE
        BY <1>3, <3>1 DEF Socket, Accepted, Refused, PeerDisconnected,
              ServerNewConnection, ServerRejectConnection, ServerClientDisconnected,
              ChatInv, SocketInv, RoutesAreSound
      <3>2. QED
        BY <3>1
    <2>4. QED
      BY <2>2, <2>3, IdleOrder DEF ChatInv, StaysRead
  <1>4. CASE UNCHANGED vars
    BY <1>4 DEF vars, socketVars, chatVars, history, OrderInv, StaysRead, SentOnce,
                NotYetShown, OneShower, AcksAreTheShowers, ReadComesLast, ReadEndsIt,
                Source, IsChat, IsAck
  <1>5. QED
    BY <1>1, <1>2, <1>3, <1>4 DEF Next

\* On one connection "read" never goes back to "delivered", nor anywhere else:
\* frames keep their order, a message is answered by one device, and that
\* answers "delivered" before its user can read.  (chat_controller.cpp:325)
THEOREM ReadStaysRead ==
    ASSUME OneConnection
    PROVE  Spec => ReadIsFinal
  <1>1. Init => OrderInv
    BY DEF Init, SocketInit, OrderInv, SentOnce, NotYetShown, OneShower,
           AcksAreTheShowers, ReadComesLast, ReadEndsIt, AssumptionsHold, Assumptions,
           NoMessageAssumption, MessageState
  <1>2. ChatInv /\ OrderInv /\ [Next]_vars => OrderInv'
    BY OrderStep, AssumptionsHold
  <1>3. ChatInv /\ OrderInv /\ [Next]_vars
           => [\A d \in Devices, m \in Messages :
                  outgoing[d][m] = "Read" => outgoing'[d][m] = "Read"]_vars
    BY OrderStep, AssumptionsHold DEF StaysRead
  <1>4. QED
    BY <1>1, <1>2, <1>3, ChatInvHolds, PTL DEF Spec, ReadIsFinal
==============================================================================
