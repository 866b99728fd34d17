------------------------- MODULE MqttSignalingProofs -------------------------
(***************************************************************************)
(* Theorems about MqttSignaling for any set of connections and any bound   *)
(* on what is in flight.  MqttInv is inductive; its parts say where in the *)
(* protocol the client is, judged by what its connection still holds.      *)
(***************************************************************************)
EXTENDS MqttSignaling, SequenceTheorems, TLAPS

Presence == {"ONLINE", "OFFLINE"}

\* The client holds a connection unless its socket is unconnected; a connection
\* that is being set up is fresh at both ends; what a left one held is gone.
SockInv ==
    /\ sock = "Unconnected" <=> link = NoConn
    /\ sock \in {"Connecting", "Handshake"} => up[link] = <<>> /\ session # link
    /\ \A k \in Conns : k # link \/ sock \in {"Connecting", "Handshake"} => down[k] = <<>>

\* The state of the client follows its socket, and its intentions its calls.
StateInv ==
    /\ m_state \in {"Connected", "Subscribing", "Ready"} => sock \in {"Encrypted", "Closing"}
    /\ wanted /\ sock = "Connecting" => m_state = "Connecting"
    /\ wanted => ~intentional
    /\ ~wanted => ~reconnectTimer
    /\ ~wanted /\ ~intentional => sock = "Unconnected"

\* A connection carries one CONNECT and one answer to it, each alone, and until
\* the answer is read the client is not ready and the broker serves nothing.
ConnectInv ==
    /\ \A k \in Conns : \A i \in 1..Len(up[k]) : up[k][i] = "CONNECT" =>
          /\ up[k] = <<"CONNECT">> /\ session # k
          /\ k = link => down[k] = <<>> /\ m_state \in {"Connected", "Disconnected"}
    /\ \A k \in Conns : \A i \in 1..Len(down[k]) : down[k][i] = "CONNACK" =>
          /\ down[k] = <<"CONNACK">> /\ up[k] = <<>>
          /\ m_state \in {"Connected", "Disconnected"}
          /\ ~(subscribed /\ session = k)

\* DISCONNECT follows the publication of "offline".
FarewellInv ==
    \A k \in Conns : \A i \in 1..Len(up[k]) : up[k][i] = "DISCONNECT" =>
        IF i = 1 THEN session = k => last # "ONLINE" ELSE up[k][i - 1] = "OFFLINE"

\* What the client announced last is the last presence on its way to the broker,
\* or, when none is, what subscribers were told last.
ViewInv ==
    m_state = "Ready" /\ sock = "Encrypted" /\ session = link =>
        \/ \E i \in 1..Len(up[link]) :
              /\ up[link][i] = announced
              /\ \A j \in i+1..Len(up[link]) : up[link][j] \notin Presence
        \/ /\ last = announced
           /\ \A j \in 1..Len(up[link]) : up[link][j] \notin Presence

MqttInv ==
    /\ TypeOK /\ SockInv /\ StateInv /\ ReadyIsUndisturbed /\ WantedIsPursued
    /\ ConnectInv /\ FarewellInv /\ GoneIsOffline /\ ViewInv

-----------------------------------------------------------------------------
(* Packets.                                                                *)

\* Writing one packet.
LEMMA OneMore ==
    ASSUME NEW S, NEW s \in Seq(S), NEW p \in S
    PROVE  /\ s \o <<p>> \in Seq(S)
           /\ Len(s) \in Nat /\ Len(s \o <<p>>) = Len(s) + 1
           /\ \A i \in 1..Len(s) : (s \o <<p>>)[i] = s[i]
           /\ (s \o <<p>>)[Len(s) + 1] = p
  <1>1. <<p>> \in Seq(S) /\ Len(<<p>>) = 1 /\ <<p>>[1] = p
    OBVIOUS
  <1>2. Len(s) \in Nat
    BY LenProperties
  <1>3. QED
    BY <1>1, <1>2, ConcatProperties

\* Writing two.
LEMMA TwoMore ==
    ASSUME NEW S, NEW s \in Seq(S), NEW p \in S, NEW q \in S
    PROVE  /\ s \o <<p, q>> \in Seq(S)
           /\ Len(s) \in Nat /\ Len(s \o <<p, q>>) = Len(s) + 2
           /\ \A i \in 1..Len(s) : (s \o <<p, q>>)[i] = s[i]
           /\ (s \o <<p, q>>)[Len(s) + 1] = p /\ (s \o <<p, q>>)[Len(s) + 2] = q
  <1>1. <<p, q>> \in Seq(S) /\ Len(<<p, q>>) = 2 /\ <<p, q>>[1] = p /\ <<p, q>>[2] = q
    OBVIOUS
  <1>2. Len(s) \in Nat
    BY LenProperties
  <1>3. QED
    BY <1>1, <1>2, ConcatProperties

\* Reading one.
LEMMA OneLess ==
    ASSUME NEW S, NEW s \in Seq(S), s # <<>>
    PROVE  /\ Tail(s) \in Seq(S) /\ Head(s) = s[1] /\ Head(s) \in S
           /\ Len(s) \in Nat /\ Len(s) > 0 /\ Len(Tail(s)) = Len(s) - 1
           /\ \A i \in 1..Len(Tail(s)) : Tail(s)[i] = s[i + 1]
  BY HeadTailProperties, LenProperties, EmptySeq

LEMMA Appended ==
    ASSUME NEW S, NEW s \in Seq(S), NEW p \in S
    PROVE  /\ Append(s, p) \in Seq(S)
           /\ Len(s) \in Nat /\ Len(Append(s, p)) = Len(s) + 1
           /\ \A i \in 1..Len(s) : Append(s, p)[i] = s[i]
           /\ Append(s, p)[Len(s) + 1] = p
  BY LenProperties

-----------------------------------------------------------------------------
(* Type correctness, with the socket's invariant.                          *)

LEMMA LinkIsConn ==
    ASSUME TypeOK, SockInv, sock # "Unconnected"
    PROVE  link \in Conns /\ up[link] \in Seq(ToBroker) /\ down[link] \in Seq(ToClient)
  BY DEF TypeOK, SockInv

LEMMA SendType ==
    ASSUME TypeOK, SockInv, sock # "Unconnected", NEW p \in ToBroker, NEW q \in ToBroker
    PROVE  /\ Send(<<p>>) => up' \in [Conns -> Seq(ToBroker)]
           /\ Send(<<p, q>>) => up' \in [Conns -> Seq(ToBroker)]
  <1>1. up[link] \o <<p>> \in Seq(ToBroker) /\ up[link] \o <<p, q>> \in Seq(ToBroker)
    BY LinkIsConn, OneMore, TwoMore
  <1>2. up \in [Conns -> Seq(ToBroker)]
    BY DEF TypeOK
  <1>3. QED
    BY <1>1, <1>2 DEF Send

LEMMA UnlinkedType ==
    ASSUME TypeOK
    PROVE  Unlinked \in [Conns -> Seq(ToClient)]
  <1>1. <<>> \in Seq(ToClient)
    OBVIOUS
  <1>2. QED
    BY <1>1 DEF TypeOK, Unlinked

LEMMA ConsumedType ==
    ASSUME TypeOK, SockInv, NEW p, Reads(p), Consumed
    PROVE  down' \in [Conns -> Seq(ToClient)]
  <1>1. link \in Conns /\ down[link] \in Seq(ToClient) /\ down[link] # <<>>
    BY LinkIsConn DEF Reads
  <1>2. Tail(down[link]) \in Seq(ToClient)
    BY <1>1, OneLess
  <1>3. QED
    BY <1>2 DEF TypeOK, Consumed

LEMMA BrokerType ==
    ASSUME TypeOK, NEW k \in Conns
    PROVE  /\ \A p : BrokerReads(k, p) /\ BrokerConsumed(k) => up' \in [Conns -> Seq(ToBroker)]
           /\ \A p \in ToClient : BrokerAnswers(k, p) => down' \in [Conns -> Seq(ToClient)]
  <1>1. up[k] \in Seq(ToBroker) /\ down[k] \in Seq(ToClient)
    BY DEF TypeOK
  <1>2. up[k] # <<>> => Tail(up[k]) \in Seq(ToBroker)
    BY <1>1, OneLess
  <1>3. \A p \in ToClient : Append(down[k], p) \in Seq(ToClient)
    BY <1>1, Appended
  <1>4. QED
    BY <1>2, <1>3 DEF TypeOK, BrokerReads, BrokerConsumed, BrokerAnswers

\* The end of the connection.
LEMMA EndType ==
    ASSUME TypeOK, SocketGone, OnSocketDisconnected,
           UNCHANGED <<intentional, broker, wanted, announced>>,
           up' \in [Conns -> Seq(ToBroker)]
    PROVE  TypeOK'
  <1>1. down' \in [Conns -> Seq(ToClient)]
    BY UnlinkedType DEF SocketGone
  <1>2. QED
    BY <1>1 DEF TypeOK, SocketGone, OnSocketDisconnected, StopPing, broker, MqttState, SockState

LEMMA DialType ==
    ASSUME TypeOK, NEW k \in Conns, NEW emits \in BOOLEAN, Dial(k, emits),
           reconnectTimer' \in BOOLEAN, wanted' \in BOOLEAN
    PROVE  TypeOK'
  <1>1. down' \in [Conns -> Seq(ToClient)]
    BY UnlinkedType DEF Dial
  <1>2. <<>> \in Seq(ToBroker)
    OBVIOUS
  <1>3. up' \in [Conns -> Seq(ToBroker)]
    BY <1>2 DEF Dial, TypeOK
  <1>4. pingTimer' \in BOOLEAN /\ pingTimeout' \in BOOLEAN /\ pingOutstanding' \in BOOLEAN
    BY DEF TypeOK, Dial, StopPing
  <1>5. QED
    BY <1>1, <1>3, <1>4 DEF Dial, TypeOK, broker, MqttState, SockState

-----------------------------------------------------------------------------
(* Dialling, and the end of a connection.                                  *)

LEMMA DialInv ==
    ASSUME MqttInv, MqttAssumption, NEW k \in Conns, NEW emits \in BOOLEAN, Dial(k, emits),
           emits \in AbortEmits,
           reconnectTimer' \in BOOLEAN, wanted' \in BOOLEAN, wanted'
    PROVE  MqttInv'
  <1> USE DEF MqttInv
  <1>1. TypeOK'
    BY DialType
  <1>2. /\ sock' = "Connecting" /\ link' = k /\ m_state' = "Connecting" /\ ~intentional'
        /\ k \notin alive /\ k # link /\ down' = Unlinked /\ up' = [up EXCEPT ![k] = <<>>]
        /\ UNCHANGED <<broker, announced>>
    BY DEF Dial
  <1>3. SockInv'
    <2>1. up'[k] = <<>> /\ session' # k
      BY <1>2, MqttAssumption DEF TypeOK, broker
    <2>2. \A c \in Conns : down'[c] = <<>>
      BY <1>2 DEF SockInv, Unlinked, TypeOK
    <2>3. QED
      BY <1>2, <2>1, <2>2, MqttAssumption DEF SockInv
  <1>4. StateInv'
    BY <1>2 DEF StateInv
  <1>5. ~pingTimeout'
    BY DEF Dial, StopPing, AbortEmits, ReadyIsUndisturbed, StateInv, Up
  <1>6. ReadyIsUndisturbed' /\ WantedIsPursued'
    BY <1>2, <1>5 DEF ReadyIsUndisturbed, WantedIsPursued
  <1>7. ConnectInv'
    <2>1. ASSUME NEW c \in Conns, NEW i \in 1..Len(up'[c]), up'[c][i] = "CONNECT"
          PROVE  up'[c] = <<"CONNECT">> /\ session' # c /\ c # k
      <3>1. c # k
        BY <1>2, <2>1 DEF TypeOK
      <3>2. QED
        BY <1>2, <2>1, <3>1 DEF TypeOK, ConnectInv, broker
    <2>2. \A c \in Conns : down'[c] = <<>>
      BY <1>2 DEF SockInv, Unlinked, TypeOK
    <2>3. QED
      BY <1>2, <2>1, <2>2 DEF ConnectInv
  <1>8. FarewellInv'
    <2>1. ASSUME NEW c \in Conns, NEW i \in 1..Len(up'[c]), up'[c][i] = "DISCONNECT"
          PROVE  IF i = 1 THEN session' = c => last' # "ONLINE" ELSE up'[c][i - 1] = "OFFLINE"
      <3>1. c # k
        BY <1>2, <2>1 DEF TypeOK
      <3>2. up'[c] = up[c]
        BY <1>2, <3>1 DEF TypeOK
      <3>3. QED
        BY <1>2, <2>1, <3>2 DEF FarewellInv, broker
    <2>2. QED
      BY <2>1 DEF FarewellInv
  <1>9. GoneIsOffline' /\ ViewInv'
    BY <1>2 DEF GoneIsOffline, ViewInv, broker
  <1>10. QED
    BY <1>1, <1>3, <1>4, <1>6, <1>7, <1>8, <1>9

\* The client lets go of its connection; it may have written CONNECT to a new one.
LEMMA EndInv ==
    ASSUME MqttInv, MqttAssumption, Up, SocketGone, OnSocketDisconnected,
           UNCHANGED <<intentional, broker, wanted, announced>>,
           UNCHANGED up \/ (sock = "Handshake" /\ Send(<<"CONNECT">>))
    PROVE  MqttInv'
  <1> USE DEF MqttInv
  <1>0. link \in Conns
    BY LinkIsConn DEF Up
  <1>1. up' \in [Conns -> Seq(ToBroker)]
    BY SendType DEF TypeOK, ToBroker
  <1>2. TypeOK'
    BY <1>1, EndType
  <1>3. /\ sock' = "Unconnected" /\ link' = NoConn /\ m_state' = "Disconnected"
        /\ ~pingTimeout' /\ down' = Unlinked
        /\ reconnectTimer' = (reconnectTimer \/ ~intentional)
        /\ UNCHANGED <<intentional, alive, session, subscribed, last, wanted, announced>>
    BY DEF SocketGone, OnSocketDisconnected, StopPing, broker
  <1>4. \A c \in Conns : down'[c] = <<>>
    BY <1>3 DEF SockInv, Unlinked, TypeOK
  <1>5. SockInv' /\ StateInv' /\ ReadyIsUndisturbed' /\ WantedIsPursued'
    <2>1. reconnectTimer' <=> reconnectTimer \/ ~intentional
      BY <1>3
    <2>2. wanted' <=> wanted
      BY <1>3
    <2>3. intentional' <=> intentional
      BY <1>3
    <2>4. SockInv'
      BY <1>3, <1>4, MqttAssumption DEF SockInv
    <2>5. StateInv'
      BY <1>3, <2>1, <2>2, <2>3 DEF StateInv, Up
    <2>6. QED
      BY <1>3, <2>1, <2>2, <2>3, <2>4, <2>5 DEF ReadyIsUndisturbed, WantedIsPursued, StateInv
  <1>6. \A c \in Conns :
            \/ up'[c] = up[c]
            \/ up'[c] = <<"CONNECT">> /\ session' # c
    <2>1. CASE UNCHANGED up
      BY <2>1
    <2>2. CASE sock = "Handshake" /\ Send(<<"CONNECT">>)
      <3>1. up[link] = <<>> /\ session # link
        BY <2>2 DEF SockInv
      <3>2. up' = [up EXCEPT ![link] = <<"CONNECT">>]
        BY <2>2, <3>1 DEF Send
      <3>3. QED
        BY <3>1, <3>2, <1>3 DEF TypeOK
    <2>3. QED
      BY <2>1, <2>2
  <1>7. ConnectInv'
    <2>1. ASSUME NEW c \in Conns, NEW i \in 1..Len(up'[c]), up'[c][i] = "CONNECT"
          PROVE  up'[c] = <<"CONNECT">> /\ session' # c /\ c # link'
      BY <1>3, <1>6, <2>1, MqttAssumption DEF ConnectInv
    <2>2. QED
      BY <1>4, <2>1 DEF ConnectInv
  <1>8. FarewellInv'
    BY <1>3, <1>6 DEF FarewellInv
  <1>9. GoneIsOffline' /\ ViewInv'
    BY <1>3 DEF GoneIsOffline, ViewInv
  <1>10. QED
    BY <1>2, <1>5, <1>7, <1>8, <1>9

-----------------------------------------------------------------------------
(* Packets the client reads and writes.                                    *)

\* Once something has come down, or the client is ready, CONNECT is gone.
LEMMA ConnectIsRead ==
    ASSUME MqttInv, sock # "Unconnected",
           down[link] # <<>> \/ m_state \in {"Subscribing", "Ready"}
    PROVE  \A i \in 1..Len(up[link]) : up[link][i] # "CONNECT"
  BY LinkIsConn DEF MqttInv, ConnectInv

\* What is left after reading a packet holds no CONNACK.
LEMMA ReadFacts ==
    ASSUME MqttInv, NEW p, Reads(p), Consumed
    PROVE  /\ down' \in [Conns -> Seq(ToClient)]
           /\ \A c \in Conns : c # link => down'[c] = <<>>
           /\ \A c \in Conns : \A i \in 1..Len(down'[c]) : down'[c][i] # "CONNACK"
  <1> USE DEF MqttInv
  <1>1. link \in Conns /\ down[link] \in Seq(ToClient) /\ down[link] # <<>>
        /\ sock \in {"Encrypted", "Closing"}
    BY LinkIsConn DEF Reads
  <1>2. down'[link] = Tail(down[link]) /\ \A c \in Conns : c # link => down'[c] = <<>>
    BY <1>1 DEF Consumed, TypeOK, SockInv
  <1>3. ASSUME NEW i \in 1..Len(down'[link])
        PROVE  down'[link][i] # "CONNACK"
    <2>1. i + 1 \in 1..Len(down[link]) /\ down'[link][i] = down[link][i + 1]
      BY <1>1, <1>2, OneLess
    <2>2. down[link][i + 1] = "CONNACK" => down[link] = <<"CONNACK">>
      BY <1>1, <2>1 DEF ConnectInv
    <2>3. down[link] = <<"CONNACK">> => i + 1 = 1
      BY <2>1
    <2>4. QED
      BY <2>1, <2>2, <2>3
  <1>4. ASSUME NEW c \in Conns, NEW i \in 1..Len(down'[c])
        PROVE  down'[c][i] # "CONNACK"
    <2>1. c # link => Len(down'[c]) = 0
      BY <1>2
    <2>2. c = link
      BY <2>1
    <2>3. QED
      BY <1>3, <2>2
  <1>5. down' \in [Conns -> Seq(ToClient)]
    BY ConsumedType
  <1>6. QED
    BY <1>2, <1>4, <1>5

LEMMA SentPacket ==
    ASSUME MqttInv, sock \notin {"Unconnected", "Closing"}, NEW p \in ToBroker, Send(<<p>>)
    PROVE  /\ link \in Conns /\ Len(up[link]) \in Nat /\ Len(up'[link]) = Len(up[link]) + 1
           /\ \A i \in 1..Len(up[link]) : up'[link][i] = up[link][i]
           /\ up'[link][Len(up[link]) + 1] = p
           /\ \A c \in Conns : c # link => up'[c] = up[c]
  <1>1. link \in Conns /\ up[link] \in Seq(ToBroker)
    BY LinkIsConn DEF MqttInv
  <1>2. up'[link] = up[link] \o <<p>> /\ \A c \in Conns : c # link => up'[c] = up[c]
    BY <1>1 DEF Send, MqttInv, TypeOK
  <1>3. QED
    BY <1>1, <1>2, OneMore

\* Writing a packet, other than the first and the last, on a connection whose
\* CONNECT was answered.
LEMMA SendKeeps ==
    ASSUME MqttInv, sock \in {"Encrypted", "Closing"},
           NEW p \in ToBroker \ {"CONNECT", "DISCONNECT"}, Send(<<p>>),
           UNCHANGED <<session, last, link>>,
           \A i \in 1..Len(up[link]) : up[link][i] # "CONNECT",
           \A c \in Conns : \A i \in 1..Len(down'[c]) : down'[c][i] # "CONNACK"
    PROVE  ConnectInv' /\ FarewellInv'
  <1> USE DEF MqttInv
  <1>1. CASE sock = "Closing"
    <2>1. up' = up
      BY <1>1 DEF Send
    <2>2. ConnectInv'
      BY <2>1 DEF ConnectInv
    <2>3. QED
      BY <2>1, <2>2 DEF FarewellInv
  <1>2. CASE sock = "Encrypted"
    <2>1. /\ link \in Conns /\ Len(up[link]) \in Nat /\ Len(up'[link]) = Len(up[link]) + 1
          /\ \A i \in 1..Len(up[link]) : up'[link][i] = up[link][i]
          /\ up'[link][Len(up[link]) + 1] = p
          /\ \A c \in Conns : c # link => up'[c] = up[c]
      BY <1>2, SentPacket
    <2>2. ASSUME NEW c \in Conns, NEW i \in 1..Len(up'[c]), up'[c][i] = "CONNECT"
          PROVE  c # link /\ up'[c] = <<"CONNECT">> /\ session' # c
      <3>1. c # link
        BY <2>1, <2>2
      <3>2. QED
        BY <2>1, <2>2, <3>1 DEF ConnectInv
    <2>3. ConnectInv'
      BY <2>2 DEF ConnectInv
    <2>4. ASSUME NEW c \in Conns, NEW i \in 1..Len(up'[c]), up'[c][i] = "DISCONNECT"
          PROVE  IF i = 1 THEN session' = c => last' # "ONLINE" ELSE up'[c][i - 1] = "OFFLINE"
      <3>1. CASE c = link
        <4>1. i \in 1..Len(up[link]) /\ up[link][i] = "DISCONNECT"
          BY <2>1, <2>4, <3>1
        <4>2. i # 1 => i - 1 \in 1..Len(up[link])
          BY <2>1, <4>1
        <4>3. QED
          BY <2>1, <3>1, <4>1, <4>2 DEF FarewellInv
      <3>2. CASE c # link
        BY <2>1, <2>4, <3>2 DEF FarewellInv
      <3>3. QED
        BY <3>1, <3>2
    <2>5. QED
      BY <2>3, <2>4 DEF FarewellInv
  <1>3. QED
    BY <1>1, <1>2

\* Publishing a presence brings the view about; another packet leaves it.
LEMMA SendView ==
    ASSUME MqttInv, UNCHANGED <<sock, link, session, last>>, NEW p \in ToBroker, Send(<<p>>),
           \/ p \in Presence /\ announced' = IF sock = "Closing" THEN announced ELSE p
           \/ p \notin Presence /\ UNCHANGED <<m_state, announced>>
    PROVE  ViewInv'
  <1> SUFFICES ASSUME m_state' = "Ready", sock = "Encrypted", session = link
               PROVE  ViewInv'
    BY DEF ViewInv
  <1>1. /\ link \in Conns /\ Len(up[link]) \in Nat /\ Len(up'[link]) = Len(up[link]) + 1
        /\ \A i \in 1..Len(up[link]) : up'[link][i] = up[link][i]
        /\ up'[link][Len(up[link]) + 1] = p
    BY SentPacket
  <1>2. CASE p \in Presence
    <2>1. Len(up[link]) + 1 \in 1..Len(up'[link']) /\ up'[link'][Len(up[link]) + 1] = announced'
      BY <1>1, <1>2
    <2>2. \A j \in (Len(up[link]) + 1) + 1..Len(up'[link']) : up'[link'][j] \notin Presence
      BY <1>1
    <2>3. QED
      BY <2>1, <2>2 DEF ViewInv
  <1>3. CASE p \notin Presence
    <2>0. m_state = "Ready" /\ announced' = announced
      BY <1>3
    <2>1. CASE \E i \in 1..Len(up[link]) :
                  /\ up[link][i] = announced
                  /\ \A j \in i+1..Len(up[link]) : up[link][j] \notin Presence
      <3>1. PICK i \in 1..Len(up[link]) :
                  /\ up[link][i] = announced
                  /\ \A j \in i+1..Len(up[link]) : up[link][j] \notin Presence
        BY <2>1
      <3>2. i \in 1..Len(up'[link']) /\ up'[link'][i] = announced'
        BY <1>1, <2>0, <3>1
      <3>3. \A j \in i+1..Len(up'[link']) : up'[link'][j] \notin Presence
        BY <1>1, <1>3, <3>1
      <3>4. QED
        BY <3>2, <3>3 DEF ViewInv
    <2>2. CASE last = announced /\ \A j \in 1..Len(up[link]) : up[link][j] \notin Presence
      <3>1. \A j \in 1..Len(up'[link']) : up'[link'][j] \notin Presence
        BY <1>1, <1>3, <2>2
      <3>2. QED
        BY <2>0, <2>2, <3>1 DEF ViewInv
    <2>3. QED
      BY <2>0, <2>1, <2>2 DEF MqttInv, ViewInv
  <1>4. QED
    BY <1>2, <1>3

\* Steps of the client that write one packet, in use or closing.
LEMMA WriteInv ==
    ASSUME MqttInv, sock \in {"Encrypted", "Closing"},
           NEW p \in ToBroker \ {"CONNECT", "DISCONNECT"}, Send(<<p>>),
           \/ p \in Presence /\ announced' = IF sock = "Closing" THEN announced ELSE p
           \/ p \notin Presence /\ m_state' \in {m_state, "Subscribing"} /\ UNCHANGED announced,
           UNCHANGED <<intentional, socket, broker, wanted>>,
           m_state' \in MqttState,
           pingTimer' \in BOOLEAN, pingTimeout' \in BOOLEAN, pingOutstanding' \in BOOLEAN,
           reconnectTimer' \in BOOLEAN, reconnectTimer' => reconnectTimer,
           m_state' = "Ready" => ~reconnectTimer',
           pingTimeout' => m_state' = "Ready" /\ pingOutstanding',
           \A i \in 1..Len(up[link]) : up[link][i] # "CONNECT",
           down' \in [Conns -> Seq(ToClient)],
           \A c \in Conns : c # link => down'[c] = <<>>,
           \A c \in Conns : \A i \in 1..Len(down'[c]) : down'[c][i] # "CONNACK"
    PROVE  MqttInv'
  <1> USE DEF MqttInv
  <1>0. UNCHANGED <<intentional, sock, pendingClose, link, alive, session, subscribed,
                    last, wanted>>
    BY DEF socket, broker
  <1>1. up' \in [Conns -> Seq(ToBroker)]
    BY SendType
  <1>2. announced' \in {"none", "ONLINE", "OFFLINE"}
    BY DEF TypeOK, Presence
  <1>3. TypeOK'
    BY <1>0, <1>1, <1>2 DEF TypeOK
  <1>4. SockInv'
    BY <1>0 DEF SockInv
  <1>5. StateInv' /\ ReadyIsUndisturbed' /\ WantedIsPursued' /\ GoneIsOffline'
    BY <1>0 DEF StateInv, ReadyIsUndisturbed, WantedIsPursued, GoneIsOffline
  <1>6. ConnectInv' /\ FarewellInv'
    BY <1>0, SendKeeps
  <1>7. ViewInv'
    <2>1. CASE m_state' = "Ready"
      <3>1. p \notin Presence => UNCHANGED m_state
        BY <2>1
      <3>2. QED
        BY <1>0, <3>1, SendView
    <2>2. CASE m_state' # "Ready"
      BY <2>2 DEF ViewInv
    <2>3. QED
      BY <2>1, <2>2
  <1>8. QED
    BY <1>3, <1>4, <1>5, <1>6, <1>7

LEMMA NotConnackWhenReady ==
    ASSUME MqttInv, m_state = "Ready", UNCHANGED down
    PROVE  \A c \in Conns : /\ c # link => down'[c] = <<>>
                            /\ \A i \in 1..Len(down'[c]) : down'[c][i] # "CONNACK"
  BY DEF MqttInv, ConnectInv, SockInv

\* Handlers that answer what they read.
LEMMA HandleInv ==
    ASSUME MqttInv, HandleConnack \/ HandleSuback \/ HandleDiscovery
    PROVE  MqttInv'
  <1> USE DEF Publish
  <1>1. CASE HandleConnack
    <2>1. /\ Reads("CONNACK") /\ Consumed /\ sock \in {"Encrypted", "Closing"}
          /\ down[link] # <<>> /\ link \in Conns /\ down[link] \in Seq(ToClient)
      BY <1>1, LinkIsConn DEF HandleConnack, Reads, MqttInv
    <2>2. m_state # "Ready"
      <3>1. 1 \in 1..Len(down[link]) /\ down[link][1] = "CONNACK"
        BY <2>1, OneLess DEF Reads
      <3>2. QED
        BY <2>1, <3>1 DEF MqttInv, ConnectInv
    <2>3. ~pingTimeout
      BY <2>2 DEF MqttInv, ReadyIsUndisturbed
    <2>4. /\ m_state' = "Subscribing" /\ Send(<<"SUBSCRIBE">>) /\ pingTimer' = TRUE
          /\ UNCHANGED <<intentional, pingTimeout, pingOutstanding, reconnectTimer, socket,
                         broker, wanted, announced>>
      BY <1>1 DEF HandleConnack
    <2>5. "SUBSCRIBE" \in ToBroker \ {"CONNECT", "DISCONNECT"} /\ "SUBSCRIBE" \notin Presence
          /\ "Subscribing" \in MqttState
      BY DEF ToBroker, Presence, MqttState
    <2>6. \A i \in 1..Len(up[link]) : up[link][i] # "CONNECT"
      BY <2>1, ConnectIsRead
    <2>7. pingTimeout' \in BOOLEAN /\ pingOutstanding' \in BOOLEAN /\ reconnectTimer' \in BOOLEAN
      BY <2>4 DEF MqttInv, TypeOK
    <2>8. QED
      BY <2>1, <2>3, <2>4, <2>5, <2>6, <2>7, ReadFacts, WriteInv
  <1>2. CASE HandleSuback
    <2>1. /\ Reads("SUBACK") /\ Consumed /\ sock \in {"Encrypted", "Closing"}
          /\ down[link] # <<>>
      BY <1>2 DEF HandleSuback, Reads
    <2>2. /\ m_state' = "Ready" /\ ~reconnectTimer' /\ reconnectTimer' = FALSE
          /\ Send(<<"ONLINE">>)
          /\ announced' = IF sock = "Closing" THEN announced ELSE "ONLINE"
          /\ UNCHANGED <<intentional, pingTimer, pingTimeout, pingOutstanding, socket,
                         broker, wanted>>
      BY <1>2 DEF HandleSuback
    <2>3. "ONLINE" \in ToBroker \ {"CONNECT", "DISCONNECT"} /\ "ONLINE" \in Presence
          /\ "Ready" \in MqttState
      BY DEF ToBroker, Presence, MqttState
    <2>4. \A i \in 1..Len(up[link]) : up[link][i] # "CONNECT"
      BY <2>1, ConnectIsRead
    <2>5. pingTimer' \in BOOLEAN /\ pingTimeout' \in BOOLEAN /\ pingOutstanding' \in BOOLEAN
      BY <2>2 DEF MqttInv, TypeOK
    <2>6. pingTimeout' => pingOutstanding'
      BY <2>2 DEF MqttInv, ReadyIsUndisturbed
    <2>7. QED
      BY <2>1, <2>2, <2>3, <2>4, <2>5, <2>6, ReadFacts, WriteInv
  <1>3. CASE HandleDiscovery
    <2>1. /\ Reads("DISCOVERY") /\ Consumed /\ sock \in {"Encrypted", "Closing"}
          /\ down[link] # <<>>
      BY <1>3 DEF HandleDiscovery, Reads
    <2>2. /\ Send(<<"ONLINE">>)
          /\ announced' = IF sock = "Closing" THEN announced ELSE "ONLINE"
          /\ UNCHANGED <<m_state, intentional, pingTimer, pingTimeout, pingOutstanding,
                         reconnectTimer, socket, broker, wanted>>
      BY <1>3 DEF HandleDiscovery, client, timers
    <2>3. "ONLINE" \in ToBroker \ {"CONNECT", "DISCONNECT"} /\ "ONLINE" \in Presence
      BY DEF ToBroker, Presence
    <2>4. \A i \in 1..Len(up[link]) : up[link][i] # "CONNECT"
      BY <2>1, ConnectIsRead
    <2>5. /\ m_state' \in MqttState /\ pingTimer' \in BOOLEAN /\ pingTimeout' \in BOOLEAN
          /\ pingOutstanding' \in BOOLEAN /\ reconnectTimer' \in BOOLEAN
          /\ m_state' = "Ready" => ~reconnectTimer'
          /\ pingTimeout' => m_state' = "Ready" /\ pingOutstanding'
      BY <2>2 DEF MqttInv, TypeOK, ReadyIsUndisturbed
    <2>6. QED
      BY <2>1, <2>2, <2>3, <2>4, <2>5, ReadFacts, WriteInv
  <1>4. QED
    BY <1>1, <1>2, <1>3

\* onPingTimer, and what the application announces.
LEMMA WhileReadyInv ==
    ASSUME MqttInv, PingTimer \/ Announce("ONLINE") \/ Announce("OFFLINE")
    PROVE  MqttInv'
  <1>1. m_state = "Ready" /\ UNCHANGED <<down, socket, broker, wanted, intentional>>
    BY DEF PingTimer, Announce, client
  <1>2. /\ sock \in {"Encrypted", "Closing"} /\ ~reconnectTimer
        /\ down \in [Conns -> Seq(ToClient)]
    BY <1>1 DEF MqttInv, ReadyIsUndisturbed, TypeOK
  <1>3. \A i \in 1..Len(up[link]) : up[link][i] # "CONNECT"
    BY <1>1, <1>2, ConnectIsRead
  <1>4. \A c \in Conns : /\ c # link => down'[c] = <<>>
                         /\ \A i \in 1..Len(down'[c]) : down'[c][i] # "CONNACK"
    BY <1>1, NotConnackWhenReady
  <1>5. CASE PingTimer
    <2>1. /\ pingOutstanding' = TRUE /\ pingTimeout' = TRUE /\ Send(<<"PINGREQ">>)
          /\ UNCHANGED <<m_state, pingTimer, reconnectTimer, announced>>
      BY <1>5 DEF PingTimer
    <2>2. "PINGREQ" \in ToBroker \ {"CONNECT", "DISCONNECT"} /\ "PINGREQ" \notin Presence
          /\ "Ready" \in MqttState
      BY DEF ToBroker, Presence, MqttState
    <2>3. pingTimer' \in BOOLEAN /\ reconnectTimer' \in BOOLEAN
      BY <2>1 DEF MqttInv, TypeOK
    <2>4. QED
      BY <1>1, <1>2, <1>3, <1>4, <2>1, <2>2, <2>3, WriteInv
  <1>6. ASSUME NEW p \in Presence, Announce(p)
        PROVE  MqttInv'
    <2>1. /\ Send(<<p>>) /\ announced' = IF sock = "Closing" THEN announced ELSE p
          /\ UNCHANGED <<m_state, pingTimer, pingTimeout, pingOutstanding, reconnectTimer>>
      BY <1>6 DEF Announce, Publish, client, timers
    <2>2. p \in ToBroker \ {"CONNECT", "DISCONNECT"}
      BY DEF ToBroker, Presence
    <2>3. /\ m_state' \in MqttState /\ pingTimer' \in BOOLEAN /\ pingTimeout' \in BOOLEAN
          /\ pingOutstanding' \in BOOLEAN /\ reconnectTimer' \in BOOLEAN
          /\ m_state' = "Ready" => ~reconnectTimer'
          /\ pingTimeout' => m_state' = "Ready" /\ pingOutstanding'
      BY <2>1 DEF MqttInv, TypeOK, ReadyIsUndisturbed
    <2>4. QED
      BY <1>1, <1>2, <1>3, <1>4, <2>1, <2>2, <2>3, WriteInv
  <1>7. QED
    BY <1>5, <1>6 DEF Presence

-----------------------------------------------------------------------------
(* The socket's slots.                                                     *)

\* Steps that leave the state and what the broker knows and is sent alone.
LEMMA QuietInv ==
    ASSUME MqttInv, MqttAssumption, TypeOK', SockInv', StateInv', ReadyIsUndisturbed',
           WantedIsPursued',
           UNCHANGED <<m_state, up, session, subscribed, last, announced>>,
           m_state = "Ready" /\ sock' = "Encrypted" => UNCHANGED <<sock, link>>,
           \/ UNCHANGED <<down, link>>
           \/ link' = NoConn /\ \A c \in Conns : down'[c] = <<>>
           \/ /\ UNCHANGED link /\ \A i \in 1..Len(up[link]) : up[link][i] # "CONNECT"
              /\ \A c \in Conns : \A i \in 1..Len(down'[c]) : down'[c][i] # "CONNACK"
    PROVE  MqttInv'
  <1> USE DEF MqttInv
  <1>1. FarewellInv' /\ GoneIsOffline' /\ ViewInv'
    BY DEF FarewellInv, GoneIsOffline, ViewInv
  <1>2. ASSUME NEW c \in Conns, NEW i \in 1..Len(up'[c]), up'[c][i] = "CONNECT"
        PROVE  /\ up'[c] = <<"CONNECT">> /\ session' # c
               /\ c = link' => down'[c] = <<>> /\ m_state' \in {"Connected", "Disconnected"}
    BY <1>2, MqttAssumption DEF ConnectInv
  <1>3. ASSUME NEW c \in Conns, NEW i \in 1..Len(down'[c]), down'[c][i] = "CONNACK"
        PROVE  /\ down'[c] = <<"CONNACK">> /\ up'[c] = <<>>
               /\ m_state' \in {"Connected", "Disconnected"}
               /\ ~(subscribed' /\ session' = c)
    <2>1. down'[c] # <<>>
      BY <1>3
    <2>2. QED
      BY <1>3, <2>1 DEF ConnectInv
  <1>4. ConnectInv'
    BY <1>2, <1>3 DEF ConnectInv
  <1>5. QED
    BY <1>1, <1>4

LEMMA DialAnsweredInv ==
    ASSUME MqttInv, MqttAssumption, SocketConnected \/ DialFails
    PROVE  MqttInv'
  <1> USE DEF MqttInv
  <1>1. CASE SocketConnected
    <2>1. /\ sock = "Connecting" /\ sock' = "Handshake" /\ alive' = alive \cup {link}
          /\ UNCHANGED <<m_state, intentional, pingTimer, pingTimeout, pingOutstanding,
                         reconnectTimer, pendingClose, link, up, down, session, subscribed,
                         last, wanted, announced>>
      BY <1>1 DEF SocketConnected, client, timers
    <2>2. link \in Conns
      BY <2>1, LinkIsConn
    <2>3. TypeOK'
      BY <2>1, <2>2 DEF TypeOK, SockState
    <2>4. SockInv' /\ StateInv' /\ ReadyIsUndisturbed' /\ WantedIsPursued'
      BY <2>1 DEF SockInv, StateInv, ReadyIsUndisturbed, WantedIsPursued
    <2>5. QED
      BY <2>1, <2>3, <2>4, QuietInv
  <1>2. CASE DialFails
    <2>1. /\ sock = "Connecting" /\ sock' = "Unconnected" /\ link' = NoConn
          /\ pendingClose' = FALSE /\ down' = Unlinked
          /\ UNCHANGED <<m_state, intentional, pingTimer, pingTimeout, pingOutstanding,
                         reconnectTimer, up, alive, session, subscribed, last, wanted,
                         announced>>
      BY <1>2 DEF DialFails, SocketGone, client, timers, broker
    <2>2. \A c \in Conns : down'[c] = <<>>
      BY <2>1 DEF SockInv, Unlinked, TypeOK
    <2>3. TypeOK'
      BY <2>1, UnlinkedType DEF TypeOK, SockState
    <2>4. SockInv' /\ StateInv' /\ ReadyIsUndisturbed' /\ WantedIsPursued'
      BY <2>1, <2>2, MqttAssumption DEF SockInv, StateInv, ReadyIsUndisturbed, WantedIsPursued
    <2>5. QED
      BY <2>1, <2>2, <2>3, <2>4, QuietInv
  <1>3. QED
    BY <1>1, <1>2

LEMMA SocketEncryptedInv ==
    ASSUME MqttInv, MqttAssumption, SocketEncrypted
    PROVE  MqttInv'
  <1> USE DEF MqttInv
  <1>1. /\ sock = "Handshake" /\ Send(<<"CONNECT">>)
        /\ UNCHANGED <<alive, session, subscribed, last, wanted, announced>>
    BY DEF SocketEncrypted, broker
  <1>2. CASE SocketGone /\ OnSocketDisconnected /\ UNCHANGED intentional
    BY <1>1, <1>2, EndInv DEF SocketEncrypted, Up
  <1>3. CASE /\ sock' \in {"Encrypted", "Closing"} /\ m_state' = "Connected"
             /\ pendingClose' \in BOOLEAN
             /\ UNCHANGED <<intentional, timers, link, down>>
    <2>0. UNCHANGED <<pingTimer, pingTimeout, pingOutstanding, reconnectTimer>>
      BY <1>3 DEF timers
    <2>1. /\ link \in Conns /\ up[link] = <<>> /\ session # link
          /\ \A c \in Conns : down[c] = <<>>
      BY <1>1, LinkIsConn DEF SockInv
    <2>2. up' = [up EXCEPT ![link] = <<"CONNECT">>]
      BY <1>1, <2>1 DEF Send
    <2>3. up'[link] = <<"CONNECT">> /\ \A c \in Conns : c # link => up'[c] = up[c]
      BY <2>1, <2>2 DEF TypeOK
    <2>4. up' \in [Conns -> Seq(ToBroker)]
      BY <1>1, SendType DEF ToBroker
    <2>5. TypeOK'
      BY <1>1, <1>3, <2>0, <2>4 DEF TypeOK, MqttState, SockState
    <2>6. ~pingTimeout
      BY <1>1 DEF StateInv, ReadyIsUndisturbed
    <2>7. SockInv' /\ StateInv' /\ ReadyIsUndisturbed' /\ WantedIsPursued'
      BY <1>1, <1>3, <2>0, <2>6 DEF SockInv, StateInv, ReadyIsUndisturbed, WantedIsPursued
    <2>8. ConnectInv'
      <3>1. ASSUME NEW c \in Conns, NEW i \in 1..Len(up'[c]), up'[c][i] = "CONNECT"
            PROVE  up'[c] = <<"CONNECT">> /\ session' # c
        BY <1>1, <2>1, <2>3, <3>1 DEF ConnectInv
      <3>2. QED
        BY <1>3, <2>1, <3>1 DEF ConnectInv
    <2>9. FarewellInv'
      <3>1. ASSUME NEW c \in Conns, NEW i \in 1..Len(up'[c]), up'[c][i] = "DISCONNECT"
            PROVE  c # link
        BY <2>3, <3>1
      <3>2. QED
        BY <1>1, <2>3, <3>1 DEF FarewellInv
    <2>10. GoneIsOffline' /\ ViewInv'
      BY <1>1, <1>3 DEF GoneIsOffline, ViewInv
    <2>11. QED
      BY <2>5, <2>7, <2>8, <2>9, <2>10
  <1>4. QED
    BY <1>2, <1>3 DEF SocketEncrypted, TypeOK

LEMMA ConnectionEndsInv ==
    ASSUME MqttInv, MqttAssumption,
           SocketDisconnected \/ HandleConnackRefused \/ (PingTimeout /\ pingOutstanding)
    PROVE  MqttInv'
  <1>1. ConnectionEnds
    BY DEF SocketDisconnected, HandleConnackRefused, PingTimeout
  <1>2. Up
    BY DEF SocketDisconnected, HandleConnackRefused, PingTimeout, Reads, Up, MqttInv,
           ReadyIsUndisturbed
  <1>3. QED
    BY <1>1, <1>2, EndInv DEF ConnectionEnds

LEMMA PingAnsweredInv ==
    ASSUME MqttInv, MqttAssumption, HandlePingresp \/ (PingTimeout /\ ~pingOutstanding)
    PROVE  MqttInv'
  <1> USE DEF MqttInv
  <1>1. CASE HandlePingresp
    <2>1. /\ Reads("PINGRESP") /\ Consumed /\ pingOutstanding' = FALSE /\ pingTimeout' = FALSE
          /\ UNCHANGED <<m_state, intentional, pingTimer, reconnectTimer, sock, pendingClose,
                         link, up, alive, session, subscribed, last, wanted, announced>>
      BY <1>1 DEF HandlePingresp, socket, broker
    <2>2. /\ down' \in [Conns -> Seq(ToClient)]
          /\ \A c \in Conns : c # link => down'[c] = <<>>
          /\ \A c \in Conns : \A i \in 1..Len(down'[c]) : down'[c][i] # "CONNACK"
      BY <2>1, ReadFacts
    <2>3. sock \in {"Encrypted", "Closing"} /\ down[link] # <<>>
      BY <2>1 DEF Reads
    <2>4. TypeOK'
      BY <2>1, <2>2 DEF TypeOK
    <2>5. SockInv' /\ StateInv' /\ ReadyIsUndisturbed' /\ WantedIsPursued'
      BY <2>1, <2>2, <2>3 DEF SockInv, StateInv, ReadyIsUndisturbed, WantedIsPursued
    <2>6. \A i \in 1..Len(up[link]) : up[link][i] # "CONNECT"
      BY <2>3, ConnectIsRead
    <2>7. QED
      BY <2>1, <2>2, <2>4, <2>5, <2>6, QuietInv
  <1>2. CASE PingTimeout /\ ~pingOutstanding
    BY <1>2 DEF PingTimeout, ReadyIsUndisturbed
  <1>3. QED
    BY <1>1, <1>2

-----------------------------------------------------------------------------
(* disconnectFromBroker.                                                   *)

\* The farewell is written only on a connection in use whose CONNECT was read.
LEMMA FarewellPackets ==
    ASSUME MqttInv, Farewell
    PROVE  \/ up' = up
           \/ /\ m_state = "Ready" /\ link \in Conns /\ up' \in [Conns -> Seq(ToBroker)]
              /\ Len(up[link]) \in Nat /\ Len(up'[link]) = Len(up[link]) + 2
              /\ \A i \in 1..Len(up[link]) :
                    up'[link][i] = up[link][i] /\ up[link][i] # "CONNECT"
              /\ up'[link][Len(up[link]) + 1] = "OFFLINE"
              /\ up'[link][Len(up[link]) + 2] = "DISCONNECT"
              /\ \A c \in Conns : c # link => up'[c] = up[c]
  <1> USE DEF MqttInv
  <1>1. CASE m_state = "Ready" /\ sock # "Closing"
    <2>1. sock = "Encrypted"
      BY <1>1 DEF ReadyIsUndisturbed
    <2>2. link \in Conns /\ up[link] \in Seq(ToBroker)
      BY <2>1, LinkIsConn
    <2>3. up' = [up EXCEPT ![link] = up[link] \o <<"OFFLINE", "DISCONNECT">>]
      BY <1>1 DEF Farewell, Send
    <2>4. /\ up'[link] = up[link] \o <<"OFFLINE", "DISCONNECT">>
          /\ \A c \in Conns : c # link => up'[c] = up[c]
      BY <2>2, <2>3 DEF TypeOK
    <2>5. "OFFLINE" \in ToBroker /\ "DISCONNECT" \in ToBroker
      BY DEF ToBroker
    <2>6. up' \in [Conns -> Seq(ToBroker)]
      BY <2>2, <2>3, <2>5, TwoMore DEF TypeOK
    <2>7. \A i \in 1..Len(up[link]) : up[link][i] # "CONNECT"
      BY <1>1, <2>1, ConnectIsRead
    <2>8. QED
      BY <1>1, <2>2, <2>4, <2>5, <2>6, <2>7, TwoMore
  <1>2. CASE ~(m_state = "Ready" /\ sock # "Closing")
    BY <1>2 DEF Farewell, Send
  <1>3. QED
    BY <1>1, <1>2

LEMMA FarewellKeeps ==
    ASSUME MqttInv, Farewell, UNCHANGED <<session, last>>
    PROVE  /\ FarewellInv' /\ up' \in [Conns -> Seq(ToBroker)]
           /\ announced' \in {"none", "ONLINE", "OFFLINE"}
  <1> USE DEF MqttInv
  <1>1. announced' \in {"none", "ONLINE", "OFFLINE"}
    BY DEF Farewell, TypeOK
  <1>2. CASE up' = up
    BY <1>1, <1>2 DEF FarewellInv, TypeOK
  <1>3. CASE up' # up
    <2>1. ASSUME NEW c \in Conns, NEW i \in 1..Len(up'[c]), up'[c][i] = "DISCONNECT"
          PROVE  IF i = 1 THEN session' = c => last' # "ONLINE" ELSE up'[c][i - 1] = "OFFLINE"
      <3>1. CASE c # link
        BY <1>3, <2>1, <3>1, FarewellPackets DEF FarewellInv
      <3>2. CASE c = link /\ i \in 1..Len(up[c])
        <4>1. i # 1 => i - 1 \in 1..Len(up[c])
          BY <1>3, <3>2, FarewellPackets
        <4>2. QED
          BY <1>3, <2>1, <3>2, <4>1, FarewellPackets DEF FarewellInv
      <3>3. CASE c = link /\ i \notin 1..Len(up[c])
        <4>1. i = Len(up[c]) + 2
          BY <1>3, <2>1, <3>3, FarewellPackets
        <4>2. QED
          BY <1>3, <3>3, <4>1, FarewellPackets
      <3>4. QED
        BY <3>1, <3>2, <3>3
    <2>2. QED
      BY <1>1, <1>3, <2>1, FarewellPackets DEF FarewellInv
  <1>4. QED
    BY <1>2, <1>3

\* Where the close leaves the socket.
LEMMA CloseSocketIs ==
    ASSUME MqttInv, CloseSocket
    PROVE  /\ sock' \in SockState /\ pendingClose' \in BOOLEAN
           /\ link' \in {link, NoConn} /\ (sock' = "Unconnected" <=> link' = NoConn)
           /\ down' \in [Conns -> Seq(ToClient)]
           /\ \A c \in Conns : down'[c] = down[c] \/ down'[c] = <<>>
           /\ \A c \in Conns : c # link' => down'[c] = <<>>
           /\ sock' \in {"Connecting", "Handshake"} =>
                 sock' = sock /\ link' = link /\ down' = down
  <1> USE DEF MqttInv
  <1>1. CASE sock = "Unconnected" /\ UNCHANGED <<socket, down>>
    BY <1>1 DEF TypeOK, SockInv, socket
  <1>2. CASE sock = "Connecting" /\ pendingClose' = TRUE /\ UNCHANGED <<sock, link, down>>
    BY <1>2 DEF TypeOK, SockInv
  <1>3. CASE Up /\ sock' = "Closing" /\ UNCHANGED <<pendingClose, link, down>>
    BY <1>3 DEF TypeOK, SockInv, SockState, Up
  <1>4. CASE Up /\ SocketGone
    <2>1. \A c \in Conns : down'[c] = <<>>
      BY <1>4 DEF SocketGone, Unlinked, SockInv, TypeOK
    <2>2. QED
      BY <1>4, <2>1, UnlinkedType DEF SocketGone, SockState
  <1>5. QED
    BY <1>1, <1>2, <1>3, <1>4 DEF CloseSocket

LEMMA DisconnectFromBrokerInv ==
    ASSUME MqttInv, MqttAssumption, DisconnectFromBroker
    PROVE  MqttInv'
  <1> USE DEF MqttInv
  <1>1. /\ intentional' = TRUE /\ reconnectTimer' = FALSE /\ pingTimer' = FALSE
        /\ pingTimeout' = FALSE /\ m_state' = "Disconnected" /\ wanted' = FALSE
        /\ pingOutstanding' = (pingOutstanding /\ sock' # "Unconnected")
        /\ Farewell /\ CloseSocket /\ UNCHANGED <<alive, session, subscribed, last>>
    BY DEF DisconnectFromBroker, GoOffline, broker
  <1>2. pingOutstanding' \in BOOLEAN
    BY <1>1
  <1>3. TypeOK'
    BY <1>1, <1>2, CloseSocketIs, FarewellKeeps DEF TypeOK, MqttState
  <1>4. SockInv'
    <2>1. sock' \in {"Connecting", "Handshake"} => up'[link'] = <<>> /\ session' # link'
      <3>1. ASSUME sock' \in {"Connecting", "Handshake"}
            PROVE  up'[link'] = <<>> /\ session' # link'
        <4>1. sock' = sock /\ link' = link
          BY <1>1, <3>1, CloseSocketIs
        <4>2. m_state # "Ready"
          BY <3>1, <4>1 DEF StateInv
        <4>3. up' = up
          BY <1>1, <4>2 DEF Farewell
        <4>4. QED
          BY <1>1, <3>1, <4>1, <4>3 DEF SockInv
      <3>2. QED
        BY <3>1
    <2>2. \A c \in Conns : c # link' \/ sock' \in {"Connecting", "Handshake"} => down'[c] = <<>>
      BY <1>1, CloseSocketIs DEF SockInv
    <2>3. QED
      BY <1>1, <2>1, <2>2, CloseSocketIs DEF SockInv
  <1>5. StateInv' /\ ReadyIsUndisturbed' /\ WantedIsPursued'
    BY <1>1 DEF StateInv, ReadyIsUndisturbed, WantedIsPursued
  <1>6. ConnectInv'
    <2>1. ASSUME NEW c \in Conns, NEW i \in 1..Len(up'[c]), up'[c][i] = "CONNECT"
          PROVE  /\ up'[c] = <<"CONNECT">> /\ session' # c
                 /\ c = link' => down'[c] = <<>> /\ m_state' \in {"Connected", "Disconnected"}
      <3>1. up'[c] = up[c] /\ i \in 1..Len(up[c])
        <4>1. CASE up' = up
          BY <4>1
        <4>2. CASE up' # up
          BY <1>1, <2>1, <4>2, FarewellPackets
        <4>3. QED
          BY <4>1, <4>2
      <3>2. up[c] = <<"CONNECT">> /\ session # c /\ (c = link => down[c] = <<>>)
        BY <2>1, <3>1 DEF ConnectInv
      <3>3. c = link' => c = link
        BY <1>1, CloseSocketIs, MqttAssumption
      <3>4. down'[c] = down[c] \/ down'[c] = <<>>
        BY <1>1, CloseSocketIs
      <3>5. QED
        BY <1>1, <3>1, <3>2, <3>3, <3>4
    <2>2. ASSUME NEW c \in Conns, NEW i \in 1..Len(down'[c]), down'[c][i] = "CONNACK"
          PROVE  /\ down'[c] = <<"CONNACK">> /\ up'[c] = <<>>
                 /\ m_state' \in {"Connected", "Disconnected"}
                 /\ ~(subscribed' /\ session' = c)
      <3>1. down'[c] = down[c]
        <4>1. down'[c] # <<>>
          BY <2>2
        <4>2. QED
          BY <1>1, <4>1, CloseSocketIs
      <3>2. /\ down[c] = <<"CONNACK">> /\ up[c] = <<>> /\ m_state # "Ready"
            /\ ~(subscribed /\ session = c)
        BY <2>2, <3>1 DEF ConnectInv
      <3>3. up' = up
        BY <1>1, <3>2 DEF Farewell
      <3>4. QED
        BY <1>1, <3>1, <3>2, <3>3
    <2>3. QED
      BY <2>1, <2>2 DEF ConnectInv
  <1>7. FarewellInv' /\ GoneIsOffline' /\ ViewInv'
    BY <1>1, FarewellKeeps DEF GoneIsOffline, ViewInv
  <1>8. QED
    BY <1>3, <1>4, <1>5, <1>6, <1>7

-----------------------------------------------------------------------------
(* The broker.                                                             *)

LEMMA BrokerReadFacts ==
    ASSUME MqttInv, NEW k \in Conns, NEW p, BrokerReads(k, p), BrokerConsumed(k)
    PROVE  /\ up' \in [Conns -> Seq(ToBroker)] /\ up[k] # <<>> /\ Head(up[k]) = p
           /\ Len(up[k]) \in Nat /\ Len(up[k]) > 0 /\ up[k][1] = p
           /\ Len(up'[k]) = Len(up[k]) - 1
           /\ \A i \in 1..Len(up'[k]) : i + 1 \in 1..Len(up[k]) /\ up'[k][i] = up[k][i + 1]
           /\ \A c \in Conns : c # k => up'[c] = up[c]
           /\ sock \in {"Connecting", "Handshake"} => k # link
  <1> USE DEF MqttInv
  <1>1. up[k] \in Seq(ToBroker) /\ up[k] # <<>> /\ Head(up[k]) = p
    BY DEF TypeOK, BrokerReads
  <1>2. up'[k] = Tail(up[k]) /\ \A c \in Conns : c # k => up'[c] = up[c]
    BY DEF TypeOK, BrokerConsumed
  <1>3. up' \in [Conns -> Seq(ToBroker)]
    BY BrokerType
  <1>4. sock \in {"Connecting", "Handshake"} => k # link
    BY <1>1 DEF SockInv
  <1>5. /\ Len(up[k]) \in Nat /\ Len(up[k]) > 0 /\ up[k][1] = p
        /\ Len(up'[k]) = Len(up[k]) - 1
        /\ \A i \in 1..Len(up'[k]) : up'[k][i] = up[k][i + 1]
    BY <1>1, <1>2, OneLess
  <1>6. \A i \in 1..Len(up'[k]) : i + 1 \in 1..Len(up[k])
    BY <1>5
  <1>7. QED
    BY <1>1, <1>2, <1>3, <1>4, <1>5, <1>6

\* An answer is the last thing to come down; nothing else changes there.
LEMMA AnswerFacts ==
    ASSUME MqttInv, NEW k \in Conns, NEW p \in ToClient, BrokerAnswers(k, p)
    PROVE  /\ down' \in [Conns -> Seq(ToClient)]
           /\ \A c \in Conns : c # link \/ k # link => down'[c] = down[c]
           /\ k = link => /\ Len(down[k]) \in Nat /\ Len(down'[k]) = Len(down[k]) + 1
                          /\ \A i \in 1..Len(down[k]) : down'[k][i] = down[k][i]
                          /\ down'[k][Len(down[k]) + 1] = p
                          /\ down[k] = <<>> => down'[k] = <<p>>
  <1> USE DEF MqttInv
  <1>1. down[k] \in Seq(ToClient) /\ down \in [Conns -> Seq(ToClient)]
    BY DEF TypeOK
  <1>2. down' \in [Conns -> Seq(ToClient)]
    BY BrokerType
  <1>3. \A c \in Conns : c # link \/ k # link => down'[c] = down[c]
    BY <1>1 DEF BrokerAnswers
  <1>4. k = link => down'[k] = Append(down[k], p)
    BY <1>1 DEF BrokerAnswers
  <1>5. down[k] = <<>> => Append(down[k], p) = <<p>>
    OBVIOUS
  <1>6. QED
    BY <1>1, <1>2, <1>3, <1>4, <1>5, Appended

\* What the client itself holds is left alone.
LEMMA ClientKept ==
    ASSUME MqttInv, UNCHANGED <<client, socket, wanted>>
    PROVE  StateInv' /\ ReadyIsUndisturbed' /\ WantedIsPursued'
  BY DEF MqttInv, StateInv, ReadyIsUndisturbed, WantedIsPursued, client, socket, timers

\* The broker takes a packet off a connection.
LEMMA TakeFarewell ==
    ASSUME MqttInv, NEW k \in Conns, NEW p, BrokerReads(k, p), BrokerConsumed(k),
           \/ UNCHANGED <<session, last>> /\ p # "OFFLINE"
           \/ last' = last /\ session' = NoConn
           \/ session' = session /\ session = k /\ last' = p /\ p \in Presence
           \/ up[k] = <<"CONNECT">> /\ (last' = last \/ last' = "OFFLINE") /\ session' = k,
           MqttAssumption
    PROVE  FarewellInv'
  <1> USE DEF MqttInv
  <1>1. ASSUME NEW c \in Conns, NEW i \in 1..Len(up'[c]), up'[c][i] = "DISCONNECT"
        PROVE  IF i = 1 THEN session' = c => last' # "ONLINE" ELSE up'[c][i - 1] = "OFFLINE"
    <2>1. CASE c # k
      <3>1. i \in 1..Len(up[c]) /\ up'[c] = up[c] /\ up[c][i] = "DISCONNECT"
        BY <1>1, <2>1, BrokerReadFacts
      <3>2. IF i = 1 THEN session = c => last # "ONLINE" ELSE up[c][i - 1] = "OFFLINE"
        BY <3>1 DEF FarewellInv
      <3>3. i = 1 /\ session' = c => session = c /\ last' = last
        BY <2>1, MqttAssumption
      <3>4. QED
        BY <3>1, <3>2, <3>3
    <2>2. CASE c = k
      <3>1. i + 1 \in 1..Len(up[k]) /\ up[k][i + 1] = "DISCONNECT" /\ i + 1 # 1
        BY <1>1, <2>2, BrokerReadFacts
      <3>2. up[k][i] = "OFFLINE"
        <4>1. up[k][(i + 1) - 1] = "OFFLINE"
          BY <3>1 DEF FarewellInv
        <4>2. QED
          BY <4>1
      <3>3. up[k] # <<"CONNECT">>
        BY <3>1
      <3>4. CASE i = 1
        <4>1. p = "OFFLINE"
          BY <3>2, <3>4, BrokerReadFacts
        <4>2. QED
          BY <2>2, <3>3, <3>4, <4>1, MqttAssumption
      <3>5. CASE i # 1
        <4>1. Len(up'[k]) \in Nat
          BY BrokerReadFacts
        <4>2. i - 1 \in 1..Len(up'[k]) /\ (i - 1) + 1 = i
          BY <2>2, <3>5, <4>1
        <4>3. up'[k][i - 1] = up[k][(i - 1) + 1]
          BY <4>2, BrokerReadFacts
        <4>4. QED
          BY <2>2, <3>2, <3>5, <4>2, <4>3
      <3>6. QED
        BY <3>4, <3>5
    <2>3. QED
      BY <2>1, <2>2
  <1>2. QED
    BY <1>1 DEF FarewellInv

\* CONNECT is answered, on the client's own connection or on one it has left.
LEMMA ConnectAnswered ==
    ASSUME MqttInv, MqttAssumption, NEW k \in Conns, NEW p \in {"CONNACK", "REFUSED"},
           BrokerReads(k, "CONNECT"), BrokerConsumed(k), BrokerAnswers(k, p),
           UNCHANGED <<client, socket, wanted, announced>>,
           \/ session' = k /\ subscribed' = FALSE
           \/ UNCHANGED <<session, subscribed>> /\ p = "REFUSED"
    PROVE  /\ up[k] = <<"CONNECT">> /\ SockInv' /\ ConnectInv'
           /\ up' \in [Conns -> Seq(ToBroker)] /\ down' \in [Conns -> Seq(ToClient)]
           /\ \A c \in Conns : c # k => up'[c] = up[c]
           /\ session # k /\ (k = link => m_state # "Ready")
  <1> USE DEF MqttInv
  <1>1. UNCHANGED <<m_state, sock, link>>
    BY DEF client, socket
  <1>2. /\ up[k] = <<"CONNECT">> /\ session # k
        /\ k = link => down[k] = <<>> /\ m_state \in {"Connected", "Disconnected"}
    <2>1. 1 \in 1..Len(up[k]) /\ up[k][1] = "CONNECT"
      BY BrokerReadFacts
    <2>2. QED
      BY <2>1 DEF ConnectInv
  <1>3. up'[k] = <<>> /\ \A c \in Conns : c # k => up'[c] = up[c]
    BY <1>2, BrokerReadFacts DEF BrokerConsumed, TypeOK
  <1>4. p \in ToClient
    BY DEF ToClient
  <1>5. up' \in [Conns -> Seq(ToBroker)] /\ down' \in [Conns -> Seq(ToClient)]
    BY <1>4, BrokerReadFacts, AnswerFacts
  <1>6. SockInv'
    <2>1. sock \in {"Connecting", "Handshake"} => k # link
      BY BrokerReadFacts
    <2>2. \A c \in Conns : c # link \/ sock \in {"Connecting", "Handshake"} => down'[c] = <<>>
      BY <1>4, <2>1, AnswerFacts DEF SockInv
    <2>3. sock \in {"Connecting", "Handshake"} => up'[link] = <<>> /\ session' # link
      <3>1. ASSUME sock \in {"Connecting", "Handshake"}
            PROVE  up'[link] = <<>> /\ session' # link
        <4>1. link \in Conns /\ k # link
          BY <2>1, <3>1, LinkIsConn
        <4>2. QED
          BY <1>3, <3>1, <4>1 DEF SockInv
      <3>2. QED
        BY <3>1
    <2>4. QED
      BY <1>1, <2>2, <2>3 DEF SockInv
  <1>7. ASSUME NEW c \in Conns, NEW i \in 1..Len(up'[c]), up'[c][i] = "CONNECT"
        PROVE  /\ up'[c] = <<"CONNECT">> /\ session' # c
               /\ c = link' => down'[c] = <<>> /\ m_state' \in {"Connected", "Disconnected"}
    <2>1. c # k
      BY <1>3, <1>7
    <2>2. c = link => k # link
      BY <2>1
    <2>3. down'[c] = down[c]
      BY <1>4, <2>2, AnswerFacts
    <2>4. QED
      BY <1>1, <1>3, <1>7, <2>1, <2>3 DEF ConnectInv
  <1>8. ASSUME NEW c \in Conns, NEW i \in 1..Len(down'[c]), down'[c][i] = "CONNACK"
        PROVE  /\ down'[c] = <<"CONNACK">> /\ up'[c] = <<>>
               /\ m_state' \in {"Connected", "Disconnected"}
               /\ ~(subscribed' /\ session' = c)
    <2>1. CASE c = link /\ k = link
      <3>1. down'[c] = <<p>>
        BY <1>2, <1>4, <2>1, AnswerFacts
      <3>2. p = "CONNACK"
        BY <1>8, <3>1
      <3>3. QED
        BY <1>1, <1>2, <1>3, <2>1, <3>1, <3>2
    <2>2. CASE ~(c = link /\ k = link)
      <3>1. down'[c] = down[c]
        BY <1>4, <2>2, AnswerFacts
      <3>2. /\ down[c] = <<"CONNACK">> /\ up[c] = <<>>
            /\ m_state \in {"Connected", "Disconnected"} /\ ~(subscribed /\ session = c)
        BY <1>8, <3>1 DEF ConnectInv
      <3>3. c # k
        BY <1>2, <3>2
      <3>4. QED
        BY <1>1, <1>3, <3>1, <3>2, <3>3
    <2>3. QED
      BY <2>1, <2>2
  <1>9. ConnectInv'
    BY <1>7, <1>8 DEF ConnectInv
  <1>10. QED
    BY <1>2, <1>3, <1>5, <1>6, <1>9

LEMMA ConnectAnsweredInv ==
    ASSUME MqttInv, MqttAssumption, NEW k \in Conns, BrokerAccepts(k) \/ BrokerRefuses(k)
    PROVE  MqttInv'
  <1> USE DEF MqttInv
  <1>1. UNCHANGED <<m_state, intentional, pingTimer, pingTimeout, pingOutstanding,
                    reconnectTimer, sock, pendingClose, link, wanted, announced>>
    BY DEF BrokerAccepts, BrokerRefuses, client, timers, socket
  <1>2. StateInv' /\ ReadyIsUndisturbed' /\ WantedIsPursued'
    BY ClientKept DEF BrokerAccepts, BrokerRefuses
  <1>3. CASE BrokerAccepts(k)
    <2>1. /\ BrokerReads(k, "CONNECT") /\ BrokerConsumed(k) /\ BrokerAnswers(k, "CONNACK")
          /\ session' = k /\ subscribed' = FALSE /\ alive' = alive \ ({session} \ {k})
          /\ last' = IF session # NoConn THEN "OFFLINE" ELSE last
          /\ k \in alive
          /\ UNCHANGED <<client, socket, wanted, announced>>
      BY <1>3 DEF BrokerAccepts, BrokerReads
    <2>2. /\ up[k] = <<"CONNECT">> /\ SockInv' /\ ConnectInv'
          /\ up' \in [Conns -> Seq(ToBroker)] /\ down' \in [Conns -> Seq(ToClient)]
          /\ session # k /\ (k = link => m_state # "Ready")
      BY <2>1, ConnectAnswered
    <2>3. last' \in {"none", "ONLINE", "OFFLINE"}
      BY <2>1 DEF TypeOK
    <2>4. alive' \in SUBSET Conns /\ session' \in alive'
      BY <2>1 DEF TypeOK
    <2>5. TypeOK'
      BY <1>1, <2>1, <2>2, <2>3, <2>4 DEF TypeOK
    <2>6. FarewellInv'
      BY <2>1, <2>2, TakeFarewell
    <2>7. GoneIsOffline' /\ ViewInv'
      BY <1>1, <2>1, <2>2, MqttAssumption DEF GoneIsOffline, ViewInv
    <2>8. QED
      BY <1>2, <2>2, <2>5, <2>6, <2>7
  <1>4. CASE BrokerRefuses(k)
    <2>1. /\ BrokerReads(k, "CONNECT") /\ BrokerConsumed(k) /\ BrokerAnswers(k, "REFUSED")
          /\ UNCHANGED <<client, socket, wanted, announced>>
          /\ UNCHANGED <<alive, session, subscribed, last>>
      BY <1>4 DEF BrokerRefuses, broker
    <2>2. /\ SockInv' /\ ConnectInv'
          /\ up' \in [Conns -> Seq(ToBroker)] /\ down' \in [Conns -> Seq(ToClient)]
          /\ session # k /\ \A c \in Conns : c # k => up'[c] = up[c]
      BY <2>1, ConnectAnswered
    <2>3. TypeOK'
      BY <1>1, <2>1, <2>2 DEF TypeOK
    <2>4. FarewellInv'
      BY <2>1, TakeFarewell
    <2>5. ViewInv'
      <3>1. CASE m_state = "Ready" /\ sock = "Encrypted" /\ session = link
        <4>1. link \in Conns /\ link # k
          BY <2>2, <3>1, LinkIsConn
        <4>2. up'[link] = up[link]
          BY <2>2, <4>1
        <4>3. QED
          BY <1>1, <2>1, <4>2 DEF ViewInv
      <3>2. CASE ~(m_state = "Ready" /\ sock = "Encrypted" /\ session = link)
        BY <1>1, <2>1, <3>2 DEF ViewInv
      <3>3. QED
        BY <3>1, <3>2
    <2>6. GoneIsOffline'
      BY <2>1 DEF GoneIsOffline
    <2>7. QED
      BY <1>2, <2>2, <2>3, <2>4, <2>5, <2>6
  <1>5. QED
    BY <1>3, <1>4

\* The session's packets are served: what that leaves of the packets.
LEMMA ServedPackets ==
    ASSUME MqttInv, MqttAssumption, NEW k \in Conns, NEW p,
           BrokerReads(k, p), BrokerConsumed(k), p # "CONNECT", session = k,
           UNCHANGED <<client, socket, wanted, announced>>, session' \in {session, NoConn},
           down' = down \/ \E a \in {"SUBACK", "PINGRESP"} : BrokerAnswers(k, a)
    PROVE  /\ SockInv' /\ ConnectInv'
           /\ up' \in [Conns -> Seq(ToBroker)] /\ down' \in [Conns -> Seq(ToClient)]
  <1> USE DEF MqttInv
  <1>1. UNCHANGED <<m_state, sock, link>>
    BY DEF client, socket
  <1>2. "SUBACK" \in ToClient /\ "PINGRESP" \in ToClient
    BY DEF ToClient
  <1>3. /\ down' \in [Conns -> Seq(ToClient)]
        /\ \A c \in Conns : c # link \/ k # link => down'[c] = down[c]
    BY <1>2, AnswerFacts DEF TypeOK
  <1>4. SockInv'
    <2>1. sock \in {"Connecting", "Handshake"} => k # link
      BY DEF SockInv
    <2>2. \A c \in Conns : c # link \/ sock \in {"Connecting", "Handshake"} => down'[c] = <<>>
      BY <1>3, <2>1 DEF SockInv
    <2>3. sock \in {"Connecting", "Handshake"} => up'[link] = <<>> /\ session' # link
      <3>1. ASSUME sock \in {"Connecting", "Handshake"}
            PROVE  up'[link] = <<>> /\ session' # link
        <4>1. link \in Conns /\ k # link
          BY <2>1, <3>1, LinkIsConn
        <4>2. QED
          BY <3>1, <4>1, BrokerReadFacts, MqttAssumption DEF SockInv
      <3>2. QED
        BY <3>1
    <2>4. QED
      BY <1>1, <2>2, <2>3 DEF SockInv
  <1>5. ASSUME NEW c \in Conns, NEW i \in 1..Len(up'[c]), up'[c][i] = "CONNECT"
        PROVE  /\ up'[c] = <<"CONNECT">> /\ session' # c
               /\ c = link' => down'[c] = <<>> /\ m_state' \in {"Connected", "Disconnected"}
    <2>1. c # k
      <3>1. ASSUME c = k
            PROVE  FALSE
        <4>1. i + 1 \in 1..Len(up[k]) /\ up[k][i + 1] = "CONNECT"
          BY <1>5, <3>1, BrokerReadFacts
        <4>2. QED
          BY <4>1 DEF ConnectInv
      <3>2. QED
        BY <3>1
    <2>2. c = link => k # link
      BY <2>1
    <2>3. up'[c] = up[c] /\ down'[c] = down[c]
      BY <1>3, <2>1, <2>2, BrokerReadFacts
    <2>4. QED
      BY <1>1, <1>5, <2>3, MqttAssumption DEF ConnectInv
  <1>6. ASSUME NEW c \in Conns, NEW i \in 1..Len(down'[c]), down'[c][i] = "CONNACK"
        PROVE  /\ down'[c] = <<"CONNACK">> /\ up'[c] = <<>>
               /\ m_state' \in {"Connected", "Disconnected"}
               /\ ~(subscribed' /\ session' = c)
    <2>1. ASSUME NEW j \in 1..Len(down[k]), down[k][j] = "CONNACK"
          PROVE  FALSE
      BY <2>1, BrokerReadFacts DEF ConnectInv
    <2>2. ~(c = link /\ k = link)
      <3>1. ASSUME c = link, k = link
            PROVE  FALSE
        <4>1. CASE down' = down
          BY <1>6, <2>1, <3>1, <4>1
        <4>2. CASE \E a \in {"SUBACK", "PINGRESP"} : BrokerAnswers(k, a)
          <5>1. PICK a \in {"SUBACK", "PINGRESP"} : BrokerAnswers(k, a)
            BY <4>2
          <5>2. /\ Len(down[k]) \in Nat /\ Len(down'[k]) = Len(down[k]) + 1
                /\ \A j \in 1..Len(down[k]) : down'[k][j] = down[k][j]
                /\ down'[k][Len(down[k]) + 1] = a
            BY <1>2, <3>1, <5>1, AnswerFacts
          <5>3. i \in 1..Len(down[k])
            BY <1>6, <3>1, <5>2
          <5>4. QED
            BY <1>6, <2>1, <3>1, <5>2, <5>3
        <4>3. QED
          BY <4>1, <4>2
      <3>2. QED
        BY <3>1
    <2>3. down'[c] = down[c]
      BY <1>3, <2>2
    <2>4. c # k
      BY <1>6, <2>1, <2>3
    <2>5. QED
      BY <1>1, <1>6, <2>3, <2>4, BrokerReadFacts, MqttAssumption DEF ConnectInv
  <1>7. ConnectInv'
    BY <1>5, <1>6 DEF ConnectInv
  <1>8. QED
    BY <1>3, <1>4, <1>7, BrokerReadFacts

\* The view moves with the presence that is taken off.
LEMMA ServedView ==
    ASSUME MqttInv, NEW k \in Conns, NEW p, BrokerReads(k, p), BrokerConsumed(k),
           session = k, UNCHANGED <<client, socket, announced>>,
           IF p \in Presence THEN last' = p /\ session' = session
                             ELSE last' = last /\ session' \in {session, NoConn},
           MqttAssumption
    PROVE  ViewInv'
  <1>1. UNCHANGED <<m_state, sock, link>>
    BY DEF client, socket
  <1> SUFFICES ASSUME m_state = "Ready", sock = "Encrypted", session' = link
               PROVE  ViewInv'
    BY <1>1 DEF ViewInv
  <1>2. link = k
    BY LinkIsConn, MqttAssumption DEF MqttInv
  <1>3. /\ Len(up[k]) \in Nat /\ Len(up[k]) > 0 /\ up[k][1] = p
        /\ Len(up'[k]) = Len(up[k]) - 1
        /\ \A i \in 1..Len(up'[k]) : i + 1 \in 1..Len(up[k]) /\ up'[k][i] = up[k][i + 1]
    BY BrokerReadFacts
  <1>4. CASE \E i \in 1..Len(up[k]) : /\ up[k][i] = announced
                                      /\ \A j \in i+1..Len(up[k]) : up[k][j] \notin Presence
    <2>1. PICK i \in 1..Len(up[k]) : /\ up[k][i] = announced
                                     /\ \A j \in i+1..Len(up[k]) : up[k][j] \notin Presence
      BY <1>4
    <2>2. CASE i = 1 /\ p \in Presence
      <3>1. \A j \in 1..Len(up'[k]) : up'[k][j] \notin Presence
        BY <1>3, <2>1, <2>2
      <3>2. QED
        BY <1>1, <1>2, <1>3, <2>1, <2>2, <3>1 DEF ViewInv
    <2>3. CASE i # 1
      <3>1. i - 1 \in 1..Len(up'[k]) /\ up'[k][i - 1] = announced'
        <4>1. i - 1 \in 1..Len(up'[k]) /\ (i - 1) + 1 = i
          BY <1>3, <2>1, <2>3
        <4>2. QED
          BY <1>3, <2>1, <4>1
      <3>2. \A j \in (i - 1) + 1..Len(up'[k]) : up'[k][j] \notin Presence
        BY <1>3, <2>1, <2>3
      <3>3. QED
        BY <1>1, <1>2, <3>1, <3>2 DEF ViewInv
    <2>4. CASE i = 1 /\ p \notin Presence
      <3>1. p \in ToBroker
        BY <1>3, <2>1, ElementOfSeq DEF MqttInv, TypeOK
      <3>2. announced \in {"none", "ONLINE", "OFFLINE"}
        BY DEF MqttInv, TypeOK
      <3>3. QED
        BY <1>3, <2>1, <2>4, <3>1, <3>2 DEF ToBroker, Presence
    <2>5. QED
      BY <2>2, <2>3, <2>4
  <1>5. CASE last = announced /\ \A j \in 1..Len(up[k]) : up[k][j] \notin Presence
    <2>1. 1 \in 1..Len(up[k])
      BY <1>3
    <2>2. p \notin Presence
      BY <1>3, <1>5, <2>1
    <2>3. \A j \in 1..Len(up'[k]) : up'[k][j] \notin Presence
      BY <1>3, <1>5
    <2>4. QED
      BY <1>1, <1>2, <1>5, <2>2, <2>3 DEF ViewInv
  <1>6. QED
    BY <1>2, <1>4, <1>5 DEF MqttInv, ViewInv

LEMMA BrokerServesInv ==
    ASSUME MqttInv, MqttAssumption, NEW k \in Conns, BrokerServes(k)
    PROVE  MqttInv'
  <1> USE DEF MqttInv
  <1>1. PICK p \in {"SUBSCRIBE", "PINGREQ", "ONLINE", "OFFLINE", "DISCONNECT"} :
           /\ BrokerReads(k, p)
           /\ down' = down \/ \E a \in {"SUBACK", "PINGRESP"} : BrokerAnswers(k, a)
           /\ IF p \in Presence THEN last' = p /\ session' = session
                                ELSE last' = last /\ session' \in {session, NoConn}
           /\ p # "DISCONNECT" => session' = session
           /\ p = "DISCONNECT" => session' = NoConn
           /\ session' \in alive' \cup {NoConn} /\ alive' \in SUBSET Conns
           /\ subscribed' \in BOOLEAN
    BY DEF BrokerServes, Presence, broker, TypeOK
  <1>2. /\ BrokerConsumed(k) /\ session = k
        /\ UNCHANGED <<client, socket, wanted, announced>>
    BY DEF BrokerServes
  <1>3. /\ SockInv' /\ ConnectInv'
        /\ up' \in [Conns -> Seq(ToBroker)] /\ down' \in [Conns -> Seq(ToClient)]
    BY <1>1, <1>2, ServedPackets
  <1>4. last' \in {"none", "ONLINE", "OFFLINE"}
    BY <1>1 DEF TypeOK, Presence
  <1>5. TypeOK'
    BY <1>1, <1>2, <1>3, <1>4 DEF TypeOK, client, timers, socket
  <1>6. StateInv' /\ ReadyIsUndisturbed' /\ WantedIsPursued'
    BY <1>2, ClientKept
  <1>7. FarewellInv'
    BY <1>1, <1>2, TakeFarewell DEF Presence
  <1>8. ViewInv'
    BY <1>1, <1>2, ServedView
  <1>9. GoneIsOffline'
    <2>1. CASE p # "DISCONNECT"
      BY <1>1, <1>2, <2>1, MqttAssumption DEF GoneIsOffline
    <2>2. CASE p = "DISCONNECT"
      <3>1. 1 \in 1..Len(up[k]) /\ up[k][1] = "DISCONNECT"
        BY <1>1, <1>2, <2>2, BrokerReadFacts
      <3>2. last # "ONLINE"
        BY <1>2, <3>1 DEF FarewellInv
      <3>3. QED
        BY <1>1, <2>2, <3>2 DEF GoneIsOffline, Presence
    <2>3. QED
      BY <2>1, <2>2
  <1>10. QED
    BY <1>3, <1>5, <1>6, <1>7, <1>8, <1>9

LEMMA BrokerDropsInv ==
    ASSUME MqttInv, MqttAssumption, NEW k \in Conns, BrokerDrops(k)
    PROVE  MqttInv'
  <1> USE DEF MqttInv
  <1>1. /\ alive' = alive \ {k} /\ up' = [up EXCEPT ![k] = <<>>]
        /\ IF session = k THEN session' = NoConn /\ subscribed' = FALSE /\ last' = "OFFLINE"
                          ELSE UNCHANGED <<session, subscribed, last>>
        /\ UNCHANGED <<client, socket, down, wanted, announced>>
    BY DEF BrokerDrops, EndSession
  <1>2. UNCHANGED <<m_state, sock, link>>
    BY <1>1 DEF client, socket
  <1>3. \A c \in Conns : up'[c] = IF c = k THEN <<>> ELSE up[c]
    BY <1>1 DEF TypeOK
  <1>4. TypeOK'
    <2>1. <<>> \in Seq(ToBroker)
      OBVIOUS
    <2>2. up' \in [Conns -> Seq(ToBroker)]
      BY <1>1, <2>1 DEF TypeOK
    <2>3. alive' \in SUBSET Conns /\ session' \in alive' \cup {NoConn}
      BY <1>1 DEF TypeOK
    <2>4. QED
      BY <1>1, <2>2, <2>3 DEF TypeOK, client, timers, socket
  <1>5. SockInv'
    <2>1. sock \in {"Connecting", "Handshake"} => link \in Conns
      BY LinkIsConn
    <2>2. QED
      BY <1>1, <1>2, <1>3, <2>1, MqttAssumption DEF SockInv
  <1>6. StateInv' /\ ReadyIsUndisturbed' /\ WantedIsPursued'
    BY <1>1, ClientKept
  <1>7. ASSUME NEW c \in Conns, NEW i \in 1..Len(up'[c])
        PROVE  c # k /\ up'[c] = up[c]
    BY <1>3, <1>7
  <1>8. ConnectInv'
    <2>1. ASSUME NEW c \in Conns, NEW i \in 1..Len(up'[c]), up'[c][i] = "CONNECT"
          PROVE  /\ up'[c] = <<"CONNECT">> /\ session' # c
                 /\ c = link' => down'[c] = <<>> /\ m_state' \in {"Connected", "Disconnected"}
      BY <1>1, <1>2, <1>7, <2>1, MqttAssumption DEF ConnectInv
    <2>2. ASSUME NEW c \in Conns, NEW i \in 1..Len(down'[c]), down'[c][i] = "CONNACK"
          PROVE  /\ down'[c] = <<"CONNACK">> /\ up'[c] = <<>>
                 /\ m_state' \in {"Connected", "Disconnected"}
                 /\ ~(subscribed' /\ session' = c)
      BY <1>1, <1>2, <1>3, <2>2, MqttAssumption DEF ConnectInv
    <2>3. QED
      BY <2>1, <2>2 DEF ConnectInv
  <1>9. FarewellInv' /\ GoneIsOffline'
    <2>1. ASSUME NEW c \in Conns, NEW i \in 1..Len(up'[c]), up'[c][i] = "DISCONNECT"
          PROVE  IF i = 1 THEN session' = c => last' # "ONLINE" ELSE up'[c][i - 1] = "OFFLINE"
      BY <1>1, <1>7, <2>1, MqttAssumption DEF FarewellInv
    <2>2. QED
      BY <1>1, <2>1 DEF FarewellInv, GoneIsOffline
  <1>10. ViewInv'
    <2>1. CASE m_state = "Ready" /\ sock = "Encrypted" /\ session' = link
      <3>1. link \in Conns /\ link # k /\ session = link /\ last' = last
        BY <1>1, <2>1, LinkIsConn, MqttAssumption
      <3>2. up'[link] = up[link]
        BY <1>3, <3>1
      <3>3. QED
        BY <1>1, <1>2, <2>1, <3>1, <3>2 DEF ViewInv
    <2>2. CASE ~(m_state = "Ready" /\ sock = "Encrypted" /\ session' = link)
      BY <1>2, <2>2 DEF ViewInv
    <2>3. QED
      BY <2>1, <2>2
  <1>11. QED
    BY <1>4, <1>5, <1>6, <1>8, <1>9, <1>10

LEMMA BrokerForwardsInv ==
    ASSUME MqttInv, MqttAssumption, BrokerForwards
    PROVE  MqttInv'
  <1> USE DEF MqttInv
  <1>1. /\ subscribed /\ session = link /\ BrokerAnswers(session, "DISCOVERY")
        /\ UNCHANGED <<client, socket, up, wanted, announced>>
        /\ UNCHANGED <<alive, session, subscribed, last>>
    BY DEF BrokerForwards, broker
  <1>2. UNCHANGED <<m_state, sock, link>>
    BY <1>1 DEF client, socket
  <1>3. StateInv' /\ ReadyIsUndisturbed' /\ WantedIsPursued'
    BY <1>1, ClientKept
  <1>4. FarewellInv' /\ GoneIsOffline' /\ ViewInv'
    BY <1>1, <1>2 DEF FarewellInv, GoneIsOffline, ViewInv
  <1>5. CASE link \in Conns
    <2>1. "DISCOVERY" \in ToClient
      BY DEF ToClient
    <2>2. /\ down' \in [Conns -> Seq(ToClient)]
          /\ \A c \in Conns : c # link => down'[c] = down[c]
          /\ Len(down[link]) \in Nat /\ Len(down'[link]) = Len(down[link]) + 1
          /\ \A i \in 1..Len(down[link]) : down'[link][i] = down[link][i]
          /\ down'[link][Len(down[link]) + 1] = "DISCOVERY"
      BY <1>1, <1>5, <2>1, AnswerFacts
    <2>3. TypeOK' /\ SockInv'
      BY <1>1, <2>2 DEF TypeOK, SockInv, client, timers, socket
    <2>4. \A i \in 1..Len(down'[link]) : down'[link][i] # "CONNACK"
      <3>1. ASSUME NEW i \in 1..Len(down'[link]), down'[link][i] = "CONNACK"
            PROVE  FALSE
        <4>1. i \in 1..Len(down[link]) /\ down[link][i] = "CONNACK"
          BY <2>2, <3>1
        <4>2. QED
          BY <1>1, <1>5, <4>1 DEF ConnectInv
      <3>2. QED
        BY <3>1
    <2>5. \A i \in 1..Len(up[link]) : up[link][i] # "CONNECT"
      BY <1>1, <1>5 DEF ConnectInv
    <2>6. ConnectInv'
      BY <1>1, <1>2, <1>5, <2>2, <2>4, <2>5 DEF ConnectInv
    <2>7. QED
      BY <1>3, <1>4, <2>3, <2>6
  <1>6. CASE link \notin Conns
    <2>1. down' = down
      BY <1>1, <1>6 DEF BrokerAnswers, TypeOK
    <2>2. TypeOK' /\ SockInv' /\ ConnectInv'
      BY <1>1, <2>1 DEF TypeOK, SockInv, ConnectInv, client, timers, socket
    <2>3. QED
      BY <1>3, <1>4, <2>2
  <1>7. QED
    BY <1>5, <1>6

-----------------------------------------------------------------------------
(* The invariant, and what follows.                                        *)

LEMMA MqttInitial ==
    ASSUME Init, MqttAssumption
    PROVE  MqttInv
  <1> USE DEF Init
  <1>1. <<>> \in Seq(ToBroker) /\ <<>> \in Seq(ToClient) /\ Len(<<>>) = 0
    OBVIOUS
  <1>2. TypeOK
    BY <1>1 DEF TypeOK, MqttState, SockState
  <1>3. SockInv /\ StateInv /\ ReadyIsUndisturbed /\ WantedIsPursued /\ GoneIsOffline /\ ViewInv
    BY DEF SockInv, StateInv, ReadyIsUndisturbed, WantedIsPursued, GoneIsOffline, ViewInv
  <1>4. ConnectInv /\ FarewellInv
    BY <1>1 DEF ConnectInv, FarewellInv
  <1>5. QED
    BY <1>2, <1>3, <1>4 DEF MqttInv

\* A reconnect that is due dials, unless the client was told to disconnect.
LEMMA CallsInv ==
    ASSUME MqttInv, MqttAssumption, ConnectToBroker \/ ReconnectTimer
    PROVE  MqttInv'
  <1>1. AbortEmits \subseteq BOOLEAN
    BY DEF AbortEmits, Up
  <1>2. CASE ConnectToBroker
    <2>1. PICK k \in Conns, emits \in AbortEmits :
             Dial(k, emits) /\ reconnectTimer' = (reconnectTimer \/ emits)
      BY <1>2 DEF ConnectToBroker
    <2>2. wanted' = TRUE /\ reconnectTimer' \in BOOLEAN
      BY <1>2, <2>1 DEF ConnectToBroker
    <2>3. QED
      BY <1>1, <2>1, <2>2, DialInv
  <1>3. CASE ReconnectTimer /\ ~intentional
    <2>1. PICK k \in Conns, emits \in AbortEmits : Dial(k, emits) /\ reconnectTimer' = emits
      BY <1>3 DEF ReconnectTimer
    <2>2. wanted' = wanted /\ wanted \in BOOLEAN /\ wanted
      BY <1>3 DEF ReconnectTimer, MqttInv, StateInv, TypeOK
    <2>3. QED
      BY <1>1, <2>1, <2>2, DialInv
  <1>4. CASE ReconnectTimer /\ intentional
    BY <1>4 DEF ReconnectTimer, MqttInv, StateInv
  <1>5. QED
    BY <1>2, <1>3, <1>4

LEMMA MqttStep ==
    ASSUME MqttInv, MqttAssumption, [Next]_vars
    PROVE  MqttInv'
  <1>1. CASE ConnectToBroker \/ ReconnectTimer
    BY <1>1, CallsInv
  <1>2. CASE DisconnectFromBroker
    BY <1>2, DisconnectFromBrokerInv
  <1>3. CASE PingTimer \/ Announce("ONLINE") \/ Announce("OFFLINE")
    BY <1>3, WhileReadyInv
  <1>4. CASE HandleConnack \/ HandleSuback \/ HandleDiscovery
    BY <1>4, HandleInv
  <1>5. CASE SocketDisconnected \/ HandleConnackRefused \/ (PingTimeout /\ pingOutstanding)
    BY <1>5, ConnectionEndsInv
  <1>6. CASE HandlePingresp \/ (PingTimeout /\ ~pingOutstanding)
    BY <1>6, PingAnsweredInv
  <1>7. CASE SocketConnected \/ DialFails
    BY <1>7, DialAnsweredInv
  <1>8. CASE SocketEncrypted
    BY <1>8, SocketEncryptedInv
  <1>9. ASSUME NEW k \in Conns,
               BrokerAccepts(k) \/ BrokerRefuses(k) \/ BrokerServes(k) \/ BrokerDrops(k)
        PROVE  MqttInv'
    BY <1>9, ConnectAnsweredInv, BrokerServesInv, BrokerDropsInv
  <1>10. CASE BrokerForwards
    BY <1>10, BrokerForwardsInv
  <1>11. CASE UNCHANGED vars
    BY <1>11 DEF MqttInv, TypeOK, SockInv, StateInv, ReadyIsUndisturbed, WantedIsPursued,
                 ConnectInv, FarewellInv, GoneIsOffline, ViewInv, vars, client, timers,
                 socket, broker
  <1>12. QED
    BY <1>1, <1>2, <1>3, <1>4, <1>5, <1>6, <1>7, <1>8, <1>9, <1>10, <1>11 DEF Next, Handle

LEMMA MqttInvariant == Spec => []MqttInv
  <1>1. Init => MqttInv
    BY MqttInitial, MqttAssumption
  <1>2. MqttInv /\ [Next]_vars => MqttInv'
    BY MqttStep, MqttAssumption
  <1>3. QED
    BY <1>1, <1>2, PTL DEF Spec

\* Every variable of the client, its socket and the broker keeps its type.
THEOREM MqttTypeCorrect == Spec => []TypeOK
  <1>1. MqttInv => TypeOK
    BY DEF MqttInv
  <1>2. QED
    BY <1>1, MqttInvariant, PTL

\* A ready session has its socket and no reconnect before it, and only a ping
\* of its own can time out.  (onPingTimer, onPingTimeout, onReconnectTimer)
THEOREM ReadyStaysUndisturbed == Spec => []ReadyIsUndisturbed
  <1>1. MqttInv => ReadyIsUndisturbed
    BY DEF MqttInv
  <1>2. QED
    BY <1>1, MqttInvariant, PTL

\* A client that shall be connected and holds no socket has its reconnect timer
\* running, a failed dial aside.  (onSocketDisconnected, scheduleReconnect)
THEOREM WantedStaysPursued == Spec => []WantedIsPursued
  <1>1. MqttInv => WantedIsPursued
    BY DEF MqttInv
  <1>2. QED
    BY <1>1, MqttInvariant, PTL

\* Subscribers of a device without a session were not told last that it is
\* online.  (disconnectFromBroker, and the will in sendConnect)
THEOREM GoneStaysOffline == Spec => []GoneIsOffline
  <1>1. MqttInv => GoneIsOffline
    BY DEF MqttInv
  <1>2. QED
    BY <1>1, MqttInvariant, PTL

\* Once the broker has read everything a ready client sent, subscribers know
\* what the client announced last.  (announceOnline, handleSuback)
THEOREM ViewStaysCurrent == Spec => []ViewIsCurrent
  <1>1. MqttInv => ViewIsCurrent
    <2>1. SUFFICES ASSUME MqttInv, m_state = "Ready", sock = "Encrypted", session = link,
                          up[link] = <<>>
                   PROVE  last = announced
      BY DEF ViewIsCurrent
    <2>2. Len(up[link]) = 0
      BY <2>1
    <2>3. QED
      BY <2>1, <2>2 DEF MqttInv, ViewInv
  <1>2. QED
    BY <1>1, MqttInvariant, PTL

\* After disconnectFromBroker no timer and no slot dials again.
THEOREM NoReturnHolds == Spec => NoReturn
  <1>1. MqttInv /\ [Next]_vars
           => [~wanted /\ ~wanted' /\ sock' = "Connecting" => sock = "Connecting"]_vars
    <2>1. SUFFICES ASSUME MqttInv, Next, ~wanted, ~wanted', sock' = "Connecting"
                   PROVE  sock = "Connecting"
      OBVIOUS
    <2>2. CASE ConnectToBroker \/ ReconnectTimer
      BY <2>1, <2>2 DEF ConnectToBroker, ReconnectTimer, MqttInv, StateInv
    <2>3. CASE DisconnectFromBroker
      BY <2>1, <2>3 DEF DisconnectFromBroker, GoOffline, CloseSocket, SocketGone, socket
    <2>4. CASE PingTimer \/ Announce("ONLINE") \/ Announce("OFFLINE")
      BY <2>1, <2>4 DEF PingTimer, Announce, socket
    <2>5. CASE \/ PingTimeout \/ SocketConnected \/ DialFails \/ SocketEncrypted
               \/ SocketDisconnected
      BY <2>1, <2>5 DEF PingTimeout, SocketConnected, DialFails, SocketEncrypted,
                        SocketDisconnected, ConnectionEnds, SocketGone, socket
    <2>6. CASE Handle
      BY <2>1, <2>6 DEF Handle, HandleConnack, HandleConnackRefused, HandleSuback,
                        HandlePingresp, HandleDiscovery, ConnectionEnds, SocketGone, socket
    <2>7. ASSUME NEW k \in Conns,
                 BrokerAccepts(k) \/ BrokerRefuses(k) \/ BrokerServes(k) \/ BrokerDrops(k)
          PROVE  sock = "Connecting"
      BY <2>1, <2>7 DEF BrokerAccepts, BrokerRefuses, BrokerServes, BrokerDrops, socket
    <2>8. CASE BrokerForwards
      BY <2>1, <2>8 DEF BrokerForwards, socket
    <2>9. QED
      BY <2>1, <2>2, <2>3, <2>4, <2>5, <2>6, <2>7, <2>8 DEF Next
  <1>2. QED
    BY <1>1, MqttInvariant, PTL DEF Spec, NoReturn
==============================================================================
