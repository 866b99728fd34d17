----------------------------- MODULE FrameStream -----------------------------
(***************************************************************************)
(* The byte streams the program cuts into frames, one direction of one     *)
(* connection at a time:                                                   *)
(*   "up"      the client socket of a P2PSocket to the server of another,  *)
(*   "down"    the server's end of such a connection to the client socket, *)
(*   "broker"  the MQTT broker to the client of MqttSignalingClient.       *)
(* Frames are encoded, queued, written in pieces, read in pieces of other  *)
(* sizes, and cut out of the receive buffer again.                         *)
(*                                                                         *)
(* A byte is a small number and a field of several bytes is one byte here: *)
(* a P2P frame is Magic (2 bytes as in the code), type, length, payload    *)
(* and checksum.  The checksum is a byte from a range of its own; CRC-32   *)
(* is taken for a function that tells apart what occurs in these streams.  *)
(* The type of a frame is its number on the connection, which stands for   *)
(* all that makes it differ from the others.                               *)
(*                                                                         *)
(* A write takes as many bytes as the device has room for, which is all    *)
(* that QIODevice promises and what the queue is for.  QTcpSocket takes    *)
(* everything: where the code ignores what write returned, the model       *)
(* relies on that.                                                         *)
(***************************************************************************)
EXTENDS Integers, SequencesExt

CONSTANTS
    Magic,       \* FRAME_MAGIC: two bytes
    Base,        \* bytes, but for checksums, are below it
    Radix,       \* 128: what one byte of an MQTT length can count
    Payloads,    \* the payloads that are sent, by kind of stream
    MaxPayload,  \* MAX_FRAME_PAYLOAD_SIZE
    MaxBuffer,   \* MAX_RECEIVE_BUFFER_SIZE
    MaxQueue,    \* MAX_OUTGOING_QUEUE_SIZE
    Room,        \* what the device under m_socket takes before it is drained
    MaxRead,     \* bound: bytes that one readAll returns
    MaxFrames,   \* bound: frames sent on one connection
    MaxDamage    \* bound: bytes damaged on one connection

HeaderSize == Len(Magic) + 2

Kinds == {"up", "down", "broker"}

\* What one read returns, and what an incomplete frame may leave before it,
\* stay below the limit of the receive buffer.
ASSUME StreamAssumption ==
    /\ Base \in Nat /\ Magic \in Seq(0 .. Base - 1) /\ Len(Magic) = 2
    /\ Radix \in Nat \ {0, 1} /\ Room \in Nat \ {0}
    /\ {MaxPayload, MaxBuffer, MaxQueue, MaxRead, MaxFrames, MaxDamage} \subseteq Nat
    /\ HeaderSize + MaxPayload + MaxRead <= MaxBuffer

\* Payloads that are sent are within the limits of their encodings: encode
\* and encodeVariableLength check none.
ASSUME PayloadAssumption ==
    \A k \in Kinds : \A p \in Payloads[k] :
        /\ p \in Seq(0 .. Base - 1)
        /\ IF k = "broker" THEN Len(p) < Radix * Radix * Radix * Radix
                           ELSE Len(p) <= MaxPayload

VARIABLES
    kind,           \* which stream this is
    sent,           \* history: frames accepted on this connection
    received,       \* history: frames delivered on this connection
    queue,          \* the bytes of m_outgoingQueue
    m_queuedBytes,  \* the program's count of them
    wire,           \* bytes written and not yet read
    buffer,         \* m_readBuffer, m_serverClientBuffers[s] or m_receiveBuffer
    sender,         \* the sender's end of the connection exists
    receiver,       \* the receiver's end: "up", "gone", or "aborted" by itself
    reported,       \* history: the receiver reported a malformed stream
    damage          \* bytes changed on their way

vars == <<kind, sent, received, queue, m_queuedBytes, wire, buffer, sender,
          receiver, reported, damage>>

Bytes == 0 .. Base - 1

Frames == [type : 1 .. MaxFrames, payload : UNION {Payloads[k] : k \in Kinds}]

\* No connection yet.
Init ==
    /\ kind \in Kinds
    /\ sent = <<>> /\ received = <<>>
    /\ queue = <<>> /\ m_queuedBytes = 0
    /\ wire = <<>> /\ buffer = <<>>
    /\ sender = FALSE /\ receiver = "gone"
    /\ reported = FALSE /\ damage = 0

-----------------------------------------------------------------------------
(* P2PFrame::encode and decode.                                            *)

Crc[b \in Seq(Nat)] ==
    IF b = <<>> THEN 1 ELSE (Crc[Front(b)] * Base + b[Len(b)]) % 32749

Checksum(b) == Base + Crc[b]

EncodeFrame(f) ==
    LET body == Magic \o <<f.type, Len(f.payload)>> \o f.payload
    IN  Append(body, Checksum(body))

StartsWithMagic(b) == IsPrefix(Magic, b)

DeclaredLength(b) == b[HeaderSize]

FrameSize(b) == HeaderSize + DeclaredLength(b) + 1

\* Mistaken: only the header is checked.
ValidHeader(p) == StartsWithMagic(p)

\* A packet as long as it says is valid if its checksum is right.
ValidPacket(p) == p[Len(p)] = Checksum(Front(p))

\* The frame in a packet, or none.
DecodeFrame(p) ==
    IF ValidPacket(p)
    THEN <<[type |-> p[HeaderSize - 1],
            payload |-> SubSeq(p, HeaderSize + 1, Len(p) - 1)]>>
    ELSE <<>>

-----------------------------------------------------------------------------
(* P2PSocket::processStreamBuffer.                                         *)

\* What is left of a buffer that does not start with a frame: the scan for
\* the magic bytes starts at its second byte.
Resynchronised(b) ==
    LET starts == {i \in 2 .. Len(b) - 1 : StartsWithMagic(SubSeq(b, i, Len(b)))}
    IN  IF starts = {} THEN <<>> ELSE SubSeq(b, Min(starts), Len(b))

\* Mistaken: the limit is not enforced.
NeverOversized(b) == FALSE

Oversized(b) == DeclaredLength(b) > MaxPayload

Complete(b) == Len(b) >= FrameSize(b)

\* The frames cut from buffer b, what stays in it, and whether an error was
\* reported.
CutFrames[b \in Seq(Nat)] ==
    IF Len(b) < HeaderSize THEN [frames |-> <<>>, rest |-> b, bad |-> FALSE]
    ELSE IF ~StartsWithMagic(b)
         THEN [CutFrames[Resynchronised(b)] EXCEPT !.bad = TRUE]
    ELSE IF Oversized(b) THEN [frames |-> <<>>, rest |-> <<>>, bad |-> TRUE]
    ELSE IF ~Complete(b) THEN [frames |-> <<>>, rest |-> b, bad |-> FALSE]
    ELSE LET frame == DecodeFrame(SubSeq(b, 1, FrameSize(b)))
             more  == CutFrames[SubSeq(b, FrameSize(b) + 1, Len(b))]
         IN  [frames |-> frame \o more.frames, rest |-> more.rest,
              bad |-> more.bad \/ frame = <<>>]

ProcessStreamBuffer(b) ==
    IF Len(b) > MaxBuffer THEN [frames |-> <<>>, rest |-> <<>>, bad |-> TRUE]
                          ELSE CutFrames[b]

-----------------------------------------------------------------------------
(* MQTT packets: a header byte, a length of 1 to 4 bytes in base Radix, of *)
(* which all but the last have a continuation bit, and the payload.        *)

\* rest[i] is what is left of length n before its byte i.
EncodeVariableLength(n) ==
    LET second == n \div Radix
        third  == second \div Radix
        rest   == <<n, second, third, third \div Radix>>
        size   == Min({k \in 1 .. 4 : rest[k] < Radix \/ k = 4})
    IN  [i \in 1 .. size |-> (rest[i] % Radix)
                             + (IF rest[i] >= Radix THEN Radix ELSE 0)]

EncodePacket(f) == <<f.type>> \o EncodeVariableLength(Len(f.payload)) \o f.payload

\* The sizes the length field of b may have, from its second byte on.
LengthSizes(b) == {k \in 1 .. 4 : 1 + k <= Len(b) /\ b[1 + k] < Radix}

DecodeVariableLength(b) ==
    LET digit(i) == IF i <= Min(LengthSizes(b)) THEN b[1 + i] % Radix ELSE 0
    IN  digit(1) + Radix * (digit(2) + Radix * (digit(3) + Radix * digit(4)))

\* Mistaken: a length that is incomplete is taken for a corrupted one.
CorruptedEarly(b) == Len(b) > 2

\* The length cannot be decoded although all of it must be there.
Corrupted(b) == Len(b) > 5

PacketSize(b) == 1 + Min(LengthSizes(b)) + DecodeVariableLength(b)

\* processIncomingData
CutPackets[b \in Seq(Nat)] ==
    IF LengthSizes(b) = {} THEN [frames |-> <<>>, rest |-> b, bad |-> Corrupted(b)]
    ELSE IF Len(b) < PacketSize(b) THEN [frames |-> <<>>, rest |-> b, bad |-> FALSE]
    ELSE LET more == CutPackets[SubSeq(b, PacketSize(b) + 1, Len(b))]
         IN  [more EXCEPT !.frames =
                 <<[type |-> b[1], payload |->
                    SubSeq(b, Min(LengthSizes(b)) + 2, PacketSize(b))]>> \o @]

-----------------------------------------------------------------------------
Encode(f) == IF kind = "broker" THEN EncodePacket(f) ELSE EncodeFrame(f)

Cut(b) == IF kind = "broker" THEN CutPackets[b] ELSE ProcessStreamBuffer(b)

\* The bytes on the wire after w was written; nobody reads them any more
\* once the receiver's end is gone.
Written(w) == IF receiver = "up" THEN wire \o w ELSE <<>>

\* Mistaken: a frame written in part is taken from the count as a whole.
FlushOvercounted(q, count) ==
    LET n == Min({Len(q), IF Room > Len(wire) THEN Room - Len(wire) ELSE 0})
    IN  /\ wire' = Written(SubSeq(q, 1, n))
        /\ queue' = SubSeq(q, n + 1, Len(q))
        /\ m_queuedBytes' = count - Len(q)

\* flushWriteQueue when the queue holds q: as many bytes are written as the
\* device has room for, and m_queuedBytes, which was count, is adapted.
FlushWriteQueue(q, count) ==
    LET n == Min({Len(q), IF Room > Len(wire) THEN Room - Len(wire) ELSE 0})
    IN  /\ wire' = Written(SubSeq(q, 1, n))
        /\ queue' = SubSeq(q, n + 1, Len(q))
        /\ m_queuedBytes' = count - n

\* sendFrame on the client socket; it returns false when the queue is full.
\* The server writes to its clients without a queue, and so does the broker.
SendFrame(p) ==
    LET f == [type |-> Len(sent) + 1, payload |-> p]
        packet == Encode(f)
    IN  /\ sender
        /\ Len(sent) < MaxFrames
        /\ IF kind = "up"
           THEN /\ m_queuedBytes + Len(packet) <= MaxQueue
                /\ FlushWriteQueue(queue \o packet, m_queuedBytes + Len(packet))
           ELSE /\ wire' = Written(packet)
                /\ UNCHANGED <<queue, m_queuedBytes>>
        /\ sent' = Append(sent, f)
        /\ UNCHANGED <<kind, received, buffer, sender, receiver, reported, damage>>

\* Mistaken: the rest of a frame waits for the next one to be sent.
BytesWrittenIgnored ==
    /\ kind = "up" /\ sender
    /\ queue # <<>> /\ Len(wire) < Room
    /\ UNCHANGED vars

\* onSocketBytesWritten: the device has room again.
BytesWritten ==
    /\ kind = "up" /\ sender
    /\ queue # <<>> /\ Len(wire) < Room
    /\ FlushWriteQueue(queue, m_queuedBytes)
    /\ UNCHANGED <<kind, sent, received, buffer, sender, receiver, reported, damage>>

\* n bytes have arrived and are read and processed.
ReadyRead(n) ==
    LET cut == Cut(buffer \o SubSeq(wire, 1, n))
        aborts == kind = "broker" /\ cut.bad
    IN  /\ receiver = "up"
        /\ received' = received \o cut.frames
        /\ reported' = (reported \/ cut.bad)
        /\ buffer' = IF aborts THEN <<>> ELSE cut.rest
        /\ wire' = IF aborts THEN <<>> ELSE SubSeq(wire, n + 1, Len(wire))
        /\ receiver' = IF aborts THEN "aborted" ELSE receiver
        /\ UNCHANGED <<kind, sent, queue, m_queuedBytes, sender, damage>>

Read == \E n \in 1 .. Min({MaxRead, Len(wire)}) : ReadyRead(n)

-----------------------------------------------------------------------------
(* The connection.                                                         *)

\* A byte of a P2P stream is changed on its way (the broker's is under TLS).
DamageByte(i, x) ==
    /\ kind # "broker" /\ damage < MaxDamage
    /\ wire[i] # x
    /\ wire' = [wire EXCEPT ![i] = x]
    /\ damage' = damage + 1
    /\ UNCHANGED <<kind, sent, received, queue, m_queuedBytes, buffer, sender,
                   receiver, reported>>

\* The sender's end closes: what it wrote may still arrive, in part or whole.
SenderGone ==
    /\ sender
    /\ sender' = FALSE
    /\ queue' = <<>>
    /\ m_queuedBytes' = 0
    /\ UNCHANGED <<kind, sent, received, wire, buffer, receiver, reported, damage>>

\* The receiver's end closes: its buffer is cleared or removed.
ReceiverGone ==
    /\ receiver = "up"
    /\ receiver' = "gone"
    /\ wire' = <<>>
    /\ buffer' = <<>>
    /\ UNCHANGED <<kind, sent, received, queue, m_queuedBytes, sender, reported, damage>>

\* A new connection.  connectToPeer clears the queue and its read buffer, an
\* accepted connection has a new buffer, onSocketConnected of the MQTT client
\* clears its own.
Connect ==
    /\ ~sender /\ receiver # "up"
    /\ sender' = TRUE /\ receiver' = "up"
    /\ sent' = <<>> /\ received' = <<>>
    /\ queue' = <<>> /\ m_queuedBytes' = 0
    /\ wire' = <<>> /\ buffer' = <<>>
    /\ reported' = FALSE /\ damage' = 0
    /\ UNCHANGED kind

Next ==
    \/ \E p \in Payloads[kind] : SendFrame(p)
    \/ BytesWritten
    \/ Read
    \/ \E i \in 1 .. Len(wire), x \in Bytes : DamageByte(i, x)
    \/ SenderGone
    \/ ReceiverGone
    \/ Connect

\* The device drains and reports it; what arrived is read.
Fairness == WF_vars(BytesWritten) /\ WF_vars(Read)

Spec == Init /\ [][Next]_vars /\ Fairness

-----------------------------------------------------------------------------
TypeOK ==
    /\ kind \in Kinds
    /\ sent \in Seq(Frames) /\ received \in Seq(Frames)
    /\ {queue, wire, buffer} \subseteq Seq(Nat)
    /\ m_queuedBytes \in 0 .. MaxQueue
    /\ {sender, reported} \subseteq BOOLEAN
    /\ receiver \in {"up", "gone", "aborted"}
    /\ damage \in 0 .. MaxDamage

Channel == INSTANCE FrameChannel WITH lossy <- damage > 0

\* Frames arrive whole, in order and once, whatever pieces the stream is
\* written and read in and whatever connection was there before; when bytes
\* were damaged, only those that were sent still arrive, in their order.
\* (processStreamBuffer, p2p_socket.cpp:40-99; processIncomingData,
\* mqtt_signaling.cpp:418-466; flushWriteQueue, p2p_socket.cpp:196-216)
ImplementsChannel == Channel!Spec

\* A stream that nobody damaged is never reported as malformed, flushed or
\* aborted, however its frames are split and whatever their payloads hold.
\* (p2p_socket.cpp:48-70 and 93, mqtt_signaling.cpp:428-431)
NoFalseAlarm == reported => damage > 0

\* The count of queued bytes, on which the refusal of frames rests, is right
\* and within its limit; and after a read the buffer of a P2P receiver holds
\* less than one frame, also when a length was damaged.
\* (p2p_socket.cpp:164-175, 196-216, 72-84)
BuffersAreBounded ==
    /\ m_queuedBytes = Len(queue) /\ m_queuedBytes <= MaxQueue
    /\ kind # "broker" => Len(buffer) < HeaderSize + MaxPayload + 1

\* A frame that sendFrame accepted is delivered, unless an end of the
\* connection goes or bytes are damaged.
\* (onSocketBytesWritten, p2p_socket.cpp:239-242; onSocketReadyRead, 234-237)
AcceptedIsDelivered ==
    \A i \in 1 .. MaxFrames :
        Len(sent) >= i ~> \/ Len(received) >= i
                          \/ damage > 0 \/ ~sender \/ receiver = "gone"
=============================================================================
