# MeckChat in TLA+

MeckChat is a peer-to-peer chat program (C++/Qt): devices pair with a password,
set up a WireGuard tunnel, find each other over MQTT, and exchange chat messages
and files over TCP inside the tunnel. This directory models the parts of it
whose correctness depends on the order of events, checks them with TLC, and
proves the main invariants with TLAPS.

Paths below are relative to the repository. Every definition that stands for
code is listed with its file and lines in `PROJECT.json` ("map").

## The system

| Part | Code | State | Operations |
|---|---|---|---|
| P2P socket | `src/network/p2p_socket.cpp` | client socket and `m_state`, server, accepted connections with their buffers | `connectToPeer`, `disconnectFromPeer`, `sendFrame`, `startServer`, `stopServer`, slots of the two sockets |
| Frame stream, framing | `p2p_socket.cpp:40-99, 159-265`, `src/protocol/framing.cpp`, `mqtt_signaling.cpp:81-117, 418-466` | bytes not yet written, bytes not yet parsed | `flushWriteQueue`, `processStreamBuffer`, encode, decode, `processIncomingData` |
| Chat controller | `src/protocol/chat_controller.cpp` | outgoing messages, ack timers, cache of received ids, typing timers | `sendMessage`, `sendReadReceipt`, `sendTypingNotification`, handlers of three frame types, four kinds of timers, disconnects |
| File transfer | `src/protocol/file_transfer_controller.cpp` | sessions, open files, running hash | `sendFile`, `acceptTransfer`, `rejectTransfer`, `cancelTransfer`, chunk timer, six handlers, disconnects |
| Pairing | `src/crypto/pairing_session.cpp` | handshake state, key pair, secret, replay cache | `initiatePairing`, `handleIncomingRequest`, `handleIncomingResponse`, `reset`, pruning |
| WireGuard service | `src/network/wireguard_service.cpp` | status, interface name, whether it made it, peers | `startTunnel`, `stopTunnel`, `addPeer`, `removePeer` |
| Netlink | `src/network/netlink_wireguard.cpp` | the kernel's: interfaces, addresses, peers, routes | create, delete, address, raise, configure peers |
| MQTT signaling | `src/network/mqtt_signaling.cpp` | `m_state` of the session, whether its end is wanted, ping and reconnect timers | `connectToBroker`, `disconnectFromBroker`, publications, handlers of four packets, three timers, slots of the socket |
| Models, crypto provider, config, logger, window | the rest of `src/` | data, settings, widgets | serialisation, OpenSSL calls, display |

**How they interact.** Everything in one process runs on one event loop: calls
of the user, timers and socket signals are handled one after another, but a
signal can be emitted *inside* a call (`connectToHost` on an open socket aborts
it and emits `disconnected` before it returns). Both controllers listen to
`frameReceivedFrom`, `disconnected` and `peerDisconnected` of one `P2PSocket`.
The MQTT client has a TLS socket of its own and shares no state with them.
`sendFrame` writes to the client connection and to every accepted one, so with
two connections between two devices everything arrives twice, in orders that
differ. Pairing messages and the tunnel's settings are handed over by the
application.

**What is hard.** Two devices dial each other; dials and closes overlap; a lost
connection is noticed by its two ends at different times; timers race answers;
a message, chunk or offer is read twice; a reconnect fires while the next
connection is being made; disk, kernel or cryptography fail
halfway; handshake messages are replayed and clocks differ; the process dies
with an interface in the kernel. `PROJECT.json` lists each of these under
"hazards" with its line and the properties that cover it.

**What makes each part correct.**

- Socket: `m_state` says what the connection is; a connected device is connected
  to the peer it asked for last; the limit of accepted connections holds.
- Stream: a connection is a FIFO of frames, in whatever pieces its bytes are
  written and read; damage loses frames and invents none; nothing grows without
  limit, and what was accepted is not left behind.
- Chat: a report (delivered, read) is true; every message gets one verdict; a
  message is shown once; indicators end.
- Files: what is put in place is what was offered; nothing is sent unasked;
  temporary files are removed; transfers end.
- MQTT: a lost session comes back, a session that was ended does not; timers of
  one connection leave the next one alone; subscribers see what was announced.
- Pairing: a pairing was agreed on by both, is recent, and is never a replay.
- WireGuard: "Up" is true, with the address the service names; the kernel has the
  peers in the list and routes their addresses to them; interfaces of others are
  kept.

## Modules

| Module | Content |
|---|---|
| `P2PSocket` | Socket and network of all devices. No specification of its own: it gives actions to the modules that extend it. |
| `P2PSocketSystem` | `P2PSocket` with an application that calls anything at any time. |
| `ChatController` | The chat controllers of all devices over `P2PSocket`. |
| `MessageDelivery` | Abstract: the life of a message, without sockets, frames or timers. `ChatController` implements it. |
| `FrameStream` | One direction of one connection as bytes: the queue, the wire, the receive buffer and the codec, for P2P frames and MQTT packets. |
| `FrameChannel` | Abstract: a FIFO of frames, what the other modules take a connection for. `FrameStream` implements it. |
| `FileTransferController` | The file transfers of all devices over `P2PSocket`, with faults of the disk. |
| `PairingSession` | The handshake of all devices with their replay caches and clocks. |
| `WireGuardService` | The tunnel of one device, and what the netlink requests make of the interfaces of its kernel. |
| `MqttSignaling` | The MQTT client of one device, its socket and the broker. |
| `MC*` | Values of the constants for TLC. |
| `*Proofs` | Theorems and proofs about the module they are named after. |

Variables carry the names of the members they stand for where they can
(`m_state`; `outgoing` for `m_outgoingMessages`, `session` for `m_sessions`,
`seen` for `m_seenSessions`); each declaration says which. An action is one
handler, timer or call, up to the return to the event loop. Handlers that
share a shape are one action (`ReceiveEnd` is reject and cancel;
`RejectTransfer` and `CancelTransfer` share `Abandon`).

Variables marked *history* are not in the code: they record what happened
(`shown`, `wired`, `accepted`, `derived`, `wanted`, `announced`, `started`, `reported`) so that a property can
relate a state to the past. No handler reads them. The user does: a read
receipt is for a message on the screen (`shown`). `ShowBound` caps what is counted.

Definitions introduced by "Mistaken:" are no part of any specification. Each is
an operation with one plausible error, kept next to the correct one; put in its
place it violates the property `PROJECT.json` ("mutants") names, which shows
that the property depends on the code.

### How the code is abstracted

- *Frames* are atomic and each direction of a connection is a FIFO, everywhere
  but in `FrameStream`, which shows that the bytes below give just that
  (`ImplementsChannel`).
- *Bytes* are small numbers, and a field of several bytes is one byte; the magic
  number keeps its two, since it may be split. The checksum is taken to tell
  apart whatever occurs. One byte may be damaged anywhere in a P2P stream; the
  broker's is under TLS. `StreamAssumption` says that an incomplete frame and
  what one read returns fit in the receive buffer: 4 MB and what a kernel keeps
  for a socket (at most 6 MB by default, and read as it comes), against 8 MB. It
  matters because the limit is checked before complete frames are taken out.
  `PayloadAssumption` says that payloads that are sent are within the limits of
  their encodings: `sendFrame` and `encodeVariableLength` check none, while the
  receiver takes a longer frame for damage (`MAX_FRAME_PAYLOAD_SIZE`, 4 MB).
  A write takes what the device has room for, as `QIODevice` allows; a
  `QTcpSocket` takes everything, and the writes to accepted connections, whose
  result the code ignores, rely on it.
- *Connections* are lost at any time. Each end learns of the loss on its own,
  and what was travelling to an end that is gone is lost with it. Names of
  connections are reused when both ends are gone.
- *`QTcpSocket`* is external: `qt`, `pendingClose` and `link` follow the calls
  the class makes. A dial to a server that does not listen fails; any dial may
  fail; an error is always followed by the signal Qt emits.
- *Chat*: a message is its id; the code never reads the recipient, so neither
  does the model. Typing is a flag and two timers. An entry of the duplicate
  cache is fresh or old, and old ones are dropped when the code cleans up. The
  branch of `sendFrame` that returns false under backpressure, and `stopServer`,
  are not part of the chat and file models (nothing in the program calls
  `stopServer` while it runs).
- *Files* are sequences of chunks, each either the original bytes or not; two
  files have one hash exactly if they are equal. What may fail is chosen by the
  constant `Faults`.
- *Pairing*: keys are names, the secret of two keys is their set, a proof is
  valid exactly if both passwords are the same. A message that was sent can be
  delivered at any later time, any number of times, or never. Time is an integer;
  clocks are off by `Skew` and do not go back.
- *MQTT*: packets are atomic and name what they are only; the presence of other
  devices changes no state of the client and is left out. `QSslSocket` and the
  broker are external. A connection goes through TCP and TLS, and may be lost, or
  dropped by the broker, at any time without the other end being told. The
  broker keeps one session for the device and publishes its will when the session
  ends without DISCONNECT. Delays, and so the growing backoff, are not modelled.
- *WireGuard*: every netlink request may fail, and one that failed may have been
  carried out (its answer was lost) or, for a list of peers, in part. An address
  that is given to a peer is taken from the peer that had it; an address of the
  device is added to those the interface has. The application gives different
  listed peers different addresses (`Free`); the service does not check it. Other
  programs made some interfaces before; while the service runs they do not touch
  any.

## Runs

| Run | Question | Instance |
|---|---|---|
| `socket` | Do dials, closes and their late answers leave the state true, on the peer asked for last, and the server within its limit? | 3 devices, 2 connections, limit 1 |
| `chat_delivery` | Are reports true, timers matched, messages shown once, and is `MessageDelivery` implemented, when everything arrives twice? | 2 devices that may both dial, 2 connections, limit 1, 1 message |
| `chat_live` | Does every message get a verdict and every indicator end? Is a message on a connection that holds reported delivered? Is Read final? | 1 connection at a time, 1 message, 1 typist |
| `file_mutual` | Is the file put in place the one offered, and only what was accepted streamed, when everything arrives twice and files change or cannot be opened, read or renamed? | 2 connections, limit 1, a file of 2 chunks or an empty one |
| `file_live` | Do transfers settle, temporary files go, finished files stay? | 1 connection, 2 chunks, renames may fail |
| `mqtt` | Does a lost session come back and a dead one get noticed? Does an ended one stay away? Do timers of one connection disturb the next? Do subscribers see what was announced? | the client's connection and one it has left |
| `pairing` | Is nothing replayed, and is every pairing agreed on and recent? | 2 devices with clocks apart, 3 key pairs, window 1, time 1-4 |
| `wireguard` | Is "Up" true, are the listed peers configured and routed, are interfaces of others kept, whatever request fails and whenever the process dies? | 2 names, 2 addresses, 2 peers with 2 addresses |
| `streams` | Do frames and packets arrive whole, in order and once, whatever the pieces? Is the queue's count right, the buffer bounded, and nothing left behind? | 3 frames on a connection, queue of 10 bytes, room for 4, reads of 1-6, one byte damaged |
| `file_sent`, `file_write`, `pairing_crossed` | Three statements of the documents or tests that the code does not keep, see below. | |

**Why the bounds are enough.** Two connections are what two devices that dial
each other have, and three devices are what a dial to another peer during a
pending one needs; a server of limit 1 with two connections meets its limit.
One message or transfer suffices for the properties checked because handlers
look up one id and touch nothing of another; only disconnects touch all of
them, alike. Two chunks can be lost, repeated and swapped. Three keys allow a
repeated initiation and an answer to the earlier one; with a window of 1, time
1-4 and clocks one apart, entries expire on one device while their messages
are still acceptable to the other. Three frames, the longest of which is
longer than the device has room for, fill the queue, are written in parts and are
read in pieces that end anywhere; a payload that is the magic number, empty
ones and packet lengths of one to three bytes are among them. Two addresses can
be exchanged between two peers and, on the interface, between two starts. The MQTT client holds one connection; a
second one that it has left, and the broker still reads, is all that can compete
with it for the session, one at a time. `MaxInFlight` bounds what the user starts, not what
handlers answer: a call waits until little is in flight.

`CHECK_DEADLOCK FALSE` is set where the system may stop: ids, keys and time are
bounded, and a device with nothing to do is idle.

**Fairness.** Chat: a timer that was started fires unless it is stopped, what
arrived is read, both by Qt's event loop; a dial is answered one way or the
other and a connection that arrived is accepted, by TCP. `SentIsDelivered`
promises nothing once the connection breaks. Streams: the device under a
socket drains and says so (`bytesWritten`), and what arrived is read. Files: chunk timers fire, what
arrived is read, connections are accepted, and an end whose peer is gone learns
of it (TCP reset or close). MQTT: timers fire, dials are answered, the broker drops a
connection the client has left, and a step of getting ready (TCP, TLS, CONNACK,
SUBACK) that can be taken again and again is taken: the network is not broken for
ever, and the backoff gives each attempt more time than the one before. It is
*not* assumed that a client learns of a silent loss. No user action is fair: no
user has to accept anything.

**Limits of some properties, which the model makes visible.**

- `ReadIsFinal` is checked and proved for one connection. With two, a late
  "delivered" of the slower connection sets a Read message back to Delivered.
- `TempFileHasOwner` and `AcceptedTransferSettles` are checked with one
  connection and renames that fail. With two, a repeated offer replaces the
  session and orphans its temporary file. An empty file whose rename fails leaves
  its temporary file behind even with one; the run has no empty files. A sender
  that cannot read its file does not tell the receiver, which then waits as long
  as the connection holds.
- `DownloadIsIntact` leaves out empty files, which are not verified, and holds
  only while writes succeed (`file_write`).
- `NothingIsReplayed` is about one life of the session object: the cache is not
  stored.
- `WantedIsPursued` and `LostSessionReturns` have exceptions that are states of
  the code: a dial that fails before TCP is up (`onSocketError` starts no timer
  and leaves `m_state` at Connecting) and a connection that dies silently before
  SUBACK (no timeout but the ping's, which needs Ready). A client in them stays
  there until somebody calls `connectToBroker` again.
- `PendingIsStranded` is a promise of a sort: a message that found no connection
  is not sent later, so its Failed is true.

## Where code and statements differ

1. `file_sent`: PROTOCOL_SPEC.md:185 promises an acknowledgement of a verified
   file. The sender completes when its last frame was handed to the socket, and
   the window then says "Verified SHA-256"; the receiver may have got nothing.
2. `file_write`: the result of `QFile::write` is ignored and the hash is taken of
   the bytes received, so a file with a chunk missing is put in place as verified.
3. `pairing_crossed`: two initiations that cross are both answered; each device
   is Paired with the other, with two different secrets.

Also met, without a run: a `startTunnel` that is refused replaces the interface's
name and keeps the flag of the earlier one, so that `stopTunnel` deletes an
interface the service did not make (`OthersAreKept` names this as its one
exception; `wireguard_service.h:72` calls the flag `m_interfaceCreatedByUs`);
the scan after damage drops a trailing first byte of a magic number, and with it
the frame it begins; a receive buffer is flushed by its size even if it holds
complete frames; `disconnectFromBroker` clears a buffer that may hold half a
packet while the socket still closes, so that the rest is read as a packet;
the list of peers of one request has a length of 16 bits, which several hundred
peers overflow; with a full queue `sendFrame` does not try its accepted
connections; `sendFrame` goes to every connection while
`p2p_socket.h:39` speaks of the active connection or the default peer; a wrong
password is not answered, so the initiator waits for ever; a failed dial leaves
`m_state` at Connecting, in the P2P socket and in the MQTT client, and nothing
dials again; online and offline presence are retained on two topics and neither
is ever cleared, so a new subscriber gets both; a SUBACK that refuses every
subscription counts as success; the window never calls `connectToBroker`.

## What is proved

For any number of devices, connections, messages, keys, peers, and any window
and clock skew:

- `ChatControllerProofs` - `TypeCorrect`, `DeliveredOnlyIfShown`,
  `TimerIffUndecided`, `PendingStaysHome`. The invariant is `ChatInv`.
  `DeliveredWasShown` is not inductive: an acknowledgement in flight could name
  a message nobody has shown, and it could come from the sender itself.
  `FramesAreJustified` says that every frame in flight tells of something that
  happened and never returns to the device a message is from; `OneSender`
  that an id belongs to one device; `ShownWasWired` that only messages put on a
  connection are shown, and never by their sender. Together they give that
  whoever showed an acknowledged message is another device.
  Also proved are that it implements `MessageDelivery`
  (`ImplementsMessageDelivery`): by `OneSender` the status the abstract message
  has is that of the one device that holds it, so a step of the chat changes it
  as one abstract step does, or not at all; `ShownOnce`, by `CacheRemembers`: a
  message that was shown since the cache last dropped it is in the cache;
  `NoTypingWithoutConnection`; and, with one connection at a time (`OneConnection`),
  `ReadStaysRead`. Its invariant is `OrderInv`: a message is on one wire once and
  nobody has shown it before it is read, so one device shows it and all answers
  in flight are that device's; on their wire "delivered" precedes "read"; and no
  "delivered" is left once the sender has read "read". Every step is a case of
  `Follows`: a wire keeps what is left of its frames, in order, and at most one
  new frame behind them.
- `P2PSocketProofs` - lemmas the above rests on: every step of the socket keeps
  `SocketInv` and never adds a frame; only `Broadcast` does. `SocketInv` is
  `StateTellsTheTruth` (checked by `socket`; with `TypeCorrect` proved for the
  chat), `HoldsItsOwnDial` and `RoutesAreSound`: a client socket holds only a
  connection it dialled itself, and one in use joins two different devices.
- `PairingSessionProofs` - `NoReplay`, `PairedIsAgreed`, `RecentOnly`. The
  invariant is `PairingInv`. `RequestsAreRemembered` is the heart of the first:
  an accepted request is in the cache or too old to be accepted again, which
  is why pruning by the same window is safe. `MessagesAreSound` carries the
  agreement: a response in the network was made, in time, from a secret its
  sender derived. `AwaitingIsNew` says that a session that waits has not been
  answered.
- `FileTransferControllerProofs` - `FileTypeCorrect`, `StreamsOnlyAccepted`,
  `DownloadStaysIntact`, `FinalStays`. The invariant is `FileInv`. Every step
  moves a transfer of a device in one of eight ways (`Move`), and each part of
  the invariant is shown to survive each. `FramesAreTrue` says that an accept in
  flight comes from a device that accepted and an offer from one that offers;
  `SessionsAreSound` that one device offers a transfer, so that an accept can
  only reach it from another. `TempIsHashed`, the file on the disk is what
  went through the hash, is what a download rests on: a matching hash then
  means that the file is the original. It holds while writes succeed, so
  `DownloadStaysIntact` assumes that `"write"` is no fault (with it, the run
  `file_write` shows the opposite), and `FinalStays` that renames succeed too.
  Chunks that are lost, repeated or swapped, files that change or cannot be
  opened or read, and any number of connections are covered. With one connection
  at a time also `TempFilesAreOwned`, by `OwnerInv`: an offer is on one wire once,
  and until it is read the receiver has no session of its transfer, so no session
  with a temporary file is ever replaced. Its second hypothesis, `EmptyIsRenamed`,
  names the one fault of the disk that leaves a file behind: a failed rename of
  an empty file, whose outcome `acceptTransfer` does not look at.
- `MqttSignalingProofs` - `MqttTypeCorrect`, `ReadyStaysUndisturbed`,
  `WantedStaysPursued`, `GoneStaysOffline`, `ViewStaysCurrent`, `NoReturnHolds`. The
  invariant is `MqttInv`, which reads from what a connection still holds how far
  the protocol is. `ConnectInv`: a CONNECT and its answer travel alone, so a
  client is not ready, and the broker serves nothing, before they were read.
  `FarewellInv`: DISCONNECT follows "offline", so a session that ends without a
  will leaves nobody online. `ViewInv`: what was announced last is the last
  presence on its way or, when none is, what subscribers were told.
- `P2PSocketSystemProofs` - `SocketTypeCorrect`; `StateIsTrue`, from `SocketInv`; `LastPeerWins`, by
  `PursuesTheLast`: a connection that is up, or a dial whose end was not asked
  for, leads to the peer wanted, so that the answer to an earlier dial cannot
  count for a later one; `ServerIsBounded`, for any limit.
- `WireGuardServiceProofs` - `TunnelIsUp` and `PeersInKernel`, by `TunnelInv`,
  which adds that listed peers have different addresses: without it, configuring
  one could take the route of another; `OthersKept`, by `FlagIsOurs`: the flag was decided
  for the interface `started` names, and is set only if the service made that.

- `FrameStreamProofs` - for every set of payloads, every way to cut the stream into
  writes and reads, and any limits within `StreamAssumption`. The invariant is
  `StreamInv`; its heart is `Faithful`: while no byte was damaged, what is in the
  buffer, on the wire and in the queue, or was lost in the queue of a sender
  that is gone, encodes the frames that were accepted and not yet received. It needs
  `StreamIsCut`: given a prefix of such an encoding, the parser takes its whole
  frames, reports nothing, and leaves the rest. The parser is a recursive
  function; `StreamIsCut` is shown by taking a shortest buffer for which it
  fails. From it follow, for any
  `MaxDamage`: `BuffersStayBounded`, `NoFalseAlarmHolds` and
  `UndamagedArriveInOrder` (until a byte is damaged, the frames received are the
  first of those sent). With `MaxDamage = 0`,
  `StreamTypeCorrect` and `ImplementsUndamagedChannel`: the stream implements
  `FrameChannel`, which is what justifies the atomic frames of the other modules.
  What arrives after damage depends on what the checksum tells apart; that
  part of `ImplementsChannel` and `TypeOK` is checked by `streams`.

The proofs use the assumptions on the constants named in each module, and for
PairingSession and the controllers nothing about the bounds of the model:
`Quiet`, `ShowBound` and `MaxTime` only restrict what the user starts, what is
counted and how long time runs, and the theorems hold for every value of them.

Only model-checked:

- everything temporal under fairness (`EveryMessageIsDecided`, `TypingEnds`,
  `SentIsDelivered`, `AcceptedTransferSettles`, `LostSessionReturns`,
  `DeadSessionIsNoticed`, `AcceptedIsDelivered`), which is out of the prover's reach;
- what a stream delivers after damage.

## Not modelled

- *Netlink messages*: how attributes are laid out, and `getWireGuardDevice`, which
  reads and changes nothing. What requests do is in `WireGuardService`.
- *OpenSSL*, *the kernel*, *Qt*, *the broker*: external; their outcomes are
  nondeterministic choices, or ideal functions.
- *Wire formats, configuration, logging, window*: no behaviour over time. The
  window calls neither `startServer` nor `connectToPeer` with an address at
  present; the models let the user do what the controllers offer.
- *Combinations*: the chat and file models have atomic frames, no stopped servers
  and no third device; `stopServer` emits no `peerDisconnected`, so transfers over
  its connections would stay.

## Plan

Done, in this order: P2P socket; chat controller with its abstract
specification and proofs; file transfer; pairing with proofs; WireGuard with
proofs; MQTT signaling; the byte streams; the requests to the kernel; proofs
about `P2PSocketSystem`, `MqttSignaling`, `FileTransferController`, the refinement
of `MessageDelivery`, and `FrameStream` with its refinement of `FrameChannel`; what
holds with one connection only (`ReadIsFinal`, `TempFileHasOwner`). Next:

1. What damage can do to a stream, under an assumption on the checksum that says
   which payloads it tells apart.
