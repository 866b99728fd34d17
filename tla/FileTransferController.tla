------------------------ MODULE FileTransferController ------------------------
(***************************************************************************)
(* Protocol::FileTransferController on every device, over the connections  *)
(* of P2PSocket.                                                           *)
(*                                                                         *)
(* A transfer is its transferId, fresh for every sendFile.  A file is the  *)
(* sequence of its chunks; two files have the same SHA-256 exactly if they *)
(* are the same sequence.  What the disk may do wrong is chosen by Faults: *)
(*   "source"  the file changes or cannot be read after it was hashed,     *)
(*   "open"    a file cannot be opened,                                    *)
(*   "write"   a chunk is not written,                                     *)
(*   "rename"  the finished file cannot be moved to its place.             *)
(***************************************************************************)
EXTENDS P2PSocket

CONSTANTS
    Transfers,    \* transfer ids
    Sizes,        \* how many chunks a file may have
    Senders,      \* devices whose users send files (a bound of the model)
    Dialers,      \* devices that call connectToPeer (a bound of the model)
    Servers,      \* devices that called startServer
    Faults,       \* what may go wrong with files
    NoFile,       \* the content of a path where no file is
    MaxInFlight   \* bound: frames in flight when a user starts something

ASSUME FileAssumption ==
    /\ Sizes \subseteq Nat
    /\ Senders \subseteq Devices /\ Dialers \subseteq Devices
    /\ Servers \subseteq Devices
    /\ Faults \subseteq {"source", "open", "write", "rename"}
    /\ MaxInFlight \in Nat

VARIABLES
    chunks,      \* number of chunks of the file behind each transfer id
    session,     \* m_sessions: a FileTransferSession per device and transfer
    streaming,   \* transfers whose singleShot(0) for the next chunk is pending
    temp,        \* content of .tmp_<transferId> in the destination directory
    final,       \* content of the destination file
    accepted     \* history: transfers a device has accepted

fileVars == <<chunks, session, streaming, temp, final, accepted>>
vars     == <<socketVars, fileVars>>

TransferState == {"Offering", "Rejected", "Transferring", "Completed", "Failed",
                  "Cancelled"}

\* The bytes of one chunk: where they belong, and whether they are those that
\* were hashed for the offer.
Bytes(n)    == [at : 0..(n - 1), intact : BOOLEAN]
Original(t) == [i \in 1..chunks[t] |-> [at |-> i - 1, intact |-> TRUE]]

NoSession == [direction |-> "None", state |-> "None", index |-> 0, hash |-> <<>>,
              hasTemp |-> FALSE]
NewSession(dir) == [NoSession EXCEPT !.direction = dir, !.state = "Offering"]

Sessions(n) ==
    [direction : {"None", "Outgoing", "Incoming"}, state : TransferState \cup {"None"},
     index : 0..n, hash : Seq(Bytes(n)), hasTemp : BOOLEAN]

FileFrame(type, t)   == [type |-> type, id |-> t]
FileChunk(t, i, b)   == [type |-> "FileChunk", id |-> t, index |-> i, bytes |-> b]

ControlTypes == {"FileOffer", "FileAccept", "FileReject", "FileCancel", "FileComplete"}

Frames ==
    {FileFrame(type, t) : type \in ControlTypes, t \in Transfers}
    \cup UNION {{FileChunk(t, i, b) : i \in 0..(chunks[t] - 1), b \in Bytes(chunks[t])} :
                   t \in Transfers}

Init ==
    /\ SocketInit(Servers)
    /\ chunks \in [Transfers -> Sizes]
    /\ session = [d \in Devices |-> [t \in Transfers |-> NoSession]]
    /\ streaming = [d \in Devices |-> {}]
    /\ temp = [d \in Devices |-> [t \in Transfers |-> NoFile]]
    /\ final = [d \in Devices |-> [t \in Transfers |-> NoFile]]
    /\ accepted = [d \in Devices |-> {}]

socketButWire == <<m_state, qt, pendingClose, link, dialer, listener, server,
                   listening>>

\* A user may start something only while little is in flight: a bound.
Quiet == \A k \in Conns, s \in Sides : Len(wire[k][s]) < MaxInFlight

\* m_sessions.contains(t) at device d.
Known(d, t) == session[d][t].direction # "None"
SetSession(d, t, s) == session' = [session EXCEPT ![d][t] = s]

\* cleanupSession(t, true): the file of this session's tempFilePath goes.
Cleanup(d, t) ==
    temp' = [temp EXCEPT ![d][t] = IF session[d][t].hasTemp THEN NoFile ELSE @]

\* The session ends in state s and its temporary file is removed.
Finish(d, t, s) ==
    /\ SetSession(d, t, [session[d][t] EXCEPT !.state = s])
    /\ Cleanup(d, t)

-----------------------------------------------------------------------------
(* onSocketDisconnected, also for onPeerDisconnected of whatever peer: all *)
(* transfers that are offered or under way fail.  ss: the sessions of d.   *)

Active(s) == s.state \in {"Offering", "Transferring"}

\* Mistaken: the temporary files are left.
FailActiveOnly(d, ss) ==
    /\ session' = [session EXCEPT ![d] = [t \in Transfers |->
                      IF Active(ss[t]) THEN [ss[t] EXCEPT !.state = "Failed"] ELSE ss[t]]]
    /\ UNCHANGED temp

FailActive(d, ss) ==
    /\ session' = [session EXCEPT ![d] = [t \in Transfers |->
                      IF Active(ss[t]) THEN [ss[t] EXCEPT !.state = "Failed"] ELSE ss[t]]]
    /\ temp' = [temp EXCEPT ![d] = [t \in Transfers |->
                      IF Active(ss[t]) /\ ss[t].hasTemp THEN NoFile ELSE temp[d][t]]]

\* connectToPeer, with the disconnected() it may emit from inside; ss are the
\* sessions of d when it is called.
ConnectAndNotify(d, e, ss) ==
    \/ \E k \in Conns :
          /\ Dial(d, e, k)
          /\ IF DialDisconnects(d)
             THEN FailActive(d, ss)
             ELSE session' = [session EXCEPT ![d] = ss] /\ UNCHANGED temp
    \/ /\ RedialWhileConnecting(d) \/ RedialWhileClosing(d)
       /\ session' = [session EXCEPT ![d] = ss]
       /\ UNCHANGED temp

-----------------------------------------------------------------------------
(* Calls of the user interface.                                            *)

\* sendFile: the session is recorded first.  Without a connection the offer
\* is not sent and not kept; with a virtual IP a dial is started.
SendFile(d, t) ==
    /\ Quiet
    /\ d \in Senders
    /\ \A e \in Devices : ~Known(e, t)
    /\ LET ss == [session[d] EXCEPT ![t] = NewSession("Outgoing")]
       IN  \/ /\ IsConnected(d)
              /\ session' = [session EXCEPT ![d] = ss]
              /\ wire' = Broadcast(d, FileFrame("FileOffer", t), wire)
              /\ UNCHANGED <<socketButWire, temp>>
           \/ /\ ~IsConnected(d)
              /\ \/ /\ session' = [session EXCEPT ![d] = ss]
                    /\ UNCHANGED <<socketVars, temp>>
                 \/ \E e \in Devices : ConnectAndNotify(d, e, ss)
    /\ UNCHANGED <<streaming, final, accepted, chunks>>

\* acceptTransfer.  The file of an empty transfer is finished at once, the
\* outcome of the rename is not looked at.
Accepting(d, t) ==
    /\ session[d][t].state = "Offering"
    /\ session[d][t].direction = "Incoming"

AcceptTransfer(d, t) ==
    /\ Quiet
    /\ Accepting(d, t)
    /\ accepted' = [accepted EXCEPT ![d] = @ \cup {t}]
    /\ wire' = Broadcast(d, FileFrame("FileAccept", t), wire)
    /\ LET s == [session[d][t] EXCEPT !.hasTemp = TRUE]
       IN  IF chunks[t] > 0
           THEN /\ SetSession(d, t, [s EXCEPT !.state = "Transferring"])
                /\ temp' = [temp EXCEPT ![d][t] = <<>>]
                /\ UNCHANGED final
           ELSE /\ SetSession(d, t, [s EXCEPT !.state = "Completed"])
                /\ \/ /\ final' = [final EXCEPT ![d][t] = <<>>]
                      /\ temp' = [temp EXCEPT ![d][t] = NoFile]
                   \/ /\ "rename" \in Faults
                      /\ final' = [final EXCEPT ![d][t] = NoFile]
                      /\ temp' = [temp EXCEPT ![d][t] = <<>>]
    /\ UNCHANGED <<socketButWire, streaming, chunks>>

\* Mistaken: the sender is answered before the file is opened.
AcceptFailsLate(d, t) ==
    /\ Accepting(d, t)
    /\ "open" \in Faults
    /\ SetSession(d, t, [session[d][t] EXCEPT !.state = "Failed", !.hasTemp = TRUE])
    /\ wire' = Broadcast(d, FileFrame("FileAccept", t), wire)
    /\ UNCHANGED <<socketButWire, streaming, temp, final, accepted, chunks>>

\* acceptTransfer when the temporary file cannot be opened: nobody is told.
AcceptFails(d, t) ==
    /\ Accepting(d, t)
    /\ "open" \in Faults
    /\ SetSession(d, t, [session[d][t] EXCEPT !.state = "Failed", !.hasTemp = TRUE])
    /\ UNCHANGED <<socketVars, streaming, temp, final, accepted, chunks>>

\* rejectTransfer and cancelTransfer, in any state and either direction.
Abandon(d, t, type, s) ==
    /\ Quiet
    /\ Known(d, t)
    /\ session[d][t].state # s
    /\ Finish(d, t, s)
    /\ wire' = Broadcast(d, FileFrame(type, t), wire)
    /\ UNCHANGED <<socketButWire, streaming, final, accepted, chunks>>

RejectTransfer(d, t) == Abandon(d, t, "FileReject", "Rejected")
CancelTransfer(d, t) == Abandon(d, t, "FileCancel", "Cancelled")

-----------------------------------------------------------------------------
(* sendNextChunk for session s of device d, on the wires w.                *)

SendNextChunk(d, t, s, w) ==
    \* All chunks sent, or the file has become shorter.
    \/ /\ s.index = chunks[t] \/ "source" \in Faults
       /\ SetSession(d, t, [s EXCEPT !.state = "Completed"])
       /\ wire' = Broadcast(d, FileFrame("FileComplete", t), w)
       /\ streaming' = [streaming EXCEPT ![d] = @ \ {t}]
    \/ /\ s.index < chunks[t]
       /\ SetSession(d, t, [s EXCEPT !.index = @ + 1])
       /\ \E b \in BOOLEAN :
             /\ b \/ "source" \in Faults
             /\ wire' = Broadcast(d, FileChunk(t, s.index, [at |-> s.index, intact |-> b]), w)
       /\ streaming' = [streaming EXCEPT ![d] = @ \cup {t}]
    \* The read fails: the receiver is not told.
    \/ /\ s.index < chunks[t] /\ "source" \in Faults
       /\ SetSession(d, t, [s EXCEPT !.state = "Failed"])
       /\ wire' = w
       /\ streaming' = [streaming EXCEPT ![d] = @ \ {t}]

\* The singleShot(0) timer of the last chunk.
ChunkTimer(d, t) ==
    /\ t \in streaming[d]
    /\ IF session[d][t].state = "Transferring"
       THEN SendNextChunk(d, t, session[d][t], wire)
       ELSE /\ streaming' = [streaming EXCEPT ![d] = @ \ {t}]
            /\ UNCHANGED <<session, wire>>
    /\ UNCHANGED <<socketButWire, temp, final, accepted, chunks>>

-----------------------------------------------------------------------------
(* onFrameReceivedFrom: the handlers of frames read from a connection.     *)

Reads(d, k, s, type) == CanRead(d, k, s) /\ Head(wire[k][s]).type = type
IdOf(k, s) == Head(wire[k][s]).id

\* handleInboundFileOffer: a session of the same id is replaced, whatever it
\* was doing.
ReceiveOffer(d, k, s) ==
    /\ Reads(d, k, s, "FileOffer")
    /\ SetSession(d, IdOf(k, s), NewSession("Incoming"))
    /\ wire' = Consumed(k, s)
    /\ UNCHANGED <<socketButWire, streaming, temp, final, accepted, chunks>>

\* handleInboundFileAccept: the first acceptance starts the stream.
ReceiveAccept(d, k, s) ==
    /\ Reads(d, k, s, "FileAccept")
    /\ LET t == IdOf(k, s)
           x == [session[d][t] EXCEPT !.state = "Transferring"]
       IN  IF session[d][t].direction = "Outgoing" /\ session[d][t].state = "Offering"
           THEN \/ SendNextChunk(d, t, x, Consumed(k, s))
                \/ /\ "open" \in Faults
                   /\ SetSession(d, t, [x EXCEPT !.state = "Failed"])
                   /\ wire' = Consumed(k, s)
                   /\ UNCHANGED streaming
           ELSE /\ wire' = Consumed(k, s)
                /\ UNCHANGED <<session, streaming>>
    /\ UNCHANGED <<socketButWire, temp, final, accepted, chunks>>

\* Mistaken: the destination is cleaned up too.
ReceiveEndRemovesFile(d, k, s) ==
    /\ \/ Reads(d, k, s, "FileReject")
       \/ Reads(d, k, s, "FileCancel")
    /\ LET t == IdOf(k, s)
       IN  IF Known(d, t)
           THEN Finish(d, t, "Cancelled") /\ final' = [final EXCEPT ![d][t] = NoFile]
           ELSE UNCHANGED <<session, temp, final>>
    /\ wire' = Consumed(k, s)
    /\ UNCHANGED <<socketButWire, streaming, accepted, chunks>>

\* handleInboundFileReject and handleInboundFileCancel: any known session
\* ends, whatever its direction and state.
ReceiveEnd(d, k, s) ==
    /\ \/ Reads(d, k, s, "FileReject")
       \/ Reads(d, k, s, "FileCancel")
    /\ LET t == IdOf(k, s)
       IN  IF Known(d, t)
           THEN Finish(d, t, IF Head(wire[k][s]).type = "FileReject" THEN "Rejected"
                                                                     ELSE "Cancelled")
           ELSE UNCHANGED <<session, temp>>
    /\ wire' = Consumed(k, s)
    /\ UNCHANGED <<socketButWire, streaming, final, accepted, chunks>>

\* handleInboundFileChunk: the next chunk is hashed and written (the outcome
\* of the write is not looked at); any other one fails the transfer, and the
\* sender is not told.
Receiving(d, t) ==
    session[d][t].direction = "Incoming" /\ session[d][t].state = "Transferring"

\* Mistaken: chunks are taken in whatever order they come.
ReceiveAnyChunk(d, k, s) ==
    /\ Reads(d, k, s, "FileChunk")
    /\ LET t == IdOf(k, s)
           f == Head(wire[k][s])
       IN  IF Receiving(d, t)
           THEN /\ SetSession(d, t, [session[d][t] EXCEPT !.index = @ + 1,
                                                          !.hash = Append(@, f.bytes)])
                /\ temp' = [temp EXCEPT ![d][t] = Append(@, f.bytes)]
           ELSE UNCHANGED <<session, temp>>
    /\ wire' = Consumed(k, s)
    /\ UNCHANGED <<socketButWire, streaming, final, accepted, chunks>>

ReceiveChunk(d, k, s) ==
    /\ Reads(d, k, s, "FileChunk")
    /\ LET t == IdOf(k, s)
           f == Head(wire[k][s])
       IN  \/ /\ ~Receiving(d, t)
              /\ UNCHANGED <<session, temp>>
           \/ /\ Receiving(d, t) /\ f.index # session[d][t].index
              /\ Finish(d, t, "Failed")
           \/ /\ Receiving(d, t) /\ f.index = session[d][t].index
              /\ SetSession(d, t, [session[d][t] EXCEPT !.index = @ + 1,
                                                        !.hash = Append(@, f.bytes)])
              /\ \/ temp' = [temp EXCEPT ![d][t] = Append(@, f.bytes)]
                 \/ "write" \in Faults /\ UNCHANGED temp
    /\ wire' = Consumed(k, s)
    /\ UNCHANGED <<socketButWire, streaming, final, accepted, chunks>>

\* Mistaken: chunks are counted instead of verified.
ReceiveCompleteByCount(d, k, s) ==
    /\ Reads(d, k, s, "FileComplete")
    /\ LET t == IdOf(k, s)
       IN  IF Receiving(d, t) /\ session[d][t].index = chunks[t]
           THEN /\ SetSession(d, t, [session[d][t] EXCEPT !.state = "Completed"])
                /\ final' = [final EXCEPT ![d][t] = temp[d][t]]
                /\ temp' = [temp EXCEPT ![d][t] = NoFile]
           ELSE UNCHANGED <<session, temp, final>>
    /\ wire' = Consumed(k, s)
    /\ UNCHANGED <<socketButWire, streaming, accepted, chunks>>

\* handleInboundFileComplete.
ReceiveComplete(d, k, s) ==
    /\ Reads(d, k, s, "FileComplete")
    /\ LET t == IdOf(k, s)
       IN  \/ /\ ~Receiving(d, t)
              /\ UNCHANGED <<session, temp, final>>
           \/ /\ Receiving(d, t) /\ session[d][t].hash = Original(t)
              /\ \/ /\ SetSession(d, t, [session[d][t] EXCEPT !.state = "Completed"])
                    /\ final' = [final EXCEPT ![d][t] = temp[d][t]]
                    /\ temp' = [temp EXCEPT ![d][t] = NoFile]
                 \/ /\ "rename" \in Faults
                    /\ Finish(d, t, "Failed")
                    /\ final' = [final EXCEPT ![d][t] = NoFile]
           \/ /\ Receiving(d, t) /\ session[d][t].hash # Original(t)
              /\ Finish(d, t, "Failed")
              /\ UNCHANGED final
    /\ wire' = Consumed(k, s)
    /\ UNCHANGED <<socketButWire, streaming, accepted, chunks>>

-----------------------------------------------------------------------------
(* The socket's own events, with what the controller makes of them.        *)

restVars == <<chunks, streaming, final, accepted>>

UserConnects(d, e) ==
    /\ d \in Dialers
    /\ ConnectAndNotify(d, e, session[d])
    /\ UNCHANGED restVars

UserDisconnects(d) ==
    /\ \/ DisconnectLater(d) /\ UNCHANGED <<session, temp>>
       \/ DisconnectNow(d) /\ FailActive(d, session[d])
    /\ UNCHANGED restVars

Connected(d)  == SocketConnected(d) /\ UNCHANGED fileVars
DialFailed(d) == SocketError(d) /\ UNCHANGED fileVars
Accepted(k)   == ServerNewConnection(k) /\ UNCHANGED fileVars
Refused(k)    == ServerRejectConnection(k) /\ UNCHANGED fileVars

Disconnected(d) ==
    /\ SocketConnectedThenClosed(d) \/ SocketDisconnected(d)
    /\ FailActive(d, session[d])
    /\ UNCHANGED restVars

\* Mistaken: only the signal of the client socket is connected.
PeerDisconnectedUnheard(k) == ServerClientDisconnected(k) /\ UNCHANGED fileVars

PeerDisconnected(k) ==
    /\ ServerClientDisconnected(k)
    /\ FailActive(listener[k], session[listener[k]])
    /\ UNCHANGED restVars

-----------------------------------------------------------------------------
User(d, t) ==
    \/ SendFile(d, t) \/ AcceptTransfer(d, t) \/ AcceptFails(d, t)
    \/ RejectTransfer(d, t) \/ CancelTransfer(d, t)

Receive(d, k, s) ==
    \/ ReceiveOffer(d, k, s) \/ ReceiveAccept(d, k, s) \/ ReceiveEnd(d, k, s)
    \/ ReceiveChunk(d, k, s) \/ ReceiveComplete(d, k, s)

Socket ==
    \/ \E d \in Devices : \/ UserDisconnects(d) \/ Connected(d) \/ DialFailed(d)
                          \/ Disconnected(d)
                          \/ \E e \in Devices : UserConnects(d, e)
    \/ \E k \in Conns : Accepted(k) \/ Refused(k) \/ PeerDisconnected(k)

Next ==
    \/ \E d \in Devices, t \in Transfers : User(d, t) \/ ChunkTimer(d, t)
    \/ \E d \in Devices, k \in Conns, s \in Sides : Receive(d, k, s)
    \/ Socket

Spec == Init /\ [][Next]_vars

\* The event loop runs timers and reads what arrives, TCP accepts connections,
\* and an end whose peer is gone learns of it.
Fairness ==
    /\ \A d \in Devices, t \in Transfers : WF_vars(ChunkTimer(d, t))
    /\ \A d \in Devices, k \in Conns, s \in Sides : WF_vars(Receive(d, k, s))
    /\ \A k \in Conns : WF_vars(Accepted(k))
    /\ \A d \in Devices :
          WF_vars(/\ link[d] # NoConn
                  /\ server[link[d]] = "closed" \/ qt[d] = "Closing"
                  /\ Disconnected(d))
    /\ \A k \in Conns : WF_vars(~DialerHolds(k) /\ PeerDisconnected(k))

FairSpec == Spec /\ Fairness

-----------------------------------------------------------------------------
TypeOK ==
    /\ SocketTypeOK(Frames)
    /\ chunks \in [Transfers -> Sizes]
    /\ \A t \in Transfers, d \in Devices : session[d][t] \in Sessions(chunks[t])
    /\ DOMAIN session = Devices /\ \A d \in Devices : DOMAIN session[d] = Transfers
    /\ streaming \in [Devices -> SUBSET Transfers]
    /\ DOMAIN temp = Devices /\ DOMAIN final = Devices
    /\ \A d \in Devices :
          /\ DOMAIN temp[d] = Transfers /\ DOMAIN final[d] = Transfers
          /\ \A t \in Transfers : /\ temp[d][t] \in Seq(Bytes(chunks[t])) \cup {NoFile}
                                  /\ final[d][t] \in Seq(Bytes(chunks[t])) \cup {NoFile}
    /\ accepted \in [Devices -> SUBSET Transfers]

\* Whatever is duplicated, lost or changed on the way, no other file than the
\* one that was offered is ever put in place, and a transfer reported complete
\* to its receiver has put it there.  Empty files, which are not verified, are
\* left out.  (file_transfer_controller.cpp:427-436, 463-473)
DownloadIsIntact ==
    \A d \in Devices, t \in Transfers :
        chunks[t] > 0 =>
            /\ final[d][t] \in {NoFile, Original(t)}
            /\ /\ session[d][t].direction = "Incoming"
               /\ session[d][t].state = "Completed"
               => final[d][t] = Original(t)

\* A file that was put in place is not touched by what happens later to its
\* session: cancellations, lost connections, late frames.
\* (cleanupSession, file_transfer_controller.cpp:503-514)
FinalFileStays ==
    [][\A d \in Devices, t \in Transfers :
          final[d][t] # NoFile => final'[d][t] = final[d][t]]_vars

\* Nothing is streamed that no peer has asked for: not even when an offer is
\* replaced, abandoned or answered late.  (file_transfer_controller.cpp:307-325)
OnlyAcceptedIsStreamed ==
    \A d \in Devices, t \in Transfers :
        /\ session[d][t].direction = "Outgoing"
        /\ session[d][t].index > 0 \/ t \in streaming[d]
        => \E e \in Devices \ {d} : t \in accepted[e]

\* Each way a transfer can end removes its temporary file: one that exists
\* belongs to a transfer under way.  (file_transfer_controller.cpp:503-531)
TempFileHasOwner ==
    \A d \in Devices, t \in Transfers : temp[d][t] # NoFile => Receiving(d, t)

\* A receiver does not wait for ever: the transfer completes, fails or is
\* abandoned.
AcceptedTransferSettles ==
    \A d \in Devices, t \in Transfers : Receiving(d, t) ~> ~Receiving(d, t)

\* "Receiver reassembles chunks, verifies full file SHA-256 against offer hash,
\* and emits acknowledgement." (PROTOCOL_SPEC.md:185): a transfer is complete
\* for its sender when some receiver has verified the file.  The code waits for
\* no acknowledgement.
SentIsVerified ==
    \A d \in Devices, t \in Transfers :
        session[d][t].direction = "Outgoing" /\ session[d][t].state = "Completed"
            => \E e \in Devices \ {d} : final[e][t] = Original(t)
=============================================================================
