---------------------- MODULE FileTransferControllerProofs ----------------------
(***************************************************************************)
(* Theorems about FileTransferController for any devices, connections and  *)
(* transfers.  What one step may do to one transfer at one device is       *)
(* summed up by Move; the properties follow from Move and from what the    *)
(* frames in flight tell.                                                  *)
(***************************************************************************)
EXTENDS FileTransferController, P2PSocketProofs

-----------------------------------------------------------------------------
(* Types.                                                                  *)

Contents(t) == Seq(Bytes(chunks[t])) \cup {NoFile}

TransferOK(d, t) ==
    /\ session[d][t] \in Sessions(chunks[t])
    /\ temp[d][t] \in Contents(t) /\ final[d][t] \in Contents(t)

FileDomains ==
    /\ DOMAIN session = Devices /\ DOMAIN temp = Devices /\ DOMAIN final = Devices
    /\ \A d \in Devices : /\ DOMAIN session[d] = Transfers /\ DOMAIN temp[d] = Transfers
                          /\ DOMAIN final[d] = Transfers

FileTypeOK ==
    /\ chunks \in [Transfers -> Sizes]
    /\ streaming \in [Devices -> SUBSET Transfers]
    /\ accepted \in [Devices -> SUBSET Transfers]

LEMMA TypeOKParts ==
    TypeOK <=> /\ SocketTypeOK(Frames) /\ FileTypeOK /\ FileDomains
               /\ \A d \in Devices, t \in Transfers : TransferOK(d, t)
  BY DEF TypeOK, FileTypeOK, FileDomains, TransferOK, Contents

\* What a new record of a session, made by an assignment, holds.
LEMMA SessionFields ==
    ASSUME NEW n \in Nat, NEW x \in Sessions(n)
    PROVE  /\ x.direction \in {"None", "Outgoing", "Incoming"}
           /\ x.index \in 0..n /\ x.hash \in Seq(Bytes(n)) /\ x.hasTemp \in BOOLEAN
           /\ x.state \in TransferState \cup {"None"}
  BY DEF Sessions

LEMMA SetState ==
    ASSUME NEW n \in Nat, NEW x \in Sessions(n), NEW st \in TransferState
    PROVE  LET y == [x EXCEPT !.state = st]
           IN  /\ y \in Sessions(n) /\ y.state = st /\ y.direction = x.direction
               /\ y.index = x.index /\ y.hash = x.hash /\ y.hasTemp = x.hasTemp
  BY DEF Sessions

LEMMA SetIndex ==
    ASSUME NEW n \in Nat, NEW x \in Sessions(n), NEW i \in 0..n
    PROVE  LET y == [x EXCEPT !.index = i]
           IN  /\ y \in Sessions(n) /\ y.state = x.state /\ y.direction = x.direction
               /\ y.index = i /\ y.hash = x.hash /\ y.hasTemp = x.hasTemp
  BY DEF Sessions

LEMMA SetHasTemp ==
    ASSUME NEW n \in Nat, NEW x \in Sessions(n)
    PROVE  LET y == [x EXCEPT !.hasTemp = TRUE]
           IN  /\ y \in Sessions(n) /\ y.state = x.state /\ y.direction = x.direction
               /\ y.index = x.index /\ y.hash = x.hash
  BY DEF Sessions

LEMMA NewFields ==
    ASSUME NEW n \in Nat, NEW dir \in {"Outgoing", "Incoming"}
    PROVE  /\ NewSession(dir) \in Sessions(n) /\ NewSession(dir).direction = dir
           /\ NewSession(dir).state = "Offering" /\ NewSession(dir).index = 0
           /\ NewSession(dir).hash = <<>> /\ NewSession(dir).hasTemp = FALSE
           /\ NoSession \in Sessions(n) /\ NoSession.direction = "None"
  <1>1. <<>> \in Seq(Bytes(n))
    OBVIOUS
  <1>2. /\ NoSession \in Sessions(n) /\ NoSession.direction = "None"
        /\ NoSession.index = 0 /\ NoSession.hash = <<>> /\ NoSession.hasTemp = FALSE
    BY <1>1 DEF NoSession, Sessions, TransferState
  <1>3. ASSUME NEW x \in Sessions(n)
        PROVE  LET y == [x EXCEPT !.direction = dir, !.state = "Offering"]
               IN  /\ y \in Sessions(n) /\ y.direction = dir /\ y.state = "Offering"
                   /\ y.index = x.index /\ y.hash = x.hash /\ y.hasTemp = x.hasTemp
    BY DEF Sessions, TransferState
  <1>4. QED
    BY <1>2, <1>3 DEF NewSession

\* The fields of the frames.
LEMMA FrameFields ==
    ASSUME FileTypeOK, FileAssumption, NEW f \in Frames
    PROVE  /\ f.id \in Transfers
           /\ f.type \in ControlTypes \cup {"FileChunk"}
           /\ f.type = "FileChunk" => f.index \in 0..(chunks[f.id] - 1)
                                      /\ f.bytes \in Bytes(chunks[f.id])
  <1>1. CASE f \in {FileFrame(type, t) : type \in ControlTypes, t \in Transfers}
    BY <1>1 DEF FileFrame, ControlTypes
  <1>2. ASSUME NEW t \in Transfers, NEW i \in 0..(chunks[t] - 1), NEW b \in Bytes(chunks[t]),
               f = FileChunk(t, i, b)
        PROVE  /\ f.id \in Transfers /\ f.type = "FileChunk"
               /\ f.index \in 0..(chunks[f.id] - 1) /\ f.bytes \in Bytes(chunks[f.id])
    BY <1>2 DEF FileChunk
  <1>3. QED
    BY <1>1, <1>2 DEF Frames

LEMMA FrameKinds ==
    ASSUME FileTypeOK
    PROVE  /\ \A type \in ControlTypes, t \in Transfers : FileFrame(type, t) \in Frames
           /\ \A t \in Transfers : \A i \in 0..(chunks[t] - 1), b \in Bytes(chunks[t]) :
                 FileChunk(t, i, b) \in Frames
  BY DEF Frames

-----------------------------------------------------------------------------
(* What a step may do to transfer t at device d.                           *)

\* Somebody else has accepted the transfer.
Asked(d, t) == \E e \in Devices \ {d} : t \in accepted[e]

SameSession(d, t) ==
    /\ session'[d][t].direction = session[d][t].direction
    /\ session'[d][t].index = session[d][t].index
    /\ session'[d][t].hash = session[d][t].hash

FinalKept(d, t)  == final'[d][t] = final[d][t]
NotStarted(d, t) == t \in streaming'[d] => t \in streaming[d]

Kept(d, t) ==
    /\ SameSession(d, t) /\ session'[d][t].state = session[d][t].state
    /\ temp'[d][t] = temp[d][t] /\ FinalKept(d, t) /\ NotStarted(d, t)

Ends(d, t) ==
    /\ SameSession(d, t) /\ session'[d][t].state \in {"Failed", "Rejected", "Cancelled"}
    /\ FinalKept(d, t) \/ ("rename" \in Faults /\ final'[d][t] = NoFile)
    /\ NotStarted(d, t)

Offers(d, t) ==
    /\ \A e \in Devices : session[e][t].direction = "None"
    /\ \A e \in Devices \ {d} : session'[e][t].direction = "None"
    /\ session'[d][t].direction = "Outgoing"
    /\ session'[d][t].state \in {"Offering", "Failed"}
    /\ session'[d][t].hash = <<>> /\ session'[d][t].index = 0
    /\ FinalKept(d, t) /\ NotStarted(d, t)

IsOffered(d, t) ==
    /\ session[d][t].direction # "Outgoing"
    /\ session'[d][t].direction = "Incoming" /\ session'[d][t].state = "Offering"
    /\ session'[d][t].hash = <<>> /\ session'[d][t].index = 0
    /\ FinalKept(d, t) /\ NotStarted(d, t)

Accepts(d, t) ==
    /\ Accepting(d, t)
    /\ SameSession(d, t) /\ NotStarted(d, t)
    /\ \/ /\ session'[d][t].state = "Transferring"
          /\ temp'[d][t] = <<>> /\ FinalKept(d, t)
       \/ /\ chunks[t] = 0 /\ session'[d][t].state = "Completed"
          /\ final'[d][t] = <<>> \/ ("rename" \in Faults /\ final'[d][t] = NoFile)

TakesChunk(d, t) ==
    /\ Receiving(d, t)
    /\ session'[d][t].direction = "Incoming" /\ session'[d][t].state = "Transferring"
    /\ \E b \in Bytes(chunks[t]) :
          /\ session'[d][t].hash = Append(session[d][t].hash, b)
          /\ \/ temp'[d][t] = Append(temp[d][t], b)
             \/ "write" \in Faults /\ temp'[d][t] = temp[d][t]
    /\ FinalKept(d, t) /\ NotStarted(d, t)

PutsInPlace(d, t) ==
    /\ Receiving(d, t) /\ session[d][t].hash = Original(t)
    /\ SameSession(d, t) /\ session'[d][t].state = "Completed"
    /\ final'[d][t] = temp[d][t] /\ NotStarted(d, t)

Streams(d, t) ==
    /\ Asked(d, t)
    /\ session[d][t].direction = "Outgoing" /\ session'[d][t].direction = "Outgoing"
    /\ session'[d][t].state # "Offering" /\ FinalKept(d, t)

Move(d, t) ==
    \/ Kept(d, t) \/ Ends(d, t) \/ Offers(d, t) \/ IsOffered(d, t) \/ Accepts(d, t)
    \/ TakesChunk(d, t) \/ PutsInPlace(d, t) \/ Streams(d, t)

\* A step of the controllers that moves every transfer.
FileStep ==
    /\ chunks' = chunks /\ FileTypeOK' /\ FileDomains'
    /\ \A d \in Devices : accepted[d] \subseteq accepted'[d]
    /\ \A d \in Devices, t \in Transfers : TransferOK(d, t)' /\ Move(d, t)

-----------------------------------------------------------------------------
(* The inductive invariant.                                                *)

\* A session that is only offered has received nothing; only what is offered
\* to others is streamed, and each transfer is offered by one device.
SessionsAreSound ==
    /\ \A d \in Devices, t \in Transfers :
          /\ session[d][t].state = "Offering" => session[d][t].hash = <<>>
          /\ t \in streaming[d] => session[d][t].direction = "Outgoing"
    /\ \A d, e \in Devices, t \in Transfers :
          session[d][t].direction = "Outgoing" /\ session[e][t].direction = "Outgoing"
             => d = e

\* Who writes on side s of connection k.
Source(k, s) == IF s = "up" THEN dialer[k] ELSE listener[k]

\* What an offer or an acceptance in flight says is true of its sender.
TrueOf(d, f) ==
    /\ f.type = "FileOffer" => session[d][f.id].direction = "Outgoing"
    /\ f.type = "FileAccept" => f.id \in accepted[d]

FramesAreTrue ==
    \A k \in Conns, s \in Sides : \A i \in 1..Len(wire[k][s]) :
        TrueOf(Source(k, s), wire[k][s][i])

\* A file that is being received is on the disk.
TempIsThere ==
    \A d \in Devices, t \in Transfers :
        Receiving(d, t) => temp[d][t] \in Seq(Bytes(chunks[t]))

\* Where writes do not fail the file on the disk is the one that was hashed.
TempIsHashed ==
    \A d \in Devices, t \in Transfers :
        Receiving(d, t) => temp[d][t] = session[d][t].hash

FinalIsOriginal ==
    \A d \in Devices, t \in Transfers : final[d][t] \in {NoFile, Original(t)}

FileInv ==
    /\ TypeOK /\ SocketInv
    /\ SessionsAreSound /\ FramesAreTrue /\ OnlyAcceptedIsStreamed /\ TempIsThere
    /\ "write" \notin Faults => TempIsHashed /\ FinalIsOriginal /\ DownloadIsIntact

-----------------------------------------------------------------------------
(* The invariant after a step, from what the step does to each transfer.   *)

LEMMA OutgoingStays ==
    ASSUME FileStep, NEW d \in Devices, NEW t \in Transfers,
           session[d][t].direction = "Outgoing"
    PROVE  session'[d][t].direction = "Outgoing"
  BY DEF FileStep, Move, Kept, Ends, Offers, IsOffered, Accepts, TakesChunk, PutsInPlace,
         Streams, SameSession, Accepting, Receiving

LEMMA SessionsStaySound ==
    ASSUME FileInv, FileStep
    PROVE  SessionsAreSound'
  <1> USE DEF FileInv, SessionsAreSound, SameSession, Accepting, Receiving, NotStarted
  <1>1. ASSUME NEW d \in Devices, NEW t \in Transfers
        PROVE  /\ session'[d][t].state = "Offering" => session'[d][t].hash = <<>>
               /\ t \in streaming'[d] => session'[d][t].direction = "Outgoing"
    <2>1. Move(d, t)
      BY DEF FileStep
    <2>2. CASE Kept(d, t) \/ Ends(d, t)
      BY <2>2 DEF Kept, Ends
    <2>3. CASE Offers(d, t) \/ IsOffered(d, t)
      BY <2>3 DEF Offers, IsOffered
    <2>4. CASE Accepts(d, t)
      BY <2>4 DEF Accepts
    <2>5. CASE TakesChunk(d, t) \/ PutsInPlace(d, t)
      BY <2>5 DEF TakesChunk, PutsInPlace
    <2>6. CASE Streams(d, t)
      BY <2>6 DEF Streams
    <2>7. QED
      BY <2>1, <2>2, <2>3, <2>4, <2>5, <2>6 DEF Move
  <1>2. ASSUME NEW d \in Devices, NEW e \in Devices, NEW t \in Transfers,
               session'[d][t].direction = "Outgoing", session'[e][t].direction = "Outgoing",
               d # e
        PROVE  FALSE
    <2>1. ASSUME NEW c \in Devices, session'[c][t].direction = "Outgoing"
          PROVE  session[c][t].direction = "Outgoing" \/ Offers(c, t)
      BY <2>1 DEF FileStep, Move, Kept, Ends, IsOffered, Accepts, TakesChunk,
                  PutsInPlace, Streams
    <2>2. CASE Offers(d, t) \/ Offers(e, t)
      BY <1>2, <2>2 DEF Offers
    <2>3. QED
      BY <1>2, <2>1, <2>2
  <1>3. QED
    BY <1>1, <1>2

LEMMA OriginalIsSequence ==
    ASSUME NEW t \in Transfers, chunks[t] \in Nat
    PROVE  /\ Original(t) \in Seq(Bytes(chunks[t]))
           /\ chunks[t] = 0 => Original(t) = <<>>
  <1>1. \A i \in 1..chunks[t] : [at |-> i - 1, intact |-> TRUE] \in Bytes(chunks[t])
    BY DEF Bytes
  <1>2. Original(t) \in [1..chunks[t] -> Bytes(chunks[t])]
    BY <1>1 DEF Original
  <1>3. Original(t) \in Seq(Bytes(chunks[t])) /\ Len(Original(t)) = chunks[t]
    BY <1>2
  <1>4. chunks[t] = 0 => Original(t) = <<>>
    BY <1>3, EmptySeq
  <1>5. QED
    BY <1>3, <1>4

LEMMA TempStaysThere ==
    ASSUME FileInv, FileStep
    PROVE  TempIsThere'
  <1>0. chunks' = chunks
    BY DEF FileStep
  <1> SUFFICES ASSUME NEW d \in Devices, NEW t \in Transfers, Receiving(d, t)'
               PROVE  temp'[d][t] \in Seq(Bytes(chunks[t]))
    BY <1>0 DEF TempIsThere
  <1> USE DEF FileInv, SameSession, Receiving, TempIsThere
  <1>1. Move(d, t)
    BY DEF FileStep
  <1>2. CASE Kept(d, t)
    BY <1>2 DEF Kept
  <1>3. CASE Ends(d, t) \/ Offers(d, t) \/ IsOffered(d, t) \/ PutsInPlace(d, t)
             \/ Streams(d, t)
    BY <1>3 DEF Ends, Offers, IsOffered, PutsInPlace, Streams
  <1>4. CASE Accepts(d, t)
    <2>1. temp'[d][t] = <<>>
      BY <1>4 DEF Accepts
    <2>2. QED
      BY <2>1
  <1>5. CASE TakesChunk(d, t)
    <2>1. temp[d][t] \in Seq(Bytes(chunks[t]))
      BY <1>5 DEF TakesChunk
    <2>2. \A b \in Bytes(chunks[t]) : Append(temp[d][t], b) \in Seq(Bytes(chunks[t]))
      BY <2>1
    <2>3. QED
      BY <1>5, <2>1, <2>2 DEF TakesChunk
  <1>6. QED
    BY <1>1, <1>2, <1>3, <1>4, <1>5 DEF Move

LEMMA TempStaysHashed ==
    ASSUME FileInv, FileStep, "write" \notin Faults
    PROVE  TempIsHashed'
  <1> SUFFICES ASSUME NEW d \in Devices, NEW t \in Transfers, Receiving(d, t)'
               PROVE  temp'[d][t] = session'[d][t].hash
    BY DEF TempIsHashed
  <1> USE DEF FileInv, SameSession, Receiving, TempIsHashed
  <1>1. Move(d, t)
    BY DEF FileStep
  <1>2. CASE Kept(d, t)
    BY <1>2 DEF Kept
  <1>3. CASE Ends(d, t) \/ Offers(d, t) \/ IsOffered(d, t) \/ PutsInPlace(d, t)
             \/ Streams(d, t)
    BY <1>3 DEF Ends, Offers, IsOffered, PutsInPlace, Streams
  <1>4. CASE Accepts(d, t)
    BY <1>4 DEF Accepts, Accepting, SessionsAreSound
  <1>5. CASE TakesChunk(d, t)
    BY <1>5 DEF TakesChunk
  <1>6. QED
    BY <1>1, <1>2, <1>3, <1>4, <1>5 DEF Move

LEMMA FinalStaysOriginal ==
    ASSUME FileInv, FileStep, FileAssumption, "write" \notin Faults,
           NEW d \in Devices, NEW t \in Transfers
    PROVE  /\ final'[d][t] \in {NoFile, Original(t)'}
           /\ final[d][t] # NoFile /\ "rename" \notin Faults => final'[d][t] = final[d][t]
           /\ chunks[t] > 0 /\ session'[d][t].direction = "Incoming"
                 /\ session'[d][t].state = "Completed" => final'[d][t] = Original(t)'
  <1> USE DEF FileInv, SameSession, Receiving, TempIsHashed, FinalIsOriginal, FinalKept,
              DownloadIsIntact
  <1>0. Original(t)' = Original(t)
    BY DEF FileStep, Original
  <1>1. Move(d, t)
    BY DEF FileStep
  <1>2. CASE Kept(d, t)
    BY <1>0, <1>2 DEF Kept
  <1>3. CASE Ends(d, t)
    BY <1>0, <1>3 DEF Ends
  <1>4. CASE Offers(d, t) \/ IsOffered(d, t) \/ Streams(d, t) \/ TakesChunk(d, t)
    BY <1>0, <1>4 DEF Offers, IsOffered, Streams, TakesChunk
  <1>5. CASE Accepts(d, t)
    <2>1. chunks[t] \in Nat
      BY DEF TypeOK, FileAssumption
    <2>2. CASE session'[d][t].state = "Transferring" /\ FinalKept(d, t)
      BY <1>0, <2>2
    <2>3. CASE /\ chunks[t] = 0 /\ session'[d][t].state = "Completed"
               /\ final'[d][t] = <<>> \/ ("rename" \in Faults /\ final'[d][t] = NoFile)
      BY <1>0, <2>1, <2>3, OriginalIsSequence
    <2>4. QED
      BY <1>5, <2>2, <2>3 DEF Accepts
  <1>6. CASE PutsInPlace(d, t)
    BY <1>0, <1>6 DEF PutsInPlace
  <1>7. QED
    BY <1>1, <1>2, <1>3, <1>4, <1>5, <1>6 DEF Move

LEMMA StreamsStayAsked ==
    ASSUME FileInv, FileStep
    PROVE  OnlyAcceptedIsStreamed'
  <1> SUFFICES ASSUME NEW d \in Devices, NEW t \in Transfers,
                      session'[d][t].direction = "Outgoing",
                      session'[d][t].index > 0 \/ t \in streaming'[d]
               PROVE  \E e \in Devices \ {d} : t \in accepted'[e]
    BY DEF OnlyAcceptedIsStreamed
  <1>1. Asked(d, t) => \E e \in Devices \ {d} : t \in accepted'[e]
    BY DEF Asked, FileStep
  <1>2. session[d][t].direction = "Outgoing" /\ (session[d][t].index > 0 \/ t \in streaming[d])
           => Asked(d, t)
    BY DEF FileInv, OnlyAcceptedIsStreamed, Asked
  <1>3. t \in streaming[d] => session[d][t].direction = "Outgoing"
    BY DEF FileInv, SessionsAreSound
  <1>4. CASE Kept(d, t) \/ Ends(d, t) \/ Accepts(d, t)
    BY <1>1, <1>2, <1>4 DEF Kept, Ends, Accepts, SameSession, NotStarted
  <1>5. CASE Offers(d, t)
    BY <1>3, <1>5 DEF Offers, NotStarted
  <1>6. CASE IsOffered(d, t) \/ TakesChunk(d, t) \/ PutsInPlace(d, t)
    BY <1>6 DEF IsOffered, TakesChunk, PutsInPlace, SameSession, Receiving
  <1>7. CASE Streams(d, t)
    BY <1>1, <1>7 DEF Streams
  <1>8. QED
    BY <1>4, <1>5, <1>6, <1>7 DEF FileStep, Move

-----------------------------------------------------------------------------
(* The frames in flight.                                                   *)

\* The wires w carry only frames that are in flight.
OnlyInFlight(w) ==
    /\ w \in [Conns -> [Sides -> Seq(Frames)]]
    /\ \A k \in Conns, s \in Sides : \A i \in 1..Len(w[k][s]) :
          \E j \in 1..Len(wire[k][s]) : w[k][s][i] = wire[k][s][j]

LEMMA WireIsFrames ==
    ASSUME FileInv
    PROVE  /\ wire \in [Conns -> [Sides -> Seq(Frames)]]
           /\ OnlyInFlight(wire)
           /\ \A k \in Conns, s \in Sides :
                 /\ wire[k][s] \in Seq(Frames)
                 /\ \A i \in 1..Len(wire[k][s]) : wire[k][s][i] \in Frames
  <1>1. wire \in [Conns -> [Sides -> Seq(Frames)]]
    BY DEF FileInv, TypeOK, SocketTypeOK
  <1>2. \A k \in Conns, s \in Sides : wire[k][s] \in Seq(Frames)
    BY <1>1
  <1>3. \A k \in Conns, s \in Sides : \A i \in 1..Len(wire[k][s]) : wire[k][s][i] \in Frames
    BY <1>2, ElementOfSeq
  <1>4. QED
    BY <1>1, <1>2, <1>3 DEF OnlyInFlight

\* What an end of a connection writes, its device writes.
LEMMA WritersAreSources ==
    ASSUME FileInv, SocketAssumption, NEW d \in Devices, NEW k \in Conns, NEW s \in Sides,
           Writes(d, k, s)
    PROVE  Source(k, s) = d
  BY DEF Writes, Source, ServerClients, FileInv, SocketInv, HoldsItsOwnDial

\* What is on a wire comes from a device, and is read by another one.
LEMMA SourcesAreDevices ==
    ASSUME FileInv, SocketAssumption, NEW k \in Conns, NEW s \in Sides,
           wire[k][s] # <<>>
    PROVE  /\ Source(k, s) \in Devices
           /\ \A d \in Devices : CanRead(d, k, s) => d # Source(k, s)
  BY DEF Source, FileInv, SocketInv, HoldsItsOwnDial, RoutesAreSound, CanRead, ServerClients

\* What was true of a device stays true.
LEMMA TrueStaysTrue ==
    ASSUME FileInv, FileStep, FileAssumption, NEW d \in Devices, NEW f \in Frames,
           TrueOf(d, f)
    PROVE  TrueOf(d, f)'
  <1>1. f.id \in Transfers
    BY FrameFields DEF FileInv, TypeOK, FileTypeOK
  <1>2. QED
    BY <1>1, OutgoingStays DEF TrueOf, FileStep

\* Frames that were in flight are true after the step as well.
LEMMA InFlightStaysTrue ==
    ASSUME FileInv, FileStep, SocketAssumption, FileAssumption,
           NEW k \in Conns, NEW s \in Sides, NEW j \in 1..Len(wire[k][s]),
           NEW d, d = Source(k, s), NEW f, f = wire[k][s][j]
    PROVE  TrueOf(d, f)'
  <1>1. wire[k][s] # <<>>
    <2>1. Len(<<>>) = 0
      OBVIOUS
    <2>2. QED
      BY <2>1
  <1>2. d \in Devices /\ f \in Frames
    BY <1>1, SourcesAreDevices, WireIsFrames
  <1>3. TrueOf(d, f)
    BY DEF FileInv, FramesAreTrue
  <1>4. QED
    BY <1>2, <1>3, TrueStaysTrue

\* A step that sends and reads only: one frame at most is new, it is true, and a
\* wire that was empty carries nothing else.
WireStep ==
    /\ UNCHANGED socketButWire
    /\ \E w : /\ OnlyInFlight(w)
              /\ \A k \in Conns, s \in Sides : wire[k][s] = <<>> => w[k][s] = <<>>
              /\ \/ wire' = w
                 \/ \E d \in Devices, f \in Frames :
                       TrueOf(d, f)' /\ wire' = Broadcast(d, f, w)

LEMMA WiresStayTrue ==
    ASSUME FileInv, FileStep, SocketAssumption, FileAssumption,
           WireStep
    PROVE  FramesAreTrue'
  <1> SUFFICES ASSUME NEW k \in Conns, NEW s \in Sides, NEW i \in 1..Len(wire'[k][s])
               PROVE  TrueOf(Source(k, s), wire[k][s][i])'
    BY DEF FramesAreTrue
  <1> PICK w : /\ OnlyInFlight(w)
               /\ \/ wire' = w
                  \/ \E d \in Devices, f \in Frames :
                        TrueOf(d, f)' /\ wire' = Broadcast(d, f, w)
    BY DEF WireStep
  <1> DEFINE src == Source(k, s)
  <1>1. Source(k, s)' = src
    BY DEF Source, WireStep, socketButWire
  <1>2. ASSUME NEW j \in 1..Len(w[k][s]), wire'[k][s][i] = w[k][s][j]
        PROVE  TrueOf(Source(k, s), wire[k][s][i])'
    <2>1. PICK l \in 1..Len(wire[k][s]) : wire'[k][s][i] = wire[k][s][l]
      BY <1>2 DEF OnlyInFlight
    <2> DEFINE g == wire[k][s][l]
    <2>2. \A x, y : x = src /\ y = g => TrueOf(x, y)'
      BY InFlightStaysTrue
    <2>3. QED
      BY <1>1, <2>1, <2>2 DEF TrueOf
  <1>3. CASE wire'[k][s] = w[k][s]
    BY <1>2, <1>3
  <1>4. ASSUME NEW d \in Devices, NEW f \in Frames, TrueOf(d, f)',
               wire' = Broadcast(d, f, w), Writes(d, k, s), Reachable(k, s)
        PROVE  TrueOf(Source(k, s), wire[k][s][i])'
    <2>1. wire'[k][s] = Append(w[k][s], f) /\ w[k][s] \in Seq(Frames)
      BY <1>4 DEF Broadcast, OnlyInFlight
    <2>2. /\ Len(wire'[k][s]) = Len(w[k][s]) + 1 /\ Len(w[k][s]) \in Nat
          /\ \A j \in 1..Len(w[k][s]) : wire'[k][s][j] = w[k][s][j]
          /\ wire'[k][s][Len(w[k][s]) + 1] = f
      BY <2>1
    <2>3. CASE i \in 1..Len(w[k][s])
      BY <1>2, <2>2, <2>3
    <2>4. CASE i = Len(w[k][s]) + 1
      <3>1. src = d
        BY <1>4, WritersAreSources
      <3>2. wire'[k][s][i] = f
        BY <2>2, <2>4
      <3>3. QED
        BY <1>1, <1>4, <3>1, <3>2 DEF TrueOf
    <2>5. QED
      BY <2>2, <2>3, <2>4
  <1>5. QED
    BY <1>3, <1>4 DEF Broadcast

LEMMA ReadLeavesInFlight ==
    ASSUME FileInv, NEW d \in Devices, NEW k \in Conns, NEW s \in Sides, CanRead(d, k, s)
    PROVE  /\ OnlyInFlight(Consumed(k, s)) /\ Head(wire[k][s]) \in Frames
           /\ Head(wire[k][s]) = wire[k][s][1] /\ 1 \in 1..Len(wire[k][s])
  <1>1. wire \in [Conns -> [Sides -> Seq(Frames)]] /\ wire[k][s] # <<>>
        /\ wire[k][s] \in Seq(Frames)
    BY WireIsFrames DEF CanRead
  <1>2. /\ Consumed(k, s) \in [Conns -> [Sides -> Seq(Frames)]]
        /\ Head(wire[k][s]) \in Frames
    BY <1>1, ConsumedType
  <1>3. \A c \in Conns, t \in Sides : \A i \in 1..Len(Consumed(k, s)[c][t]) :
           \E j \in 1..Len(wire[c][t]) : Consumed(k, s)[c][t][i] = wire[c][t][j]
    BY <1>1, ConsumedElements
  <1>4. QED
    BY <1>1, <1>2, <1>3 DEF OnlyInFlight

LEMMA SocketKeepsFramesTrue ==
    ASSUME FileInv, FileStep, SocketAssumption, FileAssumption,
           SocketStep \/ UNCHANGED socketVars
    PROVE  FramesAreTrue'
  <1> SUFFICES ASSUME NEW k \in Conns, NEW s \in Sides, NEW i \in 1..Len(wire'[k][s])
               PROVE  TrueOf(Source(k, s), wire[k][s][i])'
    BY DEF FramesAreTrue
  <1>1. WiresOnlyLose
    BY SocketStepLoses DEF FileInv, TypeOK, SocketInv, socketVars, WiresOnlyLose
  <1>2. wire'[k][s] # <<>>
    <2>1. Len(<<>>) = 0
      OBVIOUS
    <2>2. QED
      BY <2>1
  <1>3. /\ wire'[k][s] = wire[k][s]
        /\ dialer'[k] = dialer[k] /\ listener'[k] = listener[k]
    BY <1>1, <1>2 DEF WiresOnlyLose
  <1> DEFINE src == Source(k, s)
             g == wire[k][s][i]
  <1>4. \A x, y : x = src /\ y = g => TrueOf(x, y)'
    BY <1>3, InFlightStaysTrue
  <1>5. Source(k, s)' = src /\ wire'[k][s][i] = g
    BY <1>3 DEF Source
  <1>6. QED
    BY <1>4, <1>5 DEF TrueOf

-----------------------------------------------------------------------------
(* Every step moves every transfer: FileStep.                              *)

LEMMA InvParts ==
    ASSUME FileInv, FileAssumption
    PROVE  /\ FileTypeOK /\ FileDomains
           /\ \A t \in Transfers : chunks[t] \in Nat
           /\ \A d \in Devices, t \in Transfers :
                 TransferOK(d, t) /\ session[d][t] \in Sessions(chunks[t])
  BY TypeOKParts DEF FileInv, FileTypeOK, FileAssumption, TransferOK

AtMostOnePlace(g, f, d, t) == g = f \/ \E x : g = [f EXCEPT ![d][t] = x]

\* It is enough to look at the transfer the step is about.
LEMMA MovesOne ==
    ASSUME FileInv, FileAssumption, NEW d \in Devices, NEW t \in Transfers,
           chunks' = chunks, FileTypeOK',
           \A e \in Devices : accepted[e] \subseteq accepted'[e],
           AtMostOnePlace(session', session, d, t), AtMostOnePlace(temp', temp, d, t),
           AtMostOnePlace(final', final, d, t),
           \A e \in Devices, u \in Transfers : e # d \/ u # t => NotStarted(e, u),
           FileDomains' => TransferOK(d, t)' /\ Move(d, t)
    PROVE  FileStep
  <1>1. FileDomains /\ \A e \in Devices, u \in Transfers : TransferOK(e, u)
    BY InvParts
  <1>2. FileDomains'
    BY <1>1 DEF FileDomains, AtMostOnePlace
  <1>3. ASSUME NEW e \in Devices, NEW u \in Transfers, e # d \/ u # t
        PROVE  TransferOK(e, u)' /\ Move(e, u)
    <2>1. session'[e][u] = session[e][u]
      BY <1>1, <1>3 DEF FileDomains, AtMostOnePlace
    <2>2. temp'[e][u] = temp[e][u]
      BY <1>1, <1>3 DEF FileDomains, AtMostOnePlace
    <2>3. final'[e][u] = final[e][u]
      BY <1>1, <1>3 DEF FileDomains, AtMostOnePlace
    <2>4. NotStarted(e, u)
      BY <1>3
    <2>5. Kept(e, u)
      BY <2>1, <2>2, <2>3, <2>4 DEF Kept, SameSession, FinalKept
    <2>6. TransferOK(e, u)'
      BY <1>1, <2>1, <2>2, <2>3 DEF TransferOK, Contents
    <2>7. QED
      BY <2>5, <2>6 DEF Move
  <1>4. QED
    BY <1>2, <1>3 DEF FileStep

\* Nothing changes but the connections.
LEMMA NothingMoves ==
    ASSUME FileInv, FileAssumption, UNCHANGED fileVars
    PROVE  FileStep
  <1>1. FileTypeOK /\ FileDomains /\ \A d \in Devices, t \in Transfers : TransferOK(d, t)
    BY InvParts
  <1>2. FileTypeOK' /\ FileDomains' /\ \A d \in Devices, t \in Transfers : TransferOK(d, t)'
    BY <1>1 DEF fileVars, FileTypeOK, FileDomains, TransferOK, Contents
  <1>3. \A d \in Devices, t \in Transfers : Kept(d, t)
    BY DEF fileVars, Kept, SameSession, FinalKept, NotStarted
  <1>4. QED
    BY <1>2, <1>3 DEF FileStep, Move, fileVars

\* A session that ends, and its temporary file, have the right types.
LEMMA FinishMoves ==
    ASSUME FileInv, FileAssumption, NEW d \in Devices, NEW t \in Transfers,
           NEW st \in {"Failed", "Rejected", "Cancelled"}, Finish(d, t, st),
           UNCHANGED <<chunks, streaming, accepted>>,
           final' = final \/ ("rename" \in Faults /\ final' = [final EXCEPT ![d][t] = NoFile])
    PROVE  FileStep
  <1> USE DEF Finish, SetSession, Cleanup
  <1>1. /\ FileTypeOK /\ FileDomains /\ TransferOK(d, t) /\ chunks[t] \in Nat
        /\ session[d][t] \in Sessions(chunks[t])
    BY InvParts
  <1>2. FileTypeOK'
    BY <1>1 DEF FileTypeOK
  <1>3. \A e \in Devices, u \in Transfers : NotStarted(e, u)
    BY DEF NotStarted
  <1> DEFINE x == [session[d][t] EXCEPT !.state = st]
  <1>4. /\ x \in Sessions(chunks[t]) /\ x.state = st
        /\ x.direction = session[d][t].direction
        /\ x.index = session[d][t].index /\ x.hash = session[d][t].hash
    <2>1. st \in TransferState
      BY DEF TransferState
    <2> HIDE DEF Finish, SetSession, Cleanup
    <2>2. QED
      BY <1>1, <2>1, SetState
  <1>5. session'[d][t] = x
    BY <1>1 DEF FileDomains
  <1>6. temp'[d][t] \in {temp[d][t], NoFile}
    BY <1>1 DEF FileDomains
  <1>7. final'[d][t] = final[d][t] \/ ("rename" \in Faults /\ final'[d][t] = NoFile)
    BY <1>1 DEF FileDomains
  <1>8. TransferOK(d, t)'
    BY <1>1, <1>4, <1>5, <1>6, <1>7 DEF TransferOK, Contents
  <1>9. Ends(d, t)
    <2> HIDE DEF x
    <2>1. QED
      BY <1>3, <1>4, <1>5, <1>7 DEF Ends, SameSession, FinalKept
  <1>10. QED
    BY <1>2, <1>3, <1>8, <1>9, MovesOne DEF AtMostOnePlace, Move

\* Abandoned, rejected and cancelled transfers.
LEMMA EndMoves ==
    ASSUME FileInv, FileAssumption, NEW d \in Devices, NEW t \in Transfers,
           RejectTransfer(d, t) \/ CancelTransfer(d, t)
    PROVE  FileStep
  BY FinishMoves DEF RejectTransfer, CancelTransfer, Abandon

\* acceptTransfer when the file cannot be opened.
LEMMA AcceptFailsMoves ==
    ASSUME FileInv, FileAssumption, NEW d \in Devices, NEW t \in Transfers,
           AcceptFails(d, t)
    PROVE  FileStep
  <1> USE DEF AcceptFails, SetSession
  <1>1. /\ FileTypeOK /\ FileDomains /\ TransferOK(d, t) /\ chunks[t] \in Nat
        /\ session[d][t] \in Sessions(chunks[t])
    BY InvParts
  <1>2. FileTypeOK'
    BY <1>1 DEF FileTypeOK
  <1>3. \A e \in Devices, u \in Transfers : NotStarted(e, u)
    BY DEF NotStarted
  <1> DEFINE x == [session[d][t] EXCEPT !.state = "Failed", !.hasTemp = TRUE]
  <1>4. /\ x \in Sessions(chunks[t]) /\ x.state = "Failed"
        /\ x.direction = session[d][t].direction
        /\ x.index = session[d][t].index /\ x.hash = session[d][t].hash
    BY <1>1 DEF Sessions, TransferState
  <1>5. session'[d][t] = x /\ temp'[d][t] = temp[d][t] /\ final'[d][t] = final[d][t]
    BY <1>1 DEF FileDomains
  <1> HIDE DEF x
  <1>6. TransferOK(d, t)'
    BY <1>1, <1>4, <1>5 DEF TransferOK, Contents
  <1>7. Ends(d, t)
    BY <1>3, <1>4, <1>5 DEF Ends, SameSession, FinalKept
  <1>8. QED
    BY <1>2, <1>3, <1>6, <1>7, MovesOne DEF AtMostOnePlace, Move

\* acceptTransfer.
LEMMA AcceptMoves ==
    ASSUME FileInv, FileAssumption, NEW d \in Devices, NEW t \in Transfers,
           AcceptTransfer(d, t)
    PROVE  FileStep
  <1>0. /\ Accepting(d, t) /\ UNCHANGED <<streaming, chunks>>
        /\ accepted' = [accepted EXCEPT ![d] = @ \cup {t}]
    BY DEF AcceptTransfer
  <1>1. /\ FileTypeOK /\ FileDomains /\ TransferOK(d, t) /\ chunks[t] \in Nat
        /\ session[d][t] \in Sessions(chunks[t]) /\ <<>> \in Contents(t)
        /\ NoFile \in Contents(t)
    BY InvParts DEF Contents
  <1>2. FileTypeOK' /\ \A e \in Devices : accepted[e] \subseteq accepted'[e]
    BY <1>0, <1>1 DEF FileTypeOK
  <1>3. \A e \in Devices, u \in Transfers : NotStarted(e, u)
    BY <1>0 DEF NotStarted
  <1> DEFINE y(st) == [[session[d][t] EXCEPT !.hasTemp = TRUE] EXCEPT !.state = st]
  <1>4. \A st \in TransferState :
           /\ y(st) \in Sessions(chunks[t]) /\ y(st).state = st
           /\ y(st).direction = session[d][t].direction
           /\ y(st).index = session[d][t].index /\ y(st).hash = session[d][t].hash
    <2> SUFFICES ASSUME NEW st \in TransferState
                 PROVE  /\ y(st) \in Sessions(chunks[t]) /\ y(st).state = st
                        /\ y(st).direction = session[d][t].direction
                        /\ y(st).index = session[d][t].index
                        /\ y(st).hash = session[d][t].hash
      OBVIOUS
    <2> DEFINE z == [session[d][t] EXCEPT !.hasTemp = TRUE]
    <2>1. /\ z \in Sessions(chunks[t]) /\ z.direction = session[d][t].direction
          /\ z.index = session[d][t].index /\ z.hash = session[d][t].hash
      BY <1>1, SetHasTemp
    <2> HIDE DEF z
    <2>2. LET v == [z EXCEPT !.state = st]
          IN  /\ v \in Sessions(chunks[t]) /\ v.state = st /\ v.direction = z.direction
              /\ v.index = z.index /\ v.hash = z.hash
      BY <1>1, <2>1, SetState
    <2>3. QED
      BY <2>1, <2>2 DEF z
  <1>5. ASSUME NEW st \in {"Transferring", "Completed"},
               session' = [session EXCEPT ![d][t] = y(st)],
               NEW v, temp' = [temp EXCEPT ![d][t] = v], v \in Contents(t),
               NEW g, (final' = final /\ g = final[d][t])
                         \/ final' = [final EXCEPT ![d][t] = g], g \in Contents(t),
               \/ st = "Transferring" /\ v = <<>> /\ g = final[d][t]
               \/ /\ chunks[t] = 0 /\ st = "Completed"
                  /\ g = <<>> \/ ("rename" \in Faults /\ g = NoFile)
        PROVE  FileStep
    <2>1. session'[d][t] = y(st)
      BY <1>1, <1>5 DEF FileDomains
    <2>2. temp'[d][t] = v
      BY <1>1, <1>5 DEF FileDomains
    <2>3. final'[d][t] = g
      BY <1>1, <1>5 DEF FileDomains
    <2>4. /\ y(st) \in Sessions(chunks[t]) /\ y(st).state = st
          /\ y(st).direction = session[d][t].direction
          /\ y(st).index = session[d][t].index /\ y(st).hash = session[d][t].hash
      BY <1>4 DEF TransferState
    <2>5. AtMostOnePlace(session', session, d, t)
      BY <1>5 DEF AtMostOnePlace
    <2> HIDE DEF y
    <2>6. TransferOK(d, t)'
      BY <1>0, <1>1, <1>5, <2>1, <2>2, <2>3, <2>4 DEF TransferOK, Contents
    <2>7. Accepts(d, t)
      BY <1>0, <1>3, <1>5, <2>1, <2>2, <2>3, <2>4 DEF Accepts, SameSession, FinalKept
    <2>8. QED
      BY <1>0, <1>2, <1>3, <1>5, <2>5, <2>6, <2>7, MovesOne DEF AtMostOnePlace, Move
  <1>6. CASE chunks[t] > 0
    <2>1. /\ session' = [session EXCEPT ![d][t] = y("Transferring")]
          /\ temp' = [temp EXCEPT ![d][t] = <<>>] /\ final' = final
      BY <1>6 DEF AcceptTransfer, SetSession
    <2>2. final[d][t] \in Contents(t)
      BY <1>1 DEF TransferOK
    <2>3. QED
      BY <1>1, <1>5, <2>1, <2>2
  <1>7. CASE ~(chunks[t] > 0)
    <2>1. chunks[t] = 0 /\ session' = [session EXCEPT ![d][t] = y("Completed")]
      BY <1>1, <1>7 DEF AcceptTransfer, SetSession
    <2>2. CASE final' = [final EXCEPT ![d][t] = <<>>] /\ temp' = [temp EXCEPT ![d][t] = NoFile]
      BY <1>1, <1>5, <2>1, <2>2
    <2>3. CASE "rename" \in Faults /\ final' = [final EXCEPT ![d][t] = NoFile]
               /\ temp' = [temp EXCEPT ![d][t] = <<>>]
      BY <1>1, <1>5, <2>1, <2>3
    <2>4. QED
      BY <1>7, <2>2, <2>3 DEF AcceptTransfer
  <1>8. QED
    BY <1>6, <1>7

\* sendNextChunk for a transfer somebody has accepted.
LEMMA StreamMoves ==
    ASSUME FileInv, FileAssumption, NEW d \in Devices, NEW t \in Transfers,
           session[d][t].direction = "Outgoing", Asked(d, t),
           NEW x \in Sessions(chunks[t]), x.direction = "Outgoing",
           x.state = "Transferring",
           NEW w, SendNextChunk(d, t, x, w), UNCHANGED <<temp, final, accepted, chunks>>
    PROVE  FileStep
  <1>1. /\ FileTypeOK /\ FileDomains /\ TransferOK(d, t) /\ chunks[t] \in Nat
    BY InvParts
  <1>2. FileTypeOK' /\ \A e \in Devices, u \in Transfers : e # d \/ u # t => NotStarted(e, u)
    <2>1. \/ streaming' = [streaming EXCEPT ![d] = @ \ {t}]
          \/ streaming' = [streaming EXCEPT ![d] = @ \cup {t}]
      BY DEF SendNextChunk
    <2>2. QED
      BY <1>1, <2>1 DEF FileTypeOK, NotStarted
  <1>3. ASSUME NEW y \in Sessions(chunks[t]), y.direction = "Outgoing",
               y.state # "Offering", SetSession(d, t, y)
        PROVE  FileStep
    <2>1. session'[d][t] = y /\ temp'[d][t] = temp[d][t] /\ final'[d][t] = final[d][t]
      BY <1>1, <1>3 DEF FileDomains, SetSession
    <2>2. TransferOK(d, t)'
      BY <1>1, <1>3, <2>1 DEF TransferOK, Contents
    <2>3. Streams(d, t)
      BY <1>3, <2>1 DEF Streams, FinalKept
    <2>4. AtMostOnePlace(session', session, d, t)
      BY <1>3 DEF SetSession, AtMostOnePlace
    <2>5. QED
      BY <1>2, <2>2, <2>3, <2>4, MovesOne DEF AtMostOnePlace, Move
  <1>4. ASSUME NEW st \in {"Completed", "Failed"},
               SetSession(d, t, [x EXCEPT !.state = st])
        PROVE  FileStep
    <2> DEFINE y == [x EXCEPT !.state = st]
    <2>1. st \in TransferState
      BY DEF TransferState
    <2>2. y \in Sessions(chunks[t]) /\ y.state = st /\ y.direction = "Outgoing"
      BY <1>1, <2>1, SetState
    <2>3. SetSession(d, t, y)
      BY <1>4
    <2> HIDE DEF y
    <2>4. QED
      BY <1>3, <2>2, <2>3
  <1>5. ASSUME x.index < chunks[t], SetSession(d, t, [x EXCEPT !.index = @ + 1])
        PROVE  FileStep
    <2> DEFINE y == [x EXCEPT !.index = x.index + 1]
    <2>1. x.index + 1 \in 0..chunks[t]
      BY <1>1, <1>5, SessionFields
    <2>2. y \in Sessions(chunks[t]) /\ y.state = "Transferring" /\ y.direction = "Outgoing"
      BY <1>1, <2>1, SetIndex
    <2>3. SetSession(d, t, y)
      BY <1>5
    <2> HIDE DEF y
    <2>4. QED
      BY <1>3, <2>2, <2>3
  <1>6. QED
    BY <1>4, <1>5 DEF SendNextChunk

\* The timer for the next chunk.
LEMMA TimerMoves ==
    ASSUME FileInv, FileAssumption, NEW d \in Devices, NEW t \in Transfers,
           ChunkTimer(d, t)
    PROVE  FileStep
  <1>1. session[d][t].direction = "Outgoing" /\ Asked(d, t)
    BY DEF ChunkTimer, FileInv, SessionsAreSound, OnlyAcceptedIsStreamed, Asked
  <1>2. CASE session[d][t].state = "Transferring"
    <2>1. session[d][t] \in Sessions(chunks[t])
      BY InvParts
    <2>2. QED
      BY <1>1, <1>2, <2>1, StreamMoves DEF ChunkTimer
  <1>3. CASE session[d][t].state # "Transferring"
    <2>1. /\ UNCHANGED <<chunks, session, temp, final, accepted>>
          /\ streaming' = [streaming EXCEPT ![d] = @ \ {t}]
      BY <1>3 DEF ChunkTimer
    <2>2. FileTypeOK /\ FileDomains /\ TransferOK(d, t)
      BY InvParts
    <2>3. FileTypeOK' /\ \A e \in Devices, u \in Transfers : NotStarted(e, u)
      BY <2>1, <2>2 DEF FileTypeOK, NotStarted
    <2>4. TransferOK(d, t)' /\ Kept(d, t)
      BY <2>1, <2>2, <2>3 DEF TransferOK, Contents, Kept, SameSession, FinalKept
    <2>5. QED
      BY <2>1, <2>3, <2>4, MovesOne DEF AtMostOnePlace, Move
  <1>4. QED
    BY <1>2, <1>3

-----------------------------------------------------------------------------
(* Frames that are read.                                                   *)

LEMMA ReadFrame ==
    ASSUME FileInv, SocketAssumption, FileAssumption,
           NEW d \in Devices, NEW k \in Conns, NEW s \in Sides, CanRead(d, k, s)
    PROVE  /\ IdOf(k, s) \in Transfers
           /\ Source(k, s) \in Devices \ {d}
           /\ TrueOf(Source(k, s), Head(wire[k][s]))
           /\ Head(wire[k][s]).type = "FileChunk" =>
                 Head(wire[k][s]).bytes \in Bytes(chunks[IdOf(k, s)])
  <1>1. /\ Head(wire[k][s]) \in Frames /\ Head(wire[k][s]) = wire[k][s][1]
        /\ 1 \in 1..Len(wire[k][s])
    BY ReadLeavesInFlight
  <1>2. Source(k, s) \in Devices \ {d}
    BY SourcesAreDevices DEF CanRead
  <1>3. TrueOf(Source(k, s), Head(wire[k][s]))
    BY <1>1 DEF FileInv, FramesAreTrue
  <1>4. QED
    BY <1>1, <1>2, <1>3, InvParts, FrameFields DEF IdOf

LEMMA OfferMoves ==
    ASSUME FileInv, SocketAssumption, FileAssumption,
           NEW d \in Devices, NEW k \in Conns, NEW s \in Sides, ReceiveOffer(d, k, s)
    PROVE  FileStep
  <1> DEFINE x == NewSession("Incoming")
  <1> PICK t \in Transfers : t = IdOf(k, s)
    BY ReadFrame DEF ReceiveOffer, Reads
  <1>0. /\ t \in Transfers /\ Source(k, s) \in Devices \ {d}
        /\ session[Source(k, s)][t].direction = "Outgoing"
    BY ReadFrame DEF ReceiveOffer, Reads, TrueOf, IdOf
  <1>1. session' = [session EXCEPT ![d][t] = x]
        /\ UNCHANGED <<streaming, temp, final, accepted, chunks>>
    BY DEF ReceiveOffer, SetSession
  <1> HIDE DEF x
  <1>2. /\ FileTypeOK /\ FileDomains /\ TransferOK(d, t) /\ chunks[t] \in Nat
    BY <1>0, InvParts
  <1>3. /\ x \in Sessions(chunks[t]) /\ x.direction = "Incoming" /\ x.state = "Offering"
        /\ x.hash = <<>> /\ x.index = 0
    BY <1>2, NewFields DEF x
  <1>4. session'[d][t] = x
    BY <1>0, <1>1, <1>2 DEF FileDomains
  <1>5. session[d][t].direction # "Outgoing"
    BY <1>0 DEF FileInv, SessionsAreSound
  <1>6. FileTypeOK' /\ TransferOK(d, t)'
    BY <1>1, <1>2, <1>3, <1>4 DEF FileTypeOK, TransferOK, Contents
  <1>7. \A e \in Devices, u \in Transfers : NotStarted(e, u)
    BY <1>1 DEF NotStarted
  <1>8. IsOffered(d, t)
    BY <1>0, <1>1, <1>3, <1>4, <1>5, <1>7 DEF IsOffered, FinalKept
  <1>9. QED
    BY <1>0, <1>1, <1>6, <1>7, <1>8, MovesOne DEF AtMostOnePlace, Move

LEMMA AcceptanceMoves ==
    ASSUME FileInv, SocketAssumption, FileAssumption,
           NEW d \in Devices, NEW k \in Conns, NEW s \in Sides, ReceiveAccept(d, k, s)
    PROVE  FileStep
  <1> PICK t \in Transfers : t = IdOf(k, s)
    BY ReadFrame DEF ReceiveAccept, Reads
  <1> DEFINE x == [session[d][t] EXCEPT !.state = "Transferring"]
  <1>1. Asked(d, t)
    BY ReadFrame DEF ReceiveAccept, Reads, TrueOf, IdOf, Asked
  <1>2. UNCHANGED <<temp, final, accepted, chunks>>
    BY DEF ReceiveAccept
  <1>3. CASE session[d][t].direction = "Outgoing" /\ session[d][t].state = "Offering"
    <2>1. session[d][t] \in Sessions(chunks[t]) /\ chunks[t] \in Nat
      BY InvParts
    <2>2. "Transferring" \in TransferState
      BY DEF TransferState
    <2>3. x \in Sessions(chunks[t]) /\ x.direction = "Outgoing" /\ x.state = "Transferring"
      BY <1>3, <2>1, <2>2, SetState
    <2>4. CASE SendNextChunk(d, t, x, Consumed(k, s))
      <3> HIDE DEF x
      <3>1. QED
        BY <1>1, <1>2, <1>3, <2>3, <2>4, StreamMoves
    <2>5. CASE SetSession(d, t, [x EXCEPT !.state = "Failed"]) /\ UNCHANGED streaming
      <3> DEFINE y == [x EXCEPT !.state = "Failed"]
      <3>0. "Failed" \in TransferState
        BY DEF TransferState
      <3>1. /\ y \in Sessions(chunks[t]) /\ y.direction = "Outgoing"
            /\ y.state = "Failed"
        <4> HIDE DEF x
        <4>1. QED
          BY <2>1, <2>3, <3>0, SetState
      <3>2. SetSession(d, t, y)
        BY <2>5
      <3> HIDE DEF y
      <3>3. /\ FileTypeOK /\ FileDomains /\ TransferOK(d, t)
        BY InvParts
      <3>4. session'[d][t] = y /\ temp'[d][t] = temp[d][t] /\ final'[d][t] = final[d][t]
        BY <1>2, <3>2, <3>3 DEF FileDomains, SetSession
      <3>5. FileTypeOK' /\ \A e \in Devices, u \in Transfers : NotStarted(e, u)
        BY <1>2, <2>5, <3>3 DEF FileTypeOK, NotStarted
      <3>6. TransferOK(d, t)'
        BY <1>2, <3>1, <3>3, <3>4 DEF TransferOK, Contents
      <3>7. Streams(d, t)
        BY <1>1, <1>3, <3>1, <3>4 DEF Streams, FinalKept
      <3>8. AtMostOnePlace(session', session, d, t)
        BY <3>2 DEF SetSession, AtMostOnePlace
      <3>9. QED
        BY <1>2, <3>5, <3>6, <3>7, <3>8, MovesOne DEF AtMostOnePlace, Move
    <2>6. QED
      BY <1>3, <2>4, <2>5 DEF ReceiveAccept
  <1>4. CASE ~(session[d][t].direction = "Outgoing" /\ session[d][t].state = "Offering")
    <2>1. UNCHANGED <<session, streaming>>
      BY <1>4 DEF ReceiveAccept
    <2>2. QED
      BY <1>2, <2>1, NothingMoves DEF fileVars
  <1>5. QED
    BY <1>3, <1>4

LEMMA EndingMoves ==
    ASSUME FileInv, SocketAssumption, FileAssumption,
           NEW d \in Devices, NEW k \in Conns, NEW s \in Sides, ReceiveEnd(d, k, s)
    PROVE  FileStep
  <1> PICK t \in Transfers : t = IdOf(k, s)
    BY ReadFrame DEF ReceiveEnd, Reads
  <1>1. UNCHANGED <<streaming, final, accepted, chunks>>
    BY DEF ReceiveEnd
  <1>2. CASE Known(d, t)
    <2>1. \E st \in {"Failed", "Rejected", "Cancelled"} : Finish(d, t, st)
      BY <1>2 DEF ReceiveEnd
    <2>2. QED
      BY <1>1, <2>1, FinishMoves
  <1>3. CASE ~Known(d, t)
    BY <1>1, <1>3, NothingMoves DEF ReceiveEnd, fileVars
  <1>4. QED
    BY <1>2, <1>3

LEMMA ChunkMoves ==
    ASSUME FileInv, SocketAssumption, FileAssumption,
           NEW d \in Devices, NEW k \in Conns, NEW s \in Sides, ReceiveChunk(d, k, s)
    PROVE  FileStep
  <1> PICK t \in Transfers : t = IdOf(k, s)
    BY ReadFrame DEF ReceiveChunk, Reads
  <1> DEFINE f == Head(wire[k][s])
  <1>1. UNCHANGED <<streaming, final, accepted, chunks>>
    BY DEF ReceiveChunk
  <1>2. CASE UNCHANGED <<session, temp>>
    BY <1>1, <1>2, NothingMoves DEF fileVars
  <1>3. CASE Finish(d, t, "Failed")
    BY <1>1, <1>3, FinishMoves
  <1>4. CASE /\ Receiving(d, t) /\ f.index = session[d][t].index
             /\ SetSession(d, t, [session[d][t] EXCEPT !.index = @ + 1,
                                                       !.hash = Append(@, f.bytes)])
             /\ \/ temp' = [temp EXCEPT ![d][t] = Append(@, f.bytes)]
                \/ "write" \in Faults /\ UNCHANGED temp
    <2>0. Reads(d, k, s, "FileChunk") /\ CanRead(d, k, s)
      BY DEF ReceiveChunk, Reads
    <2>1. PICK b \in Bytes(chunks[t]) : b = f.bytes
      BY <2>0, ReadFrame DEF Reads
    <2>2. f.index \in 0..(chunks[t] - 1)
      BY <2>0, InvParts, ReadLeavesInFlight, FrameFields DEF Reads, IdOf
    <2>3. /\ FileTypeOK /\ FileDomains /\ TransferOK(d, t) /\ chunks[t] \in Nat
          /\ session[d][t] \in Sessions(chunks[t])
      BY InvParts
    <2> DEFINE i == session[d][t].index + 1
               h == Append(session[d][t].hash, b)
               x == [session[d][t] EXCEPT !.index = i, !.hash = h]
    <2>4. i \in 0..chunks[t] /\ h \in Seq(Bytes(chunks[t]))
      BY <1>4, <2>2, <2>3, SessionFields
    <2>5. session' = [session EXCEPT ![d][t] = x]
      BY <1>4, <2>1 DEF SetSession
    <2>6. /\ x \in Sessions(chunks[t]) /\ x.direction = session[d][t].direction
          /\ x.state = session[d][t].state /\ x.hash = h
      <3> HIDE DEF i, h
      <3>1. QED
        BY <2>3, <2>4 DEF Sessions
    <2>7. session'[d][t] = x /\ final'[d][t] = final[d][t]
      BY <1>1, <2>3, <2>5 DEF FileDomains
    <2>8. /\ AtMostOnePlace(session', session, d, t) /\ AtMostOnePlace(temp', temp, d, t)
          /\ AtMostOnePlace(final', final, d, t)
      BY <1>1, <1>4, <2>5 DEF AtMostOnePlace
    <2>9. temp'[d][t] = Append(temp[d][t], b) \/ ("write" \in Faults /\ temp'[d][t] = temp[d][t])
      BY <1>4, <2>1, <2>3 DEF FileDomains
    <2> HIDE DEF i, x
    <2>10. temp[d][t] \in Contents(t) /\ final[d][t] \in Contents(t)
      BY <2>3 DEF TransferOK
    <2>11. temp[d][t] \in Seq(Bytes(chunks[t]))
      BY <1>4 DEF FileInv, TempIsThere
    <2>12. TransferOK(d, t)'
      <3>1. temp'[d][t] \in Seq(Bytes(chunks[t]))
        BY <2>9, <2>11
      <3>2. QED
        BY <1>1, <2>6, <2>7, <2>10, <3>1 DEF TransferOK, Contents
    <2>13. FileTypeOK' /\ \A e \in Devices, u \in Transfers : NotStarted(e, u)
      BY <1>1, <2>3 DEF FileTypeOK, NotStarted
    <2>14. TakesChunk(d, t)
      BY <1>4, <2>6, <2>7, <2>9, <2>13 DEF TakesChunk, Receiving, FinalKept, h
    <2>15. QED
      BY <1>1, <2>8, <2>12, <2>13, <2>14, MovesOne DEF Move
  <1>5. QED
    BY <1>2, <1>3, <1>4 DEF ReceiveChunk

LEMMA CompletionMoves ==
    ASSUME FileInv, SocketAssumption, FileAssumption,
           NEW d \in Devices, NEW k \in Conns, NEW s \in Sides, ReceiveComplete(d, k, s)
    PROVE  FileStep
  <1> PICK t \in Transfers : t = IdOf(k, s)
    BY ReadFrame DEF ReceiveComplete, Reads
  <1>1. UNCHANGED <<streaming, accepted, chunks>>
    BY DEF ReceiveComplete
  <1>2. CASE UNCHANGED <<session, temp, final>>
    BY <1>1, <1>2, NothingMoves DEF fileVars
  <1>3. CASE /\ Finish(d, t, "Failed")
             /\ \/ final' = final
                \/ "rename" \in Faults /\ final' = [final EXCEPT ![d][t] = NoFile]
    BY <1>1, <1>3, FinishMoves
  <1>4. CASE /\ Receiving(d, t) /\ session[d][t].hash = Original(t)
             /\ SetSession(d, t, [session[d][t] EXCEPT !.state = "Completed"])
             /\ final' = [final EXCEPT ![d][t] = temp[d][t]]
             /\ temp' = [temp EXCEPT ![d][t] = NoFile]
    <2>1. /\ FileTypeOK /\ FileDomains /\ TransferOK(d, t) /\ chunks[t] \in Nat
          /\ session[d][t] \in Sessions(chunks[t])
      BY InvParts
    <2> DEFINE x == [session[d][t] EXCEPT !.state = "Completed"]
    <2>2. "Completed" \in TransferState
      BY DEF TransferState
    <2>3. /\ x \in Sessions(chunks[t]) /\ x.state = "Completed"
          /\ x.direction = session[d][t].direction
          /\ x.index = session[d][t].index /\ x.hash = session[d][t].hash
      BY <2>1, <2>2, SetState
    <2>4. session'[d][t] = x /\ temp'[d][t] = NoFile /\ final'[d][t] = temp[d][t]
      BY <1>4, <2>1 DEF FileDomains, SetSession
    <2>5. /\ AtMostOnePlace(session', session, d, t) /\ AtMostOnePlace(temp', temp, d, t)
          /\ AtMostOnePlace(final', final, d, t)
      BY <1>4 DEF AtMostOnePlace, SetSession
    <2> HIDE DEF x
    <2>6. TransferOK(d, t)'
      BY <1>1, <2>1, <2>3, <2>4 DEF TransferOK, Contents
    <2>7. FileTypeOK' /\ \A e \in Devices, u \in Transfers : NotStarted(e, u)
      BY <1>1, <2>1 DEF FileTypeOK, NotStarted
    <2>8. PutsInPlace(d, t)
      BY <1>4, <2>3, <2>4, <2>7 DEF PutsInPlace, SameSession
    <2>9. QED
      BY <1>1, <2>5, <2>6, <2>7, <2>8, MovesOne DEF Move
  <1>5. QED
    BY <1>2, <1>3, <1>4 DEF ReceiveComplete

-----------------------------------------------------------------------------
(* Connections that are lost, and dials.                                   *)

\* What FailActive makes of transfer t, which ss says is in session x.
LEMMA FailActiveAt ==
    ASSUME FileInv, FileAssumption, NEW d \in Devices, NEW ss, FailActive(d, ss),
           final' = final, NEW t \in Transfers, ss[t] \in Sessions(chunks[t])
    PROVE  /\ FileDomains'
           /\ session'[d][t] \in Sessions(chunks[t])
           /\ session'[d][t].direction = ss[t].direction
           /\ session'[d][t].index = ss[t].index /\ session'[d][t].hash = ss[t].hash
           /\ \/ /\ ~Active(ss[t]) /\ session'[d][t].state = ss[t].state
                 /\ temp'[d][t] = temp[d][t]
              \/ session'[d][t].state = "Failed"
           /\ temp'[d][t] \in Contents(t)
  <1>1. FileDomains /\ TransferOK(d, t) /\ chunks[t] \in Nat
    BY InvParts
  <1> DEFINE x == [ss[t] EXCEPT !.state = "Failed"]
  <1>2. "Failed" \in TransferState
    BY DEF TransferState
  <1>3. /\ x \in Sessions(chunks[t]) /\ x.state = "Failed"
        /\ x.direction = ss[t].direction
        /\ x.index = ss[t].index /\ x.hash = ss[t].hash
    BY <1>1, <1>2, SetState
  <1>4. session'[d][t] = IF Active(ss[t]) THEN x ELSE ss[t]
    BY <1>1 DEF FailActive, FileDomains
  <1>5. temp'[d][t] = IF Active(ss[t]) /\ ss[t].hasTemp THEN NoFile ELSE temp[d][t]
    BY <1>1 DEF FailActive, FileDomains
  <1>6. FileDomains'
    BY <1>1 DEF FailActive, FileDomains
  <1> HIDE DEF x
  <1>7. QED
    BY <1>1, <1>3, <1>4, <1>5, <1>6 DEF TransferOK, Contents

\* Other devices are not touched.
LEMMA FailActiveElsewhere ==
    ASSUME FileInv, FileAssumption, NEW d \in Devices, NEW ss, FailActive(d, ss),
           final' = final, NEW e \in Devices, e # d, NEW t \in Transfers
    PROVE  session'[e][t] = session[e][t] /\ temp'[e][t] = temp[e][t]
  BY InvParts DEF FailActive, FileDomains

\* A lost connection, of whatever peer.
LEMMA LossMoves ==
    ASSUME FileInv, FileAssumption, NEW d \in Devices, FailActive(d, session[d]),
           UNCHANGED restVars
    PROVE  FileStep
  <1>1. /\ chunks' = chunks /\ streaming' = streaming /\ final' = final
        /\ accepted' = accepted
    BY DEF restVars
  <1>2. FileTypeOK /\ FileDomains /\ FileTypeOK'
    BY <1>1, InvParts DEF FileTypeOK
  <1>3. ASSUME NEW e \in Devices, NEW t \in Transfers
        PROVE  TransferOK(e, t)' /\ Move(e, t)
    <2>1. TransferOK(e, t) /\ session[e][t] \in Sessions(chunks[t])
      BY InvParts
    <2>2. CASE e # d
      <3>1. session'[e][t] = session[e][t] /\ temp'[e][t] = temp[e][t]
        BY <1>1, <2>2, FailActiveElsewhere
      <3>2. QED
        BY <1>1, <2>1, <3>1 DEF TransferOK, Contents, Move, Kept, SameSession, FinalKept,
                                NotStarted
    <2>3. CASE e = d
      <3> DEFINE x == session[d][t]
      <3>1. /\ session'[d][t] \in Sessions(chunks[t])
            /\ session'[d][t].direction = x.direction
            /\ session'[d][t].index = x.index /\ session'[d][t].hash = x.hash
            /\ \/ session'[d][t].state = x.state /\ temp'[d][t] = temp[d][t]
               \/ session'[d][t].state = "Failed"
            /\ temp'[d][t] \in Contents(t)
        BY <1>1, <2>1, <2>3, FailActiveAt
      <3>2. TransferOK(d, t)'
        BY <1>1, <2>1, <2>3, <3>1 DEF TransferOK, Contents
      <3>3. Kept(d, t) \/ Ends(d, t)
        BY <1>1, <3>1 DEF Kept, Ends, SameSession, FinalKept, NotStarted
      <3>4. QED
        BY <2>3, <3>2, <3>3 DEF Move
    <2>4. QED
      BY <2>2, <2>3
  <1>4. FileDomains'
    BY <1>1, <1>2 DEF FailActive, FileDomains
  <1>5. QED
    BY <1>1, <1>2, <1>3, <1>4 DEF FileStep

\* A dial on behalf of the user.
LEMMA DialMoves ==
    ASSUME FileInv, FileAssumption, NEW d \in Devices, NEW e \in Devices,
           ConnectAndNotify(d, e, session[d]), UNCHANGED restVars
    PROVE  FileStep
  <1>1. CASE FailActive(d, session[d])
    BY <1>1, LossMoves
  <1>2. CASE session' = [session EXCEPT ![d] = session[d]] /\ UNCHANGED temp
    <2>1. /\ FileTypeOK /\ FileDomains
          /\ \A c \in Devices, t \in Transfers : TransferOK(c, t)
      BY InvParts
    <2>2. FileDomains' /\ \A c \in Devices : session'[c] = session[c]
      BY <1>2, <2>1 DEF FileDomains, restVars
    <2>3. FileTypeOK' /\ \A c \in Devices, t \in Transfers : TransferOK(c, t)'
      BY <1>2, <2>1, <2>2 DEF FileTypeOK, TransferOK, Contents, restVars
    <2>4. \A c \in Devices, t \in Transfers : Kept(c, t)
      BY <1>2, <2>2 DEF Kept, SameSession, FinalKept, NotStarted, restVars
    <2>5. QED
      BY <2>2, <2>3, <2>4 DEF FileStep, Move, restVars
  <1>3. QED
    BY <1>1, <1>2 DEF ConnectAndNotify

\* sendFile: with or without a connection, and with what a dial may lose.
LEMMA SendFileMoves ==
    ASSUME FileInv, FileAssumption, NEW d \in Devices, NEW t \in Transfers, SendFile(d, t)
    PROVE  FileStep
  <1> DEFINE ss == [session[d] EXCEPT ![t] = NewSession("Outgoing")]
  <1>1. /\ \A e \in Devices : session[e][t].direction = "None"
        /\ UNCHANGED <<streaming, final, accepted, chunks>>
    BY DEF SendFile, Known
  <1>2. \/ session' = [session EXCEPT ![d] = ss] /\ UNCHANGED temp
        \/ FailActive(d, ss)
    BY DEF SendFile, ConnectAndNotify
  <1>3. FileTypeOK /\ FileDomains /\ FileTypeOK'
        /\ \A e \in Devices, u \in Transfers : NotStarted(e, u)
    BY <1>1, InvParts DEF FileTypeOK, NotStarted
  <1>4. \A u \in Transfers : chunks[u] \in Nat /\ session[d][u] \in Sessions(chunks[u])
    BY InvParts
  <1>5. /\ ss[t] \in Sessions(chunks[t]) /\ ss[t].direction = "Outgoing"
        /\ ss[t].state = "Offering" /\ ss[t].hash = <<>> /\ ss[t].index = 0
    BY <1>3, <1>4, NewFields DEF FileDomains
  <1>6. \A u \in Transfers : u # t => ss[u] = session[d][u]
    BY <1>3 DEF FileDomains
  <1> HIDE DEF ss
  <1>7. /\ FileDomains'
        /\ \A e \in Devices, u \in Transfers : e # d =>
              session'[e][u] = session[e][u] /\ temp'[e][u] = temp[e][u]
    <2>1. CASE session' = [session EXCEPT ![d] = ss] /\ UNCHANGED temp
      <3>1. DOMAIN ss = Transfers
        BY <1>3 DEF FileDomains, ss
      <3>2. QED
        BY <1>1, <1>3, <2>1, <3>1 DEF FileDomains
    <2>2. CASE FailActive(d, ss)
      BY <1>1, <1>3, <2>2 DEF FailActive, FileDomains
    <2>3. QED
      BY <1>2, <2>1, <2>2
  <1>8. ASSUME NEW u \in Transfers
        PROVE  /\ session'[d][u] \in Sessions(chunks[u])
               /\ session'[d][u].direction = ss[u].direction
               /\ session'[d][u].index = ss[u].index /\ session'[d][u].hash = ss[u].hash
               /\ \/ session'[d][u].state = ss[u].state /\ temp'[d][u] = temp[d][u]
                  \/ session'[d][u].state = "Failed"
               /\ temp'[d][u] \in Contents(u)
    <2>1. ss[u] \in Sessions(chunks[u])
      BY <1>4, <1>5, <1>6
    <2>2. CASE session' = [session EXCEPT ![d] = ss] /\ UNCHANGED temp
      <3>1. session'[d][u] = ss[u] /\ temp'[d][u] = temp[d][u] /\ TransferOK(d, u)
        BY <1>3, <2>2, InvParts DEF FileDomains
      <3>2. QED
        BY <2>1, <3>1 DEF TransferOK
    <2>3. CASE FailActive(d, ss)
      BY <1>1, <2>1, <2>3, FailActiveAt
    <2>4. QED
      BY <1>2, <2>2, <2>3
  <1>9. ASSUME NEW e \in Devices, NEW u \in Transfers
        PROVE  TransferOK(e, u)' /\ Move(e, u)
    <2>1. TransferOK(e, u)
      BY InvParts
    <2>2. CASE e # d
      BY <1>1, <1>3, <1>7, <2>1, <2>2
         DEF TransferOK, Contents, Move, Kept, SameSession, FinalKept
    <2>3. CASE e = d
      <3>1. TransferOK(d, u)'
        BY <1>1, <1>8, <2>1, <2>3 DEF TransferOK, Contents
      <3>2. CASE u = t
        <4>1. Offers(d, t)
          BY <1>1, <1>3, <1>5, <1>7, <1>8 DEF Offers, FinalKept
        <4>2. QED
          BY <2>3, <3>1, <3>2, <4>1 DEF Move
      <3>3. CASE u # t
        <4>1. Kept(d, u) \/ Ends(d, u)
          BY <1>1, <1>3, <1>6, <1>8, <3>3 DEF Kept, Ends, SameSession, FinalKept
        <4>2. QED
          BY <2>3, <3>1, <4>1 DEF Move
      <3>4. QED
        BY <3>2, <3>3
    <2>4. QED
      BY <2>2, <2>3
  <1>10. QED
    BY <1>1, <1>3, <1>7, <1>9 DEF FileStep

-----------------------------------------------------------------------------
(* The whole step.                                                         *)

Assumptions == SocketAssumption /\ FileAssumption

LEMMA AssumptionsHold == Assumptions
  BY SocketAssumption, FileAssumption DEF Assumptions

LEMMA FramesAreFixed ==
    ASSUME FileStep
    PROVE  Frames' = Frames
  BY DEF FileStep, Frames, Bytes

\* Sending and reading.
LEMMA WireStepKeeps ==
    ASSUME Assumptions, FileInv, FileStep, WireStep
    PROVE  SocketTypeOK(Frames)' /\ SocketInv' /\ FramesAreTrue'
  <1> USE DEF Assumptions
  <1>1. PICK w : /\ OnlyInFlight(w)
                 /\ \A k \in Conns, s \in Sides : wire[k][s] = <<>> => w[k][s] = <<>>
                 /\ \/ wire' = w
                    \/ \E d \in Devices, f \in Frames : wire' = Broadcast(d, f, w)
    BY DEF WireStep
  <1>2. UNCHANGED socketButWire
    BY DEF WireStep
  <1>3. wire' \in [Conns -> [Sides -> Seq(Frames)]]
    BY <1>1, BroadcastType DEF OnlyInFlight
  <1>4. SocketTypeOK(Frames)'
    <2>1. Frames' = Frames
      BY FramesAreFixed
    <2>2. SocketTypeOK(Frames)
      BY DEF FileInv, TypeOK
    <2>3. QED
      BY <1>2, <1>3, <2>1, <2>2 DEF SocketTypeOK, socketButWire
  <1>5. SocketInv'
    <2>1. CASE wire' = w
      BY <1>1, <1>2, <2>1 DEF FileInv, SocketInv, StateTellsTheTruth, HoldsItsOwnDial,
                              RoutesAreSound, socketButWire
    <2>2. CASE \E d \in Devices, f \in Frames : wire' = Broadcast(d, f, w)
      BY <1>1, <1>2, <2>2, SendInv DEF FileInv, TypeOK, socketButWire
    <2>3. QED
      BY <1>1, <2>1, <2>2
  <1>6. FramesAreTrue'
    BY WiresStayTrue
  <1>7. QED
    BY <1>4, <1>5, <1>6

\* What the socket does on its own.
LEMMA SocketStepKeeps ==
    ASSUME Assumptions, FileInv, FileStep, SocketStep \/ UNCHANGED socketVars
    PROVE  SocketTypeOK(Frames)' /\ SocketInv' /\ FramesAreTrue'
  <1> USE DEF Assumptions
  <1> PICK F : F = Frames
    OBVIOUS
  <1>1. Frames' = F
    BY FramesAreFixed
  <1>2. SocketTypeOK(F) /\ SocketInv
    BY DEF FileInv, TypeOK
  <1>3. CASE SocketStep
    <2>1. SocketTypeOK(F)' /\ SocketInv'
      BY <1>2, <1>3, SocketStepType, SocketStepInv
    <2>2. SocketTypeOK(Frames)'
      BY <1>1, <2>1 DEF SocketTypeOK
    <2>3. QED
      BY <1>3, <2>1, <2>2, SocketKeepsFramesTrue
  <1>4. CASE UNCHANGED socketVars
    <2>1. SocketTypeOK(Frames)'
      BY <1>1, <1>2, <1>4 DEF SocketTypeOK, socketVars
    <2>2. SocketInv'
      BY <1>2, <1>4 DEF socketVars, SocketInv, StateTellsTheTruth, HoldsItsOwnDial,
                        RoutesAreSound
    <2>3. QED
      BY <1>4, <2>1, <2>2, SocketKeepsFramesTrue
  <1>5. QED
    BY <1>3, <1>4

\* What is broadcast: an offer by the device that makes it, an acceptance by a
\* device that has accepted, or something that says neither.
LEMMA SendIsWireStep ==
    ASSUME Assumptions, FileInv, UNCHANGED socketButWire, NEW d \in Devices,
           NEW w, OnlyInFlight(w),
           \A k \in Conns, s \in Sides : wire[k][s] = <<>> => w[k][s] = <<>>,
           \/ wire' = w
           \/ \E f \in Frames : TrueOf(d, f)' /\ wire' = Broadcast(d, f, w)
    PROVE  WireStep
  BY DEF WireStep

LEMMA UserStep ==
    ASSUME Assumptions, FileInv, FileStep, NEW d \in Devices, NEW t \in Transfers,
           User(d, t)
    PROVE  WireStep \/ SocketStep \/ UNCHANGED socketVars
  <1>0. FileTypeOK /\ FileDomains /\ OnlyInFlight(wire)
    BY InvParts, WireIsFrames DEF Assumptions
  <1>1. \A type \in ControlTypes : FileFrame(type, t) \in Frames
    BY <1>0, FrameKinds
  <1>2. ASSUME NEW type \in ControlTypes, UNCHANGED socketButWire,
               wire' = Broadcast(d, FileFrame(type, t), wire),
               TrueOf(d, FileFrame(type, t))'
        PROVE  WireStep
    BY <1>0, <1>1, <1>2, SendIsWireStep
  <1>3. CASE SendFile(d, t)
    <2>1. CASE /\ session' = [session EXCEPT ![d] = [session[d] EXCEPT ![t] = NewSession("Outgoing")]]
               /\ wire' = Broadcast(d, FileFrame("FileOffer", t), wire)
               /\ UNCHANGED <<socketButWire, temp>>
      <3>1. session'[d][t] = NewSession("Outgoing")
        BY <1>0, <2>1 DEF FileDomains
      <3>2. TrueOf(d, FileFrame("FileOffer", t))'
        BY <3>1, NewFields DEF TrueOf, FileFrame
      <3>3. QED
        BY <1>2, <2>1, <3>2 DEF ControlTypes
    <2>2. CASE UNCHANGED socketVars
      BY <2>2
    <2>3. CASE \E e \in Devices :
               ConnectAndNotify(d, e, [session[d] EXCEPT ![t] = NewSession("Outgoing")])
      BY <2>3 DEF ConnectAndNotify, SocketStep, ConnectToPeer
    <2>4. QED
      BY <1>3, <2>1, <2>2, <2>3 DEF SendFile
  <1>4. CASE AcceptTransfer(d, t)
    <2>1. t \in accepted'[d]
      BY <1>0, <1>4 DEF AcceptTransfer, FileTypeOK
    <2>2. TrueOf(d, FileFrame("FileAccept", t))'
      BY <2>1 DEF TrueOf, FileFrame
    <2>3. QED
      BY <1>2, <1>4, <2>2 DEF AcceptTransfer, ControlTypes
  <1>5. CASE AcceptFails(d, t)
    BY <1>5 DEF AcceptFails
  <1>6. CASE RejectTransfer(d, t) \/ CancelTransfer(d, t)
    <2>1. PICK type \in {"FileReject", "FileCancel"} :
             /\ wire' = Broadcast(d, FileFrame(type, t), wire)
             /\ UNCHANGED socketButWire
      BY <1>6 DEF RejectTransfer, CancelTransfer, Abandon
    <2>2. TrueOf(d, FileFrame(type, t))'
      BY DEF TrueOf, FileFrame
    <2>3. QED
      BY <1>2, <2>1, <2>2 DEF ControlTypes
  <1>7. QED
    BY <1>3, <1>4, <1>5, <1>6 DEF User

\* sendNextChunk broadcasts a chunk, the end of the file or nothing.
LEMMA StreamStep ==
    ASSUME Assumptions, FileInv, NEW d \in Devices, NEW t \in Transfers,
           NEW x \in Sessions(chunks[t]), NEW w, OnlyInFlight(w),
           \A k \in Conns, s \in Sides : wire[k][s] = <<>> => w[k][s] = <<>>,
           SendNextChunk(d, t, x, w), UNCHANGED socketButWire
    PROVE  WireStep
  <1>0. FileTypeOK /\ chunks[t] \in Nat
    BY InvParts DEF Assumptions
  <1>1. CASE wire' = w
    BY <1>1, SendIsWireStep
  <1>2. CASE wire' = Broadcast(d, FileFrame("FileComplete", t), w)
    <2> DEFINE f == FileFrame("FileComplete", t)
    <2>1. f \in Frames
      BY <1>0, FrameKinds DEF ControlTypes
    <2>2. TrueOf(d, f)'
      BY DEF TrueOf, FileFrame
    <2>3. QED
      BY <1>2, <2>1, <2>2, SendIsWireStep
  <1>3. ASSUME x.index < chunks[t], NEW b \in BOOLEAN,
               wire' = Broadcast(d, FileChunk(t, x.index, [at |-> x.index, intact |-> b]), w)
        PROVE  WireStep
    <2>1. PICK i \in 0..(chunks[t] - 1) : i = x.index
      BY <1>0, <1>3, SessionFields
    <2> DEFINE f == FileChunk(t, i, [at |-> i, intact |-> b])
    <2>2. [at |-> i, intact |-> b] \in Bytes(chunks[t])
      BY DEF Bytes
    <2>3. f \in Frames
      BY <1>0, <2>2, FrameKinds
    <2>4. TrueOf(d, f)'
      BY DEF TrueOf, FileChunk
    <2>5. wire' = Broadcast(d, f, w)
      BY <1>3, <2>1
    <2>6. QED
      BY <2>3, <2>4, <2>5, SendIsWireStep
  <1>4. QED
    BY <1>1, <1>2, <1>3 DEF SendNextChunk

LEMMA TimerStep ==
    ASSUME Assumptions, FileInv, NEW d \in Devices, NEW t \in Transfers, ChunkTimer(d, t)
    PROVE  WireStep \/ UNCHANGED socketVars
  <1>1. UNCHANGED socketButWire
    BY DEF ChunkTimer
  <1>2. CASE session[d][t].state = "Transferring"
    <2>1. session[d][t] \in Sessions(chunks[t]) /\ OnlyInFlight(wire)
      BY InvParts, WireIsFrames DEF Assumptions
    <2>2. SendNextChunk(d, t, session[d][t], wire)
      BY <1>2 DEF ChunkTimer
    <2>3. QED
      BY <1>1, <2>1, <2>2, StreamStep
  <1>3. CASE session[d][t].state # "Transferring"
    BY <1>1, <1>3 DEF ChunkTimer, socketButWire, socketVars
  <1>4. QED
    BY <1>2, <1>3

LEMMA ReceiveStep ==
    ASSUME Assumptions, FileInv,
           NEW d \in Devices, NEW k \in Conns, NEW s \in Sides, Receive(d, k, s)
    PROVE  WireStep
  <1>0. CanRead(d, k, s) /\ UNCHANGED socketButWire
    BY DEF Receive, ReceiveOffer, ReceiveAccept, ReceiveEnd, ReceiveChunk,
           ReceiveComplete, Reads
  <1> DEFINE w == Consumed(k, s)
  <1>1. /\ OnlyInFlight(w)
        /\ \A c \in Conns, o \in Sides : wire[c][o] = <<>> => w[c][o] = <<>>
    BY <1>0, ReadLeavesInFlight, ConsumedKeepsEmpty DEF FileInv, TypeOK, CanRead
  <1>2. CASE wire' = w
    BY <1>0, <1>1, <1>2, SendIsWireStep
  <1>3. CASE ReceiveAccept(d, k, s)
    <2> PICK t \in Transfers : t = IdOf(k, s)
      BY <1>0, ReadFrame DEF Assumptions
    <2> DEFINE x == [session[d][t] EXCEPT !.state = "Transferring"]
    <2>1. CASE SendNextChunk(d, t, x, w)
      <3>1. session[d][t] \in Sessions(chunks[t]) /\ chunks[t] \in Nat
        BY InvParts DEF Assumptions
      <3>2. "Transferring" \in TransferState
        BY DEF TransferState
      <3>3. x \in Sessions(chunks[t])
        BY <3>1, <3>2, SetState
      <3> HIDE DEF x, w
      <3>4. \E v : /\ OnlyInFlight(v) /\ SendNextChunk(d, t, x, v)
                   /\ \A c \in Conns, o \in Sides : wire[c][o] = <<>> => v[c][o] = <<>>
        BY <1>1, <2>1
      <3>5. QED
        BY <1>0, <3>3, <3>4, StreamStep
    <2>2. CASE wire' = w
      BY <1>2, <2>2
    <2>3. QED
      BY <1>3, <2>1, <2>2 DEF ReceiveAccept
  <1>4. QED
    BY <1>2, <1>3 DEF Receive, ReceiveOffer, ReceiveEnd, ReceiveChunk, ReceiveComplete

\* The socket's own events.
LEMMA SocketMoves ==
    ASSUME Assumptions, FileInv, Socket
    PROVE  FileStep /\ SocketStep
  <1> USE DEF Assumptions
  <1>1. ASSUME NEW d \in Devices, NEW e \in Devices, UserConnects(d, e)
        PROVE  FileStep /\ SocketStep
    <2>1. FileStep
      BY <1>1, DialMoves DEF UserConnects
    <2>2. SocketStep
      BY <1>1 DEF UserConnects, ConnectAndNotify, SocketStep, ConnectToPeer
    <2>3. QED
      BY <2>1, <2>2
  <1>2. ASSUME NEW d \in Devices, UserDisconnects(d)
        PROVE  FileStep /\ SocketStep
    BY <1>2, LossMoves, NothingMoves DEF UserDisconnects, SocketStep, restVars, fileVars
  <1>3. ASSUME NEW d \in Devices, Connected(d) \/ DialFailed(d)
        PROVE  FileStep /\ SocketStep
    BY <1>3, NothingMoves DEF Connected, DialFailed, SocketStep
  <1>4. ASSUME NEW d \in Devices, Disconnected(d)
        PROVE  FileStep /\ SocketStep
    BY <1>4, LossMoves DEF Disconnected, SocketStep
  <1>5. ASSUME NEW k \in Conns, Accepted(k) \/ Refused(k)
        PROVE  FileStep /\ SocketStep
    BY <1>5, NothingMoves DEF Accepted, Refused, SocketStep
  <1>6. ASSUME NEW k \in Conns, PeerDisconnected(k)
        PROVE  FileStep /\ SocketStep
    <2>1. listener[k] \in Devices
      BY <1>6 DEF PeerDisconnected, ServerClientDisconnected, FileInv, SocketInv,
                  RoutesAreSound
    <2>2. PICK d \in Devices : d = listener[k]
      BY <2>1
    <2>3. FailActive(d, session[d]) /\ UNCHANGED restVars
      BY <1>6, <2>2 DEF PeerDisconnected
    <2>4. FileStep
      BY <2>3, LossMoves
    <2>5. QED
      BY <1>6, <2>4 DEF PeerDisconnected, SocketStep
  <1>7. QED
    BY <1>1, <1>2, <1>3, <1>4, <1>5, <1>6 DEF Socket

LEMMA EveryStepMoves ==
    ASSUME Assumptions, FileInv, [Next]_vars
    PROVE  /\ FileStep
           /\ WireStep \/ SocketStep \/ UNCHANGED socketVars
  <1> USE DEF Assumptions
  <1>1. ASSUME NEW d \in Devices, NEW t \in Transfers, User(d, t)
        PROVE  FileStep /\ (WireStep \/ SocketStep \/ UNCHANGED socketVars)
    <2>1. FileStep
      BY <1>1, SendFileMoves, AcceptMoves, AcceptFailsMoves, EndMoves DEF User
    <2>2. QED
      BY <1>1, <2>1, UserStep
  <1>2. ASSUME NEW d \in Devices, NEW t \in Transfers, ChunkTimer(d, t)
        PROVE  FileStep /\ (WireStep \/ UNCHANGED socketVars)
    BY <1>2, TimerMoves, TimerStep
  <1>3. ASSUME NEW d \in Devices, NEW k \in Conns, NEW s \in Sides, Receive(d, k, s)
        PROVE  FileStep /\ WireStep
    <2>1. FileStep
      BY <1>3, OfferMoves, AcceptanceMoves, EndingMoves, ChunkMoves, CompletionMoves
         DEF Receive
    <2>2. QED
      BY <1>3, <2>1, ReceiveStep
  <1>4. CASE UNCHANGED vars
    BY <1>4, NothingMoves DEF vars
  <1>5. QED
    BY <1>1, <1>2, <1>3, <1>4, SocketMoves DEF Next

-----------------------------------------------------------------------------
LEMMA FileInitial ==
    ASSUME Assumptions, Init
    PROVE  FileInv
  <1> USE DEF Assumptions, Init
  <1>1. SocketTypeOK(Frames) /\ SocketInv
    BY SocketInitial
  <1>2. FileTypeOK /\ FileDomains /\ \A t \in Transfers : chunks[t] \in Nat
    BY DEF FileTypeOK, FileDomains, FileAssumption
  <1>3. \A d \in Devices, t \in Transfers :
           /\ session[d][t] = NoSession /\ streaming[d] = {}
           /\ temp[d][t] = NoFile /\ final[d][t] = NoFile
    OBVIOUS
  <1>4. \A t \in Transfers : NoSession \in Sessions(chunks[t])
    BY <1>2, NewFields
  <1>5. TypeOK
    BY <1>1, <1>2, <1>3, <1>4, TypeOKParts DEF TransferOK, Contents
  <1>6. SessionsAreSound /\ OnlyAcceptedIsStreamed /\ TempIsThere
        /\ TempIsHashed /\ FinalIsOriginal /\ DownloadIsIntact
    BY <1>3 DEF SessionsAreSound, OnlyAcceptedIsStreamed, TempIsThere, TempIsHashed,
                FinalIsOriginal, DownloadIsIntact, Receiving, NoSession
  <1>7. FramesAreTrue
    <2>1. \A k \in Conns, s \in Sides : wire[k][s] = <<>>
      BY DEF SocketInit
    <2>2. Len(<<>>) = 0
      OBVIOUS
    <2>3. QED
      BY <2>1, <2>2 DEF FramesAreTrue
  <1>8. QED
    BY <1>1, <1>5, <1>6, <1>7 DEF FileInv

LEMMA FileInvStep ==
    ASSUME Assumptions, FileInv, [Next]_vars
    PROVE  FileInv'
  <1> USE DEF Assumptions
  <1>1. /\ FileStep
        /\ WireStep \/ SocketStep \/ UNCHANGED socketVars
    BY EveryStepMoves
  <1>2. SocketTypeOK(Frames)' /\ SocketInv' /\ FramesAreTrue'
    BY <1>1, WireStepKeeps, SocketStepKeeps
  <1>3. TypeOK'
    <2>1. /\ FileTypeOK' /\ FileDomains'
          /\ (\A d \in Devices, t \in Transfers : TransferOK(d, t))'
      BY <1>1 DEF FileStep
    <2>2. TypeOK' <=> (/\ SocketTypeOK(Frames) /\ FileTypeOK /\ FileDomains
                       /\ \A d \in Devices, t \in Transfers : TransferOK(d, t))'
      BY TypeOKParts, PTL
    <2>3. QED
      BY <1>2, <2>1, <2>2
  <1>4. SessionsAreSound' /\ OnlyAcceptedIsStreamed' /\ TempIsThere'
    BY <1>1, SessionsStaySound, StreamsStayAsked, TempStaysThere
  <1>5. ASSUME "write" \notin Faults
        PROVE  TempIsHashed' /\ FinalIsOriginal' /\ DownloadIsIntact'
    <2>1. TempIsHashed'
      BY <1>1, <1>5, TempStaysHashed
    <2>2. FinalIsOriginal'
      BY <1>1, <1>5, FinalStaysOriginal DEF FinalIsOriginal
    <2>3. chunks' = chunks
      BY <1>1 DEF FileStep
    <2>4. DownloadIsIntact'
      BY <1>1, <1>5, <2>3, FinalStaysOriginal DEF DownloadIsIntact
    <2>5. QED
      BY <2>1, <2>2, <2>4
  <1>6. QED
    BY <1>2, <1>3, <1>4, <1>5 DEF FileInv

\* FileInv holds in every reachable state.
LEMMA FileInvariant == Spec => []FileInv
  <1>1. Init => FileInv
    BY FileInitial, AssumptionsHold
  <1>2. FileInv /\ [Next]_vars => FileInv'
    BY FileInvStep, AssumptionsHold
  <1>3. QED
    BY <1>1, <1>2, PTL DEF Spec

\* Sessions, files and the frames on the wires keep their types whatever is
\* offered again, answered late or lost, and the sockets below stay sound.
THEOREM FileTypeCorrect == Spec => [](TypeOK /\ SocketInv)
  <1>1. FileInv => TypeOK /\ SocketInv
    BY DEF FileInv
  <1>2. QED
    BY <1>1, FileInvariant, PTL

\* Only a device that another one has accepted the transfer from streams it.
\* (handleInboundFileAccept, sendNextChunk)
THEOREM StreamsOnlyAccepted == Spec => []OnlyAcceptedIsStreamed
  <1>1. FileInv => OnlyAcceptedIsStreamed
    BY DEF FileInv
  <1>2. QED
    BY <1>1, FileInvariant, PTL

\* Unless the disk loses a write, whose outcome handleInboundFileChunk does not
\* look at, only the file that was offered is put in place.
THEOREM DownloadStaysIntact ==
    ASSUME "write" \notin Faults
    PROVE  Spec => []DownloadIsIntact
  <1>1. FileInv => DownloadIsIntact
    BY DEF FileInv
  <1>2. QED
    BY <1>1, FileInvariant, PTL

\* Unless the disk fails, no later event touches a file that is in place: an
\* offer that comes again at worst writes the same bytes.
THEOREM FinalStays ==
    ASSUME "write" \notin Faults, "rename" \notin Faults
    PROVE  Spec => FinalFileStays
  <1>1. ASSUME FileInv, [Next]_vars
        PROVE  [\A d \in Devices, t \in Transfers :
                   final[d][t] # NoFile => final'[d][t] = final[d][t]]_vars
    <2>1. FileStep
      BY <1>1, EveryStepMoves, AssumptionsHold
    <2>2. QED
      BY <1>1, <2>1, FinalStaysOriginal, AssumptionsHold DEF Assumptions
  <1>2. QED
    BY <1>1, FileInvariant, PTL DEF Spec, FinalFileStays

-----------------------------------------------------------------------------
(* Temporary files.  With two connections between the same devices an offer *)
(* is read twice, and the second reading orphans the file of the first; so  *)
(* what follows is about one connection at a time.                          *)

\* Frame i of side s of connection k on the wires w offers transfer t.
OfferAt(w, k, s, i, t) ==
    i \in 1..Len(w[k][s]) /\ w[k][s][i].type = "FileOffer" /\ w[k][s][i].id = t

OfferedOnce(w) ==
    \A t \in Transfers, k, l \in Conns, r, s \in Sides, i, j \in Nat :
        OfferAt(w, k, r, i, t) /\ OfferAt(w, l, s, j, t) => k = l /\ r = s /\ i = j

OfferInFlight(w, t) == \E k \in Conns, s \in Sides, i \in Nat : OfferAt(w, k, s, i, t)

\* The offers of v are on w too, each wire's in the same order.
NoNewOffer(v, w) ==
    \A k \in Conns, s \in Sides : \E n \in Nat : \A i \in Nat, t \in Transfers :
        OfferAt(v, k, s, i, t) => OfferAt(w, k, s, i + n, t)

\* A file belongs to a transfer under way, whose end will remove it.
TempIsOwned(d, t) ==
    /\ temp[d][t] # NoFile => Receiving(d, t)
    /\ Receiving(d, t) => session[d][t].hasTemp

NotIncoming(t) == \A d \in Devices : session[d][t].direction # "Incoming"

OwnerInv ==
    /\ \A d \in Devices, t \in Transfers : TempIsOwned(d, t)
    /\ OfferedOnce(wire)
    /\ \A t \in Transfers : OfferInFlight(wire, t) => NotIncoming(t)

LEMMA SameWires ==
    ASSUME NEW w
    PROVE  NoNewOffer(w, w)
  <1>1. \A i \in Nat : i + 0 = i
    OBVIOUS
  <1>2. QED
    BY <1>1 DEF NoNewOffer

LEMMA FewerOffers ==
    ASSUME NEW v, NEW w, NoNewOffer(v, w)
    PROVE  /\ OfferedOnce(w) => OfferedOnce(v)
           /\ \A t \in Transfers : OfferInFlight(v, t) => OfferInFlight(w, t)
  <1>1. ASSUME OfferedOnce(w),
               NEW t \in Transfers, NEW k \in Conns, NEW l \in Conns,
               NEW r \in Sides, NEW s \in Sides, NEW i \in Nat, NEW j \in Nat,
               OfferAt(v, k, r, i, t), OfferAt(v, l, s, j, t)
        PROVE  k = l /\ r = s /\ i = j
    <2>1. PICK m \in Nat : \A x \in Nat, u \in Transfers :
             OfferAt(v, k, r, x, u) => OfferAt(w, k, r, x + m, u)
      BY DEF NoNewOffer
    <2>2. PICK n \in Nat : \A x \in Nat, u \in Transfers :
             OfferAt(v, l, s, x, u) => OfferAt(w, l, s, x + n, u)
      BY DEF NoNewOffer
    <2>3. OfferAt(w, k, r, i + m, t) /\ OfferAt(w, l, s, j + n, t)
      BY <1>1, <2>1, <2>2
    <2>4. i + m \in Nat /\ j + n \in Nat
      OBVIOUS
    <2>5. k = l /\ r = s
      BY <1>1, <2>3, <2>4 DEF OfferedOnce
    <2>6. OfferAt(w, k, r, j + m, t) /\ j + m \in Nat
      BY <1>1, <2>1, <2>5
    <2>7. i + m = j + m
      BY <1>1, <2>3, <2>4, <2>6 DEF OfferedOnce
    <2>8. QED
      BY <2>5, <2>7
  <1>2. ASSUME NEW t \in Transfers, OfferInFlight(v, t)
        PROVE  OfferInFlight(w, t)
    <2>1. PICK k \in Conns, s \in Sides, i \in Nat : OfferAt(v, k, s, i, t)
      BY <1>2 DEF OfferInFlight
    <2>2. PICK n \in Nat : \A x \in Nat, u \in Transfers :
             OfferAt(v, k, s, x, u) => OfferAt(w, k, s, x + n, u)
      BY DEF NoNewOffer
    <2>3. OfferAt(w, k, s, i + n, t) /\ i + n \in Nat
      BY <2>1, <2>2
    <2>4. QED
      BY <2>3 DEF OfferInFlight
  <1>3. QED
    BY <1>1, <1>2 DEF OfferedOnce

\* Reading the first frame.
LEMMA ReadingOffersNothing ==
    ASSUME FileInv, NEW k \in Conns, NEW s \in Sides, wire[k][s] # <<>>
    PROVE  NoNewOffer(Consumed(k, s), wire)
  <1>1. wire \in [Conns -> [Sides -> Seq(Frames)]] /\ wire[k][s] \in Seq(Frames)
    BY WireIsFrames
  <1>2. ASSUME NEW c \in Conns, NEW o \in Sides
        PROVE  \E n \in Nat : \A i \in Nat, t \in Transfers :
                  OfferAt(Consumed(k, s), c, o, i, t) => OfferAt(wire, c, o, i + n, t)
    <2>1. CASE c = k /\ o = s
      <3>1. Consumed(k, s)[c][o] = Tail(wire[k][s])
        BY <1>1, <2>1 DEF Consumed
      <3>2. /\ Len(Tail(wire[k][s])) = Len(wire[k][s]) - 1 /\ Len(wire[k][s]) \in Nat
            /\ \A i \in 1..Len(wire[k][s]) - 1 : Tail(wire[k][s])[i] = wire[k][s][i + 1]
        BY <1>1
      <3>3. \A i \in 1..Len(wire[k][s]) - 1 : i + 1 \in 1..Len(wire[k][s])
        BY <3>2
      <3>4. \A i \in Nat, t \in Transfers :
               OfferAt(Consumed(k, s), c, o, i, t) => OfferAt(wire, c, o, i + 1, t)
        BY <2>1, <3>1, <3>2, <3>3 DEF OfferAt
      <3>5. QED
        BY <3>4
    <2>2. CASE ~(c = k /\ o = s)
      <3>1. Consumed(k, s)[c][o] = wire[c][o]
        BY <1>1, <2>2 DEF Consumed
      <3>2. \A i \in Nat : i + 0 = i
        OBVIOUS
      <3>3. \A i \in Nat, t \in Transfers :
               OfferAt(Consumed(k, s), c, o, i, t) => OfferAt(wire, c, o, i + 0, t)
        BY <3>1, <3>2 DEF OfferAt
      <3>4. QED
        BY <3>3
    <2>3. QED
      BY <2>1, <2>2
  <1>3. QED
    BY <1>2 DEF NoNewOffer

\* Sending anything but an offer.
LEMMA SendingOffersNothing ==
    ASSUME NEW w \in [Conns -> [Sides -> Seq(Frames)]], NEW d, NEW f \in Frames,
           f.type # "FileOffer", NEW u, NoNewOffer(w, u)
    PROVE  NoNewOffer(Broadcast(d, f, w), u)
  <1>1. ASSUME NEW c \in Conns, NEW o \in Sides, NEW i \in Nat, NEW t \in Transfers,
               OfferAt(Broadcast(d, f, w), c, o, i, t)
        PROVE  OfferAt(w, c, o, i, t)
    <2>1. Broadcast(d, f, w)[c][o] \in {w[c][o], Append(w[c][o], f)}
      BY DEF Broadcast
    <2>2. w[c][o] \in Seq(Frames)
      OBVIOUS
    <2>3. /\ Len(Append(w[c][o], f)) = Len(w[c][o]) + 1 /\ Len(w[c][o]) \in Nat
          /\ Append(w[c][o], f)[Len(w[c][o]) + 1] = f
          /\ \A x \in 1..Len(w[c][o]) : Append(w[c][o], f)[x] = w[c][o][x]
      BY <2>2
    <2>4. CASE Broadcast(d, f, w)[c][o] = w[c][o]
      BY <1>1, <2>4 DEF OfferAt
    <2>5. CASE Broadcast(d, f, w)[c][o] = Append(w[c][o], f)
      <3>1. /\ i \in 1..Len(w[c][o]) + 1
            /\ Append(w[c][o], f)[i].type = "FileOffer" /\ Append(w[c][o], f)[i].id = t
        BY <1>1, <2>3, <2>5 DEF OfferAt
      <3>2. i # Len(w[c][o]) + 1
        BY <2>3, <3>1
      <3>3. i \in 1..Len(w[c][o])
        BY <2>3, <3>1, <3>2
      <3>4. QED
        BY <2>3, <3>1, <3>3 DEF OfferAt
    <2>6. QED
      BY <2>1, <2>4, <2>5
  <1>2. QED
    BY <1>1 DEF NoNewOffer

\* What a socket does on its own.
LEMMA SocketOffersNothing ==
    ASSUME SocketAssumption, FileInv, SocketStep \/ UNCHANGED socketVars
    PROVE  NoNewOffer(wire', wire)
  <1>1. WiresOnlyLose \/ wire' = wire
    BY SocketStepLoses DEF FileInv, TypeOK, SocketInv, socketVars
  <1>2. ASSUME NEW k \in Conns, NEW s \in Sides
        PROVE  \A i \in Nat, t \in Transfers :
                  OfferAt(wire', k, s, i, t) => OfferAt(wire, k, s, i + 0, t)
    <2>1. wire'[k][s] = <<>> \/ wire'[k][s] = wire[k][s]
      BY <1>1 DEF WiresOnlyLose
    <2>2. Len(<<>>) = 0 /\ (\A i \in Nat : i + 0 = i)
      OBVIOUS
    <2>3. QED
      BY <2>1, <2>2 DEF OfferAt
  <1>3. QED
    BY <1>2 DEF NoNewOffer

OneConnection == \A k, l \in Conns : k = l

\* The offer of a transfer nobody knows: at most one end of the connection is
\* the sender's.
LEMMA OfferingIsAlone ==
    ASSUME Assumptions, FileInv, OneConnection, OfferedOnce(wire),
           NEW d \in Devices, NEW t \in Transfers, ~OfferInFlight(wire, t),
           wire' = Broadcast(d, FileFrame("FileOffer", t), wire)
    PROVE  /\ OfferedOnce(wire')
           /\ \A u \in Transfers : OfferInFlight(wire', u) => u = t \/ OfferInFlight(wire, u)
  <1> DEFINE f == FileFrame("FileOffer", t)
  <1>1. f.type = "FileOffer" /\ f.id = t
    BY DEF FileFrame
  <1> HIDE DEF f
  <1>2. wire' = Broadcast(d, f, wire)
    BY DEF f
  <1>3. ASSUME NEW k \in Conns, NEW s \in Sides, NEW i \in Nat, NEW u \in Transfers,
               OfferAt(wire', k, s, i, u)
        PROVE  \/ OfferAt(wire, k, s, i, u)
               \/ u = t /\ Writes(d, k, s) /\ Reachable(k, s) /\ i = Len(wire[k][s]) + 1
    <2>1. CASE ~(Writes(d, k, s) /\ Reachable(k, s))
      <3>1. wire'[k][s] = wire[k][s]
        BY <1>2, <2>1 DEF Broadcast
      <3>2. QED
        BY <1>3, <3>1 DEF OfferAt
    <2>2. CASE Writes(d, k, s) /\ Reachable(k, s)
      <3>1. wire'[k][s] = Append(wire[k][s], f)
        BY <1>2, <2>2 DEF Broadcast
      <3>2. wire[k][s] \in Seq(Frames)
        BY WireIsFrames
      <3>3. /\ Len(Append(wire[k][s], f)) = Len(wire[k][s]) + 1 /\ Len(wire[k][s]) \in Nat
            /\ Append(wire[k][s], f)[Len(wire[k][s]) + 1] = f
            /\ \A x \in 1..Len(wire[k][s]) : Append(wire[k][s], f)[x] = wire[k][s][x]
        BY <3>2
      <3>4. /\ i \in 1..Len(wire[k][s]) + 1
            /\ Append(wire[k][s], f)[i].type = "FileOffer"
            /\ Append(wire[k][s], f)[i].id = u
        BY <1>3, <3>1, <3>3 DEF OfferAt
      <3>5. CASE i = Len(wire[k][s]) + 1
        BY <1>1, <2>2, <3>3, <3>4, <3>5
      <3>6. CASE i # Len(wire[k][s]) + 1
        <4>1. i \in 1..Len(wire[k][s])
          BY <3>3, <3>4, <3>6
        <4>2. QED
          BY <3>3, <3>4, <4>1 DEF OfferAt
      <3>7. QED
        BY <3>5, <3>6
    <2>3. QED
      BY <2>1, <2>2
  <1>4. ASSUME NEW k \in Conns, Writes(d, k, "up"), Writes(d, k, "down"),
               Reachable(k, "down")
        PROVE  FALSE
    BY <1>4 DEF Writes, Reachable, ServerClients, FileInv, SocketInv, HoldsItsOwnDial,
                RoutesAreSound, DialerHolds
  <1>5. OfferedOnce(wire')
    <2>1. SUFFICES ASSUME NEW u \in Transfers, NEW k \in Conns, NEW l \in Conns,
                          NEW r \in Sides, NEW s \in Sides, NEW i \in Nat, NEW j \in Nat,
                          OfferAt(wire', k, r, i, u), OfferAt(wire', l, s, j, u)
                   PROVE  k = l /\ r = s /\ i = j
      BY DEF OfferedOnce
    <2>2. k = l
      BY DEF OneConnection
    <2>3. CASE u = t
      <3>1. /\ Writes(d, k, r) /\ Reachable(k, r) /\ i = Len(wire[k][r]) + 1
            /\ Writes(d, l, s) /\ Reachable(l, s) /\ j = Len(wire[l][s]) + 1
        BY <1>3, <2>1, <2>3 DEF OfferInFlight
      <3>2. r = s
        BY <1>4, <2>2, <3>1 DEF Sides
      <3>3. QED
        BY <2>2, <3>1, <3>2
    <2>4. CASE u # t
      BY <1>3, <2>1, <2>4 DEF OfferedOnce
    <2>5. QED
      BY <2>3, <2>4
  <1>6. QED
    BY <1>3, <1>5 DEF OfferInFlight

\* The files of one transfer at one device change, and no offer is new.
LEMMA OneKeepsOwner ==
    ASSUME Assumptions, FileInv, OwnerInv, NEW d \in Devices, NEW t \in Transfers,
           AtMostOnePlace(session', session, d, t), AtMostOnePlace(temp', temp, d, t),
           TempIsOwned(d, t)',
           session'[d][t].direction = "Incoming" => session[d][t].direction = "Incoming",
           NoNewOffer(wire', wire)
    PROVE  OwnerInv'
  <1>1. FileDomains
    BY InvParts DEF Assumptions
  <1>2. \A e \in Devices, u \in Transfers : e # d \/ u # t =>
           session'[e][u] = session[e][u] /\ temp'[e][u] = temp[e][u]
    BY <1>1 DEF FileDomains, AtMostOnePlace
  <1>3. \A e \in Devices, u \in Transfers : TempIsOwned(e, u)'
    BY <1>2 DEF OwnerInv, TempIsOwned, Receiving
  <1>4. /\ OfferedOnce(wire')
        /\ \A u \in Transfers : OfferInFlight(wire', u) => OfferInFlight(wire, u)
    BY FewerOffers DEF OwnerInv
  <1>5. \A u \in Transfers : OfferInFlight(wire', u) => NotIncoming(u)'
    BY <1>2, <1>4 DEF OwnerInv, NotIncoming
  <1>6. QED
    BY <1>3, <1>4, <1>5 DEF OwnerInv

\* cleanupSession, in every way a transfer ends but the completion.
LEMMA FinishOwns ==
    ASSUME Assumptions, FileInv, OwnerInv, NEW d \in Devices, NEW t \in Transfers,
           NEW st \in {"Failed", "Rejected", "Cancelled"}, Finish(d, t, st),
           NoNewOffer(wire', wire)
    PROVE  OwnerInv'
  <1>0. FileDomains /\ session[d][t] \in Sessions(chunks[t]) /\ chunks[t] \in Nat
    BY InvParts DEF Assumptions
  <1> DEFINE x == [session[d][t] EXCEPT !.state = st]
  <1>1. session' = [session EXCEPT ![d][t] = x]
    BY DEF Finish, SetSession
  <1>2. session'[d][t] = x
    BY <1>0, <1>1 DEF FileDomains
  <1>3. x.state = st /\ x.direction = session[d][t].direction
    <2>1. st \in TransferState
      BY DEF TransferState
    <2>2. QED
      BY <1>0, <2>1, SetState
  <1>4. AtMostOnePlace(session', session, d, t)
    BY <1>1 DEF AtMostOnePlace
  <1>5. AtMostOnePlace(temp', temp, d, t)
    BY DEF Finish, Cleanup, AtMostOnePlace
  <1>6. temp'[d][t] = NoFile
    BY <1>0 DEF Finish, Cleanup, FileDomains, OwnerInv, TempIsOwned
  <1> HIDE DEF x
  <1>7. TempIsOwned(d, t)'
    BY <1>2, <1>3, <1>6 DEF TempIsOwned, Receiving
  <1>8. session'[d][t].direction = session[d][t].direction
    BY <1>2, <1>3
  <1>9. QED
    BY <1>4, <1>5, <1>7, <1>8, OneKeepsOwner

\* The sessions of a device after a call that may have lost its connection.
LEMMA LossKeepsOwner ==
    ASSUME Assumptions, FileInv, OwnerInv, NEW d \in Devices, NEW ss,
           \A u \in Transfers :
              /\ ss[u] \in Sessions(chunks[u])
              /\ \/ ss[u] = session[d][u]
                 \/ ss[u].direction = "Outgoing" /\ session[d][u].direction = "None",
           \/ FailActive(d, ss)
           \/ session' = [session EXCEPT ![d] = ss] /\ UNCHANGED temp,
           NoNewOffer(wire', wire)
    PROVE  OwnerInv'
  <1>0. FileDomains /\ \A u \in Transfers : chunks[u] \in Nat
    BY InvParts DEF Assumptions
  <1>1. \A e \in Devices \ {d} : session'[e] = session[e] /\ temp'[e] = temp[e]
    BY <1>0 DEF FileDomains, FailActive
  <1>2. ASSUME NEW u \in Transfers
        PROVE  /\ temp[d][u] # NoFile => ss[u] = session[d][u] /\ Receiving(d, u)
               /\ ss[u].direction = "Incoming" => ss[u] = session[d][u]
               /\ Receiving(d, u) => session[d][u].hasTemp
    BY DEF OwnerInv, TempIsOwned, Receiving
  <1>3. ASSUME NEW u \in Transfers
        PROVE  /\ TempIsOwned(d, u)'
               /\ session'[d][u].direction = "Incoming" => session[d][u].direction = "Incoming"
    <2>1. CASE FailActive(d, ss) /\ Active(ss[u])
      <3>1. "Failed" \in TransferState
        BY DEF TransferState
      <3>2. session'[d][u] = [ss[u] EXCEPT !.state = "Failed"]
        BY <1>0, <2>1 DEF FailActive, FileDomains
      <3>3. session'[d][u].state = "Failed" /\ session'[d][u].direction = ss[u].direction
        BY <1>0, <3>1, <3>2, SetState
      <3>4. temp'[d][u] = IF ss[u].hasTemp THEN NoFile ELSE temp[d][u]
        BY <1>0, <2>1 DEF FailActive, FileDomains
      <3>5. temp'[d][u] = NoFile
        BY <1>2, <3>4
      <3>6. QED
        BY <1>2, <3>3, <3>5 DEF TempIsOwned, Receiving
    <2>2. CASE ~(FailActive(d, ss) /\ Active(ss[u]))
      <3>1. session'[d][u] = ss[u] /\ temp'[d][u] = temp[d][u]
        BY <1>0, <2>2 DEF FailActive, FileDomains
      <3>2. QED
        BY <1>2, <3>1 DEF TempIsOwned, Receiving
    <2>3. QED
      BY <2>1, <2>2
  <1>4. \A e \in Devices, u \in Transfers : TempIsOwned(e, u)'
    BY <1>1, <1>3 DEF OwnerInv, TempIsOwned, Receiving
  <1>5. /\ OfferedOnce(wire')
        /\ \A u \in Transfers : OfferInFlight(wire', u) => OfferInFlight(wire, u)
    BY FewerOffers DEF OwnerInv
  <1>6. \A u \in Transfers : OfferInFlight(wire', u) => NotIncoming(u)'
    BY <1>1, <1>3, <1>5 DEF OwnerInv, NotIncoming
  <1>7. QED
    BY <1>4, <1>5, <1>6 DEF OwnerInv

LEMMA UnknownIsNotOffered ==
    ASSUME Assumptions, FileInv, NEW t \in Transfers, \A e \in Devices : ~Known(e, t)
    PROVE  ~OfferInFlight(wire, t)
  <1>1. SUFFICES ASSUME NEW k \in Conns, NEW s \in Sides, NEW i \in Nat,
                        OfferAt(wire, k, s, i, t)
                 PROVE  FALSE
    BY DEF OfferInFlight
  <1>2. wire[k][s] # <<>>
    <2>1. Len(<<>>) = 0
      OBVIOUS
    <2>2. QED
      BY <1>1, <2>1 DEF OfferAt
  <1>3. Source(k, s) \in Devices
    BY <1>2, SourcesAreDevices DEF Assumptions
  <1>4. TrueOf(Source(k, s), wire[k][s][i])
    BY <1>1 DEF FileInv, FramesAreTrue, OfferAt
  <1>5. QED
    BY <1>1, <1>3, <1>4 DEF TrueOf, OfferAt, Known

\* connectToPeer, with what it emits from inside.
LEMMA DialKeepsOwner ==
    ASSUME Assumptions, FileInv, OwnerInv, NEW d \in Devices, NEW e \in Devices, NEW ss,
           \A u \in Transfers :
              /\ ss[u] \in Sessions(chunks[u])
              /\ \/ ss[u] = session[d][u]
                 \/ ss[u].direction = "Outgoing" /\ session[d][u].direction = "None",
           ConnectAndNotify(d, e, ss)
    PROVE  OwnerInv'
  <1>1. SocketStep
    BY DEF ConnectAndNotify, SocketStep, ConnectToPeer
  <1>2. NoNewOffer(wire', wire)
    BY <1>1, SocketOffersNothing DEF Assumptions
  <1>3. FailActive(d, ss) \/ (session' = [session EXCEPT ![d] = ss] /\ UNCHANGED temp)
    BY DEF ConnectAndNotify
  <1>4. QED
    BY <1>2, <1>3, LossKeepsOwner

LEMMA SendFileOwns ==
    ASSUME Assumptions, FileInv, OwnerInv, OneConnection,
           NEW d \in Devices, NEW t \in Transfers, SendFile(d, t)
    PROVE  OwnerInv'
  <1> DEFINE ss == [session[d] EXCEPT ![t] = NewSession("Outgoing")]
  <1>0. /\ FileDomains
        /\ \A u \in Transfers : chunks[u] \in Nat /\ session[d][u] \in Sessions(chunks[u])
    BY InvParts DEF Assumptions
  <1>1. \A e \in Devices : ~Known(e, t)
    BY DEF SendFile
  <1>2. NewSession("Outgoing") \in Sessions(chunks[t])
        /\ NewSession("Outgoing").direction = "Outgoing"
    BY <1>0, NewFields
  <1>3. ss[t] = NewSession("Outgoing") /\ \A u \in Transfers \ {t} : ss[u] = session[d][u]
    BY <1>0 DEF FileDomains
  <1>4. \A u \in Transfers :
           /\ ss[u] \in Sessions(chunks[u])
           /\ \/ ss[u] = session[d][u]
              \/ ss[u].direction = "Outgoing" /\ session[d][u].direction = "None"
    BY <1>0, <1>1, <1>2, <1>3 DEF Known
  <1>5. CASE session' = [session EXCEPT ![d] = ss] /\ UNCHANGED <<socketVars, temp>>
    <2>1. NoNewOffer(wire', wire)
      BY <1>5, SameWires DEF socketVars
    <2> HIDE DEF ss
    <2>2. QED
      BY <1>4, <1>5, <2>1, LossKeepsOwner
  <1>6. CASE \E e \in Devices : ConnectAndNotify(d, e, ss)
    <2> HIDE DEF ss
    <2>1. QED
      BY <1>4, <1>6, DialKeepsOwner
  <1>7. CASE /\ session' = [session EXCEPT ![d] = ss]
             /\ wire' = Broadcast(d, FileFrame("FileOffer", t), wire)
             /\ UNCHANGED temp
    <2> HIDE DEF ss
    <2>1. /\ OfferedOnce(wire')
          /\ \A u \in Transfers :
                OfferInFlight(wire', u) => u = t \/ OfferInFlight(wire, u)
      BY <1>1, <1>7, UnknownIsNotOffered, OfferingIsAlone DEF OwnerInv
    <2>2. \A e \in Devices : session'[e] = IF e = d THEN ss ELSE session[e]
      BY <1>0, <1>7 DEF FileDomains
    <2>3. \A e \in Devices : session'[e][t].direction # "Incoming"
      BY <1>1, <1>2, <1>3, <2>2 DEF Known
    <2>4. \A e \in Devices, u \in Transfers \ {t} : session'[e][u] = session[e][u]
      BY <1>3, <2>2
    <2>5. \A u \in Transfers : OfferInFlight(wire', u) => NotIncoming(u)'
      BY <2>1, <2>3, <2>4 DEF OwnerInv, NotIncoming
    <2>6. \A e \in Devices : session[e][t].direction # "Incoming"
      BY <1>1 DEF Known
    <2>7. \A e \in Devices : temp'[e][t] = NoFile
      BY <1>7, <2>6 DEF OwnerInv, TempIsOwned, Receiving
    <2>8. \A e \in Devices, u \in Transfers : TempIsOwned(e, u)'
      BY <1>7, <2>3, <2>4, <2>7 DEF OwnerInv, TempIsOwned, Receiving
    <2>9. QED
      BY <2>1, <2>5, <2>8 DEF OwnerInv
  <1>8. QED
    BY <1>5, <1>6, <1>7 DEF SendFile

\* No rename that fails leaves the file of an empty transfer behind.
EmptyIsRenamed == "rename" \notin Faults \/ 0 \notin Sizes

LEMMA AcceptOwns ==
    ASSUME Assumptions, FileInv, OwnerInv, EmptyIsRenamed,
           NEW d \in Devices, NEW t \in Transfers,
           AcceptTransfer(d, t) \/ AcceptFails(d, t)
    PROVE  OwnerInv'
  <1>0. /\ FileDomains /\ session[d][t] \in Sessions(chunks[t])
        /\ chunks[t] \in Nat /\ chunks[t] \in Sizes
    BY InvParts DEF Assumptions, FileTypeOK
  <1>1. session[d][t].direction = "Incoming" /\ temp[d][t] = NoFile
    BY DEF AcceptTransfer, AcceptFails, Accepting, OwnerInv, TempIsOwned, Receiving
  <1>2. \/ wire' = wire
        \/ \E f \in Frames : f.type # "FileOffer" /\ wire' = Broadcast(d, f, wire)
    <2>1. FileFrame("FileAccept", t) \in Frames
          /\ FileFrame("FileAccept", t).type # "FileOffer"
      BY InvParts, FrameKinds DEF Assumptions, ControlTypes, FileFrame
    <2>2. QED
      BY <2>1 DEF AcceptTransfer, AcceptFails, socketVars
  <1>3. NoNewOffer(wire', wire)
    BY <1>2, SameWires, SendingOffersNothing, WireIsFrames
  <1> DEFINE s == [session[d][t] EXCEPT !.hasTemp = TRUE]
  <1>4. s \in Sessions(chunks[t]) /\ s.hasTemp
    BY <1>0 DEF Sessions
  <1>5. AtMostOnePlace(session', session, d, t) /\ AtMostOnePlace(temp', temp, d, t)
    BY DEF AcceptTransfer, AcceptFails, SetSession, AtMostOnePlace
  <1>6. CASE AcceptTransfer(d, t) /\ chunks[t] > 0
    <2>1. session'[d][t] = [s EXCEPT !.state = "Transferring"]
      BY <1>0, <1>6 DEF AcceptTransfer, SetSession, FileDomains
    <2>2. "Transferring" \in TransferState
      BY DEF TransferState
    <2>3. /\ session'[d][t].direction = session[d][t].direction
          /\ session'[d][t].state = "Transferring" /\ session'[d][t].hasTemp
      BY <1>0, <1>4, <2>1, <2>2, SetState, SetHasTemp
    <2>4. TempIsOwned(d, t)'
      BY <1>1, <2>3 DEF TempIsOwned, Receiving
    <2>5. QED
      BY <1>1, <1>3, <1>5, <2>4, OneKeepsOwner
  <1>7. CASE AcceptTransfer(d, t) /\ ~(chunks[t] > 0)
    <2>1. session'[d][t] = [s EXCEPT !.state = "Completed"]
      BY <1>0, <1>7 DEF AcceptTransfer, SetSession, FileDomains
    <2>2. "Completed" \in TransferState
      BY DEF TransferState
    <2>3. session'[d][t].state = "Completed"
      BY <1>0, <1>4, <2>1, <2>2, SetState
    <2>4. chunks[t] = 0 /\ "rename" \notin Faults
      BY <1>0, <1>7 DEF EmptyIsRenamed
    <2>5. temp'[d][t] = NoFile
      BY <1>0, <1>7, <2>4 DEF AcceptTransfer, FileDomains
    <2>6. TempIsOwned(d, t)'
      BY <2>3, <2>5 DEF TempIsOwned, Receiving
    <2>7. QED
      BY <1>1, <1>3, <1>5, <2>6, OneKeepsOwner
  <1>8. CASE AcceptFails(d, t)
    <2>1. session'[d][t] = [session[d][t] EXCEPT !.state = "Failed", !.hasTemp = TRUE]
      BY <1>0, <1>8 DEF AcceptFails, SetSession, FileDomains
    <2>2. session'[d][t].state = "Failed"
      BY <1>0, <2>1 DEF Sessions
    <2>3. TempIsOwned(d, t)'
      BY <1>1, <1>8, <2>2 DEF AcceptFails, TempIsOwned, Receiving
    <2>4. QED
      BY <1>1, <1>3, <1>5, <2>3, OneKeepsOwner
  <1>9. QED
    BY <1>6, <1>7, <1>8

LEMMA AbandonOwns ==
    ASSUME Assumptions, FileInv, OwnerInv, NEW d \in Devices, NEW t \in Transfers,
           RejectTransfer(d, t) \/ CancelTransfer(d, t)
    PROVE  OwnerInv'
  <1>1. PICK type \in {"FileReject", "FileCancel"}, st \in {"Rejected", "Cancelled"} :
           Finish(d, t, st) /\ wire' = Broadcast(d, FileFrame(type, t), wire)
    BY DEF RejectTransfer, CancelTransfer, Abandon
  <1>2. FileFrame(type, t) \in Frames /\ FileFrame(type, t).type # "FileOffer"
    BY InvParts, FrameKinds DEF Assumptions, ControlTypes, FileFrame
  <1>3. NoNewOffer(wire', wire)
    BY <1>1, <1>2, SameWires, SendingOffersNothing, WireIsFrames
  <1>4. QED
    BY <1>1, <1>3, FinishOwns

\* sendNextChunk, from either of its callers.
LEMMA StreamOwns ==
    ASSUME Assumptions, FileInv, OwnerInv, NEW d \in Devices, NEW t \in Transfers,
           session[d][t].direction = "Outgoing",
           NEW x \in Sessions(chunks[t]), x.direction = "Outgoing",
           NEW w \in [Conns -> [Sides -> Seq(Frames)]], NoNewOffer(w, wire),
           SendNextChunk(d, t, x, w), temp' = temp
    PROVE  OwnerInv'
  <1>0. FileTypeOK /\ FileDomains /\ chunks[t] \in Nat
    BY InvParts DEF Assumptions
  <1>1. NoNewOffer(wire', wire)
    <2>1. CASE wire' = w
      BY <2>1
    <2>2. CASE wire' = Broadcast(d, FileFrame("FileComplete", t), w)
      <3>1. FileFrame("FileComplete", t) \in Frames
            /\ FileFrame("FileComplete", t).type # "FileOffer"
        BY <1>0, FrameKinds DEF ControlTypes, FileFrame
      <3>2. QED
        BY <2>2, <3>1, SendingOffersNothing
    <2>3. ASSUME x.index < chunks[t], NEW b \in BOOLEAN,
                 wire' = Broadcast(d, FileChunk(t, x.index, [at |-> x.index, intact |-> b]), w)
          PROVE  NoNewOffer(wire', wire)
      <3>1. PICK i \in 0..(chunks[t] - 1) : i = x.index
        BY <1>0, <2>3, SessionFields
      <3> DEFINE f == FileChunk(t, i, [at |-> i, intact |-> b])
      <3>2. [at |-> i, intact |-> b] \in Bytes(chunks[t])
        BY DEF Bytes
      <3>3. f \in Frames
        BY <1>0, <3>2, FrameKinds
      <3>4. f.type # "FileOffer"
        BY DEF FileChunk
      <3>5. wire' = Broadcast(d, f, w)
        BY <2>3, <3>1
      <3> HIDE DEF f
      <3>6. QED
        BY <3>3, <3>4, <3>5, SendingOffersNothing
    <2>4. QED
      BY <2>1, <2>2, <2>3 DEF SendNextChunk
  <1>2. PICK y : session' = [session EXCEPT ![d][t] = y] /\ y.direction = "Outgoing"
    <2>1. CASE SetSession(d, t, [x EXCEPT !.state = "Completed"])
               \/ SetSession(d, t, [x EXCEPT !.state = "Failed"])
      <3>1. [x EXCEPT !.state = "Completed"].direction = "Outgoing"
            /\ [x EXCEPT !.state = "Failed"].direction = "Outgoing"
        BY DEF Sessions
      <3>2. QED
        BY <2>1, <3>1 DEF SetSession
    <2>2. CASE SetSession(d, t, [x EXCEPT !.index = @ + 1])
      <3>1. [x EXCEPT !.index = @ + 1].direction = "Outgoing"
        BY DEF Sessions
      <3>2. QED
        BY <2>2, <3>1 DEF SetSession
    <2>3. QED
      BY <2>1, <2>2 DEF SendNextChunk
  <1>3. session'[d][t].direction = "Outgoing"
    BY <1>0, <1>2 DEF FileDomains
  <1>4. temp'[d][t] = NoFile
    BY DEF OwnerInv, TempIsOwned, Receiving
  <1>5. TempIsOwned(d, t)'
    BY <1>3, <1>4 DEF TempIsOwned, Receiving
  <1>6. AtMostOnePlace(session', session, d, t) /\ AtMostOnePlace(temp', temp, d, t)
    BY <1>2 DEF AtMostOnePlace
  <1>7. QED
    BY <1>1, <1>3, <1>5, <1>6, OneKeepsOwner

\* The files are left alone, and no offer is new.
LEMMA NothingOwns ==
    ASSUME Assumptions, FileInv, OwnerInv, UNCHANGED <<session, temp>>,
           NoNewOffer(wire', wire)
    PROVE  OwnerInv'
  <1>1. /\ OfferedOnce(wire')
        /\ \A u \in Transfers : OfferInFlight(wire', u) => OfferInFlight(wire, u)
    BY FewerOffers DEF OwnerInv
  <1>2. QED
    BY <1>1 DEF OwnerInv, TempIsOwned, Receiving, NotIncoming

LEMMA TimerOwns ==
    ASSUME Assumptions, FileInv, OwnerInv, NEW d \in Devices, NEW t \in Transfers,
           ChunkTimer(d, t)
    PROVE  OwnerInv'
  <1>1. session[d][t].direction = "Outgoing" /\ temp' = temp
    BY DEF ChunkTimer, FileInv, SessionsAreSound
  <1>2. session[d][t] \in Sessions(chunks[t]) /\ wire \in [Conns -> [Sides -> Seq(Frames)]]
    BY InvParts, WireIsFrames DEF Assumptions
  <1>3. NoNewOffer(wire, wire)
    BY SameWires
  <1>4. CASE session[d][t].state = "Transferring"
    <2>1. SendNextChunk(d, t, session[d][t], wire)
      BY <1>4 DEF ChunkTimer
    <2>2. QED
      BY <1>1, <1>2, <1>3, <2>1, StreamOwns
  <1>5. CASE session[d][t].state # "Transferring"
    <2>1. session' = session /\ wire' = wire
      BY <1>5 DEF ChunkTimer
    <2>2. QED
      BY <1>1, <1>3, <2>1, NothingOwns
  <1>6. QED
    BY <1>4, <1>5

\* The first frame, read from a wire.
LEMMA ReadKeepsOffers ==
    ASSUME Assumptions, FileInv,
           NEW d \in Devices, NEW k \in Conns, NEW s \in Sides, CanRead(d, k, s)
    PROVE  /\ IdOf(k, s) \in Transfers
           /\ Consumed(k, s) \in [Conns -> [Sides -> Seq(Frames)]]
           /\ NoNewOffer(Consumed(k, s), wire)
  BY ReadFrame, ReadLeavesInFlight, ReadingOffersNothing DEF Assumptions, OnlyInFlight, CanRead

\* The only offer of a transfer is read.
LEMMA OfferIsTaken ==
    ASSUME FileInv, OfferedOnce(wire), NEW k \in Conns, NEW s \in Sides,
           wire[k][s] # <<>>, Head(wire[k][s]).type = "FileOffer",
           NEW t \in Transfers, t = Head(wire[k][s]).id
    PROVE  OfferAt(wire, k, s, 1, t) /\ ~OfferInFlight(Consumed(k, s), t)
  <1>1. wire \in [Conns -> [Sides -> Seq(Frames)]] /\ wire[k][s] \in Seq(Frames)
    BY WireIsFrames
  <1>2. 1 \in 1..Len(wire[k][s]) /\ Head(wire[k][s]) = wire[k][s][1]
    BY <1>1
  <1>3. OfferAt(wire, k, s, 1, t)
    BY <1>2 DEF OfferAt
  <1>4. ASSUME NEW c \in Conns, NEW o \in Sides, NEW i \in Nat,
               OfferAt(Consumed(k, s), c, o, i, t)
        PROVE  FALSE
    <2>1. CASE c = k /\ o = s
      <3>1. Consumed(k, s)[c][o] = Tail(wire[k][s])
        BY <1>1, <2>1 DEF Consumed
      <3>2. /\ Len(Tail(wire[k][s])) = Len(wire[k][s]) - 1 /\ Len(wire[k][s]) \in Nat
            /\ \A n \in 1..Len(wire[k][s]) - 1 : Tail(wire[k][s])[n] = wire[k][s][n + 1]
        BY <1>1, <1>2
      <3>3. i \in 1..Len(wire[k][s]) - 1 /\ i + 1 \in 1..Len(wire[k][s])
        BY <1>4, <3>1, <3>2 DEF OfferAt
      <3>4. OfferAt(wire, k, s, i + 1, t) /\ i + 1 \in Nat
        BY <1>4, <2>1, <3>1, <3>2, <3>3 DEF OfferAt
      <3>5. i + 1 = 1
        BY <1>3, <3>4 DEF OfferedOnce
      <3>6. QED
        BY <3>3, <3>5
    <2>2. CASE ~(c = k /\ o = s)
      <3>1. Consumed(k, s)[c][o] = wire[c][o]
        BY <1>1, <2>2 DEF Consumed
      <3>2. OfferAt(wire, c, o, i, t)
        BY <1>4, <3>1 DEF OfferAt
      <3>3. QED
        BY <1>3, <2>2, <3>2 DEF OfferedOnce
    <2>3. QED
      BY <2>1, <2>2
  <1>5. QED
    BY <1>3, <1>4 DEF OfferInFlight

LEMMA ReceiveOfferOwns ==
    ASSUME Assumptions, FileInv, OwnerInv,
           NEW d \in Devices, NEW k \in Conns, NEW s \in Sides, ReceiveOffer(d, k, s)
    PROVE  OwnerInv'
  <1>1. CanRead(d, k, s) /\ wire[k][s] # <<>> /\ Head(wire[k][s]).type = "FileOffer"
    BY DEF ReceiveOffer, Reads, CanRead
  <1>2. PICK t \in Transfers : t = IdOf(k, s)
    BY <1>1, ReadKeepsOffers
  <1>3. FileDomains /\ chunks[t] \in Nat
    BY InvParts DEF Assumptions
  <1>4. OfferAt(wire, k, s, 1, t) /\ ~OfferInFlight(wire', t)
    BY <1>1, <1>2, OfferIsTaken DEF IdOf, ReceiveOffer, OwnerInv
  <1>5. NotIncoming(t)
    BY <1>4 DEF OwnerInv, OfferInFlight
  <1>6. session' = [session EXCEPT ![d][t] = NewSession("Incoming")] /\ temp' = temp
    BY <1>2 DEF ReceiveOffer, SetSession
  <1>7. NewSession("Incoming").state = "Offering"
    BY <1>3, NewFields
  <1>8. session'[d][t] = NewSession("Incoming")
        /\ \A e \in Devices, u \in Transfers : e # d \/ u # t => session'[e][u] = session[e][u]
    BY <1>3, <1>6 DEF FileDomains
  <1>9. \A e \in Devices, u \in Transfers : TempIsOwned(e, u)'
    <2>1. temp'[d][t] = NoFile
      BY <1>5, <1>6 DEF OwnerInv, TempIsOwned, Receiving, NotIncoming
    <2>2. TempIsOwned(d, t)'
      BY <1>7, <1>8, <2>1 DEF TempIsOwned, Receiving
    <2>3. QED
      BY <1>6, <1>8, <2>2 DEF OwnerInv, TempIsOwned, Receiving
  <1>10. /\ OfferedOnce(wire')
         /\ \A u \in Transfers : OfferInFlight(wire', u) => OfferInFlight(wire, u)
    <2>1. NoNewOffer(wire', wire)
      BY <1>1, ReadKeepsOffers DEF ReceiveOffer
    <2>2. QED
      BY <2>1, FewerOffers DEF OwnerInv
  <1>11. \A u \in Transfers : OfferInFlight(wire', u) => NotIncoming(u)'
    BY <1>4, <1>8, <1>10 DEF OwnerInv, NotIncoming
  <1>12. QED
    BY <1>9, <1>10, <1>11 DEF OwnerInv

LEMMA ReceiveAcceptOwns ==
    ASSUME Assumptions, FileInv, OwnerInv,
           NEW d \in Devices, NEW k \in Conns, NEW s \in Sides, ReceiveAccept(d, k, s)
    PROVE  OwnerInv'
  <1>1. CanRead(d, k, s) /\ temp' = temp
    BY DEF ReceiveAccept, Reads
  <1>2. PICK t \in Transfers : t = IdOf(k, s)
    BY <1>1, ReadKeepsOffers
  <1>3. PICK w \in [Conns -> [Sides -> Seq(Frames)]] :
           w = Consumed(k, s) /\ NoNewOffer(w, wire)
    BY <1>1, ReadKeepsOffers
  <1>4. /\ FileDomains /\ chunks[t] \in Nat /\ session[d][t] \in Sessions(chunks[t])
    BY InvParts DEF Assumptions
  <1> DEFINE x == [session[d][t] EXCEPT !.state = "Transferring"]
             y == [x EXCEPT !.state = "Failed"]
  <1>5. /\ x \in Sessions(chunks[t]) /\ x.direction = session[d][t].direction
        /\ y.direction = session[d][t].direction /\ y.state = "Failed"
    <2>1. "Transferring" \in TransferState /\ "Failed" \in TransferState
      BY DEF TransferState
    <2>2. x \in Sessions(chunks[t]) /\ x.direction = session[d][t].direction
      BY <1>4, <2>1, SetState
    <2> HIDE DEF x
    <2>3. QED
      BY <1>4, <2>1, <2>2, SetState
  <1>6. CASE UNCHANGED session /\ wire' = w
    BY <1>1, <1>3, <1>6, NothingOwns
  <1>7. CASE session[d][t].direction = "Outgoing" /\ SendNextChunk(d, t, x, w)
    <2> HIDE DEF x, y
    <2>1. QED
      BY <1>1, <1>3, <1>5, <1>7, StreamOwns
  <1>8. CASE session[d][t].direction = "Outgoing" /\ SetSession(d, t, y) /\ wire' = w
    <2> HIDE DEF x, y
    <2>1. session'[d][t] = y
      BY <1>4, <1>8 DEF SetSession, FileDomains
    <2>2. temp'[d][t] = NoFile
      BY <1>1, <1>8 DEF OwnerInv, TempIsOwned, Receiving
    <2>3. TempIsOwned(d, t)'
      BY <1>5, <2>1, <2>2 DEF TempIsOwned, Receiving
    <2>4. AtMostOnePlace(session', session, d, t) /\ AtMostOnePlace(temp', temp, d, t)
      BY <1>1, <1>8 DEF SetSession, AtMostOnePlace
    <2>5. QED
      BY <1>3, <1>5, <1>8, <2>1, <2>3, <2>4, OneKeepsOwner
  <1>9. QED
    BY <1>2, <1>3, <1>6, <1>7, <1>8 DEF ReceiveAccept

LEMMA ReceiveEndOwns ==
    ASSUME Assumptions, FileInv, OwnerInv,
           NEW d \in Devices, NEW k \in Conns, NEW s \in Sides, ReceiveEnd(d, k, s)
    PROVE  OwnerInv'
  <1>1. CanRead(d, k, s) /\ wire' = Consumed(k, s)
    BY DEF ReceiveEnd, Reads
  <1>2. PICK t \in Transfers : t = IdOf(k, s)
    BY <1>1, ReadKeepsOffers
  <1>3. NoNewOffer(wire', wire)
    BY <1>1, ReadKeepsOffers
  <1>4. \/ UNCHANGED <<session, temp>>
        \/ \E st \in {"Rejected", "Cancelled"} : Finish(d, t, st)
    BY <1>2 DEF ReceiveEnd
  <1>5. QED
    BY <1>3, <1>4, NothingOwns, FinishOwns

LEMMA ReceiveChunkOwns ==
    ASSUME Assumptions, FileInv, OwnerInv,
           NEW d \in Devices, NEW k \in Conns, NEW s \in Sides, ReceiveChunk(d, k, s)
    PROVE  OwnerInv'
  <1>1. CanRead(d, k, s) /\ wire' = Consumed(k, s)
    BY DEF ReceiveChunk, Reads
  <1>2. PICK t \in Transfers : t = IdOf(k, s)
    BY <1>1, ReadKeepsOffers
  <1>3. NoNewOffer(wire', wire)
    BY <1>1, ReadKeepsOffers
  <1>4. FileDomains /\ session[d][t] \in Sessions(chunks[t])
    BY InvParts DEF Assumptions
  <1>5. CASE UNCHANGED <<session, temp>>
    BY <1>3, <1>5, NothingOwns
  <1>6. CASE Finish(d, t, "Failed")
    BY <1>3, <1>6, FinishOwns
  <1>7. ASSUME Receiving(d, t), NEW f,
               SetSession(d, t, [session[d][t] EXCEPT !.index = @ + 1,
                                                      !.hash = Append(@, f)]),
               temp' = [temp EXCEPT ![d][t] = Append(@, f)] \/ temp' = temp
        PROVE  OwnerInv'
    <2>1. session'[d][t] = [session[d][t] EXCEPT !.index = @ + 1, !.hash = Append(@, f)]
      BY <1>4, <1>7 DEF SetSession, FileDomains
    <2>2. /\ session'[d][t].direction = session[d][t].direction
          /\ session'[d][t].state = session[d][t].state
          /\ session'[d][t].hasTemp = session[d][t].hasTemp
      BY <1>4, <2>1 DEF Sessions
    <2>3. TempIsOwned(d, t)'
      BY <1>7, <2>2 DEF OwnerInv, TempIsOwned, Receiving
    <2>4. AtMostOnePlace(session', session, d, t) /\ AtMostOnePlace(temp', temp, d, t)
      BY <1>7 DEF SetSession, AtMostOnePlace
    <2>5. QED
      BY <1>3, <2>2, <2>3, <2>4, OneKeepsOwner
  <1>8. QED
    BY <1>2, <1>5, <1>6, <1>7 DEF ReceiveChunk

LEMMA ReceiveCompleteOwns ==
    ASSUME Assumptions, FileInv, OwnerInv,
           NEW d \in Devices, NEW k \in Conns, NEW s \in Sides, ReceiveComplete(d, k, s)
    PROVE  OwnerInv'
  <1>1. CanRead(d, k, s) /\ wire' = Consumed(k, s)
    BY DEF ReceiveComplete, Reads
  <1>2. PICK t \in Transfers : t = IdOf(k, s)
    BY <1>1, ReadKeepsOffers
  <1>3. NoNewOffer(wire', wire)
    BY <1>1, ReadKeepsOffers
  <1>4. FileDomains /\ session[d][t] \in Sessions(chunks[t]) /\ chunks[t] \in Nat
    BY InvParts DEF Assumptions
  <1>5. CASE UNCHANGED <<session, temp>>
    BY <1>3, <1>5, NothingOwns
  <1>6. CASE Finish(d, t, "Failed")
    BY <1>3, <1>6, FinishOwns
  <1>7. CASE /\ SetSession(d, t, [session[d][t] EXCEPT !.state = "Completed"])
             /\ temp' = [temp EXCEPT ![d][t] = NoFile]
    <2>1. session'[d][t] = [session[d][t] EXCEPT !.state = "Completed"]
      BY <1>4, <1>7 DEF SetSession, FileDomains
    <2>2. "Completed" \in TransferState
      BY DEF TransferState
    <2>3. /\ session'[d][t].direction = session[d][t].direction
          /\ session'[d][t].state = "Completed"
      BY <1>4, <2>1, <2>2, SetState
    <2>4. temp'[d][t] = NoFile
      BY <1>4, <1>7 DEF FileDomains
    <2>5. TempIsOwned(d, t)'
      BY <2>3, <2>4 DEF TempIsOwned, Receiving
    <2>6. AtMostOnePlace(session', session, d, t) /\ AtMostOnePlace(temp', temp, d, t)
      BY <1>7 DEF SetSession, AtMostOnePlace
    <2>7. QED
      BY <1>3, <2>3, <2>5, <2>6, OneKeepsOwner
  <1>8. QED
    BY <1>2, <1>5, <1>6, <1>7 DEF ReceiveComplete

LEMMA SocketOwns ==
    ASSUME Assumptions, FileInv, OwnerInv, Socket
    PROVE  OwnerInv'
  <1>1. NoNewOffer(wire', wire)
    BY SocketMoves, SocketOffersNothing DEF Assumptions
  <1>2. ASSUME NEW d \in Devices
        PROVE  \A u \in Transfers : session[d][u] \in Sessions(chunks[u])
    BY InvParts DEF Assumptions
  <1>3. ASSUME NEW d \in Devices, NEW e \in Devices, UserConnects(d, e)
        PROVE  OwnerInv'
    BY <1>2, <1>3, DialKeepsOwner DEF UserConnects
  <1>4. ASSUME NEW d \in Devices, FailActive(d, session[d])
        PROVE  OwnerInv'
    BY <1>1, <1>2, <1>4, LossKeepsOwner
  <1>5. CASE UNCHANGED <<session, temp>>
    BY <1>1, <1>5, NothingOwns
  <1>6. ASSUME NEW k \in Conns, PeerDisconnected(k)
        PROVE  OwnerInv'
    <2>1. listener[k] \in Devices
      BY <1>6 DEF PeerDisconnected, ServerClientDisconnected, FileInv, SocketInv,
                  RoutesAreSound
    <2>2. QED
      BY <1>4, <1>6, <2>1 DEF PeerDisconnected
  <1>7. QED
    BY <1>3, <1>4, <1>5, <1>6 DEF Socket, UserDisconnects, Disconnected, Connected,
                                  DialFailed, Accepted, Refused, fileVars

LEMMA OwnerInitial ==
    ASSUME Init
    PROVE  OwnerInv
  <1>1. \A d \in Devices, t \in Transfers : temp[d][t] = NoFile /\ session[d][t] = NoSession
    BY DEF Init
  <1>2. \A k \in Conns, s \in Sides : wire[k][s] = <<>>
    BY DEF Init, SocketInit
  <1>3. \A k \in Conns, s \in Sides, i \in Nat, t \in Transfers : ~OfferAt(wire, k, s, i, t)
    <2>1. Len(<<>>) = 0
      OBVIOUS
    <2>2. QED
      BY <1>2, <2>1 DEF OfferAt
  <1>4. QED
    BY <1>1, <1>3 DEF OwnerInv, TempIsOwned, Receiving, NoSession, OfferedOnce, OfferInFlight

LEMMA OwnerStep ==
    ASSUME Assumptions, FileInv, OwnerInv, OneConnection, EmptyIsRenamed, [Next]_vars
    PROVE  OwnerInv'
  <1>1. ASSUME NEW d \in Devices, NEW t \in Transfers, User(d, t) \/ ChunkTimer(d, t)
        PROVE  OwnerInv'
    BY <1>1, SendFileOwns, AcceptOwns, AbandonOwns, TimerOwns DEF User
  <1>2. ASSUME NEW d \in Devices, NEW k \in Conns, NEW s \in Sides, Receive(d, k, s)
        PROVE  OwnerInv'
    BY <1>2, ReceiveOfferOwns, ReceiveAcceptOwns, ReceiveEndOwns, ReceiveChunkOwns,
       ReceiveCompleteOwns DEF Receive
  <1>3. CASE UNCHANGED vars
    <2>1. UNCHANGED <<session, temp>> /\ wire' = wire
      BY <1>3 DEF vars, fileVars, socketVars
    <2>2. QED
      BY <2>1, SameWires, NothingOwns
  <1>4. QED
    BY <1>1, <1>2, <1>3, SocketOwns DEF Next

\* Every way a transfer can end removes its temporary file, and so does the
\* loss of the connection: with one connection at a time, where no offer comes
\* twice.  Of the faults of the disk only one leaves a file behind, the rename
\* of an empty file, whose outcome acceptTransfer does not look at.
\* (cleanupSession, file_transfer_controller.cpp:503-531)
THEOREM TempFilesAreOwned ==
    ASSUME OneConnection, EmptyIsRenamed
    PROVE  Spec => []TempFileHasOwner
  <1>1. Init => OwnerInv
    BY OwnerInitial
  <1>2. FileInv /\ OwnerInv /\ [Next]_vars => OwnerInv'
    BY OwnerStep, AssumptionsHold
  <1>3. OwnerInv => TempFileHasOwner
    BY DEF OwnerInv, TempIsOwned, TempFileHasOwner
  <1>4. QED
    BY <1>1, <1>2, <1>3, FileInvariant, PTL DEF Spec
==============================================================================
