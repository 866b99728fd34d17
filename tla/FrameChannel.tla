----------------------------- MODULE FrameChannel -----------------------------
(***************************************************************************)
(* What a byte stream promises to the code above it, and what P2PSocket    *)
(* and MqttSignaling assume of the connections they model: frames arrive   *)
(* whole and in the order in which they were accepted, none is repeated,   *)
(* none is invented.  A stream that was damaged may lose frames, and keeps *)
(* the rest of the promise.                                                *)
(***************************************************************************)
EXTENDS Integers, SequencesExt

CONSTANT Frames

VARIABLES
    sent,      \* the frames the connection accepted
    received,  \* the frames it delivered
    lossy      \* frames may be missing from now on

channelVars == <<sent, received, lossy>>

\* Ways to pick n of the elements of a sequence of length m, in their order.
Picks(n, m) ==
    {pick \in [1 .. n -> 1 .. m] : \A i \in 2 .. n : pick[i - 1] < pick[i]}

\* What is left of sequence s when some of its elements are dropped.
Selections(s) ==
    UNION {{[i \in 1 .. n |-> s[pick[i]]] : pick \in Picks(n, Len(s))} : n \in 0 .. Len(s)}

Init == sent = <<>> /\ received = <<>> /\ lossy = FALSE

Accept(f) ==
    /\ sent' = Append(sent, f)
    /\ UNCHANGED <<received, lossy>>

\* One read may complete several frames.
Deliver ==
    /\ \E r \in Selections(sent) :
          /\ IsStrictPrefix(received, r)
          /\ ~lossy => IsPrefix(r, sent)
          /\ received' = r
    /\ UNCHANGED <<sent, lossy>>

Damage ==
    /\ lossy' = TRUE
    /\ UNCHANGED <<sent, received>>

\* A new connection has nothing of the one before.
Reconnect == sent' = <<>> /\ received' = <<>> /\ lossy' = FALSE

Next == (\E f \in Frames : Accept(f)) \/ Deliver \/ Damage \/ Reconnect

Spec == Init /\ [][Next]_channelVars
=============================================================================
