---------------------------- MODULE MessageDelivery ----------------------------
(***************************************************************************)
(* What the chat promises about one message after another, with no         *)
(* sockets, frames or timers: a message that was put on a connection may   *)
(* be shown at any time; only one that was shown is reported delivered,    *)
(* only one that was read is reported read; giving up on a message is not  *)
(* final, and a message that found no connection is never shown.           *)
(***************************************************************************)
CONSTANT Messages

VARIABLES
    status,  \* what the sender displays
    wired,   \* messages put on a connection
    seen,    \* messages shown by some device
    read     \* messages somebody has marked as read

delivery == <<status, wired, seen, read>>

Init ==
    /\ status = [m \in Messages |-> "New"]
    /\ wired = {} /\ seen = {} /\ read = {}

Submit(m) ==
    /\ status[m] = "New"
    /\ \/ /\ status' = [status EXCEPT ![m] = "Sent"]
          /\ wired' = wired \cup {m}
       \/ /\ status' = [status EXCEPT ![m] = "Pending"]
          /\ UNCHANGED wired
    /\ UNCHANGED <<seen, read>>

Show(m) ==
    /\ m \in wired
    /\ seen' = seen \cup {m}
    /\ UNCHANGED <<status, wired, read>>

MarkRead(m) ==
    /\ m \in seen
    /\ read' = read \cup {m}
    /\ UNCHANGED <<status, wired, seen>>

GiveUp(m) ==
    /\ status[m] \in {"Sent", "Pending"}
    /\ status' = [status EXCEPT ![m] = "Failed"]
    /\ UNCHANGED <<wired, seen, read>>

Confirm(m) ==
    /\ status[m] # "New" /\ status[m] # "Pending"
    /\ \/ m \in seen /\ status' = [status EXCEPT ![m] = "Delivered"]
       \/ m \in read /\ status' = [status EXCEPT ![m] = "Read"]
    /\ UNCHANGED <<wired, seen, read>>

Next == \E m \in Messages : \/ Submit(m) \/ Show(m) \/ MarkRead(m)
                            \/ GiveUp(m) \/ Confirm(m)

Spec == Init /\ [][Next]_delivery
=============================================================================
