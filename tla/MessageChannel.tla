--------------------------- MODULE MessageChannel ---------------------------
(***************************************************************************)
(* What the network path promises connect_and_monitor: within a connection *)
(* the messages come whole, unchanged and in the order they were meant,    *)
(* none is skipped, and nothing of an earlier connection comes after.      *)
(* Something that is no message is never delivered, nor what follows it.   *)
(***************************************************************************)
EXTENDS Sequences, Naturals

CONSTANTS
    Garbage,  \* what the peer says when it says no message
    Closing   \* the messages that close the connection

VARIABLES
    open,      \* whether there is a connection
    meant,     \* what the peer has said on it
    received   \* what has been delivered on it

vars == <<open, meant, received>>

Init == open = FALSE /\ meant = <<>> /\ received = <<>>

Open == ~open /\ open' = TRUE /\ meant' = <<>> /\ received' = <<>>

Say ==
    /\ open /\ UNCHANGED <<open, received>>
    /\ Len(meant') = Len(meant) + 1 /\ SubSeq(meant', 1, Len(meant)) = meant

Deliver ==
    LET m == meant[Len(received) + 1] IN
    /\ open /\ Len(received) < Len(meant)
    /\ m # Garbage
    /\ received' = Append(received, m)
    /\ open' = (m \notin Closing)
    /\ UNCHANGED meant

Close == open /\ open' = FALSE /\ UNCHANGED <<meant, received>>

Next == Open \/ Say \/ Deliver \/ Close

Spec == Init /\ [][Next]_vars
=============================================================================
