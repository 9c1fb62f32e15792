--------------------------- MODULE PacketTransfer ---------------------------
(***************************************************************************)
(* What an upload request promises: the server takes the packets 1 .. last *)
(* of the upload, each one once and in this order, and gets to the last    *)
(* one, unless the connection breaks.                                      *)
(***************************************************************************)
EXTENDS Naturals, Sequences

VARIABLES
    last,      \* the packet after which the server stops: it never changes
    received,  \* the packets the server has taken, in the order it took them
    broken     \* nothing more is promised

vars == <<last, received, broken>>

Init == last \in Nat \ {0} /\ received = << >> /\ broken = FALSE

Receive == /\ ~broken
           /\ Len(received) < last
           /\ received' = Append(received, Len(received) + 1)
           /\ UNCHANGED <<last, broken>>

Break == ~broken /\ broken' = TRUE /\ received' = << >> /\ UNCHANGED last

Next == Receive \/ Break

\* What may happen, and what must.
Steps    == Init /\ [][Next]_vars
Progress == WF_vars(Receive)

Spec == Steps /\ Progress
=============================================================================
