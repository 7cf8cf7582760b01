---------------------------- MODULE HttpDelivery ----------------------------
(***************************************************************************)
(* What a connection promises to the user of its receiving end: the        *)
(* contents that the peer's messages carry are handed over at most once,   *)
(* whole, in order and to the one they are for; and every one of them,     *)
(* unless the connection is dropped.  A content is a pair of what it is    *)
(* for and a packet.                                                       *)
(***************************************************************************)
EXTENDS Naturals, Sequences

CONSTANT Contents       \* the sequences of contents that a message may carry

VARIABLES promised,     \* the contents of the messages sent so far
          delivered,    \* the contents handed over
          up            \* whether the connection is served

vars == <<promised, delivered, up>>

Init == /\ promised = <<>>
        /\ delivered = <<>>
        /\ up = TRUE

Send == /\ \E c \in Contents : promised' = promised \o c
        /\ UNCHANGED <<delivered, up>>

Deliver == /\ up
           /\ Len(delivered) < Len(promised)
           /\ delivered' = Append(delivered, promised[Len(delivered) + 1])
           /\ UNCHANGED <<promised, up>>

Drop == /\ up
        /\ up' = FALSE
        /\ UNCHANGED <<promised, delivered>>

Next == Send \/ Deliver \/ Drop

\* What is delivered is right; and everything is.
SafeSpec == Init /\ [][Next]_vars
Spec     == SafeSpec /\ WF_vars(Deliver)
=============================================================================
