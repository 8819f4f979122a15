------------------------------ MODULE LossyFifo ------------------------------
(***************************************************************************)
(* What a packet writer promises its user: a bounded first-in first-out    *)
(* buffer that never blocks the side that writes.  Packets are numbered in *)
(* the order in which they are accepted.  The buffer may lose its oldest   *)
(* packet while it is open, never another one, and once closed it loses    *)
(* nothing and accepts nothing: what it still holds can be taken out.      *)
(***************************************************************************)
EXTENDS Integers, Sequences

CONSTANT Cap  \* capacity of the buffer

VARIABLES accepted,   \* number of packets accepted so far
          buf,        \* the packets held, oldest first
          delivered,  \* the packets taken out, in order
          closed      \* no more packets are accepted

vars == <<accepted, buf, delivered, closed>>

Init ==
    /\ accepted = 0
    /\ buf = <<>>
    /\ delivered = <<>>
    /\ closed = FALSE

Put ==
    /\ ~closed
    /\ Len(buf) < Cap
    /\ accepted' = accepted + 1
    /\ buf' = Append(buf, accepted + 1)
    /\ UNCHANGED <<delivered, closed>>

Lose ==
    /\ ~closed
    /\ buf # <<>>
    /\ buf' = Tail(buf)
    /\ UNCHANGED <<accepted, delivered, closed>>

Get ==
    /\ buf # <<>>
    /\ buf' = Tail(buf)
    /\ delivered' = Append(delivered, Head(buf))
    /\ UNCHANGED <<accepted, closed>>

Close ==
    /\ ~closed
    /\ closed' = TRUE
    /\ UNCHANGED <<accepted, buf, delivered>>

Next == Put \/ Lose \/ Get \/ Close

Spec == Init /\ [][Next]_vars
=============================================================================
