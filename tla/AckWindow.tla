------------------------------ MODULE AckWindow ------------------------------
(***************************************************************************)
(* The acknowledgements of an RTMP connection, protocol/rtmp/core/conn.go: *)
(* after every message Conn.Read counts its bytes in two 32-bit counters   *)
(* and writes an acknowledgement once the other side's window is full.     *)
(* ChunkStream extends this module: it says which messages are read.       *)
(***************************************************************************)
EXTENDS Integers

CONSTANTS
    Mod,          \* 2^32
    High,         \* 0xf0000000
    Lengths,      \* lengths of messages; the wire has three bytes for one
    Windows,      \* windows the other side asks for
    FirstWindow   \* 2500000

\* A window and one message more stay below High.  Beyond it ack forgets bytes
\* nobody acknowledged.
ASSUME AckAssumption ==
    /\ Mod \in Nat \ {0} /\ High \in Nat /\ High <= Mod
    /\ Lengths \subseteq Nat
    /\ Windows \subseteq Nat
    /\ FirstWindow \in Windows
    /\ \A w \in Windows, n \in Lengths : w + n < High

VARIABLES
    received,             \* bytes read, modulo Mod
    ackReceived,          \* bytes read and not acknowledged
    remoteWindowAckSize,  \* the window
    total,                \* history: bytes read
    acknowledged          \* history: sum of the acknowledgements written

ackVars == <<received, ackReceived, remoteWindowAckSize, total, acknowledged>>

AckInit ==
    /\ received = 0
    /\ ackReceived = 0
    /\ remoteWindowAckSize = FirstWindow
    /\ total = 0
    /\ acknowledged = 0

\* All bytes read so far, as the connection counts them.
Current(n) == (received + n) % Mod

\* Bytes to acknowledge after a message of n bytes.  A counter that equals all
\* bytes read, because nothing was acknowledged, starts again above High.
Pending(n) ==
    LET pending == (ackReceived + n) % Mod
    IN  IF Current(n) >= High /\ pending = Current(n) THEN 0 ELSE pending

\* Faulty: the window that counts is the one before the message.
Due_Stale(pending, window) == pending >= remoteWindowAckSize

Due(pending, window) == pending >= window

\* Faulty: the message that fills the window is left out of the count.
Ack_Late(n, window) ==
    /\ received' = Current(n)
    /\ total' = total + n
    /\ IF Due(Pending(n), window)
         THEN /\ acknowledged' = acknowledged + ackReceived
              /\ ackReceived' = 0
         ELSE /\ ackReceived' = Pending(n)
              /\ UNCHANGED acknowledged

\* ack, with the window as it is by now.  That the acknowledgement may not be
\* written is left out: ack ignores it.
Ack(n, window) ==
    /\ received' = Current(n)
    /\ total' = total + n
    /\ IF Due(Pending(n), window)
         THEN /\ acknowledged' = acknowledged + Pending(n)
              /\ ackReceived' = 0
         ELSE /\ ackReceived' = Pending(n)
              /\ UNCHANGED acknowledged

\* The end of Read: handleControlMsg, which may set the window, and then ack.
ReadEnd(n, window) ==
    /\ remoteWindowAckSize' = window
    /\ Ack(n, window)

AckNext ==
    \E n \in Lengths, window \in Windows \cup {remoteWindowAckSize} : ReadEnd(n, window)

AckSpec == AckInit /\ [][AckNext]_ackVars

-----------------------------------------------------------------------------
(* Properties *)

AckTypeOK ==
    /\ received \in 0..(Mod - 1)
    /\ ackReceived \in 0..(Mod - 1)
    /\ remoteWindowAckSize \in Windows
    /\ total \in Nat
    /\ acknowledged \in Nat

\* The acknowledgements account for every byte that was read, once, also when
\* the 32-bit counters wrap around (ack).
AllAccounted == acknowledged + ackReceived = total

\* Of the messages read, fewer bytes than the window the other side asked for last are in
\* no acknowledgement that was written, also when the window came with the last of them
\* and when the counters have wrapped around (Read, handleControlMsg, ack).  Chunk headers
\* are not counted, and written means to the buffer: an acknowledgement reaches the other
\* side with the next flush.
AckInTime ==
    total = acknowledged \/ total - acknowledged < remoteWindowAckSize
=============================================================================
