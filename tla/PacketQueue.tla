----------------------------- MODULE PacketQueue -----------------------------
(***************************************************************************)
(* The packet queue that rtmp.Writer, httpflv.HttpFlvWriter and hls.Source *)
(* all keep between the goroutine that publishes (Write) and the goroutine *)
(* that sends (SendPacket): a buffered Go channel, a closed flag and a     *)
(* mutex.  Write never blocks on a slow receiver: it drops old packets.    *)
(*                                                                         *)
(* The mutex orders Write and Close; the receive of SendPacket takes no    *)
(* lock, so it interleaves with every step of Write and of DropNPacket.    *)
(***************************************************************************)
EXTENDS Integers, Sequences

CONSTANTS Producers,   \* goroutines that call Write
          Closers,     \* goroutines, other than the sender's, that call Close
          Cap,         \* maxQueueNum: capacity of packetQueue
          DropNum,     \* av.DropDefaultNum
          MaxPackets   \* bound on the packets accepted in a behaviour

ASSUME QueueAssumption ==
    /\ Cap \in Nat \ {0}
    /\ DropNum \in Nat \ {0}
    /\ MaxPackets \in Nat

Free == "free"

ASSUME NamesAssumption == Free \notin Producers

VARIABLES
    packetQueue,  \* the contents of the Go channel, oldest first
    closed,       \* w.closed; the Go channel is closed in the same section
    mu,           \* holder of w.mu, or Free
    pc,           \* producer: "idle", "try" (the select of Write), "drop"
    n,            \* producer: packets received by the running DropNPacket
    sender,       \* SendPacket: "recv", "send", "close" (deferred), "done"
    accepted,     \* history: number of packets enqueued
    delivered,    \* history: packets received by SendPacket, in order
    lost          \* history: packets dropped by the Write in progress

vars == <<packetQueue, closed, mu, pc, n, sender, accepted, delivered, lost>>

Init ==
    /\ packetQueue = <<>>
    /\ closed = FALSE
    /\ mu = Free
    /\ pc = [p \in Producers |-> "idle"]
    /\ n = [p \in Producers |-> 0]
    /\ sender = "recv"
    /\ accepted = 0
    /\ delivered = <<>>
    /\ lost = 0

-----------------------------------------------------------------------------
(* Write *)

\* w.mu.Lock(); if w.closed, unlock and return av.ErrClosed.
WriteEnter(p) ==
    /\ pc[p] = "idle"
    /\ mu = Free
    /\ accepted < MaxPackets
    /\ IF closed
         THEN UNCHANGED <<mu, pc, lost>>
         ELSE /\ mu' = p
              /\ pc' = [pc EXCEPT ![p] = "try"]
              /\ lost' = 0
    /\ UNCHANGED <<packetQueue, closed, n, sender, accepted, delivered>>

\* case w.packetQueue <- p: the packet is enqueued, Write unlocks and returns.
WriteEnqueue(p) ==
    /\ pc[p] = "try"
    /\ Len(packetQueue) < Cap
    /\ packetQueue' = Append(packetQueue, accepted + 1)
    /\ accepted' = accepted + 1
    /\ pc' = [pc EXCEPT ![p] = "idle"]
    /\ mu' = Free
    /\ UNCHANGED <<closed, n, sender, delivered, lost>>

\* default: the queue is full, DropPacket is called.
WriteFull(p) ==
    /\ pc[p] = "try"
    /\ Len(packetQueue) >= Cap
    /\ pc' = [pc EXCEPT ![p] = "drop"]
    /\ n' = [n EXCEPT ![p] = 0]
    /\ UNCHANGED <<packetQueue, closed, mu, sender, accepted, delivered, lost>>

\* A turn of a DropNPacket that leaves `rest`, counts to `count`, and returns
\* when `last` holds.
DropTurn(p, rest, count, last) ==
    /\ pc[p] = "drop"
    /\ packetQueue # <<>>
    /\ packetQueue' = rest
    /\ n' = [n EXCEPT ![p] = count]
    /\ lost' = lost + 1
    /\ pc' = [pc EXCEPT ![p] = IF last THEN "try" ELSE "drop"]
    /\ UNCHANGED <<closed, mu, sender, accepted, delivered>>

\* Faulty: n is compared before it is increased.
DropReceive_OneMore(p) ==
    DropTurn(p, Tail(packetQueue), n[p] + 1, n[p] = DropNum)

\* Faulty: the newest packet is dropped.
DropReceive_Newest(p) ==
    DropTurn(p, SubSeq(packetQueue, 1, Len(packetQueue) - 1), n[p] + 1,
             n[p] + 1 = DropNum)

\* One turn of DropNPacket: receive and count, return when n = dn.
DropReceive(p) ==
    /\ pc[p] = "drop"
    /\ packetQueue # <<>>
    /\ packetQueue' = Tail(packetQueue)
    /\ n' = [n EXCEPT ![p] = @ + 1]
    /\ lost' = lost + 1
    /\ pc' = [pc EXCEPT ![p] = IF n[p] + 1 = DropNum THEN "try" ELSE "drop"]
    /\ UNCHANGED <<closed, mu, sender, accepted, delivered>>

\* Faulty: the select of DropNPacket has no default branch.
DropEmpty_Waits(p) ==
    /\ pc[p] = "drop"
    /\ packetQueue = <<>>
    /\ UNCHANGED vars

\* DropNPacket finds the queue empty and returns to the loop of Write.
DropEmpty(p) ==
    /\ pc[p] = "drop"
    /\ packetQueue = <<>>
    /\ pc' = [pc EXCEPT ![p] = "try"]
    /\ UNCHANGED <<packetQueue, closed, mu, n, sender, accepted, delivered, lost>>

-----------------------------------------------------------------------------
(* Close: the whole critical section; a second call returns av.ErrClosed. *)
\* Faulty: Close takes no lock.
CloseQueue_NoLock == closed' = TRUE

CloseQueue ==
    /\ mu = Free
    /\ closed' = TRUE

Close(c) ==
    /\ CloseQueue
    /\ UNCHANGED <<packetQueue, mu, pc, n, sender, accepted, delivered, lost>>

-----------------------------------------------------------------------------
(* SendPacket and the deferred Close of the goroutine that runs it *)

Receive ==
    /\ sender = "recv"
    /\ packetQueue # <<>>
    /\ packetQueue' = Tail(packetQueue)
    /\ delivered' = Append(delivered, Head(packetQueue))
    /\ sender' = "send"
    /\ UNCHANGED <<closed, mu, pc, n, accepted, lost>>

\* conn.Write and Flush, or the FLV tag, or the demux and mux of the HLS
\* source, succeed: the loop goes on.
Sent ==
    /\ sender = "send"
    /\ sender' = "recv"
    /\ UNCHANGED <<packetQueue, closed, mu, pc, n, accepted, delivered, lost>>

\* ... or fail: SendPacket returns the error.
SendFailed ==
    /\ sender = "send"
    /\ sender' = "close"
    /\ UNCHANGED <<packetQueue, closed, mu, pc, n, accepted, delivered, lost>>

\* Faulty: `ok` is not looked at.
ReceiveClosed_Loops ==
    /\ sender = "recv"
    /\ packetQueue = <<>>
    /\ closed
    /\ UNCHANGED vars

\* case p, ok := <-w.packetQueue with !ok: closed and drained.
ReceiveClosed ==
    /\ sender = "recv"
    /\ packetQueue = <<>>
    /\ closed
    /\ sender' = "close"
    /\ UNCHANGED <<packetQueue, closed, mu, pc, n, accepted, delivered, lost>>

\* case <-ctx.Done()
Cancelled ==
    /\ sender = "recv"
    /\ sender' = "close"
    /\ UNCHANGED <<packetQueue, closed, mu, pc, n, accepted, delivered, lost>>

SenderClose ==
    /\ sender = "close"
    /\ CloseQueue
    /\ sender' = "done"
    /\ UNCHANGED <<packetQueue, mu, pc, n, accepted, delivered, lost>>

-----------------------------------------------------------------------------
Write(p) ==
    \/ WriteEnter(p)
    \/ WriteEnqueue(p)
    \/ WriteFull(p)
    \/ DropReceive(p)
    \/ DropEmpty(p)

\* A turn of SendPacket that no context ends.
SendTurn == Receive \/ Sent \/ SendFailed \/ ReceiveClosed

SendPacket == SendTurn \/ Cancelled

Next ==
    \/ \E p \in Producers : Write(p)
    \/ \E c \in Closers : Close(c)
    \/ SendPacket
    \/ SenderClose

\* A goroutine that can take a step is scheduled: a receive that is ready is taken,
\* and the producer finishes a Write it has begun.  Nothing obliges anyone to call
\* Write or Close, or a context to be done.
Fairness ==
    /\ \A p \in Producers :
         WF_vars(WriteEnqueue(p) \/ WriteFull(p) \/ DropReceive(p) \/ DropEmpty(p))
    /\ WF_vars(SendTurn)
    /\ SF_vars(SenderClose)

Spec == Init /\ [][Next]_vars

FairSpec == Spec /\ Fairness

-----------------------------------------------------------------------------
(* Properties *)

TypeOK ==
    /\ packetQueue \in Seq(Nat)
    /\ closed \in BOOLEAN
    /\ mu \in Producers \cup {Free}
    /\ pc \in [Producers -> {"idle", "try", "drop"}]
    /\ n \in [Producers -> Nat]
    /\ sender \in {"recv", "send", "close", "done"}
    /\ accepted \in Nat
    /\ delivered \in Seq(Nat)
    /\ lost \in Nat

\* No goroutine is inside the select of Write, or in DropNPacket, once the Go
\* channel is closed: a send on a closed channel would panic the server.
NoSendOnClosed == \A p \in Producers : pc[p] # "idle" => ~closed

\* The queue is always the run of the newest accepted packets, without a hole:
\* whoever removes packets, the receiver or the drop loop, takes the oldest.
QueueIsNewestRun ==
    /\ Len(packetQueue) <= Cap
    /\ \A i \in 1..Len(packetQueue) :
         packetQueue[i] = accepted - Len(packetQueue) + i

\* What the receiver has got is in the order of acceptance, without a repeat,
\* and older than everything still queued.
DeliveredInOrder ==
    /\ \A i, j \in 1..Len(delivered) : i < j => delivered[i] < delivered[j]
    /\ \A i \in 1..Len(delivered) :
         delivered[i] <= accepted - Len(packetQueue)

\* One call of Write drops at most DropNum packets, however the receiver
\* interleaves with it: after one DropPacket the next send finds room.
LossPerWrite == lost <= DropNum

\* A Write that has taken the mutex returns, even if nobody receives.
WriteReturns == \A p \in Producers : (pc[p] # "idle") ~> (pc[p] = "idle")

\* After Close the goroutine that sends drains the queue and ends.
ClosedSenderEnds == closed ~> (sender = "done")

\* The holder of w.mu is the producer inside Write.
LockInv == \A p \in Producers : pc[p] # "idle" <=> mu = p

\* Inside Write, either nothing was dropped yet or there is room.
DropInv ==
    \A p \in Producers :
      /\ pc[p] = "try" => lost = 0 \/ Len(packetQueue) < Cap
      /\ pc[p] = "drop" =>
           /\ lost = n[p]
           /\ n[p] < DropNum
           /\ n[p] = 0 \/ Len(packetQueue) < Cap

\* The inductive invariant behind the properties above.
IndInv ==
    /\ TypeOK
    /\ LockInv
    /\ NoSendOnClosed
    /\ Len(packetQueue) <= accepted
    /\ QueueIsNewestRun
    /\ DeliveredInOrder
    /\ LossPerWrite
    /\ DropInv

\* The writer implements the lossy first-in first-out buffer.
Fifo == INSTANCE LossyFifo WITH buf <- packetQueue

FifoSpec == Fifo!Spec
=============================================================================
