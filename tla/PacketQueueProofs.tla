-------------------------- MODULE PacketQueueProofs --------------------------
(***************************************************************************)
(* Proofs about the packet queue of the writers, for every capacity, drop  *)
(* count and set of goroutines.                                            *)
(***************************************************************************)
EXTENDS PacketQueue, TLAPS

\* What removing the head of a sequence of numbers leaves behind.
LEMMA TailFacts ==
    ASSUME NEW s \in Seq(Nat), s # <<>>
    PROVE  /\ Tail(s) \in Seq(Nat)
           /\ Len(s) \in Nat /\ Len(s) > 0
           /\ Len(Tail(s)) = Len(s) - 1
           /\ \A i \in 1..Len(Tail(s)) : Tail(s)[i] = s[i + 1]
           /\ Head(s) = s[1]
           /\ Head(s) \in Nat
OBVIOUS

\* What appending a number to a sequence of numbers gives.
LEMMA AppendFacts ==
    ASSUME NEW s \in Seq(Nat), NEW e \in Nat
    PROVE  /\ Append(s, e) \in Seq(Nat)
           /\ Len(s) \in Nat
           /\ Len(Append(s, e)) = Len(s) + 1
           /\ \A i \in 1..Len(s) : Append(s, e)[i] = s[i]
           /\ Append(s, e)[Len(s) + 1] = e
OBVIOUS

\* A new writer satisfies the inductive invariant.
LEMMA InitIndInv == Init => IndInv
  <1> SUFFICES ASSUME Init PROVE IndInv
    OBVIOUS
  <1> USE QueueAssumption, NamesAssumption DEF Init
  <1>1. TypeOK
    <2>1. packetQueue \in Seq(Nat) /\ delivered \in Seq(Nat)
      OBVIOUS
    <2>2. closed \in BOOLEAN /\ accepted \in Nat /\ lost \in Nat
      OBVIOUS
    <2>3. mu \in Producers \cup {Free}
      OBVIOUS
    <2>4. pc \in [Producers -> {"idle", "try", "drop"}]
      OBVIOUS
    <2>5. n \in [Producers -> Nat] /\ sender \in {"recv", "send", "close", "done"}
      OBVIOUS
    <2> QED BY <2>1, <2>2, <2>3, <2>4, <2>5 DEF TypeOK
  <1>4. LockInv /\ NoSendOnClosed
    BY DEF LockInv, NoSendOnClosed
  <1>2. /\ Len(packetQueue) <= accepted
        /\ QueueIsNewestRun /\ DeliveredInOrder
    BY DEF QueueIsNewestRun, DeliveredInOrder
  <1>3. LossPerWrite /\ DropInv
    BY DEF LossPerWrite, DropInv
  <1> QED BY <1>1, <1>2, <1>3, <1>4 DEF IndInv

\* Every step of Write, DropNPacket, Close and SendPacket keeps it.
LEMMA StepIndInv == IndInv /\ [Next]_vars => IndInv'
  <1> SUFFICES ASSUME IndInv, [Next]_vars
               PROVE  IndInv'
    OBVIOUS
  <1> USE QueueAssumption, NamesAssumption
  <1> USE DEF IndInv, TypeOK, LockInv, NoSendOnClosed, QueueIsNewestRun,
              DeliveredInOrder, LossPerWrite, DropInv
  <1>1. ASSUME NEW p \in Producers, WriteEnter(p) PROVE IndInv'
    <2>1. CASE closed
      BY <1>1, <2>1 DEF WriteEnter
    <2>2. CASE ~closed
      <3>1. /\ mu' = p /\ pc' = [pc EXCEPT ![p] = "try"] /\ lost' = 0
            /\ \A x \in Producers : pc[x] = "idle"
            /\ UNCHANGED <<packetQueue, closed, n, sender, accepted, delivered>>
        BY <1>1, <2>2 DEF WriteEnter
      <3>2. TypeOK'
        BY <3>1
      <3>3. LockInv' /\ NoSendOnClosed'
        BY <2>2, <3>1
      <3>4. LossPerWrite' /\ DropInv'
        BY <3>1
      <3>5. /\ QueueIsNewestRun' /\ (Len(packetQueue) <= accepted)'
            /\ DeliveredInOrder'
        BY <3>1
      <3> QED BY <3>2, <3>3, <3>4, <3>5
    <2> QED BY <2>1, <2>2
  <1>2. ASSUME NEW p \in Producers, WriteEnqueue(p) PROVE IndInv'
    <2> DEFINE q == packetQueue
               m == accepted + 1
    <2>1. /\ q' \in Seq(Nat)
          /\ Len(q') = Len(q) + 1
          /\ \A i \in 1..Len(q) : q'[i] = q[i]
          /\ q'[Len(q) + 1] = m
      BY <1>2, AppendFacts DEF WriteEnqueue
    <2>2. TypeOK' /\ LockInv' /\ NoSendOnClosed' /\ LossPerWrite' /\ DropInv'
      BY <1>2, <2>1 DEF WriteEnqueue
    <2>3. QueueIsNewestRun' /\ (Len(packetQueue) <= accepted)'
      <3>1. /\ accepted' = m /\ Len(q) < Cap /\ Len(q) \in Nat
            /\ \A i \in 1..Len(q) : q[i] = accepted - Len(q) + i
        BY <1>2 DEF WriteEnqueue
      <3>2. ASSUME NEW i \in 1..Len(q')
            PROVE  q'[i] = accepted' - Len(q') + i
        <4>1. CASE i \in 1..Len(q)
          BY <2>1, <3>1, <4>1
        <4>2. CASE i = Len(q) + 1
          BY <2>1, <3>1, <4>2
        <4> QED BY <2>1, <3>1, <4>1, <4>2
      <3> QED BY <2>1, <3>1, <3>2
    <2>4. DeliveredInOrder'
      BY <1>2, <2>1 DEF WriteEnqueue
    <2> QED BY <2>2, <2>3, <2>4
  <1>3. ASSUME NEW p \in Producers, WriteFull(p) PROVE IndInv'
    BY <1>3 DEF WriteFull
  <1>4. ASSUME NEW p \in Producers, DropReceive(p) PROVE IndInv'
    <2>1. /\ packetQueue' \in Seq(Nat)
          /\ Len(packetQueue) > 0
          /\ Len(packetQueue') = Len(packetQueue) - 1
          /\ \A i \in 1..Len(packetQueue') : packetQueue'[i] = packetQueue[i + 1]
      BY <1>4, TailFacts DEF DropReceive
    <2>2. TypeOK' /\ LockInv' /\ NoSendOnClosed'
      <3>1. /\ n' = [n EXCEPT ![p] = n[p] + 1] /\ lost' = lost + 1
            /\ \E l \in {"try", "drop"} : pc' = [pc EXCEPT ![p] = l]
            /\ pc[p] = "drop"
            /\ UNCHANGED <<closed, mu, sender, accepted, delivered>>
        BY <1>4 DEF DropReceive
      <3>2. TypeOK'
        <4>1. /\ n' \in [Producers -> Nat]
              /\ pc' \in [Producers -> {"idle", "try", "drop"}]
          BY <3>1
        <4>2. lost' \in Nat
          BY <3>1
        <4> QED BY <2>1, <3>1, <4>1, <4>2
      <3>3. LockInv' /\ NoSendOnClosed'
        BY <3>1
      <3> QED BY <3>2, <3>3
    <2>3. LossPerWrite' /\ DropInv'
      <3>1. /\ lost = n[p] /\ n[p] \in Nat /\ n[p] < DropNum /\ n'[p] = n[p] + 1
            /\ lost' = lost + 1
        BY <1>4 DEF DropReceive
      <3>2. LossPerWrite'
        BY <3>1
      <3>3. \A x \in Producers : x # p => pc'[x] = "idle"
        BY <1>4 DEF DropReceive
      <3>4. Len(packetQueue') < Cap
        BY <2>1
      <3>5. DropInv'
        BY <1>4, <3>1, <3>3, <3>4 DEF DropReceive
      <3> QED BY <3>2, <3>5
    <2>4. QueueIsNewestRun' /\ (Len(packetQueue) <= accepted)'
      BY <1>4, <2>1 DEF DropReceive
    <2>5. DeliveredInOrder'
      <3>1. accepted' = accepted /\ delivered' = delivered
        BY <1>4 DEF DropReceive
      <3>2. ASSUME NEW i \in 1..Len(delivered)
            PROVE  delivered[i] <= accepted - Len(packetQueue')
        <4>1. delivered[i] \in Nat /\ delivered[i] <= accepted - Len(packetQueue)
          OBVIOUS
        <4>2. accepted \in Nat /\ Len(packetQueue) \in Nat
          OBVIOUS
        <4> HIDE DEF IndInv
        <4> QED BY <2>1, <4>1, <4>2
      <3> QED BY <3>1, <3>2
    <2> QED BY <2>2, <2>3, <2>4, <2>5
  <1>5. ASSUME NEW p \in Producers, DropEmpty(p) PROVE IndInv'
    BY <1>5 DEF DropEmpty
  <1>6. ASSUME NEW c \in Closers, Close(c) PROVE IndInv'
    BY <1>6 DEF Close, CloseQueue
  <1>7. CASE Receive
    <2> DEFINE h == Head(packetQueue)
    <2>1. /\ packetQueue' \in Seq(Nat)
          /\ Len(packetQueue) > 0
          /\ Len(packetQueue') = Len(packetQueue) - 1
          /\ \A i \in 1..Len(packetQueue') : packetQueue'[i] = packetQueue[i + 1]
          /\ h \in Nat
          /\ h = packetQueue[1]
      BY <1>7, TailFacts DEF Receive
    <2>2. /\ delivered' \in Seq(Nat)
          /\ Len(delivered') = Len(delivered) + 1
          /\ \A i \in 1..Len(delivered) : delivered'[i] = delivered[i]
          /\ delivered'[Len(delivered) + 1] = h
      BY <1>7, <2>1, AppendFacts DEF Receive
    <2>3. TypeOK' /\ LockInv' /\ NoSendOnClosed' /\ LossPerWrite' /\ DropInv'
      BY <1>7, <2>1, <2>2 DEF Receive
    <2>4. QueueIsNewestRun' /\ (Len(packetQueue) <= accepted)'
      BY <1>7, <2>1 DEF Receive
    <2>5. h = accepted - Len(packetQueue) + 1
      BY <2>1
    <2>6. DeliveredInOrder'
      <3>1. accepted' = accepted
        BY <1>7 DEF Receive
      <3>2. ASSUME NEW i \in 1..Len(delivered)
            PROVE  delivered[i] \in Nat /\ delivered[i] < h
        <4>1. delivered[i] \in Nat /\ delivered[i] <= accepted - Len(packetQueue)
          OBVIOUS
        <4>2. accepted \in Nat /\ Len(packetQueue) \in Nat
          OBVIOUS
        <4> HIDE DEF IndInv
        <4> QED BY <2>5, <4>1, <4>2
      <3>3. h <= accepted' - Len(packetQueue')
        BY <2>1, <2>5, <3>1
      <3>4. Len(delivered) \in Nat
        OBVIOUS
      <3>5. \A i \in 1..Len(delivered') : i \in 1..Len(delivered) \/ i = Len(delivered) + 1
        BY <2>2, <3>4
      <3>6. ASSUME NEW i \in 1..Len(delivered'), NEW j \in 1..Len(delivered'), i < j
            PROVE  delivered'[i] < delivered'[j]
        <4>1. i \in 1..Len(delivered)
          BY <2>2, <3>4, <3>6
        <4> QED BY <2>2, <3>2, <3>5, <3>6, <4>1
      <3>7. ASSUME NEW i \in 1..Len(delivered')
            PROVE  delivered'[i] <= accepted' - Len(packetQueue')
        <4>1. CASE i \in 1..Len(delivered)
          <5>1. delivered'[i] = delivered[i] /\ delivered[i] \in Nat
            BY <2>2, <3>2, <4>1
          <5>2. delivered[i] < h
            BY <3>2, <4>1
          <5>3. accepted' - Len(packetQueue') \in Int
            BY <2>1, <3>1
          <5> HIDE DEF IndInv
          <5> QED BY <2>1, <3>3, <5>1, <5>2, <5>3
        <4>2. CASE i = Len(delivered) + 1
          BY <2>2, <3>3, <4>2
        <4> QED BY <3>5, <4>1, <4>2
      <3> QED BY <3>6, <3>7
    <2> QED BY <2>3, <2>4, <2>6
  <1>8. CASE Sent
    BY <1>8 DEF Sent
  <1>9. CASE SendFailed
    BY <1>9 DEF SendFailed
  <1>10. CASE ReceiveClosed
    BY <1>10 DEF ReceiveClosed
  <1>11. CASE Cancelled
    BY <1>11 DEF Cancelled
  <1>12. CASE SenderClose
    BY <1>12 DEF SenderClose, CloseQueue
  <1>13. CASE UNCHANGED vars
    BY <1>13 DEF vars
  <1> QED
    BY <1>1, <1>2, <1>3, <1>4, <1>5, <1>6, <1>7, <1>8, <1>9, <1>10, <1>11,
       <1>12, <1>13
    DEF Next, Write, SendPacket, SendTurn

\* The inductive invariant holds in every state of every behaviour.
THEOREM QueueInvariant == Spec => []IndInv
  BY InitIndInv, StepIndInv, PTL DEF Spec

\* rtmp.Writer, HttpFlvWriter and hls.Source never send on a closed channel.
THEOREM NeverSendOnClosed == Spec => []NoSendOnClosed
  BY QueueInvariant, PTL DEF IndInv

\* The queue is at all times the newest run of accepted packets, within Cap.
THEOREM QueueHoldsNewestRun == Spec => []QueueIsNewestRun
  BY QueueInvariant, PTL DEF IndInv

\* SendPacket sees packets in the order of Write, each at most once.
THEOREM DeliveryInOrder == Spec => []DeliveredInOrder
  BY QueueInvariant, PTL DEF IndInv

\* One Write drops at most DropNum packets.
THEOREM BoundedLossPerWrite == Spec => []LossPerWrite
  BY QueueInvariant, PTL DEF IndInv

\* Every step of a writer is a step of the lossy buffer, or a stutter.
LEMMA StepRefines == IndInv /\ [Next]_vars => [Fifo!Next]_(Fifo!vars)
  <1> SUFFICES ASSUME IndInv, [Next]_vars
               PROVE  Fifo!Next \/ UNCHANGED Fifo!vars
    OBVIOUS
  <1> USE DEF Fifo!vars, Fifo!Next
  <1>1. ASSUME NEW p \in Producers, WriteEnter(p)
        PROVE  UNCHANGED Fifo!vars
    BY <1>1 DEF WriteEnter
  <1>2. ASSUME NEW p \in Producers, WriteEnqueue(p)
        PROVE  Fifo!Put
    BY <1>2 DEF WriteEnqueue, Fifo!Put, IndInv, NoSendOnClosed
  <1>3. ASSUME NEW p \in Producers, WriteFull(p)
        PROVE  UNCHANGED Fifo!vars
    BY <1>3 DEF WriteFull
  <1>4. ASSUME NEW p \in Producers, DropReceive(p)
        PROVE  Fifo!Lose
    BY <1>4 DEF DropReceive, Fifo!Lose, IndInv, NoSendOnClosed
  <1>5. ASSUME NEW p \in Producers, DropEmpty(p)
        PROVE  UNCHANGED Fifo!vars
    BY <1>5 DEF DropEmpty
  <1>6. ASSUME NEW c \in Closers, Close(c)
        PROVE  Fifo!Close \/ UNCHANGED Fifo!vars
    BY <1>6 DEF Close, CloseQueue, Fifo!Close, IndInv, TypeOK
  <1>7. CASE SenderClose
    BY <1>7 DEF SenderClose, CloseQueue, Fifo!Close, IndInv, TypeOK
  <1>8. CASE Receive
    BY <1>8 DEF Receive, Fifo!Get
  <1>9. CASE Sent \/ SendFailed \/ ReceiveClosed \/ Cancelled
    BY <1>9 DEF Sent, SendFailed, ReceiveClosed, Cancelled
  <1>10. CASE UNCHANGED vars
    BY <1>10 DEF vars
  <1> QED
    BY <1>1, <1>2, <1>3, <1>4, <1>5, <1>6, <1>7, <1>8, <1>9, <1>10
    DEF Next, Write, SendPacket, SendTurn

\* The writers implement the lossy buffer, whatever the interleaving of Write,
\* DropNPacket, Close and SendPacket.
THEOREM ImplementsLossyFifo == Spec => FifoSpec
  <1>1. Init => Fifo!Init
    BY DEF Init, Fifo!Init
  <1> QED
    BY <1>1, StepRefines, QueueInvariant, PTL DEF Spec, FifoSpec, Fifo!Spec
=============================================================================
