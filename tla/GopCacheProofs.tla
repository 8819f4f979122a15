---------------------------- MODULE GopCacheProofs ----------------------------
(***************************************************************************)
(* Proofs about the cache that late players are served from, for every     *)
(* MaxGOPCap and every sequence of packets.                                *)
(***************************************************************************)
EXTENDS GopCache, CacheLemmas

\* A new cache satisfies the inductive invariant.
LEMMA InitIndInv == Init => IndInv
  <1> SUFFICES ASSUME Init PROVE IndInv
    OBVIOUS
  <1> USE GopAssumption DEF Init, NewCache, NewArray, HeaderKinds, gop
  <1>1. TypeOK
    BY NewCacheType DEF TypeOK
  <1>2. GopIsOneGroup /\ GopIsCurrent /\ FirstLongGroupStays
    BY DEF GopIsOneGroup, GopIsCurrent, FirstLongGroupStays, Full
  <1> QED BY <1>1, <1>2 DEF IndInv

\* Writing a packet keeps the types.
LEMMA WriteTypeOK ==
    ASSUME TypeOK, NEW p \in Packets, Write(p)
    PROVE  TypeOK'
  <1>1. cache' \in CacheType
    BY CacheWriteType DEF TypeOK, Write
  <1>2. headers' \in [HeaderKinds -> Packets \cup {NoPacket}]
    BY DEF TypeOK, Write
  <1>3. frames' \in Seq(Packets) /\ written' \in Nat
    BY DEF TypeOK, Write
  <1> QED BY <1>1, <1>2, <1>3 DEF TypeOK

\* A packet that is not a video frame leaves the group of pictures alone.
LEMMA OtherLeavesGop ==
    ASSUME TypeOK, NEW p \in Packets, Write(p), ~IsFrame(p)
    PROVE  gop' = gop /\ frames' = frames
  <1>1. p.kind \in {"meta", "aseq", "audio", "vseq"}
    BY DEF Packets, Kinds, IsFrame, FrameKinds
  <1>2. cache'.gop = cache.gop
    BY <1>1 DEF Write, CacheWrite, TypeOK, IsFrame, FrameKinds
  <1> QED BY <1>2 DEF gop, Write

\* A video frame goes to the array and to the history.
LEMMA FrameWrites ==
    ASSUME TypeOK, NEW p \in Packets, Write(p), IsFrame(p)
    PROVE  /\ gop' = ArrayWrite(gop, p)
           /\ Len(frames) \in Nat
           /\ Len(frames') = Len(frames) + 1
           /\ \A i \in 1..Len(frames) : frames'[i] = frames[i]
           /\ frames'[Len(frames) + 1] = p
  <1>1. p.kind \in {"key", "inter"}
    BY DEF IsFrame, FrameKinds
  <1>2. cache'.gop = ArrayWrite(cache.gop, p)
    BY <1>1 DEF Write, CacheWrite, TypeOK, CacheType, IsFrame, FrameKinds
  <1>3. frames' = Append(frames, p)
    BY DEF Write
  <1>4. frames \in Seq(Packets)
    BY DEF TypeOK
  <1> QED BY <1>2, <1>3, <1>4 DEF gop

\* Writing a packet keeps the facts about the group of pictures.
LEMMA WriteKeepsGop ==
    ASSUME IndInv, NEW p \in Packets, Write(p)
    PROVE  /\ (~gop.isComplete => gop.packets = <<>>)'
           /\ GopIsOneGroup'
           /\ GopIsCurrent'
           /\ FirstLongGroupStays'
  <1> USE GopAssumption
  <1>0. TypeOK
    BY DEF IndInv
  <1>t. /\ gop.packets \in Seq(Packets) /\ gop.isComplete \in BOOLEAN
        /\ Len(gop.packets) \in Nat
        /\ gop = [packets |-> gop.packets, isComplete |-> gop.isComplete]
    BY <1>0 DEF TypeOK, CacheType, gop
  <1>1. CASE ~IsFrame(p)
    <2>1. gop' = gop /\ frames' = frames
      BY <1>0, <1>1, OtherLeavesGop
    <2>2. (~gop.isComplete => gop.packets = <<>>)' /\ GopIsOneGroup' /\ GopIsCurrent'
      BY <2>1 DEF IndInv, GopIsOneGroup, GopIsCurrent, CachedFrom, Full
    <2>3. /\ \A k : LongFrom(k)' <=> LongFrom(k)
          /\ \A k : CachedFrom(k)' <=> CachedFrom(k)
          /\ Full' <=> Full
      BY <2>1 DEF LongFrom, CachedFrom, Full
    <2>4. FirstLongGroupStays'
      <3>1. FirstLongGroupStays
        BY DEF IndInv
      <3>2. CASE Full
        <4>1. PICK k \in 1..Len(frames) : /\ LongFrom(k) /\ CachedFrom(k)
                                         /\ \A j \in 1..(k - 1) : ~LongFrom(j)
          BY <3>1, <3>2 DEF FirstLongGroupStays
        <4> QED BY <2>1, <2>3, <3>2, <4>1 DEF FirstLongGroupStays
      <3>3. CASE ~Full
        BY <2>1, <2>3, <3>1, <3>3 DEF FirstLongGroupStays
      <3> QED BY <3>2, <3>3
    <2> QED BY <2>2, <2>4
  <1>2. CASE IsFrame(p)
    <2>f. /\ gop' = ArrayWrite(gop, p)
          /\ Len(frames) \in Nat
          /\ Len(frames') = Len(frames) + 1
          /\ \A i \in 1..Len(frames) : frames'[i] = frames[i]
          /\ frames'[Len(frames) + 1] = p
      BY <1>0, <1>2, FrameWrites
    \* Whether a group is long is settled by its first MaxGOPCap frames.
    <2>g. ASSUME NEW k \in 1..Len(frames), k + MaxGOPCap - 1 <= Len(frames)
          PROVE  LongFrom(k)' <=> LongFrom(k)
      <3>1. \A i \in k..(k + MaxGOPCap - 1) : i \in 1..Len(frames) /\ frames'[i] = frames[i]
        BY <2>f, <2>g
      <3>2. k \in k..(k + MaxGOPCap - 1)
        BY <2>f
      <3>3. \A i \in (k + 1)..(k + MaxGOPCap - 1) : i \in k..(k + MaxGOPCap - 1)
        BY <2>f
      <3> QED BY <2>f, <2>g, <3>1, <3>2, <3>3 DEF LongFrom
    <2>h. ASSUME NEW k \in 1..Len(frames'), LongFrom(k)'
          PROVE  /\ IsKeyFrame(frames'[k])
                 /\ \A i \in (k + 1)..(k + MaxGOPCap - 1) : ~IsKeyFrame(frames'[i])
                 /\ \/ k \in 1..Len(frames) /\ LongFrom(k)
                    \/ k + MaxGOPCap - 1 = Len(frames) + 1
      BY <2>f, <2>g, <2>h DEF LongFrom
    \* Full: the array stays, and the frames it holds are still there.
    <2>1. CASE Full
      <3>1. gop' = gop
        BY <2>1, <2>f DEF ArrayWrite, Full
      <3>2. ASSUME NEW k \in 1..Len(frames), CachedFrom(k) PROVE CachedFrom(k)'
        <4>1. \A i \in 1..Len(gop.packets) : k + i - 1 \in 1..Len(frames)
          BY <1>t, <2>f, <3>2 DEF CachedFrom
        <4> QED BY <1>t, <2>f, <3>1, <3>2, <4>1 DEF CachedFrom
      <3>3. GopIsOneGroup'
        BY <2>f, <3>1, <3>2 DEF IndInv, GopIsOneGroup
      <3>4. GopIsCurrent'
        BY <2>1, <3>1 DEF GopIsCurrent, Full
      <3>5. FirstLongGroupStays'
        <4>1. PICK k \in 1..Len(frames) : /\ LongFrom(k) /\ CachedFrom(k)
                                         /\ \A j \in 1..(k - 1) : ~LongFrom(j)
          BY <2>1 DEF IndInv, FirstLongGroupStays
        <4>2. k + MaxGOPCap - 1 <= Len(frames)
          BY <4>1 DEF LongFrom
        <4>3. k \in 1..Len(frames') /\ LongFrom(k)' /\ CachedFrom(k)'
          BY <2>f, <2>g, <3>2, <4>1, <4>2
        <4>4. ASSUME NEW j \in 1..(k - 1) PROVE ~LongFrom(j)'
          <5>1. j \in 1..Len(frames) /\ j + MaxGOPCap - 1 <= Len(frames)
            BY <2>f, <4>2
          <5> QED BY <2>g, <4>1, <5>1
        <4>5. Full'
          BY <2>1, <3>1 DEF Full
        <4> QED BY <4>3, <4>4, <4>5 DEF FirstLongGroupStays
      <3> QED BY <3>1, <3>3, <3>4, <3>5 DEF IndInv
    \* No key frame so far, and none now: the frame is not cached.
    <2>2. CASE ~Full /\ ~gop.isComplete /\ ~IsKeyFrame(p)
      <3>1. gop' = gop
        BY <2>2, <2>f DEF ArrayWrite
      <3>2. GopIsCurrent'
        BY <2>2, <2>f, <3>1 DEF IndInv, GopIsCurrent
      <3>3. ASSUME NEW k \in 1..Len(frames') PROVE ~IsKeyFrame(frames'[k])
        BY <2>2, <2>f DEF IndInv, GopIsCurrent
      <3>4. FirstLongGroupStays'
        BY <2>2, <3>1, <3>3 DEF FirstLongGroupStays, LongFrom, Full
      <3> QED BY <2>2, <3>1, <3>2, <3>4 DEF IndInv, GopIsOneGroup
    \* A key frame starts a new group.
    <2>3. CASE ~Full /\ IsKeyFrame(p)
      <3>1. gop' = [packets |-> <<p>>, isComplete |-> TRUE]
        BY <2>3, <2>f DEF ArrayWrite, Full
      <3>2. gop'.packets = <<p>> /\ gop'.isComplete = TRUE
        BY <3>1
      <3>3. Len(gop'.packets) = 1 /\ gop'.packets[1] = p
        BY <3>2
      <3>4. PICK k \in Nat : k = Len(frames) + 1
        BY <2>f
      <3>5. CachedFrom(k)' /\ k + Len(gop'.packets) - 1 = Len(frames')
        BY <2>3, <2>f, <3>3, <3>4 DEF CachedFrom
      <3>6. k \in 1..Len(frames')
        BY <2>f, <3>4
      <3>7. GopIsOneGroup' /\ GopIsCurrent'
        BY <3>2, <3>3, <3>5, <3>6 DEF GopIsOneGroup, GopIsCurrent
      <3>8. \A j \in 1..Len(frames) : ~LongFrom(j)
        BY <2>3 DEF IndInv, FirstLongGroupStays
      <3>9. CASE MaxGOPCap = 1
        <4>1. LongFrom(k)'
          BY <2>3, <2>f, <3>4, <3>9 DEF LongFrom
        <4>2. ASSUME NEW j \in 1..(k - 1) PROVE ~LongFrom(j)'
          <5>1. j \in 1..Len(frames) /\ j + MaxGOPCap - 1 <= Len(frames)
            BY <2>f, <3>4, <3>9
          <5> QED BY <2>g, <3>8, <5>1
        <4>3. Full'
          BY <3>3, <3>9 DEF Full
        <4> QED BY <3>2, <3>5, <3>6, <3>7, <4>1, <4>2, <4>3 DEF FirstLongGroupStays
      <3>10. CASE MaxGOPCap # 1
        <4>1. ASSUME NEW j \in 1..Len(frames') PROVE ~LongFrom(j)'
          <5>1. j + MaxGOPCap - 1 = Len(frames) + 1 =>
                  Len(frames) + 1 \in (j + 1)..(j + MaxGOPCap - 1)
            BY <2>f, <3>10
          <5> QED BY <2>3, <2>f, <2>h, <3>8, <5>1
        <4>2. ~Full'
          BY <3>3, <3>10 DEF Full
        <4> QED BY <3>2, <3>7, <4>1, <4>2 DEF FirstLongGroupStays
      <3> QED BY <3>2, <3>7, <3>9, <3>10
    \* An inter frame extends the group, which is current.
    <2>4. CASE ~Full /\ gop.isComplete /\ ~IsKeyFrame(p)
      <3>1. gop' = [gop EXCEPT !.packets = Append(gop.packets, p)]
        BY <2>4, <2>f DEF ArrayWrite, Full
      <3>2. gop'.packets = Append(gop.packets, p) /\ gop'.isComplete = TRUE
        BY <1>t, <2>4, <3>1
      <3>3. /\ Len(gop'.packets) = Len(gop.packets) + 1
            /\ \A i \in 1..Len(gop.packets) : gop'.packets[i] = gop.packets[i]
            /\ gop'.packets[Len(gop.packets) + 1] = p
        BY <1>t, <3>2
      <3>4. PICK k \in 1..Len(frames) :
              CachedFrom(k) /\ k + Len(gop.packets) - 1 = Len(frames)
        BY <2>4 DEF IndInv, GopIsCurrent
      <3>5. Len(gop.packets) \in 1..MaxGOPCap /\ Len(gop.packets) < MaxGOPCap
        BY <1>t, <2>4 DEF IndInv, GopIsOneGroup, Full
      <3>6. ASSUME NEW i \in 1..Len(gop'.packets)
            PROVE  /\ gop'.packets[i] = frames'[k + i - 1]
                   /\ IsKeyFrame(gop'.packets[i]) <=> i = 1
        <4>1. CASE i \in 1..Len(gop.packets)
          <5>1. k + i - 1 \in 1..Len(frames)
            BY <2>f, <3>4, <3>5, <4>1
          <5> QED BY <2>f, <3>3, <3>4, <4>1, <5>1 DEF CachedFrom
        <4>2. CASE i = Len(gop.packets) + 1
          BY <2>4, <2>f, <3>3, <3>4, <3>5, <4>2
        <4> QED BY <3>3, <3>5, <4>1, <4>2
      <3>7. k + Len(gop'.packets) - 1 = Len(frames')
        BY <2>f, <3>3, <3>4, <3>5
      <3>8. CachedFrom(k)'
        BY <2>f, <3>6, <3>7 DEF CachedFrom
      <3>9. k \in 1..Len(frames')
        BY <2>f, <3>4
      <3>10. GopIsOneGroup' /\ GopIsCurrent'
        BY <3>2, <3>3, <3>5, <3>7, <3>8, <3>9 DEF GopIsOneGroup, GopIsCurrent
      <3>11. \A j \in 1..Len(frames) : ~LongFrom(j)
        BY <2>4 DEF IndInv, FirstLongGroupStays
      <3>12. /\ IsKeyFrame(frames'[k])
             /\ \A i \in (k + 1)..Len(frames') : ~IsKeyFrame(frames'[i])
        <4>1. \A i \in k..Len(frames') :
                i - k + 1 \in 1..Len(gop'.packets) /\ k + (i - k + 1) - 1 = i
          BY <2>f, <3>3, <3>4, <3>5, <3>7
        <4>2. ASSUME NEW i \in k..Len(frames')
              PROVE  IsKeyFrame(frames'[i]) <=> i - k + 1 = 1
          <5>1. i - k + 1 \in 1..Len(gop'.packets) /\ k + (i - k + 1) - 1 = i
            BY <4>1
          <5>2. /\ gop'.packets[i - k + 1] = frames'[k + (i - k + 1) - 1]
                /\ IsKeyFrame(gop'.packets[i - k + 1]) <=> i - k + 1 = 1
            BY ONLY <3>6, <5>1
          <5> QED BY ONLY <5>1, <5>2
        <4> QED BY <2>f, <3>4, <4>2
      \* The only group that can have become long is the one that is cached.
      <3>13. ASSUME NEW j \in 1..Len(frames'), LongFrom(j)'
             PROVE  j = k /\ Len(gop'.packets) = MaxGOPCap
        <4>1. j + MaxGOPCap - 1 = Len(frames')
          BY <2>f, <2>h, <3>11, <3>13
        <4>2. j > k => FALSE
          BY <2>f, <2>h, <3>12, <3>13
        <4>3. j < k => k \in (j + 1)..(j + MaxGOPCap - 1)
          BY <2>f, <3>4, <4>1
        <4>4. j = k
          BY <2>f, <2>h, <3>4, <3>12, <3>13, <4>2, <4>3
        <4> QED BY <2>f, <3>3, <3>5, <3>7, <4>1, <4>4
      <3>14. CASE Full'
        <4>1. Len(gop'.packets) = MaxGOPCap
          BY <3>3, <3>5, <3>14 DEF Full
        <4>2. LongFrom(k)'
          BY <2>f, <3>4, <3>7, <3>12, <4>1 DEF LongFrom
        <4>3. \A j \in 1..(k - 1) : ~LongFrom(j)'
          BY <2>f, <3>4, <3>13
        <4> QED BY <3>2, <3>8, <3>9, <3>10, <3>14, <4>2, <4>3 DEF FirstLongGroupStays
      <3>15. CASE ~Full'
        <4>1. Len(gop'.packets) # MaxGOPCap
          BY <3>3, <3>5, <3>15 DEF Full
        <4> QED BY <3>2, <3>10, <3>13, <3>15, <4>1 DEF FirstLongGroupStays
      <3> QED BY <3>2, <3>10, <3>14, <3>15
    <2> QED BY <1>t, <2>1, <2>2, <2>3, <2>4
  <1> QED BY <1>1, <1>2

\* Writing a packet keeps the newest header of each kind.
LEMMA WriteKeepsHeaders ==
    ASSUME IndInv, NEW p \in Packets, Write(p)
    PROVE  /\ cache'.metadata = headers'["meta"]
           /\ cache'.videoSeq = headers'["vseq"]
           /\ cache'.audioSeq = headers'["aseq"]
  <1>1. p.kind \in Kinds
    BY DEF Packets
  <1> QED
    BY <1>1 DEF IndInv, TypeOK, Write, CacheWrite, HeaderKinds, Kinds, IsFrame,
                FrameKinds

\* Every write keeps the inductive invariant.
LEMMA StepIndInv == IndInv /\ [Next]_vars => IndInv'
  <1> SUFFICES ASSUME IndInv, [Next]_vars PROVE IndInv'
    OBVIOUS
  <1>1. CASE Next
    <2>1. PICK k \in Kinds : Write([kind |-> k, no |-> written + 1])
      BY <1>1 DEF Next
    <2>2. [kind |-> k, no |-> written + 1] \in Packets
      BY DEF Packets, IndInv, TypeOK
    <2> QED
      BY <2>1, <2>2, WriteTypeOK, WriteKeepsGop, WriteKeepsHeaders DEF IndInv
  <1>2. CASE UNCHANGED vars
    BY <1>2 DEF vars, IndInv, TypeOK, gop, GopIsOneGroup, GopIsCurrent,
                FirstLongGroupStays, LongFrom, CachedFrom, Full
  <1> QED BY <1>1, <1>2

\* The inductive invariant holds in every state.
THEOREM CacheInvariant == Spec => []IndInv
  BY InitIndInv, StepIndInv, PTL DEF Spec

\* What Send replays of the video is one decodable group of pictures.
THEOREM CachedGopIsOneGroup == Spec => []GopIsOneGroup
  BY CacheInvariant, PTL DEF IndInv

\* Until the array is full the cached group reaches the newest frame.
THEOREM CachedGopIsCurrent == Spec => []GopIsCurrent
  BY CacheInvariant, PTL DEF IndInv

\* Send replays the newest headers and then the group.
THEOREM SendReplaysHeadersAndGop == Spec => []SendReplays
  <1>1. IndInv => SendReplays
    BY DEF IndInv, SendReplays, CacheSend, ArraySend, gop
  <1> QED BY <1>1, CacheInvariant, PTL

\* Once a group of MaxGOPCap frames was published, the first such group is what is cached,
\* and before that the array is not full (array.write).
THEOREM CachedGopIsFirstLongGroup == Spec => []FirstLongGroupStays
  BY CacheInvariant, PTL DEF IndInv
=============================================================================
