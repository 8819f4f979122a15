---------------------------- MODULE CacheLemmas ----------------------------
(***************************************************************************)
(* Facts about the operators of Cache that the proofs about its users cite. *)
(***************************************************************************)
EXTENDS Cache, TLAPS

\* A new cache is a cache.
LEMMA NewCacheType == NewCache \in CacheType
  <1>1. <<>> \in Seq(Packets)
    OBVIOUS
  <1> QED BY <1>1 DEF NewCache, NewArray, CacheType

\* Writing a packet to a cache gives a cache.
LEMMA CacheWriteType ==
    ASSUME NEW c \in CacheType, NEW p \in Packets
    PROVE  CacheWrite(c, p) \in CacheType
  <1>1. ArrayWrite(c.gop, p) \in [packets : Seq(Packets), isComplete : BOOLEAN]
    <2>1. <<p>> \in Seq(Packets) /\ Append(c.gop.packets, p) \in Seq(Packets)
      BY DEF CacheType
    <2> QED BY <2>1 DEF ArrayWrite, CacheType
  <1>2. p.kind \in Kinds
    BY DEF Packets
  <1> QED BY <1>1, <1>2 DEF CacheType, CacheWrite, IsFrame, FrameKinds, Kinds

\* What Send writes are packets.
LEMMA CacheSendType ==
    ASSUME NEW c \in CacheType
    PROVE  CacheSend(c) \in Seq(Packets)
  <1>1. ASSUME NEW s \in Packets \cup {NoPacket}
        PROVE  SpecialSend(s) \in Seq(Packets)
    BY DEF SpecialSend
  <1>2. ArraySend(c.gop) \in Seq(Packets)
    BY DEF ArraySend, CacheType
  <1>3. /\ SpecialSend(c.metadata) \in Seq(Packets)
        /\ SpecialSend(c.videoSeq) \in Seq(Packets)
        /\ SpecialSend(c.audioSeq) \in Seq(Packets)
    BY <1>1 DEF CacheType
  <1> QED BY <1>2, <1>3 DEF CacheSend
-----------------------------------------------------------------------------
(* The group of pictures a cache holds.                                     *)

\* Cache c holds one run of frames, from a key frame to frame n unless it is full.
Group(c, n) ==
    LET s == c.gop.packets
    IN  /\ ~IsFrame(c.metadata) /\ ~IsFrame(c.videoSeq) /\ ~IsFrame(c.audioSeq)
        /\ c.gop.isComplete <=> s # <<>>
        /\ Len(s) <= MaxGOPCap
        /\ \A i \in 1..Len(s) : IsFrame(s[i])
        /\ \A i \in 2..Len(s) : s[i].no = s[i - 1].no + 1
        /\ s # <<>> =>
             /\ IsKeyFrame(s[1])
             /\ s[Len(s)].no <= n
             /\ Len(s) < MaxGOPCap => s[Len(s)].no = n

\* t is what is left of headers and then the group s, of which the last frame
\* written, if one was, is f.
Aligned(s, t, f) ==
    /\ \A i \in 1..Len(t) :
         IF Len(s) - Len(t) + i >= 1
           THEN t[i] = s[Len(s) - Len(t) + i]
           ELSE ~IsFrame(t[i])
    /\ f = IF Len(s) - Len(t) < 1 THEN NoPacket ELSE s[Len(s) - Len(t)]

\* Once full, the array of a cache stays; while it has no key frame, only a key
\* frame completes it.
LEMMA CacheWriteGop ==
    ASSUME NEW c \in CacheType, NEW q \in Packets
    PROVE  /\ Len(c.gop.packets) >= MaxGOPCap => CacheWrite(c, q).gop = c.gop
           /\ ~IsFrame(q) => CacheWrite(c, q).gop = c.gop
           /\ ~c.gop.isComplete /\ ~IsKeyFrame(q) => CacheWrite(c, q).gop = c.gop
  <1>1. q.kind \in Kinds
    BY DEF Packets
  <1> QED BY <1>1 DEF CacheType, CacheWrite, ArrayWrite, IsFrame, FrameKinds, IsKeyFrame,
                      Kinds

\* A cache that holds the run up to frame n holds the run up to the next frame
\* once that is written.
LEMMA CacheWriteGroup ==
    ASSUME NEW c \in CacheType, NEW n \in Int, Group(c, n), NEW q \in Packets,
           IsFrame(q) => q.no = n + 1
    PROVE  Group(CacheWrite(c, q), IF IsFrame(q) THEN q.no ELSE n)
  <1> DEFINE s == c.gop.packets
             d == CacheWrite(c, q)
  <1>1. q.kind \in Kinds /\ q.no \in Nat
    BY DEF Packets
  <1>2. /\ s \in Seq(Packets) /\ Len(s) \in Nat /\ MaxGOPCap \in Nat \ {0}
        /\ \A i \in 1..Len(s) : s[i] \in Packets /\ s[i].no \in Nat
    <2>1. s \in Seq(Packets) /\ MaxGOPCap \in Nat \ {0}
      BY GopAssumption DEF CacheType
    <2>2. \A i \in 1..Len(s) : s[i] \in Packets
      BY <2>1
    <2> QED BY <2>1, <2>2 DEF Packets
  <1>3. CASE ~IsFrame(q)
    <2>1. d.gop = c.gop
      BY <1>3, CacheWriteGop
    <2>2. ~IsFrame(d.metadata) /\ ~IsFrame(d.videoSeq) /\ ~IsFrame(d.audioSeq)
      BY <1>1, <1>3 DEF Group, CacheWrite, CacheType, IsFrame, FrameKinds, Kinds
    <2> QED BY <1>3, <2>1, <2>2 DEF Group
  <1>4. CASE IsFrame(q)
    <2>1. d = [c EXCEPT !.gop = ArrayWrite(c.gop, q)]
      BY <1>4 DEF CacheWrite, IsFrame, FrameKinds
    <2>2. /\ d.gop = ArrayWrite(c.gop, q)
          /\ ~IsFrame(d.metadata) /\ ~IsFrame(d.videoSeq) /\ ~IsFrame(d.audioSeq)
      BY <2>1 DEF CacheType, Group
    <2>3. CASE Len(s) >= MaxGOPCap \/ (~c.gop.isComplete /\ ~IsKeyFrame(q))
      <3>1. d.gop = c.gop
        BY <2>2, <2>3 DEF ArrayWrite
      <3>2. s # <<>> => Len(s) = MaxGOPCap /\ s[Len(s)].no <= n
        BY <1>2, <2>3 DEF Group
      <3>3. s # <<>> => s[Len(s)].no <= q.no /\ ~(Len(s) < MaxGOPCap)
        BY <1>2, <1>4, <3>2
      <3> QED BY <1>4, <2>2, <3>1, <3>3 DEF Group
    <2>4. CASE ~(Len(s) >= MaxGOPCap) /\ IsKeyFrame(q)
      <3>1. d.gop = [packets |-> <<q>>, isComplete |-> TRUE]
        BY <2>2, <2>4 DEF ArrayWrite
      <3>2. /\ d.gop.packets = <<q>> /\ Len(<<q>>) = 1 /\ <<q>>[1] = q
            /\ <<q>> # <<>>
        BY <3>1
      <3> QED BY <1>1, <1>2, <1>4, <2>2, <2>4, <3>1, <3>2 DEF Group
    <2>5. CASE /\ ~(Len(s) >= MaxGOPCap) /\ ~IsKeyFrame(q)
               /\ c.gop.isComplete
      <3> DEFINE t == Append(s, q)
      <3>1. d.gop.packets = t /\ d.gop.isComplete
        BY <2>2, <2>5 DEF ArrayWrite, CacheType
      <3>2. /\ t \in Seq(Packets) /\ Len(t) = Len(s) + 1 /\ t[Len(t)] = q
            /\ \A i \in 1..Len(s) : t[i] = s[i]
        BY <1>2
      <3>3. /\ s # <<>> /\ Len(s) >= 1
            /\ s[Len(s)].no = n /\ IsKeyFrame(s[1])
        BY <1>2, <2>5 DEF Group
      <3> HIDE DEF t
      <3>4. t # <<>> /\ Len(t) <= MaxGOPCap /\ IsKeyFrame(t[1])
        BY <1>2, <2>5, <3>2, <3>3
      <3>5. \A i \in 1..Len(t) : IsFrame(t[i])
        <4> SUFFICES ASSUME NEW i \in 1..Len(t) PROVE IsFrame(t[i])
          OBVIOUS
        <4>1. CASE i = Len(t)
          BY <1>4, <3>2, <4>1
        <4>2. CASE i # Len(t)
          <5>1. i \in 1..Len(s) /\ t[i] = s[i]
            BY <1>2, <3>2, <4>2
          <5> QED BY <5>1 DEF Group
        <4> QED BY <4>1, <4>2
      <3>6. \A i \in 2..Len(t) : t[i].no = t[i - 1].no + 1
        <4> SUFFICES ASSUME NEW i \in 2..Len(t) PROVE t[i].no = t[i - 1].no + 1
          OBVIOUS
        <4>1. CASE i = Len(t)
          <5>1. t[i] = q /\ i - 1 = Len(s) /\ Len(s) \in 1..Len(s)
            <6>1. t[i] = q
              BY <3>2, <4>1
            <6>2. i - 1 = Len(s)
              BY <1>2, <3>2, <4>1
            <6>3. Len(s) \in 1..Len(s)
              BY <1>2, <3>3
            <6> QED BY <6>1, <6>2, <6>3
          <5>2. t[i - 1] = s[Len(s)]
            BY <3>2, <5>1
          <5> QED BY <1>4, <3>3, <5>1, <5>2
        <4>2. CASE i # Len(t)
          <5>1. i \in 2..Len(s) /\ t[i] = s[i] /\ t[i - 1] = s[i - 1]
            BY <1>2, <3>2, <4>2
          <5> QED BY <5>1 DEF Group
        <4> QED BY <4>1, <4>2
      <3>7. t[Len(t)].no = q.no /\ t[Len(t)].no <= q.no
        BY <1>1, <3>2
      <3> QED BY <1>4, <2>2, <3>1, <3>4, <3>5, <3>6, <3>7 DEF Group
    <2> QED BY <2>3, <2>4, <2>5
  <1> QED BY <1>3, <1>4

\* What Send writes is headers and then the group.
LEMMA CacheSendAligned ==
    ASSUME NEW c \in CacheType, NEW n, Group(c, n)
    PROVE  Aligned(c.gop.packets, CacheSend(c), NoPacket)
  <1> DEFINE s == c.gop.packets
             h == SpecialSend(c.metadata) \o SpecialSend(c.videoSeq)
                    \o SpecialSend(c.audioSeq)
  <1>1. ASSUME NEW x \in Packets \cup {NoPacket}, ~IsFrame(x)
        PROVE  /\ SpecialSend(x) \in Seq(Packets)
               /\ \A i \in 1..Len(SpecialSend(x)) : ~IsFrame(SpecialSend(x)[i])
    BY <1>1 DEF SpecialSend
  <1>2. /\ c.metadata \in Packets \cup {NoPacket} /\ ~IsFrame(c.metadata)
        /\ c.videoSeq \in Packets \cup {NoPacket} /\ ~IsFrame(c.videoSeq)
        /\ c.audioSeq \in Packets \cup {NoPacket} /\ ~IsFrame(c.audioSeq)
    BY DEF CacheType, Group
  <1>3. ASSUME NEW a \in Seq(Packets), NEW b \in Seq(Packets),
               \A i \in 1..Len(a) : ~IsFrame(a[i]), \A i \in 1..Len(b) : ~IsFrame(b[i])
        PROVE  /\ a \o b \in Seq(Packets)
               /\ \A i \in 1..Len(a \o b) : ~IsFrame((a \o b)[i])
    <2>1. /\ a \o b \in Seq(Packets) /\ Len(a \o b) = Len(a) + Len(b)
          /\ \A i \in 1..Len(a) : (a \o b)[i] = a[i]
          /\ \A i \in Len(a) + 1..Len(a) + Len(b) : (a \o b)[i] = b[i - Len(a)]
      OBVIOUS
    <2>2. ASSUME NEW i \in 1..Len(a \o b) PROVE ~IsFrame((a \o b)[i])
      <3>1. CASE i <= Len(a)
        BY <1>3, <2>1, <3>1
      <3>2. CASE i > Len(a)
        <4>1. i - Len(a) \in 1..Len(b) /\ (a \o b)[i] = b[i - Len(a)]
          BY <2>1, <3>2
        <4> QED BY <1>3, <4>1
      <3> QED BY <3>1, <3>2
    <2> QED BY <2>1, <2>2
  <1>4. h \in Seq(Packets) /\ \A i \in 1..Len(h) : ~IsFrame(h[i])
    <2> DEFINE x == SpecialSend(c.metadata)
               y == SpecialSend(c.videoSeq)
               z == SpecialSend(c.audioSeq)
    <2>1. /\ x \in Seq(Packets) /\ \A i \in 1..Len(x) : ~IsFrame(x[i])
          /\ y \in Seq(Packets) /\ \A i \in 1..Len(y) : ~IsFrame(y[i])
          /\ z \in Seq(Packets) /\ \A i \in 1..Len(z) : ~IsFrame(z[i])
      BY <1>1, <1>2
    <2> HIDE DEF x, y, z
    <2>2. x \o y \in Seq(Packets) /\ \A i \in 1..Len(x \o y) : ~IsFrame((x \o y)[i])
      BY <1>3, <2>1
    <2>3. /\ (x \o y) \o z \in Seq(Packets)
          /\ \A i \in 1..Len((x \o y) \o z) : ~IsFrame(((x \o y) \o z)[i])
      BY <1>3, <2>1, <2>2
    <2> QED BY <2>3 DEF x, y, z
  <1>5. s \in Seq(Packets) /\ CacheSend(c) = h \o s
    BY DEF CacheSend, ArraySend, CacheType, Group
  <1> HIDE DEF h, s
  <1> DEFINE t == h \o s
  <1>6. /\ t \in Seq(Packets) /\ Len(t) = Len(h) + Len(s)
        /\ Len(h) \in Nat /\ Len(s) \in Nat
        /\ \A i \in 1..Len(h) : t[i] = h[i]
        /\ \A i \in Len(h) + 1..Len(h) + Len(s) : t[i] = s[i - Len(h)]
    BY <1>4, <1>5
  <1> HIDE DEF t
  <1>7. ASSUME NEW i \in 1..Len(t)
        PROVE  IF Len(s) - Len(t) + i >= 1
                 THEN t[i] = s[Len(s) - Len(t) + i]
                 ELSE ~IsFrame(t[i])
    <2>0. Len(s) - Len(t) + i = i - Len(h)
      BY <1>6
    <2>1. CASE i - Len(h) >= 1
      <3>1. i \in Len(h) + 1..Len(h) + Len(s)
        BY <1>6, <2>1
      <3> QED BY <1>6, <2>0, <2>1, <3>1
    <2>2. CASE ~(i - Len(h) >= 1)
      <3>1. i \in 1..Len(h)
        BY <1>6, <2>2
      <3> QED BY <1>4, <1>6, <2>0, <2>2, <3>1
    <2> QED BY <2>1, <2>2
  <1>8. Len(s) - Len(t) < 1
    BY <1>6
  <1>9. Aligned(s, t, NoPacket)
    BY <1>7, <1>8 DEF Aligned
  <1> QED BY <1>5, <1>9 DEF t, s
=============================================================================
