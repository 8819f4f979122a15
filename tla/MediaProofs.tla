---------------------------- MODULE MediaProofs ----------------------------
(***************************************************************************)
(* What becomes of a frame and its metadata on their way into a file, a    *)
(* segment or a message: the times of audio, the TS muxer, FLV, the H.264  *)
(* parser and the integers and strings of AMF.                             *)
(***************************************************************************)
EXTENDS AudioAlign, TsMuxer, Flv, AnnexB, AmfPrimitives, SequenceTheorems, TLAPS

-----------------------------------------------------------------------------
(* The decoding times of audio, for every tolerance, every set of sample    *)
(* rates and streams of any length.                                         *)

\* The inductive invariant: it is that of the properties taken together.
IndInv == TypeOK /\ NearInput /\ PredictsNext

\* Incs holds natural numbers, and products of them are natural numbers.
LEMMA EstPtsNat == TypeOK => EstPts \in Nat
  <1> SUFFICES ASSUME TypeOK PROVE EstPts \in Nat
    OBVIOUS
  <1>1. frameNum \in Nat /\ frameBase \in Nat /\ inc \in Nat
    BY AlignAssumption DEF TypeOK
  <1>2. frameNum * inc \in Nat
    BY <1>1
  <1> QED BY <1>1, <1>2 DEF EstPts

\* The prediction after a step of align.
LEMMA NextEstPts ==
    ASSUME TypeOK, NEW t \in Nat, Align(t), inc' = inc
    PROVE  EstPts' = out' + inc
  <1>1. frameNum \in Nat /\ frameBase \in Nat /\ inc \in Nat
    BY AlignAssumption DEF TypeOK
  <1>2. (frameNum + 1) * inc = frameNum * inc + inc /\ 1 * inc = inc
    BY <1>1
  <1>3. frameNum * inc \in Nat
    BY <1>1
  <1>4. CASE Distance(EstPts, t) <= Sync
    BY <1>1, <1>2, <1>3, <1>4 DEF Align, EstPts
  <1>5. CASE ~(Distance(EstPts, t) <= Sync)
    BY <1>1, <1>2, <1>5 DEF Align, EstPts
  <1> QED BY <1>4, <1>5

\* One frame keeps the invariant.
LEMMA FrameKeeps ==
    ASSUME IndInv, NEW t \in 0..MaxDts, Frame(t)
    PROVE  IndInv'
  <1> USE AlignAssumption DEF IndInv
  <1>1. EstPts \in Nat /\ t \in Nat /\ Sync \in Nat
    BY EstPtsNat
  <1>2. TypeOK'
    BY <1>1 DEF Frame, Align, TypeOK
  <1>3. NearInput'
    BY <1>1 DEF Frame, Align, NearInput, Distance
  <1>4. PredictsNext'
    BY <1>1, NextEstPts DEF Frame, PredictsNext
  <1> QED BY <1>2, <1>3, <1>4

\* The invariant holds in every reachable state.
THEOREM AlignInvariant == Spec => []IndInv
  <1> USE AlignAssumption
  <1>1. Init => IndInv
    <2> SUFFICES ASSUME Init PROVE IndInv
      OBVIOUS
    <2>1. TypeOK
      BY DEF Init, TypeOK
    <2>2. NearInput /\ PredictsNext
      BY DEF Init, NearInput, PredictsNext
    <2> QED BY <2>1, <2>2 DEF IndInv
  <1>2. IndInv /\ [Next]_vars => IndInv'
    <2> SUFFICES ASSUME IndInv, [Next]_vars PROVE IndInv'
      OBVIOUS
    <2>1. ASSUME NEW t \in 0..MaxDts, Frame(t) PROVE IndInv'
      BY <2>1, FrameKeeps
    <2>2. ASSUME NEW i \in Incs, SpecificInfo(i) PROVE IndInv'
      BY <2>2 DEF SpecificInfo, IndInv, TypeOK, NearInput, PredictsNext, Distance, EstPts
    <2>3. CASE UNCHANGED vars
      BY <2>3 DEF vars, IndInv, TypeOK, NearInput, PredictsNext, Distance, EstPts
    <2> QED BY <2>1, <2>2, <2>3 DEF Next
  <1> QED BY <1>1, <1>2, PTL DEF Spec

\* At a steady sample rate frames are exactly one frame's time apart, until the time of one
\* is further than the tolerance from that (align.align).
THEOREM AudioEvenlySpaced == Spec => EvenlySpaced
  <1> DEFINE Even == started /\ steady /\ inc' = inc =>
                       out' = IF Distance(dts', out + inc) <= Sync THEN out + inc ELSE dts'
  <1>1. ASSUME IndInv, NEW t \in 0..MaxDts, Frame(t) PROVE Even
    <2> SUFFICES ASSUME started, steady
                 PROVE  out' = IF Distance(dts', out + inc) <= Sync THEN out + inc ELSE dts'
      OBVIOUS
    <2>1. EstPts = out + inc /\ EstPts \in Nat /\ t \in Nat /\ dts' = t
      BY <1>1, EstPtsNat DEF IndInv, PredictsNext, Frame
    <2>2. Distance(t, EstPts) = Distance(EstPts, t)
      BY <2>1 DEF Distance
    <2> QED BY <1>1, <2>1, <2>2 DEF Frame, Align
  <1>2. ASSUME IndInv, NEW i \in Incs, SpecificInfo(i), ~UNCHANGED vars PROVE Even
    BY <1>2 DEF SpecificInfo, IndInv, PredictsNext, vars
  <1>3. IndInv /\ [Next]_vars => [Even]_vars
    BY <1>1, <1>2 DEF Next
  <1> QED BY <1>3, AlignInvariant, PTL DEF Spec, EvenlySpaced

\* Frames in order are given times that step back by at most the tolerance, or
\* twice that after a change of sample rate.
THEOREM AudioStepsBackLittle == Spec => StepBack
  <1> DEFINE Back == started /\ dts' >= dts =>
                       out' >= out - (IF steady THEN Sync ELSE 2 * Sync)
  <1> USE AlignAssumption
  <1>1. ASSUME IndInv, NEW t \in 0..MaxDts, Frame(t) PROVE Back
    <2> SUFFICES ASSUME started, t >= dts
                 PROVE  out' >= out - (IF steady THEN Sync ELSE 2 * Sync)
      BY <1>1 DEF Frame
    <2>1. /\ EstPts \in Nat /\ t \in Nat /\ Sync \in Nat
          /\ out \in Nat /\ dts \in Nat /\ inc \in Nat
      BY <1>1, EstPtsNat DEF IndInv, TypeOK
    <2>2. out <= dts + Sync
      BY <1>1, <2>1 DEF IndInv, NearInput, Distance
    <2>3. CASE Distance(EstPts, t) <= Sync
      <3>1. out' = EstPts /\ EstPts >= t - Sync
        BY <1>1, <2>1, <2>3 DEF Frame, Align, Distance
      <3>2. CASE steady
        <4>1. EstPts = out + inc
          BY <1>1, <3>2 DEF IndInv, PredictsNext
        <4> QED BY <2>1, <3>1, <3>2, <4>1
      <3>3. CASE ~steady
        BY <2>1, <2>2, <3>1, <3>3
      <3> QED BY <3>2, <3>3
    <2>4. CASE ~(Distance(EstPts, t) <= Sync)
      <3>1. out' = t
        BY <1>1, <2>4 DEF Frame, Align
      <3> QED BY <2>1, <2>2, <3>1
    <2> QED BY <2>3, <2>4
  <1>2. ASSUME IndInv, NEW i \in Incs, SpecificInfo(i) PROVE Back
    BY <1>2 DEF SpecificInfo, IndInv, TypeOK
  <1>3. IndInv /\ [Next]_vars => [Back]_vars
    BY <1>1, <1>2 DEF Next
  <1> QED BY <1>3, AlignInvariant, PTL DEF Spec, StepBack

-----------------------------------------------------------------------------
(* What a demuxer recovers of the TS muxer's output, for frames of every    *)
(* length and clocks of every period.  The frame is followed through its    *)
(* turns: how much of the PES header and of the data is still to be written *)
(* is what the frame has less what the demuxer has got.                     *)

\* The remainder of a sum with the divisor.
LEMMA ModLemma ==
    ASSUME NEW m \in Nat \ {0}, NEW y \in Nat
    PROVE  (y + m) % m = y % m
<1> DEFINE q == y \div m
           r == y % m
           p == (y + m) \div m
           s == (y + m) % m
           d == p - (q + 1)
<1>1. q \in Int /\ r \in 0..m-1 /\ y = m * q + r
  BY SMT
<1>2. p \in Int /\ s \in 0..m-1 /\ y + m = m * p + s
  BY SMT
<1>3. d \in Int /\ m * d = r - s
  <2>1. m * d = m * p - m * q - m
    BY <1>1, <1>2
  <2> QED  BY <1>1, <1>2, <2>1
<1>4. d <= 0
  <2> SUFFICES ASSUME d >= 1 PROVE FALSE
    BY <1>3
  <2>1. m * d >= m
    BY <1>3
  <2> QED  BY <1>1, <1>2, <1>3, <2>1
<1>5. d >= 0
  <2> SUFFICES ASSUME d <= -1 PROVE FALSE
    BY <1>3
  <2>1. m * d <= -m
    BY <1>3
  <2> QED  BY <1>1, <1>2, <1>3, <2>1
<1> QED  BY <1>1, <1>2, <1>3, <1>4, <1>5

\* A time past the end of the clock is written as the one that follows it.
LEMMA ClockLemma ==
    ASSUME NEW ts \in Nat
    PROVE  WriteTs(ts) \in {ts % TsMod, (ts + 1) % TsMod}
<1>1. TsMod \in Nat \ {0}
  BY TsAssumption
<1>2. CASE ts > TsMod - 1
  <2> DEFINE y == ts - (TsMod - 1)
  <2>1. y \in Nat
    BY <1>1, <1>2
  <2>2. (y + TsMod) % TsMod = y % TsMod
    BY <1>1, <2>1, ModLemma
  <2> QED  BY <1>1, <1>2, <2>1, <2>2 DEF WriteTs
<1>3. CASE ~(ts > TsMod - 1)
  BY <1>3 DEF WriteTs
<1> QED  BY <1>2, <1>3

-----------------------------------------------------------------------------
(* The inductive invariant *)

TsTypeOK ==
    /\ frame.pid \in {"video", "audio"}
    /\ frame.key \in BOOLEAN
    /\ frame.size \in Nat /\ frame.dts \in Nat /\ frame.cts \in Nat
    /\ frame.pes.len \in {0, 14, 19}
    /\ frame.pes.size \in {0, frame.pes.len + frame.size - 6}
    /\ left \in Nat /\ pesLeft \in Nat /\ wBytes \in Nat
    /\ first \in BOOLEAN

\* The counters of audio and video are taken before the TS packet, those of the tables
\* after it.
Counters ==
    /\ counted = TRUE
    /\ cc \in [Pids -> 0..16]
    /\ seen \in [Pids -> Int]
    /\ \A p \in {"video", "audio"} : cc[p] <= 15 /\ seen[p] \in {None, cc[p]}
    /\ \A p \in {"pat", "pmt"} : seen[p] \in {None, cc[p] - 1}

\* What is left of the frame, and what the demuxer has of it.  The PES header fits the
\* first TS packet.
Progress ==
    /\ left = (pesLeft + frame.size) - wBytes
    /\ wBytes <= frame.size
    /\ first => pesLeft = frame.pes.len /\ wBytes = 0 /\ pesLeft # 0
    /\ ~first => pesLeft = 0
    /\ ~Misplaced => intact = TRUE /\ got = (frame.pes.len - pesLeft) + wBytes

TsInd == TsTypeOK /\ Counters /\ Progress /\ Clocks

\* Before the first frame nothing is left and no PID has been seen.
LEMMA TsIndInit == TsInit => TsInd
<1> SUFFICES ASSUME TsInit PROVE TsInd
  OBVIOUS
<1>1. TsMod \in Nat \ {0}
  BY TsAssumption
<1>2. TsTypeOK
  BY DEF TsInit, TsTypeOK
<1>3. Counters
  BY DEF TsInit, Counters, Pids, None
<1>4. Progress
  BY DEF TsInit, Progress
<1>5. Clocks
  BY <1>1 DEF TsInit, Clocks
<1> QED  BY <1>2, <1>3, <1>4, <1>5 DEF TsInd

\* A frame begins: nothing of it is written.
LEMMA MuxBeginLemma == TsInd /\ MuxBegin => TsInd'
<1> SUFFICES ASSUME TsInd, MuxBegin PROVE TsInd'
  OBVIOUS
<1>1. PICK pid \in {"video", "audio"}, key \in BOOLEAN, size \in Sizes, time \in Times,
           cts \in Compositions :
        /\ pid = "audio" => ~key /\ cts = 0
        /\ frame' = [pid |-> pid, key |-> key, size |-> size, dts |-> time, cts |-> cts,
                     pes |-> PesHeader(size, time, cts)]
        /\ left' = size + PesHeader(size, time, cts).len
        /\ pesLeft' = PesHeader(size, time, cts).len
  BY DEF MuxBegin
<1>2. size \in Nat /\ time \in Nat /\ cts \in Nat
  BY TsAssumption
<1> DEFINE pes == PesHeader(size, time, cts)
<1>3. /\ pes.len \in {14, 19}
      /\ pes.size \in {0, pes.len + size - 6}
      /\ pes.pts = WriteTs(time + cts)
      /\ pes.dts = WriteTs(time)
  BY <1>2 DEF PesHeader
<1> HIDE DEF pes
<1>4. /\ frame'.pid \in {"video", "audio"} /\ frame'.key \in BOOLEAN
      /\ frame'.size = size /\ frame'.dts = time /\ frame'.cts = cts /\ frame'.pes = pes
      /\ left' = size + pes.len /\ pesLeft' = pes.len
      /\ wBytes' = 0 /\ first' = TRUE /\ got' = 0 /\ intact' = TRUE /\ pcr' = None
      /\ UNCHANGED <<cc, seen, counted>>
  BY <1>1 DEF MuxBegin, pes
<1>5. TsTypeOK'
  BY <1>2, <1>3, <1>4 DEF TsTypeOK
<1>6. Counters'
  BY <1>4 DEF TsInd, Counters
<1>7. Progress'
  BY <1>2, <1>3, <1>4 DEF Progress
<1>8. Clocks'
  BY <1>2, <1>3, <1>4, ClockLemma DEF Clocks
<1> QED  BY <1>5, <1>6, <1>7, <1>8 DEF TsInd

\* The counter of a TS packet of audio or video follows the last.
LEMMA TurnCounters == TsInd /\ Turn => Counters'
<1> SUFFICES ASSUME TsInd, Turn PROVE Counters'
  OBVIOUS
<1> DEFINE p == frame.pid
           c == NextCc(cc[p])
<1>1. /\ p \in {"video", "audio"} /\ p \in Pids
      /\ cc' = [cc EXCEPT ![p] = c]
      /\ counted' = (counted /\ seen[p] \in {None, (c - 1) % 16})
      /\ seen' = [seen EXCEPT ![p] = c]
  BY DEF TsInd, TsTypeOK, Turn, Counts, Pids
<1>2. cc[p] \in 0..15 /\ c \in 0..15 /\ (c - 1) % 16 = cc[p]
  BY <1>1 DEF TsInd, Counters, NextCc
<1>3. counted' = TRUE
  BY <1>1, <1>2 DEF TsInd, Counters
<1>4. /\ cc \in [Pids -> 0..16] /\ seen \in [Pids -> Int]
      /\ \A q \in {"video", "audio"} : cc[q] <= 15 /\ seen[q] \in {None, cc[q]}
      /\ \A q \in {"pat", "pmt"} : seen[q] \in {None, cc[q] - 1}
  BY DEF TsInd, Counters
<1> HIDE DEF p, c
<1>5. cc' \in [Pids -> 0..16] /\ seen' \in [Pids -> Int]
  BY <1>1, <1>2, <1>4
<1>6. \A q \in {"video", "audio"} : cc'[q] <= 15 /\ seen'[q] \in {None, cc'[q]}
  BY <1>1, <1>2, <1>4 DEF Pids
<1>7. \A q \in {"pat", "pmt"} : seen'[q] \in {None, cc'[q] - 1}
  BY <1>1, <1>4 DEF Pids
<1> QED  BY <1>3, <1>5, <1>6, <1>7 DEF Counters

\* How one turn moves the header and the data: they fill the TS packet.
LEMMA TurnProgress ==
    ASSUME TsInd, Turn
    PROVE  /\ left' \in Nat /\ pesLeft' \in Nat /\ wBytes' \in Nat /\ first' = FALSE
           /\ Progress'
<1> DEFINE size == frame.size
           len == frame.pes.len
           pesKey == first /\ frame.key
           head == IF first THEN Lesser(pesLeft, tsPacketLen - PayloadStart) ELSE 0
           data == IF PayloadStart + head < tsPacketLen
                     THEN Lesser(DataLen - head, tsPacketLen - PayloadStart - head)
                     ELSE 0
           from == IF head > 0 THEN len - pesLeft ELSE len + wBytes
<1>1. /\ left \in Nat /\ left > 0
      /\ pesLeft \in Nat /\ wBytes \in Nat /\ size \in Nat /\ len \in Nat /\ len <= 19
      /\ left = (pesLeft + size) - wBytes
      /\ wBytes <= size
      /\ first => pesLeft = len /\ wBytes = 0 /\ pesLeft # 0
      /\ ~first => pesLeft = 0
      /\ first \in BOOLEAN /\ frame.key \in BOOLEAN
  BY DEF TsInd, TsTypeOK, Progress, Turn
<1>2. /\ pesLeft' = pesLeft - head /\ wBytes' = wBytes + data
      /\ left' = left - head - data /\ first' = FALSE
      /\ got' = got + head + data
      /\ intact' = (intact /\ from = got
                      /\ PayloadStart = PayloadAt(AdaptationLen)
                      /\ PayloadStart + head + data = tsPacketLen)
      /\ frame' = frame
  BY DEF Turn
<1>3. ~Misplaced => intact = TRUE /\ got = (len - pesLeft) + wBytes
  BY DEF TsInd, Progress
<1>4. pesLeft <= 19 /\ pesLeft <= left
  BY <1>1
<1>5. /\ pesKey => HeadLen = 12
      /\ ~pesKey => HeadLen = 4
  BY DEF HeadLen
<1>6. ~Misplaced /\ pesKey => left >= 184 \/ left = 176
  BY <1>1 DEF Misplaced, tsDefaultDataLen
<1> HIDE DEF size, len, pesKey
<1>7. HeadLen \in {4, 12}
  BY <1>5
<1>8. ASSUME left >= 184
      PROVE  /\ Remain = 0 /\ PayloadStart = HeadLen /\ DataLen = 188 - HeadLen
             /\ PayloadStart = PayloadAt(AdaptationLen)
  <2>1. Remain = 0 /\ DataLen = 188 - HeadLen
    BY <1>1, <1>7, <1>8 DEF Remain, DataLen, tsDefaultDataLen
  <2>2. PayloadStart = HeadLen
    BY <1>7, <2>1 DEF PayloadStart
  <2>3. PayloadAt(AdaptationLen) = HeadLen
    BY <1>1, <1>7, <1>8 DEF PayloadAt, AdaptationLen, tsDefaultDataLen, None
  <2> QED  BY <2>1, <2>2, <2>3
<1>9. ASSUME left < 184
      PROVE  /\ PayloadStart = 188 - left /\ DataLen = left
             /\ ~Misplaced => PayloadStart = PayloadAt(AdaptationLen)
  <2>1. DataLen = left
    BY <1>9 DEF DataLen, tsDefaultDataLen
  <2>2. Remain = (188 - left - HeadLen) % 256
    BY <1>1, <1>7, <1>9 DEF Remain, tsDefaultDataLen
  <2>3. PayloadStart = 188 - left
    BY <1>1, <1>7, <1>9, <2>2 DEF PayloadStart
  <2>4. ASSUME ~Misplaced PROVE PayloadStart = PayloadAt(AdaptationLen)
    <3>1. CASE pesKey
      <4>1. HeadLen = 12 /\ left = 176
        BY <1>1, <1>5, <1>6, <1>9, <2>4, <3>1
      <4> QED  BY <2>3, <4>1 DEF PayloadAt, AdaptationLen, None
    <3>2. CASE ~pesKey
      <4>1. HeadLen = 4 /\ Remain = 184 - left /\ Remain >= 1
        BY <1>1, <1>5, <1>9, <2>2, <3>2
      <4> QED
        BY <1>1, <1>9, <2>3, <4>1 DEF PayloadAt, AdaptationLen, tsDefaultDataLen, None
    <3> QED  BY <3>1, <3>2
  <2> QED  BY <2>1, <2>3, <2>4
<1>10. head = pesLeft
  <2>1. PayloadStart \in 4..188 /\ pesLeft <= tsPacketLen - PayloadStart
    BY <1>1, <1>4, <1>7, <1>8, <1>9 DEF tsPacketLen
  <2> QED  BY <1>1, <2>1 DEF Lesser, tsPacketLen
<1>11. /\ PayloadStart \in Nat /\ data \in Nat
       /\ PayloadStart + head + data = tsPacketLen
       /\ ~(left >= 184) => data = left - head
       /\ left >= 184 => data <= left - head
  <2>1. CASE left >= 184
    BY <1>1, <1>4, <1>7, <1>8, <1>10, <2>1 DEF Lesser, tsPacketLen
  <2>2. CASE left < 184
    BY <1>1, <1>4, <1>9, <1>10, <2>2 DEF Lesser, tsPacketLen
  <2> QED  BY <1>1, <2>1, <2>2
<1>12. ~Misplaced => from = got
  BY <1>1, <1>3, <1>10
<1> HIDE DEF head, data, from
<1>13. /\ left' \in Nat /\ pesLeft' = 0 /\ wBytes' \in Nat
       /\ left' = (pesLeft' + size) - wBytes'
       /\ wBytes' <= size
  <2>1. pesLeft' = 0 /\ wBytes' = wBytes + data /\ left' = left - pesLeft - data
    BY <1>1, <1>2, <1>10
  <2>2. data \in Nat /\ data <= left - pesLeft
    BY <1>1, <1>10, <1>11
  <2> QED  BY <1>1, <2>1, <2>2
<1>14. ASSUME ~Misplaced
       PROVE  intact' = TRUE /\ got' = (len - pesLeft') + wBytes'
  <2>1. intact' = TRUE
    <3>1. PayloadStart = PayloadAt(AdaptationLen)
      BY <1>1, <1>8, <1>9, <1>14
    <3>2. intact = TRUE /\ from = got
      BY <1>3, <1>12, <1>14
    <3> QED  BY <1>2, <1>11, <3>1, <3>2, Zenon
  <2>2. got' = (len - pesLeft') + wBytes'
    <3>1. got' = got + pesLeft + data /\ got = (len - pesLeft) + wBytes /\ data \in Nat
      BY <1>2, <1>3, <1>10, <1>11, <1>14
    <3> QED  BY <1>1, <1>2, <1>13, <3>1
  <2> QED  BY <2>1, <2>2
<1>15. first' = FALSE /\ frame' = frame
  BY <1>2
<1>16. Misplaced' = Misplaced
  BY <1>15 DEF Misplaced
<1> QED  BY <1>13, <1>14, <1>15, <1>16 DEF Progress, size, len

\* One turn of the loop keeps the invariant: the frame itself does not change.
LEMMA TurnLemma == TsInd /\ Turn => TsInd'
<1> SUFFICES ASSUME TsInd, Turn PROVE TsInd'
  OBVIOUS
<1>1. frame' = frame /\ pcr' \in {pcr, frame.dts % TsMod}
  BY DEF Turn
<1>2. Progress' /\ TsTypeOK'
  BY <1>1, TurnProgress DEF TsInd, TsTypeOK
<1>3. Clocks'
  BY <1>1 DEF TsInd, Clocks
<1> QED  BY <1>2, <1>3, TurnCounters DEF TsInd

\* PAT and PMT disturb the counter of their own PID only.
LEMMA TableLemma ==
    ASSUME NEW t \in {"pat", "pmt"}, TsInd, Table(t)
    PROVE  TsInd'
<1> DEFINE c == IF cc[t] > 15 THEN 0 ELSE cc[t]
<1>1. /\ t \in Pids
      /\ cc' = [cc EXCEPT ![t] = c + 1]
      /\ counted' = (counted /\ seen[t] \in {None, (c - 1) % 16})
      /\ seen' = [seen EXCEPT ![t] = c]
      /\ UNCHANGED <<frame, left, pesLeft, wBytes, first, got, intact, pcr>>
  BY DEF Table, Counts, Pids
<1>2. cc[t] \in 0..16 /\ c \in 0..15 /\ seen[t] \in {None, (c - 1) % 16}
  BY <1>1 DEF TsInd, Counters, None
<1>3. Counters'
  <2>1. counted' = TRUE
    BY <1>1, <1>2 DEF TsInd, Counters
  <2>2. /\ cc \in [Pids -> 0..16] /\ seen \in [Pids -> Int]
        /\ \A p \in {"video", "audio"} : cc[p] <= 15 /\ seen[p] \in {None, cc[p]}
        /\ \A p \in {"pat", "pmt"} : seen[p] \in {None, cc[p] - 1}
    BY DEF TsInd, Counters
  <2>3. cc' \in [Pids -> 0..16] /\ seen' \in [Pids -> Int]
    BY <1>1, <1>2, <2>2
  <2>4. \A p \in {"video", "audio"} : cc'[p] <= 15 /\ seen'[p] \in {None, cc'[p]}
    BY <1>1, <1>2, <2>2 DEF Pids
  <2>5. \A p \in {"pat", "pmt"} : seen'[p] \in {None, cc'[p] - 1}
    BY <1>1, <1>2, <2>2 DEF Pids
  <2> QED  BY <2>1, <2>3, <2>4, <2>5 DEF Counters
<1>4. TsTypeOK' /\ Progress' /\ Clocks'
  BY <1>1 DEF TsInd, TsTypeOK, Progress, Misplaced, Clocks
<1> QED  BY <1>3, <1>4 DEF TsInd

\* Every step keeps the invariant.
LEMMA TsIndNext == TsInd /\ [TsNext]_tsVars => TsInd'
<1> SUFFICES ASSUME TsInd, [TsNext]_tsVars PROVE TsInd'
  OBVIOUS
<1>1. CASE MuxBegin
  BY <1>1, MuxBeginLemma
<1>2. CASE Turn
  BY <1>2, TurnLemma
<1>3. ASSUME NEW t \in {"pat", "pmt"}, Table(t) PROVE TsInd'
  BY <1>3, TableLemma
<1>4. CASE UNCHANGED tsVars
  BY <1>4 DEF tsVars, TsInd, TsTypeOK, Counters, Progress, Misplaced, Clocks
<1> QED  BY <1>1, <1>2, <1>3, <1>4 DEF TsNext

\* When nothing is left, the demuxer has the whole frame.
LEMMA TsIndImplies == TsInd => TsRecovered
<1> SUFFICES ASSUME TsInd PROVE TsRecovered
  OBVIOUS
<1>1. /\ left \in Nat /\ pesLeft \in Nat /\ wBytes \in Nat /\ frame.size \in Nat
      /\ frame.pes.len \in {0, 14, 19} /\ frame.pes.size \in {0, frame.pes.len + frame.size - 6}
      /\ left = (pesLeft + frame.size) - wBytes /\ wBytes <= frame.size
  BY DEF TsInd, TsTypeOK, Progress
<1>2. left = 0 => pesLeft = 0 /\ wBytes = frame.size
  BY <1>1
<1>3. ~Misplaced => intact = TRUE /\ got = (frame.pes.len - pesLeft) + wBytes
  BY DEF TsInd, Progress
<1>4. ASSUME left = 0, ~Misplaced
      PROVE  intact /\ got = frame.pes.len + frame.size /\ frame.pes.size \in {0, got - 6}
  <2>1. intact
    BY <1>3, <1>4
  <2>2. got = frame.pes.len + frame.size
    <3>1. pesLeft = 0 /\ wBytes = frame.size /\ got = (frame.pes.len - pesLeft) + wBytes
      BY <1>2, <1>3, <1>4
    <3>2. frame.pes.len \in Nat
      BY <1>1
    <3> QED  BY <1>1, <3>1, <3>2
  <2> QED  BY <1>1, <2>1, <2>2
<1>5. FrameWhole
  BY <1>4 DEF FrameWhole
<1> QED  BY <1>5 DEF TsInd, Counters, TsRecovered

\* For all sets of lengths and times and for each period of the clock, a demuxer
\* recovers what Mux, PAT and PMT write: no counter jumps, no byte of a frame but a
\* short key frame is lost or moved, and no time is more than one tick late.
THEOREM TsRecoveredTheorem == TsSpec => []TsRecovered
<1>1. TsInit => TsInd
  BY TsIndInit
<1>2. TsInd /\ [TsNext]_tsVars => TsInd'
  BY TsIndNext
<1>3. TsInd => TsRecovered
  BY TsIndImplies
<1> QED  BY <1>1, <1>2, <1>3, PTL DEF TsSpec

-----------------------------------------------------------------------------
(* FLV: what flv.Reader makes of what flv.Writer or HttpFlvWriter wrote, for *)
(* packets of every time and metadata of every length, wherever it is cut.   *)

FlvSpec == FlvInit /\ [][FlvNext]_flvVars

\* Metadata that names no event is where the reader ends.
Nameless(p) == p.kind = "meta" /\ ~Reformable(Del(p.data))

\* What Read returns of a packet that was written.
ReadBack(p) ==
    IF p.kind = "meta" THEN [p EXCEPT !.data = <<SetDataFrame>> \o Del(@)] ELSE p

FlvTypes ==
    /\ written \in Seq(FlvPackets)
    /\ tags = [i \in 1..Len(written) |-> TagOf(written[i])]
    /\ packets = [i \in 1..Len(packets) |-> ReadBack(written[i])]
    /\ Len(packets) \in 0..Len(written)
    /\ cut \in BOOLEAN

\* The tags are of packets a writer accepts, those read name their event and are
\* not the one that was cut, and the reader ends where there is no such tag.
FlvInv ==
    /\ FlvTypes
    /\ tags # <<>> => header
    /\ \A i \in 1..Len(written) :
         written[i].kind # "none" /\ (written[i].kind = "meta" => Reformable(written[i].data))
    /\ flvWriter.state = "open" => packets = <<>> /\ flvReader = "reading"
    /\ \A i \in 1..Len(packets) : ~Nameless(written[i]) /\ (cut => i < Len(written))
    /\ flvReader = "ended" =>
         \/ Len(packets) = Len(written)
         \/ Nameless(written[Len(packets) + 1])
         \/ cut /\ Len(packets) + 1 = Len(written)

\* The low and the high part of a time make the time again.
LEMMA TimeReadBack ==
    ASSUME NEW ts \in 0..(Low * High - 1)
    PROVE  ((ts \div Low) % High) * Low + (ts % Low) = ts
  <1> DEFINE q == ts \div Low
             r == ts % Low
  <1>1. Low \in Nat \ {0} /\ High \in Nat \ {0} /\ ts \in Nat /\ ts < Low * High
    BY FlvAssumption
  <1>2. q \in Nat /\ r \in 0..(Low - 1) /\ ts = Low * q + r
    BY <1>1
  <1> HIDE DEF q, r
  <1>3. q < High
    <2> SUFFICES ASSUME q >= High PROVE FALSE
      BY <1>1, <1>2
    <2>1. q - High \in Nat /\ Low * (q - High) \in Nat
      BY <1>1, <1>2
    <2>2. Low * (q - High) = Low * q - Low * High
      BY <1>1, <1>2
    <2> QED BY <1>1, <1>2, <2>1, <2>2
  <1>4. q % High = q
    BY <1>1, <1>2, <1>3
  <1>5. q * Low + r = ts
    BY <1>1, <1>2
  <1> QED BY <1>4, <1>5 DEF q, r

\* MetaDataReform with DEL leaves no "@setDataFrame" in front, and with ADD puts
\* one there.
LEMMA ReformTwice ==
    ASSUME NEW p \in FlvPackets, Reformable(p.data)
    PROVE  /\ Del(p.data) \in Seq(STRING)
           /\ Reformable(Del(p.data)) => Add(Del(p.data)) = <<SetDataFrame>> \o Del(p.data)
  <1> DEFINE d == p.data
  <1>1. d \in Seq(STRING) /\ d # <<>>
    BY FlvAssumption DEF Reformable
  <1>2. Len(d) > 1 => <<d[1], d[2]>> # <<SetDataFrame, SetDataFrame>>
    BY FlvAssumption
  <1> HIDE DEF d
  <1>3. /\ Tail(d) \in Seq(STRING) /\ Len(Tail(d)) = Len(d) - 1
        /\ Head(d) = d[1]
        /\ \A i \in 1..Len(Tail(d)) : Tail(d)[i] = d[i + 1]
    BY <1>1, HeadTailProperties
  <1>4. Del(d) \in Seq(STRING)
    BY <1>1, <1>3 DEF Del
  <1>5. ASSUME Reformable(Del(d)) PROVE Head(Del(d)) # SetDataFrame
    <2>1. CASE Head(d) = SetDataFrame
      <3>1. Del(d) = Tail(d) /\ Tail(d) # <<>>
        BY <1>5, <2>1 DEF Del, Reformable
      <3>2. Len(Tail(d)) \in Nat \ {0} /\ Head(Tail(d)) = Tail(d)[1]
        BY <1>3, <3>1, EmptySeq, HeadTailProperties
      <3>3. Tail(d)[1] = d[2] /\ Len(d) > 1
        BY <1>1, <1>3, <3>2, LenProperties
      <3> QED BY <1>2, <1>3, <2>1, <3>1, <3>2, <3>3
    <2>2. CASE Head(d) # SetDataFrame
      BY <2>2 DEF Del
    <2> QED BY <2>1, <2>2
  <1>6. Reformable(Del(d)) => Add(Del(d)) = <<SetDataFrame>> \o Del(d)
    BY <1>5 DEF Add
  <1> QED BY <1>4, <1>6 DEF d

\* A tag is read as the packet it was written of.
LEMMA TagReadBack ==
    ASSUME NEW p \in FlvPackets, p.kind = "meta" => Reformable(p.data), ~Nameless(p)
    PROVE  LET tag == TagOf(p)
           IN  [kind |-> tag.type, ts |-> tag.ext * Low + tag.ts,
                data |-> IF tag.type = "meta" THEN Add(tag.data) ELSE tag.data]
               = ReadBack(p)
  <1>1. /\ p \in [kind : FlvKinds, ts : 0..(Low * High - 1), data : Seq(STRING)]
        /\ p.ts \in 0..(Low * High - 1)
    BY FlvAssumption
  <1>2. ((p.ts \div Low) % High) * Low + (p.ts % Low) = p.ts
    BY <1>1, TimeReadBack
  <1>3. TagOf(p) = [type |-> p.kind, ts |-> p.ts % Low, ext |-> (p.ts \div Low) % High,
                    data |-> IF p.kind = "meta" THEN Del(p.data) ELSE p.data]
    BY DEF TagOf, Tag
  <1>4. CASE p.kind = "meta"
    <2>1. Add(Del(p.data)) = <<SetDataFrame>> \o Del(p.data)
      BY <1>4, ReformTwice DEF Nameless
    <2>2. ReadBack(p) = [kind |-> p.kind, ts |-> p.ts, data |-> <<SetDataFrame>> \o Del(p.data)]
      BY <1>1, <1>4 DEF ReadBack
    <2>3. /\ TagOf(p).type = p.kind /\ TagOf(p).data = Del(p.data)
          /\ TagOf(p).ext * Low + TagOf(p).ts = p.ts
      BY <1>2, <1>3, <1>4
    <2> QED BY <1>4, <2>1, <2>2, <2>3
  <1>5. CASE p.kind # "meta"
    <2>1. ReadBack(p) = [kind |-> p.kind, ts |-> p.ts, data |-> p.data]
      BY <1>1, <1>5 DEF ReadBack
    <2> QED BY <1>2, <1>3, <1>5, <2>1
  <1> QED BY <1>4, <1>5

\* The tag of a packet is one that the reader takes or one that names no event.
LEMMA TagNames ==
    ASSUME NEW p
    PROVE  /\ TagOf(p).type = p.kind
           /\ Nameless(p) <=> TagOf(p).type = "meta" /\ ~Reformable(TagOf(p).data)
  BY DEF TagOf, Tag, Nameless

\* A packet that is written.
LEMMA FlvWriteKeeps ==
    ASSUME FlvInv, NEW p \in FlvPackets, FlvWrite(p)
    PROVE  FlvInv'
  <1>1. /\ flvWriter.state = "open" /\ header' = TRUE
        /\ packets = <<>> /\ flvReader = "reading"
        /\ UNCHANGED <<cut, flvReader, packets>>
    BY DEF FlvWrite, FlvInv
  <1>2. CASE UNCHANGED <<tags, written>>
    BY <1>1, <1>2 DEF FlvInv, FlvTypes
  <1>3. CASE /\ p.kind # "none" /\ (p.kind = "meta" => Reformable(p.data))
             /\ tags' = Append(tags, TagOf(p)) /\ written' = Append(written, p)
    <2> DEFINE w == written
               v == Append(w, p)
    <2>0. written' = v
      BY <1>3
    <2>1. /\ w \in Seq(FlvPackets) /\ Len(w) \in Nat
          /\ v \in Seq(FlvPackets) /\ Len(v) = Len(w) + 1
          /\ \A i \in 1..Len(w) : v[i] = w[i]
          /\ v[Len(w) + 1] = p
      BY AppendProperties, LenProperties DEF FlvInv, FlvTypes
    <2>2. Append(tags, TagOf(p)) = [i \in 1..Len(v) |-> TagOf(v[i])]
      <3> DEFINE T == {TagOf(q) : q \in FlvPackets}
                 s == [i \in 1..Len(w) |-> TagOf(w[i])]
      <3>1. tags = s
        BY DEF FlvInv, FlvTypes
      <3>2. s \in Seq(T) /\ Len(s) = Len(w)
        <4>1. \A i \in 1..Len(w) : TagOf(w[i]) \in T
          BY <2>1, ElementOfSeq
        <4>2. s \in [1..Len(w) -> T]
          BY <4>1
        <4> HIDE DEF s, T
        <4> QED BY <2>1, <4>2, LenProperties
      <3>3. \A i \in 1..Len(w) : s[i] = TagOf(w[i])
        OBVIOUS
      <3>4. TagOf(p) \in T
        OBVIOUS
      <3> HIDE DEF s, T, v, w
      <3>5. /\ Append(s, TagOf(p)) \in Seq(T)
            /\ Len(Append(s, TagOf(p))) = Len(s) + 1
            /\ \A i \in 1..Len(s) : Append(s, TagOf(p))[i] = s[i]
            /\ Append(s, TagOf(p))[Len(s) + 1] = TagOf(p)
        BY <3>2, <3>4, AppendProperties
      <3> DEFINE a == Append(s, TagOf(p))
      <3> HIDE DEF a
      <3>6. a = [i \in 1..Len(a) |-> a[i]]
        <4>1. a \in Seq(T)
          BY <3>5 DEF a
        <4> QED BY <4>1
      <3>7. Len(a) = Len(v) /\ \A i \in 1..Len(v) : a[i] = TagOf(v[i])
        BY <2>1, <3>2, <3>3, <3>5 DEF a
      <3>8. a = [i \in 1..Len(v) |-> TagOf(v[i])]
        BY <3>6, <3>7
      <3> QED BY <3>1, <3>8 DEF a
    <2>3. tags' = [i \in 1..Len(v) |-> TagOf(v[i])]
      BY <1>3, <2>2
    <2> HIDE DEF v
    <2>4. Len(packets) = 0 /\ packets' = <<>> /\ <<>> = [i \in 1..0 |-> ReadBack(v[i])]
      BY <1>1
    <2>5. FlvTypes'
      BY <1>1, <2>0, <2>1, <2>3, <2>4 DEF FlvTypes, FlvInv
    <2>6. \A i \in 1..Len(v) : v[i].kind # "none" /\ (v[i].kind = "meta" => Reformable(v[i].data))
      BY <1>3, <2>1 DEF FlvInv
    <2> QED BY <1>1, <2>0, <2>4, <2>5, <2>6 DEF FlvInv
  <1> QED BY <1>2, <1>3 DEF FlvWrite

\* A packet that is read, or the end of the reader.
LEMMA FlvReadKeeps == FlvInv /\ FlvRead => FlvInv'
  <1> SUFFICES ASSUME FlvInv, FlvRead PROVE FlvInv'
    OBVIOUS
  <1> DEFINE n == Len(packets)
             next == n + 1
             whole == header /\ next \in DOMAIN tags /\ (cut => next < Len(tags))
             tag == tags[next]
             p == [kind |-> tag.type, ts |-> tag.ext * Low + tag.ts,
                   data |-> IF tag.type = "meta" THEN Add(tag.data) ELSE tag.data]
  <1>1. /\ flvWriter.state # "open" /\ flvReader = "reading"
        /\ UNCHANGED <<flvWriter, header, tags, cut, written>>
    BY DEF FlvRead
  <1>2. /\ written \in Seq(FlvPackets) /\ Len(written) \in Nat
        /\ tags = [i \in 1..Len(written) |-> TagOf(written[i])]
        /\ n \in 0..Len(written)
    BY LenProperties DEF FlvInv, FlvTypes
  <1>3. DOMAIN tags = 1..Len(written) /\ Len(tags) = Len(written)
    BY <1>2
  <1>4. next \in 1..Len(written) => tag = TagOf(written[next])
    BY <1>2
  <1>5. CASE whole /\ (tag.type = "meta" => Reformable(tag.data))
             /\ packets' = Append(packets, p) /\ UNCHANGED flvReader
    <2>1. next \in 1..Len(written) /\ (cut => next < Len(written))
      BY <1>3, <1>5
    <2>2. ~Nameless(written[next]) /\ written[next] \in FlvPackets
      BY <1>2, <1>4, <1>5, <2>1, TagNames, ElementOfSeq
    <2>3. p = ReadBack(written[next])
      <3> DEFINE w == written[next]
      <3>1. w.kind = "meta" => Reformable(w.data)
        BY <2>1 DEF FlvInv
      <3>2. tag = TagOf(w)
        BY <1>4, <2>1
      <3> HIDE DEF w, tag
      <3> QED BY <2>2, <3>1, <3>2, TagReadBack DEF w
    <2> HIDE DEF p
    <2>4. Append(packets, p) = [i \in 1..next |-> ReadBack(written[i])] /\ Len(Append(packets, p)) = next
      <3> DEFINE R == {ReadBack(q) : q \in FlvPackets}
                 s == [i \in 1..n |-> ReadBack(written[i])]
      <3>1. packets = s
        BY DEF FlvInv, FlvTypes
      <3>2. s \in Seq(R) /\ Len(s) = n /\ p \in R
        <4>1. \A i \in 1..n : ReadBack(written[i]) \in R
          BY <1>2, ElementOfSeq
        <4>2. s \in [1..n -> R] /\ n \in Nat
          BY <1>2, <4>1
        <4>3. p \in R
          BY <2>2, <2>3
        <4> HIDE DEF s, R, n
        <4> QED BY <4>2, <4>3, LenProperties
      <3>3. \A i \in 1..n : s[i] = ReadBack(written[i])
        OBVIOUS
      <3> HIDE DEF s, R, n
      <3> DEFINE a == Append(s, p)
      <3>4. /\ a \in Seq(R) /\ Len(a) = Len(s) + 1
            /\ \A i \in 1..Len(s) : a[i] = s[i]
            /\ a[Len(s) + 1] = p
        BY <3>2, AppendProperties
      <3> HIDE DEF a
      <3>5. a = [i \in 1..Len(a) |-> a[i]]
        <4>1. a \in Seq(R)
          BY <3>4
        <4> QED BY <4>1
      <3>6. Len(a) = next /\ \A i \in 1..next : a[i] = ReadBack(written[i])
        <4>1. n \in Nat /\ next = n + 1
          BY <1>2 DEF n
        <4>2. Len(a) = n + 1 /\ a[n + 1] = p
          BY <3>2, <3>4
        <4>3. \A i \in 1..n : a[i] = ReadBack(written[i])
          BY <3>2, <3>3, <3>4
        <4>4. \A i \in 1..(n + 1) : i \in 1..n \/ i = n + 1
          BY <4>1
        <4> QED BY <2>3, <4>1, <4>2, <4>3, <4>4
      <3>7. a = [i \in 1..next |-> ReadBack(written[i])]
        BY <3>5, <3>6
      <3> QED BY <3>1, <3>6, <3>7 DEF a
    <2> HIDE DEF n
    <2>5. FlvTypes'
      BY <1>1, <1>2, <1>5, <2>1, <2>4 DEF FlvTypes, FlvInv
    <2>6. \A i \in 1..next : ~Nameless(written[i]) /\ (cut => i < Len(written))
      BY <1>2, <2>1, <2>2 DEF FlvInv, n
    <2> QED BY <1>1, <1>5, <2>4, <2>5, <2>6 DEF FlvInv
  <1>6. CASE (whole => tag.type = "meta" /\ ~Reformable(tag.data))
             /\ flvReader' = "ended" /\ UNCHANGED packets
    <2>1. \/ n = Len(written)
          \/ next \in 1..Len(written) /\ Nameless(written[next])
          \/ cut /\ next = Len(written)
      <3>1. CASE whole
        BY <1>3, <1>4, <1>6, <3>1, TagNames
      <3>2. CASE ~whole
        <4>1. n # Len(written) => next \in 1..Len(written) /\ tags # <<>>
          BY <1>2, <1>3
        <4>2. tags # <<>> => header
          BY DEF FlvInv
        <4>3. n # Len(written) => header /\ next \in DOMAIN tags
          BY <1>3, <4>1, <4>2
        <4>4. n # Len(written) => cut /\ ~(next < Len(written)) /\ next <= Len(written)
          BY <1>3, <3>2, <4>1, <4>3
        <4> HIDE DEF whole, tag
        <4> QED BY <1>2, <4>4
      <3> QED BY <3>1, <3>2
    <2> QED BY <1>1, <1>6, <2>1 DEF FlvInv, FlvTypes
  <1> QED BY <1>5, <1>6 DEF FlvRead

\* The invariant of writer and reader.
THEOREM FlvInvariant == FlvSpec => []FlvInv
  <1>1. FlvInit => FlvInv
    <2> SUFFICES ASSUME FlvInit PROVE FlvInv
      OBVIOUS
    <2>1. written = <<>> /\ tags = <<>> /\ packets = <<>> /\ cut = FALSE /\ flvReader = "reading"
      BY DEF FlvInit
    <2>2. <<>> \in Seq(FlvPackets) /\ Len(<<>>) = 0
      OBVIOUS
    <2>3. /\ <<>> = [i \in 1..0 |-> TagOf(<<>>[i])]
          /\ <<>> = [i \in 1..0 |-> ReadBack(<<>>[i])]
      OBVIOUS
    <2>4. FlvTypes
      <3>1. /\ written \in Seq(FlvPackets) /\ cut \in BOOLEAN
            /\ Len(written) = 0 /\ Len(packets) = 0
        BY <2>1, <2>2
      <3>2. tags = [i \in 1..0 |-> TagOf(written[i])]
        BY <2>1, <2>3
      <3>3. packets = [i \in 1..0 |-> ReadBack(written[i])]
        BY <2>1, <2>3
      <3> QED BY <3>1, <3>2, <3>3 DEF FlvTypes
    <2>5. \A i \in 1..0 : FALSE
      OBVIOUS
    <2> QED BY <2>1, <2>2, <2>4, <2>5 DEF FlvInv
  <1>2. FlvInv /\ [FlvNext]_flvVars => FlvInv'
    <2> SUFFICES ASSUME FlvInv, [FlvNext]_flvVars PROVE FlvInv'
      OBVIOUS
    <2>1. ASSUME NEW p \in FlvPackets, FlvWrite(p) PROVE FlvInv'
      BY <2>1, FlvWriteKeeps
    <2>2. CASE FlvClose
      BY <2>2 DEF FlvClose, FlvInv, FlvTypes
    <2>3. CASE FlvBreak
      <3>1. packets = <<>> /\ flvReader = "reading" /\ Len(packets) = 0
        BY <2>3 DEF FlvBreak, FlvInv
      <3> QED BY <2>3, <3>1 DEF FlvBreak, FlvInv, FlvTypes
    <2>4. CASE FlvRead
      BY <2>4, FlvReadKeeps
    <2>5. CASE UNCHANGED flvVars
      BY <2>5 DEF flvVars, FlvInv, FlvTypes
    <2> QED BY <2>1, <2>2, <2>3, <2>4, <2>5 DEF FlvNext
  <1> QED BY <1>1, <1>2, PTL DEF FlvSpec

\* What was written is read back, up to metadata that names no event and to the
\* tag that was cut (flv.Writer, HttpFlvWriter.SendPacket, flv.Reader).
THEOREM FlvReadBack == FlvSpec => []FlvRoundTrip
  <1>1. FlvInv => FlvRoundTrip
    <2> SUFFICES ASSUME FlvInv, flvReader = "ended" PROVE FlvRoundTrip
      BY DEF FlvRoundTrip
    <2> DEFINE Lost == {i \in DOMAIN written : Nameless(written[i])}
                         \cup (IF cut THEN {Len(tags)} ELSE {})
               Ends(k) == /\ 1..k \cap Lost = {}
                          /\ k = Len(written) \/ k + 1 \in Lost
               n == CHOOSE k \in 0..Len(written) : Ends(k)
    <2>1. PICK m \in 0..Len(written) : m = Len(packets)
      BY DEF FlvInv, FlvTypes
    <2>2. /\ DOMAIN written = 1..Len(written) /\ Len(written) \in Nat
          /\ Len(tags) = Len(written)
      BY LenProperties DEF FlvInv, FlvTypes
    <2>3. \A i \in 1..m : ~Nameless(written[i]) /\ (cut => i < Len(written))
      BY <2>1 DEF FlvInv
    <2>4. \/ m = Len(written)
          \/ m + 1 \in 1..Len(written) /\ Nameless(written[m + 1])
          \/ cut /\ m + 1 = Len(written)
      <3>1. m = Len(written) \/ m + 1 \in 1..Len(written)
        <4> DEFINE length == Len(written)
        <4>1. length \in Nat /\ m \in 0..length
          BY <2>2
        <4> HIDE DEF length
        <4>2. m = length \/ m + 1 \in 1..length
          BY <4>1
        <4> QED BY <4>2 DEF length
      <3>2. m = Len(written) \/ Nameless(written[m + 1]) \/ (cut /\ m + 1 = Len(written))
        BY <2>1 DEF FlvInv
      <3> QED BY <3>1, <3>2
    <2>5. 1..m \cap Lost = {}
      BY <2>2, <2>3
    <2>6. m = Len(written) \/ m + 1 \in Lost
      BY <2>2, <2>4
    <2>7. \A k \in 0..Len(written) : Ends(k) => k = m
      <3> DEFINE length == Len(written)
      <3>1. length \in Nat /\ m \in 0..length
        BY <2>2
      <3>2. m = length \/ m + 1 \in Lost
        BY <2>6
      <3> HIDE DEF Lost, length
      <3> SUFFICES ASSUME NEW k \in 0..length, 1..k \cap Lost = {}, k = length \/ k + 1 \in Lost
                   PROVE  k = m
        BY DEF length
      <3>3. ~(k < m)
        BY <2>5, <3>1
      <3>4. ~(m < k)
        BY <3>1, <3>2
      <3> QED BY <3>1, <3>3, <3>4
    <2>8. Ends(m)
      BY <2>5, <2>6
    <2> HIDE DEF Ends
    <2>9. n = m
      BY <2>7, <2>8
    <2> HIDE DEF n
    <2>10. packets = [i \in 1..n |->
             IF written[i].kind = "meta"
               THEN [written[i] EXCEPT !.data = <<SetDataFrame>> \o Del(@)]
               ELSE written[i]]
      <3>1. packets = [i \in 1..m |-> ReadBack(written[i])]
        BY <2>1 DEF FlvInv, FlvTypes
      <3> QED BY <2>9, <3>1 DEF ReadBack
    <2> USE DEF n, Ends
    <2> QED BY <2>10 DEF FlvRoundTrip, Nameless
  <1> QED BY <1>1, FlvInvariant, PTL

-----------------------------------------------------------------------------
(* The H.264 parser, for frames of any number of NAL units and streams of any   *)
(* number of sequence headers.                                                *)

Nals == [type : AllTypes \cup {"header"}, no : Nat]

H264TypeOK ==
    /\ specificInfo \in Seq(Nat)
    /\ pps \in Seq(Nals)
    /\ nalus \in Seq(NalTypes)
    /\ index \in 0..Len(nalus)
    /\ bwriter \in Seq(Nals)
    /\ hasSpsPps \in BOOLEAN
    /\ hasWriteSpsPps \in BOOLEAN
    /\ result \in {"idle", "run", "ok", "raw", "error"}
    /\ headers \in Nat
    /\ newest \in Nat

\* The parser holds the sets of the headers that parsed, in their order.
HeadersInOrder ==
    /\ \A i \in 1..Len(specificInfo) : specificInfo[i] <= headers
    /\ \A i, j \in 1..Len(specificInfo) : i < j => specificInfo[i] < specificInfo[j]
    /\ newest # 0 => Len(specificInfo) > 0 /\ specificInfo[Len(specificInfo)] = newest

\* The sets of the frame, as far as it is read.
SetsRead ==
    /\ \A i \in 1..Len(pps) :
         /\ pps[i].no \in 1..index
         /\ pps[i].type = nalus[pps[i].no]
         /\ pps[i].type \in Sets
    /\ \A j \in 1..index : nalus[j] \in Sets => \E i \in 1..Len(pps) : pps[i].no = j
    /\ \A i, j \in 1..Len(pps) : i < j => pps[i].no < pps[j].no
    /\ hasSpsPps <=> Len(pps) > 0

\* What is copied of the frame, as far as it is read.
UnitsCopied ==
    /\ \A i \in Places(Copied) :
         /\ bwriter[i].no \in 1..index
         /\ bwriter[i].type = nalus[bwriter[i].no]
    /\ \A j \in 1..index : nalus[j] \in Copied => \E i \in Places(Copied) : bwriter[i].no = j
    /\ InOrder(Places(Copied))
    /\ Places({"aud"}) = {1} /\ bwriter[1] = Aud

ParamPlaces == Places(Sets \cup {"header"})

\* Unit f of the frame is its first IDR slice and stands at `at`, with the parameter
\* sets before it.
Led(f, at) ==
    /\ nalus[f] = "idr" /\ \A j \in 1..(f - 1) : nalus[j] # "idr"
    /\ bwriter[at] = Nal("idr", f)
    /\ \A p \in ParamPlaces : p < at /\ p..(at - 1) \subseteq ParamPlaces
    /\ InOrder(ParamPlaces)
    /\ \/ /\ \E j \in 1..(f - 1) : nalus[j] \in Sets
          /\ \A p \in ParamPlaces :
               /\ bwriter[p].no \in 1..(f - 1)
               /\ bwriter[p].type = nalus[bwriter[p].no]
               /\ bwriter[p].type \in Sets
          /\ \A j \in 1..(f - 1) :
               nalus[j] \in Sets => \E p \in ParamPlaces : bwriter[p].no = j
       \/ /\ \A j \in 1..(f - 1) : nalus[j] \notin Sets
          /\ \A p \in ParamPlaces : bwriter[p].type = "header"
          /\ newest # 0 => at > 1 /\ bwriter[at - 1] = Nal("header", newest)

\* The parameter sets are written with the first IDR slice.
SetsWritten ==
    \/ /\ hasWriteSpsPps
       /\ \E f \in 1..index, at \in 1..Len(bwriter) : Led(f, at)
    \/ /\ ~hasWriteSpsPps
       /\ \A j \in 1..index : nalus[j] # "idr"
       /\ ParamPlaces = {}

H264Inv ==
    /\ H264TypeOK
    /\ HeadersInOrder
    /\ result \in {"run", "ok"} => SetsRead /\ UnitsCopied /\ SetsWritten
    /\ result = "ok" => index = Len(nalus)

-----------------------------------------------------------------------------
LEMMA NalFields == \A t, i : Nal(t, i).type = t /\ Nal(t, i).no = i
  BY DEF Nal

LEMMA NalIsUnit ==
    ASSUME H264TypeOK, index < Len(nalus)
    PROVE  /\ nalus[index + 1] \in AllTypes
           /\ Nal(nalus[index + 1], index + 1) \in Nals
  <1>1. index + 1 \in 1..Len(nalus) /\ nalus \in Seq(NalTypes)
    BY DEF H264TypeOK
  <1>2. nalus[index + 1] \in NalTypes
    BY <1>1, ElementOfSeq
  <1>3. nalus[index + 1] \in AllTypes /\ index + 1 \in Nat
    BY <1>1, <1>2, ParserAssumption
  <1> QED BY <1>3 DEF Nal, Nals

\* What is written before the first IDR slice are units.
LEMMA ParametersAreUnits ==
    ASSUME H264TypeOK
    PROVE  /\ Parameters \in Seq(Nals)
           /\ hasSpsPps => Parameters = pps
           /\ ~hasSpsPps => /\ Len(Parameters) = Len(specificInfo)
                            /\ \A i \in 1..Len(specificInfo) :
                                 Parameters[i] = Nal("header", specificInfo[i])
  <1>1. CASE hasSpsPps
    BY <1>1 DEF Parameters, H264TypeOK
  <1>2. CASE ~hasSpsPps
    <2> DEFINE s == [i \in 1..Len(specificInfo) |-> Nal("header", specificInfo[i])]
    <2>1. specificInfo \in Seq(Nat) /\ Len(specificInfo) \in Nat
      BY DEF H264TypeOK
    <2>2. \A i \in 1..Len(specificInfo) : specificInfo[i] \in Nat
      BY <2>1, ElementOfSeq
    <2>3. \A i \in 1..Len(specificInfo) : Nal("header", specificInfo[i]) \in Nals
      BY <2>2 DEF Nal, Nals
    <2>4. s \in Seq(Nals) /\ Len(s) = Len(specificInfo)
      BY <2>1, <2>3
    <2>5. Parameters = s
      BY <1>2 DEF Parameters
    <2> QED BY <1>2, <2>1, <2>4, <2>5
  <1> QED BY <1>1, <1>2 DEF H264TypeOK

\* One turn of the loop, by what it writes: the parameters and a slice, a unit, or
\* nothing.
LEMMA NalCases ==
    ASSUME H264TypeOK, NextNal
    PROVE  LET t == nalus[index + 1]
               n == Nal(t, index + 1)
           IN  \/ /\ t = "idr" /\ ~hasWriteSpsPps
                  /\ bwriter' = (bwriter \o Parameters) \o <<n>>
                  /\ hasWriteSpsPps' = TRUE
               \/ /\ t \in Copied /\ (t = "idr" => hasWriteSpsPps)
                  /\ bwriter' = Append(bwriter, n)
                  /\ hasWriteSpsPps' = hasWriteSpsPps
               \/ /\ t \notin Copied
                  /\ bwriter' = bwriter
                  /\ hasWriteSpsPps' = hasWriteSpsPps
  <1> DEFINE t == nalus[index + 1]
             n == Nal(t, index + 1)
  <1>1. bwriter \in Seq(Nals) /\ index < Len(nalus) /\ hasWriteSpsPps \in BOOLEAN
    BY DEF NextNal, H264TypeOK
  <1>2. n \in Nals
    BY <1>1, NalIsUnit
  <1>3. Parameters \in Seq(Nals)
    BY ParametersAreUnits
  <1>4. bwriter \o <<>> = bwriter /\ bwriter \o <<n>> = Append(bwriter, n)
    BY <1>1, <1>2
  <1>5. /\ bwriter' = (bwriter \o (IF t = "idr" /\ ~hasWriteSpsPps THEN Parameters ELSE <<>>))
                       \o (IF Keep(t) THEN <<n>> ELSE <<>>)
        /\ hasWriteSpsPps' = (hasWriteSpsPps \/ t = "idr")
    BY DEF NextNal
  <1>6. Keep(t) <=> t \in Copied
    BY DEF Keep, Copied
  <1> HIDE DEF t, n
  <1>7. CASE t = "idr" /\ ~hasWriteSpsPps
    <2>1. t \in Copied
      BY <1>7 DEF Copied
    <2> QED BY <1>5, <1>6, <1>7, <2>1 DEF t, n
  <1>8. CASE t \in Copied /\ (t = "idr" => hasWriteSpsPps)
    <2>1. bwriter' = (bwriter \o <<>>) \o <<n>>
      BY <1>5, <1>6, <1>8
    <2>2. hasWriteSpsPps' = hasWriteSpsPps
      BY <1>1, <1>5, <1>8
    <2> QED BY <1>4, <1>8, <2>1, <2>2 DEF t, n
  <1>9. CASE t \notin Copied
    <2>1. t # "idr"
      BY <1>9 DEF Copied
    <2>2. bwriter' = (bwriter \o <<>>) \o <<>>
      BY <1>5, <1>6, <1>9, <2>1
    <2>3. hasWriteSpsPps' = hasWriteSpsPps
      BY <1>1, <1>5, <2>1
    <2> QED BY <1>4, <1>9, <2>2, <2>3 DEF t, n
  <1> QED BY <1>7, <1>8, <1>9 DEF t, n

\* The sequence a turn of the loop leaves, place by place.
LEMMA NalAppended ==
    ASSUME H264TypeOK, NEW n \in Nals, bwriter' = Append(bwriter, n)
    PROVE  /\ bwriter' \in Seq(Nals)
           /\ Len(bwriter') = Len(bwriter) + 1
           /\ \A i \in 1..Len(bwriter) : bwriter'[i] = bwriter[i]
           /\ bwriter'[Len(bwriter) + 1] = n
           /\ \A T : Places(T)' = Places(T) \cup
                             (IF n.type \in T THEN {Len(bwriter) + 1} ELSE {})
  <1> DEFINE k == Len(bwriter)
  <1>1. bwriter \in Seq(Nals) /\ k \in Nat
    BY DEF H264TypeOK
  <1>2. /\ bwriter' \in Seq(Nals)
        /\ Len(bwriter') = k + 1
        /\ \A i \in 1..k : bwriter'[i] = bwriter[i]
        /\ bwriter'[k + 1] = n
    BY <1>1, AppendProperties
  <1>3. ASSUME NEW T PROVE Places(T)' = Places(T) \cup
                             (IF n.type \in T THEN {k + 1} ELSE {})
    <2>1. Places(T)' = {i \in 1..Len(bwriter') : bwriter'[i].type \in T}
      BY DEF Places
    <2>2. Places(T) = {i \in 1..k : bwriter[i].type \in T}
      BY DEF Places
    <2> HIDE DEF k
    <2> QED BY <1>1, <1>2, <2>1, <2>2
  <1> QED BY <1>2, <1>3

LEMMA SetsAppended ==
    ASSUME H264TypeOK, NEW n \in Nals,
           bwriter' = (bwriter \o Parameters) \o <<n>>
    PROVE  LET a == Len(bwriter)
               k == Len(Parameters)
           IN  /\ k \in Nat
               /\ bwriter' \in Seq(Nals)
               /\ Len(bwriter') = a + k + 1
               /\ \A i \in 1..a : bwriter'[i] = bwriter[i]
               /\ \A i \in 1..k : bwriter'[a + i] = Parameters[i]
               /\ bwriter'[a + k + 1] = n
  <1> DEFINE a == Len(bwriter)
             k == Len(Parameters)
             b == bwriter \o Parameters
  <1>1. bwriter \in Seq(Nals) /\ a \in Nat /\ Parameters \in Seq(Nals) /\ k \in Nat
    BY ParametersAreUnits DEF H264TypeOK
  <1>2. /\ b \in Seq(Nals)
        /\ Len(b) = a + k
        /\ \A i \in 1..(a + k) :
              b[i] = IF i <= a THEN bwriter[i] ELSE Parameters[i - a]
    BY <1>1, ConcatProperties
  <1>3. bwriter' = Append(b, n)
    <2> HIDE DEF b
    <2> QED BY <1>2 DEF b
  <1> HIDE DEF b, a, k
  <1>4. /\ bwriter' \in Seq(Nals)
        /\ Len(bwriter') = a + k + 1
        /\ \A i \in 1..(a + k) : bwriter'[i] = b[i]
        /\ bwriter'[a + k + 1] = n
    <2>1. Len(b) \in Nat /\ Len(b) + 1 = a + k + 1
      BY <1>1, <1>2
    <2>2. /\ Append(b, n) \in Seq(Nals)
          /\ Len(Append(b, n)) = Len(b) + 1
          /\ \A i \in 1..Len(b) : Append(b, n)[i] = b[i]
          /\ Append(b, n)[Len(b) + 1] = n
      BY <1>2, AppendProperties
    <2> QED BY <1>2, <1>3, <2>1, <2>2
  <1>5. \A i \in 1..a : bwriter'[i] = bwriter[i]
    <2>1. ASSUME NEW i \in 1..a PROVE bwriter'[i] = bwriter[i]
      <3>1. i \in 1..(a + k) /\ i <= a
        BY ONLY <1>1
      <3> QED BY <1>2, <1>4, <3>1
    <2> QED BY <2>1
  <1>6. ASSUME NEW i \in 1..k PROVE bwriter'[a + i] = Parameters[i]
    <2>1. a + i \in 1..(a + k) /\ ~(a + i <= a) /\ (a + i) - a = i
      BY <1>1
    <2> QED BY <1>2, <1>4, <2>1
  <1> QED BY <1>1, <1>4, <1>5, <1>6 DEF a, k

-----------------------------------------------------------------------------
LEMMA TypeKept ==
    ASSUME H264TypeOK, NextNal
    PROVE  H264TypeOK'
  <1> DEFINE n == Nal(nalus[index + 1], index + 1)
  <1>1. index < Len(nalus) /\ index' = index + 1
    BY DEF NextNal
  <1>2. n \in Nals
    BY <1>1, NalIsUnit
  <1> HIDE DEF n
  <1>3. bwriter' \in Seq(Nals) /\ hasWriteSpsPps' \in BOOLEAN
    <2>1. \/ bwriter' = (bwriter \o Parameters) \o <<n>> /\ hasWriteSpsPps' = TRUE
          \/ bwriter' = Append(bwriter, n) /\ hasWriteSpsPps' = hasWriteSpsPps
          \/ bwriter' = bwriter /\ hasWriteSpsPps' = hasWriteSpsPps
      BY NalCases DEF n
    <2>2. CASE bwriter' = (bwriter \o Parameters) \o <<n>> /\ hasWriteSpsPps' = TRUE
      BY <1>2, <2>2, SetsAppended
    <2>3. CASE bwriter' = Append(bwriter, n) /\ hasWriteSpsPps' = hasWriteSpsPps
      BY <1>2, <2>3, NalAppended DEF H264TypeOK
    <2>4. CASE bwriter' = bwriter /\ hasWriteSpsPps' = hasWriteSpsPps
      BY <2>4 DEF H264TypeOK
    <2> QED BY <2>1, <2>2, <2>3, <2>4
  <1>4. pps' \in Seq(Nals) /\ hasSpsPps' \in BOOLEAN
    <2>1. \/ hasSpsPps' = TRUE /\ pps' = Append(pps, n)
          \/ UNCHANGED <<hasSpsPps, pps>>
      BY DEF NextNal, n
    <2>2. pps \in Seq(Nals) /\ hasSpsPps \in BOOLEAN
      BY DEF H264TypeOK
    <2>3. Append(pps, n) \in Seq(Nals)
      BY <1>2, <2>2, AppendProperties
    <2> QED BY <2>1, <2>2, <2>3
  <1>5. UNCHANGED <<specificInfo, nalus, result, headers, newest>>
    BY DEF NextNal
  <1> QED BY <1>1, <1>3, <1>4, <1>5 DEF H264TypeOK

\* The sets of the frame after a turn of the loop.
LEMMA SetsReadKept ==
    ASSUME H264TypeOK, SetsRead, NextNal
    PROVE  SetsRead'
  <1> DEFINE t == nalus[index + 1]
             n == Nal(t, index + 1)
             k == Len(pps)
  <1>1. /\ index < Len(nalus) /\ index' = index + 1 /\ nalus' = nalus
        /\ index \in Nat /\ pps \in Seq(Nals) /\ k \in Nat
        /\ hasSpsPps \in BOOLEAN
    BY DEF NextNal, H264TypeOK
  <1>2. n \in Nals /\ n.type = t /\ n.no = index + 1
    BY <1>1, NalIsUnit DEF Nal
  <1>3. \/ t \in Sets /\ hasSpsPps' = TRUE /\ pps' = Append(pps, n)
        \/ t \notin Sets /\ hasSpsPps' = hasSpsPps /\ pps' = pps
    BY DEF NextNal, Sets
  <1>4. \A j \in 1..index' : j \in 1..index \/ j = index + 1
    BY <1>1
  <1> HIDE DEF t, n, k
  <1>5. CASE t \in Sets /\ hasSpsPps' = TRUE /\ pps' = Append(pps, n)
    <2>1. /\ Len(pps') = k + 1
          /\ \A i \in 1..k : pps'[i] = pps[i]
          /\ pps'[k + 1] = n
      BY <1>1, <1>2, <1>5, AppendProperties DEF k
    <2>2. \A i \in 1..(k + 1) : i \in 1..k \/ i = k + 1
      BY <1>1
    <2>3. ASSUME NEW i \in 1..(k + 1)
          PROVE  /\ pps'[i].no \in 1..index'
                 /\ pps'[i].type = nalus'[pps'[i].no]
                 /\ pps'[i].type \in Sets
      <3>1. CASE i \in 1..k
        BY <1>1, <2>1, <3>1 DEF SetsRead, k
      <3>2. CASE i = k + 1
        BY <1>1, <1>2, <1>5, <2>1, <3>2 DEF t
      <3> QED BY <2>2, <3>1, <3>2
    <2>4. ASSUME NEW j \in 1..index', nalus'[j] \in Sets
          PROVE  \E i \in 1..(k + 1) : pps'[i].no = j
      <3>1. CASE j \in 1..index
        <4>1. PICK i \in 1..k : pps[i].no = j
          BY <1>1, <2>4, <3>1 DEF SetsRead, k
        <4> QED BY <1>1, <2>1, <4>1
      <3>2. CASE j = index + 1
        BY <1>1, <1>2, <2>1, <3>2
      <3> QED BY <1>4, <3>1, <3>2
    <2>5. ASSUME NEW i \in 1..(k + 1), NEW j \in 1..(k + 1), i < j
          PROVE  pps'[i].no < pps'[j].no
      <3>1. i \in 1..k
        BY <1>1, <2>5
      <3>2. CASE j \in 1..k
        BY <2>1, <2>5, <3>1, <3>2 DEF SetsRead, k
      <3>3. CASE j = k + 1
        <4>1. pps[i].no \in 1..index
          BY <3>1 DEF SetsRead, k
        <4> QED BY <1>1, <1>2, <2>1, <3>1, <3>3, <4>1
      <3> QED BY <2>2, <3>2, <3>3
    <2>6. hasSpsPps' <=> Len(pps') > 0
      BY <1>1, <1>5, <2>1
    <2> QED BY <2>1, <2>3, <2>4, <2>5, <2>6 DEF SetsRead
  <1>6. CASE t \notin Sets /\ hasSpsPps' = hasSpsPps /\ pps' = pps
    <2>1. \A i \in 1..Len(pps) : pps[i].no \in 1..index'
      BY <1>1 DEF SetsRead
    <2>2. ASSUME NEW j \in 1..index', nalus[j] \in Sets PROVE j \in 1..index
      BY <1>4, <1>6, <2>2 DEF t
    <2> QED BY <1>1, <1>6, <2>1, <2>2 DEF SetsRead
  <1> QED BY <1>3, <1>5, <1>6

\* The places of the units once the sets and the first IDR slice are written.
LEMMA PlacesWithSets ==
    ASSUME H264TypeOK, SetsRead, NEW n \in Nals, n.type = "idr",
           bwriter' = (bwriter \o Parameters) \o <<n>>
    PROVE  LET a == Len(bwriter)
               k == Len(Parameters)
           IN  /\ Places(Copied)' = Places(Copied) \cup {a + k + 1}
               /\ Places({"aud"})' = Places({"aud"})
               /\ ParamPlaces' = ParamPlaces \cup (a + 1)..(a + k)
  <1> DEFINE a == Len(bwriter)
             k == Len(Parameters)
  <1>1. /\ a \in Nat /\ k \in Nat
        /\ Len(bwriter') = a + k + 1
        /\ \A i \in 1..a : bwriter'[i] = bwriter[i]
        /\ \A i \in 1..k : bwriter'[a + i] = Parameters[i]
        /\ bwriter'[a + k + 1] = n
    BY SetsAppended DEF H264TypeOK
  <1>2. \A i \in 1..k : Parameters[i].type \in Sets \cup {"header"}
    <2>1. CASE hasSpsPps
      BY <2>1, ParametersAreUnits DEF SetsRead
    <2>2. CASE ~hasSpsPps
      <3>1. ASSUME NEW i \in 1..k PROVE Parameters[i] = Nal("header", specificInfo[i])
        BY <2>2, ParametersAreUnits
      <3>2. ASSUME NEW i \in 1..k PROVE Parameters[i].type = "header"
        BY ONLY <3>1, NalFields
      <3> QED BY <3>2
    <2> QED BY <2>1, <2>2
  <1>3. \A T : Places(T) = {i \in 1..a : bwriter[i].type \in T}
    BY DEF Places
  <1>4. \A T : Places(T)' = {i \in 1..(a + k + 1) : bwriter'[i].type \in T}
    BY <1>1 DEF Places
  <1> HIDE DEF a, k
  <1>5. ASSUME NEW i \in (a + 1)..(a + k) PROVE bwriter'[i].type \in Sets \cup {"header"}
    <2> DEFINE j == i - a
    <2>1. j \in 1..k /\ a + j = i
      BY <1>1
    <2> HIDE DEF j
    <2> QED BY <1>1, <1>2, <2>1
  <1>6. \A i \in 1..(a + k + 1) : i \in 1..a \/ i \in (a + 1)..(a + k) \/ i = a + k + 1
    <2>1. a \in Nat /\ k \in Nat
      BY <1>1
    <2> QED BY ONLY <2>1
  <1>7. ASSUME NEW T PROVE
          /\ Places(T) \subseteq Places(T)'
          /\ \A i \in Places(T)' : \/ i \in Places(T)
                                   \/ i \in (a + 1)..(a + k) /\ bwriter'[i].type \in T
                                   \/ i = a + k + 1 /\ n.type \in T
          /\ n.type \in T => a + k + 1 \in Places(T)'
    <2>0. /\ \A i : i \in Places(T) <=> i \in 1..a /\ bwriter[i].type \in T
          /\ \A i : i \in Places(T)' <=> i \in 1..(a + k + 1) /\ bwriter'[i].type \in T
      BY <1>3, <1>4
    <2>1. ASSUME NEW i \in Places(T) PROVE i \in Places(T)'
      <3>1. i \in 1..a /\ bwriter[i].type \in T
        BY <2>0
      <3>2. i \in 1..(a + k + 1) /\ bwriter'[i] = bwriter[i]
        BY <1>1, <3>1
      <3> QED BY <2>0, <3>1, <3>2
    <2>2. ASSUME NEW i \in Places(T)'
          PROVE  \/ i \in Places(T)
                 \/ i \in (a + 1)..(a + k) /\ bwriter'[i].type \in T
                 \/ i = a + k + 1 /\ n.type \in T
      <3>1. i \in 1..(a + k + 1) /\ bwriter'[i].type \in T
        BY <2>0
      <3>2. CASE i \in 1..a
        BY <1>1, <2>0, <3>1, <3>2
      <3> QED BY <1>1, <1>6, <3>1, <3>2
    <2>3. n.type \in T => a + k + 1 \in Places(T)'
      <3>1. a + k + 1 \in 1..(a + k + 1)
        BY <1>1
      <3> QED BY <1>1, <2>0, <3>1
    <2>4. Places(T) \subseteq Places(T)'
      BY <2>1
    <2>5. \A i \in Places(T)' : \/ i \in Places(T)
                                \/ i \in (a + 1)..(a + k) /\ bwriter'[i].type \in T
                                \/ i = a + k + 1 /\ n.type \in T
      BY <2>2
    <2> QED BY <2>3, <2>4, <2>5
  <1>8. Places(Copied)' = Places(Copied) \cup {a + k + 1}
    <2>1. \A x \in Sets \cup {"header"} : x \notin Copied
      BY DEF Sets, Copied
    <2>2. "idr" \in Copied
      BY DEF Copied
    <2>3. \A i \in Places(Copied)' : i \in Places(Copied) \/ i = a + k + 1
      <3>1. ASSUME NEW i \in Places(Copied)' PROVE i \in Places(Copied) \/ i = a + k + 1
        <4>1. CASE i \in (a + 1)..(a + k) /\ bwriter'[i].type \in Copied
          BY ONLY <1>5, <2>1, <4>1
        <4> QED BY ONLY <1>7, <3>1, <4>1
      <3> QED BY <3>1
    <2>4. Places(Copied) \subseteq Places(Copied)' /\ a + k + 1 \in Places(Copied)'
      BY <1>7, <2>2
    <2> QED BY <2>3, <2>4
  <1>9. Places({"aud"})' = Places({"aud"})
    <2>1. \A x \in Sets \cup {"header"} : x \notin {"aud"}
      BY DEF Sets
    <2>2. n.type \notin {"aud"}
      OBVIOUS
    <2>3. \A i \in Places({"aud"})' : i \in Places({"aud"})
      BY <1>5, <1>7, <2>1, <2>2
    <2>4. Places({"aud"}) \subseteq Places({"aud"})'
      BY <1>7
    <2> QED BY <2>3, <2>4
  <1>10. ParamPlaces' = ParamPlaces \cup (a + 1)..(a + k)
    <2>1. n.type \notin Sets \cup {"header"}
      BY DEF Sets
    <2>2. (a + 1)..(a + k) \subseteq Places(Sets \cup {"header"})'
      <3>1. ASSUME NEW i \in (a + 1)..(a + k)
            PROVE  i \in {x \in 1..(a + k + 1) : bwriter'[x].type \in Sets \cup {"header"}}
        <4>1. i \in 1..(a + k + 1)
          BY <1>1
        <4> QED BY <1>5, <4>1
      <3> QED BY <1>4, <3>1
    <2>3. ParamPlaces = Places(Sets \cup {"header"}) /\ ParamPlaces' = Places(Sets \cup {"header"})'
      BY DEF ParamPlaces
    <2> QED BY <1>7, <2>1, <2>2, <2>3
  <1> QED BY <1>8, <1>9, <1>10 DEF a, k

\* One more unit of the frame that is copied.
LEMMA CopyOne ==
    ASSUME H264TypeOK, UnitsCopied, NextNal, nalus[index + 1] \in Copied,
           NEW m \in Nat, Len(bwriter) < m,
           bwriter'[m] = Nal(nalus[index + 1], index + 1),
           \A i \in 1..Len(bwriter) : bwriter'[i] = bwriter[i],
           Places(Copied)' = Places(Copied) \cup {m},
           Places({"aud"})' = Places({"aud"})
    PROVE  UnitsCopied'
  <1> DEFINE k == Len(bwriter)
             t == nalus[index + 1]
             P == Places(Copied)
  <1>1. /\ index' = index + 1 /\ nalus' = nalus /\ index \in Nat /\ k \in Nat
    BY DEF NextNal, H264TypeOK
  <1>2. P \subseteq 1..k /\ m \notin 1..k
    BY <1>1 DEF Places
  <1>3. bwriter'[m].type = t /\ bwriter'[m].no = index + 1
    BY DEF Nal
  <1>4. \A i \in P : bwriter'[i] = bwriter[i] /\ bwriter[i].no \in 1..index
    BY <1>2 DEF UnitsCopied
  <1> HIDE DEF k, t, P
  <1>5. ASSUME NEW i \in P \cup {m}
        PROVE  bwriter'[i].no \in 1..index' /\ bwriter'[i].type = nalus'[bwriter'[i].no]
    <2>1. CASE i \in P
      <3>1. bwriter[i].type = nalus[bwriter[i].no]
        BY <2>1 DEF P, UnitsCopied
      <3> QED BY <1>1, <1>4, <2>1, <3>1
    <2>2. CASE i = m
      BY <1>1, <1>3, <2>2 DEF t
    <2> QED BY <1>5, <2>1, <2>2
  <1>6. ASSUME NEW j \in 1..index', nalus'[j] \in Copied
        PROVE  \E i \in P \cup {m} : bwriter'[i].no = j
    <2>1. CASE j \in 1..index
      <3>1. PICK i \in P : bwriter[i].no = j
        BY <1>1, <1>6, <2>1 DEF P, UnitsCopied
      <3> QED BY <1>4, <3>1
    <2>2. CASE j = index + 1
      BY <1>3, <2>2
    <2> QED BY <1>1, <2>1, <2>2
  <1>7. ASSUME NEW i \in P \cup {m}, NEW j \in P \cup {m}, i < j
        PROVE  bwriter'[i].no < bwriter'[j].no
    <2>1. \A x \in P : x <= k /\ x \in Nat
      BY <1>1, <1>2 DEF k
    <2>2. i \in P
      BY <1>1, <1>7, <2>1 DEF k
    <2>3. CASE j \in P
      <3>1. bwriter[i].no < bwriter[j].no
        BY <1>7, <2>2, <2>3 DEF P, UnitsCopied, InOrder
      <3> QED BY <1>4, <2>2, <2>3, <3>1
    <2>4. CASE j = m
      <3>1. bwriter'[i].no = bwriter[i].no /\ bwriter[i].no \in 1..index
        BY <1>4, <2>2
      <3>2. bwriter'[j].no = index + 1
        BY <1>3, <2>4
      <3>3. \A x \in 1..index : x < index + 1
        BY <1>1
      <3> QED BY ONLY <3>1, <3>2, <3>3
    <2> QED BY <1>7, <2>3, <2>4
  <1>8. InOrder(Places(Copied))'
    <2>1. Places(Copied)' = P \cup {m}
      BY DEF P
    <2> QED BY <1>7, <2>1 DEF InOrder
  <1>9. bwriter'[1] = Aud
    <2>1. 1 \in 1..k
      BY DEF UnitsCopied, Places, k
    <2> QED BY <2>1 DEF UnitsCopied, k
  <1> QED BY <1>5, <1>6, <1>8, <1>9 DEF UnitsCopied, P, Aud, Nal

LEMMA UnitsCopiedKept ==
    ASSUME H264TypeOK, SetsRead, UnitsCopied, NextNal
    PROVE  UnitsCopied'
  <1> DEFINE t == nalus[index + 1]
             n == Nal(t, index + 1)
  <1>1. /\ index' = index + 1 /\ nalus' = nalus /\ index \in Nat /\ index < Len(nalus)
        /\ Len(bwriter) \in Nat
    BY DEF NextNal, H264TypeOK
  <1>2. n \in Nals /\ n.type = t /\ n.no = index + 1
    BY <1>1, NalIsUnit DEF Nal
  <1>3. CASE t = "idr" /\ bwriter' = (bwriter \o Parameters) \o <<n>>
    <2>1. t \in Copied
      BY <1>3 DEF Copied
    <2> DEFINE m == Len(bwriter) + Len(Parameters) + 1
    <2>2. /\ Len(Parameters) \in Nat
          /\ bwriter'[m] = n
          /\ \A i \in 1..Len(bwriter) : bwriter'[i] = bwriter[i]
      BY <1>2, <1>3, SetsAppended
    <2>3. /\ Places(Copied)' = Places(Copied) \cup {m}
          /\ Places({"aud"})' = Places({"aud"})
      BY <1>2, <1>3, PlacesWithSets
    <2>4. m \in Nat /\ Len(bwriter) < m
      BY <1>1, <2>2
    <2> HIDE DEF m
    <2> QED BY <2>1, <2>2, <2>3, <2>4, CopyOne
  <1>4. CASE t \in Copied /\ bwriter' = Append(bwriter, n)
    <2> DEFINE m == Len(bwriter) + 1
    <2>1. /\ bwriter'[m] = n
          /\ \A i \in 1..Len(bwriter) : bwriter'[i] = bwriter[i]
          /\ \A T : Places(T)' = Places(T) \cup (IF n.type \in T THEN {m} ELSE {})
      BY <1>2, <1>4, NalAppended
    <2>2. Places(Copied)' = Places(Copied) \cup {m}
      BY <1>2, <1>4, <2>1
    <2>3. Places({"aud"})' = Places({"aud"})
      <3>1. n.type \notin {"aud"}
        BY <1>2, <1>4 DEF Copied
      <3> QED BY <2>1, <3>1
    <2>4. m \in Nat /\ Len(bwriter) < m
      BY <1>1
    <2> HIDE DEF m
    <2> QED BY <1>4, <2>1, <2>2, <2>3, <2>4, CopyOne
  <1>5. CASE t \notin Copied /\ bwriter' = bwriter
    <2>1. \A T : Places(T)' = Places(T)
      BY <1>5 DEF Places
    <2>2. \A j \in 1..index' : nalus[j] \in Copied => j \in 1..index
      <3>1. \A j \in 1..index' : j \in 1..index \/ j = index + 1
        BY <1>1
      <3> QED BY <1>5, <3>1
    <2>3. \A j \in 1..index : j \in 1..index'
      BY <1>1
    <2>4. InOrder(Places(Copied))'
      BY <1>5, <2>1 DEF UnitsCopied, InOrder
    <2> QED BY <1>1, <1>5, <2>1, <2>2, <2>3, <2>4 DEF UnitsCopied
  <1> QED BY <1>3, <1>4, <1>5, NalCases
\* What is written later leaves the first IDR slice and its sets alone.
LEMMA LedStays ==
    ASSUME NEW f \in Nat, NEW at \in 1..Len(bwriter), Len(bwriter) \in Nat, Led(f, at),
           UNCHANGED <<nalus, newest>>, ParamPlaces' = ParamPlaces,
           \A i \in 1..Len(bwriter) : bwriter'[i] = bwriter[i]
    PROVE  Led(f, at)'
  <1> DEFINE P == ParamPlaces
  <1>1. \A p \in P : p \in 1..Len(bwriter) /\ bwriter'[p] = bwriter[p]
    BY DEF ParamPlaces, Places
  <1>2. /\ nalus'[f] = "idr" /\ \A j \in 1..(f - 1) : nalus'[j] # "idr"
        /\ bwriter'[at] = Nal("idr", f)
        /\ \A p \in P : p < at /\ p..(at - 1) \subseteq P
    BY DEF Led
  <1>3. \A i, j \in P : i < j => bwriter'[i].no < bwriter'[j].no
    BY <1>1 DEF Led, InOrder
  <1>4. InOrder(ParamPlaces)'
    BY <1>3 DEF InOrder
  <1>5. nalus' = nalus /\ newest' = newest
    OBVIOUS
  <1>6. CASE /\ \E j \in 1..(f - 1) : nalus[j] \in Sets
             /\ \A p \in P :
                  /\ bwriter[p].no \in 1..(f - 1)
                  /\ bwriter[p].type = nalus[bwriter[p].no]
                  /\ bwriter[p].type \in Sets
             /\ \A j \in 1..(f - 1) :
                  nalus[j] \in Sets => \E p \in P : bwriter[p].no = j
    <2>1. /\ \E j \in 1..(f - 1) : nalus'[j] \in Sets
          /\ \A p \in P :
               /\ bwriter'[p].no \in 1..(f - 1)
               /\ bwriter'[p].type = nalus'[bwriter'[p].no]
               /\ bwriter'[p].type \in Sets
          /\ \A j \in 1..(f - 1) :
               nalus'[j] \in Sets => \E p \in P : bwriter'[p].no = j
      BY <1>1, <1>5, <1>6
    <2> QED BY <1>2, <1>4, <2>1 DEF Led
  <1>7. CASE /\ \A j \in 1..(f - 1) : nalus[j] \notin Sets
             /\ \A p \in P : bwriter[p].type = "header"
             /\ newest # 0 => at > 1 /\ bwriter[at - 1] = Nal("header", newest)
    <2>1. \A p \in P : bwriter'[p].type = "header"
      BY <1>1, <1>7
    <2>2. newest' # 0 => at > 1 /\ bwriter'[at - 1] = Nal("header", newest')
      <3>1. at > 1 => at - 1 \in 1..Len(bwriter)
        OBVIOUS
      <3> QED BY <1>5, <1>7, <3>1
    <2>3. \A j \in 1..(f - 1) : nalus'[j] \notin Sets
      BY <1>5, <1>7
    <2> QED BY <1>2, <1>4, <2>1, <2>2, <2>3 DEF Led
  <1> QED BY <1>6, <1>7 DEF Led

\* The first IDR slice is written behind the sets.
LEMMA LedByParameters ==
    ASSUME H264TypeOK, HeadersInOrder, SetsRead, NextNal,
           nalus[index + 1] = "idr", ParamPlaces = {},
           \A j \in 1..index : nalus[j] # "idr",
           bwriter' = (bwriter \o Parameters) \o <<Nal(nalus[index + 1], index + 1)>>,
           NEW f, f = index + 1, NEW at, at = Len(bwriter) + Len(Parameters) + 1
    PROVE  Led(f, at)' /\ at \in 1..Len(bwriter')
  <1> DEFINE n == Nal(nalus[index + 1], index + 1)
             a == Len(bwriter)
             k == Len(Parameters)
             P == (a + 1)..(a + k)
  <1>1. /\ nalus' = nalus /\ newest' = newest /\ index \in Nat /\ a \in Nat
        /\ index < Len(nalus) /\ f - 1 = index /\ at = a + k + 1
    BY DEF NextNal, H264TypeOK
  <1>2. n \in Nals /\ n.type = "idr"
    BY <1>1, NalIsUnit, NalFields
  <1>3. /\ k \in Nat
        /\ Len(bwriter') = at
        /\ \A i \in 1..k : bwriter'[a + i] = Parameters[i]
        /\ bwriter'[at] = n
        /\ at \in 1..at
    BY <1>1, <1>2, SetsAppended
  <1>4. ParamPlaces' = P
    BY <1>2, PlacesWithSets
  <1>5. n = Nal("idr", f)
    OBVIOUS
  <1>6. /\ hasSpsPps => Parameters = pps
        /\ ~hasSpsPps => /\ k = Len(specificInfo)
                         /\ \A i \in 1..k : Parameters[i] = Nal("header", specificInfo[i])
    BY ParametersAreUnits
  <1>7. \A i, j \in 1..k : i < j => Parameters[i].no < Parameters[j].no
    <2>1. CASE hasSpsPps
      BY <1>6, <2>1 DEF SetsRead
    <2>2. CASE ~hasSpsPps
      <3>1. \A i \in 1..k : Parameters[i].no = specificInfo[i]
        BY <1>6, <2>2, NalFields
      <3>2. \A i, j \in 1..k : i < j => specificInfo[i] < specificInfo[j]
        BY <1>6, <2>2 DEF HeadersInOrder
      <3> QED BY <3>1, <3>2
    <2> QED BY <2>1, <2>2
  <1> HIDE DEF n, a, k
  <1>8. ASSUME NEW p \in P PROVE p - a \in 1..k /\ bwriter'[p] = Parameters[p - a]
    <2> DEFINE i == p - a
    <2>1. i \in 1..k /\ a + i = p
      BY <1>1, <1>3
    <2> HIDE DEF i
    <2>2. bwriter'[p] = Parameters[i]
      BY <1>3, <2>1
    <2> QED BY <2>1, <2>2 DEF i
  <1>9. ASSUME NEW i \in 1..k PROVE a + i \in P /\ bwriter'[a + i] = Parameters[i]
    BY <1>1, <1>3
  <1>10. \A p \in P : p < at /\ p..(at - 1) \subseteq P
    BY <1>1, <1>3
  <1>11. ASSUME NEW p \in P, NEW q \in P, p < q PROVE bwriter'[p].no < bwriter'[q].no
    <2>1. p - a < q - a
      BY <1>1, <1>3, <1>11
    <2> QED BY <1>7, <1>8, <2>1
  <1>12. InOrder(ParamPlaces)'
    BY <1>4, <1>11 DEF InOrder
  <1>13. /\ nalus'[f] = "idr"
         /\ \A j \in 1..(f - 1) : nalus'[j] # "idr"
         /\ bwriter'[at] = Nal("idr", f)
         /\ \A p \in ParamPlaces' : p < at /\ p..(at - 1) \subseteq ParamPlaces'
    BY <1>1, <1>3, <1>4, <1>5, <1>10
  <1>14. CASE hasSpsPps
    <2>1. /\ k > 0
          /\ \A i \in 1..k :
               /\ Parameters[i].no \in 1..index
               /\ Parameters[i].type = nalus[Parameters[i].no]
               /\ Parameters[i].type \in Sets
          /\ \A j \in 1..index : nalus[j] \in Sets => \E i \in 1..k : Parameters[i].no = j
      BY <1>6, <1>14 DEF SetsRead, k
    <2>2. \E j \in 1..index : nalus[j] \in Sets
      <3>1. 1 \in 1..k
        BY <1>3, <2>1
      <3> QED BY <2>1, <3>1
    <2>3. \A p \in P : /\ bwriter'[p].no \in 1..index
                       /\ bwriter'[p].type = nalus[bwriter'[p].no]
                       /\ bwriter'[p].type \in Sets
      <3>1. ASSUME NEW p \in P PROVE /\ bwriter'[p].no \in 1..index
                                    /\ bwriter'[p].type = nalus[bwriter'[p].no]
                                    /\ bwriter'[p].type \in Sets
        <4>1. p - a \in 1..k /\ bwriter'[p] = Parameters[p - a]
          BY <1>8
        <4> QED BY <2>1, <4>1
      <3> QED BY <3>1
    <2>4. ASSUME NEW j \in 1..index, nalus[j] \in Sets PROVE \E p \in P : bwriter'[p].no = j
      <3>1. PICK i \in 1..k : Parameters[i].no = j
        BY <2>1, <2>4
      <3> QED BY <1>9, <3>1
    <2>5. Led(f, at)'
      <3>1. /\ \E j \in 1..(f - 1) : nalus'[j] \in Sets
            /\ \A p \in ParamPlaces' :
                 /\ bwriter'[p].no \in 1..(f - 1)
                 /\ bwriter'[p].type = nalus'[bwriter'[p].no]
                 /\ bwriter'[p].type \in Sets
            /\ \A j \in 1..(f - 1) :
                 nalus'[j] \in Sets => \E p \in ParamPlaces' : bwriter'[p].no = j
        BY ONLY <1>1, <1>4, <2>2, <2>3, <2>4
      <3> QED BY <1>12, <1>13, <3>1 DEF Led
    <2> QED BY <1>3, <2>5
  <1>15. CASE ~hasSpsPps
    <2>1. \A j \in 1..index : nalus[j] \notin Sets
      <3>1. SUFFICES ASSUME NEW j \in 1..index, nalus[j] \in Sets PROVE FALSE
        OBVIOUS
      <3>2. PICK i \in 1..Len(pps) : pps[i].no = j
        BY <3>1 DEF SetsRead
      <3>3. Len(pps) \in Nat
        BY DEF H264TypeOK
      <3>4. Len(pps) > 0
        BY <3>2, <3>3
      <3> QED BY <1>15, <3>4 DEF SetsRead
    <2>2. ASSUME NEW p \in P PROVE bwriter'[p].type = "header"
      <3>1. p - a \in 1..k /\ bwriter'[p] = Parameters[p - a]
        BY <1>8
      <3>2. Parameters[p - a] = Nal("header", specificInfo[p - a])
        BY <1>6, <1>15, <3>1
      <3> QED BY ONLY <3>1, <3>2, NalFields
    <2>3. ASSUME newest # 0 PROVE at > 1 /\ bwriter'[at - 1] = Nal("header", newest)
      <3>1. k > 0 /\ specificInfo[k] = newest
        BY <1>6, <1>15, <2>3 DEF HeadersInOrder
      <3>2. k \in 1..k /\ at - 1 = a + k /\ at > 1
        <4>1. k \in Nat /\ a \in Nat /\ at = a + k + 1 /\ k > 0
          BY <1>1, <1>3, <3>1
        <4> QED BY ONLY <4>1
      <3>3. Parameters[k] = Nal("header", newest)
        BY <1>6, <1>15, <3>1, <3>2
      <3> QED BY <1>9, <3>2, <3>3
    <2>4. Led(f, at)'
      <3>1. /\ \A j \in 1..(f - 1) : nalus'[j] \notin Sets
            /\ \A p \in ParamPlaces' : bwriter'[p].type = "header"
            /\ newest' # 0 => at > 1 /\ bwriter'[at - 1] = Nal("header", newest')
        BY ONLY <1>1, <1>4, <2>1, <2>2, <2>3
      <3> QED BY <1>12, <1>13, <3>1 DEF Led
    <2> QED BY <1>3, <2>4
  <1> QED BY <1>14, <1>15

LEMMA SetsWrittenKept ==
    ASSUME H264TypeOK, HeadersInOrder, SetsRead, SetsWritten, NextNal
    PROVE  SetsWritten'
  <1> DEFINE t == nalus[index + 1]
             n == Nal(t, index + 1)
  <1>1. /\ index' = index + 1 /\ nalus' = nalus /\ newest' = newest
        /\ index \in Nat /\ index < Len(nalus) /\ Len(bwriter) \in Nat
    BY DEF NextNal, H264TypeOK
  <1>2. n \in Nals /\ n.type = t
    BY <1>1, NalIsUnit, NalFields
  <1>3. CASE /\ t = "idr" /\ ~hasWriteSpsPps /\ hasWriteSpsPps' = TRUE
             /\ bwriter' = (bwriter \o Parameters) \o <<n>>
    <2>1. ParamPlaces = {} /\ \A j \in 1..index : nalus[j] # "idr"
      BY <1>3 DEF SetsWritten
    <2>2. PICK f, at : f = index + 1 /\ at = Len(bwriter) + Len(Parameters) + 1
      OBVIOUS
    <2>3. Led(f, at)' /\ at \in 1..Len(bwriter')
      BY <1>3, <2>1, <2>2, LedByParameters
    <2>4. f \in 1..index'
      BY <1>1, <2>2
    <2> QED BY <1>3, <2>3, <2>4 DEF SetsWritten
  <1>4. ASSUME ~(t = "idr" /\ ~hasWriteSpsPps), hasWriteSpsPps' = hasWriteSpsPps,
               ParamPlaces' = ParamPlaces,
               \A i \in 1..Len(bwriter) : bwriter'[i] = bwriter[i],
               Len(bwriter') \in Nat, Len(bwriter') >= Len(bwriter)
        PROVE  SetsWritten'
    <2>1. CASE hasWriteSpsPps
      <3>1. PICK f \in 1..index, at \in 1..Len(bwriter) : Led(f, at)
        BY <2>1 DEF SetsWritten
      <3>2. Led(f, at)'
        BY <1>1, <1>4, <3>1, LedStays
      <3>3. f \in 1..index' /\ at \in 1..Len(bwriter')
        BY <1>1, <1>4
      <3> QED BY <1>4, <2>1, <3>2, <3>3 DEF SetsWritten
    <2>2. CASE ~hasWriteSpsPps
      <3>1. ParamPlaces = {} /\ \A j \in 1..index : nalus[j] # "idr"
        BY <2>2 DEF SetsWritten
      <3>2. \A j \in 1..index' : j \in 1..index \/ j = index + 1
        BY <1>1
      <3>3. \A j \in 1..index' : nalus'[j] # "idr"
        BY <1>1, <1>4, <2>2, <3>1, <3>2
      <3> QED BY <1>4, <2>2, <3>1, <3>3 DEF SetsWritten
    <2> QED BY <2>1, <2>2
  <1>5. CASE /\ t \in Copied /\ (t = "idr" => hasWriteSpsPps)
             /\ bwriter' = Append(bwriter, n) /\ hasWriteSpsPps' = hasWriteSpsPps
    <2>1. /\ Len(bwriter') = Len(bwriter) + 1
          /\ \A i \in 1..Len(bwriter) : bwriter'[i] = bwriter[i]
          /\ \A T : Places(T)' = Places(T) \cup
                            (IF n.type \in T THEN {Len(bwriter) + 1} ELSE {})
      BY <1>2, <1>5, NalAppended
    <2>2. n.type \notin Sets \cup {"header"}
      BY <1>2, <1>5 DEF Copied, Sets
    <2>3. ParamPlaces' = ParamPlaces
      BY <2>1, <2>2 DEF ParamPlaces
    <2> QED BY <1>1, <1>4, <1>5, <2>1, <2>3
  <1>6. CASE t \notin Copied /\ bwriter' = bwriter /\ hasWriteSpsPps' = hasWriteSpsPps
    <2>1. ParamPlaces' = ParamPlaces
      BY <1>6 DEF ParamPlaces, Places
    <2>2. t # "idr"
      BY <1>6 DEF Copied
    <2> QED BY <1>1, <1>4, <1>6, <2>1, <2>2
  <1> QED BY <1>3, <1>5, <1>6, NalCases

-----------------------------------------------------------------------------
\* Every step keeps the invariant.
LEMMA H264Keeps == H264Inv /\ [H264Next]_h264Vars => H264Inv'
  <1> SUFFICES ASSUME H264Inv, [H264Next]_h264Vars PROVE H264Inv'
    OBVIOUS
  <1>1. H264TypeOK /\ HeadersInOrder
    BY DEF H264Inv
  <1>2. CASE ParseSeq
    <2>1. /\ result' = "idle" /\ headers' = headers + 1 /\ headers \in Nat
          /\ UNCHANGED <<pps, nalus, index, bwriter, hasSpsPps, hasWriteSpsPps>>
      BY <1>1, <1>2 DEF ParseSeq, H264TypeOK
    <2>2. /\ specificInfo \in Seq(Nat)
          /\ \A i \in 1..Len(specificInfo) : specificInfo[i] \in Nat
      BY <1>1 DEF H264TypeOK
    <2>3. CASE specificInfo' = Append(specificInfo, headers + 1) /\ newest' = headers + 1
      <3>1. /\ specificInfo' \in Seq(Nat)
            /\ Len(specificInfo') = Len(specificInfo) + 1
            /\ Len(specificInfo) \in Nat
            /\ \A i \in 1..Len(specificInfo) : specificInfo'[i] = specificInfo[i]
            /\ specificInfo'[Len(specificInfo) + 1] = headers + 1
        BY <2>1, <2>2, <2>3, AppendProperties
      <3>2. \A i \in 1..Len(specificInfo') :
              i \in 1..Len(specificInfo) \/ i = Len(specificInfo) + 1
        BY <3>1
      <3>3. \A i \in 1..Len(specificInfo) : specificInfo[i] <= headers
        BY <1>1 DEF HeadersInOrder
      <3>4. \A i \in 1..Len(specificInfo') : specificInfo'[i] <= headers'
        <4>1. ASSUME NEW i \in 1..Len(specificInfo) PROVE specificInfo'[i] <= headers'
          <5>1. specificInfo'[i] = specificInfo[i] /\ specificInfo[i] \in Nat
                /\ specificInfo[i] <= headers
            BY <2>2, <3>1, <3>3
          <5> QED BY ONLY <2>1, <5>1
        <4>2. specificInfo'[Len(specificInfo) + 1] <= headers'
          BY ONLY <2>1, <3>1
        <4> QED BY <3>2, <4>1, <4>2
      <3>5. ASSUME NEW i \in 1..Len(specificInfo'), NEW j \in 1..Len(specificInfo'), i < j
            PROVE  specificInfo'[i] < specificInfo'[j]
        <4>1. i \in 1..Len(specificInfo)
          BY <3>1, <3>5
        <4>2. CASE j \in 1..Len(specificInfo)
          BY <1>1, <3>1, <3>5, <4>1, <4>2 DEF HeadersInOrder
        <4>3. CASE j = Len(specificInfo) + 1
          <5>1. specificInfo'[i] = specificInfo[i] /\ specificInfo[i] \in Nat
                /\ specificInfo[i] <= headers
            BY <2>2, <3>1, <3>3, <4>1
          <5>2. specificInfo'[j] = headers + 1
            BY <3>1, <4>3
          <5> QED BY ONLY <2>1, <5>1, <5>2
        <4> QED BY <3>2, <4>2, <4>3
      <3>6. HeadersInOrder'
        BY <2>3, <3>1, <3>4, <3>5 DEF HeadersInOrder
      <3>7. H264TypeOK'
        BY <1>1, <2>1, <2>3, <3>1 DEF H264TypeOK
      <3> QED BY <2>1, <3>6, <3>7 DEF H264Inv
    <2>4. CASE UNCHANGED <<specificInfo, newest>>
      <3>1. \A i \in 1..Len(specificInfo) : specificInfo[i] <= headers'
        BY <1>1, <2>1, <2>2 DEF HeadersInOrder
      <3>2. HeadersInOrder'
        BY <1>1, <2>4, <3>1 DEF HeadersInOrder
      <3>3. H264TypeOK'
        BY <1>1, <2>1, <2>4 DEF H264TypeOK
      <3> QED BY <2>1, <3>2, <3>3 DEF H264Inv
    <2> QED BY <1>2, <2>3, <2>4 DEF ParseSeq, ParseSpecificInfo
  <1>3. ASSUME NEW k \in 1..MaxNals, NEW f \in [1..k -> NalTypes], ParseFrame(f)
        PROVE  H264Inv'
    <2>1. /\ nalus' = f /\ index' = 0 /\ hasSpsPps' = FALSE /\ hasWriteSpsPps' = FALSE
          /\ UNCHANGED <<specificInfo, headers, newest>>
      BY <1>3 DEF ParseFrame
    <2>2. k \in Nat /\ f \in Seq(NalTypes) /\ Len(f) = k
      BY ParserAssumption
    <2>3. HeadersInOrder'
      BY <1>1, <2>1 DEF HeadersInOrder
    <2>4. /\ nalus' \in Seq(NalTypes) /\ index' \in 0..Len(nalus')
          /\ hasSpsPps' \in BOOLEAN /\ hasWriteSpsPps' \in BOOLEAN
          /\ specificInfo' \in Seq(Nat) /\ headers' \in Nat /\ newest' \in Nat
      <3>1. Len(f) \in Nat /\ 0 \in 0..Len(f)
        BY <2>2
      <3>2. specificInfo \in Seq(Nat) /\ headers \in Nat /\ newest \in Nat
        BY <1>1 DEF H264TypeOK
      <3> QED BY ONLY <2>1, <2>2, <3>1, <3>2
    <2>5. CASE result' = "raw" /\ bwriter' = [i \in 1..Len(f) |-> Nal(f[i], i)]
               /\ UNCHANGED pps
      <3>1. \A i \in 1..k : f[i] \in AllTypes /\ i \in Nat
        BY <2>2, ParserAssumption
      <3>2. \A i \in 1..k : Nal(f[i], i) \in Nals
        BY <3>1 DEF Nal, Nals
      <3>3. bwriter' \in Seq(Nals)
        BY <2>2, <2>5, <3>2
      <3>4. H264TypeOK'
        <4>1. pps' \in Seq(Nals) /\ result' \in {"idle", "run", "ok", "raw", "error"}
          BY <1>1, <2>5 DEF H264TypeOK
        <4> QED BY ONLY <2>4, <3>3, <4>1 DEF H264TypeOK
      <3> QED BY <2>3, <2>5, <3>4 DEF H264Inv
    <2>6. CASE result' = "run" /\ bwriter' = <<Aud>> /\ pps' = <<>>
      <3>1. Aud \in Nals /\ Aud.type = "aud"
        BY DEF Aud, Nal, Nals, AllTypes
      <3>2. <<Aud>> \in Seq(Nals) /\ Len(<<Aud>>) = 1 /\ <<Aud>>[1] = Aud
        BY <3>1
      <3>3. <<>> \in Seq(Nals) /\ Len(<<>>) = 0
        OBVIOUS
      <3>4. H264TypeOK'
        <4>1. /\ pps' \in Seq(Nals) /\ bwriter' \in Seq(Nals)
              /\ result' \in {"idle", "run", "ok", "raw", "error"}
          BY <2>6, <3>2, <3>3
        <4> QED BY ONLY <2>4, <4>1 DEF H264TypeOK
      <3>5. Places({"aud"})' = {1} /\ Places(Copied)' = {} /\ ParamPlaces' = {}
        BY <2>6, <3>1, <3>2 DEF Places, ParamPlaces, Copied, Sets
      <3>6. SetsRead'
        BY <2>1, <2>6, <3>3 DEF SetsRead
      <3>7. UnitsCopied'
        BY <2>1, <2>6, <3>2, <3>5 DEF UnitsCopied, InOrder, Aud, Nal
      <3>8. SetsWritten'
        BY <2>1, <3>5 DEF SetsWritten
      <3> QED BY <2>3, <2>6, <3>4, <3>6, <3>7, <3>8 DEF H264Inv
    <2> QED BY <1>3, <2>5, <2>6 DEF ParseFrame, PpsReset
  <1>4. CASE NextNal
    <2>1. result = "run" /\ result' = "run" /\ UNCHANGED <<specificInfo, headers, newest>>
      BY <1>4 DEF NextNal
    <2>2. SetsRead /\ UnitsCopied /\ SetsWritten
      BY <2>1 DEF H264Inv
    <2>3. H264TypeOK'
      BY <1>1, <1>4, TypeKept
    <2>4. SetsRead' /\ UnitsCopied' /\ SetsWritten'
      BY <1>1, <1>4, <2>2, SetsReadKept, UnitsCopiedKept, SetsWrittenKept
    <2>5. HeadersInOrder'
      BY <1>1, <2>1 DEF HeadersInOrder
    <2> QED BY <2>1, <2>3, <2>4, <2>5 DEF H264Inv
  <1>5. ASSUME UNCHANGED <<specificInfo, pps, nalus, index, bwriter, hasSpsPps, hasWriteSpsPps,
                           headers, newest>>
        PROVE  /\ HeadersInOrder'
               /\ SetsRead /\ UnitsCopied /\ SetsWritten =>
                     SetsRead' /\ UnitsCopied' /\ SetsWritten'
    <2>1. HeadersInOrder'
      BY <1>1, <1>5 DEF HeadersInOrder
    <2>2. SetsRead => SetsRead'
      BY <1>5 DEF SetsRead
    <2>3. UnitsCopied => UnitsCopied'
      BY <1>5 DEF UnitsCopied, Places, InOrder, Aud, Nal
    <2>4. SetsWritten => SetsWritten'
      <3>1. ParamPlaces' = ParamPlaces
        BY <1>5 DEF ParamPlaces, Places
      <3>2. CASE /\ hasWriteSpsPps
                 /\ \E f \in 1..index, at \in 1..Len(bwriter) : Led(f, at)
        <4>1. PICK f \in 1..index, at \in 1..Len(bwriter) : Led(f, at)
          BY <3>2
        <4>2. f \in Nat /\ Len(bwriter) \in Nat
          BY <1>1 DEF H264TypeOK
        <4>3. Led(f, at)'
          BY <1>5, <3>1, <4>1, <4>2, LedStays
        <4> QED BY <1>5, <3>2, <4>3 DEF SetsWritten
      <3>3. CASE ~hasWriteSpsPps /\ (\A j \in 1..index : nalus[j] # "idr") /\ ParamPlaces = {}
        BY <1>5, <3>1, <3>3 DEF SetsWritten
      <3> QED BY <3>2, <3>3 DEF SetsWritten
    <2> QED BY <2>1, <2>2, <2>3, <2>4
  <1>6. CASE BadNal \/ FrameEnd \/ UNCHANGED h264Vars
    <2>1. UNCHANGED <<specificInfo, pps, nalus, index, bwriter, hasSpsPps, hasWriteSpsPps,
                      headers, newest>>
      BY <1>6 DEF BadNal, FrameEnd, h264Vars
    <2>2. /\ result' \in {"idle", "run", "ok", "raw", "error"}
          /\ result' \in {"run", "ok"} => result \in {"run", "ok"}
          /\ result' = "ok" => index = Len(nalus)
      BY <1>1, <1>6 DEF BadNal, FrameEnd, h264Vars, H264Inv, H264TypeOK
    <2>3. H264TypeOK'
      BY <1>1, <2>1, <2>2 DEF H264TypeOK
    <2> QED BY <1>5, <2>1, <2>2, <2>3 DEF H264Inv
  <1> QED BY <1>2, <1>3, <1>4, <1>6 DEF H264Next

\* The parser's invariant, for every set of types and frames of any length.
THEOREM H264Invariant == H264Spec => []H264Inv
  <1>1. H264Init => H264Inv
    <2> SUFFICES ASSUME H264Init PROVE H264Inv
      OBVIOUS
    <2>1. H264TypeOK
      <3>1. \A S : <<>> \in Seq(S) /\ Len(<<>>) = 0
        OBVIOUS
      <3>2. 0 \in 0..0
        OBVIOUS
      <3> QED BY <3>1, <3>2 DEF H264Init, H264TypeOK
    <2>2. HeadersInOrder
      BY DEF H264Init, HeadersInOrder
    <2> QED BY <2>1, <2>2 DEF H264Init, H264Inv
  <1> QED BY <1>1, H264Keeps, PTL DEF H264Spec
-----------------------------------------------------------------------------
\* What the invariant says of a frame that was parsed.

LEMMA NalRecord == \A x \in Nals : x = Nal(x.type, x.no)
  BY DEF Nals, Nal

LEMMA SlicesFollow == H264Inv => SlicesKept
  <1> SUFFICES ASSUME H264Inv, result = "ok" PROVE SlicesKept
    BY DEF SlicesKept
  <1>1. H264TypeOK /\ UnitsCopied /\ index = Len(nalus)
    BY DEF H264Inv
  <1>2. bwriter \in Seq(Nals) /\ Len(bwriter) \in Nat
    BY <1>1 DEF H264TypeOK
  <1>3. \A i \in 1..Len(bwriter) : bwriter[i] \in Nals
    BY <1>2, ElementOfSeq
  <1>4. ASSUME NEW i \in Places(Copied) PROVE bwriter[i] \in UnitsOf(Copied)
    <2>1. i \in 1..Len(bwriter) /\ bwriter[i].type \in Copied
      BY DEF Places
    <2>2. bwriter[i] = Nal(bwriter[i].type, bwriter[i].no)
      BY <1>3, <2>1, NalRecord
    <2> DEFINE j == bwriter[i].no
    <2>3. j \in 1..Len(nalus) /\ bwriter[i].type = nalus[j]
      BY <1>1 DEF UnitsCopied
    <2> HIDE DEF j
    <2>4. bwriter[i] = Nal(nalus[j], j) /\ nalus[j] \in Copied
      BY <2>1, <2>2, <2>3 DEF j
    <2> QED BY ONLY <2>3, <2>4 DEF UnitsOf
  <1>5. ASSUME NEW u \in UnitsOf(Copied) PROVE \E i \in Places(Copied) : bwriter[i] = u
    <2>1. PICK j \in 1..Len(nalus) : nalus[j] \in Copied /\ u = Nal(nalus[j], j)
      BY DEF UnitsOf
    <2>2. PICK i \in Places(Copied) : bwriter[i].no = j
      BY <1>1, <2>1 DEF UnitsCopied
    <2>3. i \in 1..Len(bwriter)
      BY DEF Places
    <2>4. bwriter[i] = Nal(bwriter[i].type, bwriter[i].no)
      BY <1>3, <2>3, NalRecord
    <2>5. bwriter[i].type = nalus[bwriter[i].no]
      BY <1>1 DEF UnitsCopied
    <2> QED BY <2>1, <2>2, <2>4, <2>5
  <1>6. {bwriter[i] : i \in Places(Copied)} = UnitsOf(Copied)
    BY <1>4, <1>5
  <1> QED BY <1>1, <1>6 DEF UnitsCopied, SlicesKept

LEMMA ParametersFollow == H264Inv => IdrHasParameters
  <1> SUFFICES ASSUME H264Inv, result = "ok" PROVE IdrHasParameters
    BY DEF IdrHasParameters
  <1> DEFINE before == {n \in UnitsOf(Sets) : n.no < FirstIdr}
             place == CHOOSE i \in 1..Len(bwriter) : bwriter[i] = Nal("idr", FirstIdr)
  <1>1. H264TypeOK /\ UnitsCopied /\ SetsWritten /\ index = Len(nalus)
    BY DEF H264Inv
  <1>2. /\ bwriter \in Seq(Nals) /\ Len(bwriter) \in Nat
        /\ Len(nalus) \in Nat
    BY <1>1 DEF H264TypeOK
  <1>3. \A i \in 1..Len(bwriter) : bwriter[i] \in Nals
    BY <1>2, ElementOfSeq
  <1>4. CASE \A i \in 1..Len(nalus) : nalus[i] # "idr"
    <2>1. \A f \in 1..index, at \in 1..Len(bwriter) : ~Led(f, at)
      BY <1>1, <1>4 DEF Led
    <2>2. ParamPlaces = {}
      BY <1>1, <2>1 DEF SetsWritten
    <2> QED BY <1>4, <2>2 DEF IdrHasParameters, ParamPlaces
  <1>5. CASE ~\A i \in 1..Len(nalus) : nalus[i] # "idr"
    <2>1. PICK f \in 1..Len(nalus), at \in 1..Len(bwriter) : Led(f, at)
      BY <1>1, <1>5 DEF SetsWritten
    <2>2. /\ nalus[f] = "idr" /\ \A j \in 1..(f - 1) : nalus[j] # "idr"
          /\ bwriter[at] = Nal("idr", f)
          /\ \A p \in ParamPlaces : p < at /\ p..(at - 1) \subseteq ParamPlaces
          /\ InOrder(ParamPlaces)
      BY <2>1 DEF Led
    <2>3. FirstIdr = f
      <3> DEFINE Is(i) == nalus[i] = "idr" /\ \A j \in 1..(i - 1) : nalus[j] # "idr"
      <3>1. ASSUME NEW i \in 1..Len(nalus), Is(i) PROVE i = f
        <4>1. CASE i < f
          BY <1>2, <2>2, <3>1, <4>1
        <4>2. CASE f < i
          BY <1>2, <2>2, <3>1, <4>2
        <4> QED BY <1>2, <4>1, <4>2
      <3>2. Is(f)
        BY <2>2
      <3>3. FirstIdr = CHOOSE i \in 1..Len(nalus) : Is(i)
        BY DEF FirstIdr
      <3> HIDE DEF Is
      <3>4. (CHOOSE i \in 1..Len(nalus) : Is(i)) = f
        BY <3>1, <3>2
      <3> QED BY <3>3, <3>4
    <2>4. place = at
      <3>1. ASSUME NEW i \in 1..Len(bwriter), bwriter[i] = Nal("idr", f) PROVE i = at
        <4>1. bwriter[i].type = "idr" /\ bwriter[i].no = f
              /\ bwriter[at].type = "idr" /\ bwriter[at].no = f
          BY <2>2, <3>1, NalFields
        <4>2. i \in Places(Copied) /\ at \in Places(Copied)
          BY <4>1 DEF Places, Copied
        <4>3. ~(i < at) /\ ~(at < i)
          BY <1>1, <4>1, <4>2 DEF UnitsCopied, InOrder
        <4> QED BY <1>2, <4>3
      <3>2. bwriter[at] = Nal("idr", f)
        BY <2>2
      <3>3. (CHOOSE i \in 1..Len(bwriter) : bwriter[i] = Nal("idr", f)) = at
        BY ONLY <2>1, <3>1, <3>2
      <3> QED BY <2>3, <3>3
    <2>5. ASSUME NEW u \in before
          PROVE  \E j \in 1..(f - 1) : nalus[j] \in Sets /\ u = Nal(nalus[j], j)
      <3>1. PICK j \in 1..Len(nalus) : nalus[j] \in Sets /\ u = Nal(nalus[j], j)
        BY DEF UnitsOf
      <3>2. j < f
        BY <2>3, <3>1, NalFields
      <3>3. j \in 1..(f - 1)
        BY <1>2, <3>2
      <3> QED BY <3>1, <3>3
    <2>6. ASSUME NEW j \in 1..(f - 1), nalus[j] \in Sets
          PROVE  Nal(nalus[j], j) \in before
      <3>1. j \in 1..Len(nalus) /\ j < f
        BY <1>2
      <3>2. Nal(nalus[j], j) \in UnitsOf(Sets)
        BY <2>6, <3>1 DEF UnitsOf
      <3> QED BY <2>3, <3>1, <3>2, NalFields
    <2>7. \A p \in ParamPlaces : p \in 1..Len(bwriter)
      BY DEF ParamPlaces, Places
    <2>8. IF before # {}
            THEN {bwriter[p] : p \in ParamPlaces} = before
            ELSE /\ \A p \in ParamPlaces : bwriter[p].type = "header"
                 /\ newest # 0 => at > 1 /\ bwriter[at - 1] = Nal("header", newest)
      <3> HIDE DEF before
      <3>1. CASE /\ \E j \in 1..(f - 1) : nalus[j] \in Sets
                 /\ \A p \in ParamPlaces :
                      /\ bwriter[p].no \in 1..(f - 1)
                      /\ bwriter[p].type = nalus[bwriter[p].no]
                      /\ bwriter[p].type \in Sets
                 /\ \A j \in 1..(f - 1) :
                      nalus[j] \in Sets => \E p \in ParamPlaces : bwriter[p].no = j
        <4>1. before # {}
          BY <2>6, <3>1
        <4>2. \A p \in ParamPlaces : bwriter[p] = Nal(bwriter[p].type, bwriter[p].no)
          BY <1>3, <2>7, NalRecord
        <4>3. ASSUME NEW p \in ParamPlaces PROVE bwriter[p] \in before
          <5> DEFINE j == bwriter[p].no
          <5>1. j \in 1..(f - 1) /\ nalus[j] \in Sets /\ bwriter[p].type = nalus[j]
            BY <3>1
          <5>2. bwriter[p] = Nal(bwriter[p].type, j)
            BY <4>2
          <5> HIDE DEF j
          <5> QED BY <2>6, <5>1, <5>2
        <4>4. ASSUME NEW u \in before PROVE \E p \in ParamPlaces : bwriter[p] = u
          <5>1. PICK j \in 1..(f - 1) : nalus[j] \in Sets /\ u = Nal(nalus[j], j)
            BY <2>5
          <5>2. PICK p \in ParamPlaces : bwriter[p].no = j
            BY <3>1, <5>1
          <5> QED BY <3>1, <4>2, <5>1, <5>2
        <4>5. {bwriter[p] : p \in ParamPlaces} = before
          BY <4>3, <4>4
        <4> QED BY <4>1, <4>5
      <3>2. CASE /\ \A j \in 1..(f - 1) : nalus[j] \notin Sets
                 /\ \A p \in ParamPlaces : bwriter[p].type = "header"
                 /\ newest # 0 => at > 1 /\ bwriter[at - 1] = Nal("header", newest)
        <4>1. before = {}
          BY <2>5, <3>2
        <4> QED BY <3>2, <4>1
      <3> QED BY <2>1, <3>1, <3>2 DEF Led
    <2> HIDE DEF before, place
    <2>9. IdrHasParameters <=>
            /\ \A p \in ParamPlaces : p < place /\ p..(place - 1) \subseteq ParamPlaces
            /\ InOrder(ParamPlaces)
            /\ IF before # {}
                 THEN {bwriter[p] : p \in ParamPlaces} = before
                 ELSE /\ \A p \in ParamPlaces : bwriter[p].type = "header"
                      /\ newest # 0 =>
                           place > 1 /\ bwriter[place - 1] = Nal("header", newest)
      BY <1>5 DEF IdrHasParameters, ParamPlaces, before, place
    <2> QED BY <2>2, <2>4, <2>8, <2>9
  <1> QED BY <1>4, <1>5

\* No slice and no SEI of a frame is lost, doubled or moved on its way into a segment,
\* whatever stands between them, and there is one access unit delimiter.
THEOREM SlicesAreKept == H264Spec => []SlicesKept
  BY H264Invariant, SlicesFollow, PTL

\* A decoder that starts at an IDR slice has the parameter sets right before it: those
\* of the frame or, if it has none, the newest of a sequence header last.
THEOREM IdrSlicesHaveParameters == H264Spec => []IdrHasParameters
  BY H264Invariant, ParametersFollow, PTL

-----------------------------------------------------------------------------
(* The integers and strings of AMF, in front of any message. *)

\* The strings and the tokens of a message.
Strings == STRING
Tokens == ({"byte"} \X Int) \cup ({"field"} \X Int) \cup ({"chars"} \X Strings)

\* An encoder: what it has written, the tables that are in use, and the tables.
EncoderOf(w, use, strs, traits, objs) ==
    [w |-> w, use |-> use, strs |-> strs, traits |-> traits, objs |-> objs]

\* A decoder: what is left to read, whether there was no error, the last value and the
\* tables.
AnyDecoder(w, ok, val, strs, traits, objs) ==
    [w |-> w, ok |-> ok, val |-> val, strs |-> strs, traits |-> traits, objs |-> objs]

WithStrs(d, strs) == [d EXCEPT !.strs = strs]

LEMMA AnyUpdates ==
    ASSUME NEW w, NEW ok, NEW val, NEW strs, NEW traits, NEW objs, NEW x
    PROVE  LET d == AnyDecoder(w, ok, val, strs, traits, objs)
           IN  /\ Leave(d, x) = AnyDecoder(x, ok, val, strs, traits, objs)
               /\ Value(d, x) = AnyDecoder(w, ok, x, strs, traits, objs)
               /\ WithStrs(d, x) = AnyDecoder(w, ok, val, x, traits, objs)
  <1>1. Leave(AnyDecoder(w, ok, val, strs, traits, objs), x)
          = AnyDecoder(x, ok, val, strs, traits, objs)
    BY DEF AnyDecoder, Leave
  <1>2. Value(AnyDecoder(w, ok, val, strs, traits, objs), x)
          = AnyDecoder(w, ok, x, strs, traits, objs)
    BY DEF AnyDecoder, Value
  <1>3. WithStrs(AnyDecoder(w, ok, val, strs, traits, objs), x)
          = AnyDecoder(w, ok, val, x, traits, objs)
    BY DEF AnyDecoder, WithStrs
  <1> QED BY <1>1, <1>2, <1>3

\* A decoder that has met no error.
DecoderOf(w, val, strs, traits, objs) == AnyDecoder(w, TRUE, val, strs, traits, objs)

LEMMA DecoderFields ==
    ASSUME NEW w, NEW val, NEW strs, NEW traits, NEW objs
    PROVE  LET d == DecoderOf(w, val, strs, traits, objs)
           IN  d.w = w /\ d.val = val /\ d.strs = strs
  BY DEF DecoderOf, AnyDecoder

LEMMA DecoderOk ==
    ASSUME NEW w, NEW val, NEW strs, NEW traits, NEW objs
    PROVE  DecoderOf(w, val, strs, traits, objs).ok = TRUE
  BY DEF DecoderOf, AnyDecoder

LEMMA DecoderUpdates ==
    ASSUME NEW w, NEW val, NEW strs, NEW traits, NEW objs, NEW x
    PROVE  LET d == DecoderOf(w, val, strs, traits, objs)
           IN  /\ Leave(d, x) = DecoderOf(x, val, strs, traits, objs)
               /\ Value(d, x) = DecoderOf(w, x, strs, traits, objs)
               /\ WithStrs(d, x) = DecoderOf(w, val, x, traits, objs)
  <1> DEFINE ok == TRUE
  <1> HIDE DEF ok
  <1>1. /\ Leave(AnyDecoder(w, ok, val, strs, traits, objs), x)
            = AnyDecoder(x, ok, val, strs, traits, objs)
        /\ Value(AnyDecoder(w, ok, val, strs, traits, objs), x)
             = AnyDecoder(w, ok, x, strs, traits, objs)
        /\ WithStrs(AnyDecoder(w, ok, val, strs, traits, objs), x)
             = AnyDecoder(w, ok, val, x, traits, objs)
    BY AnyUpdates
  <1> QED BY <1>1, Zenon DEF DecoderOf, ok

\* The decoder of a connection and the encoder of a message are such ones.
LEMMA NewTables ==
    ASSUME NEW use
    PROVE  /\ NewDecoder = DecoderOf(<<>>, <<"null">>, <<>>, <<>>, <<>>)
           /\ NewEncoder(use) = EncoderOf(<<>>, use, <<>>, <<>>, <<>>)
  BY Zenon DEF NewDecoder, NewEncoder, DecoderOf, AnyDecoder, EncoderOf

LEMMA DecoderMoves ==
    ASSUME NEW w, NEW val, NEW strs, NEW traits, NEW objs, NEW x, NEW y
    PROVE  Value(Leave(DecoderOf(w, val, strs, traits, objs), x), y)
             = DecoderOf(x, y, strs, traits, objs)
  <1>1. Leave(DecoderOf(w, val, strs, traits, objs), x)
          = DecoderOf(x, val, strs, traits, objs)
    BY DecoderUpdates
  <1>2. Value(DecoderOf(x, val, strs, traits, objs), y)
          = DecoderOf(x, y, strs, traits, objs)
    BY DecoderUpdates
  <1> QED BY <1>1, <1>2

LEMMA TokenFields ==
    /\ \A n : Byte(n)[1] = "byte" /\ Byte(n)[2] = n
    /\ \A n : Field(n)[1] = "field" /\ Field(n)[2] = n
    /\ \A n \in Int : Byte(n) \in Tokens /\ Field(n) \in Tokens
    /\ \A s \in Strings : <<"chars", s>> \in Tokens
  BY DEF Byte, Field, Tokens

\* What follows the tokens u.
LEMMA AfterPrefix ==
    ASSUME NEW S, NEW u \in Seq(S), NEW rest \in Seq(S)
    PROVE  /\ u \o rest \in Seq(S)
           /\ Len(u \o rest) = Len(u) + Len(rest)
           /\ \A i \in 1..Len(u) : i \in DOMAIN (u \o rest) /\ (u \o rest)[i] = u[i]
           /\ SubSeq(u \o rest, Len(u) + 1, Len(u \o rest)) = rest
  <1> DEFINE w == u \o rest
             r == SubSeq(w, Len(u) + 1, Len(w))
  <1>1. /\ w \in Seq(S)
        /\ Len(w) = Len(u) + Len(rest)
        /\ \A i \in 1..(Len(u) + Len(rest)) :
              w[i] = IF i <= Len(u) THEN u[i] ELSE rest[i - Len(u)]
    BY ConcatProperties
  <1>2. Len(u) \in Nat /\ Len(rest) \in Nat /\ DOMAIN w = 1..Len(w)
    BY <1>1, LenProperties
  <1> HIDE DEF w
  <1>3. \A i \in 1..Len(u) : i \in DOMAIN w /\ w[i] = u[i]
    BY <1>1, <1>2
  <1>4. r \in Seq(S) /\ Len(r) = Len(rest)
    BY <1>1, <1>2
  <1>5. ASSUME NEW i \in 1..Len(rest) PROVE r[i] = rest[i]
    <2>1. r[i] = w[Len(u) + i]
      BY <1>1, <1>2
    <2>2. Len(u) + i \in 1..(Len(u) + Len(rest)) /\ ~(Len(u) + i <= Len(u))
          /\ (Len(u) + i) - Len(u) = i
      BY <1>2
    <2> QED BY <1>1, <2>1, <2>2
  <1> HIDE DEF r
  <1>6. r = rest
    BY <1>4, <1>5, SeqEqual
  <1> QED BY <1>1, <1>3, <1>6 DEF w, r

\* The bytes of an integer, by how many there are, and that nothing of it is lost.
LEMMA Uint29One ==
    ASSUME NEW n \in Nat, n <= 127
    PROVE  n \in 0..127 /\ Uint29(n) = <<Byte(n)>>
  BY SMT DEF Uint29

LEMMA Uint29Two ==
    ASSUME NEW n \in Nat, n > 127, n <= 16383
    PROVE  LET a == n \div 128
               b == n % 128
           IN  /\ a \in 0..127 /\ b \in 0..127
               /\ Uint29(n) = <<Byte(128 + a), Byte(b)>> /\ n = 128 * a + b
  <1> DEFINE a == n \div 128
             b == n % 128
  <1>1. a \in 0..127 /\ b \in 0..127 /\ n = 128 * a + b
    BY SMT
  <1>2. ~(n <= 127)
    BY SMT
  <1>3. Uint29(n) = <<Byte(128 + a), Byte(b)>>
    BY <1>2, SMT DEF Uint29
  <1> QED BY <1>1, <1>3, SMT

LEMMA Uint29Three ==
    ASSUME NEW n \in Nat, n > 16383, n <= 2097151
    PROVE  LET a == n \div 16384
               b == (n \div 128) % 128
               c == n % 128
           IN  /\ a \in 0..127 /\ b \in 0..127 /\ c \in 0..127
               /\ Uint29(n) = <<Byte(128 + a), Byte(128 + b), Byte(c)>>
               /\ n = 128 * (128 * a + b) + c
  <1> DEFINE h == n \div 128
             a == n \div 16384
             b == (n \div 128) % 128
             c == n % 128
  <1>1. h \in Nat /\ h <= 16383 /\ c \in 0..127 /\ n = 128 * h + c
    BY SMT
  <1>2. b \in 0..127 /\ h = 128 * (h \div 128) + b
    BY <1>1, SMT
  <1>3. a = h \div 128 /\ a \in 0..127
    BY SMT
  <1>4. ~(n <= 127) /\ ~(n <= 16383)
    BY SMT
  <1>5. Uint29(n) = <<Byte(128 + a), Byte(128 + b), Byte(c)>>
    BY <1>4, SMT DEF Uint29
  <1> HIDE DEF a, b, c, h
  <1>6. n = 128 * (128 * a + b) + c
    BY <1>1, <1>2, <1>3, SMT
  <1>7. a \in 0..127 /\ b \in 0..127 /\ c \in 0..127
    BY <1>1, <1>2, <1>3
  <1> QED BY <1>5, <1>6, <1>7, SMT DEF a, b, c

LEMMA Uint29Four ==
    ASSUME NEW n \in Nat, n > 2097151, n <= AMF3_INTEGER_MAX
    PROVE  LET a == n \div 4194304
               b == (n \div 32768) % 128
               c == (n \div 256) % 128
               e == n % 256
           IN  /\ a \in 0..127 /\ b \in 0..127 /\ c \in 0..127 /\ e \in 0..255
               /\ Uint29(n) = <<Byte(128 + a), Byte(128 + b), Byte(128 + c), Byte(e)>>
               /\ n = 256 * (128 * (128 * a + b) + c) + e
  <1> DEFINE g == n \div 256
             h == n \div 32768
             a == n \div 4194304
             b == (n \div 32768) % 128
             c == (n \div 256) % 128
             e == n % 256
  <1>0. n <= 536870911
    BY SMT DEF AMF3_INTEGER_MAX
  <1>1. g \in Nat /\ g <= 2097151 /\ e \in 0..255 /\ n = 256 * g + e
    BY <1>0, SMT
  <1>2. /\ c \in 0..127 /\ g = 128 * (g \div 128) + c
        /\ g \div 128 \in Nat /\ g \div 128 <= 16383
    BY <1>1, SMT
  <1>3. h = g \div 128
    BY SMT
  <1>4. b \in 0..127 /\ h = 128 * (h \div 128) + b
    BY <1>2, <1>3, SMT
  <1>5. a = h \div 128 /\ a \in 0..127
    BY <1>0, SMT
  <1>6. ~(n <= 127) /\ ~(n <= 16383) /\ ~(n <= 2097151)
    BY SMT
  <1>7. Uint29(n) = <<Byte(128 + a), Byte(128 + b), Byte(128 + c), Byte(e)>>
    BY <1>6, SMT DEF Uint29
  <1> HIDE DEF a, b, c, e, g, h
  <1>8. n = 256 * (128 * (128 * a + b) + c) + e
    BY <1>1, <1>2, <1>3, <1>4, <1>5, SMT
  <1>9. a \in 0..127 /\ b \in 0..127 /\ c \in 0..127 /\ e \in 0..255
    BY <1>1, <1>2, <1>4, <1>5, SMT
  <1> QED BY <1>7, <1>8, <1>9, SMT DEF a, b, c, e

LEMMA ReadOne ==
    ASSUME NEW n \in Nat, n <= 127,
           NEW rest \in Seq(Tokens), NEW val, NEW strs, NEW traits, NEW objs
    PROVE  DecodeU29(DecoderOf(Uint29(n) \o rest, val, strs, traits, objs))
             = DecoderOf(rest, n, strs, traits, objs)
  <1> DEFINE a == n
             u == Uint29(n)
             w == u \o rest
  <1>1. /\ a \in 0..127
        /\ u = <<Byte(a)>> /\ n = a
    BY Uint29One, SMT
  <1> HIDE DEF a, u
  <1>2. Byte(a) \in Tokens
    BY <1>1, TokenFields, SMT
  <1>3. u \in Seq(Tokens) /\ Len(u) = 1 /\ u[1] = Byte(a)
    BY <1>1, <1>2, SMT
  <1>4. /\ \A i \in 1..Len(u) : i \in DOMAIN w /\ w[i] = u[i]
        /\ SubSeq(w, Len(u) + 1, Len(w)) = rest
    <2>1. rest \in Seq(Tokens)
      BY SMT
    <2>2. u \in Seq(Tokens)
      BY <1>3, SMT
    <2> QED BY ONLY <2>1, <2>2, AfterPrefix, Zenon
  <1> HIDE DEF w
  <1>5. /\ \A i \in 1..1 : i \in DOMAIN w /\ w[i] = u[i]
        /\ SubSeq(w, 2, Len(w)) = rest
    BY <1>3, <1>4, SMT
  <1>6. \A i \in 1..1 : i \in DOMAIN w /\ w[i][1] = "byte"
    <2> SUFFICES ASSUME NEW i \in 1..1 PROVE i \in DOMAIN w /\ w[i][1] = "byte"
      BY SMT
    <2>1. i = 1
      BY SMT
    <2> QED BY <1>3, <1>5, <2>1, TokenFields, SMT
  <1>7. w[1][2] = a
    BY <1>3, <1>5, TokenFields, SMT
  <1> DEFINE d == DecoderOf(w, val, strs, traits, objs)
             IsByte(i) == i \in DOMAIN d.w /\ d.w[i][1] = "byte"
             More(i) == IsByte(i) /\ d.w[i][2] >= 128
             k == IF ~More(1) THEN 1 ELSE IF ~More(2) THEN 2 ELSE IF ~More(3) THEN 3 ELSE 4
             low(i) == d.w[i][2] % 128
             number == CASE k = 1 -> low(1)
                         [] k = 2 -> 128 * low(1) + low(2)
                         [] k = 3 -> 128 * (128 * low(1) + low(2)) + low(3)
                         [] k = 4 -> 256 * (128 * (128 * low(1) + low(2)) + low(3)) + d.w[4][2]
  <1>8. d.w = w
    BY DecoderFields, SMT
  <1>9. DecodeU29(d) = IF \E i \in 1..k : ~IsByte(i) THEN Fail(d)
                       ELSE Value(Leave(d, SubSeq(d.w, k + 1, Len(d.w))), number)
    BY SMT DEF DecodeU29
  <1>10. \A i \in 1..1 : IsByte(i)
    BY <1>6, <1>8, SMT
  <1> HIDE DEF d
  <1>11. ~More(1)
    BY <1>1, <1>7, <1>8, <1>10, SMT
  <1>12. k = 1
    BY <1>11, SMT
  <1>13. number = low(1)
    BY <1>12, SMT
  <1>14. low(1) = a
    <2>1. d.w[1][2] = a
      BY <1>7, <1>8, SMT
    <2>2. a \in 0..127
      BY <1>1, SMT
    <2>3. a % 128 = a
      BY ONLY <2>2, SMT
    <2> QED BY ONLY <2>1, <2>3, SMT
  <1> HIDE DEF number, k, low, IsByte, More
  <1>15. (\E i \in 1..k : ~IsByte(i)) <=> FALSE
    BY <1>10, <1>12, SMT
  <1>16. k + 1 = 2 /\ number = n
    <2>1. n = a
      BY <1>1, SMT
    <2> QED BY ONLY <2>1, <1>12, <1>13, <1>14, SMT
  <1>17. DecodeU29(d) = Value(Leave(d, rest), n)
    BY ONLY <1>5, <1>8, <1>9, <1>15, <1>16, Zenon
  <1>18. Value(Leave(d, rest), n) = DecoderOf(rest, n, strs, traits, objs)
    BY DecoderMoves, SMT DEF d
  <1> QED BY <1>17, <1>18, SMT DEF d, w, u

LEMMA ReadTwo ==
    ASSUME NEW n \in Nat, n > 127, n <= 16383,
           NEW rest \in Seq(Tokens), NEW val, NEW strs, NEW traits, NEW objs
    PROVE  DecodeU29(DecoderOf(Uint29(n) \o rest, val, strs, traits, objs))
             = DecoderOf(rest, n, strs, traits, objs)
  <1> DEFINE a == n \div 128
             b == n % 128
             u == Uint29(n)
             w == u \o rest
  <1>1. /\ a \in 0..127 /\ b \in 0..127
        /\ u = <<Byte(128 + a), Byte(b)>> /\ n = 128 * a + b
    BY Uint29Two, SMT
  <1> HIDE DEF a, b, u
  <1>2. Byte(128 + a) \in Tokens /\ Byte(b) \in Tokens
    BY <1>1, TokenFields, SMT
  <1>3. u \in Seq(Tokens) /\ Len(u) = 2 /\ u[1] = Byte(128 + a) /\ u[2] = Byte(b)
    BY <1>1, <1>2, SMT
  <1>4. /\ \A i \in 1..Len(u) : i \in DOMAIN w /\ w[i] = u[i]
        /\ SubSeq(w, Len(u) + 1, Len(w)) = rest
    <2>1. rest \in Seq(Tokens)
      BY SMT
    <2>2. u \in Seq(Tokens)
      BY <1>3, SMT
    <2> QED BY ONLY <2>1, <2>2, AfterPrefix, Zenon
  <1> HIDE DEF w
  <1>5. /\ \A i \in 1..2 : i \in DOMAIN w /\ w[i] = u[i]
        /\ SubSeq(w, 3, Len(w)) = rest
    BY <1>3, <1>4, SMT
  <1>6. \A i \in 1..2 : i \in DOMAIN w /\ w[i][1] = "byte"
    <2> SUFFICES ASSUME NEW i \in 1..2 PROVE i \in DOMAIN w /\ w[i][1] = "byte"
      BY SMT
    <2>1. i = 1 \/ i = 2
      BY SMT
    <2> QED BY <1>3, <1>5, <2>1, TokenFields, SMT
  <1>7. w[1][2] = 128 + a /\ w[2][2] = b
    BY <1>3, <1>5, TokenFields, SMT
  <1> DEFINE d == DecoderOf(w, val, strs, traits, objs)
             IsByte(i) == i \in DOMAIN d.w /\ d.w[i][1] = "byte"
             More(i) == IsByte(i) /\ d.w[i][2] >= 128
             k == IF ~More(1) THEN 1 ELSE IF ~More(2) THEN 2 ELSE IF ~More(3) THEN 3 ELSE 4
             low(i) == d.w[i][2] % 128
             number == CASE k = 1 -> low(1)
                         [] k = 2 -> 128 * low(1) + low(2)
                         [] k = 3 -> 128 * (128 * low(1) + low(2)) + low(3)
                         [] k = 4 -> 256 * (128 * (128 * low(1) + low(2)) + low(3)) + d.w[4][2]
  <1>8. d.w = w
    BY DecoderFields, SMT
  <1>9. DecodeU29(d) = IF \E i \in 1..k : ~IsByte(i) THEN Fail(d)
                       ELSE Value(Leave(d, SubSeq(d.w, k + 1, Len(d.w))), number)
    BY SMT DEF DecodeU29
  <1>10. \A i \in 1..2 : IsByte(i)
    BY <1>6, <1>8, SMT
  <1> HIDE DEF d
  <1>11. More(1) /\ ~More(2)
    BY <1>1, <1>7, <1>8, <1>10, SMT
  <1>12. k = 2
    BY <1>11, SMT
  <1>13. number = 128 * low(1) + low(2)
    BY <1>12, SMT
  <1>14. low(1) = a /\ low(2) = b
    <2>1. d.w[1][2] = 128 + a /\ d.w[2][2] = b
      BY <1>7, <1>8, SMT
    <2>2. a \in 0..127 /\ b \in 0..127
      BY <1>1, SMT
    <2>3. (128 + a) % 128 = a /\ b % 128 = b
      BY ONLY <2>2, SMT
    <2> QED BY ONLY <2>1, <2>3, SMT
  <1> HIDE DEF number, k, low, IsByte, More
  <1>15. (\E i \in 1..k : ~IsByte(i)) <=> FALSE
    BY <1>10, <1>12, SMT
  <1>16. k + 1 = 3 /\ number = n
    <2>1. n = 128 * a + b
      BY <1>1, SMT
    <2> QED BY ONLY <2>1, <1>12, <1>13, <1>14, SMT
  <1>17. DecodeU29(d) = Value(Leave(d, rest), n)
    BY ONLY <1>5, <1>8, <1>9, <1>15, <1>16, Zenon
  <1>18. Value(Leave(d, rest), n) = DecoderOf(rest, n, strs, traits, objs)
    BY DecoderMoves, SMT DEF d
  <1> QED BY <1>17, <1>18, SMT DEF d, w, u

LEMMA ReadThree ==
    ASSUME NEW n \in Nat, n > 16383, n <= 2097151,
           NEW rest \in Seq(Tokens), NEW val, NEW strs, NEW traits, NEW objs
    PROVE  DecodeU29(DecoderOf(Uint29(n) \o rest, val, strs, traits, objs))
             = DecoderOf(rest, n, strs, traits, objs)
  <1> DEFINE a == n \div 16384
             b == (n \div 128) % 128
             c == n % 128
             u == Uint29(n)
             w == u \o rest
  <1>1. /\ a \in 0..127 /\ b \in 0..127 /\ c \in 0..127
        /\ u = <<Byte(128 + a), Byte(128 + b), Byte(c)>> /\ n = 128 * (128 * a + b) + c
    BY Uint29Three, SMT
  <1> HIDE DEF a, b, c, u
  <1>2. Byte(128 + a) \in Tokens /\ Byte(128 + b) \in Tokens /\ Byte(c) \in Tokens
    BY <1>1, TokenFields, SMT
  <1>3. /\ u \in Seq(Tokens) /\ Len(u) = 3 /\ u[1] = Byte(128 + a)
        /\ u[2] = Byte(128 + b) /\ u[3] = Byte(c)
    BY <1>1, <1>2, SMT
  <1>4. /\ \A i \in 1..Len(u) : i \in DOMAIN w /\ w[i] = u[i]
        /\ SubSeq(w, Len(u) + 1, Len(w)) = rest
    <2>1. rest \in Seq(Tokens)
      BY SMT
    <2>2. u \in Seq(Tokens)
      BY <1>3, SMT
    <2> QED BY ONLY <2>1, <2>2, AfterPrefix, Zenon
  <1> HIDE DEF w
  <1>5. /\ \A i \in 1..3 : i \in DOMAIN w /\ w[i] = u[i]
        /\ SubSeq(w, 4, Len(w)) = rest
    BY <1>3, <1>4, SMT
  <1>6. \A i \in 1..3 : i \in DOMAIN w /\ w[i][1] = "byte"
    <2> SUFFICES ASSUME NEW i \in 1..3 PROVE i \in DOMAIN w /\ w[i][1] = "byte"
      BY SMT
    <2>1. i = 1 \/ i = 2 \/ i = 3
      BY SMT
    <2> QED BY <1>3, <1>5, <2>1, TokenFields, SMT
  <1>7. w[1][2] = 128 + a /\ w[2][2] = 128 + b /\ w[3][2] = c
    BY <1>3, <1>5, TokenFields, SMT
  <1> DEFINE d == DecoderOf(w, val, strs, traits, objs)
             IsByte(i) == i \in DOMAIN d.w /\ d.w[i][1] = "byte"
             More(i) == IsByte(i) /\ d.w[i][2] >= 128
             k == IF ~More(1) THEN 1 ELSE IF ~More(2) THEN 2 ELSE IF ~More(3) THEN 3 ELSE 4
             low(i) == d.w[i][2] % 128
             number == CASE k = 1 -> low(1)
                         [] k = 2 -> 128 * low(1) + low(2)
                         [] k = 3 -> 128 * (128 * low(1) + low(2)) + low(3)
                         [] k = 4 -> 256 * (128 * (128 * low(1) + low(2)) + low(3)) + d.w[4][2]
  <1>8. d.w = w
    BY DecoderFields, SMT
  <1>9. DecodeU29(d) = IF \E i \in 1..k : ~IsByte(i) THEN Fail(d)
                       ELSE Value(Leave(d, SubSeq(d.w, k + 1, Len(d.w))), number)
    BY SMT DEF DecodeU29
  <1>10. \A i \in 1..3 : IsByte(i)
    BY <1>6, <1>8, SMT
  <1> HIDE DEF d
  <1>11. More(1) /\ More(2) /\ ~More(3)
    BY <1>1, <1>7, <1>8, <1>10, SMT
  <1>12. k = 3
    BY <1>11, SMT
  <1>13. number = 128 * (128 * low(1) + low(2)) + low(3)
    BY <1>12, SMT
  <1>14. low(1) = a /\ low(2) = b /\ low(3) = c
    <2>1. d.w[1][2] = 128 + a /\ d.w[2][2] = 128 + b /\ d.w[3][2] = c
      BY <1>7, <1>8, SMT
    <2>2. a \in 0..127 /\ b \in 0..127 /\ c \in 0..127
      BY <1>1, SMT
    <2>3. (128 + a) % 128 = a /\ (128 + b) % 128 = b /\ c % 128 = c
      BY ONLY <2>2, SMT
    <2> QED BY ONLY <2>1, <2>3, SMT
  <1> HIDE DEF number, k, low, IsByte, More
  <1>15. (\E i \in 1..k : ~IsByte(i)) <=> FALSE
    BY <1>10, <1>12, SMT
  <1>16. k + 1 = 4 /\ number = n
    <2>1. n = 128 * (128 * a + b) + c
      BY <1>1, SMT
    <2> QED BY ONLY <2>1, <1>12, <1>13, <1>14, SMT
  <1>17. DecodeU29(d) = Value(Leave(d, rest), n)
    BY ONLY <1>5, <1>8, <1>9, <1>15, <1>16, Zenon
  <1>18. Value(Leave(d, rest), n) = DecoderOf(rest, n, strs, traits, objs)
    BY DecoderMoves, SMT DEF d
  <1> QED BY <1>17, <1>18, SMT DEF d, w, u

LEMMA ReadFour ==
    ASSUME NEW n \in Nat, n > 2097151, n <= AMF3_INTEGER_MAX,
           NEW rest \in Seq(Tokens), NEW val, NEW strs, NEW traits, NEW objs
    PROVE  DecodeU29(DecoderOf(Uint29(n) \o rest, val, strs, traits, objs))
             = DecoderOf(rest, n, strs, traits, objs)
  <1> DEFINE a == n \div 4194304
             b == (n \div 32768) % 128
             c == (n \div 256) % 128
             e == n % 256
             u == Uint29(n)
             w == u \o rest
  <1>1. /\ a \in 0..127 /\ b \in 0..127 /\ c \in 0..127 /\ e \in 0..255
        /\ u = <<Byte(128 + a), Byte(128 + b), Byte(128 + c), Byte(e)>>
        /\ n = 256 * (128 * (128 * a + b) + c) + e
    BY Uint29Four, SMT
  <1> HIDE DEF a, b, c, e, u
  <1>2. /\ Byte(128 + a) \in Tokens /\ Byte(128 + b) \in Tokens
        /\ Byte(128 + c) \in Tokens /\ Byte(e) \in Tokens
    BY <1>1, TokenFields, SMT
  <1>3. /\ u \in Seq(Tokens) /\ Len(u) = 4 /\ u[1] = Byte(128 + a)
        /\ u[2] = Byte(128 + b) /\ u[3] = Byte(128 + c) /\ u[4] = Byte(e)
    BY <1>1, <1>2, SMT
  <1>4. /\ \A i \in 1..Len(u) : i \in DOMAIN w /\ w[i] = u[i]
        /\ SubSeq(w, Len(u) + 1, Len(w)) = rest
    <2>1. rest \in Seq(Tokens)
      BY SMT
    <2>2. u \in Seq(Tokens)
      BY <1>3, SMT
    <2> QED BY ONLY <2>1, <2>2, AfterPrefix, Zenon
  <1> HIDE DEF w
  <1>5. /\ \A i \in 1..4 : i \in DOMAIN w /\ w[i] = u[i]
        /\ SubSeq(w, 5, Len(w)) = rest
    BY <1>3, <1>4, SMT
  <1>6. \A i \in 1..4 : i \in DOMAIN w /\ w[i][1] = "byte"
    <2> SUFFICES ASSUME NEW i \in 1..4 PROVE i \in DOMAIN w /\ w[i][1] = "byte"
      BY SMT
    <2>1. i = 1 \/ i = 2 \/ i = 3 \/ i = 4
      BY SMT
    <2> QED BY <1>3, <1>5, <2>1, TokenFields, SMT
  <1>7. w[1][2] = 128 + a /\ w[2][2] = 128 + b /\ w[3][2] = 128 + c /\ w[4][2] = e
    BY <1>3, <1>5, TokenFields, SMT
  <1> DEFINE d == DecoderOf(w, val, strs, traits, objs)
             IsByte(i) == i \in DOMAIN d.w /\ d.w[i][1] = "byte"
             More(i) == IsByte(i) /\ d.w[i][2] >= 128
             k == IF ~More(1) THEN 1 ELSE IF ~More(2) THEN 2 ELSE IF ~More(3) THEN 3 ELSE 4
             low(i) == d.w[i][2] % 128
             number == CASE k = 1 -> low(1)
                         [] k = 2 -> 128 * low(1) + low(2)
                         [] k = 3 -> 128 * (128 * low(1) + low(2)) + low(3)
                         [] k = 4 -> 256 * (128 * (128 * low(1) + low(2)) + low(3)) + d.w[4][2]
  <1>8. d.w = w
    BY DecoderFields, SMT
  <1>9. DecodeU29(d) = IF \E i \in 1..k : ~IsByte(i) THEN Fail(d)
                       ELSE Value(Leave(d, SubSeq(d.w, k + 1, Len(d.w))), number)
    BY SMT DEF DecodeU29
  <1>10. \A i \in 1..4 : IsByte(i)
    BY <1>6, <1>8, SMT
  <1> HIDE DEF d
  <1>11. More(1) /\ More(2) /\ More(3)
    BY <1>1, <1>7, <1>8, <1>10, SMT
  <1>12. k = 4
    BY <1>11, SMT
  <1>13. number = 256 * (128 * (128 * low(1) + low(2)) + low(3)) + d.w[4][2]
    BY <1>12, SMT
  <1>14. low(1) = a /\ low(2) = b /\ low(3) = c /\ d.w[4][2] = e
    <2>1. d.w[1][2] = 128 + a /\ d.w[2][2] = 128 + b /\ d.w[3][2] = 128 + c /\ d.w[4][2] = e
      BY <1>7, <1>8, SMT
    <2>2. a \in 0..127 /\ b \in 0..127 /\ c \in 0..127 /\ e \in 0..255
      BY <1>1, SMT
    <2>3. (128 + a) % 128 = a /\ (128 + b) % 128 = b /\ (128 + c) % 128 = c
      BY ONLY <2>2, SMT
    <2> QED BY ONLY <2>1, <2>3, SMT
  <1> HIDE DEF number, k, low, IsByte, More
  <1>15. (\E i \in 1..k : ~IsByte(i)) <=> FALSE
    BY <1>10, <1>12, SMT
  <1>16. k + 1 = 5 /\ number = n
    <2>1. n = 256 * (128 * (128 * a + b) + c) + e
      BY <1>1, SMT
    <2> QED BY ONLY <2>1, <1>12, <1>13, <1>14, SMT
  <1>17. DecodeU29(d) = Value(Leave(d, rest), n)
    BY ONLY <1>5, <1>8, <1>9, <1>15, <1>16, Zenon
  <1>18. Value(Leave(d, rest), n) = DecoderOf(rest, n, strs, traits, objs)
    BY DecoderMoves, SMT DEF d
  <1> QED BY <1>17, <1>18, SMT DEF d, w, u

\* An integer of 29 bits is read as it was written, whatever follows it, and nothing of
\* what follows is taken.
THEOREM Uint29ReadBack ==
    ASSUME NEW n \in Nat, n <= AMF3_INTEGER_MAX, NEW rest \in Seq(Tokens),
           NEW val, NEW strs, NEW traits, NEW objs
    PROVE  DecodeU29(DecoderOf(Uint29(n) \o rest, val, strs, traits, objs))
             = DecoderOf(rest, n, strs, traits, objs)
  <1>1. CASE n <= 127
    BY <1>1, ReadOne
  <1>2. CASE n > 127 /\ n <= 16383
    BY <1>2, ReadTwo, SMT
  <1>3. CASE n > 16383 /\ n <= 2097151
    BY <1>3, ReadThree, SMT
  <1>4. CASE n > 2097151
    BY <1>4, ReadFour, SMT
  <1>5. \/ n <= 127
        \/ n > 127 /\ n <= 16383
        \/ n > 16383 /\ n <= 2097151
        \/ n > 2097151
    BY SMT
  <1> QED BY <1>1, <1>2, <1>3, <1>4, <1>5, SMT

\* What a reference number says.
RefOf(n) == [isRef |-> n % 2 = 0, n |-> n \div 2]

LEMMA ReferenceReadBack ==
    ASSUME NEW n \in Nat, n <= AMF3_INTEGER_MAX, NEW rest \in Seq(Tokens),
           NEW val, NEW strs, NEW traits, NEW objs
    PROVE  Reference(DecoderOf(Uint29(n) \o rest, val, strs, traits, objs))
                   = DecoderOf(rest, RefOf(n), strs, traits, objs)
  <1> DEFINE d == DecoderOf(Uint29(n) \o rest, val, strs, traits, objs)
             x == DecoderOf(rest, n, strs, traits, objs)
             v == RefOf(n)
  <1>1. DecodeU29(d) = x
    BY Uint29ReadBack
  <1>2. x.ok = TRUE /\ x.val = n
    <2>1. x.ok = TRUE
      BY DecoderOk, Zenon
    <2>2. x.val = n
      BY DecoderFields
    <2> QED BY <2>1, <2>2, Zenon
  <1>3. Value(x, v) = DecoderOf(rest, v, strs, traits, objs)
    <2> HIDE DEF v
    <2> QED BY DecoderUpdates
  <1> HIDE DEF d, x
  <1>4. Reference(d) = Value(x, [isRef |-> x.val % 2 = 0, n |-> x.val \div 2])
    BY <1>1, <1>2, Zenon DEF Reference, Then
  <1>5. Reference(d) = Value(x, v)
    BY <1>2, <1>4, Zenon DEF RefOf
  <1> HIDE DEF v
  <1>6. Reference(d) = DecoderOf(rest, v, strs, traits, objs)
    BY <1>3, <1>5, Zenon
  <1> QED BY <1>6, Zenon DEF d, v

\* The next token.
LEMMA TokenReadBack ==
    ASSUME NEW t \in Tokens, NEW rest \in Seq(Tokens),
           NEW val, NEW strs, NEW traits, NEW objs
    PROVE  Token(DecoderOf(<<t>> \o rest, val, strs, traits, objs), t[1])
             = DecoderOf(rest, t[2], strs, traits, objs)
  <1> DEFINE u == <<t>>
             w == u \o rest
             d == DecoderOf(w, val, strs, traits, objs)
  <1>1. u \in Seq(Tokens) /\ Len(u) = 1 /\ u[1] = t
    OBVIOUS
  <1> HIDE DEF u
  <1>2. /\ w \in Seq(Tokens) /\ Len(w) = Len(u) + Len(rest)
        /\ \A i \in 1..Len(u) : i \in DOMAIN w /\ w[i] = u[i]
        /\ SubSeq(w, Len(u) + 1, Len(w)) = rest
    <2>1. u \in Seq(Tokens)
      BY <1>1
    <2>2. rest \in Seq(Tokens)
      OBVIOUS
    <2>3. u \o rest \in Seq(Tokens) /\ Len(u \o rest) = Len(u) + Len(rest)
      BY ONLY <2>1, <2>2, AfterPrefix
    <2>4. \A i \in 1..Len(u) : i \in DOMAIN (u \o rest) /\ (u \o rest)[i] = u[i]
      BY ONLY <2>1, <2>2, AfterPrefix
    <2>5. SubSeq(u \o rest, Len(u) + 1, Len(u \o rest)) = rest
      BY ONLY <2>1, <2>2, AfterPrefix
    <2> QED BY <2>3, <2>4, <2>5
  <1> HIDE DEF w
  <1>3. /\ w \in Seq(Tokens) /\ Len(w) = 1 + Len(rest)
        /\ w[1] = t /\ SubSeq(w, 2, Len(w)) = rest
    BY <1>1, <1>2
  <1>4. w # <<>> /\ Head(w) = t /\ Tail(w) = rest
    <2>1. Len(rest) \in Nat
      BY LenProperties
    <2>2. w # <<>>
      BY <1>3, <2>1
    <2>3. Head(w) = t
      BY <1>3
    <2>4. Tail(w) = SubSeq(w, 2, Len(w))
      BY <1>3, <2>2, TailIsSubSeq
    <2> QED BY <1>3, <2>2, <2>3, <2>4
  <1>5. d.w = w
    BY DecoderFields
  <1>6. Value(Leave(d, rest), t[2]) = DecoderOf(rest, t[2], strs, traits, objs)
    BY DecoderMoves
  <1> HIDE DEF d
  <1>7. Token(d, t[1]) = Value(Leave(d, Tail(d.w)), Head(d.w)[2])
    BY <1>4, <1>5, Zenon DEF Token
  <1>8. Token(d, t[1]) = Value(Leave(d, rest), t[2])
    BY <1>4, <1>5, <1>7, Zenon
  <1> QED BY <1>6, <1>8 DEF d, w, u

LEMMA TokensConcat ==
    ASSUME NEW a \in Seq(Tokens), NEW b \in Seq(Tokens), NEW c \in Seq(Tokens)
    PROVE  (a \o b) \o c = a \o (b \o c) /\ a \o b \in Seq(Tokens)
  <1>1. (a \o b) \o c = a \o (b \o c)
    BY ConcatAssociative
  <1>2. a \o b \in Seq(Tokens)
    BY ConcatProperties
  <1> QED BY <1>1, <1>2

LEMMA AmfLimits ==
    AMF0_STRING_MAX \in Nat /\ AMF0_STRING_MAX >= 1 /\ AMF3_INTEGER_MAX \in Nat
    /\ 2 * (AMF0_STRING_MAX + 1) + 1 <= AMF3_INTEGER_MAX
    /\ \A x \in Nat : x <= AMF0_STRING_MAX => x % (AMF0_STRING_MAX + 1) = x
  BY SMT DEF AMF0_STRING_MAX, AMF3_INTEGER_MAX

LEMMA StringSizes ==
    ASSUME NEW s \in Strings
    PROVE  /\ Size(s) \in Nat /\ Size(s) <= AMF0_STRING_MAX + 1
           /\ Size(s) = 0 <=> s = Empty
           /\ s = Empty => Chars(s) = <<>>
           /\ s # Empty => Chars(s) = <<<<"chars", s>>>>
           /\ Chars(s) \in Seq(Tokens)
  <1>1. Empty # Long
    BY Zenon DEF Empty, Long
  <1>2. <<"chars", s>> \in Tokens
    BY TokenFields
  <1>3. <<<<"chars", s>>>> \in Seq(Tokens) /\ <<>> \in Seq(Tokens)
    BY <1>2
  <1>4. \/ s = Empty /\ Size(s) = 0
        \/ s # Empty /\ Size(s) = AMF0_STRING_MAX + 1
        \/ s # Empty /\ Size(s) = 1
    BY <1>1, Zenon DEF Size
  <1>5. Size(s) \in Nat /\ Size(s) <= AMF0_STRING_MAX + 1 /\ (Size(s) = 0 <=> s = Empty)
    <2> DEFINE n == Size(s)
    <2>1. n = 0 \/ n = AMF0_STRING_MAX + 1 \/ n = 1
      BY <1>4
    <2>2. n = 0 <=> s = Empty
      <3>1. AMF0_STRING_MAX + 1 # 0 /\ 1 # 0
        BY AmfLimits
      <3> QED BY ONLY <1>4, <3>1, Zenon
    <2> HIDE DEF n
    <2>3. n \in Nat /\ n <= AMF0_STRING_MAX + 1
      BY ONLY <2>1, AmfLimits
    <2> QED BY <2>2, <2>3 DEF n
  <1> QED BY <1>3, <1>5, SMT DEF Chars

\* The characters of a string.  Of an empty one there are none, and a decoder at the
\* end of a message takes that for an error.
LEMMA CharsReadBack ==
    ASSUME NEW s \in Strings, NEW rest \in Seq(Tokens), s # Empty \/ rest # <<>>,
           NEW val, NEW strs, NEW traits, NEW objs
    PROVE  ReadBytes(DecoderOf(Chars(s) \o rest, val, strs, traits, objs), Size(s))
             = DecoderOf(rest, s, strs, traits, objs)
  <1> DEFINE r == Chars(s) \o rest
             d == DecoderOf(r, val, strs, traits, objs)
  <1>1. CASE s = Empty
    <2>1. r = rest /\ Size(s) = 0
      <3>1. Chars(s) = <<>> /\ Size(s) = 0
        BY <1>1, StringSizes
      <3>2. <<>> \o rest = rest
        OBVIOUS
      <3> QED BY <3>1, <3>2
    <2> HIDE DEF r
    <2>2. d.w = r
      BY ONLY DecoderFields
    <2>3. Value(d, s) = DecoderOf(r, s, strs, traits, objs)
      BY DecoderUpdates
    <2> HIDE DEF d
    <2>4. ReadBytes(d, Size(s)) = Value(d, s)
      BY <1>1, <2>1, <2>2, Zenon DEF ReadBytes
    <2> QED BY <2>1, <2>3, <2>4 DEF d, r
  <1>2. CASE s # Empty
    <2> DEFINE t == <<"chars", s>>
               x == DecoderOf(rest, s, strs, traits, objs)
    <2>1. Chars(s) = <<t>> /\ Size(s) # 0
      BY <1>2, StringSizes
    <2>2. t \in Tokens /\ t[1] = "chars" /\ t[2] = s
      BY TokenFields
    <2>3. Token(d, "chars") = x
      <3> HIDE DEF t
      <3> QED BY <2>1, <2>2, TokenReadBack
    <2>4. x.ok = TRUE /\ x.val = s
      <3>1. x.ok = TRUE
        BY DecoderOk, Zenon
      <3>2. x.val = s
        BY DecoderFields
      <3> QED BY <3>1, <3>2, Zenon
    <2> HIDE DEF d, x
    <2>5. ReadBytes(d, Size(s)) = x
      BY <2>1, <2>3, <2>4, Zenon DEF ReadBytes, Then
    <2> QED BY <2>5, Zenon DEF d, x
  <1> QED BY <1>1, <1>2

\* A string of AMF0 that its length has room for is read as it was written, unless it is
\* empty and ends the message.
THEOREM String0ReadBack ==
    ASSUME NEW s \in Strings, Size(s) <= AMF0_STRING_MAX,
           NEW rest \in Seq(Tokens), s # Empty \/ rest # <<>>,
           NEW val, NEW strs, NEW traits, NEW objs
    PROVE  DecodeString0(DecoderOf(String0(s) \o rest, val, strs, traits, objs))
                   = DecoderOf(rest, s, strs, traits, objs)
  <1> DEFINE t == Field(Size(s))
             r == Chars(s) \o rest
             d == DecoderOf(String0(s) \o rest, val, strs, traits, objs)
             x == DecoderOf(r, Size(s), strs, traits, objs)
  <1>1. Size(s) % (AMF0_STRING_MAX + 1) = Size(s) /\ Size(s) \in Int
    <2>1. Size(s) \in Nat /\ Size(s) \in Int /\ Size(s) <= AMF0_STRING_MAX
      BY StringSizes
    <2>2. \A k \in Nat : k <= AMF0_STRING_MAX => k % (AMF0_STRING_MAX + 1) = k
      BY AmfLimits
    <2>3. Size(s) % (AMF0_STRING_MAX + 1) = Size(s)
      BY ONLY <2>1, <2>2, Zenon
    <2> QED BY ONLY <2>1, <2>3, Zenon
  <1>2. t \in Tokens /\ t[1] = "field" /\ t[2] = Size(s)
    BY <1>1, TokenFields
  <1>3. Chars(s) \in Seq(Tokens)
    BY StringSizes
  <1>4. String0(s) = <<t>> \o Chars(s)
    BY <1>1, Zenon DEF String0
  <1> HIDE DEF t
  <1>5. String0(s) \o rest = <<t>> \o r /\ r \in Seq(Tokens)
    <2>1. <<t>> \in Seq(Tokens)
      BY <1>2
    <2>2. (<<t>> \o Chars(s)) \o rest = <<t>> \o (Chars(s) \o rest)
      <3> DEFINE u == <<t>>
      <3>2. u \in Seq(Tokens)
        BY <2>1
      <3> HIDE DEF u
      <3>3. (u \o Chars(s)) \o rest = u \o (Chars(s) \o rest)
        BY <1>3, <3>2, TokensConcat
      <3> QED BY <3>3 DEF u
    <2>3. Chars(s) \o rest \in Seq(Tokens)
      BY <1>3, ConcatProperties
    <2> QED BY <1>4, <2>2, <2>3
  <1>6. Token(d, "field") = x
    <2> HIDE DEF r
    <2> QED BY <1>2, <1>5, TokenReadBack
  <1>7. x.ok = TRUE /\ x.val = Size(s)
    <2>1. x.ok = TRUE
      BY DecoderOk, Zenon
    <2>2. x.val = Size(s)
      BY DecoderFields
    <2> QED BY <2>1, <2>2, Zenon
  <1>8. ReadBytes(x, Size(s)) = DecoderOf(rest, s, strs, traits, objs)
    <2> DEFINE n == Size(s)
    <2>1. s \in Strings /\ rest \in Seq(Tokens) /\ (s # Empty \/ rest # <<>>)
      OBVIOUS
    <2> HIDE DEF n
    <2>2. ReadBytes(DecoderOf(Chars(s) \o rest, n, strs, traits, objs), Size(s))
            = DecoderOf(rest, s, strs, traits, objs)
      BY ONLY <2>1, CharsReadBack, SMT
    <2> HIDE DEF r
    <2> QED BY <2>2, Zenon DEF n, r
  <1> HIDE DEF d, x
  <1>9. DecodeString0(d) = ReadBytes(x, Size(s))
    BY <1>6, <1>7, Zenon DEF DecodeString0, Then
  <1> QED BY <1>8, <1>9, Zenon DEF d

LEMMA EncoderFields ==
    ASSUME NEW w, NEW use, NEW strs, NEW traits, NEW objs, NEW x
    PROVE  LET e == EncoderOf(w, use, strs, traits, objs)
           IN  /\ e.w = w /\ e.strs = strs
               /\ WithStrs(e, x) = EncoderOf(w, use, x, traits, objs)
  <1>1. EncoderOf(w, use, strs, traits, objs).w = w
        /\ EncoderOf(w, use, strs, traits, objs).strs = strs
    BY DEF EncoderOf
  <1>2. WithStrs(EncoderOf(w, use, strs, traits, objs), x)
          = EncoderOf(w, use, x, traits, objs)
    BY DEF EncoderOf, WithStrs
  <1> QED BY <1>1, <1>2

LEMMA EncoderPuts ==
    ASSUME NEW w, NEW use, NEW strs, NEW traits, NEW objs, NEW u
    PROVE  Put(EncoderOf(w, use, strs, traits, objs), u)
             = EncoderOf(w \o u, use, strs, traits, objs)
  <1> DEFINE e == EncoderOf(w, use, strs, traits, objs)
  <1>1. e.w = w
    BY EncoderFields
  <1>2. [e EXCEPT !.w = w \o u] = EncoderOf(w \o u, use, strs, traits, objs)
    <2> DEFINE y == w \o u
    <2> HIDE DEF y
    <2>1. [e EXCEPT !.w = y] = EncoderOf(y, use, strs, traits, objs)
      BY DEF EncoderOf
    <2> QED BY <2>1 DEF y
  <1> HIDE DEF e
  <1>3. Put(e, u) = [e EXCEPT !.w = w \o u]
    BY <1>1, Zenon DEF Put
  <1> QED BY <1>2, <1>3, Zenon DEF e

LEMMA Uint29Tokens ==
    ASSUME NEW n \in Nat, n <= AMF3_INTEGER_MAX PROVE Uint29(n) \in Seq(Tokens)
  <1>1. CASE n <= 127
    <2>1. Byte(n) \in Tokens
      BY TokenFields, SMT
    <2>2. Uint29(n) = <<Byte(n)>>
      BY <1>1, Uint29One, SMT
    <2>3. <<Byte(n)>> \in Seq(Tokens)
      BY <2>1, SMT
    <2> QED BY <2>2, <2>3
  <1>2. CASE n > 127 /\ n <= 16383
    <2> DEFINE a == n \div 128
               b == n % 128
    <2>1. a \in 0..127 /\ b \in 0..127 /\ Uint29(n) = <<Byte(128 + a), Byte(b)>>
      BY <1>2, Uint29Two, SMT
    <2> HIDE DEF a, b
    <2>2. Byte(128 + a) \in Tokens /\ Byte(b) \in Tokens
      BY <2>1, TokenFields, SMT
    <2> QED BY <2>1, <2>2, SMT
  <1>3. CASE n > 16383 /\ n <= 2097151
    <2> DEFINE a == n \div 16384
               b == (n \div 128) % 128
               c == n % 128
    <2>1. /\ a \in 0..127 /\ b \in 0..127 /\ c \in 0..127
          /\ Uint29(n) = <<Byte(128 + a), Byte(128 + b), Byte(c)>>
      BY <1>3, Uint29Three, SMT
    <2> HIDE DEF a, b, c
    <2>2. Byte(128 + a) \in Tokens /\ Byte(128 + b) \in Tokens /\ Byte(c) \in Tokens
      BY <2>1, TokenFields, SMT
    <2> QED BY <2>1, <2>2, SMT
  <1>4. CASE n > 2097151
    <2> DEFINE a == n \div 4194304
               b == (n \div 32768) % 128
               c == (n \div 256) % 128
               e == n % 256
    <2>1. /\ a \in 0..127 /\ b \in 0..127 /\ c \in 0..127 /\ e \in 0..255
          /\ Uint29(n) = <<Byte(128 + a), Byte(128 + b), Byte(128 + c), Byte(e)>>
      BY <1>4, Uint29Four, SMT
    <2> HIDE DEF a, b, c, e
    <2>2. /\ Byte(128 + a) \in Tokens /\ Byte(128 + b) \in Tokens
          /\ Byte(128 + c) \in Tokens /\ Byte(e) \in Tokens
      BY <2>1, TokenFields, SMT
    <2> QED BY <2>1, <2>2, SMT
  <1>5. \/ n <= 127
        \/ n > 127 /\ n <= 16383
        \/ n > 16383 /\ n <= 2097151
        \/ n > 2097151
    BY SMT
  <1> QED BY <1>1, <1>2, <1>3, <1>4, <1>5, SMT

\* How a string is written that is entry i of the table, and one that is sent.
Referred(i) == Uint29(2 * (i - 1))
Sent(s) == Uint29(2 * Size(s) + 1) \o Chars(s)

\* A string that is in the table is written as its number and read from there.
LEMMA KnownReadBack ==
    ASSUME NEW table \in Seq(Strings), 2 * Len(table) <= AMF3_INTEGER_MAX,
           NEW i \in 1..Len(table), NEW rest \in Seq(Tokens),
           NEW val, NEW traits, NEW objs
    PROVE  DecodeString3(DecoderOf(Referred(i) \o rest, val, table, traits, objs))
             = DecoderOf(rest, table[i], table, traits, objs)
  <1> DEFINE n == 2 * (i - 1)
             v == RefOf(n)
             d == DecoderOf(Uint29(n) \o rest, val, table, traits, objs)
             x == DecoderOf(rest, v, table, traits, objs)
             s == table[i]
  <1>1. Len(table) \in Nat
    BY LenProperties
  <1>2. n \in Nat /\ n <= AMF3_INTEGER_MAX /\ n % 2 = 0 /\ n \div 2 = i - 1
    BY <1>1, AmfLimits
  <1>3. i - 1 < Len(table) /\ (i - 1) + 1 = i
    BY <1>1
  <1> HIDE DEF n, s
  <1>4. Reference(d) = x
    <2>1. n \in Nat /\ n <= AMF3_INTEGER_MAX /\ rest \in Seq(Tokens)
      BY <1>2
    <2> QED BY ONLY <2>1, ReferenceReadBack, SMT
  <1>5. v.isRef = TRUE /\ v.n = i - 1
    BY <1>2 DEF RefOf
  <1> HIDE DEF v
  <1>6. x.ok = TRUE /\ x.val = v /\ x.strs = table
    <2>1. x.ok = TRUE
      BY DecoderOk, Zenon
    <2>2. x.val = v /\ x.strs = table
      BY DecoderFields
    <2> QED BY <2>1, <2>2, Zenon
  <1>7. Value(x, s) = DecoderOf(rest, s, table, traits, objs)
    BY DecoderUpdates
  <1> HIDE DEF d, x
  <1>8. DecodeString3(d) = Entry(x, table, i - 1)
    BY <1>4, <1>5, <1>6, Zenon DEF DecodeString3, Then
  <1>9. Entry(x, table, i - 1) = Value(x, s)
    BY <1>3, Zenon DEF Entry, s
  <1> QED BY <1>7, <1>8, <1>9, Zenon DEF d, n, s, Referred

Entered(strs, s) == IF s = Empty THEN strs ELSE Append(strs, s)

\* A string that is sent is read and, unless it is empty, entered in the table.
LEMMA SentReadBack ==
    ASSUME NEW s \in Strings, NEW rest \in Seq(Tokens), s # Empty \/ rest # <<>>,
           NEW val, NEW strs, NEW traits, NEW objs
    PROVE  DecodeString3(DecoderOf(Sent(s) \o rest, val, strs, traits, objs))
             = DecoderOf(rest, s, Entered(strs, s), traits, objs)
  <1> DEFINE n == 2 * Size(s) + 1
             k == n \div 2
             v == RefOf(n)
             u == Uint29(n) \o Chars(s)
             r == Chars(s) \o rest
             w == Uint29(n) \o r
             d == DecoderOf(w, val, strs, traits, objs)
             x == DecoderOf(r, v, strs, traits, objs)
             y == DecoderOf(rest, s, strs, traits, objs)
             after == Entered(strs, s)
  <1>1. Size(s) \in Nat /\ Size(s) <= AMF0_STRING_MAX + 1 /\ Chars(s) \in Seq(Tokens)
    BY StringSizes
  <1>2. n \in Nat /\ n <= AMF3_INTEGER_MAX /\ ~(n % 2 = 0) /\ k = Size(s)
    <2>1. \A z \in Nat : z <= AMF0_STRING_MAX + 1 =>
            /\ 2 * z + 1 \in Nat /\ 2 * z + 1 <= AMF3_INTEGER_MAX
            /\ ~((2 * z + 1) % 2 = 0) /\ (2 * z + 1) \div 2 = z
      BY ONLY AmfLimits
    <2>2. Size(s) \in Nat /\ Size(s) <= AMF0_STRING_MAX + 1
      BY <1>1
    <2> QED BY ONLY <2>1, <2>2, Zenon
  <1> HIDE DEF n, k
  <1>3. Uint29(n) \in Seq(Tokens)
    BY <1>2, Uint29Tokens
  <1>4. u \o rest = w /\ r \in Seq(Tokens)
    BY <1>1, <1>3, TokensConcat
  <1>5. ReadBytes(x, Size(s)) = y
    <2> HIDE DEF v
    <2>1. s \in Strings /\ rest \in Seq(Tokens) /\ (s # Empty \/ rest # <<>>)
      OBVIOUS
    <2>2. ReadBytes(DecoderOf(Chars(s) \o rest, v, strs, traits, objs), Size(s))
            = DecoderOf(rest, s, strs, traits, objs)
      BY ONLY <2>1, CharsReadBack, SMT
    <2> HIDE DEF r
    <2> QED BY <2>2, Zenon DEF r
  <1>6. v.isRef = FALSE /\ v.n = k
    BY <1>2 DEF RefOf, k
  <1> HIDE DEF v
  <1>7. Reference(d) = x
    <2> HIDE DEF r
    <2>1. n \in Nat /\ n <= AMF3_INTEGER_MAX /\ r \in Seq(Tokens)
      BY <1>2, <1>4
    <2> QED BY ONLY <2>1, ReferenceReadBack, SMT DEF v
  <1> HIDE DEF u, r, w
  <1>8. x.ok = TRUE /\ x.val = v
    <2>1. x.ok = TRUE
      BY DecoderOk, Zenon
    <2>2. x.val = v
      BY DecoderFields
    <2> QED BY <2>1, <2>2, Zenon
  <1>9. y.ok = TRUE /\ y.val = s /\ y.strs = strs
    <2>1. y.ok = TRUE
      BY DecoderOk, Zenon
    <2>2. y.val = s /\ y.strs = strs
      BY DecoderFields
    <2> QED BY <2>1, <2>2, Zenon
  <1> HIDE DEF after
  <1>10. WithStrs(y, after) = DecoderOf(rest, s, after, traits, objs)
    BY DecoderUpdates
  <1> HIDE DEF d, x, y
  <1>11. [y EXCEPT !.strs = IF y.val = Empty THEN @ ELSE Append(@, y.val)]
           = WithStrs(y, after)
    BY <1>9, Zenon DEF after, Entered, WithStrs
  <1>12. DecodeString3(d)
           = [y EXCEPT !.strs = IF y.val = Empty THEN @ ELSE Append(@, y.val)]
    BY <1>2, <1>5, <1>6, <1>7, <1>8, <1>9, Zenon DEF DecodeString3, Then
  <1>13. DecodeString3(d) = DecoderOf(rest, s, after, traits, objs)
    BY <1>10, <1>11, <1>12, Zenon
  <1>14. d = DecoderOf(u \o rest, val, strs, traits, objs)
    BY <1>4 DEF d
  <1> QED BY <1>13, <1>14, Zenon DEF after, u, n, Sent

\* A string of AMF3, in front of any message: whether it is sent or referred to, a
\* decoder whose table is the encoder's reads it, and their tables are the same again.
THEOREM String3ReadBack ==
    ASSUME NEW table \in Seq(Strings), 2 * Len(table) <= AMF3_INTEGER_MAX,
           NEW w \in Seq(Tokens), NEW use, NEW etraits, NEW eobjs,
           NEW s \in Strings, NEW rest \in Seq(Tokens), s # Empty \/ rest # <<>>,
           NEW val, NEW traits, NEW objs
    PROVE  LET e == Utf8(EncoderOf(w, use, table, etraits, eobjs), s)
           IN  \E u \in Seq(Tokens) :
                 /\ e.w = w \o u
                 /\ DecodeString3(DecoderOf(u \o rest, val, table, traits, objs))
                      = DecoderOf(rest, s, e.strs, traits, objs)
  <1> DEFINE e == EncoderOf(w, use, table, etraits, eobjs)
             at == Known(e, "string", e.strs, s)
             after == Utf8(e, s)
  <1>1. e.w = w /\ e.strs = table
    BY DEF EncoderOf
  <1>2. Len(table) \in Nat
    BY LenProperties
  <1>3. CASE at # {}
    <2> DEFINE i == CHOOSE i \in at : TRUE
               u == Referred(i)
    <2>1. i \in at
      BY <1>3
    <2>2. at \subseteq {j \in DOMAIN table : table[j] = s}
      BY <1>1 DEF Known
    <2>3. i \in 1..Len(table) /\ table[i] = s
      BY <2>1, <2>2, LenProperties
    <2>4. after = Put(e, u)
      BY <1>3, Zenon DEF Utf8, Referred
    <2> HIDE DEF i, at
    <2>5. 2 * (i - 1) \in Nat /\ 2 * (i - 1) <= AMF3_INTEGER_MAX
      BY <1>2, <2>3, AmfLimits
    <2>6. u \in Seq(Tokens)
      BY <2>5, Uint29Tokens DEF Referred
    <2>7. DecodeString3(DecoderOf(u \o rest, val, table, traits, objs))
              = DecoderOf(rest, s, table, traits, objs)
      <3>1. DecodeString3(DecoderOf(Referred(i) \o rest, val, table, traits, objs))
                = DecoderOf(rest, table[i], table, traits, objs)
        BY <2>3, KnownReadBack
      <3> HIDE DEF u
      <3> QED BY <2>3, <3>1, Zenon DEF u
    <2> HIDE DEF u
    <2>8. Put(e, u) = EncoderOf(w \o u, use, table, etraits, eobjs)
      BY EncoderPuts
    <2> DEFINE y == w \o u
    <2> HIDE DEF y, e
    <2>9. EncoderOf(y, use, table, etraits, eobjs).w = y
          /\ EncoderOf(y, use, table, etraits, eobjs).strs = table
      BY EncoderFields
    <2>10. after.w = w \o u /\ after.strs = table
      BY <2>4, <2>8, <2>9, Zenon DEF y
    <2> HIDE DEF after, e
    <2> QED BY <2>6, <2>7, <2>10, Zenon DEF after, e
  <1>4. CASE at = {}
    <2> DEFINE u == Sent(s)
               t == Entered(table, s)
               y == w \o u
               b == EncoderOf(y, use, table, etraits, eobjs)
    <2>1. after = [Put(e, u) EXCEPT !.strs = IF s = Empty THEN @ ELSE Append(@, s)]
      BY <1>4, Zenon DEF Utf8, Sent
    <2>2. Size(s) \in Nat /\ Size(s) <= AMF0_STRING_MAX + 1 /\ Chars(s) \in Seq(Tokens)
      BY StringSizes
    <2>3. 2 * Size(s) + 1 \in Nat /\ 2 * Size(s) + 1 <= AMF3_INTEGER_MAX
      BY <2>2, AmfLimits
    <2>4. Uint29(2 * Size(s) + 1) \in Seq(Tokens)
      BY <2>3, Uint29Tokens
    <2>5. u \in Seq(Tokens)
      BY <2>2, <2>4, TokensConcat DEF Sent
    <2>6. DecodeString3(DecoderOf(u \o rest, val, table, traits, objs))
              = DecoderOf(rest, s, t, traits, objs)
      BY SentReadBack
    <2> HIDE DEF u, at
    <2>7. Put(e, u) = b
      BY EncoderPuts
    <2> HIDE DEF e, t, y
    <2>8. b.strs = table /\ WithStrs(b, t) = EncoderOf(y, use, t, etraits, eobjs)
      BY EncoderFields
    <2>9. EncoderOf(y, use, t, etraits, eobjs).w = y
          /\ EncoderOf(y, use, t, etraits, eobjs).strs = t
      BY EncoderFields
    <2> HIDE DEF b
    <2>10. after = WithStrs(b, t)
      BY <2>1, <2>7, <2>8, Zenon DEF t, Entered, WithStrs
    <2>11. after.w = w \o u /\ after.strs = t
      BY <2>8, <2>9, <2>10, Zenon DEF y
    <2> HIDE DEF after
    <2> QED BY <2>5, <2>6, <2>11, Zenon DEF after, e
  <1> QED BY <1>3, <1>4
=============================================================================
