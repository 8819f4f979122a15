------------------------------- MODULE TsMuxer -------------------------------
(***************************************************************************)
(* ts.Muxer: a frame becomes a PES packet, a header and the data, which is *)
(* cut into TS packets of 188 bytes; and a demuxer as players have it      *)
(* (ISO/IEC 13818-1), which puts the PES packets together again.  The      *)
(* bytes of a PES packet are numbered from 0.  One turn of the loop of Mux *)
(* writes one TS packet, and the demuxer reads it.                         *)
(***************************************************************************)
EXTENDS Integers

CONSTANTS
    Sizes,         \* lengths of the data of a frame
    Times,         \* decoding times, in ticks
    Compositions,  \* composition times, in ticks
    TsMod,         \* the clock of PTS and DTS wraps around here, 2^33 in the code
    MaxTs          \* bound on the frames and tables of a behaviour

ASSUME TsAssumption ==
    /\ Sizes \subseteq Nat
    /\ Times \subseteq Nat
    /\ Compositions \subseteq Nat
    /\ TsMod \in Nat \ {0}
    /\ MaxTs \in Nat

VARIABLES
    cc,       \* Muxer.videoCc, audioCc, patCc, pmtCc
    frame,    \* the frame and its PES header
    left,     \* packetBytesLen
    pesLeft,  \* pesHeaderLen
    wBytes,   \* bytes of the data that are written
    first,    \* the next TS packet is the first of the frame
    muxed,    \* frames and tables begun
    seen,     \* demuxer: the counter of the last TS packet of each PID, or None
    counted,  \* demuxer: each counter was one more than the last of its PID
    got,      \* demuxer: bytes of the PES packet
    intact,   \* demuxer: they are the bytes of the PES packet, in order
    pcr       \* demuxer: the clock reference of the PES packet, or None

tsVars == <<cc, frame, left, pesLeft, wBytes, first, muxed, seen, counted, got, intact, pcr>>

None == -1
Pids == {"video", "audio", "pat", "pmt"}
tsDefaultDataLen == 184
tsPacketLen == 188

Lesser(a, b) == IF a <= b THEN a ELSE b

TsInit ==
    /\ cc = [p \in Pids |-> 0]
    /\ frame = [pid |-> "audio", key |-> FALSE, size |-> 0, dts |-> 0, cts |-> 0,
                pes |-> [len |-> 0, size |-> 0, pts |-> 0, dts |-> 0]]
    /\ left = 0 /\ pesLeft = 0 /\ wBytes = 0
    /\ first = FALSE
    /\ muxed = 0
    /\ seen = [p \in Pids |-> None]
    /\ counted = TRUE
    /\ got = 0
    /\ intact = TRUE
    /\ pcr = None

-----------------------------------------------------------------------------
(* The demuxer *)

\* The counter of a TS packet.
Counts(pid, c) ==
    /\ counted' = (counted /\ seen[pid] \in {None, (c - 1) % 16})
    /\ seen' = [seen EXCEPT ![pid] = c]

\* Where the payload begins: after the adaptation field, if there is one.
PayloadAt(af) == IF af = None THEN 4 ELSE 5 + af

-----------------------------------------------------------------------------
(* Mux *)

\* writeTs: past the end of the clock the largest time is taken off, not the period.
WriteTs(ts) == (IF ts > TsMod - 1 THEN ts - (TsMod - 1) ELSE ts) % TsMod

\* packet: a video frame has a DTS of its own if it is not the PTS; a size of more
\* than 16 bits is left open.
PesHeader(size, dts, cts) ==
    LET headerSize == IF cts # 0 THEN 10 ELSE 5
        s == size + headerSize + 3
    IN  [len |-> 9 + headerSize,
         size |-> IF s > 65535 THEN 0 ELSE s,
         pts |-> WriteTs(dts + cts),
         dts |-> WriteTs(dts)]

MuxBegin ==
    /\ left = 0
    /\ muxed < MaxTs
    /\ muxed' = muxed + 1
    /\ \E pid \in {"video", "audio"}, key \in BOOLEAN, size \in Sizes, dts \in Times,
          cts \in Compositions :
         LET pes == PesHeader(size, dts, cts)
         IN  /\ pid = "audio" => ~key /\ cts = 0
             /\ frame' = [pid |-> pid, key |-> key, size |-> size, dts |-> dts,
                          cts |-> cts, pes |-> pes]
             /\ left' = size + pes.len
             /\ pesLeft' = pes.len
    /\ wBytes' = 0
    /\ first' = TRUE
    /\ got' = 0
    /\ intact' = TRUE
    /\ pcr' = None
    /\ UNCHANGED <<cc, seen, counted>>

\* Faulty: the counter goes back after 14.
NextCc_Early(c) == IF c + 1 > 14 THEN 0 ELSE c + 1

NextCc(c) == IF c + 1 > 15 THEN 0 ELSE c + 1

\* The TS header, and the adaptation field with the PCR of a key frame.
HeadLen == IF first /\ frame.key THEN 12 ELSE 4

\* dataLen, before the PES header takes its part.
DataLen == IF left < tsDefaultDataLen THEN left ELSE tsDefaultDataLen - (HeadLen - 4)

\* remainBytes, a byte: the stuffing of the last TS packet.
Remain ==
    IF left < tsDefaultDataLen THEN (tsDefaultDataLen - left - (HeadLen - 4)) % 256 ELSE 0

\* Where the payload begins: the byte i wraps around too.
PayloadStart == (HeadLen + Remain) % 256

\* What the length of the adaptation field says: the stuffing of a key frame's only
\* TS packet is written after the PCR and not added to the length.
AdaptationLen ==
    IF HeadLen = 12 THEN 7
    ELSE IF left < tsDefaultDataLen THEN Remain - 1
    ELSE None

Turn ==
    LET c == NextCc(cc[frame.pid])
        head == IF first THEN Lesser(pesLeft, tsPacketLen - PayloadStart) ELSE 0
        data == IF PayloadStart + head < tsPacketLen
                  THEN Lesser(DataLen - head, tsPacketLen - PayloadStart - head)
                  ELSE 0
        from == IF head > 0 THEN frame.pes.len - pesLeft ELSE frame.pes.len + wBytes
    IN  /\ left > 0
        /\ cc' = [cc EXCEPT ![frame.pid] = c]
        /\ Counts(frame.pid, c)
        /\ pesLeft' = pesLeft - head
        /\ wBytes' = wBytes + data
        /\ left' = left - head - data
        /\ first' = FALSE
        /\ got' = got + head + data
        /\ intact' = (intact /\ from = got
                        /\ PayloadStart = PayloadAt(AdaptationLen)
                        /\ PayloadStart + head + data = tsPacketLen)
        /\ pcr' = IF HeadLen = 12 /\ HeadLen <= PayloadStart THEN frame.dts % TsMod ELSE pcr
        /\ UNCHANGED <<frame, muxed>>

\* PAT and PMT: one TS packet each, at the start of a segment.
Table(t) ==
    LET c == IF cc[t] > 15 THEN 0 ELSE cc[t]
    IN  /\ left = 0
        /\ muxed < MaxTs
        /\ muxed' = muxed + 1
        /\ cc' = [cc EXCEPT ![t] = c + 1]
        /\ Counts(t, c)
        /\ UNCHANGED <<frame, left, pesLeft, wBytes, first, got, intact, pcr>>

TsNext ==
    \/ MuxBegin
    \/ Turn
    \/ \E t \in {"pat", "pmt"} : Table(t)

TsSpec == TsInit /\ [][TsNext]_tsVars

-----------------------------------------------------------------------------
(* Properties *)

\* A key frame that is shorter than one TS packet, and does not fill it: its stuffing
\* is taken for payload, or its payload has overwritten the PCR.
Misplaced ==
    LET total == frame.pes.len + frame.size
    IN  frame.key /\ total < tsDefaultDataLen /\ total # tsDefaultDataLen - 8

\* When Mux returns.
FrameWhole ==
    left = 0 /\ ~Misplaced =>
        /\ intact
        /\ got = frame.pes.len + frame.size
        /\ frame.pes.size \in {0, got - 6}

\* A time past the end of the clock is one tick late.
Clocks ==
    LET Read(ts) == {ts % TsMod, (ts + 1) % TsMod}
    IN  /\ frame.pes.dts \in Read(frame.dts)
        /\ frame.pes.pts \in Read(frame.dts + frame.cts)
        /\ pcr \in {None, frame.dts % TsMod}

\* The counters of the four PIDs never jump, and of every frame, but a short key frame,
\* the demuxer has all the bytes in order when Mux returns, the size that the PES
\* header has promised, and the times of the frame or one tick more.
TsRecovered ==
    /\ counted
    /\ FrameWhole
    /\ Clocks
=============================================================================
