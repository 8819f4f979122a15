------------------------------- MODULE GopCache -------------------------------
(***************************************************************************)
(* The cache of one publication as a state machine: packets are written in *)
(* the order in which the publisher sends them.  The history keeps what    *)
(* was written, sorted by what it is, to say what Send should replay.      *)
(***************************************************************************)
EXTENDS Cache

CONSTANT MaxWritten  \* bound on the packets written in a behaviour

ASSUME WrittenAssumption == MaxWritten \in Nat

VARIABLES cache,    \* the Cache
          headers,  \* history: the last packet of each of the other kinds
          frames,   \* history: the video frames, in order
          written   \* number of packets written

vars == <<cache, headers, frames, written>>

HeaderKinds == {"meta", "aseq", "vseq"}

Init ==
    /\ cache = NewCache
    /\ headers = [k \in HeaderKinds |-> NoPacket]
    /\ frames = <<>>
    /\ written = 0

Write(p) ==
    /\ written < MaxWritten
    /\ written' = written + 1
    /\ cache' = CacheWrite(cache, p)
    /\ headers' = IF p.kind \in HeaderKinds
                    THEN [headers EXCEPT ![p.kind] = p] ELSE headers
    /\ frames' = IF IsFrame(p) THEN Append(frames, p) ELSE frames

Next == \E k \in Kinds : Write([kind |-> k, no |-> written + 1])

Spec == Init /\ [][Next]_vars

-----------------------------------------------------------------------------
(* Properties *)

gop == cache.gop

Full == Len(gop.packets) >= MaxGOPCap

TypeOK ==
    /\ cache \in CacheType
    /\ headers \in [HeaderKinds -> Packets \cup {NoPacket}]
    /\ frames \in Seq(Packets)
    /\ written \in Nat

\* The cached packets are the frames from the k-th on: k is a key frame and
\* none of the others is.
CachedFrom(k) ==
    /\ k + Len(gop.packets) - 1 <= Len(frames)
    /\ \A i \in 1..Len(gop.packets) : gop.packets[i] = frames[k + i - 1]
    /\ \A i \in 1..Len(gop.packets) : IsKeyFrame(gop.packets[i]) <=> i = 1

\* What is cached is one run of consecutive frames that starts at a key frame
\* and has no other, at most MaxGOPCap of them: what Send replays can be decoded.
GopIsOneGroup ==
    gop.isComplete =>
      /\ Len(gop.packets) \in 1..MaxGOPCap
      /\ \E k \in 1..Len(frames) : CachedFrom(k)

\* Until the array is full a joining player gets everything since the last key
\* frame, up to the newest frame.
GopIsCurrent ==
    ~Full =>
      IF gop.isComplete
        THEN \E k \in 1..Len(frames) :
               CachedFrom(k) /\ k + Len(gop.packets) - 1 = Len(frames)
        ELSE \A i \in 1..Len(frames) : ~IsKeyFrame(frames[i])

\* Send replays the newest metadata and sequence headers, then the group.
SendReplays ==
    CacheSend(cache) =
      SpecialSend(headers["meta"]) \o SpecialSend(headers["vseq"])
        \o SpecialSend(headers["aseq"]) \o gop.packets

\* The k-th frame and the MaxGOPCap - 1 after it were published as the beginning of a
\* group.
LongFrom(k) ==
    /\ k + MaxGOPCap - 1 <= Len(frames)
    /\ IsKeyFrame(frames[k])
    /\ \A i \in (k + 1)..(k + MaxGOPCap - 1) : ~IsKeyFrame(frames[i])

\* Until a group of MaxGOPCap frames is published the array does not fill up, however
\* many frames there are in shorter ones; from then on, and for the rest of the
\* publication, who joins is sent the beginning of the first such group, whatever key
\* frames have come since.
FirstLongGroupStays ==
    IF Full
      THEN \E k \in 1..Len(frames) :
             /\ LongFrom(k) /\ CachedFrom(k)
             /\ \A j \in 1..(k - 1) : ~LongFrom(j)
      ELSE \A k \in 1..Len(frames) : ~LongFrom(k)

\* The inductive invariant behind the properties above.
IndInv ==
    /\ TypeOK
    /\ ~gop.isComplete => gop.packets = <<>>
    /\ GopIsOneGroup
    /\ GopIsCurrent
    /\ FirstLongGroupStays
    /\ cache.metadata = headers["meta"]
    /\ cache.videoSeq = headers["vseq"]
    /\ cache.audioSeq = headers["aseq"]
=============================================================================
