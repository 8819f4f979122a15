-------------------------------- MODULE Cache --------------------------------
(***************************************************************************)
(* The packets of a live stream and the cache PushStart and PullStart keep *)
(* of them for players that join late (package cache).  A packet is its    *)
(* kind and, for a video frame, its number in the order of publication;    *)
(* the payload is left out.                                                *)
(***************************************************************************)
EXTENDS Integers, Sequences

CONSTANT MaxGOPCap  \* maxGOPCap, 1024 in the code

ASSUME GopAssumption == MaxGOPCap \in Nat \ {0}

\* "meta"     IsMetadata
\* "aseq"     AAC sequence header           "audio"  any other audio packet
\* "vseq"     IsSeq(): frame type key and avcPacketType 0.  The second byte is
\*            parsed for AVC only, so every key frame of another codec is one.
\* "key"      IsKeyFrame() and not IsSeq()  "inter"  any other video packet
Kinds == {"meta", "aseq", "audio", "vseq", "key", "inter"}

FrameKinds == {"key", "inter"}

Packets == [kind : Kinds, no : Nat]

NoPacket == [kind |-> "none", no |-> 0]

IsKeyFrame(p) == p.kind = "key"

IsFrame(p) == p.kind \in FrameKinds

-----------------------------------------------------------------------------
(* array, the current group of pictures *)
NewArray == [packets |-> <<>>, isComplete |-> FALSE]

\* Faulty: a key frame does not reset the array.
ArrayWrite_NoReset(a, p) ==
    IF \/ Len(a.packets) >= MaxGOPCap
       \/ ~a.isComplete /\ ~IsKeyFrame(p)
      THEN a
      ELSE [packets |-> Append(a.packets, p), isComplete |-> TRUE]

\* Faulty: the array is taken for full one packet early.
ArrayWrite_FullEarly(a, p) ==
    IF \/ Len(a.packets) + 1 >= MaxGOPCap
       \/ ~a.isComplete /\ ~IsKeyFrame(p)
      THEN a
      ELSE IF IsKeyFrame(p)
             THEN [packets |-> <<p>>, isComplete |-> TRUE]
             ELSE [a EXCEPT !.packets = Append(a.packets, p)]

\* Different: a key frame is looked for before the size is tested.
ArrayWrite_KeyFirst(a, p) ==
    IF IsKeyFrame(p)
      THEN [packets |-> <<p>>, isComplete |-> TRUE]
      ELSE IF Len(a.packets) >= MaxGOPCap \/ ~a.isComplete
             THEN a
             ELSE [a EXCEPT !.packets = Append(a.packets, p)]

\* The size test comes first, so a full array ignores key frames too.
ArrayWrite(a, p) ==
    IF \/ Len(a.packets) >= MaxGOPCap
       \/ ~a.isComplete /\ ~IsKeyFrame(p)
      THEN a
      ELSE IF IsKeyFrame(p)
             THEN [packets |-> <<p>>, isComplete |-> TRUE]
             ELSE [a EXCEPT !.packets = Append(a.packets, p)]

ArraySend(a) == IF a.isComplete THEN a.packets ELSE <<>>

-----------------------------------------------------------------------------
(* SpecialCache: the last packet written, NoPacket while ~isComplete *)

SpecialSend(s) == IF s = NoPacket THEN <<>> ELSE <<s>>

-----------------------------------------------------------------------------
(* Cache *)

NewCache ==
    [metadata |-> NoPacket, videoSeq |-> NoPacket, audioSeq |-> NoPacket,
     gop |-> NewArray]

CacheType ==
    [metadata : Packets \cup {NoPacket}, videoSeq : Packets \cup {NoPacket},
     audioSeq : Packets \cup {NoPacket},
     gop : [packets : Seq(Packets), isComplete : BOOLEAN]]

CacheWrite(c, p) ==
    CASE p.kind = "meta" -> [c EXCEPT !.metadata = p]
      [] p.kind = "aseq" -> [c EXCEPT !.audioSeq = p]
      [] p.kind = "vseq" -> [c EXCEPT !.videoSeq = p]
      [] IsFrame(p)      -> [c EXCEPT !.gop = ArrayWrite(c.gop, p)]
      [] OTHER           -> c

\* The packets Send writes, in order.
CacheSend(c) ==
    SpecialSend(c.metadata) \o SpecialSend(c.videoSeq)
      \o SpecialSend(c.audioSeq) \o ArraySend(c.gop)
=============================================================================
