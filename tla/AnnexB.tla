------------------------------- MODULE AnnexB -------------------------------
(***************************************************************************)
(* h264.Parser, which turns the AVC packets of a stream into the Annex B   *)
(* byte stream that goes into TS segments.  A sequence header gives it SPS *)
(* and PPS; a frame is a list of NAL units, each behind its length, and    *)
(* the parser writes the ones to keep behind start codes, with parameter   *)
(* sets before the first IDR slice.                                        *)
(*                                                                         *)
(* A NAL unit is its type and its place in the frame, the SPS and PPS of a *)
(* sequence header are the number of the header.                           *)
(***************************************************************************)
EXTENDS Integers, Sequences

CONSTANTS NalTypes,    \* types of the NAL units of frames
          MaxNals,     \* bound on the NAL units of a frame
          MaxHeaders,  \* bound on the sequence headers
          MaxFrames    \* bound on the frames

\* "idr", "slice", "sei", "sps", "pps", "aud"  the types the parser names
\* "partition"  a data partition, or any other type the switch has no case for
\* "tiny"       the same and one byte long, like an end of sequence
\* "bad"        a length that is zero or larger than what is left
AllTypes == {"idr", "slice", "sei", "sps", "pps", "aud", "partition", "tiny", "bad"}

ASSUME ParserAssumption ==
    /\ NalTypes \subseteq AllTypes
    /\ MaxNals \in Nat
    /\ MaxHeaders \in Nat
    /\ MaxFrames \in Nat

VARIABLES
    specificInfo,    \* parser.specificInfo: the headers whose sets it holds
    pps,             \* parser.pps: the parameter sets met in this frame
    nalus,           \* the frame: a sequence of types
    index,           \* units of the frame already read
    bwriter,         \* bwriter: what was written for this frame
    hasSpsPps, hasWriteSpsPps,
    result,          \* "idle", "run", "ok", "raw" (copied as it is), "error"
    headers, frames, \* numbers of headers and of frames so far
    newest           \* history: the last header that parsed

h264Vars == <<specificInfo, pps, nalus, index, bwriter, hasSpsPps, hasWriteSpsPps,
              result, headers, frames, newest>>

H264Init ==
    /\ specificInfo = <<>>
    /\ pps = <<>>
    /\ nalus = <<>>
    /\ index = 0
    /\ bwriter = <<>>
    /\ hasSpsPps = FALSE
    /\ hasWriteSpsPps = FALSE
    /\ result = "idle"
    /\ headers = 0
    /\ frames = 0
    /\ newest = 0

Nal(t, i) == [type |-> t, no |-> i]

Aud == Nal("aud", 0)

-----------------------------------------------------------------------------
\* Faulty: the sets of the first header are kept.
ParseSpecificInfo_First(i) == IF specificInfo = <<>> THEN <<i>> ELSE specificInfo

\* parseSpecificInfo appends the SPS and PPS of header i.
ParseSpecificInfo(i) == Append(specificInfo, i)

\* Parse of a sequence header, which may fail and then changes nothing.
ParseSeq ==
    /\ result # "run"
    /\ headers < MaxHeaders
    /\ headers' = headers + 1
    /\ \/ specificInfo' = ParseSpecificInfo(headers + 1) /\ newest' = headers + 1
       \/ UNCHANGED <<specificInfo, newest>>
    /\ result' = "idle"
    /\ UNCHANGED <<pps, nalus, index, bwriter, hasSpsPps, hasWriteSpsPps, frames>>

\* parser.pps.Reset()
PpsReset == <<>>

\* Parse of a frame.  Four bytes 00 00 00 01 are taken for a start code, also
\* where they are the length of a unit of one byte, and the frame is copied.
ParseFrame(f) ==
    /\ result # "run"
    /\ frames < MaxFrames
    /\ frames' = frames + 1
    /\ nalus' = f
    /\ index' = 0
    /\ IF Head(f) = "tiny"
         THEN /\ result' = "raw"
              /\ bwriter' = [i \in 1..Len(f) |-> Nal(f[i], i)]
              /\ UNCHANGED pps
         ELSE /\ result' = "run"
              /\ bwriter' = <<Aud>>
              /\ pps' = PpsReset
    /\ hasSpsPps' = FALSE
    /\ hasWriteSpsPps' = FALSE
    /\ UNCHANGED <<specificInfo, headers, newest>>

\* What is written before the first IDR slice.
Parameters ==
    IF hasSpsPps
      THEN pps
      ELSE [i \in 1..Len(specificInfo) |-> Nal("header", specificInfo[i])]

\* Faulty: the case of SEI does not fall through.
Keep_NoSei(t) == t \in {"idr", "slice"}

\* The types that are copied where they stand.
Keep(t) == t \in {"idr", "slice", "sei"}

\* One turn of the loop of getAnnexbH264.
NextNal ==
    LET t == nalus[index + 1]
        n == Nal(t, index + 1)
    IN  /\ result = "run"
        /\ index < Len(nalus)
        /\ t # "bad"
        /\ index' = index + 1
        /\ bwriter' = bwriter \o (IF t = "idr" /\ ~hasWriteSpsPps THEN Parameters ELSE <<>>)
                            \o (IF Keep(t) THEN <<n>> ELSE <<>>)
        /\ hasWriteSpsPps' = (hasWriteSpsPps \/ t = "idr")
        /\ IF t \in {"sps", "pps"}
             THEN hasSpsPps' = TRUE /\ pps' = Append(pps, n)
             ELSE UNCHANGED <<hasSpsPps, pps>>
        /\ UNCHANGED <<specificInfo, nalus, result, headers, frames,
                       newest>>

\* dataSizeNotMatch or naluBodyLenError: the caller skips the packet.
BadNal ==
    /\ result = "run"
    /\ index < Len(nalus)
    /\ nalus[index + 1] = "bad"
    /\ result' = "error"
    /\ UNCHANGED <<specificInfo, pps, nalus, index, bwriter, hasSpsPps, hasWriteSpsPps,
                   headers, frames, newest>>

FrameEnd ==
    /\ result = "run"
    /\ index = Len(nalus)
    /\ result' = "ok"
    /\ UNCHANGED <<specificInfo, pps, nalus, index, bwriter, hasSpsPps, hasWriteSpsPps,
                   headers, frames, newest>>

H264Next ==
    \/ ParseSeq
    \/ \E k \in 1..MaxNals : \E f \in [1..k -> NalTypes] : ParseFrame(f)
    \/ NextNal
    \/ BadNal
    \/ FrameEnd

H264Spec == H264Init /\ [][H264Next]_h264Vars

-----------------------------------------------------------------------------
(* Properties *)

Sets == {"sps", "pps"}
Copied == {"idr", "slice", "sei"}

\* The NAL units of these types in the frame, and their places in what is written.
UnitsOf(types) == {Nal(nalus[i], i) : i \in {j \in 1..Len(nalus) : nalus[j] \in types}}

Places(types) == {i \in 1..Len(bwriter) : bwriter[i].type \in types}

\* What is written at these places stands in the order it has in the packet.
InOrder(places) == \A i, j \in places : i < j => bwriter[i].no < bwriter[j].no

\* A frame that was parsed has every slice (types 1 and 5) and SEI of the packet, once, in
\* order, after one access unit delimiter.  A picture in data partitions (types 2 to 4) is
\* not there: the parser names them and drops them with every other type.
SlicesKept ==
    result = "ok" =>
      /\ {bwriter[i] : i \in Places(Copied)} = UnitsOf(Copied)
      /\ InOrder(Places(Copied))
      /\ Places({"aud"}) = {1} /\ bwriter[1] = Aud

FirstIdr == CHOOSE i \in 1..Len(nalus) :
              nalus[i] = "idr" /\ \A j \in 1..(i - 1) : nalus[j] # "idr"

\* Parameter sets go with a frame exactly when it has an IDR slice, all of them
\* right before the first one: the sets that precede it in the packet or, if
\* there are none, those of sequence headers, the newest one's last.
IdrHasParameters ==
    result = "ok" =>
      LET params == Places(Sets \cup {"header"})
          before == {n \in UnitsOf(Sets) : n.no < FirstIdr}
          at == CHOOSE i \in 1..Len(bwriter) : bwriter[i] = Nal("idr", FirstIdr)
      IN  IF \A i \in 1..Len(nalus) : nalus[i] # "idr"
            THEN params = {}
            ELSE /\ \A p \in params : p < at /\ p..(at - 1) \subseteq params
                 /\ InOrder(params)
                 /\ IF before # {}
                      THEN {bwriter[p] : p \in params} = before
                      ELSE /\ \A p \in params : bwriter[p].type = "header"
                           /\ newest # 0 =>
                                at > 1 /\ bwriter[at - 1] = Nal("header", newest)
=============================================================================
