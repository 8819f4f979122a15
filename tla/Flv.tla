--------------------------------- MODULE Flv ---------------------------------
(***************************************************************************)
(* FLV: flv.Writer, which cmd/play.go gives to the client as its player,   *)
(* and the tags of HttpFlvWriter.SendPacket; flv.Reader, from which        *)
(* cmd/publish.go reads the packets it publishes.                          *)
(*                                                                         *)
(* Packets come from rtmp.Reader or flv.Reader, so DemuxH has taken each   *)
(* of them.  The data of metadata is the sequence of its AMF0 values, of   *)
(* which "object" is not a string.  An RTMP message has at most 2^24-1     *)
(* bytes, so that the length of a tag is never cut.                        *)
(***************************************************************************)
EXTENDS Integers, Sequences

CONSTANTS
    FlvPackets,  \* the packets: a kind, a time and data
    Low,         \* the low part of a time is below this, 2^24 in the code
    High,        \* and its extension below this, 2^8 in the code
    MaxFlv       \* bound on the packets of a behaviour

SetDataFrame == "@setDataFrame"
OnMetaData == "onMetaData"
FlvKinds == {"video", "audio", "meta", "none"}

\* Times have 32 bits, and nobody sends two "@setDataFrame".
ASSUME FlvAssumption ==
    /\ Low \in Nat \ {0} /\ High \in Nat \ {0} /\ MaxFlv \in Nat
    /\ FlvPackets \subseteq
         [kind : FlvKinds, ts : 0..(Low * High - 1), data : Seq(STRING)]
    /\ \A p \in FlvPackets :
         Len(p.data) > 1 => <<p.data[1], p.data[2]>> # <<SetDataFrame, SetDataFrame>>

IsString(v) == v \in {SetDataFrame, OnMetaData}

VARIABLES
    flvWriter,  \* its sort, "file" or "http"; whether it is "open", "closed" or "failed"
    header,     \* FlvFirstHeader is written
    tags,       \* the tags after it
    cut,        \* the file ends within its header or its last tag
    written,    \* the packets of the tags, the last of which may have been cut
    flvReader,  \* "reading", or "ended" after an error
    packets     \* the packets Read has returned

flvVars == <<flvWriter, header, tags, cut, written, flvReader, packets>>

FlvInit ==
    /\ flvWriter \in [sort : {"file", "http"}, state : {"open"}]
    /\ header = FALSE /\ tags = <<>> /\ cut = FALSE
    /\ written = <<>>
    /\ flvReader = "reading"
    /\ packets = <<>>

-----------------------------------------------------------------------------
(* The writers *)

\* MetaDataReform with DEL and with ADD; an error if metadata begins with no string.
Reformable(data) == data # <<>> /\ IsString(Head(data))
Del(data) == IF Head(data) = SetDataFrame THEN Tail(data) ELSE data
Add(data) == IF Head(data) = SetDataFrame THEN data ELSE <<SetDataFrame>> \o data

Tag(kind, ts, data) ==
    [type |-> kind, ts |-> ts % Low, ext |-> (ts \div Low) % High, data |-> data]

\* Faulty: the extension of the time is left 0.
TagOf_NoExt(p) == [Tag(p.kind, p.ts % Low, p.data) EXCEPT
                     !.data = IF p.kind = "meta" THEN Del(@) ELSE @]

\* The tag of a packet.
TagOf(p) == [Tag(p.kind, p.ts, p.data) EXCEPT
               !.data = IF p.kind = "meta" THEN Del(@) ELSE @]

\* Write of the file, one turn of SendPacket of HTTP: the header goes first, and a
\* packet of no kind is skipped by one and an error of the other.
FlvWrite(p) ==
    /\ flvWriter.state = "open"
    /\ Len(tags) < MaxFlv
    /\ header' = TRUE
    /\ \/ /\ p.kind # "none"
          /\ p.kind = "meta" => Reformable(p.data)
          /\ tags' = Append(tags, TagOf(p))
          /\ written' = Append(written, p)
          /\ UNCHANGED flvWriter
       \/ /\ \/ p.kind = "meta" /\ ~Reformable(p.data)
             \/ p.kind = "none" /\ flvWriter.sort = "http"
          /\ flvWriter' = [flvWriter EXCEPT !.state = "failed"]
          /\ UNCHANGED <<tags, written>>
       \/ /\ p.kind = "none" /\ flvWriter.sort = "file"
          /\ UNCHANGED <<flvWriter, tags, written>>
    /\ UNCHANGED <<cut, flvReader, packets>>

FlvClose ==
    /\ flvWriter.state = "open"
    /\ flvWriter' = [flvWriter EXCEPT !.state = "closed"]
    /\ UNCHANGED <<header, tags, cut, written, flvReader, packets>>

\* The process or the connection ends within a write.
FlvBreak ==
    /\ flvWriter.state = "open"
    /\ header
    /\ flvWriter' = [flvWriter EXCEPT !.state = "failed"]
    /\ cut' = TRUE
    /\ UNCHANGED <<header, tags, written, flvReader, packets>>

-----------------------------------------------------------------------------
(* The reader *)

\* Read, once nothing more is written; the reader of the file header and of a tag.
FlvRead ==
    /\ flvWriter.state # "open"
    /\ flvReader = "reading"
    /\ LET next == Len(packets) + 1
           whole == header /\ next \in DOMAIN tags /\ (cut => next < Len(tags))
           tag == tags[next]
       IN  \/ /\ whole
              /\ tag.type = "meta" => Reformable(tag.data)
              /\ packets' = Append(packets,
                   [kind |-> tag.type, ts |-> tag.ext * Low + tag.ts,
                    data |-> IF tag.type = "meta" THEN Add(tag.data) ELSE tag.data])
              /\ UNCHANGED flvReader
           \/ /\ whole => tag.type = "meta" /\ ~Reformable(tag.data)
              /\ flvReader' = "ended"
              /\ UNCHANGED packets
    /\ UNCHANGED <<flvWriter, header, tags, cut, written>>

FlvNext ==
    \/ \E p \in FlvPackets : FlvWrite(p)
    \/ FlvClose
    \/ FlvBreak
    \/ FlvRead

-----------------------------------------------------------------------------
(* Properties *)

\* A file is read back, up to the metadata that names no event after its "@setDataFrame":
\* the same packets in the same order, with their times of 32 bits and with metadata
\* that begins with one "@setDataFrame".  Of a file that has been cut only its last
\* packet is lost.
FlvRoundTrip ==
    LET Nameless(p) == p.kind = "meta" /\ ~Reformable(Del(p.data))
        Lost == {i \in DOMAIN written : Nameless(written[i])}
                  \cup (IF cut THEN {Len(tags)} ELSE {})
        n == CHOOSE k \in 0..Len(written) :
               /\ 1..k \cap Lost = {}
               /\ k = Len(written) \/ k + 1 \in Lost
    IN  flvReader = "ended" =>
          packets = [i \in 1..n |->
            IF written[i].kind = "meta"
              THEN [written[i] EXCEPT !.data = <<SetDataFrame>> \o Del(@)]
              ELSE written[i]]
=============================================================================
