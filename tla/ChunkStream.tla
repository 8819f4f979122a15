----------------------------- MODULE ChunkStream -----------------------------
(***************************************************************************)
(* One direction of an RTMP connection.  Conn.Write cuts a message into    *)
(* chunks; Conn.Read puts the chunks of every chunk stream together again. *)
(* Both sides must agree on the size of chunks, which a control message    *)
(* changes on the way, and on the timestamps, which take four more bytes   *)
(* in every chunk of a message once they are large.                        *)
(*                                                                         *)
(* The sender is either this program, which writes whole messages, each    *)
(* with a full header, or another one, which leaves out the parts of a     *)
(* header that did not change and sends chunks of several messages in      *)
(* turn.  The wire is a sequence of chunks.  Payload and chunk sizes are    *)
(* counted in units of four bytes: a set-chunk-size message is one unit,   *)
(* and Peek(4) never has to wait for a chunk that is not sent yet.         *)
(***************************************************************************)
EXTENDS AckWindow, Sequences, SequencesExt

CONSTANTS
    Senders,   \* of "livelib", "other"
    Ext,       \* 0xffffff: from here on a timestamp is extended
    TsMod,     \* 2^32, where timestamps wrap around
    Times,     \* timestamps of livelib's messages, steps of the other's
    Sizes,     \* chunk sizes, in units
    FirstSize, \* the size both sides begin with, 128 bytes in the code
    MaxSent,   \* bound on the messages of a behaviour
    MaxWire    \* bound: a sender waits while so many chunks are unread

ASSUME ChunkAssumption ==
    /\ Senders \subseteq {"livelib", "other"}
    /\ Ext \in Nat \ {0}
    /\ TsMod \in Nat /\ TsMod > Ext
    /\ Times \subseteq 0..(TsMod - 1)
    /\ Sizes \subseteq Nat \ {0}
    /\ FirstSize \in Nat \ {0}
    /\ 1 \in Lengths  \* a control message
    /\ MaxSent \in Nat
    /\ MaxWire \in Nat \ {0}

VARIABLES
    sender,           \* who sends
    chunkSize,        \* the sender's
    wire,             \* chunks sent and not yet read
    peer,             \* the other sender's state of each chunk stream
    remoteChunkSize,  \* the reader's
    chunks,           \* the reader's state of each chunk stream
    reader,           \* "ok", "error" (Read failed), "lost" (out of step)
    sent, arrived     \* history: messages of each chunk stream

readVars == <<remoteChunkSize, chunks, reader, arrived, ackVars>>
vars == <<sender, chunkSize, wire, peer, sent, readVars>>

Types == {"size", "window", "audio", "video"}

\* writeChunk: control messages keep 2, audio has 4, video and metadata 6.
CSID(type) ==
    CASE type \in {"size", "window"} -> 2 [] type = "audio" -> 4 [] type = "video" -> 6

CSIDs == {2, 4, 6}

NoExt == -1

NoMessage ==
    [Format |-> 0, ts |-> 0, delta |-> 0, exted |-> FALSE, type |-> "none",
     length |-> 0, remain |-> 0, data |-> <<>>]

Init ==
    /\ sender \in Senders
    /\ chunkSize = FirstSize
    /\ wire = <<>>
    /\ peer = [c \in CSIDs |-> NoMessage]
    /\ remoteChunkSize = FirstSize
    /\ chunks = [c \in CSIDs |-> NoMessage]
    /\ reader = "ok"
    /\ sent = [c \in CSIDs |-> <<>>]
    /\ arrived = [c \in CSIDs |-> <<>>]
    /\ AckInit

MinOf(a, b) == IF a <= b THEN a ELSE b

NumSent == Len(sent[2]) + Len(sent[4]) + Len(sent[6])

\* The payload of the next message: units nobody mistakes for others, or the
\* value of a control message.
Payload(type, x) ==
    IF CSID(type) = 2 THEN <<<<type, x>>>> ELSE [i \in 1..x |-> <<NumSent + 1, i>>]

-----------------------------------------------------------------------------
(* writeChunk *)

\* The timestamp of a header, and the extension that goes with it.
TsField(ts) == MinOf(ts, Ext)

\* Faulty: the largest timestamp that fits in three bytes is not extended.
ExtOf_Late(ts) == IF ts > Ext THEN ts ELSE NoExt

ExtOf(ts) == IF ts >= Ext THEN ts ELSE NoExt

\* Faulty: the loop ends one turn early, without the remainder.
NumChunks_Floor(length, size) == length \div size

\* Turns of the loop of writeChunk; a message without payload has none.
NumChunks(length, size) == (length + size - 1) \div size

\* The chunks of a message: a full header, then headers of format 3.
ChunksOf(type, ts, data, size) ==
    [i \in 1..NumChunks(Len(data), size) |->
       [fmt |-> IF i = 1 THEN 0 ELSE 3, csid |-> CSID(type), ts |-> TsField(ts),
        length |-> Len(data), type |-> type, ext |-> ExtOf(ts),
        data |-> SubSeq(data, (i - 1) * size + 1, MinOf(i * size, Len(data)))]]

Sends(c, type, ts, data) ==
    sent' = [sent EXCEPT ![c] = Append(@, [type |-> type, ts |-> ts, data |-> data])]

\* Conn.Write.  The new size is in force before the message that announces it
\* is written, which is one chunk at any size.
Write(type, ts, x) ==
    LET data == Payload(type, x)
        size == IF type = "size" THEN x ELSE chunkSize
    IN  /\ sender = "livelib"
        /\ NumSent < MaxSent /\ Len(wire) < MaxWire
        /\ chunkSize' = size
        /\ wire' = wire \o ChunksOf(type, ts, data, size)
        /\ IF data = <<>> THEN UNCHANGED sent ELSE Sends(CSID(type), type, ts, data)
        /\ UNCHANGED <<sender, peer, readVars>>

-----------------------------------------------------------------------------
(* Another sender *)

\* It puts the first or the next chunk of m, as far as it fits, on the wire.
PeerChunk(c, m, fmt, ts, ext) ==
    LET n == MinOf(m.remain, chunkSize)
        at == m.length - m.remain
    IN  /\ wire' = Append(wire,
              [fmt |-> fmt, csid |-> c, ts |-> ts, length |-> m.length, type |-> m.type,
               ext |-> ext, data |-> SubSeq(m.data, at + 1, at + n)])
        /\ peer' = [peer EXCEPT ![c] = [m EXCEPT !.remain = m.remain - n]]
        /\ chunkSize' = IF m.type = "size" THEN m.data[1][2] ELSE chunkSize
        /\ UNCHANGED <<sender, readVars>>

\* It may leave out what is as in the chunk stream's last message: the stream,
\* then length and type, then the step of the time too.  After a full header
\* format 3 means the same time once more.
MayUse(fmt, p, step, m) ==
    \/ fmt = 0
    \/ /\ fmt > 0 /\ p.type # "none"
       /\ fmt > 1 => m.type = p.type /\ m.length = p.length
       /\ fmt = 3 => step = (IF p.Format = 0 THEN 0 ELSE p.delta)

PeerBegin(c, type, step, x, fmt) ==
    LET p == peer[c]
        ts == (p.ts + step) % TsMod
        data == Payload(type, x)
        value == IF fmt = 0 THEN ts ELSE step
        m == [Format |-> IF fmt = 3 THEN p.Format ELSE fmt, ts |-> ts, delta |-> step,
              exted |-> IF fmt = 3 THEN p.exted ELSE value >= Ext, type |-> type,
              length |-> Len(data), remain |-> Len(data), data |-> data]
        again == IF m.Format = 0 THEN ts ELSE step
    IN  /\ sender = "other"
        /\ NumSent < MaxSent /\ Len(wire) < MaxWire
        /\ p.remain = 0
        /\ CSID(type) = 2 <=> c = 2
        /\ MayUse(fmt, p, step, m)
        /\ PeerChunk(c, m, fmt, TsField(value),
                     IF ~m.exted THEN NoExt ELSE IF fmt = 3 THEN again ELSE value)
        /\ Sends(c, type, ts, data)

\* A further chunk; some senders repeat the extended timestamp in it, always the
\* message's own time.
PeerContinue(c) ==
    LET p == peer[c]
    IN  /\ sender = "other"
        /\ p.remain # 0 /\ Len(wire) < MaxWire
        /\ \E ext \in {NoExt, p.ts} :
             /\ ext # NoExt => p.exted
             /\ PeerChunk(c, p, 3, 0, ext)
        /\ UNCHANGED sent

-----------------------------------------------------------------------------
(* readNextChunk *)

\* The timestamp, or the step of it, in the header of a chunk.
Stamp(ch) == IF ch.ts = Ext THEN ch.ext ELSE ch.ts

\* A chunk of format 3 that begins a message repeats the extended field.
Again(st, ch) ==
    CASE st.Format = 0 -> IF st.exted THEN ch.ext ELSE st.ts
      [] st.Format # 0 -> (st.ts + (IF st.exted THEN ch.ext ELSE st.delta)) % TsMod

\* Faulty: the step of a compressed header is not kept.
Header_NoDelta(st, ch) ==
    CASE ch.fmt = 0 -> [st EXCEPT !.Format = 0, !.ts = Stamp(ch), !.exted = ch.ts = Ext,
                                  !.length = ch.length, !.type = ch.type]
      [] ch.fmt = 1 -> [st EXCEPT !.Format = 1, !.ts = (@ + Stamp(ch)) % TsMod,
                                  !.exted = ch.ts = Ext, !.length = ch.length,
                                  !.type = ch.type]
      [] ch.fmt = 2 -> [st EXCEPT !.Format = 2, !.ts = (@ + Stamp(ch)) % TsMod,
                                  !.exted = ch.ts = Ext]
      [] ch.fmt = 3 -> [st EXCEPT !.ts = Again(st, ch)]

\* The chunk begins a message: each format has a part of the fields.
Header(st, ch) ==
    CASE ch.fmt = 0 -> [st EXCEPT !.Format = 0, !.ts = Stamp(ch), !.exted = ch.ts = Ext,
                                  !.length = ch.length, !.type = ch.type]
      [] ch.fmt = 1 -> [st EXCEPT !.Format = 1, !.delta = Stamp(ch),
                                  !.ts = (@ + Stamp(ch)) % TsMod, !.exted = ch.ts = Ext,
                                  !.length = ch.length, !.type = ch.type]
      [] ch.fmt = 2 -> [st EXCEPT !.Format = 2, !.delta = Stamp(ch),
                                  !.ts = (@ + Stamp(ch)) % TsMod, !.exted = ch.ts = Ext]
      [] ch.fmt = 3 -> [st EXCEPT !.ts = Again(st, ch)]

\* init()
Begin(st, ch) ==
    LET h == Header(st, ch) IN [h EXCEPT !.remain = h.length, !.data = <<>>]

\* Whether the reader takes four bytes for an extended timestamp.  In a further
\* chunk of a message it peeks, and takes them if they are the timestamp; no
\* payload of the model looks like one.
TakesExt(st, ch) ==
    IF ch.fmt # 3
      THEN ch.ts = Ext
      ELSE st.exted /\ (st.remain = 0 \/ ch.ext = st.ts)

\* What handleControlMsg leaves as the chunk size and the window.
HandleControlMsg(st) ==
    [size |-> IF st.type = "size" THEN st.data[1][2] ELSE remoteChunkSize,
     window |-> IF st.type = "window" THEN st.data[1][2] ELSE remoteWindowAckSize]

\* One call of readNextChunk, and when it completes a message the rest of Read.
\* The reader takes as many bytes as it expects, not as many as were sent; if
\* these differ it is out of step for good.
ReadNextChunk ==
    LET ch == Head(wire)
        old == chunks[ch.csid]
        st == IF old.remain = 0 THEN Begin(old, ch) ELSE old
        size == MinOf(st.remain, remoteChunkSize)
        new == [st EXCEPT !.data = @ \o ch.data, !.remain = @ - size]
    IN  /\ reader = "ok"
        /\ wire # <<>>
        /\ wire' = Tail(wire)
        /\ IF old.remain # 0 /\ ch.fmt # 3
             THEN reader' = "error" /\ UNCHANGED <<remoteChunkSize, chunks, arrived, ackVars>>
             ELSE IF Len(ch.data) # size \/ TakesExt(old, ch) # (ch.ext # NoExt)
             THEN reader' = "lost" /\ UNCHANGED <<remoteChunkSize, chunks, arrived, ackVars>>
             ELSE /\ chunks' = [chunks EXCEPT ![ch.csid] = new]
                  /\ IF new.remain = 0
                       THEN /\ remoteChunkSize' = HandleControlMsg(new).size
                            /\ ReadEnd(new.length, HandleControlMsg(new).window)
                            /\ arrived' = [arrived EXCEPT ![ch.csid] =
                                 Append(@, [type |-> new.type, ts |-> new.ts,
                                            data |-> new.data])]
                       ELSE UNCHANGED <<remoteChunkSize, arrived, ackVars>>
                  /\ UNCHANGED reader
        /\ UNCHANGED <<sender, chunkSize, peer, sent>>

-----------------------------------------------------------------------------
Values(type) ==
    CASE type = "size" -> Sizes [] type = "window" -> Windows [] OTHER -> Lengths

Next ==
    \/ \E type \in Types, ts \in Times : \E x \in Values(type) : Write(type, ts, x)
    \/ \E c \in CSIDs, type \in Types, step \in Times, fmt \in 0..3 :
         \E x \in Values(type) \ {0} : PeerBegin(c, type, step, x, fmt)
    \/ \E c \in CSIDs : PeerContinue(c)
    \/ ReadNextChunk

Spec == Init /\ [][Next]_vars

-----------------------------------------------------------------------------
(* Properties *)

\* The reader follows the sender through changes of the chunk size, compressed
\* headers and extended timestamps, in whatever order chunks of different chunk
\* streams come (Read, readNextChunk, handleControlMsg): it never takes payload
\* for a header, or a header for payload.
InStep == reader = "ok"

\* What Read returns of a chunk stream is what was sent on it: every message
\* whole, with its type and time, in order, none twice.
Intact == \A c \in CSIDs : IsPrefix(arrived[c], sent[c])

\* Nothing is held back: once the wire is empty every message whose last chunk
\* was sent has arrived.  (livelib sends nothing for a message without payload.)
AllArrive ==
    wire = <<>> =>
      \A c \in CSIDs :
        arrived[c] = (IF peer[c].remain = 0 THEN sent[c] ELSE Front(sent[c]))
=============================================================================
