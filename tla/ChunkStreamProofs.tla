-------------------------- MODULE ChunkStreamProofs --------------------------
(***************************************************************************)
(* The reader of a connection never gets out of step with the sender, for  *)
(* chunks of any size, messages of any length and any timestamps.          *)
(*                                                                         *)
(* What is on the wire makes sense only from the state the reader will be  *)
(* in when it comes to it: the chunk size in force by then, the messages   *)
(* begun by then, the times and headers kept by then.  The invariant       *)
(* (ConnInv) therefore speaks of the whole path of the reader along the    *)
(* wire: there is a sequence of reader states, the first the present one,  *)
(* each the result of taking one more chunk for exactly what it is, the    *)
(* last in agreement with the sender.  Reading moves to the second state   *)
(* of the path; sending prolongs it.                                       *)
(***************************************************************************)
EXTENDS ChunkStream, SequenceTheorems, TLAPS

-----------------------------------------------------------------------------
(* The acknowledgements: every byte is accounted for, and acknowledged in   *)
(* time, for counters of any width and for any windows and messages that    *)
(* fit together below High.  What is pending is below the window, so one    *)
(* more message neither overflows a counter nor meets the case in which ack *)
(* starts to count again.                                                   *)

IInv == AckTypeOK /\ AllAccounted /\ AckInTime

\* What Pending returns: the sum, without overflow (ack).
LEMMA PendingIsSum ==
    ASSUME IInv, NEW n \in Lengths
    PROVE  /\ Pending(n) \in 0..(Mod - 1)
           /\ Pending(n) = ackReceived + n
<1>1. /\ n \in Nat
      /\ Mod \in Nat \ {0} /\ High \in Nat /\ High <= Mod
      /\ ackReceived \in Nat /\ received \in Nat
  BY AckAssumption DEF IInv, AckTypeOK
<1>2. ackReceived + n < High
  <2>1. /\ remoteWindowAckSize \in Nat
        /\ remoteWindowAckSize + n < High
    BY AckAssumption DEF IInv, AckTypeOK
  <2> QED
    BY <1>1, <2>1 DEF IInv, AckTypeOK, AllAccounted, AckInTime
<1>3. (ackReceived + n) % Mod = ackReceived + n
  BY <1>1, <1>2
<1>4. Pending(n) = ackReceived + n
  <2>1. ~(Current(n) >= High /\ ackReceived + n = Current(n))
    BY <1>1, <1>2
  <2> QED
    BY <1>3, <2>1 DEF Pending
<1> QED
  BY <1>1, <1>2, <1>4

\* One message keeps the invariant, whatever the window is after it.
LEMMA ReadKeeps ==
    ASSUME IInv, NEW n \in Lengths, NEW window \in Windows, ReadEnd(n, window)
    PROVE  IInv'
<1>1. /\ n \in Nat /\ window \in Nat
      /\ Mod \in Nat \ {0}
      /\ ackReceived \in Nat /\ received \in Nat
      /\ total \in Nat /\ acknowledged \in Nat
      /\ acknowledged + ackReceived = total
  BY AckAssumption DEF IInv, AckTypeOK, AllAccounted
<1>2. Pending(n) \in 0..(Mod - 1) /\ Pending(n) = ackReceived + n
  BY PendingIsSum
<1>3. /\ received' \in 0..(Mod - 1)
      /\ total' = total + n
      /\ remoteWindowAckSize' = window
  BY <1>1 DEF ReadEnd, Ack, Current
<1>4. CASE Pending(n) >= window
  <2>1. ackReceived' = 0 /\ acknowledged' = acknowledged + Pending(n)
    BY <1>4 DEF ReadEnd, Ack, Due
  <2> QED
    BY <1>1, <1>2, <1>3, <2>1 DEF IInv, AckTypeOK, AllAccounted, AckInTime
<1>5. CASE ~(Pending(n) >= window)
  <2>1. ackReceived' = Pending(n) /\ acknowledged' = acknowledged
    BY <1>5 DEF ReadEnd, Ack, Due
  <2> QED
    BY <1>1, <1>2, <1>3, <1>5, <2>1 DEF IInv, AckTypeOK, AllAccounted, AckInTime
<1> QED
  BY <1>4, <1>5

\* The counters of Conn account for every byte, and an acknowledgement is written in time.
THEOREM AckInvariant == AckSpec => []IInv
<1>1. AckInit => IInv
  BY AckAssumption DEF AckInit, IInv, AckTypeOK, AllAccounted, AckInTime
<1>2. IInv /\ [AckNext]_ackVars => IInv'
  <2> SUFFICES ASSUME IInv, [AckNext]_ackVars PROVE IInv'
    OBVIOUS
  <2>1. CASE AckNext
    <3>1. PICK n \in Lengths, window \in Windows \cup {remoteWindowAckSize} :
            ReadEnd(n, window)
      BY <2>1 DEF AckNext
    <3>2. window \in Windows
      BY <3>1 DEF IInv, AckTypeOK
    <3> QED
      BY <3>1, <3>2, ReadKeeps
  <2>2. CASE UNCHANGED ackVars
    BY <2>2 DEF ackVars, IInv, AckTypeOK, AllAccounted, AckInTime
  <2> QED
    BY <2>1, <2>2
<1> QED
  BY <1>1, <1>2, PTL DEF AckSpec

-----------------------------------------------------------------------------
(* The reader as a function of the chunks it is given.                      *)

Units == (Types \X Nat) \cup (Nat \X Nat)

Messages == [type : Types, ts : 0..(TsMod - 1), data : Seq(Units)]

MsgStates ==
    [Format : 0..3, ts : 0..(TsMod - 1), delta : 0..(TsMod - 1), exted : BOOLEAN,
     type : Types \cup {"none"}, length : Nat, remain : Nat, data : Seq(Units)]

Chunks ==
    [fmt : 0..3, csid : CSIDs, ts : Nat, length : Nat, type : Types, ext : Int,
     data : Seq(Units)]

\* remoteChunkSize, chunks and arrived.
Readers ==
    {s \in [size : Nat \ {0}, chunks : [CSIDs -> MsgStates],
            arrived : [CSIDs -> Seq(Messages)]] :
       \A c \in CSIDs :
         Len(s.chunks[c].data) + s.chunks[c].remain = s.chunks[c].length}

\* The chunk stream of ch once its header is read.
Started(s, ch) ==
    LET old == s.chunks[ch.csid]
    IN  IF old.remain = 0 THEN Begin(old, ch) ELSE old

\* ... and once its payload is.
Taken(s, ch) ==
    LET st == Started(s, ch)
    IN  [st EXCEPT !.data = st.data \o ch.data, !.remain = st.remain - MinOf(st.remain, s.size)]

\* ReadNextChunk takes ch as what it is.
Accepts(s, ch) ==
    LET old == s.chunks[ch.csid]
    IN  /\ old.remain # 0 => ch.fmt = 3
        /\ Len(ch.data) = MinOf(Started(s, ch).remain, s.size)
        /\ TakesExt(old, ch) <=> ch.ext # NoExt

After(s, ch) ==
    LET new == Taken(s, ch)
        c == ch.csid
        msg == [type |-> new.type, ts |-> new.ts, data |-> new.data]
    IN  [size |-> IF new.remain = 0 /\ new.type = "size" THEN new.data[1][2] ELSE s.size,
         chunks |-> [s.chunks EXCEPT ![c] = new],
         arrived |-> IF new.remain = 0
                       THEN [s.arrived EXCEPT ![c] = Append(s.arrived[c], msg)]
                       ELSE s.arrived]

\* The reader's state st of a chunk stream is what the sender keeps of it, m.
Tracks(st, m) ==
    /\ st.Format = m.Format /\ st.ts = m.ts /\ st.exted = m.exted
    /\ st.type = m.type /\ st.length = m.length /\ st.remain = m.remain
    /\ m.Format # 0 => st.delta = m.delta
    /\ st.data = SubSeq(m.data, 1, m.length - m.remain)

\* A full header leaves nothing of the message before (readNextChunk).
LEMMA FullHeader ==
    ASSUME NEW st \in MsgStates, NEW m \in MsgStates, m.Format = 0, m.remain = m.length,
           m.exted = (m.ts >= Ext), NEW ch, ch.fmt = 0, ch.ts = TsField(m.ts),
           ch.ext = ExtOf(m.ts), ch.length = m.length, ch.type = m.type
    PROVE  /\ Begin(st, ch) \in MsgStates
           /\ Tracks(Begin(st, ch), m)
           /\ TakesExt(st, ch) <=> ch.ext # NoExt
  <1>1. /\ m.ts \in Nat /\ Ext \in Nat \ {0} /\ st.ts \in Nat /\ m.length \in Nat
        /\ (ch.ts = Ext <=> m.exted)
        /\ Stamp(ch) = m.ts
    BY ChunkAssumption DEF MsgStates, TsField, MinOf, Stamp, ExtOf
  <1>2. Header(st, ch) = [st EXCEPT !.Format = 0, !.ts = m.ts, !.exted = (ch.ts = Ext),
                                    !.length = m.length, !.type = m.type]
    BY <1>1 DEF Header
  <1>3. Begin(st, ch) = [st EXCEPT !.Format = 0, !.ts = m.ts, !.exted = (ch.ts = Ext),
                                   !.length = m.length, !.type = m.type,
                                   !.remain = m.length, !.data = <<>>]
    BY <1>2 DEF Begin, MsgStates
  <1>4. <<>> \in Seq(Units) /\ SubSeq(m.data, 1, 0) = <<>>
    BY SubSeqEmpty
  <1>5. Begin(st, ch) \in MsgStates
    BY <1>3, <1>4 DEF MsgStates
  <1>6. Tracks(Begin(st, ch), m)
    BY <1>1, <1>3, <1>4 DEF Tracks, MsgStates
  <1>7. TakesExt(st, ch) <=> ch.ext # NoExt
    <2>1. TakesExt(st, ch) <=> ch.ts = Ext
      BY DEF TakesExt
    <2> QED BY <1>1, <2>1 DEF ExtOf, NoExt, MsgStates
  <1> QED BY <1>5, <1>6, <1>7

\* m follows p in its chunk stream by step, and ch begins with a header of
\* format fmt that a sender may use for it.
Begins(p, step, fmt, m, ch) ==
    /\ m.remain = m.length
    /\ m.ts = (p.ts + step) % TsMod /\ m.delta = step
    /\ m.Format = (IF fmt = 3 THEN p.Format ELSE fmt)
    /\ m.exted = (IF fmt = 3 THEN p.exted ELSE (IF fmt = 0 THEN m.ts ELSE step) >= Ext)
    /\ MayUse(fmt, p, step, m)
    /\ ch.fmt = fmt /\ ch.ts = TsField(IF fmt = 0 THEN m.ts ELSE step)
    /\ ch.ext = (IF ~m.exted THEN NoExt
                 ELSE IF fmt = 3 THEN (IF m.Format = 0 THEN m.ts ELSE step)
                 ELSE (IF fmt = 0 THEN m.ts ELSE step))
    /\ ch.length = m.length /\ ch.type = m.type

\* The reader makes the same of it, from what it kept of p (readNextChunk, init).
LEMMA CompressedHeader ==
    ASSUME NEW st \in MsgStates, NEW p \in MsgStates, Tracks(st, p), p.remain = 0,
           NEW step \in 0..(TsMod - 1), NEW fmt \in 0..3, NEW m \in MsgStates, NEW ch,
           Begins(p, step, fmt, m, ch)
    PROVE  /\ Begin(st, ch) \in MsgStates
           /\ Tracks(Begin(st, ch), m)
           /\ TakesExt(st, ch) <=> ch.ext # NoExt
  <1>b. /\ m.remain = m.length
        /\ m.ts = (p.ts + step) % TsMod /\ m.delta = step
        /\ m.Format = (IF fmt = 3 THEN p.Format ELSE fmt)
        /\ m.exted = (IF fmt = 3 THEN p.exted ELSE (IF fmt = 0 THEN m.ts ELSE step) >= Ext)
        /\ MayUse(fmt, p, step, m)
        /\ ch.fmt = fmt /\ ch.ts = TsField(IF fmt = 0 THEN m.ts ELSE step)
        /\ ch.ext = (IF ~m.exted THEN NoExt
                     ELSE IF fmt = 3 THEN (IF m.Format = 0 THEN m.ts ELSE step)
                     ELSE (IF fmt = 0 THEN m.ts ELSE step))
        /\ ch.length = m.length /\ ch.type = m.type
    BY DEF Begins
  <1> USE <1>b
  <1>0. Ext \in Nat \ {0} /\ TsMod \in Nat \ {0}
    BY ChunkAssumption
  <1>1. /\ m.ts \in Nat /\ Ext \in Nat \ {0} /\ st.ts \in 0..(TsMod - 1) /\ m.length \in Nat
        /\ step \in Nat /\ p.ts \in 0..(TsMod - 1) /\ TsMod \in Nat \ {0}
        /\ st.ts = p.ts /\ st.exted = p.exted /\ st.Format = p.Format /\ st.remain = 0
        /\ st.type = p.type /\ st.length = p.length
        /\ p.Format # 0 => st.delta = p.delta
        /\ m.exted \in BOOLEAN /\ p.exted \in BOOLEAN
    <2>1. m.ts \in 0..(TsMod - 1) /\ st.ts \in 0..(TsMod - 1) /\ p.ts \in 0..(TsMod - 1)
      BY DEF MsgStates
    <2>2. m.length \in Nat /\ m.exted \in BOOLEAN /\ p.exted \in BOOLEAN
      BY DEF MsgStates
    <2>3. /\ st.ts = p.ts /\ st.exted = p.exted /\ st.Format = p.Format /\ st.remain = 0
          /\ st.type = p.type /\ st.length = p.length
          /\ p.Format # 0 => st.delta = p.delta
      BY DEF Tracks
    <2> QED BY <1>0, <2>1, <2>2, <2>3
  <1>2. <<>> \in Seq(Units) /\ SubSeq(m.data, 1, 0) = <<>> /\ m.length - m.remain = 0
    BY <1>1, SubSeqEmpty
  <1>3. CASE fmt = 0
    <2>1. m.Format = 0 /\ m.exted = (m.ts >= Ext) /\ ch.ts = TsField(m.ts)
      BY <1>3
    <2>2. ch.ext = ExtOf(m.ts)
      BY <1>1, <1>3, <2>1 DEF ExtOf
    <2> QED BY <1>3, <2>1, <2>2, FullHeader
  <1>4. CASE fmt \in {1, 2}
    <2>1. (ch.ts = Ext <=> m.exted) /\ Stamp(ch) = step
      BY <1>1, <1>4 DEF TsField, MinOf, Stamp
    <2>2. m.type = (IF fmt = 1 THEN ch.type ELSE st.type)
          /\ m.length = (IF fmt = 1 THEN ch.length ELSE st.length)
      BY <1>1, <1>4 DEF MayUse
    <2>3. Header(st, ch) =
            [st EXCEPT !.Format = fmt, !.delta = step, !.ts = m.ts, !.exted = (ch.ts = Ext),
                       !.length = m.length, !.type = m.type]
      <3>1. CASE fmt = 1
        BY <1>1, <2>1, <2>2, <3>1 DEF Header, MsgStates
      <3>2. CASE fmt = 2
        <4>1. Header(st, ch) = [st EXCEPT !.Format = 2, !.delta = step, !.ts = m.ts,
                                          !.exted = (ch.ts = Ext)]
          BY <1>1, <2>1, <3>2 DEF Header
        <4>2. st.length = m.length /\ st.type = m.type
          BY <2>2, <3>2
        <4>3. ASSUME NEW e PROVE
                [st EXCEPT !.Format = 2, !.delta = step, !.ts = m.ts, !.exted = e]
                = [st EXCEPT !.Format = fmt, !.delta = step, !.ts = m.ts, !.exted = e,
                             !.length = m.length, !.type = m.type]
          BY <3>2, <4>2 DEF MsgStates
        <4> QED BY <4>1, <4>3
      <3> QED BY <1>4, <3>1, <3>2
    <2>4. Begin(st, ch) =
            [st EXCEPT !.Format = fmt, !.delta = step, !.ts = m.ts, !.exted = (ch.ts = Ext),
                       !.length = m.length, !.type = m.type, !.remain = m.length,
                       !.data = <<>>]
      BY <2>3 DEF Begin, MsgStates
    <2>5. Begin(st, ch) \in MsgStates
      BY <1>1, <1>2, <2>4 DEF MsgStates
    <2>6. Tracks(Begin(st, ch), m)
      <3> DEFINE b == Begin(st, ch)
      <3>1. /\ b.Format = fmt /\ b.delta = step /\ b.ts = m.ts /\ b.exted = (ch.ts = Ext)
            /\ b.length = m.length /\ b.type = m.type /\ b.remain = m.length /\ b.data = <<>>
        BY <2>4 DEF MsgStates
      <3>2. m.Format = fmt /\ b.exted = m.exted
        BY <1>1, <1>4, <2>1, <3>1
      <3> HIDE DEF b
      <3>3. Tracks(b, m)
        BY <1>2, <3>1, <3>2 DEF Tracks
      <3> QED BY <3>3 DEF b
    <2>7. TakesExt(st, ch) <=> ch.ts = Ext
      BY <1>4 DEF TakesExt
    <2> QED BY <1>1, <1>4, <2>1, <2>5, <2>6, <2>7 DEF NoExt
  <1>5. CASE fmt = 3
    <2>1. /\ m.type = st.type /\ m.length = st.length
          /\ p.Format = 0 => step = 0
          /\ p.Format # 0 => step = st.delta
      BY <1>1, <1>5 DEF MayUse
    <2>2. Again(st, ch) = m.ts
      <3>1. CASE p.Format = 0
        <4>1. m.ts = p.ts
          BY <1>1, <2>1, <3>1
        <4> QED BY <1>1, <1>5, <3>1, <4>1 DEF Again
      <3>2. CASE p.Format # 0
        BY <1>1, <1>5, <2>1, <3>2 DEF Again
      <3> QED BY <3>1, <3>2
    <2>3. Header(st, ch) = [st EXCEPT !.ts = m.ts]
      BY <1>5, <2>2 DEF Header
    <2>4. Begin(st, ch) = [st EXCEPT !.ts = m.ts, !.remain = m.length, !.data = <<>>]
      BY <2>1, <2>3 DEF Begin, MsgStates
    <2>5. Begin(st, ch) \in MsgStates
      BY <1>1, <1>2, <2>4 DEF MsgStates
    <2>6. Tracks(Begin(st, ch), m)
      BY <1>1, <1>2, <1>5, <2>1, <2>4 DEF Tracks, MsgStates
    <2>7. TakesExt(st, ch) <=> st.exted
      BY <1>1, <1>5 DEF TakesExt
    <2> QED BY <1>1, <1>5, <2>5, <2>6, <2>7 DEF NoExt
  <1> QED BY <1>3, <1>4, <1>5

\* What is sent of a message of length bytes and what remains of it.
LEMMA CutLength ==
    ASSUME NEW length \in Nat, NEW remain \in Nat, remain <= length,
           NEW size \in Nat \ {0}, NEW n, n = MinOf(remain, size)
    PROVE  /\ n \in 0..remain /\ remain - n \in Nat
           /\ length - remain \in 0..length
           /\ length - remain + n \in 0..length
           /\ length - (remain - n) = length - remain + n
           /\ remain - n = 0 <=> remain = n
  BY DEF MinOf

\* ... and the bytes of it: what is cut off, put after what was sent.
LEMMA CutData ==
    ASSUME NEW S, NEW data \in Seq(S), NEW at \in Nat, NEW end \in at..Len(data)
    PROVE  /\ Len(SubSeq(data, at + 1, end)) = end - at
           /\ SubSeq(data, at + 1, end) \in Seq(S)
           /\ Len(SubSeq(data, 1, end)) = end
           /\ SubSeq(data, 1, end) \in Seq(S)
           /\ SubSeq(data, 1, at) \o SubSeq(data, at + 1, end) = SubSeq(data, 1, end)
  <1>1. /\ Len(data) \in Nat /\ \A i \in 1..Len(data) : data[i] \in S
        /\ 1 \in 1..Len(data) + 1 /\ at \in 0..Len(data) /\ end \in Nat
    BY LenProperties, ElementOfSeq
  <1>2. /\ Len(SubSeq(data, at + 1, end)) = end - at
        /\ SubSeq(data, at + 1, end) \in Seq(S)
    <2>1. \A i \in (at + 1)..end : data[i] \in S
      BY <1>1
    <2>2. at + 1 \in Int /\ end \in Int
      BY <1>1
    <2>3. /\ SubSeq(data, at + 1, end) \in Seq(S)
          /\ Len(SubSeq(data, at + 1, end)) =
               IF at + 1 <= end THEN end - (at + 1) + 1 ELSE 0
      BY <2>1, <2>2, SubSeqProperties
    <2> QED BY <1>1, <2>3
  <1>3. /\ Len(SubSeq(data, 1, end)) = end
        /\ SubSeq(data, 1, end) \in Seq(S)
    <2>1. \A i \in 1..end : data[i] \in S
      BY <1>1
    <2>2. 1 \in Int /\ end \in Int
      BY <1>1
    <2>3. /\ SubSeq(data, 1, end) \in Seq(S)
          /\ Len(SubSeq(data, 1, end)) = IF 1 <= end THEN end - 1 + 1 ELSE 0
      BY <2>1, <2>2, SubSeqProperties
    <2> QED BY <1>1, <2>3
  <1>4. SubSeq(data, 1, at) \o SubSeq(data, at + 1, end) = SubSeq(data, 1, end)
    <2>1. at \in 1 - 1 .. Len(data)
      BY <1>1
    <2> QED BY <1>1, <2>1, ConcatAdjacentSubSeq
  <1> QED BY <1>2, <1>3, <1>4

\* A message of a sender, of which some part may be sent.
Whole(m) ==
    /\ m.type \in Types
    /\ Len(m.data) = m.length
    /\ m.remain <= m.length
    /\ m.type = "size" => m.data[1][2] \in Nat \ {0}

\* ch is the next chunk of m for a reader that is where the sender is.
IsNext(s, ch, m) ==
    /\ Started(s, ch) \in MsgStates
    /\ Tracks(Started(s, ch), m)
    /\ s.chunks[ch.csid].remain # 0 => ch.fmt = 3
    /\ TakesExt(s.chunks[ch.csid], ch) <=> ch.ext # NoExt
    /\ ch.data = SubSeq(m.data, m.length - m.remain + 1,
                        m.length - m.remain + MinOf(m.remain, s.size))

\* The reader took it, and is again where the sender is.
Took(s, ch, m) ==
    /\ Accepts(s, ch)
    /\ After(s, ch) \in Readers
    /\ Taken(s, ch) = [Started(s, ch) EXCEPT
         !.remain = m.remain - MinOf(m.remain, s.size),
         !.data = SubSeq(m.data, 1, m.length - m.remain + MinOf(m.remain, s.size))]
    /\ Tracks(Taken(s, ch), [m EXCEPT !.remain = m.remain - MinOf(m.remain, s.size)])
    /\ m.remain <= s.size => After(s, ch).arrived =
         [s.arrived EXCEPT ![ch.csid] = Append(s.arrived[ch.csid],
            [type |-> m.type, ts |-> m.ts, data |-> m.data])]
    /\ ~(m.remain <= s.size) => After(s, ch).arrived = s.arrived
    /\ After(s, ch).size =
         (IF m.remain <= s.size /\ m.type = "size" THEN m.data[1][2] ELSE s.size)

\* Such a chunk is taken for what it is (readNextChunk).
LEMMA TakeChunk ==
    ASSUME NEW s \in Readers, NEW ch \in Chunks, NEW m \in MsgStates,
           Whole(m), IsNext(s, ch, m)
    PROVE  Took(s, ch, m)
  <1> DEFINE at == m.length - m.remain
             c == ch.csid
             new == Taken(s, ch)
             t == After(s, ch)
             st == Started(s, ch)
             n == MinOf(m.remain, s.size)
  <1> HIDE DEF st, n
  <1>0. n = MinOf(m.remain, s.size) /\ st = Started(s, ch) /\ st \in MsgStates
        /\ Tracks(st, m)
        /\ ch.data = SubSeq(m.data, m.length - m.remain + 1, m.length - m.remain + n)
    BY DEF n, st, IsNext
  <1>h. /\ s.chunks[c].remain # 0 => ch.fmt = 3
        /\ TakesExt(s.chunks[c], ch) <=> ch.ext # NoExt
    BY DEF IsNext
  <1>1. /\ m.length \in Nat /\ m.remain \in Nat /\ s.size \in Nat \ {0}
        /\ m.data \in Seq(Units) /\ c \in CSIDs
        /\ st.data = SubSeq(m.data, 1, at) /\ st.remain = m.remain /\ st.length = m.length
        /\ st.type = m.type /\ st.ts = m.ts /\ Len(m.data) = m.length
        /\ m.remain <= m.length /\ m.type \in Types
    <2>1. m.length \in Nat /\ m.remain \in Nat /\ m.data \in Seq(Units)
          /\ Len(m.data) = m.length /\ m.remain <= m.length /\ m.type \in Types
      BY DEF MsgStates, Whole
    <2>2. s.size \in Nat \ {0} /\ c \in CSIDs
      BY DEF Readers, Chunks
    <2>3. /\ st.data = SubSeq(m.data, 1, at) /\ st.remain = m.remain /\ st.length = m.length
          /\ st.type = m.type /\ st.ts = m.ts
      BY <1>0 DEF Tracks
    <2> QED BY <2>1, <2>2, <2>3
  <1>2. /\ n \in 0..m.remain /\ m.remain - n \in Nat
        /\ at \in 0..m.length /\ at + n \in 0..m.length
        /\ m.length - (m.remain - n) = at + n
        /\ m.remain - n = 0 <=> m.remain = n
        /\ m.remain = n <=> m.remain <= s.size
    <2> DEFINE length == m.length
               remain == m.remain
               size == s.size
    <2>1. /\ length \in Nat /\ remain \in Nat /\ remain <= length
          /\ size \in Nat \ {0} /\ n = MinOf(remain, size)
      BY <1>0, <1>1
    <2> HIDE DEF length, remain, size
    <2>2. /\ n \in 0..remain /\ remain - n \in Nat
          /\ length - remain \in 0..length
          /\ length - remain + n \in 0..length
          /\ length - (remain - n) = length - remain + n
          /\ remain - n = 0 <=> remain = n
          /\ remain = n <=> remain <= size
      BY <2>1 DEF MinOf
    <2> QED BY <2>2 DEF length, remain, size
  <1>a. at \in Nat /\ n \in Nat /\ at + n <= Len(m.data)
    <2> HIDE DEF at
    <2> QED BY <1>1, <1>2
  <1>b. /\ Len(SubSeq(m.data, at + 1, at + n)) = n
        /\ Len(SubSeq(m.data, 1, at + n)) = at + n
        /\ SubSeq(m.data, 1, at + n) \in Seq(Units)
        /\ SubSeq(m.data, 1, at) \o SubSeq(m.data, at + 1, at + n)
             = SubSeq(m.data, 1, at + n)
    <2> DEFINE data == m.data
               end == at + n
    <2>1. data \in Seq(Units)
      BY <1>1
    <2>2. end \in at..Len(data) /\ end - at = n
      <3> HIDE DEF at, data
      <3>1. at + n <= Len(data)
        BY <1>a DEF data
      <3>2. Len(data) \in Nat
        BY <2>1, LenProperties
      <3> QED BY <1>a, <3>1, <3>2
    <2> HIDE DEF at, data, end
    <2>3. /\ Len(SubSeq(data, at + 1, end)) = end - at
          /\ Len(SubSeq(data, 1, end)) = end
          /\ SubSeq(data, 1, end) \in Seq(Units)
          /\ SubSeq(data, 1, at) \o SubSeq(data, at + 1, end) = SubSeq(data, 1, end)
      BY <1>a, <2>1, <2>2, CutData
    <2>4. Len(SubSeq(data, at + 1, end)) = n
      BY <2>2, <2>3
    <2> QED BY <2>3, <2>4 DEF data, end
  <1>3. Len(ch.data) = n
    BY <1>0, <1>b
  <1>4. st.data \o ch.data = SubSeq(m.data, 1, at + n)
    BY <1>0, <1>1, <1>b
  <1>5. SubSeq(m.data, 1, at + n) \in Seq(Units) /\ Len(SubSeq(m.data, 1, at + n)) = at + n
    BY <1>b
  <1>6. new = [st EXCEPT !.remain = m.remain - n, !.data = SubSeq(m.data, 1, at + n)]
    BY <1>0, <1>1, <1>4 DEF Taken, MsgStates
  <1>7. Accepts(s, ch)
    BY <1>0, <1>h, <1>1, <1>3 DEF Accepts
  <1>8. /\ new.remain = m.remain - n /\ new.data = SubSeq(m.data, 1, at + n)
        /\ new.Format = st.Format /\ new.ts = st.ts /\ new.delta = st.delta
        /\ new.exted = st.exted /\ new.type = st.type /\ new.length = st.length
        /\ new \in MsgStates
    BY <1>0, <1>2, <1>5, <1>6 DEF MsgStates
  <1>9. Tracks(new, [m EXCEPT !.remain = m.remain - n])
    <2> DEFINE m2 == [m EXCEPT !.remain = m.remain - n]
    <2>1. /\ m2.Format = m.Format /\ m2.ts = m.ts /\ m2.exted = m.exted
          /\ m2.type = m.type /\ m2.length = m.length /\ m2.remain = m.remain - n
          /\ m2.delta = m.delta /\ m2.data = m.data
      BY DEF MsgStates
    <2> HIDE DEF m2, new, at
    <2>2. m2.length - m2.remain = at + n
      BY <1>2, <2>1
    <2> QED BY <1>0, <1>8, <2>1, <2>2 DEF Tracks, m2
  <1>10. m.remain = n => new.remain = 0 /\ new.data = m.data
    <2>1. m.remain = n => at + n = m.length
      BY <1>1, <1>2
    <2>2. SubSeq(m.data, 1, m.length) = m.data
      BY <1>1, SubSeqFull
    <2>3. m.remain = n => new.remain = 0
      BY <1>2, <1>8
    <2> HIDE DEF at, new
    <2> QED BY <1>8, <2>1, <2>2, <2>3
  <1>11. m.remain # n => new.remain # 0
    BY <1>1, <1>2, <1>8
  <1>12. /\ m.remain = n => t.arrived = [s.arrived EXCEPT ![c] = Append(s.arrived[c],
                                  [type |-> m.type, ts |-> m.ts, data |-> m.data])]
         /\ m.remain # n => t.arrived = s.arrived
    BY <1>1, <1>8, <1>10, <1>11 DEF After
  <1>13. t.size = (IF m.remain = n /\ m.type = "size" THEN m.data[1][2] ELSE s.size)
    BY <1>1, <1>8, <1>10, <1>11 DEF After
  <1>14. t.chunks = [s.chunks EXCEPT ![c] = new]
    BY DEF After
  <1>15. t \in Readers
    <2>1. t.size \in Nat \ {0}
      BY <1>1, <1>13 DEF Whole
    <2>2. t.chunks \in [CSIDs -> MsgStates]
      BY <1>1, <1>8, <1>14 DEF Readers
    <2>3. t.arrived \in [CSIDs -> Seq(Messages)]
      <3>1. s.arrived \in [CSIDs -> Seq(Messages)]
        BY DEF Readers
      <3>2. [type |-> m.type, ts |-> m.ts, data |-> m.data] \in Messages
        BY <1>1 DEF Messages, MsgStates
      <3>3. s.arrived[c] \in Seq(Messages)
        BY <1>1, <3>1
      <3>4. Append(s.arrived[c], [type |-> m.type, ts |-> m.ts, data |-> m.data])
              \in Seq(Messages)
        BY <3>2, <3>3, AppendProperties
      <3> QED BY <1>1, <1>12, <3>1, <3>4
    <2>4. \A d \in CSIDs : Len(t.chunks[d].data) + t.chunks[d].remain = t.chunks[d].length
      <3> TAKE d \in CSIDs
      <3>1. CASE d = c
        <4>1. t.chunks[d] = new
          BY <1>1, <1>14, <3>1 DEF Readers
        <4>2. Len(new.data) + new.remain = new.length
          <5> HIDE DEF at, new
          <5>1. Len(new.data) = at + n /\ new.remain = m.remain - n /\ new.length = m.length
            BY <1>1, <1>5, <1>8
          <5>2. m.length - (m.remain - n) = at + n /\ m.length \in Nat /\ m.remain - n \in Nat
            BY <1>1, <1>2
          <5> DEFINE rest == m.remain - n
                     length == m.length
          <5>3. length - rest = at + n /\ length \in Nat /\ rest \in Nat
            BY <5>2
          <5> HIDE DEF rest, length
          <5>4. at + n + rest = length
            BY <5>3
          <5> QED BY <5>1, <5>4 DEF rest, length
        <4> QED BY <4>1, <4>2
      <3>2. CASE d # c
        BY <1>1, <1>14, <3>2 DEF Readers
      <3> QED BY <3>1, <3>2
    <2>5. t = [size |-> t.size, chunks |-> t.chunks, arrived |-> t.arrived]
      BY DEF After
    <2> HIDE DEF t
    <2>6. t \in [size : Nat \ {0}, chunks : [CSIDs -> MsgStates],
                 arrived : [CSIDs -> Seq(Messages)]]
      BY <2>1, <2>2, <2>3, <2>5
    <2> QED BY <2>4, <2>6 DEF Readers
  <1> QED BY <1>2, <1>6, <1>7, <1>9, <1>12, <1>13, <1>15 DEF n, st, Took

-----------------------------------------------------------------------------
(* Prefixes, and the states of the reader along a sequence of chunks.       *)

\* A sequence is a prefix of itself.
LEMMA PrefixOfItself ==
    ASSUME NEW S, NEW a \in Seq(S)
    PROVE  IsPrefix(a, a)
  BY LenProperties DEF IsPrefix

\* A prefix has the elements of the sequence.
LEMMA PrefixElement ==
    ASSUME NEW S, NEW a \in Seq(S), NEW b \in Seq(S), IsPrefix(a, b), NEW i \in 1..Len(a)
    PROVE  i \in 1..Len(b) /\ a[i] = b[i]
  <1>1. /\ Len(a) \in Nat /\ Len(b) \in Nat /\ Len(a) <= Len(b)
        /\ SubSeq(a, 1, Len(a)) = SubSeq(b, 1, Len(a))
    BY LenProperties DEF IsPrefix
  <1>2. \A j \in 1..Len(a) : a[j] \in S /\ b[j] \in S
    BY <1>1, ElementOfSeq
  <1>3. SubSeq(a, 1, Len(a))[i] = a[1 + i - 1]
    BY <1>1, <1>2, SubSeqProperties
  <1>4. SubSeq(b, 1, Len(a))[i] = b[1 + i - 1]
    BY <1>1, <1>2, SubSeqProperties
  <1>5. 1 + i - 1 = i /\ i \in 1..Len(b)
    BY <1>1
  <1> QED BY <1>1, <1>3, <1>4, <1>5

\* A prefix stays one when something is appended to the sequence.
LEMMA PrefixAppend ==
    ASSUME NEW S, NEW a \in Seq(S), NEW b \in Seq(S), IsPrefix(a, b), NEW e \in S
    PROVE  IsPrefix(a, Append(b, e))
  <1>1. /\ Len(a) \in Nat /\ Len(b) \in Nat /\ Len(a) <= Len(b)
        /\ SubSeq(a, 1, Len(a)) = SubSeq(b, 1, Len(a))
    BY LenProperties DEF IsPrefix
  <1>2. /\ Append(b, e) \in Seq(S) /\ Len(Append(b, e)) = Len(b) + 1
        /\ \A j \in 1..Len(b) : Append(b, e)[j] = b[j]
    BY AppendProperties
  <1>3. SubSeq(Append(b, e), 1, Len(a)) = SubSeq(b, 1, Len(a))
    <2>1. \A j \in 1..Len(a) : b[j] \in S /\ Append(b, e)[j] = b[j]
      BY <1>1, <1>2, ElementOfSeq
    <2>2. /\ SubSeq(b, 1, Len(a)) \in Seq(S) /\ Len(SubSeq(b, 1, Len(a))) = Len(a)
          /\ \A j \in 1..Len(a) - 1 + 1 : SubSeq(b, 1, Len(a))[j] = b[1 + j - 1]
      BY <1>1, <2>1, SubSeqProperties
    <2>3. /\ SubSeq(Append(b, e), 1, Len(a)) \in Seq(S)
          /\ Len(SubSeq(Append(b, e), 1, Len(a))) = Len(a)
          /\ \A j \in 1..Len(a) - 1 + 1 :
               SubSeq(Append(b, e), 1, Len(a))[j] = Append(b, e)[1 + j - 1]
      <3>1. \A j \in 1..Len(a) : Append(b, e)[j] \in S
        BY <2>1
      <3> QED BY <1>1, <3>1, SubSeqProperties
    <2>4. \A j \in 1..Len(a) : SubSeq(b, 1, Len(a))[j] = SubSeq(Append(b, e), 1, Len(a))[j]
      <3> TAKE j \in 1..Len(a)
      <3>1. j \in 1..Len(a) - 1 + 1 /\ 1 + j - 1 = j
        BY <1>1
      <3> QED BY <2>1, <2>2, <2>3, <3>1
    <2>5. ASSUME NEW x \in Seq(S), NEW y \in Seq(S), Len(x) = Len(a), Len(y) = Len(a),
                 \A j \in 1..Len(a) : x[j] = y[j]
          PROVE  y = x
      BY <2>5, SeqEqual
    <2> QED BY <2>2, <2>3, <2>4, <2>5
  <1> QED BY <1>1, <1>2, <1>3 DEF IsPrefix

\* All but the last element are a prefix.
LEMMA PrefixFront ==
    ASSUME NEW S, NEW b \in Seq(S), b # <<>>
    PROVE  /\ Front(b) \in Seq(S) /\ IsPrefix(Front(b), b)
           /\ Append(Front(b), Last(b)) = b
  <1>1. PICK a \in Seq(S), e \in S : b = Append(a, e)
    BY SequenceEmptyOrAppend
  <1>2. Front(b) = a /\ Last(b) = e
    <2>1. /\ Len(a) \in Nat /\ Len(b) = Len(a) + 1 /\ b[Len(a) + 1] = e
          /\ \A j \in 1..Len(a) : b[j] = a[j]
      BY <1>1, AppendProperties, LenProperties
    <2>2. Len(b) - 1 = Len(a)
      BY <2>1
    <2>3. \A j \in 1..Len(a) : b[j] = a[j] /\ a[j] \in S
      BY <2>1, ElementOfSeq
    <2>4. /\ SubSeq(b, 1, Len(a)) \in Seq(S) /\ Len(SubSeq(b, 1, Len(a))) = Len(a)
          /\ \A j \in 1..Len(a) - 1 + 1 : SubSeq(b, 1, Len(a))[j] = b[1 + j - 1]
      BY <2>1, <2>3, SubSeqProperties
    <2>5. \A j \in 1..Len(a) : SubSeq(b, 1, Len(a))[j] = a[j]
      <3> TAKE j \in 1..Len(a)
      <3>1. j \in 1..Len(a) - 1 + 1 /\ 1 + j - 1 = j
        BY <2>1
      <3> QED BY <2>3, <2>4, <3>1
    <2>6. SubSeq(b, 1, Len(a)) = a
      BY <2>4, <2>5, SeqEqual
    <2> QED BY <2>1, <2>2, <2>6 DEF Front, Last
  <1>3. IsPrefix(a, b)
    BY <1>1, PrefixOfItself, PrefixAppend
  <1> QED BY <1>1, <1>2, <1>3

\* S[i] is the reader after i of the chunks of w, all taken as what they are.
Path(S, w) ==
    /\ S \in [0..Len(w) -> Readers]
    /\ \A i \in 1..Len(w) : Accepts(S[i - 1], w[i]) /\ S[i] = After(S[i - 1], w[i])

\* When the first chunk is read, the path goes on from where the reader is then.
LEMMA PathTail ==
    ASSUME NEW w \in Seq(Chunks), w # <<>>, NEW S, Path(S, w),
           NEW U, U = [i \in 0..(Len(w) - 1) |-> S[i + 1]]
    PROVE  /\ Len(Tail(w)) = Len(w) - 1
           /\ Path(U, Tail(w))
           /\ U[0] = S[1] /\ U[Len(Tail(w))] = S[Len(w)]
           /\ \A i \in 0..Len(Tail(w)) : i + 1 \in 0..Len(w) /\ U[i] = S[i + 1]
  <1>1. /\ Len(Tail(w)) = Len(w) - 1 /\ Len(w) \in Nat \ {0}
        /\ \A i \in 1..Len(Tail(w)) : Tail(w)[i] = w[i + 1]
    BY HeadTailProperties, EmptySeq
  <1>2. S \in [0..Len(w) -> Readers]
    BY DEF Path
  <1>3. \A i \in 0..Len(Tail(w)) : i + 1 \in 0..Len(w) /\ U[i] = S[i + 1]
    BY <1>1
  <1>4. U \in [0..Len(Tail(w)) -> Readers]
    BY <1>1, <1>2
  <1>5. \A i \in 1..Len(Tail(w)) :
          Accepts(U[i - 1], Tail(w)[i]) /\ U[i] = After(U[i - 1], Tail(w)[i])
    <2> TAKE i \in 1..Len(Tail(w))
    <2>1. /\ i \in 0..Len(Tail(w)) /\ i - 1 \in 0..Len(Tail(w)) /\ i - 1 + 1 = i
          /\ i + 1 \in 1..Len(w) /\ i + 1 - 1 = i
      BY <1>1
    <2>2. U[i - 1] = S[i] /\ U[i] = S[i + 1] /\ Tail(w)[i] = w[i + 1]
      BY <1>1, <1>3, <2>1
    <2>3. Accepts(S[i], w[i + 1]) /\ S[i + 1] = After(S[i], w[i + 1])
      BY <2>1 DEF Path
    <2> QED BY <2>2, <2>3
  <1>6. U[0] = S[1] /\ U[Len(Tail(w))] = S[Len(w)]
    <2>1. 0 \in 0..Len(Tail(w)) /\ Len(Tail(w)) \in 0..Len(Tail(w)) /\ 0 + 1 = 1
          /\ Len(Tail(w)) + 1 = Len(w)
      BY <1>1
    <2>2. U[0] = S[0 + 1] /\ U[Len(Tail(w))] = S[Len(Tail(w)) + 1]
      BY <1>3, <2>1
    <2> QED BY <2>1, <2>2
  <1> QED BY <1>1, <1>3, <1>4, <1>5, <1>6 DEF Path

\* A path along w and one along v from where the first ends make one along both.
LEMMA PathConcat ==
    ASSUME NEW w \in Seq(Chunks), NEW v \in Seq(Chunks), NEW S, Path(S, w),
           NEW T, Path(T, v), T[0] = S[Len(w)]
    PROVE  \E U : /\ Path(U, w \o v)
                  /\ U[0] = S[0] /\ U[Len(w \o v)] = T[Len(v)]
                  /\ \A i \in 0..Len(w \o v) :
                       \/ \E j \in 0..Len(w) : U[i] = S[j]
                       \/ \E j \in 0..Len(v) : U[i] = T[j]
  <1> DEFINE U == [i \in 0..(Len(w) + Len(v)) |->
                     IF i <= Len(w) THEN S[i] ELSE T[i - Len(w)]]
  <1>1. /\ Len(w) \in Nat /\ Len(v) \in Nat /\ Len(w \o v) = Len(w) + Len(v)
        /\ \A i \in 1..Len(w) + Len(v) :
             (w \o v)[i] = IF i <= Len(w) THEN w[i] ELSE v[i - Len(w)]
    BY ConcatProperties, LenProperties
  <1>2. S \in [0..Len(w) -> Readers] /\ T \in [0..Len(v) -> Readers]
    BY DEF Path
  <1>3. \A i \in 0..Len(w) : U[i] = S[i]
    BY <1>1
  <1>4. \A j \in 0..Len(v) : U[Len(w) + j] = T[j]
    <2> TAKE j \in 0..Len(v)
    <2>1. CASE j = 0
      BY <1>1, <1>3, <2>1
    <2>2. CASE j # 0
      <3>1. ~(Len(w) + j <= Len(w)) /\ Len(w) + j - Len(w) = j
            /\ Len(w) + j \in 0..(Len(w) + Len(v))
        BY <1>1, <2>2
      <3> QED BY <3>1
    <2> QED BY <2>1, <2>2
  <1>5. \A i \in 0..Len(w \o v) :
          i \in 0..Len(w) \/ \E j \in 1..Len(v) : i = Len(w) + j
    <2> TAKE i \in 0..Len(w \o v)
    <2>1. CASE i <= Len(w)
      BY <1>1, <2>1
    <2>2. CASE ~(i <= Len(w))
      <3>1. i - Len(w) \in 1..Len(v) /\ i = Len(w) + (i - Len(w))
        BY <1>1, <2>2
      <3> QED BY <3>1
    <2> QED BY <2>1, <2>2
  <1>6. U \in [0..Len(w \o v) -> Readers]
    <2>1. \A i \in 0..Len(w \o v) : U[i] \in Readers
      <3> TAKE i \in 0..Len(w \o v)
      <3>1. CASE i \in 0..Len(w)
        BY <1>2, <1>3, <3>1
      <3>2. ASSUME NEW j \in 1..Len(v), i = Len(w) + j PROVE U[i] \in Readers
        BY <1>1, <1>2, <1>4, <3>2
      <3> QED BY <1>5, <3>1, <3>2
    <2> QED BY <1>1, <2>1
  <1>7. \A i \in 1..Len(w \o v) :
          Accepts(U[i - 1], (w \o v)[i]) /\ U[i] = After(U[i - 1], (w \o v)[i])
    <2> TAKE i \in 1..Len(w \o v)
    <2>1. CASE i \in 0..Len(w)
      <3>1. /\ i \in 1..Len(w) /\ i - 1 \in 0..Len(w)
            /\ U[i] = S[i] /\ U[i - 1] = S[i - 1] /\ (w \o v)[i] = w[i]
        BY <1>1, <1>3, <2>1
      <3> QED BY <3>1 DEF Path
    <2>2. ASSUME NEW j \in 1..Len(v), i = Len(w) + j
          PROVE Accepts(U[i - 1], (w \o v)[i]) /\ U[i] = After(U[i - 1], (w \o v)[i])
      <3>1. /\ j \in 0..Len(v) /\ j - 1 \in 0..Len(v) /\ i - 1 = Len(w) + (j - 1)
            /\ ~(i <= Len(w)) /\ i - Len(w) = j /\ i \in 1..Len(w) + Len(v)
        BY <1>1, <2>2
      <3>2. U[i] = T[j] /\ U[i - 1] = T[j - 1] /\ (w \o v)[i] = v[j]
        BY <1>1, <1>4, <2>2, <3>1
      <3>3. Accepts(T[j - 1], v[j]) /\ T[j] = After(T[j - 1], v[j])
        BY DEF Path
      <3> QED BY <3>2, <3>3
    <2>3. i \in 0..Len(w \o v)
      BY <1>1
    <2> QED BY <1>5, <2>1, <2>2, <2>3
  <1>8. U[0] = S[0] /\ U[Len(w \o v)] = T[Len(v)]
    BY <1>1, <1>3, <1>4
  <1>9. \A i \in 0..Len(w \o v) :
          \/ \E j \in 0..Len(w) : U[i] = S[j]
          \/ \E j \in 0..Len(v) : U[i] = T[j]
    <2> TAKE i \in 0..Len(w \o v)
    <2>1. CASE i \in 0..Len(w)
      BY <1>3, <2>1
    <2>2. ASSUME NEW j \in 1..Len(v), i = Len(w) + j
          PROVE  \E k \in 0..Len(v) : U[i] = T[k]
      <3>1. j \in 0..Len(v)
        BY <1>1
      <3> QED BY <1>4, <2>2, <3>1
    <2> QED BY <1>5, <2>1, <2>2
  <1>10. Path(U, w \o v)
    BY <1>6, <1>7 DEF Path
  <1> HIDE DEF U
  <1> QED BY <1>8, <1>9, <1>10

-----------------------------------------------------------------------------
(* The invariant of the connection.                                         *)

\* The messages a sender has.
Proper ==
    {msg \in Messages : /\ Len(msg.data) \in Lengths
                        /\ msg.type = "size" => msg.data[1][2] \in Sizes
                        /\ msg.type = "window" => msg.data[1][2] \in Windows}

TypeInv ==
    /\ sender \in {"livelib", "other"}
    /\ chunkSize \in Nat \ {0}
    /\ wire \in Seq(Chunks)
    /\ peer \in [CSIDs -> MsgStates]
    /\ sent \in [CSIDs -> Seq(Proper)]
    /\ reader = "ok"

\* A message of which a part is sent is the last of its chunk stream.
PeerInv ==
    \A c \in CSIDs :
      /\ Len(peer[c].data) = peer[c].length
      /\ peer[c].remain <= peer[c].length
      /\ peer[c].remain # 0 =>
           /\ sender = "other"
           /\ peer[c].type \in {"audio", "video"}
           /\ sent[c] # <<>>
           /\ Last(sent[c]) = [type |-> peer[c].type, ts |-> peer[c].ts,
                               data |-> peer[c].data]

Now == [size |-> remoteChunkSize, chunks |-> chunks, arrived |-> arrived]

\* The reader is where the sender is.
CaughtUp(s) ==
    /\ s.size = chunkSize
    /\ \A c \in CSIDs :
         /\ s.chunks[c].remain = peer[c].remain
         /\ s.arrived[c] = (IF peer[c].remain = 0 THEN sent[c] ELSE Front(sent[c]))
         /\ sender = "other" => Tracks(s.chunks[c], peer[c])

\* The reader's states along the wire, from now until it has caught up.
Follows(S) ==
    /\ Path(S, wire)
    /\ S[0] = Now
    /\ \A i \in 0..Len(wire), c \in CSIDs : IsPrefix(S[i].arrived[c], sent[c])
    /\ CaughtUp(S[Len(wire)])

ConnInv == TypeInv /\ PeerInv /\ \E S : Follows(S)

\* A new connection: nothing is on the wire and both sides start alike.
LEMMA ConnInit == Init => ConnInv
  <1> SUFFICES ASSUME Init PROVE ConnInv
    OBVIOUS
  <1> USE ChunkAssumption
  <1>1. NoMessage \in MsgStates /\ Len(NoMessage.data) = 0 /\ Tracks(NoMessage, NoMessage)
    <2>1. <<>> \in Seq(Units) /\ Len(<<>>) = 0 /\ SubSeq(<<>>, 1, 0) = <<>>
      BY EmptySeq, SubSeqEmpty
    <2>2. 0 \in 0..(TsMod - 1)
      OBVIOUS
    <2> QED BY <2>1, <2>2 DEF NoMessage, MsgStates, Tracks
  <1>2. <<>> \in Seq(Chunks) /\ <<>> \in Seq(Proper) /\ <<>> \in Seq(Messages) /\ Len(<<>>) = 0
    BY EmptySeq
  <1>3. TypeInv
    BY <1>1, <1>2 DEF Init, TypeInv
  <1>4. PeerInv
    BY <1>1 DEF Init, PeerInv, NoMessage
  <1>5. Now \in Readers
    BY <1>1, <1>2 DEF Init, Now, Readers, NoMessage
  <1>6. Follows([i \in 0..0 |-> Now])
    <2> DEFINE S == [i \in 0..0 |-> Now]
    <2>1. S[0] = Now /\ S \in [0..Len(wire) -> Readers] /\ 1..Len(wire) = {}
      BY <1>2, <1>5 DEF Init
    <2>2. Path(S, wire)
      BY <2>1 DEF Path
    <2>3. IsPrefix(<<>>, <<>>)
      BY <1>2, PrefixOfItself
    <2>4. \A i \in 0..Len(wire), c \in CSIDs : IsPrefix(S[i].arrived[c], sent[c])
      BY <1>2, <2>1, <2>3 DEF Init, Now
    <2>5. CaughtUp(Now)
      BY <1>1 DEF Init, Now, CaughtUp, NoMessage
    <2>6. CaughtUp(S[Len(wire)])
      BY <1>2, <2>1, <2>5 DEF Init
    <2> HIDE DEF S
    <2>7. Follows(S)
      BY <2>1, <2>2, <2>4, <2>6 DEF Follows
    <2> QED BY <2>7 DEF S
  <1> QED BY <1>3, <1>4, <1>6 DEF ConnInv

\* The reader takes the next chunk for what it is, and keeps to the path.  The
\* message it may complete is one of those AckWindow counts.
LEMMA ReadStep ==
    ASSUME ConnInv, ReadNextChunk
    PROVE  ConnInv' /\ [AckNext]_ackVars
  <1> DEFINE ch == Head(wire)
             c == ch.csid
             old == chunks[c]
             new == Taken(Now, ch)
             msg == [type |-> new.type, ts |-> new.ts, data |-> new.data]
  <1>1. PICK S : Follows(S)
    BY DEF ConnInv
  <1>2. /\ wire \in Seq(Chunks) /\ wire # <<>> /\ ch = wire[1] /\ ch \in Chunks
        /\ 1 \in 1..Len(wire) /\ 1 \in 0..Len(wire) /\ c \in CSIDs
    <2>1. wire \in Seq(Chunks) /\ wire # <<>>
      BY DEF ConnInv, TypeInv, ReadNextChunk
    <2>2. ch \in Chunks /\ Len(wire) \in Nat \ {0}
      BY <2>1, HeadTailProperties, EmptySeq
    <2>3. ch = wire[1]
      BY <2>1
    <2> QED BY <2>1, <2>2, <2>3 DEF Chunks
  <1>3. /\ Accepts(Now, ch) /\ S[1] = After(Now, ch)
        /\ Now \in Readers /\ S[1] \in Readers
    <2>1. S \in [0..Len(wire) -> Readers] /\ S[0] = Now
      BY <1>1 DEF Follows, Path
    <2>2. Accepts(S[1 - 1], wire[1]) /\ S[1] = After(S[1 - 1], wire[1])
      BY <1>1, <1>2 DEF Follows, Path
    <2> QED BY <1>2, <2>1, <2>2
  <1>4. /\ old.remain # 0 => ch.fmt = 3
        /\ Len(ch.data) = MinOf(Started(Now, ch).remain, remoteChunkSize)
        /\ TakesExt(old, ch) <=> ch.ext # NoExt
    BY <1>3 DEF Accepts, Now
  <1>5. /\ wire' = Tail(wire) /\ UNCHANGED <<sender, chunkSize, peer, sent>>
        /\ reader' = "ok" /\ chunks' = [chunks EXCEPT ![c] = new]
        /\ new.remain = 0 =>
             /\ remoteChunkSize' = HandleControlMsg(new).size
             /\ ReadEnd(new.length, HandleControlMsg(new).window)
             /\ arrived' = [arrived EXCEPT ![c] = Append(arrived[c], msg)]
        /\ new.remain # 0 => UNCHANGED <<remoteChunkSize, arrived, ackVars>>
    <2>1. Started(Now, ch) = (IF old.remain = 0 THEN Begin(old, ch) ELSE old)
      BY DEF Started, Now
    <2>2. new = [Started(Now, ch) EXCEPT
                   !.data = @ \o ch.data,
                   !.remain = @ - MinOf(Started(Now, ch).remain, remoteChunkSize)]
      BY DEF Taken, Now
    <2> HIDE DEF new, ch
    <2>3. (TakesExt(old, ch) # (ch.ext # NoExt)) = FALSE
      BY <1>4 DEF TakesExt
    <2> QED BY <1>4, <2>1, <2>2, <2>3 DEF ReadNextChunk, ch
  <1>6. /\ Now' = S[1] /\ new = S[1].chunks[c]
    <2>1. chunks' = After(Now, ch).chunks /\ new = After(Now, ch).chunks[c]
      <3>1. chunks \in [CSIDs -> MsgStates]
        BY <1>3 DEF Now, Readers
      <3> HIDE DEF new, ch
      <3> QED BY <1>2, <1>5, <3>1 DEF After, Now, new
    <2>2. remoteChunkSize' = After(Now, ch).size
      <3> HIDE DEF new, ch
      <3> QED BY <1>5 DEF After, Now, new, HandleControlMsg
    <2>3. arrived' = After(Now, ch).arrived
      <3> HIDE DEF new, ch
      <3> QED BY <1>5 DEF After, Now, new
    <2>4. After(Now, ch) = [size |-> After(Now, ch).size, chunks |-> After(Now, ch).chunks,
                            arrived |-> After(Now, ch).arrived]
      BY DEF After
    <2> HIDE DEF new, ch
    <2> QED BY <1>3, <2>1, <2>2, <2>3, <2>4 DEF Now
  <1> HIDE DEF new, ch
  <1>7. \E U : Follows(U)'
    <2>0. PICK U : U = [i \in 0..(Len(wire) - 1) |-> S[i + 1]]
      OBVIOUS
    <2>1. /\ Len(Tail(wire)) = Len(wire) - 1
          /\ Path(U, Tail(wire))
          /\ U[0] = S[1] /\ U[Len(Tail(wire))] = S[Len(wire)]
          /\ \A i \in 0..Len(Tail(wire)) : i + 1 \in 0..Len(wire) /\ U[i] = S[i + 1]
      <3>1. Path(S, wire)
        BY <1>1 DEF Follows
      <3> QED BY <1>2, <2>0, <3>1, PathTail
    <2>2. Path(U, wire)'
      BY <1>5, <2>1 DEF Path
    <2>3. \A i \in 0..Len(Tail(wire)), d \in CSIDs : IsPrefix(U[i].arrived[d], sent[d])
      <3> TAKE i \in 0..Len(Tail(wire)), d \in CSIDs
      <3>1. IsPrefix(S[i + 1].arrived[d], sent[d])
        BY <1>1, <2>1 DEF Follows
      <3> QED BY <2>1, <3>1
    <2>4. CaughtUp(U[Len(wire)])'
      <3>1. CaughtUp(S[Len(wire)])
        BY <1>1 DEF Follows
      <3>2. U[Len(wire')] = S[Len(wire)]
        BY <1>5, <2>1
      <3> QED BY <1>5, <3>1, <3>2 DEF CaughtUp
    <2>5. (\A i \in 0..Len(wire), d \in CSIDs : IsPrefix(U[i].arrived[d], sent[d]))'
      BY <1>5, <2>3
    <2>6. U[0] = Now'
      BY <1>6, <2>1
    <2>7. Follows(U)'
      BY <2>2, <2>4, <2>5, <2>6 DEF Follows
    <2> QED BY <2>7
  <1>8. [AckNext]_ackVars
    <2>1. CASE new.remain = 0
      <3>1. S[1].arrived[c] = Append(arrived[c], msg) /\ arrived[c] \in Seq(Messages)
        <4>1. arrived \in [CSIDs -> Seq(Messages)]
          BY <1>3 DEF Now, Readers
        <4>2. S[1].arrived \in [CSIDs -> Seq(Messages)] /\ S[1].arrived = arrived'
          BY <1>3, <1>6 DEF Now, Readers
        <4> QED BY <1>2, <1>5, <2>1, <4>1, <4>2
      <3>2. msg \in Proper
        <4>1. IsPrefix(S[1].arrived[c], sent[c])
          BY <1>1, <1>2 DEF Follows
        <4>2. sent[c] \in Seq(Proper) /\ sent[c] \in Seq(Messages)
          <5>1. sent[c] \in Seq(Proper) /\ Proper \subseteq Messages
            BY <1>2 DEF ConnInv, TypeInv, Proper
          <5> QED BY <5>1, SeqMonotonic
        <4>3. /\ S[1].arrived[c] \in Seq(Messages)
              /\ Len(arrived[c]) + 1 \in 1..Len(S[1].arrived[c])
              /\ S[1].arrived[c][Len(arrived[c]) + 1] = msg
          <5>1. S[1].arrived[c] \in Seq(Messages)
            BY <1>2, <1>3 DEF Readers
          <5>2. arrived[c] \in Seq(Messages \cup {msg}) /\ msg \in Messages \cup {msg}
            BY <3>1, SeqMonotonic
          <5>3. /\ Len(Append(arrived[c], msg)) = Len(arrived[c]) + 1
                /\ Append(arrived[c], msg)[Len(arrived[c]) + 1] = msg
                /\ Len(arrived[c]) \in Nat
            BY <5>2, AppendProperties, LenProperties
          <5> QED BY <3>1, <5>1, <5>3
        <4>4. /\ Len(arrived[c]) + 1 \in 1..Len(sent[c])
              /\ sent[c][Len(arrived[c]) + 1] = msg
          <5> DEFINE a == S[1].arrived[c]
                     b == sent[c]
                     i == Len(arrived[c]) + 1
          <5>1. /\ a \in Seq(Messages) /\ b \in Seq(Messages) /\ IsPrefix(a, b)
                /\ i \in 1..Len(a) /\ a[i] = msg
            BY <4>1, <4>2, <4>3
          <5> HIDE DEF a, b, i
          <5>2. i \in 1..Len(b) /\ a[i] = b[i]
            BY ONLY <5>1, PrefixElement
          <5> QED BY <5>1, <5>2 DEF b, i
        <4> QED BY <4>2, <4>4, ElementOfSeq
      <3>3. new.length \in Lengths
        <4>1. Len(new.data) + new.remain = new.length /\ Len(new.data) \in Lengths
          BY <1>2, <1>3, <1>6, <3>2 DEF Readers, Proper
        <4>2. Len(new.data) \in Nat
          BY <4>1, AckAssumption
        <4> QED BY <2>1, <4>1, <4>2
      <3>4. HandleControlMsg(new).window \in Windows \cup {remoteWindowAckSize}
        <4>1. new.type = "window" => new.data[1][2] \in Windows
          BY <3>2 DEF Proper
        <4> QED BY <4>1 DEF HandleControlMsg
      <3>5. ReadEnd(new.length, HandleControlMsg(new).window)
        BY <1>5, <2>1
      <3> QED BY <3>3, <3>4, <3>5 DEF AckNext
    <2>2. CASE new.remain # 0
      BY <1>5, <2>2
    <2> QED BY <2>1, <2>2
  <1>9. TypeInv'
    BY <1>2, <1>5, HeadTailProperties DEF ConnInv, TypeInv
  <1>10. PeerInv'
    BY <1>5 DEF ConnInv, PeerInv
  <1> QED BY <1>7, <1>8, <1>9, <1>10 DEF ConnInv

-----------------------------------------------------------------------------
(* What a sender appends to the wire.                                       *)

Puts(v) == wire' = wire \o v

\* Chunks v go on the wire: if the reader can take them one by one after all
\* others and is then where the sender is, the reader still follows.
LEMMA Extend ==
    ASSUME ConnInv, NEW S, Follows(S), NEW v \in Seq(Chunks), NEW T, Path(T, v),
           T[0] = S[Len(wire)], Puts(v), UNCHANGED readVars,
           \A c \in CSIDs : \A a \in Seq(Messages) :
             IsPrefix(a, sent[c]) => IsPrefix(a, sent'[c]),
           \A j \in 0..Len(v), c \in CSIDs : IsPrefix(T[j].arrived[c], sent'[c]),
           CaughtUp(T[Len(v)])'
    PROVE  (\E U : Follows(U))' /\ reader' = "ok" /\ wire' \in Seq(Chunks)
  <1>1. /\ wire \in Seq(Chunks) /\ Path(S, wire) /\ S[0] = Now
        /\ S \in [0..Len(wire) -> Readers]
    BY DEF ConnInv, TypeInv, Follows, Path
  <1>0. v \in Seq(Chunks) /\ Path(T, v) /\ T[0] = S[Len(wire)]
    OBVIOUS
  <1>3. PICK U :
           /\ Path(U, wire \o v)
           /\ U[0] = S[0] /\ U[Len(wire \o v)] = T[Len(v)]
           /\ \A i \in 0..Len(wire \o v) :
                \/ \E j \in 0..Len(wire) : U[i] = S[j]
                \/ \E j \in 0..Len(v) : U[i] = T[j]
    BY ONLY <1>1, <1>0, PathConcat
  <1>2. wire' = wire \o v
    BY DEF Puts
  <1>4. Path(U, wire)'
    BY <1>2, <1>3 DEF Path
  <1>5. \A i \in 0..Len(wire \o v), c \in CSIDs : IsPrefix(U[i].arrived[c], sent'[c])
    <2> TAKE i \in 0..Len(wire \o v), c \in CSIDs
    <2>1. ASSUME NEW j \in 0..Len(wire), U[i] = S[j]
          PROVE  IsPrefix(U[i].arrived[c], sent'[c])
      <3>1. IsPrefix(S[j].arrived[c], sent[c])
        BY DEF Follows
      <3>2. S[j].arrived[c] \in Seq(Messages)
        <4>1. S[j] \in Readers
          BY <1>1
        <4> QED BY <4>1 DEF Readers
      <3> QED BY <2>1, <3>1, <3>2
    <2>2. ASSUME NEW j \in 0..Len(v), U[i] = T[j]
          PROVE  IsPrefix(U[i].arrived[c], sent'[c])
      BY <2>2
    <2> QED BY <1>3, <2>1, <2>2
  <1>6. (\A i \in 0..Len(wire), c \in CSIDs : IsPrefix(U[i].arrived[c], sent[c]))'
    BY <1>2, <1>5
  <1>7. U[0] = Now'
    BY <1>1, <1>3 DEF Now, readVars
  <1>8. CaughtUp(U[Len(wire)])'
    <2>1. U[Len(wire')] = T[Len(v)]
      BY <1>2, <1>3
    <2> QED BY <2>1 DEF CaughtUp
  <1>9. Follows(U)'
    BY <1>4, <1>6, <1>7, <1>8 DEF Follows
  <1>11. reader' = "ok"
    BY DEF readVars, ConnInv, TypeInv
  <1>12. wire' \in Seq(Chunks)
    BY <1>1, <1>2, ConcatProperties
  <1> QED BY <1>9, <1>11, <1>12

\* One chunk is a path of one step.
LEMMA OneStep ==
    ASSUME NEW s \in Readers, NEW ch \in Chunks, Accepts(s, ch), After(s, ch) \in Readers,
           NEW T, T = [i \in 0..1 |-> IF i = 0 THEN s ELSE After(s, ch)]
    PROVE  /\ <<ch>> \in Seq(Chunks) /\ Len(<<ch>>) = 1
           /\ Path(T, <<ch>>) /\ T[0] = s /\ T[1] = After(s, ch)
  <1>1. <<ch>> \in Seq(Chunks) /\ Len(<<ch>>) = 1 /\ <<ch>>[1] = ch
    OBVIOUS
  <1>2. T \in [0..1 -> Readers] /\ T[0] = s /\ T[1] = After(s, ch)
    OBVIOUS
  <1>3. \A i \in 1..1 : Accepts(T[i - 1], <<ch>>[i]) /\ T[i] = After(T[i - 1], <<ch>>[i])
    <2> TAKE i \in 1..1
    <2>1. i = 1 /\ i - 1 = 0
      OBVIOUS
    <2> QED BY <1>1, <1>2, <2>1
  <1> QED BY <1>1, <1>2, <1>3 DEF Path

\* The chunk PeerChunk puts on the wire.
Cut(c, m, fmt, ts, ext) ==
    [fmt |-> fmt, csid |-> c, ts |-> ts, length |-> m.length, type |-> m.type, ext |-> ext,
     data |-> SubSeq(m.data, m.length - m.remain + 1,
                     m.length - m.remain + MinOf(m.remain, chunkSize))]

\* The other sender's next chunk of m, the last message of its chunk stream.
LEMMA PeerStep ==
    ASSUME ConnInv, sender = "other", NEW c \in CSIDs, NEW m \in MsgStates, Whole(m),
           m.type \in {"size", "window"} => m.remain = 1,
           m.type = "size" => m.data[1][2] \in Sizes,
           NEW fmt \in 0..3, NEW ts \in Nat, NEW ext \in Int, PeerChunk(c, m, fmt, ts, ext),
           NEW S, Follows(S), NEW s, s = S[Len(wire)],
           NEW ch, ch = Cut(c, m, fmt, ts, ext),
           IsNext(s, ch, m),
           sent' \in [CSIDs -> Seq(Proper)],
           \A d \in CSIDs : d # c => sent'[d] = sent[d],
           \A a \in Seq(Messages) : IsPrefix(a, sent[c]) => IsPrefix(a, sent'[c]),
           sent'[c] # <<>>, s.arrived[c] = Front(sent'[c]),
           Last(sent'[c]) = [type |-> m.type, ts |-> m.ts, data |-> m.data]
    PROVE  ConnInv'
  <1> DEFINE n == MinOf(m.remain, chunkSize)
             at == m.length - m.remain
             m2 == [m EXCEPT !.remain = m.remain - n]
             msg == [type |-> m.type, ts |-> m.ts, data |-> m.data]
  <1> USE ChunkAssumption
  <1>1. /\ s \in Readers /\ s.size = chunkSize /\ chunkSize \in Nat \ {0}
        /\ m.length \in Nat /\ m.remain \in Nat /\ m.data \in Seq(Units)
        /\ m.remain <= m.length /\ Len(m.data) = m.length /\ m.type \in Types
    <2>1. S \in [0..Len(wire) -> Readers] /\ Len(wire) \in 0..Len(wire)
      <3>1. Len(wire) \in Nat
        BY LenProperties DEF ConnInv, TypeInv
      <3> QED BY <3>1 DEF Follows, Path
    <2>2. s.size = chunkSize /\ chunkSize \in Nat \ {0}
      BY DEF Follows, CaughtUp, ConnInv, TypeInv
    <2> QED BY <2>1, <2>2 DEF MsgStates, Whole
  <1>2. /\ n \in 0..m.remain /\ n \in Nat /\ m.remain - n \in Nat
        /\ m.remain - n <= m.length
        /\ m.remain - n = 0 <=> m.remain = n
        /\ m.remain = 1 => m.remain = n
        /\ at \in Nat /\ at + n \in 0..m.length /\ at <= at + n
    <2> DEFINE length == m.length
               remain == m.remain
    <2>1. length \in Nat /\ remain \in Nat /\ remain <= length /\ chunkSize \in Nat \ {0}
      BY <1>1
    <2> HIDE DEF length, remain
    <2>2. /\ MinOf(remain, chunkSize) \in 0..remain
          /\ remain - MinOf(remain, chunkSize) \in Nat
          /\ remain - MinOf(remain, chunkSize) <= length
          /\ remain - MinOf(remain, chunkSize) = 0 <=> remain = MinOf(remain, chunkSize)
          /\ remain = 1 => remain = MinOf(remain, chunkSize)
          /\ length - remain \in Nat
          /\ length - remain + MinOf(remain, chunkSize) \in 0..length
          /\ length - remain <= length - remain + MinOf(remain, chunkSize)
      BY <2>1 DEF MinOf
    <2>3. MinOf(remain, chunkSize) \in Nat
      BY <2>1, <2>2
    <2> QED BY <2>2, <2>3 DEF length, remain
  <1>0. /\ ch = [fmt |-> fmt, csid |-> c, ts |-> ts, length |-> m.length, type |-> m.type,
                ext |-> ext, data |-> SubSeq(m.data, at + 1, at + n)]
    BY DEF Cut
  <1>3. ch \in Chunks
    <2>1. ch.data \in Seq(Units)
      <3> DEFINE end == at + n
      <3>1. at \in Nat /\ end \in at..Len(m.data)
        BY <1>1, <1>2
      <3>2. SubSeq(m.data, at + 1, end) \in Seq(Units)
        <4> HIDE DEF at, end
        <4>1. SubSeq(m.data, 1, end) \in Seq(Units) /\ SubSeq(m.data, at + 1, end) \in Seq(Units)
          BY <1>1, <3>1, CutData, ZenonT(30)
        <4> QED BY <4>1
      <3> QED BY <1>0, <3>2
    <2> QED BY <1>0, <1>1, <2>1 DEF Chunks
  <1>4. /\ Accepts(s, ch) /\ After(s, ch) \in Readers
        /\ Tracks(Taken(s, ch), m2)
        /\ m.remain <= chunkSize => After(s, ch).arrived =
             [s.arrived EXCEPT ![c] = Append(s.arrived[c], msg)]
        /\ ~(m.remain <= chunkSize) => After(s, ch).arrived = s.arrived
        /\ After(s, ch).size =
             (IF m.remain <= chunkSize /\ m.type = "size" THEN m.data[1][2] ELSE s.size)
    <2>1. Took(s, ch, m)
      BY <1>1, <1>3, TakeChunk
    <2>2. ch.csid = c /\ s.size = chunkSize
      BY <1>0, <1>1
    <2> QED BY <2>1, <2>2 DEF Took
  <1>5. m.remain <= chunkSize <=> m.remain = n
    BY <1>1 DEF MinOf
  <1>6. /\ sender' = sender /\ UNCHANGED readVars
        /\ wire' = Append(wire, ch)
        /\ peer' = [peer EXCEPT ![c] = m2]
        /\ chunkSize' = (IF m.type = "size" THEN m.data[1][2] ELSE chunkSize)
        /\ wire \in Seq(Chunks)
    BY <1>0 DEF PeerChunk, ConnInv, TypeInv
  <1>7. m2 \in MsgStates
    BY <1>2 DEF MsgStates
  <1>8. CaughtUp(After(s, ch))'
    <2> DEFINE t == After(s, ch)
    <2>1. t.size = chunkSize'
      <3>1. m.type = "size" => m.remain <= chunkSize
        BY <1>2, <1>5
      <3> QED BY <1>1, <1>4, <1>6, <3>1
    <2>2. t.chunks = [s.chunks EXCEPT ![c] = Taken(s, ch)] /\ s.chunks \in [CSIDs -> MsgStates]
      BY <1>0, <1>1 DEF After, Readers
    <2>3. ASSUME NEW d \in CSIDs, d # c
          PROVE  /\ t.chunks[d].remain = peer'[d].remain
                 /\ t.arrived[d] = (IF peer'[d].remain = 0 THEN sent'[d] ELSE Front(sent'[d]))
                 /\ Tracks(t.chunks[d], peer'[d])
      <3>1. t.chunks[d] = s.chunks[d] /\ peer'[d] = peer[d] /\ sent'[d] = sent[d]
        BY <1>6, <2>2, <2>3 DEF ConnInv, TypeInv
      <3>2. t.arrived[d] = s.arrived[d]
        <4>1. s.arrived \in [CSIDs -> Seq(Messages)]
          BY <1>1 DEF Readers
        <4>2. \/ t.arrived = s.arrived
              \/ t.arrived = [s.arrived EXCEPT ![c] = Append(s.arrived[c], msg)]
          BY <1>4
        <4>3. d \in CSIDs /\ c \in CSIDs /\ d # c
          BY <2>3
        <4> HIDE DEF t, msg
        <4> QED BY ONLY <4>1, <4>2, <4>3
      <3>3. /\ s.chunks[d].remain = peer[d].remain
            /\ s.arrived[d] = (IF peer[d].remain = 0 THEN sent[d] ELSE Front(sent[d]))
            /\ Tracks(s.chunks[d], peer[d])
        BY DEF Follows, CaughtUp
      <3> QED BY <3>1, <3>2, <3>3
    <2>4. /\ t.chunks[c].remain = peer'[c].remain
          /\ t.arrived[c] = (IF peer'[c].remain = 0 THEN sent'[c] ELSE Front(sent'[c]))
          /\ Tracks(t.chunks[c], peer'[c])
      <3>1. t.chunks[c] = Taken(s, ch) /\ peer'[c] = m2
        BY <1>6, <2>2 DEF ConnInv, TypeInv
      <3>2. Taken(s, ch).remain = m2.remain /\ m2.remain = m.remain - n
        BY <1>4 DEF Tracks, MsgStates
      <3>3. CASE m.remain = n
        <4>1. t.arrived[c] = Append(Front(sent'[c]), Last(sent'[c]))
          <5>1. t.arrived = [s.arrived EXCEPT ![c] = Append(s.arrived[c], msg)]
            BY <1>4, <1>5, <3>3
          <5>2. c \in DOMAIN s.arrived
            BY <1>1 DEF Readers
          <5>3. t.arrived[c] = Append(s.arrived[c], msg)
            BY <5>1, <5>2
          <5> HIDE DEF t
          <5> QED BY <5>3
        <4>2. t.arrived[c] = sent'[c]
          BY <4>1, PrefixFront
        <4>3. m2.remain = 0
          BY <1>2, <3>2, <3>3
        <4> HIDE DEF t, m2
        <4> QED BY <1>4, <3>1, <3>2, <4>2, <4>3
      <3>4. CASE m.remain # n
        <4>1. t.arrived[c] = Front(sent'[c])
          BY <1>1, <1>4, <1>5, <3>4
        <4>2. m2.remain # 0
          BY <1>2, <3>2, <3>4
        <4> HIDE DEF t, m2
        <4> QED BY <1>4, <3>1, <3>2, <4>1, <4>2
      <3> QED BY <3>3, <3>4
    <2> HIDE DEF t
    <2>5. \A d \in CSIDs :
            /\ t.chunks[d].remain = peer'[d].remain
            /\ t.arrived[d] = (IF peer'[d].remain = 0 THEN sent'[d] ELSE Front(sent'[d]))
            /\ Tracks(t.chunks[d], peer'[d])
      BY <2>3, <2>4
    <2>6. CaughtUp(t)'
      BY <2>1, <2>5 DEF CaughtUp
    <2> QED BY <2>6 DEF t
  <1>9. \A d \in CSIDs : /\ sent[d] \in Seq(Messages) /\ sent'[d] \in Seq(Messages)
                          /\ sent[d] \in Seq(Proper)
    <2> TAKE d \in CSIDs
    <2>1. sent[d] \in Seq(Proper) /\ sent'[d] \in Seq(Proper) /\ Proper \subseteq Messages
      BY DEF ConnInv, TypeInv, Proper
    <2> QED BY <2>1, SeqMonotonic
  <1>10. \A d \in CSIDs : \A a \in Seq(Messages) :
           IsPrefix(a, sent[d]) => IsPrefix(a, sent'[d])
    <2> TAKE d \in CSIDs
    <2>1. CASE d = c
      BY <2>1
    <2>2. CASE d # c
      BY <2>2
    <2> QED BY <2>1, <2>2
  <1>11. \A d \in CSIDs : /\ IsPrefix(s.arrived[d], sent'[d])
                           /\ IsPrefix(After(s, ch).arrived[d], sent'[d])
    <2> TAKE d \in CSIDs
    <2>1. IsPrefix(s.arrived[d], sent'[d])
      <3>1. Len(wire) \in 0..Len(wire)
        BY <1>6, LenProperties
      <3>2. IsPrefix(s.arrived[d], sent[d])
        BY <3>1 DEF Follows
      <3>3. s.arrived[d] \in Seq(Messages)
        BY <1>1 DEF Readers
      <3> QED BY <1>10, <3>2, <3>3
    <2>2. IsPrefix(After(s, ch).arrived[d], sent'[d])
      <3> DEFINE a == After(s, ch).arrived[d]
      <3>1. a = sent'[d] \/ (sent'[d] # <<>> /\ a = Front(sent'[d]))
                        \/ a = s.arrived[d]
        <4>1. a = (IF peer'[d].remain = 0 THEN sent'[d] ELSE Front(sent'[d]))
          BY <1>8 DEF CaughtUp
        <4>2. d # c => a = s.arrived[d]
          <5> DEFINE t == After(s, ch).arrived
          <5>1. s.arrived \in [CSIDs -> Seq(Messages)]
            BY <1>1 DEF Readers
          <5>2. t = s.arrived \/ t = [s.arrived EXCEPT ![c] = Append(s.arrived[c], msg)]
            BY <1>4
          <5>3. d \in CSIDs /\ c \in CSIDs
            OBVIOUS
          <5> HIDE DEF t, msg
          <5>4. d # c => t[d] = s.arrived[d]
            BY ONLY <5>1, <5>2, <5>3
          <5> QED BY <5>4 DEF t
        <4> HIDE DEF a
        <4> QED BY <4>1, <4>2
      <3> HIDE DEF a
      <3>2. IsPrefix(a, sent'[d])
        BY <1>9, <2>1, <3>1, PrefixOfItself, PrefixFront
      <3> QED BY <3>2 DEF a
    <2> QED BY <2>1, <2>2
  <1>12. (\E U : Follows(U))' /\ reader' = "ok" /\ wire' \in Seq(Chunks)
    <2>1. PICK T : T = [i \in 0..1 |-> IF i = 0 THEN s ELSE After(s, ch)]
      OBVIOUS
    <2>2. PICK v : v = <<ch>>
      OBVIOUS
    <2>3. v \in Seq(Chunks) /\ Len(v) = 1 /\ Path(T, v) /\ T[0] = s /\ T[1] = After(s, ch)
      BY <1>1, <1>3, <1>4, <2>1, <2>2, OneStep
    <2>4. Puts(v)
      BY <1>3, <1>6, <2>2, AppendIsConcat DEF Puts
    <2>5. \A j \in 0..Len(v), d \in CSIDs : IsPrefix(T[j].arrived[d], sent'[d])
      <3> TAKE j \in 0..Len(v), d \in CSIDs
      <3>1. j = 0 \/ j = 1
        BY <2>3
      <3> QED BY <1>11, <2>3, <3>1
    <2>6. CaughtUp(T[Len(v)])'
      BY <1>8, <2>3 DEF CaughtUp
    <2> QED BY <1>6, <1>10, <2>3, <2>4, <2>5, <2>6, Extend
  <1>13. TypeInv'
    <2>1. chunkSize' \in Nat \ {0}
      BY <1>1, <1>6
    <2>2. peer' \in [CSIDs -> MsgStates]
      BY <1>6, <1>7 DEF ConnInv, TypeInv
    <2> QED BY <1>6, <1>12, <2>1, <2>2 DEF ConnInv, TypeInv
  <1>14. PeerInv'
    <2> SUFFICES ASSUME NEW d \in CSIDs
                 PROVE  /\ Len(peer'[d].data) = peer'[d].length
                        /\ peer'[d].remain <= peer'[d].length
                        /\ peer'[d].remain # 0 =>
                             /\ sender' = "other"
                             /\ peer'[d].type \in {"audio", "video"}
                             /\ sent'[d] # <<>>
                             /\ Last(sent'[d]) = [type |-> peer'[d].type, ts |-> peer'[d].ts,
                                                  data |-> peer'[d].data]
      BY DEF PeerInv
    <2>1. CASE d # c
      <3>1. peer'[d] = peer[d] /\ sent'[d] = sent[d]
        BY <1>6, <2>1 DEF ConnInv, TypeInv
      <3> QED BY <1>6, <3>1 DEF ConnInv, PeerInv
    <2>2. CASE d = c
      <3>1. peer'[d] = m2
        BY <1>6, <2>2 DEF ConnInv, TypeInv
      <3>2. /\ m2.data = m.data /\ m2.length = m.length /\ m2.remain = m.remain - n
            /\ m2.type = m.type /\ m2.ts = m.ts
        BY DEF MsgStates
      <3>3. m.remain - n # 0 => m.type \in {"audio", "video"}
        BY <1>1, <1>2 DEF Types
      <3> HIDE DEF m2, n
      <3>4. Len(peer'[d].data) = peer'[d].length /\ peer'[d].remain <= peer'[d].length
        BY <1>1, <1>2, <3>1, <3>2
      <3>5. Last(sent'[d]) = [type |-> peer'[d].type, ts |-> peer'[d].ts,
                              data |-> peer'[d].data]
        BY <2>2, <3>1, <3>2
      <3>6. sender' = "other" /\ sent'[d] # <<>>
        BY <1>6, <2>2
      <3>7. peer'[d].remain # 0 => peer'[d].type \in {"audio", "video"}
        BY <3>1, <3>2, <3>3
      <3> QED BY <3>4, <3>5, <3>6, <3>7
    <2> QED BY <2>1, <2>2
  <1> QED BY <1>12, <1>13, <1>14 DEF ConnInv

-----------------------------------------------------------------------------
(* The other sender.                                                        *)

\* The payload of a message and the message it makes.
LEMMA PayloadProper ==
    ASSUME ConnInv, NEW type \in Types, NEW x \in Values(type), NEW ts \in 0..(TsMod - 1)
    PROVE  /\ Payload(type, x) \in Seq(Units)
           /\ Len(Payload(type, x)) \in Nat
           /\ type \in {"size", "window"} => Len(Payload(type, x)) = 1
           /\ type = "size" => Payload(type, x)[1][2] = x /\ x \in Sizes
           /\ type \notin {"size", "window"} => Len(Payload(type, x)) = x
           /\ [type |-> type, ts |-> ts, data |-> Payload(type, x)] \in Proper
  <1> DEFINE data == Payload(type, x)
             msg == [type |-> type, ts |-> ts, data |-> data]
  <1> USE ChunkAssumption, AckAssumption
  <1>1. /\ type = "size" => x \in Sizes
        /\ type = "window" => x \in Windows
        /\ type \notin {"size", "window"} => x \in Lengths
    BY DEF Values, Types
  <1>2. x \in Nat
    BY <1>1
  <1>3. NumSent \in Nat
    <2>1. \A c \in CSIDs : Len(sent[c]) \in Nat
      <3> TAKE c \in CSIDs
      <3>1. sent[c] \in Seq(Proper)
        BY DEF ConnInv, TypeInv
      <3> QED BY <3>1, LenProperties
    <2>2. Len(sent[2]) \in Nat /\ Len(sent[4]) \in Nat /\ Len(sent[6]) \in Nat
      BY <2>1 DEF CSIDs
    <2>3. ASSUME NEW i \in Nat, NEW j \in Nat, NEW k \in Nat PROVE i + j + k \in Nat
      OBVIOUS
    <2> QED BY <2>2, <2>3 DEF NumSent
  <1>4. CASE type \in {"size", "window"}
    <2>1. data = <<<<type, x>>>>
      BY <1>4 DEF Payload, CSID
    <2>2. <<type, x>> \in Units
      BY <1>2 DEF Units
    <2>3. data \in Seq(Units) /\ Len(data) = 1 /\ data[1] = <<type, x>> /\ data[1][2] = x
      BY <2>1, <2>2
    <2> HIDE DEF data
    <2>4. msg \in Proper
      BY <1>1, <1>4, <2>3 DEF Proper, Messages
    <2> QED BY <1>1, <1>4, <2>3, <2>4 DEF data
  <1>5. CASE type \notin {"size", "window"}
    <2>1. data = [i \in 1..x |-> <<NumSent + 1, i>>]
      <3>1. CSID(type) # 2
        BY <1>5 DEF CSID, Types
      <3> QED BY <3>1 DEF Payload
    <2>2. \A i \in 1..x : <<NumSent + 1, i>> \in Units
      BY <1>2, <1>3 DEF Units
    <2>3. data \in Seq(Units) /\ Len(data) = x
      <3>1. data \in [1..x -> Units]
        BY <2>1, <2>2
      <3> HIDE DEF data
      <3> QED BY <1>2, <3>1, SeqDef
    <2> HIDE DEF data
    <2>4. msg \in Proper
      BY <1>1, <1>5, <2>3 DEF Proper, Messages
    <2> QED BY <1>2, <1>5, <2>3, <2>4 DEF data
  <1> QED BY <1>4, <1>5

\* The first chunk of another sender's message, in any format it may use.
LEMMA PeerBeginStep ==
    ASSUME ConnInv, NEW c \in CSIDs, NEW type \in Types, NEW step \in Times, NEW fmt \in 0..3,
           NEW x \in Values(type) \ {0}, PeerBegin(c, type, step, x, fmt)
    PROVE  ConnInv'
  <1> DEFINE p == peer[c]
             ts == (p.ts + step) % TsMod
             data == Payload(type, x)
             value == IF fmt = 0 THEN ts ELSE step
             m == [Format |-> IF fmt = 3 THEN p.Format ELSE fmt, ts |-> ts, delta |-> step,
                   exted |-> IF fmt = 3 THEN p.exted ELSE value >= Ext, type |-> type,
                   length |-> Len(data), remain |-> Len(data), data |-> data]
             again == IF m.Format = 0 THEN ts ELSE step
             ext == IF ~m.exted THEN NoExt ELSE IF fmt = 3 THEN again ELSE value
             ch == Cut(c, m, fmt, TsField(value), ext)
             msg == [type |-> type, ts |-> ts, data |-> data]
  <1>1. /\ sender = "other" /\ p.remain = 0 /\ MayUse(fmt, p, step, m)
        /\ PeerChunk(c, m, fmt, TsField(value), ext)
        /\ sent' = [sent EXCEPT ![c] = Append(@, msg)]
    BY DEF PeerBegin, Sends
  <1>2. /\ p \in MsgStates /\ step \in 0..(TsMod - 1) /\ TsMod \in Nat \ {0} /\ Ext \in Nat \ {0}
        /\ ts \in 0..(TsMod - 1) /\ value \in 0..(TsMod - 1)
    <2>1. p \in MsgStates /\ step \in 0..(TsMod - 1) /\ TsMod \in Nat \ {0} /\ Ext \in Nat \ {0}
      BY ChunkAssumption DEF ConnInv, TypeInv
    <2>2. p.ts \in 0..(TsMod - 1)
      BY <2>1 DEF MsgStates
    <2>3. ts \in 0..(TsMod - 1)
      <3> HIDE DEF p
      <3> QED BY <2>1, <2>2
    <2> HIDE DEF ts, p
    <2> QED BY <2>1, <2>3
  <1>3. /\ data \in Seq(Units) /\ Len(data) \in Nat
        /\ type \in {"size", "window"} => Len(data) = 1
        /\ type = "size" => data[1][2] = x /\ x \in Sizes
        /\ type \notin {"size", "window"} => Len(data) = x
        /\ msg \in Proper
    <2> HIDE DEF p, ts, data
    <2> QED BY <1>2, PayloadProper DEF data
  <1> HIDE DEF p, ts, data
  <1>4. m \in MsgStates /\ Whole(m)
    <2>1. p.Format \in 0..3 /\ p.exted \in BOOLEAN
      BY <1>2 DEF MsgStates
    <2>2. (value >= Ext) \in BOOLEAN
      OBVIOUS
    <2>3. m \in MsgStates
      <3> HIDE DEF value
      <3> QED BY <1>2, <1>3, <2>1, <2>2 DEF MsgStates
    <2>4. Whole(m)
      <3>1. m.type = type /\ m.data = data /\ m.length = Len(data) /\ m.remain = Len(data)
        OBVIOUS
      <3>2. type = "size" => data[1][2] \in Nat \ {0}
        BY <1>3, ChunkAssumption
      <3> HIDE DEF m
      <3> QED BY <1>3, <3>1, <3>2 DEF Whole
    <2> QED BY <2>3, <2>4
  <1>5. ch = [fmt |-> fmt, csid |-> c, ts |-> TsField(value), length |-> m.length,
              type |-> m.type, ext |-> ext,
              data |-> SubSeq(m.data, m.length - m.remain + 1,
                              m.length - m.remain + MinOf(m.remain, chunkSize))]
    BY DEF Cut
  <1>6. Begins(p, step, fmt, m, ch)
    <2>1. /\ ch.fmt = fmt /\ ch.ts = TsField(value) /\ ch.ext = ext
          /\ ch.length = m.length /\ ch.type = m.type
      BY <1>5
    <2> HIDE DEF ch
    <2> QED BY <1>1, <2>1 DEF Begins, ts
  <1>7. PICK S : Follows(S)
    BY DEF ConnInv
  <1>8. PICK s : s = S[Len(wire)]
    OBVIOUS
  <1>9. /\ s \in Readers /\ s.size = chunkSize /\ s.chunks[c] \in MsgStates
        /\ s.chunks[c].remain = 0 /\ Tracks(s.chunks[c], p) /\ s.arrived[c] = sent[c]
    <2>1. s \in Readers
      <3>1. Len(wire) \in 0..Len(wire)
        BY LenProperties DEF ConnInv, TypeInv
      <3> QED BY <1>7, <1>8, <3>1 DEF Follows, Path
    <2>2. CaughtUp(s)
      BY <1>7, <1>8 DEF Follows
    <2> QED BY <1>1, <2>1, <2>2 DEF CaughtUp, Readers, p
  <1>10. /\ Begin(s.chunks[c], ch) \in MsgStates
         /\ Tracks(Begin(s.chunks[c], ch), m)
         /\ TakesExt(s.chunks[c], ch) <=> ch.ext # NoExt
    <2> HIDE DEF m, ch
    <2> QED BY <1>1, <1>2, <1>4, <1>6, <1>9, CompressedHeader
  <1>11. IsNext(s, ch, m)
    <2>1. ch.csid = c
      BY <1>5
    <2>2. ch.data = SubSeq(m.data, m.length - m.remain + 1,
                           m.length - m.remain + MinOf(m.remain, s.size))
      <3>1. ch.data = SubSeq(m.data, m.length - m.remain + 1,
                           m.length - m.remain + MinOf(m.remain, chunkSize))
        BY <1>5
      <3> HIDE DEF m, ch
      <3> QED BY <1>9, <3>1
    <2>3. Started(s, ch) = Begin(s.chunks[c], ch)
      <3> HIDE DEF ch
      <3> QED BY <1>9, <2>1 DEF Started
    <2> HIDE DEF ch, m
    <2> QED BY <1>9, <1>10, <2>1, <2>2, <2>3 DEF IsNext
  <1>12. /\ sent[c] \in Seq(Proper) /\ sent[c] \in Seq(Messages) /\ msg \in Messages
    <2>1. sent[c] \in Seq(Proper) /\ Proper \subseteq Messages
      BY DEF ConnInv, TypeInv, Proper
    <2> QED BY <1>3, <2>1, SeqMonotonic
  <1>13. /\ sent' \in [CSIDs -> Seq(Proper)]
         /\ sent'[c] = Append(sent[c], msg)
         /\ \A d \in CSIDs : d # c => sent'[d] = sent[d]
    <2>1. sent \in [CSIDs -> Seq(Proper)]
      BY DEF ConnInv, TypeInv
    <2>2. Append(sent[c], msg) \in Seq(Proper)
      BY <1>3, <1>12, AppendProperties
    <2> HIDE DEF msg
    <2> QED BY <1>1, <2>1, <2>2
  <1>14. \A a \in Seq(Messages) : IsPrefix(a, sent[c]) => IsPrefix(a, sent'[c])
    <2> HIDE DEF msg
    <2> QED BY <1>12, <1>13, PrefixAppend
  <1>15. sent'[c] # <<>> /\ Front(sent'[c]) = sent[c] /\ Last(sent'[c]) = msg
    <2> HIDE DEF msg
    <2>1. /\ sent'[c] # <<>> /\ sent'[c] \in Seq(Messages)
      BY <1>12, <1>13, AppendProperties
    <2>2. Append(Front(sent'[c]), Last(sent'[c])) = Append(sent[c], msg)
      BY <1>13, <2>1, PrefixFront
    <2>3. Front(sent'[c]) \in Seq(Messages) /\ Last(sent'[c]) \in Messages
      <3>1. Len(sent'[c]) \in 1..Len(sent'[c])
        BY <2>1, EmptySeq
      <3> QED BY <2>1, <3>1, PrefixFront, ElementOfSeq DEF Last
    <2>4. ASSUME NEW a \in Seq(Messages), NEW e \in Messages, NEW b \in Seq(Messages),
                 NEW f \in Messages, Append(a, e) = Append(b, f)
          PROVE  a = b /\ e = f
      BY <2>4, AppendInjective
    <2> QED BY <1>12, <2>1, <2>2, <2>3, <2>4
  <1>16. /\ TsField(value) \in Nat /\ ext \in Int
         /\ m.type \in {"size", "window"} => m.remain = 1
         /\ m.type = "size" => m.data[1][2] \in Sizes
         /\ msg = [type |-> m.type, ts |-> m.ts, data |-> m.data]
    <2>1. TsField(value) \in Nat
      <3> HIDE DEF value
      <3> QED BY <1>2 DEF TsField, MinOf
    <2>2. ext \in Int
      <3> HIDE DEF value
      <3> QED BY <1>2 DEF NoExt
    <2> QED BY <1>3, <2>1, <2>2
  <1> HIDE DEF m, ch, ext, value, msg
  <1> QED BY <1>1, <1>4, <1>7, <1>8, <1>9, <1>11, <1>13, <1>14, <1>15, <1>16, PeerStep
            DEF ch

\* A further chunk of a message: nothing of its header is taken.
LEMMA PeerContinueStep ==
    ASSUME ConnInv, NEW c \in CSIDs, PeerContinue(c)
    PROVE  ConnInv'
  <1> DEFINE p == peer[c]
  <1>1. /\ sender = "other" /\ p.remain # 0 /\ UNCHANGED sent
        /\ p \in MsgStates /\ p.ts \in Nat
    BY DEF PeerContinue, ConnInv, TypeInv, MsgStates
  <1>2. PICK ext \in {NoExt, p.ts} : /\ ext # NoExt => p.exted
                                    /\ PeerChunk(c, p, 3, 0, ext)
    BY DEF PeerContinue
  <1>3. /\ Len(p.data) = p.length /\ p.remain <= p.length
        /\ p.type \in {"audio", "video"} /\ sent[c] # <<>>
        /\ Last(sent[c]) = [type |-> p.type, ts |-> p.ts, data |-> p.data]
    BY <1>1 DEF ConnInv, PeerInv
  <1>4. Whole(p)
    BY <1>3 DEF Whole, Types
  <1>5. PICK S : Follows(S)
    BY DEF ConnInv
  <1>6. PICK s : s = S[Len(wire)]
    OBVIOUS
  <1>7. /\ s \in Readers /\ s.size = chunkSize /\ s.chunks[c] \in MsgStates
        /\ s.chunks[c].remain = p.remain /\ Tracks(s.chunks[c], p)
        /\ s.arrived[c] = Front(sent[c])
    <2>1. s \in Readers
      <3>1. Len(wire) \in 0..Len(wire)
        BY LenProperties DEF ConnInv, TypeInv
      <3> QED BY <1>5, <1>6, <3>1 DEF Follows, Path
    <2>2. CaughtUp(s)
      BY <1>5, <1>6 DEF Follows
    <2> QED BY <1>1, <2>1, <2>2 DEF CaughtUp, Readers
  <1> DEFINE ch == Cut(c, p, 3, 0, ext)
  <1>8. ch = [fmt |-> 3, csid |-> c, ts |-> 0, length |-> p.length,
              type |-> p.type, ext |-> ext,
              data |-> SubSeq(p.data, p.length - p.remain + 1,
                              p.length - p.remain + MinOf(p.remain, chunkSize))]
    BY DEF Cut
  <1>9. IsNext(s, ch, p)
    <2>1. ch.csid = c /\ ch.fmt = 3 /\ ch.ext = ext
      BY <1>8
    <2>2. ch.data = SubSeq(p.data, p.length - p.remain + 1,
                           p.length - p.remain + MinOf(p.remain, s.size))
      <3>1. ch.data = SubSeq(p.data, p.length - p.remain + 1,
                           p.length - p.remain + MinOf(p.remain, chunkSize))
        BY <1>8
      <3> HIDE DEF p, ch
      <3> QED BY <1>7, <3>1
    <2> HIDE DEF ch, p
    <2>3. Started(s, ch) = s.chunks[c]
      BY <1>1, <1>7, <2>1 DEF Started
    <2>4. TakesExt(s.chunks[c], ch) <=> ch.ext # NoExt
      <3>1. TakesExt(s.chunks[c], ch) <=> p.exted /\ ext = p.ts
        BY <1>1, <1>7, <2>1 DEF TakesExt, Tracks
      <3>2. p.ts # NoExt
        BY <1>1 DEF NoExt
      <3> QED BY <1>2, <2>1, <3>1, <3>2
    <2> QED BY <1>7, <2>1, <2>2, <2>3, <2>4 DEF IsNext
  <1>10. /\ sent' \in [CSIDs -> Seq(Proper)] /\ sent' = sent
         /\ ext \in Int /\ p.type \notin {"size", "window"}
    BY <1>1, <1>2, <1>3 DEF ConnInv, TypeInv, NoExt
  <1> HIDE DEF p
  <1> QED BY <1>1, <1>2, <1>3, <1>4, <1>5, <1>6, <1>7, <1>9, <1>10, PeerStep

-----------------------------------------------------------------------------
(* This program as the sender.                                              *)

\* The loop of writeChunk: every turn but the last fills a chunk.
LEMMA Turns ==
    ASSUME NEW length \in Nat \ {0}, NEW size \in Nat \ {0}
    PROVE  /\ NumChunks(length, size) \in Nat \ {0}
           /\ \A j \in 1..NumChunks(length, size) :
                /\ (j - 1) * size \in Nat /\ (j - 1) * size < length
                /\ j * size = (j - 1) * size + size
                /\ j = NumChunks(length, size) <=> length <= (j - 1) * size + size
  <1> DEFINE k == NumChunks(length, size)
  <1>1. k \in Nat \ {0} /\ (k - 1) * size < length /\ length <= k * size
    BY DEF NumChunks
  <1> HIDE DEF k
  <1>2. ASSUME NEW i \in Nat, NEW j \in Nat, i <= j
        PROVE  i * size <= j * size /\ i * size \in Nat
    <2>1. j - i \in Nat /\ (j - i) * size \in Nat /\ (j - i) * size = j * size - i * size
          /\ i * size \in Nat /\ j * size \in Nat
      BY <1>2
    <2> QED BY <2>1
  <1>3. ASSUME NEW j \in 1..k
        PROVE  /\ (j - 1) * size \in Nat /\ (j - 1) * size < length
               /\ j * size = (j - 1) * size + size
               /\ j = k <=> length <= (j - 1) * size + size
    <2>1. j - 1 \in Nat /\ k - 1 \in Nat /\ j - 1 <= k - 1 /\ j \in Nat
      BY <1>1
    <2>2. /\ (j - 1) * size <= (k - 1) * size /\ (j - 1) * size \in Nat
          /\ (k - 1) * size \in Nat
      BY <1>2, <2>1
    <2>3. j * size = (j - 1) * size + size
      BY <2>1
    <2>4. j # k => j * size <= (k - 1) * size
      <3>1. j # k => j <= k - 1
        BY <2>1, <1>1
      <3> QED BY <1>2, <2>1, <3>1
    <2>5. j * size \in Nat /\ k * size \in Nat
      BY <1>1, <1>2, <2>1
    <2>6. j = k => length <= (j - 1) * size + size
      BY <1>1, <2>3
    <2>7. j # k => ~(length <= (j - 1) * size + size)
      BY <1>1, <2>2, <2>3, <2>4, <2>5
    <2> QED BY <1>1, <2>2, <2>3, <2>6, <2>7
  <1> QED BY <1>1, <1>3 DEF k

\* What this program sends: a message with a full header.
Full(type, ts, data) ==
    [Format |-> 0, ts |-> ts, delta |-> 0, exted |-> (ts >= Ext), type |-> type,
     length |-> Len(data), remain |-> Len(data), data |-> data]

\* The chunk stream when the first at units of m are read, b after its header.
Part(b, m, at) ==
    [b EXCEPT !.remain = m.length - at, !.data = SubSeq(m.data, 1, at)]

\* The reader's state with a part of m is what a sender that sent the part keeps.
LEMMA PartTracks ==
    ASSUME NEW b \in MsgStates, NEW m \in MsgStates, m.remain = m.length, Tracks(b, m),
           Len(m.data) = m.length, NEW at \in 0..m.length
    PROVE  /\ Part(b, m, at) \in MsgStates
           /\ Tracks(Part(b, m, at), [m EXCEPT !.remain = m.length - at])
           /\ Part(b, m, at).remain = m.length - at
           /\ Len(Part(b, m, at).data) + Part(b, m, at).remain = Part(b, m, at).length
           /\ Part(b, m, 0) = b
  <1> DEFINE q == Part(b, m, at)
             m2 == [m EXCEPT !.remain = m.length - at]
  <1>1. /\ m.length \in Nat /\ m.data \in Seq(Units) /\ m.length - at \in Nat /\ at \in Nat
        /\ m.length - (m.length - at) = at /\ m.length - 0 = m.length
        /\ m.length - m.remain = 0 /\ at <= m.length
    <2>1. m.length \in Nat /\ m.data \in Seq(Units)
      BY DEF MsgStates
    <2>2. ASSUME NEW l \in Nat, NEW a \in 0..l
          PROVE  /\ l - a \in Nat /\ a \in Nat /\ l - (l - a) = a /\ l - 0 = l /\ l - l = 0
                 /\ a <= l
      OBVIOUS
    <2> QED BY <2>1, <2>2
  <1>2. /\ SubSeq(m.data, 1, at) \in Seq(Units) /\ Len(SubSeq(m.data, 1, at)) = at
    <2>1. at \in Nat /\ at <= Len(m.data)
      BY <1>1
    <2>2. ASSUME NEW data \in Seq(Units), NEW end \in Nat, end <= Len(data)
          PROVE  SubSeq(data, 1, end) \in Seq(Units) /\ Len(SubSeq(data, 1, end)) = end
      <3>1. 0 \in Nat /\ end \in 0..Len(data)
        BY <2>2, LenProperties
      <3> QED BY <3>1, CutData
    <2> QED BY <1>1, <2>1, <2>2
  <1>3. /\ q.Format = b.Format /\ q.ts = b.ts /\ q.delta = b.delta /\ q.exted = b.exted
        /\ q.type = b.type /\ q.length = b.length /\ q.remain = m.length - at
        /\ q.data = SubSeq(m.data, 1, at)
    BY DEF Part, MsgStates
  <1>4. q \in MsgStates
    BY <1>1, <1>2 DEF Part, MsgStates
  <1>5. /\ m2.Format = m.Format /\ m2.ts = m.ts /\ m2.exted = m.exted /\ m2.delta = m.delta
        /\ m2.type = m.type /\ m2.length = m.length /\ m2.remain = m.length - at
        /\ m2.data = m.data
    BY DEF MsgStates
  <1>6. Tracks(q, m2)
    <2> HIDE DEF q, m2
    <2> QED BY <1>1, <1>3, <1>5 DEF Tracks
  <1>7. Len(q.data) + q.remain = q.length
    <2>1. b.length = m.length
      BY DEF Tracks
    <2> HIDE DEF q
    <2> QED BY <1>1, <1>2, <1>3, <2>1
  <1>8. Part(b, m, 0) = b
    <2>1. b.remain = m.length /\ b.data = SubSeq(m.data, 1, 0)
      BY <1>1 DEF Tracks
    <2>2. Part(b, m, 0) = [b EXCEPT !.remain = b.remain, !.data = b.data]
      BY <1>1, <2>1 DEF Part
    <2> QED BY <2>2 DEF MsgStates
  <1> QED BY <1>3, <1>4, <1>6, <1>7, <1>8

\* The reader after j of the k chunks of m, b its chunk stream after the header.
Along(s, c, b, m, size, k, j) ==
    IF j = 0 THEN s
    ELSE [size |-> IF j = k /\ m.type = "size" THEN m.data[1][2] ELSE s.size,
          chunks |-> [s.chunks EXCEPT ![c] = Part(b, m, MinOf(j * size, m.length))],
          arrived |-> IF j = k
                        THEN [s.arrived EXCEPT ![c] = Append(s.arrived[c],
                                [type |-> m.type, ts |-> m.ts, data |-> m.data])]
                        ELSE s.arrived]

\* A reader between two messages of chunk stream CSID(type) can be given the
\* chunks of a message, all of the size it expects or only one.
Ready(s, type, ts, data, size) ==
    /\ s.chunks[CSID(type)].remain = 0
    /\ type # "size" => size = s.size
    /\ type = "size" => Len(data) = 1 /\ data[1][2] \in Nat \ {0}

FirstHeader(s, type, ts, data, size) ==
    Begin(s.chunks[CSID(type)], ChunksOf(type, ts, data, size)[1])

\* The reader after i turns of the loop.
Turn(s, type, ts, data, size, i) ==
    Along(s, CSID(type), FirstHeader(s, type, ts, data, size), Full(type, ts, data), size,
          NumChunks(Len(data), size), i)

\* One turn of the loop of writeChunk.
LEMMA WriteTurn ==
    ASSUME NEW s \in Readers, NEW type \in Types, NEW ts \in 0..(TsMod - 1),
           NEW data \in Seq(Units), data # <<>>, NEW size \in Nat \ {0},
           Ready(s, type, ts, data, size),
           NEW j \in 1..NumChunks(Len(data), size)
    PROVE  LET T(i) == Turn(s, type, ts, data, size, i)
               ch == ChunksOf(type, ts, data, size)[j]
           IN  /\ ch \in Chunks
               /\ T(j - 1) \in Readers
               /\ Accepts(T(j - 1), ch)
               /\ T(j) = After(T(j - 1), ch)
               /\ T(j) \in Readers
               /\ j = NumChunks(Len(data), size) => T(j).chunks[CSID(type)].remain = 0
  <1> DEFINE c == CSID(type)
             m == Full(type, ts, data)
             length == Len(data)
             v == ChunksOf(type, ts, data, size)
             b == FirstHeader(s, type, ts, data, size)
             k == NumChunks(length, size)
             y == (j - 1) * size
             T(i) == Turn(s, type, ts, data, size, i)
             end == MinOf(y + size, length)
             mj == [m EXCEPT !.remain = length - y]
             msg == [type |-> type, ts |-> ts, data |-> data]
  <1> USE ChunkAssumption
  <1>1. /\ length \in Nat \ {0} /\ c \in CSIDs /\ s.size \in Nat \ {0}
        /\ s.chunks \in [CSIDs -> MsgStates] /\ s.arrived \in [CSIDs -> Seq(Messages)]
        /\ s.chunks[c].remain = 0
    BY EmptySeq DEF CSID, CSIDs, Types, Readers, Ready
  <1> HIDE DEF c, length
  <1>2. /\ k \in Nat \ {0} /\ y \in Nat /\ y < length /\ j * size = y + size
        /\ j = k <=> length <= y + size
        /\ j \in 1..k /\ j \in Nat /\ j - 1 \in Nat /\ 1 * size = size /\ 0 * size = 0
    <2>2. /\ NumChunks(length, size) \in Nat \ {0}
          /\ \A i \in 1..NumChunks(length, size) :
               /\ (i - 1) * size \in Nat /\ (i - 1) * size < length
               /\ i * size = (i - 1) * size + size
               /\ i = NumChunks(length, size) <=> length <= (i - 1) * size + size
      BY <1>1, Turns
    <2>3. /\ y \in Nat /\ y < length /\ j * size = y + size
          /\ j = k <=> length <= y + size
      BY <2>2 DEF length
    <2>4. k \in Nat \ {0} /\ j \in 1..k
      BY <2>2 DEF length
    <2> HIDE DEF y, k
    <2> QED BY <2>3, <2>4
  <1>3. m \in MsgStates /\ m.length = length /\ m.remain = length /\ m.data = data
        /\ m.type = type /\ m.ts = ts /\ m.Format = 0 /\ m.exted = (ts >= Ext)
    <2>1. 0 \in 0..(TsMod - 1) /\ (ts >= Ext) \in BOOLEAN
      OBVIOUS
    <2> QED BY <1>1, <2>1 DEF Full, MsgStates, length
  <1> HIDE DEF y, k, b
  <1>4. /\ v[j] = [fmt |-> IF j = 1 THEN 0 ELSE 3, csid |-> c, ts |-> TsField(ts),
                   length |-> length, type |-> type, ext |-> ExtOf(ts),
                   data |-> SubSeq(data, y + 1, end)]
    BY <1>2 DEF ChunksOf, c, length, y, k
  <1>5. v[1] = [fmt |-> 0, csid |-> c, ts |-> TsField(ts), length |-> length,
                type |-> type, ext |-> ExtOf(ts),
                data |-> SubSeq(data, (1 - 1) * size + 1, MinOf(1 * size, length))]
    <2>1. 1 \in 1..NumChunks(length, size)
      BY <1>2 DEF length, k
    <2> QED BY <2>1 DEF ChunksOf, c, length
  <1>6. /\ b \in MsgStates /\ Tracks(b, m)
        /\ TakesExt(s.chunks[c], v[1]) <=> v[1].ext # NoExt
    <2> DEFINE ch == v[1]
    <2>1. /\ ch.fmt = 0 /\ ch.ts = TsField(m.ts) /\ ch.ext = ExtOf(m.ts)
          /\ ch.length = m.length /\ ch.type = m.type
      BY <1>3, <1>5
    <2>2. b = Begin(s.chunks[c], ch) /\ s.chunks[c] \in MsgStates
      BY <1>1 DEF c, b, FirstHeader
    <2> HIDE DEF ch, m
    <2>3. /\ Begin(s.chunks[c], ch) \in MsgStates
          /\ Tracks(Begin(s.chunks[c], ch), m)
          /\ TakesExt(s.chunks[c], ch) <=> ch.ext # NoExt
      BY <1>3, <2>1, <2>2, FullHeader
    <2> QED BY <2>2, <2>3 DEF ch
  <1> HIDE DEF m, msg
  <1>7. /\ end \in 0..length /\ y \in 0..length /\ length - y \in Nat \ {0}
        /\ length - (length - y) = y
        /\ y + MinOf(length - y, size) = end
        /\ length - y - MinOf(length - y, size) = length - end
        /\ length - y <= size <=> j = k
        /\ type = "size" => MinOf(length - y, s.size) = MinOf(length - y, size)
    <2>1. /\ end \in 0..length /\ y \in 0..length /\ length - y \in Nat \ {0}
          /\ length - (length - y) = y
          /\ y + MinOf(length - y, size) = end
          /\ length - y - MinOf(length - y, size) = length - end
          /\ length - y <= size <=> j = k
      BY <1>1, <1>2 DEF MinOf
    <2>2. type = "size" => length - y = 1
      <3>1. type = "size" => length = 1
        BY DEF Ready, length
      <3>2. length = 1 => y = 0
        BY <1>2
      <3> QED BY <3>1, <3>2
    <2>3. MinOf(1, s.size) = 1 /\ MinOf(1, size) = 1
      BY <1>1 DEF MinOf
    <2> QED BY <2>1, <2>2, <2>3
  <1> HIDE DEF end
  <1> DEFINE p == T(j - 1)
  <1>t. \A i : T(i) = Along(s, c, b, m, size, k, i)
    BY DEF Turn, c, b, m, k, length
  <1> HIDE DEF T
  \* what the turns before left
  <1>8. /\ p.size = s.size
        /\ p.chunks = (IF j = 1 THEN s.chunks ELSE [s.chunks EXCEPT ![c] = Part(b, m, y)])
        /\ p.arrived = s.arrived
        /\ p = [size |-> p.size, chunks |-> p.chunks, arrived |-> p.arrived]
    <2>1. CASE j = 1
      <3>1. p = s
        BY <1>t, <2>1 DEF Along
      <3> QED BY <2>1, <3>1 DEF Readers
    <2>2. CASE j # 1
      <3>1. MinOf((j - 1) * size, m.length) = y
        BY <1>1, <1>2, <1>3 DEF MinOf, y
      <3>2. j - 1 # 0 /\ j - 1 # k
        BY <1>2, <2>2
      <3>3. p = [size |-> s.size, chunks |-> [s.chunks EXCEPT ![c] = Part(b, m, y)],
                 arrived |-> s.arrived]
        BY <1>t, <3>1, <3>2 DEF Along
      <3> QED BY <2>2, <3>3
    <2> QED BY <2>1, <2>2
  <1>9. /\ Part(b, m, y) \in MsgStates
        /\ Tracks(Part(b, m, y), mj)
        /\ Part(b, m, y).remain = length - y
        /\ Len(Part(b, m, y).data) + Part(b, m, y).remain = Part(b, m, y).length
        /\ Part(b, m, 0) = b
        /\ Part(b, m, end).remain = length - end
    <2>1. y \in 0..m.length /\ m.remain = m.length /\ Len(m.data) = m.length
      BY <1>3, <1>7 DEF length
    <2>2. ASSUME NEW at \in 0..m.length
          PROVE  /\ Part(b, m, at) \in MsgStates
                 /\ Tracks(Part(b, m, at), [m EXCEPT !.remain = m.length - at])
                 /\ Part(b, m, at).remain = m.length - at
                 /\ Len(Part(b, m, at).data) + Part(b, m, at).remain = Part(b, m, at).length
                 /\ Part(b, m, 0) = b
      BY <1>3, <1>6, <2>1, PartTracks
    <2>3. end \in 0..m.length
      BY <1>3, <1>7
    <2> QED BY <1>3, <2>1, <2>2, <2>3
  <1>10. p \in Readers
    <2>1. p.size \in Nat \ {0} /\ p.arrived \in [CSIDs -> Seq(Messages)]
          /\ p.chunks \in [CSIDs -> MsgStates]
      <3> DEFINE pc == p.chunks
                 sc == s.chunks
                 part == Part(b, m, y)
      <3>1. /\ pc = sc \/ pc = [sc EXCEPT ![c] = part]
            /\ sc \in [CSIDs -> MsgStates] /\ part \in MsgStates
        BY <1>1, <1>8, <1>9
      <3> HIDE DEF pc, sc, part
      <3>2. pc \in [CSIDs -> MsgStates]
        BY ONLY <3>1
      <3>3. p.size \in Nat \ {0} /\ p.arrived \in [CSIDs -> Seq(Messages)]
        BY <1>1, <1>8
      <3> QED BY <3>2, <3>3 DEF pc
    <2>2. \A d \in CSIDs : Len(p.chunks[d].data) + p.chunks[d].remain = p.chunks[d].length
      <3> TAKE d \in CSIDs
      <3>1. p.chunks[d] = s.chunks[d] \/ p.chunks[d] = Part(b, m, y)
        BY <1>1, <1>8
      <3> QED BY <1>9, <3>1 DEF Readers
    <2> HIDE DEF p
    <2>3. p \in [size : Nat \ {0}, chunks : [CSIDs -> MsgStates],
                 arrived : [CSIDs -> Seq(Messages)]]
      BY <1>8, <2>1
    <2> QED BY <2>2, <2>3 DEF Readers
  <1>11. Started(p, v[j]) = Part(b, m, y)
    <2>0. v[j].csid = c
      BY <1>4
    <2>1. CASE j = 1
      <3>1. y = 0 /\ p.chunks = s.chunks
        BY <1>2, <1>8, <2>1 DEF y
      <3>2. Started(p, v[1]) = b
        <4> HIDE DEF p, v
        <4> QED BY <1>1, <2>0, <2>1, <3>1 DEF Started, b, FirstHeader, c, v
      <3> QED BY <1>9, <2>1, <3>1, <3>2
    <2>2. CASE j # 1
      <3>1. p.chunks[c] = Part(b, m, y)
        BY <1>1, <1>8, <2>2
      <3> HIDE DEF p, v
      <3> QED BY <1>7, <1>9, <2>0, <3>1 DEF Started
    <2> QED BY <2>1, <2>2
  <1>12. mj \in MsgStates /\ Whole(mj)
    <2>1. /\ mj.remain = length - y /\ mj.length = length /\ mj.data = data /\ mj.type = type
      BY <1>3 DEF MsgStates
    <2>2. mj \in MsgStates
      BY <1>3, <1>7 DEF MsgStates
    <2> HIDE DEF mj
    <2>3. Whole(mj)
      <3>1. Len(data) = length
        BY DEF length
      <3>2. length - y <= length
        BY <1>1, <1>2
      <3> QED BY <2>1, <3>1, <3>2 DEF Whole, Ready
    <2> QED BY <2>2, <2>3
  <1>13. IsNext(p, v[j], mj)
    <2>0. v[j].csid = c /\ v[j].fmt = (IF j = 1 THEN 0 ELSE 3) /\ v[j].ext = ExtOf(ts)
          /\ v[j].data = SubSeq(data, y + 1, end)
      <3> HIDE DEF v
      <3> DEFINE cut == SubSeq(data, y + 1, end)
      <3>1. v[j] = [fmt |-> IF j = 1 THEN 0 ELSE 3, csid |-> c, ts |-> TsField(ts),
                    length |-> length, type |-> type, ext |-> ExtOf(ts), data |-> cut]
        BY <1>4
      <3> HIDE DEF cut
      <3>2. v[j].data = cut /\ v[j].csid = c
        BY <3>1
      <3>3. v[j].fmt = (IF j = 1 THEN 0 ELSE 3) /\ v[j].ext = ExtOf(ts)
        BY <3>1
      <3> QED BY <3>2, <3>3 DEF cut
    <2>1. Started(p, v[j]) \in MsgStates /\ Tracks(Started(p, v[j]), mj)
      BY <1>9, <1>11
    <2>2. p.chunks[c].remain # 0 => v[j].fmt = 3
      BY <1>1, <1>8, <2>0
    <2>3. TakesExt(p.chunks[c], v[j]) <=> v[j].ext # NoExt
      <3>1. CASE j = 1
        <4>1. p.chunks = s.chunks
          BY <1>8, <3>1
        <4> QED BY <1>6, <3>1, <4>1
      <3>2. CASE j # 1
        <4>1. p.chunks[c] = Part(b, m, y)
          BY <1>1, <1>8, <3>2
        <4>2. /\ Part(b, m, y).remain # 0 /\ Part(b, m, y).exted = (ts >= Ext)
              /\ Part(b, m, y).ts = ts
          BY <1>3, <1>6, <1>7, <1>9 DEF Part, Tracks, MsgStates
        <4>3. TakesExt(Part(b, m, y), v[j]) <=> ts >= Ext /\ ExtOf(ts) = ts
          <5> HIDE DEF v
          <5> QED BY <2>0, <3>2, <4>2 DEF TakesExt
        <4>4. ExtOf(ts) = ts \/ ~(ts >= Ext)
          BY DEF ExtOf
        <4>5. ExtOf(ts) # NoExt <=> ts >= Ext
          BY DEF ExtOf, NoExt
        <4> QED BY <2>0, <4>1, <4>3, <4>4, <4>5
      <3> QED BY <3>1, <3>2
    <2>4. v[j].data = SubSeq(mj.data, mj.length - mj.remain + 1,
                             mj.length - mj.remain + MinOf(mj.remain, p.size))
      <3>1. mj.remain = length - y /\ mj.length = length /\ mj.data = data
        BY <1>3 DEF MsgStates
      <3>2. MinOf(length - y, p.size) = MinOf(length - y, size)
        BY <1>7, <1>8 DEF Ready
      <3>3. mj.length - mj.remain = y
        BY <1>7, <3>1
      <3>4. y + MinOf(mj.remain, p.size) = end
        BY <1>7, <3>1, <3>2
      <3> HIDE DEF mj, p, v
      <3> QED BY <2>0, <3>1, <3>3, <3>4
    <2> HIDE DEF p, v, mj
    <2> QED BY <2>0, <2>1, <2>2, <2>3, <2>4 DEF IsNext
  <1>14. v[j] \in Chunks
    <2>1. SubSeq(data, y + 1, end) \in Seq(Units)
      <3>1. y \in Nat /\ end \in y..Len(data) /\ Len(data) = length
        <4>1. end \in 0..length /\ y <= end
          BY <1>1, <1>2, <1>7 DEF end, MinOf
        <4> QED BY <1>1, <1>2, <4>1 DEF length
      <3>2. ASSUME NEW w \in Seq(Units), NEW at \in Nat, NEW e \in at..Len(w)
            PROVE  SubSeq(w, at + 1, e) \in Seq(Units)
        BY CutData, ZenonT(20)
      <3> QED BY <3>1, <3>2
    <2>2. TsField(ts) \in Nat /\ ExtOf(ts) \in Int
      BY DEF TsField, MinOf, ExtOf, NoExt
    <2> HIDE DEF v
    <2> QED BY <1>1, <1>4, <2>1, <2>2 DEF Chunks
  <1>15. Took(p, v[j], mj)
    <2> HIDE DEF p, v, mj
    <2> QED BY <1>10, <1>12, <1>13, <1>14, TakeChunk
  <1>16. T(j) = [size |-> IF j = k /\ type = "size" THEN data[1][2] ELSE s.size,
                 chunks |-> [s.chunks EXCEPT ![c] = Part(b, m, end)],
                 arrived |-> IF j = k THEN [s.arrived EXCEPT ![c] = Append(s.arrived[c], msg)]
                             ELSE s.arrived]
    <2>1. MinOf(j * size, m.length) = end
      BY <1>2, <1>3 DEF end
    <2>2. j # 0
      BY <1>2
    <2> QED BY <1>t, <1>3, <2>1, <2>2 DEF Along, msg
  <1>17. Taken(p, v[j]) = Part(b, m, end)
    <2>1. mj.remain = length - y /\ mj.length = length /\ mj.data = data
      BY <1>3 DEF MsgStates
    <2>2. MinOf(mj.remain, p.size) = MinOf(length - y, size)
      BY <1>7, <1>8, <2>1 DEF Ready
    <2>3. mj.length - mj.remain + MinOf(mj.remain, p.size) = end
          /\ mj.remain - MinOf(mj.remain, p.size) = length - end
      BY <1>7, <2>1, <2>2
    <2> HIDE DEF p, v, mj
    <2>4. Taken(p, v[j]) = [Part(b, m, y) EXCEPT !.remain = length - end,
                                               !.data = SubSeq(data, 1, end)]
      BY <1>11, <1>15, <2>1, <2>3 DEF Took
    <2>5. Part(b, m, end) = [b EXCEPT !.remain = length - end, !.data = SubSeq(data, 1, end)]
      BY <1>3 DEF Part
    <2>6. Part(b, m, y) = [b EXCEPT !.remain = length - y, !.data = SubSeq(data, 1, y)]
      BY <1>3 DEF Part
    <2>7. ASSUME NEW q PROVE
            [[b EXCEPT !.remain = length - y, !.data = q] EXCEPT
               !.remain = length - end, !.data = SubSeq(data, 1, end)]
            = [b EXCEPT !.remain = length - end, !.data = SubSeq(data, 1, end)]
      BY <1>6 DEF MsgStates
    <2> QED BY ONLY <2>4, <2>5, <2>6, <2>7
  <1>18. T(j) = After(p, v[j])
    <2> DEFINE t == After(p, v[j])
    <2>0. v[j].csid = c
      BY <1>4
    <2>1. mj.remain = length - y /\ mj.type = type /\ mj.ts = ts /\ mj.data = data
      BY <1>3 DEF MsgStates
    <2>2. mj.remain <= p.size <=> j = k
      <3>1. CASE type = "size"
        <4>1. length = 1
          BY <3>1 DEF Ready, length
        <4>2. length - y = 1
          BY <1>2, <4>1
        <4>3. length - y <= size /\ length - y <= s.size
          BY <1>1, <4>2
        <4> QED BY <1>7, <1>8, <2>1, <4>3
      <3>2. CASE type # "size"
        BY <1>7, <1>8, <2>1, <3>2 DEF Ready
      <3> QED BY <3>1, <3>2
    <2> HIDE DEF p, v, mj
    <2>3. t.size = (IF j = k /\ type = "size" THEN data[1][2] ELSE s.size)
      BY <1>8, <1>15, <2>1, <2>2 DEF Took
    <2>4. t.arrived = (IF j = k THEN [s.arrived EXCEPT ![c] = Append(s.arrived[c], msg)]
                       ELSE s.arrived)
      BY <1>8, <1>15, <2>0, <2>1, <2>2 DEF Took, msg
    <2>5. t.chunks = [s.chunks EXCEPT ![c] = Part(b, m, end)]
      <3>1. t.chunks = [p.chunks EXCEPT ![c] = Taken(p, v[j])]
        BY <2>0 DEF After
      <3> HIDE DEF t
      <3> QED BY <1>1, <1>8, <1>17, <3>1
    <2>6. t = [size |-> t.size, chunks |-> t.chunks, arrived |-> t.arrived]
      BY DEF After
    <2> HIDE DEF t
    <2>7. T(j) = t
      BY <1>16, <2>3, <2>4, <2>5, <2>6
    <2> QED BY <2>7 DEF t
  <1>19. After(p, v[j]) \in Readers /\ Accepts(p, v[j])
    BY <1>15 DEF Took
  <1>20. T(j) \in Readers
    <2> HIDE DEF p, v
    <2> QED BY <1>18, <1>19
  <1>a. j = k => T(j).chunks[c].remain = 0
    <2>3. T(j).chunks[c] = Part(b, m, end)
      BY <1>1, <1>16
    <2>4. j = k => end = length
      BY <1>1, <1>2 DEF end, MinOf
    <2>5. length - length = 0
      BY <1>1
    <2> QED BY <1>9, <2>3, <2>4, <2>5
  <1> HIDE DEF v
  <1>21. v[j] \in Chunks /\ T(j - 1) \in Readers /\ Accepts(T(j - 1), v[j])
         /\ T(j) = After(T(j - 1), v[j]) /\ T(j) \in Readers
         /\ (j = k => T(j).chunks[c].remain = 0)
    BY <1>a, <1>10, <1>14, <1>18, <1>19, <1>20
  <1> QED BY <1>21 DEF v, T, c, k, length

\* Conn.Write keeps the invariant, a message without payload included.
LEMMA WriteStep ==
    ASSUME ConnInv, NEW type \in Types, NEW ts \in Times, NEW x \in Values(type),
           Write(type, ts, x)
    PROVE  ConnInv'
  <1> DEFINE data == Payload(type, x)
             size == IF type = "size" THEN x ELSE chunkSize
             c == CSID(type)
             w == ChunksOf(type, ts, data, size)
             msg == [type |-> type, ts |-> ts, data |-> data]
  <1> USE ChunkAssumption
  <1>1. /\ sender = "livelib" /\ chunkSize' = size /\ wire' = wire \o w
        /\ data = <<>> => sent' = sent
        /\ data # <<>> => sent' = [sent EXCEPT ![c] = Append(@, msg)]
        /\ UNCHANGED <<sender, peer, readVars>>
    BY DEF Write, Sends
  <1>2. /\ data \in Seq(Units) /\ Len(data) \in Nat
        /\ type = "size" => Len(data) = 1 /\ data[1][2] = x /\ x \in Sizes
        /\ msg \in Proper
    <2>1. ts \in 0..(TsMod - 1)
      OBVIOUS
    <2> QED BY <2>1, PayloadProper
  <1> HIDE DEF data
  <1>3. size \in Nat \ {0} /\ c \in CSIDs /\ (type # "size" => size = chunkSize)
    BY <1>2 DEF ConnInv, TypeInv, CSID, CSIDs, Types
  <1> HIDE DEF size, c, w, msg
  <1>v. PICK v : v = w
    OBVIOUS
  <1>4. PICK S : Follows(S)
    BY DEF ConnInv
  <1>5. PICK s : s = S[Len(wire)]
    OBVIOUS
  <1>6. /\ s \in Readers /\ s.size = chunkSize
        /\ \A d \in CSIDs : /\ s.chunks[d].remain = 0 /\ peer[d].remain = 0
                            /\ s.arrived[d] = sent[d]
        /\ wire \in Seq(Chunks)
    <2>1. s \in Readers /\ wire \in Seq(Chunks)
      <3>1. Len(wire) \in 0..Len(wire) /\ wire \in Seq(Chunks)
        BY LenProperties DEF ConnInv, TypeInv
      <3> QED BY <1>4, <1>5, <3>1 DEF Follows, Path
    <2>2. CaughtUp(s)
      BY <1>4, <1>5 DEF Follows
    <2>3. \A d \in CSIDs : peer[d].remain = 0
      BY <1>1 DEF ConnInv, PeerInv
    <2> QED BY <2>1, <2>2, <2>3 DEF CaughtUp
  <1>7. \A d \in CSIDs : sent[d] \in Seq(Messages) /\ sent[d] \in Seq(Proper)
    <2> TAKE d \in CSIDs
    <2>1. sent[d] \in Seq(Proper) /\ Proper \subseteq Messages
      BY DEF ConnInv, TypeInv, Proper
    <2> QED BY <2>1, SeqMonotonic
  <1>8. msg \in Messages
    BY <1>2 DEF Proper
  <1>9. /\ sent' \in [CSIDs -> Seq(Proper)]
        /\ \A d \in CSIDs : sent'[d] \in Seq(Messages)
        /\ \A d \in CSIDs : \A a \in Seq(Messages) :
             IsPrefix(a, sent[d]) => IsPrefix(a, sent'[d])
    <2>1. sent \in [CSIDs -> Seq(Proper)]
      BY DEF ConnInv, TypeInv
    <2>2. CASE data = <<>>
      BY <1>1, <1>7, <2>1, <2>2
    <2>3. CASE data # <<>>
      <3>1. /\ Append(sent[c], msg) \in Seq(Proper)
            /\ Append(sent[c], msg) \in Seq(Messages)
        BY <1>2, <1>3, <1>7, <1>8, AppendProperties
      <3>2. \A d \in CSIDs : sent'[d] = (IF d = c THEN Append(sent[c], msg) ELSE sent[d])
        BY <1>1, <2>1, <2>3
      <3>3. sent' \in [CSIDs -> Seq(Proper)]
        BY <1>1, <1>3, <2>1, <2>3, <3>1
      <3>4. \A d \in CSIDs : \A a \in Seq(Messages) :
              IsPrefix(a, sent[d]) => IsPrefix(a, sent'[d])
        <4> TAKE d \in CSIDs
        <4>1. CASE d = c
          <5>1. sent'[d] = Append(sent[d], msg)
            BY <3>2, <4>1
          <5> QED BY <1>7, <1>8, <5>1, PrefixAppend
        <4>2. CASE d # c
          BY <3>2, <4>2
        <4> QED BY <4>1, <4>2
      <3> QED BY <1>7, <3>1, <3>2, <3>3, <3>4
    <2> QED BY <2>2, <2>3
  \* the path of the reader along the new chunks
  <1>10. PICK T : /\ v \in Seq(Chunks) /\ Path(T, v) /\ T[0] = s
                  /\ T[Len(v)].size = size
                  /\ \A d \in CSIDs : T[Len(v)].chunks[d].remain = 0
                  /\ \A d \in CSIDs : T[Len(v)].arrived[d] = sent'[d]
                  /\ \A j \in 0..Len(v) : T[j].arrived = s.arrived \/ j = Len(v)
    <2>1. CASE data = <<>>
      <3>1. NumChunks(Len(data), size) = 0
        <4>1. Len(data) = 0
          BY <2>1
        <4>2. (0 + size - 1) \div size = 0
          BY <1>3
        <4> QED BY <4>1, <4>2 DEF NumChunks
      <3>2. v = <<>> /\ Len(<<>>) = 0 /\ <<>> \in Seq(Chunks)
        <4>1. 1..0 = {}
          OBVIOUS
        <4> QED BY <1>v, <3>1, <4>1 DEF ChunksOf, w
      <3>3. type # "size"
        BY <1>2, <2>1
      <3>4. sent' = sent
        BY <1>1, <2>1
      <3> DEFINE T == [i \in 0..0 |-> s]
      <3>5. T[0] = s /\ T \in [0..0 -> Readers] /\ 1..0 = {}
        BY <1>6
      <3> HIDE DEF T
      <3>6. Path(T, v)
        BY <3>2, <3>5 DEF Path
      <3>7. \A j \in 0..0 : j = 0
        OBVIOUS
      <3> QED BY <1>3, <1>6, <3>2, <3>3, <3>4, <3>5, <3>6, <3>7
    <2>2. CASE data # <<>>
      <3> DEFINE k == NumChunks(Len(data), size)
                 b == FirstHeader(s, type, ts, data, size)
                 m == Full(type, ts, data)
                 A(i) == Turn(s, type, ts, data, size, i)
                 T == [i \in 0..k |-> A(i)]
      <3>1. Len(data) \in Nat \ {0}
        BY <1>2, <2>2, EmptySeq
      <3>2. k \in Nat \ {0}
        BY <1>3, <3>1, Turns
      <3>3. Ready(s, type, ts, data, size)
        BY <1>2, <1>3, <1>6 DEF Ready, c
      <3>4. \A j \in 1..k : /\ v[j] \in Chunks /\ A(j - 1) \in Readers
                            /\ Accepts(A(j - 1), v[j]) /\ A(j) = After(A(j - 1), v[j])
                            /\ A(j) \in Readers
                            /\ j = k => A(j).chunks[c].remain = 0
        <4> TAKE j \in 1..k
        <4>1. ts \in 0..(TsMod - 1)
          OBVIOUS
        <4>2. /\ s \in Readers /\ data \in Seq(Units) /\ size \in Nat \ {0}
              /\ type \in Types /\ j \in 1..NumChunks(Len(data), size)
          BY <1>2, <1>3, <1>6
        <4>3. LET R(i) == Turn(s, type, ts, data, size, i)
                  ch == ChunksOf(type, ts, data, size)[j]
              IN  /\ ch \in Chunks /\ R(j - 1) \in Readers
                  /\ Accepts(R(j - 1), ch) /\ R(j) = After(R(j - 1), ch)
                  /\ R(j) \in Readers
                  /\ j = NumChunks(Len(data), size) => R(j).chunks[CSID(type)].remain = 0
          BY ONLY <2>2, <3>3, <4>1, <4>2, WriteTurn
        <4> QED BY <1>v, <4>3 DEF w, c
      <3> HIDE DEF k, b, m
      <3>5. v \in Seq(Chunks) /\ Len(v) = k
        <4>1. v \in [1..k -> Chunks]
          BY <1>v, <3>4 DEF w, ChunksOf, k
        <4> QED BY <3>2, <4>1, SeqDef
      <3>a. \A i : A(i) = Along(s, c, b, m, size, k, i)
        BY DEF Turn, b, m, k, c
      <3>6. A(0) = s
        BY <3>a DEF Along
      <3> HIDE DEF A
      <3>7. \A i \in 0..k : T[i] = A(i)
        OBVIOUS
      <3>8. \A i \in 0..k : A(i) \in Readers
        <4> TAKE i \in 0..k
        <4>1. i = 0 \/ i \in 1..k
          BY <3>2
        <4> QED BY <1>6, <3>4, <3>6, <4>1
      <3>9. Path(T, v)
        <4>1. T \in [0..Len(v) -> Readers]
          BY <3>5, <3>8
        <4>2. \A i \in 1..Len(v) : Accepts(T[i - 1], v[i]) /\ T[i] = After(T[i - 1], v[i])
          <5> TAKE i \in 1..Len(v)
          <5>1. i \in 1..k /\ i \in 0..k /\ i - 1 \in 0..k
            BY <3>2, <3>5
          <5> HIDE DEF T
          <5> QED BY <3>4, <3>7, <5>1
        <4> HIDE DEF T
        <4> QED BY <4>1, <4>2 DEF Path
      <3>10. /\ m.type = type /\ m.ts = ts /\ m.data = data
        BY DEF m, Full
      <3>11. /\ A(k).size = (IF type = "size" THEN data[1][2] ELSE s.size)
             /\ A(k).arrived = [s.arrived EXCEPT ![c] = Append(s.arrived[c], msg)]
             /\ A(k).chunks = [s.chunks EXCEPT ![c] = Part(b, m, MinOf(k * size, m.length))]
             /\ A(k).chunks[c].remain = 0
        <4>1. k # 0 /\ k \in 1..k
          BY <3>2
        <4>2. A(k) = [size |-> IF type = "size" THEN data[1][2] ELSE s.size,
                      chunks |-> [s.chunks EXCEPT ![c] = Part(b, m, MinOf(k * size, m.length))],
                      arrived |-> [s.arrived EXCEPT ![c] = Append(s.arrived[c], msg)]]
          BY <3>a, <3>10, <4>1 DEF Along, msg
        <4>3. A(k).chunks[c].remain = 0
          BY <3>4, <4>1
        <4> QED BY <4>2, <4>3
      <3>12. A(k).size = size
        BY <1>2, <1>3, <1>6, <3>11 DEF size
      <3>13. s.arrived \in [CSIDs -> Seq(Messages)] /\ s.chunks \in [CSIDs -> MsgStates]
        BY <1>6 DEF Readers
      <3>14. \A d \in CSIDs : A(k).arrived[d] = sent'[d]
        <4> TAKE d \in CSIDs
        <4>1. sent \in [CSIDs -> Seq(Proper)]
          BY DEF ConnInv, TypeInv
        <4> QED BY <1>1, <1>6, <2>2, <3>11, <3>13, <4>1
      <3>15. \A d \in CSIDs : A(k).chunks[d].remain = 0
        <4> TAKE d \in CSIDs
        <4>1. d # c => A(k).chunks[d] = s.chunks[d]
          BY <3>11, <3>13
        <4> QED BY <1>6, <3>11, <4>1
      <3>16. \A j \in 0..k : A(j).arrived = s.arrived \/ j = k
        <4> TAKE j \in 0..k
        <4>1. CASE j = 0
          BY <3>6, <4>1
        <4>2. CASE j # 0 /\ j # k
          BY <3>a, <4>2 DEF Along
        <4> QED BY <4>1, <4>2
      <3>17. 0 \in 0..k /\ k \in 0..k
        BY <3>2
      <3> HIDE DEF T
      <3> QED BY <3>5, <3>6, <3>7, <3>9, <3>12, <3>14, <3>15, <3>16, <3>17
    <2> QED BY <2>1, <2>2
  <1>11. \A j \in 0..Len(v), d \in CSIDs : IsPrefix(T[j].arrived[d], sent'[d])
    <2> TAKE j \in 0..Len(v), d \in CSIDs
    <2>1. IsPrefix(s.arrived[d], sent'[d])
      <3>1. IsPrefix(sent[d], sent[d])
        BY <1>7, PrefixOfItself
      <3> QED BY <1>6, <1>7, <1>9, <3>1
    <2>2. IsPrefix(sent'[d], sent'[d])
      BY <1>9, PrefixOfItself
    <2>3. T[j].arrived = s.arrived \/ j = Len(v)
      BY <1>10
    <2>4. T[Len(v)].arrived[d] = sent'[d]
      BY <1>10
    <2> QED BY <2>1, <2>2, <2>3, <2>4
  <1>12. CaughtUp(T[Len(v)])'
    <2>1. \A d \in CSIDs : /\ T[Len(v)].chunks[d].remain = peer'[d].remain
                           /\ peer'[d].remain = 0 /\ T[Len(v)].arrived[d] = sent'[d]
      BY <1>1, <1>6, <1>10
    <2>2. T[Len(v)].size = chunkSize' /\ sender' # "other"
      BY <1>1, <1>10
    <2>3. ASSUME NEW t, \A d \in CSIDs : /\ t.chunks[d].remain = peer'[d].remain
                                          /\ peer'[d].remain = 0 /\ t.arrived[d] = sent'[d],
                 t.size = chunkSize', sender' # "other"
          PROVE  CaughtUp(t)'
      BY <2>3 DEF CaughtUp
    <2> QED BY <2>1, <2>2, <2>3
  <1>13. (\E U : Follows(U))' /\ reader' = "ok" /\ wire' \in Seq(Chunks)
    <2>1. Puts(v)
      BY <1>v, <1>1 DEF Puts
    <2> QED BY <1>1, <1>4, <1>5, <1>9, <1>10, <1>11, <1>12, <2>1, Extend
  <1>14. TypeInv'
    BY <1>1, <1>3, <1>9, <1>13 DEF ConnInv, TypeInv
  <1>15. PeerInv'
    <2>1. \A d \in CSIDs : peer'[d].remain = 0 /\ peer'[d] = peer[d]
      BY <1>1, <1>6
    <2> QED BY <2>1 DEF ConnInv, PeerInv
  <1> QED BY <1>13, <1>14, <1>15 DEF ConnInv

\* The reader follows whoever sends: along the chunks on the wire it takes every
\* one for what it is, and at their end it is where the sender is.
THEOREM ConnInvariant == Spec => []ConnInv
  <1>1. ConnInv /\ [Next]_vars => ConnInv'
    <2> SUFFICES ASSUME ConnInv, [Next]_vars PROVE ConnInv'
      OBVIOUS
    <2>1. ASSUME NEW type \in Types, NEW ts \in Times, NEW x \in Values(type),
                 Write(type, ts, x)
          PROVE  ConnInv'
      BY <2>1, WriteStep
    <2>2. ASSUME NEW c \in CSIDs, NEW type \in Types, NEW step \in Times, NEW fmt \in 0..3,
                 NEW x \in Values(type) \ {0}, PeerBegin(c, type, step, x, fmt)
          PROVE  ConnInv'
      BY <2>2, PeerBeginStep
    <2>3. ASSUME NEW c \in CSIDs, PeerContinue(c) PROVE ConnInv'
      BY <2>3, PeerContinueStep
    <2>4. CASE ReadNextChunk
      BY <2>4, ReadStep
    <2>5. CASE UNCHANGED vars
      <3>1. TypeInv' /\ PeerInv'
        BY <2>5 DEF vars, readVars, ConnInv, TypeInv, PeerInv
      <3>2. PICK S : Follows(S)
        BY DEF ConnInv
      <3>3. Follows(S)'
        BY <2>5, <3>2 DEF vars, readVars, Follows, Path, Now, CaughtUp
      <3> QED BY <3>1, <3>3 DEF ConnInv
    <2> QED BY <2>1, <2>2, <2>3, <2>4, <2>5 DEF Next
  <1> QED BY <1>1, ConnInit, PTL DEF Spec

\* Read never fails and never takes payload for a header, whoever sends.
THEOREM StaysInStep == Spec => []InStep
  <1>1. ConnInv => InStep
    BY DEF ConnInv, TypeInv, InStep
  <1> QED BY <1>1, ConnInvariant, PTL

\* What Read returned of a chunk stream is a prefix of what was sent on it.
THEOREM MessagesIntact == Spec => []Intact
  <1>1. ConnInv => Intact
    <2> SUFFICES ASSUME ConnInv, NEW c \in CSIDs PROVE IsPrefix(arrived[c], sent[c])
      BY DEF Intact
    <2>1. PICK S : Follows(S)
      BY DEF ConnInv
    <2>2. 0 \in 0..Len(wire)
      BY LenProperties DEF ConnInv, TypeInv
    <2>3. IsPrefix(S[0].arrived[c], sent[c]) /\ S[0] = Now
      BY <2>1, <2>2 DEF Follows
    <2> QED BY <2>3 DEF Now
  <1> QED BY <1>1, ConnInvariant, PTL

\* With nothing on the wire all messages that were sent whole have arrived.
THEOREM NothingHeldBack == Spec => []AllArrive
  <1>1. ConnInv => AllArrive
    <2> SUFFICES ASSUME ConnInv, wire = <<>>, NEW c \in CSIDs
                 PROVE  arrived[c] = (IF peer[c].remain = 0 THEN sent[c] ELSE Front(sent[c]))
      BY DEF AllArrive
    <2>1. PICK S : Follows(S)
      BY DEF ConnInv
    <2>2. CaughtUp(S[Len(wire)]) /\ S[0] = Now /\ Len(wire) = 0
      BY <2>1, EmptySeq DEF Follows
    <2>3. CaughtUp(Now)
      BY <2>2
    <2> QED BY <2>3 DEF CaughtUp, Now
  <1> QED BY <1>1, ConnInvariant, PTL

\* To the counters of the acknowledgements a connection is what AckWindow says of
\* it: the messages that are read have the lengths, and ask for the windows, that
\* some sender sent, and one is counted exactly when it is complete (Read, ack).
THEOREM ReadsAreAcknowledged == Spec => AckSpec
  <1>1. Init => AckInit
    BY DEF Init
  <1>2. ConnInv /\ [Next]_vars => [AckNext]_ackVars
    <2> SUFFICES ASSUME ConnInv, [Next]_vars PROVE [AckNext]_ackVars
      OBVIOUS
    <2>1. CASE ReadNextChunk
      BY <2>1, ReadStep
    <2>2. CASE ~ReadNextChunk
      <3>1. ASSUME NEW type \in Types, NEW ts \in Times, NEW x \in Values(type),
                   Write(type, ts, x)
            PROVE  UNCHANGED ackVars
        BY <3>1 DEF Write, readVars
      <3>2. ASSUME NEW c \in CSIDs, NEW type \in Types, NEW step \in Times, NEW fmt \in 0..3,
                   NEW x \in Values(type) \ {0}, PeerBegin(c, type, step, x, fmt)
            PROVE  UNCHANGED ackVars
        BY <3>2 DEF PeerBegin, PeerChunk, readVars
      <3>3. ASSUME NEW c \in CSIDs, PeerContinue(c)
            PROVE  UNCHANGED ackVars
        BY <3>3 DEF PeerContinue, PeerChunk, readVars
      <3>4. CASE UNCHANGED vars
        BY <3>4 DEF vars, readVars
      <3> QED BY <2>2, <3>1, <3>2, <3>3, <3>4 DEF Next
    <2> QED BY <2>1, <2>2
  <1> QED BY <1>1, <1>2, ConnInvariant, PTL DEF Spec, AckSpec

\* All bytes read are acknowledged or pending.
THEOREM BytesAccounted == Spec => []AllAccounted
  <1>1. IInv => AllAccounted
    BY DEF IInv
  <1> QED BY <1>1, ReadsAreAcknowledged, AckInvariant, PTL

\* Of the messages read, less than the window asked for last is in no acknowledgement
\* that was written.
THEOREM AcknowledgedInTime == Spec => []AckInTime
  <1>1. IInv => AckInTime
    BY DEF IInv
  <1> QED BY <1>1, ReadsAreAcknowledged, AckInvariant, PTL
=============================================================================
