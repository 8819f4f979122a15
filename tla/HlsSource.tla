------------------------------ MODULE HlsSource ------------------------------
(***************************************************************************)
(* hls.Source and its TSCache: the packets SendPacket takes from the queue *)
(* are cut into TS segments at key frames, and the newest segments are     *)
(* served as a playlist and by name.  When a publication ends, or a packet *)
(* does not demux, InitHlsPlayer puts a new source in the place of the old *)
(* one.  A player fetches the playlist and, later, the segments it lists.  *)
(*                                                                         *)
(* A packet that reaches the muxer is its kind and its number in the order *)
(* in which packets reach the muxer; what the TS muxer writes for it is    *)
(* the packet, in the place where it is written.                           *)
(***************************************************************************)
EXTENDS Integers, Sequences

CONSTANTS
    Duration,       \* duration, 3000 ms in the code
    MaxFrames,      \* cache_max_frames, 6 in the code
    MaxTSCacheNum,  \* maxTSCacheNum, 5 in the code
    PlaylistLen,    \* the last segments a playlist lists, 3 in the code
    StreamKinds,    \* kinds of packet in the queue
    TimeSteps,      \* milliseconds from a packet to the next
    MaxPackets,     \* bound on the packets of a behaviour
    MaxSources      \* bound on the sources of a behaviour

\* "vseq", "aseq"  sequence headers     "badseq" one that does not parse
\* "key", "inter", "audio"  AVC frames and AAC raw data
\* "other"  metadata, another codec, the end of an AVC sequence, a frame whose
\*          NAL units do not parse: SendPacket goes on without it
Kinds == {"vseq", "aseq", "badseq", "key", "inter", "audio", "other"}

ASSUME SourceAssumption ==
    /\ Duration \in Nat \ {0}
    /\ MaxFrames \in Nat \ {0}
    /\ PlaylistLen \in Nat \ {0}
    /\ MaxTSCacheNum \in Nat
    /\ MaxTSCacheNum >= PlaylistLen
    /\ StreamKinds \subseteq Kinds
    /\ TimeSteps \subseteq Int
    /\ MaxPackets \in Nat
    /\ MaxSources \in Nat

VARIABLES
    source,     \* which source hlsWriter points to
    seq,        \* source.seq
    btswriter,  \* source.btswriter: what the segment has so far, <<>> for nil
    stat,       \* source.stat
    audio,      \* source.cache: the audio frames not muxed yet
    specific,   \* the AAC parser has an AudioSpecificConfig
    tsCache,    \* source.tsCache, oldest segment first
    now,        \* timestamp of the last packet
    taken,      \* packets taken from the queue
    fed,        \* history: packets that reached the muxer of this source
    times,      \* history: their timestamps
    playlist,   \* the playlist a player fetched last
    age         \* history: segments pushed since, by the same source

sourceVars == <<seq, btswriter, stat, audio, specific, tsCache, fed, times>>
vars == <<source, sourceVars, now, taken, playlist, age>>

PSI == [kind |-> "psi", no |-> 0]  \* the PAT and the PMT

NewStatus == [hasSetFirstTs |-> FALSE, firstTimestamp |-> 0, lastTimestamp |-> 0]

NoPlaylist == [source |-> 0, seq |-> 0, names |-> <<>>, target |-> 0]

Init ==
    /\ source = 1
    /\ seq = 0
    /\ btswriter = <<>>
    /\ stat = NewStatus
    /\ audio = <<>>
    /\ specific = FALSE
    /\ tsCache = <<>>
    /\ now = 0
    /\ taken = 0
    /\ fed = 0
    /\ times = <<>>
    /\ playlist = NoPlaylist
    /\ age = 0

-----------------------------------------------------------------------------
(* status *)

Update(s, ts) ==
    [hasSetFirstTs |-> TRUE,
     firstTimestamp |-> IF s.hasSetFirstTs THEN s.firstTimestamp ELSE ts,
     lastTimestamp |-> ts]

\* Faulty: the next segment keeps the first timestamp of this one.
ResetAndNew_Keeps(s) == s

ResetAndNew(s) == [s EXCEPT !.hasSetFirstTs = FALSE]

DurationMs(s) == s.lastTimestamp - s.firstTimestamp

-----------------------------------------------------------------------------
(* TSCache *)

LastOf(s, k) == IF Len(s) > k THEN SubSeq(s, Len(s) - k + 1, Len(s)) ELSE s

\* Faulty: a full cache evicts the newest item.
PushItem_Newest(c, item) ==
    Append(IF Len(c) = MaxTSCacheNum THEN SubSeq(c, 1, Len(c) - 1) ELSE c, item)

PushItem(c, item) ==
    Append(IF Len(c) = MaxTSCacheNum THEN Tail(c) ELSE c, item)

GetItem(c, name) == {i \in 1..Len(c) : c[i].name = name}

MaxDuration(all) ==
    IF all = <<>> THEN 0
    ELSE CHOOSE d \in {all[i].duration : i \in 1..Len(all)} :
           \A i \in 1..Len(all) : all[i].duration <= d

\* Faulty: the number is that of the first segment in the cache.
GenM3U8File_CacheSeq(c) ==
    LET all == LastOf(c, PlaylistLen)
    IN  [source |-> source,
         seq    |-> IF c = <<>> THEN 0 ELSE c[1].seq,
         names  |-> [i \in 1..Len(all) |-> all[i].name],
         target |-> MaxDuration(all) \div 1000 + 1]

\* Faulty: the target duration is rounded down.
GenM3U8File_RoundsDown(c) ==
    LET all == LastOf(c, PlaylistLen)
    IN  [source |-> source,
         seq    |-> IF all = <<>> THEN 0 ELSE all[1].seq,
         names  |-> [i \in 1..Len(all) |-> all[i].name],
         target |-> MaxDuration(all) \div 1000]

GenM3U8File(c) ==
    LET all == LastOf(c, PlaylistLen)
    IN  [source |-> source,
         seq    |-> IF all = <<>> THEN 0 ELSE all[1].seq,
         names  |-> [i \in 1..Len(all) |-> all[i].name],
         target |-> MaxDuration(all) \div 1000 + 1]

-----------------------------------------------------------------------------
(* SendPacket *)

\* What every packet taken from the queue does.
Take(dt) ==
    /\ taken < MaxPackets
    /\ taken' = taken + 1
    /\ now + dt >= 0
    /\ now' = now + dt

\* A packet that does not reach the muxer: skipped, or a sequence header.
Skip(k, dt) ==
    /\ k \in {"vseq", "aseq", "badseq", "other"}
    /\ Take(dt)
    /\ specific' = (specific \/ k = "aseq")
    /\ UNCHANGED <<source, seq, btswriter, stat, audio, tsCache, fed, times, playlist,
                   age>>

\* The packet reaches calcPtsDts and tsMux.
Feed ==
    /\ fed' = fed + 1
    /\ times' = Append(times, now')

\* Faulty: a new segment does not begin with the tables.
Tables_None == <<>>

\* What a new segment begins with: the PAT and the PMT.
Tables == <<PSI>>

\* Faulty: what the audio cache holds stays there.
FlushAudio_Skipped == [writes |-> <<>>, left |-> audio]

\* flushAudio: what it writes to the segment and leaves in the cache.
FlushAudio == [writes |-> audio, left |-> <<>>]

\* cut ends a segment that is long enough.
Cuts == btswriter # <<>> /\ DurationMs(stat) >= Duration

\* A key frame: parse calls cut, then come stat.update and Mux.  genTsNameFunc
\* gives the time in microseconds; no two segments are cut in the same one.
Key(dt) ==
    LET frame == [kind |-> "key", no |-> fed + 1]
        item == [name |-> <<source, seq + 1>>, seq |-> seq + 1,
                 duration |-> DurationMs(stat), data |-> btswriter \o FlushAudio.writes]
    IN  /\ Take(dt)
        /\ Feed
        /\ IF Cuts
             THEN /\ seq' = seq + 1
                  /\ tsCache' = PushItem(tsCache, item)
                  /\ audio' = FlushAudio.left
                  /\ btswriter' = Append(Tables, frame)
                  /\ stat' = Update(ResetAndNew(stat), now')
                  /\ age' = age + 1
             ELSE /\ btswriter' = Append(IF btswriter = <<>> THEN Tables ELSE btswriter,
                                         frame)
                  /\ stat' = Update(stat, now')
                  /\ UNCHANGED <<seq, tsCache, audio, age>>
        /\ UNCHANGED <<source, specific, playlist>>

\* A frame before the first key frame finds btswriter nil and is dropped.
Inter(dt) ==
    /\ Take(dt)
    /\ IF btswriter # <<>>
         THEN /\ Feed
              /\ btswriter' = Append(btswriter, [kind |-> "inter", no |-> fed + 1])
              /\ stat' = Update(stat, now')
         ELSE UNCHANGED <<fed, times, btswriter, stat>>
    /\ UNCHANGED <<source, seq, audio, specific, tsCache, playlist, age>>

\* muxAudio(cache_max_frames)
MuxAudio(frames) ==
    IF Len(frames) >= MaxFrames
      THEN [writes |-> frames, left |-> <<>>]
      ELSE [writes |-> <<>>, left |-> frames]

\* Audio is cached, and muxed when MaxFrames frames are there.
Audio(dt) ==
    LET mux == MuxAudio(Append(audio, [kind |-> "audio", no |-> fed + 1]))
    IN  /\ Take(dt)
        /\ IF specific /\ btswriter # <<>>
             THEN /\ Feed
                  /\ stat' = Update(stat, now')
                  /\ audio' = mux.left
                  /\ btswriter' = btswriter \o mux.writes
             ELSE UNCHANGED <<fed, times, stat, audio, btswriter>>
        /\ UNCHANGED <<source, seq, specific, tsCache, playlist, age>>

\* SendPacket returned: p = hls.NewSource(); c.hlsWriter.Store(p).  The next
\* publication has timestamps of its own.
Renew ==
    /\ source < MaxSources
    /\ source' = source + 1
    /\ seq' = 0
    /\ btswriter' = <<>>
    /\ stat' = NewStatus
    /\ audio' = <<>>
    /\ specific' = FALSE
    /\ tsCache' = <<>>
    /\ fed' = 0
    /\ times' = <<>>
    /\ now' = 0
    /\ age' = 0
    /\ UNCHANGED <<taken, playlist>>

-----------------------------------------------------------------------------
(* The player *)

Fetch ==
    /\ playlist' = GenM3U8File(tsCache)
    /\ age' = 0
    /\ UNCHANGED <<source, sourceVars, now, taken>>

-----------------------------------------------------------------------------
Packet(k, dt) ==
    \/ Skip(k, dt)
    \/ k = "key" /\ Key(dt)
    \/ k = "inter" /\ Inter(dt)
    \/ k = "audio" /\ Audio(dt)

Next ==
    \/ \E k \in StreamKinds, dt \in TimeSteps : Packet(k, dt)
    \/ Renew
    \/ Fetch

Spec == Init /\ [][Next]_vars

-----------------------------------------------------------------------------
(* Properties *)

Numbers(data) == {data[i].no : i \in {j \in 1..Len(data) : data[j].kind # "psi"}}

IsVideo(m) == m.kind \in {"key", "inter"}

\* One segment can be played by itself: the tables, then a key frame.
Playable(data) ==
    /\ Len(data) >= 2
    /\ data[1] = PSI
    /\ data[2].kind = "key"
    /\ \A i \in 2..Len(data) : data[i] # PSI

\* Within a segment the frames of the video keep their order, and so do the
\* frames of the audio.
Ordered(data) ==
    \A i, j \in 2..Len(data) :
      i < j /\ (IsVideo(data[i]) <=> IsVideo(data[j])) => data[i].no < data[j].no

\* Every segment in the cache, and the one being written, starts with the tables
\* and a key frame and keeps each stream in order.
SegmentsPlayable ==
    /\ \A i \in 1..Len(tsCache) : Playable(tsCache[i].data) /\ Ordered(tsCache[i].data)
    /\ btswriter # <<>> => Playable(btswriter) /\ Ordered(btswriter \o audio)

\* The segments divide the stream: what a segment holds is exactly the run of
\* packets from its key frame to the next segment's, audio included, although
\* audio is held back in the audio cache.  Nothing is lost or written twice.
SegmentsDivideStream ==
    LET all == Append([i \in 1..Len(tsCache) |-> tsCache[i].data], btswriter \o audio)
        start(i) == all[i][2].no
    IN  btswriter # <<>> =>
          \A i \in 1..Len(all) :
            Numbers(all[i]) = start(i)..(IF i = Len(all) THEN fed ELSE start(i + 1) - 1)

\* The duration of a segment is the time from its first packet to its last, and
\* no segment is shorter than Duration.
DurationsTrue ==
    \A i \in 1..Len(tsCache) :
      LET nos == Numbers(tsCache[i].data)
          first == tsCache[i].data[2].no
          last == first + Len(tsCache[i].data) - 2
      IN  /\ tsCache[i].duration = times[last] - times[first]
          /\ tsCache[i].duration >= Duration

\* No segment of the playlist is longer, rounded to seconds, than its target
\* duration.
TargetCovers ==
    LET p == GenM3U8File(tsCache)
    IN  \A i \in 1..Len(p.names) :
          \A k \in GetItem(tsCache, p.names[i]) :
            (tsCache[k].duration + 500) \div 1000 <= p.target

\* While the same source is there, a playlist that was fetched tells the truth
\* about the numbers: the i-th name is the segment numbered seq + i - 1, and the
\* number in a newer playlist is not smaller.
PlaylistHolds ==
    playlist.source = source =>
      /\ playlist.seq <= GenM3U8File(tsCache).seq
      /\ \A i \in 1..Len(playlist.names), k \in 1..Len(tsCache) :
           tsCache[k].name = playlist.names[i] <=>
             tsCache[k].seq = playlist.seq + i - 1

\* A segment listed in a playlist can be fetched, and is one segment, until
\* MaxTSCacheNum - PlaylistLen more were pushed.
ListedIsServed ==
    playlist.source = source /\ age <= MaxTSCacheNum - PlaylistLen =>
      \A i \in 1..Len(playlist.names) :
        \E k \in 1..Len(tsCache) : GetItem(tsCache, playlist.names[i]) = {k}
=============================================================================
