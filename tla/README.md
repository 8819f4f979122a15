# livelib, verified

A TLA+ development of livelib, a live-streaming server in Go: one publisher per
channel sends audio and video over RTMP, and players get the stream over RTMP,
over HTTP-FLV, or as HLS segments.  The modules are translated from the source
under `src/`, checked with TLC on small instances, and the properties that matter
most are proved for every instance with TLAPS.

## 1. Inventory

| part | source | state | operations | what makes it correct |
|---|---|---|---|---|
| Channel | `server/channel.go` | `inPublication`, `closed`, `mu`, `players`, `hlsWriter` | `PushStart`, `Close`, `AddPlayer`, `DelPlayer`, `InitHlsPlayer`, `GenM3U8File`, `GetTsFile` | one publisher at a time; no player without a publisher; no accepted player forgotten; a player's frames are consecutive from a key frame |
| RTMP server | `server/server.go` | a connection | `Serve`, `handleConn` | every handler ends and closes what it opened |
| HTTP endpoints | `cmd/server.go` | map of channels | `.flv`, `.m3u8`, `.ts`, `.png` | the same; a listed segment can be fetched |
| GOP cache | `cache/` | metadata, sequence headers, current group of pictures | `Write`, `Send` | what is replayed can be decoded and is current |
| Packet queue | `av/pack.go`, `protocol/rtmp/writer.go`, `protocol/httpflv/writer.go`, `hls/source.go` | Go channel, `closed`, `mu` | `Write`, `SendPacket`, `Close`, `DropNPacket` | lossy FIFO; never blocks the publisher; no send on a closed channel |
| HLS source | `protocol/hls/` | segment buffer, status, audio cache, `TSCache`, sequence number | `SendPacket`, `cut`, `GenM3U8File`, `GetItem` | segments divide the stream; durations and playlists are true |
| Audio clock | `protocol/hls/align.go` | `frameNum`, `frameBase` | `align` | no drift |
| Codec parsers | `protocol/hls/parser/` | parameter sets, AAC configuration | `Parse` | nothing of a picture lost; IDR pictures have parameter sets |
| TS muxer | `container/ts/` | continuity counters | `Mux`, `PAT`, `PMT` | a demuxer has every byte, in order, with unbroken counters and true times |
| FLV | `container/flv/`, `amf/metadata.go` | file position | reader, writer, `MetaDataReform`, tag headers | what is written is read back, up to where a file is cut |
| RTMP chunks | `protocol/rtmp/core/{chunk_stream,conn,read_writer}.go` | chunk streams, chunk sizes, acknowledgement counters | `Read`, `Write` | what one side writes the other reads, whatever is interleaved |
| RTMP sessions | `protocol/rtmp/core/{handshake,conn_server,conn_client}.go` | stage of the command exchange | `ReadInitMsg`, `Start` | both ends agree on role, app and stream; neither waits for ever; each notices the end of the other |
| Client | `client/client.go` | `pulling`, `inPublication`, `players` | `PullStart`, `PushStart`, `AddPlayer`, `DelPlayer` | a player's frames are consecutive; nothing is left behind after the context is done |
| AMF | `protocol/amf/` | AMF3 reference tables | encoders, decoders, `MetaDataReform` | decode inverts encode |
| Utilities | `main.go`, `cmd/`, `utils/` | none | flags, CORS | |

How they interact.  `handleConn` runs a goroutine per RTMP connection.  A
publisher's goroutine runs `PushStart`: it reads a packet, writes it to its own
`Cache`, and calls `Write` on each player of the `players` map.  A player's
goroutine runs `SendPacket`, which takes packets from that player's queue.  The
queue is the only thing they share, apart from the map.  Before that, the goroutine
goes through the handshake and the command exchange with the other end, each with
a write buffer that must be flushed before it waits.  The `hls.Source` is a
player like the others, with a goroutine of its own; HTTP requests read its
`TSCache` under a lock.  `Channel.mu` orders the entry and exit of `PushStart`,
`AddPlayer` and `Close`, and nothing else: the fan-out, `DelPlayer` and the
`Close` of a writer run beside it.

What is hard.  Goroutines interleave between the lock, the concurrent map and the
queues; a publisher may fail at any packet; players leave at any time and are
only noticed when a `Write` fails; the queue drops packets under the receiver's
hands; players join in the middle of a fan-out; audio is delayed across a segment
boundary; segments are evicted while players hold a playlist; a connection breaks or
its other end falls silent or closes at any stage.  `hazards` of
`PROJECT.json` lists each at its line, with the properties that cover it or the
reason why none does.

## 2. Modules

    LossyFifo            what a packet queue promises
    PacketQueue          the queue of the three writers      --implements--> LossyFifo
      PacketQueueProofs
    Cache                kinds of packet, cache/ as operators
      CacheLemmas        lemmas about its operators: types, the group it holds
      GopCache           one publication's cache as a state machine
        GopCacheProofs
      Audience           what a channel promises the writers that join it
      Channel            server/channel.go with the goroutines around it
        ChannelProofs                                          --implements--> Audience
    HlsSource            segments, TSCache and playlists
      HlsSourceProofs
    AudioAlign           align.go
    AnnexB               parser/h264, one frame after another
    AckWindow            acknowledgements of rtmp/core/conn.go
      ChunkStream        rtmp/core/chunk_stream.go and conn.go
        ChunkStreamProofs                                      --implements--> AckWindow
    RtmpSession          handshake and command exchange of two ends
      Client             client/client.go on a session; also extends Cache
        ClientProofs
    TsMuxer              container/ts, and a demuxer
    AmfPrimitives        integers, strings and string tables of protocol/amf
      Amf                values, objects and messages of protocol/amf
    Flv                  container/flv and amf/metadata.go
      Formats            one behaviour of TsMuxer, Amf or Flv
      MediaProofs        AudioAlign, AnnexB, TsMuxer, Flv and AmfPrimitives

`Channel` composes `Cache` (each `PushStart` has a cache) with the players, whose
queues it keeps as lengths only: what happens inside a queue is `PacketQueue`'s
subject, and the fact `Channel` relies on, that `Write` always returns, is
`WriteReturns` there.  `Client` composes `RtmpSession` (both ends) with `Cache` and
the two goroutines of the client: what the server's player goroutine sends is read
by `PullStart`, what `PushStart` sends by the server's publisher.

### PacketQueue

State: the Go channel as a sequence of packet numbers, `closed`, the holder of
`mu`, where each producer is in `Write` (`idle`, `try` at the `select`, `drop` in
`DropNPacket`), `n` of `DropNPacket`, where the sender is.  Each receive of the
drop loop is a step, as is each receive of `SendPacket`: the mutex does not order
them.  `SenderClose` is the deferred `Close` of the goroutine that sends.
`rtmp.Writer`, `HttpFlvWriter` and `hls.Source` differ in the capacity (`Cap`), in
whether a context can end the sending (`Cancelled`), and in what sending does
(`Sent`, `SendFailed`).  History: `accepted`, `delivered`, `lost`.

### Cache and GopCache

A packet is its kind (metadata, AAC or AVC sequence header, other audio, key
frame, other video) and a number.  `ArrayWrite` keeps the order of the tests of
`array.write`: the size first, so that a full array refuses key frames too.  `GopCache`
writes every sequence of kinds and keeps the headers and frames as history.

### Channel

Threads are publishers and administrators (the embedding program's calls of
`Close` and `DelPlayer`); players are RTMP connections and HTTP requests; sources
are the successive `hls.Source` values of the goroutine of `InitHlsPlayer`.  A
critical section of `c.mu` with no map iteration in it is one step.  The deferred
function of `PushStart` and `Close` hold `mu` over several steps, because
`kickAllPlayers` deletes and closes the players one by one (`Kick`, `KickClose`)
while `DelPlayer`, handlers and the other writers go on.  `players.Range` visits
what was in the map when it began and is still there, and may or may not visit
what is added meanwhile.  `chClosed` is in the model, and every test of it; no
action sets it because no line of the code does.

The video frames of a publication are numbered so that `NoGap` can speak of
them; metadata, headers and audio carry no number of their own.

`Audience` is the channel without locks, threads and callbacks: publications begin and
end, a writer is new, a member, leaving (taken out while a callback writes to it), out or closed,
and frames are fed.  `Status`, `Publisher`, `Sent` and `Fed` are how `Channel` is seen as one.

### HlsSource

`Key`, `Inter`, `Audio` and `Skip` are what `SendPacket` does with a packet, from
the demuxer to the muxer.  A segment is the sequence of what was muxed into it.
`Key` contains `cut`: flush the audio cache, push the segment, start the next
with the tables, then mux the frame.  `Renew` is the new source of
`InitHlsPlayer`; `Fetch` is a player's request of the playlist.  Segment names are
`genTsNameFunc`'s: the default is the time in microseconds, taken to be different
for each segment.

### AudioAlign

`align` with the time predicted for the next frame (`EstPts`); `inc` is the number
of ticks per frame the parser's sample rate gives.  `EvenlySpaced` does not look at
`frameNum` and `frameBase` but at the times that were given before (`out`), so that it sees
a frame that is counted twice when the base is set again.

### AnnexB

A frame (`nalus`) is a sequence of NAL unit types; each turn of the loop of `getAnnexbH264`
is a step.  The types are those the switch tells apart; `"partition"` is any it has no case
for, data partitions (2 to 4) among them, which are dropped: the slices of `SlicesKept` are
types 1 and 5.  `specificInfo` and `pps` are sequences of the sets they hold, `bwriter` is what
was written for the frame: units with their place in it, and sets with the number of their
sequence header.  The properties are about the places that units of some types have in
`bwriter` (`Places`) and the order in which they stand there (`InOrder`).

### ChunkStream and AckWindow

One direction of a connection.  The wire is a sequence of chunks: the fields of
the header with the format, the extended timestamp if there is one, and payload.
`ReadNextChunk` is a turn of the loop of `Conn.Read`; with the last chunk of a
message it does what follows the loop, `handleControlMsg` and `ack`
(`ReadEnd` of `AckWindow`, which `ChunkStream` extends).  The reader takes from the wire what
it expects by its own state (chunk size, remaining length, whether the time was
extended), and when that is not what the chunk has, it is out of step.

`sender` says who writes.  `"livelib"` is `Conn.Write`: whole messages, a full
header, then format 3.  `"other"` is an RTMP sender that is not in the
repository: it leaves out header fields that are as before (formats 1 to 3),
sends chunks of different chunk streams in turn, and may or may not repeat the
time of a message in its further chunks.  What format 3 means at the beginning of
a message after a full header, and that what is repeated is the message's own
time, are taken from the reader.  Audio is chunk stream 4, video and metadata 6,
control messages 2; commands, on 3, are like those.

Lengths are in units of four bytes and small numbers stand for `0xffffff`
(`Ext`), 2^32 (`TsMod`, `Mod`) and `0xf0000000` (`High`).

### RtmpSession

Two sequences of messages, `up` and `down`, and a write buffer at each end.
`Flush` moves the buffer to the wire with what is sent; the three control
messages of `connectResp` and C2 stay in it until then.  `client.pc` is the stage of
`ConnClient.Start`, `server.pc` that of `handleConn`: handshake, `ReadInitMsg`,
`authFunc`, then publisher or player.  A command is its name, transaction number,
one argument (app, stream name or status code) and the stream id: what
`readRespMsg`, `connect`, `createStream` and `publishOrPlay` look at.
`Response` is what `readRespMsg` makes of one for each command it waits for.
`pair` says which ends are livelib; the other may be any RTMP program, which sends
messages from a small set, in any order, and closes when it likes.  `Break` is the
end of the connection at any moment, `ClientDeadline` and `ServerDeadline` the
deadlines of the handshake.  `panicked` is the client after the `io.EOF` that
`readRespMsg` lets through: it uses the nil message.

Messages arrive whole and in order (TCP, and `ChunkStream`); a write never blocks,
which a few small commands do not; a connection whose other end has closed is at
its end of file, and one that is reset is `Break`.  A command with no values at
all, of which `handleCmdMsg` reads the first, is not sent.

### Client

`PullStart` reads, writes its cache and visits the players in turn.  The callback of `Range`
is not atomic: `Visit` loads the `packWriter` and tests `Inited`, each `Write` is a
`VisitWrite`, and the end of the callback is `VisitDone` (`Init`) or `VisitDrop` and `VisitClose`
(`Delete`, `Close`).  `AddPlayer`, `DelPlayer` and the players' own `Close` come between any
two of these steps, without a lock.  `AddPlayer` stores a new `packWriter` over the old:
`replaced` tells the callback that runs for the old one that its `Init` is on a `packWriter`
nobody will look at again, while its `Delete` takes the new one out.  `given` is the history of
what the `packWriter` stored last for a player wrote to it.  `frames` numbers the frames the
server sends; headers and audio carry the number of the frame before them.

`PushStart` and its goroutine share `queue`, with the
loss of `PacketQueue` in one step, since `LossPerWrite` and `FifoSpec` hold there.  `SrcRead` is the
test of the context, the read of the source and the `Write` in one step: they touch nothing else
that another goroutine reads, and a context that is done between them lets one packet more in.
There is one call of
`PushStart` in a behaviour, and `PullStart` is called again when it has returned but
never twice at the same time, which the unlocked flag `pulling` does not exclude.

### TsMuxer

A turn of the loop of `Mux` is a step: counter, header, adaptation field, PES
header, data.  Bytes are numbered from the beginning of the PES packet, so that the
state of the demuxer is how many it has and whether they were the next ones.  The
arithmetic of bytes (`% 256`) is the code's; where the payload begins is computed
once as the muxer writes (`PayloadStart`) and once as a demuxer reads, from the length of
the adaptation field (`PayloadAt(AdaptationLen)`).  `WriteTs` subtracts the largest
time, as the code does.  `TsMod` is 2^33.  The demuxer (`Counts`, `PayloadAt`) is
ISO/IEC 13818-1's and external.

### AmfPrimitives and Amf

A value is a kind and its content, a message a sequence of tokens: bytes where the
codec computes with them (markers, integers of 29 bits, lengths), and fields and
characters where it copies.  A string of 65536 characters (`Long`), one more than AMF0's 16
bits of length can say, stands for all that are too long.  `AmfPrimitives` has what the codec is built
from: the integers of 29 bits, the strings of both versions, and the numbers of AMF3 that
refer to a string sent before; `Amf` has values, traits, objects and whole messages.
The encoder is livelib's, or another that uses the reference tables
(`Known`, `EncodeDynamic`), which livelib's never does and its decoder must read.
Decoding is in the decoder's order, with its tables: `Then` is the early return of
an error.  One decoder lives as long as the connection, and reads one message after
another until an error, as `DecodeBatch` does.

### Flv

`FlvWrite` is `flv.Writer.Write` (`"file"`) or a turn of `HttpFlvWriter.SendPacket`
(`"http"`), which differ in what they do with a packet of no kind.  `FlvRead` is
`flv.Reader.Read`.  Metadata is the sequence of its AMF0 values, which
`MetaDataReform` looks at: `Reformable`, `Del`, `Add`.  A file may end anywhere
(`FlvBreak`): after the header that was begun, or within the last tag.  Packets come
from `rtmp.Reader` or `flv.Reader`, so that their headers were parsed and lengths fit
24 bits; nobody sends two `@setDataFrame`.

## 3. Runs

| run | what it shows | instance |
|---|---|---|
| `queue` | no send on a closed channel; at most `DropNum` packets lost per `Write`; implements `LossyFifo`; `Write` returns; after `Close` the sender drains and ends | 2 producers, 1 closer, capacity 3, drop 2, 6 packets |
| `gop_cache` | what is cached is one group, current until the array is full; the array fills with the first group of its length, and keeps it | capacity 3, 7 packets of all kinds |
| `channel_lifecycle` | one publisher; no accepted player forgotten; one live HLS source; implements `Audience`: a writer is of one publication, and out before the next begins | 2 publishers, 1 HTTP player, 2 sources, 1 administrator, 1 packet each |
| `channel_liveness` | the fan-out ends, the publisher releases the channel, players end, HLS joins | 1 publisher, 1 RTMP player, 2 sources, 1 administrator, 2 packets |
| `channel_stream` | the frames a player is given are consecutive from a key frame | 1 publisher, 2 players, 5 packets of 3 kinds, array of 2 |
| `channel_close` | expected to fail: `Close` does not close the channel | 2 publishers, 1 player, 1 administrator |
| `hls` | segments start with tables and a key frame, divide the stream, have true durations; the target duration covers, numbers are true, listed segments are served | 9 packets of 4 kinds, 3600 ms apart, which is the minimum of a segment, audio cache of 2, `TSCache` of 3, playlist of 2, 2 sources |
| `audio_align` | frames exactly one frame apart, until that is more than `Sync` from the input | times 0 to 24, `Sync` 2, 4 or 5 ticks per frame |
| `annexb` | slices kept in order, parameter sets before the first IDR slice | 2 frames of up to 3 units of the nine types, 2 headers |
| `chunk_stream` | what either sender writes `Read` returns, whole and in order; every byte acknowledged once, before a window of them is read | 3 messages of 0, 1 or 3 units, chunk size 1, then 2, 2 chunks unread, times around `Ext`, `TsMod` 14, counters of 8 values |
| `session` | the two ends never wait for each other; they agree on what `Start` set up; `Start` returns; handlers notice a client that is silent or gone; a puller's players are given consecutive frames; a push ends with its context and leaves no goroutine | livelib at both ends or one, 5 messages of the other program, 1 player that comes and goes, 4 packets of 2 kinds, array of 2, 2 calls of `PullStart`, queue of 1 |
| `formats` | a demuxer recovers every frame; AMF values are read as they were meant; an FLV file is read back, and but for its last packet when it is cut | 2 frames or tables of 16 lengths and 3 times; 18 values of AMF0 and 30 of AMF3, 2 to a behaviour; 3 packets of 22 |

Why the bounds are enough.  A drop takes several receives and leaves a queue that
is neither full nor empty: capacity 3 and drop 2 give both, and 6 packets fill the
queue twice.  A second `DropPacket` in one `Write` would need the queue to fill
while the mutex is held, which the runs would show.  The array of `gop_cache` is
filled, by the first group or by one that comes after a shorter one, and then offered as many packets again.
Every race of the channel is
between at most a leaving publisher, a coming one, one player and one
administrator; the HLS goroutine needs two sources to replace one.  With one packet to a
publication `channel_lifecycle` says nothing of the order in which frames are fed, for which
there are `channel_stream` and the proofs of `NoGap` and of `Audience`.  In
`channel_stream` a third player would repeat the second, and five packets fill the
array and go past it.  In `hls` a push takes a key frame, one more packet and the next key frame: nine packets
make four pushes, of which the last evicts from a `TSCache` of three while a player may hold an
older playlist, and fewer pushes leave packets for audio across the cuts.  `Duration` is the step between
packets, so that two packets meet the minimum exactly; 3600 ms round up.  Three messages let a
header be compressed twice against what came before, or two messages be
interleaved around a change of the chunk size; the sender may be two chunks
ahead, which is enough for it to use a size the reader has not heard of.  Nine
units wrap counters of 8 values.  Five messages (C0 and C1, C2, `connect`,
`createStream`, `play`) take another client through the
whole exchange or any shuffle of it, and four packets fill the array of the puller's
cache, go past it, and leave the player with the gap that a full array makes; audio and headers in a fan-out are
`channel_stream`'s, where `cache.Send` is the same; players
of `PullStart` share nothing but the packet that is offered to them in turn, and the
proof is for any number of them.  The lengths of frames are those at which the muxer changes its
ways: a PES header of 14 or 19 bytes, with or without the 8 bytes of the PCR, that
leaves nothing, one byte or two of a TS packet to stuff, and the 16 bits of the PES
length; 65530 bytes take 357 turns and wrap the counters 22 times.  The integers of AMF
are those on both sides of each change of length, and the second message of a
behaviour meets the tables of the first.  `CHECK_DEADLOCK
FALSE` is there because every system here stops: publishers end, the bounds on packets are
reached, and a player nobody feeds waits.

Constants that differ from the code, most of them smaller: `Duration` (3000 ms), `Cap` (512 and 1024), `DropNum`
(128), `MaxGOPCap` (1024), `MaxFrames` (6), `MaxTSCacheNum` (5), `PlaylistLen` (3),
`Sync` (180 ticks), `QueueCap` (1024), `TsMod` (2^33), `Low` and `High` of FLV
(2^24 and 2^8).  Nothing but their order and their being positive matters;
the proofs take them as parameters.

Each property has a mutant in `PROJECT.json`: a definition marked `Faulty:`
next to the one it replaces, with which TLC finds the property violated.

### Fairness

`PacketQueue`: a producer inside `Write` and a sender that can go on do so (weak
fairness: the Go scheduler runs every runnable goroutine); the deferred `Close` of
the sender gets the mutex although others take it again and again (strong
fairness: `sync.RWMutex` is handed to a waiter that starves).  Nobody is obliged
to call `Write` or `Close`.

`Channel`: the same for each goroutine.  The steps of the publisher that need
`c.mu` only need weak fairness, because others take the mutex a bounded number of
times.  `Read` has none: a publisher may stay connected and send nothing.
`DelPlayer` and `Close` are never forced.  A send to a player's connection that
blocks for ever is excluded: `SendReceive` is one step that succeeds or fails.
`HlsRenew` and `HlsAdd` are fair, so the polling loop runs on.

`Client`: weak fairness of each goroutine of livelib: `ConnClientStart` (a client in
`Start`), `handleConn` (the server's), the source goroutine of `PushStart` and its
`SendPacket`; and of the two deadlines, whose timers expire.  `src.Read` returns: a
source that blocks for ever would hold its goroutine, whatever the context says.  Nobody is obliged
to call, to cancel or to close, another program to send, or the connection to
break; `Auth` decides either way.

## 4. Proofs

All theorems are `Spec => ...` for arbitrary constants under the named
assumptions of the modules (positive capacities, disjoint names, times and lengths
of the ranges the code gives them).  The bounds of the runs, such as `MaxPackets`,
are any natural number.  An invariant is in each case the
conjunction of named parts, and a step preserves it action by action.

* `PacketQueueProofs`: `IndInv` adds to the properties that the holder of `mu` is
  the producer inside `Write` (`LockInv`) and that inside `Write` either nothing was lost yet
  or there is room (`DropInv`); without the second, `LossPerWrite` is not
  inductive, since a `Write` that had dropped and found the queue full again
  would drop again.  The refinement maps `DropReceive` to `Lose`, `Receive` to
  `Get`, `WriteEnqueue` to `Put` and the rest to stuttering or `Close`; it needs
  `NoSendOnClosed`, since `Lose` and `Put` are forbidden after `Close`.
* `GopCacheProofs`: `IndInv` adds that an array that is not complete is empty and
  that the caches hold the newest headers.  The witness of "one run of frames" is
  carried by `CachedFrom`.  `FirstLongGroupStays` is inductive with `GopIsCurrent`: while the array is
  not full it holds what there is of the newest group, so that a group fills it at the frame that
  makes it long enough and not before.
* `ChannelProofs`: `IndInv` adds that `mu` is held exactly by the thread in
  `kickAllPlayers` (`LockInv`), that callbacks have a writer (`CurInv`), and the
  order of the sources (`HlsInv`).  `NoPlayerWithoutPublisher` needs
  `SinglePublisher` and `LockInv`: players are only added under the lock, so none
  comes between the end of the kick and `inPublication = FALSE`.

  `NoGap` has a second invariant on top, `StreamInv`.  The cache holds a group that
  ends at the last packet (`GroupInv`); `Range` visits only writers that were
  admitted, each once (`VisitInv`, `OnceInv`); and every open writer that was sent the cache has
  the frames up to the last packet, or up to the one before while it is still to
  be visited for that one (`FreshInv`).  While the writer in turn is written to, the rest of
  what it is to get goes on from what it has (`GivenInv`).  It holds of a writer that was sent the cache only because
  what `Send` writes ends at the packet that is offered, which is in the cache already: the order of
  `cache.Write` and the fan-out in `PushStart` is what the proof turns on.

  `ChannelServesAudience` is the refinement `Spec => AudienceSpec`.  The critical sections of `PushStart` are
  `Begin` and `End`, a step that takes a writer out of the map, closes or adds one is `Remove`, `Close` or `Join` if the
  writer was not closed before, and a `Write` is `Feed`.  `End` needs `SinglePublisher` and `LockInv`; `Join` needs
  `OnceInv`; `Feed` needs the step of `NoGap` and that what is cached was read (`ReadInv`).  Every other step
  leaves alone what decides a writer's status (`SameFor`).
* `HlsSourceProofs`: none of the six properties is inductive.  `IInv` says that the segment
  being written and the audio held back are together one run of packets from a
  key frame to the last packet taken (`WritingOK`), that the cached segments are such runs, each
  beginning where the one before ended, with numbers and durations that agree (`CacheOK`),
  and how a playlist fetched some segments ago lies to the cache now (`PlaylistOK`).
  `SegmentsDivideStream` follows because runs that follow each other cannot share a packet or leave one
  out.  `TargetCovers` needs that some of finitely many durations is the greatest, an induction over
  their number (`GreatestNumber`): the least number without one has none, by the library's
  theorem that the order of the natural numbers is well-founded.
* `ChunkStreamProofs`: what is on the wire makes sense only from the state the reader will be in
  when it comes to it.  `ConnInv` therefore states that there is a path: a sequence of reader states along the wire,
  the first the present one, each the result of taking one more chunk for exactly
  what it is, the last in agreement with the sender (`Follows`, `CaughtUp`).  Reading moves to the second state
  of the path, sending prolongs it; `InStep`, `Intact` and `AllArrive` are read off it.
  `ReadsAreAcknowledged` is a refinement, `Spec => AckSpec`: a turn of the loop of `Conn.Read` is a read of
  `AckWindow` when it completes a message, and a stutter otherwise.  `AllAccounted` and `AckInTime`
  are proved of `AckSpec` and so hold of connections.  That proof needs the assumption
  that a window and one more message stay below `High`, so that what is pending never
  overflows and never meets the case in which `ack` starts to count again.
* `ClientProofs`: the two ends of a session are at one of fourteen stages (`Connecting`, `Creating`,
  `Streaming`), and each stage fixes the write buffers, both directions of the wire and
  what the server knows; the end that is not to move may have closed.  `NoMutualWait` holds because in every
  stage one end has something to read or to write; `StartAgrees` because the stage after the
  last response fixes the fields of the server too.
  On top of it, the packets on the wire are numbered on from the last that `PullStart`
  read to the last that was sent, and come after the responses (`DownInv`); the puller's cache
  holds a group that ends at what was read, and each player has the frames up to
  that, or up to the one before while it is still to be visited (`PullInv`).  The player whose callback
  runs is apart (`Served`): what it has and what is still to be written to it are together such
  frames (`Due`), which every `VisitWrite` keeps and `VisitDone` needs.  When it is added again in the
  middle its new `packWriter` has written nothing (`CallInv`), and is not visited before the callback ends.
  What else differs from `Channel`'s is that nothing is locked, that a player may be deleted and written to
  still, and that a new call of `PullStart` has a new cache while its players stay.
* `MediaProofs`.  Audio: `frameBase + (frameNum - 1) * inc` is the last output while the rate is the
  same (`PredictsNext`), which makes what `align` compares with the input one frame after it
  (`EvenlySpaced`); how far a time can go back follows from that and from `NearInput`, the branch that `align` takes.

  TS: `TsInd` says how much is left (`Progress`): the bytes not yet
  written are what the PES header and the data have left, the header is whole until the
  first turn and gone after it, and the demuxer has the rest.  `TurnProgress` is
  the arithmetic of one turn: header and data fill the 188 bytes exactly.
  `Counters` has the two conventions of counting, before the packet for frames and
  after it for tables.  `ClockLemma` needs `ModLemma`, that adding a divisor does not
  change a remainder, which the solver does not know for a divisor that is no number.

  FLV: `FlvInv` says which packets a file can hold, that the reader has read a part of them that has
  none that would end it, and that it ended only where there is one, at the cut or at the
  end.  Where a reader ends is therefore unique, and `FlvRoundTrip`, which states what it has by the first
  place where it must end, follows.

  H.264: `H264Inv` adds to the two properties what the loop has done up to `index`.  `UnitsCopied` says that the
  units to copy that it came past are written, each once and in order, after one delimiter.
  `SetsRead` says that `pps` holds the sets it came past, and that `hasSpsPps` tells whether there are
  any, since `Parameters` chooses by it.  `SetsWritten` says that there are no sets in what is written
  as long as there was no IDR slice, and that from then on they stand right before it and are
  those there were when it came (`Led`), whatever the loop has met since.  `HeadersInOrder` puts the newest header last.
  Both properties are `H264Inv` read at the end of the frame.

  AMF: no specification but the operators of encoder and decoder, for any state of their
  tables and any message that follows.  `Uint29ReadBack` treats the four lengths
  one by one, with division and remainder unfolded.  What is read after some tokens is what was there
  (`AfterPrefix`), which is what strings need to be read back one after another.  `String3ReadBack` says that a
  string is read back whether it is sent or referred to, and that the tables of the two ends are then
  equal again, so that the next number refers to the same string at both.  It holds while the table is small
  enough for its numbers to fit 29 bits.  An empty string must not be the end of the message (section 5).

  TS, FLV and H.264 are about the specifications `TsSpec`, `FlvSpec` and `H264Spec`; a behaviour of the
  run `formats` is a behaviour of `TsSpec`, of `FlvSpec` or of `Amf`'s.

Proved and no property of a run, since they follow from what is or are near to the
assignments: `PlayersOnlyWhilePublishing`, `QueueHoldsNewestRun`, `DeliveryInOrder`, `SendReplaysHeadersAndGop`,
`ChannelTypes`, `AudioStepsBackLittle`, and of the primitives of AMF
`Uint29ReadBack`, `String0ReadBack` and `String3ReadBack`.  The inductive invariants
are theorems of their own (`...Invariant`).

Only model-checked:

* `AmfRoundTrip`: what encoder and decoder of `Amf` do with values is `RECURSIVE`, as the data is, and a proof
  about every value would take induction over values.  What they do with integers and strings is
  proved, on `AmfPrimitives`.
* Everything about liveness, which rests on fairness and so on `ENABLED`: `WriteReturns`, the drain of a closed
  queue, the temporal properties of `channel_liveness`, `StartReturns`, `HandlerNotices` and `PushStops`.

The theorems of the library that state induction take an operator as a parameter, which the
provers cannot instantiate.  Apart from `GreatestNumber`, which argues with a set of counterexamples in
its place, all induction here is over the steps of a behaviour, with a history or a path as the witness.

## 5. What the checks found

`Channel.Close` tests `c.closed` and never sets it (`channel.go:131`).  All
`ErrClosed` branches of `PushStart`, `AddPlayer` and `Close` are dead; after
`Close`, players join and the publisher goes on.  `channel_close` shows it.

Behaviour that the properties had to be stated around, all of it the code's:

* A full GOP array ignores key frames too (`FirstLongGroupStays`, and the third case of
  `NoGap`): from then on a player that joins is first sent an old group.
* A player that joins before the first key frame starts in the middle of a group
  (second case of `NoGap`).
* `DropPacket` takes the oldest packets whatever they are, sequence headers and
  key frames included, so `NoGap` is about what is enqueued, not what is sent.
* A player that `AddPlayer` of the client stores again in its own callback is written what is left of that
  callback and then the whole cached group, so that it gets frames twice; if a `Write` of the callback
  fails, `Delete` takes the new `packWriter` out (`PullNoGap`, which is about one `packWriter`).  A player
  that is deleted in its callback is written the rest of it.
* An acknowledgement is written in time (`AckInTime`), but stays in the write buffer of a connection that
  only reads until something else is flushed, and chunk headers are not counted in it.
* Slices in data partitions (NAL types 2 to 4) are dropped (`SlicesKept`).
* The first `IDR` slice is preceded by the sets of all sequence headers so far,
  which are never forgotten; the newest is last.
* Parameter sets in a frame that come after its first IDR slice, or in a frame without
  one, are dropped.
* The duration of a segment leaves out the time from its last packet to the next
  segment.
* A new `hls.Source` restarts the sequence numbers and forgets the segments.
* An RTMP player that `AddPlayer` refuses waits for ever.
* `readNextChunk` reads the id of a chunk stream above 63 only the first time that
  the first byte says there is one; the model has ids of one byte.
* Whether a further chunk repeats an extended time is guessed from four bytes; the
  model has no payload that looks like the time, and none shorter.
* With a window of `0xf0000000` or more, `ack` forgets that many bytes.
* Object references of AMF3 are halved twice (`decoder_amf3.go:213`, `:263`) and refer to nil for
  objects; the tables of a connection's decoder are never emptied, so that references
  of its second message are to entries of the first; integers from 2^28 on are encoded
  as positive and decoded as negative; keys of AMF0 objects are cut to 16 bits of length;
  an empty string at the end of a message is an `io.EOF` (`util.go:33`) and is lost with
  the value it ends.  `Lossless`, `EndsEmpty`, and `amf.no = 1` in `AmfRoundTrip` say so.
* A key frame that fits one TS packet and leaves some of it is stuffed after the PCR,
  and the length of the adaptation field does not count it (`Misplaced`); a PTS or DTS
  past 33 bits is one tick late (`Clocks`).
* Metadata that names no event after its `@setDataFrame` is written and ends the reader
  (`FlvRoundTrip`); metadata that does not begin with a string ends a writer.
* `Start` loops for ever in `writeCreateStreamMsg` when the connection breaks there,
  and panics when the server closes while it waits for a response (`StartReturns`).
* The client has its success before `authFunc` is asked, so that the server may be
  closed when `Start` returns (`StartAgrees`).
* The handler of an RTMP player whose client is gone ends with the next packet and not
  before (`HandlerNotices`).
* `PushStart` of the client returns at the end of its source only if its context is
  done (`PushStops`); players of `PullStart` are not closed when it returns.

## 6. Not modelled

* The digests of the handshake: cryptography.  Whether a C1 is valid is a Boolean.
* Bits of headers that decide nothing: ADTS, the tables and checksum of PAT and PMT, FLV
  tag headers, but for what they say of a packet's kind.
* The external AMF3 classes DSA and DSK, and AMF0's references, which the decoder
  refuses.
* Chunk stream ids of two and three bytes, and payload shorter than four bytes
  after an extended time: there `Conn.Read` falls out of step (section 5), and the
  properties of `ChunkStream` are stated for the streams without them.
* When an acknowledgement reaches the other side: `AckWindow` ends at the write buffer, and
  `RtmpSession`, which has the buffers, sends none.
* AMF messages that end in the middle of a value.  Where the AMF3 decoder reads fewer bytes
  than a length says it goes on with zeros, `ReadBytes` fails.
* Two simultaneous calls of the client's `PullStart` or `PushStart`.
* `Serve`, flags, routing, CORS, PNG wrapping and bandwidth statistics
  (`SaveStatics`), on which no behaviour depends.

What would come next: the values of `AmfRoundTrip` by induction, from the three theorems about their
parts, with a prover that has it; `Channel` on a connection whose packets are lost by `LossyFifo`, to
state what a player receives and not only what it is given; and a statement of `StartAgrees` for one end
of livelib and another program that keeps to the protocol.
