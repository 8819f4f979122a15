------------------------------- MODULE Channel -------------------------------
(***************************************************************************)
(* One server.Channel and the goroutines that use it: the RTMP connections *)
(* that publish (PushStart), the RTMP and HTTP-FLV players that join       *)
(* (AddPlayer, SendPacket), the goroutine InitHlsPlayer starts, and the    *)
(* embedding program's calls of Close and DelPlayer.                       *)
(*                                                                         *)
(* Channel.mu orders PushStart's entry and exit, AddPlayer and Close.  The *)
(* players map is an rwmap: its operations are atomic one by one and take  *)
(* no part in that lock, so the fan-out of PushStart, DelPlayer and a      *)
(* player's own Close interleave.  A writer's queue is the PacketQueue     *)
(* module's; here only its length counts.                                  *)
(***************************************************************************)
EXTENDS Cache

CONSTANTS
    Publishers,   \* RTMP connections that publish, one PushStart each
    RtmpPlayers,  \* RTMP connections that play
    HttpPlayers,  \* HTTP requests for the .flv of the channel
    MaxSources,   \* bound on the hls.Source values created, 0 for no HLS
    Admins,       \* goroutines of the embedding program
    StreamKinds,  \* kinds of packet the publishers send
    QueueCap,     \* capacity of a writer's packetQueue
    MaxPackets    \* bound on the packets of one publication

Players == RtmpPlayers \cup HttpPlayers
Sources == 1..MaxSources
Writers == Players \cup Sources
Threads == Publishers \cup Admins

Free == "free"
NoWriter == 0  \* a nil pointer

ASSUME ChannelAssumption ==
    /\ MaxSources \in Nat
    /\ QueueCap \in Nat \ {0}
    /\ MaxPackets \in Nat
    /\ StreamKinds \subseteq Kinds
    /\ Publishers \cap Admins = {}
    /\ RtmpPlayers \cap HttpPlayers = {}
    /\ Players \cap Sources = {}
    /\ Free \notin Threads
    /\ NoWriter \notin Writers

VARIABLES
    inPublication,  \* c.inPublication
    chClosed,       \* c.closed
    mu,             \* writer of c.mu: a thread in kickAllPlayers, or Free
    players,        \* keys of c.players
    inited,         \* writers whose packWriter has init set
    pc,             \* where each thread is
    cur,            \* the writer w of the callback a thread is in
    pkt,            \* PushStart: the packet p just read
    cache,          \* PushStart: its cache
    todo,           \* PushStart: packets still to write to cur
    toVisit,        \* PushStart: players its Range has still to visit
    count,          \* PushStart: packets read so far
    queued,         \* length of each writer's packetQueue
    wClosed,        \* each writer's closed flag
    handler,        \* where each player's handler is
    hlsPc,          \* where the goroutine of InitHlsPlayer is
    hlsWriter,      \* c.hlsWriter, also that goroutine's p
    admitted,       \* history: writers that AddPlayer accepted
    lastFrame       \* history: last video frame enqueued to each writer

chanVars == <<inPublication, chClosed, mu, players>>
pushVars == <<inited, pkt, cache, todo, count>>
threadVars == <<pc, cur>>
writerVars == <<queued, wClosed>>
hlsVars == <<hlsPc, hlsWriter>>
history == <<admitted, lastFrame>>

vars == <<chanVars, pushVars, toVisit, threadVars, writerVars, handler, hlsVars,
          history>>

Init ==
    /\ inPublication = FALSE
    /\ chClosed = FALSE
    /\ mu = Free
    /\ players = {}
    /\ inited = {}
    /\ pc = [t \in Threads |-> "idle"]
    /\ cur = [t \in Threads |-> NoWriter]
    /\ pkt = [p \in Publishers |-> NoPacket]
    /\ cache = [p \in Publishers |-> NewCache]
    /\ todo = [p \in Publishers |-> <<>>]
    /\ toVisit = {}
    /\ count = [p \in Publishers |-> 0]
    /\ queued = [w \in Writers |-> 0]
    /\ wClosed = [w \in Writers |-> FALSE]
    /\ handler = [w \in Players |-> "idle"]
    /\ hlsPc = "off"
    /\ hlsWriter = NoWriter
    /\ admitted = {}
    /\ lastFrame = [w \in Writers |-> NoPacket]

Goto(t, l) == pc' = [pc EXCEPT ![t] = l]

CloseWriter(w) == wClosed' = [wClosed EXCEPT ![w] = TRUE]

-----------------------------------------------------------------------------
(* PushStart *)
\* Faulty: inPublication is set without being tested.
PushStart_NoTest(p) ==
    /\ pc[p] = "idle"
    /\ mu = Free
    /\ Goto(p, "top")
    /\ inPublication' = TRUE
    /\ UNCHANGED <<chClosed, mu, players, pushVars, toVisit, cur, writerVars,
                   handler, hlsVars, history>>

\* The critical section at entry; a refused publisher's handler just returns.
PushStart(p) ==
    /\ pc[p] = "idle"
    /\ mu = Free
    /\ IF chClosed \/ inPublication
         THEN Goto(p, "done") /\ UNCHANGED inPublication
         ELSE Goto(p, "top") /\ inPublication' = TRUE
    /\ UNCHANGED <<chClosed, mu, players, pushVars, toVisit, cur, writerVars,
                   handler, hlsVars, history>>

\* if c.Closed() { return nil }, at the top of the loop
CheckClosed(p) ==
    /\ pc[p] = "top"
    /\ mu = Free
    /\ Goto(p, IF chClosed THEN "exit" ELSE "read")
    /\ UNCHANGED <<chanVars, pushVars, toVisit, cur, writerVars, handler, hlsVars,
                   history>>

\* pusher.Read() returns the next packet; video frames are numbered as they come.
Read(p, k) ==
    /\ pc[p] = "read"
    /\ count[p] < MaxPackets
    /\ count' = [count EXCEPT ![p] = @ + 1]
    /\ pkt' = [pkt EXCEPT ![p] = 
                 [kind |-> k,
                  no |-> pkt[p].no + (IF k \in FrameKinds THEN 1 ELSE 0)]]
    /\ Goto(p, "got")
    /\ UNCHANGED <<chanVars, inited, cache, todo, toVisit, cur, writerVars,
                   handler, hlsVars, history>>

\* ... or fails: the connection ended, or a tag did not parse.
ReadError(p) ==
    /\ pc[p] = "read"
    /\ Goto(p, "exit")
    /\ UNCHANGED <<chanVars, pushVars, toVisit, cur, writerVars, handler, hlsVars,
                   history>>

\* The second c.Closed(), cache.Write(p), and the start of players.Range.
CacheAndRange(p) ==
    /\ pc[p] = "got"
    /\ mu = Free
    /\ IF chClosed
         THEN Goto(p, "exit") /\ UNCHANGED <<cache, toVisit>>
         ELSE /\ cache' = [cache EXCEPT ![p] = CacheWrite(@, pkt[p])]
              /\ toVisit' = players
              /\ Goto(p, "range")
    /\ UNCHANGED <<chanVars, inited, pkt, todo, count, cur, writerVars, handler,
                   hlsVars, history>>

\* Faulty: a new player gets the packet again after the cache that holds it.
RangeNext_Twice(p, w) ==
    /\ pc[p] = "range"
    /\ w \in toVisit \cap players
    /\ toVisit' = toVisit \ {w}
    /\ cur' = [cur EXCEPT ![p] = w]
    /\ todo' = [todo EXCEPT ![p] =
                  (IF w \in inited THEN <<>> ELSE CacheSend(cache[p])) \o <<pkt[p]>>]
    /\ Goto(p, "write")
    /\ UNCHANGED <<chanVars, inited, pkt, cache, count, writerVars, handler,
                   hlsVars, history>>

\* The callback begins for w: a new player gets the cache, others the packet.
RangeNext(p, w) ==
    /\ pc[p] = "range"
    /\ w \in toVisit \cap players
    /\ toVisit' = toVisit \ {w}
    /\ cur' = [cur EXCEPT ![p] = w]
    /\ todo' = [todo EXCEPT ![p] =
                  IF w \in inited THEN <<pkt[p]>> ELSE CacheSend(cache[p])]
    /\ Goto(p, "write")
    /\ UNCHANGED <<chanVars, inited, pkt, cache, count, writerVars, handler,
                   hlsVars, history>>

\* Faulty: a writer that is closed is tried again.
WriteNext_Retries(p) ==
    /\ pc[p] = "write"
    /\ todo[p] # <<>>
    /\ ~wClosed[cur[p]]
    /\ todo' = [todo EXCEPT ![p] = Tail(@)]
    /\ \E l \in 1..QueueCap : queued' = [queued EXCEPT ![cur[p]] = l]
    /\ UNCHANGED <<chanVars, inited, pkt, cache, count, toVisit, threadVars, wClosed,
                   handler, hlsVars, history>>

\* One w.Write: it enqueues, dropping old packets from a full queue, or
\* returns av.ErrClosed.
WriteNext(p) ==
    LET w == cur[p]
        q == Head(todo[p])
    IN  /\ pc[p] = "write"
        /\ todo[p] # <<>>
        /\ IF wClosed[w]
             THEN /\ Goto(p, "drop")
                  /\ todo' = [todo EXCEPT ![p] = <<>>]
                  /\ UNCHANGED <<queued, lastFrame>>
             ELSE /\ todo' = [todo EXCEPT ![p] = Tail(@)]
                  /\ \E l \in 1..QueueCap :
                       /\ queued[w] < QueueCap => l = queued[w] + 1
                       /\ queued' = [queued EXCEPT ![w] = l]
                  /\ lastFrame' = IF IsFrame(q)
                                    THEN [lastFrame EXCEPT ![w] = q]
                                    ELSE lastFrame
                  /\ UNCHANGED pc
        /\ UNCHANGED <<chanVars, inited, pkt, cache, count, toVisit, cur, wClosed,
                       handler, hlsVars, admitted>>

\* Every packet was enqueued: player.Init() and the callback returns.
WriteDone(p) ==
    /\ pc[p] = "write"
    /\ todo[p] = <<>>
    /\ inited' = inited \cup {cur[p]}
    /\ cur' = [cur EXCEPT ![p] = NoWriter]
    /\ Goto(p, "range")
    /\ UNCHANGED <<chanVars, pkt, cache, todo, count, toVisit, writerVars,
                   handler, hlsVars, history>>

\* Write failed: c.players.Delete(w) ...
DropPlayer(p) ==
    /\ pc[p] = "drop"
    /\ players' = players \ {cur[p]}
    /\ Goto(p, "dropclose")
    /\ UNCHANGED <<inPublication, chClosed, mu, pushVars, toVisit, cur,
                   writerVars, handler, hlsVars, history>>

\* ... and Close; player.Init() where it was not set.
DropClose(p) ==
    /\ pc[p] = "dropclose"
    /\ CloseWriter(cur[p])
    /\ inited' = inited \cup {cur[p]}
    /\ cur' = [cur EXCEPT ![p] = NoWriter]
    /\ Goto(p, "range")
    /\ UNCHANGED <<chanVars, pkt, cache, todo, count, toVisit, queued, handler,
                   hlsVars, history>>

RangeEnd(p) ==
    /\ pc[p] = "range"
    /\ toVisit \cap players = {}
    /\ toVisit' = {}
    /\ Goto(p, "top")
    /\ UNCHANGED <<chanVars, pushVars, cur, writerVars, handler, hlsVars, history>>

\* Faulty: the deferred function clears inPublication before it kicks.
Exit_ClearsFirst(p) ==
    /\ pc[p] = "exit"
    /\ mu = Free
    /\ inPublication' = FALSE
    /\ Goto(p, "kick")
    /\ UNCHANGED <<chClosed, mu, players, pushVars, toVisit, cur, writerVars, handler,
                   hlsVars, history>>

\* The deferred function: it takes c.mu and holds it through kickAllPlayers.
Exit(p) ==
    /\ pc[p] = "exit"
    /\ mu = Free
    /\ mu' = p
    /\ Goto(p, "kick")
    /\ UNCHANGED <<inPublication, chClosed, players, pushVars, toVisit, cur,
                   writerVars, handler, hlsVars, history>>

-----------------------------------------------------------------------------
(* kickAllPlayers, run by PushStart on its way out and by Close *)

\* Range hands out w and the callback deletes it.
Kick(t, w) ==
    /\ pc[t] = "kick"
    /\ w \in players
    /\ players' = players \ {w}
    /\ cur' = [cur EXCEPT ![t] = w]
    /\ Goto(t, "kickclose")
    /\ UNCHANGED <<inPublication, chClosed, mu, pushVars, toVisit, writerVars,
                   handler, hlsVars, history>>

\* Faulty: kickAllPlayers deletes the players and closes none.
KickClose_NoClose(t) ==
    /\ pc[t] = "kickclose"
    /\ cur' = [cur EXCEPT ![t] = NoWriter]
    /\ Goto(t, "kick")
    /\ UNCHANGED <<chanVars, pushVars, toVisit, writerVars, handler, hlsVars, history>>

KickClose(t) ==
    /\ pc[t] = "kickclose"
    /\ CloseWriter(cur[t])
    /\ cur' = [cur EXCEPT ![t] = NoWriter]
    /\ Goto(t, "kick")
    /\ UNCHANGED <<chanVars, pushVars, toVisit, queued, handler, hlsVars, history>>

\* Faulty: the lock is not released.
KickDone_KeepsLock(t) ==
    /\ pc[t] = "kick"
    /\ players = {}
    /\ inPublication' = IF t \in Publishers THEN FALSE ELSE inPublication
    /\ Goto(t, IF t \in Publishers THEN "done" ELSE "closed")
    /\ UNCHANGED <<chClosed, mu, players, pushVars, toVisit, cur, writerVars, handler,
                   hlsVars, history>>

\* kickAllPlayers returns; PushStart clears inPublication; c.mu is unlocked.
KickDone(t) ==
    /\ pc[t] = "kick"
    /\ players = {}
    /\ inPublication' = IF t \in Publishers THEN FALSE ELSE inPublication
    /\ mu' = Free
    /\ Goto(t, IF t \in Publishers THEN "done" ELSE "closed")
    /\ UNCHANGED <<chClosed, players, pushVars, toVisit, cur, writerVars, handler,
                   hlsVars, history>>

-----------------------------------------------------------------------------
(* Close and DelPlayer, called by the embedding program *)

\* Close tests c.closed and never sets it.
Close(a) ==
    /\ pc[a] = "idle"
    /\ mu = Free
    /\ IF chClosed
         THEN Goto(a, "done") /\ UNCHANGED mu
         ELSE Goto(a, "kick") /\ mu' = a
    /\ UNCHANGED <<inPublication, chClosed, players, pushVars, toVisit, cur,
                   writerVars, handler, hlsVars, history>>

\* players.LoadAndDelete(w), without c.mu; the Close follows if w was there.
DelPlayer(a, w) ==
    /\ pc[a] = "idle"
    /\ players' = players \ {w}
    /\ IF w \in players
         THEN Goto(a, "delclose") /\ cur' = [cur EXCEPT ![a] = w]
         ELSE Goto(a, "done") /\ UNCHANGED cur
    /\ UNCHANGED <<inPublication, chClosed, mu, pushVars, toVisit, writerVars,
                   handler, hlsVars, history>>

DelClose(a) ==
    /\ pc[a] = "delclose"
    /\ CloseWriter(cur[a])
    /\ cur' = [cur EXCEPT ![a] = NoWriter]
    /\ Goto(a, "done")
    /\ UNCHANGED <<chanVars, pushVars, toVisit, queued, handler, hlsVars, history>>

-----------------------------------------------------------------------------
(* AddPlayer *)

AddPlayerOK(w) == ~chClosed /\ inPublication /\ w \notin players

\* The critical section.  A Range that runs meanwhile may or may not see w.
AddPlayer(w) ==
    /\ mu = Free
    /\ IF AddPlayerOK(w)
         THEN /\ players' = players \cup {w}
              /\ admitted' = admitted \cup {w}
              /\ \/ toVisit' = toVisit
                 \/ /\ \E p \in Publishers :
                         pc[p] \in {"range", "write", "drop", "dropclose"}
                    /\ toVisit' = toVisit \cup {w}
         ELSE UNCHANGED <<players, admitted, toVisit>>
    /\ UNCHANGED <<inPublication, chClosed, mu>>

-----------------------------------------------------------------------------
(* The handlers of the players *)

\* handleConn of a connection that plays: the error of AddPlayer is ignored.
RtmpPlay(w) ==
    /\ handler[w] = "idle"
    /\ AddPlayer(w)
    /\ handler' = [handler EXCEPT ![w] = "send"]
    /\ UNCHANGED <<pushVars, threadVars, writerVars, hlsVars, lastFrame>>

\* The .flv handler answers 404 and returns.
HttpPlay(w) ==
    /\ handler[w] = "idle"
    /\ AddPlayer(w)
    /\ handler' = [handler EXCEPT ![w] = IF AddPlayerOK(w) THEN "send" ELSE "close"]
    /\ UNCHANGED <<pushVars, threadVars, writerVars, hlsVars, lastFrame>>

\* SendPacket receives a packet and sends it, or fails and returns.
SendReceive(w) ==
    /\ handler[w] = "send"
    /\ queued[w] > 0
    /\ queued' = [queued EXCEPT ![w] = @ - 1]
    /\ \/ UNCHANGED handler
       \/ handler' = [handler EXCEPT ![w] = "close"]
    /\ UNCHANGED <<chanVars, pushVars, toVisit, threadVars, wClosed, hlsVars, history>>

\* SendPacket returns: the queue is closed and drained.
SendClosed(w) ==
    /\ handler[w] = "send"
    /\ queued[w] = 0
    /\ wClosed[w]
    /\ handler' = [handler EXCEPT ![w] = "close"]
    /\ UNCHANGED <<chanVars, pushVars, toVisit, threadVars, writerVars, hlsVars,
                   history>>

\* The HTTP request's context is done; an RTMP player has no such context.
SendCancelled(w) ==
    /\ handler[w] = "send"
    /\ handler' = [handler EXCEPT ![w] = "close"]
    /\ UNCHANGED <<chanVars, pushVars, toVisit, threadVars, writerVars, hlsVars,
                   history>>

\* The deferred Close of the handler.
HandlerClose(w) ==
    /\ handler[w] = "close"
    /\ CloseWriter(w)
    /\ handler' = [handler EXCEPT ![w] = "done"]
    /\ UNCHANGED <<chanVars, pushVars, toVisit, threadVars, queued, hlsVars, history>>

-----------------------------------------------------------------------------
(* The goroutine of InitHlsPlayer *)

\* hlsOnce: the first source is made and the goroutine starts.
HlsInit ==
    /\ hlsPc = "off"
    /\ MaxSources > 0
    /\ hlsWriter' = 1
    /\ hlsPc' = "add"
    /\ UNCHANGED <<chanVars, pushVars, toVisit, threadVars, writerVars, handler,
                   history>>

\* Faulty: the goroutine gives up on any error.
HlsAdd_GivesUp ==
    /\ hlsPc = "add"
    /\ AddPlayer(hlsWriter)
    /\ hlsPc' = IF AddPlayerOK(hlsWriter) THEN "send" ELSE "done"
    /\ UNCHANGED <<pushVars, threadVars, writerVars, handler, hlsWriter, lastFrame>>

\* AddPlayer(p): on ErrClosed close p and return; on any other error sleep or
\* yield, and try again.
HlsAdd ==
    /\ hlsPc = "add"
    /\ AddPlayer(hlsWriter)
    /\ IF chClosed
         THEN CloseWriter(hlsWriter) /\ hlsPc' = "done"
         ELSE /\ hlsPc' = IF AddPlayerOK(hlsWriter) THEN "send" ELSE "add"
              /\ UNCHANGED wClosed
    /\ UNCHANGED <<pushVars, threadVars, queued, handler, hlsWriter, lastFrame>>

\* Source.SendPacket handles a packet, or returns the demuxer's error.
HlsReceive ==
    /\ hlsPc = "send"
    /\ queued[hlsWriter] > 0
    /\ queued' = [queued EXCEPT ![hlsWriter] = @ - 1]
    /\ hlsPc' \in {"send", "close"}
    /\ UNCHANGED <<chanVars, pushVars, toVisit, threadVars, wClosed, handler,
                   hlsWriter, history>>

HlsClosed ==
    /\ hlsPc = "send"
    /\ queued[hlsWriter] = 0
    /\ wClosed[hlsWriter]
    /\ hlsPc' = "close"
    /\ UNCHANGED <<chanVars, pushVars, toVisit, threadVars, writerVars, handler,
                   hlsWriter, history>>

\* Faulty: the source is replaced without Close.
HlsClose_NoClose ==
    /\ hlsPc = "close"
    /\ hlsPc' = "renew"
    /\ UNCHANGED <<chanVars, pushVars, toVisit, threadVars, writerVars, handler,
                   hlsWriter, history>>

\* p.Close()
HlsClose ==
    /\ hlsPc = "close"
    /\ CloseWriter(hlsWriter)
    /\ hlsPc' = "renew"
    /\ UNCHANGED <<chanVars, pushVars, toVisit, threadVars, queued, handler,
                   hlsWriter, history>>

\* p = hls.NewSource(); c.hlsWriter.Store(p)
HlsRenew ==
    /\ hlsPc = "renew"
    /\ hlsWriter < MaxSources
    /\ hlsWriter' = hlsWriter + 1
    /\ hlsPc' = "add"
    /\ UNCHANGED <<chanVars, pushVars, toVisit, threadVars, writerVars, handler,
                   history>>

-----------------------------------------------------------------------------
Push(p) ==
    \/ PushStart(p) \/ CheckClosed(p)
    \/ \E k \in StreamKinds : Read(p, k)
    \/ ReadError(p) \/ CacheAndRange(p)
    \/ \E w \in Writers : RangeNext(p, w)
    \/ WriteNext(p) \/ WriteDone(p) \/ DropPlayer(p) \/ DropClose(p)
    \/ RangeEnd(p) \/ Exit(p)

KickAll(t) == (\E w \in Writers : Kick(t, w)) \/ KickClose(t) \/ KickDone(t)

Admin(a) ==
    \/ Close(a)
    \/ \E w \in Writers : DelPlayer(a, w)
    \/ DelClose(a)

Handle(w) == SendReceive(w) \/ SendClosed(w) \/ HandlerClose(w)

Hls == HlsInit \/ HlsAdd \/ HlsReceive \/ HlsClosed \/ HlsClose \/ HlsRenew

Next ==
    \/ \E p \in Publishers : Push(p)
    \/ \E t \in Threads : KickAll(t)
    \/ \E a \in Admins : Admin(a)
    \/ \E w \in RtmpPlayers : RtmpPlay(w)
    \/ \E w \in HttpPlayers : HttpPlay(w) \/ SendCancelled(w)
    \/ \E w \in Players : Handle(w)
    \/ Hls

Spec == Init /\ [][Next]_vars

\* A goroutine that can take a step is scheduled, and c.mu is handed on; a
\* network write ends or fails.  Nobody is obliged to publish, to play, to send
\* another packet, or to call Close or DelPlayer.
Fairness ==
    /\ \A p \in Publishers :
         /\ WF_vars(CheckClosed(p) \/ CacheAndRange(p) \/ Exit(p))
         /\ WF_vars(\/ \E w \in Writers : RangeNext(p, w)
                    \/ WriteNext(p) \/ WriteDone(p) \/ DropPlayer(p)
                    \/ DropClose(p) \/ RangeEnd(p))
    /\ \A t \in Threads : WF_vars(KickAll(t))
    /\ \A a \in Admins : WF_vars(DelClose(a))
    /\ \A w \in Players : WF_vars(Handle(w))
    /\ WF_vars(HlsAdd \/ HlsReceive \/ HlsClosed \/ HlsClose \/ HlsRenew)

FairSpec == Spec /\ Fairness

-----------------------------------------------------------------------------
(* Properties *)

PushLabels ==
    {"idle", "top", "read", "got", "range", "write", "drop", "dropclose", "exit",
     "kick", "kickclose", "done"}

AdminLabels == {"idle", "kick", "kickclose", "delclose", "closed", "done"}

TypeOK ==
    /\ inPublication \in BOOLEAN
    /\ chClosed = FALSE
    /\ mu \in Threads \cup {Free}
    /\ players \subseteq Writers
    /\ inited \subseteq Writers
    /\ pc \in [Threads -> PushLabels \cup AdminLabels]
    /\ \A p \in Publishers : pc[p] \in PushLabels
    /\ \A a \in Admins : pc[a] \in AdminLabels
    /\ cur \in [Threads -> Writers \cup {NoWriter}]
    /\ pkt \in [Publishers -> Packets \cup {NoPacket}]
    /\ \A p \in Publishers :
         pc[p] \in {"got", "range", "write", "drop", "dropclose"} =>
           pkt[p] \in Packets
    /\ cache \in [Publishers -> CacheType]
    /\ todo \in [Publishers -> Seq(Packets)]
    /\ count \in [Publishers -> Nat]
    /\ toVisit \subseteq Writers
    /\ queued \in [Writers -> 0..QueueCap]
    /\ wClosed \in [Writers -> BOOLEAN]
    /\ handler \in [Players -> {"idle", "send", "close", "done"}]
    /\ hlsPc \in {"off", "add", "send", "close", "renew", "done"}
    /\ hlsWriter \in Sources \cup {NoWriter}
    /\ hlsPc = "off" <=> hlsWriter = NoWriter
    /\ admitted \subseteq Writers
    /\ lastFrame \in [Writers -> Packets \cup {NoPacket}]

Publishing(p) == pc[p] \notin {"idle", "done"}

\* At most one PushStart is past its critical section, and inPublication says
\* whether one is, until its deferred function has kicked every player.
SinglePublisher ==
    /\ \A p, q \in Publishers : Publishing(p) /\ Publishing(q) => p = q
    /\ inPublication <=> \E p \in Publishers : Publishing(p)

\* No player is left in the map of a channel nobody publishes to, whatever
\* AddPlayer, DelPlayer and Close did while the publisher was leaving.
NoPlayerWithoutPublisher == players # {} => inPublication

\* A thread is about to Close w, which it has taken out of the map.
Closing(w) ==
    \E t \in Threads :
      cur[t] = w /\ pc[t] \in {"dropclose", "kickclose", "delclose"}

\* A writer that AddPlayer accepted is in the map, or closed, or about to be:
\* no goroutine waits on a queue that nobody will fill or close.
NoOrphan == \A w \in admitted : w \in players \/ wClosed[w] \/ Closing(w)

\* The only open hls.Source in the map is the one that playlist requests read:
\* segments are never written where no request looks.
HlsSingle ==
    \A s \in Sources : s \in players /\ ~wClosed[s] => s = hlsWriter

\* c.mu is held by the thread that is in kickAllPlayers.
LockInv == \A t \in Threads : pc[t] \in {"kick", "kickclose"} <=> mu = t

\* The callbacks of Range, and DelPlayer, are always about some writer.
CurInv ==
    \A t \in Threads :
      pc[t] \in {"write", "drop", "dropclose", "kickclose", "delclose"} =>
        cur[t] \in Writers

\* Sources are admitted one after the other, each closed before the next is made.
HlsInv ==
    /\ players \subseteq admitted
    /\ \A s \in Sources : s > hlsWriter => s \notin admitted
    /\ \A s \in Sources : s < hlsWriter => wClosed[s]
    /\ hlsPc = "renew" => wClosed[hlsWriter]

\* The inductive invariant behind the properties above.
IndInv ==
    /\ TypeOK
    /\ LockInv
    /\ CurInv
    /\ SinglePublisher
    /\ NoPlayerWithoutPublisher
    /\ NoOrphan
    /\ HlsInv

\* In this step a player is given the packet that comes next for it.
Gives(p) ==
    pc[p] = "write" /\ todo[p] # <<>> /\ ~wClosed[cur[p]] /\ todo' # todo

\* The video frames a writer is given are consecutive and begin at a key frame,
\* although it joins, is sent the cache, and is fed while others come and go.
\* There are two exceptions: a player that joins before the publication's first
\* key frame begins wherever the stream is, and one that joins when the array is
\* full gets the old group first and then the frame of the moment.
NoGap ==
    [][\A p \in Publishers :
         Gives(p) /\ IsFrame(Head(todo[p])) =>
           LET new == Head(todo[p])
               old == lastFrame[cur[p]]
               gop == cache[p].gop
           IN  \/ old # NoPacket /\ new.no = old.no + 1
               \/ old = NoPacket /\ (IsKeyFrame(new) \/ ~gop.isComplete)
               \/ /\ Len(gop.packets) = MaxGOPCap
                  /\ old = gop.packets[MaxGOPCap]
                  /\ new.no > old.no]_vars

\* The channel as its writers see it: who publishes, the newest frame that was
\* read, how far each writer is, and the last frame that each was given.
Publisher == IF inPublication THEN CHOOSE p \in Publishers : Publishing(p) ELSE Free

Sent == IF inPublication THEN pkt[Publisher].no ELSE 0

Feeding(w) == \E p \in Publishers : pc[p] = "write" /\ cur[p] = w

StatusOf(w) ==
    IF wClosed[w] THEN "closed"
    ELSE IF w \in players THEN "member"
    ELSE IF Feeding(w) THEN "leaving"
    ELSE IF w \in admitted THEN "out"
    ELSE "new"

Status == [w \in Writers |-> StatusOf(w)]

Fed == [w \in Writers |-> IF lastFrame[w] = NoPacket THEN -1 ELSE lastFrame[w].no]

Served == INSTANCE Audience WITH Nobody <- Free, publisher <- Publisher,
                                 sent <- Sent, status <- Status, fed <- Fed

\* The channel with its locks, its concurrent map and its callbacks serves writers
\* as Audience says: each joins one publication, which does not end before it is
\* out, and gets no frame twice, early, late or of another publication.
AudienceSpec == Served!Spec

\* Once nobody publishes, the goroutine of every player that was accepted ends.
HandlersEnd ==
    \A w \in Players : (w \in admitted /\ ~inPublication) ~> (handler[w] = "done")

\* Once HLS is on, each publication gets an HLS source, if it lasts.
HlsJoins ==
    (hlsPc # "off" /\ inPublication) ~> (hlsWriter \in admitted \/ ~inPublication)

\* A packet that was read is offered to every player and the publisher reads
\* again: no slow, closed or leaving player holds the fan-out up.
FanOutEnds == \A p \in Publishers : (pc[p] = "got") ~> (pc[p] = "read")

\* A publisher that fails or leaves gives the channel back.
PublisherReleases == \A p \in Publishers : (pc[p] = "exit") ~> (pc[p] = "done")

\* After Close the channel has no player.
NoPlayerAfterClose == (\E a \in Admins : pc[a] = "closed") => players = {}
=============================================================================
