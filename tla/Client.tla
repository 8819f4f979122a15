-------------------------------- MODULE Client --------------------------------
(***************************************************************************)
(* client.Client over an RTMP session: Dial is the session's Start, then   *)
(* PullStart fans the packets it reads out to players that come and go     *)
(* without a lock, or PushStart sends what a goroutine reads from a file.  *)
(***************************************************************************)
EXTENDS RtmpSession, Cache, FiniteSets

CONSTANTS
    Players,      \* av.WriteClosers an application adds
    StreamKinds,  \* kinds of packet the server sends a player
    MaxSent,      \* bound on the packets the server sends
    MaxPulls,     \* bound on the calls of PullStart
    QueueCap,     \* maxQueueNum of the pusher
    MaxSrc        \* bound on the packets of the source

ASSUME ClientAssumption ==
    /\ StreamKinds \subseteq Kinds
    /\ MaxSent \in Nat /\ MaxPulls \in Nat /\ MaxSrc \in Nat
    /\ QueueCap \in Nat \ {0}
    /\ Nobody \notin Players

VARIABLES
    sent,           \* packets the server sent
    frames,         \* and the frames among them
    pulls,          \* calls of PullStart
    pc,             \* PullStart: "idle", "read" at the top of the loop, "range", and
                    \* in a callback "write", "drop" before Delete, "close" before Close
    cache, pkt,     \* its cache and the packet it has read
    toVisit,        \* players Range has still to visit
    cur, todo,      \* the player of the callback that runs, and what it has to write
    replaced,       \* AddPlayer has stored another packWriter than the one it runs for
    players,        \* Client.players: "out", or packWriter.init
    closed,         \* writers that are closed
    given,          \* history: what the packWriter last stored for a player wrote to it
    inPublication,  \* PushStart is in SendPacket
    src,            \* its goroutine: "off" or "read"
    queue,          \* the pusher's packetQueue
    srcRead,        \* packets read from the source
    cancelled       \* the context of PushStart is done

callVars == <<cur, todo, replaced>>
playerVars == <<players, closed, given>>
pullVars == <<sent, frames, pulls, pc, cache, pkt, toVisit, callVars, playerVars>>
pushVars == <<inPublication, src, queue, srcRead, cancelled>>
vars == <<pair, client, server, up, down, upBuf, downBuf, lost, others,
          sent, frames, pulls, pc, cache, pkt, toVisit, cur, todo, replaced,
          players, closed, given, inPublication, src, queue, srcRead, cancelled>>

ClientInit ==
    /\ Init
    /\ sent = 0 /\ frames = 0 /\ pulls = 0
    /\ pc = "idle"
    /\ cache = NewCache
    /\ pkt = NoPacket
    /\ toVisit = {}
    /\ cur = Nobody /\ todo = <<>> /\ replaced = FALSE
    /\ players = [w \in Players |-> "out"]
    /\ closed = [w \in Players |-> FALSE]
    /\ given = [w \in Players |-> <<>>]
    /\ inPublication = FALSE
    /\ src = "off"
    /\ queue = <<>>
    /\ srcRead = 0
    /\ cancelled = FALSE

Dialed(method) == pair # "server" /\ client.method = method /\ client.pc = "started"

-----------------------------------------------------------------------------
(* PullStart *)

\* A second call while pulling returns ErrAlreadyDialed.
PullStart ==
    /\ Dialed("play")
    /\ pc = "idle"
    /\ pulls < MaxPulls
    /\ pulls' = pulls + 1
    /\ pc' = "read"
    /\ cache' = NewCache
    /\ UNCHANGED <<sessionVars, sent, frames, pkt, toVisit, callVars, playerVars, pushVars>>

\* rtmp.Reader.Read: the statuses that Start has not read are skipped.
PullRead ==
    /\ pc = "read"
    /\ client.open
    /\ ClientReads
    /\ IF Head(down).type = "media"
         THEN /\ pc' = "range"
              /\ pkt' = Head(down).packet
              /\ cache' = CacheWrite(cache, pkt')
              /\ toVisit' = {w \in Players : players[w] # "out"}
         ELSE UNCHANGED <<pc, pkt, cache, toVisit>>
    /\ UNCHANGED <<pair, client, server, up, upBuf, downBuf, lost, others,
                   sent, frames, pulls, callVars, playerVars, pushVars>>

\* ctx.Done at the top of the loop, or a read that fails.  The players stay in the
\* map and are not closed.
PullReturn ==
    /\ pc = "read"
    /\ pc' = "idle"
    /\ UNCHANGED <<sessionVars, sent, frames, pulls, cache, pkt, toVisit, callVars,
                   playerVars, pushVars>>

ToWrite(w) == IF players[w] = "inited" THEN <<pkt>> ELSE CacheSend(cache)

\* Range comes to a player that is in the map, and calls back with the packWriter
\* that it loads.  Its Inited() is written by PullStart alone.
Visit(w) ==
    /\ pc = "range"
    /\ w \in toVisit
    /\ players[w] # "out"
    /\ pc' = "write"
    /\ toVisit' = toVisit \ {w}
    /\ cur' = w
    /\ todo' = ToWrite(w)
    /\ UNCHANGED <<sessionVars, sent, frames, pulls, cache, pkt, replaced, playerVars,
                   pushVars>>

\* One Write of the callback.  The first that fails ends cache.Send.
VisitWrite ==
    /\ pc = "write"
    /\ todo # <<>>
    /\ IF closed[cur]
         THEN pc' = "drop" /\ todo' = <<>> /\ given' = given
         ELSE /\ todo' = Tail(todo)
              /\ given' = IF replaced THEN given
                          ELSE [given EXCEPT ![cur] = Append(@, Head(todo))]
              /\ pc' = pc
    /\ UNCHANGED <<sessionVars, sent, frames, pulls, cache, pkt, toVisit, cur, replaced,
                   players, closed, pushVars>>

\* Faulty: Init is called on the packWriter that is in the map by now.
VisitDone_Lookup ==
    /\ pc = "write"
    /\ todo = <<>>
    /\ pc' = "range"
    /\ players' = IF players[cur] # "out"
                    THEN [players EXCEPT ![cur] = "inited"] ELSE players
    /\ cur' = Nobody /\ replaced' = FALSE
    /\ UNCHANGED <<sessionVars, sent, frames, pulls, cache, pkt, toVisit, todo, closed,
                   given, pushVars>>

\* Init, on the packWriter that was loaded.
VisitDone ==
    /\ pc = "write"
    /\ todo = <<>>
    /\ pc' = "range"
    /\ players' = IF ~replaced /\ players[cur] # "out"
                    THEN [players EXCEPT ![cur] = "inited"] ELSE players
    /\ cur' = Nobody /\ replaced' = FALSE
    /\ UNCHANGED <<sessionVars, sent, frames, pulls, cache, pkt, toVisit, todo, closed,
                   given, pushVars>>

\* players.Delete(w), whichever packWriter is there by now ...
VisitDrop ==
    /\ pc = "drop"
    /\ pc' = "close"
    /\ players' = [players EXCEPT ![cur] = "out"]
    /\ UNCHANGED <<sessionVars, sent, frames, pulls, cache, pkt, toVisit, callVars, closed,
                   given, pushVars>>

\* ... and Close.  The packWriter that is marked inited is not in the map any more.
VisitClose ==
    /\ pc = "close"
    /\ pc' = "range"
    /\ closed' = [closed EXCEPT ![cur] = TRUE]
    /\ cur' = Nobody /\ replaced' = FALSE
    /\ UNCHANGED <<sessionVars, sent, frames, pulls, cache, pkt, toVisit, todo, players,
                   given, pushVars>>

RangeEnd ==
    /\ pc = "range"
    /\ \A w \in toVisit : players[w] = "out"
    /\ pc' = "read"
    /\ toVisit' = {}
    /\ UNCHANGED <<sessionVars, sent, frames, pulls, cache, pkt, callVars, playerVars,
                   pushVars>>

-----------------------------------------------------------------------------
(* The players.  AddPlayer and DelPlayer take no lock, so a callback runs on. *)

\* Store replaces a packWriter that is there.  Range may or may not visit it.
AddPlayer(w) ==
    /\ Dialed("play")
    /\ players' = [players EXCEPT ![w] = "fresh"]
    /\ given' = [given EXCEPT ![w] = <<>>]
    /\ replaced' = (replaced \/ cur = w)
    /\ \/ toVisit' = toVisit
       \/ pc \notin {"idle", "read"} /\ toVisit' = toVisit \cup {w}
    /\ UNCHANGED <<sessionVars, sent, frames, pulls, pc, cache, pkt, cur, todo, closed,
                   pushVars>>

\* DelPlayer does not close the player, and a callback of its goes on writing to it.
DelPlayer(w) ==
    /\ players[w] # "out"
    /\ players' = [players EXCEPT ![w] = "out"]
    /\ UNCHANGED <<sessionVars, sent, frames, pulls, pc, cache, pkt, toVisit, callVars,
                   closed, given, pushVars>>

\* A player closes its writer, in a goroutine of its own.
PlayerClose(w) ==
    /\ players[w] # "out"
    /\ ~closed[w]
    /\ closed' = [closed EXCEPT ![w] = TRUE]
    /\ UNCHANGED <<sessionVars, sent, frames, pulls, pc, cache, pkt, toVisit, callVars,
                   players, given, pushVars>>

-----------------------------------------------------------------------------
(* PushStart *)

PushStart ==
    /\ Dialed("publish")
    /\ ~inPublication
    /\ srcRead = 0 /\ src = "off" /\ ~cancelled
    /\ inPublication' = TRUE
    /\ src' = "read"
    /\ UNCHANGED <<sessionVars, pullVars, queue, srcRead, cancelled>>

\* The goroutine: src.Read, then Write, which drops the oldest if there is no room.  One
\* step of the test of the context, the read and the write: a Cancel between them only
\* lets this packet in, and no other step looks at what is between.
SrcRead ==
    /\ src = "read"
    /\ ~cancelled
    /\ srcRead < MaxSrc
    /\ srcRead' = srcRead + 1
    /\ queue' = Append(IF Len(queue) = QueueCap THEN Tail(queue) ELSE queue, srcRead')
    /\ UNCHANGED <<sessionVars, pullVars, inPublication, src, cancelled>>

\* Faulty: only the end of the source ends the goroutine.
SrcEnds_SourceOnly ==
    /\ src = "read"
    /\ srcRead = MaxSrc
    /\ ~cancelled
    /\ src' = "off"
    /\ UNCHANGED <<sessionVars, pullVars, inPublication, queue, srcRead, cancelled>>

\* The context is done or src.Read fails.  The pusher is not closed.
SrcEnds ==
    /\ src = "read"
    /\ cancelled \/ srcRead = MaxSrc
    /\ src' = "off"
    /\ UNCHANGED <<sessionVars, pullVars, inPublication, queue, srcRead, cancelled>>

PushSend ==
    /\ inPublication
    /\ queue # <<>>
    /\ ~lost
    /\ queue' = Tail(queue)
    /\ ClientSends(Media([kind |-> "key", no |-> Head(queue)]))
    /\ UNCHANGED <<pair, client, server, down, downBuf, lost, others, pullVars,
                   inPublication, src, srcRead, cancelled>>

\* ctx.Done, or a packet that cannot be sent.
PushReturn ==
    /\ inPublication
    /\ \/ cancelled
       \/ queue # <<>> /\ (lost \/ ~server.open \/ ~client.open)
    /\ inPublication' = FALSE
    /\ UNCHANGED <<sessionVars, pullVars, src, queue, srcRead, cancelled>>

Cancel ==
    /\ inPublication
    /\ cancelled' = TRUE
    /\ UNCHANGED <<sessionVars, pullVars, inPublication, src, queue, srcRead>>

-----------------------------------------------------------------------------
ServerPlays ==
    \E k \in StreamKinds :
      /\ sent < MaxSent
      /\ sent' = sent + 1
      /\ frames' = (IF k \in FrameKinds THEN frames + 1 ELSE frames)
      /\ PlaySend([kind |-> k, no |-> frames'])
      /\ UNCHANGED <<pulls, pc, cache, pkt, toVisit, callVars, playerVars, pushVars>>

Callback ==
    \/ \E w \in Players : Visit(w)
    \/ VisitWrite \/ VisitDone \/ VisitDrop \/ VisitClose

Pull == PullStart \/ PullRead \/ PullReturn \/ Callback \/ RangeEnd

Player(w) == AddPlayer(w) \/ DelPlayer(w) \/ PlayerClose(w)

Push == PushStart \/ SrcRead \/ SrcEnds \/ PushSend \/ PushReturn \/ Cancel

Next ==
    \/ SessionNext /\ UNCHANGED <<pullVars, pushVars>>
    \/ ServerPlays
    \/ Pull
    \/ \E w \in Players : Player(w)
    \/ Push

\* Goroutines that can go on do; a deadline that was set expires; src.Read
\* returns.  Nobody is obliged to call, to close or to cancel, and another program
\* is not obliged to send.
Fairness ==
    /\ WF_vars(ConnClientStart /\ UNCHANGED <<pullVars, pushVars>>)
    /\ WF_vars(handleConn /\ UNCHANGED <<pullVars, pushVars>>)
    /\ WF_vars(ClientDeadline /\ UNCHANGED <<pullVars, pushVars>>)
    /\ WF_vars(ServerDeadline /\ UNCHANGED <<pullVars, pushVars>>)
    /\ WF_vars(SrcRead \/ SrcEnds)
    /\ WF_vars(PushSend \/ PushReturn)

Spec == ClientInit /\ [][Next]_vars /\ Fairness

-----------------------------------------------------------------------------
(* Properties *)

\* What a packWriter writes to its player are consecutive frames from a key frame on,
\* whoever is added or deleted during the fan-out, also that player in the middle of its
\* own callback, and over several calls of PullStart.  If there was no key frame since
\* PullStart when it was sent the cache, it begins anywhere, and after a cached group
\* that filled the array frames may be missing once.  A player that is added again in
\* its own callback is given what that callback had still to write, and only then the
\* packets of the new packWriter, which repeat some of them.
PullNoGap ==
    [][\A w \in Players :
         LET new == given'[w]
             Frames(i) == {k \in 1..i : IsFrame(new[k])}
         IN  /\ cur = w /\ replaced /\ todo' # todo => new = <<>>
             /\ \A j \in (Len(given[w]) + 1)..Len(new) :
                  IsFrame(new[j]) =>
                    /\ Frames(j - 1) = {} => IsKeyFrame(new[j]) \/ ~cache.gop.isComplete
                    /\ \A i \in Frames(j - 1) : Frames(j - 1) = Frames(i) =>
                         \/ new[j].no = new[i].no + 1
                         \/ Cardinality(Frames(i)) = MaxGOPCap /\ new[j].no > new[i].no]_vars

\* A PushStart whose context is done returns, and leaves no goroutine behind.
PushStops == cancelled ~> (~inPublication /\ src = "off")
=============================================================================
