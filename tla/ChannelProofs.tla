--------------------------- MODULE ChannelProofs ---------------------------
(***************************************************************************)
(* Proofs about the channel, for any number of publishers, players, HLS    *)
(* sources and callers of Close and DelPlayer: first the lifecycle of the  *)
(* players and of the publication (IndInv), then the stream of packets     *)
(* each writer is given (StreamInv).                                       *)
(***************************************************************************)
EXTENDS Channel, CacheLemmas

\* A new channel satisfies the inductive invariant.
LEMMA InitIndInv == Init => IndInv
  <1> SUFFICES ASSUME Init PROVE IndInv
    OBVIOUS
  <1> USE ChannelAssumption DEF Init, Threads, Writers
  <1>1. TypeOK
    <2>1. <<>> \in Seq(Packets)
      OBVIOUS
    <2>2. /\ pkt \in [Publishers -> Packets \cup {NoPacket}]
          /\ cache \in [Publishers -> CacheType]
          /\ todo \in [Publishers -> Seq(Packets)]
          /\ count \in [Publishers -> Nat]
      BY <2>1, NewCacheType
    <2>3. /\ pc \in [Threads -> PushLabels \cup AdminLabels]
          /\ \A p \in Publishers : pc[p] \in PushLabels
          /\ \A a \in Admins : pc[a] \in AdminLabels
          /\ \A p \in Publishers : pc[p] = "idle"
      BY DEF PushLabels, AdminLabels
    <2>4. /\ queued \in [Writers -> 0..QueueCap]
          /\ wClosed \in [Writers -> BOOLEAN]
          /\ handler \in [Players -> {"idle", "send", "close", "done"}]
          /\ cur \in [Threads -> Writers \cup {NoWriter}]
          /\ lastFrame \in [Writers -> Packets \cup {NoPacket}]
      OBVIOUS
    <2> QED BY <2>2, <2>3, <2>4 DEF TypeOK
  <1>2. LockInv /\ CurInv
    BY DEF LockInv, CurInv
  <1>3. SinglePublisher /\ NoPlayerWithoutPublisher /\ NoOrphan
    BY DEF SinglePublisher, Publishing, NoPlayerWithoutPublisher, NoOrphan
  <1>4. HlsInv
    BY DEF HlsInv, Sources, NoWriter
  <1> QED BY <1>1, <1>2, <1>3, <1>4 DEF IndInv

\* The steps of a publisher's fan-out keep the types.
LEMMA PushTypeOK ==
    ASSUME TypeOK, CurInv, NEW p \in Publishers, Push(p)
    PROVE  TypeOK'
  <1> USE ChannelAssumption DEF Threads, TypeOK, Goto, chanVars, pushVars, writerVars, hlsVars,
          history, threadVars, PushLabels, AdminLabels
  <1>1. CASE PushStart(p)
    <2>1. /\ \E l \in {"done", "top"} : pc' = [pc EXCEPT ![p] = l]
          /\ inPublication' \in BOOLEAN
          /\ UNCHANGED <<chClosed, mu, players, pushVars, toVisit, cur, writerVars,
                         handler, hlsVars, history>>
      BY <1>1 DEF PushStart
    <2> QED BY <2>1
  <1>2. CASE CheckClosed(p)
    BY <1>2 DEF CheckClosed
  <1>3. ASSUME NEW k \in StreamKinds, Read(p, k) PROVE TypeOK'
    <2>1. [kind |-> k, no |-> pkt[p].no + (IF k \in FrameKinds THEN 1 ELSE 0)]
            \in Packets
      <3>1. pkt[p].no \in Nat /\ k \in Kinds
        BY DEF Packets, NoPacket
      <3> QED BY <3>1 DEF Packets
    <2> QED BY <1>3, <2>1 DEF Read
  <1>4. CASE ReadError(p)
    BY <1>4 DEF ReadError
  <1>5. CASE CacheAndRange(p)
    <2>1. CacheWrite(cache[p], pkt[p]) \in CacheType
      BY <1>5, CacheWriteType DEF CacheAndRange
    <2>2. /\ cache' = [cache EXCEPT ![p] = CacheWrite(cache[p], pkt[p])]
          /\ toVisit' = players
          /\ pc' = [pc EXCEPT ![p] = "range"]
          /\ pkt[p] \in Packets
          /\ UNCHANGED <<chanVars, inited, pkt, todo, count, cur, writerVars,
                         handler, hlsVars, history>>
      BY <1>5 DEF CacheAndRange
    <2> QED BY <2>1, <2>2
  <1>6. ASSUME NEW w \in Writers, RangeNext(p, w) PROVE TypeOK'
    <2>1. todo'[p] \in Seq(Packets)
      BY <1>6, CacheSendType DEF RangeNext
    <2> QED BY <1>6, <2>1 DEF RangeNext
  <1>7. CASE WriteNext(p)
    <2>1. cur[p] \in Writers /\ Head(todo[p]) \in Packets /\ Tail(todo[p]) \in Seq(Packets)
      BY <1>7 DEF WriteNext, CurInv
    <2>2. CASE wClosed[cur[p]]
      <3>1. /\ pc' = [pc EXCEPT ![p] = "drop"]
            /\ todo' = [todo EXCEPT ![p] = <<>>]
            /\ UNCHANGED <<queued, lastFrame, chanVars, inited, pkt, cache, count,
                           toVisit, cur, wClosed, handler, hlsVars, admitted>>
            /\ pkt[p] \in Packets
        BY <1>7, <2>2 DEF WriteNext
      <3>2. <<>> \in Seq(Packets)
        OBVIOUS
      <3> QED BY <3>1, <3>2
    <2>3. CASE ~wClosed[cur[p]]
      <3>1. /\ todo' = [todo EXCEPT ![p] = Tail(todo[p])]
            /\ \E l \in 1..QueueCap : queued' = [queued EXCEPT ![cur[p]] = l]
            /\ \/ lastFrame' = [lastFrame EXCEPT ![cur[p]] = Head(todo[p])]
               \/ lastFrame' = lastFrame
            /\ UNCHANGED <<pc, chanVars, inited, pkt, cache, count, toVisit, cur,
                           wClosed, handler, hlsVars, admitted>>
        BY <1>7, <2>3 DEF WriteNext
      <3>2. queued' \in [Writers -> 0..QueueCap]
        BY <2>1, <3>1
      <3>3. lastFrame' \in [Writers -> Packets \cup {NoPacket}]
        <4>1. CASE lastFrame' = [lastFrame EXCEPT ![cur[p]] = Head(todo[p])]
          BY <2>1, <4>1
        <4>2. CASE lastFrame' = lastFrame
          BY <4>2
        <4> QED BY <3>1, <4>1, <4>2
      <3> QED BY <2>1, <3>1, <3>2, <3>3
    <2> QED BY <2>2, <2>3
  <1>8. CASE WriteDone(p)
    BY <1>8 DEF WriteDone, CurInv
  <1>9. CASE DropPlayer(p)
    BY <1>9 DEF DropPlayer
  <1>10. CASE DropClose(p)
    BY <1>10 DEF DropClose, CurInv, CloseWriter
  <1>11. CASE RangeEnd(p)
    BY <1>11 DEF RangeEnd
  <1>12. CASE Exit(p)
    BY <1>12 DEF Exit
  <1> QED BY <1>1, <1>2, <1>3, <1>4, <1>5, <1>6, <1>7, <1>8, <1>9, <1>10, <1>11,
             <1>12 DEF Push

\* AddPlayer adds a writer to the map, or nothing.
LEMMA AddPlayerTypeOK ==
    ASSUME TypeOK, NEW w \in Writers, AddPlayer(w)
    PROVE  /\ players' \subseteq Writers
           /\ admitted' \subseteq Writers
           /\ toVisit' \subseteq Writers
           /\ UNCHANGED <<inPublication, chClosed, mu>>
  BY DEF TypeOK, AddPlayer

\* kickAllPlayers, Close and DelPlayer keep the types.
LEMMA KickTypeOK ==
    ASSUME TypeOK, CurInv, NEW t \in Threads, KickAll(t) \/ (t \in Admins /\ Admin(t))
    PROVE  TypeOK'
  <1> USE ChannelAssumption DEF Threads, TypeOK, Goto, chanVars, pushVars, writerVars,
          hlsVars, history, threadVars, PushLabels, AdminLabels, CloseWriter
  <1>1. ASSUME NEW w \in Writers, Kick(t, w) PROVE TypeOK'
    BY <1>1 DEF Kick
  <1>2. CASE KickClose(t)
    BY <1>2 DEF KickClose, CurInv
  <1>3. CASE KickDone(t)
    BY <1>3 DEF KickDone
  <1>4. CASE t \in Admins /\ Close(t)
    <2>1. pc' = [pc EXCEPT ![t] = "kick"] /\ mu' = t
      BY <1>4 DEF Close
    <2> QED BY <1>4, <2>1 DEF Close
  <1>5. ASSUME NEW w \in Writers, t \in Admins, DelPlayer(t, w) PROVE TypeOK'
    <2>1. /\ players' \subseteq Writers
          /\ UNCHANGED <<inPublication, chClosed, mu, pushVars, toVisit, writerVars,
                         handler, hlsVars, history>>
      BY <1>5 DEF DelPlayer
    <2>2. \/ pc' = [pc EXCEPT ![t] = "delclose"] /\ cur' = [cur EXCEPT ![t] = w]
          \/ pc' = [pc EXCEPT ![t] = "done"] /\ cur' = cur
      BY <1>5 DEF DelPlayer
    <2>3. cur' \in [Threads -> Writers \cup {NoWriter}]
      BY <2>2
    <2>4. /\ pc' \in [Threads -> PushLabels \cup AdminLabels]
          /\ \A a \in Admins : pc'[a] \in AdminLabels
      BY <2>2
    <2>5. \A p \in Publishers : pc'[p] = pc[p]
      BY <1>5, <2>2
    <2> QED BY <2>1, <2>3, <2>4, <2>5
  <1>6. CASE t \in Admins /\ DelClose(t)
    BY <1>6 DEF DelClose, CurInv
  <1> QED BY <1>1, <1>2, <1>3, <1>4, <1>5, <1>6 DEF KickAll, Admin

\* The handlers of the players and the HLS goroutine keep the types.
LEMMA PlayTypeOK ==
    ASSUME TypeOK,
           \/ \E w \in RtmpPlayers : RtmpPlay(w)
           \/ \E w \in HttpPlayers : HttpPlay(w) \/ SendCancelled(w)
           \/ \E w \in Players : Handle(w)
    PROVE  TypeOK'
  <1> USE ChannelAssumption DEF TypeOK, chanVars, pushVars, writerVars,
          hlsVars, history, threadVars, Players, Writers
  <1>1. ASSUME NEW w \in Players, RtmpPlay(w) PROVE TypeOK'
    BY <1>1, AddPlayerTypeOK DEF RtmpPlay
  <1>2. ASSUME NEW w \in Players, HttpPlay(w) PROVE TypeOK'
    BY <1>2, AddPlayerTypeOK DEF HttpPlay
  <1>3. ASSUME NEW w \in Players, SendCancelled(w) PROVE TypeOK'
    BY <1>3 DEF SendCancelled
  <1>4. ASSUME NEW w \in Players, SendReceive(w) PROVE TypeOK'
    <2>1. queued' \in [Writers -> 0..QueueCap]
      BY <1>4 DEF SendReceive
    <2>2. handler' \in [Players -> {"idle", "send", "close", "done"}]
      BY <1>4 DEF SendReceive
    <2> QED BY <1>4, <2>1, <2>2 DEF SendReceive
  <1>5. ASSUME NEW w \in Players, SendClosed(w) PROVE TypeOK'
    BY <1>5 DEF SendClosed
  <1>6. ASSUME NEW w \in Players, HandlerClose(w) PROVE TypeOK'
    BY <1>6 DEF HandlerClose, CloseWriter
  <1> QED BY <1>1, <1>2, <1>3, <1>4, <1>5, <1>6 DEF Handle

\* ... and so do the steps of the HLS goroutine.
LEMMA HlsTypeOK ==
    ASSUME TypeOK, Hls
    PROVE  TypeOK'
  <1> USE ChannelAssumption DEF TypeOK, chanVars, pushVars, writerVars,
          hlsVars, history, threadVars, Writers
  <1>1. CASE HlsInit
    BY <1>1 DEF HlsInit, Sources
  <1>2. CASE HlsAdd
    <2>1. hlsWriter \in Writers
      BY <1>2 DEF HlsAdd
    <2> QED BY <1>2, <2>1, AddPlayerTypeOK DEF HlsAdd
  <1>3. CASE HlsReceive
    BY <1>3 DEF HlsReceive
  <1>4. CASE HlsClosed
    BY <1>4 DEF HlsClosed
  <1>5. CASE HlsClose
    BY <1>5 DEF HlsClose, CloseWriter
  <1>6. CASE HlsRenew
    BY <1>6 DEF HlsRenew, Sources
  <1> QED BY <1>1, <1>2, <1>3, <1>4, <1>5, <1>6 DEF Hls

\* Every step keeps the types.
LEMMA NextTypeOK ==
    ASSUME TypeOK, CurInv, Next
    PROVE  TypeOK'
  BY PushTypeOK, KickTypeOK, PlayTypeOK, HlsTypeOK DEF Next, Threads

\* A step that leaves the threads, the lock and inPublication alone.
PlayStep ==
    \/ \E w \in RtmpPlayers : RtmpPlay(w)
    \/ \E w \in HttpPlayers : HttpPlay(w) \/ SendCancelled(w)
    \/ \E w \in Players : Handle(w)
    \/ Hls

\* A handler leaves the threads of the others alone.
LEMMA PlayLeavesThreads ==
    ASSUME PlayStep
    PROVE  UNCHANGED <<pc, cur, mu, inPublication>>
  BY DEF PlayStep, RtmpPlay, HttpPlay, SendCancelled, Handle, SendReceive, SendClosed,
         HandlerClose, Hls, HlsInit, HlsAdd, HlsReceive, HlsClosed, HlsClose, HlsRenew,
         AddPlayer, chanVars, threadVars

\* What one step of a publisher outside kickAllPlayers does to its label, the
\* lock and inPublication.
LEMMA PushControl ==
    ASSUME TypeOK, NEW p \in Publishers, Push(p)
    PROVE  \E l \in PushLabels :
             /\ pc' = [pc EXCEPT ![p] = l]
             /\ pc[p] \notin {"kick", "kickclose", "done"}
             /\ \/ /\ pc[p] = "idle"
                   /\ l \in {"top", "done"}
                   /\ l = "top" => ~inPublication
                   /\ inPublication' = (inPublication \/ l = "top")
                   /\ UNCHANGED mu
                \/ /\ pc[p] = "exit" /\ l = "kick"
                   /\ mu = Free /\ mu' = p
                   /\ UNCHANGED inPublication
                \/ /\ pc[p] # "idle"
                   /\ l \notin {"idle", "kick", "kickclose", "done"}
                   /\ UNCHANGED <<mu, inPublication>>
  <1> DEFINE Quiet(l) ==
        /\ pc' = [pc EXCEPT ![p] = l]
        /\ pc[p] \notin {"idle", "kick", "kickclose", "done"}
        /\ l \notin {"idle", "kick", "kickclose", "done"}
        /\ UNCHANGED <<mu, inPublication>>
  <1>1. CASE PushStart(p)
    <2>1. CASE inPublication
      BY <1>1, <2>1 DEF PushStart, Goto, PushLabels, TypeOK
    <2>2. CASE ~inPublication
      BY <1>1, <2>2 DEF PushStart, Goto, PushLabels, TypeOK
    <2> QED BY <2>1, <2>2
  <1>2. CASE Exit(p)
    BY <1>2 DEF Exit, Goto, PushLabels
  <1>3. CASE CheckClosed(p)
    <2>1. Quiet("read")
      BY <1>3 DEF CheckClosed, Goto, TypeOK, chanVars
    <2> QED BY <2>1 DEF PushLabels
  <1>4. ASSUME NEW k \in StreamKinds, Read(p, k) PROVE Quiet("got")
    BY <1>4 DEF Read, Goto, chanVars
  <1>5. CASE ReadError(p)
    <2>1. Quiet("exit")
      BY <1>5 DEF ReadError, Goto, chanVars
    <2> QED BY <2>1 DEF PushLabels
  <1>6. CASE CacheAndRange(p)
    <2>1. Quiet("range")
      BY <1>6 DEF CacheAndRange, Goto, TypeOK, chanVars
    <2> QED BY <2>1 DEF PushLabels
  <1>7. ASSUME NEW w \in Writers, RangeNext(p, w) PROVE Quiet("write")
    BY <1>7 DEF RangeNext, Goto, chanVars
  <1>8. CASE WriteNext(p)
    <2>1. CASE wClosed[cur[p]]
      <3>1. Quiet("drop")
        BY <1>8, <2>1 DEF WriteNext, Goto, chanVars
      <3> QED BY <3>1 DEF PushLabels
    <2>2. CASE ~wClosed[cur[p]]
      <3>1. pc' = pc /\ pc[p] = "write" /\ UNCHANGED <<mu, inPublication>>
        BY <1>8, <2>2 DEF WriteNext, chanVars
      <3>2. pc = [pc EXCEPT ![p] = "write"]
        BY <3>1 DEF TypeOK, Threads
      <3>3. Quiet("write")
        BY <3>1, <3>2
      <3> QED BY <3>3 DEF PushLabels
    <2> QED BY <2>1, <2>2
  <1>9. CASE WriteDone(p) \/ DropClose(p)
    <2>1. Quiet("range")
      BY <1>9 DEF WriteDone, DropClose, Goto, chanVars
    <2> QED BY <2>1 DEF PushLabels
  <1>10. CASE DropPlayer(p)
    <2>1. Quiet("dropclose")
      BY <1>10 DEF DropPlayer, Goto
    <2> QED BY <2>1 DEF PushLabels
  <1>11. CASE RangeEnd(p)
    <2>1. Quiet("top")
      BY <1>11 DEF RangeEnd, Goto, chanVars
    <2> QED BY <2>1 DEF PushLabels
  <1> QED BY <1>1, <1>2, <1>3, <1>4, <1>5, <1>6, <1>7, <1>8, <1>9, <1>10, <1>11
          DEF Push, PushLabels

\* c.mu is held exactly during kickAllPlayers.
LEMMA NextLockInv ==
    ASSUME TypeOK, LockInv, Next
    PROVE  LockInv'
  <1> USE ChannelAssumption DEF LockInv
  <1>1. ASSUME NEW p \in Publishers, Push(p) PROVE LockInv'
    <2>1. PICK l \in PushLabels :
             /\ pc' = [pc EXCEPT ![p] = l]
             /\ pc[p] \notin {"kick", "kickclose"}
             /\ \/ l = "kick" /\ mu = Free /\ mu' = p
                \/ l \notin {"kick", "kickclose"} /\ mu' = mu
      BY <1>1, PushControl
    <2>2. /\ p \in Threads
          /\ pc'[p] = l
          /\ \A t \in Threads : t # p => pc'[t] = pc[t]
      BY <2>1 DEF TypeOK, Threads
    <2> QED BY <2>1, <2>2
  <1>2. ASSUME NEW t \in Threads, KickAll(t) PROVE LockInv'
    <2> USE DEF Goto, TypeOK, chanVars
    <2>1. ASSUME NEW w \in Writers, Kick(t, w) PROVE LockInv'
      BY <2>1 DEF Kick
    <2>2. CASE KickClose(t)
      BY <2>2 DEF KickClose
    <2>3. CASE KickDone(t)
      BY <2>3 DEF KickDone
    <2> QED BY <1>2, <2>1, <2>2, <2>3 DEF KickAll
  <1>3. ASSUME NEW a \in Admins, Admin(a) PROVE LockInv'
    BY <1>3 DEF Admin, Close, DelPlayer, DelClose, Goto, TypeOK, Threads, chanVars
  <1>4. CASE PlayStep
    BY <1>4, PlayLeavesThreads
  <1> QED BY <1>1, <1>2, <1>3, <1>4 DEF Next, PlayStep

\* A thread in a callback, or in DelPlayer, has a writer.
LEMMA NextCurInv ==
    ASSUME TypeOK, CurInv, Next
    PROVE  CurInv'
  <1> USE ChannelAssumption DEF CurInv
  <1>1. ASSUME NEW p \in Publishers, Push(p) PROVE CurInv'
    <2> USE DEF Goto, TypeOK, Threads
    <2>1. CASE PushStart(p) \/ CheckClosed(p) \/ ReadError(p) \/ CacheAndRange(p)
      BY <2>1 DEF PushStart, CheckClosed, ReadError, CacheAndRange
    <2>2. ASSUME NEW k \in StreamKinds, Read(p, k) PROVE CurInv'
      BY <2>2 DEF Read
    <2>3. ASSUME NEW w \in Writers, RangeNext(p, w) PROVE CurInv'
      BY <2>3 DEF RangeNext
    <2>4. CASE WriteNext(p)
      BY <2>4 DEF WriteNext
    <2>5. CASE WriteDone(p) \/ DropPlayer(p) \/ DropClose(p) \/ RangeEnd(p) \/ Exit(p)
      BY <2>5 DEF WriteDone, DropPlayer, DropClose, RangeEnd, Exit
    <2> QED BY <1>1, <2>1, <2>2, <2>3, <2>4, <2>5 DEF Push
  <1>2. ASSUME NEW t \in Threads, KickAll(t) PROVE CurInv'
    <2> USE DEF Goto, TypeOK
    <2>1. ASSUME NEW w \in Writers, Kick(t, w) PROVE CurInv'
      BY <2>1 DEF Kick
    <2>2. CASE KickClose(t)
      BY <2>2 DEF KickClose
    <2>3. CASE KickDone(t)
      BY <2>3 DEF KickDone
    <2> QED BY <1>2, <2>1, <2>2, <2>3 DEF KickAll
  <1>3. ASSUME NEW a \in Admins, Admin(a) PROVE CurInv'
    BY <1>3 DEF Admin, Close, DelPlayer, DelClose, Goto, TypeOK, Threads
  <1>4. CASE PlayStep
    BY <1>4, PlayLeavesThreads
  <1> QED BY <1>1, <1>2, <1>3, <1>4 DEF Next, PlayStep

\* There is one publisher at a time.
LEMMA NextSinglePublisher ==
    ASSUME TypeOK, SinglePublisher, Next
    PROVE  SinglePublisher'
  <1> USE ChannelAssumption DEF SinglePublisher, Publishing
  <1>1. ASSUME NEW p \in Publishers, Push(p) PROVE SinglePublisher'
    <2>1. PICK l \in PushLabels :
             /\ pc' = [pc EXCEPT ![p] = l]
             /\ \/ /\ pc[p] = "idle"
                   /\ l \in {"top", "done"}
                   /\ l = "top" => ~inPublication
                   /\ inPublication' = (inPublication \/ l = "top")
                \/ /\ pc[p] \notin {"idle", "done"}
                   /\ l \notin {"idle", "done"}
                   /\ UNCHANGED inPublication
      BY <1>1, PushControl
    <2>2. pc'[p] = l /\ \A q \in Publishers : q # p => pc'[q] = pc[q]
      BY <2>1 DEF TypeOK, Threads
    <2>3. CASE pc[p] = "idle" /\ l = "top"
      BY <2>1, <2>2, <2>3
    <2>4. CASE pc[p] = "idle" /\ l = "done"
      BY <2>1, <2>2, <2>4
    <2>5. CASE pc[p] # "idle"
      BY <2>1, <2>2, <2>5
    <2> QED BY <2>1, <2>3, <2>4, <2>5
  <1>2. ASSUME NEW t \in Threads, KickAll(t) PROVE SinglePublisher'
    <2>1. CASE KickDone(t) /\ t \in Publishers
      BY <2>1 DEF KickDone, Goto, TypeOK, Threads
    <2>2. CASE KickDone(t) /\ t \notin Publishers
      BY <2>2 DEF KickDone, Goto, TypeOK, Threads
    <2>3. CASE KickClose(t) \/ \E w \in Writers : Kick(t, w)
      <3>1. /\ pc' = [pc EXCEPT ![t] = "kick"] \/ pc' = [pc EXCEPT ![t] = "kickclose"]
            /\ pc[t] \in {"kick", "kickclose"}
            /\ UNCHANGED inPublication
        BY <2>3 DEF KickClose, Kick, Goto, chanVars
      <3>2. \A q \in Publishers :
              pc'[q] \notin {"idle", "done"} <=> pc[q] \notin {"idle", "done"}
        BY <3>1 DEF TypeOK, Threads
      <3> QED BY <3>1, <3>2
    <2> QED BY <1>2, <2>1, <2>2, <2>3 DEF KickAll
  <1>3. ASSUME NEW a \in Admins, Admin(a) PROVE SinglePublisher'
    <2>1. (\A p \in Publishers : pc'[p] = pc[p]) /\ UNCHANGED inPublication
      BY <1>3 DEF Admin, Close, DelPlayer, DelClose, Goto, TypeOK, Threads, chanVars
    <2> QED BY <2>1
  <1>4. CASE PlayStep
    BY <1>4, PlayLeavesThreads
  <1> QED BY <1>1, <1>2, <1>3, <1>4 DEF Next, PlayStep

\* Nobody but AddPlayer adds to the map, and an admitted writer stays admitted.
LEMMA PushPlayers ==
    ASSUME NEW p \in Publishers, Push(p)
    PROVE  /\ players' \subseteq players
           /\ UNCHANGED <<handler, hlsVars, admitted>>
  BY DEF Push, PushStart, CheckClosed, Read, ReadError, CacheAndRange, RangeNext,
         WriteNext, WriteDone, DropPlayer, DropClose, RangeEnd, Exit, chanVars, history

\* ... nor do kickAllPlayers, Close and DelPlayer add any.
LEMMA KickPlayers ==
    ASSUME NEW t \in Threads, KickAll(t) \/ (t \in Admins /\ Admin(t))
    PROVE  /\ players' \subseteq players
           /\ UNCHANGED <<handler, hlsVars, admitted>>
  BY DEF KickAll, Admin, Kick, KickClose, KickDone, Close, DelPlayer, DelClose,
         chanVars, history

\* What a step of a handler or of the HLS goroutine does to the map.
LEMMA PlayPlayers ==
    ASSUME PlayStep
    PROVE  \/ UNCHANGED <<players, admitted>>
           \/ \E w : /\ inPublication
                    /\ players' = players \cup {w}
                    /\ admitted' = admitted \cup {w}
  <1>1. ASSUME NEW w, AddPlayer(w)
        PROVE  \/ UNCHANGED <<players, admitted>>
               \/ /\ inPublication
                  /\ players' = players \cup {w}
                  /\ admitted' = admitted \cup {w}
    BY <1>1 DEF AddPlayer, AddPlayerOK
  <1> QED BY <1>1 DEF PlayStep, RtmpPlay, HttpPlay, SendCancelled, Handle, SendReceive,
         SendClosed, HandlerClose, Hls, HlsInit, HlsAdd, HlsReceive, HlsClosed, HlsClose,
         HlsRenew, chanVars, history

\* The map is empty while nobody publishes.
LEMMA NextNoPlayerWithoutPublisher ==
    ASSUME TypeOK, NoPlayerWithoutPublisher, Next
    PROVE  NoPlayerWithoutPublisher'
  <1> USE DEF NoPlayerWithoutPublisher
  <1>1. ASSUME NEW p \in Publishers, Push(p) PROVE NoPlayerWithoutPublisher'
    <2>1. inPublication => inPublication'
      BY <1>1, PushControl
    <2> QED BY <1>1, <2>1, PushPlayers
  <1>2. ASSUME NEW t \in Threads, KickAll(t) PROVE NoPlayerWithoutPublisher'
    <2>1. CASE KickDone(t)
      BY <2>1 DEF KickDone
    <2>2. CASE ~KickDone(t)
      <3>1. UNCHANGED inPublication
        BY <1>2, <2>2 DEF KickAll, Kick, KickClose, chanVars
      <3> QED BY <1>2, <3>1, KickPlayers
    <2> QED BY <2>1, <2>2
  <1>3. ASSUME NEW a \in Admins, Admin(a) PROVE NoPlayerWithoutPublisher'
    <2>1. UNCHANGED inPublication
      BY <1>3 DEF Admin, Close, DelPlayer, DelClose, chanVars
    <2> QED BY <1>3, <2>1, KickPlayers DEF Threads
  <1>4. CASE PlayStep
    BY <1>4, PlayLeavesThreads, PlayPlayers
  <1> QED BY <1>1, <1>2, <1>3, <1>4 DEF Next, PlayStep

\* A writer that was closed stays closed.
LEMMA ClosedForGood ==
    ASSUME TypeOK, Next
    PROVE  \A w \in Writers : wClosed[w] => wClosed'[w]
  <1> USE DEF TypeOK, CloseWriter, writerVars
  <1>1. ASSUME NEW p \in Publishers, Push(p)
        PROVE  wClosed' = wClosed \/ wClosed' = [wClosed EXCEPT ![cur[p]] = TRUE]
    BY <1>1 DEF Push, PushStart, CheckClosed, Read, ReadError, CacheAndRange, RangeNext,
         WriteNext, WriteDone, DropPlayer, DropClose, RangeEnd, Exit
  <1>2. ASSUME NEW t \in Threads, KickAll(t) \/ (t \in Admins /\ Admin(t))
        PROVE  wClosed' = wClosed \/ wClosed' = [wClosed EXCEPT ![cur[t]] = TRUE]
    BY <1>2 DEF KickAll, Admin, Kick, KickClose, KickDone, Close, DelPlayer, DelClose
  <1>3. ASSUME PlayStep
        PROVE  wClosed' = wClosed \/ \E w : wClosed' = [wClosed EXCEPT ![w] = TRUE]
    BY <1>3 DEF PlayStep, RtmpPlay, HttpPlay, SendCancelled, Handle, SendReceive,
         SendClosed, HandlerClose, Hls, HlsInit, HlsAdd, HlsReceive, HlsClosed, HlsClose,
         HlsRenew
  <1>4. wClosed' = wClosed \/ \E w : wClosed' = [wClosed EXCEPT ![w] = TRUE]
    BY <1>1, <1>2, <1>3 DEF Next, PlayStep, Threads
  <1> QED BY <1>4

\* A thread whose next step is the Close of the writer it took out of the map.
ClosingLabels == {"dropclose", "kickclose", "delclose"}

\* A step of thread t leaves the other threads where they are, takes no writer
\* out of the map but the one t then has to close, and closes that one.
ThreadStep(t) ==
    /\ \A u \in Threads : u # t => pc'[u] = pc[u] /\ cur'[u] = cur[u]
    /\ \A w \in players : w \in players' \/ (cur'[t] = w /\ pc'[t] \in ClosingLabels)
    /\ pc[t] \in ClosingLabels => wClosed'[cur[t]]

\* A publisher's thread closes the writers it removed, or still has them to close.
LEMMA PushThreadStep ==
    ASSUME TypeOK, CurInv, NEW p \in Publishers, Push(p)
    PROVE  ThreadStep(p)
  <1> USE DEF ThreadStep, ClosingLabels, Goto, TypeOK, Threads, chanVars
  <1>1. CASE PushStart(p) \/ CheckClosed(p) \/ ReadError(p) \/ CacheAndRange(p)
    BY <1>1 DEF PushStart, CheckClosed, ReadError, CacheAndRange
  <1>2. ASSUME NEW k \in StreamKinds, Read(p, k) PROVE ThreadStep(p)
    BY <1>2 DEF Read
  <1>3. ASSUME NEW w \in Writers, RangeNext(p, w) PROVE ThreadStep(p)
    BY <1>3 DEF RangeNext
  <1>4. CASE WriteNext(p)
    BY <1>4 DEF WriteNext
  <1>5. CASE WriteDone(p) \/ RangeEnd(p) \/ Exit(p)
    BY <1>5 DEF WriteDone, RangeEnd, Exit
  <1>6. CASE DropPlayer(p)
    BY <1>6 DEF DropPlayer
  <1>7. CASE DropClose(p)
    BY <1>7 DEF DropClose, CloseWriter, CurInv
  <1> QED BY <1>1, <1>2, <1>3, <1>4, <1>5, <1>6, <1>7 DEF Push

\* ... and so does a thread of kickAllPlayers, Close or DelPlayer.
LEMMA KickThreadStep ==
    ASSUME TypeOK, CurInv, NEW t \in Threads, KickAll(t) \/ (t \in Admins /\ Admin(t))
    PROVE  ThreadStep(t)
  <1> USE DEF ThreadStep, ClosingLabels, Goto, TypeOK, Threads, chanVars
  <1>1. ASSUME NEW w \in Writers, Kick(t, w) PROVE ThreadStep(t)
    BY <1>1 DEF Kick
  <1>2. CASE KickClose(t)
    BY <1>2 DEF KickClose, CloseWriter, CurInv
  <1>3. CASE KickDone(t)
    BY <1>3 DEF KickDone
  <1>4. CASE t \in Admins /\ Close(t)
    BY <1>4 DEF Close
  <1>5. ASSUME NEW w \in Writers, t \in Admins, DelPlayer(t, w) PROVE ThreadStep(t)
    BY <1>5 DEF DelPlayer
  <1>6. CASE t \in Admins /\ DelClose(t)
    BY <1>6 DEF DelClose, CloseWriter, CurInv
  <1> QED BY <1>1, <1>2, <1>3, <1>4, <1>5, <1>6 DEF KickAll, Admin

\* Every admitted writer is in the map, closed, or about to be closed.
LEMMA NextNoOrphan ==
    ASSUME TypeOK, CurInv, NoOrphan, Next
    PROVE  NoOrphan'
  <1>c. \A w \in Writers : wClosed[w] => wClosed'[w]
    BY ClosedForGood
  <1>t. admitted \subseteq Writers
    BY DEF TypeOK
  <1>1. ASSUME NEW t \in Threads, ThreadStep(t), UNCHANGED admitted
        PROVE  NoOrphan'
    <2> SUFFICES ASSUME NEW w \in admitted
                 PROVE  w \in players' \/ wClosed'[w] \/ Closing(w)'
      BY <1>1 DEF NoOrphan
    <2>1. CASE w \in players
      BY <1>1, <2>1 DEF ThreadStep, Closing, ClosingLabels
    <2>2. CASE wClosed[w]
      BY <1>c, <1>t, <2>2
    <2>3. CASE Closing(w)
      BY <1>1, <2>3 DEF ThreadStep, Closing, ClosingLabels
    <2> QED BY <2>1, <2>2, <2>3 DEF NoOrphan
  <1>2. ASSUME NEW p \in Publishers, Push(p) PROVE NoOrphan'
    BY <1>1, <1>2, PushThreadStep, PushPlayers DEF Threads
  <1>3. ASSUME NEW t \in Threads, KickAll(t) PROVE NoOrphan'
    BY <1>1, <1>3, KickThreadStep, KickPlayers
  <1>4. ASSUME NEW a \in Admins, Admin(a) PROVE NoOrphan'
    BY <1>1, <1>4, KickThreadStep, KickPlayers DEF Threads
  <1>5. CASE PlayStep
    <2>1. UNCHANGED <<pc, cur>>
      BY <1>5, PlayLeavesThreads
    <2>2. \A w : Closing(w)' <=> Closing(w)
      BY <2>1 DEF Closing
    <2> QED BY <1>5, <1>c, <1>t, <2>2, PlayPlayers DEF NoOrphan
  <1> QED BY <1>2, <1>3, <1>4, <1>5 DEF Next, PlayStep

\* The sources are admitted in turn.
LEMMA NextHlsInv ==
    ASSUME TypeOK, HlsInv, Next
    PROVE  HlsInv'
  <1> USE ChannelAssumption DEF HlsInv
  <1>c. \A w \in Writers : wClosed[w] => wClosed'[w]
    BY ClosedForGood
  <1>t. /\ Sources \subseteq Writers /\ Sources \subseteq Nat
        /\ hlsPc # "off" => hlsWriter \in Sources
        /\ hlsWriter \in Nat
    BY DEF TypeOK, Writers, Sources, NoWriter
  <1>n. NoWriter = 0
    BY DEF NoWriter
  <1>1. ASSUME UNCHANGED <<hlsVars, admitted>>, players' \subseteq players PROVE HlsInv'
    BY <1>1, <1>c, <1>t DEF hlsVars
  <1>2. ASSUME NEW p \in Publishers, Push(p) PROVE HlsInv'
    BY <1>1, <1>2, PushPlayers
  <1>3. ASSUME NEW t \in Threads, KickAll(t) PROVE HlsInv'
    BY <1>1, <1>3, KickPlayers
  <1>4. ASSUME NEW a \in Admins, Admin(a) PROVE HlsInv'
    BY <1>1, <1>4, KickPlayers DEF Threads
  <1>5. ASSUME NEW w \in Players,
               \/ RtmpPlay(w) \/ HttpPlay(w) \/ SendCancelled(w) \/ Handle(w)
        PROVE  HlsInv'
    <2>1. UNCHANGED hlsVars
      BY <1>5 DEF RtmpPlay, HttpPlay, SendCancelled, Handle, SendReceive, SendClosed,
                  HandlerClose
    <2>2. \/ UNCHANGED <<players, admitted>>
          \/ /\ players' = players \cup {w}
             /\ admitted' = admitted \cup {w}
      BY <1>5 DEF RtmpPlay, HttpPlay, SendCancelled, Handle, SendReceive, SendClosed,
                  HandlerClose, AddPlayer, chanVars, history
    <2>3. w \notin Sources
      OBVIOUS
    <2> QED BY <1>c, <1>t, <2>1, <2>2, <2>3 DEF hlsVars
  <1>6. CASE HlsInit
    BY <1>6, <1>c, <1>t, <1>n DEF HlsInit, chanVars, history, TypeOK
  <1>7. CASE HlsAdd
    <2>1. /\ hlsWriter \in Sources
          /\ hlsWriter' = hlsWriter
          /\ hlsPc' # "renew"
      BY <1>7, <1>t DEF HlsAdd, TypeOK
    <2>2. \/ UNCHANGED <<players, admitted>>
          \/ /\ players' = players \cup {hlsWriter}
             /\ admitted' = admitted \cup {hlsWriter}
      BY <1>7 DEF HlsAdd, AddPlayer
    <2>3. \A s \in Sources : s > hlsWriter => s # hlsWriter
      BY <1>t, <2>1
    <2> QED BY <1>c, <1>t, <2>1, <2>2, <2>3
  <1>8. CASE HlsReceive \/ HlsClosed
    BY <1>8, <1>c, <1>t DEF HlsReceive, HlsClosed, chanVars, history
  <1>9. CASE HlsClose
    BY <1>9, <1>c, <1>t DEF HlsClose, CloseWriter, TypeOK, chanVars, history
  <1>10. CASE HlsRenew
    BY <1>10, <1>c, <1>t DEF HlsRenew, chanVars, history
  <1> QED BY <1>2, <1>3, <1>4, <1>5, <1>6, <1>7, <1>8, <1>9, <1>10
          DEF Next, Hls, Players

-----------------------------------------------------------------------------
(* The theorems *)

\* The inductive invariant holds in every reachable state.
THEOREM ChannelInvariant == Spec => []IndInv
  <1>1. ASSUME IndInv, Next PROVE IndInv'
    BY <1>1, NextTypeOK, NextLockInv, NextCurInv, NextSinglePublisher,
       NextNoPlayerWithoutPublisher, NextNoOrphan, NextHlsInv DEF IndInv
  <1>2. ASSUME IndInv, UNCHANGED vars PROVE IndInv'
    BY <1>2 DEF IndInv, TypeOK, LockInv, CurInv, SinglePublisher, Publishing,
       NoPlayerWithoutPublisher, NoOrphan, Closing, HlsInv, vars, chanVars, pushVars,
       threadVars, writerVars, hlsVars, history
  <1> QED BY <1>1, <1>2, InitIndInv, PTL DEF Spec

\* Every variable of the channel keeps its type.
THEOREM ChannelTypes == Spec => []TypeOK
  <1>1. IndInv => TypeOK
    BY DEF IndInv
  <1> QED BY <1>1, ChannelInvariant, PTL

\* PushStart admits one publisher at a time, and inPublication says whether one
\* is there, however its critical sections interleave with the others.
THEOREM OnePublisherAtATime == Spec => []SinglePublisher
  <1>1. IndInv => SinglePublisher
    BY DEF IndInv
  <1> QED BY <1>1, ChannelInvariant, PTL

\* The map of players is empty whenever nobody publishes: kickAllPlayers, run
\* under c.mu before inPublication is cleared, misses no player that AddPlayer
\* let in.
THEOREM PlayersOnlyWhilePublishing == Spec => []NoPlayerWithoutPublisher
  <1>1. IndInv => NoPlayerWithoutPublisher
    BY DEF IndInv
  <1> QED BY <1>1, ChannelInvariant, PTL

\* No writer that AddPlayer accepted is forgotten: it is in the map, closed, or
\* some thread that removed it is about to close it.
THEOREM NoPlayerForgotten == Spec => []NoOrphan
  <1>1. IndInv => NoOrphan
    BY DEF IndInv
  <1> QED BY <1>1, ChannelInvariant, PTL

\* Packets go to no open hls.Source but the one that playlist requests read.
THEOREM OneHlsSource == Spec => []HlsSingle
  <1>1. IndInv => HlsSingle
    <2> SUFFICES ASSUME IndInv, NEW s \in Sources, s \in players, ~wClosed[s]
                 PROVE  s = hlsWriter
      BY DEF HlsSingle
    <2>1. s \in Nat /\ hlsWriter \in Nat
      BY DEF IndInv, TypeOK, Sources, NoWriter
    <2>2. ~(s > hlsWriter) /\ ~(s < hlsWriter)
      BY DEF IndInv, HlsInv
    <2> QED BY <2>1, <2>2
  <1> QED BY <1>1, ChannelInvariant, PTL

-----------------------------------------------------------------------------
(* NoGap.  The frames a writer is given are consecutive because of what the *)
(* cache of the publisher holds, of which writers were given the packet of  *)
(* the moment already, and of what is left to write to the one in turn.     *)

\* The callback of Range is about cur[p].
Calling(p) == pc[p] \in {"write", "drop", "dropclose"}

\* The packet p read last has still to be offered to w.
Pending(p, w) ==
    \/ pc[p] = "got"
    \/ (pc[p] = "range" \/ Calling(p)) /\ w \in toVisit
    \/ pc[p] = "write" /\ cur[p] = w /\ todo[p] # <<>>

\* The number of the newest frame of p, without the last packet if b.
Upto(p, b) == IF b /\ IsFrame(pkt[p]) THEN pkt[p].no - 1 ELSE pkt[p].no

\* Every cache holds a group of the frames its publisher wrote to it.
GroupInv == \A p \in Publishers : Group(cache[p], Upto(p, pc[p] = "got"))

\* Range visits writers that were admitted, the one in turn no more.
VisitInv ==
    /\ toVisit \subseteq admitted
    /\ inited \subseteq admitted
    /\ \A p \in Publishers : Calling(p) => cur[p] \in admitted \ toVisit

\* No writer is admitted twice.
OnceInv ==
    /\ \A w \in Players : handler[w] = "idle" => w \notin admitted
    /\ hlsPc = "add" => hlsWriter \notin admitted

\* What is left to write to the writer in turn.
Given(p) ==
    IF cur[p] \in inited
      THEN todo[p] \in {<<>>, <<pkt[p]>>}
      ELSE Aligned(cache[p].gop.packets, todo[p], lastFrame[cur[p]])

\* Writer w has the frames of p up to the one that it was offered last, or none
\* of a stream without a key frame so far, or the group of a full cache.
Fresh(p, w) ==
    LET g == cache[p].gop
    IN  \/ /\ lastFrame[w] = NoPacket
           /\ ~g.isComplete \/ (IsKeyFrame(pkt[p]) /\ Pending(p, w))
        \/ lastFrame[w] # NoPacket /\ lastFrame[w].no = Upto(p, Pending(p, w))
        \/ /\ Len(g.packets) = MaxGOPCap
           /\ lastFrame[w] = g.packets[MaxGOPCap]
           /\ lastFrame[w].no <= Upto(p, Pending(p, w))

\* A writer to which nothing was given has no last frame.
NewInv ==
    \A w \in Writers :
      w \notin inited /\ (\A p \in Publishers : Calling(p) => cur[p] # w) =>
        lastFrame[w] = NoPacket

\* What is left to write continues what the writer in turn was given.
GivenInv == \A p \in Publishers : pc[p] = "write" => Given(p)

\* Every writer that can still be written to is fresh.
FreshInv ==
    \A p \in Publishers, w \in inited :
      /\ Publishing(p)
      /\ ~wClosed[w]
      /\ w \in players \/ (pc[p] = "write" /\ cur[p] = w)
      => Fresh(p, w)

\* The inductive invariant of the stream.
StreamInv ==
    IndInv /\ GroupInv /\ VisitInv /\ OnceInv /\ NewInv /\ GivenInv /\ FreshInv

\* A new channel has no packet and no writer.
LEMMA InitStreamInv == Init => StreamInv
  <1> SUFFICES ASSUME Init PROVE StreamInv
    OBVIOUS
  <1> USE ChannelAssumption DEF Init, Threads
  <1>1. GroupInv
    BY GopAssumption DEF GroupInv, Group, NewCache, NewArray, NoPacket, IsFrame, FrameKinds
  <1>2. VisitInv /\ OnceInv
    BY DEF VisitInv, OnceInv, Calling
  <1>3. NewInv /\ GivenInv /\ FreshInv
    BY DEF NewInv, GivenInv, FreshInv
  <1> QED BY <1>1, <1>2, <1>3, InitIndInv DEF StreamInv

\* Writing one more packet of what Send writes.
LEMMA AlignedTail ==
    ASSUME NEW s \in Seq(Packets), \A i \in 1..Len(s) : IsFrame(s[i]),
           NEW t \in Seq(Packets), t # <<>>, NEW f, Aligned(s, t, f)
    PROVE  Aligned(s, Tail(t), IF IsFrame(Head(t)) THEN Head(t) ELSE f)
  <1> DEFINE u == Tail(t)
             e == Len(s) - Len(t)
  <1>1. /\ u \in Seq(Packets) /\ Len(u) = Len(t) - 1 /\ Len(t) \in Nat /\ Len(t) >= 1
        /\ Len(s) \in Nat /\ e \in Int
        /\ \A i \in 1..Len(u) : u[i] = t[i + 1]
        /\ Head(t) = t[1]
    OBVIOUS
  <1> HIDE DEF u
  <1>2. \A i \in 1..Len(t) : IF e + i >= 1 THEN t[i] = s[e + i] ELSE ~IsFrame(t[i])
    BY DEF Aligned
  <1>3. f = IF e < 1 THEN NoPacket ELSE s[e]
    BY DEF Aligned
  <1>4. Len(s) - Len(u) = e + 1
    BY <1>1
  <1> HIDE DEF e
  <1>5. ASSUME NEW i \in 1..Len(u)
        PROVE  IF e + 1 + i >= 1 THEN u[i] = s[e + 1 + i] ELSE ~IsFrame(u[i])
    <2>1. i + 1 \in 1..Len(t) /\ u[i] = t[i + 1] /\ e + (i + 1) = e + 1 + i
      BY <1>1
    <2>2. IF e + (i + 1) >= 1 THEN t[i + 1] = s[e + (i + 1)] ELSE ~IsFrame(t[i + 1])
      BY <1>2, <2>1
    <2> QED BY <2>1, <2>2
  <1>6. (IF IsFrame(Head(t)) THEN Head(t) ELSE f) =
          IF e + 1 < 1 THEN NoPacket ELSE s[e + 1]
    <2>1. 1 \in 1..Len(t)
      BY <1>1
    <2>2. CASE e + 1 >= 1
      <3>1. e + 1 \in 1..Len(s)
        BY <1>1, <2>2 DEF e
      <3>2. t[1] = s[e + 1]
        BY <1>2, <2>1, <2>2
      <3> QED BY <1>1, <2>2, <3>1, <3>2
    <2>3. CASE ~(e + 1 >= 1)
      <3>1. ~IsFrame(t[1])
        BY <1>2, <2>1, <2>3
      <3>2. e < 1 /\ e + 1 < 1
        BY <1>1, <2>3
      <3> QED BY <1>1, <1>3, <3>1, <3>2
    <2> QED BY <2>2, <2>3
  <1> QED BY <1>4, <1>5, <1>6 DEF Aligned, u

\* The next frame of what Send writes follows the one before.
LEMMA AlignedHead ==
    ASSUME NEW c \in CacheType, NEW n, Group(c, n), NEW t \in Seq(Packets), t # <<>>,
           NEW f, Aligned(c.gop.packets, t, f), IsFrame(Head(t))
    PROVE  \/ f # NoPacket /\ Head(t).no = f.no + 1
           \/ f = NoPacket /\ IsKeyFrame(Head(t))
  <1> DEFINE s == c.gop.packets
             e == Len(s) - Len(t)
  <1>1. /\ s \in Seq(Packets) /\ Len(s) \in Nat
        /\ Len(t) \in Nat /\ Len(t) >= 1 /\ Head(t) = t[1] /\ e \in Int
    BY DEF CacheType
  <1>2. IF e + 1 >= 1 THEN t[1] = s[e + 1] ELSE ~IsFrame(t[1])
    BY <1>1 DEF Aligned
  <1>3. e + 1 \in 1..Len(s) /\ t[1] = s[e + 1]
    BY <1>1, <1>2
  <1>4. f = IF e < 1 THEN NoPacket ELSE s[e]
    BY DEF Aligned
  <1>5. CASE e = 0
    <2>1. f = NoPacket /\ t[1] = s[1] /\ s # <<>>
      BY <1>1, <1>3, <1>4, <1>5
    <2> QED BY <1>1, <2>1 DEF Group
  <1>6. CASE e # 0
    <2>1. e \in 1..Len(s) /\ e + 1 \in 2..Len(s) /\ (e + 1) - 1 = e /\ ~(e < 1)
      BY <1>1, <1>3, <1>6
    <2>2. s[e + 1].no = s[e].no + 1 /\ IsFrame(s[e])
      BY <2>1 DEF Group
    <2>3. f = s[e]
      BY <1>4, <2>1
    <2>4. ~IsFrame(NoPacket)
      BY DEF NoPacket, IsFrame, FrameKinds
    <2> QED BY <1>1, <1>3, <2>2, <2>3, <2>4
  <1> QED BY <1>5, <1>6

\* p does not read, cache or fan out a packet.
Resting(p) == pc[p] \notin {"got", "range", "write", "drop", "dropclose"}

\* A step that writes no packet, moves no publisher into the fan-out or out of
\* it, and admits only writers that never were.
LEMMA QuietStep ==
    ASSUME StreamInv, UNCHANGED <<pushVars, lastFrame>>,
           NEW A, A \cap admitted = {}, admitted' = admitted \cup A,
           players' \subseteq players \cup A,
           toVisit' \subseteq toVisit \cup A, toVisit \subseteq toVisit',
           \A w \in Writers : wClosed[w] => wClosed'[w],
           \A p \in Publishers :
             \/ pc'[p] = pc[p] /\ cur'[p] = cur[p]
             \/ pc[p] = "drop" /\ pc'[p] = "dropclose" /\ cur'[p] = cur[p]
             \/ /\ Resting(p) /\ Resting(p)'
                /\ Publishing(p)' => Publishing(p) \/ players' = {}
    PROVE  GroupInv' /\ VisitInv' /\ NewInv' /\ GivenInv' /\ FreshInv'
  <1> USE DEF StreamInv, pushVars
  <1>1. \A p \in Publishers :
          /\ pc'[p] = "got" <=> pc[p] = "got"
          /\ pc'[p] = "range" <=> pc[p] = "range"
          /\ pc'[p] = "write" <=> pc[p] = "write"
          /\ Calling(p)' <=> Calling(p)
          /\ Calling(p) => cur'[p] = cur[p]
          /\ Publishing(p)' => Publishing(p) \/ players' = {}
    BY DEF Resting, Calling, Publishing
  <1>2. GroupInv'
    BY <1>1 DEF GroupInv, Upto
  <1>3. VisitInv'
    <2>1. toVisit' \subseteq admitted' /\ inited' \subseteq admitted'
      BY DEF VisitInv
    <2>2. ASSUME NEW p \in Publishers, Calling(p)' PROVE cur'[p] \in admitted' \ toVisit'
      BY <1>1, <2>2 DEF VisitInv
    <2> QED BY <2>1, <2>2 DEF VisitInv
  <1>4. NewInv'
    BY <1>1 DEF NewInv
  <1>5. GivenInv'
    <2> SUFFICES ASSUME NEW p \in Publishers, pc'[p] = "write" PROVE Given(p)'
      BY DEF GivenInv
    <2>1. Given(p) /\ cur'[p] = cur[p]
      BY <1>1 DEF GivenInv, Calling
    <2> QED BY <2>1 DEF Given
  <1>6. FreshInv'
    <2> SUFFICES ASSUME NEW p \in Publishers, NEW w \in inited',
                        Publishing(p)', ~wClosed'[w],
                        w \in players' \/ (pc'[p] = "write" /\ cur'[p] = w)
                 PROVE  Fresh(p, w)'
      BY DEF FreshInv
    <2>1. w \in inited /\ w \in Writers /\ w \in admitted /\ w \notin A /\ ~wClosed[w]
      BY DEF VisitInv, IndInv, TypeOK
    <2>2. w \in players \/ (pc[p] = "write" /\ cur[p] = w)
      BY <1>1, <2>1 DEF Calling
    <2>3. Publishing(p)
      BY <1>1, <2>1 DEF Publishing
    <2>4. Fresh(p, w)
      BY <2>1, <2>2, <2>3 DEF FreshInv
    <2>5. w \in toVisit' <=> w \in toVisit
      BY <2>1
    <2>6. Pending(p, w)' <=> Pending(p, w)
      BY <1>1, <2>5 DEF Pending, Calling
    <2> QED BY <2>4, <2>6 DEF Fresh, Upto
  <1> QED BY <1>2, <1>3, <1>4, <1>5, <1>6

\* A step of the publisher in its publication: the others are not there.
LEMMA PublisherStep ==
    ASSUME StreamInv, NEW p \in Publishers, Publishing(p),
           \A q \in Publishers \ {p} :
             pc'[q] = pc[q] /\ cache'[q] = cache[q] /\ pkt'[q] = pkt[q],
           Group(cache'[p], Upto(p, pc[p] = "got")'),
           toVisit' \subseteq admitted', inited' \subseteq admitted',
           Calling(p)' => cur'[p] \in admitted' \ toVisit',
           \A w \in Writers :
             w \notin inited' /\ (Calling(p)' => cur'[p] # w) => lastFrame'[w] = NoPacket,
           pc'[p] = "write" => Given(p)',
           \A w \in inited' :
             ~wClosed'[w] /\ (w \in players' \/ (pc'[p] = "write" /\ cur'[p] = w)) =>
               Fresh(p, w)'
    PROVE  GroupInv' /\ VisitInv' /\ NewInv' /\ GivenInv' /\ FreshInv'
  <1>1. \A q \in Publishers \ {p} :
          /\ pc[q] \in {"idle", "done"} /\ pc'[q] \in {"idle", "done"}
          /\ ~Publishing(q)' /\ ~Calling(q)'
    BY DEF StreamInv, IndInv, SinglePublisher, Publishing, Calling
  <1>2. GroupInv'
    <2> SUFFICES ASSUME NEW q \in Publishers
                 PROVE  Group(cache'[q], Upto(q, pc[q] = "got")')
      BY DEF GroupInv
    <2>1. CASE q = p
      BY <2>1
    <2>2. CASE q # p
      <3>1. Group(cache[q], Upto(q, pc[q] = "got"))
        BY DEF StreamInv, GroupInv
      <3> QED BY <1>1, <2>2, <3>1 DEF Upto
    <2> QED BY <2>1, <2>2
  <1>3. VisitInv'
    BY <1>1 DEF VisitInv
  <1>4. NewInv'
    BY <1>1 DEF NewInv
  <1>5. GivenInv'
    BY <1>1 DEF GivenInv
  <1>6. FreshInv'
    BY <1>1 DEF FreshInv
  <1> QED BY <1>2, <1>3, <1>4, <1>5, <1>6

\* Read: the new packet is pending for everybody.
LEMMA ReadStep ==
    ASSUME StreamInv, NEW p \in Publishers, NEW k \in StreamKinds, Read(p, k)
    PROVE  GroupInv' /\ VisitInv' /\ NewInv' /\ GivenInv' /\ FreshInv'
  <1> USE DEF StreamInv, chanVars, writerVars, hlsVars, history
  <1>1. /\ Publishing(p) /\ pc[p] = "read" /\ pc'[p] = "got"
        /\ \A q \in Publishers \ {p} : pc'[q] = pc[q] /\ pkt'[q] = pkt[q]
        /\ UNCHANGED <<cache, inited, todo, cur, toVisit, lastFrame, wClosed, players, admitted>>
    BY DEF Read, Goto, Publishing, IndInv, TypeOK, Threads
  <1>2. /\ pkt'[p] = [kind |-> k, no |-> pkt[p].no + (IF k \in FrameKinds THEN 1 ELSE 0)]
        /\ pkt[p].no \in Int
    BY DEF Read, IndInv, TypeOK, Packets, NoPacket
  <1>3. Upto(p, TRUE)' = pkt[p].no
    BY <1>2 DEF Upto, IsFrame, FrameKinds
  <1>4. Group(cache'[p], Upto(p, pc[p] = "got")')
    <2>1. Group(cache[p], pkt[p].no)
      BY <1>1 DEF GroupInv, Upto
    <2>2. Upto(p, pc[p] = "got")' = Upto(p, TRUE)'
      BY <1>1 DEF Upto
    <2> QED BY <1>1, <1>3, <2>1, <2>2
  <1>5. /\ toVisit' \subseteq admitted' /\ inited' \subseteq admitted'
        /\ ~Calling(p) /\ ~Calling(p)'
    BY <1>1 DEF VisitInv, Calling
  <1>6. \A w \in Writers : w \notin inited' => lastFrame'[w] = NoPacket
    <2>1. \A q \in Publishers : ~Calling(q)
      BY <1>1, <1>5 DEF IndInv, SinglePublisher, Publishing, Calling
    <2> QED BY <1>1, <2>1 DEF NewInv
  <1>7. ASSUME NEW w \in inited', ~wClosed'[w],
               w \in players' \/ (pc'[p] = "write" /\ cur'[p] = w)
        PROVE  Fresh(p, w)'
    <2>1. Fresh(p, w)
      BY <1>1, <1>7 DEF FreshInv
    <2>2. ~Pending(p, w) /\ Pending(p, w)'
      BY <1>1, <1>5 DEF Pending
    <2>3. Upto(p, Pending(p, w)) = pkt[p].no /\ Upto(p, Pending(p, w))' = pkt[p].no
      BY <1>3, <2>2 DEF Upto
    <2> QED BY <1>1, <2>1, <2>2, <2>3 DEF Fresh
  <1> QED BY <1>1, <1>4, <1>5, <1>6, <1>7, PublisherStep

\* CacheAndRange: the packet is cached and stays pending for everybody.
LEMMA CacheStep ==
    ASSUME StreamInv, NEW p \in Publishers, CacheAndRange(p)
    PROVE  GroupInv' /\ VisitInv' /\ NewInv' /\ GivenInv' /\ FreshInv'
  <1> USE DEF StreamInv, chanVars, writerVars, hlsVars, history
  <1>1. /\ Publishing(p) /\ pc[p] = "got" /\ pc'[p] = "range"
        /\ \A q \in Publishers \ {p} : pc'[q] = pc[q] /\ cache'[q] = cache[q]
        /\ cache'[p] = CacheWrite(cache[p], pkt[p])
        /\ toVisit' = players
        /\ UNCHANGED <<pkt, inited, todo, cur, lastFrame, wClosed, players, admitted>>
    BY DEF CacheAndRange, Goto, Publishing, IndInv, TypeOK, Threads
  <1>2. pkt[p] \in Packets /\ cache[p] \in CacheType /\ pkt[p].no \in Nat
    BY <1>1 DEF IndInv, TypeOK, Packets
  <1>3. Group(cache[p], Upto(p, TRUE))
    BY <1>1 DEF GroupInv, Upto
  <1>4. Group(cache'[p], Upto(p, pc[p] = "got")')
    <2>1. /\ Upto(p, TRUE) \in Int
          /\ IsFrame(pkt[p]) => pkt[p].no = Upto(p, TRUE) + 1
          /\ ~IsFrame(pkt[p]) => pkt[p].no = Upto(p, TRUE)
      BY <1>2 DEF Upto
    <2>2. Group(cache'[p], IF IsFrame(pkt[p]) THEN pkt[p].no ELSE Upto(p, TRUE))
      BY <1>1, <1>2, <1>3, <2>1, CacheWriteGroup
    <2>3. Upto(p, pc[p] = "got")' = pkt[p].no
      BY <1>1 DEF Upto
    <2> QED BY <2>1, <2>2, <2>3
  <1>5. /\ toVisit' \subseteq admitted' /\ inited' \subseteq admitted'
        /\ ~Calling(p) /\ ~Calling(p)'
    BY <1>1 DEF VisitInv, Calling, IndInv, HlsInv
  <1>6. \A w \in Writers : w \notin inited' => lastFrame'[w] = NoPacket
    <2>1. \A q \in Publishers : ~Calling(q)
      BY <1>1, <1>5 DEF IndInv, SinglePublisher, Publishing, Calling
    <2> QED BY <1>1, <2>1 DEF NewInv
  <1>7. ASSUME NEW w \in inited', ~wClosed'[w],
               w \in players' \/ (pc'[p] = "write" /\ cur'[p] = w)
        PROVE  Fresh(p, w)'
    <2>1. Fresh(p, w) /\ w \in players
      BY <1>1, <1>7 DEF FreshInv
    <2>2. Pending(p, w) /\ Pending(p, w)'
      BY <1>1, <2>1 DEF Pending
    <2>3. Upto(p, Pending(p, w))' = Upto(p, Pending(p, w))
      BY <1>1, <2>2 DEF Upto
    <2>4. /\ Len(cache[p].gop.packets) >= MaxGOPCap => cache'[p].gop = cache[p].gop
          /\ ~cache[p].gop.isComplete /\ ~IsKeyFrame(pkt[p]) =>
               cache'[p].gop = cache[p].gop
      BY <1>1, <1>2, CacheWriteGop
    <2>5. CASE lastFrame[w] = NoPacket /\ ~cache[p].gop.isComplete
      BY <1>1, <2>2, <2>4, <2>5 DEF Fresh
    <2>6. CASE lastFrame[w] = NoPacket /\ IsKeyFrame(pkt[p])
      BY <1>1, <2>2, <2>6 DEF Fresh
    <2>7. CASE lastFrame[w] # NoPacket /\ lastFrame[w].no = Upto(p, Pending(p, w))
      BY <1>1, <2>3, <2>7 DEF Fresh
    <2>8. CASE /\ Len(cache[p].gop.packets) = MaxGOPCap
               /\ lastFrame[w] = cache[p].gop.packets[MaxGOPCap]
               /\ lastFrame[w].no <= Upto(p, Pending(p, w))
      <3>1. cache'[p].gop = cache[p].gop
        BY <2>4, <2>8, GopAssumption
      <3> QED BY <1>1, <2>3, <2>8, <3>1 DEF Fresh
    <2> QED BY <2>1, <2>5, <2>6, <2>7, <2>8 DEF Fresh
  <1> QED BY <1>1, <1>4, <1>5, <1>6, <1>7, PublisherStep

\* RangeNext: w gets the packet, or the cache that holds it.
LEMMA RangeNextStep ==
    ASSUME StreamInv, NEW p \in Publishers, NEW v \in Writers, RangeNext(p, v)
    PROVE  GroupInv' /\ VisitInv' /\ NewInv' /\ GivenInv' /\ FreshInv'
  <1> USE DEF StreamInv, chanVars, writerVars, hlsVars, history
  <1>1. /\ Publishing(p) /\ pc[p] = "range" /\ pc'[p] = "write"
        /\ v \in toVisit \cap players
        /\ cur'[p] = v
        /\ \A q \in Publishers \ {p} : pc'[q] = pc[q] /\ todo'[q] = todo[q]
        /\ todo'[p] = IF v \in inited THEN <<pkt[p]>> ELSE CacheSend(cache[p])
        /\ toVisit' = toVisit \ {v}
        /\ UNCHANGED <<pkt, cache, inited, lastFrame, wClosed, players, admitted>>
    BY DEF RangeNext, Goto, Publishing, IndInv, TypeOK, Threads
  <1>2. Group(cache[p], Upto(p, pc[p] = "got")) /\ cache[p] \in CacheType
    BY DEF GroupInv, IndInv, TypeOK
  <1>3. Group(cache'[p], Upto(p, pc[p] = "got")')
    BY <1>1, <1>2 DEF Upto
  <1>4. /\ toVisit' \subseteq admitted' /\ inited' \subseteq admitted'
        /\ cur'[p] \in admitted' \ toVisit'
        /\ Calling(p)' /\ ~Calling(p)
    BY <1>1 DEF VisitInv, Calling
  <1>5. \A w \in Writers : w \notin inited => lastFrame[w] = NoPacket
    <2>1. \A q \in Publishers : ~Calling(q)
      BY <1>1, <1>4 DEF IndInv, SinglePublisher, Publishing, Calling
    <2> QED BY <1>1, <2>1 DEF NewInv
  <1>6. Given(p)'
    <2>1. CASE v \in inited
      BY <1>1, <2>1 DEF Given
    <2>2. CASE v \notin inited
      <3>1. Aligned(cache[p].gop.packets, CacheSend(cache[p]), NoPacket)
        BY <1>2, CacheSendAligned
      <3> QED BY <1>1, <1>5, <2>2, <3>1 DEF Given
    <2> QED BY <2>1, <2>2
  <1>7. ASSUME NEW w \in inited', ~wClosed'[w],
               w \in players' \/ (pc'[p] = "write" /\ cur'[p] = w)
        PROVE  Fresh(p, w)'
    <2>1. Fresh(p, w) /\ w \in inited
      BY <1>1, <1>7 DEF FreshInv
    <2>2. Pending(p, w)' <=> Pending(p, w)
      <3>1. CASE w = v
        <4>1. todo'[p] # <<>>
          BY <1>1, <2>1, <3>1
        <4> QED BY <1>1, <3>1, <4>1 DEF Pending
      <3>2. CASE w # v
        BY <1>1, <1>4, <3>2 DEF Pending
      <3> QED BY <3>1, <3>2
    <2> QED BY <1>1, <2>1, <2>2 DEF Fresh, Upto
  <1> QED BY <1>1, <1>3, <1>4, <1>5, <1>6, <1>7, PublisherStep

\* The writer in turn is one that was admitted, and nobody else writes to it.
LEMMA OnlyCaller ==
    ASSUME StreamInv, NEW p \in Publishers, Calling(p)
    PROVE  /\ Publishing(p)
           /\ cur[p] \in Writers
           /\ \A q \in Publishers \ {p} : ~Calling(q)
  BY DEF StreamInv, IndInv, CurInv, SinglePublisher, Publishing, Calling, Threads

\* WriteNext on a closed writer: it is given up.
LEMMA WriteFailsStep ==
    ASSUME StreamInv, NEW p \in Publishers, WriteNext(p), wClosed[cur[p]]
    PROVE  GroupInv' /\ VisitInv' /\ NewInv' /\ GivenInv' /\ FreshInv'
  <1> USE DEF StreamInv, chanVars, writerVars, hlsVars, history
  <1>1. /\ pc[p] = "write" /\ pc'[p] = "drop"
        /\ \A q \in Publishers \ {p} : pc'[q] = pc[q]
        /\ UNCHANGED <<pkt, cache, inited, lastFrame, wClosed, players, admitted, cur,
                       toVisit>>
    BY DEF WriteNext, Goto, IndInv, TypeOK, Threads
  <1>2. /\ Calling(p) /\ Calling(p)' /\ Publishing(p) /\ cur[p] \in Writers
        /\ \A q \in Publishers \ {p} : ~Calling(q)
    BY <1>1, OnlyCaller DEF Calling
  <1>3. Group(cache'[p], Upto(p, pc[p] = "got")')
    <2>1. Group(cache[p], Upto(p, pc[p] = "got"))
      BY DEF GroupInv
    <2> QED BY <1>1, <2>1 DEF Upto
  <1>4. /\ toVisit' \subseteq admitted' /\ inited' \subseteq admitted'
        /\ cur'[p] \in admitted' \ toVisit'
    BY <1>1, <1>2 DEF VisitInv
  <1>5. \A w \in Writers : w \notin inited' /\ cur'[p] # w => lastFrame'[w] = NoPacket
    BY <1>1, <1>2 DEF NewInv
  <1>6. ASSUME NEW w \in inited', ~wClosed'[w],
               w \in players' \/ (pc'[p] = "write" /\ cur'[p] = w)
        PROVE  Fresh(p, w)'
    <2>1. Fresh(p, w) /\ w # cur[p]
      BY <1>1, <1>2, <1>6 DEF FreshInv
    <2>2. Pending(p, w)' <=> Pending(p, w)
      BY <1>1, <1>2, <2>1 DEF Pending
    <2> QED BY <1>1, <2>1, <2>2 DEF Fresh, Upto
  <1> QED BY <1>1, <1>2, <1>3, <1>4, <1>5, <1>6, PublisherStep

\* WriteNext on an open writer: it has one packet more.
LEMMA WriteStep ==
    ASSUME StreamInv, NEW p \in Publishers, WriteNext(p), ~wClosed[cur[p]]
    PROVE  GroupInv' /\ VisitInv' /\ NewInv' /\ GivenInv' /\ FreshInv'
  <1> USE DEF StreamInv, chanVars, writerVars, hlsVars, history
  <1> DEFINE v == cur[p]
             f == IF IsFrame(Head(todo[p])) THEN Head(todo[p]) ELSE lastFrame[v]
  <1>1. /\ pc[p] = "write" /\ todo[p] # <<>> /\ todo[p] \in Seq(Packets)
        /\ todo' = [todo EXCEPT ![p] = Tail(todo[p])]
        /\ lastFrame' = IF IsFrame(Head(todo[p]))
                          THEN [lastFrame EXCEPT ![v] = Head(todo[p])]
                          ELSE lastFrame
        /\ UNCHANGED <<pc, pkt, cache, inited, wClosed, players, admitted, cur, toVisit>>
    BY DEF WriteNext, IndInv, TypeOK, Threads
  <1>2. /\ Calling(p) /\ Calling(p)' /\ Publishing(p) /\ v \in Writers
        /\ \A q \in Publishers \ {p} : ~Calling(q)
    BY <1>1, OnlyCaller DEF Calling
  <1>3. /\ todo'[p] = Tail(todo[p])
        /\ lastFrame'[v] = f
        /\ \A w \in Writers \ {v} : lastFrame'[w] = lastFrame[w]
    BY <1>1, <1>2 DEF IndInv, TypeOK
  <1>4. Group(cache'[p], Upto(p, pc[p] = "got")')
    <2>1. Group(cache[p], Upto(p, pc[p] = "got"))
      BY DEF GroupInv
    <2> QED BY <1>1, <2>1 DEF Upto
  <1>5. /\ toVisit' \subseteq admitted' /\ inited' \subseteq admitted'
        /\ cur'[p] \in admitted' \ toVisit' /\ inited \subseteq Writers
    BY <1>1, <1>2 DEF VisitInv, IndInv, TypeOK
  <1>6. \A w \in Writers : w \notin inited' /\ cur'[p] # w => lastFrame'[w] = NoPacket
    BY <1>1, <1>2, <1>3 DEF NewInv
  <1>7. Given(p) /\ (v \in inited => todo[p] = <<pkt[p]>> /\ todo'[p] = <<>>)
    <2>1. Given(p)
      BY <1>1 DEF GivenInv
    <2>2. Tail(<<pkt[p]>>) = <<>>
      OBVIOUS
    <2> QED BY <1>1, <1>3, <2>1, <2>2 DEF Given
  <1>8. Given(p)'
    <2>1. CASE v \in inited
      BY <1>1, <1>7, <2>1 DEF Given
    <2>2. CASE v \notin inited
      <3> DEFINE s == cache[p].gop.packets
      <3>1. /\ s \in Seq(Packets)
            /\ \A i \in 1..Len(s) : IsFrame(s[i])
        BY DEF GroupInv, Group, IndInv, TypeOK, CacheType
      <3>2. Aligned(s, todo[p], lastFrame[v])
        BY <1>7, <2>2 DEF Given
      <3>3. Aligned(s, Tail(todo[p]), f)
        BY <1>1, <3>1, <3>2, AlignedTail
      <3> QED BY <1>1, <1>3, <2>2, <3>3 DEF Given
    <2> QED BY <2>1, <2>2
  <1>9. ASSUME NEW w \in inited', ~wClosed'[w],
               w \in players' \/ (pc'[p] = "write" /\ cur'[p] = w)
        PROVE  Fresh(p, w)'
    <2>1. Fresh(p, w) /\ w \in inited /\ w \in Writers
      BY <1>1, <1>2, <1>5, <1>9 DEF FreshInv
    <2>2. CASE w # v
      <3>1. Pending(p, w)' <=> Pending(p, w)
        BY <1>1, <1>2, <2>2 DEF Pending, Calling
      <3>2. lastFrame'[w] = lastFrame[w]
        BY <1>3, <2>1, <2>2
      <3> QED BY <1>1, <2>1, <3>1, <3>2 DEF Fresh, Upto
    <2>3. CASE w = v
      <3>1. Pending(p, w) /\ ~Pending(p, w)' /\ Head(todo[p]) = pkt[p]
        BY <1>1, <1>2, <1>3, <1>5, <1>7, <2>1, <2>3 DEF Pending, Calling
      <3>2. Upto(p, Pending(p, w))' = pkt[p].no
        BY <1>1, <3>1 DEF Upto
      <3>3. CASE IsFrame(pkt[p])
        <4>1. lastFrame'[w] = pkt[p]
          BY <1>3, <2>3, <3>1, <3>3
        <4>2. pkt[p] # NoPacket
          BY <3>3 DEF IsFrame, FrameKinds, NoPacket
        <4> QED BY <3>2, <4>1, <4>2 DEF Fresh
      <3>4. CASE ~IsFrame(pkt[p])
        <4>1. lastFrame'[w] = lastFrame[w]
          BY <1>3, <2>3, <3>1, <3>4
        <4>2. Upto(p, Pending(p, w)) = pkt[p].no /\ ~IsKeyFrame(pkt[p])
          BY <3>4 DEF Upto, IsFrame, FrameKinds, IsKeyFrame
        <4> QED BY <1>1, <2>1, <3>2, <4>1, <4>2 DEF Fresh
      <3> QED BY <3>3, <3>4
    <2> QED BY <2>2, <2>3
  <1> QED BY <1>1, <1>2, <1>4, <1>5, <1>6, <1>8, <1>9, PublisherStep

\* WriteDone: the writer in turn was given all.
LEMMA WriteDoneStep ==
    ASSUME StreamInv, NEW p \in Publishers, WriteDone(p)
    PROVE  GroupInv' /\ VisitInv' /\ NewInv' /\ GivenInv' /\ FreshInv'
  <1> USE DEF StreamInv, chanVars, writerVars, hlsVars, history
  <1> DEFINE v == cur[p]
  <1>1. /\ pc[p] = "write" /\ pc'[p] = "range" /\ todo[p] = <<>>
        /\ \A q \in Publishers \ {p} : pc'[q] = pc[q]
        /\ inited' = inited \cup {v}
        /\ UNCHANGED <<pkt, cache, todo, lastFrame, wClosed, players, admitted, toVisit>>
    BY DEF WriteDone, Goto, IndInv, TypeOK, Threads
  <1>2. /\ Calling(p) /\ ~Calling(p)' /\ Publishing(p) /\ v \in Writers
        /\ \A q \in Publishers \ {p} : ~Calling(q)
    BY <1>1, OnlyCaller DEF Calling
  <1>3. Group(cache[p], pkt[p].no)
    BY <1>1 DEF GroupInv, Upto
  <1>4. Group(cache'[p], Upto(p, pc[p] = "got")')
    BY <1>1, <1>3 DEF Upto
  <1>5. v \in admitted \ toVisit
    BY <1>2 DEF VisitInv
  <1>6. toVisit' \subseteq admitted' /\ inited' \subseteq admitted'
    BY <1>1, <1>5 DEF VisitInv
  <1>7. \A w \in Writers : w \notin inited' => lastFrame'[w] = NoPacket
    BY <1>1, <1>2 DEF NewInv
  <1>8. ASSUME NEW w \in inited', ~wClosed'[w],
               w \in players' \/ (pc'[p] = "write" /\ cur'[p] = w)
        PROVE  Fresh(p, w)'
    <2>1. CASE w \in inited
      <3>1. Fresh(p, w)
        BY <1>1, <1>2, <1>8, <2>1 DEF FreshInv
      <3>2. Pending(p, w)' <=> Pending(p, w)
        BY <1>1, <1>2 DEF Pending
      <3> QED BY <1>1, <3>1, <3>2 DEF Fresh, Upto
    <2>2. CASE w \notin inited
      <3> DEFINE g == cache[p].gop
                 s == cache[p].gop.packets
      <3>1. w = v /\ ~Pending(p, w)'
        BY <1>1, <1>2, <1>5, <2>2 DEF Pending
      <3>2. Upto(p, Pending(p, w))' = pkt[p].no
        BY <1>1, <3>1 DEF Upto
      <3>3. s \in Seq(Packets) /\ Len(s) \in Nat /\ g.isComplete \in BOOLEAN
        BY DEF IndInv, TypeOK, CacheType
      <3>4. Aligned(s, <<>>, lastFrame[w])
        BY <1>1, <2>2, <3>1 DEF GivenInv, Given
      <3>5. Len(<<>>) = 0 /\ Len(s) - 0 = Len(s)
        BY <3>3
      <3>6. lastFrame[w] = IF Len(s) < 1 THEN NoPacket ELSE s[Len(s)]
        BY <3>4, <3>5 DEF Aligned
      <3>7. CASE s = <<>>
        <4>1. lastFrame[w] = NoPacket /\ ~g.isComplete
          BY <1>3, <3>6, <3>7 DEF Group
        <4> QED BY <1>1, <4>1 DEF Fresh
      <3>8. CASE s # <<>>
        <4>1. Len(s) >= 1 /\ lastFrame[w] = s[Len(s)] /\ Len(s) <= MaxGOPCap
          BY <1>3, <3>3, <3>6, <3>8 DEF Group
        <4>2. CASE Len(s) = MaxGOPCap
          <5>1. s[Len(s)].no <= pkt[p].no
            BY <1>3, <3>8 DEF Group
          <5> QED BY <1>1, <3>2, <4>1, <4>2, <5>1 DEF Fresh
        <4>3. CASE Len(s) # MaxGOPCap
          <5>1. Len(s) < MaxGOPCap
            BY <3>3, <4>1, <4>3, GopAssumption
          <5>2. s[Len(s)].no = pkt[p].no
            BY <1>3, <3>8, <5>1 DEF Group
          <5>3. IsFrame(s[Len(s)])
            BY <1>3, <3>3, <4>1 DEF Group
          <5>4. s[Len(s)] # NoPacket
            BY <5>3 DEF IsFrame, FrameKinds, NoPacket
          <5> QED BY <1>1, <3>2, <4>1, <5>2, <5>4 DEF Fresh
        <4> QED BY <4>2, <4>3
      <3> QED BY <3>7, <3>8
    <2> QED BY <2>1, <2>2
  <1> QED BY <1>1, <1>2, <1>4, <1>6, <1>7, <1>8, PublisherStep

\* DropClose: the writer in turn is closed and counts as initialised.
LEMMA DropCloseStep ==
    ASSUME StreamInv, NEW p \in Publishers, DropClose(p)
    PROVE  GroupInv' /\ VisitInv' /\ NewInv' /\ GivenInv' /\ FreshInv'
  <1> USE DEF StreamInv, chanVars, writerVars, hlsVars, history
  <1> DEFINE v == cur[p]
  <1>1. /\ pc[p] = "dropclose" /\ pc'[p] = "range"
        /\ \A q \in Publishers \ {p} : pc'[q] = pc[q]
        /\ inited' = inited \cup {v}
        /\ wClosed' = [wClosed EXCEPT ![v] = TRUE]
        /\ UNCHANGED <<pkt, cache, todo, lastFrame, players, admitted, toVisit>>
    BY DEF DropClose, CloseWriter, Goto, IndInv, TypeOK, Threads
  <1>2. /\ Calling(p) /\ ~Calling(p)' /\ Publishing(p) /\ v \in Writers
        /\ \A q \in Publishers \ {p} : ~Calling(q)
    BY <1>1, OnlyCaller DEF Calling
  <1>3. Group(cache'[p], Upto(p, pc[p] = "got")')
    <2>1. Group(cache[p], Upto(p, pc[p] = "got"))
      BY DEF GroupInv
    <2> QED BY <1>1, <2>1 DEF Upto
  <1>4. v \in admitted \ toVisit
    BY <1>2 DEF VisitInv
  <1>5. /\ toVisit' \subseteq admitted' /\ inited' \subseteq admitted'
        /\ inited \subseteq Writers
    BY <1>1, <1>4 DEF VisitInv, IndInv, TypeOK
  <1>6. \A w \in Writers : w \notin inited' => lastFrame'[w] = NoPacket
    BY <1>1, <1>2 DEF NewInv
  <1>7. ASSUME NEW w \in inited', ~wClosed'[w],
               w \in players' \/ (pc'[p] = "write" /\ cur'[p] = w)
        PROVE  Fresh(p, w)'
    <2>1. w # v /\ w \in inited /\ ~wClosed[w]
      BY <1>1, <1>2, <1>5, <1>7 DEF IndInv, TypeOK
    <2>2. Fresh(p, w)
      BY <1>1, <1>2, <1>7, <2>1 DEF FreshInv
    <2>3. Pending(p, w)' <=> Pending(p, w)
      BY <1>1, <1>2 DEF Pending
    <2> QED BY <1>1, <2>2, <2>3 DEF Fresh, Upto
  <1> QED BY <1>1, <1>2, <1>3, <1>5, <1>6, <1>7, PublisherStep

\* RangeEnd: everybody in the map was visited.
LEMMA RangeEndStep ==
    ASSUME StreamInv, NEW p \in Publishers, RangeEnd(p)
    PROVE  GroupInv' /\ VisitInv' /\ NewInv' /\ GivenInv' /\ FreshInv'
  <1> USE DEF StreamInv, chanVars, pushVars, writerVars, hlsVars, history
  <1>1. /\ pc[p] = "range" /\ pc'[p] = "top" /\ Publishing(p)
        /\ ~Calling(p) /\ ~Calling(p)'
        /\ \A q \in Publishers \ {p} : pc'[q] = pc[q]
        /\ toVisit \cap players = {} /\ toVisit' = {}
        /\ UNCHANGED <<pkt, cache, inited, todo, lastFrame, wClosed, players, admitted, cur>>
    BY DEF RangeEnd, Goto, IndInv, TypeOK, Threads, Publishing, Calling
  <1>2. Group(cache'[p], Upto(p, pc[p] = "got")')
    <2>1. Group(cache[p], Upto(p, pc[p] = "got"))
      BY DEF GroupInv
    <2> QED BY <1>1, <2>1 DEF Upto
  <1>3. toVisit' \subseteq admitted' /\ inited' \subseteq admitted'
    BY <1>1 DEF VisitInv
  <1>4. \A w \in Writers : w \notin inited' => lastFrame'[w] = NoPacket
    <2>1. \A q \in Publishers : ~Calling(q)
      BY <1>1 DEF IndInv, SinglePublisher, Publishing, Calling
    <2> QED BY <1>1, <2>1 DEF NewInv
  <1>5. ASSUME NEW w \in inited', ~wClosed'[w],
               w \in players' \/ (pc'[p] = "write" /\ cur'[p] = w)
        PROVE  Fresh(p, w)'
    <2>1. Fresh(p, w) /\ w \in players
      BY <1>1, <1>5 DEF FreshInv
    <2>2. ~Pending(p, w) /\ ~Pending(p, w)'
      BY <1>1, <2>1 DEF Pending
    <2> QED BY <1>1, <2>1, <2>2 DEF Fresh, Upto
  <1> QED BY <1>1, <1>2, <1>3, <1>4, <1>5, PublisherStep

\* A publisher's step.
LEMMA PushStreamInv ==
    ASSUME StreamInv, NEW p \in Publishers, Push(p), IndInv'
    PROVE  GroupInv' /\ VisitInv' /\ NewInv' /\ GivenInv' /\ FreshInv'
  <1> USE DEF chanVars, pushVars, writerVars, hlsVars, history
  <1>1. CASE PushStart(p) \/ CheckClosed(p) \/ ReadError(p) \/ Exit(p)
    <2>1. /\ UNCHANGED <<pushVars, lastFrame, players, toVisit, admitted, wClosed>>
          /\ \A q \in Publishers \ {p} : pc'[q] = pc[q] /\ cur'[q] = cur[q]
          /\ Resting(p) /\ Resting(p)'
      BY <1>1 DEF PushStart, CheckClosed, ReadError, Exit, Goto, Resting, StreamInv,
                  IndInv, TypeOK, Threads
    <2>2. Publishing(p)' => Publishing(p) \/ players' = {}
      <3>1. CASE Publishing(p)
        BY <3>1
      <3>2. CASE ~Publishing(p) /\ Publishing(p)'
        <4>1. PushStart(p) /\ ~inPublication
          BY <1>1, <3>2 DEF PushStart, CheckClosed, ReadError, Exit, Goto, Publishing,
                            StreamInv, IndInv, TypeOK, Threads
        <4> QED BY <2>1, <4>1 DEF StreamInv, IndInv, NoPlayerWithoutPublisher
      <3> QED BY <3>1, <3>2
    <2>3. /\ {} \cap admitted = {} /\ admitted' = admitted \cup {}
          /\ players' \subseteq players \cup {}
          /\ toVisit' \subseteq toVisit \cup {} /\ toVisit \subseteq toVisit'
          /\ \A w \in Writers : wClosed[w] => wClosed'[w]
      BY <2>1
    <2>4. \A q \in Publishers :
            \/ pc'[q] = pc[q] /\ cur'[q] = cur[q]
            \/ /\ Resting(q) /\ Resting(q)'
               /\ Publishing(q)' => Publishing(q) \/ players' = {}
      BY <2>1, <2>2
    <2>5. UNCHANGED <<pushVars, lastFrame>>
      BY <2>1
    <2> QED BY <2>3, <2>4, <2>5, QuietStep
  <1>2. CASE DropPlayer(p)
    <2>1. /\ UNCHANGED <<pushVars, lastFrame, toVisit, admitted, wClosed, cur>>
          /\ players' \subseteq players
          /\ pc[p] = "drop" /\ pc'[p] = "dropclose"
          /\ \A q \in Publishers \ {p} : pc'[q] = pc[q]
      BY <1>2 DEF DropPlayer, Goto, StreamInv, IndInv, TypeOK, Threads
    <2>2. /\ {} \cap admitted = {} /\ admitted' = admitted \cup {}
          /\ players' \subseteq players \cup {}
          /\ toVisit' \subseteq toVisit \cup {} /\ toVisit \subseteq toVisit'
          /\ \A w \in Writers : wClosed[w] => wClosed'[w]
      BY <2>1
    <2>3. \A q \in Publishers :
            \/ pc'[q] = pc[q] /\ cur'[q] = cur[q]
            \/ pc[q] = "drop" /\ pc'[q] = "dropclose" /\ cur'[q] = cur[q]
      BY <2>1
    <2>4. UNCHANGED <<pushVars, lastFrame>>
      BY <2>1
    <2> QED BY <2>2, <2>3, <2>4, QuietStep
  <1>3. ASSUME NEW k \in StreamKinds, Read(p, k)
        PROVE  GroupInv' /\ VisitInv' /\ NewInv' /\ GivenInv' /\ FreshInv'
    BY <1>3, ReadStep
  <1>4. ASSUME NEW w \in Writers, RangeNext(p, w)
        PROVE  GroupInv' /\ VisitInv' /\ NewInv' /\ GivenInv' /\ FreshInv'
    BY <1>4, RangeNextStep
  <1> QED BY <1>1, <1>2, <1>3, <1>4, CacheStep, WriteFailsStep, WriteStep, WriteDoneStep,
             DropCloseStep, RangeEndStep DEF Push

\* kickAllPlayers, Close and DelPlayer.
LEMMA KickStreamInv ==
    ASSUME StreamInv, NEW t \in Threads, KickAll(t) \/ (t \in Admins /\ Admin(t)), Next
    PROVE  GroupInv' /\ VisitInv' /\ NewInv' /\ GivenInv' /\ FreshInv'
  <1>1. UNCHANGED <<pushVars, lastFrame, toVisit>>
    BY DEF KickAll, Admin, Kick, KickClose, KickDone, Close, DelPlayer, DelClose, history
  <1>2. players' \subseteq players /\ admitted' = admitted
    BY KickPlayers
  <1>3. \A w \in Writers : wClosed[w] => wClosed'[w]
    BY ClosedForGood DEF StreamInv, IndInv
  <1>4. ASSUME NEW p \in Publishers
        PROVE  \/ pc'[p] = pc[p] /\ cur'[p] = cur[p]
               \/ /\ Resting(p) /\ Resting(p)'
                  /\ Publishing(p)' => Publishing(p)
    <2>1. CASE p # t
      BY <2>1, KickThreadStep DEF ThreadStep, StreamInv, IndInv, Threads
    <2>2. CASE p = t
      <3>1. KickAll(p)
        BY <2>2, ChannelAssumption
      <3>2. /\ pc[p] \in {"kick", "kickclose"}
            /\ pc'[p] \in {"kick", "kickclose", "done"}
        BY <3>1 DEF KickAll, Kick, KickClose, KickDone, Goto, StreamInv, IndInv, TypeOK,
                    Threads
      <3> QED BY <3>2 DEF Resting, Publishing
    <2> QED BY <2>1, <2>2
  <1>5. /\ {} \cap admitted = {} /\ admitted' = admitted \cup {}
        /\ players' \subseteq players \cup {}
        /\ toVisit' \subseteq toVisit \cup {} /\ toVisit \subseteq toVisit'
    BY <1>1, <1>2
  <1>6. UNCHANGED <<pushVars, lastFrame>>
    BY <1>1
  <1> QED BY <1>3, <1>4, <1>5, <1>6, QuietStep

\* AddPlayer, in a handler or in the goroutine of InitHlsPlayer, admits a writer
\* that never was.
LEMMA PlayAdmits ==
    ASSUME StreamInv, PlayStep
    PROVE  \E A : /\ A \cap admitted = {}
                  /\ admitted' = admitted \cup A
                  /\ players' \subseteq players \cup A
                  /\ toVisit' \subseteq toVisit \cup A /\ toVisit \subseteq toVisit'
  <1> USE DEF chanVars, history, StreamInv, OnceInv
  <1>1. ASSUME NEW w, AddPlayer(w), w \notin admitted
        PROVE  \E A : /\ A \cap admitted = {}
                      /\ admitted' = admitted \cup A
                      /\ players' \subseteq players \cup A
                      /\ toVisit' \subseteq toVisit \cup A /\ toVisit \subseteq toVisit'
    <2>1. CASE AddPlayerOK(w)
      <3>1. /\ {w} \cap admitted = {}
            /\ admitted' = admitted \cup {w}
            /\ players' \subseteq players \cup {w}
            /\ toVisit' \subseteq toVisit \cup {w} /\ toVisit \subseteq toVisit'
        BY <1>1, <2>1 DEF AddPlayer
      <3> QED BY <3>1
    <2>2. CASE ~AddPlayerOK(w)
      <3>1. UNCHANGED <<players, admitted, toVisit>>
        BY <1>1, <2>2 DEF AddPlayer
      <3>2. /\ {} \cap admitted = {} /\ admitted' = admitted \cup {}
            /\ players' \subseteq players \cup {}
            /\ toVisit' \subseteq toVisit \cup {} /\ toVisit \subseteq toVisit'
        BY <3>1
      <3> QED BY <3>2
    <2> QED BY <2>1, <2>2
  <1>2. ASSUME UNCHANGED <<players, admitted, toVisit>>
        PROVE  \E A : /\ A \cap admitted = {}
                      /\ admitted' = admitted \cup A
                      /\ players' \subseteq players \cup A
                      /\ toVisit' \subseteq toVisit \cup A /\ toVisit \subseteq toVisit'
    <2>1. /\ {} \cap admitted = {} /\ admitted' = admitted \cup {}
          /\ players' \subseteq players \cup {}
          /\ toVisit' \subseteq toVisit \cup {} /\ toVisit \subseteq toVisit'
      BY <1>2
    <2> QED BY <2>1
  <1>3. ASSUME NEW w \in Players, RtmpPlay(w) \/ HttpPlay(w)
        PROVE  AddPlayer(w) /\ w \notin admitted
    BY <1>3 DEF RtmpPlay, HttpPlay
  <1>4. ASSUME HlsAdd
        PROVE  AddPlayer(hlsWriter) /\ hlsWriter \notin admitted
    BY <1>4 DEF HlsAdd
  <1>5. ASSUME NEW w \in Players, SendCancelled(w) \/ Handle(w)
        PROVE  UNCHANGED <<players, admitted, toVisit>>
    BY <1>5 DEF SendCancelled, Handle, SendReceive, SendClosed, HandlerClose
  <1>6. ASSUME Hls, ~HlsAdd
        PROVE  UNCHANGED <<players, admitted, toVisit>>
    BY <1>6 DEF Hls, HlsInit, HlsReceive, HlsClosed, HlsClose, HlsRenew
  <1> QED BY <1>1, <1>2, <1>3, <1>4, <1>5, <1>6 DEF PlayStep, Players, Hls

\* A step of a handler or of the HLS goroutine: a writer may come, none is written to.
LEMMA PlayStreamInv ==
    ASSUME StreamInv, PlayStep, Next
    PROVE  GroupInv' /\ VisitInv' /\ NewInv' /\ GivenInv' /\ FreshInv'
  <1>1. UNCHANGED <<pushVars, lastFrame>>
    BY DEF PlayStep, RtmpPlay, HttpPlay, SendCancelled, Handle, SendReceive, SendClosed,
           HandlerClose, Hls, HlsInit, HlsAdd, HlsReceive, HlsClosed, HlsClose, HlsRenew,
           history
  <1>2. UNCHANGED <<pc, cur>>
    BY PlayLeavesThreads
  <1>3. \A w \in Writers : wClosed[w] => wClosed'[w]
    BY ClosedForGood DEF StreamInv, IndInv
  <1>4. PICK A : /\ A \cap admitted = {}
                 /\ admitted' = admitted \cup A
                 /\ players' \subseteq players \cup A
                 /\ toVisit' \subseteq toVisit \cup A /\ toVisit \subseteq toVisit'
    BY PlayAdmits
  <1> QED BY <1>1, <1>2, <1>3, <1>4, QuietStep

\* A player's handler calls AddPlayer once, and the goroutine of InitHlsPlayer
\* once more only with a new source or after it was refused.
LEMMA NextOnceInv ==
    ASSUME StreamInv, Next
    PROVE  OnceInv'
  <1> USE DEF StreamInv, OnceInv
  <1>1. ASSUME UNCHANGED <<handler, hlsVars, admitted>> PROVE OnceInv'
    BY <1>1 DEF hlsVars
  <1>2. ASSUME NEW w \in Players,
               \/ RtmpPlay(w) \/ HttpPlay(w) \/ SendCancelled(w) \/ Handle(w)
        PROVE  OnceInv'
    <2>1. /\ UNCHANGED hlsVars
          /\ handler'[w] # "idle"
          /\ \A v \in Players \ {w} : handler'[v] = handler[v]
          /\ admitted' \subseteq admitted \cup {w}
      BY <1>2 DEF RtmpPlay, HttpPlay, SendCancelled, Handle, SendReceive, SendClosed,
                  HandlerClose, AddPlayer, IndInv, TypeOK, history
    <2>2. hlsPc = "add" => hlsWriter # w
      BY ChannelAssumption DEF IndInv, TypeOK
    <2> QED BY <2>1, <2>2 DEF hlsVars
  <1>3. CASE Hls
    <2>1. UNCHANGED handler /\ \A w \in Players : w # hlsWriter \/ hlsPc = "off"
      BY <1>3, ChannelAssumption DEF Hls, HlsInit, HlsAdd, HlsReceive, HlsClosed, HlsClose,
                  HlsRenew, IndInv, TypeOK
    <2>2. CASE HlsAdd
      <3>1. /\ admitted' \subseteq admitted \cup {hlsWriter}
            /\ hlsWriter' = hlsWriter
            /\ hlsPc' = "add" => admitted' = admitted
        BY <2>2 DEF HlsAdd, AddPlayer, IndInv, TypeOK, history
      <3>2. hlsPc # "off" /\ hlsPc = "add"
        BY <2>2 DEF HlsAdd
      <3> QED BY <2>1, <3>1, <3>2
    <2>3. CASE HlsInit \/ HlsRenew
      <3>1. /\ admitted' = admitted
            /\ hlsWriter' \in Sources /\ hlsWriter' > hlsWriter
        BY <2>3, ChannelAssumption DEF HlsInit, HlsRenew, IndInv, TypeOK, Sources, NoWriter,
                    history
      <3>2. hlsWriter' \notin admitted
        BY <3>1 DEF IndInv, HlsInv
      <3> QED BY <2>1, <3>1, <3>2
    <2>4. CASE HlsReceive \/ HlsClosed \/ HlsClose
      <3>1. admitted' = admitted /\ hlsPc' # "add"
        BY <2>4 DEF HlsReceive, HlsClosed, HlsClose, history
      <3> QED BY <2>1, <3>1
    <2> QED BY <1>3, <2>2, <2>3, <2>4 DEF Hls
  <1>4. ASSUME NEW p \in Publishers, Push(p) PROVE OnceInv'
    BY <1>1, <1>4, PushPlayers
  <1>5. ASSUME NEW t \in Threads, KickAll(t) PROVE OnceInv'
    BY <1>1, <1>5, KickPlayers
  <1>6. ASSUME NEW a \in Admins, Admin(a) PROVE OnceInv'
    BY <1>1, <1>6, KickPlayers DEF Threads
  <1> QED BY <1>2, <1>3, <1>4, <1>5, <1>6 DEF Next, Players

\* The invariant is kept by every step.
LEMMA NextStreamInv ==
    ASSUME StreamInv, Next, IndInv'
    PROVE  StreamInv'
  <1>1. OnceInv'
    BY NextOnceInv
  <1>2. GroupInv' /\ VisitInv' /\ NewInv' /\ GivenInv' /\ FreshInv'
    BY PushStreamInv, KickStreamInv, PlayStreamInv DEF Next, PlayStep, Threads
  <1> QED BY <1>1, <1>2 DEF StreamInv

\* In such a state the next packet written to a player follows the one before.
LEMMA GivenFollows ==
    ASSUME StreamInv, NEW p \in Publishers, Gives(p), IsFrame(Head(todo[p]))
    PROVE  LET new == Head(todo[p])
               old == lastFrame[cur[p]]
               gop == cache[p].gop
           IN  \/ old # NoPacket /\ new.no = old.no + 1
               \/ old = NoPacket /\ (IsKeyFrame(new) \/ ~gop.isComplete)
               \/ /\ Len(gop.packets) = MaxGOPCap
                  /\ old = gop.packets[MaxGOPCap]
                  /\ new.no > old.no
  <1> USE DEF StreamInv
  <1>1. /\ pc[p] = "write" /\ todo[p] # <<>> /\ ~wClosed[cur[p]]
        /\ todo[p] \in Seq(Packets) /\ cache[p] \in CacheType
        /\ Publishing(p) /\ Given(p)
    BY DEF Gives, GivenInv, IndInv, TypeOK, Publishing
  <1>2. CASE cur[p] \notin inited
    <2>1. /\ Group(cache[p], Upto(p, pc[p] = "got"))
          /\ Aligned(cache[p].gop.packets, todo[p], lastFrame[cur[p]])
      BY <1>1, <1>2 DEF GroupInv, Given
    <2> QED BY <1>1, <2>1, AlignedHead
  <1>3. CASE cur[p] \in inited
    <2>1. Head(todo[p]) = pkt[p]
      BY <1>1, <1>3 DEF Given
    <2>2. Fresh(p, cur[p])
      BY <1>1, <1>3 DEF FreshInv
    <2>3. Pending(p, cur[p])
      BY <1>1 DEF Pending
    <2>4. Upto(p, Pending(p, cur[p])) = pkt[p].no - 1
      BY <2>1, <2>3 DEF Upto
    <2>6. pkt[p].no \in Int
      BY DEF IndInv, TypeOK, Packets, NoPacket
    <2>5. cur[p] \in Writers /\ lastFrame[cur[p]].no \in Int
      BY <1>1 DEF IndInv, TypeOK, CurInv, Packets, NoPacket, Threads
    <2> QED BY <2>1, <2>2, <2>4, <2>5, <2>6 DEF Fresh
  <1> QED BY <1>2, <1>3

\* The inductive invariant behind NoGap holds in every reachable state.
THEOREM StreamInvariant == Spec => []StreamInv
  <1>1. ASSUME StreamInv, IndInv', Next PROVE StreamInv'
    BY <1>1, NextStreamInv
  <1>2. ASSUME StreamInv, UNCHANGED vars PROVE StreamInv'
    <2> USE <1>2 DEF StreamInv, vars, chanVars, pushVars, threadVars, writerVars, hlsVars,
                history
    <2>1. IndInv'
      BY DEF IndInv, TypeOK, LockInv, CurInv, SinglePublisher, Publishing,
         NoPlayerWithoutPublisher, NoOrphan, Closing, HlsInv
    <2>2. GroupInv' /\ VisitInv' /\ OnceInv'
      BY DEF GroupInv, Upto, VisitInv, Calling, OnceInv
    <2>3. NewInv' /\ GivenInv' /\ FreshInv'
      BY DEF NewInv, GivenInv, Given, FreshInv, Fresh, Publishing, Pending, Upto, Calling
    <2> QED BY <2>1, <2>2, <2>3
  <1>3. StreamInv /\ IndInv' /\ [Next]_vars => StreamInv'
    BY <1>1, <1>2
  <1> QED BY <1>3, InitStreamInv, ChannelInvariant, PTL DEF Spec

\* The video frames a player is given are consecutive from a key frame on, with
\* the two exceptions of NoGap, for any number of players that come and go.
THEOREM FramesWithoutGap == Spec => NoGap
  <1>1. StreamInv /\ [Next]_vars =>
          [\A p \in Publishers :
             Gives(p) /\ IsFrame(Head(todo[p])) =>
               LET new == Head(todo[p])
                   old == lastFrame[cur[p]]
                   gop == cache[p].gop
               IN  \/ old # NoPacket /\ new.no = old.no + 1
                   \/ old = NoPacket /\ (IsKeyFrame(new) \/ ~gop.isComplete)
                   \/ /\ Len(gop.packets) = MaxGOPCap
                      /\ old = gop.packets[MaxGOPCap]
                      /\ new.no > old.no]_vars
    BY GivenFollows
  <1> QED BY <1>1, StreamInvariant, PTL DEF Spec, NoGap

-----------------------------------------------------------------------------
(* AudienceSpec.  A step that changes nothing of a writer but one of being   *)
(* closed, in the map or fed is a step of Audience for that writer, if it is *)
(* one at all; publications begin and end in PushStart's critical sections.  *)

\* A publisher that was not admitted has read nothing, and the cache of one that
\* was holds nothing it did not read.
ReadInv ==
    \A p \in Publishers :
      /\ pc[p] = "idle" => pkt[p] = NoPacket
      /\ \A i \in 1..Len(cache[p].gop.packets) : cache[p].gop.packets[i].no <= pkt[p].no

\* What an array holds after a packet is written to it.
LEMMA CacheWriteHolds ==
    ASSUME NEW c \in CacheType, NEW q \in Packets, NEW n \in Nat, q.no <= n,
           \A i \in 1..Len(c.gop.packets) : c.gop.packets[i].no <= n
    PROVE  \A i \in 1..Len(CacheWrite(c, q).gop.packets) :
             CacheWrite(c, q).gop.packets[i].no <= n
  <1>1. /\ c.gop.packets \in Seq(Packets)
        /\ q.kind \in Kinds
    BY DEF CacheType, Packets
  <1>2. \/ CacheWrite(c, q).gop = c.gop
        \/ CacheWrite(c, q).gop = ArrayWrite(c.gop, q)
    BY <1>1 DEF CacheWrite, Kinds, IsFrame, FrameKinds, CacheType
  <1>3. \/ ArrayWrite(c.gop, q).packets = c.gop.packets
        \/ ArrayWrite(c.gop, q).packets = <<q>>
        \/ ArrayWrite(c.gop, q).packets = Append(c.gop.packets, q)
    BY DEF ArrayWrite, CacheType
  <1>4. \A i \in 1..Len(<<q>>) : <<q>>[i].no <= n
    OBVIOUS
  <1>5. \A i \in 1..Len(Append(c.gop.packets, q)) : Append(c.gop.packets, q)[i].no <= n
    BY <1>1
  <1> QED BY <1>2, <1>3, <1>4, <1>5

\* ReadInv is kept: only Read and CacheAndRange touch what it is about.
LEMMA NextReadInv ==
    ASSUME IndInv, ReadInv, Next
    PROVE  ReadInv'
  <1> USE DEF ReadInv, pushVars
  <1>t. /\ pc \in [Threads -> PushLabels \cup AdminLabels]
        /\ pkt \in [Publishers -> Packets \cup {NoPacket}]
        /\ cache \in [Publishers -> CacheType]
        /\ \A p \in Publishers : pkt[p].no \in Nat
    BY DEF IndInv, TypeOK, Packets, NoPacket
  <1>1. ASSUME UNCHANGED <<pkt, cache>>,
               \A p \in Publishers : pc'[p] = "idle" => pc[p] = "idle"
        PROVE  ReadInv'
    BY <1>1
  <1>2. ASSUME NEW p \in Publishers, Push(p) PROVE ReadInv'
    <2>1. /\ pc'[p] # "idle"
          /\ \A q \in Publishers : q # p => pc'[q] = pc[q]
      <3>1. PICK l \in PushLabels : pc' = [pc EXCEPT ![p] = l] /\ l # "idle"
        <4>1. TypeOK
          BY DEF IndInv
        <4> QED BY <1>2, <4>1, PushControl
      <3>2. p \in Threads /\ Publishers \subseteq Threads
        BY DEF Threads
      <3> QED BY <1>t, <3>1, <3>2
    <2>2. ASSUME NEW k \in StreamKinds, Read(p, k) PROVE ReadInv'
      <3>1. /\ cache' = cache
            /\ \A q \in Publishers : q # p => pkt'[q] = pkt[q]
            /\ pkt'[p].no = pkt[p].no + (IF k \in FrameKinds THEN 1 ELSE 0)
        BY <1>t, <2>2 DEF Read
      <3>2. \A i \in 1..Len(cache[p].gop.packets) :
              cache[p].gop.packets[i].no \in Nat
        <4>1. cache[p].gop.packets \in Seq(Packets)
          BY <1>t DEF CacheType
        <4>2. \A x \in Packets : x.no \in Nat
          BY DEF Packets
        <4> QED BY ONLY <4>1, <4>2
      <3>3. \A i \in 1..Len(cache[p].gop.packets) :
              cache'[p].gop.packets[i].no <= pkt'[p].no
        BY <1>t, <3>1, <3>2
      <3>4. \A q \in Publishers : q # p => /\ pkt'[q] = pkt[q]
                                           /\ cache'[q] = cache[q]
                                           /\ pc'[q] = pc[q]
        BY <2>1, <3>1
      <3> QED BY <2>1, <3>1, <3>3, <3>4
    <2>3. CASE CacheAndRange(p)
      <3>1. /\ pkt' = pkt /\ pkt[p] \in Packets
            /\ \A q \in Publishers : q # p => cache'[q] = cache[q]
            /\ cache'[p] = cache[p] \/ cache'[p] = CacheWrite(cache[p], pkt[p])
        BY <1>t, <2>3 DEF CacheAndRange, IndInv, TypeOK
      <3>2. \A i \in 1..Len(cache'[p].gop.packets) : cache'[p].gop.packets[i].no <= pkt[p].no
        <4>1. CASE cache'[p] = cache[p]
          BY <4>1
        <4>2. CASE cache'[p] = CacheWrite(cache[p], pkt[p])
          <5>1. /\ cache[p] \in CacheType /\ pkt[p] \in Packets
                /\ pkt[p].no \in Nat /\ pkt[p].no <= pkt[p].no
                /\ \A i \in 1..Len(cache[p].gop.packets) :
                     cache[p].gop.packets[i].no <= pkt[p].no
            BY <1>t, <3>1
          <5>2. \A i \in 1..Len(CacheWrite(cache[p], pkt[p]).gop.packets) :
                  CacheWrite(cache[p], pkt[p]).gop.packets[i].no <= pkt[p].no
            BY <5>1, CacheWriteHolds
          <5> QED BY <4>2, <5>2
        <4> QED BY <3>1, <4>1, <4>2
      <3> QED BY <2>1, <3>1, <3>2
    <2>4. ASSUME UNCHANGED <<pkt, cache>> PROVE ReadInv'
      BY <1>1, <2>1, <2>4
    <2> QED BY <1>2, <2>2, <2>3, <2>4 DEF Push, PushStart, CheckClosed, ReadError, RangeNext,
         WriteNext, WriteDone, DropPlayer, DropClose, RangeEnd, Exit
  <1>3. ASSUME NEW t \in Threads, KickAll(t) \/ (t \in Admins /\ Admin(t)) PROVE ReadInv'
    <2>1. UNCHANGED <<pkt, cache>>
      BY <1>3 DEF KickAll, Admin, Kick, KickClose, KickDone, Close, DelPlayer, DelClose
    <2>2. \E l \in PushLabels \cup AdminLabels : l # "idle" /\ pc' = [pc EXCEPT ![t] = l]
      BY <1>3 DEF KickAll, Admin, Kick, KickClose, KickDone, Close, DelPlayer, DelClose,
           Goto, PushLabels, AdminLabels
    <2>3. \A p \in Publishers : pc'[p] = "idle" => pc[p] = "idle"
      BY <1>t, <2>2 DEF Threads
    <2> QED BY <1>1, <2>1, <2>3
  <1>4. CASE PlayStep
    <2>1. UNCHANGED <<pkt, cache>>
      BY <1>4 DEF PlayStep, RtmpPlay, HttpPlay, SendCancelled, Handle, SendReceive,
           SendClosed, HandlerClose, Hls, HlsInit, HlsAdd, HlsReceive, HlsClosed, HlsClose,
           HlsRenew
    <2> QED BY <1>1, <1>4, <2>1, PlayLeavesThreads
  <1> QED BY <1>2, <1>3, <1>4 DEF Next, PlayStep, Threads

\* The publisher of Audience is the one PushStart admitted.
LEMMA PublisherIs ==
    ASSUME SinglePublisher, NEW p \in Publishers, Publishing(p)
    PROVE  inPublication /\ Publisher = p /\ Publisher # Free
  <1>1. inPublication
    BY DEF SinglePublisher
  <1>2. \A q \in Publishers : Publishing(q) <=> q = p
    BY DEF SinglePublisher
  <1>3. Publisher = p
    BY <1>1, <1>2 DEF Publisher
  <1> QED BY <1>1, <1>3, ChannelAssumption DEF Threads

LEMMA PublisherIsNext ==
    ASSUME SinglePublisher', NEW p \in Publishers, Publishing(p)'
    PROVE  inPublication' /\ Publisher' = p
  <1>1. inPublication'
    BY DEF SinglePublisher
  <1>2. \A q \in Publishers : Publishing(q)' <=> q = p
    BY DEF SinglePublisher
  <1> QED BY <1>1, <1>2 DEF Publisher

\* While the publication lasts its publisher is the same.
LEMMA PublisherKept ==
    ASSUME SinglePublisher, SinglePublisher', UNCHANGED inPublication,
           \A p \in Publishers : Publishing(p) => Publishing(p)'
    PROVE  Publisher' = Publisher
  <1>1. CASE inPublication
    <2>1. PICK p \in Publishers : Publishing(p)
      BY <1>1 DEF SinglePublisher
    <2>2. Publisher = p
      BY <2>1, PublisherIs
    <2>3. Publishing(p)'
      BY <2>1
    <2>4. Publisher' = p
      BY <2>3, PublisherIsNext
    <2> QED BY <2>2, <2>4
  <1>2. CASE ~inPublication
    BY <1>2 DEF Publisher
  <1> QED BY <1>1, <1>2

\* A step that is no step of Audience, as far as publications go.
LEMMA PublicationKept ==
    ASSUME SinglePublisher, SinglePublisher', UNCHANGED <<inPublication, pkt>>,
           \A p \in Publishers : Publishing(p) => Publishing(p)'
    PROVE  Publisher' = Publisher /\ Sent' = Sent
  <1>1. Publisher' = Publisher
    BY PublisherKept
  <1> QED BY <1>1 DEF Sent

\* What decides the status of writer v is the same.
SameFor(v) ==
    /\ wClosed'[v] = wClosed[v]
    /\ v \in players' <=> v \in players
    /\ v \in admitted' <=> v \in admitted
    /\ Feeding(v)' <=> Feeding(v)

LEMMA StatusKept ==
    ASSUME NEW v, SameFor(v)
    PROVE  StatusOf(v)' = StatusOf(v)
  BY DEF SameFor, StatusOf

LEMMA AllStatusKept ==
    ASSUME \A v \in Writers : SameFor(v)
    PROVE  Status' = Status
  <1>1. \A v \in Writers : StatusOf(v)' = StatusOf(v)
    BY StatusKept
  <1> QED BY <1>1 DEF Status

\* One writer's status changes.
LEMMA StatusBecomes ==
    ASSUME NEW w \in Writers, \A v \in Writers : v # w => SameFor(v)
    PROVE  Status' = [Status EXCEPT ![w] = StatusOf(w)'] /\ Status[w] = StatusOf(w)
  <1>1. \A v \in Writers : v # w => StatusOf(v)' = StatusOf(v)
    BY StatusKept
  <1> QED BY <1>1 DEF Status

\* Which callbacks write to whom changes only with a publisher that is in one.
LEMMA FeedingKept ==
    ASSUME TypeOK, NEW t \in Threads,
           \A u \in Threads : u # t => pc'[u] = pc[u] /\ cur'[u] = cur[u],
           t \in Publishers => pc[t] # "write" /\ pc'[t] # "write"
    PROVE  \A v : Feeding(v)' <=> Feeding(v)
  BY DEF Feeding, Threads

\* A step of Audience, or none.
Serves == Served!Next \/ UNCHANGED Served!vars

LEMMA NothingServed ==
    ASSUME \A v \in Writers : SameFor(v), UNCHANGED lastFrame,
           Publisher' = Publisher, Sent' = Sent
    PROVE  Serves
  <1>1. Status' = Status
    BY AllStatusKept
  <1>2. Fed' = Fed
    BY DEF Fed
  <1> QED BY <1>1, <1>2 DEF Serves, Served!vars

\* A writer is taken out of the map.
LEMMA Removes ==
    ASSUME players \subseteq admitted, NEW w \in Writers, players' = players \ {w},
           UNCHANGED <<wClosed, admitted, lastFrame>>,
           \A v : Feeding(v)' <=> Feeding(v),
           Publisher' = Publisher, Sent' = Sent
    PROVE  Serves
  <1>1. \A v \in Writers : v # w => SameFor(v)
    BY DEF SameFor
  <1>2. CASE w \in players /\ ~wClosed[w]
    <2>1. StatusOf(w) = "member"
      BY <1>2 DEF StatusOf
    <2>2. StatusOf(w)' \in {"leaving", "out"}
      BY <1>2 DEF StatusOf
    <2>3. Status' = [Status EXCEPT ![w] = StatusOf(w)'] /\ Status[w] = "member"
      BY <1>1, <2>1, StatusBecomes
    <2>4. Fed' = Fed
      BY DEF Fed
    <2>5. \E s \in {"leaving", "out"} : Served!Become(w, s)
      BY <2>2, <2>3, <2>4 DEF Served!Become
    <2>6. Served!Remove(w)
      BY <2>3, <2>5 DEF Served!Remove
    <2> QED BY <2>6 DEF Serves, Served!Next
  <1>3. CASE ~(w \in players /\ ~wClosed[w])
    <2>1. StatusOf(w)' = StatusOf(w)
      BY <1>3 DEF StatusOf
    <2>2. \A v \in Writers : StatusOf(v)' = StatusOf(v)
      BY <1>1, <2>1, StatusKept
    <2>3. Status' = Status /\ Fed' = Fed
      BY <2>2 DEF Status, Fed
    <2> QED BY <2>3 DEF Serves, Served!vars
  <1> QED BY <1>2, <1>3

\* A writer is closed.
LEMMA Closes ==
    ASSUME TypeOK, NEW w \in Writers, CloseWriter(w),
           UNCHANGED <<players, admitted, lastFrame>>,
           \A v : Feeding(v)' <=> Feeding(v),
           Publisher' = Publisher, Sent' = Sent
    PROVE  Serves
  <1>1. /\ \A v \in Writers : v # w => wClosed'[v] = wClosed[v]
        /\ wClosed'[w]
    BY DEF CloseWriter, TypeOK
  <1>2. \A v \in Writers : v # w => SameFor(v)
    BY <1>1 DEF SameFor
  <1>3. Fed' = Fed
    BY DEF Fed
  <1>4. StatusOf(w)' = "closed"
    BY <1>1 DEF StatusOf
  <1>5. Status' = [Status EXCEPT ![w] = "closed"] /\ Status[w] = StatusOf(w)
    BY <1>2, <1>4, StatusBecomes
  <1>6. CASE wClosed[w]
    <2>1. StatusOf(w) = "closed"
      BY <1>6 DEF StatusOf
    <2>2. Status' = Status
      BY <1>5, <2>1 DEF Status
    <2> QED BY <1>3, <2>2 DEF Serves, Served!vars
  <1>7. CASE ~wClosed[w]
    <2>1. Status[w] # "closed"
      BY <1>5, <1>7 DEF StatusOf
    <2>2. Served!Close(w)
      BY <1>3, <1>5, <2>1 DEF Served!Close, Served!Become
    <2> QED BY <2>2 DEF Serves, Served!Next
  <1> QED BY <1>6, <1>7

\* A writer joins, if AddPlayer accepts it.
LEMMA Joins ==
    ASSUME StreamInv, NEW w \in Writers, AddPlayer(w), w \notin admitted,
           UNCHANGED <<wClosed, lastFrame>>,
           \A v : Feeding(v)' <=> Feeding(v),
           Publisher' = Publisher, Sent' = Sent
    PROVE  Serves
  <1>i. /\ TypeOK /\ SinglePublisher /\ HlsInv /\ VisitInv
    BY DEF StreamInv, IndInv
  <1>1. \A v \in Writers : v # w => SameFor(v)
    BY DEF SameFor, AddPlayer
  <1>2. Fed' = Fed
    BY DEF Fed
  <1>3. CASE AddPlayerOK(w) /\ ~wClosed[w]
    <2>1. inPublication /\ w \notin players /\ w \in players'
      BY <1>3 DEF AddPlayerOK, AddPlayer
    <2>2. ~Feeding(w)
      BY <1>i DEF Feeding, VisitInv, Calling
    <2>3. StatusOf(w) = "new" /\ StatusOf(w)' = "member"
      BY <1>3, <2>1, <2>2 DEF StatusOf
    <2>4. Status' = [Status EXCEPT ![w] = "member"] /\ Status[w] = "new"
      BY <1>1, <2>3, StatusBecomes
    <2>5. Publisher # Free
      <3>1. PICK p \in Publishers : Publishing(p)
        BY <1>i, <2>1 DEF SinglePublisher
      <3> QED BY <1>i, <3>1, PublisherIs
    <2>6. Served!Join(w)
      BY <1>2, <2>4, <2>5 DEF Served!Join, Served!Become
    <2> QED BY <2>6 DEF Serves, Served!Next
  <1>4. CASE ~AddPlayerOK(w) \/ wClosed[w]
    <2>1. StatusOf(w)' = StatusOf(w)
      BY <1>4 DEF StatusOf, AddPlayer
    <2>2. \A v \in Writers : StatusOf(v)' = StatusOf(v)
      BY <1>1, <2>1, StatusKept
    <2>3. Status' = Status
      BY <2>2 DEF Status
    <2> QED BY <1>2, <2>3 DEF Serves, Served!vars
  <1> QED BY <1>3, <1>4

\* What handlers and the HLS goroutine do is joining and closing.
LEMMA PlayServes ==
    ASSUME StreamInv, SinglePublisher', PlayStep
    PROVE  Serves
  <1>i. /\ TypeOK /\ SinglePublisher /\ OnceInv
    BY DEF StreamInv, IndInv
  <1>1. UNCHANGED <<pc, cur, inPublication>>
    BY PlayLeavesThreads
  <1>2. UNCHANGED <<pkt, lastFrame>>
    BY DEF PlayStep, RtmpPlay, HttpPlay, SendCancelled, Handle, SendReceive, SendClosed,
           HandlerClose, Hls, HlsInit, HlsAdd, HlsReceive, HlsClosed, HlsClose, HlsRenew,
           pushVars, history
  <1>3. \A v : Feeding(v)' <=> Feeding(v)
    BY <1>1 DEF Feeding
  <1>4. Publisher' = Publisher /\ Sent' = Sent
    <2>1. \A p \in Publishers : Publishing(p) => Publishing(p)'
      BY <1>1 DEF Publishing
    <2> QED BY <1>i, <1>1, <1>2, <2>1, PublicationKept
  <1>5. ASSUME UNCHANGED <<wClosed, players, admitted>> PROVE Serves
    <2>1. \A v \in Writers : SameFor(v)
      BY <1>3, <1>5 DEF SameFor
    <2> QED BY <1>2, <1>4, <2>1, NothingServed
  <1>6. ASSUME NEW w \in Players, RtmpPlay(w) \/ HttpPlay(w) PROVE Serves
    <2>1. /\ AddPlayer(w) /\ UNCHANGED wClosed
          /\ w \in Writers /\ w \notin admitted
      BY <1>i, <1>6 DEF RtmpPlay, HttpPlay, OnceInv, writerVars, Writers
    <2> QED BY <1>2, <1>3, <1>4, <2>1, Joins
  <1>7. CASE HlsAdd
    <2>1. /\ AddPlayer(hlsWriter) /\ UNCHANGED wClosed
          /\ hlsWriter \in Writers /\ hlsWriter \notin admitted
      BY <1>i, <1>7 DEF HlsAdd, OnceInv, TypeOK, Writers
    <2> QED BY <1>2, <1>3, <1>4, <2>1, Joins
  <1>8. ASSUME NEW w \in Players, HandlerClose(w) PROVE Serves
    <2>1. CloseWriter(w) /\ w \in Writers /\ UNCHANGED <<players, admitted>>
      BY <1>8 DEF HandlerClose, chanVars, history, Writers
    <2> QED BY <1>i, <1>2, <1>3, <1>4, <2>1, Closes
  <1>9. CASE HlsClose
    <2>1. CloseWriter(hlsWriter) /\ hlsWriter \in Writers /\ UNCHANGED <<players, admitted>>
      BY <1>i, <1>9 DEF HlsClose, chanVars, history, Writers, TypeOK
    <2> QED BY <1>i, <1>2, <1>3, <1>4, <2>1, Closes
  <1>10. ASSUME NEW w \in Players, SendCancelled(w) \/ SendReceive(w) \/ SendClosed(w)
         PROVE  Serves
    <2>1. UNCHANGED <<wClosed, players, admitted>>
      BY <1>10 DEF SendCancelled, SendReceive, SendClosed, chanVars, history, writerVars
    <2> QED BY <1>5, <2>1
  <1>11. CASE HlsInit \/ HlsReceive \/ HlsClosed \/ HlsRenew
    <2>1. UNCHANGED <<wClosed, players, admitted>>
      BY <1>11 DEF HlsInit, HlsReceive, HlsClosed, HlsRenew, chanVars, history, writerVars
    <2> QED BY <1>5, <2>1
  <1> QED BY <1>6, <1>7, <1>8, <1>9, <1>10, <1>11 DEF PlayStep, Handle, Hls, Players

\* kickAllPlayers, Close and DelPlayer take writers out and close them; the
\* publication ends when its publisher has done so with all.
LEMMA KickServes ==
    ASSUME StreamInv, SinglePublisher', NEW t \in Threads,
           KickAll(t) \/ (t \in Admins /\ Admin(t))
    PROVE  Serves
  <1>i. /\ TypeOK /\ SinglePublisher /\ CurInv /\ players \subseteq admitted
    BY DEF StreamInv, IndInv, HlsInv
  <1>1. /\ \A u \in Threads : u # t => pc'[u] = pc[u] /\ cur'[u] = cur[u]
        /\ pc'[t] \in {"kick", "kickclose", "delclose", "done", "closed"}
        /\ t \in Publishers => pc[t] \in {"kick", "kickclose"}
    <2>1. ThreadStep(t)
      BY <1>i, KickThreadStep
    <2>2. pc'[t] \in {"kick", "kickclose", "delclose", "done", "closed"}
      BY <1>i DEF KickAll, Admin, Kick, KickClose, KickDone, Close, DelPlayer, DelClose,
           Goto, TypeOK
    <2>3. t \in Publishers => t \notin Admins
      BY ChannelAssumption
    <2>4. t \in Publishers => pc[t] \in {"kick", "kickclose"}
      BY <2>3 DEF KickAll, Kick, KickClose, KickDone
    <2> QED BY <2>1, <2>2, <2>4 DEF ThreadStep
  <1>2. \A v : Feeding(v)' <=> Feeding(v)
    BY <1>i, <1>1, FeedingKept
  <1>3. UNCHANGED <<pkt, lastFrame, admitted>>
    BY DEF KickAll, Admin, Kick, KickClose, KickDone, Close, DelPlayer, DelClose,
           pushVars, history
  <1>4. ASSUME UNCHANGED inPublication, t \in Publishers => pc'[t] # "done"
        PROVE  Publisher' = Publisher /\ Sent' = Sent
    <2>1. \A p \in Publishers : Publishing(p) => Publishing(p)'
      BY <1>1, <1>4 DEF Publishing, Threads
    <2> QED BY <1>i, <1>3, <1>4, <2>1, PublicationKept
  <1>n. t \in Admins => t \notin Publishers
    BY ChannelAssumption
  <1>5. ASSUME NEW w \in Writers, Kick(t, w) PROVE Serves
    <2>1. /\ players' = players \ {w}
          /\ UNCHANGED <<wClosed, inPublication>>
          /\ pc'[t] # "done"
      BY <1>i, <1>5 DEF Kick, Goto, writerVars, TypeOK
    <2>2. Publisher' = Publisher /\ Sent' = Sent
      BY <1>4, <2>1
    <2> QED BY <1>i, <1>2, <1>3, <2>1, <2>2, Removes
  <1>6. ASSUME NEW w \in Writers, t \in Admins, DelPlayer(t, w) PROVE Serves
    <2>1. /\ players' = players \ {w}
          /\ UNCHANGED <<wClosed, inPublication>>
      BY <1>6 DEF DelPlayer, writerVars
    <2>2. Publisher' = Publisher /\ Sent' = Sent
      BY <1>4, <1>6, <1>n, <2>1
    <2> QED BY <1>i, <1>2, <1>3, <2>1, <2>2, Removes
  <1>7. CASE KickClose(t) \/ (t \in Admins /\ DelClose(t))
    <2>1. /\ CloseWriter(cur[t]) /\ cur[t] \in Writers
          /\ UNCHANGED <<players, inPublication>>
          /\ t \in Publishers => pc'[t] # "done"
      BY <1>i, <1>n, <1>7 DEF KickClose, DelClose, CurInv, chanVars, Goto, TypeOK
    <2>2. Publisher' = Publisher /\ Sent' = Sent
      BY <1>4, <2>1
    <2> QED BY <1>i, <1>2, <1>3, <2>1, <2>2, Closes
  <1>8. ASSUME UNCHANGED <<players, wClosed, inPublication>>,
               t \in Publishers => pc'[t] # "done"
        PROVE  Serves
    <2>1. Publisher' = Publisher /\ Sent' = Sent
      BY <1>4, <1>8
    <2>2. \A v \in Writers : SameFor(v)
      BY <1>2, <1>3, <1>8 DEF SameFor
    <2> QED BY <1>3, <2>1, <2>2, NothingServed
  <1>9. CASE t \in Admins /\ (Close(t) \/ KickDone(t))
    <2>1. UNCHANGED <<players, wClosed, inPublication>>
      BY <1>n, <1>9 DEF Close, KickDone, writerVars
    <2> QED BY <1>n, <1>8, <1>9, <2>1
  <1>10. CASE t \in Publishers /\ KickDone(t)
    <2>1. /\ players = {} /\ pc[t] = "kick"
          /\ inPublication' = FALSE
          /\ UNCHANGED <<players, wClosed>>
      BY <1>10 DEF KickDone, writerVars
    <2>2. Publisher = t /\ Publisher # Free
      BY <1>i, <1>10, <2>1, PublisherIs DEF Publishing
    <2>3. Publisher' = Free /\ Sent' = 0
      BY <2>1 DEF Publisher, Sent
    <2>4. \A v : ~Feeding(v)
      BY <1>i, <1>10, <2>1 DEF Feeding, SinglePublisher, Publishing
    <2>5. \A v \in Writers : Status[v] \notin {"member", "leaving"}
      BY <2>1, <2>4 DEF Status, StatusOf
    <2>6. Status' = Status
      <3>1. \A v \in Writers : SameFor(v)
        BY <1>2, <1>3, <2>1 DEF SameFor
      <3> QED BY <3>1, AllStatusKept
    <2>7. Fed' = Fed
      BY <1>3 DEF Fed
    <2>8. Served!End
      BY <2>2, <2>3, <2>5, <2>6, <2>7 DEF Served!End
    <2> QED BY <2>8 DEF Serves, Served!Next
  <1> QED BY <1>5, <1>6, <1>7, <1>9, <1>10 DEF KickAll, Admin, Threads

\* Read publishes a frame, or a packet that is none.
LEMMA ReadServes ==
    ASSUME StreamInv, SinglePublisher', NEW p \in Publishers, NEW k \in StreamKinds,
           Read(p, k)
    PROVE  Serves
  <1>i. TypeOK /\ SinglePublisher
    BY DEF StreamInv, IndInv
  <1>1. /\ pc[p] = "read" /\ pc'[p] = "got"
        /\ \A q \in Publishers : q # p => pc'[q] = pc[q]
        /\ pkt'[p].no = pkt[p].no + (IF k \in FrameKinds THEN 1 ELSE 0)
        /\ UNCHANGED <<cur, wClosed, players, admitted, inPublication, lastFrame>>
    BY <1>i DEF Read, Goto, TypeOK, Threads, chanVars, writerVars, history
  <1>2. Publisher = p /\ Publisher # Free /\ inPublication
    BY <1>i, <1>1, PublisherIs DEF Publishing
  <1>3. Publisher' = Publisher
    <2>1. \A q \in Publishers : Publishing(q) => Publishing(q)'
      BY <1>1 DEF Publishing
    <2> QED BY <1>i, <1>1, <2>1, PublisherKept
  <1>4. Sent = pkt[p].no /\ Sent' = pkt'[p].no
    BY <1>1, <1>2, <1>3 DEF Sent
  <1>5. \A v \in Writers : SameFor(v)
    BY <1>1 DEF SameFor, Feeding
  <1>6. CASE k \in FrameKinds
    <2>1. Status' = Status /\ Fed' = Fed
      BY <1>1, <1>5, AllStatusKept DEF Fed
    <2>2. Sent' = Sent + 1
      BY <1>1, <1>4, <1>6
    <2> QED BY <1>2, <1>3, <2>1, <2>2 DEF Serves, Served!Next, Served!Publish
  <1>7. CASE k \notin FrameKinds
    <2>1. pkt[p].no \in Nat
      BY <1>i DEF TypeOK, Packets, NoPacket
    <2>2. Sent' = Sent
      BY <1>1, <1>4, <1>7, <2>1
    <2> QED BY <1>1, <1>3, <1>5, <2>2, NothingServed
  <1> QED BY <1>6, <1>7

\* A frame that is left to write was published.
LEMMA GivenIsSent ==
    ASSUME StreamInv, ReadInv, NEW p \in Publishers, Gives(p), IsFrame(Head(todo[p]))
    PROVE  Head(todo[p]).no \in Nat /\ Head(todo[p]).no <= pkt[p].no
  <1> DEFINE s == cache[p].gop.packets
             t == todo[p]
  <1>1. /\ t \in Seq(Packets) /\ t # <<>> /\ s \in Seq(Packets)
        /\ pkt[p].no \in Nat /\ Given(p)
    BY DEF StreamInv, GivenInv, IndInv, TypeOK, Gives, Packets, NoPacket, CacheType
  <1>2. Head(t) = t[1] /\ Len(t) >= 1 /\ Len(t) \in Nat /\ Head(t) \in Packets
    BY <1>1
  <1>3. Head(t).no \in Nat
    BY <1>2 DEF Packets
  <1>4. CASE cur[p] \in inited
    <2>1. t = <<pkt[p]>>
      BY <1>1, <1>4 DEF Given
    <2> QED BY <1>1, <1>3, <2>1
  <1>5. CASE cur[p] \notin inited
    <2>1. Aligned(s, t, lastFrame[cur[p]])
      BY <1>1, <1>5 DEF Given
    <2> DEFINE i == Len(s) - Len(t) + 1
    <2>2. i >= 1 /\ t[1] = s[i]
      <3>1. 1 \in 1..Len(t)
        BY <1>2
      <3>2. IF i >= 1 THEN t[1] = s[i] ELSE ~IsFrame(t[1])
        BY <2>1, <3>1 DEF Aligned
      <3> QED BY <1>2, <3>2
    <2>3. i \in 1..Len(s)
      <3>1. Len(s) \in Nat
        BY <1>1
      <3> HIDE DEF s, t
      <3> QED BY <1>2, <2>2, <3>1
    <2>4. s[i].no <= pkt[p].no
      BY <2>3 DEF ReadInv
    <2> QED BY <1>2, <1>3, <2>2, <2>4
  <1> QED BY <1>4, <1>5

\* Write gives a frame to the writer in turn, or the writer turns out to be closed.
LEMMA WriteServes ==
    ASSUME StreamInv, ReadInv, SinglePublisher', NEW p \in Publishers, WriteNext(p),
           NEW w \in Writers, w = cur[p]
    PROVE  Serves
  <1> DEFINE q == Head(todo[p])
  <1>i. /\ TypeOK /\ SinglePublisher /\ CurInv /\ VisitInv
    BY DEF StreamInv, IndInv
  <1>1. /\ pc[p] = "write" /\ pc'[p] \in {"write", "drop"}
        /\ \A u \in Publishers : u # p => pc'[u] = pc[u]
        /\ UNCHANGED <<cur, wClosed, players, admitted, inPublication, pkt>>
    BY <1>i DEF WriteNext, Goto, TypeOK, CurInv, Threads, chanVars, writerVars, history
  <1>2. Publisher = p /\ Publisher # Free /\ inPublication
    BY <1>i, <1>1, PublisherIs DEF Publishing
  <1>3. Publisher' = Publisher /\ Sent' = Sent /\ Sent = pkt[p].no
    <2>1. \A u \in Publishers : Publishing(u) => Publishing(u)'
      BY <1>1 DEF Publishing
    <2>2. Publisher' = Publisher /\ Sent' = Sent
      BY <1>i, <1>1, <2>1, PublicationKept
    <2> QED BY <1>2, <2>2 DEF Sent
  <1>4. CASE wClosed[w]
    <2>1. UNCHANGED lastFrame
      BY <1>4 DEF WriteNext
    <2>2. \A v \in Writers : v # w => SameFor(v)
      BY <1>1 DEF SameFor, Feeding
    <2>3. StatusOf(w)' = StatusOf(w)
      BY <1>1, <1>4 DEF StatusOf
    <2>4. \A v \in Writers : StatusOf(v)' = StatusOf(v)
      <3>1. ASSUME NEW v \in Writers, v # w PROVE StatusOf(v)' = StatusOf(v)
        <4>1. SameFor(v)
          BY <2>2, <3>1
        <4> QED BY <4>1, StatusKept
      <3>2. ASSUME NEW v \in Writers, v = w PROVE StatusOf(v)' = StatusOf(v)
        BY <2>3, <3>2
      <3> QED BY <3>1, <3>2
    <2>5. Status' = Status
      BY <2>4 DEF Status
    <2>6. Fed' = Fed
      BY <2>1 DEF Fed
    <2> QED BY <1>3, <2>5, <2>6 DEF Serves, Served!vars
  <1>5. CASE ~wClosed[w]
    <2>1. /\ todo[p] # <<>> /\ todo' # todo /\ pc' = pc
          /\ lastFrame' = IF IsFrame(q) THEN [lastFrame EXCEPT ![w] = q] ELSE lastFrame
      <3>1. /\ todo[p] # <<>> /\ pc' = pc
            /\ todo' = [todo EXCEPT ![p] = Tail(todo[p])]
            /\ lastFrame' = IF IsFrame(q) THEN [lastFrame EXCEPT ![w] = q] ELSE lastFrame
        BY <1>5 DEF WriteNext
      <3>2. todo[p] \in Seq(Packets) /\ todo \in [Publishers -> Seq(Packets)]
        BY <1>i DEF TypeOK
      <3>3. Len(Tail(todo[p])) # Len(todo[p])
        BY <3>1, <3>2
      <3>4. todo'[p] # todo[p]
        BY <3>1, <3>2, <3>3
      <3> QED BY <3>1, <3>4
    <2>2. \A v \in Writers : SameFor(v)
      BY <1>1, <2>1 DEF SameFor, Feeding
    <2>3. CASE ~IsFrame(q)
      BY <1>3, <2>1, <2>2, <2>3, NothingServed
    <2>4. CASE IsFrame(q)
      <3>1. Gives(p)
        BY <1>1, <1>5, <2>1 DEF Gives
      <3>2. q.no \in Nat /\ q.no <= Sent
        BY <1>3, <2>4, <3>1, GivenIsSent
      <3>3. lastFrame \in [Writers -> Packets \cup {NoPacket}]
        BY <1>i DEF TypeOK
      <3>4. lastFrame[w] = NoPacket \/ (lastFrame[w].no \in Nat /\ q.no > lastFrame[w].no)
        <4>1. lastFrame[w].no \in Nat
          BY <1>1, <3>3 DEF Packets, NoPacket
        <4>2. \/ q.no = lastFrame[w].no + 1
              \/ lastFrame[w] = NoPacket
              \/ q.no > lastFrame[w].no
          BY <2>4, <3>1, GivenFollows
        <4> QED BY <3>2, <4>1, <4>2
      <3>5. Fed[w] < q.no
        BY <1>1, <3>2, <3>4 DEF Fed
      <3>6. Fed' = [Fed EXCEPT ![w] = q.no]
        <4>1. lastFrame' = [lastFrame EXCEPT ![w] = q] /\ q # NoPacket
          BY <2>1, <2>4 DEF IsFrame, FrameKinds, NoPacket
        <4>2. \A v \in Writers : lastFrame'[v] = IF v = w THEN q ELSE lastFrame[v]
          BY <3>3, <4>1
        <4> HIDE DEF q
        <4>3. \A v \in Writers : v # w => Fed'[v] = Fed[v]
          BY <4>2 DEF Fed
        <4>4. Fed'[w] = q.no
          BY <1>1, <4>1, <4>2 DEF Fed
        <4>5. Fed' = [v \in Writers |-> Fed'[v]] /\ Fed = [v \in Writers |-> Fed[v]]
          BY DEF Fed
        <4> QED BY <1>1, <4>3, <4>4, <4>5
      <3>7. Status[w] \in {"member", "leaving"}
        <4>1. Feeding(w)
          BY <1>1 DEF Feeding
        <4> QED BY <1>1, <1>5, <4>1 DEF Status, StatusOf
      <3>8. Status' = Status
        BY <2>2, AllStatusKept
      <3>9. q.no \in 0..Sent
        <4>1. Sent \in Nat
          BY <1>i, <1>3 DEF TypeOK, Packets, NoPacket
        <4> QED BY <3>2, <4>1
      <3>10. Served!Feed(w, q.no)
        BY <1>2, <1>3, <3>2, <3>5, <3>6, <3>7, <3>8 DEF Served!Feed
      <3> QED BY <1>1, <3>9, <3>10 DEF Serves, Served!Next
    <2> QED BY <2>3, <2>4
  <1> QED BY <1>4, <1>5

\* The callback returns: the writer may have been taken out meanwhile.
LEMMA WriteDoneServes ==
    ASSUME StreamInv, SinglePublisher', NEW p \in Publishers, WriteDone(p),
           NEW w \in Writers, w = cur[p]
    PROVE  Serves
  <1>i. /\ TypeOK /\ SinglePublisher /\ CurInv /\ VisitInv
    BY DEF StreamInv, IndInv
  <1>1. /\ pc[p] = "write" /\ pc'[p] = "range"
        /\ \A u \in Publishers : u # p => pc'[u] = pc[u] /\ cur'[u] = cur[u]
        /\ UNCHANGED <<wClosed, players, admitted, inPublication, pkt, lastFrame>>
    BY <1>i DEF WriteDone, Goto, TypeOK, CurInv, Threads, chanVars, writerVars, history
  <1>2. Publisher' = Publisher /\ Sent' = Sent
    <2>1. \A u \in Publishers : Publishing(u) => Publishing(u)'
      BY <1>1 DEF Publishing
    <2> QED BY <1>i, <1>1, <2>1, PublicationKept
  <1>3. \A u \in Publishers : pc[u] = "write" => u = p
    BY <1>i, <1>1 DEF SinglePublisher, Publishing
  <1>4. \A v : ~Feeding(v)'
    BY <1>1, <1>3 DEF Feeding
  <1>5. \A v \in Writers : v # w => SameFor(v)
    BY <1>1, <1>3, <1>4 DEF SameFor, Feeding
  <1>6. Fed' = Fed
    BY <1>1 DEF Fed
  <1>7. w \in admitted /\ Feeding(w)
    BY <1>i, <1>1 DEF VisitInv, Calling, Feeding
  <1>8. Status' = [Status EXCEPT ![w] = StatusOf(w)'] /\ Status[w] = StatusOf(w)
    BY <1>5, StatusBecomes
  <1>9. CASE wClosed[w] \/ w \in players
    <2>1. StatusOf(w)' = StatusOf(w)
      BY <1>1, <1>9 DEF StatusOf
    <2>2. Status' = Status
      BY <1>8, <2>1 DEF Status
    <2> QED BY <1>2, <1>6, <2>2 DEF Serves, Served!vars
  <1>10. CASE ~(wClosed[w] \/ w \in players)
    <2>1. StatusOf(w) = "leaving" /\ StatusOf(w)' = "out"
      BY <1>1, <1>4, <1>7, <1>10 DEF StatusOf
    <2>2. Served!Leave(w)
      BY <1>2, <1>6, <1>8, <2>1 DEF Served!Leave, Served!Become
    <2> QED BY <1>1, <2>2 DEF Serves, Served!Next
  <1> QED BY <1>9, <1>10

\* A publisher is admitted, when nobody publishes.
LEMMA PushStartServes ==
    ASSUME StreamInv, ReadInv, SinglePublisher', NEW p \in Publishers, PushStart(p)
    PROVE  Serves
  <1>i. TypeOK /\ SinglePublisher
    BY DEF StreamInv, IndInv
  <1>1. /\ pc[p] = "idle" /\ pc'[p] \in {"done", "top"}
        /\ \A u \in Publishers : u # p => pc'[u] = pc[u]
        /\ UNCHANGED <<cur, wClosed, players, admitted, pkt, lastFrame>>
    BY <1>i DEF PushStart, Goto, TypeOK, Threads, pushVars, writerVars, history
  <1>2. \A v \in Writers : SameFor(v)
    BY <1>1 DEF SameFor, Feeding
  <1>3. CASE inPublication
    <2>1. UNCHANGED inPublication
      BY <1>3 DEF PushStart
    <2>2. \A u \in Publishers : Publishing(u) => Publishing(u)'
      BY <1>1 DEF Publishing
    <2>3. Publisher' = Publisher /\ Sent' = Sent
      BY <1>i, <1>1, <2>1, <2>2, PublicationKept
    <2> QED BY <1>1, <1>2, <2>3, NothingServed
  <1>4. CASE ~inPublication
    <2>1. /\ inPublication' = TRUE /\ pc'[p] = "top"
      BY <1>i, <1>4 DEF PushStart, Goto, TypeOK, Threads
    <2>2. Publisher = Free /\ Sent = 0
      BY <1>4 DEF Publisher, Sent
    <2>3. Publisher' = p
      BY <2>1, PublisherIsNext DEF Publishing
    <2>4. Sent' = 0
      BY <1>1, <2>1, <2>3 DEF Sent, ReadInv, NoPacket
    <2>5. Status' = Status /\ Fed' = Fed
      BY <1>1, <1>2, AllStatusKept DEF Fed
    <2>6. Served!Begin(p)
      BY <2>2, <2>3, <2>4, <2>5 DEF Served!Begin
    <2> QED BY <2>6 DEF Serves, Served!Next
  <1> QED BY <1>3, <1>4

\* The other steps of a publisher.
LEMMA PushServes ==
    ASSUME StreamInv, ReadInv, SinglePublisher', NEW p \in Publishers, Push(p)
    PROVE  Serves
  <1>i. /\ TypeOK /\ SinglePublisher /\ CurInv /\ players \subseteq admitted
    BY DEF StreamInv, IndInv, HlsInv
  <1>1. \A u \in Threads : u # p => pc'[u] = pc[u] /\ cur'[u] = cur[u]
    BY <1>i, PushThreadStep DEF ThreadStep
  <1>2. ASSUME pc[p] \notin {"idle", "write"}, pc'[p] \notin {"idle", "write", "done"},
               UNCHANGED <<inPublication, pkt>>
        PROVE  /\ \A v : Feeding(v)' <=> Feeding(v)
               /\ Publisher' = Publisher /\ Sent' = Sent
    <2>1. \A v : Feeding(v)' <=> Feeding(v)
      BY <1>i, <1>1, <1>2, FeedingKept DEF Threads
    <2>2. \A u \in Publishers : Publishing(u) => Publishing(u)'
      BY <1>1, <1>2 DEF Publishing, Threads
    <2> QED BY <1>i, <1>2, <2>1, <2>2, PublicationKept
  <1>3. CASE CheckClosed(p) \/ ReadError(p) \/ CacheAndRange(p) \/ RangeEnd(p) \/ Exit(p)
    <2>1. /\ pc[p] \notin {"idle", "write"} /\ pc'[p] \notin {"idle", "write", "done"}
          /\ UNCHANGED <<inPublication, pkt, wClosed, players, admitted, lastFrame>>
      BY <1>i, <1>3 DEF CheckClosed, ReadError, CacheAndRange, RangeEnd, Exit, Goto, TypeOK,
           Threads, chanVars, pushVars, writerVars, history
    <2>2. /\ \A v \in Writers : SameFor(v)
          /\ Publisher' = Publisher /\ Sent' = Sent
      BY <1>2, <2>1 DEF SameFor
    <2> QED BY <2>1, <2>2, NothingServed
  <1>4. CASE DropPlayer(p)
    <2>1. /\ pc[p] = "drop" /\ pc'[p] = "dropclose"
          /\ players' = players \ {cur[p]} /\ cur[p] \in Writers
          /\ UNCHANGED <<inPublication, pkt, wClosed, admitted, lastFrame>>
      BY <1>i, <1>4 DEF DropPlayer, Goto, TypeOK, CurInv, Threads, pushVars, writerVars, history
    <2>2. /\ \A v : Feeding(v)' <=> Feeding(v)
          /\ Publisher' = Publisher /\ Sent' = Sent
      BY <1>2, <2>1
    <2> QED BY <1>i, <2>1, <2>2, Removes
  <1>5. CASE DropClose(p)
    <2>1. /\ pc[p] = "dropclose" /\ pc'[p] = "range"
          /\ CloseWriter(cur[p]) /\ cur[p] \in Writers
          /\ UNCHANGED <<inPublication, pkt, players, admitted, lastFrame>>
      BY <1>i, <1>5 DEF DropClose, Goto, TypeOK, CurInv, Threads, chanVars, history
    <2>2. /\ \A v : Feeding(v)' <=> Feeding(v)
          /\ Publisher' = Publisher /\ Sent' = Sent
      BY <1>2, <2>1
    <2> QED BY <1>i, <2>1, <2>2, Closes
  <1>6. ASSUME NEW w \in Writers, RangeNext(p, w) PROVE Serves
    <2>1. /\ pc[p] = "range" /\ pc'[p] = "write" /\ cur'[p] = w /\ w \in players
          /\ UNCHANGED <<inPublication, pkt, wClosed, players, admitted, lastFrame>>
      BY <1>i, <1>6 DEF RangeNext, Goto, TypeOK, Threads, chanVars, writerVars, history
    <2>2. Publisher' = Publisher /\ Sent' = Sent
      <3>1. \A u \in Publishers : Publishing(u) => Publishing(u)'
        BY <1>1, <2>1 DEF Publishing, Threads
      <3> QED BY <1>i, <2>1, <3>1, PublicationKept
    <2>3. \A v \in Writers : v # w => SameFor(v)
      BY <1>1, <2>1 DEF SameFor, Feeding, Threads
    <2>4. StatusOf(w)' = StatusOf(w)
      BY <2>1 DEF StatusOf
    <2>5. Status' = Status
      <3>1. Status' = [Status EXCEPT ![w] = StatusOf(w)'] /\ Status[w] = StatusOf(w)
        BY <2>3, StatusBecomes
      <3> QED BY <2>4, <3>1 DEF Status
    <2>6. Fed' = Fed
      BY <2>1 DEF Fed
    <2> QED BY <2>2, <2>5, <2>6 DEF Serves, Served!vars
  <1>7. CASE WriteNext(p) \/ WriteDone(p)
    <2>1. cur[p] \in Writers
      BY <1>i, <1>7 DEF WriteNext, WriteDone, CurInv, Threads
    <2> QED BY <1>7, <2>1, WriteServes, WriteDoneServes
  <1> QED BY <1>3, <1>4, <1>5, <1>6, <1>7, ReadServes, PushStartServes DEF Push

\* The channel serves as Audience says, for any number of publishers, writers and
\* callers of Close and DelPlayer: a writer joins one publication and is out of it
\* before the next begins, and is given frames of that one only, each at most
\* once, in rising order and none before it was read.
THEOREM ChannelServesAudience == Spec => AudienceSpec
  <1>1. Init => ReadInv /\ Served!Init
    <2> SUFFICES ASSUME Init PROVE ReadInv /\ Served!Init
      OBVIOUS
    <2>1. ReadInv
      BY DEF Init, ReadInv, NewCache, NewArray, NoPacket
    <2>2. Publisher = Free /\ Sent = 0
      BY DEF Init, Publisher, Sent
    <2>3. \A w \in Writers : StatusOf(w) = "new"
      BY DEF Init, StatusOf, Feeding, Threads
    <2>4. Status = [w \in Writers |-> "new"]
      BY <2>3 DEF Status
    <2>5. Fed = [w \in Writers |-> -1]
      BY DEF Init, Fed
    <2> QED BY <2>1, <2>2, <2>4, <2>5 DEF Served!Init
  <1>2. StreamInv /\ ReadInv /\ [Next]_vars => ReadInv'
    <2>1. ASSUME ReadInv, UNCHANGED vars PROVE ReadInv'
      BY <2>1 DEF ReadInv, vars, threadVars, pushVars
    <2> QED BY <2>1, NextReadInv DEF StreamInv
  <1>3. StreamInv /\ ReadInv /\ StreamInv' /\ [Next]_vars => [Served!Next]_(Served!vars)
    <2> SUFFICES ASSUME StreamInv, ReadInv, SinglePublisher', [Next]_vars
                 PROVE  Serves
      BY DEF Serves, StreamInv, IndInv
    <2>1. CASE Next
      BY <2>1, PushServes, KickServes, PlayServes DEF Next, PlayStep, Threads
    <2>2. CASE UNCHANGED vars
      <3> USE <2>2 DEF vars, chanVars, pushVars, threadVars, writerVars, history
      <3>1. \A v \in Writers : SameFor(v)
        BY DEF SameFor, Feeding
      <3>2. Publisher' = Publisher /\ Sent' = Sent
        BY PublicationKept DEF Publishing, StreamInv, IndInv
      <3> QED BY <3>1, <3>2, NothingServed
    <2> QED BY <2>1, <2>2
  <1> QED BY <1>1, <1>2, <1>3, StreamInvariant, PTL DEF Spec, AudienceSpec, Served!Spec
=============================================================================
