---------------------------- MODULE ClientProofs ----------------------------
(***************************************************************************)
(* Proofs about an RTMP session and the client on it: how far both ends of *)
(* the command exchange are (SessionInv), what the server's packets are    *)
(* numbered while they travel (DownInv), and what each player of PullStart *)
(* was given (PullInv).                                                    *)
(***************************************************************************)
EXTENDS Client, CacheLemmas, SequenceTheorems, FiniteSetTheorems

-----------------------------------------------------------------------------
(* The command exchange of two ends that are both livelib.                  *)

\* The messages that two ends of livelib send in the exchange.
Hello == Handshake("C0C1", TRUE)
Challenge == Handshake("S0S1S2", TRUE)
Echo == Handshake("C2", TRUE)
ConnectCmd == Command("connect", 1, "app", 0)
CreateCmd == Command("createStream", 2, Nobody, 0)
MethodCmd ==
    Command(client.method, IF client.method = "publish" THEN 3 ELSE 0, "title", 0)
Connected == Command("_result", 1, "NetConnection.Connect.Success", 0)
Created == Command("_result", 2, Nobody, 1)

\* What is left of the response to connect.
ConnectResponses ==
    {<<Control("WindowAckSize"), Control("SetPeerBandwidth"), Control("SetChunkSize"),
       Connected>>,
     <<Control("SetPeerBandwidth"), Control("SetChunkSize"), Connected>>,
     <<Control("SetChunkSize"), Connected>>,
     <<Connected>>}

\* The client is at a stage, with its buffer and its last transaction, the server at
\* another unless it has closed, and u and d are on the wire.
Stage(cl, buf, id, sv, u, d) ==
    /\ client.pc = cl /\ client.transID = id /\ upBuf = buf
    /\ server.pc \in sv \cup {"closed"}
    /\ up = u /\ down = d

\* The server knows the app that connect named.
Accepted == server.app = "app"

\* It knows what else the client asked for.
Requested ==
    Accepted /\ server.name = "title" /\ server.isPublisher = (client.method = "publish")

\* Where the server is after that.
Serving == {"auth", client.method}

\* After controls there is a command, which play takes for its response.
Answered(d) ==
    \E i \in 1..Len(d) : /\ d[i].type = "command"
                         /\ \A j \in 1..(i - 1) : d[j].type = "control"

\* s holds packets of the stream and nothing else.
OnlyMedia(s) == \A i \in 1..Len(s) : s[i].type = "media"

\* The client greets, sends connect, and has the response to it.
Connecting ==
    \/ Stage("c0c1", <<>>, 1, {"c0c1"}, <<>>, <<>>)
    \/ Stage("s0s1s2", <<>>, 1, {"c0c1"}, <<Hello>>, <<>>)
    \/ Stage("s0s1s2", <<>>, 1, {"c2"}, <<>>, <<Challenge>>)
    \/ Stage("sendConnect", <<Echo>>, 1, {"c2"}, <<>>, <<>>)
    \/ Stage("connect", <<>>, 1, {"c2"}, <<Echo, ConnectCmd>>, <<>>)
    \/ Stage("connect", <<>>, 1, {"init"}, <<ConnectCmd>>, <<>>)
    \/ /\ \E d \in ConnectResponses : Stage("connect", <<>>, 1, {"init"}, <<>>, d)
       /\ Accepted
    \/ Stage("sendCreate", <<>>, 1, {"init"}, <<>>, <<>>) /\ Accepted

\* It has a stream created, asks to publish or to play, and has the response.
Creating ==
    /\ Accepted
    /\ \/ Stage("createStream", <<>>, 2, {"init"}, <<CreateCmd>>, <<>>)
       \/ Stage("createStream", <<>>, 2, {"init"}, <<>>, <<Created>>)
       \/ Stage("sendMethod", <<>>, 2, {"init"}, <<>>, <<>>) /\ client.streamid = 1
       \/ Stage(client.method, <<>>, 3, {"init"}, <<MethodCmd>>, <<>>) /\ client.streamid = 1
       \/ /\ Stage(client.method, <<>>, 3, Serving, <<>>, down) /\ client.streamid = 1
          /\ Requested
          /\ client.method = "publish" => down = <<OnStatus("NetStream.Publish.Start")>>
          /\ client.method = "play" => Answered(down)

\* Start has returned.
Streaming ==
    /\ Stage("started", <<>>, 3, Serving, up, down) /\ client.streamid = 1
    /\ Requested
    /\ OnlyMedia(up)

\* The client has come to an end, whatever the server does.
Ended == {"failed", "closed", "panicked"}

\* The fields that the exchange sets, and every field a record has.
SessionTypes ==
    /\ client \in [pc : Starting \cup {"started"} \cup Ended, method : {"publish", "play"},
                   transID : Nat, streamid : {client.streamid}, open : {client.open}]
    /\ server \in [pc : {"c0c1", "c2", "init", "auth", "publish", "play", "closed"},
                   transactionID : {server.transactionID}, streamID : {1},
                   app : {server.app}, name : {server.name},
                   isPublisher : {server.isPublisher}, open : {server.open}]

\* s is a sequence of what it holds.
IsSeq(s) == s \in Seq({s[i] : i \in 1..Len(s)})

\* The wire and the buffers hold sequences, and the server flushes what it writes.
WireInv == IsSeq(up) /\ IsSeq(down) /\ IsSeq(upBuf) /\ downBuf = <<>>

\* Two ends of livelib are at one of the stages, and PullStart and PushStart only
\* run on a session that Start has set up.
SessionInv ==
    /\ WireInv
    /\ BothLivelib =>
         /\ SessionTypes
         /\ client.pc \in Ended \/ Connecting \/ Creating \/ Streaming
         /\ pc # "idle" \/ inPublication => client.pc \in Ended \cup {"started"}

\* Nothing is on the wire and in the buffers of a new session.
LEMMA InitSession == ClientInit => SessionInv
  <1> SUFFICES ASSUME ClientInit PROVE SessionInv
    OBVIOUS
  <1>1. WireInv /\ pc = "idle" /\ ~inPublication
    BY DEF ClientInit, Init, WireInv, IsSeq
  <1>2. ASSUME BothLivelib PROVE SessionTypes /\ Connecting
    <2>1. PICK m \in Methods :
            client = [pc |-> "c0c1", method |-> m, transID |-> 1, streamid |-> 0, open |-> TRUE]
      BY <1>2 DEF ClientInit, Init, BothLivelib
    <2>2. server = [pc |-> "c0c1", transactionID |-> 0, streamID |-> 1, app |-> Nobody,
                    name |-> Nobody, isPublisher |-> FALSE, open |-> TRUE]
      BY <1>2 DEF ClientInit, Init, BothLivelib
    <2>3. SessionTypes
      BY <2>1, <2>2, SessionAssumption DEF SessionTypes, Starting
    <2>4. Stage("c0c1", <<>>, 1, {"c0c1"}, <<>>, <<>>)
      BY <2>1, <2>2 DEF Stage, ClientInit, Init
    <2> QED BY <2>3, <2>4 DEF Connecting
  <1> QED BY <1>1, <1>2 DEF SessionInv

\* Every sequence is one of what it holds.
LEMMA Sequence ==
    ASSUME NEW S, NEW s \in Seq(S)
    PROVE  IsSeq(s)
  <1>1. \A i \in 1..Len(s) : s[i] \in {s[j] : j \in 1..Len(s)}
    OBVIOUS
  <1>2. s \in [1..Len(s) -> {s[j] : j \in 1..Len(s)}] /\ Len(s) \in Nat
    BY <1>1, LenProperties
  <1> QED BY <1>2 DEF IsSeq

\* What is left when a message is read.
LEMMA SequenceTail ==
    ASSUME NEW s, IsSeq(s), s # <<>>
    PROVE  IsSeq(Tail(s))
  <1>1. PICK S : s \in Seq(S)
    BY DEF IsSeq
  <1>2. Tail(s) \in Seq(S)
    BY <1>1
  <1> QED BY <1>2, Sequence

\* A message is put at the end.
LEMMA SequenceAppend ==
    ASSUME NEW s, IsSeq(s), NEW m
    PROVE  IsSeq(Append(s, m))
  <1>1. PICK S : s \in Seq(S)
    BY DEF IsSeq
  <1>2. s \in Seq(S \cup {m}) /\ m \in S \cup {m}
    BY <1>1
  <1>3. Append(s, m) \in Seq(S \cup {m})
    BY <1>2, AppendProperties
  <1> QED BY <1>3, Sequence

\* A buffer is put at the end.
LEMMA SequenceConcat ==
    ASSUME NEW s, IsSeq(s), NEW t, IsSeq(t)
    PROVE  IsSeq(s \o t)
  <1>1. PICK S : s \in Seq(S)
    BY DEF IsSeq
  <1>2. PICK T : t \in Seq(T)
    BY DEF IsSeq
  <1>3. s \in Seq(S \cup T) /\ t \in Seq(S \cup T)
    BY <1>1, <1>2
  <1>4. s \o t \in Seq(S \cup T)
    BY <1>3, ConcatProperties
  <1> QED BY <1>4, Sequence

\* What the wire holds after a message is written to it, or read.
LEMMA Wire ==
    ASSUME NEW a, NEW b
    PROVE  /\ <<>> \o Append(<<>>, a) = <<a>>
           /\ <<>> \o Append(<<b>>, a) = <<b, a>>
           /\ Tail(<<a>>) = <<>> /\ Head(<<a>>) = a
           /\ Tail(<<a, b>>) = <<b>> /\ Head(<<a, b>>) = a
  <1>1. <<>> \o Append(<<>>, a) = <<a>>
    OBVIOUS
  <1>2. <<>> \o Append(<<b>>, a) = <<b, a>>
    <2>1. Append(<<b>>, a) = <<b, a>>
      <3>1. /\ <<b>> \in Seq({a, b}) /\ Len(<<b>>) = 1 /\ <<b>>[1] = b /\ a \in {a, b}
            /\ <<b, a>> \in Seq({a, b}) /\ Len(<<b, a>>) = 2
            /\ <<b, a>>[1] = b /\ <<b, a>>[2] = a
        OBVIOUS
      <3>2. /\ Append(<<b>>, a) \in Seq({a, b}) /\ Len(Append(<<b>>, a)) = 2
            /\ Append(<<b>>, a)[1] = b /\ Append(<<b>>, a)[2] = a
        BY <3>1, AppendProperties
      <3>3. \A i \in 1..2 : Append(<<b>>, a)[i] = <<b, a>>[i]
        BY <3>1, <3>2
      <3> QED BY <3>1, <3>2, <3>3, SeqEqual
    <2>2. <<>> \o <<b, a>> = <<b, a>>
      OBVIOUS
    <2> QED BY <2>1, <2>2
  <1>3. Tail(<<a>>) = <<>>
    OBVIOUS
  <1>4. Tail(<<a, b>>) = <<b>>
    OBVIOUS
  <1>5. Head(<<a>>) = a /\ Head(<<a, b>>) = a
    OBVIOUS
  <1> QED BY <1>1, <1>2, <1>3, <1>4, <1>5

\* HelloClient and HandshakeClient.
LEMMA ClientGreets ==
    ASSUME SessionInv, BothLivelib, HelloClient \/ HandshakeClient
    PROVE  SessionTypes' /\ Connecting'
  <1>1. SessionTypes /\ (Connecting \/ Creating \/ Streaming)
    BY DEF SessionInv, HelloClient, HandshakeClient, Ended
  <1>2. client.method \in {"publish", "play"} /\ client.pc \in {"c0c1", "s0s1s2"}
    BY <1>1 DEF SessionTypes, HelloClient, HandshakeClient
  <1>3. Connecting
    BY <1>1, <1>2 DEF Creating, Streaming, Stage
  <1>4. CASE HelloClient
    <2>1. client' = [client EXCEPT !.pc = "s0s1s2"] /\ client.pc = "c0c1"
      BY <1>4 DEF HelloClient
    <2>2. SessionTypes'
      BY <1>1, <1>4, <2>1 DEF SessionTypes, HelloClient, Starting
    <2>3. Stage("c0c1", <<>>, 1, {"c0c1"}, <<>>, <<>>)
      BY <1>3, <2>1 DEF Connecting, Stage
    <2>4. up' = <<Hello>> /\ upBuf' = <<>>
      BY <1>4, <2>3, Wire DEF HelloClient, ClientSends, Stage, Hello
    <2>5. client'.pc = "s0s1s2" /\ client'.transID = client.transID
      BY <1>1, <2>1 DEF SessionTypes
    <2> QED BY <1>4, <2>2, <2>3, <2>4, <2>5 DEF HelloClient, Connecting, Stage
  <1>5. CASE HandshakeClient
    <2>1. /\ client' = [client EXCEPT !.pc = "sendConnect"] /\ client.pc = "s0s1s2"
          /\ down # <<>> /\ down' = Tail(down)
      BY <1>5 DEF HandshakeClient, ClientReads
    <2>2. SessionTypes'
      BY <1>1, <1>5, <2>1 DEF SessionTypes, HandshakeClient, Starting
    <2>3. Stage("s0s1s2", <<>>, 1, {"c2"}, <<>>, <<Challenge>>)
      BY <1>3, <2>1 DEF Connecting, Stage
    <2>4. upBuf' = <<Echo>> /\ down' = <<>>
      BY <1>5, <2>1, <2>3, Wire DEF HandshakeClient, Stage, Echo
    <2>5. client'.pc = "sendConnect" /\ client'.transID = client.transID
      BY <1>1, <2>1 DEF SessionTypes
    <2> QED BY <1>5, <2>2, <2>3, <2>4, <2>5 DEF HandshakeClient, Connecting, Stage
  <1> QED BY <1>4, <1>5

\* The commands: connect, createStream and publish or play.
LEMMA ClientAsks ==
    ASSUME SessionInv, BothLivelib,
           writeConnectMsg \/ writeCreateStreamMsg \/ writePublishOrPlayMsg
    PROVE  SessionTypes' /\ (Connecting \/ Creating)'
  <1>1. SessionTypes /\ (Connecting \/ Creating \/ Streaming)
    BY DEF SessionInv, writeConnectMsg, writeCreateStreamMsg, writePublishOrPlayMsg, Ended
  <1>2. /\ client.method \in {"publish", "play"}
        /\ client.pc \in {"sendConnect", "sendCreate", "sendMethod"}
    BY <1>1 DEF SessionTypes, writeConnectMsg, writeCreateStreamMsg, writePublishOrPlayMsg
  <1>3. CASE writeConnectMsg
    <2>1. client' = [client EXCEPT !.pc = "connect"] /\ client.pc = "sendConnect"
      BY <1>3 DEF writeConnectMsg
    <2>2. SessionTypes'
      BY <1>1, <1>3, <2>1 DEF SessionTypes, writeConnectMsg, Starting, Awaiting
    <2>3. Stage("sendConnect", <<Echo>>, 1, {"c2"}, <<>>, <<>>)
      BY <1>1, <1>2, <2>1 DEF Connecting, Creating, Streaming, Stage
    <2>4. up' = <<Echo, ConnectCmd>> /\ upBuf' = <<>>
      BY <1>3, <2>3, Wire DEF writeConnectMsg, ClientSends, Stage, ConnectCmd
    <2>5. client'.pc = "connect" /\ client'.transID = client.transID
      BY <1>1, <2>1 DEF SessionTypes
    <2> QED BY <1>3, <2>2, <2>3, <2>4, <2>5 DEF writeConnectMsg, Connecting, Stage
  <1>4. CASE writeCreateStreamMsg
    <2>1. /\ client' = [client EXCEPT !.pc = "createStream", !.transID = @ + 1]
          /\ client.pc = "sendCreate"
      BY <1>4 DEF writeCreateStreamMsg
    <2>2. SessionTypes'
      <3>1. client.transID + 1 \in Nat /\ client.method \in {"publish", "play"}
        BY <1>1 DEF SessionTypes
      <3>2. client' = [pc |-> "createStream", method |-> client.method,
                       transID |-> client.transID + 1, streamid |-> client.streamid,
                       open |-> client.open]
        BY <1>1, <2>1 DEF SessionTypes
      <3> QED BY <1>1, <1>4, <2>1, <3>1, <3>2 DEF SessionTypes, writeCreateStreamMsg, Starting, Awaiting
    <2>3. Stage("sendCreate", <<>>, 1, {"init"}, <<>>, <<>>) /\ Accepted
      BY <1>1, <1>2, <2>1 DEF Connecting, Creating, Streaming, Stage
    <2>4. up' = <<CreateCmd>> /\ upBuf' = <<>>
      BY <1>4, <2>3, Wire DEF writeCreateStreamMsg, ClientSends, Stage, CreateCmd
    <2>5. client'.pc = "createStream" /\ client'.transID = client.transID + 1
      BY <1>1, <2>1 DEF SessionTypes
    <2> QED BY <1>4, <2>2, <2>3, <2>4, <2>5
            DEF writeCreateStreamMsg, Creating, Stage, Accepted
  <1>5. CASE writePublishOrPlayMsg
    <2>1. /\ client' = [client EXCEPT !.pc = client.method, !.transID = @ + 1]
          /\ client.pc = "sendMethod"
      BY <1>5 DEF writePublishOrPlayMsg
    <2>2. SessionTypes'
      <3>1. client.transID + 1 \in Nat /\ client.method \in {"publish", "play"}
        BY <1>1 DEF SessionTypes
      <3>2. client' = [pc |-> client.method, method |-> client.method,
                       transID |-> client.transID + 1, streamid |-> client.streamid,
                       open |-> client.open]
        BY <1>1, <2>1 DEF SessionTypes
      <3> QED BY <1>1, <1>2, <1>5, <2>1, <3>1, <3>2 DEF SessionTypes, writePublishOrPlayMsg, Starting, Awaiting
    <2>3. /\ Stage("sendMethod", <<>>, 2, {"init"}, <<>>, <<>>)
          /\ Accepted /\ client.streamid = 1
      BY <1>1, <1>2, <2>1 DEF Connecting, Creating, Streaming, Stage
    <2>4. /\ client'.pc = client.method /\ client'.transID = client.transID + 1
          /\ client'.method = client.method /\ client'.streamid = client.streamid
      BY <1>1, <2>1 DEF SessionTypes
    <2>5. up' = <<MethodCmd'>> /\ upBuf' = <<>>
      BY <1>5, <2>3, <2>4, Wire DEF writePublishOrPlayMsg, ClientSends, Stage, MethodCmd
    <2> QED BY <1>5, <2>2, <2>3, <2>4, <2>5
            DEF writePublishOrPlayMsg, Creating, Stage, Accepted
  <1> QED BY <1>3, <1>4, <1>5

\* readRespMsg has the response to connect.
LEMMA ClientConnected ==
    ASSUME SessionInv, BothLivelib, readRespMsg, client.pc = "connect"
    PROVE  SessionTypes' /\ Connecting'
  <1>1. /\ SessionTypes /\ down # <<>> /\ down' = Tail(down)
        /\ UNCHANGED <<pair, server, up, upBuf, downBuf, lost, others>>
        /\ Connecting \/ Creating \/ Streaming
    BY DEF SessionInv, readRespMsg, ClientReads, Ended
  <1>2. client.method \in {"publish", "play"}
    BY <1>1 DEF SessionTypes
  <1>3. PICK d \in ConnectResponses : Stage("connect", <<>>, 1, {"init"}, <<>>, d) /\ Accepted
    BY <1>1, <1>2 DEF Connecting, Creating, Streaming, Stage
  <1>4. /\ down = d
        /\ client' = LET m == Head(down)
                         r == Response(client.pc, m, client.transID)
                     IN  IF m.type # "command" THEN client
                         ELSE IF r = "nil"
                           THEN [client EXCEPT !.pc = AfterResponse[client.pc],
                                   !.streamid = IF client.pc = "createStream" THEN m.stream ELSE @]
                         ELSE IF r = "error" /\ client.pc = "createStream" THEN client
                         ELSE [client EXCEPT !.pc = "failed"]
    BY <1>3 DEF Stage, readRespMsg
  <1>5. CASE d = <<Connected>>
    <2>1. Head(down) = Connected /\ down' = <<>>
      BY <1>1, <1>4, <1>5, Wire
    <2>2. Response(client.pc, Head(down), client.transID) = "nil"
      BY <1>3, <2>1 DEF Response, Connected, Command, Stage
    <2>3. client' = [client EXCEPT !.pc = "sendCreate", !.streamid = @]
      BY <1>3, <1>4, <2>1, <2>2 DEF Connected, Command, Stage, AfterResponse
    <2>4. /\ SessionTypes'
          /\ client'.pc = "sendCreate" /\ client'.transID = client.transID
      BY <1>1, <2>3 DEF SessionTypes, Starting
    <2> QED BY <1>1, <1>3, <2>1, <2>4 DEF Connecting, Stage, Accepted
  <1>6. CASE d # <<Connected>>
    <2>1. Head(d).type = "control" /\ Tail(d) \in ConnectResponses
      <3> DEFINE a == Control("WindowAckSize")
                 b == Control("SetPeerBandwidth")
                 c == Control("SetChunkSize")
      <3>1. a.type = "control" /\ b.type = "control" /\ c.type = "control"
        BY DEF Control
      <3>2. d \in {<<a, b, c, Connected>>, <<b, c, Connected>>, <<c, Connected>>}
        BY <1>6 DEF ConnectResponses
      <3> HIDE DEF a, b, c
      <3>3. /\ Tail(<<a, b, c, Connected>>) = <<b, c, Connected>>
            /\ Tail(<<b, c, Connected>>) = <<c, Connected>>
            /\ Tail(<<c, Connected>>) = <<Connected>>
        OBVIOUS
      <3>4. /\ Head(<<a, b, c, Connected>>) = a
            /\ Head(<<b, c, Connected>>) = b
            /\ Head(<<c, Connected>>) = c
        OBVIOUS
      <3> QED BY <3>1, <3>2, <3>3, <3>4 DEF ConnectResponses, a, b, c
    <2>2. client' = client
      BY <1>4, <2>1
    <2>3. SessionTypes'
      BY <1>1, <2>2 DEF SessionTypes
    <2>4. Stage("connect", <<>>, 1, {"init"}, <<>>, Tail(d))' /\ Accepted'
      BY <1>1, <1>3, <1>4, <2>2 DEF Stage, Accepted
    <2> QED BY <2>1, <2>3, <2>4 DEF Connecting
  <1> QED BY <1>5, <1>6

\* What readRespMsg makes of the message that is next.
Responded(m) ==
    LET r == Response(client.pc, m, client.transID)
    IN  IF m.type # "command" THEN client
        ELSE IF r = "nil"
          THEN [client EXCEPT !.pc = AfterResponse[client.pc],
                  !.streamid = IF client.pc = "createStream" THEN m.stream ELSE @]
        ELSE IF r = "error" /\ client.pc = "createStream" THEN client
        ELSE [client EXCEPT !.pc = "failed"]

\* readRespMsg has the response to createStream, with the stream's id.
LEMMA ClientCreated ==
    ASSUME SessionInv, BothLivelib, readRespMsg, client.pc = "createStream"
    PROVE  SessionTypes' /\ Creating'
  <1>1. /\ SessionTypes /\ down # <<>> /\ down' = Tail(down)
        /\ UNCHANGED <<pair, server, up, upBuf, downBuf, lost, others>>
        /\ Connecting \/ Creating \/ Streaming
        /\ client' = Responded(Head(down))
    BY DEF SessionInv, readRespMsg, ClientReads, Ended, Responded
  <1>2. client.method \in {"publish", "play"}
    BY <1>1 DEF SessionTypes
  <1>3. Stage("createStream", <<>>, 2, {"init"}, <<>>, <<Created>>) /\ Accepted
    BY <1>1, <1>2 DEF Connecting, Creating, Streaming, Stage
  <1>4. Head(down) = Created /\ down' = <<>>
    BY <1>1, <1>3, Wire DEF Stage
  <1>5. client' = [client EXCEPT !.pc = "sendMethod", !.streamid = 1]
    <2>1. Response("createStream", Created, 2) = "nil"
      BY DEF Response, Created, Command
    <2>2. Head(down).type = "command" /\ Head(down).stream = 1
      BY <1>4 DEF Created, Command
    <2>3. AfterResponse["createStream"] = "sendMethod"
      BY DEF AfterResponse
    <2>4. Response(client.pc, Head(down), client.transID) = "nil"
      BY <1>3, <1>4, <2>1 DEF Stage
    <2> QED BY <1>1, <1>3, <2>2, <2>3, <2>4 DEF Responded, Stage
  <1>6. /\ SessionTypes' /\ client'.pc = "sendMethod"
        /\ client'.transID = client.transID /\ client'.streamid = 1
    BY <1>1, <1>5 DEF SessionTypes, Starting
  <1> QED BY <1>1, <1>3, <1>4, <1>6 DEF Creating, Stage, Accepted

\* readRespMsg has the response to publish or play, or a message before it.
LEMMA ClientAnswered ==
    ASSUME SessionInv, BothLivelib, readRespMsg, client.pc \in {"publish", "play"}
    PROVE  SessionTypes' /\ (Creating \/ Streaming)'
  <1>1. /\ SessionTypes /\ down # <<>> /\ down' = Tail(down)
        /\ UNCHANGED <<pair, server, up, upBuf, downBuf, lost, others>>
        /\ Connecting \/ Creating \/ Streaming
        /\ client' = Responded(Head(down))
    BY DEF SessionInv, readRespMsg, ClientReads, Ended, Responded
  <1>2. client.method \in {"publish", "play"}
    BY <1>1 DEF SessionTypes
  <1>3. /\ Stage(client.method, <<>>, 3, Serving, <<>>, down) /\ client.streamid = 1
        /\ Requested
        /\ client.method = "publish" => down = <<OnStatus("NetStream.Publish.Start")>>
        /\ client.method = "play" => Answered(down)
    BY <1>1, <1>2 DEF Connecting, Creating, Streaming, Stage
  <1>4. client.method = "publish" => Head(down) = OnStatus("NetStream.Publish.Start")
    BY <1>3, Wire
  <1>5. Head(down).type = "command" => Response(client.pc, Head(down), client.transID) = "nil"
    BY <1>2, <1>3, <1>4 DEF Response, Stage, OnStatus, Command
  <1>6. CASE Head(down).type = "command"
    <2>0. AfterResponse[client.pc] = "started" /\ client.pc # "createStream"
      BY <1>2, <1>3 DEF Stage, AfterResponse
    <2>1. client' = [client EXCEPT !.pc = "started", !.streamid = @]
      BY <1>1, <1>5, <1>6, <2>0 DEF Responded
    <2>2. /\ SessionTypes' /\ client'.pc = "started" /\ client'.method = client.method
          /\ client'.transID = client.transID /\ client'.streamid = client.streamid
      BY <1>1, <2>1 DEF SessionTypes
    <2>3. OnlyMedia(up')
      BY <1>1, <1>3 DEF OnlyMedia, Stage
    <2> QED BY <1>1, <1>3, <2>2, <2>3
            DEF Streaming, Stage, Serving, Requested, Accepted, OnlyMedia
  <1>7. CASE Head(down).type # "command"
    <2>1. client' = client
      BY <1>1, <1>7 DEF Responded
    <2>2. client.method = "play"
      BY <1>2, <1>4, <1>7 DEF OnStatus, Command
    <2>3. Answered(Tail(down))
      <3>1. PICK i \in 1..Len(down) : /\ down[i].type = "command"
                                      /\ \A j \in 1..(i - 1) : down[j].type = "control"
        BY <1>3, <2>2 DEF Answered
      <3>2. PICK S : down \in Seq(S)
        BY DEF SessionInv, WireInv, IsSeq
      <3>3. /\ Len(Tail(down)) = Len(down) - 1 /\ Len(down) \in Nat
            /\ \A j \in 1..Len(Tail(down)) : Tail(down)[j] = down[j + 1]
            /\ Head(down) = down[1]
        BY <1>1, <3>2
      <3> DEFINE rest == Tail(down)
      <3> HIDE DEF rest
      <3>4. i # 1
        BY <1>7, <3>1, <3>3
      <3>5. i - 1 \in 1..Len(rest) /\ (i - 1) + 1 = i
        BY <3>1, <3>3, <3>4 DEF rest
      <3>6. rest[i - 1].type = "command"
        BY <3>1, <3>3, <3>5 DEF rest
      <3>7. \A j \in 1..((i - 1) - 1) : rest[j].type = "control"
        <4> SUFFICES ASSUME NEW j \in 1..((i - 1) - 1) PROVE rest[j].type = "control"
          OBVIOUS
        <4>1. j \in 1..Len(rest) /\ j + 1 \in 1..(i - 1)
          BY <3>1, <3>3 DEF rest
        <4> QED BY <3>1, <3>3, <4>1 DEF rest
      <3> QED BY <3>5, <3>6, <3>7 DEF Answered, rest
    <2>4. SessionTypes' /\ Stage(client.method, <<>>, 3, Serving, <<>>, down)'
      BY <1>1, <1>3, <2>1 DEF SessionTypes, Stage, Serving
    <2>5. Requested' /\ Accepted'
      BY <1>1, <1>3, <2>1 DEF Requested, Accepted
    <2> QED BY <1>1, <1>3, <2>1, <2>2, <2>3, <2>4, <2>5 DEF Creating, Answered
  <1> QED BY <1>6, <1>7

\* The end of Start, of the client, or of its handshake in time.
LEMMA ClientEnds ==
    ASSUME SessionInv, BothLivelib, readRespEOF \/ StartFails \/ ClientDeadline \/ ClientClose
    PROVE  SessionTypes' /\ client'.pc \in Ended
  <1>1. SessionTypes
    BY DEF SessionInv
  <1>2. /\ client' \in {[client EXCEPT !.pc = "failed"],
                        [client EXCEPT !.pc = "panicked", !.open = FALSE],
                        [client EXCEPT !.pc = "closed", !.open = FALSE]}
        /\ UNCHANGED server
    BY DEF readRespEOF, StartFails, ClientDeadline, ClientClose
  <1> QED BY <1>1, <1>2 DEF SessionTypes, Ended

\* A step of the client in Start.
LEMMA ClientStep ==
    ASSUME SessionInv, BothLivelib, ConnClientStart \/ ClientDeadline \/ ClientClose
    PROVE  SessionTypes' /\ (client'.pc \in Ended \/ (Connecting \/ Creating \/ Streaming)')
  <1>1. CASE readRespMsg
    <2>1. client.pc \in Awaiting
      BY <1>1 DEF readRespMsg
    <2> QED BY <1>1, <2>1, ClientConnected, ClientCreated, ClientAnswered DEF Awaiting
  <1>2. CASE ~readRespMsg
    BY <1>2, ClientGreets, ClientAsks, ClientEnds DEF ConnClientStart
  <1> QED BY <1>1, <1>2

\* A server that closes is at every stage.
LEMMA ServerCloses ==
    ASSUME SessionInv, BothLivelib, server' = CloseServer,
           UNCHANGED <<client, up, down, upBuf>>
    PROVE  SessionTypes' /\ (client'.pc \in Ended \/ (Connecting \/ Creating \/ Streaming)')
  <1>1. /\ SessionTypes
        /\ client.pc \in Ended \/ Connecting \/ Creating \/ Streaming
    BY DEF SessionInv
  <1>2. /\ server' = [server EXCEPT !.pc = "closed", !.open = FALSE]
        /\ server'.pc = "closed" /\ server'.app = server.app /\ server'.name = server.name
        /\ server'.isPublisher = server.isPublisher
    BY <1>1 DEF SessionTypes, CloseServer
  <1>3. SessionTypes'
    BY <1>1, <1>2 DEF SessionTypes
  <1>4. ASSUME NEW cl, NEW buf, NEW id, NEW sv, NEW u, NEW d, Stage(cl, buf, id, sv, u, d)
        PROVE  Stage(cl, buf, id, sv, u, d)'
    BY <1>2, <1>4 DEF Stage
  <1>5. Connecting => Connecting'
    BY <1>2, <1>4 DEF Connecting, Accepted
  <1>6. Creating => Creating'
    BY <1>2 DEF Creating, Stage, Serving, MethodCmd, Requested, Accepted, Answered
  <1>7. Streaming => Streaming'
    BY <1>2 DEF Streaming, Stage, Serving, Requested, Accepted, OnlyMedia
  <1> QED BY <1>1, <1>3, <1>5, <1>6, <1>7

\* The server's record keeps its fields.
LEMMA ServerTypes ==
    ASSUME SessionInv, BothLivelib, handleConn
    PROVE  SessionTypes' /\ client' = client
  <1>1. /\ SessionTypes /\ client' = client
        /\ client.method \in {"publish", "play"}
    BY DEF SessionInv, SessionTypes, handleConn, HandshakeServer, HandshakeServerEnd, Connect,
           CreateStream, PublishOrPlay, Ignore, Auth, PushRead, ServerFails, Reads
  <1>2. CASE HandshakeServer
    BY <1>1, <1>2 DEF SessionTypes, HandshakeServer, CloseServer
  <1>3. CASE HandshakeServerEnd \/ Ignore \/ PushRead \/ ServerFails
    BY <1>1, <1>3 DEF SessionTypes, HandshakeServerEnd, Ignore, PushRead, ServerFails,
                      CloseServer
  <1>4. CASE Connect
    BY <1>1, <1>4 DEF SessionTypes, Connect, CloseServer
  <1>5. CASE CreateStream
    BY <1>1, <1>5 DEF SessionTypes, CreateStream
  <1>6. CASE PublishOrPlay
    BY <1>1, <1>6 DEF SessionTypes, PublishOrPlay, Reads
  <1>7. CASE Auth
    BY <1>1, <1>7 DEF SessionTypes, Auth, CloseServer
  <1> QED BY <1>2, <1>3, <1>4, <1>5, <1>6, <1>7 DEF handleConn

\* The server's side of the handshake.
LEMMA ServerGreets ==
    ASSUME SessionInv, BothLivelib, HandshakeServer \/ HandshakeServerEnd,
           client.pc \notin Ended
    PROVE  Connecting'
  <1>1. /\ SessionTypes /\ downBuf = <<>>
        /\ Connecting \/ Creating \/ Streaming
        /\ client' = client /\ client.method \in {"publish", "play"}
    BY DEF SessionInv, WireInv, SessionTypes, HandshakeServer, HandshakeServerEnd
  <1>2. CASE HandshakeServer
    <2>1. server.pc = "c0c1" /\ up # <<>>
      BY <1>2 DEF HandshakeServer, ServerReads
    <2>2. Stage("s0s1s2", <<>>, 1, {"c0c1"}, <<Hello>>, <<>>)
      BY <1>1, <2>1 DEF Connecting, Creating, Streaming, Stage, Serving
    <2>3. Head(up) = Hello /\ up' = <<>>
      BY <1>2, <2>2, Wire DEF HandshakeServer, ServerReads, Stage
    <2>4. /\ server' = [server EXCEPT !.pc = "c2"]
          /\ down' = down \o downBuf \o <<Challenge>> /\ upBuf' = upBuf
      BY <1>2, <2>3 DEF HandshakeServer, ServerSends, Hello, Challenge, Handshake
    <2>5. down' = <<Challenge>>
      <3>1. <<>> \o <<>> \o <<Challenge>> = <<Challenge>>
        OBVIOUS
      <3> QED BY <1>1, <2>2, <2>4, <3>1 DEF Stage
    <2>6. server'.pc = "c2"
      BY <1>1, <2>4 DEF SessionTypes
    <2> QED BY <1>1, <2>2, <2>3, <2>4, <2>5, <2>6 DEF Connecting, Stage
  <1>3. CASE HandshakeServerEnd
    <2>1. server.pc = "c2" /\ up # <<>> /\ up' = Tail(up) /\ UNCHANGED <<down, upBuf>>
      BY <1>3 DEF HandshakeServerEnd, ServerReads
    <2>2. Stage("connect", <<>>, 1, {"c2"}, <<Echo, ConnectCmd>>, <<>>)
      BY <1>1, <2>1 DEF Connecting, Creating, Streaming, Stage, Serving
    <2>3. up' = <<ConnectCmd>>
      BY <2>1, <2>2, Wire DEF Stage
    <2>4. server'.pc = "init"
      BY <1>1, <1>3 DEF HandshakeServerEnd, SessionTypes
    <2> QED BY <1>1, <2>1, <2>2, <2>3, <2>4 DEF Connecting, Stage
  <1> QED BY <1>2, <1>3

\* ReadInitMsg reads connect, and answers.
LEMMA ServerConnects ==
    ASSUME SessionInv, BothLivelib, Connect, client.pc \notin Ended
    PROVE  Connecting'
  <1>1. /\ SessionTypes /\ downBuf = <<>>
        /\ Connecting \/ Creating \/ Streaming
        /\ client' = client /\ client.method \in {"publish", "play"}
    BY DEF SessionInv, WireInv, SessionTypes, Connect, Reads
  <1>2. /\ server.pc = "init" /\ up # <<>> /\ up' = Tail(up)
        /\ Head(up).name = "connect" /\ upBuf' = upBuf
    BY DEF Connect, Reads, ServerReads
  <1>3. Stage("connect", <<>>, 1, {"init"}, <<ConnectCmd>>, <<>>)
    <2>1. MethodCmd.name = client.method /\ CreateCmd.name = "createStream"
      BY DEF MethodCmd, CreateCmd, Command
    <2>2. up # <<MethodCmd>> /\ up # <<CreateCmd>>
      BY <1>1, <1>2, <2>1, Wire
    <2> QED BY <1>1, <1>2, <2>2 DEF Connecting, Creating, Streaming, Stage, Serving
  <1>4. Head(up) = ConnectCmd /\ up' = <<>>
    BY <1>2, <1>3, Wire DEF Stage
  <1> DEFINE all == <<Control("WindowAckSize"), Control("SetPeerBandwidth"),
                      Control("SetChunkSize"), Connected>>
  <1>5. /\ server' = [server EXCEPT !.transactionID = 1, !.app = "app"]
        /\ down' = down \o downBuf \o all
    <2>1. Head(up).id = 1 /\ Head(up).arg = "app"
      BY <1>4 DEF ConnectCmd, Command
    <2>2. server' = [server EXCEPT !.transactionID = 1, !.app = Head(up).arg] /\ ServerSends(all)
      BY <2>1 DEF Connect, Connected
    <2> HIDE DEF all
    <2> QED BY <2>1, <2>2 DEF ServerSends
  <1>6. down' = all
    <2>1. <<>> \o <<>> \o all = all
      OBVIOUS
    <2> QED BY <1>1, <1>3, <1>5, <2>1 DEF Stage
  <1>7. server'.pc = server.pc /\ Accepted'
    BY <1>1, <1>5 DEF SessionTypes, Accepted
  <1>8. Stage("connect", <<>>, 1, {"init"}, <<>>, all)'
    BY <1>1, <1>2, <1>3, <1>4, <1>6, <1>7 DEF Stage
  <1>9. all \in ConnectResponses
    BY DEF ConnectResponses
  <1> HIDE DEF all
  <1> QED BY <1>7, <1>8, <1>9 DEF Connecting

\* ReadInitMsg reads createStream, and answers.
LEMMA ServerCreates ==
    ASSUME SessionInv, BothLivelib, CreateStream, client.pc \notin Ended
    PROVE  Creating'
  <1>1. /\ SessionTypes /\ downBuf = <<>>
        /\ Connecting \/ Creating \/ Streaming
        /\ client' = client /\ client.method \in {"publish", "play"}
    BY DEF SessionInv, WireInv, SessionTypes, CreateStream, Reads
  <1>2. /\ server.pc = "init" /\ up # <<>> /\ up' = Tail(up)
        /\ Head(up).name = "createStream" /\ upBuf' = upBuf
    BY DEF CreateStream, Reads, ServerReads
  <1>3. Stage("createStream", <<>>, 2, {"init"}, <<CreateCmd>>, <<>>) /\ Accepted
    <2>1. MethodCmd.name = client.method /\ ConnectCmd.name = "connect"
      BY DEF MethodCmd, ConnectCmd, Command
    <2>2. up # <<MethodCmd>> /\ up # <<ConnectCmd>>
      BY <1>1, <1>2, <2>1, Wire
    <2> QED BY <1>1, <1>2, <2>2 DEF Connecting, Creating, Streaming, Stage, Serving
  <1>4. Head(up) = CreateCmd /\ up' = <<>>
    BY <1>2, <1>3, Wire DEF Stage
  <1>5. Head(up).id = 2 /\ server.streamID = 1
    BY <1>1, <1>4 DEF SessionTypes, CreateCmd, Command
  <1>6. /\ server' = [server EXCEPT !.transactionID = 2]
        /\ down' = down \o downBuf \o <<Created>>
    BY <1>5 DEF CreateStream, ServerSends, Created
  <1>7. down' = <<Created>>
    <2>1. <<>> \o <<>> \o <<Created>> = <<Created>>
      OBVIOUS
    <2> QED BY <1>1, <1>3, <1>6, <2>1 DEF Stage
  <1>8. server'.pc = server.pc /\ Accepted'
    BY <1>1, <1>3, <1>6 DEF SessionTypes, Accepted
  <1> QED BY <1>1, <1>2, <1>3, <1>4, <1>7, <1>8 DEF Creating, Stage

\* ReadInitMsg reads publish or play, answers, and returns.
LEMMA ServerAnswers ==
    ASSUME SessionInv, BothLivelib, PublishOrPlay, client.pc \notin Ended
    PROVE  Creating'
  <1>1. /\ SessionTypes /\ downBuf = <<>>
        /\ Connecting \/ Creating \/ Streaming
        /\ client' = client /\ client.method \in {"publish", "play"}
    BY DEF SessionInv, WireInv, SessionTypes, PublishOrPlay, Reads
  <1>2. /\ server.pc = "init" /\ up # <<>> /\ up' = Tail(up)
        /\ Head(up).name \in {"publish", "play"} /\ upBuf' = upBuf
    BY DEF PublishOrPlay, Reads, ServerReads
  <1>3. /\ Stage(client.method, <<>>, 3, {"init"}, <<MethodCmd>>, <<>>)
        /\ client.streamid = 1 /\ Accepted
    <2>1. CreateCmd.name = "createStream" /\ ConnectCmd.name = "connect"
      BY DEF CreateCmd, ConnectCmd, Command
    <2>2. up # <<CreateCmd>> /\ up # <<ConnectCmd>>
      BY <1>1, <1>2, <2>1, Wire
    <2> QED BY <1>1, <1>2, <2>2 DEF Connecting, Creating, Streaming, Stage, Serving
  <1>4. Head(up) = MethodCmd /\ up' = <<>>
    BY <1>2, <1>3, Wire DEF Stage
  <1>5. Head(up).name = client.method /\ Head(up).arg = "title"
    BY <1>4 DEF MethodCmd, Command
  <1>6. server' = [server EXCEPT !.pc = "auth", !.transactionID = Head(up).id,
                     !.name = "title", !.isPublisher = (client.method = "publish")]
    BY <1>5 DEF PublishOrPlay
  <1>7. server'.pc = "auth" /\ Requested' /\ Accepted'
    BY <1>1, <1>3, <1>6 DEF SessionTypes, Requested, Accepted
  <1>8. CASE client.method = "publish"
    <2>1. down' = down \o downBuf \o <<OnStatus("NetStream.Publish.Start")>>
      BY <1>5, <1>8 DEF PublishOrPlay, ServerSends
    <2>2. <<>> \o <<>> \o <<OnStatus("NetStream.Publish.Start")>>
            = <<OnStatus("NetStream.Publish.Start")>>
      OBVIOUS
    <2>3. down' = <<OnStatus("NetStream.Publish.Start")>>
      BY <1>1, <1>3, <2>1, <2>2 DEF Stage
    <2> QED BY <1>1, <1>2, <1>3, <1>4, <1>7, <1>8, <2>3 DEF Creating, Stage, Serving
  <1>9. CASE client.method = "play"
    <2> DEFINE a == Control("StreamIsRecorded")
               b == Control("StreamBegin")
               c == OnStatus("NetStream.Play.Reset")
               all == <<a, b, c, OnStatus("NetStream.Play.Start"),
                        OnStatus("NetStream.Data.Start"),
                        OnStatus("NetStream.Play.PublishNotify")>>
    <2>1. ServerSends(all)
      BY <1>5, <1>9 DEF PublishOrPlay
    <2>2. Len(all) = 6 /\ all[1] = a /\ all[2] = b /\ all[3] = c
      OBVIOUS
    <2>3. <<>> \o <<>> \o all = all
      OBVIOUS
    <2>4. a.type = "control" /\ b.type = "control" /\ c.type = "command"
      BY DEF Control, OnStatus, Command
    <2> HIDE DEF a, b, c, all
    <2>5. down' = all
      BY <1>1, <1>3, <2>1, <2>3 DEF ServerSends, Stage
    <2>6. Answered(all)
      <3>1. 3 \in 1..Len(all) /\ \A j \in 1..(3 - 1) : j = 1 \/ j = 2
        BY <2>2
      <3> QED BY <2>2, <2>4, <3>1 DEF Answered
    <2> QED BY <1>1, <1>2, <1>3, <1>4, <1>7, <1>9, <2>5, <2>6 DEF Creating, Stage, Serving
  <1> QED BY <1>1, <1>8, <1>9

\* The server's decision, what a publisher sends, and messages that are ignored.
LEMMA ServerServes ==
    ASSUME SessionInv, BothLivelib, Auth \/ PushRead \/ Ignore, server' # CloseServer,
           client.pc \notin Ended
    PROVE  (Connecting \/ Creating \/ Streaming)'
  <1>1. /\ SessionTypes /\ WireInv
        /\ Connecting \/ Creating \/ Streaming
        /\ client' = client /\ client.method \in {"publish", "play"}
    BY DEF SessionInv, SessionTypes, Auth, PushRead, Ignore
  <1>2. CASE Ignore
    <2>1. server.pc = "init" /\ up # <<>>
          /\ \/ Head(up).type # "command"
             \/ Head(up).name \notin {"connect", "createStream", "publish", "play"}
      BY <1>2 DEF Ignore, ServerReads
    <2>2. \A m \in {ConnectCmd, CreateCmd, MethodCmd} :
            m.type = "command" /\ m.name \in {"connect", "createStream", "publish", "play"}
      BY <1>1 DEF ConnectCmd, CreateCmd, MethodCmd, Command
    <2>3. up \notin {<<ConnectCmd>>, <<CreateCmd>>, <<MethodCmd>>}
      BY <2>1, <2>2, Wire
    <2> QED BY <1>1, <2>1, <2>3 DEF Connecting, Creating, Streaming, Stage, Serving
  <1>3. CASE PushRead
    <2>1. /\ server.pc = "publish" /\ up # <<>> /\ up' = Tail(up)
          /\ UNCHANGED <<server, down, upBuf>>
      BY <1>3 DEF PushRead, ServerReads
    <2>2. Streaming
      BY <1>1, <2>1 DEF Connecting, Creating, Streaming, Stage, Serving
    <2>3. OnlyMedia(up')
      <3>1. PICK S : up \in Seq(S)
        BY <1>1 DEF WireInv, IsSeq
      <3>2. /\ Len(up') = Len(up) - 1 /\ Len(up) \in Nat
            /\ \A i \in 1..Len(up') : up'[i] = up[i + 1]
        BY <2>1, <3>1
      <3>3. \A i \in 1..Len(up') : i + 1 \in 1..Len(up)
        BY <3>2
      <3> QED BY <2>2, <3>2, <3>3 DEF Streaming, OnlyMedia
    <2> QED BY <1>1, <2>1, <2>2, <2>3 DEF Streaming, Stage, Serving, Requested, Accepted
  <1>4. CASE Auth
    <2>1. /\ server.pc = "auth"
          /\ server' = [server EXCEPT !.pc = IF server.isPublisher THEN "publish" ELSE "play"]
          /\ UNCHANGED <<up, down, upBuf>>
      BY <1>4 DEF Auth
    <2>2. /\ server'.pc = (IF server.isPublisher THEN "publish" ELSE "play")
          /\ server'.app = server.app /\ server'.name = server.name
          /\ server'.isPublisher = server.isPublisher
      BY <1>1, <2>1 DEF SessionTypes
    <2>3. \/ Streaming
          \/ /\ Stage(client.method, <<>>, 3, Serving, <<>>, down) /\ client.streamid = 1
             /\ Requested
             /\ client.method = "publish" => down = <<OnStatus("NetStream.Publish.Start")>>
             /\ client.method = "play" => Answered(down)
      BY <1>1, <2>1 DEF Connecting, Creating, Streaming, Stage, Serving
    <2>4. Requested /\ Accepted
      BY <2>3 DEF Streaming, Requested
    <2>5. server'.pc = client.method /\ Requested' /\ Accepted'
      BY <1>1, <2>2, <2>4 DEF Requested, Accepted
    <2>6. Streaming => Streaming'
      BY <1>1, <2>1, <2>5 DEF Streaming, Stage, Serving, OnlyMedia
    <2> QED BY <1>1, <2>1, <2>3, <2>5, <2>6 DEF Creating, Stage, Serving, Answered
  <1> QED BY <1>2, <1>3, <1>4

\* A callback of Range leaves the session, the cache and the packet alone.
LEMMA CallbackFrame ==
    ASSUME Callback
    PROVE  /\ UNCHANGED sessionVars /\ UNCHANGED <<sent, frames, pulls, cache, pkt>>
           /\ UNCHANGED pushVars
           /\ pc \notin {"idle", "read"} /\ pc' \notin {"idle", "read"}
  BY DEF Callback, Visit, VisitWrite, VisitDone, VisitDrop, VisitClose

\* Sequences of messages stay sequences, and the server keeps nothing back.
LEMMA WireStep ==
    ASSUME WireInv, Next
    PROVE  WireInv'
  <1> USE DEF WireInv
  <1>1. IsSeq(<<>>)
    BY DEF IsSeq
  <1>2. ASSUME NEW m PROVE IsSeq(<<m>>)
    <2>1. <<m>> \in Seq({m})
      OBVIOUS
    <2> QED BY <2>1, Sequence
  <1>3. ASSUME NEW m, ClientSends(m), UNCHANGED <<down, downBuf>> PROVE WireInv'
    BY <1>1, <1>3, SequenceAppend, SequenceConcat DEF ClientSends
  <1>4. ASSUME NEW out, IsSeq(out), ServerSends(out), UNCHANGED <<up, upBuf>> PROVE WireInv'
    BY <1>4, SequenceConcat DEF ServerSends
  <1>5. ASSUME NEW out, IsSeq(out), ServerSends(out), ServerReads, UNCHANGED upBuf PROVE WireInv'
    BY <1>5, SequenceConcat, SequenceTail DEF ServerSends, ServerReads
  <1>6. ASSUME ServerReads, UNCHANGED <<upBuf, down, downBuf>> PROVE WireInv'
    BY <1>6, SequenceTail DEF ServerReads
  <1>7. ASSUME ClientReads, UNCHANGED <<up, downBuf>>,
               upBuf' = upBuf \/ \E m : upBuf' = Append(upBuf, m)
        PROVE  WireInv'
    BY <1>7, SequenceTail, SequenceAppend DEF ClientReads
  <1>8. ASSUME UNCHANGED <<up, down, upBuf, downBuf>> PROVE WireInv'
    BY <1>8
  <1>9. CASE ConnClientStart \/ ClientDeadline \/ ClientClose
    <2>1. CASE HelloClient \/ writeConnectMsg \/ writeCreateStreamMsg \/ writePublishOrPlayMsg
      BY <1>3, <2>1 DEF HelloClient, writeConnectMsg, writeCreateStreamMsg,
                        writePublishOrPlayMsg
    <2>2. CASE HandshakeClient \/ readRespMsg
      BY <1>7, <2>2 DEF HandshakeClient, readRespMsg
    <2>3. CASE readRespEOF \/ StartFails \/ ClientDeadline \/ ClientClose
      BY <1>8, <2>3 DEF readRespEOF, StartFails, ClientDeadline, ClientClose
    <2> QED BY <1>9, <2>1, <2>2, <2>3 DEF ConnClientStart
  <1>10. CASE handleConn \/ ServerDeadline \/ HandlerEnds
    <2>1. CASE HandshakeServer
      BY <1>2, <1>5, <1>6, <2>1 DEF HandshakeServer
    <2>2. CASE Connect
      <3>1. /\ ServerReads /\ upBuf' = upBuf
            /\ \/ \E a, b, c, d : ServerSends(<<a, b, c, d>>)
               \/ UNCHANGED <<down, downBuf>>
        BY <2>2 DEF Connect, Reads
      <3>2. \A a, b, c, d : IsSeq(<<a, b, c, d>>)
        <4>1. ASSUME NEW a, NEW b, NEW c, NEW d PROVE <<a, b, c, d>> \in Seq({a, b, c, d})
          OBVIOUS
        <4> QED BY <4>1, Sequence
      <3> QED BY <1>5, <1>6, <3>1, <3>2
    <2>3. CASE CreateStream
      BY <1>2, <1>5, <2>3 DEF CreateStream, Reads
    <2>4. CASE PublishOrPlay
      <3>1. /\ ServerReads /\ upBuf' = upBuf
            /\ \/ \E a : ServerSends(<<a>>)
               \/ \E a, b, c, d, e, f : ServerSends(<<a, b, c, d, e, f>>)
        BY <2>4 DEF PublishOrPlay, Reads
      <3>2. \A a, b, c, d, e, f : IsSeq(<<a, b, c, d, e, f>>)
        <4>1. ASSUME NEW a, NEW b, NEW c, NEW d, NEW e, NEW f
              PROVE  <<a, b, c, d, e, f>> \in Seq({a, b, c, d, e, f})
          OBVIOUS
        <4> QED BY <4>1, Sequence
      <3> QED BY <1>2, <1>5, <3>1, <3>2
    <2>5. CASE HandshakeServerEnd \/ Ignore \/ PushRead
      BY <1>6, <2>5 DEF HandshakeServerEnd, Ignore, PushRead
    <2>6. CASE Auth \/ ServerFails \/ ServerDeadline \/ HandlerEnds
      BY <1>8, <2>6 DEF Auth, ServerFails, ServerDeadline, HandlerEnds
    <2> QED BY <1>10, <2>1, <2>2, <2>3, <2>4, <2>5, <2>6 DEF handleConn
  <1>11. CASE OtherClient \/ OtherServer \/ OtherServerClose \/ Break
    BY <1>2, <1>3, <1>4, <1>8, <1>11 DEF OtherClient, OtherServer, OtherServerClose, Break
  <1>12. CASE ServerPlays
    BY <1>2, <1>4, <1>12 DEF ServerPlays, PlaySend
  <1>13. CASE Pull
    BY <1>7, <1>8, <1>13, CallbackFrame
       DEF Pull, PullStart, PullRead, PullReturn, RangeEnd, sessionVars
  <1>14. CASE Push
    BY <1>3, <1>8, <1>14 DEF Push, PushStart, SrcRead, SrcEnds, PushSend, PushReturn, Cancel,
                             sessionVars
  <1>15. CASE \E w \in Players : Player(w)
    BY <1>8, <1>15 DEF Player, AddPlayer, DelPlayer, PlayerClose, sessionVars
  <1> QED BY <1>9, <1>10, <1>11, <1>12, <1>13, <1>14, <1>15 DEF Next, SessionNext

\* Media that either end sends or reads changes no stage.
LEMMA MediaKeepsStage ==
    ASSUME SessionInv, BothLivelib, UNCHANGED <<client, server>>,
           \/ /\ server.pc = "play" /\ UNCHANGED <<up, upBuf>>
              /\ \E p : down' = down \o downBuf \o <<Media(p)>>
           \/ client.pc \in Ended \cup {"started"} /\ UNCHANGED <<up, upBuf>>
           \/ client.pc \in Ended \cup {"started"} /\ \E p : ClientSends(Media(p))
    PROVE  SessionTypes' /\ (client'.pc \in Ended \/ (Connecting \/ Creating \/ Streaming)')
  <1>1. /\ SessionTypes /\ WireInv
        /\ client.pc \in Ended \/ Connecting \/ Creating \/ Streaming
        /\ client' = client /\ client.method \in {"publish", "play"}
        /\ server' = server
    BY DEF SessionInv, SessionTypes
  <1>2. SessionTypes'
    BY <1>1 DEF SessionTypes
  <1>3. CASE client.pc \in Ended
    BY <1>1, <1>2, <1>3
  <1>4. CASE /\ client.pc \notin Ended /\ server.pc = "play" /\ UNCHANGED <<up, upBuf>>
             /\ \E p : down' = down \o downBuf \o <<Media(p)>>
    <2>1. PICK p : down' = down \o downBuf \o <<Media(p)>>
      BY <1>4
    <2>2. PICK S : down \in Seq(S)
      BY <1>1 DEF WireInv, IsSeq
    <2>3. down \o <<>> = down
      BY <2>2
    <2>4. down' = down \o <<Media(p)>> /\ down \in Seq(S \cup {Media(p)})
          /\ <<Media(p)>> \in Seq(S \cup {Media(p)})
      BY <1>1, <2>1, <2>2, <2>3 DEF WireInv
    <2>5. Len(down') = Len(down) + 1 /\ \A i \in 1..Len(down) : down'[i] = down[i]
      BY <2>4, ConcatProperties
    <2>6. Answered(down) => Answered(down')
      <3> SUFFICES ASSUME NEW i \in 1..Len(down), down[i].type = "command",
                          \A j \in 1..(i - 1) : down[j].type = "control"
                   PROVE  Answered(down')
        BY DEF Answered
      <3>1. Len(down) \in Nat
        BY <2>2
      <3>2. i \in 1..Len(down') /\ down'[i].type = "command"
        BY <2>5, <3>1
      <3>3. \A j \in 1..(i - 1) : down'[j].type = "control"
        BY <2>5, <3>1
      <3> QED BY <3>2, <3>3 DEF Answered
    <2>7. \/ Streaming
          \/ /\ Stage(client.method, <<>>, 3, Serving, <<>>, down) /\ client.streamid = 1
             /\ Requested /\ client.method = "play" /\ Answered(down)
      BY <1>1, <1>4 DEF Connecting, Creating, Streaming, Stage, Serving
    <2>8. CASE Streaming
      <3>1. Streaming'
        BY <1>1, <1>4, <2>8
           DEF Streaming, Stage, Serving, Requested, Accepted, OnlyMedia
      <3> QED BY <1>2, <3>1
    <2>9. CASE ~Streaming
      <3>1. Stage(client.method, <<>>, 3, Serving, <<>>, down)' /\ Requested' /\ Accepted'
        BY <1>1, <1>4, <2>7, <2>9 DEF Stage, Serving, Requested, Accepted
      <3> QED BY <1>1, <1>2, <2>6, <2>7, <2>9, <3>1 DEF Creating
    <2> QED BY <2>8, <2>9
  <1>5. CASE client.pc = "started" /\ (UNCHANGED <<up, upBuf>> \/ \E p : ClientSends(Media(p)))
    <2>1. Streaming
      BY <1>1, <1>5 DEF Connecting, Creating, Streaming, Stage, Ended
    <2>2. OnlyMedia(up')
      <3>1. CASE up' = up
        BY <2>1, <3>1 DEF Streaming, OnlyMedia
      <3>2. CASE \E p : ClientSends(Media(p))
        <4>1. PICK p : up' = up \o Append(<<>>, Media(p))
          BY <2>1, <3>2 DEF ClientSends, Streaming, Stage
        <4>2. PICK S : up \in Seq(S)
          BY <1>1 DEF WireInv, IsSeq
        <4> DEFINE m == Media(p)
        <4>3. m.type = "media" /\ Append(<<>>, m) = <<m>>
          BY DEF Media
        <4> HIDE DEF m
        <4>4. /\ up \in Seq(S \cup {m}) /\ <<m>> \in Seq(S \cup {m})
              /\ Len(<<m>>) = 1 /\ <<m>>[1] = m /\ Len(up) \in Nat
          BY <4>2
        <4>5. /\ Len(up') = Len(up) + 1
              /\ \A i \in 1..Len(up') : up'[i] = IF i <= Len(up) THEN up[i] ELSE <<m>>[i - Len(up)]
          BY <4>1, <4>3, <4>4, ConcatProperties DEF m
        <4>6. ASSUME NEW i \in 1..Len(up') PROVE up'[i].type = "media"
          <5>1. CASE i <= Len(up)
            BY <2>1, <4>4, <4>5, <5>1 DEF Streaming, OnlyMedia
          <5>2. CASE ~(i <= Len(up))
            <6>1. i - Len(up) = 1
              BY <4>4, <4>5, <5>2
            <6> QED BY <4>3, <4>4, <4>5, <5>2, <6>1
          <5> QED BY <5>1, <5>2
        <4> QED BY <4>6 DEF OnlyMedia
      <3> QED BY <1>5, <3>1, <3>2
    <2>3. upBuf' = <<>>
      BY <1>5, <2>1 DEF Streaming, Stage, ClientSends
    <2>4. Streaming'
      BY <1>1, <2>1, <2>2, <2>3 DEF Streaming, Stage, Serving, Requested, Accepted
    <2> QED BY <1>2, <2>4
  <1> QED BY <1>3, <1>4, <1>5

\* The session and the client on it keep to the stages.
LEMMA SessionStep ==
    ASSUME SessionInv, Next
    PROVE  SessionInv'
  <1> DEFINE Staged == /\ SessionTypes
                       /\ client.pc \in Ended \/ Connecting \/ Creating \/ Streaming
             Started == pc # "idle" \/ inPublication => client.pc \in Ended \cup {"started"}
  <1>1. WireInv'
    BY WireStep DEF SessionInv
  <1>2. BothLivelib => Staged /\ Started
    BY DEF SessionInv
  <1> SUFFICES BothLivelib' => Staged' /\ Started'
    BY <1>1 DEF SessionInv
  <1>3. CASE SessionNext /\ UNCHANGED <<pullVars, pushVars>>
    <2>1. /\ pair' = pair /\ UNCHANGED <<pc, inPublication>>
      BY <1>3 DEF SessionNext, ConnClientStart, HelloClient, HandshakeClient, writeConnectMsg,
           writeCreateStreamMsg, writePublishOrPlayMsg, readRespMsg, readRespEOF, StartFails,
           ClientDeadline, ClientClose, handleConn, HandshakeServer, HandshakeServerEnd,
           Connect, CreateStream, PublishOrPlay, Ignore, Auth, PushRead, ServerFails, Reads,
           ServerDeadline, HandlerEnds, OtherClient, OtherServer, OtherServerClose, Break,
           pullVars, pushVars
    <2> SUFFICES ASSUME BothLivelib PROVE Staged' /\ Started'
      BY <2>1 DEF BothLivelib
    <2>2. client.pc # "other" /\ server.pc # "other"
      BY <1>2 DEF SessionTypes, Starting, Ended, Awaiting
    <2>3. CASE ConnClientStart \/ ClientDeadline \/ ClientClose
      <3>1. Staged'
        BY <2>3, ClientStep
      <3>2. client.pc \in Ended \cup {"started"} => client'.pc \in Ended
        BY <1>2, <2>3 DEF ConnClientStart, HelloClient, HandshakeClient, writeConnectMsg,
           writeCreateStreamMsg, writePublishOrPlayMsg, readRespMsg, readRespEOF, StartFails,
           ClientDeadline, ClientClose, Starting, Awaiting, Ended, SessionTypes
      <3> QED BY <1>2, <2>1, <3>1, <3>2
    <2>4. CASE server' = CloseServer /\ UNCHANGED <<client, up, down, upBuf>>
      BY <1>2, <2>1, <2>4, ServerCloses
    <2>5. CASE handleConn
      <3>1. SessionTypes' /\ client' = client
        BY <2>5, ServerTypes
      <3>2. CASE client.pc \in Ended
        BY <1>2, <2>1, <3>1, <3>2
      <3>3. CASE client.pc \notin Ended
        <4>1. CASE ServerFails
          BY <2>4, <4>1 DEF ServerFails
        <4>2. CASE Auth /\ server' = CloseServer
          BY <2>4, <4>2 DEF Auth
        <4>3. PushRead \/ Ignore => server' # CloseServer
          BY <1>2, <2>1 DEF PushRead, Ignore, CloseServer, SessionTypes
        <4>4. CASE (Auth \/ PushRead \/ Ignore) /\ server' # CloseServer
          BY <1>2, <2>1, <3>1, <3>3, <4>4, ServerServes
        <4>5. CASE HandshakeServer \/ HandshakeServerEnd \/ Connect \/ CreateStream \/ PublishOrPlay
          BY <1>2, <2>1, <3>1, <3>3, <4>5, ServerGreets, ServerConnects, ServerCreates,
             ServerAnswers
        <4> QED BY <2>5, <4>1, <4>2, <4>3, <4>4, <4>5 DEF handleConn
      <3> QED BY <3>2, <3>3
    <2>6. CASE Break
      <3>1. UNCHANGED <<client, server, up, down, upBuf>>
        BY <2>6 DEF Break
      <3> QED BY <1>2, <2>1, <3>1 DEF SessionTypes, Connecting, Creating, Streaming, Stage,
              Accepted, Requested, Serving, MethodCmd, Answered, OnlyMedia
    <2> QED BY <1>3, <2>2, <2>3, <2>4, <2>5, <2>6
            DEF SessionNext, ServerDeadline, HandlerEnds, OtherClient, OtherServer,
                OtherServerClose
  <1>4. CASE ServerPlays
    <2>1. /\ UNCHANGED <<pair, client, server, up, upBuf, pc, inPublication>>
          /\ server.pc = "play" /\ \E p : down' = down \o downBuf \o <<Media(p)>>
      BY <1>4 DEF ServerPlays, PlaySend, ServerSends, pushVars
    <2> QED BY <1>2, <2>1, MediaKeepsStage DEF BothLivelib
  <1>5. CASE PullRead
    <2>1. /\ UNCHANGED <<pair, client, server, up, upBuf, inPublication>>
          /\ pc = "read"
      BY <1>5 DEF PullRead, pushVars
    <2> QED BY <1>2, <2>1, MediaKeepsStage DEF BothLivelib
  <1>6. CASE PushSend
    <2>1. /\ UNCHANGED <<pair, client, server, pc, inPublication>>
          /\ inPublication /\ \E p : ClientSends(Media(p))
      BY <1>6 DEF PushSend, pullVars
    <2> QED BY <1>2, <2>1, MediaKeepsStage DEF BothLivelib
  <1>7. CASE /\ UNCHANGED sessionVars
             /\ \/ pc' = pc \/ pc # "idle" \/ Dialed("play")
             /\ \/ inPublication' => inPublication
                \/ Dialed("publish")
    <2>1. UNCHANGED <<pair, client, server, up, down, upBuf>>
      BY <1>7 DEF sessionVars
    <2>2. BothLivelib => Started'
      BY <1>2, <1>7, <2>1 DEF Dialed
    <2> QED BY <1>2, <2>1, <2>2 DEF SessionTypes, Connecting, Creating, Streaming, Stage,
              Accepted, Requested, Serving, MethodCmd, Answered, OnlyMedia, BothLivelib
  <1>8. CASE PullStart \/ PullReturn \/ Callback \/ RangeEnd
    BY <1>7, <1>8, CallbackFrame DEF PullStart, PullReturn, RangeEnd, pushVars
  <1>9. CASE \E w \in Players : Player(w)
    BY <1>7, <1>9 DEF Player, AddPlayer, DelPlayer, PlayerClose, pushVars
  <1>10. CASE PushStart \/ SrcRead \/ SrcEnds \/ PushReturn \/ Cancel
    BY <1>7, <1>10 DEF PushStart, SrcRead, SrcEnds, PushReturn, Cancel, pullVars
  <1> QED BY <1>3, <1>4, <1>5, <1>6, <1>8, <1>9, <1>10 DEF Next, Pull, Push

\* A livelib client and a livelib server are at one of the stages, as long as Start
\* runs and while the stream lasts.
THEOREM SessionInvariant == Spec => []SessionInv
  <1>1. SessionInv /\ [Next]_vars => SessionInv'
    <2> SUFFICES ASSUME SessionInv, UNCHANGED vars PROVE SessionInv'
      BY SessionStep
    <2>1. UNCHANGED <<pair, client, server, up, down, upBuf, downBuf, pc, inPublication>>
      BY DEF vars
    <2> QED BY <2>1 DEF SessionInv, WireInv, IsSeq, SessionTypes, Connecting, Creating,
          Streaming, Stage, Accepted, Requested, Serving, MethodCmd, Answered, OnlyMedia,
          BothLivelib
  <1> QED BY <1>1, InitSession, PTL DEF Spec

\* A livelib client and a livelib server never both wait for what the other has not
\* sent or keeps in its write buffer (ConnClient.Start, ConnServer.ReadInitMsg).
THEOREM NeverBothWait == Spec => []NoMutualWait
  <1>1. SessionInv => NoMutualWait
    <2> SUFFICES ASSUME SessionInv, BothLivelib, ClientWaits, ServerWaits PROVE FALSE
      BY DEF NoMutualWait
    <2>1. /\ client.pc \in {"s0s1s2", "connect", "createStream", "publish", "play"}
          /\ server.pc \in {"c0c1", "c2", "init"} /\ up = <<>> /\ down = <<>>
          /\ client.method \in {"publish", "play"}
      BY DEF ClientWaits, ServerWaits, Awaiting, SessionInv, SessionTypes
    <2>2. Connecting \/ Creating
      BY <2>1 DEF SessionInv, Streaming, Stage, Ended
    <2>3. ~Answered(<<>>) /\ \A d \in ConnectResponses : d # <<>>
      BY DEF Answered, ConnectResponses
    <2> QED BY <2>1, <2>2, <2>3 DEF Connecting, Creating, Stage, Serving
  <1> QED BY <1>1, SessionInvariant, PTL

\* When Start has returned, both ends mean the same role, app and stream, and what
\* follows on the wire is the stream (ConnClient.Start, ConnServer.ReadInitMsg).
THEOREM StartHasAgreed == Spec => []StartAgrees
  <1>1. SessionInv => StartAgrees
    <2> SUFFICES ASSUME SessionInv, BothLivelib, client.pc = "started" PROVE StartAgrees
      BY DEF StartAgrees
    <2>1. /\ SessionTypes
          /\ Streaming
      BY DEF SessionInv, SessionTypes, Connecting, Creating, Stage, Ended
    <2> QED BY <2>1 DEF StartAgrees, SessionTypes, Streaming, Stage, Serving, Requested,
          Accepted, OnlyMedia
  <1> QED BY <1>1, SessionInvariant, PTL

-----------------------------------------------------------------------------
(* The frames on their way to the client.                                   *)

\* The number of the newest frame at p, or before it if b.
FrameNo(p, b) == IF b /\ IsFrame(p) THEN p.no - 1 ELSE p.no

\* m carries a packet of the stream.
IsMedia(m) == m.type = "media"

\* After k other messages s holds packets that are numbered on from frame a to b.
Numbered(s, k, a, b) ==
    /\ \A i \in 1..k : ~IsMedia(s[i])
    /\ \A i \in (k + 1)..Len(s) :
         /\ IsMedia(s[i]) /\ s[i].packet \in Packets
         /\ FrameNo(s[i].packet, TRUE) = IF i = k + 1 THEN a ELSE s[i - 1].packet.no
    /\ b = IF k = Len(s) THEN a ELSE s[Len(s)].packet.no

\* Both ends are records, whatever their fields hold.
Records ==
    /\ client \in [pc : {client.pc}, method : {client.method}, transID : {client.transID},
                   streamid : {client.streamid}, open : {client.open}]
    /\ server \in [pc : {server.pc}, transactionID : {server.transactionID},
                   streamID : {server.streamID}, app : {server.app}, name : {server.name},
                   isPublisher : {server.isPublisher}, open : {server.open}]

\* What is on the way is numbered from the packet PullStart read last to the newest
\* frame the server sent, and comes after its responses.
DownInv ==
    /\ Records /\ pair \in {"both", "client", "server"}
    /\ pkt \in Packets \cup {NoPacket} /\ frames \in Nat
    /\ \E k \in 0..Len(down) :
         /\ Numbered(down, k, pkt.no, frames)
         /\ k < Len(down) => server.pc \in {"play", "closed"} /\ pair # "client"
    /\ pair = "client" => server.pc \in {"other", "closed"}
    /\ pair = "server" => client.pc \in {"other", "closed"}

\* A message that is no packet is read.
LEMMA NumberedTail ==
    ASSUME NEW s, IsSeq(s), NEW k \in 0..Len(s), NEW a, NEW b, Numbered(s, k, a, b),
           s # <<>>, ~IsMedia(Head(s))
    PROVE  k - 1 \in 0..Len(Tail(s)) /\ Numbered(Tail(s), k - 1, a, b)
           /\ (k - 1 < Len(Tail(s)) => k < Len(s))
  <1> DEFINE t == Tail(s)
  <1>1. PICK S : s \in Seq(S)
    BY DEF IsSeq
  <1>2. /\ Len(t) = Len(s) - 1 /\ Len(s) \in Nat /\ Head(s) = s[1] /\ Len(s) >= 1
        /\ \A i \in 1..Len(t) : t[i] = s[i + 1]
    BY <1>1
  <1> HIDE DEF t
  <1>3. k >= 1
    <2>1. k = 0 => 1 \in (k + 1)..Len(s)
      BY <1>2
    <2>2. k # 0
      BY <1>2, <2>1 DEF Numbered
    <2> QED BY <2>2
  <1>4. \A i \in 1..(k - 1) : ~IsMedia(t[i])
    <2> SUFFICES ASSUME NEW i \in 1..(k - 1) PROVE ~IsMedia(t[i])
      OBVIOUS
    <2>1. i \in 1..Len(t) /\ i + 1 \in 1..k
      BY <1>2
    <2> QED BY <1>2, <2>1 DEF Numbered
  <1>5. ASSUME NEW i \in k..Len(t)
        PROVE  /\ IsMedia(t[i]) /\ t[i].packet \in Packets
               /\ FrameNo(t[i].packet, TRUE) = IF i = k THEN a ELSE t[i - 1].packet.no
    <2>1. i \in 1..Len(t) /\ i + 1 \in (k + 1)..Len(s) /\ (i + 1) - 1 = i
          /\ (i + 1 = k + 1 <=> i = k)
      BY <1>2, <1>3
    <2>2. t[i] = s[i + 1] /\ (i # k => t[i - 1] = s[i])
      BY <1>2, <1>3, <2>1
    <2>3. /\ IsMedia(s[i + 1]) /\ s[i + 1].packet \in Packets
          /\ FrameNo(s[i + 1].packet, TRUE) = IF i = k THEN a ELSE s[i].packet.no
      BY <2>1 DEF Numbered
    <2> QED BY <2>2, <2>3
  <1>6. b = IF k - 1 = Len(t) THEN a ELSE t[Len(t)].packet.no
    <2>1. k - 1 = Len(t) <=> k = Len(s)
      BY <1>2
    <2>2. k # Len(s) => t[Len(t)] = s[Len(s)]
      <3>1. k # Len(s) => Len(t) \in 1..Len(t) /\ Len(t) + 1 = Len(s)
        BY <1>2, <1>3
      <3> QED BY <1>2, <3>1
    <2> QED BY <2>1, <2>2 DEF Numbered
  <1>7. (k - 1) + 1 = k /\ k - 1 \in 0..Len(t) /\ (k - 1 < Len(t) => k < Len(s))
    BY <1>2, <1>3
  <1> HIDE DEF FrameNo, IsMedia
  <1>8. Numbered(t, k - 1, a, b)
    BY <1>4, <1>5, <1>6, <1>7 DEF Numbered
  <1> QED BY <1>7, <1>8 DEF t

\* A packet is read: the next is numbered from it.
LEMMA NumberedNext ==
    ASSUME NEW s, IsSeq(s), NEW k \in 0..Len(s), NEW a, NEW b, Numbered(s, k, a, b),
           s # <<>>, IsMedia(Head(s))
    PROVE  /\ k = 0 /\ Head(s).packet \in Packets /\ FrameNo(Head(s).packet, TRUE) = a
           /\ Numbered(Tail(s), 0, Head(s).packet.no, b)
  <1> DEFINE t == Tail(s)
             p == s[1].packet
  <1>1. PICK S : s \in Seq(S)
    BY DEF IsSeq
  <1>2. /\ Len(t) = Len(s) - 1 /\ Len(s) \in Nat /\ Head(s) = s[1] /\ Len(s) >= 1
        /\ \A i \in 1..Len(t) : t[i] = s[i + 1]
    BY <1>1
  <1> HIDE DEF t
  <1>3. k = 0
    <2>1. k # 0 => 1 \in 1..k
      OBVIOUS
    <2> QED BY <1>2, <2>1 DEF Numbered
  <1>4. p \in Packets /\ FrameNo(p, TRUE) = a
    <2>1. 1 \in (k + 1)..Len(s) /\ 1 = k + 1
      BY <1>2, <1>3
    <2> QED BY <2>1 DEF Numbered
  <1>5. ASSUME NEW i \in 1..Len(t)
        PROVE  /\ IsMedia(t[i]) /\ t[i].packet \in Packets
               /\ FrameNo(t[i].packet, TRUE) = IF i = 1 THEN p.no ELSE t[i - 1].packet.no
    <2>1. i + 1 \in (0 + 1)..Len(s) /\ (i + 1) - 1 = i /\ i + 1 # 0 + 1
      BY <1>2
    <2>2. t[i] = s[i + 1] /\ (i # 1 => t[i - 1] = s[i])
      <3>1. i # 1 => i - 1 \in 1..Len(t) /\ (i - 1) + 1 = i
        BY <1>2
      <3> QED BY <1>2, <3>1
    <2>3. /\ IsMedia(s[i + 1]) /\ s[i + 1].packet \in Packets
          /\ FrameNo(s[i + 1].packet, TRUE) = s[i].packet.no
      BY <1>3, <2>1 DEF Numbered
    <2> QED BY <2>2, <2>3
  <1>6. b = IF 0 = Len(t) THEN p.no ELSE t[Len(t)].packet.no
    <2>1. 0 = Len(t) <=> Len(s) = 1
      BY <1>2
    <2>2. Len(s) # 1 => t[Len(t)] = s[Len(s)]
      <3>1. Len(s) # 1 => Len(t) \in 1..Len(t) /\ Len(t) + 1 = Len(s)
        BY <1>2
      <3> QED BY <1>2, <3>1
    <2>3. b = s[Len(s)].packet.no
      BY <1>2, <1>3 DEF Numbered
    <2> QED BY <2>1, <2>2, <2>3
  <1> HIDE DEF p
  <1>7. Numbered(t, 0, p.no, b)
    <2>1. 0 + 1 = 1 /\ 1..0 = {}
      OBVIOUS
    <2> QED BY <1>5, <1>6, <2>1 DEF Numbered
  <1> QED BY <1>2, <1>3, <1>4, <1>7 DEF t, p

\* A packet is sent.
LEMMA NumberedSent ==
    ASSUME NEW s, IsSeq(s), NEW k \in 0..Len(s), NEW a, NEW b, Numbered(s, k, a, b),
           NEW p \in Packets, FrameNo(p, TRUE) = b
    PROVE  /\ k \in 0..Len(s \o <<Media(p)>>)
           /\ Numbered(s \o <<Media(p)>>, k, a, p.no)
  <1> DEFINE m == Media(p)
             t == s \o <<m>>
  <1>1. PICK S : s \in Seq(S)
    BY DEF IsSeq
  <1>2. IsMedia(m) /\ m.packet = p
    BY DEF Media, IsMedia
  <1> HIDE DEF m
  <1>3. /\ s \in Seq(S \cup {m}) /\ <<m>> \in Seq(S \cup {m}) /\ Len(<<m>>) = 1
        /\ <<m>>[1] = m /\ Len(s) \in Nat
    BY <1>1
  <1>4. /\ Len(t) = Len(s) + 1
        /\ \A i \in 1..Len(s) : t[i] = s[i]
        /\ t[Len(t)] = m
    <2>1. /\ Len(t) = Len(s) + 1
          /\ \A i \in 1..Len(s) + 1 : t[i] = IF i <= Len(s) THEN s[i] ELSE <<m>>[i - Len(s)]
      BY <1>3, ConcatProperties
    <2>2. Len(s) + 1 \in 1..Len(s) + 1 /\ ~(Len(s) + 1 <= Len(s)) /\ (Len(s) + 1) - Len(s) = 1
          /\ \A i \in 1..Len(s) : i \in 1..Len(s) + 1 /\ i <= Len(s)
      BY <1>3
    <2> HIDE DEF t
    <2> QED BY <1>3, <2>1, <2>2
  <1> HIDE DEF t
  <1>5. \A i \in 1..k : ~IsMedia(t[i])
    BY <1>3, <1>4 DEF Numbered
  <1>6. ASSUME NEW i \in (k + 1)..Len(t)
        PROVE  /\ IsMedia(t[i]) /\ t[i].packet \in Packets
               /\ FrameNo(t[i].packet, TRUE) = IF i = k + 1 THEN a ELSE t[i - 1].packet.no
    <2>1. CASE i = Len(t)
      <3>1. t[i].packet = p /\ IsMedia(t[i])
        BY <1>2, <1>4, <2>1
      <3>2. b = IF i = k + 1 THEN a ELSE t[i - 1].packet.no
        <4>1. i = k + 1 <=> k = Len(s)
          BY <1>3, <1>4, <2>1
        <4>2. i # k + 1 => t[i - 1] = s[Len(s)]
          <5>1. i - 1 = Len(s) /\ (i # k + 1 => Len(s) \in 1..Len(s))
            BY <1>3, <1>4, <2>1
          <5> QED BY <1>4, <5>1
        <4> QED BY <4>1, <4>2 DEF Numbered
      <3> QED BY <3>1, <3>2
    <2>2. CASE i # Len(t)
      <3>1. i \in (k + 1)..Len(s) /\ i \in 1..Len(s) /\ (i # k + 1 => i - 1 \in 1..Len(s))
        BY <1>3, <1>4, <2>2
      <3>2. t[i] = s[i] /\ (i # k + 1 => t[i - 1] = s[i - 1])
        BY <1>4, <3>1
      <3> QED BY <3>1, <3>2 DEF Numbered
    <2> QED BY <2>1, <2>2
  <1>7. k # Len(t) /\ k \in 0..Len(t) /\ t[Len(t)].packet.no = p.no
    BY <1>2, <1>3, <1>4
  <1>8. Numbered(t, k, a, p.no)
    BY <1>5, <1>6, <1>7 DEF Numbered
  <1> QED BY <1>7, <1>8 DEF t, m

\* Messages that are no packets are sent, before the first packet.
LEMMA NumberedOthers ==
    ASSUME NEW s, IsSeq(s), NEW a, NEW b, Numbered(s, Len(s), a, b),
           NEW out, IsSeq(out), \A i \in 1..Len(out) : ~IsMedia(out[i])
    PROVE  /\ Len(s \o out) \in 0..Len(s \o out)
           /\ Numbered(s \o out, Len(s \o out), a, b)
  <1> DEFINE t == s \o out
  <1>1. PICK S : s \in Seq(S)
    BY DEF IsSeq
  <1>2. PICK T : out \in Seq(T)
    BY DEF IsSeq
  <1>3. s \in Seq(S \cup T) /\ out \in Seq(S \cup T) /\ Len(s) \in Nat /\ Len(out) \in Nat
    BY <1>1, <1>2
  <1>4. /\ Len(t) = Len(s) + Len(out)
        /\ \A i \in 1..Len(s) + Len(out) : t[i] = IF i <= Len(s) THEN s[i] ELSE out[i - Len(s)]
    BY <1>3, ConcatProperties
  <1> HIDE DEF t
  <1>5. ASSUME NEW i \in 1..Len(t) PROVE ~IsMedia(t[i])
    <2>1. CASE i <= Len(s)
      <3>1. i \in 1..Len(s)
        BY <1>3, <1>4, <2>1
      <3> QED BY <1>4, <2>1, <3>1 DEF Numbered
    <2>2. CASE ~(i <= Len(s))
      <3>1. i - Len(s) \in 1..Len(out)
        BY <1>3, <1>4, <2>2
      <3> QED BY <1>4, <2>2, <3>1
    <2> QED BY <2>1, <2>2
  <1>6. b = a /\ Len(t) \in Nat
    BY <1>3, <1>4 DEF Numbered
  <1>7. (Len(t) + 1)..Len(t) = {}
    BY <1>6
  <1>8. Numbered(t, Len(t), a, b)
    BY <1>5, <1>6, <1>7 DEF Numbered
  <1> QED BY <1>6, <1>8 DEF t

\* The two ends keep their fields.
LEMMA RecordsStep ==
    ASSUME Records, Next
    PROVE  Records'
  <1> USE DEF Records
  <1>1. CASE UNCHANGED <<client, server>>
    BY <1>1
  <1>2. ASSUME NEW x, client' = [client EXCEPT !.pc = x], UNCHANGED server PROVE Records'
    BY <1>2
  <1>3. ASSUME NEW x, NEW y, client' = [client EXCEPT !.pc = x, !.open = y], UNCHANGED server
        PROVE  Records'
    BY <1>3
  <1>4. ASSUME NEW x, NEW y, client' = [client EXCEPT !.pc = x, !.transID = y], UNCHANGED server
        PROVE  Records'
    BY <1>4
  <1>5. ASSUME NEW x, NEW y, client' = [client EXCEPT !.pc = x, !.streamid = y], UNCHANGED server
        PROVE  Records'
    BY <1>5
  <1>6. ASSUME NEW x, server' = [server EXCEPT !.pc = x], UNCHANGED client PROVE Records'
    BY <1>6
  <1>7. ASSUME server' = CloseServer, UNCHANGED client PROVE Records'
    BY <1>7 DEF CloseServer
  <1>8. CASE ConnClientStart \/ ClientDeadline \/ ClientClose
    <2>1. CASE readRespMsg
      BY <1>1, <1>2, <1>5, <2>1 DEF readRespMsg
    <2>2. CASE ~readRespMsg
      BY <1>2, <1>3, <1>4, <1>8, <2>2 DEF ConnClientStart, HelloClient, HandshakeClient,
         writeConnectMsg, writeCreateStreamMsg, writePublishOrPlayMsg, readRespEOF, StartFails,
         ClientDeadline, ClientClose
    <2> QED BY <2>1, <2>2
  <1>9. CASE handleConn \/ ServerDeadline \/ HandlerEnds
    <2>1. CASE Connect
      BY <1>7, <2>1 DEF Connect, Reads
    <2>2. CASE CreateStream
      BY <2>2 DEF CreateStream, Reads
    <2>3. CASE PublishOrPlay
      BY <2>3 DEF PublishOrPlay, Reads
    <2>4. CASE HandshakeServer \/ HandshakeServerEnd \/ Auth
      BY <1>6, <1>7, <2>4 DEF HandshakeServer, HandshakeServerEnd, Auth
    <2>5. CASE Ignore \/ PushRead \/ ServerFails \/ ServerDeadline \/ HandlerEnds
      BY <1>1, <1>7, <2>5 DEF Ignore, PushRead, ServerFails, ServerDeadline, HandlerEnds
    <2> QED BY <1>9, <2>1, <2>2, <2>3, <2>4, <2>5 DEF handleConn
  <1>10. CASE OtherClient \/ OtherServer \/ OtherServerClose \/ Break
    BY <1>1, <1>7, <1>10 DEF OtherClient, OtherServer, OtherServerClose, Break
  <1>11. CASE ServerPlays \/ Pull \/ Push \/ \E w \in Players : Player(w)
    BY <1>1, <1>11, CallbackFrame
       DEF ServerPlays, PlaySend, Pull, PullStart, PullRead, PullReturn, RangeEnd, Push,
       PushStart, SrcRead, SrcEnds, PushSend, PushReturn, Cancel, Player, AddPlayer, DelPlayer,
       PlayerClose, sessionVars
  <1> QED BY <1>8, <1>9, <1>10, <1>11 DEF Next, SessionNext

\* What the client reads in Start is no packet.
LEMMA StartReadsNoMedia ==
    ASSUME SessionInv, DownInv, client.pc \in Awaiting \cup {"s0s1s2"}, down # <<>>
    PROVE  ~IsMedia(Head(down))
  <1>1. CASE pair = "client"
    <2>1. PICK k \in 0..Len(down) : k = Len(down) /\ \A i \in 1..k : ~IsMedia(down[i])
      BY <1>1 DEF DownInv, Numbered
    <2>2. PICK S : down \in Seq(S)
      BY DEF SessionInv, WireInv, IsSeq
    <2>3. Head(down) = down[1] /\ 1 \in 1..Len(down)
      BY <2>2
    <2> QED BY <2>1, <2>3
  <1>2. pair # "server"
    BY DEF DownInv, Awaiting
  <1>3. CASE pair = "both"
    <2>1. client.method \in {"publish", "play"} /\ (Connecting \/ Creating)
      BY <1>3 DEF SessionInv, SessionTypes, BothLivelib, Ended, Streaming, Stage, Awaiting
    <2>2. \/ down \in {<<Challenge>>, <<Created>>, <<OnStatus("NetStream.Publish.Start")>>}
          \/ down \in ConnectResponses
          \/ Answered(down)
      BY <2>1 DEF Connecting, Creating, Stage, Awaiting
    <2>3. CASE down \in {<<Challenge>>, <<Created>>, <<OnStatus("NetStream.Publish.Start")>>}
      <3>1. Head(down) \in {Challenge, Created, OnStatus("NetStream.Publish.Start")}
        BY <2>3, Wire
      <3> QED BY <3>1 DEF Challenge, Handshake, Created, OnStatus, Command, IsMedia
    <2>4. CASE down \in ConnectResponses
      <3> DEFINE a == Control("WindowAckSize")
                 b == Control("SetPeerBandwidth")
                 c == Control("SetChunkSize")
      <3>1. down \in {<<a, b, c, Connected>>, <<b, c, Connected>>, <<c, Connected>>, <<Connected>>}
        BY <2>4 DEF ConnectResponses
      <3>2. ~IsMedia(a) /\ ~IsMedia(b) /\ ~IsMedia(c) /\ ~IsMedia(Connected)
        BY DEF Control, Connected, Command, IsMedia
      <3> HIDE DEF a, b, c
      <3>3. Head(down) \in {a, b, c, Connected}
        BY <3>1
      <3> QED BY <3>2, <3>3
    <2>5. CASE Answered(down)
      <3>1. PICK i \in 1..Len(down) : /\ down[i].type = "command"
                                      /\ \A j \in 1..(i - 1) : down[j].type = "control"
        BY <2>5 DEF Answered
      <3>2. PICK S : down \in Seq(S)
        BY DEF SessionInv, WireInv, IsSeq
      <3>3. Head(down) = down[1] /\ (i # 1 => 1 \in 1..(i - 1))
        BY <3>2
      <3> QED BY <3>1, <3>3 DEF IsMedia
    <2> QED BY <2>2, <2>3, <2>4, <2>5
  <1> QED BY <1>1, <1>2, <1>3 DEF DownInv
\* Nothing is on the way at first.
LEMMA InitDown == ClientInit => DownInv
  <1> SUFFICES ASSUME ClientInit PROVE DownInv
    OBVIOUS
  <1>1. /\ pair \in {"both", "client", "server"}
        /\ pkt = NoPacket /\ frames = 0 /\ down = <<>>
    BY SessionAssumption DEF ClientInit, Init
  <1>2. PICK m \in Methods :
          client = [pc |-> IF pair = "server" THEN "other" ELSE "c0c1",
                    method |-> m, transID |-> 1, streamid |-> 0, open |-> TRUE]
    BY DEF ClientInit, Init
  <1>3. server = [pc |-> IF pair = "client" THEN "other" ELSE "c0c1",
                  transactionID |-> 0, streamID |-> 1, app |-> Nobody,
                  name |-> Nobody, isPublisher |-> FALSE, open |-> TRUE]
    BY DEF ClientInit, Init
  <1>4. Records
    BY <1>2, <1>3 DEF Records
  <1>5. /\ pair = "client" => server.pc \in {"other", "closed"}
        /\ pair = "server" => client.pc \in {"other", "closed"}
    BY <1>2, <1>3
  <1>6. 0 \in 0..Len(down) /\ Numbered(down, 0, pkt.no, frames) /\ 0 = Len(down)
    <2>1. Len(<<>>) = 0
      OBVIOUS
    <2> QED BY <1>1, <2>1 DEF Numbered, NoPacket
  <1> QED BY <1>1, <1>4, <1>5, <1>6 DEF DownInv

\* What is on the way to the client when nothing is sent and nothing is read.
LEMMA DownStays ==
    ASSUME DownInv, Records', UNCHANGED <<pair, pkt, frames, down>>,
           server'.pc \in {server.pc, "closed"} \/ server.pc \notin {"play", "other", "closed"},
           client'.pc \in {client.pc, "closed"} \/ client.pc \notin {"other", "closed"}
    PROVE  DownInv'
  <1>1. PICK k \in 0..Len(down) :
          /\ Numbered(down, k, pkt.no, frames)
          /\ k < Len(down) => server.pc \in {"play", "closed"} /\ pair # "client"
    BY DEF DownInv
  <1>2. Numbered(down, k, pkt.no, frames)'
    BY <1>1 DEF Numbered
  <1>3. k < Len(down) => server'.pc \in {"play", "closed"} /\ pair # "client"
    BY <1>1
  <1> QED BY <1>1, <1>2, <1>3 DEF DownInv

\* The client reads.
LEMMA DownRead ==
    ASSUME WireInv, DownInv, Records', ClientReads, UNCHANGED <<pair, server, frames>>,
           pair = "server" => client'.pc = client.pc,
           IF IsMedia(Head(down)) THEN pkt' = Head(down).packet ELSE pkt' = pkt
    PROVE  DownInv'
  <1>1. down # <<>> /\ down' = Tail(down) /\ IsSeq(down)
    BY DEF ClientReads, WireInv
  <1>2. PICK k \in 0..Len(down) :
          /\ Numbered(down, k, pkt.no, frames)
          /\ k < Len(down) => server.pc \in {"play", "closed"} /\ pair # "client"
    BY DEF DownInv
  <1>3. CASE ~IsMedia(Head(down))
    <2>1. /\ k - 1 \in 0..Len(Tail(down))
          /\ Numbered(Tail(down), k - 1, pkt.no, frames)
          /\ k - 1 < Len(Tail(down)) => k < Len(down)
      BY <1>1, <1>2, <1>3, NumberedTail
    <2>2. Numbered(down', k - 1, pkt'.no, frames')
      BY <1>1, <1>3, <2>1
    <2> QED BY <1>1, <1>2, <1>3, <2>1, <2>2 DEF DownInv
  <1>4. CASE IsMedia(Head(down))
    <2>1. /\ k = 0 /\ Head(down).packet \in Packets
          /\ Numbered(Tail(down), 0, Head(down).packet.no, frames)
      BY <1>1, <1>2, <1>4, NumberedNext
    <2>2. PICK S : down \in Seq(S)
      BY <1>1 DEF IsSeq
    <2>3. k < Len(down) /\ 0 \in 0..Len(Tail(down))
      BY <1>1, <2>1, <2>2
    <2>4. Numbered(down', 0, pkt'.no, frames')
      BY <1>1, <1>4, <2>1
    <2> QED BY <1>1, <1>2, <1>4, <2>1, <2>3, <2>4 DEF DownInv
  <1> QED BY <1>3, <1>4

\* A server that does not serve a player yet sends what is no packet.
LEMMA DownSent ==
    ASSUME WireInv, DownInv, Records', NEW out, IsSeq(out), ServerSends(out),
           \A i \in 1..Len(out) : ~IsMedia(out[i]),
           server.pc \notin {"play", "closed"},
           server'.pc = server.pc \/ server.pc # "other", client' = client,
           UNCHANGED <<pair, pkt, frames>>
    PROVE  DownInv'
  <1>1. PICK k \in 0..Len(down) : k = Len(down) /\ Numbered(down, k, pkt.no, frames)
    BY DEF DownInv
  <1>2. PICK S : down \in Seq(S)
    BY DEF WireInv, IsSeq
  <1>3. down \o <<>> = down
    BY <1>2
  <1>4. down' = down \o out
    BY <1>3 DEF ServerSends, WireInv
  <1>5. Len(down') \in 0..Len(down') /\ Numbered(down', Len(down'), pkt.no, frames)
    BY <1>1, <1>4, NumberedOthers DEF WireInv
  <1>6. ~(Len(down') < Len(down'))
    BY <1>5
  <1> QED BY <1>5, <1>6 DEF DownInv

\* The server sends a player the next packet.
LEMMA DownPlays ==
    ASSUME WireInv, DownInv, Records', ServerPlays
    PROVE  DownInv'
  <1>1. PICK kind \in StreamKinds :
          /\ frames' = (IF kind \in FrameKinds THEN frames + 1 ELSE frames)
          /\ PlaySend([kind |-> kind, no |-> frames'])
          /\ UNCHANGED <<pkt, pc>>
    BY DEF ServerPlays
  <1> DEFINE p == [kind |-> kind, no |-> frames']
  <1>2. kind \in Kinds /\ frames \in Nat /\ frames' \in Nat
    BY <1>1, ClientAssumption DEF DownInv
  <1>3. p \in Packets /\ FrameNo(p, TRUE) = frames /\ p.no = frames'
    BY <1>1, <1>2 DEF Packets, FrameNo, IsFrame
  <1>4. /\ server.pc = "play" /\ UNCHANGED <<pair, client, server>>
        /\ down' = down \o downBuf \o <<Media(p)>>
    BY <1>1 DEF PlaySend, ServerSends
  <1> HIDE DEF p
  <1>5. PICK k \in 0..Len(down) : Numbered(down, k, pkt.no, frames)
    BY DEF DownInv
  <1>6. PICK S : down \in Seq(S)
    BY DEF WireInv, IsSeq
  <1>7. down \o <<>> = down
    BY <1>6
  <1>8. down' = down \o <<Media(p)>>
    BY <1>4, <1>7 DEF WireInv
  <1>9. k \in 0..Len(down') /\ Numbered(down', k, pkt.no, p.no)
    BY <1>3, <1>5, <1>8, NumberedSent DEF WireInv
  <1>10. pair # "client"
    BY <1>4 DEF DownInv
  <1> QED BY <1>1, <1>2, <1>3, <1>4, <1>9, <1>10 DEF DownInv

\* What is made of other messages holds no packet.
LEMMA NoMedia ==
    ASSUME NEW S, NEW out \in Seq(S), \A m \in S : ~IsMedia(m)
    PROVE  IsSeq(out) /\ \A i \in 1..Len(out) : ~IsMedia(out[i])
  <1>1. \A i \in 1..Len(out) : out[i] \in S
    OBVIOUS
  <1> QED BY <1>1, Sequence

\* The packets on the way are numbered on, whatever happens.
LEMMA DownStep ==
    ASSUME SessionInv, DownInv, Next
    PROVE  DownInv'
  <1>1. Records' /\ WireInv /\ Records
    BY RecordsStep DEF DownInv, SessionInv
  <1> USE <1>1
  <1>2. CASE SessionNext /\ UNCHANGED <<pullVars, pushVars>>
    <2>1. UNCHANGED <<pkt, frames>>
      BY <1>2 DEF pullVars
    <2>2. CASE HandshakeClient \/ readRespMsg
      <3>1. /\ ClientReads /\ client.pc \in Awaiting \cup {"s0s1s2"}
            /\ UNCHANGED <<pair, server>>
        BY <2>2 DEF HandshakeClient, readRespMsg
      <3>2. ~IsMedia(Head(down)) /\ pair # "server"
        BY <3>1, StartReadsNoMedia DEF ClientReads, DownInv, Awaiting
      <3> QED BY <2>1, <3>1, <3>2, DownRead
    <2>3. CASE \/ HelloClient \/ writeConnectMsg \/ writeCreateStreamMsg \/ writePublishOrPlayMsg
               \/ readRespEOF \/ StartFails \/ ClientDeadline \/ ClientClose
      <3>1. UNCHANGED <<pair, server, down>>
        BY <2>3 DEF HelloClient, writeConnectMsg, writeCreateStreamMsg, writePublishOrPlayMsg,
           readRespEOF, StartFails, ClientDeadline, ClientClose, ClientSends
      <3>2. client.pc \notin {"other", "closed"} \/ client'.pc = "closed"
        BY <2>3 DEF HelloClient, writeConnectMsg, writeCreateStreamMsg, writePublishOrPlayMsg,
           readRespEOF, StartFails, ClientDeadline, ClientClose, Starting, Awaiting, Records
      <3> QED BY <2>1, <3>1, <3>2, DownStays
    <2>4. CASE HandshakeServer \/ Connect \/ CreateStream \/ PublishOrPlay
      <3>1. /\ server.pc \in {"c0c1", "init"} /\ UNCHANGED <<pair, client>>
        BY <2>4 DEF HandshakeServer, Connect, CreateStream, PublishOrPlay, Reads
      <3>2. CASE down' = down
        BY <2>1, <3>1, <3>2, DownStays
      <3>3. ASSUME NEW out, IsSeq(out), \A i \in 1..Len(out) : ~IsMedia(out[i]), ServerSends(out)
            PROVE  DownInv'
        BY <2>1, <3>1, <3>3, DownSent
      <3>4. ASSUME NEW S, NEW out \in Seq(S), \A m \in S : ~IsMedia(m), ServerSends(out)
            PROVE  DownInv'
        BY <3>3, <3>4, NoMedia
      <3>5. /\ \A n : ~IsMedia(Control(n)) /\ ~IsMedia(OnStatus(n))
            /\ \A n, i, x, s : ~IsMedia(Command(n, i, x, s))
            /\ ~IsMedia(Handshake("S0S1S2", TRUE))
        BY DEF Control, Handshake, OnStatus, Command, IsMedia
      <3>6. ASSUME NEW a, ~IsMedia(a), ServerSends(<<a>>) PROVE DownInv'
        <4> DEFINE S == {a}
        <4>1. <<a>> \in Seq(S) /\ \A m \in S : ~IsMedia(m)
          BY <3>6
        <4> HIDE DEF S
        <4> QED BY <3>4, <3>6, <4>1
      <3>7. ASSUME NEW a, NEW b, NEW c, NEW d,
                   ~IsMedia(a), ~IsMedia(b), ~IsMedia(c), ~IsMedia(d),
                   ServerSends(<<a, b, c, d>>)
            PROVE  DownInv'
        <4> DEFINE S == {a, b, c, d}
        <4>1. <<a, b, c, d>> \in Seq(S)
          OBVIOUS
        <4>2. \A m \in S : ~IsMedia(m)
          BY <3>7
        <4> HIDE DEF S
        <4> QED BY <3>4, <3>7, <4>1, <4>2
      <3>8. ASSUME NEW a, NEW b, NEW c, NEW d, NEW e, NEW f,
                   ~IsMedia(a), ~IsMedia(b), ~IsMedia(c), ~IsMedia(d), ~IsMedia(e), ~IsMedia(f),
                   ServerSends(<<a, b, c, d, e, f>>)
            PROVE  DownInv'
        <4> DEFINE S == {a, b, c, d, e, f}
        <4>1. <<a, b, c, d, e, f>> \in Seq(S)
          OBVIOUS
        <4>2. \A m \in S : ~IsMedia(m)
          BY <3>8
        <4> HIDE DEF S
        <4> QED BY <3>4, <3>8, <4>1, <4>2
      <3>9. CASE HandshakeServer
        <4>1. down' = down \/ ServerSends(<<Handshake("S0S1S2", TRUE)>>)
          BY <3>9 DEF HandshakeServer
        <4> QED BY <3>2, <3>5, <3>6, <4>1
      <3>10. CASE Connect
        BY <3>2, <3>5, <3>6, <3>7, <3>10 DEF Connect
      <3>11. CASE CreateStream
        <4>1. ServerSends(<<Command("_result", Head(up).id, Nobody, server.streamID)>>)
          BY <3>11 DEF CreateStream
        <4> QED BY <3>5, <3>6, <4>1
      <3>12. CASE PublishOrPlay
        <4>1. \/ ServerSends(<<OnStatus("NetStream.Publish.Start")>>)
              \/ ServerSends(<<Control("StreamIsRecorded"), Control("StreamBegin"),
                               OnStatus("NetStream.Play.Reset"), OnStatus("NetStream.Play.Start"),
                               OnStatus("NetStream.Data.Start"),
                               OnStatus("NetStream.Play.PublishNotify")>>)
          BY <3>12 DEF PublishOrPlay
        <4> QED BY <3>5, <3>6, <3>8, <4>1
      <3> QED BY <2>4, <3>9, <3>10, <3>11, <3>12
    <2>5. CASE \/ HandshakeServerEnd \/ Ignore \/ Auth \/ PushRead \/ ServerFails
               \/ ServerDeadline \/ HandlerEnds \/ OtherServerClose
      <3>1. UNCHANGED <<pair, client, down>>
        BY <2>5 DEF HandshakeServerEnd, Ignore, Auth, PushRead, ServerFails, ServerDeadline,
           HandlerEnds, OtherServerClose
      <3>2. \/ server'.pc \in {server.pc, "closed"}
            \/ server.pc \notin {"play", "other", "closed"}
        BY <2>5 DEF HandshakeServerEnd, Ignore, Auth, PushRead, ServerFails, ServerDeadline,
           HandlerEnds, OtherServerClose, CloseServer, Records
      <3> QED BY <2>1, <3>1, <3>2, DownStays
    <2>6. CASE OtherServer
      <3>1. PICK m : ServerSends(<<m>>) /\ ~IsMedia(m)
        BY <2>6 DEF OtherServer, Handshake, Command, Control, OnStatus, IsMedia
      <3>2. IsSeq(<<m>>) /\ \A i \in 1..Len(<<m>>) : ~IsMedia(<<m>>[i])
        <4> DEFINE S == {m}
        <4>1. <<m>> \in Seq(S) /\ \A x \in S : ~IsMedia(x)
          BY <3>1
        <4> HIDE DEF S
        <4> QED BY <4>1, NoMedia
      <3>3. server.pc = "other" /\ UNCHANGED <<pair, client, server>>
        BY <2>6 DEF OtherServer
      <3> QED BY <2>1, <3>1, <3>2, <3>3, DownSent
    <2>7. CASE OtherClient \/ Break
      BY <2>1, <2>7, DownStays DEF OtherClient, Break
    <2> QED BY <1>2, <2>2, <2>3, <2>4, <2>5, <2>6, <2>7
            DEF SessionNext, ConnClientStart, handleConn
  <1>3. CASE ServerPlays
    BY <1>3, DownPlays
  <1>4. CASE PullRead
    <2>1. ClientReads /\ UNCHANGED <<pair, client, server, frames>>
      BY <1>4 DEF PullRead
    <2>2. IF IsMedia(Head(down)) THEN pkt' = Head(down).packet ELSE pkt' = pkt
      BY <1>4 DEF PullRead, IsMedia
    <2> QED BY <2>1, <2>2, DownRead
  <1>5. CASE PullStart \/ PullReturn \/ Callback \/ RangeEnd
    BY <1>5, CallbackFrame, DownStays DEF PullStart, PullReturn, RangeEnd, sessionVars
  <1>6. CASE Push
    BY <1>6, DownStays DEF Push, PushStart, SrcRead, SrcEnds, PushSend, PushReturn, Cancel,
       sessionVars, pullVars
  <1>7. CASE \E w \in Players : Player(w)
    BY <1>7, DownStays DEF Player, AddPlayer, DelPlayer, PlayerClose, sessionVars
  <1> QED BY <1>2, <1>3, <1>4, <1>5, <1>6, <1>7 DEF Next, Pull

-----------------------------------------------------------------------------
(* What the players of PullStart were given.                                *)

\* The places of the first i packets of g that hold a frame.
FramesIn(g, i) == {k \in 1..i : IsFrame(g[k])}

\* g has the frames up to p, or to the one before if p is still to come (b), or none
\* while cache c has no group, or a group that filled a cache.
Fresh(g, c, p, b) ==
    \/ FramesIn(g, Len(g)) = {} /\ (~c.gop.isComplete \/ (b /\ IsKeyFrame(p)))
    \/ \E i \in FramesIn(g, Len(g)) :
         /\ FramesIn(g, Len(g)) = FramesIn(g, i)
         /\ \/ g[i].no = FrameNo(p, b)
            \/ Cardinality(FramesIn(g, i)) = MaxGOPCap /\ g[i].no <= FrameNo(p, b)

\* Packet j of g follows the frame before it, as PullNoGap says.
Follows(g, j, c) ==
    IsFrame(g[j]) =>
      /\ FramesIn(g, j - 1) = {} => IsKeyFrame(g[j]) \/ ~c.gop.isComplete
      /\ \A i \in FramesIn(g, j - 1) : FramesIn(g, j - 1) = FramesIn(g, i) =>
           \/ g[j].no = g[i].no + 1
           \/ Cardinality(FramesIn(g, i)) = MaxGOPCap /\ g[j].no > g[i].no

\* The packet PullStart read last has still to be offered to w.
Pending(w) == pc \notin {"idle", "read"} /\ w \in toVisit

\* A callback of Range runs.
InCallback == pc \in {"write", "drop", "close"}

\* It has to write s to a player that was given g.
Due(g, s, c, p) ==
    /\ Fresh(g \o s, c, p, FALSE)
    /\ \A j \in (Len(g) + 1)..Len(g \o s) : Follows(g \o s, j, c)

\* It runs for the packWriter that was stored last for w, and has not ended.
Served(w) == cur = w /\ ~replaced /\ pc \in {"write", "drop"}

\* What is written completes what the player has, or goes to a packWriter that is no
\* longer the one in the map: of that one the player has nothing.
CallInv ==
    /\ todo \in Seq(Packets)
    /\ pc = "write" \/ todo = <<>>
    /\ IF InCallback THEN cur \in Players ELSE cur = Nobody /\ ~replaced
    /\ replaced => given[cur] = <<>>
    /\ InCallback /\ ~replaced => cur \notin toVisit
    /\ pc = "write" /\ ~replaced => Due(given[cur], todo, cache, pkt)

\* The cache holds a group up to the packet read last, and every player that was sent
\* the cache is fresh, except for the one that is served.
PullInv ==
    /\ cache \in CacheType /\ Group(cache, pkt.no)
    /\ pc \notin {"idle", "read"} => pkt \in Packets
    /\ toVisit \subseteq Players
    /\ players \in [Players -> {"out", "fresh", "inited"}]
    /\ given \in [Players -> Seq(Packets)]
    /\ CallInv
    /\ \A w \in Players : ~Served(w) =>
         /\ players[w] = "fresh" => given[w] = <<>>
         /\ players[w] = "inited" => Fresh(given[w], cache, pkt, Pending(w))

\* The frames of a sequence with a packet at its end.
LEMMA FramesInAppend ==
    ASSUME NEW g \in Seq(Packets), NEW p \in Packets
    PROVE  /\ Append(g, p) \in Seq(Packets) /\ Len(Append(g, p)) = Len(g) + 1
           /\ Append(g, p)[Len(g) + 1] = p
           /\ \A i \in 1..Len(g) : Append(g, p)[i] = g[i]
           /\ \A i \in 0..Len(g) : FramesIn(Append(g, p), i) = FramesIn(g, i)
           /\ FramesIn(Append(g, p), Len(g) + 1) =
                FramesIn(g, Len(g)) \cup (IF IsFrame(p) THEN {Len(g) + 1} ELSE {})
  <1> DEFINE t == Append(g, p)
  <1>1. /\ t \in Seq(Packets) /\ Len(t) = Len(g) + 1 /\ Len(g) \in Nat
        /\ t[Len(g) + 1] = p /\ \A i \in 1..Len(g) : t[i] = g[i]
    BY AppendProperties, LenProperties
  <1> HIDE DEF t
  <1>2. ASSUME NEW i \in 0..Len(g) PROVE FramesIn(t, i) = FramesIn(g, i)
    <2>1. \A k \in 1..i : t[k] = g[k]
      BY <1>1
    <2> QED BY <2>1 DEF FramesIn
  <1>3. FramesIn(t, Len(g) + 1) = FramesIn(g, Len(g)) \cup (IF IsFrame(p) THEN {Len(g) + 1} ELSE {})
    <2>1. 1..(Len(g) + 1) = 1..Len(g) \cup {Len(g) + 1}
      BY <1>1
    <2>2. FramesIn(t, Len(g) + 1) =
            FramesIn(t, Len(g)) \cup {k \in {Len(g) + 1} : IsFrame(t[k])}
      BY <2>1 DEF FramesIn
    <2>3. FramesIn(t, Len(g)) = FramesIn(g, Len(g))
      BY <1>1, <1>2
    <2> QED BY <1>1, <2>2, <2>3
  <1> QED BY <1>1, <1>2, <1>3 DEF t

\* A player that was sent the cache before is written the packet.
LEMMA FreshWritten ==
    ASSUME NEW g \in Seq(Packets), NEW p \in Packets, NEW c, Fresh(g, c, p, TRUE)
    PROVE  Fresh(Append(g, p), c, p, FALSE) /\ Follows(Append(g, p), Len(g) + 1, c)
  <1> DEFINE t == Append(g, p)
             l == Len(g)
  <1>1. /\ t \in Seq(Packets) /\ Len(t) = l + 1 /\ l \in Nat /\ t[l + 1] = p
        /\ \A i \in 1..l : t[i] = g[i]
        /\ \A i \in 0..l : FramesIn(t, i) = FramesIn(g, i)
        /\ FramesIn(t, l + 1) = FramesIn(g, l) \cup (IF IsFrame(p) THEN {l + 1} ELSE {})
    BY FramesInAppend, LenProperties
  <1> HIDE DEF t
  <1>2. \/ FramesIn(g, l) = {} /\ (~c.gop.isComplete \/ IsKeyFrame(p))
        \/ \E i \in FramesIn(g, l) :
             /\ FramesIn(g, l) = FramesIn(g, i)
             /\ \/ g[i].no = FrameNo(p, TRUE)
                \/ Cardinality(FramesIn(g, i)) = MaxGOPCap /\ g[i].no <= FrameNo(p, TRUE)
    BY DEF Fresh
  <1> HIDE DEF l
  <1>3. \A i \in FramesIn(g, l) : i \in 1..l /\ t[i] = g[i] /\ FramesIn(t, i) = FramesIn(g, i)
    <2>1. \A i \in FramesIn(g, l) : i \in 1..l /\ i \in 0..l
      BY <1>1 DEF FramesIn
    <2> QED BY <1>1, <2>1
  <1>4. CASE IsFrame(p)
    <2>1. l + 1 \in FramesIn(t, l + 1) /\ t[l + 1].no = FrameNo(p, FALSE)
      BY <1>1, <1>4 DEF FrameNo
    <2>2. Fresh(t, c, p, FALSE)
      BY <1>1, <2>1 DEF Fresh
    <2>3. (l + 1) - 1 = l /\ FramesIn(t, l) = FramesIn(g, l)
      BY <1>1
    <2>4. CASE FramesIn(g, l) = {}
      BY <1>1, <1>2, <2>2, <2>3, <2>4 DEF Follows, t, l
    <2>5. CASE FramesIn(g, l) # {}
      <3>1. PICK i \in FramesIn(g, l) :
              /\ FramesIn(g, l) = FramesIn(g, i)
              /\ \/ g[i].no = FrameNo(p, TRUE)
                 \/ Cardinality(FramesIn(g, i)) = MaxGOPCap /\ g[i].no <= FrameNo(p, TRUE)
        BY <1>2, <2>5
      <3>2. ASSUME NEW k \in FramesIn(t, l), FramesIn(t, l) = FramesIn(t, k) PROVE k = i
        <4>1. k \in FramesIn(g, l) /\ FramesIn(g, l) = FramesIn(g, k)
          BY <1>3, <2>3, <3>2
        <4>2. k \in FramesIn(g, i) /\ i \in FramesIn(g, k)
          BY <3>1, <4>1
        <4> QED BY <4>2 DEF FramesIn
      <3>3. p.no \in Nat /\ g[i].no \in Nat
        <4>1. g[i] \in Packets
          BY <1>3, <3>1, ElementOfSeq DEF l
        <4> QED BY <4>1 DEF Packets
      <3>4. \/ p.no = g[i].no + 1
            \/ Cardinality(FramesIn(t, i)) = MaxGOPCap /\ p.no > g[i].no
        BY <1>3, <1>4, <3>1, <3>3 DEF FrameNo
      <3>5. Follows(t, l + 1, c)
        BY <1>1, <1>3, <2>3, <2>5, <3>1, <3>2, <3>4 DEF Follows
      <3> QED BY <2>2, <3>5 DEF t, l
    <2> QED BY <2>4, <2>5
  <1>5. CASE ~IsFrame(p)
    <2>1. FramesIn(t, l + 1) = FramesIn(g, l) /\ FrameNo(p, TRUE) = FrameNo(p, FALSE)
      BY <1>1, <1>5 DEF FrameNo
    <2>2. ~IsKeyFrame(p)
      BY <1>5 DEF IsFrame, FrameKinds, IsKeyFrame
    <2>3. Fresh(t, c, p, FALSE)
      BY <1>1, <1>2, <1>3, <2>1, <2>2 DEF Fresh
    <2>4. Follows(t, l + 1, c)
      BY <1>1, <1>5 DEF Follows
    <2> QED BY <2>3, <2>4 DEF t, l
  <1> QED BY <1>4, <1>5

\* A player that is new is sent the cache.
LEMMA FreshSent ==
    ASSUME NEW c \in CacheType, NEW p \in Packets \cup {NoPacket}, Group(c, p.no)
    PROVE  /\ CacheSend(c) \in Seq(Packets)
           /\ Fresh(CacheSend(c), c, p, FALSE)
           /\ \A j \in 1..Len(CacheSend(c)) : Follows(CacheSend(c), j, c)
  <1> DEFINE s == c.gop.packets
             t == CacheSend(c)
             h == Len(t) - Len(s)
  <1>1. t \in Seq(Packets) /\ Aligned(s, t, NoPacket)
    BY CacheSendType, CacheSendAligned
  <1>2. /\ s \in Seq(Packets) /\ Len(s) \in Nat /\ Len(t) \in Nat
        /\ \A i \in 1..Len(s) : s[i] \in Packets
    BY <1>1, LenProperties, ElementOfSeq DEF CacheType
  <1>3. /\ c.gop.isComplete <=> s # <<>>
        /\ Len(s) <= MaxGOPCap
        /\ \A i \in 1..Len(s) : IsFrame(s[i])
        /\ \A i \in 2..Len(s) : s[i].no = s[i - 1].no + 1
        /\ s # <<>> =>
             /\ IsKeyFrame(s[1])
             /\ s[Len(s)].no <= p.no
             /\ Len(s) < MaxGOPCap => s[Len(s)].no = p.no
    BY DEF Group
  <1>4. Len(s) = 0 <=> s = <<>>
    BY <1>2, EmptySeq
  <1> HIDE DEF s, t
  <1>5. h \in Nat
    <2>1. NoPacket = IF Len(s) - Len(t) < 1 THEN NoPacket ELSE s[Len(s) - Len(t)]
      BY <1>1 DEF Aligned
    <2>2. NoPacket \notin Packets
      BY DEF NoPacket, Packets, Kinds
    <2>3. ~(Len(s) - Len(t) < 1) => Len(s) - Len(t) \in 1..Len(s)
      BY <1>2
    <2> QED BY <1>2, <2>1, <2>2, <2>3
  <1>6. ASSUME NEW i \in 1..Len(t)
        PROVE  IF i > h THEN i - h \in 1..Len(s) /\ t[i] = s[i - h] ELSE ~IsFrame(t[i])
    <2>1. IF Len(s) - Len(t) + i >= 1 THEN t[i] = s[Len(s) - Len(t) + i] ELSE ~IsFrame(t[i])
      BY <1>1 DEF Aligned
    <2>2. Len(s) - Len(t) + i = i - h
      BY <1>2
    <2> QED BY <1>2, <1>5, <2>1, <2>2
  <1>7. Len(t) = h + Len(s)
    BY <1>2
  <1> HIDE DEF h
  <1>8. ASSUME NEW i \in 0..Len(t) PROVE FramesIn(t, i) = (h + 1)..i
    <2>1. ASSUME NEW k \in 1..i PROVE IsFrame(t[k]) <=> k > h
      BY <1>2, <1>3, <1>6
    <2> QED BY <1>2, <1>5, <2>1 DEF FramesIn
  <1>9. ASSUME NEW j \in 1..Len(t), IsFrame(t[j])
        PROVE  /\ FramesIn(t, j - 1) = {} => IsKeyFrame(t[j]) \/ ~c.gop.isComplete
               /\ \A i \in FramesIn(t, j - 1) : FramesIn(t, j - 1) = FramesIn(t, i) =>
                    t[j].no = t[i].no + 1
    <2>1. j > h /\ j - h \in 1..Len(s) /\ t[j] = s[j - h]
      BY <1>6, <1>9
    <2>2. FramesIn(t, j - 1) = (h + 1)..(j - 1)
      BY <1>2, <1>8
    <2>3. CASE j = h + 1
      <3>1. t[j] = s[1]
        BY <1>5, <2>1, <2>3
      <3>2. FramesIn(t, j - 1) = {}
        BY <1>5, <2>2, <2>3
      <3> QED BY <1>3, <3>1, <3>2
    <2>4. CASE j # h + 1
      <3>1. j - 1 \in (h + 1)..(j - 1) /\ j - 1 \in 1..Len(t) /\ j - 1 > h
        BY <1>2, <1>5, <2>1, <2>4
      <3>2. ASSUME NEW i \in FramesIn(t, j - 1), FramesIn(t, j - 1) = FramesIn(t, i)
            PROVE  i = j - 1
        <4>1. i \in (h + 1)..(j - 1) /\ j - 1 \in FramesIn(t, i)
          BY <2>2, <3>1, <3>2
        <4>2. j - 1 \in 1..i
          BY <4>1 DEF FramesIn
        <4> QED BY <4>1, <4>2
      <3>3. t[j - 1] = s[(j - 1) - h] /\ (j - 1) - h = (j - h) - 1
        BY <1>2, <1>5, <1>6, <3>1
      <3>4. j - h \in 2..Len(s)
        BY <1>2, <1>5, <2>1, <2>4
      <3>5. t[j].no = t[j - 1].no + 1
        BY <1>3, <2>1, <3>3, <3>4
      <3> QED BY <2>2, <3>1, <3>2, <3>5
    <2> QED BY <2>3, <2>4
  <1>10. Fresh(t, c, p, FALSE)
    <2>1. FramesIn(t, Len(t)) = (h + 1)..Len(t)
      BY <1>2, <1>8
    <2>2. CASE s = <<>>
      <3>1. FramesIn(t, Len(t)) = {}
        BY <1>2, <1>4, <1>5, <1>7, <2>1, <2>2
      <3> QED BY <1>3, <2>2, <3>1 DEF Fresh
    <2>3. CASE s # <<>>
      <3>1. Len(t) \in 1..Len(t) /\ Len(t) > h /\ Len(t) - h = Len(s)
        BY <1>2, <1>4, <1>5, <1>7, <2>3
      <3>2. Len(t) \in FramesIn(t, Len(t)) /\ t[Len(t)] = s[Len(s)]
        BY <1>2, <1>5, <1>6, <2>1, <3>1
      <3>3. Cardinality((h + 1)..Len(t)) = Len(s)
        <4>1. Cardinality((h + 1)..Len(t)) = IF h + 1 > Len(t) THEN 0 ELSE Len(t) - (h + 1) + 1
          <5>1. h + 1 \in Int /\ Len(t) \in Int
            BY <1>2, <1>5
          <5> QED BY ONLY <5>1, FS_Interval
        <4> QED BY <1>2, <1>5, <3>1, <4>1
      <3>4. FrameNo(p, FALSE) = p.no
        BY DEF FrameNo
      <3>5. \/ t[Len(t)].no = p.no
            \/ Cardinality(FramesIn(t, Len(t))) = MaxGOPCap /\ t[Len(t)].no <= p.no
        BY <1>2, <1>3, <2>1, <2>3, <3>2, <3>3, GopAssumption
      <3> QED BY <3>2, <3>4, <3>5 DEF Fresh
    <2> QED BY <2>2, <2>3
  <1> QED BY <1>1, <1>9, <1>10 DEF Follows, t

\* PullStart has read a packet that comes next, and caches it.
LEMMA FreshCached ==
    ASSUME NEW g, NEW c \in CacheType, NEW p, NEW q \in Packets,
           FrameNo(q, TRUE) = p.no, Fresh(g, c, p, FALSE)
    PROVE  Fresh(g, CacheWrite(c, q), q, TRUE)
  <1>1. ~c.gop.isComplete /\ ~IsKeyFrame(q) => CacheWrite(c, q).gop = c.gop
    BY CacheWriteGop
  <1>2. FrameNo(p, FALSE) = p.no
    BY DEF FrameNo
  <1> QED BY <1>1, <1>2 DEF Fresh

\* A new PullStart begins with a new cache.
LEMMA FreshNewCache ==
    ASSUME NEW g, NEW c, NEW p, Fresh(g, c, p, FALSE)
    PROVE  Fresh(g, NewCache, p, FALSE)
  <1>1. ~NewCache.gop.isComplete
    BY DEF NewCache, NewArray
  <1> QED BY <1>1 DEF Fresh

\* Nobody was given a packet at first.
LEMMA InitPull == ClientInit => PullInv
  <1> SUFFICES ASSUME ClientInit PROVE PullInv
    OBVIOUS
  <1>1. /\ cache = NewCache /\ pkt = NoPacket /\ toVisit = {} /\ pc = "idle"
        /\ players = [w \in Players |-> "out"] /\ given = [w \in Players |-> <<>>]
        /\ cur = Nobody /\ todo = <<>> /\ replaced = FALSE
    BY DEF ClientInit
  <1>2. Group(NewCache, pkt.no)
    BY GopAssumption DEF Group, NewCache, NewArray, NoPacket, IsFrame, FrameKinds
  <1>3. <<>> \in Seq(Packets)
    OBVIOUS
  <1> QED BY <1>1, <1>2, <1>3, NewCacheType DEF PullInv, CallInv, InCallback

\* A packet that is written keeps its place in what is due.
LEMMA DuePrefix ==
    ASSUME NEW g \in Seq(Packets), NEW s \in Seq(Packets), s # <<>>, NEW c, NEW p,
           Due(g, s, c, p)
    PROVE  /\ Append(g, Head(s)) \in Seq(Packets) /\ Tail(s) \in Seq(Packets)
           /\ Due(Append(g, Head(s)), Tail(s), c, p)
           /\ \A j \in (Len(g) + 1)..Len(Append(g, Head(s))) : Follows(Append(g, Head(s)), j, c)
  <1> DEFINE t == g \o s
             u == Append(g, Head(s))
             l == Len(g)
  <1>1. /\ Head(s) \in Packets /\ Tail(s) \in Seq(Packets) /\ Len(s) \in Nat /\ l \in Nat
        /\ Len(s) > 0
    BY HeadTailProperties, LenProperties, EmptySeq
  <1>2. /\ u \in Seq(Packets) /\ Len(u) = l + 1 /\ u[l + 1] = Head(s)
        /\ \A i \in 1..l : u[i] = g[i]
        /\ \A i \in 0..l : FramesIn(u, i) = FramesIn(g, i)
    BY <1>1, FramesInAppend
  <1>3. u \o Tail(s) = t
    <2>1. s = <<Head(s)>> \o Tail(s)
      BY <1>1, HeadTailProperties, ConcatProperties
    <2>2. u = g \o <<Head(s)>>
      BY <1>1, AppendIsConcat
    <2>3. <<Head(s)>> \in Seq(Packets)
      BY <1>1
    <2>4. (g \o <<Head(s)>>) \o Tail(s) = g \o (<<Head(s)>> \o Tail(s))
      BY <1>1, <2>3, ConcatAssociative
    <2> QED BY <2>1, <2>2, <2>4
  <1>4. /\ t \in Seq(Packets) /\ Len(t) = l + Len(s)
        /\ \A i \in 1..(l + 1) : t[i] = u[i]
    <2>1. /\ t \in Seq(Packets) /\ Len(t) = l + Len(s)
          /\ \A i \in 1..l : t[i] = g[i]
          /\ t[l + 1] = s[1]
      BY <1>1, ConcatProperties
    <2>2. s[1] = Head(s)
      BY <1>1
    <2>3. \A i \in 1..(l + 1) : i \in 1..l \/ i = l + 1
      BY <1>1
    <2> QED BY <1>2, <2>1, <2>2, <2>3
  <1>5. Follows(t, l + 1, c)
    <2>1. l + 1 \in (l + 1)..Len(t)
      BY <1>1, <1>4
    <2> QED BY <2>1 DEF Due
  <1>6. Fresh(t, c, p, FALSE) /\ \A j \in (l + 1)..Len(t) : Follows(t, j, c)
    BY DEF Due
  <1> HIDE DEF t, u, l
  <1>7. ASSUME NEW i \in 0..(l + 1) PROVE FramesIn(t, i) = FramesIn(u, i)
    <2>1. \A k \in 1..i : t[k] = u[k]
      BY <1>1, <1>4
    <2> QED BY <2>1 DEF FramesIn
  <1>8. Follows(u, l + 1, c)
    <2>1. (l + 1) - 1 = l /\ l \in 0..(l + 1) /\ l + 1 \in 1..(l + 1)
      BY <1>1
    <2>2. \A i \in FramesIn(t, l) : i \in 1..(l + 1) /\ i \in 0..(l + 1)
      BY <1>1 DEF FramesIn
    <2>3. t[l + 1] = u[l + 1] /\ FramesIn(t, l) = FramesIn(u, l)
      BY <1>4, <1>7, <2>1
    <2>4. \A i \in FramesIn(t, l) : t[i] = u[i] /\ FramesIn(t, i) = FramesIn(u, i)
      BY <1>4, <1>7, <2>2
    <2> QED BY <1>5, <2>1, <2>3, <2>4 DEF Follows
  <1>9. \A j \in (l + 1)..Len(u) : j = l + 1
    BY <1>1, <1>2
  <1>10. Due(u, Tail(s), c, p)
    <2>1. \A j \in (Len(u) + 1)..Len(t) : j \in (l + 1)..Len(t)
      BY <1>1, <1>2, <1>4
    <2> QED BY <1>3, <1>6, <2>1 DEF Due
  <1> QED BY <1>1, <1>2, <1>8, <1>9, <1>10 DEF u, l

\* What a callback is to write to the player it comes to.
LEMMA VisitDue ==
    ASSUME DownInv, PullInv, NEW v \in Players, v \in toVisit, pc = "range",
           players[v] # "out"
    PROVE  ToWrite(v) \in Seq(Packets) /\ Due(given[v], ToWrite(v), cache, pkt)
  <1>1. /\ given[v] \in Seq(Packets) /\ pkt \in Packets
        /\ players[v] = "fresh" => given[v] = <<>>
        /\ players[v] = "inited" => Fresh(given[v], cache, pkt, TRUE)
    <2>1. ~Served(v) /\ Pending(v) = TRUE
      BY DEF Served, Pending
    <2> QED BY <2>1 DEF PullInv
  <1>2. CASE players[v] = "inited"
    <2>1. ToWrite(v) = <<pkt>> /\ <<pkt>> \in Seq(Packets)
      BY <1>1, <1>2 DEF ToWrite
    <2>2. given[v] \o <<pkt>> = Append(given[v], pkt)
      BY <1>1, AppendIsConcat
    <2>3. /\ Append(given[v], pkt) \in Seq(Packets)
          /\ Len(Append(given[v], pkt)) = Len(given[v]) + 1 /\ Len(given[v]) \in Nat
      BY <1>1, AppendProperties, LenProperties
    <2>4. \A j \in (Len(given[v]) + 1)..(Len(given[v]) + 1) : j = Len(given[v]) + 1
      BY <2>3
    <2>5. /\ Fresh(Append(given[v], pkt), cache, pkt, FALSE)
          /\ Follows(Append(given[v], pkt), Len(given[v]) + 1, cache)
      BY <1>1, <1>2, FreshWritten
    <2> QED BY <2>1, <2>2, <2>3, <2>4, <2>5 DEF Due
  <1>3. CASE players[v] # "inited"
    <2>1. given[v] = <<>> /\ ToWrite(v) = CacheSend(cache)
      BY <1>1, <1>3 DEF PullInv, ToWrite
    <2>2. cache \in CacheType /\ Group(cache, pkt.no)
      BY DEF PullInv
    <2>3. /\ CacheSend(cache) \in Seq(Packets)
          /\ Fresh(CacheSend(cache), cache, pkt, FALSE)
          /\ \A j \in 1..Len(CacheSend(cache)) : Follows(CacheSend(cache), j, cache)
      BY <1>1, <2>2, FreshSent
    <2>4. given[v] \o ToWrite(v) = CacheSend(cache) /\ Len(given[v]) + 1 = 1
      BY <2>1, <2>3
    <2> QED BY <2>1, <2>3, <2>4 DEF Due
  <1> QED BY <1>2, <1>3

\* Steps that leave the cache leave what was given to the players that stay.
LEMMA PullStays ==
    ASSUME PullInv, UNCHANGED <<cache, pkt>>, CallInv',
           toVisit' \subseteq Players, pc' \in {"idle", "read"} \/ pc \notin {"idle", "read"},
           given' \in [Players -> Seq(Packets)],
           players' \in [Players -> {"out", "fresh", "inited"}],
           \A w \in Players :
             \/ players'[w] = "out"
             \/ players'[w] = "fresh" /\ given'[w] = <<>>
             \/ Served(w)'
             \/ /\ players'[w] = "inited" /\ Fresh(given'[w], cache, pkt, FALSE)
                /\ ~Pending(w)'
             \/ /\ ~Served(w) /\ players'[w] = players[w] /\ given'[w] = given[w]
                /\ Pending(w)' <=> Pending(w)
    PROVE  PullInv'
  <1> SUFFICES ASSUME NEW w \in Players, ~Served(w)'
               PROVE  /\ players'[w] = "fresh" => given'[w] = <<>>
                      /\ players'[w] = "inited" => Fresh(given'[w], cache', pkt', Pending(w)')
    BY DEF PullInv
  <1>1. CASE players'[w] = "out" \/ (players'[w] = "fresh" /\ given'[w] = <<>>)
    BY <1>1
  <1>2. CASE players'[w] = "inited" /\ Fresh(given'[w], cache, pkt, FALSE) /\ ~Pending(w)'
    <2>1. Pending(w)' = FALSE
      BY <1>2 DEF Pending
    <2> QED BY <1>2, <2>1
  <1>3. CASE /\ ~Served(w) /\ players'[w] = players[w] /\ given'[w] = given[w]
             /\ Pending(w)' <=> Pending(w)
    <2>1. /\ players[w] = "fresh" => given[w] = <<>>
          /\ players[w] = "inited" => Fresh(given[w], cache, pkt, Pending(w))
      BY <1>3 DEF PullInv
    <2>2. Pending(w)' = Pending(w)
      BY <1>3 DEF Pending
    <2> QED BY <1>3, <2>1, <2>2
  <1> QED BY <1>1, <1>2, <1>3

\* What is given goes on as it should, and nothing comes to a packWriter that was
\* stored during the callback of the one before it.
Going ==
    /\ \A w \in Players : \A j \in (Len(given[w]) + 1)..Len(given'[w]) :
         Follows(given'[w], j, cache)
    /\ replaced => given'[cur] = <<>>

LEMMA GivenStays ==
    ASSUME PullInv, given' = given
    PROVE  Going
  <1>1. \A w \in Players : (Len(given[w]) + 1)..Len(given[w]) = {}
    <2>1. \A w \in Players : Len(given[w]) \in Nat
      BY LenProperties DEF PullInv
    <2> QED BY <2>1
  <1> QED BY <1>1 DEF Going, PullInv, CallInv

\* A callback begins.
LEMMA VisitStep ==
    ASSUME DownInv, PullInv, NEW v \in Players, Visit(v)
    PROVE  PullInv' /\ Going
  <1>1. /\ pc = "range" /\ v \in toVisit /\ players[v] # "out" /\ pc' = "write"
        /\ toVisit' = toVisit \ {v} /\ cur' = v /\ todo' = ToWrite(v)
        /\ UNCHANGED <<cache, pkt, replaced, players, given>>
    BY DEF Visit, playerVars
  <1>2. ~replaced
    BY <1>1 DEF PullInv, CallInv, InCallback
  <1>3. CallInv'
    <2>1. ToWrite(v) \in Seq(Packets) /\ Due(given[v], ToWrite(v), cache, pkt)
      BY <1>1, VisitDue
    <2>2. Due(given[cur], todo, cache, pkt)'
      BY <1>1, <2>1
    <2> QED BY <1>1, <1>2, <2>1, <2>2 DEF CallInv, InCallback
  <1>4. ASSUME NEW w \in Players \ {v} PROVE ~Served(w) /\ (Pending(w)' <=> Pending(w))
    BY <1>1 DEF Served, Pending
  <1>5. Served(v)'
    BY <1>1, <1>2 DEF Served
  <1>6. PullInv'
    <2>1. \A w \in Players : \/ Served(w)'
                             \/ ~Served(w) /\ (Pending(w)' <=> Pending(w))
      BY <1>4, <1>5
    <2>2. /\ toVisit' \subseteq Players /\ given' \in [Players -> Seq(Packets)]
          /\ players' \in [Players -> {"out", "fresh", "inited"}]
      BY <1>1 DEF PullInv
    <2> QED BY <1>1, <1>3, <2>1, <2>2, PullStays
  <1> QED BY <1>1, <1>6, GivenStays

\* It writes a packet.
LEMMA VisitWriteStep ==
    ASSUME PullInv, VisitWrite
    PROVE  PullInv' /\ Going
  <1>1. /\ pc = "write" /\ todo # <<>> /\ pc' \in {"write", "drop"}
        /\ UNCHANGED <<cache, pkt, toVisit, cur, replaced, players>>
        /\ cur \in Players /\ todo \in Seq(Packets)
        /\ \/ pc' = "drop" /\ todo' = <<>> /\ given' = given
           \/ /\ pc' = "write" /\ todo' = Tail(todo)
              /\ given' = IF replaced THEN given
                          ELSE [given EXCEPT ![cur] = Append(@, Head(todo))]
    BY DEF VisitWrite, PullInv, CallInv, InCallback
  <1>2. /\ given \in [Players -> Seq(Packets)] /\ toVisit \subseteq Players
        /\ players \in [Players -> {"out", "fresh", "inited"}]
        /\ replaced => given[cur] = <<>>
        /\ ~replaced => cur \notin toVisit /\ Due(given[cur], todo, cache, pkt)
    BY <1>1 DEF PullInv, CallInv, InCallback
  <1>3. \A w \in Players : (Served(w)' <=> Served(w)) /\ (Pending(w)' <=> Pending(w))
    BY <1>1 DEF Served, Pending
  <1>4. CASE given' = given
    <2>1. CallInv'
      <3>1. todo' \in Seq(Packets) /\ (pc' = "write" \/ todo' = <<>>)
        <4>1. Tail(todo) \in Seq(Packets) /\ <<>> \in Seq(Packets)
          BY <1>1, HeadTailProperties
        <4> QED BY <1>1, <4>1
      <3>2. ~(pc' = "write" /\ ~replaced)
        <4>1. ASSUME pc' = "write", ~replaced PROVE FALSE
          <5>1. given'[cur] = Append(given[cur], Head(todo)) /\ given[cur] \in Seq(Packets)
            BY <1>1, <1>2, <4>1
          <5>2. Head(todo) \in Packets
            BY <1>1, HeadTailProperties
          <5>3. /\ Len(Append(given[cur], Head(todo))) = Len(given[cur]) + 1
                /\ Len(given[cur]) \in Nat
            BY <5>1, <5>2, AppendProperties, LenProperties
          <5>4. given'[cur] = given[cur]
            BY <1>4
          <5> QED BY <5>1, <5>3, <5>4
        <4> QED BY <4>1
      <3> QED BY <1>1, <1>2, <1>4, <3>1, <3>2 DEF CallInv, InCallback
    <2>2. PullInv'
      BY <1>1, <1>2, <1>3, <1>4, <2>1, PullStays
    <2> QED BY <1>4, <2>2, GivenStays
  <1>5. CASE ~replaced /\ pc' = "write"
    <2> DEFINE new == Append(given[cur], Head(todo))
    <2>1. /\ new \in Seq(Packets) /\ Tail(todo) \in Seq(Packets)
          /\ Due(new, Tail(todo), cache, pkt)
          /\ \A j \in (Len(given[cur]) + 1)..Len(new) : Follows(new, j, cache)
      <3>1. given[cur] \in Seq(Packets)
        BY <1>1, <1>2
      <3> QED BY <1>1, <1>2, <1>5, <3>1, DuePrefix
    <2>2. todo' = Tail(todo) /\ given' = [given EXCEPT ![cur] = new]
      BY <1>1, <1>5
    <2> HIDE DEF new
    <2>3. /\ given' \in [Players -> Seq(Packets)] /\ given'[cur] = new
          /\ \A w \in Players \ {cur} : given'[w] = given[w]
      BY <1>1, <1>2, <2>1, <2>2
    <2>4. CallInv'
      <3>1. cur' = cur /\ given'[cur'] = new /\ cur' \in Players
        BY <1>1, <2>3
      <3>2. Due(given[cur], todo, cache, pkt)'
        BY <1>1, <2>1, <2>2, <3>1
      <3> QED BY <1>1, <1>2, <1>5, <2>1, <2>2, <3>1, <3>2 DEF CallInv, InCallback
    <2>5. PullInv'
      <3>1. ASSUME NEW w \in Players
            PROVE  \/ Served(w)'
                   \/ /\ ~Served(w) /\ players'[w] = players[w] /\ given'[w] = given[w]
                      /\ Pending(w)' <=> Pending(w)
        <4>1. Served(cur)
          BY <1>1, <1>5 DEF Served
        <4> QED BY <1>1, <1>3, <2>3, <4>1
      <3> QED BY <1>1, <1>2, <2>3, <2>4, <3>1, PullStays
    <2>6. Going
      <3>1. \A w \in Players \ {cur} : (Len(given[w]) + 1)..Len(given'[w]) = {}
        <4>1. \A w \in Players : Len(given[w]) \in Nat
          BY <1>2, LenProperties
        <4> QED BY <2>3, <4>1
      <3> QED BY <1>5, <2>1, <2>3, <3>1 DEF Going
    <2> QED BY <2>5, <2>6
  <1> QED BY <1>1, <1>4, <1>5

\* It ends: the packWriter is inited, or is dropped and its writer closed.
LEMMA VisitEnds ==
    ASSUME PullInv, VisitDone \/ VisitDrop \/ VisitClose
    PROVE  PullInv' /\ Going
  <1>1. /\ pc \in {"write", "drop", "close"} /\ pc' \in {"range", "close"}
        /\ UNCHANGED <<cache, pkt, toVisit, todo, given>>
    BY DEF VisitDone, VisitDrop, VisitClose, callVars
  <1>2. /\ given \in [Players -> Seq(Packets)] /\ toVisit \subseteq Players
        /\ players \in [Players -> {"out", "fresh", "inited"}]
        /\ cur \in Players /\ todo \in Seq(Packets)
        /\ pc = "write" \/ todo = <<>>
        /\ replaced => given[cur] = <<>>
        /\ ~replaced => cur \notin toVisit
        /\ pc = "write" /\ ~replaced => Due(given[cur], todo, cache, pkt)
    BY <1>1 DEF PullInv, CallInv, InCallback
  <1>3. \A w \in Players : /\ Pending(w)' <=> Pending(w)
                           /\ w # cur => ~Served(w)
    BY <1>1 DEF Served, Pending
  <1>4. CASE VisitDone
    <2>1. /\ pc = "write" /\ todo = <<>> /\ pc' = "range" /\ cur' = Nobody /\ replaced' = FALSE
          /\ players' = IF ~replaced /\ players[cur] # "out"
                          THEN [players EXCEPT ![cur] = "inited"] ELSE players
      BY <1>4 DEF VisitDone
    <2>2. CallInv'
      BY <1>1, <1>2, <2>1 DEF CallInv, InCallback
    <2>3. /\ players' \in [Players -> {"out", "fresh", "inited"}]
          /\ \A w \in Players \ {cur} : players'[w] = players[w]
          /\ ~replaced => players'[cur] \in {"out", "inited"}
          /\ replaced => players' = players
      BY <1>2, <2>1
    <2>4. ASSUME NEW w \in Players, w = cur, ~replaced
          PROVE  Fresh(given'[w], cache, pkt, FALSE) /\ ~Pending(w)'
      <3>1. given[w] \o <<>> = given[w]
        BY <1>2
      <3>2. Due(given[w], <<>>, cache, pkt) /\ w \notin toVisit
        BY <1>2, <2>1, <2>4
      <3>3. Fresh(given[w], cache, pkt, FALSE)
        BY <3>1, <3>2 DEF Due
      <3> QED BY <1>1, <3>2, <3>3 DEF Pending
    <2>5. replaced => ~Served(cur)
      BY DEF Served
    <2>6. PullInv'
      <3>1. ASSUME NEW w \in Players
            PROVE  \/ players'[w] = "out"
                   \/ /\ players'[w] = "inited" /\ Fresh(given'[w], cache, pkt, FALSE)
                      /\ ~Pending(w)'
                   \/ /\ ~Served(w) /\ players'[w] = players[w] /\ given'[w] = given[w]
                      /\ Pending(w)' <=> Pending(w)
        <4>1. CASE w = cur /\ ~replaced
          BY <2>3, <2>4, <4>1
        <4>2. CASE w # cur \/ replaced
          BY <1>1, <1>3, <2>3, <2>5, <4>2
        <4> QED BY <4>1, <4>2
      <3> QED BY <1>1, <1>2, <2>2, <2>3, <3>1, PullStays
    <2> QED BY <1>1, <2>6, GivenStays
  <1>5. CASE VisitDrop
    <2>1. /\ pc = "drop" /\ pc' = "close" /\ players' = [players EXCEPT ![cur] = "out"]
          /\ UNCHANGED <<cur, replaced>>
      BY <1>5 DEF VisitDrop, callVars
    <2>2. CallInv'
      BY <1>1, <1>2, <2>1 DEF CallInv, InCallback
    <2>3. /\ players' \in [Players -> {"out", "fresh", "inited"}] /\ players'[cur] = "out"
          /\ \A w \in Players \ {cur} : players'[w] = players[w]
      BY <1>2, <2>1
    <2>4. PullInv'
      <3>1. ASSUME NEW w \in Players
            PROVE  \/ players'[w] = "out"
                   \/ /\ ~Served(w) /\ players'[w] = players[w] /\ given'[w] = given[w]
                      /\ Pending(w)' <=> Pending(w)
        BY <1>1, <1>3, <2>3
      <3> QED BY <1>1, <1>2, <2>2, <2>3, <3>1, PullStays
    <2> QED BY <1>1, <2>4, GivenStays
  <1>6. CASE VisitClose
    <2>1. pc = "close" /\ pc' = "range" /\ cur' = Nobody /\ replaced' = FALSE /\ players' = players
      BY <1>6 DEF VisitClose
    <2>2. CallInv'
      BY <1>1, <1>2, <2>1 DEF CallInv, InCallback
    <2>3. \A w \in Players : ~Served(w)
      BY <2>1 DEF Served
    <2>4. PullInv'
      BY <1>1, <1>2, <1>3, <2>1, <2>2, <2>3, PullStays
    <2> QED BY <1>1, <2>4, GivenStays
  <1> QED BY <1>4, <1>5, <1>6

\* The next packet is read and cached, and every player is to have it.
LEMMA PullReadStep ==
    ASSUME WireInv, DownInv, PullInv, PullRead
    PROVE  PullInv' /\ given' = given
  <1>1. /\ pc = "read" /\ down # <<>> /\ pc' \in {"read", "range"}
        /\ UNCHANGED <<players, given, cur, todo, replaced>>
    BY DEF PullRead, ClientReads, callVars, playerVars
  <1>2. CallInv' /\ \A w \in Players : ~Served(w) /\ ~Served(w)' /\ ~Pending(w)
    BY <1>1 DEF PullInv, CallInv, InCallback, Served, Pending
  <1>3. CASE ~IsMedia(Head(down))
    <2>1. UNCHANGED <<pc, pkt, cache, toVisit>>
      BY <1>3 DEF PullRead, IsMedia
    <2>2. \A w \in Players : Pending(w)' <=> Pending(w)
      BY <2>1 DEF Pending
    <2> QED BY <1>1, <1>2, <2>1, <2>2, PullStays DEF PullInv
  <1>4. CASE IsMedia(Head(down))
    <2>1. /\ pc' = "range" /\ pkt' = Head(down).packet /\ cache' = CacheWrite(cache, pkt')
          /\ toVisit' = {w \in Players : players[w] # "out"}
      BY <1>4 DEF PullRead, IsMedia
    <2>2. PICK k \in 0..Len(down) : Numbered(down, k, pkt.no, frames)
      BY DEF DownInv
    <2>3. pkt' \in Packets /\ FrameNo(pkt', TRUE) = pkt.no
      BY <1>1, <1>4, <2>1, <2>2, NumberedNext DEF WireInv
    <2>4. cache' \in CacheType
      BY <2>1, <2>3, CacheWriteType DEF PullInv
    <2>5. Group(cache', pkt'.no)
      <3>1. pkt.no \in Int /\ pkt'.no \in Nat
        BY <2>3 DEF DownInv, Packets, NoPacket
      <3>2. IsFrame(pkt') => pkt'.no = pkt.no + 1
        BY <2>3, <3>1 DEF FrameNo
      <3>3. Group(CacheWrite(cache, pkt'), IF IsFrame(pkt') THEN pkt'.no ELSE pkt.no)
        BY <2>3, <3>1, <3>2, CacheWriteGroup DEF PullInv
      <3>4. ~IsFrame(pkt') => pkt'.no = pkt.no
        BY <2>3 DEF FrameNo
      <3> QED BY <2>1, <3>3, <3>4
    <2>6. ASSUME NEW w \in Players, players'[w] = "inited"
          PROVE  Fresh(given'[w], cache', pkt', Pending(w)')
      <3>1. Pending(w) = FALSE /\ Pending(w)' = TRUE
        BY <1>1, <2>1, <2>6 DEF Pending
      <3>2. Fresh(given[w], cache, pkt, FALSE)
        BY <1>1, <1>2, <2>6, <3>1 DEF PullInv
      <3>3. Fresh(given[w], CacheWrite(cache, pkt'), pkt', TRUE)
        BY <2>3, <3>2, FreshCached DEF PullInv
      <3> QED BY <1>1, <2>1, <3>1, <3>3
    <2>7. ASSUME NEW w \in Players, players'[w] = "fresh" PROVE given'[w] = <<>>
      BY <1>1, <1>2, <2>7 DEF PullInv
    <2>8. /\ toVisit' \subseteq Players /\ given' \in [Players -> Seq(Packets)]
          /\ players' \in [Players -> {"out", "fresh", "inited"}]
      BY <1>1, <2>1 DEF PullInv
    <2> QED BY <1>1, <1>2, <2>1, <2>3, <2>4, <2>5, <2>6, <2>7, <2>8 DEF PullInv
  <1> QED BY <1>3, <1>4

\* PullStart begins, with a new cache.
LEMMA PullStartStep ==
    ASSUME PullInv, PullStart
    PROVE  PullInv' /\ given' = given
  <1>1. /\ pc = "idle" /\ pc' = "read" /\ cache' = NewCache
        /\ UNCHANGED <<pkt, toVisit, players, given, cur, todo, replaced>>
    BY DEF PullStart, callVars, playerVars
  <1>2. Group(NewCache, pkt.no)
    BY GopAssumption DEF Group, NewCache, NewArray, NoPacket, IsFrame, FrameKinds
  <1>3. CallInv' /\ \A w \in Players : ~Served(w) /\ ~Served(w)'
    BY <1>1 DEF PullInv, CallInv, InCallback, Served
  <1>4. ASSUME NEW w \in Players, players[w] = "inited"
        PROVE  Fresh(given[w], NewCache, pkt, Pending(w)')
    <2>1. Pending(w) = FALSE /\ Pending(w)' = FALSE
      BY <1>1 DEF Pending
    <2>2. Fresh(given[w], cache, pkt, FALSE)
      BY <1>3, <1>4, <2>1 DEF PullInv
    <2> QED BY <2>1, <2>2, FreshNewCache
  <1>5. ASSUME NEW w \in Players, players[w] = "fresh" PROVE given[w] = <<>>
    BY <1>3, <1>5 DEF PullInv
  <1>6. /\ toVisit \subseteq Players /\ given \in [Players -> Seq(Packets)]
        /\ players \in [Players -> {"out", "fresh", "inited"}]
    BY DEF PullInv
  <1> QED BY <1>1, <1>2, <1>3, <1>4, <1>5, <1>6, NewCacheType DEF PullInv

\* PullStart returns, or Range has visited every player that is there.
LEMMA PullEnds ==
    ASSUME PullInv, PullReturn \/ RangeEnd
    PROVE  PullInv' /\ given' = given
  <1>1. /\ UNCHANGED <<cache, pkt, cur, todo, replaced, players, given>>
        /\ pc \in {"read", "range"} /\ pc' \in {"idle", "read"}
        /\ toVisit' = toVisit \/ toVisit' = {}
        /\ \A w \in toVisit : pc = "read" \/ players[w] = "out"
    BY DEF PullReturn, RangeEnd, callVars, playerVars
  <1>2. CallInv' /\ \A w \in Players : ~Served(w)
    BY <1>1 DEF PullInv, CallInv, InCallback, Served
  <1>3. \A w \in Players : players'[w] = "out" \/ (Pending(w)' <=> Pending(w))
    BY <1>1 DEF Pending
  <1>4. /\ toVisit' \subseteq Players /\ given' \in [Players -> Seq(Packets)]
        /\ players' \in [Players -> {"out", "fresh", "inited"}]
    BY <1>1 DEF PullInv
  <1> QED BY <1>1, <1>2, <1>3, <1>4, PullStays

\* A player is added, also in the middle of its own callback.
LEMMA AddPlayerStep ==
    ASSUME PullInv, NEW v \in Players, AddPlayer(v)
    PROVE  PullInv' /\ Going
  <1>1. /\ UNCHANGED <<cache, pkt, pc, cur, todo>>
        /\ players' = [players EXCEPT ![v] = "fresh"]
        /\ given' = [given EXCEPT ![v] = <<>>]
        /\ replaced' = (replaced \/ cur = v)
        /\ toVisit' = toVisit \/ toVisit' = toVisit \cup {v}
    BY DEF AddPlayer
  <1>2. /\ given \in [Players -> Seq(Packets)] /\ toVisit \subseteq Players
        /\ players \in [Players -> {"out", "fresh", "inited"}]
        /\ \A w \in Players : Len(given[w]) \in Nat
    BY LenProperties DEF PullInv
  <1>3. /\ given' \in [Players -> Seq(Packets)] /\ toVisit' \subseteq Players
        /\ players' \in [Players -> {"out", "fresh", "inited"}]
        /\ players'[v] = "fresh" /\ given'[v] = <<>>
        /\ \A w \in Players \ {v} : players'[w] = players[w] /\ given'[w] = given[w]
        /\ \A w \in Players \ {v} : w \in toVisit' <=> w \in toVisit
    <2>1. <<>> \in Seq(Packets)
      OBVIOUS
    <2> QED BY <1>1, <1>2, <2>1
  <1>4. replaced' => cur \in Players /\ given'[cur] = <<>>
    <2>1. cur = v => given'[cur] = <<>>
      BY <1>3
    <2>2. cur # v /\ replaced => cur \in Players /\ given'[cur] = <<>>
      BY <1>3 DEF PullInv, CallInv
    <2> QED BY <1>1, <2>1, <2>2
  <1>5. ~replaced' => cur # v /\ ~replaced
    BY <1>1
  <1>6. CallInv'
    <2>1. IF InCallback THEN cur \in Players ELSE cur = Nobody /\ ~replaced
      BY DEF PullInv, CallInv
    <2>2. IF InCallback' THEN cur' \in Players ELSE cur' = Nobody /\ ~replaced'
      BY <1>1, <2>1, ClientAssumption DEF InCallback
    <2>3. ASSUME InCallback', ~replaced'
          PROVE  cur' \notin toVisit' /\ given'[cur'] = given[cur] /\ ~replaced
      <3>1. InCallback /\ cur \in Players \ {v} /\ ~replaced
        BY <1>1, <1>5, <2>1, <2>3 DEF InCallback
      <3>2. cur \notin toVisit
        BY <3>1 DEF PullInv, CallInv
      <3> QED BY <1>1, <1>3, <3>1, <3>2
    <2>4. ASSUME pc' = "write", ~replaced' PROVE Due(given[cur], todo, cache, pkt)'
      <3>1. InCallback'
        BY <2>4 DEF InCallback
      <3>2. Due(given[cur], todo, cache, pkt)
        BY <1>1, <2>3, <2>4, <3>1 DEF PullInv, CallInv
      <3> QED BY <1>1, <2>3, <2>4, <3>1, <3>2
    <2>5. todo' \in Seq(Packets) /\ (pc' = "write" \/ todo' = <<>>)
      BY <1>1 DEF PullInv, CallInv
    <2>6. replaced' => given'[cur'] = <<>>
      BY <1>1, <1>4
    <2> QED BY <2>2, <2>3, <2>4, <2>5, <2>6 DEF CallInv
  <1>7. ASSUME NEW w \in Players \ {v}
        PROVE  (Served(w)' <=> Served(w)) /\ (Pending(w)' <=> Pending(w))
    BY <1>1, <1>3 DEF Served, Pending
  <1>8. PullInv'
    <2>1. ASSUME NEW w \in Players
          PROVE  \/ players'[w] = "fresh" /\ given'[w] = <<>>
                 \/ Served(w)'
                 \/ /\ ~Served(w) /\ players'[w] = players[w] /\ given'[w] = given[w]
                    /\ Pending(w)' <=> Pending(w)
      BY <1>3, <1>7
    <2> QED BY <1>1, <1>3, <1>6, <2>1, PullStays
  <1>9. Going
    <2>1. (Len(given[v]) + 1)..Len(given'[v]) = {}
      <3>1. Len(given[v]) \in Nat /\ Len(given'[v]) = 0
        BY <1>2, <1>3
      <3> QED BY <3>1
    <2>2. ASSUME NEW w \in Players \ {v} PROVE (Len(given[w]) + 1)..Len(given'[w]) = {}
      <3>1. Len(given[w]) \in Nat /\ given'[w] = given[w]
        BY <1>2, <1>3
      <3> QED BY <3>1
    <2> QED BY <1>1, <1>4, <2>1, <2>2 DEF Going
  <1> QED BY <1>8, <1>9

\* What the players were given stays complete, and goes on as it should.
LEMMA PullStep ==
    ASSUME SessionInv, DownInv, PullInv, Next
    PROVE  PullInv' /\ Going
  <1>1. CASE UNCHANGED <<cache, pkt, pc, toVisit, cur, todo, replaced, given>> /\
             (players' = players \/ \E v \in Players : players' = [players EXCEPT ![v] = "out"])
    <2>1. /\ players' \in [Players -> {"out", "fresh", "inited"}]
          /\ \A w \in Players : players'[w] \in {"out", players[w]}
      BY <1>1 DEF PullInv
    <2>2. CallInv' /\ given' \in [Players -> Seq(Packets)] /\ toVisit' \subseteq Players
      BY <1>1 DEF PullInv, CallInv, InCallback
    <2>3. \A w \in Players : (Served(w)' <=> Served(w)) /\ (Pending(w)' <=> Pending(w))
      BY <1>1 DEF Served, Pending
    <2>4. PullInv'
      BY <1>1, <2>1, <2>2, <2>3, PullStays
    <2> QED BY <1>1, <2>4, GivenStays
  <1>2. CASE PullStart \/ PullRead \/ PullReturn \/ RangeEnd
    BY <1>2, PullStartStep, PullReadStep, PullEnds, GivenStays DEF SessionInv
  <1>3. CASE Callback
    BY <1>3, VisitStep, VisitWriteStep, VisitEnds DEF Callback
  <1>4. ASSUME NEW v \in Players, Player(v) PROVE PullInv' /\ Going
    <2>1. CASE AddPlayer(v)
      BY <2>1, AddPlayerStep
    <2>2. CASE DelPlayer(v) \/ PlayerClose(v)
      BY <1>1, <2>2 DEF DelPlayer, PlayerClose, callVars
    <2> QED BY <1>4, <2>1, <2>2 DEF Player
  <1>5. CASE SessionNext /\ UNCHANGED <<pullVars, pushVars>>
    BY <1>1, <1>5 DEF pullVars, callVars, playerVars
  <1>6. CASE ServerPlays
    BY <1>1, <1>6 DEF ServerPlays, callVars, playerVars
  <1>7. CASE Push
    BY <1>1, <1>7 DEF Push, PushStart, SrcRead, SrcEnds, PushSend, PushReturn, Cancel,
                      pullVars, callVars, playerVars
  <1> QED BY <1>2, <1>3, <1>4, <1>5, <1>6, <1>7 DEF Next, Pull

\* The inductive invariant of the client on its session.
ClientInv == SessionInv /\ DownInv /\ PullInv

\* In every state both ends are at one of the stages, the packets on the way are
\* numbered on, and each player has what it should have up to the last packet.
THEOREM ClientInvariant == Spec => []ClientInv
  <1>1. ClientInit => ClientInv
    BY InitSession, InitDown, InitPull DEF ClientInv
  <1>2. ClientInv /\ [Next]_vars => ClientInv'
    <2>1. ASSUME ClientInv, Next PROVE ClientInv'
      BY <2>1, SessionStep, DownStep, PullStep DEF ClientInv
    <2>2. ASSUME ClientInv, UNCHANGED vars PROVE ClientInv'
      <3>1. UNCHANGED <<pair, client, server, up, down, upBuf, downBuf, pc, inPublication>>
        BY <2>2 DEF vars
      <3>2. UNCHANGED <<frames, cache, pkt, toVisit, cur, todo, replaced, players, given>>
        BY <2>2 DEF vars
      <3>3. SessionInv'
        BY <2>2, <3>1 DEF ClientInv, SessionInv, WireInv, IsSeq, SessionTypes, Connecting,
           Creating, Streaming, Stage, Accepted, Requested, Serving, MethodCmd, Answered,
           OnlyMedia, BothLivelib
      <3>4. DownInv'
        BY <2>2, <3>1, <3>2 DEF ClientInv, DownInv, Records
      <3>5. PullInv'
        BY <2>2, <3>1, <3>2 DEF ClientInv, PullInv, CallInv, InCallback, Served, Pending
      <3> QED BY <3>3, <3>4, <3>5 DEF ClientInv
    <2> QED BY <2>1, <2>2
  <1> QED BY <1>1, <1>2, PTL DEF Spec

\* The frames a packWriter of PullStart writes to its player are consecutive from a key
\* frame on, with the exceptions that PullNoGap names, and one that is stored in the
\* middle of its player's callback writes nothing before that callback has ended, for any
\* number of players that come and go (Client.PullStart, AddPlayer, DelPlayer).
THEOREM PlayersMissNoFrame == Spec => PullNoGap
  <1> DEFINE NoGapHere ==
        \A w \in Players :
          LET new == given'[w]
              Frames(i) == {k \in 1..i : IsFrame(new[k])}
          IN  /\ cur = w /\ replaced /\ todo' # todo => new = <<>>
              /\ \A j \in (Len(given[w]) + 1)..Len(new) :
                   IsFrame(new[j]) =>
                     /\ Frames(j - 1) = {} => IsKeyFrame(new[j]) \/ ~cache.gop.isComplete
                     /\ \A i \in Frames(j - 1) : Frames(j - 1) = Frames(i) =>
                          \/ new[j].no = new[i].no + 1
                          \/ Cardinality(Frames(i)) = MaxGOPCap /\ new[j].no > new[i].no
  <1>1. ClientInv /\ [Next]_vars => [NoGapHere]_vars
    <2> SUFFICES ASSUME ClientInv, Next PROVE NoGapHere
      OBVIOUS
    <2>1. Going
      BY PullStep DEF ClientInv
    <2>2. \A w \in Players : \A j \in (Len(given[w]) + 1)..Len(given'[w]) :
            Follows(given'[w], j, cache)
      BY <2>1 DEF Going
    <2>3. \A w \in Players : cur = w /\ replaced => given'[w] = <<>>
      BY <2>1 DEF Going
    <2> QED BY <2>2, <2>3 DEF Follows, FramesIn
  <1> QED BY <1>1, ClientInvariant, PTL DEF Spec, PullNoGap
=============================================================================
