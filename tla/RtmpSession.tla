----------------------------- MODULE RtmpSession -----------------------------
(***************************************************************************)
(* An RTMP connection from the first byte to the stream: the handshake,    *)
(* ConnClient.Start at one end and handleConn with ConnServer.ReadInitMsg  *)
(* at the other, over two sequences of messages.  Each end has a write     *)
(* buffer; what is in it travels with the next Flush.  The connection may  *)
(* break at any time.  One end may be another program, which sends what it *)
(* likes when it likes, and closes when it likes.                          *)
(***************************************************************************)
EXTENDS Integers, Sequences

CONSTANTS
    Pairs,     \* which ends are livelib: "both", "client", "server"
    Methods,   \* what the client is for: "publish", "play"
    MaxOther   \* bound on the messages of an end that is another program

ASSUME SessionAssumption ==
    /\ Pairs \subseteq {"both", "client", "server"}
    /\ Methods \subseteq {"publish", "play"}
    /\ MaxOther \in Nat

VARIABLES
    pair,     \* the two ends of this behaviour
    client,   \* where the client is in Start, and its ConnClient
    server,   \* where the server is in handleConn, and its ConnServer
    up,       \* client to server: flushed and not yet read
    down,     \* server to client: flushed and not yet read
    upBuf,    \* the client's bufio.Writer
    downBuf,  \* the server's bufio.Writer
    lost,     \* the connection broke: reads and flushes fail at both ends
    others    \* messages sent by an end that is another program

sessionVars == <<pair, client, server, up, down, upBuf, downBuf, lost, others>>

Nobody == ""  \* a string nobody has set

Handshake(part, ok) == [type |-> part, ok |-> ok]
Command(name, id, arg, stream) ==
    [type |-> "command", name |-> name, id |-> id, arg |-> arg, stream |-> stream]
Control(name) == [type |-> "control", name |-> name]
Media(p) == [type |-> "media", packet |-> p]

Init ==
    /\ pair \in Pairs
    /\ \E m \in Methods :
         client = [pc |-> IF pair = "server" THEN "other" ELSE "c0c1",
                   method |-> m, transID |-> 1, streamid |-> 0, open |-> TRUE]
    /\ server = [pc |-> IF pair = "client" THEN "other" ELSE "c0c1",
                 transactionID |-> 0, streamID |-> 1, app |-> Nobody,
                 name |-> Nobody, isPublisher |-> FALSE, open |-> TRUE]
    /\ up = <<>> /\ down = <<>>
    /\ upBuf = <<>> /\ downBuf = <<>>
    /\ lost = FALSE
    /\ others = 0

-----------------------------------------------------------------------------
(* The two ends of the wire *)

ClientSends(m) ==
    /\ up' = up \o Append(upBuf, m)
    /\ upBuf' = <<>>

ServerSends(out) ==
    /\ down' = down \o downBuf \o out
    /\ downBuf' = <<>>

ClientReads == ~lost /\ down # <<>> /\ down' = Tail(down)

ServerReads == ~lost /\ up # <<>> /\ up' = Tail(up)

\* io.EOF: everything was read and the other end has closed.
ClientEOF == ~lost /\ down = <<>> /\ ~server.open
ServerEOF == ~lost /\ up = <<>> /\ ~client.open

-----------------------------------------------------------------------------
(* ConnClient.Start *)

\* HandshakeClient: C0 and C1 are written and flushed.
HelloClient ==
    /\ client.pc = "c0c1"
    /\ ~lost
    /\ ClientSends(Handshake("C0C1", TRUE))
    /\ client' = [client EXCEPT !.pc = "s0s1s2"]
    /\ UNCHANGED <<pair, server, down, downBuf, lost, others>>

\* S0, S1 and S2 are read.  C2 stays in the buffer until connect is flushed.
HandshakeClient ==
    /\ client.pc = "s0s1s2"
    /\ ClientReads
    /\ upBuf' = Append(upBuf, Handshake("C2", TRUE))
    /\ client' = [client EXCEPT !.pc = "sendConnect"]
    /\ UNCHANGED <<pair, server, up, downBuf, lost, others>>

\* SetDeadline(now + timeout) before each blocking call of the handshake.
ClientDeadline ==
    /\ client.pc = "s0s1s2"
    /\ down = <<>>
    /\ client' = [client EXCEPT !.pc = "failed"]
    /\ UNCHANGED <<pair, server, up, down, upBuf, downBuf, lost, others>>

writeConnectMsg ==
    /\ client.pc = "sendConnect"
    /\ ~lost
    /\ ClientSends(Command("connect", client.transID, "app", 0))
    /\ client' = [client EXCEPT !.pc = "connect"]
    /\ UNCHANGED <<pair, server, down, downBuf, lost, others>>

writeCreateStreamMsg ==
    /\ client.pc = "sendCreate"
    /\ ~lost
    /\ ClientSends(Command("createStream", client.transID + 1, Nobody, 0))
    /\ client' = [client EXCEPT !.pc = "createStream", !.transID = @ + 1]
    /\ UNCHANGED <<pair, server, down, downBuf, lost, others>>

\* Faulty: the response to publish or play is not waited for.
writePublishOrPlayMsg_NoWait ==
    /\ client.pc = "sendMethod"
    /\ ~lost
    /\ ClientSends(Command(client.method, 0, "title", 0))
    /\ client' = [client EXCEPT !.pc = "started", !.transID = @ + 1]
    /\ UNCHANGED <<pair, server, down, downBuf, lost, others>>

\* writePlayMsg writes transaction 0 although it has counted a new one.
writePublishOrPlayMsg ==
    /\ client.pc = "sendMethod"
    /\ ~lost
    /\ ClientSends(Command(client.method,
                           IF client.method = "publish" THEN client.transID + 1 ELSE 0,
                           "title", 0))
    /\ client' = [client EXCEPT !.pc = client.method, !.transID = @ + 1]
    /\ UNCHANGED <<pair, server, down, downBuf, lost, others>>

Awaiting == {"connect", "createStream", "publish", "play"}

\* What readRespMsg makes of a command message: nil, ErrFail, or the name of the
\* message as an error.  An object with no code is let through.
Response(cmd, m, transID) ==
    IF cmd \in {"connect", "createStream"} /\ m.name # "_result"
      THEN "error"
      ELSE IF \/ cmd \in {"connect", "createStream"} /\ m.id # transID
              \/ cmd = "connect" /\ m.arg \notin {Nobody, "NetConnection.Connect.Success"}
              \/ /\ cmd = "publish"
                 /\ \/ m.name # "onStatus"
                    \/ m.id # 0
                    \/ m.arg \notin {Nobody, "NetStream.Publish.Start"}
      THEN "ErrFail"
      ELSE "nil"

AfterResponse == [connect |-> "sendCreate", createStream |-> "sendMethod",
                  publish |-> "started", play |-> "started"]

\* One message in the loop of readRespMsg.  The loop of writeCreateStreamMsg
\* reads on after an error that is not ErrFail.
readRespMsg ==
    /\ client.pc \in Awaiting
    /\ ClientReads
    /\ LET m == Head(down)
           r == Response(client.pc, m, client.transID)
       IN  client' =
             IF m.type # "command" THEN client
             ELSE IF r = "nil"
               THEN [client EXCEPT !.pc = AfterResponse[client.pc],
                       !.streamid = IF client.pc = "createStream" THEN m.stream ELSE @]
             ELSE IF r = "error" /\ client.pc = "createStream" THEN client
             ELSE [client EXCEPT !.pc = "failed"]
    /\ UNCHANGED <<pair, server, up, upBuf, downBuf, lost, others>>

\* An io.EOF is let through and its nil message is used: the program panics.
readRespEOF ==
    /\ client.pc \in Awaiting
    /\ ClientEOF
    /\ client' = [client EXCEPT !.pc = "panicked", !.open = FALSE]
    /\ UNCHANGED <<pair, server, up, down, upBuf, downBuf, lost, others>>

Starting == {"c0c1", "s0s1s2", "sendConnect", "sendCreate", "sendMethod"} \cup Awaiting

\* Any other error ends Start, which does not close the connection.  In the loop
\* of writeCreateStreamMsg it does not: the loop goes on for ever.
StartFails ==
    /\ \/ client.pc \in Starting \ {"createStream"} /\ lost
       \/ client.pc = "s0s1s2" /\ ClientEOF
    /\ client' = [client EXCEPT !.pc = "failed"]
    /\ UNCHANGED <<pair, server, up, down, upBuf, downBuf, lost, others>>

\* Client.Close, or the end of the program.
ClientClose ==
    /\ client.pc \in {"started", "failed", "other"}
    /\ client' = [client EXCEPT !.pc = "closed", !.open = FALSE]
    /\ UNCHANGED <<pair, server, up, down, upBuf, downBuf, lost, others>>

ConnClientStart ==
    \/ HelloClient \/ HandshakeClient
    \/ writeConnectMsg \/ writeCreateStreamMsg \/ writePublishOrPlayMsg
    \/ readRespMsg \/ readRespEOF \/ StartFails

-----------------------------------------------------------------------------
(* handleConn *)

CloseServer == [server EXCEPT !.pc = "closed", !.open = FALSE]

\* Faulty: S0, S1 and S2 are not flushed before C2 is read.
HandshakeServer_NoFlush ==
    /\ server.pc = "c0c1"
    /\ ServerReads
    /\ IF Head(up).ok
         THEN /\ downBuf' = <<Handshake("S0S1S2", TRUE)>>
              /\ down' = down
              /\ server' = [server EXCEPT !.pc = "c2"]
         ELSE server' = CloseServer /\ UNCHANGED <<down, downBuf>>
    /\ UNCHANGED <<pair, client, upBuf, lost, others>>

\* HandshakeServer: C0 with another version than 3, and a C1 that says it has a
\* digest and has not, end the connection.
HandshakeServer ==
    /\ server.pc = "c0c1"
    /\ ServerReads
    /\ IF Head(up).ok
         THEN /\ ServerSends(<<Handshake("S0S1S2", TRUE)>>)
              /\ server' = [server EXCEPT !.pc = "c2"]
         ELSE server' = CloseServer /\ UNCHANGED <<down, downBuf>>
    /\ UNCHANGED <<pair, client, upBuf, lost, others>>

\* C2 is read and not looked at.  The deadline is cleared.
HandshakeServerEnd ==
    /\ server.pc = "c2"
    /\ ServerReads
    /\ server' = [server EXCEPT !.pc = "init"]
    /\ UNCHANGED <<pair, client, down, upBuf, downBuf, lost, others>>

\* Faulty: the deadline is set for C0 and C1 only.
ServerDeadline_First ==
    /\ server.pc = "c0c1"
    /\ up = <<>>
    /\ server' = CloseServer
    /\ UNCHANGED <<pair, client, up, down, upBuf, downBuf, lost, others>>

ServerDeadline ==
    /\ server.pc \in {"c0c1", "c2"}
    /\ up = <<>>
    /\ server' = CloseServer
    /\ UNCHANGED <<pair, client, up, down, upBuf, downBuf, lost, others>>

OnStatus(code) == Command("onStatus", 0, code, 0)

\* A command message read by ReadInitMsg.
Reads(names) ==
    /\ server.pc = "init"
    /\ ServerReads
    /\ Head(up).type = "command"
    /\ Head(up).name \in names
    /\ UNCHANGED <<pair, client, upBuf, lost, others>>

Connect ==
    LET m == Head(up)
    IN  /\ Reads({"connect"})
        /\ IF m.id = 1
             THEN /\ server' = [server EXCEPT !.transactionID = 1, !.app = m.arg]
                  /\ ServerSends(<<Control("WindowAckSize"), Control("SetPeerBandwidth"),
                        Control("SetChunkSize"),
                        Command("_result", 1, "NetConnection.Connect.Success", 0)>>)
             ELSE server' = CloseServer /\ UNCHANGED <<down, downBuf>>

\* Faulty: the response is not flushed.
CreateStream_NoFlush ==
    LET m == Head(up)
    IN  /\ Reads({"createStream"})
        /\ server' = [server EXCEPT !.transactionID = m.id]
        /\ downBuf' = Append(downBuf, Command("_result", m.id, Nobody, server.streamID))
        /\ down' = down

CreateStream ==
    LET m == Head(up)
    IN  /\ Reads({"createStream"})
        /\ server' = [server EXCEPT !.transactionID = m.id]
        /\ ServerSends(<<Command("_result", m.id, Nobody, server.streamID)>>)

\* publish and play end ReadInitMsg, whatever came before them.
PublishOrPlay ==
    LET m == Head(up)
    IN  /\ Reads({"publish", "play"})
        /\ server' = [server EXCEPT !.pc = "auth", !.transactionID = m.id,
                        !.name = m.arg, !.isPublisher = (m.name = "publish")]
        /\ ServerSends(
             IF m.name = "publish"
               THEN <<OnStatus("NetStream.Publish.Start")>>
               ELSE <<Control("StreamIsRecorded"), Control("StreamBegin"),
                      OnStatus("NetStream.Play.Reset"), OnStatus("NetStream.Play.Start"),
                      OnStatus("NetStream.Data.Start"),
                      OnStatus("NetStream.Play.PublishNotify")>>)

\* FCPublish, releaseStream and commands it does not know; other messages.
Ignore ==
    /\ server.pc = "init"
    /\ ServerReads
    /\ \/ Head(up).type # "command"
       \/ Head(up).name \notin {"connect", "createStream", "publish", "play"}
    /\ UNCHANGED <<pair, client, server, down, upBuf, downBuf, lost, others>>

\* authFunc accepts or refuses; the client has had its response.
Auth ==
    /\ server.pc = "auth"
    /\ server' \in {[server EXCEPT !.pc = IF server.isPublisher THEN "publish" ELSE "play"],
                    CloseServer}
    /\ UNCHANGED <<pair, client, up, down, upBuf, downBuf, lost, others>>

\* rtmp.Reader.Read of a publisher: what is not media is skipped.
PushRead ==
    /\ server.pc = "publish"
    /\ ServerReads
    /\ UNCHANGED <<pair, client, server, down, upBuf, downBuf, lost, others>>

\* A packet of SendPacket is written and flushed.
PlaySend(p) ==
    /\ server.pc = "play"
    /\ ~lost
    /\ ServerSends(<<Media(p)>>)
    /\ UNCHANGED <<pair, client, server, up, upBuf, lost, others>>

\* Reading fails, or the flush of a player's packet does.
ServerFails ==
    /\ \/ server.pc \in {"c0c1", "c2", "init", "publish"} /\ (lost \/ ServerEOF)
       \/ server.pc = "play" /\ (lost \/ ~client.open)
    /\ server' = CloseServer
    /\ UNCHANGED <<pair, client, up, down, upBuf, downBuf, lost, others>>

\* PushStart returns because the channel has a publisher, or the channel closes
\* the player's writer.
HandlerEnds ==
    /\ server.pc \in {"publish", "play"}
    /\ server' = CloseServer
    /\ UNCHANGED <<pair, client, up, down, upBuf, downBuf, lost, others>>

handleConn ==
    \/ HandshakeServer \/ HandshakeServerEnd \/ Connect \/ CreateStream
    \/ PublishOrPlay \/ Ignore \/ Auth \/ PushRead \/ ServerFails

-----------------------------------------------------------------------------
(* The rest of the world *)

Break ==
    /\ ~lost
    /\ client.open /\ server.open
    /\ lost' = TRUE
    /\ UNCHANGED <<pair, client, server, up, down, upBuf, downBuf, others>>

\* Another client: C0C1, C2, then any commands, without waiting for responses.
OtherClient ==
    /\ client.pc = "other"
    /\ ~lost
    /\ others < MaxOther
    /\ others' = others + 1
    /\ \E m \in IF others = 0 THEN {Handshake("C0C1", ok) : ok \in BOOLEAN}
               ELSE IF others = 1 THEN {Handshake("C2", TRUE)}
               ELSE {Command("connect", 1, "app", 0), Command("connect", 2, "app", 0),
                     Command("createStream", 2, Nobody, 0),
                     Command("FCPublish", 3, "title", 0), Control("SetChunkSize"),
                     Command(client.method, 4, "title", 0)} :
         ClientSends(m)
    /\ UNCHANGED <<pair, client, server, down, downBuf, lost>>

\* Another server: S0S1S2, then any responses.
OtherServer ==
    /\ server.pc = "other"
    /\ ~lost
    /\ others < MaxOther
    /\ others' = others + 1
    /\ \E m \in IF others = 0 THEN {Handshake("S0S1S2", TRUE)}
               ELSE {Command("_result", 1, "NetConnection.Connect.Success", 0),
                     Command("_result", 1, "NetConnection.Connect.Rejected", 0),
                     Command("_result", 1, Nobody, 0), Command("_result", 2, Nobody, 5),
                     Command("_error", 2, Nobody, 0),
                     Control("WindowAckSize"), OnStatus("NetStream.Publish.Start"),
                     OnStatus("NetStream.Publish.BadName")} :
         ServerSends(<<m>>)
    /\ UNCHANGED <<pair, client, server, up, upBuf, lost>>

OtherServerClose ==
    /\ server.pc = "other"
    /\ server' = CloseServer
    /\ UNCHANGED <<pair, client, up, down, upBuf, downBuf, lost, others>>

SessionNext ==
    \/ ConnClientStart \/ ClientDeadline \/ ClientClose
    \/ handleConn \/ ServerDeadline \/ HandlerEnds
    \/ OtherClient \/ OtherServer \/ OtherServerClose
    \/ Break

-----------------------------------------------------------------------------
(* Properties *)

BothLivelib == pair = "both"

\* Both ends wait for the other: nothing has arrived for either, and neither has
\* a deadline that helps after the handshake.
ClientWaits == client.pc \in Awaiting \cup {"s0s1s2"} /\ down = <<>> /\ server.open

ServerWaits ==
    server.pc \in {"c0c1", "c2", "init"} /\ up = <<>> /\ client.open /\ client.pc # "failed"

\* A livelib client and a livelib server never both wait for what the other has
\* not sent or has left in its write buffer: C2 stays in the buffer until connect
\* is sent, and responses follow three control messages that are not flushed.
NoMutualWait == BothLivelib => ~(ClientWaits /\ ServerWaits)

\* When Start has returned, the server has left ReadInitMsg for the role, the app
\* and the stream the client asked for, the stream id is the server's, and no
\* command is left on the wire to be taken for part of the stream.
StartAgrees ==
    BothLivelib /\ client.pc = "started" =>
      /\ server.pc \in {"auth", client.method, "closed"}
      /\ server.isPublisher = (client.method = "publish")
      /\ server.app = "app" /\ server.name = "title"
      /\ client.streamid = server.streamID
      /\ \A i \in 1..Len(up) : up[i].type = "media"

\* A silent server does not hold the handshake of Start.  Start returns, or panics,
\* if both ends are livelib, unless the connection breaks in the loop of
\* writeCreateStreamMsg, which does not end then.
StartReturns ==
    /\ (client.pc = "s0s1s2") ~> (client.pc # "s0s1s2")
    /\ (BothLivelib /\ client.pc \in Starting)
         ~> (client.pc \notin Starting \/ (client.pc = "createStream" /\ lost))

\* A silent client does not hold the handshake of handleConn.  The handler of a
\* client that has gone ends, but for a player's, which learns of it with the next
\* packet.
HandlerNotices ==
    /\ (server.pc \in {"c0c1", "c2"}) ~> (server.pc \notin {"c0c1", "c2"})
    /\ (~client.open) ~> (server.pc \in {"closed", "play", "other"})
=============================================================================
