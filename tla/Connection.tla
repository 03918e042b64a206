----------------------------- MODULE Connection -----------------------------
(* One client connection as websocket.c sees it: ws_data and everything it    *)
(* calls, from the accept to ws_close, over one read buffer.                  *)
(*                                                                            *)
(* The stream is made of bytes, and of numbers beyond the bytes that each     *)
(* stand for a part of a line of the request.  A read ends between any two of *)
(* them, which is also within a line.                                         *)
(*                                                                            *)
(* A call of ws_data is a Receive, one step for every line or frame of what   *)
(* was read, and the check of the buffer that ends it.  main() is single-     *)
(* threaded: clients, peers and the loop act only when pc is "idle".          *)
EXTENDS Integers, Sequences, SequencesExt, FrameCodec

CONSTANTS
  Clients,      \* what clients send: [request, frames, pace, cut]
  BufSize,      \* sizeof(read_buffer)
  HeaderLimit   \* WS_HEADER_LIMIT

ASSUME BufSizeAssumption == BufSize \in Nat /\ BufSize >= 2
ASSUME HeaderLimitAssumption == HeaderLimit \in Nat

VARIABLES
  state,     \* ws->state
  buf,       \* read_buffer up to the end of the data in it
  off,       \* read_buffer_offset
  request,   \* what the request has brought so far
  ws_fd,     \* is the client's socket open?
  peer_fd,   \* is there a peer socket?
  leaked,    \* peer sockets that were overwritten while open
  queried,   \* calls of the backend's query
  connected, \* peer sockets that were connected
  pc,        \* "idle", "lines", "frames": in main() or in ws_data; "crashed"
  entry,     \* the state ws_data was entered in
  client,    \* the client, one of Clients
  unsent,    \* what the client has not yet sent
  toClient,  \* what websocket.c sends the client: answers, pongs, close frames
  toPeer     \* payloads sent to the peer

asked == <<queried, connected>>
slot == <<state, request, ws_fd, peer_fd, leaked, asked>>
wire == <<client, unsent>>
vars == <<slot, buf, off, pc, entry, wire, toClient, toPeer>>

-----------------------------------------------------------------------------
(* The stream of a client.                                                    *)
NUL == 0
LF == 10
CR == 13

(* A line is cut in two within the name of its method or header, so that its  *)
(* first part is not enough to tell what it is: "GE" and "T /path HTTP/1.1",  *)
(* "Sec-WebSocket-Ver" and "sion: 13" or "sion: 8".  The second part of a     *)
(* header has its colon and its value; no part begins with a space or a       *)
(* digit.                                                                     *)
Token == [GET |-> <<256, 257>>, POST |-> <<258, 259>>, ver13 |-> <<260, 261>>, ver8 |-> <<260, 262>>,
          key |-> <<263, 264>>, upg |-> <<265, 266>>, conn |-> <<267, 268>>, proto |-> <<269, 270>>,
          hdr |-> <<271, 272>>, nocolon |-> <<273, 274>>]
LineEnds(s, n) == n = 0 \/ (n > 1 /\ s[n - 1] = CR /\ s[n] = LF)

FramesOf(c) == FlattenSeq([i \in DOMAIN c.frames |-> ClientFrame(c.frames[i])])
ASSUME ClientsAssumption == \A c \in Clients : c.request \in Seq(Nat) /\ FramesOf(c) \in Seq(Byte)

(* Clients.  A patient one sends its frames when it has the answer; one that  *)
(* cuts at lines has each of its reads end at the end of a line.              *)
Answer(code) == [http |-> code, frame |-> <<>>]
Frame(opcode, data) == [http |-> "", frame |-> ws_send_frame(opcode, data)]

MaySend == IF client.pace = "patient" /\ ~Contains(toClient, Answer("101"))
           THEN Len(unsent) - Len(FramesOf(client))
           ELSE Len(unsent)
CutsAt(k) == client.cut = "anywhere" \/ state = "open" \/ LineEnds(unsent, k)

(* What the request has brought: the fields ws_close resets.                  *)
NoRequest == [path |-> FALSE, version |-> 0, key |-> FALSE, want_upgrade |-> {},
              protocols |-> FALSE, headers |-> 0]
(* Mutation: one of the two upgrade headers is enough.                        *)
CompleteWithEither == request.version = 13 /\ request.key /\ request.want_upgrade # {}
Complete == request.version = 13 /\ request.key /\ request.want_upgrade = {1, 2}

Init ==
  /\ state = "new" /\ buf = <<>> /\ off = 0 /\ request = NoRequest
  /\ ws_fd = TRUE /\ peer_fd = FALSE /\ leaked = 0 /\ queried = 0 /\ connected = 0
  /\ pc = "idle" /\ entry = "new"
  /\ client \in Clients
  /\ unsent = client.request \o FramesOf(client)
  /\ toClient = <<>> /\ toPeer = <<>>

-----------------------------------------------------------------------------
(* ws_close: reason is what goes to the client, "" if nothing.  An HTTP       *)
(* refusal is only sent while the headers are read, a close frame only on an  *)
(* open connection.                                                           *)
ReasonText == <<63>>
(* Mutation: the headers' refusals do not look at the state.                  *)
ToldAnyState(reason) ==
  IF state = "open" /\ reason # "" THEN <<Frame("close", ReasonText)>>
  ELSE IF reason \in {"426", "500"} THEN <<Answer(reason)>> ELSE <<>>

Told(reason) == IF state = "open" /\ reason # "" THEN <<Frame("close", ReasonText)>>
                ELSE IF state = "http" /\ reason \in {"426", "500"} THEN <<Answer(reason)>> ELSE <<>>

(* Mutation: the peer is forgotten without being closed.                      *)
ws_closeDropsPeer(reason) ==
  /\ toClient' \in {toClient, toClient \o Told(reason)}
  /\ state' = "closed"
  /\ ws_fd' = FALSE /\ peer_fd' = FALSE
  /\ request' = NoRequest
  /\ leaked' = leaked + (IF peer_fd THEN 1 ELSE 0)

(* Mutation: the peer is left connected.                                      *)
ws_closeKeepsPeer(reason) ==
  /\ toClient' \in {toClient, toClient \o Told(reason)}
  /\ state' = "closed"
  /\ ws_fd' = FALSE /\ UNCHANGED <<peer_fd, leaked>>
  /\ request' = NoRequest

ws_close(reason) ==
  /\ toClient' \in {toClient, toClient \o Told(reason)}
  /\ state' = "closed"
  /\ ws_fd' = FALSE /\ peer_fd' = FALSE
  /\ request' = NoRequest
  /\ UNCHANGED leaked

(* recv gets at least one byte and no more than fit with a terminator.        *)
Receive ==
  /\ pc = "idle" /\ ws_fd
  /\ \E k \in 1 .. MaySend :
       /\ k <= BufSize - off - 1 /\ CutsAt(k)
       /\ buf' = buf \o SubSeq(unsent, 1, k)
       /\ unsent' = SubSeq(unsent, k + 1, Len(unsent))
  /\ pc' = IF state = "open" THEN "frames" ELSE "lines"
  /\ off' = IF state = "open" THEN Len(buf') ELSE off
  /\ entry' = state
  /\ UNCHANGED <<slot, client, toClient, toPeer>>

(* recv fails, or there is nothing and never will be.                         *)
ReceiveEnds ==
  /\ pc = "idle" /\ ws_fd
  /\ ws_close("")
  /\ buf' = <<>> /\ off' = 0 /\ entry' = state
  /\ UNCHANGED <<pc, asked, wire, toPeer>>

(* main() closes the connection: the peer closed or failed, or the program    *)
(* ends (with a reason), or a ping could not be sent (without).               *)
LoopCloses ==
  /\ pc = "idle" /\ ws_fd
  /\ \E reason \in {"", "reason"} : ws_close(reason)
  /\ buf' = <<>> /\ off' = 0 /\ entry' = state
  /\ UNCHANGED <<pc, asked, wire, toPeer>>

-----------------------------------------------------------------------------
(* HTTP lines.  Only what this read brought is scanned for "\r\n"; the line   *)
(* is what the buffer has up to there, be it made of parts of several lines:  *)
(* what it begins with decides what it is.                                    *)

(* Mutation: an end of line that ends the read is missed.                     *)
BreaksInside == {i \in off + 1 .. Len(buf) - 2 : buf[i] = CR /\ buf[i + 1] = LF}

Breaks == {i \in off + 1 .. Len(buf) - 1 : buf[i] = CR /\ buf[i + 1] = LF}
Break == CHOOSE i \in Breaks : \A j \in Breaks : i <= j
LineAt == pc = "lines" /\ Breaks # {}
First == IF Break = 1 THEN NUL ELSE buf[1]   \* NUL has replaced the "\r"
LineIs(token) == Break > 2 /\ buf[1] = token[1] /\ buf[2] = token[2]
Single == Break = 3 \/ buf[3] = NUL
Line == {buf[i] : i \in {j \in 1 .. Break - 1 : \A m \in 1 .. j : buf[m] # NUL}}

(* The line is removed: the rest moves to the front, from where the offset    *)
(* says it begins.  ws_close has reset the offset: then it moves from as many *)
(* bytes before as the line had from earlier reads.                          *)
RemoveLine(offset) ==
  LET back == off - offset IN
  /\ buf' = SubSeq([buf EXCEPT ![Break] = NUL], Break + 2 - back, Len(buf) - back)
  /\ off' = 0
  /\ UNCHANGED <<pc, entry, wire, toPeer>>

LineDone == RemoveLine(off)
LineCloses(reason) == ws_close(reason) /\ RemoveLine(0)

(* ws_handle_new: anything but a GET is left without an answer.               *)
RequestLine ==
  /\ LineAt /\ state = "new"
  /\ IF LineIs(Token.GET)
     THEN state' = "http" /\ request' = [request EXCEPT !.path = TRUE]
     ELSE UNCHANGED <<state, request>>
  /\ LineDone
  /\ UNCHANGED <<ws_fd, peer_fd, leaked, asked, toClient>>

HeaderLine == LineAt /\ state # "new" /\ First # NUL
BlankLine == LineAt /\ state # "new" /\ First = NUL
Colons == {58} \cup {Token[h][2] : h \in {"ver13", "ver8", "key", "upg", "conn", "proto", "hdr"}}
Spaces == 9 .. 13 \cup {32}
WellFormed == First \notin Spaces /\ Line \cap Colons # {}

(* The header's effect; an Upgrade header has to be the line on its own.      *)
WithHeader ==
  CASE LineIs(Token.ver13) -> [request EXCEPT !.version = 13]
    [] LineIs(Token.ver8)  -> [request EXCEPT !.version = 8]
    [] LineIs(Token.key)   -> [request EXCEPT !.key = TRUE]
    [] LineIs(Token.upg) /\ Single -> [request EXCEPT !.want_upgrade = @ \cup {1}]
    [] LineIs(Token.conn)  -> [request EXCEPT !.want_upgrade = @ \cup {2}]
    [] LineIs(Token.proto) -> [request EXCEPT !.protocols = TRUE]
    [] OTHER -> IF request.headers < HeaderLimit
                THEN [request EXCEPT !.headers = @ + 1] ELSE request

Header ==
  /\ HeaderLine /\ WellFormed
  /\ request' = WithHeader
  /\ LineDone
  /\ UNCHANGED <<state, ws_fd, peer_fd, leaked, asked, toClient>>

(* The line begins with a space or has no colon.                              *)
HeaderRefused ==
  /\ HeaderLine /\ ~WellFormed
  /\ LineCloses("500")
  /\ UNCHANGED asked

(* client_connect: the backend is asked and, unless its answer will not do, a *)
(* socket is connected.  What the slot held as its peer before, be it         *)
(* overwritten with -1, stays open.                                           *)
client_connect(connects, overwrites) ==
  /\ queried' = queried + 1
  /\ connected' = connected + (IF connects THEN 1 ELSE 0)
  /\ leaked' = leaked + (IF peer_fd /\ overwrites THEN 1 ELSE 0)

(* ws_upgrade_http with a complete request: the peer is connected, the answer *)
(* is sent.                                                                   *)
Upgrade ==
  /\ BlankLine /\ Complete /\ ws_fd
  /\ client_connect(TRUE, TRUE)
  /\ peer_fd' = TRUE
  /\ state' = "open"
  /\ toClient' = Append(toClient, Answer("101"))
  /\ LineDone
  /\ UNCHANGED <<request, ws_fd>>

(* No peer is found or connected; or one is, and it is closed again because   *)
(* the answer cannot be sent: the client is gone, as it is on a slot that an  *)
(* earlier line has closed.                                                   *)
UpgradeFails ==
  /\ BlankLine /\ Complete
  /\ \/ /\ \E overwrites \in BOOLEAN : client_connect(FALSE, overwrites)
        /\ toClient' \in {toClient, toClient \o Told("500")}
     \/ client_connect(TRUE, TRUE) /\ UNCHANGED toClient
  /\ state' = "closed" /\ ws_fd' = FALSE /\ peer_fd' = FALSE
  /\ request' = NoRequest
  /\ RemoveLine(0)

(* On a slot that an earlier line has closed there is no path, and a backend  *)
(* that looks at it (strlen in plugins/backend_file.c) ends the program.      *)
QueryCrashes ==
  /\ BlankLine /\ Complete /\ ~request.path
  /\ queried' = queried + 1
  /\ pc' = "crashed"
  /\ UNCHANGED <<state, request, ws_fd, peer_fd, leaked, connected, buf, off, entry, wire, toClient, toPeer>>

UpgradeVersion ==
  /\ BlankLine /\ request.version # 13
  /\ LineCloses("426")
  /\ UNCHANGED asked

(* Something else is missing: the error ws_upgrade_http returns is dropped.   *)
UpgradeIgnored ==
  /\ BlankLine /\ request.version = 13 /\ ~Complete
  /\ LineDone
  /\ UNCHANGED <<slot, toClient>>

(* Mutation: one byte of room is taken for enough.                            *)
CheckRoomOffByOne(offset, data) ==
  /\ pc' = "idle"
  /\ IF BufSize - offset < 1
     THEN ws_close("reason") /\ buf' = <<>> /\ off' = 0
     ELSE buf' = data /\ off' = offset /\ UNCHANGED <<state, request, ws_fd, peer_fd, leaked, toClient>>
  /\ UNCHANGED <<asked, entry, wire, toPeer>>

(* The check that ends ws_data: with less than two bytes left in the buffer   *)
(* the next recv would have no room, and the client is disconnected.          *)
CheckRoom(offset, data) ==
  /\ pc' = "idle"
  /\ IF BufSize - offset < 2
     THEN ws_close("reason") /\ buf' = <<>> /\ off' = 0
     ELSE buf' = data /\ off' = offset /\ UNCHANGED <<state, request, ws_fd, peer_fd, leaked, toClient>>
  /\ UNCHANGED <<asked, entry, wire, toPeer>>

(* No line is left: the offset becomes the length of what this read has left, *)
(* whatever the buffer held before it.                                        *)
EndOfLines ==
  /\ pc = "lines" /\ Breaks = {}
  /\ CheckRoom(Len(buf) - off, SubSeq(buf, 1, Len(buf) - off))

-----------------------------------------------------------------------------
(* WebSocket frames.  ws_frame looks at the head of the buffer, and acts only *)
(* on a frame that is all there.                                              *)
FrameAt == pc = "frames" /\ HasFrame(buf)
IsOp(op) == WS_GET_MASK(buf[2]) /\ WS_GET_OP(buf[1]) = OpCode[op]
IsMessage == IsOp("text") \/ IsOp("binary")

(* Mutation: a call handles one frame and leaves the rest for the next.       *)
FrameDoneOnce ==
  /\ buf' = SubSeq(buf, FrameLen(buf) + 1, Len(buf))
  /\ off' = off - FrameLen(buf)
  /\ pc' = "idle"
  /\ UNCHANGED <<slot, entry, wire>>

FrameDone ==
  /\ buf' = SubSeq(buf, FrameLen(buf) + 1, Len(buf))
  /\ off' = off - FrameLen(buf)
  /\ UNCHANGED <<slot, pc, entry, wire>>

(* Mutation: ws_close leaves the offset.                                      *)
FrameClosesKeepsOffset(reason) ==
  /\ ws_close(reason)
  /\ buf' = <<>>
  /\ UNCHANGED <<asked, off, pc, entry, wire>>

FrameCloses(reason) ==
  /\ ws_close(reason)
  /\ buf' = <<>> /\ off' = 0
  /\ UNCHANGED <<asked, pc, entry, wire>>

(* network_send: all of the data in as many sends as it takes, or a part of   *)
(* it before the one that fails.  Nothing is sent, and nothing fails, if      *)
(* there is no data.                                                          *)
network_send(data) == toPeer' = IF data = <<>> THEN toPeer ELSE Append(toPeer, data)
network_send_fails(data) ==
  /\ data # <<>>
  /\ \E sent \in 0 .. Len(data) - 1 :
       toPeer' = IF sent = 0 THEN toPeer ELSE Append(toPeer, SubSeq(data, 1, sent))

(* Mutation: the frame is not removed from the buffer.                        *)
ForwardKeepsFrame ==
  /\ FrameAt /\ IsMessage
  /\ IF peer_fd THEN network_send(Payload(buf)) ELSE UNCHANGED toPeer
  /\ UNCHANGED <<slot, buf, off, pc, entry, wire, toClient>>

Forward ==
  /\ FrameAt /\ IsMessage
  /\ IF peer_fd THEN network_send(Payload(buf)) ELSE UNCHANGED toPeer
  /\ FrameDone
  /\ UNCHANGED toClient

(* The nonblocking peer does not take all of the message.                     *)
ForwardFails ==
  /\ FrameAt /\ IsMessage /\ peer_fd
  /\ network_send_fails(Payload(buf))
  /\ FrameCloses("reason")

SendPong ==
  /\ FrameAt /\ IsOp("ping")
  /\ toClient' = Append(toClient, Frame("pong", Payload(buf)))
  /\ FrameDone
  /\ UNCHANGED toPeer

IgnorePong ==
  /\ FrameAt /\ IsOp("pong")
  /\ FrameDone
  /\ UNCHANGED <<toClient, toPeer>>

(* Without a mask, a close frame or an unknown opcode; a pong that cannot be  *)
(* sent.                                                                      *)
FrameEnds ==
  /\ FrameAt /\ ~IsOp("pong") /\ ~IsMessage
  /\ FrameCloses("reason")
  /\ UNCHANGED toPeer

EndOfFrames ==
  /\ pc = "frames" /\ ~FrameAt
  /\ CheckRoom(off, buf)

-----------------------------------------------------------------------------
Handler == \/ RequestLine \/ Header \/ HeaderRefused
           \/ Upgrade \/ UpgradeFails \/ QueryCrashes \/ UpgradeVersion \/ UpgradeIgnored \/ EndOfLines
           \/ Forward \/ ForwardFails \/ SendPong \/ IgnorePong \/ FrameEnds \/ EndOfFrames

(* The slot is free for another client, or the program has crashed: the run   *)
(* is over.                                                                   *)
Closed == pc \in {"idle", "crashed"} /\ ~ws_fd /\ UNCHANGED vars

Next == Handler \/ Receive \/ ReceiveEnds \/ LoopCloses \/ Closed

(* ws_data returns; the client is not obliged to send anything.               *)
Spec == Init /\ [][Next]_vars /\ WF_vars(Handler)

-----------------------------------------------------------------------------
(* Properties                                                                 *)

(* Everything the slot keeps is of its type, and the data in the buffer ends  *)
(* at the offset whenever ws_data is not running.                             *)
TypeOK ==
  /\ state \in {"new", "http", "open", "closed"} /\ entry \in {"new", "http", "open"}
  /\ pc \in {"idle", "lines", "frames", "crashed"}
  /\ Len(buf) < BufSize /\ off \in 0 .. BufSize
  /\ pc = "idle" => off = Len(buf)
  /\ request \in [path : BOOLEAN, version : {0, 8, 13}, key : BOOLEAN,
                  want_upgrade : SUBSET {1, 2}, protocols : BOOLEAN,
                  headers : 0 .. HeaderLimit]
  /\ ws_fd \in BOOLEAN /\ peer_fd \in BOOLEAN
  /\ leaked \in Nat /\ queried \in Nat /\ connected \in Nat

(* recv always has room for a byte: with none it would return 0, and the      *)
(* connection would end as if the client had closed it (websocket.c:456).     *)
RecvHasRoom == pc = "idle" /\ ws_fd => BufSize - off >= 2

(* What the lines begin with that the client has sent.                        *)
Came == LET stream == client.request \o FramesOf(client)
        IN {SubSeq(stream, i + 1, i + 2) :
              i \in {j \in 0 .. Len(stream) - Len(unsent) - 2 : LineEnds(stream, j)}}
Needed == {Token.GET, Token.ver13, Token.key, Token.upg, Token.conn}

(* The backend is asked and the client told 101 only after every line the     *)
(* upgrade needs has come, if each read ends with a line.  Of a line cut in   *)
(* three reads websocket.c:491 drops the second part, and the code handles a  *)
(* line that has never come.                                                  *)
UpgradeNeedsAll ==
  client.cut = "lines" /\ (queried > 0 \/ Contains(toClient, Answer("101"))) => Needed \subseteq Came

(* What one call of ws_data makes of a slot is what module EventLoop takes it *)
(* to be: the slot is closed with both its descriptors, stays as it is (a     *)
(* request line may come), or is upgraded and has a peer.                     *)
OutcomeOfWsData ==
  pc = "idle" =>
    \/ state = "closed" /\ ~ws_fd /\ ~peer_fd
    \/ ws_fd /\ peer_fd /\ state = "open"
    \/ /\ ws_fd /\ ~peer_fd /\ state \in {"new", "http"}
       /\ state = "new" => entry = "new"

(* No peer's socket is overwritten while it is open, unless by a client that  *)
(* sends more than its request without waiting for the answer: neither the    *)
(* end of a connection nor a second attempt at its upgrade leaks one.         *)
PeersClosed == leaked > 0 => client.pace # "patient"

(* Whatever ws_data still handles of the read in which the connection ended,  *)
(* it sends nothing to either side, and the slot is as closed behind each     *)
(* line as before it: a peer that a blank line connects is closed with it,    *)
(* and none is lost.                                                          *)
SilentWhenClosed ==
  [][~ws_fd => UNCHANGED <<state, ws_fd, peer_fd, leaked, toClient, toPeer>>]_vars

(* The frames of a client before the first the connection may end at, and of  *)
(* those the messages that are not empty, and the pings; what the first n     *)
(* frames bring of them.                                                      *)
Ends(f) == f.key = <<>> \/ f.op \notin {OpCode[op] : op \in {"text", "binary", "ping", "pong"}}
Accepted(c) == {n \in DOMAIN c.frames : \A i \in 1 .. n : ~Ends(c.frames[i])}
Messages(c) == {n \in Accepted(c) : /\ c.frames[n].op \in {OpCode["text"], OpCode["binary"]}
                                    /\ c.frames[n].data # <<>>}
Pings(c) == {n \in Accepted(c) : c.frames[n].op = OpCode["ping"]}
Brought(frames, kept) ==
  LET upto[n \in 0 .. Len(frames)] ==
        IF n = 0 THEN <<>>
        ELSE IF n \in kept THEN Append(upto[n - 1], frames[n].data) ELSE upto[n - 1]
  IN upto
MessagesOf(c) == Brought(c.frames, Messages(c))[Len(c.frames)]
PingsOf(c) == Brought(c.frames, Pings(c))[Len(c.frames)]

(* A patient client whose request has one blank line, at its end, and whose   *)
(* frames are any the RFC lets it send.                                       *)
OneBlank(r) ==
  /\ \A i \in 1 .. Len(r) : r[i] # NUL
  /\ \A i \in 1 .. Len(r) - 1 : LineEnds(r, i - 1) /\ r[i] = CR /\ r[i + 1] = LF => i = Len(r) - 1
Talks(c) ==
  /\ c.pace = "patient" /\ OneBlank(c.request)
  /\ c.frames \in Seq(Range(c.frames)) /\ \A f \in Range(c.frames) : IsClientFrame(f)

(* With patient clients the connection keeps the promise of Session: at most  *)
(* one answer, messages unmasked, whole and in order after the upgrade, every *)
(* pong with its ping's payload, silence after the end, for every way the     *)
(* stream is cut into reads.                                                  *)
phase == IF state \in {"new", "http"} THEN "handshake" ELSE state
Told_as(t) == IF t.http # "" THEN [type |-> t.http, data |-> <<>>] ELSE ClientReads(t.frame)
Seen == [i \in DOMAIN toClient |-> Told_as(toClient[i])]
SentPayloads == {f.data : f \in UNION {Range(c.frames) : c \in Clients}}
Promise == INSTANCE Session WITH
  messages <- MessagesOf(client), pings <- PingsOf(client), toClient <- Seen,
  Payloads <- SentPayloads, Reasons <- {ReasonText}
KeepsPromise == Promise!Spec

(* A complete request that came in whole lines is answered, or the connection *)
(* is closed.                                                                 *)
Asked(cut) == /\ client.cut = cut /\ client.pace = "patient"
              /\ Needed \subseteq Came
              /\ Len(unsent) = Len(FramesOf(client))
HandshakeAnswered == Asked("lines") ~> (toClient # <<>> \/ ~ws_fd)

(* websocket.c:468 "scan for newline, handle line": the same of a request cut *)
(* anywhere, as a stream may be.                                              *)
AnsweredHoweverCut == Asked("anywhere") ~> (toClient # <<>> \/ ~ws_fd)

(* Every message of a patient client that has been read is forwarded without  *)
(* waiting for more to be read, or the connection is closed.                  *)
MessagesForwarded ==
  (client.pace = "patient" /\ unsent = <<>> /\ state = "open")
    ~> (toPeer = MessagesOf(client) \/ ~ws_fd)

(* ws_close shuts a connection down, "including a connected peer stream"      *)
(* (websocket.c:23): no backend is asked and no peer connected for it from    *)
(* then on.  It does not hold, the lines left of the read may be a request.   *)
NothingConnectedAfterClose == [][~ws_fd => UNCHANGED asked]_vars

(* The backend is asked once for every connection (README.md:184).            *)
QueriedOnce == queried <= 1
=============================================================================
