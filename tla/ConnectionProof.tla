-------------------------- MODULE ConnectionProof --------------------------
(* What holds of a connection for every client, every way its stream is cut   *)
(* into reads and every size of the read buffer.                              *)
EXTENDS Connection, CodecLemmas

Requests == [path : BOOLEAN, version : {0, 8, 13}, key : BOOLEAN, want_upgrade : SUBSET {1, 2},
             protocols : BOOLEAN, headers : 0 .. HeaderLimit]

(* The slot: its descriptors go with its state, in ws_data as outside of it.  *)
SlotInv ==
  /\ state \in {"new", "http", "open", "closed"} /\ entry \in {"new", "http", "open"}
  /\ request \in Requests
  /\ ws_fd \in BOOLEAN /\ peer_fd \in BOOLEAN /\ leaked \in Nat
  /\ queried \in Nat /\ connected \in Nat
  /\ state = "closed" <=> ~ws_fd
  /\ peer_fd <=> state = "open"
  /\ state = "new" => entry = "new"

(* The buffer: in the scan for lines the offset is where this read began or   *)
(* 0, in the frame handler and outside of ws_data it is the end of the data.  *)
BufInv ==
  /\ pc \in {"idle", "lines", "frames", "crashed"}
  /\ buf \in Seq(Nat) /\ Len(buf) < BufSize
  /\ off \in 0 .. BufSize
  /\ IF pc \in {"lines", "crashed"} THEN off <= Len(buf) ELSE off = Len(buf)
  /\ pc = "idle" /\ ws_fd => BufSize - off >= 2

WireInv == client \in Clients /\ unsent \in Seq(Nat)

IInv == SlotInv /\ BufInv /\ WireInv

-----------------------------------------------------------------------------
(* Helpers of the model.                                                      *)

(* The first "\r\n" that this read brought.                                   *)
LEMMA FirstBreak ==
  ASSUME BufInv, Breaks # {}
  PROVE  /\ Break \in Breaks /\ \A j \in Breaks : Break <= j
         /\ Break \in off + 1 .. Len(buf) - 1
<1>1. Breaks \subseteq Nat /\ Breaks \subseteq off + 1 .. Len(buf) - 1
  BY LenProperties DEF Breaks, BufInv
<1>2. \E i \in Breaks : \A j \in Breaks : i <= j
  BY <1>1, SmallestOf
<1> QED
  BY <1>1, <1>2 DEF Break

(* The part of the buffer that stays when a line is removed.                  *)
LEMMA LineRemoved ==
  ASSUME BufInv, pc = "lines", Breaks # {}, NEW offset \in {0, off}, RemoveLine(offset)
  PROVE  /\ buf' \in Seq(Nat) /\ Len(buf') < BufSize /\ off' = 0
         /\ \A i \in 1 .. Len(buf') : \E j \in 1 .. Len(buf) : buf'[i] = NUL \/ buf'[i] = buf[j]
<1> DEFINE back == off - offset
           terminated == [buf EXCEPT ![Break] = NUL]
<1>1. Break \in off + 1 .. Len(buf) - 1 /\ off \in Nat /\ Len(buf) \in Nat
  BY FirstBreak, LenProperties DEF BufInv
<1>2. back \in 0 .. off
  BY <1>1
<1>3. /\ terminated \in Seq(Nat) /\ Len(terminated) = Len(buf)
      /\ \A j \in 1 .. Len(buf) : terminated[j] = NUL \/ terminated[j] = buf[j]
  <2>1. NUL \in Nat /\ Break \in 1 .. Len(buf) /\ buf \in Seq(Nat)
    BY <1>1 DEF NUL, BufInv
  <2> QED
    BY <2>1, ExceptSeq
<1> DEFINE first == Break + 2 - back
           last == Len(buf) - back
<1>4. first \in Nat \ {0} /\ last \in Int /\ last <= Len(buf) /\ first <= last + 1
  BY <1>1, <1>2
<1>5. buf' = SubSeq(terminated, first, last) /\ off' = 0
  BY DEF RemoveLine
<1>6. /\ SubSeq(terminated, first, last) \in Seq(Nat)
      /\ Len(SubSeq(terminated, first, last)) = last + 1 - first
      /\ \A i \in 1 .. Len(SubSeq(terminated, first, last)) :
            SubSeq(terminated, first, last)[i] = terminated[first + i - 1]
  <2> HIDE DEF terminated, first, last
  <2> QED
    BY <1>3, <1>4, PartOfSeq
<1>7. Len(buf') < BufSize
  <2>1. BufSize \in Nat /\ Len(buf) < BufSize
    BY BufSizeAssumption DEF BufInv
  <2> QED
    BY <1>1, <1>5, <1>6, <2>1
<1>8. ASSUME NEW i \in 1 .. Len(buf')
      PROVE  \E j \in 1 .. Len(buf) : buf'[i] = NUL \/ buf'[i] = buf[j]
  <2> DEFINE j == first + i - 1
  <2>1. j \in 1 .. Len(buf)
    BY <1>1, <1>4, <1>5, <1>6
  <2>2. buf'[i] = terminated[j]
    BY <1>5, <1>6
  <2> QED
    BY <1>3, <2>1, <2>2
<1> QED
  BY <1>5, <1>6, <1>7, <1>8

LEMMA LineKeepsBuffer ==
  ASSUME BufInv, LineAt, NEW offset \in {0, off}, RemoveLine(offset)
  PROVE  BufInv'
<1>1. pc = "lines" /\ pc' = "lines" /\ Breaks # {}
  BY DEF LineAt, RemoveLine
<1>2. buf' \in Seq(Nat) /\ Len(buf') < BufSize /\ off' = 0 /\ Len(buf') \in Nat
  BY <1>1, LineRemoved, LenProperties
<1> QED
  BY <1>1, <1>2, BufSizeAssumption DEF BufInv

(* The part of the buffer that stays when a frame is removed.                 *)
LEMMA FrameRemoved ==
  ASSUME BufInv, FrameAt, FrameDone
  PROVE  BufInv' /\ FrameLen(buf) \in 0 .. Len(buf)
<1>1. /\ pc = "frames" /\ pc' = "frames" /\ Len(buf) \in Nat /\ BufSize \in Nat
      /\ FrameLen(buf) \in 0 .. Len(buf) /\ off = Len(buf) /\ buf \in Seq(Nat)
  BY LenProperties, BufSizeAssumption DEF BufInv, FrameAt, FrameDone, HasFrame
<1>2. /\ buf' = SubSeq(buf, FrameLen(buf) + 1, Len(buf)) /\ off' = off - FrameLen(buf)
  BY DEF FrameDone
<1>3. buf' \in Seq(Nat) /\ Len(buf') = Len(buf) - FrameLen(buf)
  BY <1>1, <1>2, PartOfSeq
<1> QED
  BY <1>1, <1>2, <1>3 DEF BufInv

LEMMA ClosedSlot ==
  ASSUME SlotInv, NEW reason, ws_close(reason), asked' = asked,
         entry' \in {"new", "http", "open"}
  PROVE  SlotInv'
<1>1. NoRequest \in Requests
  BY HeaderLimitAssumption DEF NoRequest, Requests
<1> QED
  BY <1>1 DEF SlotInv, ws_close, asked

LEMMA RoomChecked ==
  ASSUME SlotInv, BufInv, NEW data \in Seq(Nat), NEW offset \in Nat, offset = Len(data),
         offset < BufSize, CheckRoom(offset, data)
  PROVE  SlotInv' /\ BufInv' /\ pc' = "idle"
<1>1. BufSize \in Nat /\ BufSize >= 2 /\ pc' = "idle"
  BY BufSizeAssumption DEF CheckRoom
<1>2. CASE BufSize - offset < 2
  <2>1. ws_close("reason") /\ buf' = <<>> /\ off' = 0 /\ asked' = asked /\ entry' = entry
    BY <1>2 DEF CheckRoom
  <2>2. SlotInv'
    BY <2>1, ClosedSlot DEF SlotInv
  <2>3. <<>> \in Seq(Nat) /\ Len(<<>>) = 0
    OBVIOUS
  <2> QED
    BY <1>1, <2>1, <2>2, <2>3 DEF BufInv
<1>3. CASE ~(BufSize - offset < 2)
  <2>1. /\ buf' = data /\ off' = offset
        /\ UNCHANGED <<state, request, ws_fd, peer_fd, leaked, asked, entry>>
    BY <1>3 DEF CheckRoom
  <2>2. SlotInv'
    BY <2>1 DEF SlotInv, asked
  <2> QED
    BY <1>1, <1>3, <2>1, <2>2 DEF BufInv
<1> QED
  BY <1>2, <1>3

(* A header changes one field of what the request has brought, and those the  *)
(* upgrade needs only the header they are named for.                          *)
LEMMA HeaderChangesOne ==
  \/ LineIs(Token.ver13) /\ WithHeader = [request EXCEPT !.version = 13]
  \/ WithHeader = [request EXCEPT !.version = 8]
  \/ LineIs(Token.key) /\ WithHeader = [request EXCEPT !.key = TRUE]
  \/ LineIs(Token.upg) /\ WithHeader = [request EXCEPT !.want_upgrade = @ \cup {1}]
  \/ LineIs(Token.conn) /\ WithHeader = [request EXCEPT !.want_upgrade = @ \cup {2}]
  \/ WithHeader = [request EXCEPT !.protocols = TRUE]
  \/ request.headers < HeaderLimit /\ WithHeader = [request EXCEPT !.headers = @ + 1]
  \/ WithHeader = request
<1> DEFINE is(t) == LineIs(t)
<1>1. /\ is(Token.ver13) => ~is(Token.ver8) /\ ~is(Token.key) /\ ~is(Token.upg) /\ ~is(Token.conn) /\ ~is(Token.proto)
      /\ is(Token.ver8) => ~is(Token.key) /\ ~is(Token.upg) /\ ~is(Token.conn) /\ ~is(Token.proto)
      /\ is(Token.key) => ~is(Token.upg) /\ ~is(Token.conn) /\ ~is(Token.proto)
      /\ is(Token.upg) => ~is(Token.conn) /\ ~is(Token.proto)
      /\ is(Token.conn) => ~is(Token.proto)
  BY DEF LineIs, Token
<1> HIDE DEF is
<1>2. WithHeader =
        CASE is(Token.ver13) -> [request EXCEPT !.version = 13]
          [] is(Token.ver8)  -> [request EXCEPT !.version = 8]
          [] is(Token.key)   -> [request EXCEPT !.key = TRUE]
          [] is(Token.upg) /\ Single -> [request EXCEPT !.want_upgrade = @ \cup {1}]
          [] is(Token.conn)  -> [request EXCEPT !.want_upgrade = @ \cup {2}]
          [] is(Token.proto) -> [request EXCEPT !.protocols = TRUE]
          [] OTHER -> IF request.headers < HeaderLimit
                      THEN [request EXCEPT !.headers = @ + 1] ELSE request
  BY DEF WithHeader, is
<1>3. CASE is(Token.ver13)
  BY <1>1, <1>2, <1>3 DEF is
<1>4. CASE is(Token.ver8)
  BY <1>1, <1>2, <1>4
<1>5. CASE is(Token.key)
  BY <1>1, <1>2, <1>5 DEF is
<1>6. CASE is(Token.upg) /\ Single
  BY <1>1, <1>2, <1>6 DEF is
<1>7. CASE is(Token.conn)
  BY <1>1, <1>2, <1>7 DEF is
<1>8. CASE is(Token.proto)
  BY <1>1, <1>2, <1>8
<1>9. CASE /\ ~is(Token.ver13) /\ ~is(Token.ver8) /\ ~is(Token.key) /\ ~is(Token.conn) /\ ~is(Token.proto)
           /\ ~(is(Token.upg) /\ Single)
  BY <1>2, <1>9
<1> QED
  BY <1>3, <1>4, <1>5, <1>6, <1>7, <1>8, <1>9

LEMMA HeaderKeepsType ==
  ASSUME request \in Requests
  PROVE  WithHeader \in Requests
<1>1. HeaderLimit \in Nat
  BY HeaderLimitAssumption
<1>2. /\ [request EXCEPT !.version = 13] \in Requests /\ [request EXCEPT !.version = 8] \in Requests
      /\ [request EXCEPT !.key = TRUE] \in Requests
      /\ [request EXCEPT !.protocols = TRUE] \in Requests
  BY DEF Requests
<1>3. /\ [request EXCEPT !.want_upgrade = @ \cup {1}] \in Requests
      /\ [request EXCEPT !.want_upgrade = @ \cup {2}] \in Requests
  BY DEF Requests
<1>4. request.headers < HeaderLimit => [request EXCEPT !.headers = @ + 1] \in Requests
  BY <1>1 DEF Requests
<1> QED
  BY <1>2, <1>3, <1>4, HeaderChangesOne

-----------------------------------------------------------------------------
(* The inductive invariant.                                                   *)

LEMMA Initially == Init => IInv
<1> SUFFICES ASSUME Init PROVE IInv
  OBVIOUS
<1>1. client.request \in Seq(Nat) /\ FramesOf(client) \in Seq(Nat)
  <2>1. Byte \subseteq Nat
    BY DEF Byte
  <2> QED
    BY <2>1, ClientsAssumption, SeqMonotonic DEF Init
<1>2. unsent \in Seq(Nat)
  BY <1>1, ConcatProperties DEF Init
<1>3. <<>> \in Seq(Nat) /\ Len(<<>>) = 0
  OBVIOUS
<1>4. BufInv
  BY <1>3, BufSizeAssumption DEF Init, BufInv
<1>5. SlotInv
  <2>1. NoRequest \in Requests
    BY HeaderLimitAssumption DEF NoRequest, Requests
  <2> QED
    BY <2>1 DEF Init, SlotInv
<1> QED
  BY <1>2, <1>4, <1>5 DEF IInv, WireInv, Init

(* What a client may still send is a beginning of what it has.                *)
LEMMA SendsUnsent ==
  ASSUME WireInv
  PROVE  MaySend \in Int /\ MaySend <= Len(unsent)
<1>1. Len(unsent) \in Nat /\ Len(FramesOf(client)) \in Nat
  BY LenProperties, ClientsAssumption DEF WireInv
<1> QED
  BY <1>1 DEF MaySend

LEMMA ReceiveKeeps ==
  ASSUME IInv, Receive
  PROVE  IInv'
<1>1. PICK k \in 1 .. MaySend :
        /\ k <= BufSize - off - 1 /\ CutsAt(k)
        /\ buf' = buf \o SubSeq(unsent, 1, k)
        /\ unsent' = SubSeq(unsent, k + 1, Len(unsent))
  BY Zenon DEF Receive
<1>2. /\ k \in Nat \ {0} /\ k <= Len(unsent) /\ Len(unsent) \in Nat /\ unsent \in Seq(Nat)
      /\ buf \in Seq(Nat) /\ Len(buf) = off /\ off \in Nat
  BY SendsUnsent, LenProperties DEF IInv, WireInv, BufInv, Receive
<1>3. SubSeq(unsent, 1, k) \in Seq(Nat) /\ Len(SubSeq(unsent, 1, k)) = k
  BY <1>2, PartOfSeq
<1>4. buf' \in Seq(Nat) /\ Len(buf') = off + k
  <2> DEFINE read == SubSeq(unsent, 1, k)
  <2>1. buf \o read \in Seq(Nat) /\ Len(buf \o read) = off + k
    <3> HIDE DEF read
    <3>1. read \in Seq(Nat) /\ Len(read) = k
      BY <1>3 DEF read
    <3> QED
      BY <1>2, <3>1, ConcatProperties
  <2> QED
    BY <1>1, <2>1
<1>5. unsent' \in Seq(Nat)
  BY <1>1, <1>2, PartOfSeq
<1>6. SlotInv'
  BY DEF Receive, IInv, SlotInv, slot, asked
<1>7. BufInv'
  BY <1>1, <1>2, <1>4, BufSizeAssumption DEF Receive, BufInv
<1> QED
  BY <1>5, <1>6, <1>7 DEF IInv, WireInv, Receive

LEMMA LinesKeep ==
  ASSUME IInv,
         \/ RequestLine \/ Header \/ HeaderRefused
         \/ Upgrade \/ UpgradeFails \/ UpgradeVersion \/ UpgradeIgnored
  PROVE  IInv'
<1>1. LineAt
  BY DEF RequestLine, Header, HeaderRefused, Upgrade, UpgradeFails, UpgradeVersion,
         UpgradeIgnored, HeaderLine, BlankLine
<1>2. \E offset \in {0, off} : RemoveLine(offset)
  BY DEF RequestLine, Header, HeaderRefused, Upgrade, UpgradeFails, UpgradeVersion,
         UpgradeIgnored, LineDone, LineCloses
<1>3. BufInv'
  BY <1>1, <1>2, LineKeepsBuffer DEF IInv
<1>4. UNCHANGED <<entry, wire>>
  BY <1>2 DEF RemoveLine
<1>5. SlotInv'
  <2>1. CASE RequestLine
    BY <2>1, <1>4 DEF RequestLine, asked, IInv, SlotInv, Requests
  <2>2. CASE Header
    BY <2>2, <1>4, HeaderKeepsType DEF Header, asked, IInv, SlotInv
  <2>3. CASE HeaderRefused
    BY <2>3, <1>4, ClosedSlot DEF HeaderRefused, LineCloses, IInv, SlotInv
  <2>4. CASE Upgrade
    BY <2>4, <1>4 DEF Upgrade, client_connect, BlankLine, IInv, SlotInv
  <2>5. CASE UpgradeFails
    <3>1. NoRequest \in Requests
      BY HeaderLimitAssumption DEF NoRequest, Requests
    <3>2. PICK connects \in BOOLEAN, overwrites \in BOOLEAN : client_connect(connects, overwrites)
      BY <2>5 DEF UpgradeFails
    <3>3. queried' \in Nat /\ connected' \in Nat /\ leaked' \in Nat
      BY <3>2 DEF client_connect, IInv, SlotInv
    <3>4. /\ state' = "closed" /\ ws_fd' = FALSE /\ peer_fd' = FALSE
          /\ request' = NoRequest /\ entry' = entry
      BY <2>5, <1>4 DEF UpgradeFails
    <3> QED
      BY <3>1, <3>3, <3>4 DEF IInv, SlotInv
  <2>6. CASE UpgradeVersion
    BY <2>6, <1>4, ClosedSlot DEF UpgradeVersion, LineCloses, IInv, SlotInv
  <2>7. CASE UpgradeIgnored
    BY <2>7, <1>4 DEF UpgradeIgnored, slot, asked, IInv, SlotInv
  <2> QED
    BY <2>1, <2>2, <2>3, <2>4, <2>5, <2>6, <2>7
<1> QED
  BY <1>3, <1>4, <1>5 DEF IInv, WireInv, wire

LEMMA FramesKeep ==
  ASSUME IInv, Forward \/ ForwardFails \/ SendPong \/ IgnorePong \/ FrameEnds
  PROVE  IInv'
<1>1. FrameAt /\ pc = "frames"
  BY DEF Forward, ForwardFails, SendPong, IgnorePong, FrameEnds, FrameAt
<1>2. CASE Forward \/ SendPong \/ IgnorePong
  <2>1. FrameDone
    BY <1>2 DEF Forward, SendPong, IgnorePong
  <2>2. BufInv'
    BY <1>1, <2>1, FrameRemoved DEF IInv
  <2>3. SlotInv' /\ WireInv'
    BY <2>1 DEF FrameDone, slot, asked, wire, IInv, SlotInv, WireInv
  <2> QED
    BY <2>2, <2>3 DEF IInv
<1>3. CASE ForwardFails \/ FrameEnds
  <2>1. FrameCloses("reason")
    BY <1>3 DEF ForwardFails, FrameEnds
  <2>2. <<>> \in Seq(Nat) /\ Len(<<>>) = 0
    OBVIOUS
  <2>3. BufInv'
    BY <1>1, <2>1, <2>2, BufSizeAssumption DEF FrameCloses, BufInv
  <2>4. SlotInv' /\ WireInv'
    BY <2>1, ClosedSlot DEF FrameCloses, wire, IInv, SlotInv, WireInv
  <2> QED
    BY <2>3, <2>4 DEF IInv
<1> QED
  BY <1>2, <1>3

LEMMA EndsKeep ==
  ASSUME IInv, EndOfLines \/ EndOfFrames
  PROVE  IInv'
<1>1. PICK offset, data : /\ CheckRoom(offset, data)
                          /\ \/ /\ pc = "lines"
                                /\ offset = Len(buf) - off /\ data = SubSeq(buf, 1, Len(buf) - off)
                             \/ pc = "frames" /\ offset = off /\ data = buf
  BY DEF EndOfLines, EndOfFrames
<1>2. /\ buf \in Seq(Nat) /\ Len(buf) \in Nat /\ off \in Nat /\ Len(buf) < BufSize /\ BufSize \in Nat
      /\ IF pc = "lines" THEN off <= Len(buf) ELSE off = Len(buf)
  <2>1. pc # "crashed"
    BY <1>1
  <2> QED
    BY <2>1, LenProperties, BufSizeAssumption DEF IInv, BufInv
<1>3. data \in Seq(Nat) /\ offset = Len(data) /\ offset \in Nat /\ offset < BufSize
  <2>1. CASE pc = "lines"
    <3>1. offset = Len(buf) - off /\ data = SubSeq(buf, 1, offset) /\ offset \in 0 .. Len(buf)
      BY <1>1, <1>2, <2>1
    <3>2. data \in Seq(Nat) /\ Len(data) = offset
      BY <1>2, <3>1, PartOfSeq
    <3>3. offset \in Nat /\ offset < BufSize
      BY <1>2, <3>1
    <3> QED
      BY <3>2, <3>3
  <2>2. CASE pc = "frames"
    BY <1>1, <1>2, <2>2
  <2> QED
    BY <1>1, <2>1, <2>2
<1>4. SlotInv' /\ BufInv'
  BY <1>1, <1>3, RoomChecked DEF IInv
<1> QED
  BY <1>1, <1>4 DEF IInv, WireInv, CheckRoom, wire

LEMMA Inductive == IInv /\ [Next]_vars => IInv'
<1> SUFFICES ASSUME IInv, [Next]_vars PROVE IInv'
  OBVIOUS
<1>1. CASE RequestLine \/ Header \/ HeaderRefused
           \/ Upgrade \/ UpgradeFails \/ UpgradeVersion \/ UpgradeIgnored
  BY <1>1, LinesKeep
<1>2. CASE Forward \/ ForwardFails \/ SendPong \/ IgnorePong \/ FrameEnds
  BY <1>2, FramesKeep
<1>3. CASE EndOfLines \/ EndOfFrames
  BY <1>3, EndsKeep
<1>4. CASE Receive
  BY <1>4, ReceiveKeeps
<1>5. CASE ReceiveEnds \/ LoopCloses
  <2>1. /\ \E reason : ws_close(reason)
        /\ pc = "idle" /\ ws_fd /\ UNCHANGED <<pc, asked, wire>>
        /\ buf' = <<>> /\ off' = 0 /\ entry' = state
    BY <1>5 DEF ReceiveEnds, LoopCloses
  <2>2. SlotInv' /\ ws_fd' = FALSE
    BY <2>1, ClosedSlot DEF IInv, SlotInv, ws_close
  <2>3. <<>> \in Seq(Nat) /\ Len(<<>>) = 0
    OBVIOUS
  <2>4. BufInv'
    BY <2>1, <2>2, <2>3, BufSizeAssumption DEF BufInv
  <2> QED
    BY <2>1, <2>2, <2>4 DEF IInv, WireInv, wire
<1>6. CASE UNCHANGED vars
  BY <1>6 DEF vars, slot, asked, wire, IInv, SlotInv, BufInv, WireInv
<1>7. CASE QueryCrashes
  <2>1. /\ pc = "lines" /\ pc' = "crashed" /\ queried' = queried + 1
        /\ UNCHANGED <<state, request, ws_fd, peer_fd, leaked, connected, buf, off, entry, wire>>
    BY <1>7 DEF QueryCrashes, BlankLine, LineAt
  <2> QED
    BY <2>1 DEF wire, IInv, SlotInv, BufInv, WireInv
<1> QED
  BY <1>1, <1>2, <1>3, <1>4, <1>5, <1>6, <1>7 DEF Next, Handler, Closed

(* Type correctness for every client: the buffer never holds more than it can *)
(* with a terminator, and ends at the offset whenever ws_data has returned.   *)
THEOREM TypeCorrect == Spec => []TypeOK
<1>1. IInv => TypeOK
  BY LenProperties DEF IInv, SlotInv, BufInv, TypeOK, Requests
<1> QED
  BY Initially, Inductive, <1>1, PTL DEF Spec

(* Whatever is read, and whatever ws_data makes of it, the next recv has room *)
(* for at least one byte and its terminator.                                  *)
THEOREM RoomForRecv == Spec => []RecvHasRoom
<1>1. IInv => RecvHasRoom
  BY DEF IInv, BufInv, RecvHasRoom
<1> QED
  BY Initially, Inductive, <1>1, PTL DEF Spec

(* Every call of ws_data leaves the slot closed without descriptors, with its *)
(* client alone, or open with its peer: the outcomes module EventLoop takes.  *)
THEOREM Outcomes == Spec => []OutcomeOfWsData
<1>1. IInv => OutcomeOfWsData
  BY DEF IInv, SlotInv, OutcomeOfWsData
<1> QED
  BY Initially, Inductive, <1>1, PTL DEF Spec

-----------------------------------------------------------------------------
(* Where what the handshake acts on comes from.                               *)

(* How much of the stream has been read.                                      *)
Stream == client.request \o FramesOf(client)
Position == Len(Stream) - Len(unsent)
Told101 == Contains(toClient, Answer("101"))

(* What is not yet sent is the end of the stream.                             *)
RestInv ==
  /\ Len(unsent) <= Len(Stream)
  /\ \A i \in 1 .. Len(unsent) : unsent[i] = Stream[Len(Stream) - Len(unsent) + i]
TellInv == \E S : toClient \in Seq(S)

(* If every read ends with a line, the scan has whole lines before it, which  *)
(* are where they are in the stream, and leaves nothing for the next read.    *)
WholeLines ==
  /\ off = 0 /\ Len(buf) <= Position
  /\ LineEnds(buf, Len(buf)) /\ LineEnds(Stream, Position - Len(buf))
  /\ \A i \in 1 .. Len(buf) : buf[i] = Stream[Position - Len(buf) + i]
LinesInv ==
  /\ pc = "lines" => WholeLines
  /\ pc = "frames" => state \notin {"new", "http"}
  /\ pc = "idle" /\ state \in {"new", "http"} => buf = <<>> /\ LineEnds(Stream, Position)

(* Every field of the request and every state past "new" then has its line    *)
(* among those that came, and so have the backend's queries and the answer.   *)
FieldsCame(r) ==
  /\ r.version = 13 => Token.ver13 \in Came
  /\ r.key => Token.key \in Came
  /\ 1 \in r.want_upgrade => Token.upg \in Came
  /\ 2 \in r.want_upgrade => Token.conn \in Came
SourceInv ==
  /\ FieldsCame(request)
  /\ state \in {"http", "open"} \/ (pc = "lines" /\ state # "new") => Token.GET \in Came
  /\ queried > 0 \/ Told101 => Needed \subseteq Came

UpgradeInv == RestInv /\ TellInv /\ (client.cut = "lines" => LinesInv /\ SourceInv)

LEMMA StreamIsSeq ==
  ASSUME WireInv
  PROVE  Stream \in Seq(Nat) /\ Len(Stream) \in Nat /\ Len(unsent) \in Nat
<1>1. client.request \in Seq(Nat) /\ FramesOf(client) \in Seq(Nat)
  <2>1. Byte \subseteq Nat
    BY DEF Byte
  <2> QED
    BY <2>1, ClientsAssumption, SeqMonotonic DEF WireInv
<1> QED
  BY <1>1, ConcatProperties, LenProperties DEF Stream, WireInv

LEMMA CameIs ==
  Came = {SubSeq(Stream, i + 1, i + 2) : i \in {j \in 0 .. Position - 2 : LineEnds(Stream, j)}}
BY DEF Came, Stream, Position

(* What is read is the next part of the stream, and has come from then on.    *)
LEMMA ReadsStream ==
  ASSUME WireInv, RestInv, NEW k \in 1 .. Len(unsent), client' = client,
         unsent' = SubSeq(unsent, k + 1, Len(unsent))
  PROVE  /\ RestInv' /\ Stream' = Stream /\ Position' = Position + k /\ Position \in Nat
         /\ Came \subseteq Came'
         /\ \A i \in 1 .. k : unsent[i] = Stream[Position + i]
<1>1. /\ Stream \in Seq(Nat) /\ Len(Stream) \in Nat /\ Len(unsent) \in Nat
      /\ unsent \in Seq(Nat) /\ Stream' = Stream
  BY StreamIsSeq DEF WireInv, Stream
<1>2. /\ Len(unsent') = Len(unsent) - k
      /\ \A i \in 1 .. Len(unsent') : unsent'[i] = unsent[k + i]
  <2> DEFINE rest == SubSeq(unsent, k + 1, Len(unsent))
  <2>1. /\ Len(rest) = Len(unsent) + 1 - (k + 1)
        /\ \A i \in 1 .. Len(rest) : rest[i] = unsent[(k + 1) + i - 1]
    BY <1>1, PartOfSeq
  <2>2. unsent' = rest /\ k \in Int
    OBVIOUS
  <2> HIDE DEF rest
  <2>3. Len(rest) = Len(unsent) - k
    BY <1>1, <2>1, <2>2
  <2>4. \A i \in 1 .. Len(rest) : (k + 1) + i - 1 = k + i
    BY <2>2
  <2> QED
    BY <2>1, <2>2, <2>3, <2>4
<1>3. /\ k \in 1 .. Len(unsent) /\ Len(unsent) <= Len(Stream)
      /\ Len(unsent') \in Nat /\ Len(unsent') < Len(unsent)
  BY <1>1, <1>2 DEF RestInv
<1>4. Position \in Nat /\ Position' = Position + k
  <2>1. Position' = Len(Stream) - Len(unsent') /\ Position = Len(Stream) - Len(unsent)
    BY <1>1 DEF Position
  <2>2. PICK m, n, rest : m = Len(Stream) /\ n = Len(unsent) /\ rest = Len(unsent')
    OBVIOUS
  <2>3. m \in Nat /\ n \in Nat /\ k \in Nat /\ n <= m /\ rest = n - k
    BY <1>1, <1>2, <1>3, <2>2
  <2>4. m - n \in Nat /\ m - rest = (m - n) + k
    BY <2>3
  <2>5. Position' = m - rest /\ Position = m - n
    BY <2>1, <2>2
  <2> QED
    BY <2>4, <2>5, Zenon
<1>5. RestInv'
  <2>1. ASSUME NEW i \in 1 .. Len(unsent')
        PROVE  unsent'[i] = Stream[Len(Stream) - Len(unsent') + i]
    <3>1. k + i \in 1 .. Len(unsent) /\ unsent'[i] = unsent[k + i]
      BY <1>1, <1>2, <1>3
    <3>2. unsent[k + i] = Stream[Len(Stream) - Len(unsent) + (k + i)]
      BY <3>1 DEF RestInv
    <3>3. Len(Stream) - Len(unsent) + (k + i) = Len(Stream) - Len(unsent') + i
      BY <1>1, <1>2, <1>3
    <3> QED
      BY <3>1, <3>2, <3>3
  <2>2. Len(unsent') <= Len(Stream')
    BY <1>1, <1>3
  <2> QED
    BY <1>1, <2>1, <2>2, Zenon DEF RestInv
<1>6. Came \subseteq Came'
  <2>1. Came' = {SubSeq(Stream, i + 1, i + 2) : i \in {j \in 0 .. Position' - 2 : LineEnds(Stream, j)}}
    <3>1. Came' = {SubSeq(Stream', i + 1, i + 2) : i \in {j \in 0 .. Position' - 2 : LineEnds(Stream', j)}}
      BY DEF Came, Stream, Position, LineEnds
    <3> QED
      BY <1>1, <3>1
  <2>2. 0 .. Position - 2 \subseteq 0 .. Position' - 2
    BY <1>3, <1>4
  <2> QED
    BY <2>1, <2>2, CameIs
<1>7. ASSUME NEW i \in 1 .. k
      PROVE  unsent[i] = Stream[Position + i]
  <2>1. i \in 1 .. Len(unsent)
    BY <1>1, <1>3
  <2> QED
    BY <2>1 DEF RestInv, Position
<1> QED
  BY <1>1, <1>4, <1>5, <1>6, <1>7

LEMMA CameUnchanged ==
  ASSUME UNCHANGED wire
  PROVE  Came' = Came /\ Stream' = Stream /\ Position' = Position
BY DEF wire, Came, Stream, Position, LineEnds

(* A refusal, a pong and a close frame are not the answer to an upgrade.      *)
LEMMA OthersTold ==
  ASSUME NEW S, toClient \in Seq(S), NEW t, t # Answer("101"), toClient' = Append(toClient, t)
  PROVE  (\E T : toClient' \in Seq(T)) /\ (Told101' <=> Told101)
<1> DEFINE T == S \cup {t}
<1>1. toClient \in Seq(T) /\ t \in T
  BY SeqMonotonic
<1>2. /\ toClient' \in Seq(T) /\ Len(toClient') = Len(toClient) + 1 /\ Len(toClient) \in Nat
      /\ \A i \in 1 .. Len(toClient) : toClient'[i] = toClient[i]
      /\ toClient'[Len(toClient) + 1] = t
  <2> HIDE DEF T
  <2> QED
    BY <1>1, AppendProperties, LenProperties
<1>3. Told101' <=> \E i \in 1 .. Len(toClient) + 1 : toClient'[i] = Answer("101")
  BY <1>2 DEF Told101, Contains
<1>4. Told101 <=> \E i \in 1 .. Len(toClient) : toClient[i] = Answer("101")
  BY DEF Told101, Contains
<1> QED
  BY <1>2, <1>3, <1>4

LEMMA TellingKeeps ==
  ASSUME NEW S, toClient \in Seq(S), NEW reason \in {"", "reason", "426", "500"},
         toClient' \in {toClient, toClient \o Told(reason)}
  PROVE  (\E T : toClient' \in Seq(T)) /\ (Told101' <=> Told101)
<1>1. CASE toClient' = toClient
  BY <1>1 DEF Told101
<1>2. CASE toClient' = toClient \o Told(reason) /\ Told(reason) = <<>>
  BY <1>2, ConcatEmptySeq DEF Told101
<1>3. ASSUME NEW t, t # Answer("101"), toClient' = toClient \o <<t>>
      PROVE  (\E T : toClient' \in Seq(T)) /\ (Told101' <=> Told101)
  <2>1. toClient' = Append(toClient, t)
    <3> DEFINE T == S \cup {t}
    <3>1. toClient \in Seq(T) /\ t \in T
      BY SeqMonotonic
    <3> HIDE DEF T
    <3> QED
      BY <1>3, <3>1, AppendIsConcat
  <2> QED
    BY <1>3, <2>1, OthersTold
<1>4. Told(reason) = <<>> \/ \E t : Told(reason) = <<t>> /\ t # Answer("101")
  <2>1. Frame("close", ReasonText).http = "" /\ Answer("101").http = "101"
    BY DEF Frame, Answer
  <2>2. \A r \in {"426", "500"} : Answer(r).http = r
    BY DEF Answer
  <2> QED
    BY <2>1, <2>2 DEF Told
<1> QED
  BY <1>1, <1>2, <1>3, <1>4

(* A line is taken from the front.                                            *)
LEMMA LineTaken ==
  ASSUME BufInv, LineAt, RemoveLine(off)
  PROVE  /\ off' = 0 /\ pc' = "lines" /\ Break \in off + 1 .. Len(buf) - 1
         /\ Len(buf') = Len(buf) - (Break + 1)
         /\ \A i \in 1 .. Len(buf') : buf'[i] = buf[Break + 1 + i]
<1>1. Break \in off + 1 .. Len(buf) - 1 /\ off \in Nat /\ Len(buf) \in Nat /\ buf \in Seq(Nat)
  BY FirstBreak, LenProperties DEF BufInv, LineAt
<1> DEFINE terminated == [buf EXCEPT ![Break] = NUL]
<1>2. /\ terminated \in Seq(Nat) /\ Len(terminated) = Len(buf)
      /\ \A j \in 1 .. Len(buf) : j # Break => terminated[j] = buf[j]
  <2>1. NUL \in Nat /\ Break \in 1 .. Len(buf)
    BY <1>1 DEF NUL
  <2>2. terminated \in Seq(Nat) /\ Len(terminated) = Len(buf)
    BY <1>1, <2>1, ExceptSeq
  <2>3. \A j \in 1 .. Len(buf) : j # Break => terminated[j] = buf[j]
    BY <1>1, <2>1, LenProperties, ElementOfSeq
  <2> QED
    BY <2>2, <2>3
<1>3. buf' = SubSeq(terminated, Break + 2, Len(buf)) /\ off' = 0 /\ pc' = "lines"
  <2>1. Break + 2 - (off - off) = Break + 2 /\ Len(buf) - (off - off) = Len(buf)
    BY <1>1
  <2> QED
    BY <2>1, Zenon DEF RemoveLine, LineAt
<1>4. /\ Len(SubSeq(terminated, Break + 2, Len(buf))) = Len(buf) + 1 - (Break + 2)
      /\ \A i \in 1 .. Len(SubSeq(terminated, Break + 2, Len(buf))) :
            SubSeq(terminated, Break + 2, Len(buf))[i] = terminated[(Break + 2) + i - 1]
  <2>1. Break + 2 \in Nat \ {0} /\ Len(buf) \in Int /\ Len(buf) <= Len(terminated) /\ Break + 2 <= Len(buf) + 1
    BY <1>1, <1>2
  <2> HIDE DEF terminated
  <2> QED
    BY <1>2, <2>1, PartOfSeq
<1> HIDE DEF terminated
<1>5. Len(buf') = Len(buf) - (Break + 1)
  BY <1>1, <1>3, <1>4
<1>6. ASSUME NEW i \in 1 .. Len(buf') PROVE buf'[i] = buf[Break + 1 + i]
  <2>1. (Break + 2) + i - 1 = Break + 1 + i /\ Break + 1 + i \in 1 .. Len(buf) /\ Break + 1 + i # Break
    BY <1>1, <1>5
  <2> QED
    BY <1>2, <1>3, <1>4, <2>1
<1> QED
  BY <1>1, <1>3, <1>5, <1>6

(* A whole line that is removed leaves whole lines.                           *)
LEMMA LinesGoOn ==
  ASSUME IInv, RestInv, WholeLines, LineAt, RemoveLine(off)
  PROVE  WholeLines'
<1>1. BufInv /\ WireInv /\ pc = "lines" /\ off = 0
  BY DEF IInv, LineAt, WholeLines
<1>2. /\ off' = 0 /\ Break \in off + 1 .. Len(buf) - 1
      /\ Len(buf') = Len(buf) - (Break + 1)
      /\ \A i \in 1 .. Len(buf') : buf'[i] = buf[Break + 1 + i]
  BY <1>1, LineTaken
<1>3. Position' = Position /\ Stream' = Stream
  BY CameUnchanged DEF RemoveLine
<1>4. /\ Len(buf) <= Position /\ LineEnds(buf, Len(buf))
      /\ \A i \in 1 .. Len(buf) : buf[i] = Stream[Position - Len(buf) + i]
  BY DEF WholeLines
<1>5. buf[Break] = CR /\ buf[Break + 1] = LF
  BY <1>1, FirstBreak DEF LineAt, Breaks
<1>numbers. /\ Break \in Nat /\ Break > 0 /\ Break + 1 <= Len(buf) /\ Len(buf) \in Nat /\ Position \in Int
            /\ Len(buf) <= Position /\ Len(buf') = Len(buf) - (Break + 1)
  <2>1. Position \in Int /\ Len(buf) \in Nat
    BY <1>1, StreamIsSeq, LenProperties DEF BufInv, Position
  <2> QED
    BY <1>1, <1>2, <1>4, <2>1
<1>6. LineEnds(Stream, Position - Len(buf'))
  <2> DEFINE n == Position - Len(buf')
  <2>1. n = Position - Len(buf) + (Break + 1) /\ n - 1 = Position - Len(buf) + Break /\ n > 1
    BY <1>numbers
  <2>2. Stream[n] = LF /\ Stream[n - 1] = CR
    <3>1. Break \in 1 .. Len(buf) /\ Break + 1 \in 1 .. Len(buf)
      BY <1>numbers
    <3> HIDE DEF n
    <3> QED
      BY <1>4, <1>5, <2>1, <3>1
  <2> HIDE DEF n
  <2>3. LineEnds(Stream, n)
    BY <2>1, <2>2 DEF LineEnds
  <2> QED
    BY <2>3 DEF n
<1>7. LineEnds(buf', Len(buf'))
  <2> DEFINE m == Len(buf')
             last == Len(buf)
  <2>1. /\ m \in Nat /\ last = Break + 1 + m /\ last > 1
        /\ m > 1 => Break + 1 + (m - 1) = last - 1 /\ m - 1 \in 1 .. m /\ m \in 1 .. m
        /\ m = 1 => Break + 1 = last - 1
    BY <1>numbers
  <2>2. buf[last - 1] = CR /\ buf[last] = LF /\ \A i \in 1 .. m : buf'[i] = buf[Break + 1 + i]
    <3>1. LineEnds(buf, last) /\ last # 0
      BY <1>4, <2>1
    <3> QED
      BY <1>2, <3>1 DEF LineEnds
  <2> HIDE DEF m, last
  <2>3. m # 1
    BY <1>5, <2>1, <2>2 DEF CR, LF
  <2>4. m > 1 => buf'[m - 1] = CR /\ buf'[m] = LF
    BY <2>1, <2>2
  <2>5. m = 0 \/ m > 1
    BY <2>1, <2>3
  <2>6. LineEnds(buf', m)
    BY <2>4, <2>5 DEF LineEnds
  <2> QED
    BY <2>6 DEF m
<1>8. ASSUME NEW i \in 1 .. Len(buf')
      PROVE  buf'[i] = Stream[Position - Len(buf') + i]
  <2>1. /\ Break + 1 + i \in 1 .. Len(buf)
        /\ Position - Len(buf) + (Break + 1 + i) = Position - Len(buf') + i
    BY <1>numbers
  <2> QED
    BY <1>2, <1>4, <2>1
<1>9. Len(buf') <= Position
  BY <1>numbers
<1> QED
  BY <1>2, <1>3, <1>6, <1>7, <1>8, <1>9 DEF WholeLines

(* Whole lines all have an end that the scan finds.                           *)
LEMMA LinesDone ==
  ASSUME BufInv, WholeLines, Breaks = {}
  PROVE  buf = <<>> /\ LineEnds(Stream, Position - 0)
<1>1. off = 0 /\ LineEnds(buf, Len(buf)) /\ Len(buf) \in Nat /\ buf \in Seq(Nat)
  BY LenProperties DEF WholeLines, BufInv
<1>2. Len(buf) = 0
  <2>1. SUFFICES ASSUME Len(buf) # 0 PROVE FALSE
    OBVIOUS
  <2>2. Len(buf) > 1 /\ buf[Len(buf) - 1] = CR /\ buf[Len(buf)] = LF
    BY <1>1, <2>1 DEF LineEnds
  <2> DEFINE i == Len(buf) - 1
  <2>3. i \in off + 1 .. Len(buf) - 1 /\ i + 1 = Len(buf)
    BY <1>1, <2>2
  <2>4. i \in Breaks
    BY <2>2, <2>3 DEF Breaks
  <2> QED
    BY <2>4
<1>3. buf = <<>>
  BY <1>1, <1>2, EmptySeq
<1> QED
  BY <1>2, <1>3 DEF WholeLines

(* What a whole line begins with has come.                                    *)
LEMMA LineHasCome ==
  ASSUME IInv, WholeLines, LineAt, Break > 2
  PROVE  <<buf[1], buf[2]>> \in Came
<1>1. BufInv /\ WireInv /\ off = 0 /\ buf \in Seq(Nat) /\ Len(buf) \in Nat
  BY LenProperties DEF IInv, BufInv, WholeLines
<1>2. Break \in off + 1 .. Len(buf) - 1
  BY <1>1, FirstBreak DEF LineAt
<1>3. Stream \in Seq(Nat) /\ Len(Stream) \in Nat /\ Len(unsent) \in Nat
  BY <1>1, StreamIsSeq
<1> DEFINE i == Position - Len(buf)
<1>4. i \in 0 .. Position - 2 /\ i + 2 <= Len(Stream) /\ i + 1 \in Nat \ {0} /\ i + 2 \in Int
  <2>1. Len(buf) <= Position
    BY DEF WholeLines
  <2> QED
    BY <1>1, <1>2, <1>3, <2>1 DEF Position
<1>5. LineEnds(Stream, i) /\ Stream[i + 1] = buf[1] /\ Stream[i + 2] = buf[2]
  <2>1. 1 \in 1 .. Len(buf) /\ 2 \in 1 .. Len(buf)
    BY <1>1, <1>2
  <2> QED
    BY <2>1 DEF WholeLines
<1> HIDE DEF i
<1>6. SubSeq(Stream, i + 1, i + 2) = <<buf[1], buf[2]>>
  <2> DEFINE part == SubSeq(Stream, i + 1, i + 2)
             two == <<buf[1], buf[2]>>
  <2>1. /\ part \in Seq(Nat) /\ Len(part) = (i + 2) + 1 - (i + 1)
        /\ \A n \in 1 .. Len(part) : part[n] = Stream[(i + 1) + n - 1]
    <3>1. i + 1 <= (i + 2) + 1
      BY <1>4
    <3> QED
      BY <1>3, <1>4, <3>1, PartOfSeq
  <2>2. Len(part) = 2
    BY <1>4, <2>1
  <2>3. part[1] = buf[1] /\ part[2] = buf[2]
    <3>1. (i + 1) + 1 - 1 = i + 1 /\ (i + 1) + 2 - 1 = i + 2
      BY <1>4
    <3> QED
      BY <1>5, <2>1, <2>2, <3>1
  <2>4. buf[1] \in Nat /\ buf[2] \in Nat
    BY <1>1, <1>2, ElementOfSeq
  <2>5. two \in Seq(Nat) /\ Len(two) = 2 /\ two[1] = buf[1] /\ two[2] = buf[2]
    BY <2>4
  <2> HIDE DEF part, two
  <2>6. \A n \in 1 .. 2 : part[n] = two[n]
    BY <2>3, <2>5
  <2> QED
    BY <2>1, <2>2, <2>5, <2>6, SeqEqual DEF part, two
<1> QED
  BY <1>4, <1>5, <1>6, CameIs

LEMMA TokenHasCome ==
  ASSUME IInv, WholeLines, LineAt, NEW token \in Needed, LineIs(token)
  PROVE  token \in Came
<1>1. token = <<token[1], token[2]>>
  BY DEF Needed, Token
<1>2. Break > 2 /\ buf[1] = token[1] /\ buf[2] = token[2]
  BY DEF LineIs
<1> QED
  BY <1>1, <1>2, LineHasCome

LEMMA UpgradeInitially == Init => UpgradeInv
<1> SUFFICES ASSUME Init PROVE UpgradeInv
  OBVIOUS
<1>1. unsent = Stream /\ Len(Stream) \in Nat
  BY Initially, StreamIsSeq DEF Init, Stream, IInv
<1>2. RestInv /\ Position = 0
  BY <1>1 DEF RestInv, Position
<1>3. LinesInv
  BY <1>2 DEF Init, LinesInv, LineEnds
<1>4. toClient \in Seq({}) /\ ~Told101 /\ queried = 0
  BY DEF Init, Told101, Contains
<1>5. SourceInv
  <2>1. FieldsCame(NoRequest)
    BY DEF FieldsCame, NoRequest
  <2> QED
    BY <1>4, <2>1 DEF Init, SourceInv
<1> QED
  BY <1>2, <1>3, <1>4, <1>5 DEF UpgradeInv, TellInv

(* Nothing that has come is taken back.                                       *)
LEMMA FieldsStay ==
  ASSUME FieldsCame(request), request' = request, Came \subseteq Came'
  PROVE  FieldsCame(request)'
BY DEF FieldsCame

LEMMA ReceiveUpgrade ==
  ASSUME IInv, UpgradeInv, Receive
  PROVE  UpgradeInv'
<1>1. PICK k \in 1 .. MaySend :
        /\ k <= BufSize - off - 1 /\ CutsAt(k)
        /\ buf' = buf \o SubSeq(unsent, 1, k)
        /\ unsent' = SubSeq(unsent, k + 1, Len(unsent))
  BY Zenon DEF Receive
<1>2. /\ k \in 1 .. Len(unsent) /\ k \in Nat /\ Len(unsent) \in Nat /\ unsent \in Seq(Nat)
      /\ Len(buf) = off /\ WireInv /\ state \in {"new", "http", "open"}
  BY SendsUnsent, LenProperties DEF IInv, WireInv, BufInv, Receive, SlotInv
<1>3. /\ pc = "idle" /\ ws_fd /\ pc' = IF state = "open" THEN "frames" ELSE "lines"
      /\ off' = IF state = "open" THEN Len(buf') ELSE off
      /\ UNCHANGED <<state, request, queried, client, toClient>>
  BY DEF Receive, slot, asked
<1>4. /\ RestInv' /\ Stream' = Stream /\ Position' = Position + k /\ Position \in Nat
      /\ Came \subseteq Came'
      /\ \A i \in 1 .. k : unsent[i] = Stream[Position + i]
  BY <1>1, <1>2, <1>3, ReadsStream DEF UpgradeInv
<1>5. TellInv'
  BY <1>3 DEF UpgradeInv, TellInv
<1>6. ASSUME client.cut = "lines" PROVE LinesInv' /\ SourceInv'
  <2>1. LinesInv /\ SourceInv
    BY <1>6 DEF UpgradeInv
  <2>2. SourceInv'
    <3>1. FieldsCame(request)'
      BY <1>3, <1>4, <2>1, FieldsStay DEF SourceInv
    <3> QED
      BY <1>2, <1>3, <1>4, <2>1, <3>1 DEF SourceInv, Told101
  <2>3. CASE state = "open"
    BY <1>3, <2>2, <2>3 DEF LinesInv
  <2>4. CASE state # "open"
    <3>1. buf = <<>> /\ LineEnds(Stream, Position) /\ LineEnds(unsent, k) /\ off' = 0 /\ pc' = "lines"
      <4>1. buf = <<>> /\ LineEnds(Stream, Position)
        BY <1>2, <1>3, <2>1, <2>4 DEF LinesInv
      <4>2. LineEnds(unsent, k)
        BY <1>1, <1>6, <2>4 DEF CutsAt
      <4>3. off = 0
        BY <1>2, <4>1
      <4> QED
        BY <1>3, <2>4, <4>1, <4>2, <4>3
    <3> DEFINE read == SubSeq(unsent, 1, k)
    <3>2. /\ read \in Seq(Nat) /\ Len(read) = k
          /\ \A i \in 1 .. Len(read) : read[i] = unsent[1 + i - 1]
      BY <1>2, PartOfSeq
    <3>3. buf' = <<>> \o read
      BY <1>1, <3>1
    <3> HIDE DEF read
    <3>4. buf' = read
      BY <3>2, <3>3, ConcatEmptySeq
    <3>5. Len(buf') = k /\ \A i \in 1 .. k : buf'[i] = unsent[i]
      BY <1>2, <3>2, <3>4
    <3>6. LineEnds(buf', k)
      BY <1>2, <3>1, <3>5 DEF LineEnds
    <3>7. Position' - k = Position
      BY <1>2, <1>4
    <3>8. WholeLines'
      <4>1. k <= Position'
        BY <1>2, <1>4
      <4> QED
        BY <1>4, <3>1, <3>5, <3>6, <3>7, <4>1, Zenon DEF WholeLines
    <3> QED
      BY <2>2, <3>1, <3>8 DEF LinesInv
  <2> QED
    BY <2>3, <2>4
<1> QED
  BY <1>3, <1>4, <1>5, <1>6 DEF UpgradeInv

LEMMA HeaderHasCome ==
  ASSUME IInv, WholeLines, FieldsCame(request), HeaderLine
  PROVE  FieldsCame(WithHeader)
<1>1. request \in Requests /\ LineAt
  BY DEF HeaderLine, IInv, SlotInv
<1>2. /\ LineIs(Token.ver13) => Token.ver13 \in Came
      /\ LineIs(Token.key) => Token.key \in Came
      /\ LineIs(Token.upg) => Token.upg \in Came
      /\ LineIs(Token.conn) => Token.conn \in Came
  BY <1>1, TokenHasCome DEF Needed
<1>3. ASSUME LineIs(Token.ver13), WithHeader = [request EXCEPT !.version = 13]
      PROVE  FieldsCame(WithHeader)
  BY <1>1, <1>2, <1>3 DEF FieldsCame, Requests
<1>4. ASSUME WithHeader = [request EXCEPT !.version = 8]
      PROVE  FieldsCame(WithHeader)
  BY <1>1, <1>4 DEF FieldsCame, Requests
<1>5. ASSUME LineIs(Token.key), WithHeader = [request EXCEPT !.key = TRUE]
      PROVE  FieldsCame(WithHeader)
  BY <1>1, <1>2, <1>5 DEF FieldsCame, Requests
<1>6. ASSUME LineIs(Token.upg), WithHeader = [request EXCEPT !.want_upgrade = @ \cup {1}]
      PROVE  FieldsCame(WithHeader)
  BY <1>1, <1>2, <1>6 DEF FieldsCame, Requests
<1>7. ASSUME LineIs(Token.conn), WithHeader = [request EXCEPT !.want_upgrade = @ \cup {2}]
      PROVE  FieldsCame(WithHeader)
  BY <1>1, <1>2, <1>7 DEF FieldsCame, Requests
<1>8. ASSUME WithHeader = [request EXCEPT !.protocols = TRUE]
      PROVE  FieldsCame(WithHeader)
  BY <1>1, <1>8 DEF FieldsCame, Requests
<1>9. ASSUME WithHeader = [request EXCEPT !.headers = @ + 1]
      PROVE  FieldsCame(WithHeader)
  BY <1>1, <1>9 DEF FieldsCame, Requests
<1> QED
  BY <1>3, <1>4, <1>5, <1>6, <1>7, <1>8, <1>9, HeaderChangesOne

LEMMA LinesUpgrade ==
  ASSUME IInv, UpgradeInv,
         \/ RequestLine \/ Header \/ HeaderRefused
         \/ Upgrade \/ UpgradeFails \/ UpgradeVersion \/ UpgradeIgnored
  PROVE  UpgradeInv'
<1>1. LineAt /\ pc = "lines" /\ Breaks # {}
  BY DEF RequestLine, Header, HeaderRefused, Upgrade, UpgradeFails, UpgradeVersion,
         UpgradeIgnored, HeaderLine, BlankLine, LineAt
<1>2. PICK offset \in {0, off} : RemoveLine(offset)
  BY DEF RequestLine, Header, HeaderRefused, Upgrade, UpgradeFails, UpgradeVersion,
         UpgradeIgnored, LineDone, LineCloses
<1>3. /\ Came' = Came /\ Stream' = Stream /\ Position' = Position
      /\ unsent' = unsent /\ pc' = "lines" /\ client' = client
  BY <1>1, <1>2, CameUnchanged DEF RemoveLine, wire
<1>4. RestInv'
  BY <1>3 DEF UpgradeInv, RestInv
<1>5. PICK S : toClient \in Seq(S)
  BY DEF UpgradeInv, TellInv
<1>6. ASSUME client.cut = "lines"
      PROVE  /\ LinesInv' /\ WholeLines /\ FieldsCame(request) /\ FieldsCame(NoRequest)
             /\ state # "new" => Token.GET \in Came
             /\ queried > 0 \/ Told101 => Needed \subseteq Came
             /\ state # "new" /\ Complete => Needed \subseteq Came
  <2>1. LinesInv /\ SourceInv /\ WholeLines
    BY <1>1, <1>6 DEF UpgradeInv, LinesInv
  <2>2. RemoveLine(off)
    BY <1>2, <2>1 DEF WholeLines
  <2>3. LinesInv'
    BY <1>1, <1>3, <2>1, <2>2, LinesGoOn DEF UpgradeInv, LinesInv
  <2>4. FieldsCame(NoRequest)
    BY DEF FieldsCame, NoRequest
  <2>5. state # "new" => Token.GET \in Came
    BY <1>1, <2>1 DEF SourceInv
  <2> QED
    BY <2>1, <2>3, <2>4, <2>5 DEF SourceInv, FieldsCame, Complete, Needed
<1>7. ASSUME TellInv',
             client.cut = "lines" =>
               /\ FieldsCame(request') /\ (state' # "new" => Token.GET \in Came)
               /\ queried' > 0 \/ Told101' => Needed \subseteq Came
      PROVE  UpgradeInv'
  <2>1. ASSUME client.cut = "lines" PROVE SourceInv'
    <3>1. FieldsCame(request)'
      BY <1>3, <1>7, <2>1 DEF FieldsCame
    <3> QED
      BY <1>3, <1>7, <2>1, <3>1 DEF SourceInv
  <2> QED
    BY <1>3, <1>4, <1>6, <1>7, <2>1 DEF UpgradeInv
<1>8. CASE RequestLine
  <2>1. /\ queried' = queried /\ toClient' = toClient
        /\ request' = [request EXCEPT !.path = TRUE] \/ request' = request
        /\ state' # "new" => LineIs(Token.GET)
    BY <1>8 DEF RequestLine, asked
  <2>2. FieldsCame(request) => FieldsCame(request')
    BY <2>1 DEF FieldsCame, IInv, SlotInv, Requests
  <2>3. client.cut = "lines" /\ state' # "new" => Token.GET \in Came
    BY <1>1, <1>6, <2>1, TokenHasCome DEF Needed
  <2> QED
    BY <1>5, <1>6, <1>7, <2>1, <2>2, <2>3 DEF Told101, TellInv
<1>9. CASE Header
  <2>1. queried' = queried /\ toClient' = toClient /\ state' = state /\ request' = WithHeader /\ HeaderLine
    BY <1>9 DEF Header, asked
  <2>2. client.cut = "lines" => FieldsCame(request')
    BY <1>6, <2>1, HeaderHasCome
  <2> QED
    BY <1>5, <1>6, <1>7, <2>1, <2>2 DEF Told101, TellInv
<1>10. CASE HeaderRefused \/ UpgradeVersion
  <2>1. PICK reason \in {"500", "426"} : ws_close(reason) /\ queried' = queried
    BY <1>10 DEF HeaderRefused, UpgradeVersion, LineCloses, asked
  <2>2. state # "new"
    BY <1>10 DEF HeaderRefused, UpgradeVersion, HeaderLine, BlankLine
  <2>3. (\E T : toClient' \in Seq(T)) /\ (Told101' <=> Told101)
    BY <1>5, <2>1, TellingKeeps DEF ws_close
  <2>4. request' = NoRequest
    BY <2>1 DEF ws_close
  <2> QED
    BY <1>6, <1>7, <2>1, <2>2, <2>3, <2>4 DEF TellInv
<1>11. CASE Upgrade
  <2>1. /\ state # "new" /\ Complete /\ request' = request
        /\ toClient' = Append(toClient, Answer("101"))
    BY <1>11 DEF Upgrade, BlankLine
  <2>2. \E T : toClient' \in Seq(T)
    <3> DEFINE T == S \cup {Answer("101")}
    <3>1. toClient \in Seq(T) /\ Answer("101") \in T
      BY <1>5, SeqMonotonic
    <3> HIDE DEF T
    <3> QED
      BY <2>1, <3>1, AppendProperties
  <2> QED
    BY <1>6, <1>7, <2>1, <2>2 DEF TellInv
<1>12. CASE UpgradeFails
  <2>1. state # "new" /\ Complete /\ request' = NoRequest
    BY <1>12 DEF UpgradeFails, BlankLine
  <2>2. PICK reason \in {"", "500"} : toClient' \in {toClient, toClient \o Told(reason)}
    BY <1>12 DEF UpgradeFails
  <2>3. (\E T : toClient' \in Seq(T)) /\ (Told101' <=> Told101)
    BY <1>5, <2>2, TellingKeeps
  <2> QED
    BY <1>6, <1>7, <2>1, <2>3 DEF TellInv
<1>13. CASE UpgradeIgnored
  <2>1. UNCHANGED <<state, request, queried, toClient>>
    BY <1>13 DEF UpgradeIgnored, slot, asked
  <2> QED
    BY <1>5, <1>6, <1>7, <2>1 DEF Told101, TellInv
<1> QED
  BY <1>8, <1>9, <1>10, <1>11, <1>12, <1>13

LEMMA CrashUpgrade ==
  ASSUME IInv, UpgradeInv, QueryCrashes
  PROVE  UpgradeInv'
<1>1. /\ pc = "lines" /\ state # "new" /\ Complete /\ pc' = "crashed" /\ UNCHANGED wire
      /\ UNCHANGED <<state, request, toClient>>
  BY DEF QueryCrashes, BlankLine, LineAt
<1>2. Came' = Came /\ unsent' = unsent /\ client' = client /\ Stream' = Stream
  BY <1>1, CameUnchanged DEF wire
<1>3. RestInv' /\ TellInv'
  BY <1>1, <1>2 DEF UpgradeInv, RestInv, TellInv
<1>4. ASSUME client.cut = "lines" PROVE LinesInv' /\ SourceInv'
  <2>1. SourceInv /\ Token.GET \in Came /\ Needed \subseteq Came
    BY <1>1, <1>4 DEF UpgradeInv, SourceInv, FieldsCame, Complete, Needed
  <2>2. FieldsCame(request)'
    BY <1>1, <1>2, <2>1 DEF SourceInv, FieldsCame
  <2> QED
    BY <1>1, <1>2, <2>1, <2>2 DEF LinesInv, SourceInv
<1> QED
  BY <1>2, <1>3, <1>4 DEF UpgradeInv

(* After the lines nothing the upgrade needs changes any more, and no 101 is  *)
(* told.                                                                      *)
LEMMA LaterUpgrade ==
  ASSUME UpgradeInv, UNCHANGED wire, queried' = queried, pc' # "lines",
         client.cut = "lines" => LinesInv',
         (\E T : toClient' \in Seq(T)) /\ (Told101' <=> Told101),
         \/ state' = state /\ request' = request
         \/ state' = "closed" /\ request' = NoRequest
  PROVE  UpgradeInv'
<1>1. Came' = Came /\ Stream' = Stream /\ unsent' = unsent /\ client' = client
  BY CameUnchanged DEF wire
<1>2. RestInv' /\ TellInv'
  BY <1>1 DEF UpgradeInv, RestInv, TellInv
<1>3. ASSUME client.cut = "lines" PROVE SourceInv'
  <2>1. SourceInv
    BY <1>3 DEF UpgradeInv
  <2>2. FieldsCame(request)'
    BY <1>1, <2>1 DEF SourceInv, FieldsCame, NoRequest
  <2>3. state' \in {"http", "open"} => Token.GET \in Came
    BY <2>1 DEF SourceInv
  <2> QED
    BY <1>1, <2>1, <2>2, <2>3 DEF SourceInv
<1> QED
  BY <1>1, <1>2, <1>3 DEF UpgradeInv

LEMMA FramesUpgrade ==
  ASSUME IInv, UpgradeInv, Forward \/ ForwardFails \/ SendPong \/ IgnorePong \/ FrameEnds
  PROVE  UpgradeInv'
<1>1. pc = "frames" /\ (client.cut = "lines" => state \notin {"new", "http"})
  BY DEF Forward, ForwardFails, SendPong, IgnorePong, FrameEnds, FrameAt, UpgradeInv, LinesInv
<1>2. PICK S : toClient \in Seq(S)
  BY DEF UpgradeInv, TellInv
<1>3. CASE Forward \/ SendPong \/ IgnorePong
  <2>1. UNCHANGED <<slot, pc, wire>>
    BY <1>3 DEF Forward, SendPong, IgnorePong, FrameDone
  <2>2. toClient' = toClient \/ toClient' = Append(toClient, Frame("pong", Payload(buf)))
    BY <1>3 DEF Forward, SendPong, IgnorePong
  <2>3. Frame("pong", Payload(buf)) # Answer("101")
    <3>1. Frame("pong", Payload(buf)).http = "" /\ Answer("101").http = "101"
      BY DEF Frame, Answer
    <3> QED
      BY <3>1
  <2>4. (\E T : toClient' \in Seq(T)) /\ (Told101' <=> Told101)
    <3>1. CASE toClient' = toClient
      BY <1>2, <3>1 DEF Told101
    <3>2. CASE toClient' = Append(toClient, Frame("pong", Payload(buf)))
      BY <1>2, <2>3, <3>2, OthersTold
    <3> QED
      BY <2>2, <3>1, <3>2
  <2>5. /\ UNCHANGED wire /\ queried' = queried /\ pc' = "frames"
        /\ state' = state /\ request' = request
    BY <1>1, <2>1 DEF slot, asked
  <2>6. client.cut = "lines" => LinesInv'
    BY <1>1, <2>5 DEF LinesInv
  <2> QED
    BY <2>4, <2>5, <2>6, LaterUpgrade
<1>4. CASE ForwardFails \/ FrameEnds
  <2>1. FrameCloses("reason")
    BY <1>4 DEF ForwardFails, FrameEnds
  <2>2. (\E T : toClient' \in Seq(T)) /\ (Told101' <=> Told101)
    BY <1>2, <2>1, TellingKeeps DEF FrameCloses, ws_close
  <2>3. /\ UNCHANGED wire /\ queried' = queried /\ pc' = "frames"
        /\ state' = "closed" /\ request' = NoRequest
    BY <1>1, <2>1 DEF FrameCloses, ws_close, asked
  <2>4. LinesInv'
    BY <2>3 DEF LinesInv
  <2> QED
    BY <2>2, <2>3, <2>4, LaterUpgrade
<1> QED
  BY <1>3, <1>4

LEMMA RoomUpgrade ==
  ASSUME IInv, UpgradeInv, NEW offset, NEW data, CheckRoom(offset, data),
         client.cut = "lines" /\ state \in {"new", "http"} => data = <<>> /\ LineEnds(Stream, Position)
  PROVE  UpgradeInv'
<1>1. PICK S : toClient \in Seq(S)
  BY DEF UpgradeInv, TellInv
<1>2. UNCHANGED wire /\ queried' = queried /\ pc' = "idle" /\ Stream' = Stream /\ Position' = Position
  BY CameUnchanged DEF CheckRoom, asked
<1>3. CASE BufSize - offset < 2
  <2>1. ws_close("reason")
    BY <1>3 DEF CheckRoom
  <2>2. (\E T : toClient' \in Seq(T)) /\ (Told101' <=> Told101)
    BY <1>1, <2>1, TellingKeeps DEF ws_close
  <2>3. state' = "closed" /\ request' = NoRequest
    BY <2>1 DEF ws_close
  <2>4. LinesInv'
    BY <1>2, <2>3 DEF LinesInv
  <2> QED
    BY <1>2, <2>2, <2>3, <2>4, LaterUpgrade
<1>4. CASE ~(BufSize - offset < 2)
  <2>1. buf' = data /\ UNCHANGED <<state, request, toClient>>
    BY <1>4 DEF CheckRoom
  <2>2. (\E T : toClient' \in Seq(T)) /\ (Told101' <=> Told101)
    BY <1>1, <2>1 DEF Told101
  <2>3. client.cut = "lines" => LinesInv'
    BY <1>2, <2>1 DEF LinesInv
  <2> QED
    BY <1>2, <2>1, <2>2, <2>3, LaterUpgrade
<1> QED
  BY <1>3, <1>4

LEMMA EndsUpgrade ==
  ASSUME IInv, UpgradeInv, EndOfLines \/ EndOfFrames
  PROVE  UpgradeInv'
<1>1. CASE EndOfLines
  <2> DEFINE left == Len(buf) - off
             data == SubSeq(buf, 1, left)
  <2>1. CheckRoom(left, data)
    BY <1>1 DEF EndOfLines
  <2>2. ASSUME client.cut = "lines" PROVE data = <<>> /\ LineEnds(Stream, Position)
    <3>1. WholeLines /\ Breaks = {} /\ BufInv /\ WireInv
      BY <1>1, <2>2 DEF EndOfLines, UpgradeInv, LinesInv, IInv
    <3>2. buf = <<>> /\ LineEnds(Stream, Position - 0) /\ off = 0
      BY <3>1, LinesDone DEF WholeLines
    <3>3. Position - 0 = Position
      BY <3>1, StreamIsSeq DEF Position
    <3>4. Len(buf) = 0 /\ left = 0 /\ SubSeq(<<>>, 1, 0) = <<>>
      BY <3>2
    <3> QED
      BY <3>2, <3>3, <3>4
  <2> HIDE DEF left, data
  <2> QED
    BY <2>1, <2>2, RoomUpgrade
<1>2. CASE EndOfFrames
  <2>1. client.cut = "lines" => state \notin {"new", "http"}
    BY <1>2 DEF EndOfFrames, UpgradeInv, LinesInv
  <2> QED
    BY <1>2, <2>1, RoomUpgrade DEF EndOfFrames
<1> QED
  BY <1>1, <1>2

LEMMA UpgradeInductive == IInv /\ UpgradeInv /\ [Next]_vars => UpgradeInv'
<1> SUFFICES ASSUME IInv, UpgradeInv, [Next]_vars PROVE UpgradeInv'
  OBVIOUS
<1>1. CASE RequestLine \/ Header \/ HeaderRefused
           \/ Upgrade \/ UpgradeFails \/ UpgradeVersion \/ UpgradeIgnored
  BY <1>1, LinesUpgrade
<1>2. CASE QueryCrashes
  BY <1>2, CrashUpgrade
<1>3. CASE Forward \/ ForwardFails \/ SendPong \/ IgnorePong \/ FrameEnds
  BY <1>3, FramesUpgrade
<1>4. CASE EndOfLines \/ EndOfFrames
  BY <1>4, EndsUpgrade
<1>5. CASE Receive
  BY <1>5, ReceiveUpgrade
<1>6. CASE ReceiveEnds \/ LoopCloses
  <2>1. UNCHANGED wire /\ queried' = queried /\ pc' = "idle"
    BY <1>6 DEF ReceiveEnds, LoopCloses, asked
  <2>2. PICK S : toClient \in Seq(S)
    BY DEF UpgradeInv, TellInv
  <2>3. PICK reason \in {"", "reason"} : ws_close(reason)
    BY <1>6 DEF ReceiveEnds, LoopCloses
  <2>4. (\E T : toClient' \in Seq(T)) /\ (Told101' <=> Told101)
    BY <2>2, <2>3, TellingKeeps DEF ws_close
  <2>5. state' = "closed" /\ request' = NoRequest
    BY <2>3 DEF ws_close
  <2>6. LinesInv'
    BY <2>1, <2>5 DEF LinesInv
  <2> QED
    BY <2>1, <2>4, <2>5, <2>6, LaterUpgrade
<1>7. CASE UNCHANGED vars
  <2>1. UNCHANGED <<wire, slot, pc, buf, off, toClient>>
    BY <1>7 DEF vars
  <2>2. Came' = Came /\ Stream' = Stream /\ Position' = Position
    BY <2>1, CameUnchanged
  <2> QED
    BY <2>1, <2>2 DEF slot, asked, wire, UpgradeInv, RestInv, TellInv, LinesInv, WholeLines, SourceInv,
                      FieldsCame, Told101
<1> QED
  BY <1>1, <1>2, <1>3, <1>4, <1>5, <1>6, <1>7 DEF Next, Handler, Closed

(* If every read of it ends with a line, and whatever else the request holds: *)
(* the backend is asked and the client told 101 only after the request line   *)
(* and the four headers an upgrade needs have come as lines of the stream.    *)
(* Cut within its lines this is not so: the offset forgets what earlier reads *)
(* brought of a line (websocket.c, line 491).                                 *)
THEOREM UpgradeOnlyWhenAsked == Spec => []UpgradeNeedsAll
<1>1. UpgradeInv => UpgradeNeedsAll
  BY DEF UpgradeInv, SourceInv, UpgradeNeedsAll, Told101
<1> QED
  BY Initially, Inductive, UpgradeInitially, UpgradeInductive, <1>1, PTL DEF Spec

-----------------------------------------------------------------------------
(* After the close.                                                           *)

(* A frame that closes the connection takes the rest of the read with it; a   *)
(* line that does leaves what follows it to be handled.                       *)
ClosedInv == pc = "frames" /\ ~ws_fd => buf = <<>>

LEMMA NoFrameWhenClosed ==
  ASSUME ClosedInv, FrameAt
  PROVE  ws_fd
  BY DEF ClosedInv, FrameAt, HasFrame

LEMMA ClosedInductive == IInv /\ ClosedInv /\ [Next]_vars => ClosedInv'
<1> SUFFICES ASSUME IInv, ClosedInv, [Next]_vars PROVE ClosedInv'
  OBVIOUS
<1>1. CASE RequestLine \/ Header \/ HeaderRefused
           \/ Upgrade \/ UpgradeFails \/ UpgradeVersion \/ UpgradeIgnored
  <2>1. pc' = "lines"
    <3>1. LineAt /\ \E offset \in {0, off} : RemoveLine(offset)
      BY <1>1 DEF RequestLine, Header, HeaderRefused, Upgrade, UpgradeFails, UpgradeVersion,
             UpgradeIgnored, LineDone, LineCloses, HeaderLine, BlankLine
    <3> QED
      BY <3>1 DEF LineAt, RemoveLine
  <2> QED
    BY <2>1 DEF ClosedInv
<1>2. CASE Forward \/ SendPong \/ IgnorePong
  <2>1. FrameAt /\ ws_fd' = ws_fd
    BY <1>2 DEF Forward, SendPong, IgnorePong, FrameDone, slot
  <2> QED
    BY <2>1, NoFrameWhenClosed DEF ClosedInv
<1>3. CASE ForwardFails \/ FrameEnds
  BY <1>3 DEF ForwardFails, FrameEnds, FrameCloses, ClosedInv
<1>4. CASE EndOfLines \/ EndOfFrames
  BY <1>4 DEF EndOfLines, EndOfFrames, CheckRoom, ClosedInv
<1>5. CASE Receive
  BY <1>5 DEF Receive, slot, ClosedInv
<1>6. CASE ReceiveEnds \/ LoopCloses
  BY <1>6 DEF ReceiveEnds, LoopCloses, ClosedInv
<1>7. CASE QueryCrashes
  BY <1>7 DEF QueryCrashes, ClosedInv
<1>8. CASE UNCHANGED vars
  BY <1>8 DEF vars, slot, ClosedInv
<1> QED
  BY <1>1, <1>2, <1>3, <1>4, <1>5, <1>6, <1>7, <1>8 DEF Next, Handler, Closed

Silence == ~ws_fd => UNCHANGED <<state, ws_fd, peer_fd, leaked, toClient, toPeer>>

LEMMA ClosedTwice ==
  ASSUME SlotInv, TellInv, ~ws_fd, NEW reason, ws_close(reason)
  PROVE  UNCHANGED <<state, ws_fd, peer_fd, leaked, toClient>>
<1>1. state = "closed" /\ ws_fd = FALSE /\ peer_fd = FALSE
  BY DEF SlotInv
<1>2. toClient' = toClient
  <2>1. Told(reason) = <<>>
    BY <1>1 DEF Told
  <2> QED
    BY <2>1, ConcatEmptySeq DEF ws_close, TellInv
<1> QED
  BY <1>1, <1>2 DEF ws_close

LEMMA SilentStep == IInv /\ TellInv /\ ClosedInv /\ [Next]_vars => Silence
<1> SUFFICES ASSUME IInv, TellInv, ClosedInv, [Next]_vars, ~ws_fd
             PROVE  UNCHANGED <<state, ws_fd, peer_fd, leaked, toClient, toPeer>>
  BY DEF Silence
<1>1. state = "closed" /\ ws_fd = FALSE /\ peer_fd = FALSE /\ SlotInv
  BY DEF IInv, SlotInv
<1>2. CASE RequestLine
  BY <1>1, <1>2 DEF RequestLine
<1>3. CASE Header
  BY <1>3 DEF Header, LineDone, RemoveLine
<1>4. CASE HeaderRefused \/ UpgradeVersion
  <2>1. (\E reason : ws_close(reason)) /\ toPeer' = toPeer
    BY <1>4 DEF HeaderRefused, UpgradeVersion, LineCloses, RemoveLine
  <2> QED
    BY <1>1, <2>1, ClosedTwice
<1>5. CASE Upgrade
  BY <1>1, <1>5 DEF Upgrade
<1>6. CASE UpgradeFails
  <2>1. /\ \E connects, overwrites : client_connect(connects, overwrites)
        /\ toClient' \in {toClient, toClient \o Told("500")}
    BY <1>6 DEF UpgradeFails
  <2>2. Told("500") = <<>>
    BY <1>1 DEF Told
  <2>3. toClient' = toClient
    BY <2>1, <2>2, ConcatEmptySeq DEF TellInv
  <2>4. leaked' = leaked
    BY <1>1, <2>1 DEF client_connect, SlotInv
  <2>5. state' = "closed" /\ ws_fd' = FALSE /\ peer_fd' = FALSE /\ toPeer' = toPeer
    BY <1>6 DEF UpgradeFails, RemoveLine
  <2> QED
    BY <1>1, <2>3, <2>4, <2>5
<1>7. CASE UpgradeIgnored
  BY <1>7 DEF UpgradeIgnored, slot, LineDone, RemoveLine
<1>8. CASE Forward \/ ForwardFails \/ SendPong \/ IgnorePong \/ FrameEnds
  <2>1. FrameAt
    BY <1>8 DEF Forward, ForwardFails, SendPong, IgnorePong, FrameEnds
  <2> QED
    BY <2>1, NoFrameWhenClosed
<1>9. CASE EndOfLines \/ EndOfFrames
  <2>1. /\ toPeer' = toPeer
        /\ \/ ws_close("reason")
           \/ UNCHANGED <<state, ws_fd, peer_fd, leaked, toClient>>
    BY <1>9 DEF EndOfLines, EndOfFrames, CheckRoom
  <2> QED
    BY <1>1, <2>1, ClosedTwice
<1>10. CASE Receive \/ ReceiveEnds \/ LoopCloses
  BY <1>10 DEF Receive, ReceiveEnds, LoopCloses
<1>11. CASE QueryCrashes
  BY <1>11 DEF QueryCrashes
<1>12. CASE UNCHANGED vars
  BY <1>12 DEF vars, slot
<1> QED
  BY <1>2, <1>3, <1>4, <1>5, <1>6, <1>7, <1>8, <1>9, <1>10, <1>11, <1>12 DEF Next, Handler, Closed

(* The scan loop goes on over a slot that ws_close has reset, up to asking    *)
(* the backend and connecting a peer (websocket.c:143): nothing is sent to    *)
(* either side, and behind each line the slot is closed again with the peer   *)
(* the line may have connected.                                               *)
THEOREM NothingAfterClose == Spec => SilentWhenClosed
<1>1. Init => ClosedInv
  BY DEF Init, ClosedInv
<1>2. UpgradeInv => TellInv
  BY DEF UpgradeInv
<1>3. Silence => (~ws_fd => UNCHANGED <<state, ws_fd, peer_fd, leaked, toClient, toPeer>>)
  BY DEF Silence
<1> QED
  BY Initially, Inductive, UpgradeInitially, UpgradeInductive, ClosedInductive, SilentStep,
     <1>1, <1>2, <1>3, PTL DEF Spec, SilentWhenClosed

-----------------------------------------------------------------------------
(* Where lines begin.                                                         *)

(* A client whose request has one blank line, at its end, and that waits for  *)
(* the answer.                                                                *)
Waits == client.pace = "patient" /\ OneBlank(client.request)

(* While the request is read: what this read brought is where it is in the    *)
(* stream, and a buffer without data of earlier reads begins a line.          *)
Handshake == state \in {"new", "http"}
ReadPlace ==
  /\ Len(buf) - off <= Position
  /\ pc = "lines" => \A i \in off + 1 .. Len(buf) : buf[i] = Stream[Position - Len(buf) + i]
  /\ off = 0 => LineEnds(Stream, Position - Len(buf))
  /\ pc = "lines" /\ off > 0 => off < Len(buf)
RequestInv ==
  /\ pc # "frames" /\ ~Told101
  /\ Position <= Len(client.request)
  /\ \A i \in 1 .. Len(buf) : buf[i] # NUL
  /\ ReadPlace
(* Nothing follows the blank line in its read.                                *)
PatientInv ==
  Waits => /\ leaked = 0
           /\ pc = "lines" /\ state = "open" => buf = <<>>
           /\ Handshake => RequestInv

LEMMA PatientInitially == Init => PatientInv
<1> SUFFICES ASSUME Init PROVE leaked = 0 /\ pc # "lines" /\ RequestInv
  BY DEF PatientInv
<1>1. unsent = Stream /\ Len(Stream) \in Nat /\ buf = <<>> /\ off = 0 /\ pc = "idle" /\ leaked = 0
  BY Initially, StreamIsSeq DEF Init, Stream, IInv
<1>2. ~Told101
  BY DEF Init, Told101, Contains
<1>3. Position = 0 /\ Len(buf) = 0 /\ Len(client.request) \in Nat
  BY <1>1, Initially, ClientsAssumption, LenProperties DEF Position, IInv, WireInv
<1>4. ReadPlace
  <2>1. Len(buf) - off <= Position /\ Position - Len(buf) = 0
    <3>1. off = 0 /\ Position = 0 /\ Len(buf) = 0
      BY <1>1, <1>3, Zenon
    <3> QED
      BY <3>1
  <2>2. LineEnds(Stream, Position - Len(buf))
    BY <2>1 DEF LineEnds
  <2> QED
    BY <1>1, <2>1, <2>2 DEF ReadPlace
<1> QED
  BY <1>1, <1>2, <1>3, <1>4 DEF RequestInv

(* The request's part of the stream.                                          *)
LEMMA StreamBegins ==
  ASSUME WireInv
  PROVE  /\ Len(Stream) = Len(client.request) + Len(FramesOf(client))
         /\ Len(client.request) \in Nat /\ Len(FramesOf(client)) \in Nat
         /\ \A i \in 1 .. Len(client.request) : Stream[i] = client.request[i]
<1>1. client.request \in Seq(Nat) /\ FramesOf(client) \in Seq(Nat)
  <2>1. Byte \subseteq Nat
    BY DEF Byte
  <2> QED
    BY <2>1, ClientsAssumption, SeqMonotonic DEF WireInv
<1> QED
  BY <1>1, FirstPart, LenProperties DEF Stream

LEMMA PatientReceive ==
  ASSUME IInv, UpgradeInv, PatientInv, Receive, Waits
  PROVE  PatientInv'
<1>1. PICK k \in 1 .. MaySend :
        /\ k <= BufSize - off - 1 /\ CutsAt(k)
        /\ buf' = buf \o SubSeq(unsent, 1, k)
        /\ unsent' = SubSeq(unsent, k + 1, Len(unsent))
  BY Zenon DEF Receive
<1>2. /\ k \in 1 .. Len(unsent) /\ k \in Nat /\ Len(unsent) \in Nat /\ unsent \in Seq(Nat)
      /\ buf \in Seq(Nat) /\ Len(buf) \in Nat /\ off = Len(buf) /\ WireInv
  BY SendsUnsent, LenProperties DEF IInv, WireInv, BufInv, Receive
<1>3. /\ pc = "idle" /\ ws_fd /\ pc' = IF state = "open" THEN "frames" ELSE "lines"
      /\ UNCHANGED <<state, leaked, client, toClient>>
      /\ state # "open" => off' = off
  BY DEF Receive, slot
<1>4. leaked' = 0 /\ ~(pc' = "lines" /\ state' = "open")
  BY <1>3 DEF PatientInv
<1>5. SUFFICES ASSUME Handshake PROVE RequestInv'
  BY <1>3, <1>4 DEF PatientInv, Handshake
<1>6. /\ ~Told101 /\ Position <= Len(client.request) /\ ReadPlace
      /\ \A i \in 1 .. Len(buf) : buf[i] # NUL
  BY <1>5 DEF PatientInv, RequestInv
<1>7. /\ Len(Stream) \in Nat /\ Len(unsent) <= Len(Stream) /\ Stream' = Stream
      /\ Position \in Nat
  BY <1>2, <1>3, StreamIsSeq DEF UpgradeInv, RestInv, Stream, Position
<1>8. Len(unsent') = Len(unsent) - k /\ Position' = Position + k
  <2>1. Len(SubSeq(unsent, k + 1, Len(unsent))) = Len(unsent) + 1 - (k + 1)
    BY <1>2, PartOfSeq
  <2>2. Len(unsent') = Len(unsent) - k
    BY <1>1, <1>2, <2>1
  <2>3. Position' = Len(Stream) - Len(unsent')
    BY <1>7 DEF Position
  <2> QED
    BY <1>2, <1>7, <2>2, <2>3 DEF Position
<1>9. Position' <= Len(client.request)
  <2>1. MaySend = Len(unsent) - Len(FramesOf(client))
    BY <1>6 DEF MaySend, Waits, Told101
  <2> QED
    BY <1>2, <1>7, <1>8, <2>1, StreamBegins DEF Position
<1>10. /\ Len(buf') = Len(buf) + k
       /\ \A i \in 1 .. Len(buf) : buf'[i] = buf[i]
       /\ \A i \in 1 .. k : buf'[Len(buf) + i] = Stream[Position + i]
  <2> DEFINE read == SubSeq(unsent, 1, k)
  <2>1. /\ read \in Seq(Nat) /\ Len(read) = k
        /\ \A i \in 1 .. Len(read) : read[i] = unsent[1 + i - 1]
    BY <1>2, PartOfSeq
  <2>2. buf' = buf \o read
    BY <1>1
  <2> HIDE DEF read
  <2>3. /\ Len(buf') = Len(buf) + k
        /\ \A i \in 1 .. Len(buf) + k : buf'[i] = IF i <= Len(buf) THEN buf[i] ELSE read[i - Len(buf)]
    BY <1>2, <2>1, <2>2, ConcatProperties
  <2>4. ASSUME NEW i \in 1 .. k PROVE buf'[Len(buf) + i] = Stream[Position + i]
    <3>1. buf'[Len(buf) + i] = read[i]
      <4>1. Len(buf) + i \in 1 .. Len(buf) + k /\ ~(Len(buf) + i <= Len(buf)) /\ (Len(buf) + i) - Len(buf) = i
        BY <1>2
      <4> QED
        BY <2>3, <4>1
    <3>2. read[i] = unsent[i]
      <4>1. i \in 1 .. Len(read) /\ 1 + i - 1 = i
        BY <1>2, <2>1
      <4> QED
        BY <2>1, <4>1
    <3>3. unsent[i] = Stream[Len(Stream) - Len(unsent) + i]
      BY <1>2 DEF UpgradeInv, RestInv
    <3> QED
      BY <3>1, <3>2, <3>3 DEF Position
  <2> QED
    BY <1>2, <2>3, <2>4
<1>11. \A i \in 1 .. Len(buf') : buf'[i] # NUL
  <2>1. ASSUME NEW i \in 1 .. k PROVE buf'[Len(buf) + i] # NUL
    <3>1. Position + i \in 1 .. Len(client.request)
      BY <1>2, <1>7, <1>8, <1>9, StreamBegins
    <3> QED
      BY <1>2, <1>10, <3>1, StreamBegins DEF Waits, OneBlank
  <2>2. ASSUME NEW j \in 1 .. Len(buf'), j > Len(buf) PROVE buf'[j] # NUL
    <3>1. j - Len(buf) \in 1 .. k /\ Len(buf) + (j - Len(buf)) = j
      BY <1>2, <1>10, <2>2
    <3> QED
      BY <2>1, <3>1
  <2>3. ASSUME NEW j \in 1 .. Len(buf'), ~(j > Len(buf)) PROVE buf'[j] # NUL
    <3>1. j \in 1 .. Len(buf)
      BY <1>2, <1>10, <2>3
    <3> QED
      BY <1>6, <1>10, <3>1
  <2> QED
    BY <2>2, <2>3
<1>12. ReadPlace'
  <2>1. off' = off /\ pc' = "lines"
    BY <1>3, <1>5 DEF Handshake
  <2>2. ASSUME NEW j \in off + 1 .. Len(buf')
        PROVE  buf'[j] = Stream[Position' - Len(buf') + j]
    <3>1. j - Len(buf) \in 1 .. k /\ Len(buf) + (j - Len(buf)) = j
      BY <1>2, <1>10
    <3>2. buf'[j] = Stream[Position + (j - Len(buf))]
      BY <1>10, <3>1
    <3>3. Position + (j - Len(buf)) = Position' - Len(buf') + j
      BY <1>2, <1>7, <1>8, <1>10, <3>1
    <3> QED
      BY <3>2, <3>3
  <2>3. Len(buf') - off <= Position' /\ off < Len(buf')
    BY <1>2, <1>7, <1>8, <1>10
  <2>4. off = 0 => LineEnds(Stream, Position' - Len(buf'))
    <3>1. off = 0 => Position' - Len(buf') = Position - Len(buf)
      BY <1>2, <1>7, <1>8, <1>10
    <3> QED
      BY <1>6, <3>1 DEF ReadPlace
  <2> QED
    BY <1>7, <2>1, <2>2, <2>3, <2>4, Zenon DEF ReadPlace
<1>13. ~Told101' /\ pc' # "frames" /\ client' = client
  BY <1>3, <1>5, <1>6 DEF Told101, Handshake
<1> QED
  BY <1>9, <1>11, <1>12, <1>13 DEF RequestInv

LEMMA LineKeepsPlace ==
  ASSUME IInv, UpgradeInv, PatientInv, Waits, Handshake, LineAt, RemoveLine(off), toClient' = toClient
  PROVE  RequestInv'
<1>1. RequestInv /\ BufInv /\ WireInv /\ pc = "lines"
  BY DEF PatientInv, IInv, LineAt
<1>2. /\ off' = 0 /\ pc' = "lines" /\ Break \in off + 1 .. Len(buf) - 1
      /\ Len(buf') = Len(buf) - (Break + 1)
      /\ \A i \in 1 .. Len(buf') : buf'[i] = buf[Break + 1 + i]
  BY <1>1, LineTaken
<1>3. /\ Position' = Position /\ Stream' = Stream /\ client' = client
  BY DEF RemoveLine, wire, Position, Stream
<1>4. /\ Len(buf) \in Nat /\ off \in Nat /\ Position \in Int /\ Len(buf) - off <= Position
      /\ \A i \in off + 1 .. Len(buf) : buf[i] = Stream[Position - Len(buf) + i]
  <2>1. Len(buf) \in Nat /\ off \in Nat /\ Position \in Int
    BY <1>1, StreamIsSeq, LenProperties DEF BufInv, Position
  <2> QED
    BY <1>1, <2>1 DEF RequestInv, ReadPlace
<1>5. Break \in Nat /\ Break > off /\ Break + 1 <= Len(buf) /\ buf[Break] = CR /\ buf[Break + 1] = LF
  <2>1. Break \in Breaks
    BY <1>1, FirstBreak DEF LineAt
  <2> QED
    BY <1>2, <1>4, <2>1 DEF Breaks
<1>numbers. /\ Break \in Nat /\ Break > off /\ Break + 1 <= Len(buf) /\ off \in Nat /\ Len(buf) \in Nat
            /\ Position \in Int /\ Len(buf) - off <= Position
            /\ Len(buf') = Len(buf) - (Break + 1)
  BY <1>2, <1>4, <1>5
<1>6. LineEnds(Stream, Position - Len(buf'))
  <2> DEFINE n == Position - Len(buf')
  <2>1. n = Position - Len(buf) + (Break + 1) /\ n - 1 = Position - Len(buf) + Break /\ n > 1
    BY <1>numbers
  <2>2. Stream[n] = LF /\ Stream[n - 1] = CR
    <3>1. Break \in off + 1 .. Len(buf) /\ Break + 1 \in off + 1 .. Len(buf)
      BY <1>numbers
    <3> HIDE DEF n
    <3> QED
      BY <1>4, <1>5, <2>1, <3>1
  <2> HIDE DEF n
  <2>3. LineEnds(Stream, n)
    BY <2>1, <2>2 DEF LineEnds
  <2> QED
    BY <2>3 DEF n
<1>7. ReadPlace'
  <2>1. ASSUME NEW i \in 0 + 1 .. Len(buf')
        PROVE  buf'[i] = Stream[Position - Len(buf') + i]
    <3>1. Break + 1 + i \in off + 1 .. Len(buf) /\ i \in 1 .. Len(buf')
      BY <1>numbers
    <3>2. Position - Len(buf) + (Break + 1 + i) = Position - Len(buf') + i
      BY <1>numbers
    <3> QED
      BY <1>2, <1>4, <3>1, <3>2
  <2>2. Len(buf') - 0 <= Position
    BY <1>numbers
  <2> QED
    BY <1>2, <1>3, <1>6, <2>1, <2>2 DEF ReadPlace
<1>8. \A i \in 1 .. Len(buf') : buf'[i] # NUL
  <2>1. ASSUME NEW i \in 1 .. Len(buf') PROVE Break + 1 + i \in 1 .. Len(buf)
    BY <1>numbers
  <2> QED
    BY <1>1, <1>2, <2>1 DEF RequestInv
<1> QED
  BY <1>1, <1>2, <1>3, <1>7, <1>8 DEF RequestInv, Told101

(* The blank line is the last of what was read.                               *)
LEMMA BlankIsLast ==
  ASSUME IInv, UpgradeInv, PatientInv, Waits, Handshake, BlankLine, RemoveLine(off)
  PROVE  buf' = <<>> /\ Position = Len(client.request)
<1>1. RequestInv /\ BufInv /\ WireInv /\ pc = "lines" /\ LineAt /\ First = NUL
  BY DEF PatientInv, IInv, LineAt, BlankLine
<1>2. /\ Break \in off + 1 .. Len(buf) - 1 /\ Len(buf') = Len(buf) - (Break + 1)
  BY <1>1, LineTaken
<1>3. /\ Len(buf) \in Nat /\ off \in Nat /\ Position \in Int /\ Len(buf) - off <= Position
      /\ \A i \in off + 1 .. Len(buf) : buf[i] = Stream[Position - Len(buf) + i]
  <2>1. Len(buf) \in Nat /\ off \in Nat /\ Position \in Int
    BY <1>1, StreamIsSeq, LenProperties DEF BufInv, Position
  <2> QED
    BY <1>1, <2>1 DEF RequestInv, ReadPlace
<1>4. Break = 1 /\ off = 0
  <2>1. Break # 1 => buf[1] = NUL /\ 1 \in 1 .. Len(buf)
    BY <1>1, <1>2, <1>3 DEF First
  <2> QED
    BY <1>1, <1>2, <1>3, <2>1 DEF RequestInv
<1>5. Break \in Breaks
  BY <1>1, FirstBreak DEF LineAt
<1> DEFINE n == Position - Len(buf) + 1
<1>6. n \in 1 .. Len(client.request) - 1 /\ n = Position - Len(buf) + 1 /\ n + 1 = Position - Len(buf) + 2
      /\ Len(buf) >= 2 /\ Position <= Len(client.request)
  <2>1. Position <= Len(client.request)
    BY <1>1 DEF RequestInv
  <2> QED
    BY <1>1, <1>2, <1>3, <1>4, <2>1, StreamBegins
<1> HIDE DEF n
<1>7. Stream[n] = CR /\ Stream[n + 1] = LF
  <2>1. buf[1] = CR /\ buf[2] = LF
    BY <1>4, <1>5 DEF Breaks
  <2>2. 1 \in off + 1 .. Len(buf) /\ 2 \in off + 1 .. Len(buf)
    BY <1>3, <1>4, <1>6
  <2> QED
    BY <1>3, <1>6, <2>1, <2>2
<1>8. LineEnds(Stream, n - 1)
  <2>1. n - 1 = Position - Len(buf)
    BY <1>3, <1>6
  <2> QED
    BY <1>1, <1>4, <2>1 DEF RequestInv, ReadPlace
<1>9. Len(client.request) \in Nat /\ \A i \in 1 .. Len(client.request) : Stream[i] = client.request[i]
  BY <1>1, StreamBegins
<1>10. /\ client.request[n] = CR /\ client.request[n + 1] = LF
  <2>1. n \in 1 .. Len(client.request) /\ n + 1 \in 1 .. Len(client.request)
    BY <1>6, <1>9
  <2> QED
    BY <1>7, <1>9, <2>1
<1>11. LineEnds(client.request, n - 1)
  <2>1. CASE n - 1 = 0
    BY <2>1 DEF LineEnds
  <2>2. CASE n - 1 > 1 /\ Stream[(n - 1) - 1] = CR /\ Stream[n - 1] = LF
    <3>1. n - 1 \in 1 .. Len(client.request) /\ (n - 1) - 1 \in 1 .. Len(client.request)
      BY <1>6, <1>9, <2>2
    <3> QED
      BY <1>9, <2>2, <3>1 DEF LineEnds
  <2> QED
    BY <1>8, <2>1, <2>2 DEF LineEnds
<1>12. n = Len(client.request) - 1
  BY <1>6, <1>10, <1>11 DEF Waits, OneBlank
<1>13. Len(buf') = 0 /\ Position = Len(client.request)
  BY <1>2, <1>3, <1>4, <1>6, <1>9, <1>12
<1> QED
  <2>1. BufInv'
    BY <1>1, LineKeepsBuffer
  <2>2. buf' \in Seq(Nat)
    BY <2>1 DEF BufInv
  <2> QED
    BY <1>13, <2>2, EmptySeq

LEMMA PatientLines ==
  ASSUME IInv, UpgradeInv, PatientInv, Waits, Handshake,
         \/ RequestLine \/ Header \/ HeaderRefused
         \/ Upgrade \/ UpgradeFails \/ UpgradeVersion \/ UpgradeIgnored
  PROVE  PatientInv'
<1>1. LineAt /\ leaked = 0 /\ ~peer_fd /\ leaked \in Nat
  BY DEF RequestLine, Header, HeaderRefused, Upgrade, UpgradeFails, UpgradeVersion, UpgradeIgnored,
         HeaderLine, BlankLine, PatientInv, Handshake, IInv, SlotInv
<1>2. CASE RequestLine \/ Header \/ UpgradeIgnored
  <2>1. /\ RemoveLine(off) /\ toClient' = toClient /\ leaked' = leaked /\ state' # "open"
    BY <1>2 DEF RequestLine, Header, UpgradeIgnored, LineDone, slot, Handshake
  <2> QED
    BY <1>1, <2>1, LineKeepsPlace DEF PatientInv
<1>3. CASE HeaderRefused \/ UpgradeVersion \/ UpgradeFails
  <2>1. state' = "closed" /\ leaked' = leaked
    <3>1. CASE HeaderRefused \/ UpgradeVersion
      BY <3>1 DEF HeaderRefused, UpgradeVersion, LineCloses, ws_close
    <3>2. CASE UpgradeFails
      <4>1. \E connects, overwrites : client_connect(connects, overwrites)
        BY <3>2 DEF UpgradeFails
      <4>2. leaked' = leaked
        BY <1>1, <4>1 DEF client_connect
      <4> QED
        BY <3>2, <4>2 DEF UpgradeFails
    <3> QED
      BY <1>3, <3>1, <3>2
  <2> QED
    BY <1>1, <2>1 DEF PatientInv, Handshake
<1>4. CASE Upgrade
  <2>1. BlankLine /\ RemoveLine(off) /\ state' = "open" /\ leaked' = leaked
    BY <1>1, <1>4 DEF Upgrade, LineDone, client_connect
  <2> QED
    BY <1>1, <2>1, BlankIsLast DEF PatientInv, Handshake
<1> QED
  BY <1>2, <1>3, <1>4

(* The end of the call forgets where the buffer begins, unless it is empty.   *)
LEMMA PatientEnds ==
  ASSUME IInv, UpgradeInv, PatientInv, Waits, EndOfLines
  PROVE  PatientInv'
<1>1. /\ pc = "lines" /\ pc' = "idle" /\ Len(buf) \in Nat /\ off \in 0 .. Len(buf) /\ buf \in Seq(Nat)
      /\ WireInv /\ leaked = 0
  BY LenProperties DEF EndOfLines, CheckRoom, IInv, BufInv, PatientInv
<1> DEFINE data == SubSeq(buf, 1, Len(buf) - off)
<1>2. /\ Len(data) = Len(buf) - off
      /\ \A i \in 1 .. Len(data) : data[i] = buf[1 + i - 1]
  BY <1>1, PartOfSeq
<1> HIDE DEF data
<1>3. /\ client' = client /\ unsent' = unsent
      /\ \/ state' = "closed" /\ leaked' = leaked
         \/ /\ buf' = data /\ off' = Len(buf) - off
            /\ UNCHANGED <<state, leaked, toClient>>
  BY DEF EndOfLines, CheckRoom, ws_close, wire, data
<1>4. CASE state' = "closed" /\ leaked' = leaked
  BY <1>1, <1>4 DEF PatientInv, Handshake
<1>5. CASE buf' = data /\ off' = Len(buf) - off /\ UNCHANGED <<state, leaked, toClient>>
  <2> SUFFICES ASSUME Handshake PROVE RequestInv'
    BY <1>1, <1>5 DEF PatientInv, Handshake
  <2>1. RequestInv /\ Position' = Position /\ Stream' = Stream
    BY <1>3 DEF PatientInv, Position, Stream
  <2>2. \A i \in 1 .. Len(buf') : buf'[i] # NUL
    <3>1. ASSUME NEW i \in 1 .. Len(data) PROVE data[i] # NUL
      <4>1. i \in 1 .. Len(buf) /\ 1 + i - 1 = i
        BY <1>1, <1>2
      <4> QED
        BY <1>2, <2>1, <4>1 DEF RequestInv
    <3> QED
      BY <1>5, <3>1
  <2>3. Position \in Int /\ Position >= 0
    <3>1. Position \in Int
      BY <1>1, StreamIsSeq DEF Position
    <3> QED
      BY <1>1, <2>1, <3>1 DEF RequestInv, ReadPlace
  <2>4. ReadPlace'
    <3>1. Len(buf') - off' <= Position
      BY <1>1, <1>2, <1>5, <2>3
    <3>2. off' = 0 => Len(buf') = 0 /\ off = 0 /\ Len(buf) = 0
      BY <1>1, <1>2, <1>5, <2>1 DEF RequestInv, ReadPlace
    <3> QED
      BY <1>1, <2>1, <3>1, <3>2 DEF RequestInv, ReadPlace
  <2> QED
    BY <1>1, <1>3, <1>5, <2>1, <2>2, <2>4 DEF RequestInv, Told101
<1> QED
  BY <1>3, <1>4, <1>5

LEMMA PatientInductive ==
  IInv /\ UpgradeInv /\ ClosedInv /\ PatientInv /\ [Next]_vars => PatientInv'
<1> SUFFICES ASSUME IInv, UpgradeInv, ClosedInv, PatientInv, [Next]_vars PROVE PatientInv'
  OBVIOUS
<1>1. client' = client
  BY DEF Next, Handler, Receive, ReceiveEnds, LoopCloses, Closed, RequestLine, Header, HeaderRefused,
         Upgrade, UpgradeFails, QueryCrashes, UpgradeVersion, UpgradeIgnored, LineDone, LineCloses,
         RemoveLine, EndOfLines, EndOfFrames, CheckRoom, Forward, ForwardFails, SendPong, IgnorePong, FrameEnds,
         FrameDone, FrameCloses, wire, vars
<1> SUFFICES ASSUME Waits PROVE PatientInv'
  BY <1>1 DEF PatientInv, Waits
<1>2. leaked = 0 /\ state \in {"new", "http", "open", "closed"} /\ (state = "closed" <=> ~ws_fd)
  BY DEF PatientInv, IInv, SlotInv
<1>3. CASE ~ws_fd
  <2>1. state' = "closed" /\ leaked' = 0
    BY <1>2, <1>3, SilentStep DEF Silence, UpgradeInv
  <2> QED
    BY <2>1 DEF PatientInv, Handshake
<1>4. CASE RequestLine \/ Header \/ HeaderRefused
           \/ Upgrade \/ UpgradeFails \/ UpgradeVersion \/ UpgradeIgnored
  <2>1. CASE Handshake
    BY <1>4, <2>1, PatientLines
  <2>2. CASE state = "open"
    <3>1. LineAt
      BY <1>4 DEF RequestLine, Header, HeaderRefused, Upgrade, UpgradeFails, UpgradeVersion,
             UpgradeIgnored, HeaderLine, BlankLine
    <3>2. buf = <<>>
      BY <2>2, <3>1 DEF PatientInv, LineAt
    <3>3. Breaks = {}
      BY <3>2 DEF Breaks, IInv, BufInv
    <3> QED
      BY <3>1, <3>3 DEF LineAt
  <2> QED
    BY <1>2, <1>3, <2>1, <2>2 DEF Handshake
<1>5. CASE Forward \/ ForwardFails \/ SendPong \/ IgnorePong \/ FrameEnds
  <2>1. /\ pc = "frames" /\ pc' = "frames" /\ leaked' = leaked
        /\ state' = state \/ state' = "closed"
    BY <1>5 DEF Forward, ForwardFails, SendPong, IgnorePong, FrameEnds, FrameAt, FrameDone, FrameCloses,
           ws_close, slot
  <2>2. ~Handshake
    BY <2>1 DEF PatientInv, RequestInv
  <2> QED
    BY <1>2, <2>1, <2>2 DEF PatientInv, Handshake
<1>6. CASE EndOfLines
  BY <1>6, PatientEnds
<1>7. CASE EndOfFrames
  <2>1. /\ pc = "frames" /\ pc' = "idle" /\ leaked' = leaked
        /\ state' = state \/ state' = "closed"
    BY <1>7 DEF EndOfFrames, CheckRoom, ws_close
  <2>2. ~Handshake
    BY <2>1 DEF PatientInv, RequestInv
  <2> QED
    BY <1>2, <2>1, <2>2 DEF PatientInv, Handshake
<1>8. CASE Receive
  BY <1>8, PatientReceive
<1>9. CASE ReceiveEnds \/ LoopCloses
  <2>1. state' = "closed" /\ leaked' = leaked
    BY <1>9 DEF ReceiveEnds, LoopCloses, ws_close
  <2> QED
    BY <1>2, <2>1 DEF PatientInv, Handshake
<1>10. CASE UNCHANGED vars
  BY <1>10 DEF vars, slot, wire, PatientInv, Waits, Handshake, RequestInv, ReadPlace, Position, Stream, Told101
<1>11. CASE QueryCrashes
  <2>1. UNCHANGED <<state, leaked, buf, off, wire, toClient>> /\ pc' = "crashed"
    BY <1>11 DEF QueryCrashes
  <2> QED
    BY <2>1 DEF wire, PatientInv, Waits, Handshake, RequestInv, ReadPlace, Position, Stream, Told101
<1> QED
  BY <1>3, <1>4, <1>5, <1>6, <1>7, <1>8, <1>9, <1>10, <1>11 DEF Next, Handler, Closed

(* A client that waits for its answer and sends one blank line, at the end of *)
(* its request, has no peer's socket lost (websocket.c:143), however its      *)
(* request is cut: it cannot have a second upgrade in one read.               *)
THEOREM NoPeerLost == Spec => [](OneBlank(client.request) => PeersClosed)
<1>1. PatientInv => (OneBlank(client.request) => PeersClosed)
  BY DEF PatientInv, Waits, PeersClosed
<1>2. Init => ClosedInv
  BY DEF Init, ClosedInv
<1> QED
  BY Initially, Inductive, UpgradeInitially, UpgradeInductive, ClosedInductive, PatientInitially,
     PatientInductive, <1>1, <1>2, PTL DEF Spec

-----------------------------------------------------------------------------
(* What a client sends, from its first frames to its last.                    *)

(* What a client's first frames bring.                                        *)
IsBrought(v, frames, kept, D) ==
  /\ v \in [0 .. Len(frames) -> Seq(D)] /\ v[0] = <<>>
  /\ \A n \in 1 .. Len(frames) :
       /\ n \in kept => v[n] = Append(v[n - 1], frames[n].data)
       /\ n \notin kept => v[n] = v[n - 1]

(* Brought is the function its definition describes.                          *)
LEMMA BroughtIs ==
  ASSUME NEW R, NEW frames \in Seq(R), NEW D, \A f \in R : f.data \in D, NEW kept
  PROVE  IsBrought(Brought(frames, kept), frames, kept, D)
<1>1. Len(frames) \in Nat /\ \A n \in 1 .. Len(frames) : frames[n].data \in D
  BY LenProperties, ElementOfSeq
<1> DEFINE Is(v) == v = [n \in 0 .. Len(frames) |->
                           IF n = 0 THEN <<>>
                           ELSE IF n \in kept THEN Append(v[n - 1], frames[n].data) ELSE v[n - 1]]
           v == CHOOSE v : Is(v)
<1>2. \E w : Is(w)
  <2> DEFINE step == [n \in 1 .. Len(frames) |->
                        [x \in Seq(D) |-> IF n \in kept THEN Append(x, frames[n].data) ELSE x]]
  <2>1. step \in [1 .. Len(frames) -> [Seq(D) -> Seq(D)]]
    <3>1. ASSUME NEW n \in 1 .. Len(frames), NEW x \in Seq(D)
          PROVE  (IF n \in kept THEN Append(x, frames[n].data) ELSE x) \in Seq(D)
      BY <1>1, AppendProperties
    <3> QED
      BY <3>1
  <2> HIDE DEF step
  <2>2. PICK w : /\ w \in [0 .. Len(frames) -> Seq(D)] /\ w[0] = <<>>
                 /\ \A n \in 1 .. Len(frames) : w[n] = step[n][w[n - 1]]
    <3>1. <<>> \in Seq(D)
      OBVIOUS
    <3>2. Runs(Len(frames), Seq(D), <<>>, step) # {}
      BY <1>1, <2>1, <3>1, RunExists
    <3> QED
      BY <3>2 DEF Runs
  <2>3. ASSUME NEW n \in 1 .. Len(frames)
        PROVE  w[n] = IF n \in kept THEN Append(w[n - 1], frames[n].data) ELSE w[n - 1]
    <3>1. n - 1 \in 0 .. Len(frames)
      BY <1>1
    <3>2. PICK x \in Seq(D) : x = w[n - 1]
      BY <2>2, <3>1
    <3>3. w[n] = step[n][x]
      BY <2>2, <3>2
    <3>4. step[n][x] = IF n \in kept THEN Append(x, frames[n].data) ELSE x
      BY DEF step
    <3> QED
      BY <3>2, <3>3, <3>4
  <2>4. \A n \in 0 .. Len(frames) :
          w[n] = IF n = 0 THEN <<>>
                 ELSE IF n \in kept THEN Append(w[n - 1], frames[n].data) ELSE w[n - 1]
    <3>1. \A n \in 0 .. Len(frames) : n # 0 => n \in 1 .. Len(frames)
      BY <1>1
    <3> QED
      BY <2>2, <2>3, <3>1
  <2>5. Is(w)
    BY <2>2, <2>4
  <2> HIDE DEF Is
  <2> QED
    BY <2>5
<1>3. Is(v)
  <2> HIDE DEF Is
  <2> QED
    BY <1>2
<1>4. Brought(frames, kept) = v
  BY Zenon DEF Brought
<1> HIDE DEF v
<1>5. \A n \in 0 .. Len(frames) :
        v[n] = IF n = 0 THEN <<>>
               ELSE IF n \in kept THEN Append(v[n - 1], frames[n].data) ELSE v[n - 1]
  BY <1>3
<1>6. /\ v[0] = <<>>
      /\ \A n \in 1 .. Len(frames) :
           /\ n \in kept => v[n] = Append(v[n - 1], frames[n].data)
           /\ n \notin kept => v[n] = v[n - 1]
  <2>1. 0 \in 0 .. Len(frames) /\ \A n \in 1 .. Len(frames) : n # 0 /\ n \in 0 .. Len(frames)
    BY <1>1
  <2> HIDE DEF Is
  <2> QED
    BY <1>5, <2>1
<1> DEFINE P == {n \in 0 .. Len(frames) : v[n] \in Seq(D)}
<1> HIDE DEF Is
<1>7. 0 \in P
  <2>1. <<>> \in Seq(D) /\ 0 \in 0 .. Len(frames)
    BY <1>1
  <2> QED
    BY <1>6, <2>1
<1>8. ASSUME NEW n \in 1 .. Len(frames), n - 1 \in P PROVE n \in P
  <2>1. v[n - 1] \in Seq(D) /\ frames[n].data \in D /\ n \in 0 .. Len(frames)
    BY <1>1, <1>8
  <2>2. v[n] \in Seq(D)
    <3>1. PICK x \in Seq(D), d \in D : x = v[n - 1] /\ d = frames[n].data
      BY <2>1
    <3>2. v[n] = Append(x, d) \/ v[n] = x
      BY <1>6, <3>1
    <3>3. Append(x, d) \in Seq(D)
      BY AppendProperties
    <3> QED
      BY <3>2, <3>3
  <2> QED
    BY <2>1, <2>2
<1>9. \A n \in 0 .. Len(frames) : n \in P
  <2> HIDE DEF P
  <2> QED
    BY <1>1, <1>7, <1>8, UpTo
<1>10. v \in [0 .. Len(frames) -> Seq(D)]
  BY <1>3, <1>9 DEF Is
<1> QED
  BY <1>4, <1>6, <1>10 DEF IsBrought

(* What they bring only grows: a frame that is kept brings what follows.      *)
Begins(s, t) == Len(s) <= Len(t) /\ \A i \in 1 .. Len(s) : s[i] = t[i]

LEMMA OneMoreBegins ==
  ASSUME NEW D, NEW s \in Seq(D), NEW t \in Seq(D), NEW x \in D, Begins(s, t)
  PROVE  Begins(s, Append(t, x))
<1>1. Len(s) \in Nat /\ Len(t) \in Nat
  BY LenProperties
<1>2. Len(Append(t, x)) = Len(t) + 1 /\ \A i \in 1 .. Len(t) : Append(t, x)[i] = t[i]
  BY <1>1, AppendProperties
<1>3. Len(s) <= Len(t) /\ \A i \in 1 .. Len(s) : s[i] = t[i]
  BY DEF Begins
<1>4. \A i \in 1 .. Len(s) : i \in 1 .. Len(t)
  BY <1>1, <1>3
<1>5. Len(s) <= Len(Append(t, x))
  BY <1>1, <1>2, <1>3
<1> QED
  BY <1>2, <1>3, <1>4, <1>5 DEF Begins

LEMMA BroughtGrows ==
  ASSUME NEW R, NEW frames \in Seq(R), NEW D, \A f \in R : f.data \in D, NEW kept,
         NEW n \in 1 .. Len(frames), n \in kept
  PROVE  /\ Len(Brought(frames, kept)[n - 1]) < Len(Brought(frames, kept)[Len(frames)])
         /\ Brought(frames, kept)[Len(frames)][Len(Brought(frames, kept)[n - 1]) + 1] = frames[n].data
<1>1. Len(frames) \in Nat /\ n \in 0 .. Len(frames) /\ n - 1 \in 0 .. Len(frames)
  BY LenProperties
<1>2. PICK v : v = Brought(frames, kept)
  OBVIOUS
<1>3. /\ v \in [0 .. Len(frames) -> Seq(D)]
      /\ \A k \in 1 .. Len(frames) :
           /\ k \in kept => v[k] = Append(v[k - 1], frames[k].data)
           /\ k \notin kept => v[k] = v[k - 1]
  <2>1. IsBrought(v, frames, kept, D)
    BY <1>2, BroughtIs
  <2> QED
    BY <2>1 DEF IsBrought
<1> DEFINE P == {k \in 0 .. Len(frames) : k >= n => Begins(v[n], v[k])}
<1>4. \A k \in 0 .. n - 1 : k \in P
  BY <1>1
<1>5. v[n] \in Seq(D) /\ Begins(v[n], v[n])
  <2>1. v[n] \in Seq(D)
    BY <1>1, <1>3
  <2>2. Len(v[n]) \in Nat
    BY <2>1, LenProperties
  <2> QED
    BY <2>1, <2>2 DEF Begins
<1>6. ASSUME NEW k \in 1 .. Len(frames), k - 1 \in P PROVE k \in P
  <2>1. CASE k < n
    BY <1>1, <2>1
  <2>2. CASE k = n
    BY <1>1, <1>5, <2>2
  <2>3. CASE k > n
    <3>1. k - 1 \in 0 .. Len(frames) /\ k - 1 >= n /\ k \in 0 .. Len(frames)
      BY <1>1, <2>3
    <3>2. Begins(v[n], v[k - 1]) /\ v[k - 1] \in Seq(D) /\ frames[k].data \in D
      BY <1>3, <1>6, <3>1, ElementOfSeq
    <3>3. Begins(v[n], v[k])
      BY <1>3, <1>5, <3>2, OneMoreBegins
    <3> QED
      BY <3>1, <3>3
  <2> QED
    BY <1>1, <2>1, <2>2, <2>3
<1>7. 0 \in P
  BY <1>1, <1>4
<1>8. Len(frames) \in P
  <2>1. \A k \in 0 .. Len(frames) : k \in P
    <3> HIDE DEF P
    <3> QED
      BY <1>1, <1>6, <1>7, UpTo
  <2> HIDE DEF P
  <2> QED
    BY <1>1, <2>1
<1>9. Begins(v[n], v[Len(frames)])
  BY <1>1, <1>8
<1>10. PICK s \in Seq(D), x \in D : s = v[n - 1] /\ x = frames[n].data /\ v[n] = Append(s, x)
  BY <1>1, <1>3, ElementOfSeq
<1>11. Len(v[n]) = Len(s) + 1 /\ v[n][Len(s) + 1] = x /\ Len(s) \in Nat
  <2>1. Len(Append(s, x)) = Len(s) + 1 /\ Append(s, x)[Len(s) + 1] = x /\ Len(s) \in Nat
    BY AppendProperties, LenProperties
  <2> QED
    BY <1>10, <2>1
<1>12. PICK t \in Seq(D) : t = v[Len(frames)]
  <2>1. Len(frames) \in 0 .. Len(frames)
    BY <1>1
  <2>2. v[Len(frames)] \in Seq(D)
    BY <1>3, <2>1
  <2> QED
    BY <2>2
<1>13. Len(t) \in Nat /\ Len(s) + 1 <= Len(t) /\ t[Len(s) + 1] = x
  <2>1. Len(v[n]) <= Len(t) /\ \A i \in 1 .. Len(v[n]) : v[n][i] = t[i]
    BY <1>9, <1>12 DEF Begins
  <2>2. Len(s) + 1 \in 1 .. Len(v[n])
    BY <1>11
  <2> QED
    BY <1>11, <2>1, <2>2, LenProperties
<1>14. Len(s) < Len(t)
  BY <1>11, <1>13
<1> QED
  BY <1>2, <1>10, <1>12, <1>13, <1>14

(* What is left of a client's frames after its first n.                       *)
Lefts(c) ==
  {left \in [0 .. Len(c.frames) -> Seq(Byte)] :
     /\ left[0] = FramesOf(c) /\ left[Len(c.frames)] = <<>>
     /\ \A n \in 1 .. Len(c.frames) : left[n - 1] = ClientFrame(c.frames[n]) \o left[n]}
Left(c) == CHOOSE left \in Lefts(c) : TRUE

(* The last N - n of N sequences one after the other.                         *)
LeftOver(N, S, seqs) ==
  {left \in [0 .. N -> Seq(S)] :
     /\ left[0] = FlattenSeq(seqs) /\ left[N] = <<>>
     /\ \A n \in 1 .. N : left[n - 1] = seqs[n] \o left[n]}

LEMMA Leftovers ==
  ASSUME NEW N \in Nat, NEW S, NEW seqs \in [1 .. N -> Seq(S)]
  PROVE  LeftOver(N, S, seqs) # {}
<1>1. CASE N = 0
  <2>1. seqs \in Seq(Seq(S)) /\ Len(seqs) = 0
    BY <1>1, FunctionIsSeq
  <2>2. FlattenSeq(seqs) = <<>>
    BY <2>1, EmptySeq DEF FlattenSeq
  <2> DEFINE left == [n \in 0 .. N |-> <<>>]
  <2>3. <<>> \in Seq(S) /\ 0 \in 0 .. N /\ 1 .. N = {}
    BY <1>1
  <2>4. left \in [0 .. N -> Seq(S)] /\ left[0] = <<>> /\ left[N] = <<>>
    BY <1>1, <2>3
  <2> HIDE DEF left
  <2>5. left \in LeftOver(N, S, seqs)
    BY <2>2, <2>3, <2>4 DEF LeftOver
  <2> QED
    BY <2>5
<1>2. CASE N # 0
  <2>1. PICK flat \in [0 .. N -> Seq(S)] :
          /\ flat[0] = <<>> /\ flat[N] = FlattenSeq(seqs)
          /\ \A i \in 1 .. N : flat[i] = flat[i - 1] \o seqs[i]
    <3>1. N \in Nat \ {0}
      BY <1>2
    <3>2. Flattened(N, S, seqs) # {}
      BY <3>1, FlattenedUpto
    <3> QED
      BY <3>2 DEF Flattened
  <2> DEFINE step == [k \in 1 .. N |-> [x \in Seq(S) |-> seqs[N - k + 1] \o x]]
  <2>2. step \in [1 .. N -> [Seq(S) -> Seq(S)]]
    <3>1. ASSUME NEW k \in 1 .. N, NEW x \in Seq(S) PROVE seqs[N - k + 1] \o x \in Seq(S)
      <4>1. N - k + 1 \in 1 .. N
        OBVIOUS
      <4>2. seqs[N - k + 1] \in Seq(S)
        BY <4>1
      <4> QED
        BY <4>2, FirstPart
    <3> QED
      BY <3>1
  <2> HIDE DEF step
  <2>3. PICK w : /\ w \in [0 .. N -> Seq(S)] /\ w[0] = <<>>
                 /\ \A k \in 1 .. N : w[k] = step[k][w[k - 1]]
    <3>1. <<>> \in Seq(S)
      OBVIOUS
    <3>2. Runs(N, Seq(S), <<>>, step) # {}
      BY <2>2, <3>1, RunExists
    <3> QED
      BY <3>2 DEF Runs
  <2>4. ASSUME NEW k \in 1 .. N PROVE w[k] = seqs[N - k + 1] \o w[k - 1]
    <3>1. k - 1 \in 0 .. N
      OBVIOUS
    <3>2. PICK x \in Seq(S) : x = w[k - 1]
      BY <2>3, <3>1
    <3>3. w[k] = step[k][x]
      BY <2>3, <3>2
    <3>4. step[k][x] = seqs[N - k + 1] \o x
      BY DEF step
    <3> QED
      BY <3>2, <3>3, <3>4
  <2> DEFINE P == {k \in 0 .. N : flat[N - k] \o w[k] = flat[N]}
  <2>5. 0 \in P
    <3>1. N - 0 = N /\ 0 \in 0 .. N /\ N \in 0 .. N
      OBVIOUS
    <3>2. flat[N] \o <<>> = flat[N]
      <4>1. flat[N] \in Seq(S)
        BY <3>1
      <4> QED
        BY <4>1, ConcatEmptySeq
    <3> QED
      BY <2>3, <3>1, <3>2
  <2>6. ASSUME NEW k \in 1 .. N, k - 1 \in P PROVE k \in P
    <3>1. /\ k \in 0 .. N /\ k - 1 \in 0 .. N /\ N - k + 1 \in 1 .. N /\ N - k \in 0 .. N
          /\ N - (k - 1) = N - k + 1 /\ (N - k + 1) - 1 = N - k
      OBVIOUS
    <3>2. PICK x \in Seq(S), y \in Seq(S), z \in Seq(S) :
            x = flat[N - k] /\ y = seqs[N - k + 1] /\ z = w[k - 1]
      BY <2>3, <3>1
    <3>3. flat[N - k + 1] = x \o y
      BY <2>1, <3>1, <3>2
    <3>4. (x \o y) \o z = flat[N]
      BY <2>6, <3>1, <3>2, <3>3
    <3>5. w[k] = y \o z
      BY <2>4, <3>2
    <3>6. x \o (y \o z) = (x \o y) \o z
      BY ConcatAssociative, SMTT(60)
    <3> QED
      BY <3>1, <3>2, <3>4, <3>5, <3>6
  <2>7. N \in P
    <3>1. \A k \in 0 .. N : k \in P
      <4> HIDE DEF P
      <4> QED
        BY <2>5, <2>6, UpTo
    <3> HIDE DEF P
    <3> QED
      BY <3>1
  <2>8. w[N] = FlattenSeq(seqs)
    <3>1. N - N = 0 /\ N \in 0 .. N
      OBVIOUS
    <3>2. w[N] \in Seq(S)
      BY <2>3, <3>1
    <3>3. <<>> \o w[N] = w[N]
      BY <3>2, ConcatEmptySeq
    <3> QED
      BY <2>1, <2>7, <3>1, <3>3
  <2> HIDE DEF P
  <2> DEFINE left == [n \in 0 .. N |-> w[N - n]]
  <2>9. left \in [0 .. N -> Seq(S)]
    <3>1. \A n \in 0 .. N : N - n \in 0 .. N
      OBVIOUS
    <3> QED
      BY <2>3, <3>1
  <2>10. left[0] = FlattenSeq(seqs) /\ left[N] = <<>>
    <3>1. 0 \in 0 .. N /\ N \in 0 .. N /\ N - 0 = N /\ N - N = 0
      OBVIOUS
    <3> QED
      BY <2>3, <2>8, <3>1
  <2>11. ASSUME NEW n \in 1 .. N PROVE left[n - 1] = seqs[n] \o left[n]
    <3>1. PICK k \in 1 .. N : k = N - n + 1
      OBVIOUS
    <3>2. n \in 0 .. N /\ n - 1 \in 0 .. N /\ N - (n - 1) = k /\ N - n = k - 1 /\ N - k + 1 = n
      BY <3>1
    <3>3. left[n - 1] = w[k] /\ left[n] = w[k - 1]
      BY <3>2
    <3> HIDE DEF left
    <3>4. w[k] = seqs[N - k + 1] \o w[k - 1]
      BY <2>4
    <3> QED
      BY <3>2, <3>3, <3>4
  <2> HIDE DEF left
  <2>12. left \in LeftOver(N, S, seqs)
    BY <2>9, <2>10, <2>11 DEF LeftOver
  <2> QED
    BY <2>12
<1> QED
  BY <1>1, <1>2

LEMMA FramesTalked ==
  ASSUME NEW c, Talks(c)
  PROVE  /\ c.frames \in Seq(Range(c.frames)) /\ Len(c.frames) \in Nat
         /\ DOMAIN c.frames = 1 .. Len(c.frames)
         /\ \A n \in 1 .. Len(c.frames) : IsClientFrame(c.frames[n])
<1>1. c.frames \in Seq(Range(c.frames)) /\ \A f \in Range(c.frames) : IsClientFrame(f)
  BY DEF Talks
<1>2. Len(c.frames) \in Nat /\ DOMAIN c.frames = 1 .. Len(c.frames)
  BY <1>1, LenProperties
<1>3. \A n \in 1 .. Len(c.frames) : c.frames[n] \in Range(c.frames)
  BY <1>1, ElementOfSeq
<1> QED
  BY <1>1, <1>2, <1>3

(* What is left after the n-th frame is a sequence of bytes, for every n.     *)
LEMMA LeftIs ==
  ASSUME NEW c, Talks(c)
  PROVE  Left(c) \in Lefts(c)
<1>1. /\ Len(c.frames) \in Nat /\ DOMAIN c.frames = 1 .. Len(c.frames)
      /\ \A n \in 1 .. Len(c.frames) : IsClientFrame(c.frames[n])
  BY FramesTalked
<1> DEFINE seqs == [i \in DOMAIN c.frames |-> ClientFrame(c.frames[i])]
<1>2. seqs \in [1 .. Len(c.frames) -> Seq(Byte)]
  BY <1>1, FrameIsBytes
<1>3. \A n \in 1 .. Len(c.frames) : seqs[n] = ClientFrame(c.frames[n])
  BY <1>1
<1>4. FramesOf(c) = FlattenSeq(seqs)
  BY Zenon DEF FramesOf
<1> HIDE DEF seqs
<1>5. PICK left \in [0 .. Len(c.frames) -> Seq(Byte)] :
        /\ left[0] = FlattenSeq(seqs) /\ left[Len(c.frames)] = <<>>
        /\ \A n \in 1 .. Len(c.frames) : left[n - 1] = seqs[n] \o left[n]
  <2>1. LeftOver(Len(c.frames), Byte, seqs) # {}
    BY <1>1, <1>2, Leftovers
  <2> QED
    BY <2>1 DEF LeftOver
<1>6. left \in Lefts(c)
  BY <1>3, <1>4, <1>5 DEF Lefts
<1> QED
  BY <1>6 DEF Left

-----------------------------------------------------------------------------
(* What the client is told.                                                   *)

ToForward == Brought(client.frames, Messages(client))
ToPong == Brought(client.frames, Pings(client))
PongsIn(s) == {i \in DOMAIN s : s[i].type = "pong"}

(* What the client is told one after the other, and the pongs among it.       *)
LEMMA PongsCounted ==
  ASSUME NEW S, NEW s \in Seq(S), NEW x \in S
  PROVE  /\ Cardinality(PongsIn(s)) \in Nat
         /\ x.type = "pong" => Cardinality(PongsIn(Append(s, x))) = Cardinality(PongsIn(s)) + 1
         /\ x.type # "pong" => Cardinality(PongsIn(Append(s, x))) = Cardinality(PongsIn(s))
<1>1. DOMAIN s = 1 .. Len(s) /\ Len(s) \in Nat
  BY LenProperties
<1>2. PICK t : t = Append(s, x)
  OBVIOUS
<1>3. /\ DOMAIN t = 1 .. Len(s) + 1 /\ t[Len(s) + 1] = x
      /\ \A i \in 1 .. Len(s) : t[i] = s[i]
  <2>1. t \in Seq(S) /\ Len(t) = Len(s) + 1
    BY <1>2, AppendProperties
  <2>2. DOMAIN t = 1 .. Len(t)
    BY <2>1, LenProperties
  <2> QED
    BY <1>1, <1>2, <2>1, <2>2, AppendProperties
<1>4. IsFiniteSet(PongsIn(s)) /\ Cardinality(PongsIn(s)) \in Nat
  <2>1. IsFiniteSet(1 .. Len(s)) /\ PongsIn(s) \subseteq 1 .. Len(s)
    BY <1>1, FS_Interval DEF PongsIn
  <2> QED
    BY <2>1, FS_Subset, FS_CardinalityType
<1>5. Len(s) + 1 \notin PongsIn(s)
  BY <1>1 DEF PongsIn
<1>6. 1 .. Len(s) + 1 = (1 .. Len(s)) \cup {Len(s) + 1}
  BY <1>1
<1>7. CASE x.type = "pong"
  <2>1. PongsIn(t) = PongsIn(s) \cup {Len(s) + 1}
    BY <1>1, <1>3, <1>6, <1>7 DEF PongsIn
  <2>2. Cardinality(PongsIn(s) \cup {Len(s) + 1}) = Cardinality(PongsIn(s)) + 1
    BY <1>4, <1>5, FS_AddElement
  <2> QED
    BY <1>2, <1>4, <1>7, <2>1, <2>2
<1>8. CASE x.type # "pong"
  <2>1. PongsIn(t) = PongsIn(s)
    BY <1>1, <1>3, <1>6, <1>8 DEF PongsIn
  <2> QED
    BY <1>2, <1>4, <1>8, <2>1
<1> QED
  BY <1>7, <1>8

LEMMA SeenIsSeq ==
  ASSUME NEW S, toClient \in Seq(S)
  PROVE  Seen \in Seq({Told_as(t) : t \in S})
<1> DEFINE T == {Told_as(t) : t \in S}
<1>1. DOMAIN toClient = 1 .. Len(toClient) /\ Len(toClient) \in Nat
  BY LenProperties
<1>2. \A i \in 1 .. Len(toClient) : Told_as(toClient[i]) \in T
  BY ElementOfSeq
<1>3. Seen \in [1 .. Len(toClient) -> T]
  <2> HIDE DEF T
  <2> QED
    BY <1>1, <1>2 DEF Seen
<1> HIDE DEF T
<1> QED
  BY <1>1, <1>3, FunctionIsSeq DEF T

LEMMA SeenGrows ==
  ASSUME NEW S, toClient \in Seq(S), NEW t, toClient' = Append(toClient, t)
  PROVE  /\ Seen' = Append(Seen, Told_as(t)) /\ Cardinality(PongsIn(Seen)) \in Nat
         /\ Told_as(t).type = "pong" => Cardinality(PongsIn(Seen')) = Cardinality(PongsIn(Seen)) + 1
         /\ Told_as(t).type # "pong" => Cardinality(PongsIn(Seen')) = Cardinality(PongsIn(Seen))
<1> DEFINE U == S \cup {t}
           T == {Told_as(u) : u \in U}
<1>1. toClient \in Seq(U) /\ t \in U /\ Told_as(t) \in T
  BY SeqMonotonic
<1> HIDE DEF U
<1>2. Seen \in Seq(T)
  BY <1>1, SeenIsSeq
<1> HIDE DEF T
<1>3. /\ DOMAIN toClient = 1 .. Len(toClient) /\ Len(toClient) \in Nat
      /\ DOMAIN Seen = 1 .. Len(toClient)
      /\ \A i \in 1 .. Len(toClient) : Seen[i] = Told_as(toClient[i])
  <2>1. DOMAIN toClient = 1 .. Len(toClient) /\ Len(toClient) \in Nat
    BY LenProperties
  <2> QED
    BY <2>1 DEF Seen
<1>4. Len(Seen) = Len(toClient)
  BY <1>2, <1>3, LenProperties
<1>5. /\ DOMAIN toClient' = 1 .. Len(toClient) + 1 /\ toClient'[Len(toClient) + 1] = t
      /\ \A i \in 1 .. Len(toClient) : toClient'[i] = toClient[i]
  <2>1. toClient' \in Seq(U) /\ Len(toClient') = Len(toClient) + 1
    BY <1>1, AppendProperties
  <2>2. DOMAIN toClient' = 1 .. Len(toClient')
    BY <2>1, LenProperties
  <2> QED
    BY <1>1, <1>3, <2>1, <2>2, AppendProperties
<1>6. Seen' = [i \in 1 .. Len(toClient) + 1 |-> Told_as(toClient'[i])]
  BY <1>5 DEF Seen, Told_as
<1>7. PICK w : w = Append(Seen, Told_as(t))
  OBVIOUS
<1>8. /\ w \in Seq(T) /\ Len(w) = Len(toClient) + 1 /\ w[Len(toClient) + 1] = Told_as(t)
      /\ \A i \in 1 .. Len(toClient) : w[i] = Seen[i]
  BY <1>1, <1>2, <1>4, <1>7, AppendProperties
<1>9. w = [i \in 1 .. Len(toClient) + 1 |-> w[i]]
  BY <1>8, LenProperties
<1>10. ASSUME NEW i \in 1 .. Len(toClient) + 1 PROVE w[i] = Told_as(toClient'[i])
  <2>1. CASE i = Len(toClient) + 1
    BY <1>5, <1>8, <2>1
  <2>2. CASE i # Len(toClient) + 1
    <3>1. i \in 1 .. Len(toClient)
      BY <1>3, <2>2
    <3> QED
      BY <1>3, <1>5, <1>8, <3>1
  <2> QED
    BY <2>1, <2>2
<1>11. Seen' = w
  BY <1>6, <1>9, <1>10
<1> QED
  BY <1>1, <1>2, <1>7, <1>11, PongsCounted

-----------------------------------------------------------------------------
(* The connection keeps the promise of Session.                               *)

(* The session of a client that talks: its first n frames have been handled,  *)
(* what they bring has been passed on, and what is read and not yet handled   *)
(* is the beginning of what is left.                                          *)
TalkAt(n) ==
  /\ n \in 0 .. Len(client.frames)
  /\ \A i \in 1 .. n : ~Ends(client.frames[i])
  /\ toPeer = ToForward[n]
  /\ Cardinality(PongsIn(Seen)) = Len(ToPong[n])
  /\ state = "open" => buf \o unsent = Left(client)[n]
TalkInv ==
  Talks(client) => /\ Handshake => TalkAt(0)
                   /\ state = "open" => \E n \in 0 .. Len(client.frames) : TalkAt(n)

(* The frame at the head of the buffer is the client's next, read as the      *)
(* client meant it.                                                           *)
NextFrame(n) == client.frames[n + 1]
LEMMA FrameTalked ==
  ASSUME IInv, Talks(client), NEW n, TalkAt(n), state = "open", FrameAt
  PROVE  /\ n + 1 \in 1 .. Len(client.frames) /\ Payload(buf) = NextFrame(n).data
         /\ WS_GET_OP(buf[1]) = NextFrame(n).op
         /\ WS_GET_MASK(buf[2]) <=> NextFrame(n).key # <<>>
         /\ FrameDone => buf' \o unsent' = Left(client)[n + 1]
<1>1. /\ Len(client.frames) \in Nat
      /\ \A i \in 1 .. Len(client.frames) : IsClientFrame(client.frames[i])
      /\ n \in 0 .. Len(client.frames)
  BY FramesTalked DEF TalkAt
<1>2. PICK left \in [0 .. Len(client.frames) -> Seq(Byte)] :
        /\ left = Left(client) /\ left[Len(client.frames)] = <<>>
        /\ \A i \in 1 .. Len(client.frames) : left[i - 1] = ClientFrame(client.frames[i]) \o left[i]
  BY LeftIs DEF Lefts
<1>3. PICK z \in Seq(Byte) : z = left[n] /\ z = buf \o unsent
  BY <1>1, <1>2 DEF TalkAt
<1>4. buf \in Seq(Nat) /\ unsent \in Seq(Nat)
  BY DEF IInv, BufInv, WireInv
<1>5. buf \in Seq(Byte) /\ unsent \in Seq(Byte)
  BY <1>3, <1>4, PartsOfSeq
<1>6. Len(buf) \in Nat /\ Len(unsent) \in Nat /\ Len(buf) >= 2 /\ HasFrame(buf)
  BY <1>5, LenProperties DEF FrameAt, HasFrame
<1>7. n # Len(client.frames)
  <2>1. SUFFICES ASSUME n = Len(client.frames) PROVE FALSE
    OBVIOUS
  <2>2. z = <<>>
    BY <1>2, <1>3, <2>1
  <2>3. Len(z) = Len(buf) + Len(unsent)
    BY <1>3, <1>5, FirstPart
  <2>4. Len(z) = 0
    BY <2>2
  <2> QED
    BY <1>6, <2>3, <2>4
<1>8. n + 1 \in 1 .. Len(client.frames) /\ (n + 1) - 1 = n /\ n + 1 \in 0 .. Len(client.frames)
  BY <1>1, <1>7
<1>9. PICK f : f = NextFrame(n) /\ IsClientFrame(f)
  BY <1>1, <1>8 DEF NextFrame
<1>10. PICK frame \in Seq(Byte), rest \in Seq(Byte) :
         frame = ClientFrame(f) /\ rest = left[n + 1] /\ z = frame \o rest /\ Len(frame) >= 2
  BY <1>2, <1>3, <1>8, <1>9, FrameIsBytes DEF NextFrame
<1>11. /\ Len(z) = Len(buf) + Len(unsent) /\ \A i \in 1 .. Len(buf) : z[i] = buf[i]
  BY <1>3, <1>5, FirstPart
<1>12. /\ Len(z) = Len(frame) + Len(rest) /\ \A i \in 1 .. Len(frame) : z[i] = frame[i]
  BY <1>10, FirstPart
<1>13. Agrees(buf, frame)
  <2>1. ASSUME NEW i \in 1 .. Len(buf), i <= Len(frame) PROVE buf[i] = frame[i]
    <3>1. i \in 1 .. Len(frame)
      BY <2>1, <1>10, LenProperties
    <3> QED
      BY <1>11, <1>12, <3>1
  <2> QED
    BY <2>1 DEF Agrees
<1>14. /\ Len(buf) >= Len(frame) /\ FrameLen(buf) = Len(frame) /\ Payload(buf) = f.data
       /\ WS_GET_OP(buf[1]) = f.op
       /\ WS_GET_MASK(buf[2]) <=> f.key # <<>>
  BY <1>5, <1>6, <1>9, <1>10, <1>13, FrameRead
<1>15. ASSUME FrameDone PROVE buf' \o unsent' = rest
  <2>1. unsent' = unsent /\ buf' = SubSeq(buf, Len(frame) + 1, Len(buf))
    BY <1>14, <1>15 DEF FrameDone, wire
  <2>2. Len(frame) \in 1 .. Len(buf)
    BY <1>6, <1>10, <1>14, LenProperties
  <2>3. SubSeq(z, Len(frame) + 1, Len(z)) = SubSeq(buf, Len(frame) + 1, Len(buf)) \o unsent
    BY <1>3, <1>5, <2>2, TakenFromFirst
  <2>4. SubSeq(z, Len(frame) + 1, Len(z)) = rest
    BY <1>10, SecondPart
  <2> QED
    BY <2>1, <2>3, <2>4
<1> QED
  BY <1>2, <1>8, <1>9, <1>10, <1>14, <1>15

(* After the blank line of its request, a client has its frames left.         *)
LEMMA FramesAreLeft ==
  ASSUME IInv, UpgradeInv, Position = Len(client.request)
  PROVE  unsent = FramesOf(client)
<1>1. /\ Stream \in Seq(Nat) /\ Len(Stream) \in Nat /\ Len(unsent) \in Nat /\ unsent \in Seq(Nat)
      /\ Len(unsent) <= Len(Stream)
      /\ \A i \in 1 .. Len(unsent) : unsent[i] = Stream[Len(Stream) - Len(unsent) + i]
  BY StreamIsSeq DEF IInv, WireInv, UpgradeInv, RestInv
<1>2. client.request \in Seq(Nat) /\ FramesOf(client) \in Seq(Nat)
  <2>1. Byte \subseteq Nat
    BY DEF Byte
  <2> QED
    BY <2>1, ClientsAssumption, SeqMonotonic DEF IInv, WireInv
<1>3. PICK r \in Seq(Nat), t \in Seq(Nat) : r = client.request /\ t = FramesOf(client)
  BY <1>2
<1>4. /\ Len(r) \in Nat /\ Len(t) \in Nat /\ Len(Stream) = Len(r) + Len(t)
      /\ \A i \in 1 .. Len(t) : Stream[Len(r) + i] = t[i]
  <2>1. Stream = r \o t
    BY <1>3 DEF Stream
  <2> QED
    BY <1>3, <2>1, ConcatProperties, LenProperties
<1>5. Len(unsent) = Len(t) /\ Len(Stream) - Len(unsent) = Len(r)
  <2>1. Len(Stream) - Len(unsent) = Len(r)
    BY <1>3 DEF Position
  <2> QED
    BY <1>1, <1>4, <2>1
<1>6. \A i \in 1 .. Len(unsent) : unsent[i] = t[i]
  BY <1>1, <1>4, <1>5
<1>7. unsent = t
  BY <1>1, <1>5, <1>6, SeqEqual
<1> QED
  BY <1>3, <1>7

(* What ws_close and the refusals say, as the client reads it.                *)
LEMMA ReasonRead == Told_as(Frame("close", ReasonText)) = [type |-> "close", data |-> ReasonText]
<1>1. ReasonText \in Seq(Byte) /\ Len(ReasonText) = 1
  BY DEF ReasonText, Byte
<1>2. 1 < Power[WideBytes]
  <2>1. WideBytes \in 1 .. WideBytes /\ WideBytes - 1 \in 0 .. WideBytes
    BY CodecAssumption
  <2>2. PICK p \in Nat : p = Power[WideBytes - 1] /\ p > 0
    BY <2>1, Powers
  <2>3. Power[WideBytes] = 256 * p
    BY <2>1, <2>2, Powers
  <2> QED
    BY <2>2, <2>3
<1>3. ClientReads(ws_send_frame("close", ReasonText)) = [type |-> "close", data |-> ReasonText]
  <2>1. "close" \in Op
    BY DEF Op
  <2> QED
    BY <1>1, <1>2, <2>1, ClientReadsWhatIsSent
<1> QED
  BY <1>3 DEF Told_as, Frame

LEMMA AnswersRead ==
  ASSUME NEW code \in {"101", "426", "500"}
  PROVE  Told_as(Answer(code)) = [type |-> code, data |-> <<>>]
  BY DEF Told_as, Answer

LEMMA OneTold ==
  ASSUME NEW S, toClient \in Seq(S), NEW t, toClient' = toClient \o <<t>>
  PROVE  Seen' = Append(Seen, Told_as(t))
<1>1. toClient' = Append(toClient, t)
  <2> DEFINE T == S \cup {t}
  <2>1. toClient \in Seq(T) /\ t \in T
    BY SeqMonotonic
  <2> HIDE DEF T
  <2> QED
    BY <2>1, AppendIsConcat
<1> QED
  BY <1>1, SeenGrows

LEMMA EndTold ==
  ASSUME SlotInv, TellInv, NEW reason \in {"", "reason", "426", "500"},
         toClient' \in {toClient, toClient \o Told(reason)}
  PROVE  /\ Handshake => Seen' \in {Seen} \cup {Append(Seen, [type |-> code, data |-> <<>>]) :
                                                   code \in {"426", "500"}}
         /\ state = "open" => Seen' \in {Seen, Append(Seen, [type |-> "close", data |-> ReasonText])}
<1>1. PICK S : toClient \in Seq(S)
  BY DEF TellInv
<1>2. CASE toClient' = toClient \/ Told(reason) = <<>>
  <2>1. toClient' = toClient
    BY <1>1, <1>2, ConcatEmptySeq
  <2>2. Seen' = Seen
    BY <2>1 DEF Seen, Told_as
  <2> QED
    BY <2>2
<1>3. CASE toClient' # toClient /\ Told(reason) # <<>>
  <2>1. toClient' = toClient \o Told(reason)
    BY <1>3
  <2>2. CASE state = "open"
    <3>1. Told(reason) = <<Frame("close", ReasonText)>>
      BY <1>3, <2>2 DEF Told
    <3>2. Seen' = Append(Seen, [type |-> "close", data |-> ReasonText])
      BY <1>1, <2>1, <3>1, OneTold, ReasonRead
    <3> QED
      BY <2>2, <3>2 DEF Handshake
  <2>3. CASE Handshake
    <3>1. reason \in {"426", "500"} /\ Told(reason) = <<Answer(reason)>>
      BY <1>3, <2>3 DEF Told, Handshake
    <3>2. Seen' = Append(Seen, [type |-> reason, data |-> <<>>])
      BY <1>1, <2>1, <3>1, OneTold, AnswersRead
    <3> QED
      BY <2>3, <3>1, <3>2 DEF Handshake
  <2> QED
    BY <2>2, <2>3
<1> QED
  BY <1>2, <1>3

(* What the next frame adds to what is to be forwarded and answered.          *)
LEMMA Brings ==
  ASSUME WireInv, Talks(client)
  PROVE  /\ IsBrought(ToForward, client.frames, Messages(client), SentPayloads)
         /\ IsBrought(ToPong, client.frames, Pings(client), SentPayloads)
         /\ client.frames \in Seq(Range(client.frames))
         /\ \A f \in Range(client.frames) : f.data \in SentPayloads
<1>1. client \in Clients /\ client.frames \in Seq(Range(client.frames))
  BY FramesTalked DEF WireInv
<1>2. \A f \in Range(client.frames) : f.data \in SentPayloads
  BY <1>1 DEF SentPayloads
<1>3. PICK R, D : R = Range(client.frames) /\ D = SentPayloads
  OBVIOUS
<1>4. client.frames \in Seq(R) /\ \A f \in R : f.data \in D
  BY <1>1, <1>2, <1>3
<1>5. /\ IsBrought(ToForward, client.frames, Messages(client), D)
      /\ IsBrought(ToPong, client.frames, Pings(client), D)
  BY <1>4, BroughtIs DEF ToForward, ToPong
<1> QED
  BY <1>1, <1>2, <1>3, <1>5

LEMMA BringsNext ==
  ASSUME WireInv, Talks(client), NEW n \in 0 .. Len(client.frames), n + 1 \in 1 .. Len(client.frames)
  PROVE  /\ ToForward[n] \in Seq(SentPayloads) /\ ToPong[n] \in Seq(SentPayloads)
         /\ n + 1 \in Messages(client) =>
              /\ ToForward[n + 1] = Append(ToForward[n], NextFrame(n).data)
              /\ Len(ToForward[n]) < Len(MessagesOf(client))
              /\ MessagesOf(client)[Len(ToForward[n]) + 1] = NextFrame(n).data
         /\ n + 1 \notin Messages(client) => ToForward[n + 1] = ToForward[n]
         /\ n + 1 \in Pings(client) =>
              /\ Len(ToPong[n + 1]) = Len(ToPong[n]) + 1
              /\ Len(ToPong[n]) < Len(PingsOf(client))
              /\ PingsOf(client)[Len(ToPong[n]) + 1] = NextFrame(n).data
         /\ n + 1 \notin Pings(client) => ToPong[n + 1] = ToPong[n]
<1>1. PICK m \in 1 .. Len(client.frames) : m = n + 1 /\ m - 1 = n
  OBVIOUS
<1>2. PICK frames, R, D, fwd, png, msgs, pngs :
        /\ frames = client.frames /\ R = Range(client.frames) /\ D = SentPayloads
        /\ fwd = ToForward /\ png = ToPong /\ msgs = Messages(client) /\ pngs = Pings(client)
  OBVIOUS
<1>3. /\ IsBrought(fwd, frames, msgs, D) /\ IsBrought(png, frames, pngs, D)
      /\ frames \in Seq(R) /\ \A f \in R : f.data \in D
  BY <1>2, Brings
<1>4. m \in 1 .. Len(frames) /\ n \in 0 .. Len(frames)
  BY <1>1, <1>2
<1>5. /\ fwd[n] \in Seq(D) /\ png[n] \in Seq(D)
      /\ m \in msgs => fwd[m] = Append(fwd[n], frames[m].data)
      /\ m \notin msgs => fwd[m] = fwd[n]
      /\ m \in pngs => png[m] = Append(png[n], frames[m].data)
      /\ m \notin pngs => png[m] = png[n]
  BY <1>1, <1>3, <1>4 DEF IsBrought
<1>6. /\ m \in msgs => /\ Len(fwd[n]) < Len(fwd[Len(frames)])
                       /\ fwd[Len(frames)][Len(fwd[n]) + 1] = frames[m].data
      /\ m \in pngs => /\ Len(png[n]) < Len(png[Len(frames)])
                       /\ png[Len(frames)][Len(png[n]) + 1] = frames[m].data
  <2>1. fwd = Brought(frames, msgs) /\ png = Brought(frames, pngs)
    BY <1>2 DEF ToForward, ToPong
  <2>2. ASSUME m \in msgs
        PROVE  /\ Len(Brought(frames, msgs)[m - 1]) < Len(Brought(frames, msgs)[Len(frames)])
               /\ Brought(frames, msgs)[Len(frames)][Len(Brought(frames, msgs)[m - 1]) + 1] = frames[m].data
    BY <1>3, <1>4, <2>2, BroughtGrows
  <2>3. ASSUME m \in pngs
        PROVE  /\ Len(Brought(frames, pngs)[m - 1]) < Len(Brought(frames, pngs)[Len(frames)])
               /\ Brought(frames, pngs)[Len(frames)][Len(Brought(frames, pngs)[m - 1]) + 1] = frames[m].data
    BY <1>3, <1>4, <2>3, BroughtGrows
  <2> QED
    BY <1>1, <2>1, <2>2, <2>3
<1>7. m \in pngs => Len(png[m]) = Len(png[n]) + 1
  <2>1. PICK x \in Seq(D) : x = png[n]
    BY <1>5
  <2>2. frames[m].data \in D
    BY <1>3, <1>4, ElementOfSeq
  <2>3. Len(Append(x, frames[m].data)) = Len(x) + 1
    BY <2>2, AppendProperties
  <2> QED
    BY <1>5, <2>1, <2>3
<1>8. /\ MessagesOf(client) = fwd[Len(frames)] /\ PingsOf(client) = png[Len(frames)]
      /\ NextFrame(n) = frames[m]
  BY <1>1, <1>2 DEF MessagesOf, PingsOf, ToForward, ToPong, NextFrame
<1> QED
  BY <1>1, <1>2, <1>5, <1>6, <1>7, <1>8

(* What a frame is by its opcode.                                             *)
LEMMA FrameKept ==
  ASSUME Talks(client), NEW n \in Nat, n + 1 \in 1 .. Len(client.frames),
         \A i \in 1 .. n : ~Ends(client.frames[i]), NextFrame(n).key # <<>>,
         NEW op \in {"text", "binary", "ping", "pong"}, NextFrame(n).op = OpCode[op]
  PROVE  /\ \A i \in 1 .. n + 1 : ~Ends(client.frames[i])
         /\ n + 1 \in Messages(client) <=> op \in {"text", "binary"} /\ NextFrame(n).data # <<>>
         /\ n + 1 \in Pings(client) <=> op = "ping"
<1>1. PICK f : f = NextFrame(n) /\ f = client.frames[n + 1]
  BY DEF NextFrame
<1>2. ~Ends(f)
  BY <1>1 DEF Ends
<1>3. \A i \in 1 .. n + 1 : ~Ends(client.frames[i])
  <2>1. \A i \in 1 .. n + 1 : i \in 1 .. n \/ i = n + 1
    OBVIOUS
  <2> QED
    BY <1>1, <1>2, <2>1
<1>4. n + 1 \in Accepted(client)
  <2>1. n + 1 \in DOMAIN client.frames
    BY FramesTalked
  <2> QED
    BY <1>3, <2>1 DEF Accepted
<1>5. /\ f.op = OpCode["text"] <=> op = "text"
      /\ f.op = OpCode["binary"] <=> op = "binary"
      /\ f.op = OpCode["ping"] <=> op = "ping"
  <2>1. op \in Op /\ "text" \in Op /\ "binary" \in Op /\ "ping" \in Op
    BY DEF Op
  <2> QED
    BY <1>1, <2>1, OpCodesDiffer
<1>6. n + 1 \in Messages(client) <=> op \in {"text", "binary"} /\ f.data # <<>>
  <2>1. n + 1 \in Messages(client) <=> f.op \in {OpCode["text"], OpCode["binary"]} /\ f.data # <<>>
    BY <1>1, <1>4 DEF Messages
  <2> QED
    BY <1>5, <2>1
<1>7. n + 1 \in Pings(client) <=> op = "ping"
  <2>1. n + 1 \in Pings(client) <=> f.op = OpCode["ping"]
    BY <1>1, <1>4 DEF Pings
  <2> QED
    BY <1>5, <2>1
<1> QED
  BY <1>1, <1>3, <1>6, <1>7

(* Steps of the promise.                                                      *)
LEMMA RefusedIs ==
  ASSUME SlotInv, TellInv, Handshake, client' = client, toPeer' = toPeer, state' = "closed",
         NEW reason \in {"", "reason", "426", "500"}, toClient' \in {toClient, toClient \o Told(reason)}
  PROVE  Promise!Refuse
<1>1. phase = "handshake" /\ phase' = "closed"
  BY DEF phase, Handshake
<1>2. Seen' \in {Seen} \cup {Append(Seen, [type |-> code, data |-> <<>>]) : code \in {"426", "500"}}
  BY EndTold
<1>3. MessagesOf(client)' = MessagesOf(client) /\ PingsOf(client)' = PingsOf(client)
  BY DEF MessagesOf, PingsOf
<1> QED
  BY <1>1, <1>2, <1>3 DEF Promise!Refuse, Promise!Told, Promise!Refusals

LEMMA ClosedIs ==
  ASSUME SlotInv, TellInv, state = "open", client' = client, state' = "closed",
         toPeer' \in {toPeer} \cup {Append(toPeer, part) : part \in Promise!Cut},
         NEW reason \in {"", "reason", "426", "500"}, toClient' \in {toClient, toClient \o Told(reason)}
  PROVE  Promise!Close
<1>1. phase = "open" /\ phase' = "closed"
  BY DEF phase
<1>2. Seen' \in {Seen, Append(Seen, [type |-> "close", data |-> ReasonText])}
  BY EndTold
<1>3. MessagesOf(client)' = MessagesOf(client) /\ PingsOf(client)' = PingsOf(client)
  BY DEF MessagesOf, PingsOf
<1> QED
  BY <1>1, <1>2, <1>3 DEF Promise!Close, Promise!Told

(* The connection ends without anything sent to the peer.                     *)
LEMMA EndIs ==
  ASSUME SlotInv, TellInv, ws_fd, client' = client, toPeer' = toPeer, state' = "closed",
         NEW reason \in {"", "reason", "426", "500"}, toClient' \in {toClient, toClient \o Told(reason)}
  PROVE  [Promise!Next]_(Promise!vars)
<1>1. Handshake \/ state = "open"
  BY DEF SlotInv, Handshake
<1>2. CASE Handshake
  BY <1>2, RefusedIs DEF Promise!Next
<1>3. CASE state = "open"
  BY <1>3, ClosedIs DEF Promise!Next
<1> QED
  BY <1>1, <1>2, <1>3

LEMMA NothingPromised ==
  ASSUME UNCHANGED <<client, toPeer, toClient>>, phase' = phase
  PROVE  UNCHANGED Promise!vars
<1>1. Seen' = Seen
  BY DEF Seen, Told_as
<1>2. MessagesOf(client)' = MessagesOf(client) /\ PingsOf(client)' = PingsOf(client)
  BY DEF MessagesOf, PingsOf
<1> QED
  BY <1>1, <1>2 DEF Promise!vars

(* Once the connection has ended there is nothing left of the session.        *)
LEMMA TalkEnds == ASSUME state' = "closed" PROVE TalkInv'
  BY DEF TalkInv, Handshake

LEMMA TalkSame ==
  ASSUME UNCHANGED <<client, toPeer, toClient>>
  PROVE  /\ ToForward' = ToForward /\ ToPong' = ToPong /\ Seen' = Seen
         /\ Left(client)' = Left(client) /\ client.frames' = client.frames
         /\ Cardinality(PongsIn(Seen))' = Cardinality(PongsIn(Seen))
         /\ \A i \in 1 .. Len(client.frames) : Ends(client.frames[i])' <=> Ends(client.frames[i])
  BY DEF ToForward, ToPong, Seen, Left, Lefts, Told_as, PongsIn, Ends


TalkStep == TalkInv' /\ [Promise!Next]_(Promise!vars)

(* A line of an open connection is never handled: nothing follows the blank   *)
(* line in its read.                                                          *)
LEMMA NoLineWhenOpen ==
  ASSUME IInv, PatientInv, Waits, LineAt, ws_fd
  PROVE  Handshake
<1>1. Handshake \/ state = "open"
  BY DEF IInv, SlotInv, Handshake
<1>2. ASSUME state = "open" PROVE FALSE
  <2>1. buf = <<>>
    BY <1>2 DEF PatientInv, LineAt
  <2>2. Breaks = {}
    BY <2>1 DEF Breaks, IInv, BufInv
  <2> QED
    BY <2>2 DEF LineAt
<1> QED
  BY <1>1, <1>2

(* A step of the handshake that ends nothing.                                 *)
LEMMA HandshakeGoesOn ==
  ASSUME TalkInv, Talks(client), Handshake, Handshake', UNCHANGED <<client, toPeer, toClient>>
  PROVE  TalkStep
<1>1. TalkAt(0)
  BY DEF TalkInv
<1>2. TalkAt(0)'
  <2>1. state' # "open"
    BY DEF Handshake
  <2> QED
    BY <1>1, <2>1, TalkSame DEF TalkAt
<1>3. TalkInv'
  BY <1>2 DEF TalkInv, Handshake
<1>4. phase' = phase
  BY DEF phase, Handshake
<1> QED
  BY <1>3, <1>4, NothingPromised DEF TalkStep

(* A line is a step of the handshake or refuses it.                           *)
LEMMA LinesTalk ==
  ASSUME IInv, UpgradeInv, PatientInv, TalkInv, Talks(client), Handshake, client' = client,
         \/ RequestLine \/ Header \/ HeaderRefused \/ UpgradeFails \/ UpgradeVersion \/ UpgradeIgnored
  PROVE  TalkStep
<1>1. CASE RequestLine \/ Header \/ UpgradeIgnored
  <2>1. Handshake' /\ UNCHANGED <<client, toPeer, toClient>>
    BY <1>1 DEF RequestLine, Header, UpgradeIgnored, LineDone, RemoveLine, slot, Handshake
  <2> QED
    BY <2>1, HandshakeGoesOn
<1>2. CASE HeaderRefused \/ UpgradeFails \/ UpgradeVersion
  <2>1. toPeer' = toPeer /\ state' = "closed"
    BY <1>2 DEF HeaderRefused, UpgradeFails, UpgradeVersion, LineCloses, RemoveLine, ws_close
  <2>2. PICK reason \in {"", "reason", "426", "500"} : toClient' \in {toClient, toClient \o Told(reason)}
    <3>1. toClient' \in {toClient, toClient \o Told("500")} \/ toClient' \in {toClient, toClient \o Told("426")}
      BY <1>2 DEF HeaderRefused, UpgradeFails, UpgradeVersion, LineCloses, ws_close
    <3> QED
      BY <3>1
  <2>3. Promise!Refuse
    BY <2>1, <2>2, RefusedIs DEF IInv, UpgradeInv
  <2> QED
    BY <2>1, <2>3, TalkEnds DEF TalkStep, Promise!Next
<1> QED
  BY <1>1, <1>2

(* The answer: the request has been read, its frames are what is left.        *)
LEMMA UpgradeTalks ==
  ASSUME IInv, UpgradeInv, PatientInv, TalkInv, Talks(client), Handshake, client' = client, Upgrade
  PROVE  TalkStep
<1>1. /\ BlankLine /\ RemoveLine(off) /\ state' = "open" /\ unsent' = unsent /\ toPeer' = toPeer
      /\ toClient' = Append(toClient, Answer("101"))
  BY DEF Upgrade, LineDone, RemoveLine, wire
<1>2. buf' = <<>> /\ Position = Len(client.request)
  BY <1>1, BlankIsLast DEF Talks, Waits
<1>3. PICK S : toClient \in Seq(S)
  BY DEF UpgradeInv, TellInv
<1>4. Told_as(Answer("101")) = [type |-> "101", data |-> <<>>]
  BY AnswersRead
<1>5. /\ Seen' = Append(Seen, [type |-> "101", data |-> <<>>])
      /\ Cardinality(PongsIn(Seen')) = Cardinality(PongsIn(Seen))
  BY <1>1, <1>3, <1>4, SeenGrows
<1>6. Promise!Accept
  <2>1. phase = "handshake" /\ phase' = "open"
    BY <1>1 DEF phase, Handshake
  <2>2. MessagesOf(client)' = MessagesOf(client) /\ PingsOf(client)' = PingsOf(client)
    BY DEF MessagesOf, PingsOf
  <2> QED
    BY <1>1, <1>5, <2>1, <2>2 DEF Promise!Accept, Promise!Told
<1>7. TalkAt(0)'
  <2>1. TalkAt(0)
    BY DEF TalkInv
  <2>2. buf' \o unsent' = Left(client)[0]
    <3>1. unsent \in Seq(Nat)
      BY DEF IInv, WireInv
    <3>2. <<>> \o unsent = unsent
      BY <3>1, ConcatEmptySeq
    <3>3. unsent = FramesOf(client)
      BY <1>2, FramesAreLeft
    <3>4. Left(client)[0] = FramesOf(client)
      BY LeftIs DEF Lefts
    <3> QED
      BY <1>1, <1>2, <3>2, <3>3, <3>4
  <2>3. ToForward' = ToForward /\ ToPong' = ToPong /\ Left(client)' = Left(client)
    BY DEF ToForward, ToPong, Left, Lefts
  <2> QED
    BY <1>1, <1>5, <2>1, <2>2, <2>3 DEF TalkAt
<1>8. 0 \in 0 .. Len(client.frames)'
  BY <1>7 DEF TalkAt
<1>9. TalkInv'
  BY <1>1, <1>7, <1>8 DEF TalkInv, Handshake
<1> QED
  BY <1>6, <1>9 DEF TalkStep, Promise!Next

(* What is read is the next part of what is left.                             *)
LEMMA OpenGoesOn ==
  ASSUME TalkInv, Talks(client), state = "open", state' = state,
         UNCHANGED <<client, toPeer, toClient>>, buf' \o unsent' = buf \o unsent
  PROVE  TalkStep
<1>1. PICK n \in 0 .. Len(client.frames) : TalkAt(n)
  BY DEF TalkInv
<1>2. TalkAt(n)'
  BY <1>1, TalkSame DEF TalkAt
<1>3. TalkInv'
  BY <1>1, <1>2 DEF TalkInv, Handshake
<1>4. phase' = phase
  BY DEF phase
<1> QED
  BY <1>3, <1>4, NothingPromised DEF TalkStep

LEMMA ReadsTalk ==
  ASSUME IInv, TalkInv, Talks(client), Receive
  PROVE  TalkStep
<1>1. UNCHANGED <<client, toPeer, toClient, state>> /\ ws_fd
  BY DEF Receive, slot
<1>2. CASE Handshake
  BY <1>1, <1>2, HandshakeGoesOn DEF Handshake
<1>3. CASE state = "open"
  <2>1. PICK k \in 1 .. MaySend : /\ buf' = buf \o SubSeq(unsent, 1, k)
                                  /\ unsent' = SubSeq(unsent, k + 1, Len(unsent))
    BY Zenon DEF Receive
  <2>2. k \in 1 .. Len(unsent) /\ buf \in Seq(Nat) /\ unsent \in Seq(Nat)
    BY SendsUnsent, LenProperties DEF IInv, WireInv, BufInv
  <2>3. buf' \o unsent' = buf \o unsent
    BY <2>1, <2>2, Rejoined
  <2> QED
    BY <1>1, <1>3, <2>3, OpenGoesOn
<1> QED
  BY <1>1, <1>2, <1>3 DEF Handshake, IInv, SlotInv

(* The end of a call leaves what is left as it is, or closes.                 *)
LEMMA EndsTalk ==
  ASSUME IInv, UpgradeInv, PatientInv, TalkInv, Talks(client), ws_fd, EndOfLines \/ EndOfFrames
  PROVE  TalkStep
<1>1. PICK offset, data : /\ CheckRoom(offset, data)
                          /\ \/ pc = "lines" /\ data = SubSeq(buf, 1, Len(buf) - off)
                             \/ data = buf
  BY DEF EndOfLines, EndOfFrames
<1>2. client' = client /\ toPeer' = toPeer /\ unsent' = unsent
  BY <1>1 DEF CheckRoom, wire
<1>3. CASE state' = "closed" /\ toClient' \in {toClient, toClient \o Told("reason")}
  BY <1>2, <1>3, EndIs, TalkEnds DEF TalkStep, IInv, UpgradeInv
<1>4. CASE UNCHANGED <<state, toClient>> /\ buf' = data
  <2>1. CASE Handshake
    BY <1>2, <1>4, <2>1, HandshakeGoesOn DEF Handshake
  <2>2. CASE state = "open"
    <3>1. data = buf
      <4>1. CASE pc = "lines" /\ data = SubSeq(buf, 1, Len(buf) - off)
        <5>1. buf = <<>> /\ off \in Nat
          BY <2>2, <4>1 DEF PatientInv, Talks, Waits, IInv, BufInv
        <5>2. Len(buf) = 0 /\ off <= Len(buf)
          BY <4>1, <5>1 DEF IInv, BufInv
        <5>3. SubSeq(buf, 1, 0) = <<>>
          BY SubSeqEmpty
        <5> QED
          BY <4>1, <5>1, <5>2, <5>3
      <4> QED
        BY <1>1, <4>1
    <3> QED
      BY <1>2, <1>4, <2>2, <3>1, OpenGoesOn
  <2> QED
    BY <2>1, <2>2 DEF Handshake, IInv, SlotInv
<1> QED
  BY <1>1, <1>3, <1>4 DEF CheckRoom, ws_close

(* A frame that is passed on: one more of the client's has been handled.      *)
LEMMA FrameGoesOn ==
  ASSUME IInv, TalkInv, Talks(client), state = "open", FrameAt, FrameDone,
         NEW n \in 0 .. Len(client.frames), TalkAt(n),
         \A i \in 1 .. n + 1 : ~Ends(client.frames[i]),
         toPeer' = ToForward[n + 1], Cardinality(PongsIn(Seen')) = Len(ToPong[n + 1])
  PROVE  TalkInv'
<1>1. client' = client /\ state' = state
  BY DEF FrameDone, wire, slot
<1>2. n + 1 \in 0 .. Len(client.frames) /\ buf' \o unsent' = Left(client)[n + 1]
  <2>1. n + 1 \in 1 .. Len(client.frames) /\ buf' \o unsent' = Left(client)[n + 1]
    BY FrameTalked
  <2> QED
    BY <2>1
<1>3. TalkAt(n + 1)'
  <2>1. /\ ToForward' = ToForward /\ ToPong' = ToPong /\ Left(client)' = Left(client)
        /\ \A i \in 1 .. n + 1 : Ends(client.frames[i])' <=> Ends(client.frames[i])
    BY <1>1 DEF ToForward, ToPong, Left, Lefts, Ends
  <2> QED
    BY <1>1, <1>2, <2>1 DEF TalkAt
<1> QED
  BY <1>1, <1>2, <1>3 DEF TalkInv, Handshake

(* Session counts as this module does.                                        *)
LEMMA SameCount == ASSUME NEW S PROVE Promise!Cardinality(S) = Cardinality(S)
  BY Zenon DEF Cardinality, Promise!Cardinality

(* Every frame of an open connection is a step of the promise, or none.       *)
LEMMA FramesTalk ==
  ASSUME IInv, UpgradeInv, TalkInv, Talks(client), state = "open", client' = client,
         Forward \/ ForwardFails \/ SendPong \/ IgnorePong \/ FrameEnds
  PROVE  TalkStep
<1>1. FrameAt /\ peer_fd /\ ws_fd
  BY DEF Forward, ForwardFails, SendPong, IgnorePong, FrameEnds, IInv, SlotInv
<1>2. PICK n \in 0 .. Len(client.frames) : TalkAt(n)
  BY DEF TalkInv
<1>3. /\ n \in Nat /\ n + 1 \in 1 .. Len(client.frames) /\ Payload(buf) = NextFrame(n).data
      /\ WS_GET_OP(buf[1]) = NextFrame(n).op
      /\ WS_GET_MASK(buf[2]) <=> NextFrame(n).key # <<>>
  BY <1>1, <1>2, FrameTalked
<1>4. /\ toPeer = ToForward[n] /\ Cardinality(PongsIn(Seen)) = Len(ToPong[n])
      /\ \A i \in 1 .. n : ~Ends(client.frames[i])
  BY <1>2 DEF TalkAt
<1>5. ASSUME NEW op \in {"text", "binary", "ping", "pong"}, IsOp(op)
      PROVE  /\ \A i \in 1 .. n + 1 : ~Ends(client.frames[i])
             /\ n + 1 \in Messages(client) <=> op \in {"text", "binary"} /\ NextFrame(n).data # <<>>
             /\ n + 1 \in Pings(client) <=> op = "ping"
  <2>1. NextFrame(n).key # <<>> /\ NextFrame(n).op = OpCode[op]
    BY <1>3, <1>5 DEF IsOp
  <2> QED
    BY <1>3, <1>4, <2>1, FrameKept
<1>6. WireInv /\ SlotInv /\ TellInv /\ phase = "open"
  BY DEF IInv, SlotInv, UpgradeInv, phase
<1>7. PICK S : toClient \in Seq(S)
  BY <1>6 DEF TellInv
<1>8. /\ n + 1 \in Messages(client) =>
           /\ ToForward[n + 1] = Append(toPeer, Payload(buf))
           /\ Len(toPeer) < Len(MessagesOf(client))
           /\ MessagesOf(client)[Len(toPeer) + 1] = Payload(buf)
      /\ n + 1 \notin Messages(client) => ToForward[n + 1] = toPeer
      /\ toPeer \in Seq(SentPayloads)
  BY <1>3, <1>4, <1>6, BringsNext
<1>9. /\ n + 1 \in Pings(client) =>
           /\ Len(ToPong[n + 1]) = Cardinality(PongsIn(Seen)) + 1
           /\ Cardinality(PongsIn(Seen)) < Len(PingsOf(client))
           /\ PingsOf(client)[Cardinality(PongsIn(Seen)) + 1] = Payload(buf)
      /\ n + 1 \notin Pings(client) => Len(ToPong[n + 1]) = Cardinality(PongsIn(Seen))
  BY <1>3, <1>4, <1>6, BringsNext
<1>10. MessagesOf(client)' = MessagesOf(client) /\ PingsOf(client)' = PingsOf(client)
  BY DEF MessagesOf, PingsOf
<1>11. CASE Forward
  <2>1. FrameDone /\ toClient' = toClient
    BY <1>11 DEF Forward
  <2>2. phase' = phase /\ Seen' = Seen
    BY <2>1 DEF FrameDone, slot, phase, Seen, Told_as
  <2>3. PICK op \in {"text", "binary"} : IsOp(op)
    BY <1>11 DEF Forward, IsMessage
  <2>4. /\ \A i \in 1 .. n + 1 : ~Ends(client.frames[i])
        /\ n + 1 \in Messages(client) <=> Payload(buf) # <<>>
        /\ n + 1 \notin Pings(client)
    BY <1>3, <1>5, <2>3
  <2>5. toPeer' = IF Payload(buf) = <<>> THEN toPeer ELSE Append(toPeer, Payload(buf))
    BY <1>1, <1>11 DEF Forward, network_send
  <2>6. toPeer' = ToForward[n + 1]
    BY <1>8, <2>4, <2>5
  <2>7. TalkInv'
    BY <1>1, <1>2, <1>9, <2>1, <2>2, <2>4, <2>6, FrameGoesOn
  <2>8. CASE n + 1 \in Messages(client)
    <3>1. Promise!Deliver
      BY <1>6, <1>8, <1>10, <2>2, <2>6, <2>8 DEF Promise!Deliver
    <3> QED
      BY <2>7, <3>1 DEF TalkStep, Promise!Next
  <2>9. CASE n + 1 \notin Messages(client)
    <3>1. toPeer' = toPeer
      BY <1>8, <2>6, <2>9
    <3> QED
      BY <2>1, <2>2, <2>7, <3>1, NothingPromised DEF TalkStep
  <2> QED
    BY <2>8, <2>9
<1>12. CASE ForwardFails
  <2>1. PICK op \in {"text", "binary"} : IsOp(op)
    BY <1>12 DEF ForwardFails, IsMessage
  <2>2. /\ Payload(buf) # <<>> /\ state' = "closed"
        /\ toClient' \in {toClient, toClient \o Told("reason")}
    BY <1>12 DEF ForwardFails, network_send_fails, FrameCloses, ws_close
  <2>3. /\ Len(toPeer) < Len(MessagesOf(client))
        /\ MessagesOf(client)[Len(toPeer) + 1] = Payload(buf)
    BY <1>3, <1>5, <1>8, <2>1, <2>2
  <2>4. PICK data \in Seq(Byte) : data = Payload(buf)
    <3>1. IsClientFrame(NextFrame(n))
      BY <1>3, FramesTalked DEF NextFrame
    <3> QED
      BY <1>3, <3>1, DataFits
  <2>5. PICK sent \in 0 .. Len(data) - 1 :
          toPeer' = IF sent = 0 THEN toPeer ELSE Append(toPeer, SubSeq(data, 1, sent))
    BY <1>12, <2>4 DEF ForwardFails, network_send_fails
  <2>6. Promise!Cut = {SubSeq(data, 1, k) : k \in 1 .. Len(data) - 1}
    <3>1. Len(toPeer) \in Nat /\ Len(toPeer) # Len(MessagesOf(client))
      BY <1>8, <2>3, LenProperties
    <3> QED
      BY <2>3, <2>4, <3>1 DEF Promise!Cut
  <2>7. toPeer' \in {toPeer} \cup {Append(toPeer, part) : part \in Promise!Cut}
    <3>1. sent # 0 => sent \in 1 .. Len(data) - 1
      OBVIOUS
    <3> QED
      BY <2>5, <2>6, <3>1
  <2>8. Promise!Close
    BY <1>6, <2>2, <2>7, ClosedIs
  <2> QED
    BY <2>2, <2>8, TalkEnds DEF TalkStep, Promise!Next
<1>13. CASE SendPong
  <2>1. FrameDone /\ toPeer' = toPeer /\ IsOp("ping")
    BY <1>13 DEF SendPong
  <2>2. phase' = phase
    BY <2>1 DEF FrameDone, slot, phase
  <2>3. /\ \A i \in 1 .. n + 1 : ~Ends(client.frames[i])
        /\ n + 1 \notin Messages(client) /\ n + 1 \in Pings(client)
    BY <1>5, <2>1
  <2>4. Told_as(Frame("pong", Payload(buf))) = [type |-> "pong", data |-> Payload(buf)]
    <3>1. IsClientFrame(NextFrame(n))
      BY <1>3, FramesTalked DEF NextFrame
    <3>2. Payload(buf) \in Seq(Byte) /\ Len(Payload(buf)) < Power[WideBytes]
      BY <1>3, <3>1, DataFits
    <3>3. "pong" \in Op
      BY DEF Op
    <3>4. ClientReads(ws_send_frame("pong", Payload(buf))) = [type |-> "pong", data |-> Payload(buf)]
      BY <3>2, <3>3, ClientReadsWhatIsSent
    <3> QED
      BY <3>4 DEF Told_as, Frame
  <2>5. toClient' = Append(toClient, Frame("pong", Payload(buf)))
    BY <1>13 DEF SendPong
  <2>6. /\ Seen' = Append(Seen, [type |-> "pong", data |-> Payload(buf)])
        /\ Cardinality(PongsIn(Seen')) = Cardinality(PongsIn(Seen)) + 1
    BY <1>7, <2>4, <2>5, SeenGrows
  <2>7. TalkInv'
    <3>1. toPeer' = ToForward[n + 1] /\ Cardinality(PongsIn(Seen')) = Len(ToPong[n + 1])
      BY <1>8, <1>9, <2>1, <2>3, <2>6
    <3> QED
      BY <1>1, <1>2, <2>1, <2>3, <3>1, FrameGoesOn
  <2>8. Promise!Pong
    <3>1. {i \in DOMAIN Seen : Seen[i].type = "pong"} = PongsIn(Seen)
      BY DEF PongsIn
    <3>2. PICK pongs : pongs = Cardinality(PongsIn(Seen)) /\ pongs = Promise!Cardinality(PongsIn(Seen))
      BY SameCount
    <3>3. /\ pongs < Len(PingsOf(client))
          /\ Seen' = Append(Seen, [type |-> "pong", data |-> PingsOf(client)[pongs + 1]])
      BY <1>9, <2>3, <2>6, <3>2
    <3> QED
      BY <1>6, <1>10, <2>1, <2>2, <3>1, <3>2, <3>3 DEF Promise!Pong, Promise!Told
  <2> QED
    BY <2>7, <2>8 DEF TalkStep, Promise!Next
<1>14. CASE IgnorePong
  <2>1. FrameDone /\ toPeer' = toPeer /\ toClient' = toClient /\ IsOp("pong")
    BY <1>14 DEF IgnorePong
  <2>2. phase' = phase /\ Seen' = Seen
    BY <2>1 DEF FrameDone, slot, phase, Seen, Told_as
  <2>3. /\ \A i \in 1 .. n + 1 : ~Ends(client.frames[i])
        /\ n + 1 \notin Messages(client) /\ n + 1 \notin Pings(client)
    BY <1>5, <2>1
  <2>4. toPeer' = ToForward[n + 1] /\ Cardinality(PongsIn(Seen')) = Len(ToPong[n + 1])
    BY <1>8, <1>9, <2>1, <2>2, <2>3
  <2>5. TalkInv'
    BY <1>1, <1>2, <2>1, <2>3, <2>4, FrameGoesOn
  <2> QED
    BY <2>1, <2>2, <2>5, NothingPromised DEF TalkStep
<1>15. CASE FrameEnds
  <2>1. /\ toPeer' = toPeer /\ state' = "closed"
        /\ toClient' \in {toClient, toClient \o Told("reason")}
    BY <1>15 DEF FrameEnds, FrameCloses, ws_close
  <2> QED
    BY <1>1, <1>6, <2>1, EndIs, TalkEnds DEF TalkStep
<1> QED
  BY <1>11, <1>12, <1>13, <1>14, <1>15

LEMMA TalkInitially == Init => TalkInv
<1> SUFFICES ASSUME Init, Talks(client) PROVE TalkInv
  BY DEF TalkInv
<1>1. /\ toPeer = <<>> /\ toClient = <<>> /\ state = "new" /\ WireInv
  BY Initially DEF Init, IInv
<1>2. ToForward[0] = <<>> /\ ToPong[0] = <<>>
  BY <1>1, Brings DEF IsBrought
<1>3. PongsIn(Seen) = {}
  BY <1>1 DEF Seen, PongsIn
<1>4. Cardinality(PongsIn(Seen)) = Len(ToPong[0])
  BY <1>2, <1>3, FS_EmptySet
<1>5. Len(client.frames) \in Nat
  BY FramesTalked
<1>6. TalkAt(0)
  BY <1>1, <1>2, <1>4, <1>5 DEF TalkAt
<1> QED
  BY <1>1, <1>6 DEF TalkInv

LEMMA PromiseInitially == Init /\ Talks(client) => Promise!Init
<1> SUFFICES ASSUME Init, Talks(client) PROVE Promise!Init
  OBVIOUS
<1>1. /\ toPeer = <<>> /\ toClient = <<>> /\ phase = "handshake" /\ WireInv
  BY Initially DEF Init, IInv, phase
<1>2. Len(client.frames) \in 0 .. Len(client.frames)
  BY FramesTalked
<1>3. MessagesOf(client) \in Seq(SentPayloads) /\ PingsOf(client) \in Seq(SentPayloads)
  <2>1. PICK N, fwd, png : N = Len(client.frames) /\ fwd = ToForward /\ png = ToPong
    OBVIOUS
  <2>2. fwd[N] \in Seq(SentPayloads) /\ png[N] \in Seq(SentPayloads)
    BY <1>1, <1>2, <2>1, Brings DEF IsBrought
  <2> QED
    BY <2>1, <2>2 DEF MessagesOf, PingsOf, ToForward, ToPong
<1>4. Seen = <<>>
  BY <1>1 DEF Seen
<1> QED
  BY <1>1, <1>3, <1>4 DEF Promise!Init

(* Every step of the connection is one of the promise, or none.               *)
LEMMA SessionStep ==
  IInv /\ UpgradeInv /\ ClosedInv /\ PatientInv /\ TalkInv /\ Talks(client) /\ [Next]_vars
    => Talks(client)' /\ TalkInv' /\ [Promise!Next]_(Promise!vars)
<1> SUFFICES ASSUME IInv, UpgradeInv, ClosedInv, PatientInv, TalkInv, Talks(client), [Next]_vars
             PROVE  Talks(client)' /\ TalkStep
  BY DEF TalkStep
<1>1. client' = client
  BY DEF Next, Handler, Receive, ReceiveEnds, LoopCloses, Closed, RequestLine, Header, HeaderRefused,
         Upgrade, UpgradeFails, QueryCrashes, UpgradeVersion, UpgradeIgnored, LineDone, LineCloses,
         RemoveLine, EndOfLines, EndOfFrames, CheckRoom, Forward, ForwardFails, SendPong, IgnorePong, FrameEnds,
         FrameDone, FrameCloses, wire, vars
<1>2. Talks(client)'
  BY <1>1 DEF Talks, OneBlank, LineEnds, Range, IsClientFrame
<1>3. Waits /\ state \in {"new", "http", "open", "closed"} /\ (state = "closed" <=> ~ws_fd)
  BY DEF Talks, Waits, IInv, SlotInv
<1>4. CASE ~ws_fd
  <2>1. UNCHANGED <<state, toClient, toPeer>> /\ state = "closed"
    BY <1>3, <1>4, SilentStep DEF Silence, UpgradeInv
  <2>2. phase' = phase
    BY <2>1 DEF phase
  <2> QED
    BY <1>1, <1>2, <2>1, <2>2, NothingPromised, TalkEnds DEF TalkStep
<1>5. CASE ws_fd /\ (\/ RequestLine \/ Header \/ HeaderRefused
                     \/ Upgrade \/ UpgradeFails \/ UpgradeVersion \/ UpgradeIgnored)
  <2>1. LineAt
    BY <1>5 DEF RequestLine, Header, HeaderRefused, Upgrade, UpgradeFails, UpgradeVersion,
           UpgradeIgnored, HeaderLine, BlankLine
  <2>2. Handshake
    BY <1>3, <1>5, <2>1, NoLineWhenOpen
  <2> QED
    BY <1>1, <1>2, <1>5, <2>2, LinesTalk, UpgradeTalks
<1>6. CASE ws_fd /\ (Forward \/ ForwardFails \/ SendPong \/ IgnorePong \/ FrameEnds)
  <2>1. pc = "frames"
    BY <1>6 DEF Forward, ForwardFails, SendPong, IgnorePong, FrameEnds, FrameAt
  <2>2. ~Handshake
    BY <1>3, <2>1 DEF PatientInv, RequestInv
  <2>3. state = "open"
    BY <1>3, <1>6, <2>2 DEF Handshake
  <2> QED
    BY <1>1, <1>2, <1>6, <2>3, FramesTalk
<1>7. CASE ws_fd /\ (EndOfLines \/ EndOfFrames)
  BY <1>2, <1>7, EndsTalk
<1>8. CASE Receive
  BY <1>2, <1>8, ReadsTalk
<1>9. CASE ReceiveEnds \/ LoopCloses
  <2>1. PICK reason \in {"", "reason", "426", "500"} : ws_close(reason)
    BY <1>9 DEF ReceiveEnds, LoopCloses
  <2>2. /\ ws_fd /\ toPeer' = toPeer /\ state' = "closed"
        /\ toClient' \in {toClient, toClient \o Told(reason)}
    BY <1>9, <2>1 DEF ReceiveEnds, LoopCloses, ws_close
  <2> QED
    BY <1>1, <1>2, <2>2, EndIs, TalkEnds DEF TalkStep, IInv, UpgradeInv
<1>10. CASE QueryCrashes \/ UNCHANGED vars
  <2>1. UNCHANGED <<client, state, toClient, toPeer, buf, unsent>>
    BY <1>10 DEF QueryCrashes, vars, slot, wire
  <2>2. CASE Handshake
    BY <1>2, <2>1, <2>2, HandshakeGoesOn DEF Handshake
  <2>3. CASE state = "open"
    BY <1>2, <2>1, <2>3, OpenGoesOn
  <2>4. CASE state = "closed"
    BY <1>3, <1>4, <2>4
  <2> QED
    BY <1>3, <2>2, <2>3, <2>4 DEF Handshake
<1> QED
  BY <1>4, <1>5, <1>6, <1>7, <1>8, <1>9, <1>10 DEF Next, Handler, Closed

(* For a client that sends one blank line, at the end of its request, waits   *)
(* for the answer and then sends any frames the RFC lets it send, the         *)
(* connection implements Session: however the stream is cut into reads, the   *)
(* messages reach the peer unmasked, whole and in order (ws_frame,            *)
(* websocket.c:290), every pong has its ping's payload, there is one answer,  *)
(* and a close may cut the last message, but nothing else.                    *)
THEOREM PatientKeepsPromise == Spec /\ Talks(client) => KeepsPromise
<1>1. Init => ClosedInv
  BY DEF Init, ClosedInv
<1> QED
  BY Initially, Inductive, UpgradeInitially, UpgradeInductive, ClosedInductive, PatientInitially,
     PatientInductive, TalkInitially, PromiseInitially, SessionStep, <1>1, PTL
     DEF Spec, KeepsPromise, Promise!Spec
=============================================================================
