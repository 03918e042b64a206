----------------------------- MODULE PeerStream -----------------------------
(* The way from a peer to its client: ws_peer_data, the framing functions     *)
(* that come with the program, and those of plugins as any function their     *)
(* interface allows.                                                          *)
(*                                                                            *)
(* A call of ws_peer_data is a Receive and one step for every call of the     *)
(* framing function.  What a framing function makes of its configuration when *)
(* it is first called is an operator of the peer.                             *)
EXTENDS Integers, Sequences, FiniteSetsExt, FrameCodec, FramingJson

CONSTANTS
  Peers,      \* [framing, configured, expression, newline, size, options, stream, cuts, sep]
  BufSize,    \* sizeof(peer_buffer)
  SizeBytes   \* bytes of dynamic32's length field, and of its arithmetic

ASSUME PeerBufSizeAssumption == BufSize \in Nat /\ BufSize >= 2
ASSUME PeerFrameAssumption == BufSize < Power[WideBytes]
ASSUME SizeBytesAssumption == SizeBytes \in Nat \ {0}

Functions == {"auto", "binary", "separator", "newline", "fixedlength", "dynamic32", "json",
              "plugin"}
ASSUME PeersAssumption ==
  \A p \in Peers : /\ p.framing \in Functions /\ p.configured \in BOOLEAN
                   /\ p.stream \in Seq(Byte) /\ p.size \in Nat

VARIABLES
  peer,                \* the peer, one of Peers
  unread,              \* what of its stream has not been received
  peer_buffer,         \* all bytes of the buffer
  peer_buffer_offset,  \* how many are data from earlier calls
  bytes_read,          \* how many behind them are data from this call
  opcode,
  framing_data,        \* what the framing function keeps: "none", "held", "freed"
                       \* or, when it has read what it had freed, "stale"
  pc,                  \* "idle" in main(), "framing" in the loop, "crashed"
  open,                \* are client and peer connected?
  broken,              \* has a send to the client failed?
  sent                 \* frames sent to the client

buffer == <<peer_buffer, peer_buffer_offset, bytes_read>>
vars == <<peer, unread, buffer, opcode, framing_data, pc, open, broken, sent>>

-----------------------------------------------------------------------------
(* Configurations.  These functions parse theirs in the first call and keep   *)
(* what they made of it; without one (NULL) that call crashes.  The others do *)
(* not look at it.                                                            *)
Configurable == {"separator", "newline", "fixedlength", "dynamic32"}
Crashes(p) == p.framing \in Configurable /\ ~p.configured

(* The expression of a separator is a C string with escapes, of which \x is   *)
(* followed by two digits and read from the second on.                        *)
Hex(c) == CASE c \in 48 .. 57 -> c - 48 [] c \in 65 .. 70 -> c - 55
            [] c \in 97 .. 102 -> c - 87 [] OTHER -> -1
Escapes == {<<0, 0>>, <<48, 0>>, <<116, 9>>, <<110, 10>>, <<102, 12>>, <<114, 13>>}  \* 0 t n f r
Separator(expression) ==
  LET c(u) == IF u <= Len(expression) THEN expression[u] ELSE 0
      hex(u) == IF Hex(c(u + 1)) < 0 THEN Hex(c(u)) ELSE (16 * Hex(c(u))) + Hex(c(u + 1))
      then(byte, rest) == [ok |-> rest.ok, bytes |-> <<byte>> \o rest.bytes]
      from[u \in 1 .. Len(expression) + 1] ==
        IF u > Len(expression) THEN [ok |-> TRUE, bytes |-> <<>>]
        ELSE IF c(u) # Backslash THEN then(c(u), from[u + 1])
        ELSE IF c(u + 1) = 120
        THEN IF Hex(c(u + 2)) < 0 \/ Hex(c(u + 3)) < 0 THEN [ok |-> FALSE, bytes |-> <<>>]
             ELSE then(hex(u + 3), from[u + 4])
        ELSE LET known == {e \in Escapes : e[1] = c(u + 1)}
             IN then(IF known = {} THEN Backslash ELSE (CHOOSE e \in known : TRUE)[2],
                     from[IF c(u + 1) = 0 THEN u + 1 ELSE u + 2])
  IN from[1]

(* The expressions of a newline; any other name is crlf.                      *)
Newline(name) ==
  CASE name = "lfcr" -> <<Backslash, 110, Backslash, 114>> [] name = "lf" -> <<Backslash, 110>>
    [] name = "cr" -> <<Backslash, 114>> [] OTHER -> <<Backslash, 114, Backslash, 110>>

(* The options of dynamic32: a comma is never skipped, so that a second one   *)
(* keeps it in its loop.                                                      *)
Option(p, name) == IF \E o \in {p.options[i] : i \in DOMAIN p.options} : o.name = name
                   THEN p.options[1].value ELSE 0
Loops(p) == p.framing = "dynamic32" /\ Len(p.options) > 1

-----------------------------------------------------------------------------
(* Framing functions: what they make of s, the data in the buffer.            *)

(* The bytes of a code point by its first, 0 if none begins so.               *)
Width(byte) == IF byte < 128 THEN 1
               ELSE IF byte \in 192 .. 223 THEN 2
               ELSE IF byte \in 224 .. 239 THEN 3
               ELSE IF byte \in 240 .. 247 THEN 4 ELSE 0
Continuation == 128 .. 191

Utf8(s) ==
  LET valid[p \in 1 .. Len(s) + 1] ==
        p <= Len(s) =>
          LET w == Width(s[p]) IN
          /\ w > 0 /\ p + w - 1 <= Len(s)
          /\ \A k \in 1 .. w - 1 : s[p + k] \in Continuation
          /\ valid[p + w]
  IN valid[1]

framing_auto(s) == [bytes |-> Len(s), op |-> IF Utf8(s) THEN "text" ELSE opcode]

(* Where an occurrence of sep ends in s.                                      *)
Ends(s, sep) == {e \in Len(sep) .. Len(s) : SubSeq(s, e - Len(sep) + 1, e) = sep}

(* Only an occurrence that is all in the last read is found.  -1: the         *)
(* configuration is an error, in every call.                                  *)
framing_separator(s, last_read, expression) ==
  LET sep == Separator(expression).bytes
      found == {e \in Ends(s, sep) : e - Len(sep) >= Len(s) - last_read}
  IN IF ~Separator(expression).ok THEN -1
     ELSE IF sep = <<>> THEN Len(s)
     ELSE IF found = {} THEN 0 ELSE Min(found)

framing_newline(s, last_read) ==
  {framing_auto(SubSeq(s, 1, k)) :
     k \in {framing_separator(s, last_read, Newline(peer.newline))}}

(* Mutation: a segment is taken only when there is more behind it.            *)
framing_fixedlenLate(s) ==
  IF peer.size = 0 THEN Len(s) ELSE IF Len(s) > peer.size THEN peer.size ELSE 0

framing_fixedlen(s) ==
  IF peer.size = 0 THEN Len(s) ELSE IF Len(s) >= peer.size THEN peer.size ELSE 0

(* The length field in the byte order of the peer.                            *)
Modulus == 256 ^ SizeBytes
SizeField(s, offset, big) ==
  LET field == SubSeq(s, offset + 1, offset + SizeBytes)
  IN Number(IF big THEN field ELSE [i \in 1 .. SizeBytes |-> field[SizeBytes + 1 - i]])

framing_dynamic32(s) ==
  LET offset == Option(peer, "offset") IN
  IF Len(s) < offset + SizeBytes THEN 0
  ELSE LET total == (offset + SizeBytes + Option(peer, "static")
                       + SizeField(s, offset, Option(peer, "endian") = 1)) % Modulus
       IN IF Len(s) >= total THEN total ELSE 0

(* What cannot be scanned is dumped, as the opcode is.                        *)
framing_json(s) ==
  {IF entity > 0 THEN [bytes |-> entity, op |-> "text"]
   ELSE [bytes |-> IF entity = 0 THEN 0 ELSE Len(s), op |-> opcode] :
     entity \in {json_length(peer_buffer, Len(s))}}

(* The function that is called: the bytes it wants framed and the opcode it   *)
(* leaves.  "plugin" is one the repository does not have.                     *)
framing(s, last_read) ==
  LET leaving_opcode(k) == {[bytes |-> k, op |-> opcode]}
  IN CASE peer.framing = "auto" -> {framing_auto(s)}
       [] peer.framing = "binary" -> leaving_opcode(Len(s))
       [] peer.framing = "separator" ->
            leaving_opcode(framing_separator(s, last_read, peer.expression))
       [] peer.framing = "newline" -> framing_newline(s, last_read)
       [] peer.framing = "fixedlength" -> leaving_opcode(framing_fixedlen(s))
       [] peer.framing = "dynamic32" -> leaving_opcode(framing_dynamic32(s))
       [] peer.framing = "json" -> framing_json(s)
       [] peer.framing = "plugin" ->
            [bytes : 0 .. Len(s) + 1, op : {"text", "binary", "discard"}]

-----------------------------------------------------------------------------
Init ==
  /\ peer \in Peers /\ unread = peer.stream
  /\ peer_buffer = [i \in 1 .. BufSize |-> 0] /\ peer_buffer_offset = 0 /\ bytes_read = 0
  /\ opcode = "binary" /\ framing_data = "none" /\ pc = "idle"
  /\ open = TRUE /\ broken = FALSE /\ sent = <<>>

(* The connection is no more; and, with a crash, neither is the program.      *)
Gone(where) ==
  /\ open' = FALSE /\ pc' = where
  /\ peer_buffer_offset' = 0 /\ bytes_read' = 0
  /\ UNCHANGED <<peer, unread, peer_buffer, opcode, broken, sent>>

(* ws_close as far as the stream goes.  The framing function is called with   *)
(* NULL for its data, to free what it keeps.  fixedlength and dynamic32 do    *)
(* not return then, and look at what they have just freed; if that is an      *)
(* offset that wraps, dynamic32 looks at the data as well.                    *)
Close ==
  IF framing_data # "held" THEN Gone("idle") /\ UNCHANGED framing_data
  ELSE IF peer.framing \in {"separator", "newline"} THEN Gone("idle") /\ framing_data' = "freed"
  ELSE /\ framing_data' = "stale"
       /\ \E where \in {"idle"} \cup (IF peer.framing = "dynamic32" THEN {"crashed"} ELSE {}) :
            Gone(where)

(* The first k bytes of the stream behind the data, and a terminator.         *)
Stored(k) ==
  [i \in 1 .. BufSize |->
     IF i \in peer_buffer_offset + 1 .. peer_buffer_offset + k THEN unread[i - peer_buffer_offset]
     ELSE IF i = peer_buffer_offset + k + 1 THEN 0 ELSE peer_buffer[i]]

Room == BufSize - peer_buffer_offset - 1

(* Mutation: recv may fill the buffer, leaving no room for the terminator.    *)
ReceiveUnterminated ==
  /\ pc = "idle" /\ open
  /\ \E k \in 1 .. Len(unread) :
       /\ k <= Room + 1 /\ Len(peer.stream) - Len(unread) + k \in peer.cuts
       /\ peer_buffer' = Stored(k)
       /\ unread' = SubSeq(unread, k + 1, Len(unread))
       /\ bytes_read' = k
  /\ opcode' = "binary" /\ pc' = "framing"
  /\ UNCHANGED <<peer, peer_buffer_offset, framing_data, open, broken, sent>>

(* recv brings at least a byte, and no more than fit with a terminator.       *)
Receive ==
  /\ pc = "idle" /\ open
  /\ \E k \in 1 .. Len(unread) :
       /\ k <= Room /\ Len(peer.stream) - Len(unread) + k \in peer.cuts
       /\ peer_buffer' = Stored(k)
       /\ unread' = SubSeq(unread, k + 1, Len(unread))
       /\ bytes_read' = k
  /\ opcode' = "binary" /\ pc' = "framing"
  /\ UNCHANGED <<peer, peer_buffer_offset, framing_data, open, broken, sent>>

(* recv fails or returns 0: the peer has failed, or closed...                 *)
ReceiveEnds == pc = "idle" /\ open /\ Close
(* ... or there was no room to receive anything into.                         *)
ReceiveNothing == pc = "idle" /\ open /\ Room = 0 /\ unread # <<>> /\ Close

(* The client's side is closed, or the program ends.                          *)
LoopCloses == pc = "idle" /\ open /\ Close

-----------------------------------------------------------------------------
length == peer_buffer_offset + bytes_read
data == SubSeq(peer_buffer, 1, length)
Calls == IF pc = "framing" /\ ~Loops(peer) /\ ~Crashes(peer)
         THEN framing(data, bytes_read) ELSE {}

(* What a call leaves in framing_data.  That of a plugin is its own affair.   *)
Configure == framing_data' = IF peer.framing \in Configurable THEN "held" ELSE framing_data

(* The end of the loop, with these numbers of bytes kept and left.            *)
Return(kept, left) ==
  /\ peer_buffer_offset' = kept + left /\ bytes_read' = 0
  /\ pc' = "idle"

(* memmove: what is behind the rest of the data stays as it is.               *)
MovedBy(bytes) ==
  [i \in 1 .. BufSize |-> IF i <= length - bytes THEN peer_buffer[i + bytes] ELSE peer_buffer[i]]

(* Mutations: one frame a call; all of the frame is taken to be from this     *)
(* read.                                                                      *)
CopyBackOnce(bytes) ==
  LET kept == IF bytes < peer_buffer_offset THEN peer_buffer_offset - bytes ELSE 0
      left == IF bytes < peer_buffer_offset THEN bytes_read
              ELSE bytes_read - (bytes - peer_buffer_offset)
  IN /\ peer_buffer' = MovedBy(bytes)
     /\ Return(kept, left)

CopyBackForgetsOffset(bytes) ==
  LET left == IF bytes < bytes_read THEN bytes_read - bytes ELSE 0
  IN /\ peer_buffer' = MovedBy(bytes)
     /\ IF left > 0
        THEN peer_buffer_offset' = 0 /\ bytes_read' = left /\ UNCHANGED pc
        ELSE Return(0, 0)

(* The frame is removed, and the loop goes on if there is data behind it.  A  *)
(* frame that ends where the bytes of earlier calls end leaves bytes_framed   *)
(* at 0, which ends the loop as well.                                         *)
CopyBack(bytes) ==
  LET kept == IF bytes < peer_buffer_offset THEN peer_buffer_offset - bytes ELSE 0
      left == IF bytes < peer_buffer_offset THEN bytes_read
              ELSE bytes_read - (bytes - peer_buffer_offset)
  IN /\ peer_buffer' = MovedBy(bytes)
     /\ IF bytes # peer_buffer_offset /\ kept + left > 0
        THEN peer_buffer_offset' = kept /\ bytes_read' = left /\ UNCHANGED pc
        ELSE Return(kept, left)

FrameSent ==
  \E r \in Calls :
    /\ r.bytes \in 1 .. length /\ r.op # "discard" /\ ~broken
    /\ sent' = Append(sent, ws_send_frame(r.op, SubSeq(peer_buffer, 1, r.bytes)))
    /\ opcode' = r.op
    /\ CopyBack(r.bytes) /\ Configure
    /\ UNCHANGED <<peer, unread, open, broken>>

FrameDiscarded ==
  \E r \in Calls :
    /\ r.bytes \in 1 .. length /\ r.op = "discard"
    /\ opcode' = r.op
    /\ CopyBack(r.bytes) /\ Configure
    /\ UNCHANGED <<peer, unread, open, broken, sent>>

(* The client cannot be sent to: the handler returns at once, and what it had *)
(* read is lost.  Nothing can be sent to that client any more.                *)
SendFails ==
  \E r \in Calls :
    /\ r.bytes \in 1 .. length /\ r.op # "discard"
    /\ broken' = TRUE
    /\ bytes_read' = 0 /\ pc' = "idle" /\ opcode' = r.op /\ Configure
    /\ UNCHANGED <<peer, unread, peer_buffer, peer_buffer_offset, open, sent>>

Overrun == \E r \in Calls : r.bytes > length /\ Close

(* Mutation: the loop goes on as long as there is data.                       *)
IncompleteGoesOn ==
  \E r \in Calls :
    /\ r.bytes = 0 /\ opcode' = r.op /\ Configure
    /\ UNCHANGED <<peer, unread, buffer, pc, open, broken, sent>>

Incomplete ==
  \E r \in Calls :
    /\ r.bytes = 0 /\ opcode' = r.op /\ Configure
    /\ Return(peer_buffer_offset, bytes_read)
    /\ UNCHANGED <<peer, unread, peer_buffer, open, broken, sent>>

(* A negative result is not handled: the function is called again.  Or the    *)
(* function itself does not return, or looks for a configuration at NULL.     *)
FramingFails == (\E r \in Calls : r.bytes < 0) /\ UNCHANGED vars
FramingLoops == pc = "framing" /\ Loops(peer) /\ UNCHANGED vars
FramingCrashes == pc = "framing" /\ Crashes(peer) /\ Gone("crashed") /\ UNCHANGED framing_data

Handler == \/ FrameSent \/ FrameDiscarded \/ SendFails \/ Overrun \/ Incomplete
           \/ FramingFails \/ FramingLoops \/ FramingCrashes

(* The slot is free for another client, or the program gone: the run is over. *)
Closed == ~open /\ UNCHANGED vars

Next == Handler \/ Receive \/ ReceiveEnds \/ ReceiveNothing \/ LoopCloses \/ Closed

(* ws_peer_data goes on; the peer is not obliged to send anything.            *)
Spec == Init /\ [][Next]_vars /\ WF_vars(Handler)

-----------------------------------------------------------------------------
(* Properties                                                                 *)

(* The buffer never overflows, its terminator included, and offset and count  *)
(* are those of the loop: there is data of this call in it, or none of any.   *)
TypeOK ==
  /\ peer \in Peers /\ unread \in Seq(Byte) /\ peer_buffer \in [1 .. BufSize -> Byte]
  /\ framing_data \in {"none", "held", "freed", "stale"}
  /\ pc \in {"idle", "framing", "crashed"} /\ open \in BOOLEAN /\ broken \in BOOLEAN
  /\ opcode \in {"binary", "text", "discard"}
  /\ peer_buffer_offset \in Nat /\ bytes_read \in Nat /\ length < BufSize
  /\ pc = "framing" <=> bytes_read > 0

(* dynamic32: a frame is a length field, what is before it, and as many bytes *)
(* behind it as it and the constant say.                                      *)
FieldEnd(p) == Option(p, "offset") + SizeBytes
Total(p, s) == FieldEnd(p) + Option(p, "static") + SizeField(s, Option(p, "offset"), Option(p, "endian") = 1)

(* The frames that each framing function is for, as its documentation or its  *)
(* comment says, of a stream s.  What begins no JSON is dumped as it comes.   *)
Boundaries(p, s) ==
  CASE p.framing \in {"auto", "binary", "plugin"} -> 1 .. Len(s)
    [] p.framing \in {"separator", "newline"} ->
         LET ends == Ends(s, p.sep)
         IN IF p.sep = <<>> THEN 1 .. Len(s) ELSE IF ends = {} THEN {} ELSE {Min(ends)}
    [] p.framing = "fixedlength" -> IF p.size = 0 THEN 1 .. Len(s) ELSE {p.size} \cap 1 .. Len(s)
    [] p.framing = "dynamic32" -> IF Len(s) < FieldEnd(p) THEN {} ELSE {Total(p, s)} \cap 1 .. Len(s)
    [] p.framing = "json" -> IF BeginsJson(s) THEN Entities(s) ELSE 1 .. Len(s)
Types(p, s) ==
  CASE p.framing \in {"auto", "newline"} -> {IF Utf8(s) THEN "text" ELSE "binary"}
    [] p.framing = "json" -> {IF BeginsJson(s) THEN "text" ELSE "binary"}
    [] p.framing = "plugin" -> {"text", "binary", "discard"}
    [] OTHER -> {"binary"}
Stream(p) == p.stream
Frames == [i \in DOMAIN sent |-> ClientReads(sent[i])]

(* What there is of the stream where a frame begins is in rests.              *)
Begins(p, rests) ==
  /\ p.stream \in rests
  /\ \A s \in rests : \A n \in Boundaries(p, s) : SubSeq(s, n + 1, Len(s)) \in rests
Rests(p) == SUBSET {SubSeq(p.stream, k, Len(p.stream)) : k \in 1 .. Len(p.stream) + 1}

(* When dynamic32's documentation gives a stream a meaning: no frame of it    *)
(* ends before its length field does, and none has a size that wraps.         *)
Measured(p, rests) ==
  \A s \in rests : Len(s) >= FieldEnd(p) =>
    Total(p, s) \in Nat /\ Total(p, s) >= FieldEnd(p) /\ Total(p, s) % Modulus = Total(p, s)
Measuring(p) == /\ p.framing = "dynamic32" /\ Option(p, "offset") \in Nat
                /\ \E rests \in Rests(p) : Begins(p, rests) /\ Measured(p, rests)

(* When newline types its frames as documented: no line that is not UTF-8     *)
(* follows one that is.                                                       *)
Texts(p, s) == {n \in Boundaries(p, s) : Utf8(SubSeq(s, 1, n))}
Unmixed(p, rests) ==
  \A s, t \in rests : Texts(p, s) # {} /\ Len(t) < Len(s) => Texts(p, t) = Boundaries(p, t)
Unmixing(p) == p.framing = "newline" /\ \E rests \in Rests(p) : Begins(p, rests) /\ Unmixed(p, rests)

(* However the stream is cut into reads, and however often the framing        *)
(* function is called, the client reads the frames Framer says: whole, in     *)
(* order, of the right type, and nothing of the stream twice or not at all.   *)
over == ~open \/ broken
Promise == INSTANCE Framer WITH Peer <- Peers, frames <- Frames,
                                rest <- IF over THEN <<>> ELSE data \o unread
FramesTheStream == Promise!Spec

(* When ws_peer_data has returned, no whole frame is left in the buffer: only *)
(* the peer can make it be called again.                                      *)
NothingHeldBack ==
  (pc = "idle" /\ open /\ ~broken /\ peer.framing # "plugin") => Boundaries(peer, data) = {}

(* "this should not actually happen, but it might with some weird framing     *)
(* functions" (websocksy.c:258): a function of the repository never frames    *)
(* only bytes it has already found incomplete, which would end the loop with  *)
(* data behind them.                                                          *)
OldBytesNeverFramedAlone ==
  (~broken /\ peer.framing # "plugin")
    => \A r \in Calls : r.bytes > 0 => r.bytes > peer_buffer_offset

(* The loop of ws_peer_data ends, whatever frames there are and whatever      *)
(* bytes_framed is reused for (websocksy.c:272), unless a call of the framing *)
(* function does not return or is an error, which the loop does not handle.   *)
NeverReturns == Loops(peer) \/ \E r \in Calls : r.bytes < 0
LoopEnds == pc = "framing" ~> (pc # "framing" \/ NeverReturns)

(* `newline` "waits until a newline sequence is found in the stream and sends *)
(* data up to and including that position" (README.md:92).                    *)
OneLineEach ==
  peer.framing = "newline" =>
    \A i \in DOMAIN sent : Ends(Frames[i].data, peer.sep) = {Len(Frames[i].data)}

(* ... "as text frame if all data is valid UTF-8 (binary frame otherwise)"    *)
(* (README.md:92).                                                            *)
LinesTyped ==
  peer.framing = "newline" =>
    \A i \in DOMAIN sent : Frames[i].type = "text" <=> Utf8(Frames[i].data)

(* "any syntactically correct object should be forwarded correctly"           *)
(* (plugins/framing_json.md:12), as a text frame of its own.                  *)
JsonForwarded ==
  peer.framing = "json" =>
    \A i \in DOMAIN sent : /\ Frames[i].type = "text"
                           /\ Entities(Frames[i].data) = {Len(Frames[i].data)}
=============================================================================
