----------------------------- MODULE FrameCodec -----------------------------
(* WebSocket frames as bytes: how websocket.c takes a client's frame apart    *)
(* and puts its own together, and what the RFC says of both.                  *)
EXTENDS Integers, Sequences

CONSTANTS
  ShortLen,  \* the longest payload whose length is in the second byte: 125
  WideBytes  \* bytes of the widest length field: 8

ASSUME CodecAssumption ==
  /\ ShortLen \in Nat /\ ShortLen + 2 < 128
  /\ WideBytes \in Nat /\ WideBytes > 2

Byte == 0 .. 255
Op == {"continuation", "text", "binary", "close", "ping", "pong", "discard"}
OpCode == [op \in Op |-> CASE op = "continuation" -> 0 [] op = "text" -> 1 [] op = "binary" -> 2
                           [] op = "close" -> 8 [] op = "ping" -> 9 [] op = "pong" -> 10
                           [] op = "discard" -> 11]
FIN == 128
LongLen == 65535   \* the longest payload whose length has two bytes

(* Big-endian numbers, and the exclusive or of two bytes.                     *)
Number(bytes) ==
  LET value[i \in 0 .. Len(bytes)] == IF i = 0 THEN 0 ELSE (256 * value[i - 1]) + bytes[i]
  IN value[Len(bytes)]
Power[n \in 0 .. WideBytes] == IF n = 0 THEN 1 ELSE 256 * Power[n - 1]
Digits(n, width) == [i \in 1 .. width |-> (n \div Power[width - i]) % 256]
Xor[a \in Byte] ==
  [b \in Byte |-> IF a + b = 0 THEN 0 ELSE (2 * Xor[a \div 2][b \div 2]) + ((a + b) % 2)]
(* Masking is its own inverse.                                                *)
Masked(data, key) == [i \in 1 .. Len(data) |-> Xor[data[i]][key[((i - 1) % 4) + 1]]]

-----------------------------------------------------------------------------
(* The head of a client's frame: bits of the first two bytes.  The length is  *)
(* in the second byte or in an extension after it, then comes the key.        *)
WS_GET_OP(byte) == byte % 16
WS_GET_MASK(byte) == byte >= 128
WS_GET_LEN(byte) == byte % 128

ExtBytes(len) == IF len = ShortLen + 1 THEN 2 ELSE IF len = ShortLen + 2 THEN WideBytes ELSE 0
KeyBytes(s) == IF WS_GET_MASK(s[2]) THEN 4 ELSE 0
HeaderLen(s) == 2 + ExtBytes(WS_GET_LEN(s[2])) + KeyBytes(s)
PayloadLen(s) ==
  LET ext == ExtBytes(WS_GET_LEN(s[2]))
  IN IF ext = 0 THEN WS_GET_LEN(s[2]) ELSE Number(SubSeq(s, 3, 2 + ext))

(* Mutation: the key is looked for before the length's extension.             *)
PayloadKeyFirst(s) ==
  LET start == HeaderLen(s)
      data == SubSeq(s, start + 1, start + PayloadLen(s))
  IN IF WS_GET_MASK(s[2]) THEN Masked(data, SubSeq(s, 3, 6)) ELSE data

(* Is all of a frame there, counted from the first byte of s?  Its sum of     *)
(* lengths is one of 64 bits.                                                 *)
FrameLen(s) == (HeaderLen(s) + PayloadLen(s)) % Power[WideBytes]
HasFrame(s) == Len(s) >= 2 /\ Len(s) >= HeaderLen(s) /\ FrameLen(s) \in 0 .. Len(s)
Payload(s) ==
  LET start == HeaderLen(s)
      data == SubSeq(s, start + 1, start + PayloadLen(s))
  IN IF WS_GET_MASK(s[2]) THEN Masked(data, SubSeq(s, start - 3, start)) ELSE data

(* Mutation: the two-byte length begins one too late.                         *)
ws_send_frameLate(opcode, data) ==
  LET len == Len(data)
      first == FIN + OpCode[opcode]
  IN (IF len <= ShortLen + 1 THEN <<first, len>>
      ELSE IF len <= LongLen THEN <<first, ShortLen + 1>> \o Digits(len, 2)
      ELSE <<first, ShortLen + 2>> \o Digits(len, WideBytes)) \o data

(* A frame for a client.                                                      *)
ws_send_frame(opcode, data) ==
  LET len == Len(data)
      first == FIN + OpCode[opcode]
  IN (IF len <= ShortLen THEN <<first, len>>
      ELSE IF len <= LongLen THEN <<first, ShortLen + 1>> \o Digits(len, 2)
      ELSE <<first, ShortLen + 2>> \o Digits(len, WideBytes)) \o data

-----------------------------------------------------------------------------
(* RFC 6455, 5.2, from the other end.  A client sends frames f = [op, data,   *)
(* ext, key, fin] of its own choice of length field (0, 2 or WideBytes more   *)
(* bytes) and key (<<>>: not masked), and reads what it gets.                 *)
ClientFrame(f) ==
  LET mask == IF f.key = <<>> THEN 0 ELSE 128
      len == Len(f.data)
  IN <<f.fin + f.op,
       mask + (IF f.ext = 0 THEN len ELSE IF f.ext = 2 THEN ShortLen + 1 ELSE ShortLen + 2)>>
       \o Digits(len, f.ext) \o f.key
       \o (IF f.key = <<>> THEN f.data ELSE Masked(f.data, f.key))

(* What the RFC lets a client choose: a field that holds the length, a key of *)
(* four bytes or none, and a length of it all that 64 bits hold.              *)
IsClientFrame(f) ==
  /\ f.op \in 0 .. 15 /\ f.fin \in {0, FIN}
  /\ f.data \in Seq(Byte) /\ f.key \in Seq(Byte) /\ Len(f.key) \in {0, 4}
  /\ \/ f.ext = 0 /\ Len(f.data) <= ShortLen
     \/ f.ext \in {2, WideBytes} /\ Len(f.data) < Power[f.ext]
  /\ Len(ClientFrame(f)) < Power[WideBytes]

ExtField(byte) == IF byte <= ShortLen THEN 0 ELSE IF byte = ShortLen + 1 THEN 2 ELSE WideBytes
ReadAs(s, ext, len) ==
  LET op == {o \in Op : OpCode[o] = s[1] - FIN}
  IN IF Len(s) = 2 + ext + len /\ op # {}
     THEN [type |-> CHOOSE o \in op : TRUE, data |-> SubSeq(s, 3 + ext, Len(s))]
     ELSE [type |-> "malformed", data |-> s]
ClientReads(s) ==
  LET ext == ExtField(s[2])
  IN ReadAs(s, ext, IF ext = 0 THEN s[2] ELSE Number(SubSeq(s, 3, 2 + ext)))
=============================================================================
