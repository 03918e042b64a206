----------------------------- MODULE FramerProof -----------------------------
(* What holds of the peer's buffer for every peer, every framing function a   *)
(* plugin may bring, every stream and every size of the buffer; and that      *)
(* ws_peer_data implements Framer: what the client reads, from the bytes of   *)
(* its frames, is the peer's stream.                                          *)
EXTENDS PeerStream, CommonLemmas, CodecLemmas

(* What a framing function leaves in opcode is an opcode.                     *)
LEMMA CallsLeaveOpcode ==
  ASSUME TypeOK, NEW r \in Calls
  PROVE  r.op \in {"binary", "text", "discard"}
<1>1. opcode \in {"binary", "text", "discard"}
  BY DEF TypeOK
<1>2. ASSUME NEW s PROVE framing_auto(s).op \in {"binary", "text", "discard"}
  BY <1>1 DEF framing_auto
<1>3. r \in framing(data, bytes_read)
  BY DEF Calls
<1>4. peer.framing \in Functions
  BY PeersAssumption DEF TypeOK, PeersAssumption
<1>5. CASE peer.framing = "plugin"
  BY <1>3, <1>5 DEF framing
<1>6. CASE peer.framing \in {"auto", "newline"}
  <2>1. \E s : r = framing_auto(s)
    BY <1>3, <1>6 DEF framing, framing_newline
  <2> QED
    BY <1>2, <2>1
<1>7. CASE peer.framing = "json"
  <2>1. r \in framing_json(data)
    BY <1>3, <1>7 DEF framing
  <2> QED
    BY <1>1, <2>1 DEF framing_json
<1>8. CASE peer.framing \in Functions \ {"auto", "newline", "json", "plugin"}
  <2>1. \E k : r = [bytes |-> k, op |-> opcode]
    BY <1>3, <1>8 DEF framing, Functions
  <2> QED
    BY <1>1, <2>1
<1> QED
  BY <1>4, <1>5, <1>6, <1>7, <1>8 DEF Functions

(* Removing a frame leaves the buffer consistent, in the loop or after it.    *)
LEMMA CopyBackKeeps ==
  ASSUME TypeOK, pc = "framing", NEW bytes \in 1 .. length, CopyBack(bytes)
  PROVE  /\ peer_buffer' \in [1 .. BufSize -> Byte] /\ pc' \in {"idle", "framing"}
         /\ peer_buffer_offset' \in Nat /\ bytes_read' \in Nat
         /\ length' < BufSize
         /\ pc' = "framing" <=> bytes_read' > 0
<1> DEFINE kept == IF bytes < peer_buffer_offset THEN peer_buffer_offset - bytes ELSE 0
           left == IF bytes < peer_buffer_offset THEN bytes_read
                   ELSE bytes_read - (bytes - peer_buffer_offset)
<1>1. /\ peer_buffer_offset \in Nat /\ bytes_read \in Nat \ {0} /\ bytes \in Nat \ {0}
      /\ length = peer_buffer_offset + bytes_read /\ bytes <= length /\ length < BufSize
      /\ BufSize \in Nat /\ peer_buffer \in [1 .. BufSize -> Byte]
  BY PeerBufSizeAssumption DEF TypeOK, length, PeerBufSizeAssumption
<1>2. kept \in Nat /\ left \in Nat /\ kept + left = length - bytes
  BY <1>1
<1>3. kept > 0 => left > 0
  BY <1>1
<1>4. peer_buffer' = MovedBy(bytes)
  BY DEF CopyBack
<1>5. peer_buffer' \in [1 .. BufSize -> Byte]
  BY <1>1, <1>4 DEF MovedBy
<1>6. \/ /\ kept + left > 0
         /\ peer_buffer_offset' = kept /\ bytes_read' = left /\ pc' = pc
      \/ peer_buffer_offset' = kept + left /\ bytes_read' = 0 /\ pc' = "idle"
  BY DEF CopyBack, Return
<1> HIDE DEF kept, left
<1>7. length' = peer_buffer_offset' + bytes_read'
  BY DEF length
<1> QED
  BY <1>1, <1>2, <1>3, <1>5, <1>6, <1>7

(* The end of a connection, by ws_close or with the program, leaves nothing   *)
(* in the buffer and the rest as it is.                                       *)
Left ==
  /\ open' = FALSE /\ pc' \in {"idle", "crashed"}
  /\ peer_buffer_offset' = 0 /\ bytes_read' = 0
  /\ framing_data' \in {framing_data, "freed", "stale"}
  /\ UNCHANGED <<peer, unread, peer_buffer, opcode, broken, sent>>

LEMMA LeftBy ==
  ASSUME Close \/ FramingCrashes PROVE Left
<1>1. \A where : Gone(where) =>
        /\ open' = FALSE /\ pc' = where /\ peer_buffer_offset' = 0 /\ bytes_read' = 0
        /\ UNCHANGED <<peer, unread, peer_buffer, opcode, broken, sent>>
  BY DEF Gone
<1>2. CASE FramingCrashes
  BY <1>1, <1>2 DEF FramingCrashes, Left
<1>3. CASE Close
  <2>1. framing_data' \in {framing_data, "freed", "stale"}
    BY <1>3 DEF Close
  <2>2. \E where \in {"idle", "crashed"} : Gone(where)
    BY <1>3 DEF Close
  <2> QED
    BY <1>1, <2>1, <2>2 DEF Left
<1> QED
  BY <1>2, <1>3

(* One case for every action.                                                 *)
LEMMA NextTypeOK == TypeOK /\ [Next]_vars => TypeOK'
<1> SUFFICES ASSUME TypeOK, [Next]_vars PROVE TypeOK'
  OBVIOUS
<1>len. /\ peer_buffer_offset \in Nat /\ bytes_read \in Nat /\ BufSize \in Nat
        /\ length = peer_buffer_offset + bytes_read /\ length < BufSize
  BY PeerBufSizeAssumption DEF TypeOK, length, PeerBufSizeAssumption
<1>calls. ASSUME NEW r \in Calls PROVE pc = "framing" /\ r.op \in {"binary", "text", "discard"}
  BY <1>calls, CallsLeaveOpcode DEF Calls
<1>left. CASE Left
  <2>1. length' = 0
    BY <1>left DEF Left, length
  <2>2. peer_buffer_offset' \in Nat /\ bytes_read' \in Nat /\ ~(bytes_read' > 0) /\ length' < BufSize
    BY <1>left, <2>1, PeerBufSizeAssumption DEF Left, PeerBufSizeAssumption
  <2>3. open' \in BOOLEAN /\ ~(pc' = "framing") /\ pc' \in {"idle", "framing", "crashed"}
    BY <1>left DEF Left
  <2>4. framing_data' \in {"none", "held", "freed", "stale"}
    BY <1>left DEF Left, TypeOK
  <2> QED
    BY <1>left, <2>1, <2>2, <2>3, <2>4, Zenon DEF Left, TypeOK
<1>configure. Configure => framing_data' \in {"none", "held", "freed", "stale"}
  BY DEF Configure, TypeOK
<1>Receive. CASE Receive
  <2>1. PICK k \in 1 .. Len(unread) :
          /\ k <= Room
          /\ peer_buffer' = Stored(k)
          /\ unread' = SubSeq(unread, k + 1, Len(unread))
          /\ bytes_read' = k
    BY <1>Receive DEF Receive
  <2>2. unread \in Seq(Byte) /\ Len(unread) \in Nat /\ \A i \in 1 .. Len(unread) : unread[i] \in Byte
    BY LenProperties, ElementOfSeq DEF TypeOK
  <2>3. unread' \in Seq(Byte)
    BY <2>1, <2>2, PartOfSeq
  <2>4. \A i \in 1 .. BufSize : Stored(k)[i] \in Byte
    <3> SUFFICES ASSUME NEW i \in 1 .. BufSize PROVE Stored(k)[i] \in Byte
      OBVIOUS
    <3>1. 0 \in Byte
      BY DEF Byte
    <3>3. peer_buffer[i] \in Byte
      BY DEF TypeOK
    <3>2. ASSUME i \in peer_buffer_offset + 1 .. peer_buffer_offset + k
          PROVE  unread[i - peer_buffer_offset] \in Byte
      BY <1>len, <2>2, <3>2
    <3> QED
      BY <3>1, <3>2, <3>3 DEF Stored
  <2>5. peer_buffer' \in [1 .. BufSize -> Byte]
    BY <2>1, <2>4 DEF Stored
  <2>6. bytes_read = 0 /\ pc' = "framing" /\ opcode' = "binary"
        /\ UNCHANGED <<peer, peer_buffer_offset, framing_data, open, broken, sent>>
    BY <1>Receive, <1>len DEF Receive, TypeOK
  <2>7. length' = peer_buffer_offset + k
    BY <2>1, <2>6 DEF length
  <2> QED
    BY <1>len, <2>1, <2>2, <2>3, <2>5, <2>6, <2>7 DEF TypeOK, Room
<1>frame. ASSUME NEW r \in Calls, r.bytes \in 1 .. length, opcode' = r.op, CopyBack(r.bytes),
                 Configure, UNCHANGED <<peer, unread, open, broken>>
          PROVE  TypeOK'
  BY <1>frame, <1>calls, <1>configure, CopyBackKeeps DEF TypeOK
<1>SendFails. CASE SendFails
  <2>1. PICK r \in Calls : opcode' = r.op
    BY <1>SendFails DEF SendFails
  <2>2. /\ broken' = TRUE /\ bytes_read' = 0 /\ pc' = "idle" /\ Configure
        /\ UNCHANGED <<peer, unread, peer_buffer, peer_buffer_offset, open>>
    BY <1>SendFails DEF SendFails
  <2>3. length' = peer_buffer_offset
    BY <1>len, <2>2 DEF length
  <2> QED
    BY <1>len, <1>calls, <1>configure, <2>1, <2>2, <2>3 DEF TypeOK
<1>Incomplete. CASE Incomplete
  <2>1. PICK r \in Calls : opcode' = r.op
    BY <1>Incomplete DEF Incomplete
  <2>2. /\ peer_buffer_offset' = peer_buffer_offset + bytes_read /\ bytes_read' = 0
        /\ pc' = "idle" /\ Configure /\ UNCHANGED <<peer, unread, peer_buffer, open, broken>>
    BY <1>Incomplete DEF Incomplete, Return
  <2>3. length' = length
    BY <1>len, <2>2 DEF length
  <2> QED
    BY <1>len, <1>calls, <1>configure, <2>1, <2>2, <2>3 DEF TypeOK
<1>stutter. CASE UNCHANGED vars
  BY <1>stutter DEF vars, buffer, TypeOK, length
<1> QED
  BY LeftBy, <1>left, <1>Receive, <1>frame, <1>SendFails, <1>Incomplete, <1>stutter
  DEF Next, Handler, ReceiveEnds, ReceiveNothing, LoopCloses, FrameSent, FrameDiscarded,
      Overrun, FramingFails, FramingLoops, Closed

LEMMA InitTypeOK == Init => TypeOK
<1> SUFFICES ASSUME Init PROVE TypeOK
  OBVIOUS
<1>1. peer \in Peers /\ unread \in Seq(Byte)
  BY PeersAssumption DEF Init, PeersAssumption
<1>2. peer_buffer \in [1 .. BufSize -> Byte] /\ length = 0
  BY PeerBufSizeAssumption DEF Init, length, Byte
<1>3. peer_buffer_offset \in Nat /\ bytes_read \in Nat /\ ~(bytes_read > 0) /\ length < BufSize
  BY <1>2, PeerBufSizeAssumption DEF Init, PeerBufSizeAssumption
<1> QED
  BY <1>1, <1>2, <1>3, Zenon DEF Init, TypeOK

(* Whatever a framing function answers, the buffer has room for its           *)
(* terminator and its offset and count say what is in it.                     *)
THEOREM BufferConsistent == Spec => []TypeOK
  BY InitTypeOK, NextTypeOK, PTL DEF Spec
-----------------------------------------------------------------------------

(* What of the stream has not been framed, as the refinement has it.          *)
Rest == IF over THEN <<>> ELSE data \o unread

(* Only an open connection is in the loop, and what was sent is frames.       *)
StreamInv == (pc = "framing" => open) /\ sent \in Seq(Seq(Byte))

(* The steps of Framer, with the length and the type of a frame as they come  *)
(* from the framing function.                                                 *)
Framed(k, op) ==
  /\ ~over /\ ~over' /\ k \in 1 .. Len(Rest) /\ peer' = peer
  /\ Rest' = SubSeq(Rest, k + 1, Len(Rest))
  /\ Frames' = IF op = "discard" THEN Frames
               ELSE Append(Frames, [type |-> op, data |-> SubSeq(Rest, 1, k)])
Ended == ~over /\ over' /\ Rest' = <<>> /\ Frames' = Frames /\ peer' = peer
Stuttered == UNCHANGED <<peer, Rest, Frames, over>>

-----------------------------------------------------------------------------
(* The data in a buffer.                                                      *)
LEMMA DataInBuffer ==
  ASSUME NEW b \in [1 .. BufSize -> Byte], NEW n \in Nat, n < BufSize
  PROVE  /\ SubSeq(b, 1, n) \in Seq(Byte) /\ Len(SubSeq(b, 1, n)) = n
         /\ \A i \in 1 .. n : SubSeq(b, 1, n)[i] = b[i]
<1>1. BufSize \in Nat
  BY PeerBufSizeAssumption DEF PeerBufSizeAssumption
<1>2. b \in Seq(Byte) /\ Len(b) = BufSize
  BY <1>1, FunctionIsSeq
<1>3. 1 \in Nat \ {0} /\ n \in Int /\ n <= Len(b) /\ 1 <= n + 1
  BY <1>1, <1>2
<1>4. /\ SubSeq(b, 1, n) \in Seq(Byte) /\ Len(SubSeq(b, 1, n)) = n + 1 - 1
      /\ \A i \in 1 .. Len(SubSeq(b, 1, n)) : SubSeq(b, 1, n)[i] = b[1 + i - 1]
  BY <1>2, <1>3, PartOfSeq
<1>5. Len(SubSeq(b, 1, n)) = n
  BY <1>1, <1>4
<1> QED
  BY <1>1, <1>4, <1>5

LEMMA DataIs ==
  ASSUME NEW b \in [1 .. BufSize -> Byte], NEW n \in Nat, n < BufSize,
         NEW s \in Seq(Byte), Len(s) = n, \A i \in 1 .. n : s[i] = b[i]
  PROVE  SubSeq(b, 1, n) = s
<1>1. PICK d \in Seq(Byte) : d = SubSeq(b, 1, n)
  BY DataInBuffer
<1>2. Len(d) = n /\ \A i \in 1 .. n : d[i] = b[i]
  BY <1>1, DataInBuffer
<1>3. \A i \in 1 .. Len(d) : d[i] = s[i]
  BY <1>2
<1>4. d = s
  BY <1>2, <1>3, SeqEqual
<1> QED
  BY <1>1, <1>4

LEMMA Buffered ==
  ASSUME TypeOK
  PROVE  /\ peer_buffer \in [1 .. BufSize -> Byte] /\ length \in Nat /\ length < BufSize
         /\ BufSize \in Nat /\ data \in Seq(Byte) /\ Len(data) = length
         /\ unread \in Seq(Byte) /\ peer_buffer_offset \in Nat /\ bytes_read \in Nat
         /\ length = peer_buffer_offset + bytes_read
<1>1. /\ length \in Nat /\ length < BufSize /\ BufSize \in Nat
      /\ peer_buffer \in [1 .. BufSize -> Byte]
  BY PeerBufSizeAssumption DEF TypeOK, length, PeerBufSizeAssumption
<1> QED
  BY <1>1, DataInBuffer DEF data, TypeOK, length

(* What recv brings is put behind the data.                                   *)
LEMMA StoredBehind ==
  ASSUME TypeOK, NEW k \in 1 .. Len(unread), length + k < BufSize, bytes_read = 0
  PROVE  /\ Stored(k) \in [1 .. BufSize -> Byte]
         /\ SubSeq(Stored(k), 1, length + k) \o SubSeq(unread, k + 1, Len(unread)) = data \o unread
<1>1. /\ length \in Nat /\ BufSize \in Nat /\ length = peer_buffer_offset
      /\ peer_buffer \in [1 .. BufSize -> Byte]
  BY Buffered
<1>2. PICK d \in Seq(Byte), u \in Seq(Byte) : d = data /\ u = unread
  BY Buffered
<1>3. Len(d) = length /\ \A i \in 1 .. length : d[i] = peer_buffer[i]
  BY <1>2, Buffered, DataInBuffer DEF data
<1>4. Len(u) \in Nat /\ k \in 1 .. Len(u) /\ \A i \in 1 .. Len(u) : u[i] \in Byte
  BY <1>2, LenProperties, ElementOfSeq
<1>5. PICK a \in Seq(Byte) : a = SubSeq(u, 1, k)
  <2>1. 1 \in Nat \ {0} /\ k \in Int /\ k <= Len(u) /\ 1 <= k + 1
    BY <1>4
  <2> QED
    BY <2>1, PartOfSeq
<1>6. Len(a) = k /\ \A i \in 1 .. k : a[i] = u[i]
  <2>1. 1 \in Nat \ {0} /\ k \in Int /\ k <= Len(u) /\ 1 <= k + 1
    BY <1>4
  <2>2. Len(a) = k + 1 - 1 /\ \A i \in 1 .. Len(a) : a[i] = u[1 + i - 1]
    BY <1>5, <2>1, PartOfSeq
  <2>3. Len(a) = k
    BY <2>1, <2>2
  <2> QED
    BY <2>1, <2>2, <2>3
<1>7. PICK e \in Seq(Byte) : e = SubSeq(u, k + 1, Len(u))
  <2>1. k + 1 \in Nat \ {0} /\ Len(u) \in Int /\ Len(u) <= Len(u) /\ k + 1 <= Len(u) + 1
    BY <1>4
  <2> QED
    BY <2>1, PartOfSeq
<1>8. (d \o a) \o e = d \o (a \o e)
  BY ConcatAssociative, SMTT(60)
<1>9. a \o e = u
  <2>1. 1 \in 1 .. Len(u) + 1 /\ k \in 1 - 1 .. Len(u) /\ Len(u) \in k .. Len(u)
    BY <1>4
  <2>2. SubSeq(u, 1, k) \o SubSeq(u, k + 1, Len(u)) = SubSeq(u, 1, Len(u))
    BY <2>1, ConcatAdjacentSubSeq
  <2>3. SubSeq(u, 1, Len(u)) = u
    BY SubSeqFull
  <2> QED
    BY <1>5, <1>7, <2>2, <2>3
<1>10. /\ Stored(k) \in [1 .. BufSize -> Byte]
      /\ \A i \in 1 .. BufSize :
           Stored(k)[i] = IF i \in length + 1 .. length + k THEN u[i - length]
                          ELSE IF i = length + k + 1 THEN 0 ELSE peer_buffer[i]
  <2>1. \A i \in length + 1 .. length + k : u[i - length] \in Byte
    BY <1>1, <1>4
  <2>2. 0 \in Byte
    BY DEF Byte
  <2> QED
    BY <1>1, <1>2, <2>1, <2>2 DEF Stored
<1>11. PICK b \in [1 .. BufSize -> Byte] : b = Stored(k)
  BY <1>10
<1>12. PICK s \in Seq(Byte) : s = d \o a
  BY ConcatProperties
<1>13. /\ Len(s) = length + k
       /\ \A i \in 1 .. length + k : s[i] = IF i <= length THEN d[i] ELSE a[i - length]
  <2>1. /\ Len(d \o a) = Len(d) + Len(a)
        /\ \A i \in 1 .. Len(d) + Len(a) : (d \o a)[i] = IF i <= Len(d) THEN d[i] ELSE a[i - Len(d)]
    BY ConcatProperties
  <2> QED
    BY <1>3, <1>6, <1>12, <2>1
<1>14. \A i \in 1 .. length + k : s[i] = b[i]
  <2> SUFFICES ASSUME NEW i \in 1 .. length + k
               PROVE  s[i] = b[i]
    OBVIOUS
  <2>0. i \in 1 .. BufSize
    BY <1>1, <1>4
  <2>1. CASE i <= length
    BY <1>1, <1>3, <1>10, <1>11, <1>13, <2>0, <2>1
  <2>2. CASE i > length
    <3>1. i \in length + 1 .. length + k /\ i - length \in 1 .. k
      BY <1>1, <1>4, <2>2
    <3>2. b[i] = u[i - length]
      BY <1>10, <1>11, <2>0, <3>1
    <3>3. s[i] = a[i - length]
      BY <1>1, <1>13, <2>2
    <3> QED
      BY <1>6, <3>1, <3>2, <3>3
  <2> QED
    BY <1>1, <2>1, <2>2
<1>15. SubSeq(b, 1, length + k) = s
  <2>1. PICK n \in Nat : n = length + k
    BY <1>1, <1>4
  <2>2. n < BufSize /\ Len(s) = n /\ \A i \in 1 .. n : s[i] = b[i]
    BY <1>13, <1>14, <2>1
  <2>3. SubSeq(b, 1, n) = s
    BY <2>2, DataIs
  <2> QED
    BY <2>1, <2>3
<1> QED
  BY <1>2, <1>7, <1>9, <1>10, <1>11, <1>12, <1>15, <1>8

(* memmove puts what is behind the frame in front.                            *)
LEMMA MovedData ==
  ASSUME TypeOK, NEW k \in 1 .. length
  PROVE  SubSeq(MovedBy(k), 1, length - k) = SubSeq(data, k + 1, Len(data))
<1>1. /\ length \in Nat /\ BufSize \in Nat /\ length < BufSize
      /\ peer_buffer \in [1 .. BufSize -> Byte]
  BY Buffered
<1>2. PICK d \in Seq(Byte) : d = data
  BY Buffered
<1>3. Len(d) = length /\ \A i \in 1 .. length : d[i] = peer_buffer[i]
  BY <1>2, Buffered, DataInBuffer DEF data
<1>4. PICK n \in Nat : n = length - k
  BY <1>1
<1>5. PICK s \in Seq(Byte) : s = SubSeq(d, k + 1, Len(d))
  <2>1. k + 1 \in Nat \ {0} /\ Len(d) \in Int /\ Len(d) <= Len(d) /\ k + 1 <= Len(d) + 1
    BY <1>1, <1>3
  <2> QED
    BY <2>1, PartOfSeq
<1>6. Len(s) = n /\ \A i \in 1 .. n : s[i] = d[i + k]
  <2>1. k + 1 \in Nat \ {0} /\ Len(d) \in Int /\ Len(d) <= Len(d) /\ k + 1 <= Len(d) + 1
    BY <1>1, <1>3
  <2>2. Len(s) = Len(d) + 1 - (k + 1) /\ \A i \in 1 .. Len(s) : s[i] = d[k + 1 + i - 1]
    BY <1>5, <2>1, PartOfSeq
  <2>3. Len(s) = n
    BY <1>1, <1>3, <1>4, <2>2
  <2>4. \A i \in 1 .. n : k + 1 + i - 1 = i + k
    OBVIOUS
  <2> QED
    BY <2>2, <2>3, <2>4
<1>7. PICK b \in [1 .. BufSize -> Byte] : b = MovedBy(k)
  <2>1. \A i \in 1 .. BufSize : i <= length - k => i + k \in 1 .. BufSize
    BY <1>1
  <2> QED
    BY <1>1, <2>1 DEF MovedBy
<1>8. \A i \in 1 .. n : s[i] = b[i]
  <2> SUFFICES ASSUME NEW i \in 1 .. n
               PROVE  s[i] = b[i]
    OBVIOUS
  <2>1. i \in 1 .. BufSize /\ i <= length - k /\ i + k \in 1 .. length
    BY <1>1, <1>4
  <2>2. b[i] = peer_buffer[i + k]
    BY <1>7, <2>1 DEF MovedBy
  <2> QED
    BY <1>3, <1>6, <2>1, <2>2
<1>9. n < BufSize
  BY <1>1, <1>4
<1>10. SubSeq(b, 1, n) = s
  BY <1>6, <1>8, <1>9, DataIs
<1> QED
  BY <1>2, <1>4, <1>5, <1>7, <1>10

LEMMA CopyBackMoves ==
  ASSUME TypeOK, pc = "framing", NEW k \in 1 .. length, CopyBack(k)
  PROVE  data' = SubSeq(data, k + 1, Len(data))
<1>1. /\ peer_buffer_offset \in Nat /\ bytes_read \in Nat
      /\ length = peer_buffer_offset + bytes_read
  BY Buffered
<1> DEFINE kept == IF k < peer_buffer_offset THEN peer_buffer_offset - k ELSE 0
           left == IF k < peer_buffer_offset THEN bytes_read
                   ELSE bytes_read - (k - peer_buffer_offset)
<1>2. kept \in Nat /\ left \in Nat /\ kept + left = length - k
  BY <1>1
<1>3. \/ peer_buffer_offset' = kept /\ bytes_read' = left
      \/ peer_buffer_offset' = kept + left /\ bytes_read' = 0
  BY DEF CopyBack, Return
<1>4. length' = peer_buffer_offset' + bytes_read'
  BY DEF length
<1> HIDE DEF kept, left
<1>5. length' = length - k
  BY <1>2, <1>3, <1>4
<1>6. peer_buffer' = MovedBy(k)
  BY DEF CopyBack
<1> QED
  BY <1>5, <1>6, MovedData DEF data

(* One more frame is sent: the client reads one more.                         *)
AsRead(frames) == [i \in DOMAIN frames |-> ClientReads(frames[i])]
LEMMA OneMoreRead ==
  ASSUME NEW a \in Seq(Seq(Byte)), NEW f \in Seq(Byte)
  PROVE  /\ Append(a, f) \in Seq(Seq(Byte))
         /\ AsRead(Append(a, f)) = Append(AsRead(a), ClientReads(f))
<1>1. PICK b : b = Append(a, f)
  OBVIOUS
<1>2. PICK r : r = ClientReads(f)
  OBVIOUS
<1>3. PICK m \in Nat : m = Len(a)
  BY LenProperties
<1>4. DOMAIN a = 1 .. m
  BY <1>3, LenProperties
<1>5. b \in Seq(Seq(Byte)) /\ Len(b) = m + 1
  BY <1>1, <1>3, AppendProperties
<1>6. DOMAIN b = 1 .. m + 1
  BY <1>5, LenProperties
<1>7. b[m + 1] = f
  BY <1>1, <1>3, AppendProperties
<1>8. \A i \in 1 .. m : b[i] = a[i]
  BY <1>1, <1>3, AppendProperties
<1> DEFINE T == {ClientReads(a[i]) : i \in 1 .. m} \cup {r}
           c(i) == ClientReads(a[i])
<1>9. PICK g \in [1 .. m -> T] : g = [i \in 1 .. m |-> c(i)]
  OBVIOUS
<1>10. g = AsRead(a)
  BY <1>4, <1>9 DEF AsRead
<1>11. r \in T
  OBVIOUS
<1> HIDE DEF T
<1>12. g \in Seq(T) /\ Len(g) = m
  BY FunctionIsSeq
<1>13. PICK e : e = Append(g, r)
  OBVIOUS
<1>14. e \in Seq(T) /\ Len(e) = m + 1
  BY <1>11, <1>12, <1>13, AppendProperties
<1>15. e = [i \in 1 .. m + 1 |-> e[i]]
  BY <1>14, LenProperties
<1>16. e[m + 1] = r
  BY <1>11, <1>12, <1>13, AppendProperties
<1>17. \A i \in 1 .. m : e[i] = g[i]
  BY <1>11, <1>12, <1>13, AppendProperties
<1>18. \A i \in 1 .. m + 1 : e[i] = ClientReads(b[i])
  <2>1. e[m + 1] = ClientReads(b[m + 1])
    BY <1>2, <1>7, <1>16
  <2>2. \A i \in 1 .. m : e[i] = ClientReads(b[i])
    BY <1>8, <1>9, <1>17
  <2>3. \A i \in 1 .. m + 1 : i \in 1 .. m \/ i = m + 1
    OBVIOUS
  <2> QED
    BY <2>1, <2>2, <2>3
<1>19. AsRead(b) = [i \in 1 .. m + 1 |-> ClientReads(b[i])]
  BY <1>6 DEF AsRead
<1>20. e = AsRead(b)
  BY <1>15, <1>18, <1>19
<1> QED
  BY <1>1, <1>2, <1>5, <1>10, <1>13, <1>20

-----------------------------------------------------------------------------
(* Every step of PeerStream is one of Framer, or none.                        *)

LEMMA FrameStep ==
  ASSUME TypeOK, StreamInv, NEW r \in Calls, r.bytes \in 1 .. length, ~broken,
         CopyBack(r.bytes), UNCHANGED <<peer, unread, open, broken>>,
         IF r.op = "discard" THEN sent' = sent
         ELSE sent' = Append(sent, ws_send_frame(r.op, SubSeq(peer_buffer, 1, r.bytes)))
  PROVE  StreamInv' /\ Framed(r.bytes, r.op)
<1> DEFINE k == r.bytes
           op == r.op
<1>1. pc = "framing" /\ open /\ op \in {"binary", "text", "discard"}
  BY CallsLeaveOpcode DEF Calls, StreamInv
<1>2. /\ length \in Nat /\ length < BufSize /\ BufSize \in Nat /\ k \in 1 .. length
      /\ peer_buffer \in [1 .. BufSize -> Byte]
  BY Buffered
<1> HIDE DEF k, op
<1>3. PICK d \in Seq(Byte), u \in Seq(Byte) : d = data /\ u = unread /\ Len(d) = length
  BY Buffered
<1>4. PICK n \in Nat : n = k
  BY <1>2
<1>5. SubSeq(peer_buffer, 1, k) = SubSeq(d, 1, k)
  <2>1. n < BufSize /\ n <= length /\ n >= 1
    BY <1>2, <1>4
  <2>2. PICK a \in Seq(Byte) : a = SubSeq(d, 1, n)
    <3>1. 1 \in Nat \ {0} /\ n \in Int /\ n <= Len(d) /\ 1 <= n + 1
      BY <1>3, <2>1
    <3> QED
      BY <3>1, PartOfSeq
  <2>3. Len(a) = n /\ \A i \in 1 .. n : a[i] = d[i]
    <3>1. 1 \in Nat \ {0} /\ n \in Int /\ n <= Len(d) /\ 1 <= n + 1
      BY <1>3, <2>1
    <3>2. Len(a) = n + 1 - 1 /\ \A i \in 1 .. Len(a) : a[i] = d[1 + i - 1]
      BY <2>2, <3>1, PartOfSeq
    <3>3. Len(a) = n
      BY <3>2
    <3> QED
      BY <3>2, <3>3
  <2>4. \A i \in 1 .. length : d[i] = peer_buffer[i]
    BY <1>2, <1>3, DataInBuffer DEF data
  <2>5. \A i \in 1 .. n : a[i] = peer_buffer[i]
    BY <1>2, <2>1, <2>3, <2>4
  <2>6. SubSeq(peer_buffer, 1, n) = a
    BY <1>2, <2>1, <2>3, <2>5, DataIs
  <2> QED
    BY <1>4, <2>2, <2>6
<1>6. PICK a \in Seq(Byte) : a = SubSeq(d, 1, k) /\ Len(a) < Power[WideBytes]
  <2>1. 1 \in Nat \ {0} /\ n \in Int /\ n <= Len(d) /\ 1 <= n + 1
    BY <1>2, <1>3, <1>4
  <2>2. SubSeq(d, 1, n) \in Seq(Byte) /\ Len(SubSeq(d, 1, n)) = n + 1 - 1
    BY <2>1, PartOfSeq
  <2>3. n + 1 - 1 < Power[WideBytes]
    <3>1. PICK w \in Nat : w = Power[WideBytes]
      <4>1. WideBytes \in 0 .. WideBytes
        BY CodecAssumption
      <4> QED
        BY <4>1, Powers
    <3>2. BufSize < w
      BY <3>1, PeerFrameAssumption
    <3> QED
      BY <1>2, <1>4, <3>1, <3>2
  <2> QED
    BY <1>4, <2>2, <2>3
<1>7. /\ SubSeq(d \o u, 1, k) = a
      /\ SubSeq(d \o u, k + 1, Len(d \o u)) = SubSeq(d, k + 1, Len(d)) \o u
  <2>1. k \in 1 .. Len(d)
    BY <1>2, <1>3
  <2> QED
    BY <1>6, <2>1, TakenFromFirst
<1>8. ~over /\ ~over' /\ peer' = peer
  BY <1>1 DEF over
<1>9. Rest = d \o u /\ Rest' = data' \o unread'
  BY <1>3, <1>8 DEF Rest
<1>10. data' = SubSeq(d, k + 1, Len(d)) /\ unread' = u
  <2>1. k \in 1 .. length /\ CopyBack(k)
    BY DEF k
  <2>2. data' = SubSeq(data, k + 1, Len(data))
    BY <1>1, <2>1, CopyBackMoves
  <2> QED
    BY <1>3, <2>2
<1>11. k \in 1 .. Len(Rest)
  <2>1. Len(d \o u) = Len(d) + Len(u) /\ Len(u) \in Nat
    BY ConcatProperties, LenProperties
  <2>2. k \in 1 .. Len(d \o u)
    BY <1>2, <1>3, <2>1
  <2> QED
    BY <1>9, <2>2
<1>12. /\ sent' \in Seq(Seq(Byte))
       /\ Frames' = IF op = "discard" THEN Frames ELSE Append(Frames, [type |-> op, data |-> a])
  <2>1. CASE op = "discard"
    BY <2>1 DEF op, Frames, StreamInv
  <2>2. CASE op # "discard"
    <3>1. sent' = Append(sent, ws_send_frame(op, a))
      BY <1>5, <1>6, <2>2 DEF op, k
    <3>2. op \in Op
      BY <1>1, <2>2 DEF Op
    <3>3. PICK f \in Seq(Byte) : f = ws_send_frame(op, a)
      BY <1>6, <3>2, FramesAreBytes
    <3>4. ClientReads(f) = [type |-> op, data |-> a]
      BY <1>6, <3>2, <3>3, ClientReadsWhatIsSent
    <3>5. sent' = Append(sent, f) /\ sent \in Seq(Seq(Byte))
      BY <3>1, <3>3 DEF StreamInv
    <3>6. sent' \in Seq(Seq(Byte)) /\ AsRead(sent') = Append(AsRead(sent), ClientReads(f))
      BY <3>5, OneMoreRead
    <3> QED
      BY <2>2, <3>4, <3>6 DEF Frames, AsRead
  <2> QED
    BY <2>1, <2>2
<1>13. StreamInv'
  BY <1>1, <1>12 DEF StreamInv
<1>14. Rest' = SubSeq(Rest, k + 1, Len(Rest)) /\ SubSeq(Rest, 1, k) = a
  BY <1>7, <1>9, <1>10
<1>15. Framed(k, op)
  BY <1>8, <1>11, <1>12, <1>14 DEF Framed
<1> QED
  BY <1>13, <1>15 DEF k, op

LEMMA CloseStep ==
  ASSUME StreamInv, open, Close \/ FramingCrashes
  PROVE  StreamInv' /\ (Ended \/ Stuttered)
<1>1. open' = FALSE /\ pc' # "framing" /\ UNCHANGED <<peer, sent, broken>>
  BY LeftBy DEF Left
<1>2. StreamInv' /\ over' /\ Rest' = <<>> /\ Frames' = Frames /\ peer' = peer
  BY <1>1 DEF StreamInv, over, Rest, Frames
<1> QED
  BY <1>2 DEF Ended, Stuttered, Rest

LEMMA ReceiveStep ==
  ASSUME TypeOK, StreamInv, Receive
  PROVE  StreamInv' /\ Stuttered
<1>1. PICK k \in 1 .. Len(unread) :
        /\ k <= Room
        /\ peer_buffer' = Stored(k)
        /\ unread' = SubSeq(unread, k + 1, Len(unread))
        /\ bytes_read' = k
  BY DEF Receive
<1>2. /\ length \in Nat /\ BufSize \in Nat /\ bytes_read = 0 /\ length = peer_buffer_offset
  <2>1. pc = "idle"
    BY DEF Receive
  <2>2. ~(bytes_read > 0)
    BY <2>1, Zenon DEF TypeOK
  <2> QED
    BY <2>2, Buffered
<1>3. UNCHANGED <<peer, peer_buffer_offset, open, broken, sent>> /\ open
  BY DEF Receive
<1>4. length' = length + k /\ length + k < BufSize
  BY <1>1, <1>2, <1>3 DEF length, Room
<1>5. SubSeq(Stored(k), 1, length + k) \o SubSeq(unread, k + 1, Len(unread)) = data \o unread
  BY <1>2, <1>4, StoredBehind
<1>6. data' \o unread' = data \o unread
  BY <1>1, <1>4, <1>5 DEF data
<1>7. over' = over /\ Frames' = Frames /\ StreamInv'
  BY <1>3 DEF over, Frames, StreamInv
<1> QED
  BY <1>3, <1>6, <1>7 DEF Stuttered, Rest

LEMMA StepFacts ==
  ASSUME TypeOK, StreamInv, [Next]_vars
  PROVE  StreamInv' /\ ((\E r \in Calls : Framed(r.bytes, r.op)) \/ Ended \/ Stuttered)
<1>calls. \A r \in Calls : pc = "framing" /\ open
  BY DEF Calls, StreamInv
<1>FrameSent. CASE FrameSent
  <2>1. PICK r \in Calls :
          /\ r.bytes \in 1 .. length /\ r.op # "discard" /\ ~broken
          /\ sent' = Append(sent, ws_send_frame(r.op, SubSeq(peer_buffer, 1, r.bytes)))
          /\ CopyBack(r.bytes)
          /\ UNCHANGED <<peer, unread, open, broken>>
    BY <1>FrameSent DEF FrameSent
  <2>2. StreamInv' /\ Framed(r.bytes, r.op)
    BY <2>1, FrameStep
  <2> QED
    BY <2>2
<1>FrameDiscarded. CASE FrameDiscarded
  <2>1. PICK r \in Calls :
          /\ r.bytes \in 1 .. length /\ r.op = "discard"
          /\ CopyBack(r.bytes)
          /\ UNCHANGED <<peer, unread, open, broken, sent>>
    BY <1>FrameDiscarded DEF FrameDiscarded
  <2>2. CASE ~broken
    <3>1. StreamInv' /\ Framed(r.bytes, r.op)
      BY <2>1, <2>2, FrameStep
    <3> QED
      BY <3>1
  <2>3. CASE broken
    BY <1>calls, <2>1, <2>3 DEF StreamInv, Stuttered, Rest, over, Frames
  <2> QED
    BY <2>2, <2>3
<1>SendFails. CASE SendFails
  <2>1. open /\ broken' = TRUE /\ pc' = "idle" /\ UNCHANGED <<peer, open, sent>>
    BY <1>SendFails, <1>calls DEF SendFails
  <2> QED
    BY <2>1 DEF StreamInv, Stuttered, Ended, Rest, over, Frames
<1>Overrun. CASE Overrun
  BY <1>Overrun, <1>calls, CloseStep DEF Overrun
<1>crash. CASE FramingCrashes
  BY <1>crash, CloseStep DEF FramingCrashes, StreamInv
<1>Incomplete. CASE Incomplete
  <2>1. /\ peer_buffer_offset' = peer_buffer_offset + bytes_read /\ bytes_read' = 0
        /\ pc' = "idle" /\ UNCHANGED <<peer, unread, peer_buffer, open, broken, sent>>
    BY <1>Incomplete DEF Incomplete, Return
  <2>2. length' = length
    BY <2>1, Buffered DEF length
  <2>3. data' = data
    BY <2>1, <2>2 DEF data
  <2> QED
    BY <2>1, <2>3 DEF StreamInv, Stuttered, Rest, over, Frames
<1>Receive. CASE Receive
  BY <1>Receive, ReceiveStep
<1>closes. CASE ReceiveEnds \/ ReceiveNothing \/ LoopCloses
  BY <1>closes, CloseStep DEF ReceiveEnds, ReceiveNothing, LoopCloses
<1>stutter. CASE UNCHANGED vars
  <2>1. /\ UNCHANGED <<peer, unread, peer_buffer, peer_buffer_offset, bytes_read>>
        /\ UNCHANGED <<pc, open, broken, sent>>
    BY <1>stutter DEF vars, buffer
  <2>2. data' = data
    BY <2>1 DEF data, length
  <2> QED
    BY <2>1, <2>2 DEF StreamInv, Stuttered, Rest, over, Frames
<1> QED
  BY <1>FrameSent, <1>FrameDiscarded, <1>SendFails, <1>Overrun, <1>crash, <1>Incomplete,
     <1>Receive, <1>closes, <1>stutter
  DEF Next, Handler, FramingFails, FramingLoops, Closed

LEMMA InitFacts ==
  ASSUME Init
  PROVE  StreamInv /\ Rest = peer.stream /\ Frames = <<>> /\ over = FALSE
<1>1. StreamInv /\ over = FALSE /\ Frames = <<>>
  BY DEF Init, StreamInv, over, Frames
<1>2. peer.stream \in Seq(Byte) /\ unread = peer.stream
  BY PeersAssumption DEF Init, PeersAssumption
<1>3. data = <<>>
  <2>1. length = 0
    BY DEF Init, length
  <2>2. peer_buffer \in [1 .. BufSize -> Byte]
    BY PeerBufSizeAssumption DEF Init, PeerBufSizeAssumption, Byte
  <2>3. 0 \in Nat /\ 0 < BufSize /\ <<>> \in Seq(Byte) /\ Len(<<>>) = 0
    BY PeerBufSizeAssumption DEF PeerBufSizeAssumption
  <2>4. SubSeq(peer_buffer, 1, 0) = <<>>
    BY <2>2, <2>3, DataIs
  <2> QED
    BY <2>1, <2>4 DEF data
<1>4. <<>> \o peer.stream = peer.stream
  BY <1>2, ConcatEmptySeq
<1> QED
  BY <1>1, <1>2, <1>3, <1>4 DEF Rest

(* Framer with frames of any length and type.                                 *)
AnyLength(p, s) == 1 .. Len(s)
AnyType(p, s) == {"text", "binary", "discard"}
InOrder == INSTANCE Framer WITH Peer <- Peers, frames <- Frames, rest <- Rest,
                                Boundaries <- AnyLength, Types <- AnyType

(* Whatever a framing function answers, and however the peer's stream is cut  *)
(* into reads: what the client reads from the bytes of its frames are         *)
(* consecutive pieces of the stream, in order, none twice and, but for those  *)
(* a function discards, none left out.                                        *)
THEOREM StreamInOrder == Spec => InOrder!Spec
<1>1. Init => StreamInv /\ InOrder!Init
  <2> SUFFICES ASSUME Init PROVE StreamInv /\ InOrder!Init
    OBVIOUS
  <2>1. peer \in Peers
    BY DEF Init
  <2> QED
    BY <2>1, InitFacts DEF InOrder!Init, Stream
<1>2. TypeOK /\ StreamInv /\ [Next]_vars => StreamInv' /\ [InOrder!Next]_(InOrder!vars)
  <2> SUFFICES ASSUME TypeOK, StreamInv, [Next]_vars
               PROVE  StreamInv' /\ [InOrder!Next]_(InOrder!vars)
    OBVIOUS
  <2>1. CASE \E r \in Calls : Framed(r.bytes, r.op)
    <3>1. PICK r \in Calls : Framed(r.bytes, r.op)
      BY <2>1
    <3>2. r.op \in {"text", "binary", "discard"}
      BY CallsLeaveOpcode
    <3>3. CASE r.op = "discard"
      <4>1. InOrder!Discard
        BY <3>1, <3>3 DEF InOrder!Discard, InOrder!Take, AnyLength, AnyType, Framed, over
      <4> QED
        BY <4>1, StepFacts DEF InOrder!Next
    <3>4. CASE r.op # "discard"
      <4>1. InOrder!Frame
        BY <3>1, <3>2, <3>4 DEF InOrder!Frame, InOrder!Take, AnyLength, AnyType, Framed, over
      <4> QED
        BY <4>1, StepFacts DEF InOrder!Next
    <3> QED
      BY <3>3, <3>4
  <2>2. CASE Ended
    <3>1. InOrder!End
      BY <2>2 DEF Ended, InOrder!End, over
    <3> QED
      BY <3>1, StepFacts DEF InOrder!Next
  <2>3. CASE Stuttered
    BY <2>3, StepFacts DEF Stuttered, InOrder!vars, over
  <2> QED
    BY <2>1, <2>2, <2>3, StepFacts
<1> QED
  BY <1>1, <1>2, BufferConsistent, PTL DEF Spec, InOrder!Spec

-----------------------------------------------------------------------------
(* Separators.  Where one ends, byte by byte.                                 *)
EndsAt(s, sep, e) ==
  /\ e \in Len(sep) .. Len(s)
  /\ \A i \in 1 .. Len(sep) : s[(e - Len(sep)) + i] = sep[i]

LEMMA EndsAre ==
  ASSUME NEW s \in Seq(Byte), NEW sep \in Seq(Byte), NEW e \in Int
  PROVE  e \in Ends(s, sep) <=> EndsAt(s, sep, e)
<1>1. Len(s) \in Nat /\ Len(sep) \in Nat
  BY LenProperties
<1>2. ASSUME e \in Len(sep) .. Len(s)
      PROVE  SubSeq(s, e - Len(sep) + 1, e) = sep
               <=> \A i \in 1 .. Len(sep) : s[(e - Len(sep)) + i] = sep[i]
  <2>0. e - Len(sep) + 1 \in Nat \ {0}
    BY <1>1, <1>2
  <2>1. PICK a \in Nat \ {0} : a = e - Len(sep) + 1
    BY <2>0
  <2>2. e \in Int /\ e <= Len(s) /\ a <= e + 1 /\ e + 1 - a = Len(sep)
    BY <1>1, <1>2, <2>1
  <2>3. /\ SubSeq(s, a, e) \in Seq(Byte) /\ Len(SubSeq(s, a, e)) = e + 1 - a
        /\ \A i \in 1 .. Len(SubSeq(s, a, e)) : SubSeq(s, a, e)[i] = s[a + i - 1]
    BY <2>2, PartOfSeq
  <2>4. PICK v \in Seq(Byte) : v = SubSeq(s, a, e)
    BY <2>3
  <2>5. Len(v) = Len(sep) /\ \A i \in 1 .. Len(sep) : v[i] = s[(e - Len(sep)) + i]
    <3>1. \A i \in 1 .. Len(sep) : a + i - 1 = (e - Len(sep)) + i
      BY <1>1, <2>1
    <3>2. Len(v) = Len(sep) /\ \A i \in 1 .. Len(sep) : v[i] = s[a + i - 1]
      BY <2>2, <2>3, <2>4
    <3> QED
      BY <3>1, <3>2
  <2>6. v = sep <=> \A i \in 1 .. Len(sep) : v[i] = sep[i]
    <3>1. ASSUME \A i \in 1 .. Len(sep) : v[i] = sep[i]
          PROVE  v = sep
      BY <2>5, <3>1, SeqEqual
    <3> QED
      BY <3>1
  <2> QED
    BY <2>1, <2>4, <2>5, <2>6
<1> QED
  BY <1>1, <1>2 DEF Ends, EndsAt

(* s is how t ends.                                                           *)
SuffixOf(s, t) ==
  /\ Len(s) <= Len(t)
  /\ \A i \in 1 .. Len(s) : s[i] = t[(Len(t) - Len(s)) + i]

LEMMA EndsInWhole ==
  ASSUME NEW t \in Seq(Byte), NEW s \in Seq(Byte), SuffixOf(s, t),
         NEW sep \in Seq(Byte), NEW e \in Int, EndsAt(s, sep, e)
  PROVE  EndsAt(t, sep, (Len(t) - Len(s)) + e)
<1>1. Len(s) \in Nat /\ Len(sep) \in Nat /\ Len(t) \in Nat /\ e \in Len(sep) .. Len(s)
  BY LenProperties DEF EndsAt
<1>0. Len(t) - Len(s) \in Nat
  BY <1>1 DEF SuffixOf
<1>2. PICK o \in Nat : o = Len(t) - Len(s)
  BY <1>0
<1>3. o + e \in Len(sep) .. Len(t)
  BY <1>1, <1>2
<1>4. ASSUME NEW i \in 1 .. Len(sep)
      PROVE  t[((o + e) - Len(sep)) + i] = sep[i]
  <2>1. s[(e - Len(sep)) + i] = sep[i]
    BY DEF EndsAt
  <2>2. (e - Len(sep)) + i \in 1 .. Len(s)
    BY <1>1
  <2>3. s[(e - Len(sep)) + i] = t[o + ((e - Len(sep)) + i)]
    BY <1>2, <2>2 DEF SuffixOf
  <2>4. o + ((e - Len(sep)) + i) = ((o + e) - Len(sep)) + i
    BY <1>1
  <2> QED
    BY <2>1, <2>3, <2>4
<1> QED
  BY <1>2, <1>3, <1>4 DEF EndsAt

LEMMA EndsInFirst ==
  ASSUME NEW s \in Seq(Byte), NEW t \in Seq(Byte), Len(s) <= Len(t),
         \A i \in 1 .. Len(s) : s[i] = t[i],
         NEW sep \in Seq(Byte), NEW e \in Int, e <= Len(s)
  PROVE  EndsAt(s, sep, e) <=> EndsAt(t, sep, e)
<1>1. Len(s) \in Nat /\ Len(sep) \in Nat /\ Len(t) \in Nat
  BY LenProperties
<1>2. ASSUME NEW i \in 1 .. Len(sep), e \in Len(sep) .. Len(s)
      PROVE  s[(e - Len(sep)) + i] = t[(e - Len(sep)) + i]
  <2>1. (e - Len(sep)) + i \in 1 .. Len(s)
    BY <1>1, <1>2
  <2> QED
    BY <2>1
<1> QED
  BY <1>1, <1>2 DEF EndsAt

(* d \o u is how t ends, and of d the first o bytes are of earlier reads: they *)
(* have no separator, and at c, where they end, none is cut.                  *)
Placed(t, d, u, sep, o, c) ==
  /\ SuffixOf(d \o u, t) /\ sep # <<>>
  /\ Ends(SubSeq(d, 1, o), sep) = {}
  /\ c = ((Len(t) - Len(u)) - Len(d)) + o
  /\ o = 0 \/ \A e \in Ends(t, sep) : c \notin e - Len(sep) + 1 .. e - 1

(* The first separator in the last read is the first of all.                  *)
FirstIsFound(d, u, sep, o) ==
  /\ {e \in Ends(d, sep) : e - Len(sep) >= o} = Ends(d, sep)
  /\ Ends(d, sep) # {} =>
       /\ Min(Ends(d, sep)) \in Ends(d, sep) /\ Min(Ends(d, sep)) > o
       /\ Ends(d \o u, sep) # {} /\ Min(Ends(d \o u, sep)) = Min(Ends(d, sep))

LEMMA FirstSeparator ==
  ASSUME NEW t \in Seq(Byte), NEW d \in Seq(Byte), NEW u \in Seq(Byte), NEW sep \in Seq(Byte),
         NEW o \in 0 .. Len(d), NEW c \in Int, Placed(t, d, u, sep, o, c)
  PROVE  FirstIsFound(d, u, sep, o)
<1>p. SuffixOf(d \o u, t) /\ sep # <<>> /\ Ends(SubSeq(d, 1, o), sep) = {}
  BY DEF Placed
<1>1. Len(d) \in Nat /\ Len(u) \in Nat /\ Len(t) \in Nat /\ Len(sep) \in Nat \ {0}
  BY <1>p, LenProperties, EmptySeq
<1>2. PICK w \in Seq(Byte) : w = d \o u
  BY ConcatProperties
<1>3. Len(w) = Len(d) + Len(u) /\ \A i \in 1 .. Len(d) : d[i] = w[i]
  BY <1>2, FirstPart
<1>4. PICK a \in Seq(Byte) : a = SubSeq(d, 1, o)
  <2>1. 1 \in Nat \ {0} /\ o \in Int /\ o <= Len(d) /\ 1 <= o + 1
    BY <1>1
  <2> QED
    BY <2>1, PartOfSeq
<1>5. Len(a) = o /\ \A i \in 1 .. o : a[i] = d[i]
  <2>1. 1 \in Nat \ {0} /\ o \in Int /\ o <= Len(d) /\ 1 <= o + 1
    BY <1>1
  <2>2. Len(a) = o + 1 - 1 /\ \A i \in 1 .. Len(a) : a[i] = d[1 + i - 1]
    BY <1>4, <2>1, PartOfSeq
  <2>3. Len(a) = o
    BY <2>1, <2>2
  <2> QED
    BY <2>1, <2>2, <2>3
<1>6. ASSUME NEW e \in Ends(d, sep)
      PROVE  e \in Nat /\ e - Len(sep) >= o
  <2>1. e \in Int /\ e \in Nat /\ e \in Len(sep) .. Len(d)
    BY <1>1 DEF Ends
  <2>2. EndsAt(d, sep, e)
    BY <2>1, EndsAre
  <2>3. e > o
    <3>1. SUFFICES ASSUME e <= o PROVE FALSE
      BY <1>1, <2>1
    <3>2. Len(a) <= Len(d) /\ \A i \in 1 .. Len(a) : a[i] = d[i]
      BY <1>1, <1>5
    <3>3. e <= Len(a)
      BY <1>5, <3>1
    <3>4. EndsAt(a, sep, e)
      BY <2>1, <2>2, <3>2, <3>3, EndsInFirst
    <3>5. e \in Ends(a, sep)
      BY <2>1, <3>4, EndsAre
    <3> QED
      BY <1>p, <1>4, <3>5
  <2>4. EndsAt(w, sep, e)
    <3>1. Len(d) <= Len(w) /\ e <= Len(d)
      BY <1>1, <1>3, <2>1
    <3> QED
      BY <1>3, <2>1, <2>2, <3>1, EndsInFirst
  <2>5. SuffixOf(w, t)
    BY <1>p, <1>2
  <2>f. (Len(t) - Len(w)) + e \in Int
    BY <1>1, <1>3, <2>1
  <2>6. PICK f \in Int : f = (Len(t) - Len(w)) + e
    BY <2>f
  <2>7. EndsAt(t, sep, f)
    BY <2>1, <2>4, <2>5, <2>6, EndsInWhole
  <2>8. f \in Ends(t, sep)
    BY <2>6, <2>7, EndsAre
  <2>9. c = (Len(t) - Len(w)) + o
    BY <1>1, <1>3 DEF Placed
  <2>10. CASE o = 0
    BY <1>1, <2>1, <2>10
  <2>11. CASE o # 0
    <3>1. c \notin f - Len(sep) + 1 .. f - 1
      BY <2>8, <2>11 DEF Placed
    <3>2. Len(t) - Len(w) \in Int
      BY <1>1, <1>3
    <3>3. c <= f - 1 /\ f - Len(sep) + 1 \in Int
      BY <1>1, <2>1, <2>3, <2>6, <2>9, <3>2
    <3>4. c < f - Len(sep) + 1
      BY <3>1, <3>3
    <3> QED
      BY <1>1, <2>1, <2>6, <2>9, <3>2, <3>4
  <2> QED
    BY <2>1, <2>10, <2>11
<1>7. {e \in Ends(d, sep) : e - Len(sep) >= o} = Ends(d, sep)
  BY <1>6
<1>8. ASSUME Ends(d, sep) # {}
      PROVE  /\ Min(Ends(d, sep)) \in Ends(d, sep) /\ Min(Ends(d, sep)) > o
             /\ Ends(d \o u, sep) # {} /\ Min(Ends(d \o u, sep)) = Min(Ends(d, sep))
  <2> DEFINE E == Ends(d, sep)
             F == Ends(w, sep)
             m == Min(E)
             n == Min(F)
  <2>1. E \in SUBSET Nat /\ F \in SUBSET Nat
    BY <1>1 DEF Ends
  <2>2. ASSUME NEW e \in Int, e <= Len(d)
        PROVE  e \in E <=> e \in F
    <3>1. Len(d) <= Len(w)
      BY <1>1, <1>3
    <3>2. EndsAt(d, sep, e) <=> EndsAt(w, sep, e)
      BY <1>3, <2>2, <3>1, EndsInFirst
    <3>3. e \in Ends(d, sep) <=> EndsAt(d, sep, e)
      BY EndsAre
    <3>4. e \in Ends(w, sep) <=> EndsAt(w, sep, e)
      BY EndsAre
    <3> QED
      BY <3>2, <3>3, <3>4
  <2>3. \A e \in E : e <= Len(d)
    BY <1>1 DEF Ends
  <2>4. E \subseteq F
    BY <2>1, <2>2, <2>3
  <2>5. m \in E /\ \A e \in E : m <= e
    <3>1. \E x \in E : \A e \in E : x <= e
      BY <1>8, <2>1, SmallestOf
    <3> QED
      BY <3>1 DEF Min
  <2>6. n \in F /\ \A e \in F : n <= e
    <3>1. \E x \in F : \A e \in F : x <= e
      BY <1>8, <2>1, <2>4, SmallestOf
    <3> QED
      BY <3>1 DEF Min
  <2>7. n <= m /\ m <= Len(d) /\ m \in Int /\ n \in Int
    BY <2>1, <2>3, <2>4, <2>5, <2>6
  <2> HIDE DEF E, F, m, n
  <2>8. n \in E
    BY <1>1, <2>2, <2>6, <2>7
  <2>9. m = n
    BY <2>5, <2>7, <2>8
  <2>10. m > o
    <3>1. m - Len(sep) >= o
      BY <1>6, <2>5 DEF E
    <3> QED
      BY <1>1, <2>7, <3>1
  <2> QED
    BY <1>2, <2>5, <2>6, <2>9, <2>10 DEF E, F, m, n
<1> QED
  BY <1>7, <1>8 DEF FirstIsFound

-----------------------------------------------------------------------------
(* The functions that leave no frame behind.  A separator must be what its    *)
(* expression stands for, and no read may end inside one; the length fields   *)
(* of dynamic32 must mean something.                                          *)
Separating(p) ==
  /\ p.framing \in {"separator", "newline"}
  /\ Separator(IF p.framing = "newline" THEN Newline(p.newline) ELSE p.expression)
       = [ok |-> TRUE, bytes |-> p.sep]
  /\ p.sep \in Seq(Byte)
  /\ \A e \in Ends(p.stream, p.sep) : p.cuts \cap (e - Len(p.sep) + 1 .. e - 1) = {}
Exact(p) == p.framing \in {"auto", "binary", "fixedlength"} \/ Separating(p) \/ Measuring(p)

(* How much of the stream has been received.                                  *)
Received == Len(peer.stream) - Len(unread)
old == SubSeq(peer_buffer, 1, peer_buffer_offset)

(* Until the end, what has not been framed is how the stream ends, and data   *)
(* of earlier calls ends where a read has ended, and a frame begins where it  *)
(* begins...                                                                  *)
PlaceInv ==
  ~over => /\ SuffixOf(Rest, peer.stream)
           /\ Measuring(peer) => \E rests : Measured(peer, rests) /\ Begins(peer, rests) /\ Rest \in rests
           /\ Received \in peer.cuts \cup {0}
           /\ peer_buffer_offset = 0 \/ Received - bytes_read \in peer.cuts \cup {0}
(* ... and has no frame in it.                                                *)
OldInv == ~over /\ Exact(peer) => Boundaries(peer, old) = {}

(* What has been received of a length field does not change.                  *)
LEMMA FieldOfPrefix ==
  ASSUME NEW s \in Seq(Byte), NEW t \in Seq(Byte), Len(s) <= Len(t),
         \A i \in 1 .. Len(s) : s[i] = t[i],
         NEW p, Option(p, "offset") \in Nat, FieldEnd(p) <= Len(s)
  PROVE  Total(p, s) = Total(p, t)
<1>1. PICK o \in Nat : o = Option(p, "offset")
  OBVIOUS
<1>2. PICK n \in Nat : n = SizeBytes
  BY SizeBytesAssumption DEF SizeBytesAssumption
<1>3. Len(s) \in Nat /\ Len(t) \in Nat /\ o + n <= Len(s)
  BY <1>1, <1>2, LenProperties DEF FieldEnd
<1>4. o + 1 \in Nat \ {0} /\ o + n \in Int /\ o + n <= Len(s) /\ o + n <= Len(t) /\ o + 1 <= (o + n) + 1
  BY <1>3
<1>5. PICK a \in Seq(Byte), b \in Seq(Byte) : a = SubSeq(s, o + 1, o + n) /\ b = SubSeq(t, o + 1, o + n)
  BY <1>4, PartOfSeq
<1>6. /\ Len(a) = (o + n) + 1 - (o + 1) /\ \A i \in 1 .. Len(a) : a[i] = s[(o + 1) + i - 1]
      /\ Len(b) = (o + n) + 1 - (o + 1) /\ \A i \in 1 .. Len(b) : b[i] = t[(o + 1) + i - 1]
  BY <1>4, <1>5, PartOfSeq
<1>7. Len(a) = n /\ Len(b) = n
  BY <1>6
<1>8. \A i \in 1 .. n : (o + 1) + i - 1 \in 1 .. Len(s)
  BY <1>3
<1>9. \A i \in 1 .. Len(a) : a[i] = b[i]
  BY <1>6, <1>7, <1>8
<1>10. a = b
  BY <1>7, <1>9, SeqEqual
<1>11. \A big : SizeField(s, o, big) = SizeField(t, o, big)
  BY <1>2, <1>5, <1>10 DEF SizeField
<1> QED
  BY <1>1, <1>11 DEF Total

LEMMA OldIs ==
  ASSUME TypeOK
  PROVE  /\ old \in Seq(Byte) /\ Len(old) = peer_buffer_offset /\ Len(old) <= Len(data)
         /\ \A i \in 1 .. Len(old) : old[i] = data[i]
<1>1. /\ peer_buffer \in [1 .. BufSize -> Byte] /\ length \in Nat /\ length < BufSize /\ BufSize \in Nat
      /\ peer_buffer_offset \in Nat /\ bytes_read \in Nat /\ length = peer_buffer_offset + bytes_read
      /\ Len(data) = length
  BY Buffered
<1>2. peer_buffer_offset < BufSize /\ peer_buffer_offset <= length
  BY <1>1
<1>3. /\ old \in Seq(Byte) /\ Len(old) = peer_buffer_offset
      /\ \A i \in 1 .. peer_buffer_offset : old[i] = peer_buffer[i]
  BY <1>1, <1>2, DataInBuffer DEF old
<1>4. \A i \in 1 .. length : data[i] = peer_buffer[i]
  BY <1>1, DataInBuffer DEF data
<1> QED
  BY <1>1, <1>2, <1>3, <1>4

(* dynamic32 asks for a frame as soon as all of it is there.                  *)
LEMMA MeasuringCall ==
  ASSUME TypeOK, PlaceInv, OldInv, ~over, Measuring(peer), NEW k, k = framing_dynamic32(data)
  PROVE  /\ k > 0 => k > peer_buffer_offset /\ k \in Boundaries(peer, Rest)
         /\ k = 0 => Boundaries(peer, data) = {}
<1>1. PICK rests : Measured(peer, rests) /\ Rest \in rests
  BY DEF PlaceInv
<1>2. PICK o \in Nat, e \in Nat : o = Option(peer, "offset") /\ e = FieldEnd(peer) /\ e = o + SizeBytes /\ e > 0
  <2>1. PICK o \in Nat : o = Option(peer, "offset")
    BY DEF Measuring
  <2>2. o + SizeBytes \in Nat /\ o + SizeBytes > 0
    BY SizeBytesAssumption DEF SizeBytesAssumption
  <2>3. FieldEnd(peer) = o + SizeBytes
    BY <2>1 DEF FieldEnd
  <2> QED
    BY <2>1, <2>2, <2>3
<1>3. PICK d \in Seq(Byte), u \in Seq(Byte) : d = data /\ u = unread
  BY Buffered
<1>4. /\ Rest = d \o u /\ d \o u \in Seq(Byte) /\ Len(d \o u) = Len(d) + Len(u)
      /\ Len(d) \in Nat /\ Len(u) \in Nat /\ \A i \in 1 .. Len(d) : (d \o u)[i] = d[i]
  BY <1>3, ConcatProperties, LenProperties DEF Rest
<1>5. PICK r \in Seq(Byte) : r = Rest /\ Len(d) <= Len(r) /\ Len(r) \in Nat /\ \A i \in 1 .. Len(d) : d[i] = r[i]
  <2>1. PICK r \in Seq(Byte) : r = d \o u
    BY <1>4
  <2>2. Len(r) = Len(d) + Len(u) /\ \A i \in 1 .. Len(d) : r[i] = d[i]
    BY <1>4, <2>1
  <2>3. Len(d) <= Len(r) /\ Len(r) \in Nat
    BY <1>4, <2>2
  <2> QED
    BY <1>4, <2>1, <2>2, <2>3
<1>6. \A s : Boundaries(peer, s) = IF Len(s) < e THEN {} ELSE {Total(peer, s)} \cap 1 .. Len(s)
  BY <1>2 DEF Boundaries, Measuring
<1>7. CASE Len(d) < e
  <2>1. k = 0
    BY <1>2, <1>3, <1>7 DEF framing_dynamic32
  <2> QED
    BY <1>3, <1>6, <1>7, <2>1
<1>8. CASE ~(Len(d) < e)
  <2>1. e <= Len(d) /\ Len(r) >= e
    BY <1>4, <1>5, <1>8
  <2>2. Total(peer, d) = Total(peer, r)
    BY <1>2, <1>5, <2>1, FieldOfPrefix
  <2>3. PICK n \in Nat : n = Total(peer, r) /\ n >= e /\ n % Modulus = n
    BY <1>1, <1>2, <1>5, <2>1 DEF Measured
  <2>4. k = IF Len(d) >= n THEN n ELSE 0
    <3>1. Total(peer, d) = (o + SizeBytes) + Option(peer, "static") + SizeField(d, o, Option(peer, "endian") = 1)
      BY <1>2 DEF Total, FieldEnd
    <3>2. k = IF Len(d) >= Total(peer, d) % Modulus THEN Total(peer, d) % Modulus ELSE 0
      BY <1>2, <1>3, <1>8, <3>1 DEF framing_dynamic32
    <3> QED
      BY <2>2, <2>3, <3>2
  <2>5. CASE Len(d) >= n
    <3>1. k = n /\ n \in 1 .. Len(r)
      BY <1>2, <1>4, <1>5, <2>3, <2>4, <2>5
    <3>2. k \in Boundaries(peer, r)
      <4>1. ~(Len(r) < e)
        BY <1>2, <1>5, <2>1
      <4>2. Boundaries(peer, r) = {Total(peer, r)} \cap 1 .. Len(r)
        BY <1>6, <4>1
      <4> QED
        BY <2>3, <3>1, <4>2
    <3>3. k > peer_buffer_offset
      <4>1. PICK v \in Seq(Byte) : v = old /\ Len(v) = peer_buffer_offset /\ Len(v) <= Len(d)
                                   /\ \A i \in 1 .. Len(v) : v[i] = d[i]
        BY <1>3, OldIs
      <4>2. Len(v) \in Nat
        BY LenProperties
      <4>3. CASE Len(v) < e
        BY <1>2, <2>3, <3>1, <4>1, <4>2, <4>3
      <4>4. CASE ~(Len(v) < e)
        <5>1. Total(peer, v) = Total(peer, d)
          <6>1. FieldEnd(peer) <= Len(v) /\ Option(peer, "offset") \in Nat
            BY <1>2, <4>2, <4>4
          <6> QED
            BY <4>1, <6>1, FieldOfPrefix
        <5>2. Boundaries(peer, v) = {}
          BY <4>1 DEF OldInv, Exact
        <5>3. n \notin 1 .. Len(v)
          BY <1>6, <2>2, <2>3, <4>4, <5>1, <5>2
        <5> QED
          BY <3>1, <4>1, <4>2, <5>3
      <4> QED
        BY <4>3, <4>4
    <3> QED
      BY <1>2, <1>5, <2>3, <3>1, <3>2, <3>3
  <2>6. CASE ~(Len(d) >= n)
    <3>1. k = 0 /\ n \notin 1 .. Len(d)
      BY <1>4, <2>3, <2>4, <2>6
    <3> QED
      BY <1>3, <1>6, <1>8, <2>2, <2>3, <3>1
  <2> QED
    BY <2>5, <2>6
<1> QED
  BY <1>7, <1>8

LEMMA SeparatorCall ==
  ASSUME TypeOK, PlaceInv, OldInv, ~over, Separating(peer), pc = "framing",
         NEW expression,
         expression = IF peer.framing = "newline" THEN Newline(peer.newline) ELSE peer.expression,
         NEW k, k = framing_separator(data, bytes_read, expression)
  PROVE  /\ k \in 0 .. length
         /\ k > 0 => k > peer_buffer_offset /\ k \in Boundaries(peer, Rest)
         /\ k = 0 => Boundaries(peer, data) = {}
<1>1. Separator(expression).ok /\ Separator(expression).bytes = peer.sep /\ peer.sep \in Seq(Byte)
  BY DEF Separating
<1>2. PICK d \in Seq(Byte), u \in Seq(Byte), t \in Seq(Byte), sep \in Seq(Byte) :
        d = data /\ u = unread /\ t = peer.stream /\ sep = peer.sep
  BY <1>1, Buffered, PeersAssumption DEF TypeOK, PeersAssumption
<1>3. /\ length \in Nat /\ peer_buffer_offset \in Nat /\ bytes_read \in Nat /\ bytes_read > 0
      /\ length = peer_buffer_offset + bytes_read /\ Len(d) = length
  <2>1. bytes_read > 0
    BY Zenon DEF TypeOK
  <2> QED
    BY <1>2, <2>1, Buffered
<1>4. Rest = d \o u /\ Len(Rest) = Len(d) + Len(u) /\ Len(u) \in Nat
  <2>1. Len(d \o u) = Len(d) + Len(u) /\ Len(u) \in Nat
    BY ConcatProperties, LenProperties
  <2> QED
    BY <1>2, <2>1 DEF Rest
<1>5. Boundaries(peer, d) = (IF sep = <<>> THEN 1 .. Len(d)
                             ELSE IF Ends(d, sep) = {} THEN {} ELSE {Min(Ends(d, sep))})
  BY <1>2 DEF Boundaries, Separating
<1>6. Boundaries(peer, Rest) = (IF sep = <<>> THEN 1 .. Len(Rest)
                                ELSE IF Ends(Rest, sep) = {} THEN {} ELSE {Min(Ends(Rest, sep))})
  BY <1>2 DEF Boundaries, Separating
<1>7. CASE sep = <<>>
  <2>1. k = Len(d)
    BY <1>1, <1>2, <1>7 DEF framing_separator
  <2> QED
    BY <1>3, <1>4, <1>6, <1>7, <2>1
<1>8. CASE sep # <<>>
  <2>1. Boundaries(peer, old) = {}
    BY DEF OldInv, Exact
  <2>2. Ends(old, sep) = {}
    BY <1>2, <1>8, <2>1 DEF Boundaries, Separating
  <2>3. PICK o \in 0 .. Len(d) : o = peer_buffer_offset
    BY <1>3
  <2>4. old = SubSeq(d, 1, o)
    <3>1. o < BufSize /\ o \in Nat /\ peer_buffer \in [1 .. BufSize -> Byte] /\ length < BufSize
      BY <1>3, <2>3, Buffered
    <3>2. PICK a \in Seq(Byte) : a = SubSeq(d, 1, o)
      <4>1. 1 \in Nat \ {0} /\ o \in Int /\ o <= Len(d) /\ 1 <= o + 1
        BY <1>3
      <4> QED
        BY <4>1, PartOfSeq
    <3>3. Len(a) = o /\ \A i \in 1 .. o : a[i] = d[i]
      <4>1. 1 \in Nat \ {0} /\ o \in Int /\ o <= Len(d) /\ 1 <= o + 1
        BY <1>3
      <4>2. Len(a) = o + 1 - 1 /\ \A i \in 1 .. Len(a) : a[i] = d[1 + i - 1]
        BY <3>2, <4>1, PartOfSeq
      <4>3. Len(a) = o
        BY <4>1, <4>2
      <4> QED
        BY <4>1, <4>2, <4>3
    <3>4. \A i \in 1 .. length : d[i] = peer_buffer[i]
      BY <1>2, <1>3, <3>1, DataInBuffer DEF data
    <3>5. \A i \in 1 .. o : a[i] = peer_buffer[i]
      BY <1>3, <2>3, <3>3, <3>4
    <3>6. SubSeq(peer_buffer, 1, o) = a
      BY <3>1, <3>3, <3>5, DataIs
    <3> QED
      BY <2>3, <3>2, <3>6 DEF old
  <2>5. Len(t) \in Nat
    BY LenProperties
  <2>6. PICK c \in Int : c = ((Len(t) - Len(u)) - Len(d)) + o
    <3>1. ((Len(t) - Len(u)) - Len(d)) + o \in Int
      BY <1>3, <1>4, <2>5
    <3> QED
      BY <3>1
  <2>7. c = Received - bytes_read
    BY <1>2, <1>3, <1>4, <2>3, <2>5, <2>6 DEF Received
  <2>8. o = 0 \/ \A e \in Ends(t, sep) : c \notin e - Len(sep) + 1 .. e - 1
    <3>1. SUFFICES ASSUME o # 0, NEW e \in Ends(t, sep) PROVE c \notin e - Len(sep) + 1 .. e - 1
      OBVIOUS
    <3>2. c \in peer.cuts \cup {0}
      BY <2>3, <2>7, <3>1 DEF PlaceInv
    <3>3. e \in Nat /\ e >= Len(sep) /\ Len(sep) \in Nat
      BY <2>5, LenProperties DEF Ends
    <3>4. CASE c \in peer.cuts
      BY <1>2, <3>4 DEF Separating
    <3>5. CASE c = 0
      BY <3>3, <3>5
    <3> QED
      BY <3>2, <3>4, <3>5
  <2>9. SuffixOf(d \o u, t)
    BY <1>2, <1>4 DEF PlaceInv
  <2>10. FirstIsFound(d, u, sep, o)
    <3>1. Ends(SubSeq(d, 1, o), sep) = {}
      BY <2>2, <2>4
    <3>2. Placed(t, d, u, sep, o, c)
      BY <1>8, <2>6, <2>8, <2>9, <3>1 DEF Placed
    <3> QED
      BY <3>2, FirstSeparator
  <2>11. k = IF Ends(d, sep) = {} THEN 0 ELSE Min(Ends(d, sep))
    <3>1. Len(d) - bytes_read = o
      BY <1>3, <2>3
    <3>2. {e \in Ends(d, sep) : e - Len(sep) >= Len(d) - bytes_read} = Ends(d, sep)
      BY <2>10, <3>1 DEF FirstIsFound
    <3> QED
      BY <1>1, <1>2, <1>8, <3>2 DEF framing_separator
  <2>12. CASE Ends(d, sep) = {}
    BY <1>2, <1>3, <1>5, <1>8, <2>11, <2>12
  <2>13. CASE Ends(d, sep) # {}
    <3>1. k \in Ends(d, sep) /\ k > o /\ Ends(d \o u, sep) # {} /\ Min(Ends(d \o u, sep)) = k
      BY <2>10, <2>11, <2>13 DEF FirstIsFound
    <3>2. k \in Nat /\ k <= Len(d)
      BY <1>3, <3>1, LenProperties DEF Ends
    <3>3. k \in Boundaries(peer, Rest)
      BY <1>4, <1>6, <1>8, <3>1
    <3> QED
      BY <1>3, <2>3, <3>1, <3>2, <3>3
  <2> QED
    BY <2>12, <2>13
<1> QED
  BY <1>7, <1>8

(* What such a function asks for is a frame of the stream, with more than the *)
(* data of earlier calls in it; if it asks for nothing, there is none.        *)
ExactCall(r) ==
  /\ r.bytes > 0 => r.bytes > peer_buffer_offset /\ r.bytes \in Boundaries(peer, Rest)
  /\ r.bytes = 0 => Boundaries(peer, data) = {}

LEMMA CallIsExact ==
  ASSUME TypeOK, PlaceInv, OldInv, ~over, Exact(peer), NEW r \in Calls
  PROVE  ExactCall(r)
<1>1. r \in framing(data, bytes_read) /\ pc = "framing"
  BY DEF Calls
<1>2. /\ length \in Nat /\ peer_buffer_offset \in Nat /\ bytes_read \in Nat /\ bytes_read > 0
      /\ length = peer_buffer_offset + bytes_read /\ Len(data) = length
  <2>1. bytes_read > 0
    BY <1>1, Zenon DEF TypeOK
  <2> QED
    BY <2>1, Buffered
<1>3. Rest = data \o unread /\ Len(Rest) \in Nat /\ Len(data) <= Len(Rest)
  <2>1. PICK d \in Seq(Byte), u \in Seq(Byte) : d = data /\ u = unread
    BY Buffered
  <2>2. Len(d \o u) = Len(d) + Len(u) /\ Len(u) \in Nat /\ Len(d) \in Nat
    BY ConcatProperties, LenProperties
  <2> QED
    BY <2>1, <2>2 DEF Rest
<1>4. ASSUME r.bytes = Len(data), Boundaries(peer, Rest) = 1 .. Len(Rest)
      PROVE  ExactCall(r)
  BY <1>2, <1>3, <1>4 DEF ExactCall
<1>5. CASE peer.framing = "auto"
  BY <1>1, <1>4, <1>5 DEF framing, framing_auto, Boundaries
<1>6. CASE peer.framing = "binary"
  BY <1>1, <1>4, <1>6 DEF framing, Boundaries
<1>7. CASE peer.framing = "fixedlength"
  <2>1. r.bytes = framing_fixedlen(data)
    BY <1>1, <1>7 DEF framing
  <2>2. \A s : Boundaries(peer, s)
                 = IF peer.size = 0 THEN 1 .. Len(s) ELSE {peer.size} \cap 1 .. Len(s)
    BY <1>7 DEF Boundaries
  <2>3. CASE peer.size = 0
    BY <1>4, <2>1, <2>2, <2>3 DEF framing_fixedlen
  <2>4. CASE peer.size # 0
    <3>1. peer.size \in Nat /\ peer.size > 0
      BY <2>4, PeersAssumption DEF PeersAssumption, TypeOK
    <3>2. Len(old) = peer_buffer_offset
      <4>1. peer_buffer \in [1 .. BufSize -> Byte] /\ peer_buffer_offset < BufSize
        BY <1>2, Buffered
      <4> QED
        BY <1>2, <4>1, DataInBuffer DEF old
    <3>3. peer.size > peer_buffer_offset
      <4>1. Boundaries(peer, old) = {}
        BY DEF OldInv
      <4>2. peer.size \notin 1 .. Len(old)
        BY <2>2, <2>4, <4>1
      <4> QED
        BY <1>2, <3>1, <3>2, <4>2
    <3>4. CASE Len(data) >= peer.size
      <4>1. r.bytes = peer.size /\ peer.size \in 1 .. Len(Rest)
        BY <1>2, <1>3, <2>1, <2>4, <3>1, <3>4 DEF framing_fixedlen
      <4> QED
        BY <2>2, <2>4, <3>1, <3>3, <4>1 DEF ExactCall
    <3>5. CASE ~(Len(data) >= peer.size)
      <4>1. r.bytes = 0 /\ peer.size \notin 1 .. Len(data)
        BY <1>2, <2>1, <2>4, <3>1, <3>5 DEF framing_fixedlen
      <4> QED
        BY <2>2, <2>4, <4>1 DEF ExactCall
    <3> QED
      BY <3>4, <3>5
  <2> QED
    BY <2>3, <2>4
<1>8. CASE Separating(peer)
  <2>1. PICK expression :
          expression = IF peer.framing = "newline" THEN Newline(peer.newline) ELSE peer.expression
    OBVIOUS
  <2>2. PICK k : k = framing_separator(data, bytes_read, expression)
    OBVIOUS
  <2>3. /\ k \in 0 .. length
        /\ k > 0 => k > peer_buffer_offset /\ k \in Boundaries(peer, Rest)
        /\ k = 0 => Boundaries(peer, data) = {}
    BY <1>1, <1>8, <2>1, <2>2, SeparatorCall
  <2>4. CASE peer.framing = "separator"
    <3>1. r.bytes = k
      BY <1>1, <2>1, <2>2, <2>4 DEF framing
    <3> QED
      BY <2>3, <3>1 DEF ExactCall
  <2>5. CASE peer.framing = "newline"
    <3>1. r = framing_auto(SubSeq(data, 1, k))
      BY <1>1, <2>1, <2>2, <2>5 DEF framing, framing_newline
    <3>2. r.bytes = Len(SubSeq(data, 1, k))
      BY <3>1 DEF framing_auto
    <3>3. Len(SubSeq(data, 1, k)) = k
      <4>1. 1 \in Nat \ {0} /\ k \in Int /\ k <= Len(data) /\ 1 <= k + 1 /\ k + 1 - 1 = k
        BY <1>2, <2>3
      <4> QED
        BY <4>1, Buffered, PartOfSeq
    <3> QED
      BY <2>3, <3>2, <3>3 DEF ExactCall
  <2> QED
    BY <1>8, <2>4, <2>5 DEF Separating
<1>9. CASE Measuring(peer)
  <2>1. r.bytes = framing_dynamic32(data)
    BY <1>1, <1>9 DEF framing, Measuring
  <2> QED
    BY <1>9, <2>1, MeasuringCall DEF ExactCall
<1> QED
  BY <1>5, <1>6, <1>7, <1>8, <1>9 DEF Exact

LEMMA NothingStored ==
  ASSUME NEW b \in [1 .. BufSize -> Byte]
  PROVE  SubSeq(b, 1, 0) = <<>>
<1>1. 0 \in Nat /\ 0 < BufSize /\ <<>> \in Seq(Byte) /\ Len(<<>>) = 0
  BY PeerBufSizeAssumption DEF PeerBufSizeAssumption
<1> QED
  BY <1>1, DataIs

LEMMA NothingToFrame ==
  ASSUME NEW p, Exact(p)
  PROVE  Boundaries(p, <<>>) = {}
<1>1. 1 .. Len(<<>>) = {}
  OBVIOUS
<1>2. ASSUME p.sep \in Seq(Byte), p.sep # <<>>
      PROVE  Ends(<<>>, p.sep) = {}
  <2>1. Len(p.sep) \in Nat \ {0}
    BY <1>2, LenProperties, EmptySeq
  <2>2. Len(p.sep) .. Len(<<>>) = {}
    BY <2>1
  <2> QED
    BY <2>2 DEF Ends
<1>3. CASE p.framing \in {"auto", "binary"}
  BY <1>1, <1>3 DEF Boundaries
<1>4. CASE p.framing = "fixedlength"
  BY <1>1, <1>4 DEF Boundaries
<1>5. CASE Separating(p)
  <2>1. CASE p.sep = <<>>
    BY <1>1, <1>5, <2>1 DEF Boundaries, Separating
  <2>2. CASE p.sep # <<>>
    BY <1>2, <1>5, <2>2 DEF Boundaries, Separating
  <2> QED
    BY <2>1, <2>2
<1>6. CASE Measuring(p)
  <2>1. Len(<<>>) < FieldEnd(p)
    BY <1>6, SizeBytesAssumption DEF SizeBytesAssumption, Measuring, FieldEnd
  <2> QED
    BY <1>6, <2>1 DEF Boundaries, Measuring
<1> QED
  BY <1>3, <1>4, <1>5, <1>6 DEF Exact

LEMMA SuffixTaken ==
  ASSUME NEW t \in Seq(Byte), NEW s \in Seq(Byte), SuffixOf(s, t), NEW k \in 1 .. Len(s)
  PROVE  SuffixOf(SubSeq(s, k + 1, Len(s)), t)
<1>1. Len(s) \in Nat /\ Len(t) \in Nat /\ Len(s) <= Len(t)
  BY LenProperties DEF SuffixOf
<1>2. k + 1 \in Nat \ {0} /\ Len(s) \in Int /\ Len(s) <= Len(s) /\ k + 1 <= Len(s) + 1
  BY <1>1
<1>3. PICK v \in Seq(Byte) : v = SubSeq(s, k + 1, Len(s))
  BY <1>2, PartOfSeq
<1>4. Len(v) = Len(s) + 1 - (k + 1) /\ \A i \in 1 .. Len(v) : v[i] = s[k + 1 + i - 1]
  BY <1>2, <1>3, PartOfSeq
<1>5. Len(v) = Len(s) - k
  BY <1>1, <1>4
<1>6. ASSUME NEW i \in 1 .. Len(v)
      PROVE  v[i] = t[(Len(t) - Len(v)) + i]
  <2>1. k + i \in 1 .. Len(s) /\ k + 1 + i - 1 = k + i
    BY <1>1, <1>5
  <2>2. v[i] = s[k + i]
    BY <1>4, <2>1
  <2>3. s[k + i] = t[(Len(t) - Len(s)) + (k + i)]
    BY <2>1 DEF SuffixOf
  <2>4. (Len(t) - Len(s)) + (k + i) = (Len(t) - Len(v)) + i
    BY <1>1, <1>5
  <2> QED
    BY <2>2, <2>3, <2>4
<1>7. Len(v) <= Len(t)
  BY <1>1, <1>5
<1> QED
  BY <1>3, <1>6, <1>7 DEF SuffixOf

LEMMA FramedPlace ==
  ASSUME TypeOK, TypeOK', PlaceInv, OldInv, NEW r \in Calls, r.bytes \in 1 .. length,
         CopyBack(r.bytes), UNCHANGED <<peer, unread>>, Framed(r.bytes, r.op)
  PROVE  PlaceInv' /\ OldInv'
<1> DEFINE k == r.bytes
           kept == IF k < peer_buffer_offset THEN peer_buffer_offset - k ELSE 0
           left == IF k < peer_buffer_offset THEN bytes_read
                   ELSE bytes_read - (k - peer_buffer_offset)
<1>1. /\ peer_buffer_offset \in Nat /\ bytes_read \in Nat /\ k \in Nat /\ k > 0
      /\ length = peer_buffer_offset + bytes_read /\ k <= length
  BY Buffered
<1>2. \/ k # peer_buffer_offset /\ kept + left > 0
         /\ peer_buffer_offset' = kept /\ bytes_read' = left
      \/ ~(k # peer_buffer_offset /\ kept + left > 0)
         /\ peer_buffer_offset' = kept + left /\ bytes_read' = 0
  BY DEF CopyBack, Return
<1>3. peer' = peer /\ Received' = Received /\ ~over
  BY DEF Received, Framed
<1>4. SuffixOf(Rest, peer.stream)'
  <2>1. PICK t \in Seq(Byte), s \in Seq(Byte) : t = peer.stream /\ s = Rest
    <3>1. peer.stream \in Seq(Byte)
      BY PeersAssumption DEF PeersAssumption, TypeOK
    <3>2. Rest \in Seq(Byte)
      BY <1>3, Buffered, ConcatProperties DEF Rest
    <3> QED
      BY <3>1, <3>2
  <2>2. SuffixOf(s, t) /\ k \in 1 .. Len(s)
    BY <1>3, <2>1 DEF PlaceInv, Framed
  <2>3. SuffixOf(SubSeq(s, k + 1, Len(s)), t)
    BY <2>2, SuffixTaken
  <2>4. Rest' = SubSeq(s, k + 1, Len(s)) /\ peer'.stream = t
    BY <1>3, <2>1 DEF Framed
  <2>5. SuffixOf(Rest', peer'.stream)
    BY <2>3, <2>4
  <2> QED
    BY <2>5
<1>5. Received \in peer.cuts \cup {0}
      /\ (peer_buffer_offset = 0 \/ Received - bytes_read \in peer.cuts \cup {0})
  BY <1>3 DEF PlaceInv
<1>6. Received \in Int
  <2>1. Len(peer.stream) \in Nat /\ Len(unread) \in Nat
    BY LenProperties, PeersAssumption DEF PeersAssumption, TypeOK
  <2> QED
    BY <2>1 DEF Received
<1>7. peer_buffer_offset' = 0 \/ Received - bytes_read' \in peer.cuts \cup {0}
  <2>1. CASE bytes_read' = 0
    BY <1>5, <1>6, <2>1
  <2>2. CASE bytes_read' # 0
    <3>1. peer_buffer_offset' = kept /\ bytes_read' = left
      BY <1>2, <2>2
    <3>2. CASE k < peer_buffer_offset
      <4>1. bytes_read' = bytes_read /\ peer_buffer_offset # 0
        BY <1>1, <3>1, <3>2
      <4> QED
        BY <1>5, <4>1
    <3>3. CASE ~(k < peer_buffer_offset)
      BY <3>1, <3>3
    <3> QED
      BY <3>2, <3>3
  <2> QED
    BY <2>1, <2>2
<1>8. PlaceInv'
  <2>1. peer'.cuts = peer.cuts
    BY <1>3
  <2>2. Received' \in peer'.cuts \cup {0}
    BY <1>3, <1>5, <2>1
  <2>3. peer_buffer_offset' = 0 \/ Received' - bytes_read' \in peer'.cuts \cup {0}
    BY <1>3, <1>7, <2>1
  <2>4. ASSUME Measuring(peer)
        PROVE  \E rests : Measured(peer, rests) /\ Begins(peer, rests) /\ Rest' \in rests
    <3>1. PICK rests : Measured(peer, rests) /\ Begins(peer, rests) /\ Rest \in rests
      BY <1>3, <2>4 DEF PlaceInv
    <3>2. k \in Boundaries(peer, Rest)
      BY <1>1, <1>3, <2>4, CallIsExact DEF Exact, ExactCall
    <3>3. SubSeq(Rest, k + 1, Len(Rest)) \in rests
      BY <3>1, <3>2 DEF Begins
    <3>4. Rest' = SubSeq(Rest, k + 1, Len(Rest))
      BY DEF Framed
    <3> QED
      BY <3>1, <3>3, <3>4
  <2>5. (Measuring(peer) => \E rests : Measured(peer, rests) /\ Begins(peer, rests) /\ Rest \in rests)'
    BY <1>3, <2>4
  <2> QED
    BY <1>4, <2>2, <2>3, <2>5 DEF PlaceInv
<1>9. ASSUME Exact(peer)
      PROVE  peer_buffer_offset' = 0
  <2>1. ExactCall(r)
    BY <1>3, <1>9, CallIsExact
  <2>2. k > peer_buffer_offset
    BY <1>1, <2>1 DEF ExactCall
  <2>3. kept = 0 /\ left \in Nat /\ kept + left = left
    BY <1>1, <2>2
  <2> HIDE DEF kept, left, k
  <2> QED
    BY <1>1, <1>2, <2>2, <2>3
<1>10. OldInv'
  <2>1. ASSUME Exact(peer') PROVE Boundaries(peer, old)' = {}
    <3>1. peer_buffer_offset' = 0 /\ peer_buffer' \in [1 .. BufSize -> Byte]
      BY <1>3, <1>9, <2>1 DEF TypeOK
    <3>2. old' = <<>>
      BY <3>1, NothingStored DEF old
    <3>3. Boundaries(peer', <<>>) = {}
      BY <2>1, NothingToFrame
    <3> QED
      BY <3>2, <3>3
  <2> QED
    BY <2>1 DEF OldInv
<1> QED
  BY <1>8, <1>10

(* Receive leaves the data of earlier calls where it is.                      *)
LEMMA ReceivePlace ==
  ASSUME TypeOK, StreamInv, PlaceInv, OldInv, Receive
  PROVE  PlaceInv' /\ OldInv'
<1>1. PICK k \in 1 .. Len(unread) :
        /\ k <= Room /\ Len(peer.stream) - Len(unread) + k \in peer.cuts
        /\ peer_buffer' = Stored(k)
        /\ unread' = SubSeq(unread, k + 1, Len(unread))
        /\ bytes_read' = k
  BY DEF Receive
<1>2. UNCHANGED <<peer, peer_buffer_offset>> /\ pc = "idle"
  BY DEF Receive
<1>3. Stuttered
  BY ReceiveStep
<1>4. SUFFICES ASSUME ~over PROVE PlaceInv' /\ OldInv'
  BY <1>3 DEF Stuttered, PlaceInv, OldInv
<1>5. /\ peer_buffer_offset \in Nat /\ bytes_read = 0 /\ BufSize \in Nat
      /\ peer_buffer_offset < BufSize /\ peer_buffer \in [1 .. BufSize -> Byte]
      /\ peer_buffer_offset + k < BufSize
  <2>1. ~(bytes_read > 0)
    BY <1>2, Zenon DEF TypeOK
  <2> QED
    BY <1>1, <2>1, Buffered DEF Room
<1>6. /\ Len(peer.stream) \in Nat /\ Len(unread) \in Nat
      /\ Len(unread') = Len(unread) - k
  <2>1. Len(peer.stream) \in Nat /\ Len(unread) \in Nat
    BY LenProperties, PeersAssumption DEF PeersAssumption, TypeOK
  <2>2. k + 1 \in Nat \ {0} /\ Len(unread) \in Int /\ Len(unread) <= Len(unread)
        /\ k + 1 <= Len(unread) + 1
    BY <2>1
  <2>3. Len(unread') = Len(unread) + 1 - (k + 1)
    BY <1>1, <2>2, Buffered, PartOfSeq
  <2> QED
    BY <2>1, <2>3
<1>7. Received' = (Len(peer.stream) - Len(unread)) + k /\ Received' - bytes_read' = Received
      /\ Received - bytes_read = Received
  <2>1. Received' = Len(peer.stream) - Len(unread') /\ Received = Len(peer.stream) - Len(unread)
    BY <1>2 DEF Received
  <2>2. PICK m \in Int, n \in Int : m = Len(peer.stream) /\ n = Len(unread)
    BY <1>6
  <2>3. Received' = m - (n - k) /\ Received = m - n /\ k \in Int /\ bytes_read' = k
    BY <1>1, <1>6, <2>1, <2>2
  <2>4. m - (n - k) = (m - n) + k /\ (m - (n - k)) - k = m - n /\ (m - n) - 0 = m - n
    BY <2>3
  <2> QED
    BY <1>5, <2>2, <2>3, <2>4
<1>8. PlaceInv'
  <2>1. SuffixOf(Rest, peer.stream)'
    <3>1. SuffixOf(Rest, peer.stream)
      BY <1>4 DEF PlaceInv
    <3>2. Rest' = Rest
      BY <1>3 DEF Stuttered
    <3> QED
      BY <1>2, <3>1, <3>2
  <2>2. Received' \in peer'.cuts \cup {0}
    BY <1>1, <1>2, <1>7
  <2>3. Received' - bytes_read' \in peer'.cuts \cup {0}
    BY <1>2, <1>4, <1>7 DEF PlaceInv
  <2>4. (Measuring(peer) => \E rests : Measured(peer, rests) /\ Begins(peer, rests) /\ Rest \in rests)'
    <3>1. Rest' = Rest /\ peer' = peer
      BY <1>2, <1>3 DEF Stuttered
    <3> QED
      BY <1>4, <3>1 DEF PlaceInv
  <2> QED
    BY <2>1, <2>2, <2>3, <2>4 DEF PlaceInv
<1>9. old' = old
  <2>1. PICK n \in Nat : n = peer_buffer_offset
    BY <1>5
  <2>2. PICK s \in Seq(Byte) : s = SubSeq(peer_buffer, 1, n)
    BY <1>5, <2>1, DataInBuffer
  <2>3. Len(s) = n /\ \A i \in 1 .. n : s[i] = peer_buffer[i]
    BY <1>5, <2>1, <2>2, DataInBuffer
  <2>4. PICK b \in [1 .. BufSize -> Byte] : b = Stored(k)
    <3>1. length + k < BufSize
      BY <1>5 DEF length
    <3> QED
      BY <1>5, <3>1, StoredBehind
  <2>5. \A i \in 1 .. n : b[i] = peer_buffer[i]
    <3> SUFFICES ASSUME NEW i \in 1 .. n PROVE b[i] = peer_buffer[i]
      OBVIOUS
    <3>1. i \in 1 .. BufSize /\ i \notin peer_buffer_offset + 1 .. peer_buffer_offset + k
          /\ i # peer_buffer_offset + k + 1
      BY <1>5, <2>1
    <3> QED
      BY <2>4, <3>1 DEF Stored
  <2>6. \A i \in 1 .. n : s[i] = b[i]
    BY <2>3, <2>5
  <2>7. n < BufSize
    BY <1>5, <2>1
  <2>8. SubSeq(b, 1, n) = s
    BY <2>3, <2>6, <2>7, DataIs
  <2> QED
    BY <1>1, <1>2, <2>1, <2>2, <2>4, <2>8 DEF old
<1>10. OldInv'
  BY <1>2, <1>4, <1>9 DEF OldInv
<1> QED
  BY <1>8, <1>10

LEMMA PlaceStep ==
  ASSUME TypeOK, TypeOK', StreamInv, PlaceInv, OldInv, [Next]_vars
  PROVE  PlaceInv' /\ OldInv'
<1>over. ASSUME over' PROVE PlaceInv' /\ OldInv'
  BY <1>over DEF PlaceInv, OldInv
<1>FrameSent. CASE FrameSent
  <2>1. PICK r \in Calls :
          /\ r.bytes \in 1 .. length /\ r.op # "discard" /\ ~broken
          /\ sent' = Append(sent, ws_send_frame(r.op, SubSeq(peer_buffer, 1, r.bytes)))
          /\ CopyBack(r.bytes)
          /\ UNCHANGED <<peer, unread, open, broken>>
    BY <1>FrameSent DEF FrameSent
  <2>2. Framed(r.bytes, r.op)
    BY <2>1, FrameStep
  <2> QED
    BY <2>1, <2>2, FramedPlace
<1>FrameDiscarded. CASE FrameDiscarded
  <2>1. PICK r \in Calls :
          /\ r.bytes \in 1 .. length /\ r.op = "discard"
          /\ CopyBack(r.bytes)
          /\ UNCHANGED <<peer, unread, open, broken, sent>>
    BY <1>FrameDiscarded DEF FrameDiscarded
  <2>2. CASE ~broken
    <3>1. Framed(r.bytes, r.op)
      BY <2>1, <2>2, FrameStep
    <3> QED
      BY <2>1, <3>1, FramedPlace
  <2>3. CASE broken
    BY <1>over, <2>1, <2>3 DEF over
  <2> QED
    BY <2>2, <2>3
<1>SendFails. CASE SendFails
  BY <1>SendFails, <1>over DEF SendFails, over
<1>Left. CASE Left
  BY <1>Left, <1>over DEF Left, over
<1>Incomplete. CASE Incomplete
  <2>1. PICK r \in Calls : r.bytes = 0
    BY <1>Incomplete DEF Incomplete
  <2>2. /\ peer_buffer_offset' = peer_buffer_offset + bytes_read /\ bytes_read' = 0
        /\ UNCHANGED <<peer, unread, peer_buffer, open, broken>>
    BY <1>Incomplete DEF Incomplete, Return
  <2>3. length' = length /\ peer_buffer_offset' = length
    BY <2>2, Buffered DEF length
  <2>4. data' = data /\ old' = data
    BY <2>2, <2>3 DEF data, old
  <2>5. over' = over /\ Rest' = Rest /\ Received' = Received
    BY <2>2, <2>4 DEF over, Rest, Received
  <2>6. Received \in Int
    <3>1. Len(peer.stream) \in Nat /\ Len(unread) \in Nat
      BY LenProperties, PeersAssumption DEF PeersAssumption, TypeOK
    <3> QED
      BY <3>1 DEF Received
  <2>7. Received' - bytes_read' = Received'
    BY <2>2, <2>5, <2>6
  <2>8. PlaceInv'
    BY <2>2, <2>5, <2>7 DEF PlaceInv
  <2>9. OldInv'
    <3>1. ASSUME ~over, Exact(peer) PROVE Boundaries(peer, data) = {}
      BY <2>1, <3>1, CallIsExact DEF ExactCall
    <3> QED
      BY <2>2, <2>4, <2>5, <3>1 DEF OldInv
  <2> QED
    BY <2>8, <2>9
<1>Receive. CASE Receive
  BY <1>Receive, ReceivePlace
<1>stutter. CASE UNCHANGED vars
  <2>1. UNCHANGED <<peer, unread, peer_buffer, peer_buffer_offset, bytes_read, open, broken>>
    BY <1>stutter DEF vars, buffer
  <2>2. data' = data /\ old' = old /\ Received' = Received
    BY <2>1 DEF data, length, old, Received
  <2> QED
    BY <2>1, <2>2 DEF PlaceInv, OldInv, Rest, over
<1> QED
  BY LeftBy, <1>FrameSent, <1>FrameDiscarded, <1>SendFails, <1>Left, <1>Incomplete, <1>Receive,
     <1>stutter
  DEF Next, Handler, ReceiveEnds, ReceiveNothing, LoopCloses, Overrun, FramingFails,
      FramingLoops, Closed

LEMMA InitPlace == Init => PlaceInv /\ OldInv
<1> SUFFICES ASSUME Init PROVE PlaceInv /\ OldInv
  OBVIOUS
<1>1. peer_buffer_offset = 0 /\ peer \in Peers /\ unread = peer.stream /\ Rest = peer.stream
  BY InitFacts DEF Init
<1>2. peer.stream \in Seq(Byte)
  BY <1>1, PeersAssumption DEF PeersAssumption
<1>3. PICK t \in Seq(Byte) : t = peer.stream
  BY <1>2
<1>4. SuffixOf(t, t)
  <2>1. Len(t) \in Nat /\ \A i \in 1 .. Len(t) : (Len(t) - Len(t)) + i = i
    BY LenProperties
  <2> QED
    BY <2>1 DEF SuffixOf
<1>5. Received = 0
  BY <1>1, <1>3, LenProperties DEF Received
<1>6. PlaceInv
  <2>1. ASSUME Measuring(peer)
        PROVE  \E rests : Measured(peer, rests) /\ Begins(peer, rests) /\ Rest \in rests
    BY <1>1, <2>1 DEF Measuring, Begins
  <2> QED
    BY <1>1, <1>3, <1>4, <1>5, <2>1 DEF PlaceInv
<1>7. OldInv
  <2>1. peer_buffer \in [1 .. BufSize -> Byte]
    BY PeerBufSizeAssumption DEF Init, PeerBufSizeAssumption, Byte
  <2>2. old = <<>>
    BY <1>1, <2>1, NothingStored DEF old
  <2> QED
    BY <2>2, NothingToFrame DEF OldInv
<1> QED
  BY <1>6, <1>7

(* The strengthening, of which every part is used for another.                *)
BufferInv == TypeOK /\ StreamInv /\ PlaceInv /\ OldInv

LEMMA BufferInvHolds == Spec => []BufferInv
<1>1. Init => TypeOK /\ BufferInv
  <2> SUFFICES ASSUME Init PROVE BufferInv
    BY DEF BufferInv
  <2> QED
    BY InitFacts, InitPlace, InitTypeOK DEF BufferInv
<1>2. BufferInv /\ [Next]_vars => BufferInv'
  BY NextTypeOK, StepFacts, PlaceStep DEF BufferInv
<1> QED
  BY <1>1, <1>2, PTL DEF Spec

(* When ws_peer_data returns, it leaves no whole frame in the buffer...       *)
THEOREM NoFrameIsHeldBack == Spec => [](Exact(peer) => NothingHeldBack)
<1>1. BufferInv => (Exact(peer) => NothingHeldBack)
  <2> SUFFICES ASSUME BufferInv, Exact(peer), pc = "idle", open, ~broken
               PROVE  Boundaries(peer, data) = {}
    BY DEF NothingHeldBack
  <2>1. TypeOK /\ OldInv /\ ~over
    BY DEF BufferInv, over
  <2>2. length = peer_buffer_offset
    <3>1. ~(bytes_read > 0)
      BY <2>1, Zenon DEF TypeOK
    <3> QED
      BY <2>1, <3>1, Buffered
  <2>3. data = old
    BY <2>2 DEF data, old
  <2> QED
    BY <2>1, <2>3 DEF OldInv
<1> QED
  BY <1>1, BufferInvHolds, PTL

(* ... and the loop never ends because a function frames only bytes it has    *)
(* already found incomplete (websocksy.c:258).                                *)
THEOREM OldBytesAreIncomplete == Spec => [](Exact(peer) => OldBytesNeverFramedAlone)
<1>1. BufferInv => (Exact(peer) => OldBytesNeverFramedAlone)
  <2> SUFFICES ASSUME BufferInv, Exact(peer), ~broken, NEW r \in Calls, r.bytes > 0
               PROVE  r.bytes > peer_buffer_offset
    BY DEF OldBytesNeverFramedAlone
  <2>1. TypeOK /\ PlaceInv /\ OldInv /\ ~over
    BY DEF BufferInv, StreamInv, Calls, over
  <2> QED
    BY <2>1, CallIsExact DEF ExactCall
<1> QED
  BY <1>1, BufferInvHolds, PTL

-----------------------------------------------------------------------------
(* The functions that frame as they are documented.  They leave the opcode as *)
(* ws_peer_data has set it, or frame everything at once.                      *)
Documented(p) ==
  \/ p.framing \in {"auto", "binary", "fixedlength", "plugin"}
  \/ p.framing = "separator" /\ Separating(p)
  \/ Measuring(p)
  \/ Unmixing(p) /\ Separating(p)

OpcodeInv ==
  /\ peer.framing = "newline" => opcode \in {"binary", "text"}
  /\ peer.framing \in {"binary", "separator", "fixedlength", "dynamic32"} => opcode = "binary"
  /\ peer.framing = "auto" /\ pc = "framing" => opcode = "binary"

LEMMA OpcodeKept ==
  ASSUME NEW r \in Calls
  PROVE  /\ peer.framing \in {"binary", "separator", "fixedlength", "dynamic32"} => r.op = opcode
         /\ peer.framing = "auto" => r.bytes = Len(data)
         /\ peer.framing = "newline" => r.op \in {"text", opcode}
<1>1. r \in framing(data, bytes_read)
  BY DEF Calls
<1>2. peer.framing \in {"binary", "separator", "fixedlength", "dynamic32"} =>
        \E k : r = [bytes |-> k, op |-> opcode]
  BY <1>1 DEF framing
<1>3. peer.framing = "auto" => r = framing_auto(data)
  BY <1>1 DEF framing
<1>4. peer.framing = "newline" => \E s : r = framing_auto(s)
  BY <1>1 DEF framing, framing_newline
<1> QED
  BY <1>2, <1>3, <1>4 DEF framing_auto

LEMMA OpcodeInvStep ==
  ASSUME TypeOK, OpcodeInv, [Next]_vars
  PROVE  OpcodeInv'
<1>frame. ASSUME NEW r \in Calls, r.bytes \in 1 .. length, opcode' = r.op, CopyBack(r.bytes),
                 peer' = peer
          PROVE  OpcodeInv'
  <2>1. peer.framing \in {"binary", "separator", "fixedlength", "dynamic32"} => opcode' = opcode
    BY <1>frame, OpcodeKept
  <2>2. ASSUME peer.framing = "auto" PROVE pc' = "idle"
    <3>1. r.bytes = length
      BY <2>2, OpcodeKept, Buffered
    <3> DEFINE k == r.bytes
               kept == IF k < peer_buffer_offset THEN peer_buffer_offset - k ELSE 0
               left == IF k < peer_buffer_offset THEN bytes_read
                       ELSE bytes_read - (k - peer_buffer_offset)
    <3>2. ~(kept + left > 0)
      BY <3>1, Buffered
    <3>3. kept + left > 0 \/ pc' = "idle"
      BY <1>frame DEF CopyBack, Return
    <3> QED
      BY <3>2, <3>3
  <2>3. peer.framing = "newline" => opcode' \in {"text", opcode}
    BY <1>frame, OpcodeKept
  <2> QED
    BY <1>frame, <2>1, <2>2, <2>3 DEF OpcodeInv
<1>other. ASSUME NEW r \in Calls, opcode' = r.op, pc' = "idle", peer' = peer
          PROVE  OpcodeInv'
  BY <1>other, OpcodeKept DEF OpcodeInv
<1>Left. CASE Left
  BY <1>Left DEF Left, OpcodeInv
<1>Receive. CASE Receive
  BY <1>Receive DEF Receive, OpcodeInv
<1>SendFails. CASE SendFails
  BY <1>SendFails, <1>other DEF SendFails
<1>Incomplete. CASE Incomplete
  BY <1>Incomplete, <1>other DEF Incomplete, Return
<1>stutter. CASE UNCHANGED vars
  BY <1>stutter DEF vars, OpcodeInv
<1> QED
  BY LeftBy, <1>frame, <1>Left, <1>Receive, <1>SendFails, <1>Incomplete, <1>stutter
  DEF Next, Handler, ReceiveEnds, ReceiveNothing, LoopCloses, FrameSent, FrameDiscarded,
      Overrun, FramingFails, FramingLoops, Closed

(* A line leaves "text" behind only if all those that follow are UTF-8.       *)
LineInv ==
  ~over /\ Unmixing(peer) /\ Separating(peer) =>
    \E rests : /\ Begins(peer, rests) /\ Unmixed(peer, rests) /\ Rest \in rests
               /\ pc = "framing" /\ opcode = "text" =>
                    \E s \in rests : Texts(peer, s) # {} /\ Len(Rest) < Len(s)

LEMMA LineCall ==
  ASSUME TypeOK, PlaceInv, OldInv, OpcodeInv, LineInv, Unmixing(peer), Separating(peer),
         NEW r \in Calls, Framed(r.bytes, r.op)
  PROVE  /\ r.bytes \in Boundaries(peer, Rest)
         /\ r.op = IF Utf8(SubSeq(Rest, 1, r.bytes)) THEN "text" ELSE "binary"
<1>1. r \in framing(data, bytes_read) /\ pc = "framing" /\ peer.framing = "newline"
  BY DEF Calls, Unmixing
<1>2. ~over /\ Rest = data \o unread /\ r.bytes \in 1 .. Len(Rest)
  BY DEF Framed, Rest
<1>3. Exact(peer) /\ r.bytes > 0
  <2>1. Len(Rest) \in Nat
    BY <1>2, Buffered, ConcatProperties, LenProperties
  <2> QED
    BY <1>2, <2>1 DEF Exact
<1>4. r.bytes \in Boundaries(peer, Rest)
  BY <1>2, <1>3, CallIsExact DEF ExactCall
<1>5. PICK k : k = framing_separator(data, bytes_read, Newline(peer.newline))
  OBVIOUS
<1>6. r = framing_auto(SubSeq(data, 1, k))
  BY <1>1, <1>5 DEF framing, framing_newline
<1>7. PICK d \in Seq(Byte), u \in Seq(Byte) : d = data /\ u = unread
  BY Buffered
<1>8. k \in 0 .. Len(d) /\ Len(d) \in Nat
  BY <1>1, <1>2, <1>5, <1>7, SeparatorCall, Buffered
<1>9. r.bytes = k
  <2>1. r.bytes = Len(SubSeq(d, 1, k))
    BY <1>6, <1>7 DEF framing_auto
  <2>2. 1 \in Nat \ {0} /\ k \in Int /\ k <= Len(d) /\ 1 <= k + 1 /\ k + 1 - 1 = k
    BY <1>8
  <2> QED
    BY <2>1, <2>2, PartOfSeq
<1>10. SubSeq(Rest, 1, k) = SubSeq(data, 1, k)
  <2>1. k \in 1 .. Len(d)
    BY <1>3, <1>8, <1>9
  <2> QED
    BY <1>2, <1>7, <2>1, TakenFromFirst
<1>11. r.op = IF Utf8(SubSeq(Rest, 1, k)) THEN "text" ELSE opcode
  BY <1>6, <1>10 DEF framing_auto
<1>12. ASSUME ~Utf8(SubSeq(Rest, 1, k)) PROVE opcode = "binary"
  <2>1. PICK rests : /\ Begins(peer, rests) /\ Unmixed(peer, rests) /\ Rest \in rests
                     /\ pc = "framing" /\ opcode = "text" =>
                          \E s \in rests : Texts(peer, s) # {} /\ Len(Rest) < Len(s)
    BY <1>2 DEF LineInv
  <2>2. k \notin Texts(peer, Rest)
    BY <1>12 DEF Texts
  <2>3. opcode # "text"
    BY <1>1, <1>4, <1>9, <2>1, <2>2 DEF Unmixed
  <2> QED
    BY <1>1, <2>3 DEF OpcodeInv
<1> QED
  BY <1>4, <1>9, <1>11, <1>12

LEMMA LineStep ==
  ASSUME TypeOK, StreamInv, PlaceInv, OldInv, OpcodeInv, LineInv, [Next]_vars
  PROVE  LineInv'
<1> SUFFICES ASSUME ~over', Unmixing(peer'), Separating(peer')
             PROVE  (\E rests : /\ Begins(peer, rests) /\ Unmixed(peer, rests) /\ Rest \in rests
                                /\ pc = "framing" /\ opcode = "text" =>
                                     \E s \in rests : Texts(peer, s) # {} /\ Len(Rest) < Len(s))'
  BY DEF LineInv
<1>kept. ASSUME Stuttered, pc' = "framing" /\ opcode' = "text" => pc = "framing" /\ opcode = "text"
         PROVE  (\E rests : /\ Begins(peer, rests) /\ Unmixed(peer, rests) /\ Rest \in rests
                            /\ pc = "framing" /\ opcode = "text" =>
                                 \E s \in rests : Texts(peer, s) # {} /\ Len(Rest) < Len(s))'
  <2>1. peer' = peer /\ Rest' = Rest /\ ~over
    BY <1>kept DEF Stuttered
  <2> QED
    BY <1>kept, <2>1 DEF LineInv
<1>FrameSent. CASE FrameSent
  <2>1. PICK r \in Calls :
          /\ r.bytes \in 1 .. length /\ r.op # "discard" /\ ~broken
          /\ sent' = Append(sent, ws_send_frame(r.op, SubSeq(peer_buffer, 1, r.bytes)))
          /\ opcode' = r.op
          /\ CopyBack(r.bytes)
          /\ UNCHANGED <<peer, unread, open, broken>>
    BY <1>FrameSent DEF FrameSent
  <2>2. Framed(r.bytes, r.op)
    BY <2>1, FrameStep
  <2>3. peer' = peer /\ ~over /\ Rest' = SubSeq(Rest, r.bytes + 1, Len(Rest))
    BY <2>2 DEF Framed
  <2>4. /\ r.bytes \in Boundaries(peer, Rest)
        /\ r.op = IF Utf8(SubSeq(Rest, 1, r.bytes)) THEN "text" ELSE "binary"
    BY <2>2, <2>3, LineCall
  <2>5. PICK rests : Begins(peer, rests) /\ Unmixed(peer, rests) /\ Rest \in rests
    BY <2>3 DEF LineInv
  <2>6. Rest' \in rests
    BY <2>3, <2>4, <2>5 DEF Begins
  <2>7. opcode' = "text" => Texts(peer, Rest) # {}
    BY <2>1, <2>4 DEF Texts
  <2>8. Len(Rest') < Len(Rest)
    <3>1. Rest \in Seq(Byte)
      BY <2>3, Buffered, ConcatProperties DEF Rest
    <3>2. PICK s \in Seq(Byte) : s = Rest /\ Len(s) \in Nat
      BY <3>1, LenProperties
    <3>3. PICK k \in 1 .. Len(s) : k = r.bytes
      BY <2>2, <3>2 DEF Framed
    <3>4. k + 1 \in Nat \ {0} /\ Len(s) \in Int /\ Len(s) <= Len(s) /\ k + 1 <= Len(s) + 1
      BY <3>2, <3>3
    <3>5. Len(SubSeq(s, k + 1, Len(s))) = Len(s) + 1 - (k + 1)
      BY <3>4, PartOfSeq
    <3>6. Len(s) + 1 - (k + 1) < Len(s)
      BY <3>2, <3>3
    <3> QED
      BY <2>3, <3>2, <3>3, <3>5, <3>6
  <2> QED
    BY <2>3, <2>5, <2>6, <2>7, <2>8
<1>FrameDiscarded. CASE FrameDiscarded
  <2>1. PICK r \in Calls : r.op = "discard" /\ peer' = peer
    BY <1>FrameDiscarded DEF FrameDiscarded
  <2> QED
    BY <2>1, OpcodeKept DEF OpcodeInv, Unmixing
<1>SendFails. CASE SendFails
  BY <1>SendFails DEF SendFails, over
<1>Left. CASE Left
  BY <1>Left DEF Left, over
<1>Incomplete. CASE Incomplete
  <2>1. /\ peer_buffer_offset' = peer_buffer_offset + bytes_read /\ bytes_read' = 0 /\ pc' = "idle"
        /\ UNCHANGED <<peer, unread, peer_buffer, open, broken, sent>>
    BY <1>Incomplete DEF Incomplete, Return
  <2>2. data' = data
    BY <2>1, Buffered DEF data, length
  <2>3. Stuttered
    BY <2>1, <2>2 DEF Stuttered, over, Rest, Frames
  <2> QED
    BY <1>kept, <2>1, <2>3
<1>Receive. CASE Receive
  <2>1. Stuttered
    BY <1>Receive, ReceiveStep
  <2> QED
    BY <1>kept, <1>Receive, <2>1 DEF Receive
<1>stutter. CASE UNCHANGED vars
  <2>1. UNCHANGED <<peer, unread, peer_buffer, peer_buffer_offset, bytes_read, open, broken, sent, pc, opcode>>
    BY <1>stutter DEF vars, buffer
  <2>2. Stuttered
    BY <2>1 DEF Stuttered, over, Rest, Frames, data, length
  <2> QED
    BY <1>kept, <2>1, <2>2
<1> QED
  BY LeftBy, <1>FrameSent, <1>FrameDiscarded, <1>SendFails, <1>Left, <1>Incomplete, <1>Receive,
     <1>stutter
  DEF Next, Handler, ReceiveEnds, ReceiveNothing, LoopCloses, Overrun, FramingFails,
      FramingLoops, Closed

(* What such a function asks for is a frame of the stream, not only of what   *)
(* is in the buffer.                                                          *)
LEMMA CallFits ==
  ASSUME TypeOK, PlaceInv, OldInv, OpcodeInv, LineInv, Documented(peer), NEW r \in Calls,
         Framed(r.bytes, r.op)
  PROVE  r.bytes \in Boundaries(peer, Rest) /\ r.op \in Types(peer, SubSeq(Rest, 1, r.bytes))
<1>1. r \in framing(data, bytes_read) /\ pc = "framing"
  BY DEF Calls
<1>2. r.bytes \in 1 .. Len(Rest) /\ Rest = data \o unread
  BY DEF Framed, Rest
<1>3. CASE peer.framing = "plugin"
  BY <1>2, <1>3, CallsLeaveOpcode DEF Boundaries, Types
<1>4. CASE peer.framing = "binary"
  BY <1>2, <1>4, OpcodeKept DEF Boundaries, Types, OpcodeInv
<1>5. CASE peer.framing = "auto"
  <2>1. r = framing_auto(data) /\ opcode = "binary"
    BY <1>1, <1>5 DEF framing, OpcodeInv
  <2>2. r.bytes = Len(data) /\ r.op = IF Utf8(data) THEN "text" ELSE "binary"
    BY <2>1 DEF framing_auto
  <2>3. PICK d \in Seq(Byte), u \in Seq(Byte) : d = data /\ u = unread
    BY Buffered
  <2>4. SubSeq(Rest, 1, Len(d)) = d
    <3>1. Len(d) \in 1 .. Len(d)
      BY <1>2, <2>2, <2>3, LenProperties
    <3>2. SubSeq(d \o u, 1, Len(d)) = SubSeq(d, 1, Len(d))
      BY <3>1, TakenFromFirst
    <3> QED
      BY <1>2, <2>3, <3>2, SubSeqFull
  <2> QED
    BY <1>2, <1>5, <2>2, <2>3, <2>4 DEF Boundaries, Types
<1>6. CASE peer.framing = "fixedlength"
  <2>1. r.bytes = framing_fixedlen(data) /\ r.op = "binary"
    BY <1>1, <1>6 DEF framing, OpcodeInv
  <2>2. peer.size = 0 \/ r.bytes = peer.size
    BY <1>2, <2>1 DEF framing_fixedlen
  <2> QED
    BY <1>2, <1>6, <2>1, <2>2 DEF Boundaries, Types
<1>7. CASE peer.framing = "separator" /\ Separating(peer)
  <2>1. r.bytes > 0 /\ ~over
    BY <1>2, Buffered DEF Framed
  <2>2. r.bytes \in Boundaries(peer, Rest)
    BY <1>7, <2>1, CallIsExact DEF Exact, ExactCall
  <2>3. r.op = "binary"
    BY <1>7, OpcodeKept DEF OpcodeInv
  <2> QED
    BY <1>7, <2>2, <2>3 DEF Types
<1>8. CASE Measuring(peer)
  <2>1. r.bytes > 0 /\ ~over
    BY <1>2, Buffered DEF Framed
  <2>2. r.bytes \in Boundaries(peer, Rest)
    BY <1>8, <2>1, CallIsExact DEF Exact, ExactCall
  <2>3. r.op = "binary"
    BY <1>8, OpcodeKept DEF OpcodeInv, Measuring
  <2> QED
    BY <1>8, <2>2, <2>3 DEF Types, Measuring
<1>9. CASE Unmixing(peer) /\ Separating(peer)
  BY <1>9, LineCall DEF Types, Unmixing
<1> QED
  BY <1>3, <1>4, <1>5, <1>6, <1>7, <1>8, <1>9 DEF Documented

(* For a peer with auto, binary, fixedlength, any function a plugin may bring, *)
(* separator and newline if no read ends inside one, the latter if no line    *)
(* that is not UTF-8 follows one that is, and dynamic32 if its length fields  *)
(* mean something: the client reads the frames its documentation says, of the *)
(* type it says.                                                              *)
THEOREM FramesAsDocumented == Spec /\ Documented(peer) => FramesTheStream
<1>1. Init => OpcodeInv /\ LineInv /\ Promise!Init
  <2> SUFFICES ASSUME Init PROVE OpcodeInv /\ LineInv /\ Promise!Init
    OBVIOUS
  <2>1. peer \in Peers /\ OpcodeInv
    BY DEF Init, OpcodeInv
  <2>2. LineInv
    <3>1. Rest = peer.stream /\ pc = "idle"
      BY InitFacts DEF Init
    <3> QED
      BY <3>1 DEF LineInv, Unmixing, Begins
  <2> QED
    BY <2>1, <2>2, InitFacts DEF Promise!Init, Stream, Rest
<1>2. BufferInv /\ [Next]_vars /\ Documented(peer) => Documented(peer)'
  <2> SUFFICES ASSUME TypeOK, StreamInv, [Next]_vars, Documented(peer)
               PROVE  Documented(peer)'
    BY DEF BufferInv
  <2>1. peer' = peer
    BY StepFacts DEF Framed, Ended, Stuttered
  <2> QED
    BY <2>1
<1>3. BufferInv /\ OpcodeInv /\ LineInv /\ Documented(peer) /\ [Next]_vars
        => OpcodeInv' /\ LineInv' /\ [Promise!Next]_(Promise!vars)
  <2> SUFFICES ASSUME TypeOK, StreamInv, PlaceInv, OldInv, OpcodeInv, LineInv, Documented(peer),
                      [Next]_vars
               PROVE  OpcodeInv' /\ LineInv' /\ [Promise!Next]_(Promise!vars)
    BY DEF BufferInv
  <2>1. OpcodeInv' /\ LineInv'
    BY OpcodeInvStep, LineStep
  <2>2. CASE \E r \in Calls : Framed(r.bytes, r.op)
    <3>1. PICK r \in Calls : Framed(r.bytes, r.op)
      BY <2>2
    <3>2. r.bytes \in Boundaries(peer, Rest) /\ r.op \in Types(peer, SubSeq(Rest, 1, r.bytes))
      BY <3>1, CallFits
    <3>3. CASE r.op = "discard"
      <4>1. Promise!Discard
        BY <3>1, <3>2, <3>3 DEF Promise!Discard, Promise!Take, Framed, Rest, over
      <4> QED
        BY <2>1, <4>1 DEF Promise!Next
    <3>4. CASE r.op # "discard"
      <4>1. Promise!Frame
        BY <3>1, <3>2, <3>4 DEF Promise!Frame, Promise!Take, Framed, Rest, over
      <4> QED
        BY <2>1, <4>1 DEF Promise!Next
    <3> QED
      BY <3>3, <3>4
  <2>3. CASE Ended
    <3>1. Promise!End
      BY <2>3 DEF Ended, Promise!End, Rest, over
    <3> QED
      BY <2>1, <3>1 DEF Promise!Next
  <2>4. CASE Stuttered
    BY <2>1, <2>4 DEF Stuttered, Promise!vars, Rest
  <2> QED
    BY <2>1, <2>2, <2>3, <2>4, StepFacts
<1> QED
  BY <1>1, <1>2, <1>3, BufferInvHolds, PTL DEF Spec, FramesTheStream, Promise!Spec
=============================================================================
