------------------------------- MODULE Framer -------------------------------
(* What the proxy promises of a peer's byte stream, without reads, buffers    *)
(* and offsets: it is cut into consecutive frames, each as long and of the    *)
(* type that the peer's framing function stands for, and nothing is lost,     *)
(* repeated or reordered until the end.                                       *)
EXTENDS Integers, Sequences

CONSTANTS
  Peer,              \* peers
  Stream(_),         \* what a peer is going to send
  Boundaries(_, _),  \* the lengths the next frame of a peer may have
  Types(_, _)        \* the types a frame of a peer may have

VARIABLES
  peer,
  rest,     \* what of the stream has not been framed
  frames,   \* the frames the client has been sent
  over

vars == <<peer, rest, frames, over>>

Init ==
  /\ peer \in Peer /\ rest = Stream(peer)
  /\ frames = <<>> /\ over = FALSE

Take(k) == rest' = SubSeq(rest, k + 1, Len(rest))

Frame ==
  /\ ~over
  /\ \E k \in Boundaries(peer, rest) :
       LET data == SubSeq(rest, 1, k) IN
       /\ Take(k)
       /\ \E type \in Types(peer, data) \ {"discard"} :
            frames' = Append(frames, [type |-> type, data |-> data])
  /\ UNCHANGED <<peer, over>>

Discard ==
  /\ ~over
  /\ \E k \in Boundaries(peer, rest) :
       /\ "discard" \in Types(peer, SubSeq(rest, 1, k))
       /\ Take(k)
  /\ UNCHANGED <<peer, frames, over>>

End ==
  /\ ~over
  /\ over' = TRUE /\ rest' = <<>>
  /\ UNCHANGED <<peer, frames>>

Next == Frame \/ Discard \/ End

Spec == Init /\ [][Next]_vars
=============================================================================
