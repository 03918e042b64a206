---------------------------- MODULE MCConnection ----------------------------
(* Clients for Connection: a few requests, right and wrong, with the frames   *)
(* that make the frame handler's cases, at every pace and cut.                *)
EXTENDS Connection

Lines(tokens) == FlattenSeq([i \in DOMAIN tokens |-> tokens[i] \o <<CR, LF>>])
Ended(tokens) == Lines(tokens) \o <<CR, LF>>

Good == Ended(<<Token.GET, Token.hdr, Token.ver13, Token.key, Token.upg, Token.conn>>)
OldVersion == Ended(<<Token.GET, Token.ver8, Token.proto, Token.key, Token.upg, Token.conn>>)
NoKey == Ended(<<Token.GET, Token.ver13, Token.upg, Token.conn>>)
NoUpgrade == Ended(<<Token.GET, Token.ver13, Token.key, Token.conn>>)
BadLine == Ended(<<Token.GET, Token.ver13, Token.nocolon, Token.key, Token.hdr>>)
BadFirst == Ended(<<Token.GET, Token.nocolon, Token.ver13, Token.key, Token.upg, Token.conn>>)
NoGet == Ended(<<Token.POST, Token.hdr, Token.hdr>>)

(* Frames of a client, with a key; a part of a message (FIN is not set) is    *)
(* one as well.                                                               *)
Of(op, data, ext) ==
  [op |-> OpCode[op], data |-> data, ext |-> ext, key |-> <<17, 34, 68, 255>>, fin |-> FIN]
Short(op, data) == Of(op, data, 0)
Unmasked(op, data) == [Short(op, data) EXCEPT !.key = <<>>]
Unknown(code, data) == [Short("text", data) EXCEPT !.op = code]
Part(op, data) == [Short(op, data) EXCEPT !.fin = 0]

(* A ping whose pong has a longer length field; bytes that would be an end of *)
(* line; the two length extensions; a message longer than the buffer.         *)
Talk == <<Short("binary", <<120, 200>>), Of("ping", <<1, 2, 3, 4, 5, 6>>, 2), Short("text", <<122>>),
          Short("close", <<>>)>>
Chat == <<Short("text", <<>>), Short("pong", <<7>>), Of("binary", <<CR, LF>>, 2),
          Part("text", <<5>>), Of("binary", <<255, 0, 17>>, WideBytes)>>
Long == <<Short("text", <<122>>), Of("binary", [i \in 1 .. 24 |-> i], 2)>>
Wrong == <<Short("text", <<122>>), Unmasked("text", <<122>>), Short("text", <<122>>)>>
Odd == <<Unknown(3, <<>>), Short("text", <<122>>)>>

Client(req, frames, pace, cut) == [request |-> req, frames |-> frames, pace |-> pace, cut |-> cut]

(* Clients that wait for the answer, whose request comes in whole lines...    *)
LineClients ==
  {Client(Good, f, "patient", "lines") : f \in {Talk, Chat, Long, Wrong, Odd}}
    \cup {Client(r, Talk, "patient", "lines") : r \in {OldVersion, NoKey, NoUpgrade, BadLine, BadFirst, NoGet}}
(* ... or is cut anywhere.                                                    *)
AnyClients ==
  {Client(r, Talk, "patient", "anywhere") : r \in {Good, OldVersion, BadLine}}
PatientClients == LineClients \cup AnyClients
ASSUME PatientClientsTalk == \A c \in PatientClients : Talks(c)

(* A client that sends more than its request without waiting for the answer.  *)
HastyClients == {Client(Good \o <<CR, LF>>, Talk, "hasty", "lines")}
=============================================================================
