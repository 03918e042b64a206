------------------------------- MODULE Session -------------------------------
(* What one connection of the proxy promises to its client and to its peer,   *)
(* without buffers, lines and bytes: a request is answered at most once, the  *)
(* messages of the client reach the peer whole and in order and only after    *)
(* the upgrade, every pong brings back what its ping brought, and after the   *)
(* end neither side hears anything any more.                                  *)
EXTENDS Integers, Sequences, FiniteSets

CONSTANTS
  Payloads,   \* what a client can put into a frame
  Reasons     \* what a close frame can say

VARIABLES
  phase,      \* "handshake", "open" or "closed"
  messages,   \* the messages the client is going to send
  pings,      \* the payloads of its pings
  toPeer,     \* what the peer has been sent
  toClient    \* what the client has been sent, apart from the peer's data

vars == <<phase, messages, pings, toPeer, toClient>>

Refusals == {"426", "500"}
Told(type, data) == Append(toClient, [type |-> type, data |-> data])

Init ==
  /\ messages \in Seq(Payloads) /\ pings \in Seq(Payloads)
  /\ phase = "handshake" /\ toPeer = <<>> /\ toClient = <<>>

Accept ==
  /\ phase = "handshake"
  /\ phase' = "open"
  /\ toClient' = Told("101", <<>>)
  /\ UNCHANGED <<messages, pings, toPeer>>

Refuse ==
  /\ phase = "handshake"
  /\ phase' = "closed"
  /\ toClient' \in {toClient} \cup {Told(code, <<>>) : code \in Refusals}
  /\ UNCHANGED <<messages, pings, toPeer>>

Deliver ==
  /\ phase = "open" /\ Len(toPeer) < Len(messages)
  /\ toPeer' = Append(toPeer, messages[Len(toPeer) + 1])
  /\ UNCHANGED <<phase, messages, pings, toClient>>

Pong ==
  LET pongs == Cardinality({i \in DOMAIN toClient : toClient[i].type = "pong"}) IN
  /\ phase = "open" /\ pongs < Len(pings)
  /\ toClient' = Told("pong", pings[pongs + 1])
  /\ UNCHANGED <<phase, messages, pings, toPeer>>

(* The end may come in the middle of the next message.                        *)
Cut == IF Len(toPeer) = Len(messages) THEN {}
       ELSE LET next == messages[Len(toPeer) + 1]
            IN {SubSeq(next, 1, k) : k \in 1 .. Len(next) - 1}
Close ==
  /\ phase = "open"
  /\ phase' = "closed"
  /\ toPeer' \in {toPeer} \cup {Append(toPeer, part) : part \in Cut}
  /\ toClient' \in {toClient} \cup {Told("close", reason) : reason \in Reasons}
  /\ UNCHANGED <<messages, pings>>

Next == Accept \/ Refuse \/ Deliver \/ Pong \/ Close

Spec == Init /\ [][Next]_vars
=============================================================================
