------------------------------ MODULE EventLoop ------------------------------
(* The single-threaded core of websocksy: the client registry `sock`, the     *)
(* file descriptors it holds, and the select loop of main() that serves them. *)
(*                                                                            *)
(* One pass of the loop is: test the shutdown flag, collect the descriptors,  *)
(* block in select, accept at most one client, and walk the registry.  Every  *)
(* slot of the walk is three steps (the client socket, the peer socket, the   *)
(* keep-alive ping), so that the clients, the peers, the kernel and SIGINT    *)
(* act between any two of them.                                               *)
(*                                                                            *)
(* What one call of ws_data, ws_peer_data or ws_send_frame does to the bytes  *)
(* of a connection is abstracted here to its outcome for the slot and its     *)
(* descriptors; module Connection has the detail of ws_data.                  *)
EXTENDS Integers, Sequences, FiniteSets

CONSTANTS
  Fd,           \* the descriptor numbers the process may be given
  listen_fd,    \* the listening socket
  KeepAlive,    \* is config.ping_interval other than 0?
  Pipelined     \* may a client send on after its request, before the answer?

NoFd == -1

ASSUME FdAssumption == Fd \subseteq Nat /\ listen_fd \in Fd /\ IsFiniteSet(Fd)
ASSUME KeepAliveAssumption == KeepAlive \in BOOLEAN
ASSUME PipelinedAssumption == Pipelined \in BOOLEAN

VARIABLES
  sock,               \* the registry: a sequence of slots
  open,               \* descriptors open in the process (kernel)
  ready,              \* open descriptors on which recv/accept has something
  broken,             \* open client descriptors on which a send has failed
  read_fds,           \* the set select left in read_fds
  pc,                 \* where main() is
  n,                  \* the slot main() is at
  shutdown_requested

vars == <<sock, open, ready, broken, read_fds, pc, n, shutdown_requested>>
kernel == <<open, ready, broken>>

-----------------------------------------------------------------------------
(* Slots.  silent stands for current_time - last_event > ping_interval.       *)

States == {"new", "http", "open", "closed"}

Slot == [ws_fd : Fd \cup {NoFd}, peer_fd : Fd \cup {NoFd},
         state : States, silent : BOOLEAN]

FdsOf(s) == {s.ws_fd, s.peer_fd} \ {NoFd}
Held == UNION {FdsOf(sock[i]) : i \in DOMAIN sock}
InUse == {i \in DOMAIN sock : sock[i].ws_fd # NoFd}
Clients == {sock[i].ws_fd : i \in InUse}
Watched == Held \cup {listen_fd}

NewSlot(fd) == [ws_fd |-> fd, peer_fd |-> NoFd, state |-> "new", silent |-> FALSE]
(* Mutations: the peer's descriptor, the state or the client's is not reset.  *)
ClosedSlotKeepsPeer(s) == [s EXCEPT !.ws_fd = NoFd, !.state = "closed"]
ClosedSlotKeepsState(s) == [s EXCEPT !.ws_fd = NoFd, !.peer_fd = NoFd]
ClosedSlotKeepsClient(s) == [s EXCEPT !.peer_fd = NoFd, !.state = "closed"]
ClosedSlot(s) == [s EXCEPT !.ws_fd = NoFd, !.peer_fd = NoFd, !.state = "closed"]

(* The kernel hands out the lowest free numbers: s is what it gives out next. *)
NextFree(s) == /\ s \subseteq Fd \ open
               /\ \A f \in s, g \in (Fd \ open) \ s : f < g

Init ==
  /\ sock = <<>>
  /\ open = {listen_fd}
  /\ ready = {} /\ broken = {} /\ read_fds = {}
  /\ pc = "test" /\ n = 1
  /\ shutdown_requested = FALSE

-----------------------------------------------------------------------------
(* Mutation: the loop does not look at the flag.                              *)
TestLoopForever ==
  /\ pc = "test"
  /\ pc' = "collect"
  /\ UNCHANGED <<sock, kernel, read_fds, n, shutdown_requested>>

(* while(!shutdown_requested): leaving the loop is going to the cleanup.      *)
TestLoop ==
  /\ pc = "test"
  /\ pc' = IF shutdown_requested THEN "cleanup" ELSE "collect"
  /\ UNCHANGED <<sock, kernel, read_fds, n, shutdown_requested>>

(* Mutation: of an upgraded connection only the peer is watched.              *)
EnterSelectPeersOnly ==
  /\ pc = "collect"
  /\ read_fds' = {listen_fd} \cup
       {IF sock[i].peer_fd = NoFd THEN sock[i].ws_fd ELSE sock[i].peer_fd : i \in InUse}
  /\ pc' = "select"
  /\ UNCHANGED <<sock, kernel, n, shutdown_requested>>

(* FD_ZERO, FD_SET of the listener and of every registered slot, and the call *)
(* of select, which blocks.                                                   *)
EnterSelect ==
  /\ pc = "collect"
  /\ read_fds' = {listen_fd} \cup
                 UNION {FdsOf(sock[i]) : i \in InUse}
  /\ pc' = "select"
  /\ UNCHANGED <<sock, kernel, n, shutdown_requested>>

(* Mutation: after a timeout the set is used as it was given to select.       *)
SelectLeavesSet ==
  /\ pc = "select"
  /\ read_fds' = IF read_fds \cap ready = {} \/ listen_fd \in ready
                  THEN read_fds ELSE read_fds \cap ready
  /\ pc' = "accept"
  /\ UNCHANGED <<sock, kernel, n, shutdown_requested>>

(* select returns when a descriptor is ready or, with a ping interval, when   *)
(* the timeout is over.  current_time is read, and with it any client may have *)
(* been silent for longer than the interval.  What is left in last_event of a *)
(* slot without a client is never read again.                                 *)
SelectReturns ==
  /\ pc = "select"
  /\ read_fds \cap ready # {} \/ KeepAlive
  /\ read_fds' = read_fds \cap ready
  /\ \E quiet \in SUBSET (IF KeepAlive THEN InUse ELSE {}) :
       sock' = [i \in DOMAIN sock |->
                  [sock[i] EXCEPT !.silent = i \in InUse /\ (@ \/ i \in quiet)]]
  /\ pc' = "accept"
  /\ UNCHANGED <<kernel, n, shutdown_requested>>

(* Mutation: a slot counts as free when it has no peer.                       *)
RegisterTestsPeer(slot) ==
  \/ \E i \in DOMAIN sock :
       /\ sock[i].peer_fd = NoFd
       /\ sock' = [sock EXCEPT ![i] = slot]
  \/ /\ \A i \in DOMAIN sock : sock[i].peer_fd # NoFd
     /\ sock' = Append(sock, slot)

(* client_register: the first slot without a client, or a new one.            *)
Register(slot) ==
  \/ \E i \in DOMAIN sock :
       /\ sock[i].ws_fd = NoFd
       /\ \A j \in 1 .. i - 1 : sock[j].ws_fd # NoFd
       /\ sock' = [sock EXCEPT ![i] = slot]
  \/ /\ \A i \in DOMAIN sock : sock[i].ws_fd # NoFd
     /\ sock' = Append(sock, slot)

(* ws_accept with a connection waiting.  The listener may have more of them.  *)
AcceptClient ==
  /\ pc = "accept" /\ listen_fd \in read_fds
  /\ \E f \in Fd :
       /\ NextFree({f})
       /\ Register(NewSlot(f))
       /\ open' = open \cup {f}
  /\ ready' \in {ready, ready \ {listen_fd}}
  /\ pc' = "slot"
  /\ UNCHANGED <<broken, read_fds, n, shutdown_requested>>

(* accept() returns -1 (the client is gone again, no descriptor is left): the *)
(* result is registered all the same, as a slot that counts as free.          *)
AcceptFails ==
  /\ pc = "accept" /\ listen_fd \in read_fds
  /\ Register(NewSlot(NoFd))
  /\ ready' = ready \ {listen_fd}
  /\ pc' = "slot"
  /\ UNCHANGED <<open, broken, read_fds, n, shutdown_requested>>

NoAccept ==
  /\ pc = "accept" /\ listen_fd \notin read_fds
  /\ pc' = "slot"
  /\ UNCHANGED <<sock, kernel, read_fds, n, shutdown_requested>>

-----------------------------------------------------------------------------
(* The walk over the registry.                                                *)

(* Mutation: the next walk starts before the first slot.                      *)
LeavePassAtZero == pc' = "test" /\ n' = 0 /\ read_fds' = {}

(* Nothing reads read_fds again before FD_ZERO: the end of a pass clears it.  *)
LeavePass == pc' = "test" /\ n' = 1 /\ read_fds' = {}

EndOfPass ==
  /\ pc = "slot" /\ n > Len(sock)
  /\ LeavePass
  /\ UNCHANGED <<sock, kernel, shutdown_requested>>

(* Mutation: the walk ends at a free slot.                                    *)
SkipSlotEndsWalk ==
  /\ pc = "slot" /\ n \in DOMAIN sock /\ sock[n].ws_fd = NoFd
  /\ n' = Len(sock) + 1
  /\ UNCHANGED <<sock, kernel, read_fds, pc, shutdown_requested>>

SkipSlot ==
  /\ pc = "slot" /\ n \in DOMAIN sock /\ sock[n].ws_fd = NoFd
  /\ n' = n + 1
  /\ UNCHANGED <<sock, kernel, read_fds, pc, shutdown_requested>>

(* ws_close as far as descriptors go: both are closed and forgotten.  leaked  *)
(* are descriptors the same handler had opened and overwritten before; silent *)
(* is what last_event says then.                                              *)
CloseSlot(leaked, silent) ==
  /\ sock' = [sock EXCEPT ![n] = [ClosedSlot(@) EXCEPT !.silent = silent]]
  /\ open' = (open \cup leaked) \ FdsOf(sock[n])
  /\ ready' = ready \ FdsOf(sock[n])
  /\ broken' = broken \ FdsOf(sock[n])

(* After a read, more may be waiting on the descriptor or not; one that a     *)
(* send has failed on keeps reporting its end to select.                      *)
ReadFrom(f) == ready' \in {ready} \cup (IF f \in broken THEN {} ELSE {ready \ {f}})

ClientTurn == /\ pc = "slot" /\ n \in DOMAIN sock
              /\ sock[n].ws_fd # NoFd

WsIdle ==
  /\ ClientTurn /\ sock[n].ws_fd \notin read_fds
  /\ pc' = "peer"
  /\ UNCHANGED <<sock, kernel, read_fds, n, shutdown_requested>>

(* The client sockets block: recv goes on only if something is there to read. *)
WsReady == ClientTurn /\ sock[n].ws_fd \in read_fds /\ sock[n].ws_fd \in ready

(* The connection states one read can lead to when the slot stays in use and  *)
(* no peer is connected: the request line may arrive in this read.            *)
AfterRead(state) == IF state = "new" THEN {"new", "http"} ELSE {state}

(* ws_data handled what it read, and the slot stays: last_event is now.       *)
WsDataStays ==
  /\ WsReady
  /\ \E s \in AfterRead(sock[n].state) :
       sock' = [sock EXCEPT ![n].state = s, ![n].silent = FALSE]
  /\ ReadFrom(sock[n].ws_fd)
  /\ pc' = "peer"
  /\ UNCHANGED <<open, broken, read_fds, n, shutdown_requested>>

(* ws_data met the blank line of a complete request: client_connect opened    *)
(* the peer's socket f and the upgrade was answered.  Further blank lines of  *)
(* a pipelining client in the same read connect again, each overwriting       *)
(* peer_fd: what was there before is leaked.                                  *)
WsDataUpgrades ==
  /\ WsReady
  /\ sock[n].state \in {"new", "http"}
  /\ \E f \in Fd \ open : \E leaked \in SUBSET (Fd \ open) :
       /\ leaked # {} => Pipelined
       /\ \A l \in leaked : l < f
       /\ NextFree(leaked \cup {f})
       /\ sock' = [sock EXCEPT ![n].peer_fd = f, ![n].state = "open", ![n].silent = FALSE]
       /\ open' = open \cup leaked \cup {f}
  /\ ReadFrom(sock[n].ws_fd)
  /\ pc' = "peer"
  /\ UNCHANGED <<broken, read_fds, n, shutdown_requested>>

(* ws_data closed the connection: end of stream, a refused or failed request, *)
(* a close frame, a protocol error, a failed forward, a full buffer.          *)
WsDataCloses ==
  /\ WsReady
  /\ \E leaked \in SUBSET (Fd \ open) :
       /\ leaked # {} => Pipelined /\ sock[n].state \in {"new", "http"}
       /\ NextFree(leaked)
       /\ CloseSlot(leaked, FALSE)
  /\ pc' = "peer"
  /\ UNCHANGED <<read_fds, n, shutdown_requested>>

-----------------------------------------------------------------------------
PeerTurn == pc = "peer" /\ sock[n].peer_fd # NoFd /\ sock[n].peer_fd \in read_fds

PeerIdle ==
  /\ pc = "peer"
  /\ sock[n].peer_fd = NoFd \/ sock[n].peer_fd \notin read_fds
  /\ pc' = "ping"
  /\ UNCHANGED <<sock, kernel, read_fds, n, shutdown_requested>>

(* ws_peer_data read from the peer and framed what it could.                  *)
PeerDataForwarded ==
  /\ PeerTurn
  /\ sock[n].peer_fd \in ready
  /\ ReadFrom(sock[n].peer_fd)
  /\ pc' = "ping"
  /\ UNCHANGED <<sock, open, broken, read_fds, n, shutdown_requested>>

(* recv failed (the peer's sockets do not block, so also with EAGAIN), the    *)
(* peer closed, or the framing function overran the buffer: ws_close.         *)
PeerDataCloses ==
  /\ PeerTurn
  /\ CloseSlot({}, sock[n].silent)
  /\ pc' = "ping"
  /\ UNCHANGED <<read_fds, n, shutdown_requested>>

(* The frame could not be sent to the client: ws_peer_data returns 1 without  *)
(* closing anything and main() breaks out of the walk.                        *)
PeerDataSendFails ==
  /\ PeerTurn
  /\ sock[n].peer_fd \in ready
  /\ broken' = broken \cup {sock[n].ws_fd}
  /\ \E more \in BOOLEAN :
       ready' = (IF more THEN ready ELSE ready \ {sock[n].peer_fd}) \cup {sock[n].ws_fd}
  /\ LeavePass
  /\ UNCHANGED <<sock, open, shutdown_requested>>

-----------------------------------------------------------------------------
(* The ping of a slot is due whatever its state: also before the upgrade, and *)
(* when the peer's turn has just closed the slot.                             *)
PingDue == KeepAlive /\ sock[n].silent

NextSlot == pc' = "slot" /\ n' = n + 1

NoPing ==
  /\ pc = "ping" /\ ~PingDue
  /\ NextSlot
  /\ UNCHANGED <<sock, kernel, read_fds, shutdown_requested>>

SendPing ==
  /\ pc = "ping" /\ PingDue /\ sock[n].ws_fd # NoFd
  /\ NextSlot
  /\ UNCHANGED <<sock, kernel, read_fds, shutdown_requested>>

PingFails ==
  /\ pc = "ping" /\ PingDue
  /\ CloseSlot({}, sock[n].silent)
  /\ NextSlot
  /\ UNCHANGED <<read_fds, shutdown_requested>>

-----------------------------------------------------------------------------
(* client_cleanup closes every slot, then main() closes the listener.         *)
Cleanup ==
  /\ pc = "cleanup"
  /\ sock' = <<>>
  /\ open' = (open \ Held) \ {listen_fd}
  /\ ready' = {} /\ broken' = {}
  /\ pc' = "done"
  /\ UNCHANGED <<read_fds, n, shutdown_requested>>

Finished == pc = "done" /\ UNCHANGED vars

(* The environment: data, an end of stream or a connection request arrives.   *)
Arrive ==
  /\ pc # "done"
  /\ \E f \in Watched \ ready : ready' = ready \cup {f}
  /\ UNCHANGED <<sock, open, broken, read_fds, pc, n, shutdown_requested>>

(* SIGINT.  It interrupts a select that blocks: status < 0 leaves the loop.   *)
Signal ==
  /\ pc # "done" /\ ~shutdown_requested
  /\ shutdown_requested' = TRUE
  /\ IF pc = "select"
     THEN pc' = "cleanup" /\ read_fds' = {}
     ELSE UNCHANGED <<pc, read_fds>>
  /\ UNCHANGED <<sock, kernel, n>>

Step == \/ TestLoop \/ EnterSelect \/ SelectReturns
        \/ AcceptClient \/ AcceptFails \/ NoAccept
        \/ EndOfPass \/ SkipSlot
        \/ WsIdle \/ WsDataStays \/ WsDataUpgrades \/ WsDataCloses
        \/ PeerIdle \/ PeerDataForwarded \/ PeerDataCloses \/ PeerDataSendFails
        \/ NoPing \/ SendPing \/ PingFails
        \/ Cleanup

Next == Step \/ Finished \/ Arrive \/ Signal

Spec == Init /\ [][Next]_vars

(* main() goes on as long as it can: sends to a client do not block for ever  *)
(* (client sockets are blocking).  What is queued on a socket that reported a *)
(* failed send is finite: reading it meets the end.                           *)
Fairness == /\ WF_vars(Step)
            /\ SF_vars(WsDataCloses /\ sock[n].ws_fd \in broken)

LiveSpec == Spec /\ Fairness

-----------------------------------------------------------------------------
(* Properties                                                                 *)

(* Every slot is of its type, and so is everything main() keeps.              *)
TypeOK ==
  /\ sock \in Seq(Slot)
  /\ open \subseteq Fd /\ ready \subseteq open /\ broken \subseteq open
  /\ read_fds \subseteq Fd
  /\ pc \in {"test", "collect", "select", "accept", "slot", "peer", "ping",
             "cleanup", "done"}
  /\ n \in Nat \ {0}
  /\ shutdown_requested \in BOOLEAN

(* No descriptor belongs to two connections, to the client and the peer side  *)
(* of one, or to the listener, and each is open until its slot gives it up:   *)
(* closes and opens of a pass, in any order, never cross two connections.     *)
FdOwnership ==
  /\ \A i \in DOMAIN sock :
       /\ FdsOf(sock[i]) \subseteq open \ {listen_fd}
       /\ sock[i].ws_fd # NoFd => sock[i].ws_fd # sock[i].peer_fd
  /\ \A i, j \in DOMAIN sock : i # j => FdsOf(sock[i]) \cap FdsOf(sock[j]) = {}

(* A slot has a peer exactly while its client is connected and upgraded: the  *)
(* loop watches a peer only under its client's descriptor (websocksy.c:339),  *)
(* so a peer that outlived its client would never be read or closed.          *)
NoOrphanPeer ==
  \A i \in DOMAIN sock :
    /\ sock[i].peer_fd # NoFd <=> sock[i].state = "open"
    /\ sock[i].state = "closed" => sock[i].ws_fd = NoFd
    /\ sock[i].ws_fd = NoFd => sock[i].peer_fd = NoFd

(* main() never reads a client socket that has nothing to read: those sockets *)
(* block, and one such read would stop every other connection.  It holds      *)
(* although descriptors are closed and handed out again within a pass.        *)
ClientReadNeverBlocks ==
  (pc = "slot" /\ n \in DOMAIN sock) => 
    \A i \in n .. Len(sock) : sock[i].ws_fd \in read_fds => sock[i].ws_fd \in ready

(* Without pipelining clients every open descriptor is the listener's or in   *)
(* the registry, and the cleanup leaves none.                                 *)
NoLeakedFd == open = IF pc = "done" THEN {} ELSE Held \cup {listen_fd}

(* The registry (websocksy.c:63) never shrinks, and is bounded all the same,  *)
(* however many clients come and go: no more slots than descriptors, one for  *)
(* each client there can be at a time and one that a failed accept can add    *)
(* when all are in use.  Closes free their slots, and slots are found again.  *)
RegistryBounded == Len(sock) <= Cardinality(Fd)

(* A peer is read only when it has something to say, as the comment           *)
(* "websocket or peer data ready" (websocksy.c:374) has it.                   *)
PeerReadsAreReady == PeerTurn => sock[n].peer_fd \in ready

-----------------------------------------------------------------------------
(* A client with something to say is read, or closed before its turn (a ping  *)
(* to it failed, or the program ends), unless from some point on no pass of   *)
(* the loop ends, each broken off by a failed send.                           *)
HasTurn(f) == pc = "slot" /\ n \in DOMAIN sock /\ sock[n].ws_fd = f /\ f \in read_fds
ClientServed ==
  \A f \in Fd :
    ([]<>(pc = "slot" /\ n > Len(sock))) =>
      ((f \in Clients /\ f \in ready) ~> (HasTurn(f) \/ f \notin Clients))

(* A client that a send has failed on is closed, although the handler that    *)
(* met the failure leaves its slot as it is.                                  *)
BrokenClosed == \A f \in Fd : f \in broken ~> f \notin broken

(* SIGINT, whenever it comes, ends the program.                               *)
ShutdownCompletes == shutdown_requested ~> pc = "done"
=============================================================================
