--------------------------- MODULE EventLoopProof ---------------------------
(* What holds of the event loop for every set of descriptors, every listener *)
(* and every configuration: EventLoop's safety properties as theorems.       *)
EXTENDS EventLoop, SequenceTheorems, FiniteSetTheorems, TLAPS

-----------------------------------------------------------------------------
(* Replacing one element of a sequence, and adding one, as the registry does. *)

(* A slot assigned to in place: the sequence keeps its length and the rest.   *)
LEMMA ReplaceElement ==
  ASSUME NEW S, NEW t \in Seq(S), NEW i \in DOMAIN t, NEW e \in S,
         NEW u, u = [t EXCEPT ![i] = e]
  PROVE  /\ u \in Seq(S) /\ DOMAIN u = DOMAIN t /\ Len(u) = Len(t)
         /\ u[i] = e
         /\ \A j \in DOMAIN t : j # i => u[j] = t[j]
<1>1. DOMAIN t = 1 .. Len(t)
  BY LenProperties
<1>2. u \in Seq(S) /\ Len(u) = Len(t)
  BY <1>1, ExceptSeq
<1>3. DOMAIN u = DOMAIN t
  BY <1>1, <1>2, LenProperties
<1> QED
  BY <1>1, <1>2, <1>3

(* A slot added by realloc: the others stay where they are.                   *)
LEMMA AppendElement ==
  ASSUME NEW S, NEW t \in Seq(S), NEW e \in S, NEW u, u = Append(t, e)
  PROVE  /\ u \in Seq(S) /\ DOMAIN u = DOMAIN t \cup {Len(t) + 1}
         /\ Len(t) + 1 \notin DOMAIN t
         /\ u[Len(t) + 1] = e
         /\ \A j \in DOMAIN t : u[j] = t[j]
<1>1. /\ Len(t) \in Nat /\ DOMAIN t = 1 .. Len(t)
  BY LenProperties
<1>2. u \in Seq(S) /\ Len(u) = Len(t) + 1
  BY <1>1
<1>3. DOMAIN u = 1 .. Len(t) + 1
  BY <1>2, LenProperties
<1>4. u[Len(t) + 1] = e /\ \A j \in DOMAIN t : u[j] = t[j]
  BY <1>1, <1>2
<1> QED
  BY <1>1, <1>2, <1>3, <1>4

(* A table rebuilt slot by slot, as SelectReturns does, is a sequence.        *)
LEMMA FunctionIsSeq ==
  ASSUME NEW S, NEW m \in Nat, NEW f \in [1 .. m -> S]
  PROVE  f \in Seq(S) /\ Len(f) = m
  OBVIOUS

-----------------------------------------------------------------------------
(* The inductive invariant: the properties, and why they are stable.          *)

(* The peer's and the ping's turn are those of a slot of the registry.        *)
TurnHasSlot == pc \in {"peer", "ping"} => n \in DOMAIN sock

(* The listener stays open until the cleanup.                                 *)
ListenerOpen == pc # "done" => listen_fd \in open

(* The slots the walk has not come to yet.                                    *)
Unserved == IF pc = "accept" THEN DOMAIN sock
            ELSE IF pc = "slot" THEN {i \in DOMAIN sock : i >= n}
            ELSE IF pc \in {"peer", "ping"} THEN {i \in DOMAIN sock : i > n}
            ELSE {}

(* What select reported is still ready on the clients that wait for their     *)
(* turn, and until accept nothing has changed at all.                         *)
StillReady == /\ pc = "accept" => read_fds \subseteq ready
              /\ \A i \in Unserved : sock[i].ws_fd \in read_fds => sock[i].ws_fd \in ready

IInv == /\ TypeOK /\ FdOwnership /\ NoOrphanPeer
        /\ TurnHasSlot /\ ListenerOpen /\ StillReady

(* main() starts with an empty registry and the listener.                     *)
LEMMA InitIInv == Init => IInv
<1> SUFFICES ASSUME Init PROVE IInv
  OBVIOUS
<1> USE FdAssumption DEF FdAssumption
<1>1. sock \in Seq(Slot) /\ DOMAIN sock = {}
  BY EmptySeq, LenProperties DEF Init
<1>2. /\ open = {listen_fd} /\ ready = {} /\ broken = {} /\ read_fds = {}
      /\ pc = "test" /\ n = 1 /\ shutdown_requested = FALSE
  BY DEF Init
<1>3. shutdown_requested \in BOOLEAN
  BY <1>2
<1>4. TypeOK
  BY <1>1, <1>2, <1>3 DEF TypeOK
<1> QED
  BY <1>1, <1>2, <1>4 DEF IInv, FdOwnership, NoOrphanPeer, TurnHasSlot, ListenerOpen,
                    StillReady, Unserved

(* A step of main() that leaves the registry and the kernel alone keeps what  *)
(* is said of them.                                                           *)
LEMMA SameTable ==
  ASSUME FdOwnership, NoOrphanPeer, UNCHANGED <<sock, open>>
  PROVE  FdOwnership' /\ NoOrphanPeer'
  BY DEF FdOwnership, NoOrphanPeer, FdsOf, NoFd

(* One slot is replaced and descriptors it does not hold stay open: the       *)
(* others keep theirs, and the new value has to own its own.                  *)
LEMMA ReplaceSlot ==
  ASSUME TypeOK, FdOwnership, NoOrphanPeer,
         NEW i \in DOMAIN sock, NEW s \in Slot,
         sock' = [sock EXCEPT ![i] = s],
         \A j \in DOMAIN sock : j # i => FdsOf(sock[j]) \subseteq open',
         FdsOf(s) \subseteq open' \ {listen_fd},
         \A j \in DOMAIN sock : j # i => FdsOf(s) \cap FdsOf(sock[j]) = {},
         s.ws_fd # NoFd => s.ws_fd # s.peer_fd,
         s.peer_fd # NoFd <=> s.state = "open",
         s.state = "closed" => s.ws_fd = NoFd,
         s.ws_fd = NoFd => s.peer_fd = NoFd
  PROVE  /\ sock' \in Seq(Slot) /\ DOMAIN sock' = DOMAIN sock /\ Len(sock') = Len(sock)
         /\ sock'[i] = s
         /\ \A j \in DOMAIN sock : j # i => sock'[j] = sock[j]
         /\ FdOwnership' /\ NoOrphanPeer'
<1>1. sock \in Seq(Slot)
  BY DEF TypeOK
<1>2. /\ sock' \in Seq(Slot) /\ DOMAIN sock' = DOMAIN sock /\ Len(sock') = Len(sock)
      /\ sock'[i] = s
      /\ \A j \in DOMAIN sock : j # i => sock'[j] = sock[j]
  BY <1>1, ReplaceElement
<1>3. ASSUME NEW j \in DOMAIN sock'
      PROVE  /\ FdsOf(sock'[j]) \subseteq open' \ {listen_fd}
             /\ sock'[j].ws_fd # NoFd => sock'[j].ws_fd # sock'[j].peer_fd
  BY <1>2, <1>3 DEF FdOwnership
<1>4. ASSUME NEW j \in DOMAIN sock', NEW k \in DOMAIN sock', j # k
      PROVE  FdsOf(sock'[j]) \cap FdsOf(sock'[k]) = {}
  BY <1>2, <1>4 DEF FdOwnership
<1>5. FdOwnership'
  BY <1>3, <1>4 DEF FdOwnership
<1>6. NoOrphanPeer'
  BY <1>2 DEF NoOrphanPeer
<1> QED
  BY <1>2, <1>5, <1>6

(* ws_close of the slot main() is at takes nothing from any other slot.       *)
LEMMA CloseSlotKeeps ==
  ASSUME TypeOK, FdOwnership, NoOrphanPeer, n \in DOMAIN sock,
         NEW leaked \in SUBSET (Fd \ open), NEW quiet \in BOOLEAN,
         CloseSlot(leaked, quiet)
  PROVE  /\ sock' \in Seq(Slot) /\ DOMAIN sock' = DOMAIN sock
         /\ \A j \in DOMAIN sock : j # n => sock'[j] = sock[j]
         /\ open' \subseteq Fd /\ ready' \subseteq open' /\ broken' \subseteq open'
         /\ listen_fd \in open => listen_fd \in open'
         /\ \A j \in DOMAIN sock : j # n /\ sock[j].ws_fd # NoFd /\ sock[j].ws_fd \in ready
                                  => sock[j].ws_fd \in ready'
         /\ FdOwnership' /\ NoOrphanPeer'
<1> DEFINE s == [ClosedSlot(sock[n]) EXCEPT !.silent = quiet]
<1>1. sock[n] \in Slot
  BY LenProperties, ElementOfSeq DEF TypeOK
<1>2. /\ s \in Slot /\ FdsOf(s) = {} /\ s.ws_fd = NoFd /\ s.peer_fd = NoFd
      /\ s.state = "closed"
  BY <1>1 DEF ClosedSlot, FdsOf, Slot, States
<1>3. \A j \in DOMAIN sock : j # n => FdsOf(sock[j]) \subseteq open'
  BY DEF FdOwnership, CloseSlot
<1>4. sock' = [sock EXCEPT ![n] = s]
  BY DEF CloseSlot
<1> HIDE DEF s
<1>5. /\ sock' \in Seq(Slot) /\ DOMAIN sock' = DOMAIN sock
      /\ \A j \in DOMAIN sock : j # n => sock'[j] = sock[j]
      /\ FdOwnership' /\ NoOrphanPeer'
  BY <1>2, <1>3, <1>4, ReplaceSlot
<1>6. /\ open' \subseteq Fd /\ ready' \subseteq open' /\ broken' \subseteq open'
      /\ listen_fd \in open => listen_fd \in open'
  BY DEF CloseSlot, TypeOK, FdOwnership
<1>7. ASSUME NEW j \in DOMAIN sock, j # n, sock[j].ws_fd # NoFd, sock[j].ws_fd \in ready
      PROVE  sock[j].ws_fd \in ready'
  <2>1. sock[j].ws_fd \in FdsOf(sock[j])
    BY <1>7 DEF FdsOf
  <2>2. sock[j].ws_fd \notin FdsOf(sock[n])
    BY <1>7, <2>1 DEF FdOwnership
  <2> QED
    BY <1>7, <2>2 DEF CloseSlot
<1> QED
  BY <1>5, <1>6, <1>7

(* client_register takes a slot nobody uses: every client keeps its own.      *)
LEMMA RegisterKeeps ==
  ASSUME TypeOK, FdOwnership, NoOrphanPeer, ListenerOpen, pc = "accept",
         NEW f \in Fd \cup {NoFd}, f \notin open,
         Register(NewSlot(f)), open' = open \cup ({f} \ {NoFd})
  PROVE  /\ sock' \in Seq(Slot)
         /\ \A i \in DOMAIN sock' :
              sock'[i].ws_fd = f \/ (i \in DOMAIN sock /\ sock'[i] = sock[i])
         /\ FdOwnership' /\ NoOrphanPeer'
<1> DEFINE s == NewSlot(f)
<1>1. /\ s \in Slot /\ FdsOf(s) = {f} \ {NoFd} /\ s.ws_fd = f /\ s.peer_fd = NoFd
      /\ s.state = "new"
  BY DEF NewSlot, FdsOf, Slot, States
<1>2. FdsOf(s) \subseteq open' \ {listen_fd}
  BY <1>1 DEF ListenerOpen
<1>3. \A j \in DOMAIN sock : FdsOf(s) \cap FdsOf(sock[j]) = {}
  BY <1>1 DEF FdOwnership
<1>4. \A j \in DOMAIN sock : FdsOf(sock[j]) \subseteq open'
  BY DEF FdOwnership
<1>5. \/ \E i \in DOMAIN sock : sock' = [sock EXCEPT ![i] = s]
      \/ sock' = Append(sock, s)
  BY DEF Register
<1> HIDE DEF s
<1>6. CASE \E i \in DOMAIN sock : sock' = [sock EXCEPT ![i] = s]
  <2> PICK i \in DOMAIN sock : sock' = [sock EXCEPT ![i] = s]
    BY <1>6
  <2>1. /\ sock' \in Seq(Slot) /\ DOMAIN sock' = DOMAIN sock /\ sock'[i] = s
        /\ \A j \in DOMAIN sock : j # i => sock'[j] = sock[j]
        /\ FdOwnership' /\ NoOrphanPeer'
    BY <1>1, <1>2, <1>3, <1>4, ReplaceSlot
  <2> QED
    BY <1>1, <2>1
<1>7. CASE sock' = Append(sock, s)
  <2> DEFINE k == Len(sock) + 1
  <2>1. /\ sock' \in Seq(Slot) /\ DOMAIN sock' = DOMAIN sock \cup {k}
        /\ k \notin DOMAIN sock /\ sock'[k] = s
        /\ \A j \in DOMAIN sock : sock'[j] = sock[j]
    BY <1>1, <1>7, AppendElement DEF TypeOK
  <2> HIDE DEF k
  <2>2. FdOwnership'
    <3>1. \A j \in DOMAIN sock' :
            /\ FdsOf(sock'[j]) \subseteq open' \ {listen_fd}
            /\ sock'[j].ws_fd # NoFd => sock'[j].ws_fd # sock'[j].peer_fd
      BY <1>1, <1>2, <1>4, <2>1 DEF FdOwnership
    <3>2. \A i, j \in DOMAIN sock' : i # j => FdsOf(sock'[i]) \cap FdsOf(sock'[j]) = {}
      BY <1>3, <2>1 DEF FdOwnership
    <3> QED
      BY <3>1, <3>2 DEF FdOwnership
  <2>3. NoOrphanPeer'
    BY <1>1, <2>1 DEF NoOrphanPeer
  <2> QED
    BY <1>1, <2>1, <2>2, <2>3
<1> QED
  BY <1>5, <1>6, <1>7

-----------------------------------------------------------------------------
(* Every step keeps the invariant.                                            *)

(* One case for every action of main(), of the kernel and of SIGINT.          *)
LEMMA NextIInv == IInv /\ [Next]_vars => IInv'
<1> SUFFICES ASSUME IInv, [Next]_vars PROVE IInv'
  OBVIOUS
<1> USE FdAssumption DEF FdAssumption
<1>inv. /\ TypeOK /\ FdOwnership /\ NoOrphanPeer
      /\ TurnHasSlot /\ ListenerOpen /\ StillReady
  BY DEF IInv
<1>len. Len(sock) \in Nat /\ DOMAIN sock = 1 .. Len(sock)
  BY <1>inv, LenProperties DEF TypeOK
<1>slot. \A i \in DOMAIN sock : sock[i] \in Slot
  BY <1>inv, <1>len, ElementOfSeq DEF TypeOK
(* The steps that change neither the registry nor the open descriptors.       *)
<1>stutter. CASE UNCHANGED vars
  BY <1>inv, <1>stutter DEF vars, IInv, TypeOK, FdOwnership, NoOrphanPeer, TurnHasSlot,
                    ListenerOpen, StillReady, Unserved, FdsOf, NoFd
<1>TestLoop. CASE TestLoop
  <2>1. UNCHANGED <<sock, open, ready, broken, read_fds, n, shutdown_requested>>
        /\ pc = "test" /\ pc' \in {"collect", "cleanup"}
    BY <1>TestLoop DEF TestLoop, kernel
  <2>2. FdOwnership' /\ NoOrphanPeer'
    BY <1>inv, <2>1, SameTable
  <2>3. TypeOK'
    BY <1>inv, <2>1 DEF TypeOK
  <2> QED
    BY <1>inv, <2>1, <2>2, <2>3 DEF IInv, TurnHasSlot, ListenerOpen, StillReady, Unserved
<1>EnterSelect. CASE EnterSelect
  <2>1. UNCHANGED <<sock, open, ready, broken, n, shutdown_requested>>
        /\ pc = "collect" /\ pc' = "select"
    BY <1>EnterSelect DEF EnterSelect, kernel
  <2>2. FdOwnership' /\ NoOrphanPeer'
    BY <1>inv, <2>1, SameTable
  <2>3. read_fds' \subseteq Fd
    BY <1>inv, <1>EnterSelect DEF EnterSelect, FdOwnership, InUse, TypeOK
  <2>4. TypeOK'
    BY <1>inv, <2>1, <2>3 DEF TypeOK
  <2> QED
    BY <1>inv, <2>1, <2>2, <2>4 DEF IInv, TurnHasSlot, ListenerOpen, StillReady, Unserved
<1>SelectReturns. CASE SelectReturns
  <2>1. UNCHANGED <<open, ready, broken, n, shutdown_requested>>
        /\ pc = "select" /\ pc' = "accept" /\ read_fds' = read_fds \cap ready
    BY <1>SelectReturns DEF SelectReturns, kernel
  <2>2. PICK quiet : sock' = [i \in DOMAIN sock |->
                               [sock[i] EXCEPT !.silent = i \in InUse /\ (@ \/ i \in quiet)]]
    BY <1>SelectReturns DEF SelectReturns
  <2>3. DOMAIN sock' = DOMAIN sock
    BY <2>2
  <2>4. ASSUME NEW i \in DOMAIN sock
        PROVE  /\ sock'[i] \in Slot
               /\ sock'[i].ws_fd = sock[i].ws_fd /\ sock'[i].peer_fd = sock[i].peer_fd
               /\ sock'[i].state = sock[i].state
    BY <1>slot, <2>2, <2>4 DEF Slot
  <2>5. sock' \in [1 .. Len(sock) -> Slot]
    BY <1>len, <2>2, <2>4
  <2>6. sock' \in Seq(Slot)
    BY <1>len, <2>5, FunctionIsSeq
  <2>7. TypeOK'
    BY <1>inv, <2>1, <2>6 DEF TypeOK
  <2>8. FdOwnership'
    BY <1>inv, <2>1, <2>3, <2>4 DEF FdOwnership, FdsOf
  <2>9. NoOrphanPeer'
    BY <1>inv, <2>3, <2>4 DEF NoOrphanPeer
  <2>10. StillReady'
    BY <2>1 DEF StillReady, Unserved
  <2> QED
    BY <1>inv, <2>1, <2>7, <2>8, <2>9, <2>10 DEF IInv, TurnHasSlot, ListenerOpen
<1>AcceptClient. CASE AcceptClient
  <2>1. UNCHANGED <<broken, read_fds, n, shutdown_requested>>
        /\ pc = "accept" /\ pc' = "slot" /\ ready' \in {ready, ready \ {listen_fd}}
    BY <1>AcceptClient DEF AcceptClient
  <2>2. PICK f \in Fd : f \notin open /\ Register(NewSlot(f)) /\ open' = open \cup {f}
    BY <1>AcceptClient DEF AcceptClient, NextFree
  <2>3. /\ sock' \in Seq(Slot) /\ FdOwnership' /\ NoOrphanPeer'
        /\ \A i \in DOMAIN sock' :
             sock'[i].ws_fd = f \/ (i \in DOMAIN sock /\ sock'[i] = sock[i])
    BY <1>inv, <2>1, <2>2, RegisterKeeps DEF NoFd
  <2>4. TypeOK'
    BY <1>inv, <2>1, <2>2, <2>3 DEF TypeOK
  <2>5. ASSUME NEW i \in DOMAIN sock', sock'[i].ws_fd \in read_fds
        PROVE  sock'[i].ws_fd \in ready'
    <3>1. read_fds \subseteq ready /\ ready \subseteq Fd
      BY <1>inv, <2>1 DEF StillReady, TypeOK
    <3>2. i \in DOMAIN sock /\ sock'[i] = sock[i]
      BY <1>inv, <2>2, <2>3, <2>5, <3>1 DEF TypeOK, NoFd
    <3>3. sock[i].ws_fd # listen_fd
      BY <1>inv, <2>5, <3>1, <3>2 DEF FdOwnership, FdsOf, NoFd
    <3> QED
      BY <2>1, <2>5, <3>1, <3>2, <3>3
  <2>6. StillReady'
    BY <2>1, <2>5 DEF StillReady, Unserved
  <2> QED
    BY <1>inv, <2>1, <2>2, <2>3, <2>4, <2>6 DEF IInv, TurnHasSlot, ListenerOpen
<1>AcceptFails. CASE AcceptFails
  <2>1. UNCHANGED <<broken, read_fds, n, shutdown_requested>>
        /\ pc = "accept" /\ pc' = "slot" /\ ready' \in {ready, ready \ {listen_fd}}
    BY <1>AcceptFails DEF AcceptFails
  <2>2. Register(NewSlot(NoFd)) /\ open' = open /\ NoFd \notin open
    BY <1>AcceptFails, <1>inv DEF AcceptFails, TypeOK, NoFd
  <2>3. /\ sock' \in Seq(Slot) /\ FdOwnership' /\ NoOrphanPeer'
        /\ \A i \in DOMAIN sock' :
             sock'[i].ws_fd = NoFd \/ (i \in DOMAIN sock /\ sock'[i] = sock[i])
    BY <1>inv, <2>1, <2>2, RegisterKeeps
  <2>4. TypeOK'
    BY <1>inv, <2>1, <2>2, <2>3 DEF TypeOK
  <2>5. ASSUME NEW i \in DOMAIN sock', sock'[i].ws_fd \in read_fds
        PROVE  sock'[i].ws_fd \in ready'
    <3>1. read_fds \subseteq ready /\ ready \subseteq Fd
      BY <1>inv, <2>1 DEF StillReady, TypeOK
    <3>2. i \in DOMAIN sock /\ sock'[i] = sock[i]
      BY <1>inv, <2>2, <2>3, <2>5, <3>1 DEF TypeOK, NoFd
    <3>3. sock[i].ws_fd # listen_fd
      BY <1>inv, <2>5, <3>1, <3>2 DEF FdOwnership, FdsOf, NoFd
    <3> QED
      BY <2>1, <2>5, <3>1, <3>2, <3>3
  <2>6. StillReady'
    BY <2>1, <2>5 DEF StillReady, Unserved
  <2> QED
    BY <1>inv, <2>1, <2>2, <2>3, <2>4, <2>6 DEF IInv, TurnHasSlot, ListenerOpen
<1>NoAccept. CASE NoAccept
  <2>1. UNCHANGED <<sock, open, ready, broken, read_fds, n, shutdown_requested>>
        /\ pc = "accept" /\ pc' = "slot"
    BY <1>NoAccept DEF NoAccept, kernel
  <2>2. FdOwnership' /\ NoOrphanPeer'
    BY <1>inv, <2>1, SameTable
  <2>3. TypeOK'
    BY <1>inv, <2>1 DEF TypeOK
  <2>4. StillReady'
    BY <1>inv, <2>1 DEF StillReady, Unserved
  <2> QED
    BY <1>inv, <2>1, <2>2, <2>3, <2>4 DEF IInv, TurnHasSlot, ListenerOpen
<1>EndOfPass. CASE EndOfPass
  <2>1. UNCHANGED <<sock, open, ready, broken, shutdown_requested>>
        /\ pc = "slot" /\ pc' = "test" /\ n' = 1 /\ read_fds' = {}
    BY <1>EndOfPass DEF EndOfPass, LeavePass, kernel
  <2>2. FdOwnership' /\ NoOrphanPeer'
    BY <1>inv, <2>1, SameTable
  <2>3. TypeOK'
    BY <1>inv, <2>1 DEF TypeOK
  <2> QED
    BY <1>inv, <2>1, <2>2, <2>3 DEF IInv, TurnHasSlot, ListenerOpen, StillReady, Unserved
<1>SkipSlot. CASE SkipSlot
  <2>1. UNCHANGED <<sock, open, ready, broken, read_fds, pc, shutdown_requested>>
        /\ pc = "slot" /\ n' = n + 1
    BY <1>SkipSlot DEF SkipSlot, kernel
  <2>2. FdOwnership' /\ NoOrphanPeer'
    BY <1>inv, <2>1, SameTable
  <2>3. TypeOK'
    BY <1>inv, <2>1 DEF TypeOK
  <2>4. StillReady'
    BY <1>inv, <1>len, <2>1 DEF StillReady, Unserved, TypeOK
  <2> QED
    BY <1>inv, <2>1, <2>2, <2>3, <2>4 DEF IInv, TurnHasSlot, ListenerOpen
<1>WsIdle. CASE WsIdle
  <2>1. UNCHANGED <<sock, open, ready, broken, read_fds, n, shutdown_requested>>
        /\ pc = "slot" /\ pc' = "peer" /\ n \in DOMAIN sock
    BY <1>WsIdle DEF WsIdle, ClientTurn, kernel
  <2>2. FdOwnership' /\ NoOrphanPeer'
    BY <1>inv, <2>1, SameTable
  <2>3. TypeOK'
    BY <1>inv, <2>1 DEF TypeOK
  <2>4. StillReady'
    BY <1>inv, <1>len, <2>1 DEF StillReady, Unserved, TypeOK
  <2> QED
    BY <1>inv, <2>1, <2>2, <2>3, <2>4 DEF IInv, TurnHasSlot, ListenerOpen
<1>PeerIdle. CASE PeerIdle
  <2>1. UNCHANGED <<sock, open, ready, broken, read_fds, n, shutdown_requested>>
        /\ pc = "peer" /\ pc' = "ping"
    BY <1>PeerIdle DEF PeerIdle, kernel
  <2>2. FdOwnership' /\ NoOrphanPeer'
    BY <1>inv, <2>1, SameTable
  <2>3. TypeOK'
    BY <1>inv, <2>1 DEF TypeOK
  <2>4. StillReady'
    BY <1>inv, <1>len, <2>1 DEF StillReady, Unserved, TypeOK
  <2> QED
    BY <1>inv, <2>1, <2>2, <2>3, <2>4 DEF IInv, TurnHasSlot, ListenerOpen
<1>NoPing. CASE NoPing
  <2>1. UNCHANGED <<sock, open, ready, broken, read_fds, shutdown_requested>>
        /\ pc = "ping" /\ pc' = "slot" /\ n' = n + 1
    BY <1>NoPing DEF NoPing, NextSlot, kernel
  <2>2. FdOwnership' /\ NoOrphanPeer'
    BY <1>inv, <2>1, SameTable
  <2>3. TypeOK'
    BY <1>inv, <2>1 DEF TypeOK
  <2>4. StillReady'
    BY <1>inv, <1>len, <2>1 DEF StillReady, Unserved, TypeOK
  <2> QED
    BY <1>inv, <2>1, <2>2, <2>3, <2>4 DEF IInv, TurnHasSlot, ListenerOpen
<1>SendPing. CASE SendPing
  <2>1. UNCHANGED <<sock, open, ready, broken, read_fds, shutdown_requested>>
        /\ pc = "ping" /\ pc' = "slot" /\ n' = n + 1
    BY <1>SendPing DEF SendPing, NextSlot, kernel
  <2>2. FdOwnership' /\ NoOrphanPeer'
    BY <1>inv, <2>1, SameTable
  <2>3. TypeOK'
    BY <1>inv, <2>1 DEF TypeOK
  <2>4. StillReady'
    BY <1>inv, <1>len, <2>1 DEF StillReady, Unserved, TypeOK
  <2> QED
    BY <1>inv, <2>1, <2>2, <2>3, <2>4 DEF IInv, TurnHasSlot, ListenerOpen
<1>PeerDataSendFails. CASE PeerDataSendFails
  <2>1. UNCHANGED <<sock, open, shutdown_requested>>
        /\ pc = "peer" /\ pc' = "test" /\ n' = 1 /\ read_fds' = {}
    BY <1>PeerDataSendFails DEF PeerDataSendFails, PeerTurn, LeavePass
  <2>5. sock[n].ws_fd \in open
    BY <1>inv, <1>PeerDataSendFails, <1>slot, <2>1
    DEF PeerDataSendFails, PeerTurn, TurnHasSlot, NoOrphanPeer, FdOwnership, FdsOf
  <2>6. broken' \subseteq open /\ ready' \subseteq open
    BY <1>inv, <1>PeerDataSendFails, <2>5 DEF PeerDataSendFails, TypeOK
  <2>2. FdOwnership' /\ NoOrphanPeer'
    BY <1>inv, <2>1, SameTable
  <2>3. TypeOK'
    BY <1>inv, <2>1, <2>6 DEF TypeOK
  <2>4. StillReady'
    BY <1>inv, <1>len, <2>1 DEF StillReady, Unserved, TypeOK
  <2> QED
    BY <1>inv, <2>1, <2>2, <2>3, <2>4 DEF IInv, TurnHasSlot, ListenerOpen
<1>Finished. CASE Finished
  <2>1. UNCHANGED <<sock, open, ready, broken, read_fds, pc, n, shutdown_requested>>
        /\ pc = "done"
    BY <1>Finished DEF Finished, vars
  <2>2. FdOwnership' /\ NoOrphanPeer'
    BY <1>inv, <2>1, SameTable
  <2>3. TypeOK'
    BY <1>inv, <2>1 DEF TypeOK
  <2>4. StillReady'
    BY <1>inv, <1>len, <2>1 DEF StillReady, Unserved, TypeOK
  <2> QED
    BY <1>inv, <2>1, <2>2, <2>3, <2>4 DEF IInv, TurnHasSlot, ListenerOpen
<1>Arrive. CASE Arrive
  <2>1. UNCHANGED <<sock, open, broken, read_fds, pc, n, shutdown_requested>>
        /\ pc # "done" /\ ready \subseteq ready'
    BY <1>Arrive DEF Arrive
  <2>5. ready' \subseteq open
    BY <1>inv, <1>Arrive DEF Arrive, Watched, Held, FdOwnership, ListenerOpen, TypeOK
  <2>2. FdOwnership' /\ NoOrphanPeer'
    BY <1>inv, <2>1, SameTable
  <2>3. TypeOK'
    BY <1>inv, <2>1, <2>5 DEF TypeOK
  <2>4. StillReady'
    BY <1>inv, <1>len, <2>1 DEF StillReady, Unserved, TypeOK
  <2> QED
    BY <1>inv, <2>1, <2>2, <2>3, <2>4 DEF IInv, TurnHasSlot, ListenerOpen
<1>WsDataCloses. CASE WsDataCloses
  <2>1. /\ UNCHANGED <<read_fds, n, shutdown_requested>>
        /\ pc = "slot" /\ pc' = "peer" /\ n \in DOMAIN sock
    BY <1>inv, <1>WsDataCloses DEF WsDataCloses, WsReady, ClientTurn
  <2>2. PICK leaked \in SUBSET (Fd \ open) : CloseSlot(leaked, FALSE)
    BY <1>WsDataCloses DEF WsDataCloses
  <2>3. /\ sock' \in Seq(Slot) /\ DOMAIN sock' = DOMAIN sock
        /\ \A j \in DOMAIN sock : j # n => sock'[j] = sock[j]
        /\ open' \subseteq Fd /\ ready' \subseteq open' /\ broken' \subseteq open'
        /\ listen_fd \in open => listen_fd \in open'
        /\ \A j \in DOMAIN sock : j # n /\ sock[j].ws_fd # NoFd /\ sock[j].ws_fd \in ready
                                 => sock[j].ws_fd \in ready'
        /\ FdOwnership' /\ NoOrphanPeer'
    BY <1>inv, <2>1, <2>2, CloseSlotKeeps
  <2>4. TypeOK'
    BY <1>inv, <1>len, <2>1, <2>3 DEF TypeOK
  <2>5. StillReady'
    BY <1>inv, <1>len, <2>1, <2>3 DEF StillReady, Unserved, TypeOK, NoFd
  <2> QED
    BY <1>inv, <2>1, <2>3, <2>4, <2>5 DEF IInv, TurnHasSlot, ListenerOpen
<1>PeerDataCloses. CASE PeerDataCloses
  <2>1. /\ UNCHANGED <<read_fds, n, shutdown_requested>>
        /\ pc = "peer" /\ pc' = "ping" /\ n \in DOMAIN sock
    BY <1>inv, <1>PeerDataCloses DEF PeerDataCloses, PeerTurn, TurnHasSlot
  <2>2. CloseSlot({}, sock[n].silent) /\ sock[n].silent \in BOOLEAN
    BY <1>PeerDataCloses, <1>slot, <2>1 DEF PeerDataCloses, Slot
  <2>3. /\ sock' \in Seq(Slot) /\ DOMAIN sock' = DOMAIN sock
        /\ \A j \in DOMAIN sock : j # n => sock'[j] = sock[j]
        /\ open' \subseteq Fd /\ ready' \subseteq open' /\ broken' \subseteq open'
        /\ listen_fd \in open => listen_fd \in open'
        /\ \A j \in DOMAIN sock : j # n /\ sock[j].ws_fd # NoFd /\ sock[j].ws_fd \in ready
                                 => sock[j].ws_fd \in ready'
        /\ FdOwnership' /\ NoOrphanPeer'
    BY <1>inv, <2>1, <2>2, CloseSlotKeeps
  <2>4. TypeOK'
    BY <1>inv, <1>len, <2>1, <2>3 DEF TypeOK
  <2>5. StillReady'
    BY <1>inv, <1>len, <2>1, <2>3 DEF StillReady, Unserved, TypeOK, NoFd
  <2> QED
    BY <1>inv, <2>1, <2>3, <2>4, <2>5 DEF IInv, TurnHasSlot, ListenerOpen
<1>PingFails. CASE PingFails
  <2>1. /\ UNCHANGED <<read_fds, shutdown_requested>>
        /\ pc = "ping" /\ pc' = "slot" /\ n' = n + 1 /\ n \in DOMAIN sock
    BY <1>inv, <1>PingFails DEF PingFails, NextSlot, TurnHasSlot
  <2>2. CloseSlot({}, sock[n].silent) /\ sock[n].silent \in BOOLEAN
    BY <1>PingFails, <1>slot, <2>1 DEF PingFails, Slot
  <2>3. /\ sock' \in Seq(Slot) /\ DOMAIN sock' = DOMAIN sock
        /\ \A j \in DOMAIN sock : j # n => sock'[j] = sock[j]
        /\ open' \subseteq Fd /\ ready' \subseteq open' /\ broken' \subseteq open'
        /\ listen_fd \in open => listen_fd \in open'
        /\ \A j \in DOMAIN sock : j # n /\ sock[j].ws_fd # NoFd /\ sock[j].ws_fd \in ready
                                 => sock[j].ws_fd \in ready'
        /\ FdOwnership' /\ NoOrphanPeer'
    BY <1>inv, <2>1, <2>2, CloseSlotKeeps
  <2>4. TypeOK'
    BY <1>inv, <1>len, <2>1, <2>3 DEF TypeOK
  <2>5. StillReady'
    BY <1>inv, <1>len, <2>1, <2>3 DEF StillReady, Unserved, TypeOK, NoFd
  <2> QED
    BY <1>inv, <2>1, <2>3, <2>4, <2>5 DEF IInv, TurnHasSlot, ListenerOpen
<1>WsDataStays. CASE WsDataStays
  <2>1. /\ UNCHANGED <<open, broken, read_fds, n, shutdown_requested>>
        /\ pc = "slot" /\ pc' = "peer" /\ n \in DOMAIN sock /\ sock[n].ws_fd # NoFd
        /\ ready' \in {ready, ready \ {sock[n].ws_fd}}
    BY <1>WsDataStays DEF WsDataStays, WsReady, ClientTurn, ReadFrom
  <2>2. PICK st \in AfterRead(sock[n].state) :
          sock' = [sock EXCEPT ![n].state = st, ![n].silent = FALSE]
    BY <1>WsDataStays DEF WsDataStays
  <2> DEFINE s == [sock[n] EXCEPT !.state = st, !.silent = FALSE]
  <2>3. sock' = [sock EXCEPT ![n] = s]
    BY <2>1, <2>2
  <2>4. /\ s \in Slot /\ s.ws_fd = sock[n].ws_fd /\ s.peer_fd = sock[n].peer_fd
        /\ s.state = "open" <=> sock[n].state = "open"
        /\ s.state = "closed" <=> sock[n].state = "closed"
    BY <1>slot, <2>1, <2>2 DEF AfterRead, Slot, States
  <2> HIDE DEF s
  <2>5. /\ FdsOf(s) = FdsOf(sock[n])
        /\ \A j \in DOMAIN sock : FdsOf(sock[j]) \subseteq open' \ {listen_fd}
        /\ \A j \in DOMAIN sock : j # n => FdsOf(s) \cap FdsOf(sock[j]) = {}
        /\ s.ws_fd # NoFd => s.ws_fd # s.peer_fd
        /\ s.peer_fd # NoFd <=> s.state = "open"
        /\ s.state = "closed" => s.ws_fd = NoFd
        /\ s.ws_fd = NoFd => s.peer_fd = NoFd
    BY <1>inv, <2>1, <2>4 DEF FdOwnership, NoOrphanPeer, FdsOf
  <2>6. /\ sock' \in Seq(Slot) /\ DOMAIN sock' = DOMAIN sock /\ Len(sock') = Len(sock)
        /\ sock'[n] = s /\ \A j \in DOMAIN sock : j # n => sock'[j] = sock[j]
        /\ FdOwnership' /\ NoOrphanPeer'
    BY <1>inv, <2>1, <2>3, <2>4, <2>5, ReplaceSlot
  <2>7. TypeOK'
    BY <1>inv, <2>1, <2>6 DEF TypeOK
  <2>8. ASSUME NEW j \in DOMAIN sock, j > n, sock[j].ws_fd \in read_fds
        PROVE  sock[j].ws_fd \in ready'
    <3>1. sock[j].ws_fd \in ready /\ sock[j].ws_fd # NoFd /\ j # n
      BY <1>inv, <1>len, <2>1, <2>8 DEF StillReady, Unserved, TypeOK, NoFd
    <3>2. sock[j].ws_fd # sock[n].ws_fd
      BY <1>inv, <2>1, <3>1 DEF FdOwnership, FdsOf
    <3> QED
      BY <2>1, <3>1, <3>2
  <2>9. StillReady'
    BY <1>len, <2>1, <2>6, <2>8 DEF StillReady, Unserved
  <2> QED
    BY <1>inv, <2>1, <2>6, <2>7, <2>9 DEF IInv, TurnHasSlot, ListenerOpen
<1>WsDataUpgrades. CASE WsDataUpgrades
  <2>1. /\ UNCHANGED <<broken, read_fds, n, shutdown_requested>>
        /\ pc = "slot" /\ pc' = "peer" /\ n \in DOMAIN sock /\ sock[n].ws_fd # NoFd
        /\ ready' \in {ready, ready \ {sock[n].ws_fd}}
        /\ sock[n].state \in {"new", "http"}
    BY <1>WsDataUpgrades DEF WsDataUpgrades, WsReady, ClientTurn, ReadFrom
  <2>2. PICK f \in Fd \ open : \E leaked \in SUBSET (Fd \ open) :
          /\ sock' = [sock EXCEPT ![n].peer_fd = f, ![n].state = "open", ![n].silent = FALSE]
          /\ open' = open \cup leaked \cup {f}
    BY <1>WsDataUpgrades DEF WsDataUpgrades
  <2> DEFINE s == [sock[n] EXCEPT !.peer_fd = f, !.state = "open", !.silent = FALSE]
  <2>3. sock' = [sock EXCEPT ![n] = s]
    BY <2>1, <2>2
  <2>4. /\ s \in Slot /\ s.ws_fd = sock[n].ws_fd /\ s.peer_fd = f /\ s.state = "open"
        /\ f # NoFd
    BY <1>slot, <2>1, <2>2 DEF Slot, States, NoFd
  <2> HIDE DEF s
  <2>10. open \subseteq open' /\ open' \subseteq Fd /\ f \in open'
    BY <1>inv, <2>2 DEF TypeOK
  <2>11. listen_fd \in open
    BY <1>inv, <2>1 DEF ListenerOpen
  <2>5. /\ FdsOf(s) \subseteq open' \ {listen_fd}
        /\ \A j \in DOMAIN sock : FdsOf(sock[j]) \subseteq open'
        /\ \A j \in DOMAIN sock : j # n => FdsOf(s) \cap FdsOf(sock[j]) = {}
        /\ s.ws_fd # s.peer_fd
        /\ s.peer_fd # NoFd <=> s.state = "open"
        /\ s.state = "closed" => s.ws_fd = NoFd
        /\ s.ws_fd = NoFd => s.peer_fd = NoFd
    BY <1>inv, <2>1, <2>2, <2>4, <2>10, <2>11 DEF FdOwnership, FdsOf
  <2>6. /\ sock' \in Seq(Slot) /\ DOMAIN sock' = DOMAIN sock /\ Len(sock') = Len(sock)
        /\ sock'[n] = s /\ \A j \in DOMAIN sock : j # n => sock'[j] = sock[j]
        /\ FdOwnership' /\ NoOrphanPeer'
    BY <1>inv, <2>1, <2>3, <2>4, <2>5, ReplaceSlot
  <2>7. TypeOK'
    BY <1>inv, <2>10, <2>1, <2>6 DEF TypeOK
  <2>8. ASSUME NEW j \in DOMAIN sock, j > n, sock[j].ws_fd \in read_fds
        PROVE  sock[j].ws_fd \in ready'
    <3>1. sock[j].ws_fd \in ready /\ sock[j].ws_fd # NoFd /\ j # n
      BY <1>inv, <1>len, <2>1, <2>8 DEF StillReady, Unserved, TypeOK, NoFd
    <3>2. sock[j].ws_fd # sock[n].ws_fd
      BY <1>inv, <2>1, <3>1 DEF FdOwnership, FdsOf
    <3> QED
      BY <2>1, <3>1, <3>2
  <2>9. StillReady'
    BY <1>len, <2>1, <2>6, <2>8 DEF StillReady, Unserved
  <2> QED
    BY <1>inv, <2>1, <2>6, <2>7, <2>9, <2>10 DEF IInv, TurnHasSlot, ListenerOpen
<1>PeerDataForwarded. CASE PeerDataForwarded
  <2>1. /\ UNCHANGED <<sock, open, broken, read_fds, n, shutdown_requested>>
        /\ pc = "peer" /\ pc' = "ping" /\ n \in DOMAIN sock /\ sock[n].peer_fd # NoFd
        /\ ready' \in {ready, ready \ {sock[n].peer_fd}}
    BY <1>inv, <1>PeerDataForwarded DEF PeerDataForwarded, PeerTurn, ReadFrom, TurnHasSlot
  <2>2. FdOwnership' /\ NoOrphanPeer'
    BY <1>inv, <2>1, SameTable
  <2>3. TypeOK'
    BY <1>inv, <2>1 DEF TypeOK
  <2>4. ASSUME NEW j \in DOMAIN sock, j > n, sock[j].ws_fd \in read_fds
        PROVE  sock[j].ws_fd \in ready'
    <3>1. sock[j].ws_fd \in ready /\ sock[j].ws_fd # NoFd /\ j # n
      BY <1>inv, <1>len, <2>1, <2>4 DEF StillReady, Unserved, TypeOK, NoFd
    <3>2. sock[j].ws_fd # sock[n].peer_fd
      BY <1>inv, <2>1, <3>1 DEF FdOwnership, FdsOf
    <3> QED
      BY <2>1, <3>1, <3>2
  <2>5. StillReady'
    BY <1>len, <2>1, <2>4 DEF StillReady, Unserved
  <2> QED
    BY <1>inv, <2>1, <2>2, <2>3, <2>5 DEF IInv, TurnHasSlot, ListenerOpen
<1>Cleanup. CASE Cleanup
  <2>1. /\ UNCHANGED <<read_fds, n, shutdown_requested>> /\ pc' = "done"
        /\ sock' = <<>> /\ open' \subseteq open /\ ready' = {} /\ broken' = {}
    BY <1>Cleanup DEF Cleanup
  <2>2. sock' \in Seq(Slot) /\ DOMAIN sock' = {}
    BY <2>1, EmptySeq, LenProperties
  <2>3. open' \subseteq Fd /\ ready' \subseteq open' /\ broken' \subseteq open'
    BY <1>inv, <2>1 DEF TypeOK
  <2>4. TypeOK'
    BY <1>inv, <2>1, <2>2, <2>3 DEF TypeOK
  <2> QED
    BY <2>1, <2>2, <2>4 DEF IInv, FdOwnership, NoOrphanPeer, TurnHasSlot, ListenerOpen,
                            StillReady, Unserved
<1>Signal. CASE Signal
  <2>1. /\ UNCHANGED <<sock, open, ready, broken, n>> /\ pc # "done"
        /\ \/ pc' = pc /\ read_fds' = read_fds
           \/ pc' = "cleanup" /\ read_fds' = {}
    BY <1>Signal DEF Signal, kernel
  <2>2. FdOwnership' /\ NoOrphanPeer'
    BY <1>inv, <2>1, SameTable
  <2>3. shutdown_requested' \in BOOLEAN
    BY <1>Signal DEF Signal
  <2>4. TypeOK'
    BY <1>inv, <2>1, <2>3 DEF TypeOK
  <2>5. StillReady'
    BY <1>inv, <2>1 DEF StillReady, Unserved
  <2> QED
    BY <1>inv, <2>1, <2>2, <2>4, <2>5 DEF IInv, TurnHasSlot, ListenerOpen
<1> QED
  BY <1>stutter, <1>TestLoop, <1>EnterSelect, <1>SelectReturns, <1>AcceptClient, <1>AcceptFails, <1>NoAccept, <1>EndOfPass, <1>SkipSlot, <1>WsIdle, <1>PeerIdle, <1>NoPing, <1>SendPing,
     <1>PeerDataSendFails, <1>Finished, <1>Arrive, <1>WsDataCloses, <1>PeerDataCloses, <1>PingFails, <1>WsDataStays, <1>WsDataUpgrades, <1>PeerDataForwarded, <1>Cleanup, <1>Signal DEF Next, Step

(* The inductive invariant of the loop: registry, kernel and main() agree.     *)
THEOREM InvariantHolds == Spec => []IInv
<1>1. Init => IInv
  BY InitIInv
<1>2. IInv /\ [Next]_vars => IInv'
  BY NextIInv
<1> QED
  BY <1>1, <1>2, PTL DEF Spec

(* The loop and the kernel's tables stay what main() takes them for.          *)
THEOREM TypeCorrect == Spec => []TypeOK
<1>1. IInv => TypeOK
  BY DEF IInv
<1> QED
  BY <1>1, InvariantHolds, PTL

(* Whatever is closed and handed out again within a pass, no two connections  *)
(* share a descriptor, and none uses one that is closed.                      *)
THEOREM DescriptorsOwned == Spec => []FdOwnership
<1>1. IInv => FdOwnership
  BY DEF IInv
<1> QED
  BY <1>1, InvariantHolds, PTL

(* A peer is connected exactly while its client is, and upgraded.             *)
THEOREM PeersHaveClients == Spec => []NoOrphanPeer
<1>1. IInv => NoOrphanPeer
  BY DEF IInv
<1> QED
  BY <1>1, InvariantHolds, PTL

(* The blocking client sockets are read only when there is something to read. *)
THEOREM ReadsDoNotBlock == Spec => []ClientReadNeverBlocks
<1>1. IInv => ClientReadNeverBlocks
  <2> SUFFICES ASSUME IInv, pc = "slot", n \in DOMAIN sock,
                      NEW i \in n .. Len(sock), sock[i].ws_fd \in read_fds
               PROVE  sock[i].ws_fd \in ready
    BY DEF ClientReadNeverBlocks
  <2>1. DOMAIN sock = 1 .. Len(sock) /\ Len(sock) \in Nat
    BY LenProperties DEF IInv, TypeOK
  <2>2. i \in DOMAIN sock /\ i >= n
    BY <2>1
  <2> QED
    BY <2>2 DEF IInv, StillReady, Unserved
<1> QED
  BY <1>1, InvariantHolds, PTL

-----------------------------------------------------------------------------
(* No descriptor is lost: what is open is what the registry and main() hold.  *)

(* What is held after one slot has been assigned to.                          *)
LEMMA HeldAfterReplace ==
  ASSUME TypeOK, FdOwnership, NEW i \in DOMAIN sock, NEW s \in Slot,
         sock' = [sock EXCEPT ![i] = s]
  PROVE  Held' = (Held \ FdsOf(sock[i])) \cup FdsOf(s)
<1>1. /\ DOMAIN sock' = DOMAIN sock /\ sock'[i] = s
      /\ \A j \in DOMAIN sock : j # i => sock'[j] = sock[j]
  BY ReplaceElement DEF TypeOK
<1>2. ASSUME NEW f PROVE f \in Held' <=> f \in (Held \ FdsOf(sock[i])) \cup FdsOf(s)
  <2>1. f \in Held' <=> \E j \in DOMAIN sock' : f \in FdsOf(sock'[j])
    BY DEF Held
  <2>2. f \in Held <=> \E j \in DOMAIN sock : f \in FdsOf(sock[j])
    BY DEF Held
  <2>3. \A j \in DOMAIN sock : j # i => (f \in FdsOf(sock[j]) => f \notin FdsOf(sock[i]))
    BY DEF FdOwnership
  <2> QED
    BY <1>1, <2>1, <2>2, <2>3
<1> QED
  BY <1>2

(* What is held after client_register.                                        *)
LEMMA HeldAfterRegister ==
  ASSUME TypeOK, FdOwnership, NoOrphanPeer, NEW s \in Slot, Register(s)
  PROVE  Held' = Held \cup FdsOf(s)
<1>1. CASE \E i \in DOMAIN sock : sock[i].ws_fd = NoFd /\ sock' = [sock EXCEPT ![i] = s]
  <2> PICK i \in DOMAIN sock : sock[i].ws_fd = NoFd /\ sock' = [sock EXCEPT ![i] = s]
    BY <1>1
  <2>1. FdsOf(sock[i]) = {}
    BY DEF NoOrphanPeer, FdsOf
  <2>2. Held' = (Held \ FdsOf(sock[i])) \cup FdsOf(s)
    BY HeldAfterReplace
  <2> QED
    BY <2>1, <2>2
<1>2. CASE sock' = Append(sock, s)
  <2> DEFINE k == Len(sock) + 1
  <2>1. /\ DOMAIN sock' = DOMAIN sock \cup {k} /\ k \notin DOMAIN sock /\ sock'[k] = s
        /\ \A j \in DOMAIN sock : sock'[j] = sock[j]
    BY <1>2, AppendElement DEF TypeOK
  <2> HIDE DEF k
  <2>2. ASSUME NEW f PROVE f \in Held' <=> f \in Held \cup FdsOf(s)
    <3>1. f \in Held' <=> \E j \in DOMAIN sock' : f \in FdsOf(sock'[j])
      BY DEF Held
    <3>2. f \in Held <=> \E j \in DOMAIN sock : f \in FdsOf(sock[j])
      BY DEF Held
    <3> QED
      BY <2>1, <3>1, <3>2
  <2> QED
    BY <2>2
<1> QED
  BY <1>1, <1>2 DEF Register

(* Every step of a loop without pipelining clients keeps open what it holds.   *)
LEMMA NextNoLeak ==
  ASSUME ~Pipelined, IInv, NoLeakedFd, [Next]_vars
  PROVE  NoLeakedFd'
<1>inv. /\ TypeOK /\ FdOwnership /\ NoOrphanPeer /\ TurnHasSlot /\ ListenerOpen
  BY DEF IInv
<1>len. DOMAIN sock = 1 .. Len(sock)
  BY <1>inv, LenProperties DEF TypeOK
<1>slot. \A i \in DOMAIN sock : sock[i] \in Slot
  BY <1>inv, <1>len, ElementOfSeq DEF TypeOK
<1>still. CASE UNCHANGED <<sock, open, pc>>
  BY <1>still DEF NoLeakedFd, Held, FdsOf
<1>moves. CASE UNCHANGED <<sock, open>> /\ pc # "done" /\ pc' # "done"
  BY <1>moves DEF NoLeakedFd, Held, FdsOf
<1>closes. CASE /\ pc # "done" /\ pc' # "done" /\ n \in DOMAIN sock
                /\ \E quiet \in BOOLEAN : CloseSlot({}, quiet)
  <2> PICK quiet \in BOOLEAN : CloseSlot({}, quiet)
    BY <1>closes
  <2> DEFINE s == [ClosedSlot(sock[n]) EXCEPT !.silent = quiet]
  <2>1. s \in Slot /\ FdsOf(s) = {}
    BY <1>slot, <1>closes DEF ClosedSlot, FdsOf, Slot, States
  <2>2. sock' = [sock EXCEPT ![n] = s] /\ open' = open \ FdsOf(sock[n])
    BY DEF CloseSlot
  <2> HIDE DEF s
  <2>3. Held' = Held \ FdsOf(sock[n])
    BY <1>inv, <1>closes, <2>1, <2>2, HeldAfterReplace
  <2>4. listen_fd \notin FdsOf(sock[n])
    BY <1>inv, <1>closes DEF FdOwnership
  <2> QED
    BY <1>closes, <2>2, <2>3, <2>4 DEF NoLeakedFd
<1>registers. CASE /\ pc # "done" /\ pc' # "done"
                   /\ \E f \in Fd \cup {NoFd} :
                        Register(NewSlot(f)) /\ open' = open \cup ({f} \ {NoFd})
  <2> PICK f \in Fd \cup {NoFd} : Register(NewSlot(f)) /\ open' = open \cup ({f} \ {NoFd})
    BY <1>registers
  <2>1. NewSlot(f) \in Slot /\ FdsOf(NewSlot(f)) = {f} \ {NoFd}
    BY DEF NewSlot, FdsOf, Slot, States
  <2>2. Held' = Held \cup ({f} \ {NoFd})
    BY <1>inv, <2>1, HeldAfterRegister
  <2> QED
    BY <1>registers, <2>2 DEF NoLeakedFd
<1>SelectReturns. CASE SelectReturns
  <2>1. PICK quiet : sock' = [i \in DOMAIN sock |->
                               [sock[i] EXCEPT !.silent = i \in InUse /\ (@ \/ i \in quiet)]]
    BY <1>SelectReturns DEF SelectReturns
  <2>2. DOMAIN sock' = DOMAIN sock
    BY <2>1
  <2>3. ASSUME NEW i \in DOMAIN sock PROVE FdsOf(sock'[i]) = FdsOf(sock[i])
    BY <1>slot, <2>1, <2>3 DEF Slot, FdsOf
  <2>4. Held' = Held
    BY <2>2, <2>3 DEF Held
  <2> QED
    BY <1>SelectReturns, <2>4 DEF NoLeakedFd, SelectReturns, kernel
<1>WsDataUpgrades. CASE WsDataUpgrades
  <2>1. PICK f \in Fd \ open :
          /\ sock' = [sock EXCEPT ![n].peer_fd = f, ![n].state = "open", ![n].silent = FALSE]
          /\ open' = open \cup {f}
    BY <1>WsDataUpgrades DEF WsDataUpgrades
  <2>2. /\ n \in DOMAIN sock /\ pc # "done" /\ pc' # "done"
        /\ sock[n].state \in {"new", "http"} /\ sock[n].ws_fd # NoFd
    BY <1>WsDataUpgrades DEF WsDataUpgrades, WsReady, ClientTurn
  <2> DEFINE s == [sock[n] EXCEPT !.peer_fd = f, !.state = "open", !.silent = FALSE]
  <2>3. sock' = [sock EXCEPT ![n] = s]
    BY <2>1, <2>2
  <2>4. s \in Slot /\ FdsOf(s) = FdsOf(sock[n]) \cup {f}
    BY <1>slot, <1>inv, <2>1, <2>2, FdAssumption
    DEF NoOrphanPeer, FdsOf, Slot, States, NoFd, FdAssumption
  <2> HIDE DEF s
  <2>5. Held' = (Held \ FdsOf(sock[n])) \cup FdsOf(s)
    BY <1>inv, <2>2, <2>3, <2>4, HeldAfterReplace
  <2>6. FdsOf(sock[n]) \subseteq Held
    BY <2>2 DEF Held
  <2> QED
    BY <2>1, <2>2, <2>4, <2>5, <2>6 DEF NoLeakedFd
<1>WsDataCloses. CASE WsDataCloses
  <2>1. CloseSlot({}, FALSE) /\ n \in DOMAIN sock /\ pc # "done" /\ pc' # "done"
    BY <1>WsDataCloses DEF WsDataCloses, WsReady, ClientTurn
  <2> QED
    BY <1>closes, <2>1
<1>PeerDataCloses. CASE PeerDataCloses
  <2>1. n \in DOMAIN sock /\ CloseSlot({}, sock[n].silent) /\ pc # "done" /\ pc' # "done"
    BY <1>inv, <1>PeerDataCloses DEF PeerDataCloses, PeerTurn, TurnHasSlot
  <2>2. sock[n].silent \in BOOLEAN
    BY <1>slot, <2>1 DEF Slot
  <2> QED
    BY <1>closes, <2>1, <2>2
<1>PingFails. CASE PingFails
  <2>1. n \in DOMAIN sock /\ CloseSlot({}, sock[n].silent) /\ pc # "done" /\ pc' # "done"
    BY <1>inv, <1>PingFails DEF PingFails, NextSlot, TurnHasSlot
  <2>2. sock[n].silent \in BOOLEAN
    BY <1>slot, <2>1 DEF Slot
  <2> QED
    BY <1>closes, <2>1, <2>2
<1>AcceptClient. CASE AcceptClient
  <2>1. PICK f \in Fd : Register(NewSlot(f)) /\ open' = open \cup {f}
    BY <1>AcceptClient DEF AcceptClient
  <2>2. f # NoFd
    BY FdAssumption DEF FdAssumption, NoFd
  <2> QED
    BY <1>registers, <1>AcceptClient, <2>1, <2>2 DEF AcceptClient
<1>AcceptFails. CASE AcceptFails
  BY <1>registers, <1>AcceptFails DEF AcceptFails
<1>Cleanup. CASE Cleanup
  <2>1. sock' = <<>> /\ open' = (open \ Held) \ {listen_fd} /\ pc = "cleanup" /\ pc' = "done"
    BY <1>Cleanup DEF Cleanup
  <2> QED
    BY <2>1 DEF NoLeakedFd
<1>WsDataStays. CASE WsDataStays
  <2>1. PICK st \in AfterRead(sock[n].state) :
          sock' = [sock EXCEPT ![n].state = st, ![n].silent = FALSE]
    BY <1>WsDataStays DEF WsDataStays
  <2>2. n \in DOMAIN sock /\ open' = open /\ pc # "done" /\ pc' # "done"
    BY <1>WsDataStays DEF WsDataStays, WsReady, ClientTurn
  <2> DEFINE s == [sock[n] EXCEPT !.state = st, !.silent = FALSE]
  <2>3. sock' = [sock EXCEPT ![n] = s]
    BY <2>1, <2>2
  <2>4. s \in Slot /\ FdsOf(s) = FdsOf(sock[n])
    BY <1>slot, <2>1, <2>2 DEF AfterRead, FdsOf, Slot, States
  <2> HIDE DEF s
  <2>5. Held' = (Held \ FdsOf(sock[n])) \cup FdsOf(sock[n])
    BY <1>inv, <2>2, <2>3, <2>4, HeldAfterReplace
  <2>6. FdsOf(sock[n]) \subseteq Held
    BY <2>2 DEF Held
  <2> QED
    BY <2>2, <2>5, <2>6 DEF NoLeakedFd
<1>others. CASE \/ TestLoop \/ EnterSelect \/ NoAccept \/ EndOfPass \/ SkipSlot \/ WsIdle
                \/ PeerIdle \/ PeerDataForwarded \/ PeerDataSendFails \/ NoPing \/ SendPing
                \/ Signal
  BY <1>moves, <1>others
  DEF TestLoop, EnterSelect, NoAccept, EndOfPass, SkipSlot, WsIdle, ClientTurn, PeerIdle,
      PeerDataForwarded, PeerDataSendFails, PeerTurn, NoPing, SendPing, Signal, NextSlot,
      LeavePass, kernel
<1>idle. CASE Arrive \/ Finished \/ UNCHANGED vars
  BY <1>still, <1>idle DEF Arrive, Finished, vars
<1> QED
  BY <1>SelectReturns, <1>WsDataUpgrades, <1>WsDataCloses, <1>PeerDataCloses, <1>PingFails,
     <1>AcceptClient, <1>AcceptFails, <1>Cleanup, <1>WsDataStays, <1>others, <1>idle
  DEF Next, Step

(* If clients wait for the answer to their request, no descriptor is ever     *)
(* lost, and none is open when the program ends.                              *)
THEOREM NothingLeaks == ASSUME ~Pipelined PROVE Spec => []NoLeakedFd
<1>1. Init => NoLeakedFd
  BY DEF Init, NoLeakedFd, Held
<1>2. IInv /\ NoLeakedFd /\ [Next]_vars => NoLeakedFd'
  BY NextNoLeak
<1> QED
  BY <1>1, <1>2, InvariantHolds, PTL DEF Spec

-----------------------------------------------------------------------------
(* A step that adds a slot is one of client_register: it found none free, and *)
(* adds no more than that one.                                                *)
LEMMA NextReuses ==
  ASSUME IInv, [Next]_vars, Len(sock') > Len(sock)
  PROVE  /\ \A i \in DOMAIN sock : sock[i].ws_fd # NoFd
         /\ Len(sock') = Len(sock) + 1
<1>1. sock \in Seq(Slot) /\ sock' \in Seq(Slot)
  BY NextIInv DEF IInv, TypeOK
<1>2. /\ DOMAIN sock = 1 .. Len(sock) /\ Len(sock) \in Nat
      /\ DOMAIN sock' = 1 .. Len(sock') /\ Len(sock') \in Nat
  BY <1>1, LenProperties
<1>3. DOMAIN sock' # DOMAIN sock
  <2>1. Len(sock') \in 1 .. Len(sock') /\ Len(sock') \notin 1 .. Len(sock)
    BY <1>2
  <2> QED
    BY <1>2, <2>1
<1>4. ASSUME NEW slot, Register(slot)
      PROVE  /\ \A i \in DOMAIN sock : sock[i].ws_fd # NoFd
             /\ Len(sock') = Len(sock) + 1
  <2>1. /\ \A i \in DOMAIN sock : sock[i].ws_fd # NoFd
        /\ sock' = Append(sock, slot)
    BY <1>3, <1>4 DEF Register
  <2> QED
    BY <1>1, <2>1
<1>5. CASE AcceptClient \/ AcceptFails
  BY <1>4, <1>5 DEF AcceptClient, AcceptFails
<1>6. CASE SelectReturns \/ WsDataStays \/ WsDataUpgrades
  BY <1>3, <1>6 DEF SelectReturns, WsDataStays, WsDataUpgrades
<1>7. CASE WsDataCloses \/ PeerDataCloses \/ PingFails
  BY <1>3, <1>7 DEF WsDataCloses, PeerDataCloses, PingFails, CloseSlot
<1>8. CASE Cleanup
  <2>1. Len(sock') = 0
    BY <1>8 DEF Cleanup
  <2> QED
    BY <1>2, <2>1
<1>9. CASE UNCHANGED sock
  BY <1>3, <1>9
<1> QED
  BY <1>5, <1>6, <1>7, <1>8, <1>9
  DEF Next, Step, vars, TestLoop, EnterSelect, NoAccept, EndOfPass, SkipSlot, WsIdle, PeerIdle,
      PeerDataForwarded, PeerDataSendFails, NoPing, SendPing, Finished, Arrive, Signal, kernel

(* Clients own their descriptors, and none owns the listener's: when every    *)
(* slot is in use there are fewer slots than descriptors.                     *)
LEMMA ClientsFit ==
  ASSUME IInv, \A i \in DOMAIN sock : sock[i].ws_fd # NoFd
  PROVE  Len(sock) < Cardinality(Fd)
<1> DEFINE others == Fd \ {listen_fd}
           S == 1 .. Len(sock)
           fd == [i \in S |-> sock[i].ws_fd]
<1>1. sock \in Seq(Slot) /\ DOMAIN sock = S /\ Len(sock) \in Nat
  BY LenProperties DEF IInv, TypeOK
<1>2. \A i \in S : sock[i].ws_fd \in FdsOf(sock[i])
  BY <1>1 DEF FdsOf
<1>3. fd \in [S -> others]
  <2>1. \A i \in S : FdsOf(sock[i]) \subseteq open \ {listen_fd}
    BY <1>1 DEF IInv, FdOwnership
  <2>2. open \subseteq Fd
    BY DEF IInv, TypeOK
  <2> QED
    BY <1>2, <2>1, <2>2
<1>4. \A i, j \in S : i # j => fd[i] # fd[j]
  BY <1>1, <1>2 DEF IInv, FdOwnership
<1>5. /\ IsFiniteSet(others) /\ Cardinality(others) = Cardinality(Fd) - 1
      /\ Cardinality(Fd) \in Nat /\ Cardinality(others) \in Nat
  <2>1. IsFiniteSet(Fd) /\ listen_fd \in Fd
    BY FdAssumption DEF FdAssumption
  <2>2. IsFiniteSet(others) /\ Cardinality(others) = Cardinality(Fd) - 1
    BY <2>1, FS_RemoveElement
  <2> QED
    BY <2>1, <2>2, FS_CardinalityType
<1>6. IsFiniteSet(S) /\ Cardinality(S) = Len(sock)
  <2>1. /\ IsFiniteSet(1 .. Len(sock))
        /\ Cardinality(1 .. Len(sock)) = IF 1 > Len(sock) THEN 0 ELSE Len(sock) - 1 + 1
    BY <1>1, FS_Interval
  <2> QED
    BY <1>1, <2>1
<1> HIDE DEF others, S, fd
<1>7. ~(Cardinality(others) < Cardinality(S))
  BY <1>3, <1>4, <1>5, <1>6, FS_PigeonHole
<1> QED
  BY <1>1, <1>5, <1>6, <1>7

(* However many clients come and go, the registry has no more slots than the  *)
(* process has descriptors.                                                   *)
THEOREM RegistryStaysBounded == Spec => []RegistryBounded
<1>1. Cardinality(Fd) \in Nat
  BY FdAssumption, FS_CardinalityType DEF FdAssumption
<1>2. Init => RegistryBounded
  <2>1. Init => Len(sock) = 0
    BY DEF Init
  <2> QED
    BY <1>1, <2>1 DEF RegistryBounded
<1>3. IInv /\ RegistryBounded /\ [Next]_vars => RegistryBounded'
  <2> SUFFICES ASSUME IInv, RegistryBounded, [Next]_vars
               PROVE  Len(sock') <= Cardinality(Fd)
    BY DEF RegistryBounded
  <2>1. Len(sock) \in Nat /\ Len(sock') \in Nat
    BY NextIInv, LenProperties DEF IInv, TypeOK
  <2>2. CASE Len(sock') > Len(sock)
    <3>1. Len(sock') = Len(sock) + 1 /\ Len(sock) < Cardinality(Fd)
      BY <2>2, NextReuses, ClientsFit
    <3> QED
      BY <1>1, <2>1, <3>1
  <2>3. CASE ~(Len(sock') > Len(sock))
    BY <1>1, <2>1, <2>3 DEF RegistryBounded
  <2> QED
    BY <2>2, <2>3
<1> QED
  BY <1>2, <1>3, InvariantHolds, PTL DEF Spec
=============================================================================
