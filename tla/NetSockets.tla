----------------------------- MODULE NetSockets -----------------------------
(***************************************************************************)
(* The socket table behind the circle_net functions of kernel.cpp: small   *)
(* integer handles for Circle's CSocket objects, with the one-byte peek    *)
(* buffer that lets a poll look at a stream, and the VICE socket layer on  *)
(* top of it (circle_network.cpp).                                         *)
(*                                                                         *)
(* CSocket and the network are external: a connection attempt succeeds or  *)
(* fails, the peer sends bytes and closes.  The bytes of a connection are  *)
(* numbered, so a byte is told from every other of any connection.         *)
(***************************************************************************)
EXTENDS Integers, Sequences

CONSTANTS
  MAX_CIRCLE_SOCKETS,
  MaxConns,     \* bound of the model: CSocket objects created
  MaxBytes,     \* bound of the model: bytes a peer sends on a connection
  None          \* nullptr

ASSUME NetAssumption ==
  /\ MAX_CIRCLE_SOCKETS \in Nat \ {0}
  /\ MaxConns \in Nat
  /\ MaxBytes \in Nat

VARIABLES
  s_Sockets,   \* the table, indexed from 1
  s_Peek,      \* s_PeekValid and s_PeekByte: the byte, or None
  conns,       \* history: how many CSocket objects there have been
  received,    \* history: what the holder of each handle has received with it
  held         \* the handles in a vice_network_socket_t

netVars == << s_Sockets, s_Peek, conns, received, held >>

Handle == 1 .. MAX_CIRCLE_SOCKETS
Byte == [conn : 1 .. MaxConns, seq : 1 .. MaxBytes]

\* A CSocket: whether it is connected, how many bytes have come in and how many
\* Receive has handed out.
CSocket == [conn : 1 .. MaxConns, peer : {"none", "listening", "connected", "closed"},
            arrived : 0 .. MaxBytes, taken : 0 .. MaxBytes]

ASSUME NoneAssumption == None \notin CSocket /\ None \notin Byte

NetTypeOK ==
  /\ s_Sockets \in [Handle -> CSocket \union {None}]
  /\ s_Peek \in [Handle -> Byte \union {None}]
  /\ conns \in 0 .. MaxConns
  /\ received \in [Handle -> Seq(Byte)]
  /\ held \subseteq Handle

NetInit ==
  /\ s_Sockets = [h \in Handle |-> None]
  /\ s_Peek = [h \in Handle |-> None]
  /\ conns = 0
  /\ received = [h \in Handle |-> << >>]
  /\ held = {}

Free == {h \in Handle : s_Sockets[h] = None}
FirstOf(set, h) == h \in set /\ \A other \in set : h <= other
NewSocket(peer) == [conn |-> conns + 1, peer |-> peer, arrived |-> 0, taken |-> 0]
SocketCreated == conns < MaxConns /\ conns' = conns + 1

-----------------------------------------------------------------------------
(* kernel.cpp                                                              *)

\* alloc_socket, when there is a free entry: the first is taken.
AllocSocket(h, peer) ==
  /\ FirstOf(Free, h)
  /\ s_Sockets' = [s_Sockets EXCEPT ![h] = NewSocket(peer)]
  /\ received' = [received EXCEPT ![h] = << >>]

\* Mutant of Closed: the peek buffer keeps its byte.
ClosedKeepsPeek(sockets) ==
  /\ s_Sockets' = [h \in Handle |-> IF h \in sockets THEN None ELSE s_Sockets[h]]
  /\ UNCHANGED s_Peek

\* circle_net_close, of each of the handles.
Closed(sockets) ==
  /\ s_Sockets' = [h \in Handle |-> IF h \in sockets THEN None ELSE s_Sockets[h]]
  /\ s_Peek' = [h \in Handle |-> IF h \in sockets THEN None ELSE s_Peek[h]]

\* The bytes that Receive hands out when it is asked for at most n.
Receivable(s, n) ==
  LET count == IF s.arrived - s.taken < n THEN s.arrived - s.taken ELSE n
  IN  [i \in 1 .. count |-> [conn |-> s.conn, seq |-> s.taken + i]]

\* circle_net_recv of at most len bytes: first what a poll has taken.
Recv(h, len) ==
  LET peeked == IF s_Peek[h] = None THEN << >> ELSE << s_Peek[h] >>
      rest   == Receivable(s_Sockets[h], len - Len(peeked))
  IN  /\ s_Sockets[h] # None
      /\ s_Peek' = [s_Peek EXCEPT ![h] = None]
      /\ s_Sockets' = [s_Sockets EXCEPT ![h].taken = @ + Len(rest)]
      /\ received' = [received EXCEPT ![h] = @ \o peeked \o rest]

\* circle_net_can_recv, when it takes a byte: otherwise nothing changes.
CanRecv(h) ==
  /\ s_Sockets[h] # None
  /\ s_Peek[h] = None
  /\ s_Sockets[h].taken < s_Sockets[h].arrived
  /\ s_Peek' = [s_Peek EXCEPT ![h] = Receivable(s_Sockets[h], 1)[1]]
  /\ s_Sockets' = [s_Sockets EXCEPT ![h].taken = @ + 1]

\* circle_net_tcp_connect: the result that the code returns for each outcome.
ConnectResult(peer) == IF peer = "connected" THEN 0 ELSE -1

-----------------------------------------------------------------------------
(* circle_network.cpp, and the network.                                    *)

\* vice_network_server, and vice_network_accept with a connection waiting.
ViceServer ==
  /\ SocketCreated
  /\ \E h \in Handle : AllocSocket(h, "listening") /\ held' = held \union {h}
  /\ UNCHANGED s_Peek

ViceAccept(server) ==
  /\ server \in held
  /\ s_Sockets[server].peer = "listening"
  /\ SocketCreated
  /\ \E h \in Handle : AllocSocket(h, "connected") /\ held' = held \union {h}
  /\ UNCHANGED s_Peek

\* accept, server or client find the table full: the CSocket is deleted.
ViceTableFull ==
  /\ Free = {}
  /\ SocketCreated
  /\ UNCHANGED << s_Sockets, s_Peek, received, held >>

\* vice_network_client: a result of 0 is taken for a failure.
ViceClient(peer) ==
  /\ SocketCreated
  /\ Free # {}
  /\ IF ConnectResult(peer) = 0
       THEN UNCHANGED << s_Sockets, received, held >>
       ELSE \E h \in Handle : AllocSocket(h, peer) /\ held' = held \union {h}
  /\ UNCHANGED s_Peek

\* vice_network_receive.
ViceReceive(h, len) == h \in held /\ Recv(h, len) /\ UNCHANGED << conns, held >>

\* vice_network_select_poll_one and vice_network_select_multiple.
VicePoll(h) == h \in held /\ CanRecv(h) /\ UNCHANGED << conns, received, held >>

\* vice_network_socket_close.
ViceClose(h) ==
  /\ h \in held
  /\ Closed({h})
  /\ held' = held \ {h}
  /\ UNCHANGED << conns, received >>

\* The peer of a connection sends a byte, or closes.
PeerSends(h) ==
  /\ s_Sockets[h] # None
  /\ s_Sockets[h].peer = "connected"
  /\ s_Sockets[h].arrived < MaxBytes
  /\ s_Sockets' = [s_Sockets EXCEPT ![h].arrived = @ + 1]
  /\ UNCHANGED << s_Peek, conns, received, held >>

PeerCloses(h) ==
  /\ s_Sockets[h] # None
  /\ s_Sockets[h].peer = "connected"
  /\ s_Sockets' = [s_Sockets EXCEPT ![h].peer = "closed"]
  /\ UNCHANGED << s_Peek, conns, received, held >>

ViceNet ==
  \/ ViceServer
  \/ ViceTableFull
  \/ \E peer \in {"connected", "none"} : ViceClient(peer)
  \/ \E h \in Handle :
       \/ ViceAccept(h)
       \/ \E len \in 1 .. 2 : ViceReceive(h, len)
       \/ VicePoll(h)
       \/ ViceClose(h)
       \/ PeerSends(h)
       \/ PeerCloses(h)

-----------------------------------------------------------------------------
(* Properties.                                                             *)

\* Whoever holds a handle receives the bytes of its own connection, all of
\* them, once and in order, however polls and receives alternate and whatever
\* connection had the handle before (circle_net_recv, circle_net_can_recv).
StreamInOrder ==
  \A h \in Handle : s_Sockets[h] # None =>
    LET s == s_Sockets[h]
        seen == received[h] \o IF s_Peek[h] = None THEN << >> ELSE << s_Peek[h] >>
    IN  seen = [i \in 1 .. s.taken |-> [conn |-> s.conn, seq |-> i]]
=============================================================================
