---------------------------- MODULE ModemProofs -----------------------------
(***************************************************************************)
(* The socket table and the modem devices agree on who holds what, for any *)
(* number of handles, devices, connections and bytes (Inv); on top of it,  *)
(* every holder's stream is complete and in order (StreamInv).             *)
(***************************************************************************)
EXTENDS Modem, SequenceTheorems, TLAPS

\* Receive never hands out more than has come in.
TakenArrived == \A h \in Handle : s_Sockets[h] # None => s_Sockets[h].taken <= s_Sockets[h].arrived

Inv == TypeOK /\ TakenArrived /\ OneHolderEach /\ PassesToSocket

\* The empty table has no holders.
LEMMA InitInv == Init => Inv
  BY NetAssumption, ModemAssumption
     DEF Init, NetInit, Inv, TypeOK, NetTypeOK, TakenArrived, OneHolderEach, PassesToSocket,
         ModemFd, Unused, NoSock, Fd, Handle

\* What a new entry of the table does to the types.
LEMMA AllocType ==
  ASSUME NetTypeOK, TakenArrived, SocketCreated, UNCHANGED s_Peek,
         NEW h \in Handle, NEW peer \in {"none", "listening", "connected", "closed"},
         AllocSocket(h, peer)
  PROVE  /\ s_Sockets' \in [Handle -> CSocket \union {None}]
         /\ received' \in [Handle -> Seq(Byte)]
         /\ conns' \in 0 .. MaxConns
         /\ TakenArrived'
         /\ s_Sockets[h] = None /\ s_Sockets'[h] # None
         /\ \A g \in Handle \ {h} : s_Sockets'[g] = s_Sockets[g]
<1>1. conns + 1 \in 1 .. MaxConns /\ conns' \in 0 .. MaxConns
  BY NetAssumption DEF NetTypeOK, SocketCreated
<1>2. NewSocket(peer) \in CSocket
  BY <1>1, NetAssumption DEF NewSocket, CSocket
<1>3. NewSocket(peer).taken = 0 /\ NewSocket(peer).arrived = 0
  BY DEF NewSocket
<1>4. NewSocket(peer) # None
  BY <1>2, NoneAssumption
<1>5. s_Sockets' = [s_Sockets EXCEPT ![h] = NewSocket(peer)] /\ s_Sockets[h] = None
  BY DEF AllocSocket, FirstOf, Free
<1>6. s_Sockets \in [Handle -> CSocket \union {None}] /\ received \in [Handle -> Seq(Byte)]
  BY DEF NetTypeOK
<1>7. received' \in [Handle -> Seq(Byte)]
  BY <1>6 DEF AllocSocket
<1>8. TakenArrived'
  BY <1>3, <1>5, <1>6 DEF TakenArrived
<1>9. QED
  BY <1>1, <1>2, <1>4, <1>5, <1>6, <1>7, <1>8

\* A socket that changes stays in its entry.
LEMMA EntryChanges ==
  ASSUME NetTypeOK, NEW h \in Handle, s_Sockets[h] # None, NEW s \in CSocket,
         s_Sockets' = [s_Sockets EXCEPT ![h] = s]
  PROVE  /\ s_Sockets' \in [Handle -> CSocket \union {None}]
         /\ \A g \in Handle : s_Sockets'[g] = None <=> s_Sockets[g] = None
<1>1. s # None
  BY NoneAssumption
<1>2. QED
  BY <1>1 DEF NetTypeOK

\* What circle_net_recv does to the types.
LEMMA RecvType ==
  ASSUME NetTypeOK, TakenArrived, NEW h \in Handle, NEW len \in 1 .. 2, Recv(h, len)
  PROVE  /\ s_Sockets' \in [Handle -> CSocket \union {None}]
         /\ s_Peek' \in [Handle -> Byte \union {None}]
         /\ received' \in [Handle -> Seq(Byte)]
         /\ TakenArrived'
         /\ \A g \in Handle : s_Sockets'[g] = None <=> s_Sockets[g] = None
<1> DEFINE s == s_Sockets[h]
           peeked == IF s_Peek[h] = None THEN << >> ELSE << s_Peek[h] >>
           rest == Receivable(s, len - Len(peeked))
<1>1. s \in CSocket /\ s.taken <= s.arrived /\ s.conn \in 1 .. MaxConns
      /\ s.taken \in 0 .. MaxBytes /\ s.arrived \in 0 .. MaxBytes
  BY DEF NetTypeOK, TakenArrived, Recv, CSocket
<1>2. s_Peek[h] \in Byte \union {None} /\ received[h] \in Seq(Byte)
  BY DEF NetTypeOK
<1>3. peeked \in Seq(Byte) /\ Len(peeked) \in 0 .. 1
  BY <1>2
<1>4. len - Len(peeked) \in 0 .. 2
  BY <1>3
<1>5. rest \in Seq(Byte) /\ Len(rest) \in Nat /\ s.taken + Len(rest) <= s.arrived
  <2> DEFINE n == len - Len(peeked)
             count == IF s.arrived - s.taken < n THEN s.arrived - s.taken ELSE n
  <2>1. count \in Nat /\ s.taken + count <= s.arrived
    BY <1>1, <1>4, NetAssumption
  <2>2. rest = [i \in 1 .. count |-> [conn |-> s.conn, seq |-> s.taken + i]]
    BY DEF Receivable
  <2>3. \A i \in 1 .. count : s.taken + i \in 1 .. MaxBytes
    BY <1>1, <2>1, NetAssumption
  <2>4. \A i \in 1 .. count : [conn |-> s.conn, seq |-> s.taken + i] \in Byte
    BY <1>1, <2>3 DEF Byte
  <2>5. rest \in [1 .. count -> Byte]
    BY <2>2, <2>4
  <2> HIDE DEF rest, count
  <2>6. rest \in Seq(Byte) /\ Len(rest) = count
    BY <2>1, <2>5
  <2>7. QED
    BY <2>1, <2>6
<1>6. s_Sockets' = [s_Sockets EXCEPT ![h].taken = @ + Len(rest)]
      /\ s_Peek' = [s_Peek EXCEPT ![h] = None]
      /\ received' = [received EXCEPT ![h] = @ \o peeked \o rest]
      /\ s # None
  BY DEF Recv
<1> HIDE DEF peeked, rest
<1>7. [s EXCEPT !.taken = @ + Len(rest)] \in CSocket
  BY <1>1, <1>5, NetAssumption DEF CSocket
<1>8. s_Sockets' \in [Handle -> CSocket \union {None}]
  BY <1>6, <1>7 DEF NetTypeOK
<1>9. \A g \in Handle : s_Sockets'[g] = None <=> s_Sockets[g] = None
  BY <1>6, <1>7, NoneAssumption DEF NetTypeOK
<1>10. TakenArrived'
  BY <1>1, <1>5, <1>6 DEF TakenArrived, NetTypeOK, CSocket
<1>11. received' \in [Handle -> Seq(Byte)]
  BY <1>2, <1>3, <1>5, <1>6 DEF NetTypeOK
<1>12. s_Peek' \in [Handle -> Byte \union {None}]
  BY <1>6 DEF NetTypeOK
<1>13. QED
  BY <1>8, <1>9, <1>10, <1>11, <1>12

\* What circle_net_can_recv does to the types.
LEMMA CanRecvType ==
  ASSUME NetTypeOK, TakenArrived, NEW h \in Handle, CanRecv(h)
  PROVE  /\ s_Sockets' \in [Handle -> CSocket \union {None}]
         /\ s_Peek' \in [Handle -> Byte \union {None}]
         /\ TakenArrived'
         /\ \A g \in Handle : s_Sockets'[g] = None <=> s_Sockets[g] = None
<1> DEFINE s == s_Sockets[h]
           next == Receivable(s, 1)[1]
<1>1. s \in CSocket /\ s.taken < s.arrived /\ s.conn \in 1 .. MaxConns
      /\ s.taken \in 0 .. MaxBytes /\ s.arrived \in 0 .. MaxBytes
  BY DEF NetTypeOK, CanRecv, CSocket
<1>2. s_Sockets' = [s_Sockets EXCEPT ![h].taken = @ + 1]
      /\ s_Peek' = [s_Peek EXCEPT ![h] = next]
  BY DEF CanRecv
<1>3. next \in Byte
  <2> DEFINE count == IF s.arrived - s.taken < 1 THEN s.arrived - s.taken ELSE 1
  <2>1. count = 1
    BY <1>1, NetAssumption
  <2>2. next = [i \in 1 .. count |-> [conn |-> s.conn, seq |-> s.taken + i]][1]
    BY DEF Receivable
  <2>3. next = [conn |-> s.conn, seq |-> s.taken + 1]
    BY <2>1, <2>2
  <2>4. s.taken + 1 \in 1 .. MaxBytes
    BY <1>1, NetAssumption
  <2>5. QED
    BY <1>1, <2>3, <2>4 DEF Byte
<1>4. [s EXCEPT !.taken = @ + 1] \in CSocket
  BY <1>1, NetAssumption DEF CSocket
<1> HIDE DEF next
<1>5. s_Sockets' \in [Handle -> CSocket \union {None}]
      /\ \A g \in Handle : s_Sockets'[g] = None <=> s_Sockets[g] = None
  <2> DEFINE t == [s EXCEPT !.taken = @ + 1]
  <2>1. s_Sockets' = [s_Sockets EXCEPT ![h] = t] /\ s # None /\ t \in CSocket
    BY <1>2, <1>4 DEF CanRecv
  <2> HIDE DEF t
  <2>2. QED
    BY <2>1, EntryChanges
<1>6. TakenArrived'
  BY <1>1, <1>2 DEF TakenArrived, NetTypeOK, CSocket
<1>7. s_Peek' \in [Handle -> Byte \union {None}]
  BY <1>2, <1>3 DEF NetTypeOK
<1>8. QED
  BY <1>5, <1>6, <1>7

\* What circle_net_close does to the types.
LEMMA ClosedType ==
  ASSUME NetTypeOK, TakenArrived, NEW sockets \in SUBSET Handle, Closed(sockets)
  PROVE  /\ s_Sockets' \in [Handle -> CSocket \union {None}]
         /\ s_Peek' \in [Handle -> Byte \union {None}]
         /\ TakenArrived'
         /\ \A g \in Handle : s_Sockets'[g] # None <=> s_Sockets[g] # None /\ g \notin sockets
  BY DEF Closed, NetTypeOK, TakenArrived

\* The steps that leave the devices alone.
LEMMA NetStep ==
  ASSUME Inv, ViceNet, UNCHANGED << fds, answer, lines >>
  PROVE  Inv'
<1>1. NetTypeOK /\ TakenArrived
  BY DEF Inv, TypeOK
<1> DEFINE Rest == NetTypeOK' /\ TakenArrived' => TypeOK' /\ TakenArrived' /\ PassesToSocket'
<1>2. Rest
  BY DEF Inv, TypeOK, PassesToSocket
<1> HIDE DEF Rest
<1>3. ASSUME NEW h \in Handle, NEW peer \in {"none", "listening", "connected", "closed"},
             SocketCreated, AllocSocket(h, peer), held' = held \union {h}, UNCHANGED s_Peek
      PROVE  Inv'
  <2>1. /\ s_Sockets' \in [Handle -> CSocket \union {None}]
        /\ received' \in [Handle -> Seq(Byte)]
        /\ conns' \in 0 .. MaxConns
        /\ TakenArrived'
        /\ s_Sockets[h] = None /\ s_Sockets'[h] # None
        /\ \A g \in Handle \ {h} : s_Sockets'[g] = s_Sockets[g]
    BY <1>1, <1>3, AllocType
  <2>2. NetTypeOK'
    BY <1>1, <1>3, <2>1 DEF NetTypeOK
  <2>3. OneHolderEach'
    BY <1>3, <2>1 DEF Inv, TypeOK, OneHolderEach, ModemFd, NoSock, Handle
  <2>4. QED
    BY <1>2, <2>1, <2>2, <2>3 DEF Inv, Rest
<1>4. ASSUME s_Sockets' \in [Handle -> CSocket \union {None}],
             s_Peek' \in [Handle -> Byte \union {None}],
             received' \in [Handle -> Seq(Byte)],
             TakenArrived',
             \A g \in Handle : s_Sockets'[g] = None <=> s_Sockets[g] = None,
             UNCHANGED << conns, held >>
      PROVE  Inv'
  <2>1. NetTypeOK'
    BY <1>1, <1>4 DEF NetTypeOK
  <2>2. OneHolderEach'
    BY <1>4 DEF Inv, OneHolderEach
  <2>3. QED
    BY <1>2, <1>4, <2>1, <2>2 DEF Inv, Rest
<1>5. CASE ViceServer
  BY <1>3, <1>5 DEF ViceServer
<1>6. CASE ViceTableFull
  <2>1. NetTypeOK' /\ TakenArrived' /\ OneHolderEach'
    BY <1>1, <1>6, NetAssumption
       DEF ViceTableFull, SocketCreated, NetTypeOK, TakenArrived, Inv, OneHolderEach
  <2>2. QED
    BY <1>2, <2>1 DEF Inv, Rest
<1>7. ASSUME NEW peer \in {"connected", "none"}, ViceClient(peer)
      PROVE  Inv'
  <2>1. CASE ConnectResult(peer) = 0
    <3>1. NetTypeOK' /\ TakenArrived' /\ OneHolderEach'
      BY <1>1, <1>7, <2>1, NetAssumption
         DEF ViceClient, SocketCreated, NetTypeOK, TakenArrived, Inv, OneHolderEach
    <3>2. QED
      BY <1>2, <3>1 DEF Inv, Rest
  <2>2. CASE ConnectResult(peer) # 0
    BY <1>3, <1>7, <2>2 DEF ViceClient
  <2>3. QED
    BY <2>1, <2>2
<1>8. ASSUME NEW h \in Handle, ViceAccept(h)
      PROVE  Inv'
  BY <1>3, <1>8 DEF ViceAccept
<1>9. ASSUME NEW h \in Handle, NEW len \in 1 .. 2, ViceReceive(h, len)
      PROVE  Inv'
  BY <1>1, <1>4, <1>9, RecvType DEF ViceReceive
<1>10. ASSUME NEW h \in Handle, VicePoll(h)
       PROVE  Inv'
  BY <1>1, <1>4, <1>10, CanRecvType DEF VicePoll, NetTypeOK
<1>11. ASSUME NEW h \in Handle, ViceClose(h)
       PROVE  Inv'
  <2>1. /\ s_Sockets' \in [Handle -> CSocket \union {None}]
        /\ s_Peek' \in [Handle -> Byte \union {None}]
        /\ TakenArrived'
        /\ \A g \in Handle : s_Sockets'[g] # None <=> s_Sockets[g] # None /\ g \notin {h}
    BY <1>1, <1>11, ClosedType DEF ViceClose
  <2>2. NetTypeOK'
    BY <1>1, <1>11, <2>1 DEF NetTypeOK, ViceClose
  <2>3. \A fd \in Fd : fds[fd].sock # h
    BY <1>11 DEF Inv, OneHolderEach, ViceClose, NoSock, Handle
  <2>4. held' = held \ {h} /\ fds' = fds
    BY <1>11 DEF ViceClose
  <2>5. \A g \in Handle : s_Sockets'[g] # None <=> g \in held' \/ \E fd \in Fd : fds'[fd].sock = g
    BY <2>1, <2>3, <2>4 DEF Inv, OneHolderEach
  <2>6. OneHolderEach'
    BY <2>4, <2>5 DEF Inv, OneHolderEach
  <2>7. QED
    BY <1>2, <2>1, <2>2, <2>6 DEF Inv, Rest
<1>12. ASSUME NEW h \in Handle, PeerSends(h)
       PROVE  Inv'
  <2>1. s_Sockets[h] \in CSocket /\ s_Sockets[h].arrived + 1 \in 0 .. MaxBytes
    BY <1>1, <1>12, NetAssumption DEF PeerSends, NetTypeOK, CSocket
  <2>2. [s_Sockets[h] EXCEPT !.arrived = @ + 1] \in CSocket
    BY <2>1 DEF CSocket
  <2>3. s_Sockets' = [s_Sockets EXCEPT ![h].arrived = @ + 1] /\ s_Sockets[h] # None
    BY <1>12 DEF PeerSends
  <2>4. s_Sockets' \in [Handle -> CSocket \union {None}]
        /\ \A g \in Handle : s_Sockets'[g] = None <=> s_Sockets[g] = None
    <3> DEFINE t == [s_Sockets[h] EXCEPT !.arrived = @ + 1]
    <3>1. s_Sockets' = [s_Sockets EXCEPT ![h] = t] /\ t \in CSocket
      BY <2>2, <2>3
    <3> HIDE DEF t
    <3>2. QED
      BY <1>1, <2>3, <3>1, EntryChanges
  <2>5. TakenArrived'
    BY <1>1, <2>1, <2>3 DEF TakenArrived, NetTypeOK, CSocket
  <2>6. QED
    BY <1>1, <1>4, <1>12, <2>4, <2>5 DEF NetTypeOK, PeerSends
<1>13. ASSUME NEW h \in Handle, PeerCloses(h)
       PROVE  Inv'
  <2>1. /\ s_Sockets[h] \in CSocket /\ s_Sockets[h] # None
        /\ s_Sockets' = [s_Sockets EXCEPT ![h].peer = "closed"]
    BY <1>1, <1>13 DEF PeerCloses, NetTypeOK
  <2>2. [s_Sockets[h] EXCEPT !.peer = "closed"] \in CSocket
    BY <2>1 DEF CSocket
  <2>3. s_Sockets' \in [Handle -> CSocket \union {None}]
        /\ \A g \in Handle : s_Sockets'[g] = None <=> s_Sockets[g] = None
    <3> DEFINE t == [s_Sockets[h] EXCEPT !.peer = "closed"]
    <3>1. s_Sockets' = [s_Sockets EXCEPT ![h] = t] /\ t \in CSocket
      BY <2>1, <2>2
    <3> HIDE DEF t
    <3>2. QED
      BY <1>1, <2>1, <3>1, EntryChanges
  <2>4. TakenArrived'
    BY <1>1, <2>1 DEF TakenArrived, NetTypeOK, CSocket
  <2>5. QED
    BY <1>1, <1>4, <1>13, <2>3, <2>4 DEF NetTypeOK, PeerCloses
<1>14. QED
  BY <1>5, <1>6, <1>7, <1>8, <1>9, <1>10, <1>11, <1>12, <1>13 DEF ViceNet

\* A device closes connections of its own: afterwards no device and no vice
\* socket has their handles.
LEMMA DevicesClose ==
  ASSUME Inv, NEW sockets \in SUBSET Handle, Closed(sockets), UNCHANGED << conns, received, held >>,
         fds' \in [Fd -> ModemFd],
         \A fd \in Fd : fds[fd].sock \in sockets =>
           fds[fd].sock # NoSock /\ fds'[fd].sock = NoSock,
         \A fd \in Fd : fds[fd].sock \notin sockets => fds'[fd].sock = fds[fd].sock,
         \A fd \in Fd : fds'[fd].sock # NoSock => fds'[fd].in_use,
         \A h \in sockets : \E fd \in Fd : fds[fd].sock = h
  PROVE  NetTypeOK' /\ TakenArrived' /\ OneHolderEach'
<1>1. NetTypeOK /\ TakenArrived /\ OneHolderEach
  BY DEF Inv, TypeOK
<1>2. /\ s_Sockets' \in [Handle -> CSocket \union {None}]
      /\ s_Peek' \in [Handle -> Byte \union {None}]
      /\ TakenArrived'
      /\ \A g \in Handle : s_Sockets'[g] # None <=> s_Sockets[g] # None /\ g \notin sockets
  BY <1>1, ClosedType
<1>3. NetTypeOK'
  BY <1>1, <1>2 DEF NetTypeOK
<1>4. NoSock \notin Handle
  BY DEF NoSock, Handle
<1>5. \A g \in Handle : s_Sockets'[g] # None <=> g \in held' \/ \E fd \in Fd : fds'[fd].sock = g
  <2> SUFFICES ASSUME NEW g \in Handle
               PROVE  s_Sockets'[g] # None <=> g \in held' \/ \E fd \in Fd : fds'[fd].sock = g
    OBVIOUS
  <2>1. CASE g \in sockets
    <3>1. \A fd \in Fd : fds'[fd].sock # g
      BY <1>4, <2>1
    <3>2. g \notin held'
      BY <1>1, <1>4, <2>1 DEF OneHolderEach
    <3>3. QED
      BY <1>2, <2>1, <3>1, <3>2
  <2>2. CASE g \notin sockets
    <3>1. \A fd \in Fd : fds'[fd].sock = g <=> fds[fd].sock = g
      BY <1>4, <2>2
    <3>2. QED
      BY <1>1, <1>2, <2>2, <3>1 DEF OneHolderEach
  <2>3. QED
    BY <2>1, <2>2
<1>6. \A fd \in Fd : fds'[fd].sock # NoSock => fds'[fd].sock = fds[fd].sock
  OBVIOUS
<1>7. \A fd \in Fd : fds'[fd].sock # NoSock =>
        /\ fds'[fd].in_use
        /\ fds'[fd].sock \notin held'
        /\ \A other \in Fd \ {fd} : fds'[other].sock # fds'[fd].sock
  BY <1>1, <1>6 DEF OneHolderEach
<1>8. OneHolderEach'
  BY <1>5, <1>7 DEF OneHolderEach
<1>9. QED
  BY <1>2, <1>3, <1>8

\* A step of the C64 that changes no connection.
LEMMA SameConnections ==
  ASSUME Inv, UNCHANGED << s_Sockets, s_Peek, received, held, fds >>, conns' \in 0 .. MaxConns,
         answer' \in [Fd -> {"none", "OK", "ERROR", "NO CARRIER", "CONNECT"}],
         lines' \in 0 .. MaxLines
  PROVE  Inv'
  BY DEF Inv, TypeOK, NetTypeOK, TakenArrived, OneHolderEach, PassesToSocket

\* Every step of the devices and of the network preserves the invariant.
LEMMA StepInv == Inv /\ [Next]_vars => Inv'
<1> SUFFICES ASSUME Inv, [Next]_vars
             PROVE  Inv'
  OBVIOUS
<1>1. /\ TypeOK /\ NetTypeOK /\ TakenArrived /\ OneHolderEach /\ PassesToSocket
      /\ fds \in [Fd -> ModemFd]
      /\ conns \in 0 .. MaxConns
  BY DEF Inv, TypeOK, NetTypeOK
<1>2. \A fd \in Fd : ~fds[fd].in_use => fds[fd].sock = NoSock
  BY <1>1 DEF OneHolderEach
<1>3. \A fd \in Fd : fds[fd].sock \in {NoSock} \union Handle
  BY <1>1 DEF ModemFd
<1>4. NoSock \notin Handle
  BY DEF NoSock, Handle
<1>5. CASE ViceNet /\ UNCHANGED << fds, answer, lines >>
  BY <1>5, NetStep
<1>6. CASE ResetFds
  <2> DEFINE sockets == UNION {SockOf(fd) : fd \in {f \in Fd : fds[f].in_use}}
  <2>1. /\ Closed(sockets) /\ fds' = [fd \in Fd |-> Unused]
        /\ UNCHANGED << conns, received, held, answer, lines >>
    BY <1>6 DEF ResetFds
  <2>2. sockets \in SUBSET Handle
        /\ (\A h \in sockets : \E fd \in Fd : fds[fd].sock = h)
    BY <1>3 DEF SockOf
  <2>3. \A fd \in Fd : fds[fd].sock # NoSock => fds[fd].sock \in sockets
    BY <1>2 DEF SockOf
  <2> HIDE DEF sockets
  <2>4. fds' \in [Fd -> ModemFd]
    BY <2>1 DEF ModemFd, Unused
  <2>5. \A fd \in Fd : fds'[fd].sock = NoSock
    BY <2>1 DEF Unused
  <2>6. NetTypeOK' /\ TakenArrived' /\ OneHolderEach'
    BY <1>4, <2>1, <2>2, <2>3, <2>4, <2>5, DevicesClose
  <2>7. TypeOK' /\ PassesToSocket'
    BY <1>1, <2>1, <2>4, <2>6 DEF TypeOK, PassesToSocket, Unused
  <2>8. QED
    BY <2>6, <2>7 DEF Inv
<1>7. ASSUME NEW fd \in Fd, OpenFd(fd)
      PROVE  Inv'
  <2>1. /\ fds' = [fds EXCEPT ![fd] = [Unused EXCEPT !.in_use = TRUE]]
        /\ fds[fd].sock = NoSock
        /\ answer' = [answer EXCEPT ![fd] = "OK"]
        /\ UNCHANGED << netVars, lines >>
    BY <1>2, <1>7 DEF OpenFd, Says, FirstOf
  <2>2. TypeOK'
    BY <1>1, <2>1 DEF TypeOK, NetTypeOK, ModemFd, Unused, netVars
  <2>3. \A f \in Fd : fds'[f].sock = fds[f].sock
    BY <1>1, <2>1 DEF Unused
  <2>4. \A f \in Fd : fds'[f].sock # NoSock => fds'[f].in_use
    BY <1>1, <2>1 DEF Unused, OneHolderEach
  <2>5. TakenArrived' /\ OneHolderEach'
    BY <1>1, <2>1, <2>3, <2>4 DEF TakenArrived, OneHolderEach, netVars
  <2>6. PassesToSocket'
    BY <1>1, <2>1 DEF PassesToSocket, Unused
  <2>7. QED
    BY <2>2, <2>5, <2>6 DEF Inv
<1>8. ASSUME NEW fd \in Fd, fds[fd].in_use, Closed(SockOf(fd)),
             UNCHANGED << conns, received, held >>,
             NEW used \in BOOLEAN, used => fds[fd].state = "COMMAND",
             fds' = [fds EXCEPT ![fd].in_use = used, ![fd].sock = NoSock],
             answer' \in [Fd -> {"none", "OK", "ERROR", "NO CARRIER", "CONNECT"}],
             lines' \in 0 .. MaxLines
      PROVE  Inv'
  <2>1. SockOf(fd) \in SUBSET Handle /\ \A h \in SockOf(fd) : \E f \in Fd : fds[f].sock = h
    BY <1>3 DEF SockOf
  <2>2. fds' \in [Fd -> ModemFd]
    BY <1>1, <1>8 DEF ModemFd
  <2>3. \A f \in Fd : fds[f].sock \in SockOf(fd) => f = fd
    BY <1>1, <1>3 DEF OneHolderEach, SockOf
  <2>4. fds'[fd].sock = NoSock /\ fds'[fd].in_use = used /\ fds'[fd].state = fds[fd].state
    BY <1>1, <1>8 DEF ModemFd
  <2>5. \A f \in Fd \ {fd} : fds'[f] = fds[f]
    BY <1>1, <1>8
  <2>6. \A f \in Fd : fds[f].sock \in SockOf(fd) => fds[f].sock # NoSock /\ fds'[f].sock = NoSock
    BY <2>3, <2>4 DEF SockOf
  <2>7. \A f \in Fd : fds[f].sock \notin SockOf(fd) => fds'[f].sock = fds[f].sock
    BY <2>4, <2>5 DEF SockOf
  <2>8. \A f \in Fd : fds'[f].sock # NoSock => fds'[f].in_use
    BY <1>1, <2>4, <2>5 DEF OneHolderEach
  <2>9. NetTypeOK' /\ TakenArrived' /\ OneHolderEach'
    BY <1>8, <2>1, <2>2, <2>6, <2>7, <2>8, DevicesClose
  <2>10. TypeOK'
    BY <1>1, <1>8, <2>2, <2>9 DEF TypeOK
  <2>11. PassesToSocket'
    BY <1>1, <1>8, <2>4, <2>5 DEF PassesToSocket
  <2>12. QED
    BY <2>9, <2>10, <2>11 DEF Inv
<1>9. ASSUME NEW fd \in Fd, CloseFd(fd)
      PROVE  Inv'
  <2>1. /\ fds[fd].in_use /\ Closed(SockOf(fd)) /\ UNCHANGED << conns, received, held >>
        /\ UNCHANGED << answer, lines >>
        /\ fds' = [fds EXCEPT ![fd].in_use = FALSE, ![fd].sock = NoSock]
    BY <1>9 DEF CloseFd
  <2>2. answer' \in [Fd -> {"none", "OK", "ERROR", "NO CARRIER", "CONNECT"}] /\ lines' \in 0 .. MaxLines
    BY <1>1, <2>1 DEF TypeOK
  <2>3. QED
    BY <1>8, <2>1, <2>2
<1>10. ASSUME NEW fd \in Fd, NEW state, Line(fd, state)
       PROVE  fds[fd].in_use /\ fds[fd].state = state /\ lines' \in 0 .. MaxLines
  <2>1. fds[fd].in_use /\ fds[fd].state = state
    BY <1>10 DEF Line
  <2>2. lines < MaxLines /\ lines' = lines + 1 /\ lines \in 0 .. MaxLines
    BY <1>1, <1>10 DEF Line, TypeOK
  <2>3. lines' \in 0 .. MaxLines
    BY <2>2, ModemAssumption
  <2>4. QED
    BY <2>1, <2>3
<1>11. ASSUME NEW fd \in Fd, NEW response \in {"OK", "ERROR", "NO CARRIER", "CONNECT"},
              Says(fd, response)
       PROVE  answer' \in [Fd -> {"none", "OK", "ERROR", "NO CARRIER", "CONNECT"}]
  BY <1>1, <1>11 DEF Says, TypeOK
<1>12. SocketCreated => conns' \in 0 .. MaxConns
  BY <1>1, NetAssumption DEF SocketCreated
<1>13. ASSUME NEW fd \in Fd, HangUp(fd)
       PROVE  Inv'
  <2>1. fds[fd].in_use /\ fds[fd].state = "COMMAND" /\ lines' \in 0 .. MaxLines
    BY <1>10, <1>13 DEF HangUp
  <2>2. fds' = [fds EXCEPT ![fd].in_use = TRUE, ![fd].sock = NoSock]
    BY <1>1, <1>13, <2>1 DEF HangUp, ModemFd
  <2>3. Closed(SockOf(fd)) /\ UNCHANGED << conns, received, held >>
    BY <1>13 DEF HangUp
  <2>4. answer' \in [Fd -> {"none", "OK", "ERROR", "NO CARRIER", "CONNECT"}]
    BY <1>11, <1>13 DEF HangUp
  <2>5. QED
    BY <1>8, <2>1, <2>2, <2>3, <2>4
<1>14. ASSUME NEW fd \in Fd, OtherCommand(fd) \/ DialRefused(fd)
       PROVE  Inv'
  <2>1. lines' \in 0 .. MaxLines /\ UNCHANGED << netVars, fds >>
    BY <1>10, <1>14 DEF OtherCommand, DialRefused
  <2>2. answer' \in [Fd -> {"none", "OK", "ERROR", "NO CARRIER", "CONNECT"}]
    BY <1>11, <1>14 DEF OtherCommand, DialRefused
  <2>3. QED
    BY <1>1, <2>1, <2>2, SameConnections DEF TypeOK, netVars
<1>15. ASSUME NEW fd \in Fd, DialNoHandle(fd)
       PROVE  Inv'
  <2>1. lines' \in 0 .. MaxLines /\ conns' \in 0 .. MaxConns
        /\ UNCHANGED << s_Sockets, s_Peek, received, held, fds >>
    BY <1>10, <1>12, <1>15 DEF DialNoHandle
  <2>2. answer' \in [Fd -> {"none", "OK", "ERROR", "NO CARRIER", "CONNECT"}]
    BY <1>11, <1>15 DEF DialNoHandle
  <2>3. QED
    BY <1>1, <2>1, <2>2, SameConnections DEF TypeOK
<1>16. ASSUME NEW fd \in Fd, PassLine(fd)
       PROVE  Inv'
  <2>1. lines' \in 0 .. MaxLines /\ UNCHANGED << netVars, fds, answer >>
    BY <1>10, <1>16 DEF PassLine
  <2>2. QED
    BY <1>1, <2>1, SameConnections DEF TypeOK, netVars
<1>17. ASSUME NEW fd \in Fd, GetByte(fd)
       PROVE  Inv'
  <2>1. fds[fd].sock \in Handle /\ Recv(fds[fd].sock, 1)
        /\ UNCHANGED << conns, held, fds, answer, lines >>
    BY <1>1, <1>3, <1>17 DEF GetByte, PassesToSocket
  <2>2. /\ s_Sockets' \in [Handle -> CSocket \union {None}]
        /\ s_Peek' \in [Handle -> Byte \union {None}]
        /\ received' \in [Handle -> Seq(Byte)]
        /\ TakenArrived'
        /\ \A g \in Handle : s_Sockets'[g] = None <=> s_Sockets[g] = None
    BY <1>1, <2>1, RecvType
  <2>3. TypeOK'
    BY <1>1, <2>1, <2>2 DEF TypeOK, NetTypeOK
  <2>4. OneHolderEach' /\ PassesToSocket'
    BY <1>1, <2>1, <2>2 DEF OneHolderEach, PassesToSocket
  <2>5. QED
    BY <2>2, <2>3, <2>4 DEF Inv
<1>18. ASSUME NEW fd \in Fd, NEW peer \in {"connected", "none"}, Dial(fd, peer)
       PROVE  Inv'
  <2>1. /\ fds[fd].in_use /\ fds[fd].state = "COMMAND" /\ lines' \in 0 .. MaxLines
        /\ SocketCreated /\ conns' \in 0 .. MaxConns /\ UNCHANGED << s_Peek, held >>
    BY <1>10, <1>12, <1>18 DEF Dial
  <2>2. CASE ConnectResult(peer) = 0
    <3>1. UNCHANGED << s_Sockets, received, fds >>
      BY <1>18, <2>2 DEF Dial
    <3>2. answer' \in [Fd -> {"none", "OK", "ERROR", "NO CARRIER", "CONNECT"}]
      BY <1>11, <1>18, <2>2 DEF Dial
    <3>3. QED
      BY <1>1, <2>1, <3>1, <3>2, SameConnections DEF TypeOK
  <2>3. ASSUME ConnectResult(peer) # 0, NEW h \in Handle, AllocSocket(h, peer),
               fds' = [fds EXCEPT ![fd].sock = h, ![fd].state = "CONNECTED"],
               Says(fd, "CONNECT")
        PROVE  Inv'
    <3>1. /\ s_Sockets' \in [Handle -> CSocket \union {None}]
          /\ received' \in [Handle -> Seq(Byte)]
          /\ TakenArrived'
          /\ s_Sockets[h] = None /\ s_Sockets'[h] # None
          /\ \A g \in Handle \ {h} : s_Sockets'[g] = s_Sockets[g]
      BY <1>1, <2>1, <2>3, AllocType
    <3>2. answer' \in [Fd -> {"none", "OK", "ERROR", "NO CARRIER", "CONNECT"}]
      BY <1>11, <2>3
    <3>3. fds' \in [Fd -> ModemFd]
      BY <1>1, <2>3 DEF ModemFd
    <3>4. TypeOK'
      <4>1. NetTypeOK'
        BY <1>1, <2>1, <3>1 DEF NetTypeOK
      <4>2. QED
        BY <2>1, <3>2, <3>3, <4>1 DEF TypeOK
    <3>5. /\ fds'[fd].sock = h /\ fds'[fd].state = "CONNECTED" /\ fds'[fd].in_use
          /\ \A f \in Fd \ {fd} : fds'[f] = fds[f]
      BY <1>1, <2>1, <2>3 DEF ModemFd
    <3>6. fds[fd].sock = NoSock
      BY <1>1, <2>1 DEF PassesToSocket
    <3>7. h \notin held /\ \A f \in Fd : fds[f].sock # h
      BY <1>1, <3>1 DEF OneHolderEach
    <3>8. OneHolderEach'
      <4>1. \A g \in Handle :
              s_Sockets'[g] # None <=> g \in held' \/ \E f \in Fd : fds'[f].sock = g
        <5>1. s_Sockets'[h] # None /\ \E f \in Fd : fds'[f].sock = h
          BY <3>1, <3>5
        <5>2. \A g \in Handle \ {h} : \A f \in Fd : fds'[f].sock = g <=> fds[f].sock = g
          BY <1>4, <3>5, <3>6
        <5>3. \A g \in Handle \ {h} :
                s_Sockets'[g] # None <=> g \in held' \/ \E f \in Fd : fds'[f].sock = g
          BY <1>1, <2>1, <3>1, <5>2 DEF OneHolderEach
        <5>4. QED
          BY <5>1, <5>3
      <4>2. \A f \in Fd : fds'[f].sock # NoSock =>
              /\ fds'[f].in_use
              /\ fds'[f].sock \notin held'
              /\ \A other \in Fd \ {f} : fds'[other].sock # fds'[f].sock
        BY <1>1, <2>1, <3>5, <3>7 DEF OneHolderEach
      <4>3. QED
        BY <4>1, <4>2 DEF OneHolderEach
    <3>9. PassesToSocket'
      BY <1>1, <1>4, <3>5 DEF PassesToSocket
    <3>10. QED
      BY <3>1, <3>4, <3>8, <3>9 DEF Inv
  <2>4. QED
    BY <1>18, <2>2, <2>3 DEF Dial
<1>19. CASE UNCHANGED vars
  BY <1>1, <1>19, SameConnections DEF vars, netVars, TypeOK
<1>20. QED
  BY <1>5, <1>6, <1>7, <1>9, <1>13, <1>14, <1>15, <1>16, <1>17, <1>18, <1>19 DEF Next

\* So it holds of every reachable state.
LEMMA AlwaysInv == Spec => []Inv
  BY InitInv, StepInv, PTL DEF Spec

-----------------------------------------------------------------------------

\* Every state is well typed: no handle outside the table is stored, no byte is
\* received that did not come in (kernel.cpp's table, rs232-raspi-dev.c's devices).
THEOREM ModemTypeCorrect == Spec => []TypeOK
<1>1. Inv => TypeOK
  BY DEF Inv
<1>2. QED
  BY <1>1, AlwaysInv, PTL

\* Entries of the table and holders match one to one, for every table size, any
\* number of devices and any number of connections (alloc_socket,
\* circle_net_close, rs232dev_open, rs232dev_close, rs232dev_reset).
THEOREM OneHolderAlways == Spec => []OneHolderEach
<1>1. Inv => OneHolderEach
  BY DEF Inv
<1>2. QED
  BY <1>1, AlwaysInv, PTL

\* An open device is connected exactly when it has a handle (modem_process_cmd,
\* rs232dev_putc).
THEOREM PassesAlwaysToSocket == Spec => []PassesToSocket
<1>1. Inv => PassesToSocket
  BY DEF Inv
<1>2. QED
  BY <1>1, AlwaysInv, PTL

-----------------------------------------------------------------------------
(* The streams.                                                            *)

\* The bytes of a connection up to a number.
Bytes(conn, n) == [i \in 1 .. n |-> [conn |-> conn, seq |-> i]]
\* A free entry has no byte of an earlier connection in its peek buffer.
FreeUnpeeked == \A h \in Handle : s_Sockets[h] = None => s_Peek[h] = None

StreamInv == FreeUnpeeked /\ StreamInOrder

\* What Receive hands out next continues what it has handed out.
LEMMA BytesFollow ==
  ASSUME NEW conn \in 1 .. MaxConns, NEW t \in Nat, NEW n \in Nat, t + n <= MaxBytes
  PROVE  Bytes(conn, t) \o [i \in 1 .. n |-> [conn |-> conn, seq |-> t + i]] = Bytes(conn, t + n)
<1> DEFINE b == [i \in 1 .. n |-> [conn |-> conn, seq |-> t + i]]
           c == Bytes(conn, t) \o b
<1>1. \A m \in Nat : m <= MaxBytes => Bytes(conn, m) \in Seq(Byte) /\ Len(Bytes(conn, m)) = m
  <2> SUFFICES ASSUME NEW m \in Nat, m <= MaxBytes
               PROVE  Bytes(conn, m) \in Seq(Byte) /\ Len(Bytes(conn, m)) = m
    OBVIOUS
  <2>1. \A i \in 1 .. m : [conn |-> conn, seq |-> i] \in Byte
    BY NetAssumption DEF Byte
  <2>2. Bytes(conn, m) \in [1 .. m -> Byte]
    BY <2>1 DEF Bytes
  <2> HIDE DEF Bytes
  <2>3. QED
    BY <2>2
<1>2. b \in Seq(Byte) /\ Len(b) = n
  <2>1. \A i \in 1 .. n : t + i \in 1 .. MaxBytes
    BY NetAssumption
  <2>2. \A i \in 1 .. n : [conn |-> conn, seq |-> t + i] \in Byte
    BY <2>1 DEF Byte
  <2>3. b \in [1 .. n -> Byte]
    BY <2>2
  <2> HIDE DEF b
  <2>4. QED
    BY <2>3
<1>3. \A i \in 1 .. n : b[i] = [conn |-> conn, seq |-> t + i]
  OBVIOUS
<1>4. \A m \in Nat : \A i \in 1 .. m : Bytes(conn, m)[i] = [conn |-> conn, seq |-> i]
  BY DEF Bytes
<1> HIDE DEF b
<1>5. /\ Bytes(conn, t) \in Seq(Byte) /\ Len(Bytes(conn, t)) = t
      /\ Bytes(conn, t + n) \in Seq(Byte) /\ Len(Bytes(conn, t + n)) = t + n
  BY <1>1, NetAssumption
<1>6. /\ c \in Seq(Byte) /\ Len(c) = t + n
      /\ \A i \in 1 .. t + n : c[i] = IF i <= t THEN Bytes(conn, t)[i] ELSE b[i - t]
  <2> DEFINE a == Bytes(conn, t)
  <2>1. a \in Seq(Byte) /\ b \in Seq(Byte)
    BY <1>2, <1>5
  <2> HIDE DEF a
  <2>2. /\ a \o b \in Seq(Byte)
        /\ Len(a \o b) = Len(a) + Len(b)
        /\ \A i \in 1 .. Len(a) + Len(b) : (a \o b)[i] = IF i <= Len(a) THEN a[i] ELSE b[i - Len(a)]
    BY <2>1, ConcatProperties
  <2>3. Len(a) = t /\ Len(b) = n
    BY <1>2, <1>5 DEF a
  <2>4. QED
    BY <2>2, <2>3 DEF a
<1> HIDE DEF c
<1>7. ASSUME NEW i \in 1 .. t + n
      PROVE  c[i] = Bytes(conn, t + n)[i]
  <2>1. Bytes(conn, t + n)[i] = [conn |-> conn, seq |-> i]
    BY <1>4
  <2>2. CASE i <= t
    <3>1. c[i] = Bytes(conn, t)[i] /\ i \in 1 .. t
      BY <1>6, <2>2
    <3>2. QED
      BY <1>4, <2>1, <3>1
  <2>3. CASE i > t
    <3>1. c[i] = b[i - t] /\ i - t \in 1 .. n
      BY <1>6, <2>3
    <3>2. c[i] = [conn |-> conn, seq |-> t + (i - t)]
      BY <1>3, <3>1
    <3>3. QED
      BY <2>1, <3>2
  <2>4. QED
    BY <2>2, <2>3
<1>8. c = Bytes(conn, t + n)
  BY <1>5, <1>6, <1>7, SeqEqual
<1>9. QED
  BY <1>8 DEF b, c

\* StreamInOrder of one entry.
Streams(h) ==
  s_Sockets[h] # None =>
    received[h] \o (IF s_Peek[h] = None THEN << >> ELSE << s_Peek[h] >>)
      = Bytes(s_Sockets[h].conn, s_Sockets[h].taken)

\* A step that touches one entry only.
LEMMA OthersStream ==
  ASSUME StreamInOrder, NEW h \in Handle, Streams(h)',
         \A g \in Handle \ {h} : /\ s_Sockets'[g] = s_Sockets[g]
                                 /\ s_Peek'[g] = s_Peek[g]
                                 /\ received'[g] = received[g]
  PROVE  StreamInOrder'
<1>1. \A g \in Handle : Streams(g)
  BY DEF StreamInOrder, Streams, Bytes
<1>2. \A g \in Handle \ {h} : Streams(g)'
  BY <1>1 DEF Streams
<1>3. \A g \in Handle : Streams(g)'
  BY <1>2
<1>4. QED
  BY <1>3 DEF StreamInOrder, Streams, Bytes

\* circle_net_recv moves the peeked byte and those behind it to the receiver.
LEMMA RecvInOrder ==
  ASSUME NetTypeOK, TakenArrived, StreamInv, NEW h \in Handle, NEW len \in 1 .. 2, Recv(h, len)
  PROVE  StreamInv'
<1> DEFINE s == s_Sockets[h]
           peeked == IF s_Peek[h] = None THEN << >> ELSE << s_Peek[h] >>
           n == len - Len(peeked)
           count == IF s.arrived - s.taken < n THEN s.arrived - s.taken ELSE n
           rest == Receivable(s, n)
<1>1. s \in CSocket /\ s.taken <= s.arrived /\ s.conn \in 1 .. MaxConns
      /\ s.taken \in 0 .. MaxBytes /\ s.arrived \in 0 .. MaxBytes
  BY DEF NetTypeOK, TakenArrived, Recv, CSocket
<1>2. n \in 0 .. 2
  OBVIOUS
<1>3. rest = [i \in 1 .. count |-> [conn |-> s.conn, seq |-> s.taken + i]]
  BY DEF Receivable
<1>4. count \in Nat /\ s.taken + count <= MaxBytes /\ s.taken \in Nat
  BY <1>1, <1>2, NetAssumption
<1>5. Len(rest) = count
  BY <1>3, <1>4
<1>6. s_Sockets' = [s_Sockets EXCEPT ![h].taken = @ + Len(rest)]
      /\ s_Peek' = [s_Peek EXCEPT ![h] = None]
      /\ received' = [received EXCEPT ![h] = @ \o peeked \o rest]
      /\ s # None
  BY DEF Recv
<1>7. received[h] \o peeked = Bytes(s.conn, s.taken)
  BY <1>6 DEF StreamInv, StreamInOrder, Bytes
<1>8. (received[h] \o peeked) \o rest = Bytes(s.conn, s.taken + count)
  <2> HIDE DEF s, peeked, count, rest
  <2>1. QED
    BY <1>1, <1>3, <1>4, <1>7, BytesFollow
<1> HIDE DEF peeked, count, rest
<1>9. received'[h] = Bytes(s.conn, s.taken + count)
  BY <1>6, <1>8 DEF NetTypeOK
<1>10. s_Sockets'[h].conn = s.conn /\ s_Sockets'[h].taken = s.taken + count
  BY <1>1, <1>5, <1>6 DEF NetTypeOK, CSocket
<1>11. \A g \in Handle : s_Sockets'[g] = None <=> s_Sockets[g] = None
  BY RecvType
<1>12. \A g \in Handle \ {h} : s_Sockets'[g] = s_Sockets[g] /\ s_Peek'[g] = s_Peek[g]
                               /\ received'[g] = received[g]
  BY <1>6 DEF NetTypeOK
<1>13. s_Peek'[h] = None
  BY <1>6 DEF NetTypeOK
<1>14. FreeUnpeeked'
  BY <1>11, <1>12, <1>13 DEF StreamInv, FreeUnpeeked
<1>15. received'[h] \in Seq(Byte)
  BY RecvType
<1>16. received'[h] \o << >> = received'[h]
  BY <1>15
<1>17. Streams(h)'
  BY <1>9, <1>10, <1>13, <1>16 DEF Streams, Bytes
<1>18. QED
  BY <1>12, <1>14, <1>17, OthersStream DEF StreamInv

\* circle_net_can_recv moves one byte from the socket to the peek buffer.
LEMMA CanRecvInOrder ==
  ASSUME NetTypeOK, TakenArrived, StreamInv, NEW h \in Handle, CanRecv(h), UNCHANGED received
  PROVE  StreamInv'
<1> DEFINE s == s_Sockets[h]
           next == [conn |-> s.conn, seq |-> s.taken + 1]
           rest == [i \in 1 .. 1 |-> [conn |-> s.conn, seq |-> s.taken + i]]
<1>1. s \in CSocket /\ s.taken < s.arrived /\ s.conn \in 1 .. MaxConns /\ s # None
      /\ s.taken \in 0 .. MaxBytes /\ s.arrived \in 0 .. MaxBytes
  BY DEF NetTypeOK, CanRecv, CSocket
<1>2. s_Sockets' = [s_Sockets EXCEPT ![h].taken = @ + 1]
      /\ s_Peek' = [s_Peek EXCEPT ![h] = Receivable(s, 1)[1]] /\ s_Peek[h] = None
  BY DEF CanRecv
<1>3. Receivable(s, 1)[1] = next
  <2> DEFINE count == IF s.arrived - s.taken < 1 THEN s.arrived - s.taken ELSE 1
  <2>1. count = 1
    BY <1>1, NetAssumption
  <2>2. Receivable(s, 1) = [i \in 1 .. count |-> [conn |-> s.conn, seq |-> s.taken + i]]
    BY DEF Receivable
  <2>3. QED
    BY <2>1, <2>2
<1>4. s.taken + 1 \in 1 .. MaxBytes /\ s.taken \in Nat /\ s.taken + 1 <= MaxBytes
  BY <1>1, NetAssumption
<1>5. next \in Byte
  BY <1>1, <1>4 DEF Byte
<1>6. s_Peek'[h] = next /\ next # None
  BY <1>2, <1>3, <1>5, NoneAssumption DEF NetTypeOK
<1>7. received[h] \in Seq(Byte)
  BY DEF NetTypeOK
<1>8. received[h] \o << >> = Bytes(s.conn, s.taken)
  BY <1>1, <1>2 DEF StreamInv, StreamInOrder, Bytes
<1>9. received[h] = Bytes(s.conn, s.taken)
  BY <1>7, <1>8, ConcatEmptySeq
<1>10. << next >> = rest
  OBVIOUS
<1>11. Bytes(s.conn, s.taken) \o rest = Bytes(s.conn, s.taken + 1)
  <2> HIDE DEF s
  <2>1. QED
    BY <1>1, <1>4, BytesFollow
<1>12. received'[h] \o << next >> = Bytes(s.conn, s.taken + 1)
  BY <1>9, <1>10, <1>11
<1>13. s_Sockets'[h].conn = s.conn /\ s_Sockets'[h].taken = s.taken + 1
  BY <1>1, <1>2 DEF NetTypeOK, CSocket
<1> HIDE DEF next, rest, s
<1>14. Streams(h)'
  BY <1>6, <1>12, <1>13 DEF Streams
<1>15. \A g \in Handle \ {h} : s_Sockets'[g] = s_Sockets[g] /\ s_Peek'[g] = s_Peek[g]
                               /\ received'[g] = received[g]
  BY <1>2 DEF NetTypeOK
<1>16. StreamInOrder'
  BY <1>14, <1>15, OthersStream DEF StreamInv
<1>17. \A g \in Handle : s_Sockets'[g] = None <=> s_Sockets[g] = None
  BY CanRecvType
<1>18. FreeUnpeeked'
  BY <1>1, <1>15, <1>17 DEF StreamInv, FreeUnpeeked, s
<1>19. QED
  BY <1>16, <1>18 DEF StreamInv

\* A handle that is closed loses its byte, the others keep what they have.
LEMMA ClosedInOrder ==
  ASSUME NetTypeOK, StreamInv, NEW sockets \in SUBSET Handle, Closed(sockets), UNCHANGED received
  PROVE  StreamInv'
<1>1. \A h \in sockets : s_Sockets'[h] = None /\ s_Peek'[h] = None
  BY DEF Closed
<1>2. \A h \in Handle \ sockets : s_Sockets'[h] = s_Sockets[h] /\ s_Peek'[h] = s_Peek[h]
  BY DEF Closed
<1>3. FreeUnpeeked'
  BY <1>1, <1>2 DEF StreamInv, FreeUnpeeked
<1>4. StreamInOrder'
  BY <1>1, <1>2 DEF StreamInv, StreamInOrder
<1>5. QED
  BY <1>3, <1>4 DEF StreamInv

\* A new socket has received nothing, and neither has its holder.
LEMMA AllocInOrder ==
  ASSUME NetTypeOK, TakenArrived, StreamInv, SocketCreated, UNCHANGED s_Peek,
         NEW h \in Handle, NEW peer \in {"none", "listening", "connected", "closed"},
         AllocSocket(h, peer)
  PROVE  StreamInv'
<1>1. /\ s_Sockets[h] = None /\ s_Sockets'[h] # None
      /\ \A g \in Handle \ {h} : s_Sockets'[g] = s_Sockets[g]
  BY AllocType
<1>2. s_Peek'[h] = None /\ FreeUnpeeked'
  BY <1>1 DEF StreamInv, FreeUnpeeked
<1>3. received' = [received EXCEPT ![h] = << >>] /\ s_Sockets'[h] = NewSocket(peer)
  BY DEF AllocSocket, NetTypeOK
<1>4. s_Sockets'[h].taken = 0
  BY <1>3 DEF NewSocket
<1>5. received'[h] = << >>
  BY <1>3 DEF NetTypeOK
<1>6. << >> \o << >> = Bytes(s_Sockets'[h].conn, 0)
  BY DEF Bytes
<1>7. Streams(h)'
  BY <1>2, <1>4, <1>5, <1>6 DEF Streams
<1>8. \A g \in Handle \ {h} : received'[g] = received[g] /\ s_Peek'[g] = s_Peek[g]
  BY <1>3 DEF NetTypeOK
<1>9. StreamInOrder'
  BY <1>1, <1>7, <1>8, OthersStream DEF StreamInv
<1>10. QED
  BY <1>2, <1>9 DEF StreamInv

\* What the peer does takes nothing from the stream.
LEMMA PeerInOrder ==
  ASSUME NetTypeOK, StreamInv, NEW h \in Handle, PeerSends(h) \/ PeerCloses(h)
  PROVE  StreamInv'
<1>1. s_Sockets[h] \in CSocket /\ s_Sockets[h] # None /\ UNCHANGED << s_Peek, received >>
  BY DEF NetTypeOK, PeerSends, PeerCloses
<1>2. s_Sockets'[h].conn = s_Sockets[h].conn /\ s_Sockets'[h].taken = s_Sockets[h].taken
      /\ s_Sockets'[h] \in CSocket
  <2>1. CASE PeerSends(h)
    <3>1. s_Sockets'[h] = [s_Sockets[h] EXCEPT !.arrived = @ + 1] /\ s_Sockets[h].arrived < MaxBytes
      BY <2>1 DEF PeerSends, NetTypeOK
    <3>2. QED
      BY <1>1, <3>1, NetAssumption DEF CSocket
  <2>2. CASE PeerCloses(h)
    <3>1. s_Sockets'[h] = [s_Sockets[h] EXCEPT !.peer = "closed"]
      BY <2>2 DEF PeerCloses, NetTypeOK
    <3>2. QED
      BY <1>1, <3>1 DEF CSocket
  <2>3. QED
    BY <2>1, <2>2
<1>3. \A g \in Handle \ {h} : s_Sockets'[g] = s_Sockets[g]
  BY DEF NetTypeOK, PeerSends, PeerCloses
<1>4. s_Sockets'[h] # None
  BY <1>2, NoneAssumption
<1>5. FreeUnpeeked'
  BY <1>1, <1>3, <1>4 DEF StreamInv, FreeUnpeeked
<1>6. Streams(h)'
  BY <1>1, <1>2 DEF StreamInv, StreamInOrder, Streams, Bytes
<1>7. StreamInOrder'
  BY <1>1, <1>3, <1>6, OthersStream DEF StreamInv
<1>8. QED
  BY <1>5, <1>7 DEF StreamInv

\* Steps that touch no stream.
LEMMA SameInOrder ==
  ASSUME StreamInv, UNCHANGED << s_Sockets, s_Peek, received >>
  PROVE  StreamInv'
  BY DEF StreamInv, FreeUnpeeked, StreamInOrder

\* The table starts empty.
LEMMA StreamStart == Init => StreamInv
  BY DEF Init, NetInit, StreamInv, FreeUnpeeked, StreamInOrder

\* Every step of the network and of the vice sockets keeps the streams in order.
LEMMA NetStream ==
  ASSUME Inv, StreamInv, ViceNet
  PROVE  StreamInv'
<1>1. NetTypeOK /\ TakenArrived
  BY DEF Inv, TypeOK
<1>2. CASE ViceServer
  BY <1>1, <1>2, AllocInOrder DEF ViceServer
<1>3. CASE ViceTableFull
  BY <1>3, SameInOrder DEF ViceTableFull
<1>4. ASSUME NEW peer \in {"connected", "none"}, ViceClient(peer)
      PROVE  StreamInv'
  BY <1>1, <1>4, AllocInOrder, SameInOrder DEF ViceClient
<1>5. ASSUME NEW h \in Handle, ViceAccept(h)
      PROVE  StreamInv'
  BY <1>1, <1>5, AllocInOrder DEF ViceAccept
<1>6. ASSUME NEW h \in Handle, NEW len \in 1 .. 2, ViceReceive(h, len)
      PROVE  StreamInv'
  BY <1>1, <1>6, RecvInOrder DEF ViceReceive
<1>7. ASSUME NEW h \in Handle, VicePoll(h)
      PROVE  StreamInv'
  BY <1>1, <1>7, CanRecvInOrder DEF VicePoll
<1>8. ASSUME NEW h \in Handle, ViceClose(h)
      PROVE  StreamInv'
  BY <1>1, <1>8, ClosedInOrder DEF ViceClose
<1>9. ASSUME NEW h \in Handle, PeerSends(h) \/ PeerCloses(h)
      PROVE  StreamInv'
  BY <1>1, <1>9, PeerInOrder
<1>10. QED
  BY <1>2, <1>3, <1>4, <1>5, <1>6, <1>7, <1>8, <1>9 DEF ViceNet

\* And so does every step of the devices.
LEMMA StepStream == Inv /\ StreamInv /\ [Next]_vars => StreamInv'
<1> SUFFICES ASSUME Inv, StreamInv, [Next]_vars
             PROVE  StreamInv'
  OBVIOUS
<1>1. NetTypeOK /\ TakenArrived /\ PassesToSocket
      /\ \A fd \in Fd : fds[fd].sock \in {NoSock} \union Handle
  BY DEF Inv, TypeOK, ModemFd
<1>2. \A fd \in Fd : SockOf(fd) \in SUBSET Handle
  BY <1>1 DEF SockOf
<1>3. CASE ViceNet
  BY <1>3, NetStream
<1>4. CASE ResetFds
  BY <1>1, <1>2, <1>4, ClosedInOrder DEF ResetFds
<1>5. ASSUME NEW fd \in Fd, CloseFd(fd) \/ HangUp(fd)
      PROVE  StreamInv'
  BY <1>1, <1>2, <1>5, ClosedInOrder DEF CloseFd, HangUp
<1>6. ASSUME NEW fd \in Fd,
             OpenFd(fd) \/ OtherCommand(fd) \/ DialRefused(fd) \/ DialNoHandle(fd) \/ PassLine(fd)
      PROVE  StreamInv'
  BY <1>6, SameInOrder DEF OpenFd, OtherCommand, DialRefused, DialNoHandle, PassLine, netVars
<1>7. ASSUME NEW fd \in Fd, NEW peer \in {"connected", "none"}, Dial(fd, peer)
      PROVE  StreamInv'
  BY <1>1, <1>7, AllocInOrder, SameInOrder DEF Dial
<1>8. ASSUME NEW fd \in Fd, GetByte(fd)
      PROVE  StreamInv'
  <2>1. fds[fd].sock \in Handle /\ Recv(fds[fd].sock, 1)
    BY <1>1, <1>8 DEF GetByte, PassesToSocket
  <2>2. QED
    BY <1>1, <2>1, RecvInOrder
<1>9. CASE UNCHANGED vars
  BY <1>9, SameInOrder DEF vars, netVars
<1>10. QED
  BY <1>3, <1>4, <1>5, <1>6, <1>7, <1>8, <1>9 DEF Next

\* Whoever has a handle has received the bytes of its own connection, all, once
\* and in order, for any number of handles, connections and bytes and any mix of
\* polls, receives, closes and dials (circle_net_recv, circle_net_can_recv,
\* circle_net_close, alloc_socket).
THEOREM StreamAlwaysInOrder == Spec => []StreamInOrder
<1>1. StreamInv => StreamInOrder
  BY DEF StreamInv
<1>2. QED
  BY <1>1, AlwaysInv, StreamStart, StepStream, PTL DEF Spec
=============================================================================
