------------------------------- MODULE Modem --------------------------------
(***************************************************************************)
(* The virtual modem (rs232-raspi-dev.c) on the socket table: up to        *)
(* RS232_MAX_FDS devices, each in command mode or passing bytes through to *)
(* a TCP connection, next to the other users of the table.  All of it runs *)
(* on core 1.  A line of the C64 is one step: only the return at its end   *)
(* does anything in command mode.                                          *)
(***************************************************************************)
EXTENDS NetSockets

CONSTANTS
  RS232_MAX_FDS,
  MaxLines      \* bound of the model: lines the C64 types

ASSUME ModemAssumption == RS232_MAX_FDS \in Nat \ {0} /\ MaxLines \in Nat

VARIABLES
  fds,      \* the devices: in_use, state and sock
  answer,   \* history: the last response of each device, as resp_buf gets it
  lines     \* what MaxLines counts

vars == << netVars, fds, answer, lines >>

Fd == 0 .. RS232_MAX_FDS - 1
NoSock == 0

ModemFd == [in_use : BOOLEAN, state : {"COMMAND", "CONNECTED"}, sock : {NoSock} \union Handle]
Unused == [in_use |-> FALSE, state |-> "COMMAND", sock |-> NoSock]

TypeOK ==
  /\ NetTypeOK
  /\ fds \in [Fd -> ModemFd]
  /\ answer \in [Fd -> {"none", "OK", "ERROR", "NO CARRIER", "CONNECT"}]
  /\ lines \in 0 .. MaxLines

\* rs232dev_init.
Init ==
  /\ NetInit
  /\ fds = [fd \in Fd |-> Unused]
  /\ answer = [fd \in Fd |-> "none"]
  /\ lines = 0

SockOf(fd) == {fds[fd].sock} \ {NoSock}

Says(fd, response) == answer' = [answer EXCEPT ![fd] = response]

-----------------------------------------------------------------------------

\* rs232dev_open: the first free slot; the greeting ends in OK.
OpenFd(fd) ==
  /\ FirstOf({free \in Fd : ~fds[free].in_use}, fd)
  /\ fds' = [fds EXCEPT ![fd] = [Unused EXCEPT !.in_use = TRUE]]
  /\ Says(fd, "OK")
  /\ UNCHANGED << netVars, lines >>

\* Mutant of CloseFd: the connection is left open.
CloseFdOnly(fd) ==
  /\ fds[fd].in_use
  /\ fds' = [fds EXCEPT ![fd].in_use = FALSE, ![fd].sock = NoSock]
  /\ UNCHANGED << netVars, answer, lines >>

\* rs232dev_close: the slot keeps its state until it is opened again.
CloseFd(fd) ==
  /\ fds[fd].in_use
  /\ Closed(SockOf(fd))
  /\ fds' = [fds EXCEPT ![fd].in_use = FALSE, ![fd].sock = NoSock]
  /\ UNCHANGED << conns, received, held, answer, lines >>

\* rs232dev_reset.
ResetFds ==
  /\ Closed(UNION {SockOf(fd) : fd \in {f \in Fd : fds[f].in_use}})
  /\ fds' = [fd \in Fd |-> Unused]
  /\ UNCHANGED << conns, received, held, answer, lines >>

\* The C64 sends a line: rs232dev_putc up to the return.
Line(fd, state) ==
  /\ fds[fd].in_use
  /\ fds[fd].state = state
  /\ lines < MaxLines
  /\ lines' = lines + 1

\* AT, ATZ, ATE0, ATE1, ATM0, ATV1, or no command at all.
OtherCommand(fd) ==
  /\ Line(fd, "COMMAND")
  /\ \E response \in {"OK", "ERROR"} : Says(fd, response)
  /\ UNCHANGED << netVars, fds >>

\* ATH in command mode.
HangUp(fd) ==
  /\ Line(fd, "COMMAND")
  /\ Closed(SockOf(fd))
  /\ fds' = [fds EXCEPT ![fd].sock = NoSock]
  /\ Says(fd, "OK")
  /\ UNCHANGED << conns, received, held >>

\* ATDT without a valid address, or without a network.
DialRefused(fd) ==
  /\ Line(fd, "COMMAND")
  /\ \E response \in {"ERROR", "NO CARRIER"} : Says(fd, response)
  /\ UNCHANGED << netVars, fds >>

\* ATDT with the table full.
DialNoHandle(fd) ==
  /\ Line(fd, "COMMAND")
  /\ Free = {}
  /\ SocketCreated
  /\ Says(fd, "NO CARRIER")
  /\ UNCHANGED << s_Sockets, s_Peek, received, held, fds >>

\* Mutant of Dial: the handle is stored before the connection is made.
DialStoresFirst(fd, peer) ==
  /\ Line(fd, "COMMAND")
  /\ SocketCreated
  /\ \E h \in Handle :
       /\ FirstOf(Free, h)
       /\ fds' = [fds EXCEPT ![fd].sock = h]
  /\ Says(fd, "NO CARRIER")
  /\ ConnectResult(peer) = 0
  /\ UNCHANGED << s_Sockets, s_Peek, received, held >>

\* ATDT of an address: a result of 0 is taken for a failure, and the handle is
\* closed again.
Dial(fd, peer) ==
  /\ Line(fd, "COMMAND")
  /\ Free # {}
  /\ SocketCreated
  /\ IF ConnectResult(peer) = 0
       THEN Says(fd, "NO CARRIER") /\ UNCHANGED << s_Sockets, received, fds >>
       ELSE \E h \in Handle :
              /\ AllocSocket(h, peer)
              /\ fds' = [fds EXCEPT ![fd].sock = h, ![fd].state = "CONNECTED"]
              /\ Says(fd, "CONNECT")
  /\ UNCHANGED << s_Peek, held >>

\* A line while connected goes to the peer, whatever it says, +++ and ATH too.
PassLine(fd) ==
  /\ Line(fd, "CONNECTED")
  /\ UNCHANGED << netVars, fds, answer >>

\* rs232dev_getc, of a byte of the connection.
GetByte(fd) ==
  /\ fds[fd].in_use
  /\ fds[fd].state = "CONNECTED"
  /\ Recv(fds[fd].sock, 1)
  /\ UNCHANGED << conns, held, fds, answer, lines >>

Next ==
  \/ ViceNet /\ UNCHANGED << fds, answer, lines >>
  \/ ResetFds
  \/ \E fd \in Fd :
       \/ OpenFd(fd) \/ CloseFd(fd)
       \/ OtherCommand(fd) \/ HangUp(fd) \/ DialRefused(fd) \/ DialNoHandle(fd)
       \/ \E peer \in {"connected", "none"} : Dial(fd, peer)
       \/ PassLine(fd)
       \/ GetByte(fd)

Spec == Init /\ [][Next]_vars

-----------------------------------------------------------------------------
(* Properties.                                                             *)

\* Every entry of the table has one holder, a device or a vice socket, and
\* every handle that is held is an entry: no connection leaks, none is closed
\* twice and no two users share one, whichever of them opens and closes, and
\* however a device is reset (alloc_socket, circle_net_close).
OneHolderEach ==
  /\ \A h \in Handle :
       s_Sockets[h] # None <=> h \in held \/ \E fd \in Fd : fds[fd].sock = h
  /\ \A fd \in Fd : fds[fd].sock # NoSock =>
       /\ fds[fd].in_use
       /\ fds[fd].sock \notin held
       /\ \A other \in Fd \ {fd} : fds[other].sock # fds[fd].sock

\* A device that is open passes bytes through exactly when it has a connection
\* to pass them to: rs232dev_putc relies on it (modem_fd_t).
PassesToSocket ==
  \A fd \in Fd : fds[fd].in_use => (fds[fd].state = "CONNECTED" <=> fds[fd].sock # NoSock)

\* rs232-raspi-dev.c:8: CONNECT follows a TCP connection that was made.
CarrierIsReal ==
  \A fd \in Fd :
    fds[fd].in_use /\ fds[fd].sock # NoSock => s_Sockets[fds[fd].sock].peer # "none"
=============================================================================
