------------------------------- MODULE Httpd -------------------------------
(***************************************************************************)
(* The web server (src/userspace/programs/httpd/httpd.c) over the socket   *)
(* layer: main makes a listener, then accepts one connection at a time,    *)
(* and handle_client reads a request, replies and shuts it down.           *)
(* The run starts either this program or, with pc = "any", one that makes  *)
(* every call in every order.                                              *)
(***************************************************************************)
EXTENDS Sockets

CONSTANTS
  RBUF,       \* reads that fill handle_client's buffer
  Programs    \* where the program may start: "socket" is httpd, or "any"

PORT == 80

VARIABLES pc, lfd, cfd, got
hvars == <<pc, lfd, cfd, got>>
allvars == <<vars, hvars>>

HInit == socket_init /\ pc \in Programs /\ lfd = 0 /\ cfd = 0 /\ got = 0
-----------------------------------------------------------------------------
\* main: a failed call ends the program; these three succeed at its start.
MainSocket ==
  /\ pc = "socket" /\ sys_socket("tcp")
  /\ lfd' = Min(FreeSocks) /\ pc' = "bind" /\ UNCHANGED <<cfd, got>>
MainBind ==
  /\ pc = "bind" /\ sys_bind(lfd, PORT)
  /\ pc' = "listen" /\ UNCHANGED <<lfd, cfd, got>>
MainListen ==
  /\ pc = "listen" /\ sys_listen(lfd)
  /\ pc' = "accept" /\ UNCHANGED <<lfd, cfd, got>>

\* The accept loop; while accept fails nothing changes.
MainAccept ==
  /\ pc = "accept" /\ Accepts(lfd)
  /\ pc' = "accepting" /\ UNCHANGED <<calls, lfd, cfd, got>>
MainAccepted ==
  /\ pc = "accepting" /\ AcceptStores
  /\ IF FreeSocks = {} THEN pc' = "accept" /\ UNCHANGED <<cfd, got>>
     ELSE pc' = "recv" /\ cfd' = Min(FreeSocks) /\ got' = 0
  /\ UNCHANGED lfd

\* handle_client: recv fails when the connection is gone or nothing has come
\* yet, and the client is given up; else the request may be complete.
HasData == conn_id[cfd] >= 0 /\ conns[conn_id[cfd]].data

RecvFails ==
  /\ pc = "recv" /\ ~HasData
  /\ pc' = "done" /\ UNCHANGED <<vars, lfd, cfd, got>>
Recv ==
  /\ pc = "recv" /\ HasData
  /\ conns' = [conns EXCEPT ![conn_id[cfd]].data = FALSE]
  /\ got' = got + 1
  /\ pc' \in IF got + 1 < RBUF THEN {"recv", "send"} ELSE {"send"}
  /\ UNCHANGED <<socks, born, udpvars, call, calls, ghosts, lfd, cfd>>

\* The replies, until a send fails or all is sent.
Send ==
  /\ pc = "send" /\ pc' = "done" /\ UNCHANGED <<vars, lfd, cfd, got>>

\* shutdown; the close after it is of no descriptor of the VFS.
Done ==
  /\ pc = "done" /\ Shutdown(cfd)
  /\ pc' = "accept" /\ UNCHANGED <<calls, lfd, cfd, got>>

HttpdStep ==
  \/ MainSocket \/ MainBind \/ MainListen \/ MainAccept \/ MainAccepted
  \/ RecvFails \/ Recv \/ Send \/ Done

HNext ==
  \/ HttpdStep
  \/ pc = "any" /\ (Calls \/ CallSteps \/ UdpEvents) /\ UNCHANGED hvars
  \/ TcpEvents /\ UNCHANGED hvars

\* The process runs.  A peer ends the handshake, answers our FIN with its own
\* and acknowledges ours, or TCP gives the connection up; TIME_WAIT expires.
Answered(c) ==
  /\ \/ HandshakeEnds(c) \/ LastAckArrives(c) \/ TimeWaitExpires(c)
     \/ conns[c].state = "FIN_WAIT" /\ FinArrives(c)
  /\ UNCHANGED hvars

HSpec ==
  /\ HInit /\ [][HNext]_allvars
  /\ WF_allvars(HttpdStep)
  /\ \A c \in Conns : WF_allvars(pc # "any" /\ Answered(c))

\* Once no more clients come, httpd is left with its listener and the table of
\* connections with nothing else: every client was accepted and shut down, in
\* whatever order they came, sent, closed and died.  The exception is a
\* connection whose client closed it first: its socket has been told, has let
\* go of it, and nobody will ever close its slot (main, handle_client,
\* sys_shutdown, and the on_close at CLOSE_WAIT in tcp.c).
SlotsComeBack ==
  <>[](pc # "any" =>
         /\ conn_id[lfd] \in Conns
         /\ conns[conn_id[lfd]].state = "LISTEN"
         /\ \A c \in Conns \ {conn_id[lfd]} :
              \/ conns[c].state = "CLOSED"
              \/ /\ conns[c].state = "CLOSE_WAIT"
                 /\ \A i \in Socks : conn_id[i] # c)
=============================================================================
