------------------------------ MODULE Sockets ------------------------------
(***************************************************************************)
(* The socket layer (src/src/net/socket/socket.c) and UDP's dispatch       *)
(* (src/src/net/udp/udp.c), over the connection table of TCP               *)
(* (src/src/net/tcp/tcp.c; module Tcp has its segments, of which only what *)
(* they do to a connection's state is kept here).  One process makes       *)
(* system calls, in any order; datagrams, segments and timers are handled  *)
(* by the timer interrupt, whole, between any two steps of a call.         *)
(* A connection carries its number n, which the code does not keep, to     *)
(* tell one from the next in the same slot.  Failed calls that change      *)
(* nothing, sendto among them, are left out; so is the peer's address.     *)
(***************************************************************************)
EXTENDS Integers, Sequences, FiniteSetsExt

CONSTANTS
  SOCK_MAX, TCP_MAX_CONN, UDP_MAX_HANDLERS,
  RX_BUF_SIZE,   \* sizeof rx_buf
  Ports,         \* ports a program binds or a client connects to, none 0
  DHCP_PORT,     \* the port DHCP has registered with UDP
  MAX_CALLS,     \* bound: system calls begun
  MAX_CONNS,     \* bound: connections and listeners ever made
  MAX_BYTES      \* bound: bytes arriving in datagrams

Socks == 0 .. SOCK_MAX - 1
Conns == 0 .. TCP_MAX_CONN - 1
SOCK_FD_BASE == 64
Ephemeral(i) == 49152 + SOCK_FD_BASE + i

ASSUME SocketConstants ==
  /\ SOCK_MAX \in Nat /\ TCP_MAX_CONN \in Nat /\ RX_BUF_SIZE \in Nat \ {0}
  /\ Ports \subseteq Nat \ {0}

VARIABLES
  type, conn_id, bound_port,   \* per socket: these fields of sock_t
  ring,      \* per socket: its rx_buf, rx_head and rx_tail, as [buf, head, tail]
  conns,     \* [state, local_port, n, data] per slot; data: bytes wait
  handlers,  \* UDP's table: [port, to]
  call,      \* the call in progress
  calls, born, bytes,   \* how much has happened
  accepted,  \* history: sockets sys_accept made, until bound again
  owns,      \* history: [socket -> the number of the connection it was given]
  suspect,   \* history: sockets given a dead or an already owned connection
  pushed, taken  \* history: bytes that entered and left a socket's ring

tcpvars == <<conns, born>>
ghosts == <<accepted, owns, suspect>>
udpvars == <<handlers, bytes, pushed, taken>>
socks == <<type, conn_id, bound_port, ring>>
vars == <<socks, tcpvars, udpvars, call, calls, ghosts>>

NoCall == [op |-> "none"]
EmptyRing == [buf |-> [k \in 0 .. RX_BUF_SIZE - 1 |-> 0], head |-> 0, tail |-> 0]

socket_init ==
  /\ type = [i \in Socks |-> "free"] /\ conn_id = [i \in Socks |-> -1]
  /\ bound_port = [i \in Socks |-> 0] /\ ring = [i \in Socks |-> EmptyRing]
  /\ conns = [c \in Conns |-> [state |-> "CLOSED", local_port |-> 0, n |-> 0, data |-> FALSE]]
  /\ handlers = <<[port |-> DHCP_PORT, to |-> "dhcp"]>>
  /\ call = NoCall /\ calls = 0 /\ born = 0 /\ bytes = 0
  /\ accepted = {} /\ owns = [i \in Socks |-> 0] /\ suspect = {}
  /\ pushed = [i \in Socks |-> <<>>] /\ taken = [i \in Socks |-> <<>>]

Begins == call = NoCall /\ calls < MAX_CALLS /\ calls' = calls + 1
FreeSocks == {i \in Socks : type[i] = "free"}
ClosedConns == {c \in Conns : conns[c].state = "CLOSED"}
-----------------------------------------------------------------------------
sys_socket(kind) ==
  LET i == Min(FreeSocks) IN
  /\ Begins /\ FreeSocks # {}
  /\ type' = [type EXCEPT ![i] = kind] /\ conn_id' = [conn_id EXCEPT ![i] = -1]
  /\ bound_port' = [bound_port EXCEPT ![i] = 0]
  /\ ring' = [ring EXCEPT ![i].head = 0, ![i].tail = 0]
  /\ accepted' = accepted \ {i} /\ suspect' = suspect \ {i}
  /\ pushed' = [pushed EXCEPT ![i] = <<>>] /\ taken' = [taken EXCEPT ![i] = <<>>]
  /\ UNCHANGED <<tcpvars, handlers, bytes, call, owns>>

\* udp_register, whose failure sys_bind does not look at.
udp_register(port) ==
  handlers' = IF Len(handlers) >= UDP_MAX_HANDLERS THEN handlers
              ELSE Append(handlers, [port |-> port, to |-> "socket"])

\* Mutant: only the sockets before this one are checked.
sys_bind_below(i, port) ==
  /\ Begins /\ type[i] # "free"
  /\ \A j \in Socks : j < i /\ type[j] # "free" => bound_port[j] # port
  /\ bound_port' = [bound_port EXCEPT ![i] = port]
  /\ IF type[i] = "udp" THEN udp_register(port) ELSE UNCHANGED handlers
  /\ accepted' = accepted \ {i}
  /\ UNCHANGED <<type, conn_id, ring, tcpvars, bytes, pushed, taken, call, owns, suspect>>

sys_bind(i, port) ==
  /\ Begins /\ type[i] # "free"
  /\ \A j \in Socks \ {i} : type[j] # "free" => bound_port[j] # port
  /\ bound_port' = [bound_port EXCEPT ![i] = port]
  /\ IF type[i] = "udp" THEN udp_register(port) ELSE UNCHANGED handlers
  /\ accepted' = accepted \ {i}
  /\ UNCHANGED <<type, conn_id, ring, tcpvars, bytes, pushed, taken, call, owns, suspect>>

\* A slot of the connection table is taken.
NewConn(c, state, port) ==
  /\ born < MAX_CONNS /\ born' = born + 1
  /\ conns' = [conns EXCEPT ![c] = [state |-> state, local_port |-> port,
                                    n |-> born + 1, data |-> FALSE]]

\* What the histories say when socket i gets slot c, meant to be connection n.
Sharers(i, c) == {j \in Socks \ {i} : type[j] = "tcp" /\ conn_id[j] = c}
Gets(i, c, n, dead) ==
  /\ owns' = [owns EXCEPT ![i] = n]
  /\ suspect' = IF Sharers(i, c) # {} THEN suspect \cup {i} \cup Sharers(i, c)
                ELSE IF dead THEN suspect \cup {i} ELSE suspect \ {i}

sys_listen(i) ==
  LET c == Min(ClosedConns) IN
  /\ Begins /\ type[i] = "tcp" /\ bound_port[i] # 0 /\ ClosedConns # {}
  /\ NewConn(c, "LISTEN", bound_port[i])
  /\ conn_id' = [conn_id EXCEPT ![i] = c]
  /\ Gets(i, c, born + 1, FALSE)
  /\ UNCHANGED <<type, bound_port, ring, udpvars, call, accepted>>

\* connect and accept first get a connection from TCP ...
sys_connect(i) ==
  LET c == Min(ClosedConns)
      port == IF bound_port[i] # 0 THEN bound_port[i] ELSE Ephemeral(i)
  IN  /\ Begins /\ type[i] = "tcp" /\ conn_id[i] < 0 /\ ClosedConns # {}
      /\ NewConn(c, "SYN_SENT", port)
      /\ call' = [op |-> "connect", sock |-> i, conn |-> c, n |-> born + 1]
      /\ UNCHANGED <<socks, udpvars, ghosts>>

\* tcp_accept: the first established connection on the port, whether or not it
\* was returned before.
Acceptable(port) ==
  {c \in Conns : conns[c].state = "ESTABLISHED" /\ conns[c].local_port = port}

Accepts(i) ==
  LET c == Min(Acceptable(bound_port[i])) IN
  /\ type[i] = "tcp" /\ Acceptable(bound_port[i]) # {}
  /\ call' = [op |-> "accept", sock |-> i, conn |-> c, n |-> conns[c].n]
  /\ UNCHANGED <<socks, tcpvars, udpvars, ghosts>>

sys_accept(i) == Begins /\ Accepts(i)

\* ... and then store its slot, whatever an interrupt did to it in between.
Dead(c, n) == conns[c].n # n \/ conns[c].state = "CLOSED"

ConnectStores ==
  /\ call.op = "connect"
  /\ conn_id' = [conn_id EXCEPT ![call.sock] = call.conn]
  /\ Gets(call.sock, call.conn, call.n, Dead(call.conn, call.n))
  /\ call' = NoCall
  /\ UNCHANGED <<type, bound_port, ring, tcpvars, udpvars, calls, accepted>>

AcceptStores ==
  LET i == Min(FreeSocks) IN
  /\ call.op = "accept"
  /\ IF FreeSocks = {} THEN UNCHANGED <<socks, ghosts>>
     ELSE /\ type' = [type EXCEPT ![i] = "tcp"]
          /\ conn_id' = [conn_id EXCEPT ![i] = call.conn]
          /\ bound_port' = [bound_port EXCEPT ![i] = bound_port[call.sock]]
          /\ ring' = [ring EXCEPT ![i].head = 0, ![i].tail = 0]
          /\ Gets(i, call.conn, call.n, Dead(call.conn, call.n))
          /\ accepted' = accepted \cup {i}
  /\ call' = NoCall
  /\ UNCHANGED <<tcpvars, udpvars, calls>>

Avail(r) == (r.tail - r.head + RX_BUF_SIZE) % RX_BUF_SIZE

\* recvfrom on a UDP socket decides how much to copy, then copies.
sys_recvfrom(i, len) ==
  /\ Begins /\ type[i] = "udp" /\ Avail(ring[i]) > 0
  /\ call' = [op |-> "recvfrom", sock |-> i, left |-> Min({len, Avail(ring[i])})]
  /\ UNCHANGED <<socks, tcpvars, udpvars, ghosts>>

RecvByte ==
  LET i == call.sock
      r == ring[i]
  IN  /\ call.op = "recvfrom"
      /\ taken' = [taken EXCEPT ![i] = Append(@, r.buf[r.head])]
      /\ ring' = [ring EXCEPT ![i].head = (@ + 1) % RX_BUF_SIZE]
      /\ call' = IF call.left = 1 THEN NoCall ELSE [call EXCEPT !.left = @ - 1]
      /\ UNCHANGED <<type, conn_id, bound_port, tcpvars, handlers, bytes, pushed, calls, ghosts>>

tcp_close(c) ==
  LET s == conns[c].state
      next == CASE s \in {"ESTABLISHED", "SYN_RCVD"} -> "FIN_WAIT"
                [] s = "CLOSE_WAIT" -> "LAST_ACK"
                [] s \in {"LISTEN", "SYN_SENT"} -> "CLOSED"
                [] OTHER -> s
  IN  conns' = [conns EXCEPT ![c].state = next]

\* Mutant: the socket is freed and the connection left open.
Shutdown_keepconn(i) ==
  /\ UNCHANGED conns
  /\ type' = [type EXCEPT ![i] = "free"] /\ conn_id' = [conn_id EXCEPT ![i] = -1]
  /\ suspect' = suspect \ {i}
  /\ UNCHANGED <<bound_port, ring, born, udpvars, call, accepted, owns>>

Shutdown(i) ==
  /\ IF type[i] = "tcp" /\ conn_id[i] >= 0
     THEN tcp_close(conn_id[i]) ELSE UNCHANGED conns
  /\ type' = [type EXCEPT ![i] = "free"] /\ conn_id' = [conn_id EXCEPT ![i] = -1]
  /\ suspect' = suspect \ {i}
  /\ UNCHANGED <<bound_port, ring, born, udpvars, call, accepted, owns>>

sys_shutdown(i) == Begins /\ Shutdown(i)
-----------------------------------------------------------------------------
\* tcp_sock_close, the on_close of every connection: the first socket that has
\* the connection loses it.
tcp_sock_close(c) ==
  LET mine == {i \in Socks : type[i] = "tcp" /\ conn_id[i] = c}
  IN  /\ conn_id' = IF mine = {} THEN conn_id ELSE [conn_id EXCEPT ![Min(mine)] = -1]
      /\ UNCHANGED <<type, bound_port, ring>>

Interrupt == UNCHANGED <<udpvars, call, calls, ghosts>>
Becomes(c, state) == conns' = [conns EXCEPT ![c].state = state] /\ UNCHANGED born

\* A SYN for a port somebody listens on.
SynArrives(port) ==
  /\ \E l \in Conns : conns[l].state = "LISTEN" /\ conns[l].local_port = port
  /\ ClosedConns # {}
  /\ NewConn(Min(ClosedConns), "SYN_RCVD", port)
  /\ Interrupt /\ UNCHANGED socks

HandshakeEnds(c) ==
  /\ conns[c].state \in {"SYN_RCVD", "SYN_SENT"}
  /\ Becomes(c, "ESTABLISHED")
  /\ Interrupt /\ UNCHANGED socks

DataArrives(c) ==
  /\ conns[c].state \in {"ESTABLISHED", "FIN_WAIT"} /\ ~conns[c].data
  /\ conns' = [conns EXCEPT ![c].data = TRUE]
  /\ Interrupt /\ UNCHANGED <<socks, born>>

\* The peer's FIN, with the ACK of ours if there was one.
FinArrives(c) ==
  /\ \/ conns[c].state = "ESTABLISHED" /\ Becomes(c, "CLOSE_WAIT") /\ tcp_sock_close(c)
     \/ conns[c].state = "FIN_WAIT" /\ Becomes(c, "TIME_WAIT") /\ UNCHANGED socks
  /\ Interrupt

LastAckArrives(c) ==
  /\ conns[c].state = "LAST_ACK"
  /\ Becomes(c, "CLOSED") /\ tcp_sock_close(c)
  /\ Interrupt

\* Mutant: on_close is not called.
Aborted_silent(c) ==
  /\ conns[c].state \notin {"CLOSED", "LISTEN"}
  /\ Becomes(c, "CLOSED") /\ UNCHANGED socks
  /\ Interrupt

\* A RST, or tcp_tick after the last retry.
Aborted(c) ==
  /\ conns[c].state \notin {"CLOSED", "LISTEN"}
  /\ Becomes(c, "CLOSED") /\ tcp_sock_close(c)
  /\ Interrupt

TimeWaitExpires(c) ==
  /\ conns[c].state = "TIME_WAIT"
  /\ Becomes(c, "CLOSED")
  /\ Interrupt /\ UNCHANGED socks

\* Mutant: the ring may be filled to the last byte.
Room_full(r) == RX_BUF_SIZE - Avail(r)

Room(r) == RX_BUF_SIZE - 1 - Avail(r)

\* udp_sock_rx: the first socket bound to the port takes what it has room for.
udp_sock_rx(port, len) ==
  LET to == {i \in Socks : type[i] = "udp" /\ bound_port[i] = port}
      i == Min(to)
      r == ring[i]
      n == Min({len, Room(r)})
      fill == [k \in DOMAIN r.buf |->
                 LET at == (k - r.tail + RX_BUF_SIZE) % RX_BUF_SIZE
                 IN  IF at < n THEN bytes + 1 + at ELSE r.buf[k]]
  IN  /\ IF to = {} THEN UNCHANGED <<ring, pushed>>
         ELSE /\ ring' = [ring EXCEPT ![i].buf = fill, ![i].tail = (@ + n) % RX_BUF_SIZE]
              /\ pushed' = [pushed EXCEPT ![i] = @ \o [k \in 1 .. n |-> bytes + k]]
      /\ UNCHANGED <<type, conn_id, bound_port>>

\* udp_rx: the first handler of the port.  (No handler is ever registered for
\* port 0, the catch-all.)
udp_rx(port, len) ==
  LET hits == {k \in DOMAIN handlers : handlers[k].port = port} IN
  /\ bytes + len <= MAX_BYTES /\ bytes' = bytes + len
  /\ IF hits # {} /\ handlers[Min(hits)].to = "socket"
     THEN udp_sock_rx(port, len) ELSE UNCHANGED <<socks, pushed>>
  /\ UNCHANGED <<tcpvars, handlers, taken, call, calls, ghosts>>
-----------------------------------------------------------------------------
Calls ==
  \/ \E kind \in {"tcp", "udp"} : sys_socket(kind)
  \/ \E i \in Socks :
       \/ \E port \in Ports : sys_bind(i, port)
       \/ sys_listen(i) \/ sys_accept(i) \/ sys_connect(i) \/ sys_shutdown(i)
       \/ \E len \in 1 .. RX_BUF_SIZE : sys_recvfrom(i, len)

CallSteps == ConnectStores \/ AcceptStores \/ RecvByte

TcpEvents ==
  \/ \E port \in Ports : SynArrives(port)
  \/ \E c \in Conns : \/ HandshakeEnds(c) \/ DataArrives(c) \/ FinArrives(c)
                      \/ LastAckArrives(c) \/ Aborted(c) \/ TimeWaitExpires(c)

UdpEvents == \E port \in Ports, len \in 1 .. 2 : udp_rx(port, len)

Next == Calls \/ CallSteps \/ TcpEvents \/ UdpEvents

Spec == socket_init /\ [][Next]_vars
-----------------------------------------------------------------------------
\* What a program takes out of a UDP socket is what udp_sock_rx put in, byte for
\* byte and in order: the bytes still owed lie in the ring from rx_head on, even
\* between the steps of a recvfrom that datagrams interrupt, and a full ring is
\* never taken for an empty one (udp_sock_rx, sys_recvfrom).
DatagramsInOrder ==
  \A i \in Socks : type[i] = "udp" =>
    LET r == ring[i]
    IN  /\ Len(pushed[i]) = Len(taken[i]) + Avail(r)
        /\ \A k \in 1 .. Len(pushed[i]) :
             pushed[i][k] = IF k <= Len(taken[i]) THEN taken[i][k]
                            ELSE r.buf[(r.head + k - Len(taken[i]) - 1) % RX_BUF_SIZE]

\* No two sockets are bound to one port, those accept made for a listener's port
\* excepted until they are bound again: whatever order sockets are made, bound, bound
\* again, accepted from and shut down in, a datagram or a SYN has one taker
\* (sys_bind's check for port reuse, sys_socket's and sys_accept's resets).
PortsAreExclusive ==
  \A i, j \in Socks \ accepted :
    i # j /\ type[i] # "free" /\ type[j] # "free" /\ bound_port[i] # 0
      => bound_port[i] # bound_port[j]

\* A TCP socket's slot holds the connection it was given, still open: slots are
\* reused, so every end of a connection must reach the socket first.  The only
\* sockets this can fail for are those that were given a connection that had
\* died between the two steps of accept or connect, or that shared one with
\* another socket (tcp_sock_close, sys_shutdown, and where tcp.c calls on_close).
BindingIsRight ==
  \A i \in Socks \ suspect :
    type[i] = "tcp" /\ conn_id[i] >= 0
      => ~Dead(conn_id[i], owns[i])

IsListener(i) == conn_id[i] >= 0 /\ conns[conn_id[i]].state = "LISTEN"

\* On a listener, sys_accept finds a connection "that has no socket yet"
\* (socket.c:161), which tcp_accept marks "so we don't re-accept it on the next
\* call" (tcp.c:526-527).
AcceptsOnce ==
  call.op = "accept" /\ IsListener(call.sock)
    => \A j \in Socks : ~(type[j] = "tcp" /\ conn_id[j] = call.conn)
=============================================================================
