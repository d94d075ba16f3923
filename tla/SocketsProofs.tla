--------------------------- MODULE SocketsProofs ---------------------------
(***************************************************************************)
(* Ports stay exclusive, sockets keep the connections they were given and  *)
(* rings give datagrams back as they came, for every number of sockets,    *)
(* slots and ports, every size of the ring and every sequence of calls and *)
(* interrupts.  Three invariants, one for each: Shape and the exclusion    *)
(* itself; BindInv, which says what every connection a socket or a call in *)
(* progress holds must be; and DgramInv, on the ring as a window of the    *)
(* bytes that came.                                                        *)
(*                                                                         *)
(* Ports: all steps but three leave ports, types (freeing apart) and       *)
(* accepted alone, which Quiet says; the three are socket, bind and accept.*)
(***************************************************************************)
EXTENDS Sockets, SequenceTheorems, WellFoundedInduction, TLAPS

Table(f) == f = [i \in Socks |-> f[i]]
Shape == Table(type) /\ Table(bound_port)

Quiet ==
  /\ accepted' = accepted /\ bound_port' = bound_port
  /\ Table(type') /\ \A i \in Socks : type'[i] \in {"free", type[i]}

PortsInv == Shape /\ PortsAreExclusive

\* An entry of a table is replaced.
LEMMA TableUpdate ==
  ASSUME NEW f, Table(f), NEW i, NEW v
  PROVE  LET g == [f EXCEPT ![i] = v]
         IN  Table(g) /\ \A j \in Socks : g[j] = IF j = i THEN v ELSE f[j]
  BY Zenon DEF Table

\* A step that leaves the ports alone keeps them exclusive: a socket can only
\* have become free.
LEMMA QuietKeepsPorts ==
  ASSUME PortsInv, Quiet
  PROVE  PortsInv'
<1>1. Shape'
  BY Zenon DEF PortsInv, Quiet, Shape, Table, Socks
<1>2. \A i \in Socks : type'[i] # "free" => type[i] # "free"
  BY Zenon DEF Quiet
<1>3. accepted' = accepted /\ bound_port' = bound_port
  BY Zenon DEF Quiet
<1>4. PortsAreExclusive'
  BY <1>2, <1>3, Zenon DEF PortsInv, PortsAreExclusive, Socks
<1> QED
  BY <1>1, <1>4 DEF PortsInv

\* Interrupts, and the later steps of recvfrom and connect, change a socket's
\* connection or its ring.
LEMMA EventsAreQuiet ==
  ASSUME Shape, TcpEvents \/ UdpEvents \/ RecvByte \/ ConnectStores
  PROVE  Quiet
<1>1. type' = type /\ bound_port' = bound_port /\ accepted' = accepted
  <2>1. CASE TcpEvents
    BY Zenon, <2>1 DEF TcpEvents, SynArrives, HandshakeEnds, DataArrives, FinArrives, LastAckArrives,
       Aborted, TimeWaitExpires, Interrupt, tcp_sock_close, ghosts, socks
  <2>2. CASE UdpEvents
    BY <2>2, Zenon DEF UdpEvents, udp_rx, udp_sock_rx, ghosts, socks
  <2>3. CASE RecvByte
    BY <2>3, Zenon DEF RecvByte, ghosts
  <2>4. CASE ConnectStores
    BY <2>4, Zenon DEF ConnectStores
  <2> QED
    BY <2>1, <2>2, <2>3, <2>4
<1> QED
  BY <1>1, Zenon DEF Quiet, Shape

\* So do the calls that neither make nor bind a socket, and shutdown, which
\* frees one.
LEMMA CallsAreQuiet ==
  ASSUME Shape, NEW i \in Socks,
         \/ sys_listen(i) \/ sys_accept(i) \/ sys_connect(i) \/ sys_shutdown(i)
         \/ \E len \in 1 .. RX_BUF_SIZE : sys_recvfrom(i, len)
  PROVE  Quiet
<1>1. CASE sys_shutdown(i)
  <2>1. /\ type' = [type EXCEPT ![i] = "free"]
        /\ bound_port' = bound_port /\ accepted' = accepted
    BY <1>1, Zenon DEF sys_shutdown, Shutdown
  <2>2. Table(type') /\ \A j \in Socks : type'[j] = IF j = i THEN "free" ELSE type[j]
    BY <2>1 DEF Shape, Table
  <2> QED
    BY <2>1, <2>2, Zenon DEF Quiet
<1>2. CASE ~sys_shutdown(i)
  <2>1. type' = type /\ bound_port' = bound_port /\ accepted' = accepted
    BY <1>2, Zenon DEF sys_listen, sys_accept, Accepts, sys_connect, sys_recvfrom, ghosts, socks
  <2> QED
    BY <2>1, Zenon DEF Quiet, Shape
<1> QED
  BY <1>1, <1>2

\* socket: the new socket has no port.
LEMMA SocketKeepsPorts ==
  ASSUME PortsInv, NEW kind \in {"tcp", "udp"}, sys_socket(kind)
  PROVE  PortsInv'
<1> DEFINE new == Min(FreeSocks)
<1>1. /\ type' = [type EXCEPT ![new] = kind] /\ bound_port' = [bound_port EXCEPT ![new] = 0]
      /\ accepted' = accepted \ {new}
  BY Zenon DEF sys_socket
<1> HIDE DEF new
<1>2. /\ Shape'
      /\ \A i \in Socks : i # new => type'[i] = type[i] /\ bound_port'[i] = bound_port[i]
      /\ new \in Socks => bound_port'[new] = 0
  BY <1>1, TableUpdate, Zenon DEF PortsInv, Shape, Table, Socks
<1>3. PortsAreExclusive'
  BY <1>1, <1>2 DEF PortsInv, PortsAreExclusive, Socks
<1> QED
  BY <1>2, <1>3 DEF PortsInv

\* bind: no other socket in use has the port.
LEMMA BindKeepsPorts ==
  ASSUME PortsInv, NEW b \in Socks, NEW port \in Ports, sys_bind(b, port)
  PROVE  PortsInv'
<1>1. /\ type' = type /\ bound_port' = [bound_port EXCEPT ![b] = port]
      /\ accepted' = accepted \ {b}
      /\ \A j \in Socks \ {b} : type[j] # "free" => bound_port[j] # port
  BY Zenon DEF sys_bind
<1>2. /\ Shape'
      /\ \A i \in Socks : bound_port'[i] = IF i = b THEN port ELSE bound_port[i]
  BY <1>1, TableUpdate, Zenon DEF PortsInv, Shape, Table, Socks
<1>3. PortsAreExclusive'
  BY <1>1, <1>2 DEF PortsInv, PortsAreExclusive, Socks
<1> QED
  BY <1>2, <1>3 DEF PortsInv

\* accept: the new socket is one of those accept made.
LEMMA AcceptKeepsPorts ==
  ASSUME PortsInv, AcceptStores
  PROVE  PortsInv'
<1> DEFINE new == Min(FreeSocks)
<1>1. CASE FreeSocks = {}
  <2>1. type' = type /\ bound_port' = bound_port /\ accepted' = accepted
    BY <1>1, Zenon DEF AcceptStores, ghosts, socks
  <2> QED
    BY <2>1, QuietKeepsPorts, Zenon DEF Quiet, PortsInv, Shape
<1>2. CASE FreeSocks # {}
  <2>1. /\ type' = [type EXCEPT ![new] = "tcp"]
        /\ bound_port' = [bound_port EXCEPT ![new] = bound_port[call.sock]]
        /\ accepted' = accepted \cup {new}
    BY <1>2, Zenon DEF AcceptStores
  <2> HIDE DEF new
  <2>2. /\ Shape'
        /\ \A i \in Socks : i # new => type'[i] = type[i] /\ bound_port'[i] = bound_port[i]
    BY <2>1, TableUpdate, Zenon DEF PortsInv, Shape, Table, Socks
  <2>3. PortsAreExclusive'
    BY <2>1, <2>2 DEF PortsInv, PortsAreExclusive, Socks
  <2> QED
    BY <2>2, <2>3 DEF PortsInv
<1> QED
  BY <1>1, <1>2

\* sys_bind's check for port reuse suffices, for any number of sockets and
\* connections and whatever calls and interrupts come between: two sockets in
\* use never hold one port, those made by accept for their listener's port
\* excepted.
THEOREM PortsStayExclusive == Spec => []PortsAreExclusive
<1>1. socket_init => PortsInv
  BY Zenon DEF socket_init, PortsInv, Shape, Table, PortsAreExclusive, Socks
<1>2. PortsInv /\ [Next]_vars => PortsInv'
  <2> SUFFICES ASSUME PortsInv, [Next]_vars PROVE PortsInv'
    OBVIOUS
  <2>0. Shape
    BY DEF PortsInv
  <2>1. CASE Calls
    <3>1. ASSUME NEW kind \in {"tcp", "udp"}, sys_socket(kind) PROVE PortsInv'
      BY <3>1, SocketKeepsPorts
    <3>2. ASSUME NEW i \in Socks, NEW port \in Ports, sys_bind(i, port) PROVE PortsInv'
      BY <3>2, BindKeepsPorts
    <3>3. ASSUME NEW i \in Socks,
                 \/ sys_listen(i) \/ sys_accept(i) \/ sys_connect(i) \/ sys_shutdown(i)
                 \/ \E len \in 1 .. RX_BUF_SIZE : sys_recvfrom(i, len)
          PROVE  PortsInv'
      BY <2>0, <3>3, CallsAreQuiet, QuietKeepsPorts
    <3> QED
      BY <2>1, <3>1, <3>2, <3>3 DEF Calls
  <2>2. CASE AcceptStores
    BY <2>2, AcceptKeepsPorts
  <2>3. CASE TcpEvents \/ UdpEvents \/ RecvByte \/ ConnectStores
    BY <2>0, <2>3, EventsAreQuiet, QuietKeepsPorts
  <2>4. CASE UNCHANGED vars
    <3>1. type' = type /\ bound_port' = bound_port /\ accepted' = accepted
      BY <2>4 DEF vars, socks, ghosts
    <3> QED
      BY <2>0, <3>1, QuietKeepsPorts, Zenon DEF Quiet, Shape
  <2> QED
    BY <2>1, <2>2, <2>3, <2>4 DEF Next, CallSteps
<1> QED
  BY <1>1, <1>2, PTL DEF Spec, PortsInv
-----------------------------------------------------------------------------
(***************************************************************************)
(* A socket's slot holds its connection.  The invariant follows what makes *)
(* slots safe to reuse: a connection that nobody will be told about when   *)
(* it ends (FIN_WAIT, TIME_WAIT) has no socket, because only shutdown puts *)
(* it there and the socket is gone, and a socket above suspicion shares    *)
(* its slot with no other, so that on_close finds it.                      *)
(***************************************************************************)
ConnStates == {"CLOSED", "LISTEN", "SYN_SENT", "SYN_RCVD", "ESTABLISHED", "FIN_WAIT",
               "CLOSE_WAIT", "LAST_ACK", "TIME_WAIT"}
ConnRecords == [state : ConnStates, local_port : Nat, n : Nat, data : BOOLEAN]
Gone == {"CLOSED", "FIN_WAIT", "TIME_WAIT"}
Getting == call.op \in {"connect", "accept"}

BindTypes ==
  /\ type \in [Socks -> {"free", "tcp", "udp"}]
  /\ conn_id \in [Socks -> Conns \cup {-1}]
  /\ bound_port \in [Socks -> Nat]
  /\ owns \in [Socks -> Nat]
  /\ conns \in [Conns -> ConnRecords] /\ born \in Nat
  /\ Getting => call.sock \in Socks /\ call.conn \in Conns /\ call.n \in Nat
  /\ call.op = "recvfrom" => call = [op |-> "recvfrom", sock |-> call.sock, left |-> call.left]

Holds(i, c) == type[i] = "tcp" /\ conn_id[i] = c

\* Socket i, if it has a connection, has it alone and as it was given.
Sound(i) ==
  \A c \in Conns : Holds(i, c) =>
    /\ conns[c].n = owns[i] /\ conns[c].state \notin Gone
    /\ \A j \in Socks : Holds(j, c) => j = i

\* Between the two steps of connect and accept nobody can shut the connection
\* down.
CallIsOpen ==
  Getting /\ conns[call.conn].n = call.n
    => conns[call.conn].state \notin {"FIN_WAIT", "TIME_WAIT"}

BindInv == BindTypes /\ CallIsOpen /\ \A i \in Socks \ suspect : Sound(i)

\* The least member of a set of slots, which the loops of socket.c and tcp.c find.
LEMMA MinIsMember ==
  ASSUME NEW S \in SUBSET Nat, S # {}
  PROVE  Min(S) \in S /\ \A y \in S : Min(S) <= y
<1> DEFINE R == OpToRel(<, Nat)
<1>1. \E x \in S : \A y \in S : ~(<<y, x>> \in R)
  BY Zenon, WFMin, NatLessThanWellFounded
<1>2. \A x, y \in Nat : <<y, x>> \in R <=> y < x
  BY DEF OpToRel
<1> HIDE DEF R
<1>3. PICK x \in S : \A y \in S : ~(<<y, x>> \in R)
  BY <1>1
<1>4. \A y \in S : x <= y
  <2> SUFFICES ASSUME NEW y \in S PROVE ~(y < x)
    OBVIOUS
  <2>1. ~(<<y, x>> \in R)
    BY <1>3
  <2>2. x \in Nat /\ y \in Nat
    OBVIOUS
  <2> QED BY <1>2, <2>1, <2>2, Zenon
<1> QED BY Zenon, <1>4 DEF Min

LEMMA FirstSlots ==
  /\ FreeSocks # {} => Min(FreeSocks) \in Socks /\ type[Min(FreeSocks)] = "free"
  /\ ClosedConns # {} => Min(ClosedConns) \in Conns /\ conns[Min(ClosedConns)].state = "CLOSED"
  /\ \A port : Acceptable(port) # {} => Min(Acceptable(port)) \in Acceptable(port)
  /\ \A S \in SUBSET Socks : S # {} => Min(S) \in S
<1>1. Socks \subseteq Nat /\ Conns \subseteq Nat
  BY SocketConstants DEF Socks, Conns
<1>2. FreeSocks \in SUBSET Nat /\ ClosedConns \in SUBSET Nat /\ \A port : Acceptable(port) \in SUBSET Nat
  BY Zenon, <1>1 DEF FreeSocks, ClosedConns, Acceptable
<1>3. FreeSocks # {} => Min(FreeSocks) \in FreeSocks
  BY <1>2, MinIsMember
<1>4. ClosedConns # {} => Min(ClosedConns) \in ClosedConns
  BY <1>2, MinIsMember
<1>5. \A port : Acceptable(port) # {} => Min(Acceptable(port)) \in Acceptable(port)
  BY <1>2, MinIsMember
<1>6. \A S \in SUBSET Socks : S # {} => Min(S) \in S
  BY <1>1, MinIsMember
<1> QED BY <1>3, <1>4, <1>5, <1>6 DEF FreeSocks, ClosedConns

\* A socket stays sound when its own slot, if it has one, keeps the number and
\* does not go, and nobody joins it.
LEMMA StaysSound ==
  ASSUME NEW i \in Socks, Sound(i),
         owns'[i] = owns[i],
         \A c \in Conns : Holds(i, c)' =>
           /\ Holds(i, c) /\ conns'[c].n = conns[c].n
           /\ conns[c].state \notin Gone => conns'[c].state \notin Gone
           /\ \A j \in Socks : Holds(j, c)' => Holds(j, c) \/ j = i
  PROVE  Sound(i)'
<1> SUFFICES ASSUME NEW c \in Conns, Holds(i, c)'
             PROVE  /\ conns'[c].n = owns'[i] /\ conns'[c].state \notin Gone
                    /\ \A j \in Socks : Holds(j, c)' => j = i
  BY DEF Sound, Conns, Socks, Gone
<1>1. /\ Holds(i, c) /\ conns'[c].n = conns[c].n
      /\ conns[c].state \notin Gone => conns'[c].state \notin Gone
      /\ \A j \in Socks : Holds(j, c)' => Holds(j, c) \/ j = i
  OBVIOUS
<1>2. conns[c].n = owns[i] /\ conns[c].state \notin Gone /\ \A j \in Socks : Holds(j, c) => j = i
  BY <1>1 DEF Sound
<1> QED BY <1>1, <1>2

\* The socket i comes to hold slot c and no other; the others hold what they
\* held, and nothing has become of the slots of those not under suspicion.
OnlyGets(i, c) ==
  /\ \A j \in Socks \ {i}, d \in Conns : Holds(j, d)' <=> Holds(j, d)
  /\ \A d \in Conns : Holds(i, d)' => d = c

SlotsStay(i) ==
  \A j \in Socks \ suspect, d \in Conns :
    j # i /\ Holds(j, d) => /\ conns'[d].n = conns[d].n
                            /\ conns[d].state \notin Gone => conns'[d].state \notin Gone

LivesOn(c, n, dead) == ~dead => conns'[c].n = n /\ conns'[c].state \notin Gone

\* A socket is given a connection: sockets that shared the slot fall under
\* suspicion with it.
LEMMA GetsStaysSound ==
  ASSUME \A j \in Socks \ suspect : Sound(j), owns \in [Socks -> Nat],
         NEW i \in Socks, NEW c \in Conns, NEW n \in Nat, NEW dead \in BOOLEAN,
         Gets(i, c, n, dead),
         OnlyGets(i, c), SlotsStay(i), LivesOn(c, n, dead)
  PROVE  \A j \in Socks \ suspect' : Sound(j)'
<1> USE DEF OnlyGets, SlotsStay, LivesOn
<1>1. /\ owns' = [owns EXCEPT ![i] = n]
      /\ \/ Sharers(i, c) # {} /\ suspect' = suspect \cup {i} \cup Sharers(i, c)
         \/ Sharers(i, c) = {} /\ dead /\ suspect' = suspect \cup {i}
         \/ Sharers(i, c) = {} /\ ~dead /\ suspect' = suspect \ {i}
  BY DEF Gets
<1>2. \A k \in Socks : k # i /\ Holds(k, c) => k \in Sharers(i, c)
  BY DEF Sharers, Holds
<1>3. ASSUME i \notin suspect'
      PROVE  Sound(i)'
  <2>1. Sharers(i, c) = {} /\ ~dead /\ owns'[i] = n
    BY <1>1, <1>3
  <2>2. ASSUME NEW d \in Conns, Holds(i, d)'
        PROVE  /\ conns'[d].n = owns'[i] /\ conns'[d].state \notin Gone
               /\ \A k \in Socks : Holds(k, d)' => k = i
    BY <1>2, <2>1, <2>2
  <2> QED BY <2>2 DEF Sound, Conns, Socks, Gone
<1>4. ASSUME NEW j \in Socks, j # i, j \notin suspect'
      PROVE  Sound(j)'
  <2>1. j \notin suspect /\ Sound(j) /\ j \notin Sharers(i, c) /\ owns'[j] = owns[j]
    BY <1>1, <1>4
  <2>2. ~Holds(j, c)
    BY <1>2, <1>4, <2>1
  <2>3. ASSUME NEW d \in Conns, Holds(j, d)'
        PROVE  /\ Holds(j, d) /\ conns'[d].n = conns[d].n
               /\ conns[d].state \notin Gone => conns'[d].state \notin Gone
               /\ \A k \in Socks : Holds(k, d)' => Holds(k, d) \/ k = j
    <3>1. Holds(j, d) /\ d # c
      BY <1>4, <2>2, <2>3
    <3> QED BY <1>4, <2>1, <3>1
  <2> QED BY <2>1, <2>3, StaysSound
<1> QED BY <1>3, <1>4

\* on_close reaches the socket that has the connection.
LEMMA CloseTells ==
  ASSUME BindTypes, NEW c \in Conns, tcp_sock_close(c)
  PROVE  /\ \A j \in Socks, d \in Conns : Holds(j, d)' => Holds(j, d)
         /\ \A j \in Socks : Sound(j) => ~Holds(j, c)'
<1> DEFINE mine == {i \in Socks : type[i] = "tcp" /\ conn_id[i] = c}
<1>1. /\ conn_id' = IF mine = {} THEN conn_id ELSE [conn_id EXCEPT ![Min(mine)] = -1]
      /\ type' = type
  BY DEF tcp_sock_close
<1>2. mine # {} => Min(mine) \in mine
  BY FirstSlots
<1>3. conn_id \in [Socks -> Conns \cup {-1}] /\ -1 \notin Conns
  BY SocketConstants DEF BindTypes, Conns
<1>4. \A j \in Socks : Holds(j, c) <=> j \in mine
  BY DEF Holds
<1> HIDE DEF mine
<1>5. CASE mine = {}
  BY <1>1, <1>4, <1>5 DEF Holds
<1>6. CASE mine # {}
  <2>1. PICK m : m = Min(mine)
    OBVIOUS
  <2>2. m \in Socks /\ Holds(m, c) /\ conn_id' = [conn_id EXCEPT ![m] = -1]
    BY <1>1, <1>2, <1>4, <1>6, <2>1 DEF mine
  <2>3. conn_id'[m] = -1 /\ \A j \in Socks : j # m => conn_id'[j] = conn_id[j]
    BY <1>3, <2>2
  <2>4. \A j \in Socks, d \in Conns : Holds(j, d)' => Holds(j, d) /\ j # m
    BY <1>1, <1>3, <2>3 DEF Holds
  <2>5. \A j \in Socks : Sound(j) /\ Holds(j, c) => j = m
    BY <2>2 DEF Sound
  <2> QED BY <2>4, <2>5
<1> QED BY <1>5, <1>6

\* The slots of the connection table after one of them changes.
LEMMA OtherSlots ==
  ASSUME conns \in [Conns -> ConnRecords], NEW c \in Conns
  PROVE  /\ \A s \in ConnStates : conns' = [conns EXCEPT ![c].state = s] =>
              /\ conns' \in [Conns -> ConnRecords]
              /\ conns'[c].n = conns[c].n /\ conns'[c].state = s
              /\ \A d \in Conns : d # c => conns'[d] = conns[d]
         /\ conns' = [conns EXCEPT ![c].data = TRUE] =>
              /\ conns' \in [Conns -> ConnRecords]
              /\ conns'[c].n = conns[c].n /\ conns'[c].state = conns[c].state
              /\ \A d \in Conns : d # c => conns'[d] = conns[d]
         /\ \A s \in ConnStates, port \in Nat : NewConn(c, s, port) /\ born \in Nat =>
              /\ conns' \in [Conns -> ConnRecords] /\ born' \in Nat
              /\ conns'[c].n = born + 1 /\ conns'[c].state = s
              /\ \A d \in Conns : d # c => conns'[d] = conns[d]
<1>1. ASSUME NEW s \in ConnStates, conns' = [conns EXCEPT ![c].state = s]
      PROVE  /\ conns' \in [Conns -> ConnRecords]
             /\ conns'[c].n = conns[c].n /\ conns'[c].state = s
             /\ \A d \in Conns : d # c => conns'[d] = conns[d]
  <2>1. [conns[c] EXCEPT !.state = s] \in ConnRecords
    BY DEF ConnRecords
  <2>2. conns' = [conns EXCEPT ![c] = [conns[c] EXCEPT !.state = s]]
    BY <1>1
  <2> QED BY <2>1, <2>2 DEF ConnRecords
<1>2. ASSUME conns' = [conns EXCEPT ![c].data = TRUE]
      PROVE  /\ conns' \in [Conns -> ConnRecords]
             /\ conns'[c].n = conns[c].n /\ conns'[c].state = conns[c].state
             /\ \A d \in Conns : d # c => conns'[d] = conns[d]
  <2>1. [conns[c] EXCEPT !.data = TRUE] \in ConnRecords
    BY Zenon DEF ConnRecords
  <2>2. conns' = [conns EXCEPT ![c] = [conns[c] EXCEPT !.data = TRUE]]
    BY <1>2
  <2> QED BY <2>1, <2>2 DEF ConnRecords
<1>3. ASSUME NEW s \in ConnStates, NEW port \in Nat, NewConn(c, s, port), born \in Nat
      PROVE  /\ conns' \in [Conns -> ConnRecords] /\ born' \in Nat
             /\ conns'[c].n = born + 1 /\ conns'[c].state = s
             /\ \A d \in Conns : d # c => conns'[d] = conns[d]
  <2>1. PICK r : r = [state |-> s, local_port |-> port, n |-> born + 1, data |-> FALSE]
    BY Zenon
  <2>2. r \in ConnRecords /\ r.n = born + 1 /\ r.state = s
    BY <1>3, <2>1 DEF ConnRecords
  <2>3. conns' = [conns EXCEPT ![c] = r] /\ born' \in Nat
    BY <1>3, <2>1 DEF NewConn
  <2> QED BY <2>2, <2>3
<1> QED BY <1>1, <1>2, <1>3

\* Steps that leave sockets and connections alone.
LEMMA StillBound ==
  ASSUME BindInv, UNCHANGED <<type, conn_id, conns, born, owns, suspect>>, BindTypes', CallIsOpen'
  PROVE  BindInv'
<1>1. ASSUME NEW i \in Socks \ suspect'
      PROVE  Sound(i)'
  <2>1. Sound(i)
    BY DEF BindInv
  <2> QED BY <2>1 DEF Sound, Holds
<1> QED BY <1>1 DEF BindInv

\* An interrupt changes one connection.  A sound socket that has it must be
\* told if it goes.
LEMMA EventKeepsBinding ==
  ASSUME BindInv, NEW c \in Conns, conns' \in [Conns -> ConnRecords], born' \in Nat,
         UNCHANGED <<type, bound_port, call, owns, suspect>>,
         \A d \in Conns : d # c => conns'[d] = conns[d],
         conn_id' = conn_id \/ tcp_sock_close(c),
         \/ conns[c].state \in Gone \/ tcp_sock_close(c)
         \/ conns'[c].n = conns[c].n /\ conns'[c].state \notin Gone,
         \/ conns'[c].state \notin {"FIN_WAIT", "TIME_WAIT"}
         \/ conns'[c].n = conns[c].n /\ conns[c].state \in {"FIN_WAIT", "TIME_WAIT"}
  PROVE  BindInv'
<1>0. BindTypes
  BY DEF BindInv
<1>1. BindTypes'
  <2>1. conn_id' \in [Socks -> Conns \cup {-1}]
    <3>1. CASE conn_id' = conn_id
      BY <1>0, <3>1 DEF BindTypes
    <3>2. CASE tcp_sock_close(c)
      <4>1. PICK m : conn_id' = conn_id \/ conn_id' = [conn_id EXCEPT ![m] = -1]
        BY Zenon, <3>2 DEF tcp_sock_close
      <4> QED BY <1>0, <4>1 DEF BindTypes
    <3> QED BY <3>1, <3>2
  <2> QED BY <1>0, <2>1 DEF BindTypes, Getting
<1>2. CallIsOpen'
  <2>1. CASE ~Getting
    BY <2>1 DEF CallIsOpen, Getting
  <2>2. CASE Getting /\ call.conn # c
    <3>1. call.conn \in Conns
      BY <1>0, <2>2 DEF BindTypes
    <3> QED BY <2>2, <3>1 DEF BindInv, CallIsOpen, Getting
  <2>3. CASE Getting /\ call.conn = c
    BY <2>3 DEF BindInv, CallIsOpen, Getting
  <2> QED BY <2>1, <2>2, <2>3
<1>3. ASSUME NEW i \in Socks \ suspect'
      PROVE  Sound(i)'
  <2>1. Sound(i)
    BY DEF BindInv
  <2>2. \A j \in Socks, d \in Conns : Holds(j, d)' => Holds(j, d)
    BY <1>0, CloseTells DEF Holds
  <2>3. tcp_sock_close(c) => ~Holds(i, c)'
    BY <1>0, <2>1, CloseTells
  <2>4. ASSUME NEW d \in Conns, Holds(i, d)'
        PROVE  /\ Holds(i, d) /\ conns'[d].n = conns[d].n
               /\ conns[d].state \notin Gone => conns'[d].state \notin Gone
               /\ \A k \in Socks : Holds(k, d)' => Holds(k, d) \/ k = i
    <3>1. Holds(i, d)
      BY <2>2, <2>4
    <3>2. CASE d # c
      BY <2>2, <3>1, <3>2
    <3>3. CASE d = c
      <4>1. conns[c].state \notin Gone
        BY <2>1, <3>1, <3>3 DEF Sound
      <4> QED BY <2>2, <2>3, <2>4, <3>1, <3>3, <4>1
    <3> QED BY <3>2, <3>3
  <2> QED BY <2>1, <2>4, StaysSound
<1> QED BY <1>1, <1>2, <1>3 DEF BindInv

LEMMA TcpEventsKeepBinding ==
  ASSUME BindInv, TcpEvents
  PROVE  BindInv'
<1>0. conns \in [Conns -> ConnRecords] /\ born \in Nat
  BY DEF BindInv, BindTypes
<1>1. ASSUME NEW port \in Ports, SynArrives(port)
      PROVE  BindInv'
  <2>1. PICK c \in Conns : conns[c].state = "CLOSED" /\ NewConn(c, "SYN_RCVD", port)
    BY <1>1, FirstSlots DEF SynArrives
  <2>2. /\ conns' \in [Conns -> ConnRecords] /\ born' \in Nat /\ conns'[c].state = "SYN_RCVD"
        /\ \A d \in Conns : d # c => conns'[d] = conns[d]
    BY <1>0, <2>1, OtherSlots, SocketConstants DEF ConnStates
  <2>3. UNCHANGED <<type, conn_id, bound_port, call, owns, suspect>>
    BY <1>1 DEF SynArrives, Interrupt, socks, ghosts
  <2> QED BY <2>1, <2>2, <2>3, EventKeepsBinding DEF Gone
<1>2. ASSUME NEW c \in Conns, NEW s \in ConnStates, Becomes(c, s)
      PROVE  /\ conns' \in [Conns -> ConnRecords] /\ born' \in Nat
             /\ conns'[c].n = conns[c].n /\ conns'[c].state = s
             /\ \A d \in Conns : d # c => conns'[d] = conns[d]
  BY Zenon, <1>0, <1>2, OtherSlots DEF Becomes
<1>3. ASSUME NEW c \in Conns, HandshakeEnds(c)
      PROVE  BindInv'
  <2>1. Becomes(c, "ESTABLISHED") /\ UNCHANGED <<type, conn_id, bound_port, call, owns, suspect>>
    BY <1>3 DEF HandshakeEnds, Interrupt, socks, ghosts
  <2>2. /\ conns' \in [Conns -> ConnRecords] /\ born' \in Nat
        /\ conns'[c].n = conns[c].n /\ conns'[c].state = "ESTABLISHED"
        /\ \A d \in Conns : d # c => conns'[d] = conns[d]
    BY <1>2, <2>1 DEF ConnStates
  <2> QED BY <2>1, <2>2, EventKeepsBinding DEF Gone
<1>4. ASSUME NEW c \in Conns, DataArrives(c)
      PROVE  BindInv'
  <2>1. /\ conns' = [conns EXCEPT ![c].data = TRUE] /\ born' = born
        /\ UNCHANGED <<type, conn_id, bound_port, call, owns, suspect>>
    BY <1>4 DEF DataArrives, Interrupt, socks, ghosts
  <2>2. /\ conns' \in [Conns -> ConnRecords]
        /\ conns'[c].n = conns[c].n /\ conns'[c].state = conns[c].state
        /\ \A d \in Conns : d # c => conns'[d] = conns[d]
    BY Zenon, <1>0, <2>1, OtherSlots
  <2> QED BY Zenon, <1>0, <2>1, <2>2, EventKeepsBinding DEF Gone
<1>5. ASSUME NEW c \in Conns, FinArrives(c)
      PROVE  BindInv'
  <2>0. UNCHANGED <<call, owns, suspect>>
    BY <1>5 DEF FinArrives, Interrupt, ghosts
  <2>1. CASE conns[c].state = "ESTABLISHED" /\ Becomes(c, "CLOSE_WAIT") /\ tcp_sock_close(c)
    <3>1. /\ conns' \in [Conns -> ConnRecords] /\ born' \in Nat /\ conns'[c].state = "CLOSE_WAIT"
          /\ \A d \in Conns : d # c => conns'[d] = conns[d]
      BY <1>2, <2>1 DEF ConnStates
    <3>2. UNCHANGED <<type, bound_port>>
      BY <2>1 DEF tcp_sock_close
    <3> QED BY <2>0, <2>1, <3>1, <3>2, EventKeepsBinding
  <2>2. CASE conns[c].state = "FIN_WAIT" /\ Becomes(c, "TIME_WAIT") /\ UNCHANGED socks
    <3>1. /\ conns' \in [Conns -> ConnRecords] /\ born' \in Nat /\ conns'[c].n = conns[c].n
          /\ \A d \in Conns : d # c => conns'[d] = conns[d]
      BY <1>2, <2>2 DEF ConnStates
    <3>2. UNCHANGED <<type, conn_id, bound_port>>
      BY <2>2 DEF socks
    <3> QED BY <2>0, <2>2, <3>1, <3>2, EventKeepsBinding DEF Gone
  <2> QED BY <1>5, <2>1, <2>2 DEF FinArrives
<1>6. ASSUME NEW c \in Conns, LastAckArrives(c) \/ Aborted(c)
      PROVE  BindInv'
  <2>1. /\ Becomes(c, "CLOSED") /\ tcp_sock_close(c)
        /\ UNCHANGED <<type, bound_port, call, owns, suspect>>
    BY Zenon, <1>6 DEF LastAckArrives, Aborted, Interrupt, tcp_sock_close, ghosts
  <2>2. /\ conns' \in [Conns -> ConnRecords] /\ born' \in Nat /\ conns'[c].state = "CLOSED"
        /\ \A d \in Conns : d # c => conns'[d] = conns[d]
    BY <1>2, <2>1 DEF ConnStates
  <2> QED BY Zenon, <2>1, <2>2, EventKeepsBinding
<1>7. ASSUME NEW c \in Conns, TimeWaitExpires(c)
      PROVE  BindInv'
  <2>1. /\ Becomes(c, "CLOSED") /\ conns[c].state = "TIME_WAIT"
        /\ UNCHANGED <<type, conn_id, bound_port, call, owns, suspect>>
    BY <1>7 DEF TimeWaitExpires, Interrupt, socks, ghosts
  <2>2. /\ conns' \in [Conns -> ConnRecords] /\ born' \in Nat /\ conns'[c].state = "CLOSED"
        /\ \A d \in Conns : d # c => conns'[d] = conns[d]
    BY <1>2, <2>1 DEF ConnStates
  <2> QED BY Zenon, <2>1, <2>2, EventKeepsBinding DEF Gone
<1> QED BY <1>1, <1>3, <1>4, <1>5, <1>6, <1>7 DEF TcpEvents

\* socket: the new socket has no connection.
LEMMA SocketKeepsBinding ==
  ASSUME BindInv, NEW kind \in {"tcp", "udp"}, sys_socket(kind)
  PROVE  BindInv'
<1>0. BindTypes /\ -1 \notin Conns
  BY SocketConstants DEF BindInv, Conns
<1>1. PICK new \in Socks :
        /\ type' = [type EXCEPT ![new] = kind] /\ conn_id' = [conn_id EXCEPT ![new] = -1]
        /\ bound_port' = [bound_port EXCEPT ![new] = 0] /\ suspect' = suspect \ {new}
  BY Zenon, FirstSlots DEF sys_socket
<1>2. UNCHANGED <<conns, born, call, owns>> /\ call = NoCall
  BY DEF sys_socket, tcpvars, Begins
<1>3. ~Getting /\ ~Getting' /\ call'.op # "recvfrom"
  BY <1>2 DEF Getting, NoCall
<1>4. BindTypes'
  BY <1>0, <1>1, <1>2, <1>3 DEF BindTypes
<1>5. \A j \in Socks, d \in Conns : Holds(j, d)' => Holds(j, d) /\ j # new
  BY Zenon, <1>0, <1>1 DEF BindTypes, Holds
<1>6. ASSUME NEW i \in Socks \ suspect'
      PROVE  Sound(i)'
  <2>1. CASE i = new
    BY <1>5, <2>1 DEF Sound, Conns
  <2>2. CASE i # new
    <3>1. Sound(i)
      BY <1>1, <2>2 DEF BindInv
    <3> QED BY <1>2, <1>5, <3>1, StaysSound
  <2> QED BY <2>1, <2>2
<1> QED BY <1>3, <1>4, <1>6 DEF BindInv, CallIsOpen

\* listen: the listener's slot is a closed one, so no sound socket has it.
LEMMA ListenKeepsBinding ==
  ASSUME BindInv, NEW i \in Socks, sys_listen(i)
  PROVE  BindInv'
<1>0. BindTypes /\ bound_port[i] \in Nat /\ born \in Nat /\ born + 1 \in Nat
  BY DEF BindInv, BindTypes
<1>1. PICK c \in Conns :
        /\ conns[c].state = "CLOSED" /\ NewConn(c, "LISTEN", bound_port[i])
        /\ conn_id' = [conn_id EXCEPT ![i] = c] /\ Gets(i, c, born + 1, FALSE)
  BY Zenon, FirstSlots DEF sys_listen
<1>2. UNCHANGED <<type, bound_port, call>> /\ call = NoCall
  BY DEF sys_listen, Begins
<1>3. ~Getting /\ ~Getting' /\ call'.op # "recvfrom"
  BY <1>2 DEF Getting, NoCall
<1>4. /\ conns' \in [Conns -> ConnRecords] /\ born' \in Nat
      /\ conns'[c].n = born + 1 /\ conns'[c].state = "LISTEN"
      /\ \A d \in Conns : d # c => conns'[d] = conns[d]
  BY <1>0, <1>1, OtherSlots DEF BindTypes, ConnStates
<1>5. owns' \in [Socks -> Nat]
  BY Zenon, <1>0, <1>1 DEF Gets, BindTypes
<1>6. BindTypes'
  BY Zenon, <1>0, <1>1, <1>2, <1>3, <1>4, <1>5 DEF BindTypes
<1>7. /\ \A j \in Socks \ {i}, d \in Conns : Holds(j, d)' <=> Holds(j, d)
      /\ \A d \in Conns : Holds(i, d)' => d = c
  BY <1>0, <1>1, <1>2 DEF BindTypes, Holds
<1>8. ASSUME NEW j \in Socks \ suspect, NEW d \in Conns, Holds(j, d)
      PROVE  conns'[d] = conns[d]
  <2>1. d # c
    BY Zenon, <1>1, <1>8 DEF BindInv, Sound, Gone
  <2> QED BY <1>4, <2>1
<1>9. \A j \in Socks \ suspect' : Sound(j)'
  <2>1. conns'[c].state \notin Gone /\ owns \in [Socks -> Nat]
    BY <1>0, <1>4 DEF Gone, BindTypes
  <2>2. \A j \in Socks \ suspect : Sound(j)
    BY DEF BindInv
  <2>3. OnlyGets(i, c) /\ SlotsStay(i) /\ LivesOn(c, born + 1, FALSE)
    BY Zenon, <1>4, <1>7, <1>8, <2>1 DEF OnlyGets, SlotsStay, LivesOn
  <2>4. FALSE \in BOOLEAN /\ born + 1 \in Nat
    BY <1>0 DEF BindTypes
  <2> QED BY Zenon, <1>1, <2>1, <2>2, <2>3, <2>4, GetsStaysSound
<1> QED BY Zenon, <1>3, <1>6, <1>9 DEF BindInv, CallIsOpen

\* The first steps of connect and accept.
LEMMA ConnectKeepsBinding ==
  ASSUME BindInv, NEW i \in Socks, sys_connect(i)
  PROVE  BindInv'
<1>0. BindTypes /\ born \in Nat
  BY Zenon DEF BindInv, BindTypes
<1> DEFINE port == IF bound_port[i] # 0 THEN bound_port[i] ELSE Ephemeral(i)
<1>1. port \in Nat
  <2>1. i \in Nat /\ bound_port[i] \in Nat
    BY <1>0, SocketConstants DEF Socks, BindTypes
  <2> QED BY <2>1 DEF Ephemeral, SOCK_FD_BASE
<1>2. PICK c \in Conns :
        /\ conns[c].state = "CLOSED" /\ NewConn(c, "SYN_SENT", port)
        /\ call' = [op |-> "connect", sock |-> i, conn |-> c, n |-> born + 1]
  BY Zenon, FirstSlots DEF sys_connect
<1> HIDE DEF port
<1>3. UNCHANGED <<type, conn_id, bound_port, owns, suspect>>
  BY DEF sys_connect, socks, ghosts
<1>4. /\ conns' \in [Conns -> ConnRecords] /\ born' \in Nat
      /\ conns'[c].n = born + 1 /\ conns'[c].state = "SYN_SENT"
      /\ \A d \in Conns : d # c => conns'[d] = conns[d]
  BY <1>0, <1>1, <1>2, OtherSlots DEF BindTypes, ConnStates
<1>5. /\ call'.op = "connect" /\ call'.sock = i /\ call'.conn = c /\ call'.n = born + 1
      /\ born + 1 \in Nat
  <2>1. born + 1 \in Nat
    BY <1>0
  <2>2. call'.op = "connect" /\ call'.sock = i /\ call'.conn = c /\ call'.n = born + 1
    BY <1>2
  <2> QED BY <2>1, <2>2
<1>6. BindTypes'
  BY Zenon, <1>0, <1>3, <1>4, <1>5 DEF BindTypes, Getting
<1>7. CallIsOpen'
  BY <1>4, <1>5 DEF CallIsOpen
<1>8. ASSUME NEW j \in Socks \ suspect'
      PROVE  Sound(j)'
  <2>1. Sound(j)
    BY <1>3 DEF BindInv
  <2>2. \A k \in Socks, d \in Conns : Holds(k, d)' <=> Holds(k, d)
    BY <1>3 DEF Holds
  <2>3. \A d \in Conns : Holds(j, d) => conns'[d] = conns[d]
    BY Zenon, <1>2, <1>4, <2>1 DEF Sound, Gone
  <2> QED BY Zenon, <1>3, <2>1, <2>2, <2>3, StaysSound
<1> QED BY <1>6, <1>7, <1>8 DEF BindInv

LEMMA AcceptKeepsBinding ==
  ASSUME BindInv, NEW i \in Socks, sys_accept(i)
  PROVE  BindInv'
<1>0. BindTypes
  BY DEF BindInv
<1>1. PICK c \in Acceptable(bound_port[i]) :
        call' = [op |-> "accept", sock |-> i, conn |-> c, n |-> conns[c].n]
  BY Zenon, FirstSlots DEF sys_accept, Accepts
<1>2. UNCHANGED <<type, conn_id, bound_port, conns, born, owns, suspect>>
  BY Zenon DEF sys_accept, Accepts, socks, tcpvars, ghosts
<1>3. c \in Conns /\ conns[c].state = "ESTABLISHED" /\ conns[c].n \in Nat
  BY Zenon, <1>0, <1>1 DEF Acceptable, BindTypes, ConnRecords
<1>4. call'.op = "accept" /\ call'.sock = i /\ call'.conn = c /\ call'.n = conns[c].n
  BY <1>1
<1>5. BindTypes' /\ CallIsOpen'
  BY Zenon, <1>0, <1>2, <1>3, <1>4 DEF BindTypes, Getting, CallIsOpen
<1> QED BY <1>2, <1>5, StillBound

\* Their second steps: a connection that died in between leaves the socket under
\* suspicion, and one that lives is not on its way out.
LEMMA StoreKeepsBinding ==
  ASSUME BindInv, Getting, NEW i \in Socks, call' = NoCall, UNCHANGED <<conns, born>>,
         BindTypes',
         Gets(i, call.conn, call.n, Dead(call.conn, call.n)),
         \A j \in Socks \ {i} : type'[j] = type[j] /\ conn_id'[j] = conn_id[j],
         conn_id'[i] = call.conn
  PROVE  BindInv'
<1>0. BindTypes
  BY Zenon DEF BindInv
<1>1. PICK c \in Conns, n \in Nat, dead \in BOOLEAN :
        c = call.conn /\ n = call.n /\ dead = Dead(call.conn, call.n)
  BY Zenon, <1>0 DEF BindTypes, Dead
<1>2. ~dead => conns'[c].n = n /\ conns'[c].state \notin Gone
  BY Zenon, <1>1 DEF Dead, BindInv, CallIsOpen, Gone
<1>3. /\ \A j \in Socks \ {i}, d \in Conns : Holds(j, d)' <=> Holds(j, d)
      /\ \A d \in Conns : Holds(i, d)' => d = c
  BY Zenon, <1>1 DEF Holds
<1>4. \A j \in Socks \ suspect' : Sound(j)'
  <2>1. \A j \in Socks \ suspect : Sound(j)
    BY Zenon DEF BindInv
  <2>2. owns \in [Socks -> Nat] /\ Gets(i, c, n, dead)
    BY Zenon, <1>0, <1>1 DEF BindTypes
  <2>3. SlotsStay(i)
    BY Zenon DEF SlotsStay
  <2>4. OnlyGets(i, c) /\ LivesOn(c, n, dead)
    BY Zenon, <1>2, <1>3 DEF OnlyGets, LivesOn
  <2> QED BY Zenon, <2>1, <2>2, <2>3, <2>4, GetsStaysSound
<1>5. CallIsOpen'
  BY Zenon DEF CallIsOpen, Getting, NoCall
<1> QED BY Zenon, <1>4, <1>5 DEF BindInv

LEMMA StoresKeepBinding ==
  ASSUME BindInv, ConnectStores \/ AcceptStores
  PROVE  BindInv'
<1>0. BindTypes
  BY DEF BindInv
<1>1. Getting /\ call' = NoCall /\ UNCHANGED <<conns, born>>
  BY DEF ConnectStores, AcceptStores, Getting, tcpvars
<1>2. call.sock \in Socks /\ call.conn \in Conns /\ call.n \in Nat
  BY <1>0, <1>1 DEF BindTypes
<1>3. ~Getting' /\ call'.op # "recvfrom"
  BY <1>1 DEF Getting, NoCall
<1>4. CASE ConnectStores
  <2>1. /\ conn_id' = [conn_id EXCEPT ![call.sock] = call.conn] /\ UNCHANGED <<type, bound_port>>
        /\ Gets(call.sock, call.conn, call.n, Dead(call.conn, call.n))
    BY <1>4 DEF ConnectStores
  <2>2. owns' = [owns EXCEPT ![call.sock] = call.n]
    BY <2>1 DEF Gets
  <2>3. BindTypes'
    BY <1>0, <1>1, <1>2, <1>3, <2>1, <2>2 DEF BindTypes
  <2>4. /\ \A j \in Socks \ {call.sock} : type'[j] = type[j] /\ conn_id'[j] = conn_id[j]
        /\ conn_id'[call.sock] = call.conn
    BY <1>0, <1>2, <2>1 DEF BindTypes
  <2> QED BY Zenon, <1>1, <1>2, <2>1, <2>3, <2>4, StoreKeepsBinding
<1>5. CASE AcceptStores /\ FreeSocks = {}
  <2>1. UNCHANGED <<type, conn_id, bound_port, owns, suspect>>
    BY <1>5 DEF AcceptStores, socks, ghosts
  <2>2. BindTypes' /\ CallIsOpen'
    BY Zenon, <1>0, <1>1, <1>3, <2>1 DEF BindTypes, CallIsOpen
  <2> QED BY <1>1, <2>1, <2>2, StillBound
<1>6. CASE AcceptStores /\ FreeSocks # {}
  <2>1. PICK new \in Socks :
          /\ type' = [type EXCEPT ![new] = "tcp"] /\ conn_id' = [conn_id EXCEPT ![new] = call.conn]
          /\ bound_port' = [bound_port EXCEPT ![new] = bound_port[call.sock]]
          /\ Gets(new, call.conn, call.n, Dead(call.conn, call.n))
    BY <1>6, FirstSlots DEF AcceptStores
  <2>2. owns' = [owns EXCEPT ![new] = call.n]
    BY <2>1 DEF Gets
  <2>3. bound_port[call.sock] \in Nat
    BY <1>0, <1>2 DEF BindTypes
  <2>4. BindTypes'
    BY Zenon, <1>0, <1>1, <1>2, <1>3, <2>1, <2>2, <2>3 DEF BindTypes
  <2>5. /\ \A j \in Socks \ {new} : type'[j] = type[j] /\ conn_id'[j] = conn_id[j]
        /\ conn_id'[new] = call.conn
    BY Zenon, <1>0, <2>1 DEF BindTypes
  <2> QED BY Zenon, <1>1, <2>1, <2>4, <2>5, StoreKeepsBinding
<1> QED BY <1>4, <1>5, <1>6

\* shutdown: the socket goes with its connection, which no sound one shares.
LEMMA ShutdownKeepsBinding ==
  ASSUME BindInv, NEW i \in Socks, sys_shutdown(i)
  PROVE  BindInv'
<1>0. BindTypes /\ -1 \notin Conns
  BY SocketConstants DEF BindInv, Conns
<1>1. /\ type' = [type EXCEPT ![i] = "free"] /\ conn_id' = [conn_id EXCEPT ![i] = -1]
      /\ suspect' = suspect \ {i} /\ UNCHANGED <<bound_port, born, owns, call>> /\ call = NoCall
      /\ IF type[i] = "tcp" /\ conn_id[i] >= 0 THEN tcp_close(conn_id[i]) ELSE conns' = conns
  BY Zenon DEF sys_shutdown, Shutdown, Begins
<1>2. /\ conns' \in [Conns -> ConnRecords]
      /\ \A d \in Conns : conns'[d] = conns[d] \/ Holds(i, d)
  <2>1. CASE ~(type[i] = "tcp" /\ conn_id[i] >= 0)
    BY <1>0, <1>1, <2>1 DEF BindTypes
  <2>2. CASE type[i] = "tcp" /\ conn_id[i] >= 0
    <3>1. conn_id[i] \in Conns
      BY <1>0, <2>2 DEF BindTypes
    <3>2. PICK s \in ConnStates : conns' = [conns EXCEPT ![conn_id[i]].state = s]
      <4>1. conns[conn_id[i]].state \in ConnStates
        BY <1>0, <3>1 DEF BindTypes, ConnRecords
      <4> QED BY Zenon, <1>1, <2>2, <4>1 DEF tcp_close, ConnStates
    <3>3. PICK c \in Conns : c = conn_id[i]
      BY <3>1
    <3>4. conns' \in [Conns -> ConnRecords] /\ \A d \in Conns : d # c => conns'[d] = conns[d]
      BY Zenon, <1>0, <3>2, <3>3, OtherSlots DEF BindTypes
    <3> QED BY <2>2, <3>3, <3>4 DEF Holds
  <2> QED BY Zenon, <2>1, <2>2
<1>3. ~Getting /\ ~Getting' /\ call'.op # "recvfrom"
  BY <1>1 DEF Getting, NoCall
<1>4. BindTypes'
  BY Zenon, <1>0, <1>1, <1>2, <1>3 DEF BindTypes
<1>5. \A j \in Socks, d \in Conns : Holds(j, d)' => Holds(j, d) /\ j # i
  BY <1>0, <1>1 DEF BindTypes, Holds
<1>6. ASSUME NEW j \in Socks \ suspect'
      PROVE  Sound(j)'
  <2>1. CASE j = i
    BY <1>5, <2>1 DEF Sound, Conns
  <2>2. CASE j # i
    <3>1. Sound(j)
      BY <1>1, <2>2 DEF BindInv
    <3>2. \A d \in Conns : Holds(j, d)' => conns'[d] = conns[d]
      BY Zenon, <1>2, <1>5, <2>2, <3>1 DEF Sound
    <3> QED BY Zenon, <1>1, <1>5, <3>1, <3>2, StaysSound
  <2> QED BY <2>1, <2>2
<1> QED BY <1>3, <1>4, <1>6 DEF BindInv, CallIsOpen

\* bind, recvfrom and datagrams do not concern connections.
LEMMA OthersKeepBinding ==
  ASSUME BindInv,
         \/ \E i \in Socks, port \in Ports : sys_bind(i, port)
         \/ \E i \in Socks, len \in 1 .. RX_BUF_SIZE : sys_recvfrom(i, len)
         \/ RecvByte \/ UdpEvents \/ UNCHANGED vars
  PROVE  BindInv'
<1>0. BindTypes /\ CallIsOpen
  BY DEF BindInv
<1>1. CASE \E i \in Socks, port \in Ports : sys_bind(i, port)
  <2>1. /\ UNCHANGED <<type, conn_id, conns, born, owns, suspect, call>>
        /\ \E i \in Socks, port \in Ports : bound_port' = [bound_port EXCEPT ![i] = port]
    BY Zenon, <1>1 DEF sys_bind, tcpvars
  <2>2. BindTypes' /\ CallIsOpen'
    BY Zenon, <1>0, <2>1, SocketConstants DEF BindTypes, CallIsOpen, Getting
  <2> QED BY <2>1, <2>2, StillBound
<1>2. CASE \E i \in Socks, len \in 1 .. RX_BUF_SIZE : sys_recvfrom(i, len)
  <2>1. UNCHANGED <<type, conn_id, bound_port, conns, born, owns, suspect>>
    BY Zenon, <1>2 DEF sys_recvfrom, socks, tcpvars, ghosts
  <2>2. PICK i, l : call' = [op |-> "recvfrom", sock |-> i, left |-> l]
    BY Zenon, <1>2 DEF sys_recvfrom
  <2>3. ~Getting' /\ call' = [op |-> "recvfrom", sock |-> call'.sock, left |-> call'.left]
    BY <2>2 DEF Getting
  <2>4. BindTypes' /\ CallIsOpen'
    BY Zenon, <1>0, <2>1, <2>3 DEF BindTypes, CallIsOpen
  <2> QED BY <2>1, <2>4, StillBound
<1>3. CASE RecvByte
  <2>1. UNCHANGED <<type, conn_id, bound_port, conns, born, owns, suspect>>
    BY <1>3 DEF RecvByte, tcpvars, ghosts
  <2>2. ~Getting' /\ (call'.op = "recvfrom" =>
                        call' = [op |-> "recvfrom", sock |-> call'.sock, left |-> call'.left])
    <3>1. CASE call' = NoCall
      BY <3>1 DEF Getting, NoCall
    <3>2. CASE call' # NoCall
      <4>1. call.op = "recvfrom" /\ call' = [call EXCEPT !.left = call.left - 1]
        BY <1>3, <3>2 DEF RecvByte
      <4>2. call = [op |-> "recvfrom", sock |-> call.sock, left |-> call.left]
        BY <1>0, <4>1 DEF BindTypes
      <4>3. call' = [op |-> "recvfrom", sock |-> call.sock, left |-> call.left - 1]
        BY <4>1, <4>2
      <4> QED BY <4>3 DEF Getting
    <3> QED BY <3>1, <3>2
  <2>3. BindTypes' /\ CallIsOpen'
    BY Zenon, <1>0, <2>1, <2>2 DEF BindTypes, CallIsOpen
  <2> QED BY <2>1, <2>3, StillBound
<1>4. CASE UdpEvents \/ UNCHANGED vars
  <2>1. UNCHANGED <<type, conn_id, bound_port, conns, born, owns, suspect, call>>
    BY Zenon, <1>4 DEF UdpEvents, udp_rx, udp_sock_rx, vars, socks, tcpvars, ghosts
  <2>2. BindTypes' /\ CallIsOpen'
    BY Zenon, <1>0, <2>1 DEF BindTypes, CallIsOpen, Getting
  <2> QED BY <2>1, <2>2, StillBound
<1> QED BY <1>1, <1>2, <1>3, <1>4

LEMMA BindInit == socket_init => BindInv
<1> SUFFICES ASSUME socket_init PROVE BindInv
  OBVIOUS
<1>1. /\ type = [i \in Socks |-> "free"] /\ conn_id = [i \in Socks |-> -1]
      /\ bound_port = [i \in Socks |-> 0] /\ owns = [i \in Socks |-> 0] /\ born = 0
      /\ conns = [c \in Conns |-> [state |-> "CLOSED", local_port |-> 0, n |-> 0, data |-> FALSE]]
      /\ call = NoCall
  BY Zenon DEF socket_init
<1>2. ~Getting /\ call.op # "recvfrom"
  BY <1>1 DEF Getting, NoCall
<1>3. conns \in [Conns -> ConnRecords]
  BY <1>1 DEF ConnRecords, ConnStates
<1>4. BindTypes
  BY Zenon, <1>1, <1>2, <1>3 DEF BindTypes
<1>5. \A i \in Socks : Sound(i)
  BY <1>1 DEF Sound, Holds
<1> QED BY <1>2, <1>4, <1>5 DEF BindInv, CallIsOpen

LEMMA BindPreserved == BindInv /\ [Next]_vars => BindInv'
<1> SUFFICES ASSUME BindInv, [Next]_vars PROVE BindInv'
  OBVIOUS
<1>1. CASE Calls
  BY <1>1, SocketKeepsBinding, ListenKeepsBinding, ConnectKeepsBinding, AcceptKeepsBinding,
     ShutdownKeepsBinding, OthersKeepBinding DEF Calls
<1>2. CASE CallSteps
  BY <1>2, StoresKeepBinding, OthersKeepBinding DEF CallSteps
<1>3. CASE TcpEvents
  BY <1>3, TcpEventsKeepBinding
<1>4. CASE UdpEvents \/ UNCHANGED vars
  BY <1>4, OthersKeepBinding
<1> QED BY <1>1, <1>2, <1>3, <1>4 DEF Next

\* Every end of a connection reaches its socket before the slot is used again
\* (BindingIsRight): for any number of sockets and slots and any order of calls,
\* segments, resets and timeouts, a TCP socket's slot holds the connection the
\* socket was given, unless that died inside accept or connect or was shared.
THEOREM BindingsStayRight == Spec => []BindingIsRight
<1>1. socket_init => BindInv
  BY BindInit
<1>2. BindInv /\ [Next]_vars => BindInv'
  BY BindPreserved
<1>3. BindInv => BindingIsRight
  <2> SUFFICES ASSUME BindInv, NEW i \in Socks \ suspect, type[i] = "tcp", conn_id[i] >= 0
               PROVE  ~Dead(conn_id[i], owns[i])
    BY DEF BindingIsRight
  <2>1. conn_id[i] \in Conns
    BY DEF BindInv, BindTypes
  <2>2. Sound(i)
    BY DEF BindInv
  <2> QED BY <2>1, <2>2 DEF Sound, Holds, Dead, Gone
<1> QED BY <1>1, <1>2, <1>3, PTL DEF Spec
-----------------------------------------------------------------------------
(***************************************************************************)
(* The receive ring of a UDP socket.                                       *)
(***************************************************************************)
B == RX_BUF_SIZE

\* The place j bytes after h, and the distance from a place to another.
Place(h, j) == (h + j) % B

LEMMA PlaceValue ==
  ASSUME NEW h \in 0 .. B - 1, NEW j \in 0 .. B
  PROVE  Place(h, j) = IF h + j < B THEN h + j ELSE h + j - B
<1>0. B \in Nat \ {0}
  BY SocketConstants DEF B
<1>1. \A a \in 0 .. B - 1 : a % B = a /\ (a + B) % B = a
  BY <1>0
<1>2. CASE h + j < B
  <2>1. h + j \in 0 .. B - 1
    BY <1>0, <1>2
  <2> QED BY <1>1, <1>2, <2>1 DEF Place
<1>3. CASE ~(h + j < B)
  <2>1. h + j - B \in 0 .. B - 1 /\ (h + j - B) + B = h + j
    BY <1>0, <1>3
  <2>2. ((h + j - B) + B) % B = h + j - B
    BY <1>1, <2>1
  <2> QED BY <1>3, <2>1, <2>2 DEF Place
<1> QED BY <1>2, <1>3

LEMMA PlaceInRing ==
  ASSUME NEW h \in 0 .. B - 1, NEW j \in 0 .. B
  PROVE  Place(h, j) \in 0 .. B - 1
<1>0. B \in Nat \ {0}
  BY SocketConstants DEF B
<1>1. (IF h + j < B THEN h + j ELSE h + j - B) \in 0 .. B - 1
  BY <1>0
<1> QED BY <1>1, PlaceValue

\* How far the j-th byte is behind the i-th, around the ring.
Behind(i, j) == IF j >= i THEN j - i ELSE j - i + B

Apart(h, i, j) == (Place(h, j) - Place(h, i) + B) % B = Behind(i, j) /\ Behind(i, j) \in Int

LEMMA Between ==
  ASSUME NEW h \in 0 .. B - 1, NEW i \in 0 .. B - 1, NEW j \in 0 .. B - 1
  PROVE  Apart(h, i, j) /\ Place(h, i) \in 0 .. B - 1
<1>0. B \in Nat \ {0}
  BY SocketConstants DEF B
<1>1. \A a \in 0 .. B - 1 : a % B = a
  BY <1>0
<1>2. \A a \in 0 .. B - 1 : (a + B) % B = a
  BY <1>0
<1>3. i \in 0 .. B /\ j \in 0 .. B
  BY <1>0
<1>4. PICK x \in Int, y \in Int : x = Place(h, i) /\ y = Place(h, j)
  BY <1>0, <1>3, PlaceValue
<1>5. /\ x = IF h + i < B THEN h + i ELSE h + i - B
      /\ y = IF h + j < B THEN h + j ELSE h + j - B
  BY <1>3, <1>4, PlaceValue
<1>6. PICK d \in 0 .. B - 1 : d = IF j >= i THEN j - i ELSE j - i + B
  <2>1. (IF j >= i THEN j - i ELSE j - i + B) \in 0 .. B - 1
    BY <1>0
  <2> QED BY <2>1
<1>7. y - x + B = d \/ y - x + B = d + B
  BY <1>0, <1>5, <1>6
<1>8. (y - x + B) % B = d
  BY <1>1, <1>2, <1>6, <1>7
<1>9. x \in 0 .. B - 1
  BY <1>0, <1>5
<1>10. Behind(i, j) = d
  BY Zenon, <1>6 DEF Behind
<1>11. d \in Int
  OBVIOUS
<1> QED BY Zenon, <1>4, <1>8, <1>9, <1>10, <1>11 DEF Apart

LEMMA AddPlaces ==
  ASSUME NEW h \in 0 .. B - 1, NEW i \in 0 .. B, NEW j \in 0 .. B, i + j \in 0 .. B
  PROVE  Place(Place(h, i), j) = Place(h, i + j)
<1>0. B \in Nat \ {0}
  BY SocketConstants DEF B
<1>1. PICK x \in 0 .. B - 1 : x = Place(h, i) /\ x = IF h + i < B THEN h + i ELSE h + i - B
  BY <1>0, PlaceValue
<1>2. Place(x, j) = IF x + j < B THEN x + j ELSE x + j - B
  BY PlaceValue
<1>3. Place(h, i + j) = IF h + (i + j) < B THEN h + (i + j) ELSE h + (i + j) - B
  BY PlaceValue
<1>4. (IF x + j < B THEN x + j ELSE x + j - B)
        = IF h + (i + j) < B THEN h + (i + j) ELSE h + (i + j) - B
  BY <1>0, <1>1
<1> QED BY <1>1, <1>2, <1>3, <1>4

Rings == [buf : [0 .. B - 1 -> Nat], head : 0 .. B - 1, tail : 0 .. B - 1]

\* Avail counts the bytes from head to tail.
LEMMA AvailIs ==
  ASSUME NEW r \in Rings
  PROVE  /\ Avail(r) \in 0 .. B - 1 /\ r.tail = Place(r.head, Avail(r))
         /\ \A a \in 0 .. B - 1 : r.tail = Place(r.head, a) => a = Avail(r)
<1>0. B \in Nat \ {0} /\ r.head \in 0 .. B - 1 /\ r.tail \in 0 .. B - 1 /\ 0 \in 0 .. B - 1
  BY SocketConstants DEF B, Rings
<1>1. Place(r.head, 0) = r.head
  BY <1>0, PlaceValue
<1>2. ASSUME NEW a \in 0 .. B - 1, r.tail = Place(r.head, a)
      PROVE  a = Avail(r)
  <2>1. PICK z \in 0 .. B - 1 : z = 0 /\ a >= z /\ a - z = a
    BY <1>0
  <2>2. (Place(r.head, a) - Place(r.head, z) + B) % B = a
    <3>1. Apart(r.head, z, a)
      BY Zenon, <1>0, <2>1, Between
    <3> QED BY Zenon, <2>1, <3>1 DEF Apart, Behind
  <2> QED BY <1>1, <1>2, <2>1, <2>2 DEF Avail, B
<1>3. \E a \in 0 .. B - 1 : r.tail = Place(r.head, a)
  <2>1. CASE r.head <= r.tail
    <3>1. r.tail - r.head \in 0 .. B - 1 /\ r.tail - r.head \in 0 .. B /\ r.head + (r.tail - r.head) = r.tail
      BY <1>0, <2>1
    <3>2. Place(r.head, r.tail - r.head) = r.tail
      BY <1>0, <3>1, PlaceValue
    <3> QED BY <3>1, <3>2
  <2>2. CASE r.head > r.tail
    <3>1. /\ r.tail - r.head + B \in 0 .. B - 1 /\ r.tail - r.head + B \in 0 .. B
          /\ r.head + (r.tail - r.head + B) = r.tail + B
      BY <1>0, <2>2
    <3>2. Place(r.head, r.tail - r.head + B) = r.tail
      BY <1>0, <3>1, PlaceValue
    <3> QED BY <3>1, <3>2
  <2> QED BY <1>0, <2>1, <2>2
<1> QED BY <1>2, <1>3

\* Of the bytes pu that entered a ring those in ta have left it and the others
\* lie in it from head on.
InOrder(r, pu, ta) ==
  /\ Len(pu) = Len(ta) + Avail(r)
  /\ \A k \in 1 .. Len(ta) : pu[k] = ta[k]
  /\ \A j \in 0 .. Avail(r) - 1 : pu[Len(ta) + 1 + j] = r.buf[Place(r.head, j)]

\* Places in a ring, counted from 0.
LEMMA OneLess ==
  ASSUME NEW c \in Nat, NEW a \in 0 .. c - 1, a > 0
  PROVE  a - 1 \in 0 .. c - 1 /\ (a - 1) + 1 = a
OBVIOUS

LEMMA OneMore ==
  ASSUME NEW c \in Nat, NEW a \in 0 .. c - 1, NEW L \in Nat, NEW j \in 0 .. a - 2
  PROVE  j + 1 \in 0 .. a - 1 /\ L + 1 + (j + 1) = L + 2 + j /\ j \in 0 .. c - 1
OBVIOUS

LEMMA RingBig ==
  ASSUME NEW x \in 0 .. B - 1
  PROVE  x \in Nat /\ x < B /\ B \in Nat \ {0} /\ 0 \in 0 .. B
BY SocketConstants DEF B

LEMMA PlaceZero ==
  ASSUME NEW h \in 0 .. B - 1
  PROVE  Place(h, 0) = h
<1>1. h \in Nat /\ h < B /\ 0 \in 0 .. B
  BY Zenon, RingBig
<1>2. Place(h, 0) = IF h + 0 < B THEN h + 0 ELSE h + 0 - B
  BY Zenon, <1>1, PlaceValue
<1>3. h + 0 = h
  BY <1>1
<1> QED BY <1>1, <1>2, <1>3

LEMMA RingDistance ==
  ASSUME NEW c \in Nat \ {0}, NEW k \in 0 .. c - 1, NEW t \in 0 .. c - 1
  PROVE  (k - t + c) % c \in Nat
<1>1. k - t + c \in Nat
  OBVIOUS
<1> QED BY <1>1

LEMMA Fits ==
  ASSUME NEW c \in Nat, NEW a \in 0 .. c - 1, NEW n \in Nat, n <= c - 1 - a
  PROVE  a + n \in 0 .. c - 1 /\ a \in 0 .. c /\ n \in 0 .. c /\ a + n \in 0 .. c
OBVIOUS

\* A byte is taken from the head.
LEMMA NextPlace ==
  ASSUME NEW c \in Nat \ {0}, NEW j \in 0 .. c - 1
  PROVE  1 \in 0 .. c /\ j \in 0 .. c /\ 1 + j \in 0 .. c /\ 1 + j = j + 1
OBVIOUS

LEMMA Pops ==
  ASSUME NEW r \in Rings, NEW pu \in Seq(Nat), NEW ta \in Seq(Nat), InOrder(r, pu, ta),
         Avail(r) > 0, NEW q \in Rings,
         q.buf = r.buf, q.tail = r.tail, q.head = Place(r.head, 1)
  PROVE  /\ Avail(q) = Avail(r) - 1
         /\ Append(ta, r.buf[r.head]) \in Seq(Nat) /\ InOrder(q, pu, Append(ta, r.buf[r.head]))
<1>0. /\ B \in Nat \ {0} /\ r.head \in 0 .. B - 1 /\ r.tail \in 0 .. B - 1 /\ q.head \in 0 .. B - 1
      /\ r.buf \in [0 .. B - 1 -> Nat]
  BY SocketConstants DEF B, Rings
<1>1. PICK a \in 0 .. B - 1 : a = Avail(r) /\ r.tail = Place(r.head, a)
  BY Zenon, AvailIs
<1>2. PICK L \in Nat, P \in Nat : L = Len(ta) /\ P = Len(pu)
  OBVIOUS
<1>3. a > 0 /\ P = L + a
  BY Zenon, <1>1, <1>2 DEF InOrder
<1>4. ASSUME NEW j \in 0 .. B - 1
      PROVE  Place(q.head, j) = Place(r.head, j + 1)
  <2>1. 1 \in 0 .. B /\ j \in 0 .. B /\ 1 + j \in 0 .. B /\ 1 + j = j + 1
    BY Zenon, <1>0, NextPlace
  <2>2. Place(Place(r.head, 1), j) = Place(r.head, 1 + j)
    BY Zenon, <1>0, <2>1, AddPlaces
  <2> QED BY <2>1, <2>2
<1>5. Avail(q) = a - 1
  <2>1. a - 1 \in 0 .. B - 1 /\ (a - 1) + 1 = a
    <3>1. B \in Nat /\ a > 0
      BY Zenon, <1>0, <1>3
    <3> QED BY <3>1, OneLess
  <2>2. q.tail = Place(q.head, a - 1)
    BY Zenon, <1>1, <1>4, <2>1
  <2> QED BY Zenon, <2>1, <2>2, AvailIs
<1>6. pu[L + 1] = r.buf[r.head] /\ r.buf[r.head] \in Nat
  <2>1. 0 \in 0 .. Avail(r) - 1 /\ Len(ta) + 1 + 0 = L + 1
    <3>1. 0 \in 0 .. a - 1 /\ L + 1 + 0 = L + 1
      BY <1>3
    <3> QED BY Zenon, <1>1, <1>2, <3>1
  <2>2. pu[Len(ta) + 1 + 0] = r.buf[Place(r.head, 0)]
    BY Zenon, <2>1 DEF InOrder
  <2>3. Place(r.head, 0) = r.head
    BY Zenon, <1>0, PlaceZero
  <2> QED BY Zenon, <1>0, <2>1, <2>2, <2>3
<1>7. PICK x \in Nat : x = r.buf[r.head]
  BY Zenon, <1>6
<1>8. /\ Append(ta, x) \in Seq(Nat) /\ Len(Append(ta, x)) = L + 1 /\ Append(ta, x)[L + 1] = x
      /\ \A k \in 1 .. L : Append(ta, x)[k] = ta[k]
  BY <1>2
<1>9. PICK tb \in Seq(Nat) : tb = Append(ta, x)
  BY Zenon, <1>8
<1>10. ASSUME NEW k \in 1 .. L + 1
       PROVE  pu[k] = tb[k]
  <2>1. CASE k = L + 1
    BY Zenon, <1>6, <1>7, <1>8, <1>9, <2>1
  <2>2. CASE k # L + 1
    <3>1. k \in 1 .. L
      BY <2>2
    <3> QED BY Zenon, <1>2, <1>8, <1>9, <3>1 DEF InOrder
  <2> QED BY Zenon, <2>1, <2>2
<1>11. ASSUME NEW j \in 0 .. a - 2
       PROVE  pu[L + 2 + j] = r.buf[Place(q.head, j)]
  <2>1. j + 1 \in 0 .. a - 1 /\ L + 1 + (j + 1) = L + 2 + j /\ j \in 0 .. B - 1
    <3>1. B \in Nat
      BY Zenon, RingBig
    <3> QED BY Zenon, <3>1, OneMore
  <2>2. pu[L + 1 + (j + 1)] = r.buf[Place(r.head, j + 1)]
    BY Zenon, <1>1, <1>2, <2>1 DEF InOrder
  <2> QED BY Zenon, <1>4, <2>1, <2>2
<1>12. InOrder(q, pu, tb)
  <2>1. Len(tb) = L + 1
    BY Zenon, <1>8, <1>9
  <2>2. Len(pu) = Len(tb) + Avail(q)
    BY <1>2, <1>3, <1>5, <2>1
  <2>3. \A k \in 1 .. Len(tb) : pu[k] = tb[k]
    BY Zenon, <1>10, <2>1
  <2>4. ASSUME NEW j \in 0 .. Avail(q) - 1
        PROVE  pu[Len(tb) + 1 + j] = q.buf[Place(q.head, j)]
    <3>1. j \in 0 .. a - 2 /\ Len(tb) + 1 + j = L + 2 + j
      BY <1>5, <2>1
    <3> QED BY Zenon, <1>11, <3>1
  <2> QED BY Zenon, <2>2, <2>3, <2>4 DEF InOrder
<1> QED BY Zenon, <1>1, <1>5, <1>7, <1>9, <1>12

Filled(q, r, n, b) ==
  \A k \in 0 .. B - 1 :
    LET at == (k - r.tail + B) % B
    IN  q.buf[k] = IF at < n THEN b + 1 + at ELSE r.buf[k]

\* qu is pu and then n bytes, b + 1, b + 2, ...
Longer(qu, pu, n, b) ==
  /\ Len(qu) = Len(pu) + n
  /\ \A k \in 1 .. Len(pu) : qu[k] = pu[k]
  /\ \A m \in 1 .. n : qu[Len(pu) + m] = b + m

\* Where the j-th byte after the head is, t from the tail: among the n new ones
\* or among the a old ones.
IsOldOrNew(a, n, j, L, P, b, t) ==
  /\ j >= a => /\ t < n /\ t + 1 \in 1 .. n
               /\ L + 1 + j = P + (t + 1) /\ b + (t + 1) = b + 1 + t
  /\ ~(j >= a) => ~(t < n) /\ j \in 0 .. a - 1 /\ L + 1 + j \in 1 .. P

LEMMA OldOrNew ==
  ASSUME NEW c \in Nat, NEW a \in 0 .. c - 1, NEW n \in Nat, n <= c - 1 - a,
         NEW j \in 0 .. a + n - 1, NEW L \in Nat, NEW P, P = L + a, NEW b \in Nat,
         NEW t \in Int, (j >= a => t = j - a) /\ (~(j >= a) => t = j - a + c)
  PROVE  IsOldOrNew(a, n, j, L, P, b, t)
BY DEF IsOldOrNew

\* Bytes b + 1, b + 2, ... are put behind the tail, no more than there is room
\* for.
LEMMA Pushes ==
  ASSUME NEW r \in Rings, NEW pu \in Seq(Nat), NEW ta \in Seq(Nat), InOrder(r, pu, ta),
         NEW n \in Nat, n <= Room(r), NEW b \in Nat, NEW q \in Rings,
         q.head = r.head, q.tail = Place(r.tail, n),
         Filled(q, r, n, b),
         NEW qu \in Seq(Nat), Longer(qu, pu, n, b)
  PROVE  Avail(q) = Avail(r) + n /\ InOrder(q, qu, ta)
<1>a. /\ Len(qu) = Len(pu) + n
      /\ \A k \in 1 .. Len(pu) : qu[k] = pu[k]
      /\ \A m \in 1 .. n : qu[Len(pu) + m] = b + m
  BY DEF Longer
<1>0. /\ B \in Nat \ {0} /\ r.head \in 0 .. B - 1 /\ r.tail \in 0 .. B - 1
  BY SocketConstants DEF B, Rings
<1>1. PICK a \in 0 .. B - 1 : a = Avail(r) /\ r.tail = Place(r.head, a)
  BY Zenon, AvailIs
<1>2. PICK L \in Nat, P \in Nat : L = Len(ta) /\ P = Len(pu)
  OBVIOUS
<1>3. P = L + a /\ n <= B - 1 - a
  BY Zenon, <1>1, <1>2 DEF InOrder, Room, B
<1>4. a + n \in 0 .. B - 1 /\ a \in 0 .. B /\ n \in 0 .. B /\ a + n \in 0 .. B
  <2>1. B \in Nat
    BY Zenon, RingBig
  <2> QED BY Zenon, <1>3, <2>1, Fits
<1>5. q.tail = Place(q.head, a + n)
  <2>2. Place(Place(r.head, a), n) = Place(r.head, a + n)
    BY Zenon, <1>0, <1>4, AddPlaces
  <2> QED BY Zenon, <1>1, <2>2
<1>6. Avail(q) = a + n
  BY Zenon, <1>4, <1>5, AvailIs
<1>7. ASSUME NEW j \in 0 .. a + n - 1
      PROVE  qu[L + 1 + j] = q.buf[Place(q.head, j)]
  <2>1. j \in 0 .. B - 1
    BY <1>0, <1>4
  <2>2. PICK k \in 0 .. B - 1 : k = Place(r.head, j)
    BY Zenon, <1>0, <2>1, Between
  <2>3. Apart(r.head, a, j)
    BY Zenon, <1>0, <2>1, Between
  <2>4. PICK t \in Int : t = (k - r.tail + B) % B /\ t = Behind(a, j)
    BY Zenon, <1>1, <2>2, <2>3 DEF Apart
  <2>5. q.buf[k] = IF t < n THEN b + 1 + t ELSE r.buf[k]
    BY Zenon, <2>4 DEF Filled
  <2>6. IsOldOrNew(a, n, j, L, P, b, t)
    <3>1. P = L + a /\ n <= B - 1 - a /\ B \in Nat
      BY Zenon, <1>0, <1>3
    <3>2. (j >= a => t = j - a) /\ (~(j >= a) => t = j - a + B)
      BY Zenon, <2>4 DEF Behind
    <3> QED BY Zenon, <3>1, <3>2, OldOrNew
  <2>7. CASE j >= a
    <3>1. qu[Len(pu) + (t + 1)] = b + (t + 1)
      BY Zenon, <1>a, <2>6, <2>7 DEF IsOldOrNew
    <3> QED BY Zenon, <1>2, <2>2, <2>5, <2>6, <2>7, <3>1 DEF IsOldOrNew
  <2>8. CASE ~(j >= a)
    <3>1. pu[L + 1 + j] = r.buf[Place(r.head, j)]
      BY Zenon, <1>1, <1>2, <2>6, <2>8 DEF InOrder, IsOldOrNew
    <3>2. qu[L + 1 + j] = pu[L + 1 + j]
      BY Zenon, <1>a, <1>2, <2>6, <2>8 DEF IsOldOrNew
    <3> QED BY Zenon, <2>2, <2>5, <2>6, <2>8, <3>1, <3>2 DEF IsOldOrNew
  <2> QED BY Zenon, <2>7, <2>8
<1>8. ASSUME NEW k \in 1 .. L
      PROVE  qu[k] = ta[k]
  <2>1. k \in 1 .. Len(pu) /\ k \in 1 .. Len(ta)
    BY <1>2, <1>3
  <2> QED BY Zenon, <1>a, <2>1 DEF InOrder
<1>9. Len(qu) = Len(ta) + Avail(q)
  <2>1. Len(qu) = P + n /\ Len(ta) + Avail(q) = L + (a + n)
    BY Zenon, <1>a, <1>2, <1>6
  <2>2. P + n = L + (a + n)
    BY <1>3
  <2> QED BY Zenon, <2>1, <2>2
<1>10. \A k \in 1 .. Len(ta) : qu[k] = ta[k]
  BY Zenon, <1>2, <1>8
<1>11. \A j \in 0 .. Avail(q) - 1 : qu[Len(ta) + 1 + j] = q.buf[Place(q.head, j)]
  <2> SUFFICES ASSUME NEW j \in 0 .. Avail(q) - 1
               PROVE  qu[Len(ta) + 1 + j] = q.buf[Place(q.head, j)]
    BY Zenon
  <2>1. j \in 0 .. a + n - 1
    BY <1>6
  <2> QED BY Zenon, <1>2, <1>7, <2>1
<1>12. InOrder(q, qu, ta)
  BY Zenon, <1>9, <1>10, <1>11 DEF InOrder
<1> QED BY Zenon, <1>1, <1>6, <1>12

\* The inductive invariant: every UDP socket's ring is in order, and a recvfrom
\* in progress has that many bytes still to take.
DgramTypes ==
  /\ ring \in [Socks -> Rings] /\ bytes \in Nat
  /\ pushed \in [Socks -> Seq(Nat)] /\ taken \in [Socks -> Seq(Nat)]

Receiving ==
  call.op = "recvfrom" =>
    /\ call.sock \in Socks /\ type[call.sock] = "udp"
    /\ call.left \in Nat \ {0} /\ call.left <= Avail(ring[call.sock])

SockInOrder(i) == type[i] = "udp" => InOrder(ring[i], pushed[i], taken[i])

DgramInv == DgramTypes /\ Receiving /\ \A i \in Socks : SockInOrder(i)

\* One socket's ring changes, or none does.
LEMMA OneRingChanges ==
  ASSUME DgramInv, DgramTypes', Receiving', NEW i, i \in Socks => SockInOrder(i)',
         \A j \in Socks : j # i =>
           /\ type'[j] = "udp" => type[j] = "udp"
           /\ ring'[j] = ring[j] /\ pushed'[j] = pushed[j] /\ taken'[j] = taken[j]
  PROVE  DgramInv'
<1>1. ASSUME NEW j \in Socks
      PROVE  SockInOrder(j)'
  <2>1. CASE j = i
    BY <2>1
  <2>2. CASE j # i
    <3>1. SockInOrder(j)
      BY Zenon DEF DgramInv
    <3> QED BY Zenon, <2>2, <3>1 DEF SockInOrder
  <2> QED BY <2>1, <2>2
<1> QED BY Zenon, <1>1 DEF DgramInv

\* A ring that was reset is empty.
LEMMA ResetIsEmpty ==
  ASSUME ring \in [Socks -> Rings], NEW i \in Socks,
         ring' = [ring EXCEPT ![i].head = 0, ![i].tail = 0]
  PROVE  /\ ring' \in [Socks -> Rings] /\ \A j \in Socks : j # i => ring'[j] = ring[j]
         /\ InOrder(ring'[i], <<>>, <<>>)
<1>0. B \in Nat \ {0} /\ 0 \in 0 .. B - 1
  BY SocketConstants DEF B
<1>1. PICK r \in Rings : r = [buf |-> ring[i].buf, head |-> 0, tail |-> 0]
  BY Zenon, <1>0 DEF Rings
<1>2. ring' = [ring EXCEPT ![i] = r]
  <2>1. PICK f : f = [ring EXCEPT ![i].head = 0]
    OBVIOUS
  <2>2. ring' = [f EXCEPT ![i].tail = 0]
    BY <2>1
  <2>3. f[i] = [buf |-> ring[i].buf, head |-> 0, tail |-> ring[i].tail]
    BY Zenon, <2>1 DEF Rings
  <2>4. f = [ring EXCEPT ![i] = f[i]]
    BY <2>1
  <2>5. ring' = [f EXCEPT ![i] = [f[i] EXCEPT !.tail = 0]]
    BY Zenon, <2>2
  <2>6. [f[i] EXCEPT !.tail = 0] = r
    BY <1>1, <2>3
  <2>7. ring' = [f EXCEPT ![i] = r]
    BY Zenon, <2>5, <2>6
  <2> QED BY Zenon, <2>4, <2>7
<1>3. ring' \in [Socks -> Rings] /\ ring'[i] = r /\ \A j \in Socks : j # i => ring'[j] = ring[j]
  BY Zenon, <1>2
<1>4. Avail(r) = 0
  <2>1. r.head = 0 /\ r.tail = 0
    BY <1>1
  <2>2. Place(0, 0) = 0
    BY <1>0, PlaceValue
  <2> QED BY <1>0, <2>1, <2>2, AvailIs
<1>5. InOrder(r, <<>>, <<>>)
  <2>1. Len(<<>>) = 0
    OBVIOUS
  <2> QED BY <1>4, <2>1 DEF InOrder
<1> QED BY <1>3, <1>5

LEMMA SocketKeepsOrder ==
  ASSUME BindInv, DgramInv, NEW kind \in {"tcp", "udp"}, sys_socket(kind)
  PROVE  DgramInv'
<1>0. ring \in [Socks -> Rings] /\ type \in [Socks -> {"free", "tcp", "udp"}]
  BY DEF DgramInv, DgramTypes, BindInv, BindTypes
<1>1. PICK new \in Socks :
        /\ type' = [type EXCEPT ![new] = kind] /\ ring' = [ring EXCEPT ![new].head = 0, ![new].tail = 0]
        /\ pushed' = [pushed EXCEPT ![new] = <<>>] /\ taken' = [taken EXCEPT ![new] = <<>>]
        /\ bytes' = bytes /\ call' = NoCall
  BY Zenon, FirstSlots DEF sys_socket, Begins
<1>2. /\ ring' \in [Socks -> Rings] /\ \A j \in Socks : j # new => ring'[j] = ring[j]
      /\ InOrder(ring'[new], <<>>, <<>>)
  BY Zenon, <1>0, <1>1, ResetIsEmpty
<1>3. pushed' \in [Socks -> Seq(Nat)] /\ taken' \in [Socks -> Seq(Nat)]
  BY <1>1 DEF DgramInv, DgramTypes
<1>4. DgramTypes' /\ Receiving'
  BY <1>1, <1>2, <1>3 DEF DgramInv, DgramTypes, Receiving, NoCall
<1>5. pushed'[new] = <<>> /\ taken'[new] = <<>>
  BY <1>1 DEF DgramInv, DgramTypes
<1>6. SockInOrder(new)'
  BY <1>2, <1>5 DEF SockInOrder
<1>7. \A j \in Socks : j # new =>
        type'[j] = type[j] /\ ring'[j] = ring[j] /\ pushed'[j] = pushed[j] /\ taken'[j] = taken[j]
  BY <1>0, <1>1, <1>2 DEF DgramInv, DgramTypes
<1> QED BY Zenon, <1>4, <1>6, <1>7, OneRingChanges

\* accept resets a ring too, but not of a UDP socket.
LEMMA AcceptKeepsOrder ==
  ASSUME BindInv, DgramInv, AcceptStores
  PROVE  DgramInv'
<1>0. ring \in [Socks -> Rings] /\ type \in [Socks -> {"free", "tcp", "udp"}]
  BY DEF DgramInv, DgramTypes, BindInv, BindTypes
<1>1. UNCHANGED <<bytes, pushed, taken>> /\ call' = NoCall
  BY DEF AcceptStores, udpvars
<1>2. CASE FreeSocks = {}
  <2>1. UNCHANGED <<type, ring>>
    BY <1>2 DEF AcceptStores, socks
  <2>2. DgramTypes' /\ Receiving'
    BY Zenon, <1>1, <2>1 DEF DgramInv, DgramTypes, Receiving, NoCall
  <2>3. -1 \notin Socks
    BY SocketConstants DEF Socks
  <2> QED BY <1>1, <2>1, <2>2, <2>3, OneRingChanges
<1>3. CASE FreeSocks # {}
  <2>1. PICK new \in Socks :
          /\ type' = [type EXCEPT ![new] = "tcp"]
          /\ ring' = [ring EXCEPT ![new].head = 0, ![new].tail = 0]
    BY <1>3, FirstSlots DEF AcceptStores
  <2>2. ring' \in [Socks -> Rings] /\ \A j \in Socks : j # new => ring'[j] = ring[j]
    BY Zenon, <1>0, <2>1, ResetIsEmpty
  <2>3. DgramTypes' /\ Receiving'
    BY Zenon, <1>1, <2>2 DEF DgramInv, DgramTypes, Receiving, NoCall
  <2>4. SockInOrder(new)'
    BY <1>0, <2>1 DEF SockInOrder
  <2>5. \A j \in Socks : j # new => type'[j] = type[j]
    BY <1>0, <2>1
  <2> QED BY Zenon, <1>1, <2>2, <2>3, <2>4, <2>5, OneRingChanges
<1> QED BY <1>2, <1>3

LEMMA MinOfTwo ==
  ASSUME NEW x \in Nat, NEW y \in Nat
  PROVE  /\ Min({x, y}) \in Nat /\ Min({x, y}) <= x /\ Min({x, y}) <= y
         /\ Min({x, y}) = x \/ Min({x, y}) = y
BY MinIsMember

\* recvfrom: as many bytes as there are, or were asked for.
LEMMA RecvfromKeepsOrder ==
  ASSUME DgramInv, NEW i \in Socks, NEW len \in 1 .. RX_BUF_SIZE, sys_recvfrom(i, len)
  PROVE  DgramInv'
<1>1. /\ UNCHANGED <<type, ring, bytes, pushed, taken>> /\ type[i] = "udp" /\ Avail(ring[i]) > 0
      /\ call' = [op |-> "recvfrom", sock |-> i, left |-> Min({len, Avail(ring[i])})]
  BY Zenon DEF sys_recvfrom, socks, udpvars
<1>2. PICK a \in Nat : a = Avail(ring[i]) /\ a > 0
  <2>1. ring[i] \in Rings /\ B \in Nat
    BY SocketConstants DEF DgramInv, DgramTypes, B
  <2>2. Avail(ring[i]) \in 0 .. B - 1
    BY Zenon, <2>1, AvailIs
  <2>3. Avail(ring[i]) \in Nat
    BY Zenon, <2>2, RingBig
  <2> QED BY Zenon, <1>1, <2>3
<1>3. PICK l \in Nat : l = Min({len, Avail(ring[i])}) /\ l > 0 /\ l <= a
  <2>1. len \in Nat /\ len > 0
    BY SocketConstants
  <2>2. PICK l : l = Min({len, a})
    BY Zenon
  <2>3. l \in Nat /\ l <= a /\ (l = len \/ l = a)
    BY Zenon, <2>1, <2>2, MinOfTwo
  <2> QED BY Zenon, <1>2, <2>1, <2>2, <2>3
<1>4. call'.sock = i /\ call'.left = l
  BY Zenon, <1>1, <1>3
<1>5. Receiving' /\ DgramTypes'
  <2>1. /\ call'.sock \in Socks /\ type'[call'.sock] = "udp"
        /\ call'.left \in Nat \ {0} /\ call'.left <= Avail(ring'[call'.sock])
    <3>1. l \in Nat \ {0}
      BY <1>3
    <3>2. type'[call'.sock] = "udp" /\ Avail(ring'[call'.sock]) = a
      BY Zenon, <1>1, <1>2, <1>4
    <3> QED BY Zenon, <1>3, <1>4, <3>1, <3>2
  <2>2. DgramTypes'
    BY Zenon, <1>1 DEF DgramInv, DgramTypes
  <2> QED BY Zenon, <2>1, <2>2 DEF Receiving
<1>6. -1 \notin Socks
  BY SocketConstants DEF Socks
<1> QED BY Zenon, <1>1, <1>5, <1>6, OneRingChanges

\* A byte is copied out.
LEMMA RecvByteKeepsOrder ==
  ASSUME BindInv, DgramInv, RecvByte
  PROVE  DgramInv'
<1>0. /\ ring \in [Socks -> Rings] /\ pushed \in [Socks -> Seq(Nat)] /\ taken \in [Socks -> Seq(Nat)]
      /\ B \in Nat \ {0}
  BY SocketConstants DEF DgramInv, DgramTypes, B
<1>1. PICK i \in Socks, r \in Rings, l \in Nat \ {0} :
        i = call.sock /\ r = ring[i] /\ l = call.left /\ type[i] = "udp" /\ l <= Avail(r)
  BY <1>0 DEF RecvByte, DgramInv, Receiving
<1>2. /\ UNCHANGED <<type, bytes, pushed>>
      /\ taken' = [taken EXCEPT ![i] = Append(@, r.buf[r.head])]
      /\ ring' = [ring EXCEPT ![i].head = (@ + 1) % RX_BUF_SIZE]
      /\ call' = IF call.left = 1 THEN NoCall ELSE [call EXCEPT !.left = @ - 1]
  BY <1>1 DEF RecvByte
<1>3. PICK q \in Rings : q = [buf |-> r.buf, head |-> Place(r.head, 1), tail |-> r.tail]
  <2>1. 1 \in 0 .. B /\ r.head \in 0 .. B - 1
    BY <1>0 DEF Rings
  <2>2. Place(r.head, 1) \in 0 .. B - 1
    BY <2>1, PlaceInRing
  <2> QED BY Zenon, <2>2 DEF Rings
<1>4. ring' = [ring EXCEPT ![i] = q]
  <2>1. ring' = [ring EXCEPT ![i] = [r EXCEPT !.head = Place(r.head, 1)]]
    BY <1>1, <1>2 DEF Place, B
  <2>2. [r EXCEPT !.head = Place(r.head, 1)] = q
    BY <1>3 DEF Rings
  <2> QED BY Zenon, <2>1, <2>2
<1>5. q.buf = r.buf /\ q.tail = r.tail /\ q.head = Place(r.head, 1)
  BY <1>3
<1>6. PICK a \in Nat : a = Avail(r) /\ a > 0
  <2>1. Avail(r) \in 0 .. B - 1
    BY AvailIs
  <2> QED BY <1>0, <1>1, <2>1
<1>7. InOrder(r, pushed[i], taken[i])
  BY Zenon, <1>1 DEF DgramInv, SockInOrder
<1>8a. PICK pu \in Seq(Nat), ta \in Seq(Nat) : pu = pushed[i] /\ ta = taken[i]
  BY <1>0
<1>8b. PICK tb : tb = Append(ta, r.buf[r.head])
  BY Zenon
<1>8. pu = pushed[i] /\ ta = taken[i] /\ tb = Append(ta, r.buf[r.head])
  BY <1>8a, <1>8b
<1>9. Avail(q) = a - 1 /\ tb \in Seq(Nat) /\ InOrder(q, pu, tb)
  BY Zenon, <1>5, <1>6, <1>7, <1>8, Pops
<1>10. taken' = [taken EXCEPT ![i] = tb]
  BY <1>2, <1>8
<1>10a. taken' \in [Socks -> Seq(Nat)] /\ ring' \in [Socks -> Rings]
  BY Zenon, <1>0, <1>4, <1>9, <1>10
<1>11. DgramTypes'
  BY Zenon, <1>2, <1>10a DEF DgramInv, DgramTypes
<1>12. ring'[i] = q /\ taken'[i] = tb /\ pushed'[i] = pu
  BY <1>0, <1>2, <1>4, <1>8, <1>10
<1>13. SockInOrder(i)'
  BY Zenon, <1>9, <1>12 DEF SockInOrder
<1>14. Receiving'
  <2>1. CASE l = 1
    BY <1>1, <1>2, <2>1 DEF Receiving, NoCall
  <2>2. CASE l # 1
    <3>1. call = [op |-> "recvfrom", sock |-> i, left |-> l]
      BY <1>1 DEF RecvByte, BindInv, BindTypes
    <3>2. call' = [op |-> "recvfrom", sock |-> i, left |-> l - 1]
      BY <1>1, <1>2, <2>2, <3>1
    <3>3. call'.sock = i /\ call'.left = l - 1
      BY <3>2
    <3>4. l - 1 \in Nat \ {0} /\ l - 1 <= a - 1
      BY <1>1, <1>6, <2>2
    <3> QED BY Zenon, <1>1, <1>2, <1>9, <1>12, <3>3, <3>4 DEF Receiving
  <2> QED BY <2>1, <2>2
<1>15. \A j \in Socks : j # i => ring'[j] = ring[j] /\ taken'[j] = taken[j]
  BY <1>0, <1>4, <1>10
<1> QED BY <1>2, <1>11, <1>13, <1>14, <1>15, OneRingChanges

\* The bytes of a datagram, behind those that came before.
LEMMA BytesAppended ==
  ASSUME NEW n \in Nat, NEW b \in Nat, NEW pu \in Seq(Nat),
         NEW qu, qu = pu \o [k \in 1 .. n |-> b + k]
  PROVE  /\ qu \in Seq(Nat) /\ Len(qu) = Len(pu) + n
         /\ \A k \in 1 .. Len(pu) : qu[k] = pu[k]
         /\ \A m \in 1 .. n : qu[Len(pu) + m] = b + m
<1> DEFINE new == [k \in 1 .. n |-> b + k]
<1>1. new \in Seq(Nat) /\ Len(new) = n
  <2>1. \A k \in 1 .. n : b + k \in Nat
    OBVIOUS
  <2>2. new \in [1 .. n -> Nat]
    BY <2>1
  <2> QED BY <2>2
<1>2. \A m \in 1 .. n : new[m] = b + m
  OBVIOUS
<1>3. PICK P \in Nat : P = Len(pu)
  OBVIOUS
<1>4. qu = pu \o new
  OBVIOUS
<1> HIDE DEF new
<1>5. /\ qu \in Seq(Nat) /\ Len(qu) = P + n
      /\ \A k \in 1 .. P + n : qu[k] = IF k <= P THEN pu[k] ELSE new[k - P]
  <2>1. /\ pu \o new \in Seq(Nat) /\ Len(pu \o new) = Len(pu) + Len(new)
        /\ \A k \in 1 .. Len(pu) + Len(new) :
             (pu \o new)[k] = IF k <= Len(pu) THEN pu[k] ELSE new[k - Len(pu)]
    BY Zenon, <1>1, ConcatProperties
  <2> QED BY Zenon, <1>1, <1>3, <1>4, <2>1
<1>6. \A k \in 1 .. P : qu[k] = pu[k]
  <2>1. \A k \in 1 .. P : k \in 1 .. P + n /\ k <= P
    OBVIOUS
  <2> QED BY <1>5, <2>1
<1>7. ASSUME NEW m \in 1 .. n
      PROVE  qu[P + m] = b + m
  <2>1. P + m \in 1 .. P + n /\ ~(P + m <= P) /\ (P + m) - P = m
    OBVIOUS
  <2> QED BY Zenon, <1>2, <1>5, <2>1
<1> QED BY <1>3, <1>5, <1>6, <1>7

\* A datagram: the first socket bound to its port takes what it has room for,
\* a recvfrom of it in progress or not.
LEMMA RxKeepsOrder ==
  ASSUME DgramInv, NEW port, NEW len \in 1 .. 2, udp_rx(port, len)
  PROVE  DgramInv'
<1>0. /\ ring \in [Socks -> Rings] /\ pushed \in [Socks -> Seq(Nat)] /\ taken \in [Socks -> Seq(Nat)]
      /\ B \in Nat \ {0} /\ bytes \in Nat /\ bytes' \in Nat
  <2>1. DgramTypes
    BY DEF DgramInv
  <2>2. bytes \in Nat /\ bytes' = bytes + len
    BY Zenon, <2>1 DEF DgramTypes, udp_rx
  <2>3. B \in Nat \ {0}
    BY SocketConstants DEF B
  <2>4. bytes' \in Nat
    BY <2>2
  <2> QED BY <2>1, <2>3, <2>4 DEF DgramTypes
<1>1. UNCHANGED <<type, taken, call>>
  BY Zenon DEF udp_rx, udp_sock_rx, socks
<1> DEFINE to == {i \in Socks : type[i] = "udp" /\ bound_port[i] = port}
<1>2. CASE UNCHANGED <<ring, pushed>>
  <2>1. DgramTypes' /\ Receiving'
    BY Zenon, <1>0, <1>1, <1>2 DEF DgramInv, DgramTypes, Receiving
  <2>2. -1 \notin Socks
    BY SocketConstants DEF Socks
  <2> QED BY <1>1, <1>2, <2>1, <2>2, OneRingChanges
<1>3. CASE udp_sock_rx(port, len) /\ to # {}
  <2>a. PICK i \in Socks, r \in Rings : i = Min(to) /\ r = ring[i]
    <3>1. to \in SUBSET Socks
      BY Zenon
    <3>2. Min(to) \in Socks
      BY Zenon, <1>3, <3>1, FirstSlots
    <3> QED BY Zenon, <1>0, <3>2
  <2>b. PICK n : n = Min({len, Room(r)})
    OBVIOUS
  <2>1. i = Min(to) /\ r = ring[i] /\ n = Min({len, Room(r)})
    BY <2>a, <2>b
  <2> DEFINE fill == [k \in DOMAIN r.buf |->
                        LET at == (k - r.tail + RX_BUF_SIZE) % RX_BUF_SIZE
                        IN  IF at < n THEN bytes + 1 + at ELSE r.buf[k]]
  <2>2. /\ ring' = [ring EXCEPT ![i].buf = fill, ![i].tail = (@ + n) % RX_BUF_SIZE]
        /\ pushed' = [pushed EXCEPT ![i] = @ \o [k \in 1 .. n |-> bytes + k]]
    BY Zenon, <1>3, <2>1 DEF udp_sock_rx
  <2>3. n \in Nat /\ n <= Room(r) /\ Avail(r) \in 0 .. B - 1
    <3>1. Avail(r) \in 0 .. B - 1
      BY AvailIs
    <3>2. Room(r) \in Nat /\ len \in Nat
      BY <1>0, <3>1 DEF Room, B
    <3> QED BY <2>1, <3>1, <3>2, MinOfTwo
  <2>4. fill \in [0 .. B - 1 -> Nat] /\ r.buf \in [0 .. B - 1 -> Nat] /\ r.tail \in 0 .. B - 1
    <3>1. r.buf \in [0 .. B - 1 -> Nat] /\ r.tail \in 0 .. B - 1
      BY DEF Rings
    <3>2. ASSUME NEW k \in 0 .. B - 1
          PROVE  fill[k] \in Nat
      <4>1. (k - r.tail + B) % B \in Nat
        BY Zenon, <1>0, <3>1, RingDistance
      <4>2. PICK at \in Nat : at = (k - r.tail + B) % B
        BY <4>1
      <4>3. fill[k] = IF at < n THEN bytes + 1 + at ELSE r.buf[k]
        BY Zenon, <3>1, <4>2 DEF B
      <4>4. bytes + 1 + at \in Nat /\ r.buf[k] \in Nat
        BY <1>0, <3>1
      <4>5. CASE at < n
        <5>1. fill[k] = bytes + 1 + at
          BY Zenon, <4>3, <4>5
        <5>2. bytes + 1 + at \in Nat
          BY Zenon, <4>4
        <5> HIDE DEF fill
        <5> QED BY <5>1, <5>2
      <4>6. CASE ~(at < n)
        <5>1. fill[k] = r.buf[k]
          BY Zenon, <4>3, <4>6
        <5>2. r.buf[k] \in Nat
          BY Zenon, <4>4
        <5> HIDE DEF fill
        <5> QED BY <5>1, <5>2
      <4> QED BY Zenon, <4>5, <4>6
    <3> QED BY Zenon, <3>1, <3>2
  <2>5. Place(r.tail, n) \in 0 .. B - 1
    <3>1. n \in 0 .. B
      BY <1>0, <2>3 DEF Room, B
    <3> QED BY <2>4, <3>1, PlaceInRing
  <2>6. PICK q \in Rings : q = [buf |-> fill, head |-> r.head, tail |-> Place(r.tail, n)]
    BY Zenon, <2>4, <2>5 DEF Rings
  <2>7. Filled(q, r, n, bytes)
    BY Zenon, <2>4, <2>6 DEF Filled, B
  <2> HIDE DEF fill
  <2>8. ring' = [ring EXCEPT ![i] = q]
    <3>1. PICK f : f = [ring EXCEPT ![i].buf = fill]
      BY Zenon
    <3>2. ring' = [f EXCEPT ![i].tail = (@ + n) % RX_BUF_SIZE]
      BY <2>2, <3>1
    <3>3. f[i] = [buf |-> fill, head |-> r.head, tail |-> r.tail]
      BY Zenon, <1>0, <2>1, <3>1 DEF Rings
    <3>4. f = [ring EXCEPT ![i] = f[i]]
      BY <1>0, <3>1
    <3>5. ring' = [f EXCEPT ![i] = [f[i] EXCEPT !.tail = Place(r.tail, n)]]
      BY <3>2, <3>3 DEF Place, B
    <3>6. [f[i] EXCEPT !.tail = Place(r.tail, n)] = q
      BY <2>6, <3>3
    <3>7. ring' = [f EXCEPT ![i] = q]
      BY Zenon, <3>5, <3>6
    <3> QED BY Zenon, <3>4, <3>7
  <2>10. PICK pu \in Seq(Nat), ta \in Seq(Nat), b \in Nat :
           pu = pushed[i] /\ ta = taken[i] /\ b = bytes
    BY <1>0
  <2>11. PICK w \in Nat : w = n
    BY <2>3
  <2>12. PICK qu \in Seq(Nat) :
           /\ qu = pu \o [k \in 1 .. w |-> b + k] /\ Len(qu) = Len(pu) + w
           /\ \A k \in 1 .. Len(pu) : qu[k] = pu[k]
           /\ \A m \in 1 .. w : qu[Len(pu) + m] = b + m
    <3>1. PICK qu : qu = pu \o [k \in 1 .. w |-> b + k]
      BY Zenon
    <3>2. /\ qu \in Seq(Nat) /\ Len(qu) = Len(pu) + w
          /\ \A k \in 1 .. Len(pu) : qu[k] = pu[k]
          /\ \A m \in 1 .. w : qu[Len(pu) + m] = b + m
      BY <3>1, BytesAppended
    <3> QED BY Zenon, <3>1, <3>2
  <2>14. type[i] = "udp" => Avail(q) = Avail(r) + n /\ InOrder(q, qu, ta)
    <3>1. q.head = r.head /\ q.tail = Place(r.tail, w)
      BY <2>6, <2>11
    <3>2. type[i] = "udp" => InOrder(r, pu, ta)
      BY <2>1, <2>10 DEF DgramInv, SockInOrder
    <3>3. w <= Room(r) /\ Filled(q, r, w, b)
      BY <2>3, <2>7, <2>10, <2>11
    <3>4. InOrder(r, pu, ta) => Avail(q) = Avail(r) + w /\ InOrder(q, qu, ta)
      <4>1. Longer(qu, pu, w, b)
        BY <2>12 DEF Longer
      <4> QED BY Zenon, <3>1, <3>3, <4>1, Pushes
    <3> QED BY <2>11, <3>2, <3>4
  <2>15. pushed' = [pushed EXCEPT ![i] = qu]
    BY <2>2, <2>10, <2>11, <2>12
  <2>16. DgramTypes'
    BY <1>0, <1>1, <2>8, <2>12, <2>15 DEF DgramTypes
  <2>17. /\ ring'[i] = q /\ pushed'[i] = qu /\ taken'[i] = ta
         /\ \A j \in Socks : j # i => ring'[j] = ring[j] /\ pushed'[j] = pushed[j]
    BY <1>0, <1>1, <2>8, <2>10, <2>15
  <2>18. SockInOrder(i)'
    BY Zenon, <1>1, <2>14, <2>17 DEF SockInOrder
  <2>19. Receiving'
    <3> SUFFICES ASSUME call.op = "recvfrom"
                 PROVE  /\ call.sock \in Socks /\ type[call.sock] = "udp"
                        /\ call.left \in Nat \ {0} /\ call.left <= Avail(ring'[call.sock])
      BY <1>1 DEF Receiving, Socks
    <3>1. /\ call.sock \in Socks /\ type[call.sock] = "udp"
          /\ call.left \in Nat \ {0} /\ call.left <= Avail(ring[call.sock])
      BY Zenon DEF DgramInv, Receiving
    <3>2. CASE call.sock # i
      BY Zenon, <2>17, <3>1, <3>2
    <3>3. CASE call.sock = i
      <4>1. Avail(ring'[i]) = Avail(r) + n /\ call.left <= Avail(r)
        BY Zenon, <2>1, <2>14, <2>17, <3>1, <3>3
      <4>2. PICK x \in Nat, y \in Nat : x = call.left /\ y = Avail(r) /\ x <= y
        <5>1. Avail(r) \in Nat
          BY Zenon, <2>3, RingBig
        <5> QED BY Zenon, <3>1, <4>1, <5>1
      <4>3. x <= y + n
        BY <2>3, <4>2
      <4> QED BY Zenon, <3>1, <3>3, <4>1, <4>2, <4>3
    <3> QED BY Zenon, <3>2, <3>3
  <2> QED BY Zenon, <1>1, <2>16, <2>17, <2>18, <2>19, OneRingChanges
<1> QED BY Zenon, <1>2, <1>3 DEF udp_rx, udp_sock_rx, socks
\* The steps that leave every ring alone.
LEMMA OthersKeepOrder ==
  ASSUME BindInv, DgramInv,
         \/ \E i \in Socks : \/ \E port \in Ports : sys_bind(i, port)
                             \/ sys_listen(i) \/ sys_accept(i) \/ sys_connect(i)
         \/ ConnectStores \/ TcpEvents \/ UNCHANGED vars
  PROVE  DgramInv'
<1>1. UNCHANGED <<type, ring, bytes, pushed, taken>>
  <2>1. CASE TcpEvents
    BY Zenon, <2>1 DEF TcpEvents, SynArrives, HandshakeEnds, DataArrives, FinArrives, LastAckArrives,
       Aborted, TimeWaitExpires, Interrupt, tcp_sock_close, socks, udpvars
  <2>2. CASE ~TcpEvents
    BY Zenon, <2>2 DEF sys_bind, sys_listen, sys_accept, Accepts, sys_connect, ConnectStores, vars,
       socks, udpvars
  <2> QED BY <2>1, <2>2
<1>2. call' = call \/ call'.op # "recvfrom"
  <2>1. ASSUME NEW i \in Socks, NEW port \in Ports, sys_bind(i, port)
        PROVE  call' = call
    BY Zenon, <2>1 DEF sys_bind
  <2>2. ASSUME NEW i \in Socks, sys_listen(i)
        PROVE  call' = call
    BY Zenon, <2>2 DEF sys_listen
  <2>3. ASSUME NEW i \in Socks, sys_accept(i)
        PROVE  call'.op = "accept"
    BY Zenon, <2>3 DEF sys_accept, Accepts
  <2>4. ASSUME NEW i \in Socks, sys_connect(i)
        PROVE  call'.op = "connect"
    BY Zenon, <2>4 DEF sys_connect
  <2>5. ConnectStores => call'.op = "none"
    <3>1. ConnectStores => call' = NoCall
      BY Zenon DEF ConnectStores
    <3> QED BY <3>1 DEF NoCall
  <2>6. TcpEvents => call' = call
    BY DEF TcpEvents, SynArrives, HandshakeEnds, DataArrives, FinArrives, LastAckArrives,
       Aborted, TimeWaitExpires, Interrupt
  <2>7. UNCHANGED vars => call' = call
    BY DEF vars
  <2> QED BY <2>1, <2>2, <2>3, <2>4, <2>5, <2>6, <2>7
<1>3. DgramTypes' /\ Receiving'
  <2>1. DgramTypes'
    BY <1>1 DEF DgramInv, DgramTypes
  <2>2. CASE call'.op # "recvfrom"
    BY Zenon, <2>1, <2>2 DEF Receiving
  <2>3. CASE call' = call
    <3>1. Receiving
      BY DEF DgramInv
    <3>2. Receiving'
      BY Zenon, <1>1, <2>3, <3>1 DEF Receiving
    <3> QED BY <2>1, <3>2
  <2> QED BY <1>2, <2>2, <2>3
<1>4. -1 \notin Socks
  BY SocketConstants DEF Socks
<1> QED BY <1>1, <1>3, <1>4, OneRingChanges

LEMMA ShutdownKeepsOrder ==
  ASSUME BindInv, DgramInv, NEW i \in Socks, sys_shutdown(i)
  PROVE  DgramInv'
<1>1. /\ UNCHANGED <<ring, bytes, pushed, taken, call>> /\ call = NoCall
      /\ type' = [type EXCEPT ![i] = "free"] /\ type \in [Socks -> {"free", "tcp", "udp"}]
  BY Zenon DEF sys_shutdown, Begins, Shutdown, udpvars, BindInv, BindTypes
<1>2. DgramTypes' /\ Receiving'
  BY Zenon, <1>1 DEF DgramInv, DgramTypes, Receiving, NoCall
<1>3. SockInOrder(i)'
  BY Zenon, <1>1 DEF SockInOrder
<1> QED BY Zenon, <1>1, <1>2, <1>3, OneRingChanges

LEMMA DgramInit == socket_init => DgramInv
<1> SUFFICES ASSUME socket_init PROVE DgramInv
  OBVIOUS
<1>1. /\ type = [i \in Socks |-> "free"] /\ ring = [i \in Socks |-> EmptyRing]
      /\ call = NoCall /\ bytes = 0
      /\ pushed = [i \in Socks |-> <<>>] /\ taken = [i \in Socks |-> <<>>]
  BY Zenon DEF socket_init
<1>2. EmptyRing \in Rings
  <2>1. B \in Nat \ {0}
    BY SocketConstants DEF B
  <2>2. 0 \in 0 .. B - 1
    BY <2>1
  <2> QED BY <2>2 DEF EmptyRing, Rings, B
<1>3. <<>> \in Seq(Nat)
  OBVIOUS
<1>4. DgramTypes
  BY <1>1, <1>2, <1>3 DEF DgramTypes
<1>5. \A i \in Socks : SockInOrder(i)
  BY <1>1 DEF SockInOrder
<1>6. Receiving
  BY Zenon, <1>1 DEF Receiving, NoCall
<1> QED BY <1>4, <1>5, <1>6 DEF DgramInv

\* A UDP socket's ring gives the bytes back as they came (DatagramsInOrder): for
\* any size of the ring, any number of sockets and any datagrams between the
\* steps of a recvfrom, nothing is lost, repeated, reordered or overwritten once
\* udp_sock_rx has taken it.
THEOREM DatagramsStayInOrder == Spec => []DatagramsInOrder
<1>1. socket_init => BindInv /\ DgramInv
  BY BindInit, DgramInit
<1>2. BindInv /\ DgramInv /\ [Next]_vars => (BindInv /\ DgramInv)'
  <2> SUFFICES ASSUME BindInv, DgramInv, [Next]_vars PROVE DgramInv'
    BY BindPreserved
  <2>1. CASE Calls
    BY Zenon, <2>1, SocketKeepsOrder, RecvfromKeepsOrder, ShutdownKeepsOrder, OthersKeepOrder DEF Calls
  <2>2. CASE CallSteps
    BY <2>2, AcceptKeepsOrder, RecvByteKeepsOrder, OthersKeepOrder DEF CallSteps
  <2>3. CASE TcpEvents \/ UNCHANGED vars
    BY <2>3, OthersKeepOrder
  <2>4. CASE UdpEvents
    BY <2>4, RxKeepsOrder DEF UdpEvents
  <2> QED BY <2>1, <2>2, <2>3, <2>4 DEF Next
<1>3. DgramInv => DatagramsInOrder
  <2> SUFFICES ASSUME DgramInv, NEW i \in Socks, type[i] = "udp"
               PROVE  /\ Len(pushed[i]) = Len(taken[i]) + Avail(ring[i])
                      /\ \A k \in 1 .. Len(pushed[i]) :
                           pushed[i][k] =
                             IF k <= Len(taken[i]) THEN taken[i][k]
                             ELSE ring[i].buf[(ring[i].head + k - Len(taken[i]) - 1) % RX_BUF_SIZE]
    BY Zenon DEF DatagramsInOrder
  <2>1. PICK r \in Rings, pu \in Seq(Nat), ta \in Seq(Nat) :
          r = ring[i] /\ pu = pushed[i] /\ ta = taken[i]
    BY DEF DgramInv, DgramTypes
  <2>2. InOrder(r, pu, ta)
    BY Zenon, <2>1 DEF DgramInv, SockInOrder
  <2>3. PICK L \in Nat, P \in Nat, a \in Nat, h \in Nat :
          L = Len(ta) /\ P = Len(pu) /\ a = Avail(r) /\ h = r.head
    <3>1. Avail(r) \in Nat /\ r.head \in Nat
      <4>1. Avail(r) \in 0 .. B - 1 /\ r.head \in 0 .. B - 1
        BY Zenon, AvailIs DEF Rings, B
      <4> QED BY Zenon, <4>1, RingBig
    <3> QED BY <3>1
  <2>4. P = L + a /\ \A k \in 1 .. L : pu[k] = ta[k]
    BY Zenon, <2>2, <2>3 DEF InOrder
  <2>5. ASSUME NEW k \in 1 .. P, ~(k <= L)
        PROVE  pu[k] = r.buf[(h + k - L - 1) % RX_BUF_SIZE]
    <3>1. PICK j \in 0 .. a - 1 : j = k - L - 1
      BY <2>4, <2>5
    <3>2. L + 1 + j = k /\ h + j = h + k - L - 1
      BY <3>1
    <3>3. pu[L + 1 + j] = r.buf[(h + j) % RX_BUF_SIZE]
      BY Zenon, <2>2, <2>3 DEF InOrder, Place, B
    <3> QED BY Zenon, <3>2, <3>3
  <2>6. ASSUME NEW k \in 1 .. P, k <= L
        PROVE  pu[k] = ta[k]
    BY <2>4, <2>6
  <2> QED BY Zenon, <2>1, <2>3, <2>4, <2>5, <2>6
<1> QED BY <1>1, <1>2, <1>3, PTL DEF Spec
=============================================================================
