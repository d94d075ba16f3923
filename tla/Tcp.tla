-------------------------------- MODULE Tcp --------------------------------
(***************************************************************************)
(* TCP (src/src/net/tcp/tcp.c) on two hosts that run this code, over a     *)
(* network that loses, duplicates, delays and reorders segments.  tcp_rx   *)
(* and tcp_tick run in the timer interrupt (net_poll), the other calls in  *)
(* system calls, each as one step.  A byte of the stream is named by the   *)
(* connection that sends it and its place in the stream.  A deadline may   *)
(* have passed at any tick.  snd_wnd, which is stored and never read, and  *)
(* checksums, which module Segments has, are left out.                     *)
(***************************************************************************)
EXTENDS TcpState, FiniteSetsExt

CONSTANTS
  TCP_MAX_CONN,     \* slots of a connection table
  TCP_RX_BUF_SIZE,  \* size of a receive ring, one byte of it unusable
  TCP_MAX_RETRIES,
  ISNs,             \* [Hosts -> Seq(0 .. SEQ-1)]: what next_isn returns, in turn
  Port,             \* [Hosts -> port]: a host's own port
  MAX_LEN,          \* bound: bytes per send
  MAX_READ,         \* bound: bytes per read
  MAX_SENT,         \* [Hosts -> Nat], bound: bytes sent by a connection
  MAX_OPEN,         \* bound: a host's listeners and connections it opened
  MAX_FINS,         \* bound: FINs delivered to a connection
  MAX_RSTS,         \* bound: once more RSTs than this were sent, none is answered
  KmallocResults    \* can the copy for retransmission be allocated?

Slots == 0 .. TCP_MAX_CONN - 1
TCP_WINDOW == TCP_RX_BUF_SIZE
vars == <<conns, isn, net>>

Synced == {"ESTABLISHED", "FIN_WAIT_1", "FIN_WAIT_2", "CLOSE_WAIT", "CLOSING",
           "LAST_ACK", "TIME_WAIT"}
States == Synced \cup {"CLOSED", "LISTEN", "SYN_SENT", "SYN_RCVD"}

\* The numbers next_isn gives a host, and what sequence numbers can be told
\* apart by: no connection sends half of them, those of two connections of a
\* host do not overlap, and none is half of them away from another one's (u32
\* differences of 2^31 are negative both ways).
Isns(h) == {ISNs[h][k] : k \in 1 .. Len(ISNs[h])}
Limits ==
  /\ TCP_MAX_CONN \in Nat /\ TCP_RX_BUF_SIZE \in Nat \ {0} /\ TCP_MAX_RETRIES \in Nat
  /\ MAX_LEN \in Nat /\ MAX_READ \in Nat /\ MAX_FINS \in Nat /\ MAX_SENT \in [Hosts -> Nat]
  /\ KmallocResults \subseteq BOOLEAN
  /\ ISNs \in [Hosts -> Seq(0 .. SEQ - 1)]
  /\ \A h \in Hosts : MAX_SENT[h] + MAX_FINS + 2 < SEQ \div 2
IsnsApart ==
  \A h \in Hosts : \A x, y \in Isns(h) :
    /\ \A j, k \in 0 .. MAX_SENT[h] : (x + 1 + j) % SEQ = (y + 1 + k) % SEQ => x = y
    /\ \A j \in 1 .. MAX_SENT[h] + 1, k \in 1 .. MAX_SENT[h] + MAX_FINS + 1 :
         (y + k - x - j) % SEQ # SEQ \div 2

\* rx holds the unread bytes; iss and irs (both sides' first sequence numbers)
\* and got (all bytes ever accepted) are history.
Conn(state, lport, rport, iss, irs, rcv_nxt) ==
  [state |-> state, lport |-> lport, rport |-> rport, iss |-> iss, irs |-> irs,
   snd_una |-> iss, snd_nxt |-> (iss + 1) % SEQ, rcv_nxt |-> rcv_nxt,
   retx |-> None, retx_count |-> 0, rx |-> <<>>, got |-> <<>>]

Closed == Conn("CLOSED", None, None, 0, None, 0)

\* A closed connection: of its fields only these can be looked at again.
Freed(c) == [Closed EXCEPT !.irs = c.irs, !.rx = c.rx, !.got = c.got, !.retx = c.retx]

\* Sequence arithmetic: the signed difference of two u32.
seq_lt(a, b) == (a - b) % SEQ >= SEQ \div 2
seq_leq(a, b) == a = b \/ seq_lt(a, b)
-----------------------------------------------------------------------------
Seg(h, c, flags, seq, ack, data) ==
  [to |-> Peer(h), sport |-> c.lport, dport |-> c.rport, seq |-> seq,
   ack |-> ack, flags |-> flags, data |-> data]

send_ctrl(h, c, flags) == Seg(h, c, flags, c.snd_nxt, c.rcv_nxt, <<>>)

send_rst_reply(h, s) ==
  LET acks == "ACK" \in s.flags IN
  [to |-> Peer(h), sport |-> s.dport, dport |-> s.sport, data |-> <<>>,
   seq |-> IF acks THEN s.ack ELSE 0,
   ack |-> IF acks THEN 0 ELSE (s.seq + 1) % SEQ,
   flags |-> IF acks THEN {"RST"} ELSE {"RST", "ACK"}]

retx_arm(c, seg) == [c EXCEPT !.retx = seg, !.retx_count = 0]
retx_clear(c) == [c EXCEPT !.retx = None, !.retx_count = 0]
rx_free(c) == TCP_RX_BUF_SIZE - 1 - Len(c.rx)

FreeSlots(h) == {i \in Slots : conns[h][i].state = "CLOSED"}
Next_ISN(h) == ISNs[h][isn[h] + 1]
HasISN(h) == isn[h] < Len(ISNs[h])

\* The first slot whose connection a segment belongs to.
Matching(h, s) ==
  {i \in Slots : /\ conns[h][i].state \notin {"CLOSED", "LISTEN"}
                 /\ conns[h][i].lport = s.dport /\ conns[h][i].rport = s.sport}
Listening(h, s) ==
  \E i \in Slots : conns[h][i].state = "LISTEN" /\ conns[h][i].lport = s.dport
-----------------------------------------------------------------------------
\* The ACK, data and FIN stages of tcp_rx.  A result is [c, out]: the
\* connection and the segments sent.
AckStage(c, s) ==
  LET ok == /\ c.state \in {"ESTABLISHED", "FIN_WAIT_1", "CLOSE_WAIT", "CLOSING"}
            /\ seq_leq(c.snd_una, s.ack) /\ seq_leq(s.ack, c.snd_nxt)
      c1 == IF ~ok THEN c
            ELSE IF seq_leq(c.snd_nxt, s.ack) THEN retx_clear([c EXCEPT !.snd_una = s.ack])
            ELSE [c EXCEPT !.snd_una = s.ack]
      acked == s.ack = c.snd_nxt
  IN  IF "ACK" \notin s.flags THEN c
      ELSE IF c.state = "FIN_WAIT_1" /\ acked THEN [c1 EXCEPT !.state = "FIN_WAIT_2"]
      ELSE IF c.state = "CLOSING" /\ acked THEN [c1 EXCEPT !.state = "TIME_WAIT"]
      ELSE IF c.state = "LAST_ACK" /\ acked
      THEN Freed(retx_clear(c1))
      ELSE c1

\* Mutant: a segment that starts before rcv_nxt is taken for new data.
DataStage_stale(h, c, s) ==
  LET n == Min({Len(s.data), rx_free(c)})
      c1 == IF seq_leq(s.seq, c.rcv_nxt)
            THEN [c EXCEPT !.rx = @ \o SubSeq(s.data, 1, n),
                           !.got = @ \o SubSeq(s.data, 1, n),
                           !.rcv_nxt = (@ + n) % SEQ]
            ELSE c
  IN  IF s.data # <<>> /\ c.state \in {"ESTABLISHED", "FIN_WAIT_1", "FIN_WAIT_2"}
      THEN [c |-> c1, out |-> {send_ctrl(h, c1, {"ACK"})}]
      ELSE [c |-> c, out |-> {}]

\* Mutant: bytes the ring has no room for are acknowledged.
DataStage_ackall(h, c, s) ==
  LET n == Min({Len(s.data), rx_free(c)})
      c1 == IF s.seq = c.rcv_nxt
            THEN [c EXCEPT !.rx = @ \o SubSeq(s.data, 1, n),
                           !.got = @ \o SubSeq(s.data, 1, n),
                           !.rcv_nxt = (@ + Len(s.data)) % SEQ]
            ELSE c
  IN  IF s.data # <<>> /\ c.state \in {"ESTABLISHED", "FIN_WAIT_1", "FIN_WAIT_2"}
      THEN [c |-> c1, out |-> {send_ctrl(h, c1, {"ACK"})}]
      ELSE [c |-> c, out |-> {}]

\* Only the expected segment is taken, as far as the ring has room.
DataStage(h, c, s) ==
  LET n == Min({Len(s.data), rx_free(c)})
      c1 == IF s.seq = c.rcv_nxt
            THEN [c EXCEPT !.rx = @ \o SubSeq(s.data, 1, n),
                           !.got = @ \o SubSeq(s.data, 1, n),
                           !.rcv_nxt = (@ + n) % SEQ]
            ELSE c
  IN  IF s.data # <<>> /\ c.state \in {"ESTABLISHED", "FIN_WAIT_1", "FIN_WAIT_2"}
      THEN [c |-> c1, out |-> {send_ctrl(h, c1, {"ACK"})}]
      ELSE [c |-> c, out |-> {}]

\* A FIN is taken whatever its sequence number.
FinStage(h, c, s) ==
  LET c1 == [c EXCEPT !.rcv_nxt = (@ + 1) % SEQ,
                      !.state = IF @ = "ESTABLISHED" THEN "CLOSE_WAIT"
                                ELSE IF @ = "FIN_WAIT_1" THEN "CLOSING"
                                ELSE IF @ = "FIN_WAIT_2" THEN "TIME_WAIT" ELSE @]
  IN  IF "FIN" \notin s.flags THEN [c |-> c, out |-> {}]
      ELSE [c |-> c1, out |-> IF c1.state # c.state THEN {send_ctrl(h, c1, {"ACK"})} ELSE {}]

SyncedRx(h, c, s) ==
  LET c1 == AckStage(c, s)
      d == DataStage(h, c1, s)
      f == FinStage(h, d.c, s)
  IN  IF c1.state = "CLOSED" THEN [c |-> c1, out |-> {}]
      ELSE [c |-> f.c, out |-> d.out \cup f.out]

InWindow(c, s) ==
  ~seq_lt(s.seq, c.rcv_nxt) /\ ~seq_leq((c.rcv_nxt + TCP_WINDOW) % SEQ, s.seq)

\* Waiting for the SYN-ACK.
SynSentRx(h, c, s) ==
  IF "ACK" \notin s.flags THEN [c |-> c, out |-> {}]
  ELSE IF s.ack # c.snd_nxt THEN [c |-> c, out |-> {send_rst_reply(h, s)}]
  ELSE IF "SYN" \notin s.flags THEN [c |-> c, out |-> {}]
  ELSE LET c1 == retx_clear([c EXCEPT !.state = "ESTABLISHED", !.snd_una = s.ack,
                                      !.irs = s.seq, !.rcv_nxt = (s.seq + 1) % SEQ])
       IN  [c |-> c1, out |-> {send_ctrl(h, c1, {"ACK"})}]

\* Mutant: any acknowledgement completes the handshake.
SynRcvdRx_anyack(h, c, s) ==
  IF "ACK" \in s.flags
  THEN SyncedRx(h, retx_clear([c EXCEPT !.state = "ESTABLISHED", !.snd_una = s.ack]), s)
  ELSE [c |-> c, out |-> {}]

\* Waiting for the ACK of the SYN-ACK; the segment may carry more.
SynRcvdRx(h, c, s) ==
  IF "ACK" \in s.flags /\ s.ack = c.snd_nxt
  THEN SyncedRx(h, retx_clear([c EXCEPT !.state = "ESTABLISHED", !.snd_una = s.ack]), s)
  ELSE [c |-> c, out |-> {}]

ConnRx(h, c, s) ==
  IF "RST" \in s.flags
  THEN [c |-> IF c.state = "SYN_SENT" \/ InWindow(c, s)
              THEN Freed(retx_clear(c)) ELSE c,
        out |-> {}]
  ELSE IF c.state = "SYN_SENT" THEN SynSentRx(h, c, s)
  ELSE IF c.state = "SYN_RCVD" THEN SynRcvdRx(h, c, s)
  ELSE SyncedRx(h, c, s)
-----------------------------------------------------------------------------
SetConn(h, i, c) == conns' = [conns EXCEPT ![h][i] = c]

\* retx_arm, when kmalloc succeeds and when it does not.
Armed(c, seg) == {IF ok THEN retx_arm(c, seg) ELSE retx_clear(c) : ok \in KmallocResults}

\* A SYN for a listening port and no connection: a new slot, a SYN-ACK.
PassiveOpen(h, s) ==
  LET i == Min(FreeSlots(h))
      c == Conn("SYN_RCVD", s.dport, s.sport, Next_ISN(h), s.seq, (s.seq + 1) % SEQ)
      synack == Seg(h, c, {"SYN", "ACK"}, c.snd_una, c.rcv_nxt, <<>>)
  IN  /\ FreeSlots(h) # {} /\ HasISN(h)
      /\ \E c1 \in Armed(c, synack) : SetConn(h, i, c1)
      /\ net' = net \cup {synack}
      /\ isn' = [isn EXCEPT ![h] = @ + 1]

\* tcp_rx of a segment s.
tcp_rx(h, s) ==
  LET syn == Listening(h, s) /\ "SYN" \in s.flags /\ "ACK" \notin s.flags
      open == syn /\ FreeSlots(h) # {}
  IN  /\ s \in net /\ s.to = h
      /\ \/ Matching(h, s) = {} /\ open /\ PassiveOpen(h, s)
         \/ /\ Matching(h, s) = {} /\ ~open
            /\ syn \/ "RST" \notin s.flags
            /\ net' = net \cup {send_rst_reply(h, s)}
            /\ UNCHANGED <<conns, isn>>
         \/ /\ Matching(h, s) # {}
            /\ LET i == Min(Matching(h, s))
                   r == ConnRx(h, conns[h][i], s)
               IN  SetConn(h, i, r.c) /\ net' = net \cup r.out
            /\ UNCHANGED isn

tcp_listen(h) ==
  /\ FreeSlots(h) # {}
  /\ SetConn(h, Min(FreeSlots(h)), [Closed EXCEPT !.state = "LISTEN", !.lport = Port[h]])
  /\ UNCHANGED <<isn, net>>

tcp_connect(h) ==
  LET c == Conn("SYN_SENT", Port[h], Port[Peer(h)], Next_ISN(h), None, 0)
      syn == Seg(h, c, {"SYN"}, c.snd_una, 0, <<>>)
  IN  /\ FreeSlots(h) # {} /\ HasISN(h)
      /\ \E c1 \in Armed(c, syn) : SetConn(h, Min(FreeSlots(h)), c1)
      /\ net' = net \cup {syn}
      /\ isn' = [isn EXCEPT ![h] = @ + 1]

\* The k-th byte of the stream has sequence number iss + k.
Sent(c) == (c.snd_nxt - c.iss - 1) % SEQ

tcp_send(h, i, n) ==
  LET c == conns[h][i]
      data == [k \in 1 .. n |-> <<h, c.iss, Sent(c) + k>>]
      seg == Seg(h, c, {"ACK"}, c.snd_nxt, c.rcv_nxt, data)
  IN  /\ c.state \in {"ESTABLISHED", "CLOSE_WAIT"}
      /\ Sent(c) + n <= MAX_SENT[h]
      /\ \E c1 \in Armed([c EXCEPT !.snd_nxt = (@ + n) % SEQ], seg) : SetConn(h, i, c1)
      /\ net' = net \cup {seg}
      /\ UNCHANGED isn

\* Mutant: closing a connection that was never established leaves its timer.
tcp_close_armed(h, i) ==
  LET c == conns[h][i]
      fin == send_ctrl(h, c, {"FIN", "ACK"})
  IN  \/ /\ c.state \in {"ESTABLISHED", "SYN_RCVD", "CLOSE_WAIT"}
         /\ SetConn(h, i, [c EXCEPT !.snd_nxt = (@ + 1) % SEQ,
                             !.state = IF @ = "CLOSE_WAIT" THEN "LAST_ACK" ELSE "FIN_WAIT_1"])
         /\ net' = net \cup {fin}
         /\ UNCHANGED isn
      \/ /\ c.state \in {"LISTEN", "SYN_SENT"}
         /\ SetConn(h, i, Freed(c))
         /\ UNCHANGED <<isn, net>>

\* The FIN is sent once; it is not armed for retransmission.
tcp_close(h, i) ==
  LET c == conns[h][i]
      fin == send_ctrl(h, c, {"FIN", "ACK"})
  IN  \/ /\ c.state \in {"ESTABLISHED", "SYN_RCVD", "CLOSE_WAIT"}
         /\ SetConn(h, i, [c EXCEPT !.snd_nxt = (@ + 1) % SEQ,
                             !.state = IF @ = "CLOSE_WAIT" THEN "LAST_ACK" ELSE "FIN_WAIT_1"])
         /\ net' = net \cup {fin}
         /\ UNCHANGED isn
      \/ /\ c.state \in {"LISTEN", "SYN_SENT"}
         /\ SetConn(h, i, Freed(retx_clear(c)))
         /\ UNCHANGED <<isn, net>>

tcp_read(h, i, n) ==
  /\ conns[h][i].rx # <<>>
  /\ SetConn(h, i, [conns[h][i] EXCEPT !.rx = SubSeq(@, 1 + Min({n, Len(@)}), Len(@))])
  /\ UNCHANGED <<isn, net>>

\* What tcp_tick does to a connection whose deadline has passed.
Due(h) == {i \in Slots : conns[h][i].state = "TIME_WAIT" \/ conns[h][i].retx # None}

\* Mutant: a connection is never given up.
Ticked_forever(c) ==
  IF c.state = "TIME_WAIT" THEN Freed(c)
  ELSE [c EXCEPT !.retx_count = Min({@ + 1, TCP_MAX_RETRIES})]

Ticked(c) ==
  IF c.state = "TIME_WAIT" THEN Freed(c)
  ELSE IF c.retx_count >= TCP_MAX_RETRIES THEN Freed(retx_clear(c))
  ELSE [c EXCEPT !.retx_count = @ + 1]

Resent(c) ==
  IF c.state # "TIME_WAIT" /\ c.retx_count < TCP_MAX_RETRIES THEN {c.retx} ELSE {}

tcp_tick(h, due) ==
  /\ due # {} /\ due \subseteq Due(h)
  /\ conns' = [conns EXCEPT ![h] = [i \in Slots |-> IF i \in due THEN Ticked(@[i]) ELSE @[i]]]
  /\ net' = net \cup UNION {Resent(conns[h][i]) : i \in due}
  /\ UNCHANGED isn
-----------------------------------------------------------------------------
tcp_init ==
  /\ conns = [h \in Hosts |-> [i \in Slots |-> Closed]]
  /\ isn = [h \in Hosts |-> 0]
  /\ net = {}

\* The bounds on what the network delivers and the programs open.
Fins(c) == (c.rcv_nxt - c.irs - 1 - Len(c.got)) % SEQ
Delivers(h, s) ==
  /\ Cardinality({r \in net : "RST" \in r.flags}) <= MAX_RSTS
  /\ "FIN" \in s.flags => \A i \in Matching(h, s) :
       conns[h][i].irs # None => Fins(conns[h][i]) < MAX_FINS

MayOpen(h) ==
  Cardinality({i \in Slots : \/ conns[h][i].state = "LISTEN"
                             \/ h \in Clients /\ conns[h][i].state # "CLOSED"}) < MAX_OPEN

Receive(h) == \E s \in net : Delivers(h, s) /\ tcp_rx(h, s)
Tick(h, i) == \E due \in SUBSET Due(h) : i \in due /\ tcp_tick(h, due)

Next ==
  \E h \in Hosts :
     \/ Receive(h)
     \/ h \in Servers /\ MayOpen(h) /\ tcp_listen(h)
     \/ h \in Clients /\ MayOpen(h) /\ tcp_connect(h)
     \/ \E i \in Slots : \/ \E n \in 1 .. MAX_LEN : tcp_send(h, i, n)
                         \/ \E n \in 1 .. MAX_READ : tcp_read(h, i, n)
                         \/ tcp_close(h, i)
                         \/ Tick(h, i)

Spec == tcp_init /\ [][Next]_vars

\* A deadline passes and the timer interrupt comes: net_poll runs tcp_tick.
FairSpec == Spec /\ \A h \in Hosts, i \in Slots : WF_vars(Tick(h, i))
-----------------------------------------------------------------------------
\* Every armed retransmission ends, acknowledged or given up after
\* TCP_MAX_RETRIES, and every TIME_WAIT is left (tcp_tick).
TimersEnd ==
  \A h \in Hosts, i \in Slots :
    []<>(i \notin Due(h))
=============================================================================
