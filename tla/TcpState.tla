------------------------------ MODULE TcpState ------------------------------
(***************************************************************************)
(* The connections of two hosts that run src/src/net/tcp/tcp.c, the        *)
(* network between them, and what TCP promises the programs; module Tcp    *)
(* has the steps.                                                          *)
(***************************************************************************)
EXTENDS Integers, Sequences

CONSTANTS
  Hosts,            \* the two machines
  Clients, Servers, \* the hosts whose programs connect, and listen
  SEQ,              \* 2^32: sequence numbers wrap
  None

ASSUME TcpAssumption ==
  /\ \E a, b \in Hosts : a # b /\ Hosts = {a, b}
  /\ SEQ \in Nat \ {0} /\ SEQ % 2 = 0
  /\ None \notin 0 .. SEQ - 1

VARIABLES
  conns,   \* [Hosts -> [slots -> connection]]
  isn,     \* [Hosts -> how often next_isn was called]
  net      \* every segment sent so far; any may arrive, again and again

Peer(h) == CHOOSE g \in Hosts : g # h
EndsOf(s, t) == Len(s) <= Len(t) /\ s = SubSeq(t, Len(t) - Len(s) + 1, Len(t))
-----------------------------------------------------------------------------
\* What a program can read is what the peer's program wrote to this very
\* connection, from the first byte, in order, none missing and none twice,
\* whatever the network does and whichever segments of an earlier connection
\* between the same ports still arrive (the data stage of tcp_rx).
StreamIsPrefix ==
  \A h \in Hosts : \A i \in DOMAIN conns[h] : LET c == conns[h][i] IN
    /\ \A k \in 1 .. Len(c.got) : c.got[k] = <<Peer(h), c.irs, k>>
    /\ EndsOf(c.rx, c.got)

\* Until a FIN is involved, what a side takes for acknowledged its peer has
\* accepted: snd_una never passes the bytes in the peer's hands.  (A FIN is
\* taken whatever its sequence number, and so acknowledges what never came.)
AckedIsReceived ==
  \A h \in Hosts : \A i \in DOMAIN conns[h], j \in DOMAIN conns[Peer(h)] :
    LET c == conns[h][i]
        d == conns[Peer(h)][j]
    IN  /\ c.state \in {"ESTABLISHED", "CLOSE_WAIT"}
        /\ d.state \in {"ESTABLISHED", "FIN_WAIT_1", "FIN_WAIT_2"}
        /\ d.irs = c.iss /\ c.irs = d.iss
        => (c.snd_una - c.iss - 1) % SEQ <= Len(d.got)

\* A connection is established only with a peer that took part in its own
\* handshake: the peer acknowledged this connection's first number in the
\* connection whose first number this side holds.  A delayed SYN of an earlier
\* connection, or a delayed ACK, establishes nothing (SYN_SENT and SYN_RCVD
\* branches of tcp_rx), and a duplicated or retransmitted SYN opens no second
\* connection: a server has one slot per peer and port.
HandshakeAgrees ==
  /\ \A h \in Hosts : \A i \in DOMAIN conns[h] : LET c == conns[h][i] IN
       c.state = "ESTABLISHED" =>
         \E s \in net :
           /\ s.to = h /\ s.sport = c.rport /\ s.dport = c.lport
           /\ "ACK" \in s.flags /\ s.ack = (c.iss + 1) % SEQ
           /\ s.seq = IF "SYN" \in s.flags THEN c.irs ELSE (c.irs + 1) % SEQ
  /\ \A h \in Servers \ Clients : \A i, j \in DOMAIN conns[h] :
       /\ {conns[h][i].state, conns[h][j].state} \cap {"CLOSED", "LISTEN"} = {}
       /\ conns[h][i].lport = conns[h][j].lport /\ conns[h][i].rport = conns[h][j].rport
       => i = j

\* A slot that conn_alloc may hand out, a listener, and a connection with
\* nothing left to send hold no retransmission copy: none is lost when the
\* slot is initialised again and tcp_tick sends nothing for them.
NoStaleRetx ==
  \A h \in Hosts : \A i \in DOMAIN conns[h] :
    conns[h][i].state \in {"CLOSED", "LISTEN", "FIN_WAIT_2", "TIME_WAIT"}
      => conns[h][i].retx = None
=============================================================================
