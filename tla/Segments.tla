------------------------------ MODULE Segments ------------------------------
(***************************************************************************)
(* TCP segments as bytes (src/src/net/tcp/tcp.c): the headers and the      *)
(* checksum of what a machine sends over a connection, and of the reset it *)
(* answers a stray segment with.  When segments are sent is module Tcp's   *)
(* subject.                                                                *)
(***************************************************************************)
EXTENDS Packets

CONSTANTS
  Seqs,         \* sequence numbers, four bytes each, the high one first
  TCP_WINDOW

IPPROTO_TCP == 6
TCP_HDR_LEN == 20
FIN == 1
SYN == 2
RST == 4
PSH == 8
ACK == 16
-----------------------------------------------------------------------------
\* The words with their high byte first; an odd last byte is a high one.
csum_add(sum, buf) ==
  sum + SumOf(Words(buf), ntohs) + IF Len(buf) % 2 = 1 THEN 256 * Last(buf) ELSE 0

tcp_checksum(src, dst, seg) ==
  LET sum == csum_add(csum_add(0, PseudoHeader(src, dst, IPPROTO_TCP, Len(seg))), seg)
      result == 65535 - fold[sum] IN
  IF result = 0 THEN 65535 ELSE result

\* A header, its checksum still 0, and the data.
Segment(src_port, dst_port, seq, ack, flags, window, data) ==
  Net(src_port) \o Net(dst_port) \o seq \o ack \o <<80, flags>> \o Net(window)
    \o <<0, 0, 0, 0>> \o data

\* The checksum goes into the header as the machine stores a u16.
Stamped(src, dst, seg) == Put(seg, 16, Store(tcp_checksum(src, dst, seg)))

tcp_send_raw(m, dst, seg) ==
  ipv4_send(m, dst, IPPROTO_TCP, Stamped(our_ip[m], dst, seg),
            Message("tcp", Zero, dst, 0, 0, seg), FALSE)

\* A SYN, a SYN with ACK, an ACK or a FIN of a connection.
send_ctrl(m, dst, flags, seq, ack) ==
  \E a, b \in Ports :
    tcp_send_raw(m, dst, Segment(a, b, seq, ack, flags, TCP_WINDOW, <<>>))

\* The data segment of tcp_send.
tcp_send(m, dst, seq, ack, data) ==
  /\ data # <<>>
  /\ \E a, b \in Ports :
       tcp_send_raw(m, dst, Segment(a, b, seq, ack, ACK + PSH, TCP_WINDOW, data))

Plus1(seq) ==
  [i \in 1..4 |-> IF \A j \in i + 1 .. 4 : seq[j] = 255 THEN (seq[i] + 1) % 256 ELSE seq[i]]

\* The answer to a segment from dst that no connection takes: with the number the
\* segment acknowledges, or acknowledging its own.
send_rst_reply(m, dst, seq, ack, acked) ==
  LET reply(a, b) ==
        IF acked THEN Segment(a, b, ack, Zero, RST, 0, <<>>)
        ELSE Segment(a, b, Zero, Plus1(seq), RST + ACK, 0, <<>>) IN
  \E a, b \in Ports : tcp_send_raw(m, dst, reply(a, b))
-----------------------------------------------------------------------------
SegmentSent(m) ==
  /\ our_ip[m] # Zero /\ Quiet
  /\ \E dst \in {Address(k) : k \in Machines \cup {Other}}, seq, ack \in Seqs :
       \/ \E flags \in {SYN, SYN + ACK, ACK, FIN + ACK} : send_ctrl(m, dst, flags, seq, ack)
       \/ \E data \in Data : tcp_send(m, dst, seq, ack, data)
       \/ \E acked \in BOOLEAN : send_rst_reply(m, dst, seq, ack, acked)
  /\ UNCHANGED <<our_ip, call, got>>

\* The packet is on its way.
Gone == wire # None /\ wire' = None /\ UNCHANGED <<our_ip, pkt_id, call, got>>

SegmentSpec ==
  Init /\ [][\E m \in Machines : ipv4_set_addr(m) \/ SegmentSent(m) \/ Gone]_vars
-----------------------------------------------------------------------------
\* Every segment verifies at its receiver.  tcp.c:22 says of the sum "same pattern
\* as UDP", and UDP's is summed as it is, "matching how receivers verify".  The
\* sum of TCP is taken high byte first and stored low byte first.
SegmentsVerify ==
  wire # None =>
    LET seg == From(wire.bytes, IP_HDR_LEN) IN
    Verifies(PseudoHeader(wire.meant.src, wire.meant.dst, IPPROTO_TCP, Len(seg)) \o seg)
=============================================================================
