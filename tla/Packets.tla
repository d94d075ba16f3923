------------------------------ MODULE Packets -------------------------------
(***************************************************************************)
(* Packets as bytes: how IPv4, ICMP and UDP build and take apart what goes *)
(* over the wire (src/src/net/ipv4, icmp, udp).  Machines are              *)
(* little-endian; an address is its four bytes, the high one first.        *)
(* udp_send runs in system calls and may be interrupted between the        *)
(* checksum and the IP header; the rest is one step each.  Who gets a      *)
(* datagram of a port is module Sockets' subject, resolution that of Arp   *)
(* and the rings that of Nic.                                              *)
(***************************************************************************)
EXTENDS Naturals, SequencesExt, FiniteSetsExt

CONSTANTS
  Machines,   \* the machines that run this kernel, by the last byte of their address
  Other,      \* the last byte of the address of another host on the link
  Ports, Data,
  Pads,       \* padding a frame may have gained when it arrives
  Variants,   \* what the other host sends: [ver, options, frag, cut]
  IP_MTU,     \* 1500
  PKT_IDS     \* 2^16; bound: packet ids told apart

VARIABLES
  our_ip, pkt_id,   \* ipv4.c, of each machine
  call,             \* the datagram between udp_checksum and ipv4_send, or None
  wire,             \* the packet on the wire, [bytes, meant, own, moved], or None
  got               \* the packet handled last, [at, up, meant], or None

vars == <<our_ip, pkt_id, call, wire, got>>

None == <<>>
IPPROTO_ICMP == 1
IPPROTO_UDP == 17
IP_HDR_LEN == 20
UDP_HDR_LEN == 8
ICMP_HDR_LEN == 8

Zero == <<0, 0, 0, 0>>
Everyone == <<255, 255, 255, 255>>
Address(m) == <<10, 0, 2, m>>
-----------------------------------------------------------------------------
\* A u16 in memory after htons, as the machine stores it and as it loads it.
Net(w) == <<w \div 256, w % 256>>
Store(w) == <<w % 256, w \div 256>>
Load(b) == b[1] + 256 * b[2]
ntohs(b) == 256 * b[1] + b[2]

From(bytes, i) == SubSeq(bytes, i + 1, Len(bytes))
At(bytes, i) == SubSeq(bytes, i + 1, i + 2)
Put(bytes, i, two) == [bytes EXCEPT ![i + 1] = two[1], ![i + 2] = two[2]]

Words(buf) == [i \in 1 .. Len(buf) \div 2 |-> At(buf, 2 * i - 2)]
SumOf(words, read(_)) == SumFunction([i \in DOMAIN words |-> read(words[i])])

\* Mutant: an odd last byte is the high half of its word.
csum_native_high(sum, buf) ==
  sum + SumOf(Words(buf), Load) + IF Len(buf) % 2 = 1 THEN 256 * Last(buf) ELSE 0

\* The words as the machine loads them; an odd last byte is the low half.
csum_native(sum, buf) ==
  sum + SumOf(Words(buf), Load) + IF Len(buf) % 2 = 1 THEN Last(buf) ELSE 0

\* The loop that adds the carries back in.
fold[sum \in Nat] ==
  IF sum < 65536 THEN sum ELSE fold[(sum % 65536) + (sum \div 65536)]

ip_checksum(data) == 65535 - fold[csum_native(0, data)]

PseudoHeader(src, dst, proto, len) == src \o dst \o <<0, proto>> \o Net(len)

udp_checksum(src, dst, hdr, data) ==
  LET sum == csum_native(csum_native(csum_native(0,
               PseudoHeader(src, dst, IPPROTO_UDP, UDP_HDR_LEN + Len(data))), hdr), data)
      result == 65535 - fold[sum] IN
  IF result = 0 THEN 65535 ELSE result
-----------------------------------------------------------------------------
\* A message is [kind, src, dst, a, b, data]; a and b are the ports of a datagram
\* and the id and sequence number of an echo.
Message(kind, src, dst, a, b, data) ==
  [kind |-> kind, src |-> src, dst |-> dst, a |-> a, b |-> b, data |-> data]

\* An IPv4 packet around a payload; v is a variant, with options, the version and
\* the fragment field.
IpPacket(v, id, proto, src, dst, payload) ==
  LET ihl == IP_HDR_LEN + Len(v.options)
      hdr == <<16 * v.ver + ihl \div 4, 0>> \o Net(ihl + Len(payload)) \o Net(id)
               \o Net(v.frag) \o <<64, proto, 0, 0>> \o src \o dst \o v.options
  IN  Put(hdr, 10, Store(ip_checksum(hdr))) \o payload

\* What ipv4_send writes: no options, IP_FLAG_DF.
Plain == [ver |-> 4, options |-> <<>>, frag |-> 16384, cut |-> 0]

\* ipv4_send by machine m, resolved; a payload that does not fit is refused.
ipv4_send(m, dst, proto, payload, meant, moved) ==
  IF Len(payload) > IP_MTU - IP_HDR_LEN THEN wire' = None /\ UNCHANGED pkt_id
  ELSE /\ wire' = [bytes |-> IpPacket(Plain, pkt_id[m], proto, our_ip[m], dst, payload),
                   meant |-> [meant EXCEPT !.src = our_ip[m]], v |-> Plain,
                   own |-> TRUE, moved |-> moved]
       /\ pkt_id' = [pkt_id EXCEPT ![m] = (@ + 1) % PKT_IDS]

\* The DHCP client has a lease; a datagram may be half built.
ipv4_set_addr(m) ==
  /\ our_ip[m] = Zero
  /\ our_ip' = [our_ip EXCEPT ![m] = Address(m)]
  /\ call' = IF call # None /\ call.by = m THEN [call EXCEPT !.moved = TRUE] ELSE call
  /\ UNCHANGED <<pkt_id, wire, got>>

\* Bound: a new packet sets out when none is under way and the history of the
\* last is forgotten.
Quiet == call = None /\ wire = None /\ got = None
Forget == wire = None /\ got # None /\ got' = None /\ UNCHANGED <<our_ip, pkt_id, call, wire>>

\* The datagram with its checksum, which covers the address of this moment.
udp_send(m, dst, src_port, dst_port, data) ==
  LET hdr == Net(src_port) \o Net(dst_port) \o Net(UDP_HDR_LEN + Len(data)) \o <<0, 0>>
      sum == udp_checksum(our_ip[m], dst, hdr, data) IN
  /\ Quiet
  /\ call' = [by |-> m, pkt |-> Put(hdr, 6, Store(sum)) \o data, moved |-> FALSE,
              meant |-> Message("udp", Zero, dst, src_port, dst_port, data)]
  /\ UNCHANGED <<our_ip, pkt_id, wire, got>>

\* The rest of udp_send.
udp_send_ip ==
  /\ call # None
  /\ ipv4_send(call.by, call.meant.dst, IPPROTO_UDP, call.pkt, call.meant, call.moved)
  /\ call' = None
  /\ UNCHANGED <<our_ip, got>>

Echo(type, id, seq, data) ==
  LET pkt == <<type, 0, 0, 0>> \o Net(id) \o Net(seq) \o data IN
  Put(pkt, 2, Store(ip_checksum(pkt)))

icmp_ping(m, dst, id, seq, data) ==
  /\ Quiet
  /\ ipv4_send(m, dst, IPPROTO_ICMP, Echo(8, id, seq, data),
               Message("echo", Zero, dst, id, seq, data), FALSE)
  /\ UNCHANGED <<our_ip, call, got>>

\* Another host sends a datagram or an echo request: with options, of another IP
\* version, a fragment, or cut short, and with whatever checksum.
OtherSends(kind, dst, v, data) ==
  LET msg == Message(kind, Address(Other), dst, 68, 67, data)
      payload == IF kind = "echo" THEN Echo(8, 68, 67, data)
                 ELSE Net(68) \o Net(67) \o Net(UDP_HDR_LEN + Len(data)) \o <<0, 0>> \o data
      pkt == IpPacket(v, 1, IF kind = "echo" THEN IPPROTO_ICMP ELSE IPPROTO_UDP,
                      msg.src, dst, payload) IN
  /\ Quiet /\ Len(pkt) <= IP_MTU
  /\ wire' = [bytes |-> SubSeq(pkt, 1, Len(pkt) - v.cut), meant |-> msg, v |-> v,
              own |-> FALSE, moved |-> FALSE]
  /\ UNCHANGED <<our_ip, pkt_id, call, got>>
-----------------------------------------------------------------------------
\* The datagram a payload holds, cut to its own length field.
udp_rx(payload, src, dst) ==
  LET udp_len == ntohs(At(payload, 4)) IN
  IF Len(payload) < UDP_HDR_LEN \/ udp_len < UDP_HDR_LEN \/ udp_len > Len(payload)
  THEN None
  ELSE Message("udp", src, dst, ntohs(At(payload, 0)), ntohs(At(payload, 2)),
               SubSeq(payload, UDP_HDR_LEN + 1, udp_len))

\* The echo request a payload holds; nothing else is looked at.
icmp_rx(payload, src, dst) ==
  IF Len(payload) < ICMP_HDR_LEN \/ payload[1] # 8 \/ payload[2] # 0 THEN None
  ELSE Message("echo", src, dst, ntohs(At(payload, 4)), ntohs(At(payload, 6)),
               From(payload, ICMP_HDR_LEN))

\* The netmask is 255.255.255.0; a machine without an address takes everything.
Accepts(ip, dst) == ip = Zero \/ dst \in {ip, [ip EXCEPT ![4] = 255], Everyone}

\* The handler of the protocol gets what lies between ihl and total_len.
Dispatch(bytes, ihl, total, src, dst) ==
  LET payload == SubSeq(bytes, ihl + 1, total) IN
  CASE bytes[10] = IPPROTO_ICMP -> icmp_rx(payload, src, dst)
    [] bytes[10] = IPPROTO_UDP -> udp_rx(payload, src, dst)

\* What ipv4_rx makes of the bytes at a machine with address ip: a message or
\* None.
Parse(ip, bytes) ==
  LET ihl == (bytes[1] % 16) * 4
      total == ntohs(At(bytes, 2))
      frag == ntohs(At(bytes, 6))
      dst == SubSeq(bytes, 17, 20) IN
  IF \/ Len(bytes) < IP_HDR_LEN
     \/ bytes[1] \div 16 # 4
     \/ ihl < IP_HDR_LEN \/ ihl > Len(bytes)
     \/ total < ihl \/ total > Len(bytes)
     \/ frag % 8192 # 0 \/ (frag \div 8192) % 2 = 1
     \/ ~Accepts(ip, dst)
  THEN None
  ELSE Dispatch(bytes, ihl, total, SubSeq(bytes, 13, 16), dst)

\* ipv4_rx at machine m, in the interrupt; an echo request is answered at once.
ipv4_rx(m, pad) ==
  LET up == Parse(our_ip[m], wire.bytes \o pad) IN
  /\ wire # None /\ wire.meant.src # Address(m)
  /\ pad # <<>> => wire.v.cut = 0
  /\ got' = [at |-> m, ip |-> our_ip[m], up |-> up, meant |-> wire.meant, v |-> wire.v]
  /\ IF up # None /\ up.kind = "echo"
     THEN ipv4_send(m, up.src, IPPROTO_ICMP, Echo(0, up.a, up.b, up.data),
                    [wire.meant EXCEPT !.kind = "reply", !.dst = wire.meant.src], FALSE)
     ELSE wire' = None /\ UNCHANGED pkt_id
  /\ UNCHANGED <<our_ip, call>>
-----------------------------------------------------------------------------
\* ipv4_init_impl on every machine.
Init ==
  /\ our_ip = [m \in Machines |-> Zero]
  /\ pkt_id = [m \in Machines |-> 1]
  /\ call = None /\ wire = None /\ got = None

Addressees == {Address(m) : m \in Machines \cup {Other}} \cup {Everyone}

Next ==
  \/ \E m \in Machines :
       \/ ipv4_set_addr(m)
       \/ \E pad \in Pads : ipv4_rx(m, pad)
       \/ \E dst \in Addressees, a, b \in Ports, data \in Data :
            udp_send(m, dst, a, b, data) \/ icmp_ping(m, dst, a, b, data)
  \/ udp_send_ip \/ Forget
  \/ \E kind \in {"udp", "echo"}, dst \in (Addressees \cup {Address(255)}) \ {Address(Other)},
        v \in Variants, data \in Data : OtherSends(kind, dst, v, data)

Spec == Init /\ [][Next]_vars
-----------------------------------------------------------------------------
\* RFC 1071, as a receiver of any byte order tests it: the 16-bit words of the
\* bytes, odd ones padded, add up to a multiple of 2^16 - 1 other than 0.
Verifies(bytes) ==
  LET even == IF Len(bytes) % 2 = 1 THEN Append(bytes, 0) ELSE bytes
      sum == SumOf(Words(even), ntohs) IN
  sum # 0 /\ sum % 65535 = 0

\* The layouts of RFC 791, 792 and 768: what a packet without options says.
Says(bytes) ==
  LET body == SubSeq(bytes, 21, ntohs(At(bytes, 2)))
      kind == IF bytes[10] = 17 THEN "udp" ELSE IF body[1] = 8 THEN "echo" ELSE "reply" IN
  Message(kind, SubSeq(bytes, 13, 16), SubSeq(bytes, 17, 20),
          ntohs(At(body, IF kind = "udp" THEN 0 ELSE 4)),
          ntohs(At(body, IF kind = "udp" THEN 2 ELSE 6)), From(body, 8))

\* A packet that leaves the machine says what its sender meant, and every checksum
\* in it verifies.  The exception is the code's: udp_send covers the address it
\* reads first, ipv4_send fills in the one it reads later, and a lease may come in
\* between.
SentIsSound ==
  wire # None /\ wire.own =>
    LET b == wire.bytes
        body == From(b, IP_HDR_LEN) IN
    /\ Says(b) = wire.meant
    /\ Verifies(SubSeq(b, 1, IP_HDR_LEN))
    /\ wire.meant.kind # "udp" => Verifies(body)
    /\ wire.meant.kind = "udp" =>
         /\ At(body, 6) # <<0, 0>>
         /\ wire.moved \/ Verifies(PseudoHeader(wire.meant.src, wire.meant.dst,
                                               IPPROTO_UDP, Len(body)) \o body)

\* Packets are understood at both ends.  What leaves a machine is sound
\* (ipv4_send, udp_send, icmp_rx); and a machine hands up a message, exactly as
\* its sender meant it and whatever options or padding surround it, if and only
\* if the packet is a whole one for this machine or for all (ipv4_rx, udp_rx).
PacketsAreUnderstood ==
  /\ SentIsSound
  /\ got # None /\ got.meant.kind # "reply" =>
       got.up = IF /\ got.v.ver = 4 /\ got.v.frag \in {0, 16384} /\ got.v.cut = 0
                   /\ \/ got.ip = Zero
                      \/ got.meant.dst \in {got.ip, Address(255), Everyone}
                THEN got.meant ELSE None
=============================================================================
