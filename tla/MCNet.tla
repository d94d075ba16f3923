------------------------------- MODULE MCNet --------------------------------
(* The network below the transports: the DHCP client, address resolution,   *)
(* packets as bytes and the card's driver; a behaviour is one of them at    *)
(* work, the others stay as Init leaves them.  Of two DHCP servers one      *)
(* names a router in its ACKs; of three neighbours the first routes, and    *)
(* MACs are told apart from addresses.  Data is of odd and even length,     *)
(* makes a UDP checksum of 0, or does not fit.                              *)
EXTENDS Dhcp, Link, Rings, TLC

CONSTANTS OUR_IP, Processes,
          ETH_MAX_HANDLERS, EtherTypes,
          Kinds, MAX_SENDS, MAX_RECVS, Lags,
          Machines, Other, Ports, Data, Pads, Variants, IP_MTU, PKT_IDS

VARIABLES
  scenario,
  ips, pkt_id, udp, packet, got

arpvars == <<table, our_ip, call, asked, wire, evicted>>
nicvars == <<tx, tx_tail, TDH, TDT, rx, rx_tail, RDH, RDT, handlers, snd, intr,
             heap, lags, made, sent, transmitted, inbox, polled>>
packetvars == <<ips, pkt_id, udp, packet, got>>
allvars == <<scenario, dhcpvars, arpvars, nicvars, packetvars>>

OneAddrEach == 10 :> 11 @@ 20 :> 21
Both == 10 :> "unicast" @@ 20 :> "broadcast"
OneRouter == 10 :> 12 @@ 20 :> 0
OneMacEach == [h \in Neighbours |-> h + 100]

A == INSTANCE Arp
N == INSTANCE Nic WITH Nested <- FALSE
P == INSTANCE Packets WITH our_ip <- ips, call <- udp, wire <- packet

OddEvenZeroLong == {<<>>, <<255, 254, 7>>, <<199, 231>>, [i \in 1..33 |-> 1]}
SomePadding == {<<>>, <<0, 0, 0>>}
PlainAndOdd ==
  [ver : {4}, options : {<<>>}, frag : {16384}, cut : {0, 1, 20}] \cup
  {[ver |-> 4, options |-> <<1, 1, 1, 0>>, frag |-> 0, cut |-> 0],
   [ver |-> 4, options |-> <<>>, frag |-> 8192, cut |-> 0],
   [ver |-> 4, options |-> <<>>, frag |-> 3, cut |-> 0],
   [ver |-> 6, options |-> <<>>, frag |-> 16384, cut |-> 0]}

MCInit ==
  /\ scenario \in {"dhcp", "arp", "nic", "packets"}
  /\ dhcp_init /\ A!Init /\ N!e1000_init /\ P!Init
  /\ scenario # "nic" => ~lags

InDhcp(action) == scenario = "dhcp" /\ action /\ UNCHANGED <<scenario, arpvars, nicvars, packetvars>>
InArp(action) == scenario = "arp" /\ action /\ UNCHANGED <<scenario, dhcpvars, nicvars, packetvars>>
InNic(action) == scenario = "nic" /\ action /\ UNCHANGED <<scenario, dhcpvars, arpvars, packetvars>>
InPackets(action) ==
  scenario = "packets" /\ action /\ UNCHANGED <<scenario, dhcpvars, arpvars, nicvars>>

MCNext == InDhcp(DhcpNext) \/ InArp(A!Next) \/ InNic(N!Next) \/ InPackets(P!Next)

\* The fairness of Arp and Nic.
MCSpec ==
  /\ MCInit /\ [][MCNext]_allvars
  /\ WF_allvars(InArp(A!ipv4_set_addr))
  /\ \A h \in Neighbours : WF_allvars(InArp(A!Answers(h)))
  /\ \A p \in Processes : WF_allvars(InArp(A!InCall(p)))
  /\ WF_allvars(InNic(N!BootDone \/ \E type \in EtherTypes : N!ethernet_register(type)))
  /\ \A c \in {"call", "intr"} : WF_allvars(InNic(N!SendStep(c)))
  /\ WF_allvars(InNic(N!InterruptStep))
  /\ WF_allvars(InNic(N!TimerInterrupt))
  /\ WF_allvars(InNic(N!CardTransmits))

\* SendGetsThrough of module Arp: a process that keeps sending gets through.
SendGetsThrough == A!SendGetsThrough

\* PacketsAreUnderstood of module Packets: what leaves is sound, what arrives is
\* what was meant.
PacketsAreUnderstood == P!PacketsAreUnderstood

\* RingsDrain of module Nic: what is in the rings is dealt with.
RingsDrain == scenario = "nic" => N!RingsDrain
=============================================================================
