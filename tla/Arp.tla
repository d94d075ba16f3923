-------------------------------- MODULE Arp ---------------------------------
(***************************************************************************)
(* Address resolution and the way out of the machine: the ARP table        *)
(* (src/src/net/arp/arp.c) and ipv4_send (src/src/net/ipv4/ipv4.c).        *)
(* Received packets, and the answers they cause, are handled in the timer  *)
(* interrupt and are one step each.  ipv4_send is also called by system    *)
(* calls, and there the interrupt may fall between any two slots of the    *)
(* lookup, and between the match and the copy of the address.              *)
(***************************************************************************)
EXTENDS Link, Sequences, FiniteSetsExt

CONSTANTS
  OUR_IP,
  Processes         \* processes that send

vars == <<table, our_ip, call, asked, wire, evicted>>

Empty == [ip |-> 0, mac |-> 0]
Idle == [pc |-> "user", dst |-> 0, hop |-> 0, i |-> 0, mac |-> 0]
Known(t) == {t[i].ip : i \in Slots} \ {0}
-----------------------------------------------------------------------------
\* arp_insert: the address's own slot, else the first free one, else slot 0.
arp_insert(t, ip, mac) ==
  LET entry == [ip |-> ip, mac |-> mac] IN
  CASE SlotsOf(t, ip) # {} -> [t EXCEPT ![Min(SlotsOf(t, ip))].mac = mac]
    [] SlotsOf(t, ip) = {} /\ SlotsOf(t, 0) # {} ->
         [t EXCEPT ![Min(SlotsOf(t, 0))] = entry]
    [] OTHER -> [t EXCEPT ![0] = entry]

\* arp_rx of a request or reply from neighbour h: its mapping is learned
\* whatever the packet is.  (The answer to a who-has goes to the MAC in the
\* packet and leaves no trace here.)
arp_rx(h) ==
  /\ table' = arp_insert(table, h, MacOf[h])
  /\ evicted' = (evicted \/ SlotsOf(table, h) \cup SlotsOf(table, 0) = {})
  /\ asked' = asked \ {h}
  /\ UNCHANGED <<our_ip, call, wire>>

\* The DHCP client has a lease.
ipv4_set_addr ==
  /\ our_ip = 0
  /\ our_ip' = OUR_IP
  /\ UNCHANGED <<table, call, asked, wire, evicted>>

\* Mutant: everything is taken to be on the link.
next_hop_flat(dst) == dst

\* Off-link destinations go through the gateway once there is an address.
next_hop(dst) == IF our_ip # 0 /\ dst \in Remote THEN GATEWAY ELSE dst
-----------------------------------------------------------------------------
\* Mutant: an unresolved packet of the interrupt takes whatever slot 0 holds.
icmp_rx_guess(dst) ==
  LET hop == next_hop(dst) IN
  /\ wire' = [dst |-> dst, hop |-> hop, by |-> "interrupt",
              mac |-> table[IF hop \in Known(table) THEN Min(SlotsOf(table, hop)) ELSE 0].mac]
  /\ UNCHANGED <<table, our_ip, call, asked, evicted>>

\* ipv4_send to dst in the interrupt (an echo reply, a TCP acknowledgement).
icmp_rx(dst) ==
  LET hop == next_hop(dst) IN
  /\ IF hop \in Known(table)
     THEN /\ wire' = [dst |-> dst, hop |-> hop, by |-> "interrupt",
                      mac |-> table[Min(SlotsOf(table, hop))].mac]
          /\ UNCHANGED asked
     ELSE /\ asked' = asked \cup ({hop} \cap Neighbours)
          /\ UNCHANGED wire
  /\ UNCHANGED <<table, our_ip, call, evicted>>

\* ipv4_send by a process, up to the first slot of arp_lookup.
ipv4_send(p, dst) ==
  /\ call[p].pc = "user"
  /\ call' = [call EXCEPT ![p] = [pc |-> "scan", dst |-> dst, hop |-> next_hop(dst),
                                  i |-> 0, mac |-> 0]]
  /\ UNCHANGED <<table, our_ip, asked, wire, evicted>>

\* One turn of arp_lookup's loop, or its end without a match: who-has, and the
\* packet is dropped.
arp_lookup(p) ==
  LET c == call[p] IN
  /\ c.pc = "scan"
  /\ IF c.i < ARP_TABLE_SIZE
     THEN /\ call' = [call EXCEPT ![p] = IF table[c.i].ip = c.hop
                                         THEN [c EXCEPT !.pc = "copy"]
                                         ELSE [c EXCEPT !.i = @ + 1]]
          /\ UNCHANGED asked
     ELSE /\ call' = [call EXCEPT ![p] = Idle]
          /\ asked' = asked \cup ({c.hop} \cap Neighbours)
  /\ UNCHANGED <<table, our_ip, wire, evicted>>

\* memcpy of the MAC from the slot that matched.
CopyMac(p) ==
  /\ call[p].pc = "copy"
  /\ call' = [call EXCEPT ![p].pc = "send", ![p].mac = table[call[p].i].mac]
  /\ UNCHANGED <<table, our_ip, asked, wire, evicted>>

\* The frame is built and handed to the card.
ethernet_send(p) ==
  /\ call[p].pc = "send"
  /\ wire' = [dst |-> call[p].dst, hop |-> call[p].hop, by |-> "process",
              mac |-> call[p].mac]
  /\ call' = [call EXCEPT ![p] = Idle]
  /\ UNCHANGED <<table, our_ip, asked, evicted>>
-----------------------------------------------------------------------------
Init ==
  /\ table = [i \in Slots |-> Empty]
  /\ our_ip = 0
  /\ call = [p \in Processes |-> Idle]
  /\ asked = {} /\ wire = Nothing /\ evicted = FALSE

Interrupt ==
  \/ \E h \in Neighbours : arp_rx(h)
  \/ \E dst \in Neighbours \cup Remote : icmp_rx(dst)
  \/ ipv4_set_addr

InCall(p) == arp_lookup(p) \/ CopyMac(p) \/ ethernet_send(p)

Next ==
  \/ Interrupt
  \/ \E p \in Processes : InCall(p) \/ \E dst \in Neighbours \cup Remote : ipv4_send(p, dst)

Spec == Init /\ [][Next]_vars

\* A neighbour that is asked answers, the lease comes, and processes run on.
Answers(h) == h \in asked /\ arp_rx(h)
FairSpec ==
  /\ Spec
  /\ WF_vars(ipv4_set_addr)
  /\ \A h \in Neighbours : WF_vars(Answers(h))
  /\ \A p \in Processes : WF_vars(InCall(p))
-----------------------------------------------------------------------------
Forgets == Known(table) \ Known(table') # {}

\* The first packets to an unknown hop are dropped, and still a process that
\* keeps sending to a destination, on or off the link, gets a frame out to it,
\* unless more neighbours than slots compete for the table for ever (ipv4_send,
\* arp_request, arp_rx).
SendGetsThrough ==
  \A p \in Processes, dst \in Neighbours \cup Remote :
    []<><<ipv4_send(p, dst)>>_vars =>
      \/ <>(wire.dst = dst /\ wire.by = "process")
      \/ []<><<Forgets>>_vars
=============================================================================
