--------------------------- MODULE InternetProofs ---------------------------
(***************************************************************************)
(* The address of this machine and those of its neighbours.                *)
(*                                                                         *)
(* Module Arp: every frame goes to the MAC of its next hop                 *)
(* (SentToNextHop), for any number of neighbours, sending processes and    *)
(* slots.  The inductive invariant says what each process in the middle of *)
(* its lookup may still rely on: a slot that matched keeps the address     *)
(* until the full table overwrites it, and is never free again.            *)
(*                                                                         *)
(* Module Dhcp: only a granted address is used (UsesGrantedLease) and      *)
(* retries keep their time and number (RetriesOnTime), for any servers and *)
(* any width of the clock.  The first invariant says which requests an     *)
(* acknowledgement on the network can answer; the second how far away the  *)
(* deadline is.                                                            *)
(***************************************************************************)
EXTENDS Arp, Dhcp, WellFoundedInduction, TLAPS

Macs == {MacOf[h] : h \in Neighbours}
Addresses == Neighbours \cup Remote \cup {0}
Entries == [ip : Neighbours \cup {0}, mac : Macs \cup {0}]
Calls == [pc : {"user", "scan", "copy", "send"}, dst : Addresses, hop : Addresses,
          i : Nat, mac : Macs \cup {0}]

\* The types of the variables.
TypeOK ==
  /\ table \in [Slots -> Entries]
  /\ call \in [Processes -> Calls]
  /\ evicted \in BOOLEAN

\* The MAC of the hop, or after an eviction that of some neighbour.
Reaches(mac, hop) == mac = MacOf[hop] \/ (evicted /\ mac \in Macs)

\* The table is a map from addresses to the MACs of their neighbours.
OneSlotEach ==
  \A i, j \in Slots : table[i].ip # 0 /\ table[i].ip = table[j].ip => i = j
RightMacs == \A i \in Slots : table[i].ip # 0 => table[i].mac = MacOf[table[i].ip]

\* What a process inside ipv4_send relies on.
Looking(p) ==
  /\ call[p].pc \in {"scan", "copy"} => call[p].hop # 0
  /\ call[p].pc = "copy" =>
       /\ call[p].i \in Slots /\ table[call[p].i].ip # 0
       /\ table[call[p].i].ip = call[p].hop \/ evicted
  /\ call[p].pc = "send" => Reaches(call[p].mac, call[p].hop)

\* What has gone out.
FrameIsRight ==
  wire # Nothing => \/ wire.mac = MacOf[wire.hop]
                    \/ evicted /\ wire.by = "process" /\ wire.mac \in Macs

\* The inductive invariant.
IInv == /\ TypeOK /\ OneSlotEach /\ RightMacs /\ FrameIsRight
        /\ \A p \in Processes : Looking(p)

USE LinkAssumption
-----------------------------------------------------------------------------
\* A set of naturals has a least element, so that Min picks one of the set.
LEMMA MinIsMember ==
  ASSUME NEW S \in SUBSET Nat, S # {}
  PROVE  Min(S) \in S
<1> DEFINE R == OpToRel(<, Nat)
<1>1. \E x \in S : \A y \in S : ~(<<y, x>> \in R)
  BY Zenon, WFMin, NatLessThanWellFounded
<1>2. \A x, y \in Nat : <<y, x>> \in R <=> y < x
  BY DEF OpToRel
<1> HIDE DEF R
<1>3. PICK x \in S : \A y \in S : ~(<<y, x>> \in R)
  BY <1>1
<1>4. \A y \in S : x <= y
  <2> SUFFICES ASSUME NEW y \in S PROVE ~(y < x)
    OBVIOUS
  <2>1. ~(<<y, x>> \in R)
    BY <1>3
  <2>2. x \in Nat /\ y \in Nat
    OBVIOUS
  <2> QED BY <1>2, <2>1, <2>2, Zenon
<1> QED BY Zenon, <1>4 DEF Min

\* The slot a lookup stops at holds the address.
LEMMA SlotFound ==
  ASSUME NEW t, NEW ip, SlotsOf(t, ip) # {}
  PROVE  Min(SlotsOf(t, ip)) \in Slots /\ t[Min(SlotsOf(t, ip))].ip = ip
<1>1. SlotsOf(t, ip) \in SUBSET Nat
  BY DEF SlotsOf, Slots
<1>2. Min(SlotsOf(t, ip)) \in SlotsOf(t, ip)
  BY <1>1, MinIsMember
<1> QED BY <1>2 DEF SlotsOf

\* arp_insert writes one slot: the address's own, a free one when it has none,
\* and one in use only when neither exists.
LEMMA InsertOne ==
  ASSUME NEW t \in [Slots -> Entries], NEW h \in Neighbours
  PROVE  \E j \in Slots :
           /\ arp_insert(t, h, MacOf[h]) = [t EXCEPT ![j] = [ip |-> h, mac |-> MacOf[h]]]
           /\ t[j].ip = h \/ SlotsOf(t, h) = {}
           /\ t[j].ip \in {h, 0} \/ SlotsOf(t, h) \cup SlotsOf(t, 0) = {}
<1>1. CASE SlotsOf(t, h) # {}
  <2> DEFINE j == Min(SlotsOf(t, h))
  <2>1. j \in Slots /\ t[j].ip = h
    BY <1>1, SlotFound
  <2>2. arp_insert(t, h, MacOf[h]) = [t EXCEPT ![j].mac = MacOf[h]]
    BY <1>1 DEF arp_insert
  <2> HIDE DEF j
  <2>3. [t[j] EXCEPT !.mac = MacOf[h]] = [ip |-> h, mac |-> MacOf[h]]
    BY <2>1 DEF Entries
  <2>4. [t EXCEPT ![j].mac = MacOf[h]] = [t EXCEPT ![j] = [ip |-> h, mac |-> MacOf[h]]]
    BY Zenon, <2>1, <2>3
  <2> QED BY Zenon, <2>1, <2>2, <2>4
<1>2. CASE SlotsOf(t, h) = {} /\ SlotsOf(t, 0) # {}
  <2>1. Min(SlotsOf(t, 0)) \in Slots /\ t[Min(SlotsOf(t, 0))].ip = 0
    BY <1>2, SlotFound
  <2>2. arp_insert(t, h, MacOf[h]) =
          [t EXCEPT ![Min(SlotsOf(t, 0))] = [ip |-> h, mac |-> MacOf[h]]]
    BY <1>2 DEF arp_insert
  <2> QED BY Zenon, <1>2, <2>1, <2>2
<1>3. CASE SlotsOf(t, h) = {} /\ SlotsOf(t, 0) = {}
  <2>1. arp_insert(t, h, MacOf[h]) = [t EXCEPT ![0] = [ip |-> h, mac |-> MacOf[h]]]
    BY <1>3 DEF arp_insert
  <2>2. 0 \in Slots
    BY DEF Slots
  <2> QED BY Zenon, <1>3, <2>1, <2>2
<1> QED BY <1>1, <1>2, <1>3
-----------------------------------------------------------------------------
LEMMA InitEstablishes == Init => IInv
<1> SUFFICES ASSUME Init PROVE IInv
  OBVIOUS
<1>1. TypeOK
  BY Zenon DEF Init, TypeOK, Empty, Entries, Idle, Calls, Addresses
<1>2. OneSlotEach /\ RightMacs
  BY DEF Init, OneSlotEach, RightMacs, Empty
<1>3. FrameIsRight
  BY DEF Init, FrameIsRight
<1>4. \A p \in Processes : Looking(p)
  BY DEF Init, Looking, Idle
<1> QED BY <1>1, <1>2, <1>3, <1>4 DEF IInv

\* A mapping learned in the middle of lookups: a slot that matched holds its
\* address still, or an eviction is on record.
LEMMA LearnStep ==
  ASSUME IInv, NEW h \in Neighbours, arp_rx(h)
  PROVE  IInv'
<1>1. /\ table \in [Slots -> Entries] /\ call \in [Processes -> Calls]
      /\ UNCHANGED <<call, wire>>
      /\ table' = arp_insert(table, h, MacOf[h])
      /\ evicted' = (evicted \/ SlotsOf(table, h) \cup SlotsOf(table, 0) = {})
      /\ evicted \in BOOLEAN
  BY DEF IInv, TypeOK, arp_rx
<1>2. PICK j \in Slots :
           /\ table' = [table EXCEPT ![j] = [ip |-> h, mac |-> MacOf[h]]]
           /\ table[j].ip = h \/ SlotsOf(table, h) = {}
           /\ table[j].ip \in {h, 0} \/ evicted'
  BY Zenon, <1>1, InsertOne
<1>3. /\ table'[j].ip = h /\ table'[j].mac = MacOf[h]
      /\ \A i \in Slots \ {j} : table'[i] = table[i]
  BY <1>1, <1>2
<1>4. evicted => evicted'
  BY Zenon, <1>1
<1>5. TypeOK'
  <2>1. [ip |-> h, mac |-> MacOf[h]] \in Entries
    BY DEF Entries, Macs
  <2>2. table' \in [Slots -> Entries]
    BY <1>1, <1>2, <2>1
  <2> QED BY <1>1, <2>2 DEF TypeOK
<1>6. OneSlotEach'
  <2>1. \A i \in Slots \ {j} : table[i].ip # h
    BY <1>2 DEF IInv, OneSlotEach, SlotsOf
  <2> QED BY <1>3, <2>1 DEF IInv, OneSlotEach
<1>7. RightMacs'
  BY <1>3 DEF IInv, RightMacs
<1>8. FrameIsRight'
  BY <1>1, <1>4 DEF IInv, FrameIsRight
<1>9. ASSUME NEW p \in Processes
      PROVE  Looking(p)'
  <2>1. Looking(p) /\ call'[p] = call[p]
    BY <1>1 DEF IInv
  <2>2. CASE call[p].pc = "copy"
    <3>1. /\ call[p].i \in Slots /\ table[call[p].i].ip # 0
          /\ table[call[p].i].ip = call[p].hop \/ evicted
      BY Zenon, <2>1, <2>2 DEF Looking
    <3>2. /\ table'[call[p].i].ip # 0
          /\ table'[call[p].i].ip = call[p].hop \/ evicted'
      BY Zenon, <1>2, <1>3, <1>4, <3>1
    <3> QED BY Zenon, <2>1, <2>2, <3>1, <3>2 DEF Looking
  <2>3. CASE call[p].pc # "copy"
    BY Zenon, <1>4, <2>1, <2>3 DEF Looking, Reaches
  <2> QED BY <2>2, <2>3
<1> QED BY <1>5, <1>6, <1>7, <1>8, <1>9 DEF IInv

\* A step of process p's ipv4_send: the table and the evictions stay.
LEMMA SenderStep ==
  ASSUME IInv, UNCHANGED <<table, evicted>>, NEW p \in Processes, NEW c \in Calls,
         call' = [call EXCEPT ![p] = c],
         c.pc \in {"scan", "copy"} => c.hop # 0,
         c.pc = "copy" => c.i \in Slots /\ table[c.i].ip = c.hop,
         c.pc = "send" => Reaches(c.mac, c.hop),
         FrameIsRight'
  PROVE  IInv'
<1>1. TypeOK'
  BY DEF IInv, TypeOK
<1>2. OneSlotEach' /\ RightMacs'
  BY DEF IInv, OneSlotEach, RightMacs
<1>3. ASSUME NEW q \in Processes
      PROVE  Looking(q)'
  <2>1. CASE q = p
    <3>1. call'[p] = c
      BY DEF IInv, TypeOK
    <3> QED BY <2>1, <3>1 DEF Looking, Reaches
  <2>2. CASE q # p
    <3>1. call'[q] = call[q] /\ Looking(q)
      BY <2>2 DEF IInv, TypeOK
    <3> QED BY Zenon, <3>1 DEF Looking, Reaches
  <2> QED BY <2>1, <2>2
<1> QED BY Zenon, <1>1, <1>2, <1>3 DEF IInv

\* A destination's next hop is never address 0.
LEMMA HopIsAddress ==
  ASSUME NEW dst \in Neighbours \cup Remote
  PROVE  next_hop(dst) \in Addresses \ {0}
BY DEF next_hop, Addresses

\* The whole of ipv4_send in the interrupt sees one table.
LEMMA InterruptSends ==
  ASSUME IInv, NEW dst \in Neighbours \cup Remote, icmp_rx(dst)
  PROVE  IInv'
<1>1. UNCHANGED <<table, evicted, call>>
  BY DEF icmp_rx
<1>2. FrameIsRight'
  <2>1. CASE next_hop(dst) \notin Known(table)
    BY <1>1, <2>1 DEF icmp_rx, IInv, FrameIsRight
  <2>2. CASE next_hop(dst) \in Known(table)
    <3>1. SlotsOf(table, next_hop(dst)) # {}
      BY <2>2 DEF Known, SlotsOf
    <3>2. PICK i \in Slots : i = Min(SlotsOf(table, next_hop(dst))) /\ table[i].ip = next_hop(dst)
      BY <3>1, SlotFound
    <3>3. table[i].mac = MacOf[next_hop(dst)]
      BY <3>2, HopIsAddress DEF IInv, RightMacs
    <3>4. wire' = [dst |-> dst, hop |-> next_hop(dst), by |-> "interrupt", mac |-> table[i].mac]
      BY <2>2, <3>2 DEF icmp_rx
    <3> QED BY Zenon, <3>3, <3>4 DEF FrameIsRight
  <2> QED BY <2>1, <2>2
<1>3. TypeOK' /\ OneSlotEach' /\ RightMacs' /\ \A p \in Processes : Looking(p)'
  BY Zenon, <1>1 DEF IInv, TypeOK, OneSlotEach, RightMacs, Looking, Reaches
<1> QED BY <1>2, <1>3 DEF IInv

\* Every step keeps the invariant.
LEMMA NextPreserves == IInv /\ [Next]_vars => IInv'
<1> SUFFICES ASSUME IInv, [Next]_vars PROVE IInv'
  OBVIOUS
<1>0. Idle \in Calls /\ Idle.pc = "user"
  BY DEF Idle, Calls, Addresses
<1>1. ASSUME wire' = wire, evicted' = evicted
      PROVE  FrameIsRight'
  BY <1>1 DEF IInv, FrameIsRight
<1>2. CASE ipv4_set_addr \/ UNCHANGED vars
  <2>1. UNCHANGED <<table, call, wire, evicted>>
    BY <1>2 DEF ipv4_set_addr, vars
  <2>2. TypeOK' /\ OneSlotEach' /\ RightMacs' /\ \A p \in Processes : Looking(p)'
    BY Zenon, <2>1 DEF IInv, TypeOK, OneSlotEach, RightMacs, Looking, Reaches
  <2> QED BY <1>1, <2>1, <2>2 DEF IInv
<1>3. ASSUME NEW p \in Processes, NEW dst \in Neighbours \cup Remote, ipv4_send(p, dst)
      PROVE  IInv'
  <2> DEFINE c == [pc |-> "scan", dst |-> dst, hop |-> next_hop(dst), i |-> 0, mac |-> 0]
  <2>1. /\ call' = [call EXCEPT ![p] = c] /\ UNCHANGED <<table, evicted, wire>>
        /\ c.pc = "scan" /\ c.hop = next_hop(dst)
    BY Zenon, <1>3 DEF ipv4_send
  <2>2. c \in Calls
    BY Zenon, HopIsAddress DEF Calls, Addresses
  <2> HIDE DEF c
  <2> QED BY Zenon, <1>1, <2>1, <2>2, HopIsAddress, SenderStep
<1>4. ASSUME NEW p \in Processes, arp_lookup(p)
      PROVE  IInv'
  <2>1. /\ call[p] \in Calls /\ call[p].pc = "scan" /\ call[p].hop # 0
        /\ UNCHANGED <<table, evicted, wire>>
    BY <1>4 DEF arp_lookup, IInv, TypeOK, Looking
  <2>2. CASE call[p].i < ARP_TABLE_SIZE /\ table[call[p].i].ip = call[p].hop
    <3> DEFINE c == [call[p] EXCEPT !.pc = "copy"]
    <3>1. /\ c \in Calls /\ c.pc = "copy" /\ c.hop = call[p].hop /\ c.i = call[p].i
          /\ c.i \in Slots
      BY <2>1, <2>2 DEF Calls, Slots
    <3>2. call' = [call EXCEPT ![p] = c]
      BY <1>4, <2>2 DEF arp_lookup
    <3> HIDE DEF c
    <3> QED BY Zenon, <1>1, <2>1, <2>2, <3>1, <3>2, SenderStep
  <2>3. CASE call[p].i < ARP_TABLE_SIZE /\ table[call[p].i].ip # call[p].hop
    <3> DEFINE c == [call[p] EXCEPT !.i = @ + 1]
    <3>1. c \in Calls /\ c.pc = "scan" /\ c.hop = call[p].hop
      BY <2>1 DEF Calls
    <3>2. call' = [call EXCEPT ![p] = c]
      BY <1>4, <2>3 DEF arp_lookup
    <3> HIDE DEF c
    <3> QED BY Zenon, <1>1, <2>1, <3>1, <3>2, SenderStep
  <2>4. CASE ~(call[p].i < ARP_TABLE_SIZE)
    <3>1. call' = [call EXCEPT ![p] = Idle]
      BY <1>4, <2>4 DEF arp_lookup
    <3> QED BY Zenon, <1>0, <1>1, <2>1, <3>1, SenderStep
  <2> QED BY Zenon, <2>2, <2>3, <2>4
<1>5. ASSUME NEW p \in Processes, CopyMac(p)
      PROVE  IInv'
  <2> DEFINE i == call[p].i
             c == [call[p] EXCEPT !.pc = "send", !.mac = table[i].mac]
  <2>1. /\ call[p] \in Calls /\ call[p].pc = "copy" /\ Looking(p)
        /\ UNCHANGED <<table, evicted, wire>> /\ call \in [Processes -> Calls]
        /\ table \in [Slots -> Entries]
    BY <1>5 DEF CopyMac, IInv, TypeOK
  <2>2. i \in Slots /\ table[i].ip # 0 /\ (table[i].ip = call[p].hop \/ evicted)
    BY <2>1 DEF Looking
  <2>3. table[i].mac = MacOf[table[i].ip] /\ table[i].mac \in Macs
    BY Zenon, <2>1, <2>2 DEF IInv, RightMacs, Entries, Macs
  <2>4. c \in Calls /\ c.pc = "send" /\ c.hop = call[p].hop /\ c.mac = table[i].mac
    BY Zenon, <2>1, <2>3 DEF Calls
  <2>5. call' = [call EXCEPT ![p] = c]
    BY Zenon, <1>5, <2>1 DEF CopyMac
  <2>6. Reaches(c.mac, c.hop)
    BY Zenon, <2>2, <2>3, <2>4 DEF Reaches
  <2> HIDE DEF c
  <2> QED BY Zenon, <1>1, <2>1, <2>4, <2>5, <2>6, SenderStep
<1>6. ASSUME NEW p \in Processes, ethernet_send(p)
      PROVE  IInv'
  <2>1. /\ call' = [call EXCEPT ![p] = Idle] /\ UNCHANGED <<table, evicted>>
        /\ wire' = [dst |-> call[p].dst, hop |-> call[p].hop, by |-> "process",
                    mac |-> call[p].mac]
        /\ Reaches(call[p].mac, call[p].hop)
    BY Zenon, <1>6 DEF ethernet_send, IInv, Looking
  <2>2. FrameIsRight'
    BY <2>1 DEF FrameIsRight, Reaches
  <2> QED BY Zenon, <1>0, <2>1, <2>2, SenderStep
<1> QED BY <1>2, <1>3, <1>4, <1>5, <1>6, LearnStep, InterruptSends DEF Next, Interrupt, InCall

\* The inductive invariant holds throughout.
THEOREM Invariance == Spec => []IInv
BY InitEstablishes, NextPreserves, PTL DEF Spec

\* Every frame goes to the MAC of its next hop, whatever happens to the ARP
\* table between the steps of a process's ipv4_send, but for an eviction
\* between match and copy; and the table stays a map of the neighbours.
THEOREM FramesGoToNextHop == Spec => []SentToNextHop
<1>1. IInv => SentToNextHop
  <2> SUFFICES ASSUME IInv PROVE SentToNextHop
    OBVIOUS
  <2>1. wire # Nothing =>
          \/ wire.mac = MacOf[wire.hop]
          \/ evicted /\ wire.by = "process" /\ \E h \in Neighbours : wire.mac = MacOf[h]
    BY DEF IInv, FrameIsRight, Macs
  <2>2. ASSUME NEW i \in Slots, table[i].ip # 0
        PROVE  table[i].mac = MacOf[table[i].ip] /\ SlotsOf(table, table[i].ip) = {i}
    BY Zenon, <2>2 DEF IInv, RightMacs, OneSlotEach, SlotsOf
  <2> QED BY <2>1, <2>2 DEF SentToNextHop
<1> QED BY <1>1, Invariance, PTL
-----------------------------------------------------------------------------
(***************************************************************************)
(* The DHCP client: what it remembers, and what of it the servers know.    *)
(***************************************************************************)
Packets == (Addrs \X Servers) \cup {DISCOVER}

Client ==
  [state : {"SELECTING", "REQUESTING", "BOUND", "FAILED"},
   offered_ip : Addrs \cup {0}, server_ip : Servers \cup {0}, retry_count : Nat,
   deadline : Int, our_ip : Addrs \cup {0}, our_gateway : Gateways \cup {0},
   sent : SUBSET Packets, sends : Nat,
   fresh : BOOLEAN, naks : Nat]

\* Offers and acknowledgements carry the server's address, and what is
\* acknowledged was asked for.
AsServed(m) ==
  /\ m.srv \in Servers /\ m.gw \in Gateways \cup {0}
  /\ m.type \in {"OFFER", "ACK"} => m.yiaddr = AddrOf[m.srv] /\ m.yiaddr \in Addrs
  /\ m.type = "ACK" => <<m.yiaddr, m.srv>> \in d.sent

\* Until a NAK is acted on there is one offer the client has asked for.
LeaseInv ==
  /\ d \in Client
  /\ \A m \in net : AsServed(m)
  /\ d.state = "SELECTING" => d.offered_ip = 0 /\ d.server_ip = 0
  /\ d.state = "REQUESTING" => d.offered_ip \in Addrs /\ d.server_ip \in Servers
  /\ d.naks = 0 => d.sent \subseteq {DISCOVER, <<d.offered_ip, d.server_ip>>}
  /\ d.our_ip # 0 /\ d.naks = 0 => d.state = "BOUND"
  /\ UsesGrantedLease

\* How many ticks there are to the deadline.
Remaining == IF d.fresh THEN DHCP_RETRY_MS
             ELSE DHCP_RETRY_MS - age - (IF polling THEN 1 ELSE 0)

RetryInv ==
  /\ d \in Client /\ ticks \in 0 .. U32 - 1 /\ polling \in BOOLEAN
  /\ age \in Nat /\ age < DHCP_RETRY_MS
  /\ d.retry_count <= DHCP_MAX_RETRIES
  /\ d.state = "SELECTING" => d.sends = d.retry_count + 1
  /\ d.state = "REQUESTING" => d.sends = d.retry_count + 2
  /\ d.state \in {"BOUND", "FAILED"} => d.sends <= DHCP_MAX_RETRIES + 2
  /\ d.state = "FAILED" => d.sends >= DHCP_MAX_RETRIES + 1
  /\ d.fresh => polling
  /\ d.state \in Waiting => d.deadline = (ticks + Remaining) % U32
-----------------------------------------------------------------------------
\* The fields a step of the client leaves alone.
SameAddr(c) == c.our_ip = d.our_ip /\ c.our_gateway = d.our_gateway
SameOffer(c) == c.offered_ip = d.offered_ip /\ c.server_ip = d.server_ip
SameSends(c) ==
  /\ c.sent = d.sent /\ c.sends = d.sends /\ c.fresh = d.fresh
  /\ c.retry_count = d.retry_count /\ c.deadline = d.deadline
Sends(c, p) ==
  /\ c.sent = d.sent \cup {p} /\ c.fresh = TRUE /\ c.deadline = Later(ticks)

\* What dhcp_rx makes of a reply: an offer taken, an acknowledgement, a refusal.
TakesOffer(c, m) ==
  /\ d.state = "SELECTING" /\ m.type = "OFFER" /\ c.state = "REQUESTING"
  /\ c.offered_ip = m.yiaddr /\ c.server_ip = m.srv /\ Sends(c, <<m.yiaddr, m.srv>>)
  /\ c.sends = d.sends + 1 /\ c.retry_count = d.retry_count
  /\ SameAddr(c) /\ c.naks = d.naks
TakesAck(c, m) ==
  /\ d.state = "REQUESTING" /\ m.type = "ACK" /\ c.state = "BOUND"
  /\ c.our_ip = m.yiaddr /\ c.our_gateway = (IF m.gw = 0 THEN d.server_ip ELSE m.gw)
  /\ SameOffer(c) /\ SameSends(c) /\ c.naks = d.naks
TakesNak(c) ==
  /\ c.state = "SELECTING" /\ c.offered_ip = 0 /\ c.server_ip = 0 /\ Sends(c, DISCOVER)
  /\ c.sends = 1 /\ c.retry_count = 0 /\ SameAddr(c) /\ c.naks = d.naks + 1

LEMMA ClientValues ==
  ASSUME d \in Client, ticks \in 0 .. U32 - 1
  PROVE  /\ Later(ticks) \in Int
         /\ d.retry_count \in Nat /\ d.retry_count + 1 \in Nat
         /\ d.sends \in Nat /\ d.sends + 1 \in Nat /\ d.naks + 1 \in Nat
         /\ \A p \in Packets : d.sent \cup {p} \in SUBSET Packets
<1>1. d.retry_count \in Nat /\ d.sends \in Nat /\ d.naks \in Nat /\ d.sent \in SUBSET Packets
  BY DEF Client
<1>2. ticks + DHCP_RETRY_MS \in Int /\ U32 \in Nat \ {0}
  BY DhcpAssumption
<1>3. Later(ticks) \in Int
  BY <1>2 DEF Later
<1>4. \A p \in Packets : d.sent \cup {p} \in SUBSET Packets
  BY <1>1
<1> QED BY <1>1, <1>3, <1>4

LEMMA RxCases ==
  ASSUME d \in Client, ticks \in 0 .. U32 - 1, NEW m, AsServed(m)
  PROVE  LET c == dhcp_rx(d, m)
         IN  /\ c \in Client
             /\ c = d \/ TakesOffer(c, m) \/ TakesAck(c, m) \/ TakesNak(c)
<1>0. /\ m.srv \in Servers /\ m.gw \in Gateways \cup {0}
      /\ m.type \in {"OFFER", "ACK"} => m.yiaddr \in Addrs
  BY Zenon DEF AsServed
<1> DEFINE c == dhcp_rx(d, m)
<1>1. CASE ~Accepts(d, m) \/ m.yiaddr = 0
  BY Zenon, <1>1 DEF dhcp_rx
<1>2. CASE /\ ~(~Accepts(d, m) \/ m.yiaddr = 0)
           /\ d.state = "SELECTING" /\ m.type = "OFFER"
  <2>1. c = [d EXCEPT !.sent = @ \cup {<<m.yiaddr, m.srv>>}, !.sends = @ + 1, !.fresh = TRUE,
                      !.offered_ip = m.yiaddr, !.server_ip = m.srv,
                      !.state = "REQUESTING", !.deadline = Later(ticks)]
    BY <1>2 DEF dhcp_rx, send_request, Client
  <2> HIDE DEF c
  <2>2. c \in Client
    <3>1. m.yiaddr \in Addrs /\ <<m.yiaddr, m.srv>> \in Packets
      BY Zenon, <1>0, <1>2 DEF Packets
    <3> QED BY Zenon, <1>0, <2>1, <3>1, ClientValues DEF Client
  <2>3. TakesOffer(c, m)
    BY <1>2, <2>1 DEF TakesOffer, Sends, SameAddr, Client
  <2> QED BY <2>2, <2>3 DEF c
<1>3. CASE /\ ~(~Accepts(d, m) \/ m.yiaddr = 0)
           /\ d.state = "REQUESTING" /\ m.type = "ACK"
  <2>1. c = [d EXCEPT !.our_ip = m.yiaddr, !.state = "BOUND",
                      !.our_gateway = IF m.gw = 0 THEN d.server_ip ELSE m.gw]
    BY <1>3 DEF dhcp_rx
  <2> HIDE DEF c
  <2>2. (IF m.gw = 0 THEN d.server_ip ELSE m.gw) \in Gateways \cup {0}
    BY <1>0 DEF Client, Gateways
  <2>3. c \in Client
    BY Zenon, <1>0, <1>3, <2>1, <2>2 DEF Client
  <2>4. TakesAck(c, m)
    BY <1>3, <2>1 DEF TakesAck, SameOffer, SameSends, Client
  <2> QED BY <2>3, <2>4 DEF c
<1>4. CASE /\ ~(~Accepts(d, m) \/ m.yiaddr = 0)
           /\ ~(d.state = "SELECTING" /\ m.type = "OFFER")
           /\ ~(d.state = "REQUESTING" /\ m.type = "ACK")
           /\ m.type = "NAK" /\ d.naks < MAX_NAKS
  <2>1. c = [d EXCEPT !.sent = @ \cup {DISCOVER}, !.sends = 1, !.fresh = TRUE,
                      !.state = "SELECTING", !.offered_ip = 0, !.server_ip = 0,
                      !.retry_count = 0, !.deadline = Later(ticks), !.naks = @ + 1]
    <3>1. c = [send_discover([d EXCEPT !.sends = 0]) EXCEPT
                 !.state = "SELECTING", !.offered_ip = 0, !.server_ip = 0,
                 !.retry_count = 0, !.deadline = Later(ticks), !.naks = @ + 1]
      BY <1>4 DEF dhcp_rx
    <3>2. send_discover([d EXCEPT !.sends = 0])
            = [d EXCEPT !.sent = @ \cup {DISCOVER}, !.sends = 1, !.fresh = TRUE]
      <4>1. 0 + 1 = 1
        OBVIOUS
      <4> QED BY Zenon, <4>1 DEF send_discover, Client
    <3> QED BY Zenon, <3>1, <3>2 DEF Client
  <2> HIDE DEF c
  <2>2. c \in Client
    <3>1. DISCOVER \in Packets /\ 1 \in Nat /\ 0 \in Nat
      BY DEF Packets
    <3> QED BY Zenon, <2>1, <3>1, ClientValues DEF Client
  <2>3. TakesNak(c)
    BY <2>1 DEF TakesNak, Sends, SameAddr, Client
  <2> QED BY <2>2, <2>3 DEF c
<1>5. CASE /\ ~(d.state = "SELECTING" /\ m.type = "OFFER")
           /\ ~(d.state = "REQUESTING" /\ m.type = "ACK")
           /\ ~(m.type = "NAK" /\ d.naks < MAX_NAKS)
  <2>1. c = d
    BY <1>5 DEF dhcp_rx
  <2> QED BY <2>1
<1> QED BY Zenon, <1>1, <1>2, <1>3, <1>4, <1>5

\* What dhcp_tick does: nothing, give up, or send again.
GivesUp(c) ==
  /\ d.retry_count >= DHCP_MAX_RETRIES /\ c.state = "FAILED"
  /\ SameAddr(c) /\ SameOffer(c) /\ SameSends(c) /\ c.naks = d.naks
SendsAgain(c) ==
  /\ d.retry_count < DHCP_MAX_RETRIES /\ c.state = d.state
  /\ Sends(c, IF d.state = "SELECTING" THEN DISCOVER ELSE <<d.offered_ip, d.server_ip>>)
  /\ c.sends = d.sends + 1 /\ c.retry_count = d.retry_count + 1
  /\ SameAddr(c) /\ SameOffer(c) /\ c.naks = d.naks

LEMMA TickCases ==
  ASSUME d \in Client, ticks \in 0 .. U32 - 1,
         d.state = "REQUESTING" => d.offered_ip \in Addrs /\ d.server_ip \in Servers
  PROVE  LET c == dhcp_tick(d)
         IN  /\ c \in Client
             /\ \/ c = d /\ (d.state \notin Waiting \/ ~Due(d))
                \/ d.state \in Waiting /\ Due(d) /\ (GivesUp(c) \/ SendsAgain(c))
<1> DEFINE c == dhcp_tick(d)
<1>0. d.retry_count \in Nat /\ d.sends \in Nat
  BY Zenon, ClientValues
<1>1. CASE d.state \notin Waiting \/ ~Due(d)
  BY Zenon, <1>1 DEF dhcp_tick
<1>2. CASE ~(d.state \notin Waiting \/ ~Due(d)) /\ d.retry_count >= DHCP_MAX_RETRIES
  <2>1. c = [d EXCEPT !.state = "FAILED"]
    BY Zenon, <1>2 DEF dhcp_tick
  <2> HIDE DEF c
  <2>2. c \in Client
    BY <2>1 DEF Client
  <2>3. GivesUp(c)
    BY <1>2, <2>1 DEF GivesUp, SameAddr, SameOffer, SameSends, Client
  <2> QED BY Zenon, <1>2, <2>2, <2>3 DEF c
<1>3. CASE /\ ~(d.state \notin Waiting \/ ~Due(d)) /\ ~(d.retry_count >= DHCP_MAX_RETRIES)
           /\ d.state = "SELECTING"
  <2>1. c = [d EXCEPT !.retry_count = @ + 1, !.deadline = Later(ticks),
                      !.sent = @ \cup {DISCOVER}, !.sends = @ + 1, !.fresh = TRUE]
    BY <1>3 DEF dhcp_tick, send_discover, Client
  <2> HIDE DEF c
  <2>2. c \in Client
    <3>1. DISCOVER \in Packets
      BY Zenon DEF Packets
    <3> QED BY Zenon, <2>1, <3>1, ClientValues DEF Client
  <2>3. SendsAgain(c)
    BY <1>0, <1>3, <2>1, DhcpAssumption DEF SendsAgain, SameAddr, SameOffer, Sends, Client
  <2> QED BY Zenon, <1>3, <2>2, <2>3 DEF c
<1>4. CASE /\ ~(d.state \notin Waiting \/ ~Due(d)) /\ ~(d.retry_count >= DHCP_MAX_RETRIES)
           /\ d.state # "SELECTING"
  <2>1. c = [d EXCEPT !.retry_count = @ + 1, !.deadline = Later(ticks),
                      !.sent = @ \cup {<<d.offered_ip, d.server_ip>>}, !.sends = @ + 1,
                      !.fresh = TRUE]
    BY <1>4 DEF dhcp_tick, send_request, Client
  <2>2. d.state = "REQUESTING"
    BY Zenon, <1>4 DEF Waiting
  <2> HIDE DEF c
  <2>3. c \in Client
    <3>1. <<d.offered_ip, d.server_ip>> \in Packets
      BY Zenon, <2>2 DEF Packets
    <3> QED BY Zenon, <2>1, <3>1, ClientValues DEF Client
  <2>4. SendsAgain(c)
    BY <1>0, <1>4, <2>1, DhcpAssumption DEF SendsAgain, SameAddr, SameOffer, Sends, Client
  <2> QED BY Zenon, <1>4, <2>3, <2>4 DEF c
<1> QED BY Zenon, <1>1, <1>2, <1>3, <1>4
-----------------------------------------------------------------------------
(***************************************************************************)
(* The lease.                                                              *)
(***************************************************************************)
\* Replies stay as served while the client asks for more.
LEMMA StillServed ==
  ASSUME \A m \in net : AsServed(m), d.sent \subseteq d'.sent, net' = net
  PROVE  \A m \in net' : AsServed(m)'
BY Zenon DEF AsServed

\* A step of the client that uses no other address and takes no other offer.
LEMMA LeaseStays ==
  ASSUME LeaseInv, d' \in Client, net' = net, SameAddr(d'), SameOffer(d'), d'.naks = d.naks,
         d.sent \subseteq d'.sent, d'.sent \subseteq d.sent \cup {DISCOVER, <<d.offered_ip, d.server_ip>>},
         d'.state = d.state \/ (d.state \in Waiting /\ d'.state = "FAILED")
  PROVE  LeaseInv'
<1>1. \A m \in net' : AsServed(m)'
  BY Zenon, StillServed DEF LeaseInv
<1>2. d'.naks = 0 => d'.sent \subseteq {DISCOVER, <<d'.offered_ip, d'.server_ip>>}
  BY Zenon DEF LeaseInv, SameOffer
<1>3. d'.our_ip # 0 /\ d'.naks = 0 => d'.state = "BOUND"
  BY DEF LeaseInv, SameAddr, Waiting
<1>4. UsesGrantedLease'
  BY Zenon DEF LeaseInv, UsesGrantedLease, SameAddr, SameOffer
<1>5. /\ d'.state = "SELECTING" => d'.offered_ip = 0 /\ d'.server_ip = 0
      /\ d'.state = "REQUESTING" => d'.offered_ip \in Addrs /\ d'.server_ip \in Servers
  BY DEF LeaseInv, SameOffer
<1> QED BY Zenon, <1>1, <1>2, <1>3, <1>4, <1>5 DEF LeaseInv

LEMMA RxKeepsLease ==
  ASSUME LeaseInv, ticks \in 0 .. U32 - 1, NEW m \in net, ethernet_poll(m)
  PROVE  LeaseInv'
<1>0. d \in Client /\ AsServed(m) /\ net' = net
  BY Zenon DEF LeaseInv, ethernet_poll
<1>1. d' \in Client /\ (d' = d \/ TakesOffer(d', m) \/ TakesAck(d', m) \/ TakesNak(d'))
  BY Zenon, <1>0, RxCases DEF ethernet_poll
<1>2. CASE d' = d
  <2>1. SameAddr(d') /\ SameOffer(d') /\ d'.naks = d.naks /\ d'.sent = d.sent /\ d'.state = d.state
    BY Zenon, <1>2 DEF SameAddr, SameOffer
  <2> QED BY Zenon, <1>0, <1>1, <2>1, LeaseStays
<1>3. CASE TakesOffer(d', m)
  <2>1. /\ d.state = "SELECTING" /\ d'.state = "REQUESTING" /\ d'.naks = d.naks
        /\ d'.offered_ip = m.yiaddr /\ d'.server_ip = m.srv
        /\ d'.sent = d.sent \cup {<<m.yiaddr, m.srv>>}
        /\ d'.our_ip = d.our_ip /\ d'.our_gateway = d.our_gateway
    BY Zenon, <1>3 DEF TakesOffer, Sends, SameAddr
  <2>2. d.offered_ip = 0 /\ d.server_ip = 0 /\ (d.naks = 0 => d.our_ip = 0)
    BY Zenon, <2>1 DEF LeaseInv
  <2>3. d'.offered_ip \in Addrs /\ d'.server_ip \in Servers
    BY Zenon, <1>0, <1>3, <2>1 DEF AsServed, TakesOffer
  <2>4. \A r \in net' : AsServed(r)'
    BY Zenon, <1>0, <2>1, StillServed DEF LeaseInv
  <2>5. d'.naks = 0 => d'.sent \subseteq {DISCOVER, <<d'.offered_ip, d'.server_ip>>}
    BY Zenon, <2>1, <2>2 DEF LeaseInv, DISCOVER
  <2>6. UsesGrantedLease'
    BY Zenon, <1>0, <2>1, <2>2 DEF LeaseInv, UsesGrantedLease
  <2> QED BY Zenon, <1>1, <2>1, <2>2, <2>3, <2>4, <2>5, <2>6 DEF LeaseInv
<1>4. CASE TakesAck(d', m)
  <2>1. /\ d.state = "REQUESTING" /\ d'.state = "BOUND" /\ d'.naks = d.naks
        /\ d'.offered_ip = d.offered_ip /\ d'.server_ip = d.server_ip /\ d'.sent = d.sent
        /\ d'.our_ip = m.yiaddr /\ d'.our_gateway = (IF m.gw = 0 THEN d.server_ip ELSE m.gw)
        /\ m.type = "ACK"
    BY Zenon, <1>4 DEF TakesAck, SameOffer, SameSends
  <2>2. /\ m.yiaddr \in Addrs /\ <<m.yiaddr, m.srv>> \in d.sent
        /\ m.yiaddr # 0 /\ d.server_ip # 0
    BY <1>0, <2>1, DhcpAssumption DEF AsServed, LeaseInv
  <2>3. d'.our_gateway # 0
    BY Zenon, <2>1, <2>2
  <2>4. d.naks = 0 => m.yiaddr = d.offered_ip
    <3>1. d.naks = 0 => <<m.yiaddr, m.srv>> \in {DISCOVER, <<d.offered_ip, d.server_ip>>}
      BY Zenon, <2>2 DEF LeaseInv
    <3> QED BY <2>2, <3>1 DEF DISCOVER
  <2>5. \A r \in net' : AsServed(r)'
    BY Zenon, <1>0, <2>1, StillServed DEF LeaseInv
  <2>6. UsesGrantedLease'
    BY Zenon, <1>0, <2>1, <2>2, <2>3, <2>4 DEF UsesGrantedLease
  <2>7. d'.naks = 0 => d'.sent \subseteq {DISCOVER, <<d'.offered_ip, d'.server_ip>>}
    BY Zenon, <2>1 DEF LeaseInv
  <2> QED BY Zenon, <1>1, <2>1, <2>5, <2>6, <2>7 DEF LeaseInv
<1>5. CASE TakesNak(d')
  <2>1. /\ d'.state = "SELECTING" /\ d'.offered_ip = 0 /\ d'.server_ip = 0 /\ d'.naks = d.naks + 1
        /\ d'.sent = d.sent \cup {DISCOVER}
        /\ d'.our_ip = d.our_ip /\ d'.our_gateway = d.our_gateway
    BY Zenon, <1>5 DEF TakesNak, Sends, SameAddr
  <2>2. d'.naks # 0
    <3>1. d.naks \in Nat
      BY Zenon, <1>0 DEF Client
    <3> QED BY <2>1, <3>1
  <2>3. \A r \in net' : AsServed(r)'
    BY Zenon, <1>0, <2>1, StillServed DEF LeaseInv
  <2>4. UsesGrantedLease'
    BY Zenon, <1>0, <2>1, <2>2 DEF LeaseInv, UsesGrantedLease
  <2> QED BY Zenon, <1>1, <2>1, <2>2, <2>3, <2>4 DEF LeaseInv
<1> QED BY Zenon, <1>1, <1>2, <1>3, <1>4, <1>5

\* What net_poll leaves of dhcp_tick's client.
LEMMA PollFields ==
  ASSUME d \in Client, ticks \in 0 .. U32 - 1, net_poll,
         d.state = "REQUESTING" => d.offered_ip \in Addrs /\ d.server_ip \in Servers
  PROVE  \E c \in Client :
           /\ c = dhcp_tick(d) /\ d' = [c EXCEPT !.fresh = FALSE] /\ d' \in Client
           /\ \/ c = d /\ (d.state \notin Waiting \/ ~Due(d))
              \/ d.state \in Waiting /\ Due(d) /\ (GivesUp(c) \/ SendsAgain(c))
<1>1. PICK c : c = dhcp_tick(d)
  BY Zenon
<1>2. /\ c \in Client
      /\ \/ c = d /\ (d.state \notin Waiting \/ ~Due(d))
         \/ d.state \in Waiting /\ Due(d) /\ (GivesUp(c) \/ SendsAgain(c))
  BY Zenon, <1>1, TickCases
<1>3. d' = [c EXCEPT !.fresh = FALSE]
  BY Zenon, <1>1 DEF net_poll
<1>4. d' \in Client
  BY Zenon, <1>2, <1>3 DEF Client
<1> QED BY Zenon, <1>1, <1>2, <1>3, <1>4

LEMMA PollKeepsLease ==
  ASSUME LeaseInv, ticks \in 0 .. U32 - 1, net_poll
  PROVE  LeaseInv'
<1>0. net' = net /\ d \in Client
  BY Zenon DEF net_poll, LeaseInv
<1>1. PICK c \in Client :
        /\ d' = [c EXCEPT !.fresh = FALSE] /\ d' \in Client
        /\ \/ c = d /\ (d.state \notin Waiting \/ ~Due(d))
           \/ d.state \in Waiting /\ Due(d) /\ (GivesUp(c) \/ SendsAgain(c))
  BY Zenon, PollFields DEF LeaseInv
<1>2. /\ d'.state = c.state /\ d'.our_ip = c.our_ip /\ d'.our_gateway = c.our_gateway
      /\ d'.offered_ip = c.offered_ip /\ d'.server_ip = c.server_ip /\ d'.sent = c.sent
      /\ d'.naks = c.naks
  BY Zenon, <1>1 DEF Client
<1>3. SameAddr(d') /\ SameOffer(d') /\ d'.naks = d.naks
  BY Zenon, <1>1, <1>2 DEF SameAddr, SameOffer, GivesUp, SendsAgain
<1>4. d.sent \subseteq d'.sent /\ d'.sent \subseteq d.sent \cup {DISCOVER, <<d.offered_ip, d.server_ip>>}
  <2>1. CASE SendsAgain(c)
    BY Zenon, <1>2, <2>1 DEF SendsAgain, Sends
  <2>2. CASE c = d \/ GivesUp(c)
    BY Zenon, <1>2, <2>2 DEF GivesUp, SameSends
  <2> QED BY Zenon, <1>1, <2>1, <2>2
<1>5. d'.state = d.state \/ (d.state \in Waiting /\ d'.state = "FAILED")
  BY Zenon, <1>1, <1>2 DEF GivesUp, SendsAgain
<1> QED BY Zenon, <1>0, <1>1, <1>3, <1>4, <1>5, LeaseStays

LEMMA ServerKeepsLease ==
  ASSUME LeaseInv, NEW s \in Servers, ServerStep(s)
  PROVE  LeaseInv'
<1>1. PICK m : net' = net \cup {m} /\ AsServed(m) /\ d' = d
  <2>1. AddrOf[s] \in Addrs /\ RouterOf[s] \in Gateways \cup {0}
    BY Zenon DEF Addrs, Gateways
  <2>2. ASSUME NEW type, NEW ip, NEW gw, NEW to, Reply(type, s, ip, gw, to),
               type \in {"OFFER", "ACK"} => ip = AddrOf[s],
               type = "ACK" => <<ip, s>> \in d.sent, gw \in Gateways \cup {0}
        PROVE  \E m : net' = net \cup {m} /\ AsServed(m) /\ d' = d
    <3>1. PICK m : m = [type |-> type, yiaddr |-> ip, srv |-> s, gw |-> gw, dst |-> to]
      BY Zenon
    <3>2. m.type = type /\ m.yiaddr = ip /\ m.srv = s /\ m.gw = gw
      BY Zenon, <3>1
    <3>3. AsServed(m)
      BY Zenon, <2>1, <2>2, <3>2 DEF AsServed
    <3>4. net' = net \cup {m} /\ d' = d
      BY Zenon, <2>2, <3>1 DEF Reply
    <3> QED BY Zenon, <3>3, <3>4
  <2>3. CASE Reply("OFFER", s, AddrOf[s], 0, To(s))
    BY Zenon, <2>2, <2>3
  <2>4. CASE <<AddrOf[s], s>> \in d.sent /\ Reply("ACK", s, AddrOf[s], RouterOf[s], To(s))
    BY Zenon, <2>1, <2>2, <2>4
  <2>5. CASE \E ip \in NakAddrs : Reply("NAK", s, ip, 0, Bcast)
    <3>1. PICK ip \in NakAddrs : Reply("NAK", s, ip, 0, Bcast)
      BY <2>5
    <3> QED BY Zenon, <2>2, <3>1
  <2> QED BY Zenon, <2>3, <2>4, <2>5 DEF ServerStep
<1>2. \A r \in net' : AsServed(r)'
  BY Zenon, <1>1 DEF LeaseInv, AsServed
<1>3. UsesGrantedLease'
  BY Zenon, <1>1 DEF LeaseInv, UsesGrantedLease
<1> QED BY Zenon, <1>1, <1>2, <1>3 DEF LeaseInv
-----------------------------------------------------------------------------
(***************************************************************************)
(* The clock.                                                              *)
(***************************************************************************)
LEMMA TickTowards ==
  ASSUME NEW u \in Nat, NEW t \in 0 .. u - 1, NEW k \in 1 .. u - 1
  PROVE  (((t + 1) % u) + (k - 1)) % u = (t + k) % u /\ (t + 1) % u \in 0 .. u - 1
<1>0. u \in Nat \ {0}
  OBVIOUS
<1>1. \A a \in 0 .. u - 1 : a % u = a
  BY <1>0
<1>2. CASE t + 1 < u
  <2>1. t + 1 \in 0 .. u - 1
    BY <1>2
  <2>2. (t + 1) % u = t + 1
    BY <1>1, <2>1
  <2> QED BY <2>1, <2>2
<1>3. CASE t + 1 >= u
  <2>1. t + 1 = u /\ t + k = (k - 1) + u /\ k - 1 \in 0 .. u - 1
    BY <1>3
  <2>2. u % u = 0 /\ \A a \in 0 .. u - 1 : (a + u) % u = a
    BY <1>0
  <2>3. (t + 1) % u = 0 /\ (t + k) % u = k - 1 /\ (k - 1) % u = k - 1
    BY <1>1, <2>1, <2>2
  <2> QED BY <1>0, <2>1, <2>3
<1> QED BY <1>2, <1>3

\* The distance of the clock from a moment k ticks ahead, as an unsigned number.
Ahead(u, t, k) == (t - ((t + k) % u)) % u = IF k = 0 THEN 0 ELSE u - k

LEMMA TicksAhead ==
  ASSUME NEW u \in Nat, NEW t \in 0 .. u - 1, NEW k \in 0 .. u - 1
  PROVE  Ahead(u, t, k)
<1> USE DEF Ahead
<1>0. u \in Nat \ {0}
  OBVIOUS
<1>1. \A a \in 0 .. u - 1 : a % u = a
  BY <1>0
<1>2. \A a \in 0 .. u - 1 : (a + u) % u = a
  BY <1>0
<1>3. \A a \in 0 .. u - 1 : (a - u) % u = a
  BY <1>0
<1>4. CASE t + k < u
  <2>1. t + k \in 0 .. u - 1
    BY <1>4
  <2>2. (t + k) % u = t + k
    BY <1>1, <2>1
  <2>3. t - ((t + k) % u) = 0 - k
    BY <2>2
  <2>4. CASE k = 0
    BY <1>1, <2>3, <2>4
  <2>5. CASE k # 0
    <3>1. u - k \in 0 .. u - 1 /\ (u - k) - u = 0 - k
      BY <2>5
    <3>2. ((u - k) - u) % u = u - k
      BY Zenon, <1>3, <3>1
    <3>3. (t - ((t + k) % u)) % u = u - k
      BY Zenon, <2>3, <3>1, <3>2
    <3> QED BY Zenon, <2>5, <3>3
  <2> QED BY Zenon, <2>4, <2>5
<1>5. CASE ~(t + k < u)
  <2>1. t + k - u \in 0 .. u - 1 /\ (t + k - u) + u = t + k
    BY <1>5
  <2>2. (t + k) % u = t + k - u
    BY Zenon, <1>2, <2>1
  <2>3. t - (t + k - u) = u - k /\ k # 0 /\ u - k \in 0 .. u - 1
    BY <1>5
  <2>4. (t - ((t + k) % u)) % u = (u - k) % u
    BY Zenon, <2>2, <2>3
  <2>5. (u - k) % u = u - k
    BY Zenon, <1>1, <2>3
  <2> QED BY Zenon, <2>3, <2>4, <2>5
<1> QED BY Zenon, <1>4, <1>5

LEMMA ClockConstants ==
  /\ U32 \in Nat /\ DHCP_RETRY_MS \in Nat /\ DHCP_RETRY_MS > 0 /\ DHCP_MAX_RETRIES \in Nat
  /\ \A k \in 0 .. DHCP_RETRY_MS : k \in 0 .. U32 - 1 /\ (k # 0 => ~(U32 - k < U32 \div 2))
  /\ 0 < U32 \div 2
<1>1. PICK u \in Nat, h \in Int : u = U32 /\ h = U32 \div 2 /\ h + h <= u
  BY DhcpAssumption
<1>2. DHCP_RETRY_MS \in 1 .. h - 1
  BY <1>1, DhcpAssumption
<1>3. \A k \in 0 .. DHCP_RETRY_MS : k \in 0 .. u - 1 /\ (k # 0 => ~(u - k < h))
  BY <1>1, <1>2
<1>4. DHCP_RETRY_MS \in Nat /\ DHCP_RETRY_MS > 0 /\ 0 < h
  BY <1>2
<1> QED BY Zenon, <1>1, <1>3, <1>4, DhcpAssumption

\* The deadline is due when no ticks remain.
LEMMA DueAtDeadline ==
  ASSUME ticks \in 0 .. U32 - 1, NEW k \in 0 .. DHCP_RETRY_MS, d.deadline = (ticks + k) % U32
  PROVE  Due(d) <=> k = 0
<1>1. k \in 0 .. U32 - 1 /\ (k # 0 => ~(U32 - k < U32 \div 2)) /\ 0 < U32 \div 2 /\ U32 \in Nat
  BY Zenon, ClockConstants
<1>2. (ticks - d.deadline) % U32 = IF k = 0 THEN 0 ELSE U32 - k
  <2>1. Ahead(U32, ticks, k)
    BY Zenon, <1>1, TicksAhead
  <2> QED BY Zenon, <2>1 DEF Ahead
<1> QED BY Zenon, <1>1, <1>2 DEF Due

\* The deadline that is set is a full period away.
LEMMA RemainingIs ==
  ASSUME RetryInv, d.state \in Waiting
  PROVE  /\ Remaining \in 0 .. DHCP_RETRY_MS /\ age \in Nat /\ age + 1 \in Nat
         /\ age < DHCP_RETRY_MS /\ d.deadline = (ticks + Remaining) % U32
         /\ Due(d) <=> Remaining = 0
         /\ Remaining = 0 => ~d.fresh /\ polling /\ age + 1 = DHCP_RETRY_MS
         /\ ~polling => Remaining = DHCP_RETRY_MS - age /\ Remaining \in 1 .. DHCP_RETRY_MS
         /\ polling /\ ~d.fresh => Remaining = DHCP_RETRY_MS - age - 1
<1>1. /\ age \in Nat /\ age < DHCP_RETRY_MS /\ d.deadline = (ticks + Remaining) % U32
      /\ ticks \in 0 .. U32 - 1 /\ d.fresh \in BOOLEAN /\ polling \in BOOLEAN /\ (d.fresh => polling)
  BY Zenon DEF RetryInv, Client
<1>2. DHCP_RETRY_MS \in Nat /\ DHCP_RETRY_MS > 0
  BY Zenon, ClockConstants
<1>3. CASE d.fresh
  <2>1. Remaining = DHCP_RETRY_MS
    BY Zenon, <1>3 DEF Remaining
  <2>2. DHCP_RETRY_MS \in 0 .. DHCP_RETRY_MS /\ DHCP_RETRY_MS # 0 /\ age + 1 \in Nat
    BY <1>1, <1>2
  <2>3. Due(d) <=> Remaining = 0
    BY Zenon, <1>1, <2>1, <2>2, DueAtDeadline
  <2> QED BY Zenon, <1>1, <1>3, <2>1, <2>2, <2>3
<1>4. CASE ~d.fresh /\ polling
  <2>1. Remaining = DHCP_RETRY_MS - age - 1
    BY <1>4 DEF Remaining
  <2>2. /\ DHCP_RETRY_MS - age - 1 \in 0 .. DHCP_RETRY_MS /\ age + 1 \in Nat
        /\ DHCP_RETRY_MS - age - 1 = 0 => age + 1 = DHCP_RETRY_MS
    BY <1>1, <1>2
  <2>3. Due(d) <=> Remaining = 0
    BY Zenon, <1>1, <2>1, <2>2, DueAtDeadline
  <2> QED BY Zenon, <1>1, <1>4, <2>1, <2>2, <2>3
<1>5. CASE ~d.fresh /\ ~polling
  <2>1. Remaining = DHCP_RETRY_MS - age
    <3>1. Remaining = DHCP_RETRY_MS - age - 0
      BY Zenon, <1>5 DEF Remaining
    <3> QED BY <1>1, <1>2, <3>1
  <2>2. /\ DHCP_RETRY_MS - age \in 1 .. DHCP_RETRY_MS /\ DHCP_RETRY_MS - age \in 0 .. DHCP_RETRY_MS
        /\ DHCP_RETRY_MS - age # 0 /\ age + 1 \in Nat
    BY <1>1, <1>2
  <2>3. Due(d) <=> Remaining = 0
    BY Zenon, <1>1, <2>1, <2>2, DueAtDeadline
  <2> QED BY Zenon, <1>1, <1>5, <2>1, <2>2, <2>3
<1> QED BY Zenon, <1>1, <1>3, <1>4, <1>5

\* The count of packets sent: those of the state and the retries.
Counted ==
  /\ d.retry_count <= DHCP_MAX_RETRIES
  /\ d.state = "SELECTING" => d.sends = d.retry_count + 1
  /\ d.state = "REQUESTING" => d.sends = d.retry_count + 2
  /\ d.state \in {"BOUND", "FAILED"} => d.sends <= DHCP_MAX_RETRIES + 2
  /\ d.state = "FAILED" => d.sends >= DHCP_MAX_RETRIES + 1

LEMMA CountedNumbers ==
  ASSUME RetryInv
  PROVE  /\ d.retry_count \in Nat /\ d.sends \in Nat /\ DHCP_MAX_RETRIES \in Nat /\ Counted
         /\ DHCP_RETRY_MS \in Nat /\ age \in Nat
BY Zenon, ClockConstants DEF RetryInv, Client, Counted

LEMMA RxKeepsRetry ==
  ASSUME RetryInv, NEW m, AsServed(m), ethernet_poll(m)
  PROVE  RetryInv'
<1>0. /\ d \in Client /\ ticks' = ticks /\ age' = age /\ polling' = polling /\ polling = TRUE
      /\ ticks \in 0 .. U32 - 1
  BY Zenon DEF RetryInv, ethernet_poll
<1>1. d' \in Client /\ (d' = d \/ TakesOffer(d', m) \/ TakesAck(d', m) \/ TakesNak(d'))
  BY Zenon, <1>0, RxCases DEF ethernet_poll
<1>2. CASE d' = d
  BY Zenon, <1>0, <1>2 DEF RetryInv, Remaining
<1>3. CASE TakesOffer(d', m) \/ TakesNak(d')
  <2>1. d'.fresh = TRUE /\ d'.deadline = Later(ticks) /\ d'.state \in Waiting
    BY Zenon, <1>3 DEF TakesOffer, TakesNak, Sends, Waiting
  <2>2. Remaining' = DHCP_RETRY_MS
    BY Zenon, <2>1 DEF Remaining
  <2>3. d'.deadline = (ticks' + Remaining') % U32
    BY Zenon, <1>0, <2>1, <2>2 DEF Later
  <2>4. Counted'
    <3>1. CASE TakesOffer(d', m)
      <4>1. /\ d.state = "SELECTING" /\ d'.state = "REQUESTING"
            /\ d'.retry_count = d.retry_count /\ d'.sends = d.sends + 1
        BY Zenon, <3>1 DEF TakesOffer
      <4> QED BY <4>1, CountedNumbers DEF Counted
    <3>2. CASE TakesNak(d')
      <4>1. d'.state = "SELECTING" /\ d'.retry_count = 0 /\ d'.sends = 1
        BY Zenon, <3>2 DEF TakesNak
      <4> QED BY <4>1, CountedNumbers DEF Counted
    <3> QED BY Zenon, <1>3, <3>1, <3>2
  <2> QED BY Zenon, <1>0, <1>1, <2>1, <2>3, <2>4 DEF RetryInv, Counted
<1>4. CASE TakesAck(d', m)
  <2>1. /\ d.state = "REQUESTING" /\ d'.state = "BOUND" /\ d'.fresh = d.fresh
        /\ d'.retry_count = d.retry_count /\ d'.sends = d.sends
    BY Zenon, <1>4 DEF TakesAck, SameSends
  <2>2. Counted'
    BY <2>1, CountedNumbers DEF Counted
  <2>3. d'.state \notin Waiting
    BY <2>1 DEF Waiting
  <2> QED BY Zenon, <1>0, <1>1, <2>1, <2>2, <2>3 DEF RetryInv, Counted
<1> QED BY Zenon, <1>1, <1>2, <1>3, <1>4

LEMMA TimerKeepsRetry ==
  ASSUME RetryInv, timer_irq_handler
  PROVE  RetryInv'
<1>0. /\ d' = d /\ age' = age /\ polling' = TRUE /\ ~polling /\ ticks' = (ticks + 1) % U32
      /\ ticks \in 0 .. U32 - 1 /\ d.fresh = FALSE
  BY Zenon DEF timer_irq_handler, RetryInv, Client
<1>1. ticks' \in 0 .. U32 - 1
  <2>1. U32 \in Nat /\ 1 \in 1 .. U32 - 1
    BY ClockConstants
  <2> QED BY Zenon, <1>0, <2>1, TickTowards
<1>2. ASSUME d.state \in Waiting
      PROVE  d.deadline = (ticks' + Remaining') % U32
  <2>1. PICK k \in 1 .. U32 - 1 :
          k = Remaining /\ k = DHCP_RETRY_MS - age /\ d.deadline = (ticks + k) % U32
    <3>1. /\ Remaining \in 1 .. DHCP_RETRY_MS /\ Remaining = DHCP_RETRY_MS - age
          /\ d.deadline = (ticks + Remaining) % U32
      BY Zenon, <1>0, <1>2, RemainingIs
    <3>2. \A r \in 1 .. DHCP_RETRY_MS : r \in 1 .. U32 - 1
      BY ClockConstants
    <3> QED BY Zenon, <3>1, <3>2
  <2>2. Remaining' = k - 1
    BY Zenon, <1>0, <2>1 DEF Remaining
  <2>3. (ticks' + (k - 1)) % U32 = (ticks + k) % U32
    BY Zenon, <1>0, ClockConstants, TickTowards
  <2> QED BY Zenon, <2>1, <2>2, <2>3
<1> QED BY Zenon, <1>0, <1>1, <1>2 DEF RetryInv

LEMMA MinIs ==
  ASSUME NEW x \in Int, NEW y \in Int, x <= y
  PROVE  Min({x, y}) = x
BY DEF Min

LEMMA PollKeepsRetry ==
  ASSUME LeaseInv, RetryInv, net_poll
  PROVE  RetryInv' /\ (d'.retry_count > d.retry_count => age + 1 = DHCP_RETRY_MS)
<1>0. /\ d \in Client /\ ticks' = ticks /\ polling' = FALSE /\ polling = TRUE
      /\ ticks \in 0 .. U32 - 1
  BY Zenon DEF RetryInv, net_poll
<1>1. PICK c \in Client :
        /\ c = dhcp_tick(d) /\ d' = [c EXCEPT !.fresh = FALSE] /\ d' \in Client
        /\ \/ c = d /\ (d.state \notin Waiting \/ ~Due(d))
           \/ d.state \in Waiting /\ Due(d) /\ (GivesUp(c) \/ SendsAgain(c))
  BY Zenon, <1>0, PollFields DEF LeaseInv
<1>2. /\ d'.state = c.state /\ d'.retry_count = c.retry_count /\ d'.deadline = c.deadline
      /\ d'.sends = c.sends /\ d'.fresh = FALSE
  BY Zenon, <1>1 DEF Client
<1>3. age' = IF c.fresh \/ c.state \notin Waiting THEN 0 ELSE Min({age + 1, DHCP_RETRY_MS})
  BY Zenon, <1>1 DEF net_poll
<1>4. Remaining' = DHCP_RETRY_MS - age' - 0
  BY Zenon, <1>0, <1>2 DEF Remaining
<1>5. 0 \in Nat /\ 0 < DHCP_RETRY_MS /\ DHCP_RETRY_MS - 0 - 0 = DHCP_RETRY_MS /\ DHCP_RETRY_MS \in Nat
  BY ClockConstants
<1>6. CASE c = d /\ d.state \notin Waiting
  <2>1. age' = 0
    BY Zenon, <1>3, <1>6
  <2>2. Counted'
    BY Zenon, <1>2, <1>6, CountedNumbers DEF Counted
  <2>3. d'.retry_count = d.retry_count /\ d'.state \notin Waiting /\ d.retry_count \in Nat
    BY Zenon, <1>2, <1>6, CountedNumbers
  <2>4. ~(d'.retry_count > d.retry_count)
    BY <2>3
  <2> QED BY Zenon, <1>0, <1>1, <1>2, <1>5, <2>1, <2>2, <2>3, <2>4 DEF RetryInv, Counted
<1>7. CASE c = d /\ d.state \in Waiting /\ ~Due(d)
  <2>1. /\ Remaining \in 0 .. DHCP_RETRY_MS /\ Remaining # 0 /\ age \in Nat /\ age + 1 \in Nat
        /\ d.deadline = (ticks + Remaining) % U32
        /\ ~d.fresh => Remaining = DHCP_RETRY_MS - age - 1
    BY Zenon, <1>0, <1>7, RemainingIs
  <2>2. age' \in Nat /\ age' < DHCP_RETRY_MS /\ Remaining' = Remaining
    <3>1. CASE d.fresh
      <4>1. age' = 0
        BY Zenon, <1>3, <1>7, <3>1
      <4>2. Remaining = DHCP_RETRY_MS
        BY Zenon, <3>1 DEF Remaining
      <4> QED BY Zenon, <1>4, <1>5, <4>1, <4>2
    <3>2. CASE ~d.fresh
      <4>1. age + 1 < DHCP_RETRY_MS /\ age + 1 <= DHCP_RETRY_MS /\ age + 1 \in Int /\ DHCP_RETRY_MS \in Int
        BY <1>5, <2>1, <3>2
      <4>2. Min({age + 1, DHCP_RETRY_MS}) = age + 1
        BY Zenon, <4>1, MinIs
      <4>3. age' = age + 1
        BY Zenon, <1>3, <1>7, <3>2, <4>2
      <4>4. DHCP_RETRY_MS - (age + 1) - 0 = DHCP_RETRY_MS - age - 1
        BY <1>5, <2>1
      <4> QED BY Zenon, <1>4, <2>1, <3>2, <4>1, <4>3, <4>4
    <3> QED BY Zenon, <3>1, <3>2
  <2>3. d'.deadline = (ticks' + Remaining') % U32
    BY Zenon, <1>0, <1>2, <1>7, <2>1, <2>2
  <2>4. Counted'
    BY Zenon, <1>2, <1>7, CountedNumbers DEF Counted
  <2>5. d'.retry_count = d.retry_count /\ d.retry_count \in Nat
    BY Zenon, <1>2, <1>7, CountedNumbers
  <2>6. ~(d'.retry_count > d.retry_count)
    BY <2>5
  <2> QED BY Zenon, <1>0, <1>1, <1>2, <2>2, <2>3, <2>4, <2>6 DEF RetryInv, Counted
<1>8. CASE d.state \in Waiting /\ Due(d) /\ GivesUp(c)
  <2>1. /\ d.retry_count >= DHCP_MAX_RETRIES /\ c.state = "FAILED"
        /\ c.retry_count = d.retry_count /\ c.sends = d.sends
    BY Zenon, <1>8 DEF GivesUp, SameSends
  <2>2. d'.state \notin Waiting /\ age' = 0
    BY <1>2, <1>3, <2>1 DEF Waiting
  <2>3. Counted' /\ ~(d'.retry_count > d.retry_count)
    <3>1. d.state \in {"SELECTING", "REQUESTING"}
      BY Zenon, <1>8 DEF Waiting
    <3>2. d.retry_count = DHCP_MAX_RETRIES
      BY <2>1, CountedNumbers DEF Counted
    <3> QED BY <1>2, <2>1, <3>1, <3>2, CountedNumbers DEF Counted
  <2> QED BY Zenon, <1>0, <1>1, <1>2, <1>5, <2>2, <2>3 DEF RetryInv, Counted
<1>9. CASE d.state \in Waiting /\ Due(d) /\ SendsAgain(c)
  <2>1. /\ d.retry_count < DHCP_MAX_RETRIES /\ c.state = d.state /\ c.fresh = TRUE
        /\ c.deadline = Later(ticks) /\ c.retry_count = d.retry_count + 1 /\ c.sends = d.sends + 1
    BY Zenon, <1>9 DEF SendsAgain, Sends
  <2>2. age' = 0
    BY Zenon, <1>3, <2>1
  <2>3. d'.deadline = (ticks' + Remaining') % U32
    BY Zenon, <1>0, <1>2, <1>4, <1>5, <2>1, <2>2 DEF Later
  <2>4. Counted'
    <3>1. d.state \in {"SELECTING", "REQUESTING"}
      BY Zenon, <1>9 DEF Waiting
    <3> QED BY <1>2, <2>1, <3>1, CountedNumbers DEF Counted
  <2>5. age + 1 = DHCP_RETRY_MS
    BY Zenon, <1>9, RemainingIs
  <2> QED BY Zenon, <1>0, <1>1, <1>2, <1>5, <2>2, <2>3, <2>4, <2>5 DEF RetryInv, Counted
<1> QED BY Zenon, <1>1, <1>6, <1>7, <1>8, <1>9
-----------------------------------------------------------------------------
LEMMA ClientStarts == dhcp_init => LeaseInv /\ RetryInv
<1> SUFFICES ASSUME dhcp_init PROVE LeaseInv /\ RetryInv
  OBVIOUS
<1>1. /\ ticks = 0 /\ polling = FALSE /\ age = 0 /\ net = {}
      /\ d = [state |-> "SELECTING", offered_ip |-> 0, server_ip |-> 0, retry_count |-> 0,
              deadline |-> Later(0), our_ip |-> 0, our_gateway |-> 0,
              sent |-> {DISCOVER}, sends |-> 1, fresh |-> FALSE, naks |-> 0]
  BY Zenon DEF dhcp_init
<1>2. /\ 0 \in 0 .. U32 - 1 /\ 0 \in Nat /\ 1 \in Nat /\ 0 < DHCP_RETRY_MS /\ Later(0) \in Int
      /\ 0 <= DHCP_MAX_RETRIES /\ 0 + 1 = 1 /\ DHCP_RETRY_MS - 0 - 0 = DHCP_RETRY_MS
  <2>1. U32 \in Nat /\ 0 \in 0 .. U32 - 1
    BY ClockConstants
  <2>2. Later(0) \in Int
    BY <2>1, ClockConstants DEF Later
  <2> QED BY <2>1, <2>2, ClockConstants
<1>3. d \in Client
  <2>1. {DISCOVER} \in SUBSET Packets
    BY Zenon DEF Packets
  <2> QED BY Zenon, <1>1, <1>2, <2>1 DEF Client
<1>4. LeaseInv
  BY <1>1, <1>3 DEF LeaseInv, UsesGrantedLease
<1>5. Remaining = DHCP_RETRY_MS
  BY Zenon, <1>1, <1>2 DEF Remaining
<1>6. d.deadline = (ticks + Remaining) % U32
  BY Zenon, <1>1, <1>5 DEF Later
<1>7. RetryInv
  BY Zenon, <1>1, <1>2, <1>3, <1>6 DEF RetryInv
<1> QED BY <1>4, <1>7

LEMMA ClientKeeps ==
  ASSUME LeaseInv, RetryInv, [DhcpNext]_dhcpvars
  PROVE  /\ LeaseInv' /\ RetryInv'
         /\ d'.retry_count > d.retry_count => age + 1 = DHCP_RETRY_MS
<1>0. d.retry_count \in Nat /\ ticks \in 0 .. U32 - 1
  BY Zenon, CountedNumbers DEF RetryInv
<1>1. CASE timer_irq_handler
  <2>1. d' = d /\ net' = net
    BY Zenon, <1>1 DEF timer_irq_handler
  <2>2. LeaseInv'
    BY Zenon, <2>1 DEF LeaseInv, UsesGrantedLease, AsServed
  <2>3. ~(d'.retry_count > d.retry_count)
    BY <1>0, <2>1
  <2> QED BY Zenon, <1>1, <2>2, <2>3, TimerKeepsRetry
<1>2. CASE net_poll
  BY Zenon, <1>0, <1>2, PollKeepsLease, PollKeepsRetry
<1>3. ASSUME NEW m \in net, ethernet_poll(m)
      PROVE  LeaseInv' /\ RetryInv' /\ ~(d'.retry_count > d.retry_count)
  <2>1. AsServed(m)
    BY Zenon DEF LeaseInv
  <2>2. d' = dhcp_rx(d, m) /\ d \in Client
    BY Zenon, <1>3 DEF ethernet_poll, RetryInv
  <2>3. d'.retry_count = d.retry_count \/ d'.retry_count = 0
    BY Zenon, <1>0, <2>1, <2>2, RxCases DEF TakesOffer, TakesAck, TakesNak, SameSends
  <2>4. ~(d'.retry_count > d.retry_count)
    BY <1>0, <2>3
  <2> QED BY Zenon, <1>0, <1>3, <2>1, <2>4, RxKeepsLease, RxKeepsRetry
<1>4. ASSUME NEW s \in Servers, ServerStep(s)
      PROVE  LeaseInv' /\ RetryInv' /\ ~(d'.retry_count > d.retry_count)
  <2>1. UNCHANGED <<d, ticks, polling, age>>
    BY Zenon, <1>4 DEF ServerStep, Reply
  <2>2. RetryInv'
    BY Zenon, <2>1 DEF RetryInv, Remaining
  <2>3. ~(d'.retry_count > d.retry_count)
    BY <1>0, <2>1
  <2> QED BY Zenon, <1>4, <2>2, <2>3, ServerKeepsLease
<1>5. CASE UNCHANGED dhcpvars
  <2>1. UNCHANGED <<d, ticks, polling, age, net>>
    BY Zenon, <1>5 DEF dhcpvars
  <2>2a. RetryInv'
    BY Zenon, <2>1 DEF RetryInv, Remaining
  <2>2b. LeaseInv'
    BY Zenon, <2>1 DEF LeaseInv, UsesGrantedLease, AsServed
  <2>3. ~(d'.retry_count > d.retry_count)
    BY <1>0, <2>1
  <2> QED BY Zenon, <2>2a, <2>2b, <2>3
<1> QED BY Zenon, <1>1, <1>2, <1>3, <1>4, <1>5 DEF DhcpNext

\* Only a granted address is used (UsesGrantedLease): whatever number of servers
\* there is and however their replies are lost, repeated and reordered, the
\* address ipv4_set_addr is given was acknowledged by a server that was asked
\* for it, and until a NAK is acted on it is the one of the first offer taken.
THEOREM LeaseIsGranted == DhcpSpec => []UsesGrantedLease
<1>1. dhcp_init => LeaseInv /\ RetryInv
  BY ClientStarts
<1>2. LeaseInv /\ RetryInv /\ [DhcpNext]_dhcpvars => (LeaseInv /\ RetryInv)'
  BY ClientKeeps
<1>3. LeaseInv => UsesGrantedLease
  BY DEF LeaseInv
<1> QED BY <1>1, <1>2, <1>3, PTL DEF DhcpSpec

\* Retries keep their time and their number (RetriesOnTime), for every period
\* below half the range of the clock, every budget of retries and every width
\* of the clock: dhcp_tick sends again, or gives up, exactly DHCP_RETRY_MS ticks
\* after the last packet, across the wrap of the tick counter too.
THEOREM RetriesKeepTime == DhcpSpec => RetriesOnTime
<1>1. dhcp_init => LeaseInv /\ RetryInv
  BY ClientStarts
<1>2. LeaseInv /\ RetryInv /\ [DhcpNext]_dhcpvars
        => (LeaseInv /\ RetryInv)' /\ [d'.retry_count > d.retry_count => age + 1 = DHCP_RETRY_MS]_dhcpvars
  BY ClientKeeps
<1>3. RetryInv => /\ d.sends <= DHCP_MAX_RETRIES + 2
                  /\ d.state = "FAILED" => d.sends >= DHCP_MAX_RETRIES + 1
                  /\ d.state \in Waiting => age < DHCP_RETRY_MS
  <2> SUFFICES ASSUME RetryInv
               PROVE  d.sends <= DHCP_MAX_RETRIES + 2
    BY Zenon DEF RetryInv
  <2>1. d.state \in {"SELECTING", "REQUESTING", "BOUND", "FAILED"}
    BY Zenon DEF RetryInv, Client
  <2> QED BY <2>1, CountedNumbers DEF Counted
<1> QED BY <1>1, <1>2, <1>3, PTL DEF DhcpSpec, RetriesOnTime
=============================================================================
