-------------------------------- MODULE Dhcp --------------------------------
(***************************************************************************)
(* The DHCP client (src/src/net/dhcp/dhcp.c) and the address it gives to   *)
(* IPv4 and ARP (src/src/net/ipv4/ipv4.c).  Everything happens in the      *)
(* timer interrupt: net_poll first hands over the packets the card holds,  *)
(* one by one, then looks at the clock.  The transaction id is fixed, so   *)
(* every reply ever sent is acceptable for ever: the network keeps them    *)
(* all, and may lose, repeat and reorder them.                             *)
(***************************************************************************)
EXTENDS Integers, FiniteSetsExt

CONSTANTS
  Servers,           \* server identifiers, which are addresses
  AddrOf,            \* [Servers -> address]: what each server offers
  RouterOf,          \* [Servers -> address or 0]: the router option of its ACKs
  Destinations,      \* [Servers -> {"unicast", "broadcast"}]: how it answers
  NakAddrs,          \* the yiaddr a server puts into a NAK (0 by the standard)
  DHCP_MAX_RETRIES, DHCP_RETRY_MS,
  U32,               \* 2^32: ticks and deadlines are u32
  MAX_NAKS           \* bound: NAKs acted on

Bcast == -1                    \* 0xFFFFFFFF
DISCOVER == <<0, 0>>           \* a REQUEST is <<address, server>>
Addrs == {AddrOf[s] : s \in Servers}
Gateways == Servers \cup ({RouterOf[s] : s \in Servers} \ {0})
Waiting == {"SELECTING", "REQUESTING"}

\* Addresses are not 0, and a retry lies within half of the tick counter's range.
ASSUME DhcpAssumption ==
  /\ 0 \notin Servers \cup Addrs
  /\ DHCP_MAX_RETRIES \in Nat /\ MAX_NAKS \in Nat /\ U32 \in Nat
  /\ DHCP_RETRY_MS \in 1 .. U32 \div 2 - 1

VARIABLES
  d,        \* the client: state, offered_ip, server_ip, retry_count, deadline,
            \* our_ip and our_gateway of ipv4.c, and what it has sent
  ticks,    \* timer_get_ticks(), a u64, as the u32 the client cuts it to
  polling,  \* the timer interrupt is in net_poll
  age,      \* history: ticks since the last packet sent, while Waiting
  net       \* every reply sent so far

dhcpvars == <<d, ticks, polling, age, net>>

Replies ==
  [type : {"OFFER", "ACK", "NAK"}, yiaddr : Addrs \cup NakAddrs, srv : Servers,
   gw : Gateways \cup {0}, dst : Addrs \cup {Bcast}]
-----------------------------------------------------------------------------
Later(t) == (t + DHCP_RETRY_MS) % U32

\* send_discover and send_request are broadcasts; sends counts them since the
\* last start, sent collects them.
send_discover(c) ==
  [c EXCEPT !.sent = @ \cup {DISCOVER}, !.sends = @ + 1, !.fresh = TRUE]
send_request(c, ip, srv) ==
  [c EXCEPT !.sent = @ \cup {<<ip, srv>>}, !.sends = @ + 1, !.fresh = TRUE]

\* ipv4_rx's filter: anything while there is no address, else our own or a
\* broadcast.
Accepts(c, m) == c.our_ip = 0 \/ m.dst \in {c.our_ip, Bcast}

\* Mutant: the offer is used without waiting for the acknowledgement.
dhcp_rx_eager(c, m) ==
  IF ~Accepts(c, m) \/ m.yiaddr = 0 THEN c ELSE
  CASE c.state = "SELECTING" /\ m.type = "OFFER" ->
         [c EXCEPT !.our_ip = m.yiaddr, !.our_gateway = m.srv, !.state = "BOUND"]
    [] OTHER -> c

\* dhcp_rx for a well-formed reply.  Note that a reply without an address is
\* dropped before its type is looked at.
dhcp_rx(c, m) ==
  IF ~Accepts(c, m) \/ m.yiaddr = 0 THEN c ELSE
  CASE c.state = "SELECTING" /\ m.type = "OFFER" ->
         [send_request(c, m.yiaddr, m.srv) EXCEPT
            !.offered_ip = m.yiaddr, !.server_ip = m.srv,
            !.state = "REQUESTING", !.deadline = Later(ticks)]
    [] c.state = "REQUESTING" /\ m.type = "ACK" ->
         [c EXCEPT !.our_ip = m.yiaddr, !.state = "BOUND",
                   !.our_gateway = IF m.gw = 0 THEN c.server_ip ELSE m.gw]
    [] m.type = "NAK" /\ c.naks < MAX_NAKS ->
         [send_discover([c EXCEPT !.sends = 0]) EXCEPT
            !.state = "SELECTING", !.offered_ip = 0, !.server_ip = 0,
            !.retry_count = 0, !.deadline = Later(ticks), !.naks = @ + 1]
    [] OTHER -> c

\* Mutant: the clock is compared without the wrap.
Due_unsigned(c) == ticks >= c.deadline

\* (i32)(now - deadline) >= 0
Due(c) == (ticks - c.deadline) % U32 < U32 \div 2

dhcp_tick(c) ==
  IF c.state \notin Waiting \/ ~Due(c) THEN c ELSE
  IF c.retry_count >= DHCP_MAX_RETRIES THEN [c EXCEPT !.state = "FAILED"] ELSE
  LET c1 == [c EXCEPT !.retry_count = @ + 1, !.deadline = Later(ticks)]
  IN  IF c.state = "SELECTING" THEN send_discover(c1)
                               ELSE send_request(c1, c.offered_ip, c.server_ip)

\* The timer interrupt: the clock moves and net_poll is called.
timer_irq_handler ==
  /\ ~polling
  /\ polling' = TRUE
  /\ ticks' = (ticks + 1) % U32
  /\ UNCHANGED <<d, age, net>>

\* ethernet_poll hands over a packet the card holds.
ethernet_poll(m) ==
  /\ polling
  /\ d' = dhcp_rx(d, m)
  /\ UNCHANGED <<ticks, polling, age, net>>

\* It has no more: net_poll looks at the deadline and is done.
net_poll ==
  LET c == dhcp_tick(d) IN
  /\ polling
  /\ polling' = FALSE
  /\ d' = [c EXCEPT !.fresh = FALSE]
  /\ age' = IF c.fresh \/ c.state \notin Waiting THEN 0
            ELSE Min({age + 1, DHCP_RETRY_MS})
  /\ UNCHANGED <<ticks, net>>
-----------------------------------------------------------------------------
\* The servers: offers to a DISCOVER, an ACK or a NAK to a REQUEST that names
\* them.
To(s) == IF Destinations[s] = "unicast" THEN AddrOf[s] ELSE Bcast

Reply(type, s, ip, gw, to) ==
  /\ net' = net \cup {[type |-> type, yiaddr |-> ip, srv |-> s, gw |-> gw, dst |-> to]}
  /\ UNCHANGED <<d, ticks, polling, age>>

ServerStep(s) ==
  \/ /\ DISCOVER \in d.sent
     /\ Reply("OFFER", s, AddrOf[s], 0, To(s))
  \/ /\ <<AddrOf[s], s>> \in d.sent
     /\ \/ Reply("ACK", s, AddrOf[s], RouterOf[s], To(s))
        \/ \E ip \in NakAddrs : Reply("NAK", s, ip, 0, Bcast)

\* dhcp_init: the first DISCOVER is out.
dhcp_init ==
  /\ ticks = 0
  /\ polling = FALSE
  /\ d = [state |-> "SELECTING", offered_ip |-> 0, server_ip |-> 0, retry_count |-> 0,
          deadline |-> Later(ticks), our_ip |-> 0, our_gateway |-> 0,
          sent |-> {DISCOVER}, sends |-> 1, fresh |-> FALSE, naks |-> 0]
  /\ age = 0
  /\ net = {}

DhcpNext ==
  \/ timer_irq_handler \/ net_poll
  \/ \E m \in net : ethernet_poll(m)
  \/ \E s \in Servers : ServerStep(s)

DhcpSpec == dhcp_init /\ [][DhcpNext]_dhcpvars
-----------------------------------------------------------------------------
\* A waiting client that hears nothing sends again, or gives up, DHCP_RETRY_MS
\* ticks after its last packet, no later and no sooner, whichever deadline
\* dhcp_rx or dhcp_tick set last, also across the wrap of the tick counter and
\* when a reply is handled in the same interrupt.  DISCOVER and REQUEST share
\* one retry budget: between two starts the client sends at most the first
\* DISCOVER, the first REQUEST and DHCP_MAX_RETRIES retries, and it gives up
\* only after it has used all of them.  So while ticks keep coming and no NAK
\* restarts it, it is soon bound or has given up.
RetriesOnTime ==
  /\ [](d.sends <= DHCP_MAX_RETRIES + 2)
  /\ [](d.state = "FAILED" => d.sends >= DHCP_MAX_RETRIES + 1)
  /\ [](d.state \in Waiting => age < DHCP_RETRY_MS)
  /\ [][d'.retry_count > d.retry_count => age + 1 = DHCP_RETRY_MS]_dhcpvars

\* The address in use was acknowledged by a server the client had asked for
\* it, never only offered, and it comes with a gateway; until a NAK is acted
\* on it is the address of the first offer taken (dhcp_rx, ipv4_set_addr).
UsesGrantedLease ==
  /\ d.our_ip # 0 =>
       /\ \E m \in net : m.type = "ACK" /\ m.yiaddr = d.our_ip
                         /\ <<d.our_ip, m.srv>> \in d.sent
       /\ d.our_gateway # 0
  /\ d.our_ip # 0 /\ d.naks = 0 => d.our_ip = d.offered_ip
=============================================================================
