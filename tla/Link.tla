-------------------------------- MODULE Link --------------------------------
(***************************************************************************)
(* The link the machine is on, the ARP table (src/src/net/arp/arp.c) and   *)
(* what is promised of the frames sent by it; module Arp has the steps.    *)
(* Address 0 is nobody's: it marks a free slot.                            *)
(***************************************************************************)
EXTENDS Integers

CONSTANTS
  Neighbours,       \* addresses on the link
  MacOf,            \* [Neighbours -> MAC]: a neighbour keeps its MAC
  Remote,           \* addresses off the link
  GATEWAY,          \* the neighbour that routes, once there is a configuration
                    \* (there is one: UsesGrantedLease of Dhcp)
  ARP_TABLE_SIZE

ASSUME LinkAssumption ==
  /\ 0 \notin Neighbours \cup Remote
  /\ GATEWAY \in Neighbours
  /\ ARP_TABLE_SIZE \in Nat \ {0}

VARIABLES
  table,      \* table[0 .. ARP_TABLE_SIZE - 1]: [ip, mac]
  our_ip,     \* 0 until ipv4_set_addr
  call,       \* [Processes -> where its ipv4_send is]
  asked,      \* the neighbours asked who-has and not heard of since
  wire,       \* the last IPv4 frame sent, [dst, hop, mac, by]
  evicted     \* history: an entry was overwritten in a full table

Slots == 0 .. ARP_TABLE_SIZE - 1
Nothing == [dst |-> 0, hop |-> 0, by |-> "nobody", mac |-> 0]
SlotsOf(t, ip) == {i \in Slots : t[i].ip = ip}
-----------------------------------------------------------------------------
\* Every frame goes to the MAC of its next hop, even when the table changes in
\* the middle of a process's lookup.  The exception is the code's: a process
\* that is interrupted between match and copy while its slot is evicted.  And
\* the table it goes by is a map: no address in two slots, where a lookup would
\* find an entry that later updates miss, and each with its neighbour's MAC.
SentToNextHop ==
  /\ wire # Nothing =>
       \/ wire.mac = MacOf[wire.hop]
       \/ evicted /\ wire.by = "process" /\ \E h \in Neighbours : wire.mac = MacOf[h]
  /\ \A i \in Slots : table[i].ip # 0 =>
       /\ table[i].mac = MacOf[table[i].ip]
       /\ SlotsOf(table, table[i].ip) = {i}
=============================================================================
