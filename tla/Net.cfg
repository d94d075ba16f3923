SPECIFICATION MCSpec
CONSTANTS
  Servers = {10, 20}
  AddrOf <- OneAddrEach
  Destinations <- Both
  RouterOf <- OneRouter
  NakAddrs = {0, 11}
  DHCP_MAX_RETRIES = 2
  DHCP_RETRY_MS = 3
  U32 = 8
  MAX_NAKS = 1
  Neighbours = {1, 2, 3}
  MacOf <- OneMacEach
  Remote = {8}
  GATEWAY = 1
  OUR_IP = 5
  ARP_TABLE_SIZE = 2
  Processes = {"p"}
  E1000_NUM_TX_DESC = 2
  E1000_NUM_RX_DESC = 3
  ETH_MAX_HANDLERS = 2
  EtherTypes = {"arp", "ipv4"}
  Kinds = {"arp", "runt"}
  MAX_SENDS = 4
  MAX_RECVS = 4
  Lags = {TRUE, FALSE}
  Machines = {15, 16}
  Other = 2
  Ports = {68, 8080}
  Data <- OddEvenZeroLong
  Pads <- SomePadding
  Variants <- PlainAndOdd
  IP_MTU = 60
  PKT_IDS = 2
INVARIANTS
  
  
  
  BuffersAreFreed
  
PROPERTIES
  RetriesOnTime
  SendGetsThrough
  RingsDrain
