SPECIFICATION MCSpec
CONSTANTS
  SOCK_MAX = 2
  TCP_MAX_CONN = 3
  UDP_MAX_HANDLERS = 2
  RX_BUF_SIZE = 3
  Ports = {68, 80}
  DHCP_PORT = 68
  MAX_CALLS = 5
  MAX_CONNS = 4
  MAX_BYTES = 4
  RBUF = 2
  Programs = {"any", "socket"}
  Printable = {"a", "b"}
  KB_BUF_SIZE = 4
  TTY_LBUF_SIZE = 3
  TTY_RBUF_SIZE = 4
  U32 = 16
  ReadSizes = {1, 3}
  MAX_KEYS = 4
CHECK_DEADLOCK FALSE
INVARIANTS
  DatagramsInOrder
  PortsAreExclusive
  BindingIsRight
  ReadsWhatWasTyped
PROPERTIES
  
  EnterEndsRead
