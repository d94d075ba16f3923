SPECIFICATION Spec
CONSTANTS
  SOCK_MAX = 3
  TCP_MAX_CONN = 2
  UDP_MAX_HANDLERS = 2
  RX_BUF_SIZE = 3
  Ports = {80}
  DHCP_PORT = 68
  MAX_CALLS = 5
  MAX_CONNS = 2
  MAX_BYTES = 0
CHECK_DEADLOCK FALSE
INVARIANT AcceptsOnce
