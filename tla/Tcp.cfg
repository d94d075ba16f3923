SPECIFICATION Spec
CONSTANTS
  Hosts = {c, s}
  Clients = {c}
  Servers = {s}
  TCP_RX_BUF_SIZE = 2
  TCP_MAX_RETRIES = 1
  SEQ = 16
  MAX_OPEN = 1
  None = None
CHECK_DEADLOCK FALSE
INVARIANTS
  StreamIsPrefix
  AckedIsReceived
  NoStaleRetx
  HandshakeAgrees
PROPERTY
  TimersEnd
