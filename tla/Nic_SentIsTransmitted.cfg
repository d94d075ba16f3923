SPECIFICATION FairSpec
CONSTANTS
  E1000_NUM_TX_DESC = 2
  E1000_NUM_RX_DESC = 2
  ETH_MAX_HANDLERS = 2
  EtherTypes = {"arp"}
  Kinds = {"arp"}
  MAX_SENDS = 2
  MAX_RECVS = 1
  Lags = {FALSE}
  Nested = TRUE
PROPERTY
  SentIsTransmitted
