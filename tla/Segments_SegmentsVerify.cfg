SPECIFICATION SegmentSpec
CONSTANTS
  Machines = {15, 16}
  Other = 2
  Ports = {80, 49152}
  Data <- OddAndEven
  Pads <- NoPadding
  Variants <- OnlyPlain
  IP_MTU = 1500
  PKT_IDS = 65536
  Seqs <- AroundWrap
  TCP_WINDOW = 4096
INVARIANT SegmentsVerify
