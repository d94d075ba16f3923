SPECIFICATION AtaSpec
CONSTANTS
  SECTORS = 2
  MAX_COUNT = 3
  SectorData = {"x", "y"}
  SectorJunk = "junk"
INVARIANT WriteIsStored
