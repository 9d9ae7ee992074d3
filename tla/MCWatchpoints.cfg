SPECIFICATION WatchSpec
CONSTANTS
  AddrBits = {"a1", "a2"}
  LaneBit = "a1"
  BigEnd = TRUE
  BusTransfers <- MCTransfers
  Configurations <- MCConfigurations
  OtherData <- MCOther
  ControlLast = TRUE
INVARIANT ComparesTransfer
INVARIANT StopsProgram
