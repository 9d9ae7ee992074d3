SPECIFICATION Spec
CONSTANTS
  AddrBits = 1
  DataBits = 2
  ScanBits = 2
  IrBits = 2
  SCAN_N <- MCScanN
  RESTART <- MCRestart
  INTEST <- MCIntest
  IDCODE <- MCIdcode
  JTAG_IDCODE <- MCScanN
  Kept <- MCKept
PROPERTIES ScanPathSpec
