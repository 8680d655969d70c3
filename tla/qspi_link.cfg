SPECIFICATION Spec
CONSTANTS
  ByteBits = 2
  AddrBytes = 1
  HalfPeriod <- MCHalfPeriod
  MemSize = 4
  Requests <- MCRequests
  Divs = {0, 3}
  Contents <- MCContents
INVARIANTS
  TypeOK
  OneRequestOneTransaction
  FrameOnTheWire
  CapturedFromTheWire
PROPERTIES
  PortSafety
  MosiStable
  SckPulseWidth
  SpiByteLeavesRamAlone
  Answered
