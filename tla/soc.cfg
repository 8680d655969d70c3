SPECIFICATION Spec
CONSTANTS
  ByteVals = 4
  AddrVals = 48
  NumRegs = 3
  Decode <- MCDecode
  Alu <- MCAlu
  Taken <- MCTaken
  ROM_BYTES = 4
  RAM_BASE = 8
  RAM_BYTES = 12
  LOAD_BASE = 12
  EXT_PSRAM_BASE = 20
  EXT_PSRAM_BYTES = 4
  REG_BASE = 32
  Rom <- MCRom
  Inputs <- MCInputs
  Past <- MCPast
  MemSize = 16
  SpiReply = {0, 3}
  InitRegs <- MCRegs
  InitMemories <- MCMemories
INVARIANTS
  TypeOK
  WriteStrobe
  AddressHeld
  ResultFixed
PROPERTIES
  ExecutesTheIsa
  BusContract
  NothingMovesUnderARequest
  FlashNeverWritten
  HaltIsSilent
  Progress
