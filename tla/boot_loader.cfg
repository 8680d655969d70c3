SPECIFICATION Spec
CONSTANTS
  ByteBits = 3
  Power <- MCPower
  Timeout = 4
  Hold = 8
  StartHold = 3
  Messages <- MCMessages
  AddrVals = 16
  RAM_BASE = 8
  LOAD_BASE = 9
  RAM_END = 12
  EXT_PSRAM_END = 13
  FLASH_MODE = 14
  PsramTicks = 40
INVARIANTS
  TypeOK
  InStep
  LoadedIsSent
PROPERTIES
  Boots
