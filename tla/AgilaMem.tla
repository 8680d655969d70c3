-------------------------------- MODULE AgilaMem --------------------------------
(***************************************************************************)
(* mem.v: the unified address map, the on-chip RAM and registers, and the  *)
(* decoding of an access into an on-chip access or a request to the        *)
(* external port.  The timer and PWM registers change on their own; here   *)
(* they and GPIO_IN are inputs that any cycle may change (Timer and Pwm    *)
(* model the timer and the PWM themselves).                                *)
(***************************************************************************)
EXTENDS Rv32Isa, QspiBus

CONSTANTS
  \* the address map; 0xB0, 48, 0xB4, 0xE0, 16 and 0xF0 in the code
  ROM_BYTES, RAM_BASE, RAM_BYTES, LOAD_BASE, EXT_PSRAM_BASE, EXT_PSRAM_BYTES, REG_BASE,
  Rom,          \* the words of the boot ROM
  Inputs,       \* joint values the input registers take
  Past          \* what an index past the end of ram_words may read

\* Register offsets from REG_BASE.
GPIO_OUT   == 0
PSRAM_BANK == 1
FLASH_MODE == 8
QSPI_CTRL  == 11
FLASH_PAGE == 12
SPI_DATA   == 13
InputRegs  == {2, 3, 4, 5, 6, 7, 9, 10}

RamIndex == 0 .. RAM_BYTES - 1

ASSUME MapAssumption ==
  /\ ByteVals >= 4   \* a byte holds QSPI_CTRL
  /\ {ROM_BYTES, RAM_BASE, RAM_BYTES, LOAD_BASE,
      EXT_PSRAM_BASE, EXT_PSRAM_BYTES, REG_BASE} \subseteq Nat \ {0}
  /\ ROM_BYTES % 4 = 0 /\ RAM_BYTES % 4 = 0 /\ RAM_BASE % 4 = 0
  /\ ROM_BYTES <= RAM_BASE /\ RAM_BASE < LOAD_BASE /\ LOAD_BASE < RAM_BASE + RAM_BYTES
  /\ RAM_BASE + RAM_BYTES <= EXT_PSRAM_BASE
  /\ EXT_PSRAM_BASE + EXT_PSRAM_BYTES <= REG_BASE /\ REG_BASE + 16 <= AddrVals
  /\ Rom \in [0 .. ROM_BYTES \div 4 - 1 -> Word]
  /\ Inputs \subseteq [InputRegs -> Byte] /\ Past \subseteq [0 .. 3 -> Byte]

VARIABLES
  ram,            \* ram_words, byte by byte; not reset
  gpio_out, flash_mode, flash_page, psram_bank, qspi_div_sel, spi_last_rx,
  inputs          \* what GPIO_IN and the timer and PWM registers read as

regVars == <<gpio_out, flash_mode, flash_page, psram_bank, qspi_div_sel, spi_last_rx>>
memVars == <<ram, regVars, inputs>>

--------------------------------------------------------------------------------
\* Address decode.
in_rom(a)        == a < ROM_BYTES
in_ram_range(a)  == a >= RAM_BASE /\ a < RAM_BASE + RAM_BYTES
in_ext_flash(a)  == flash_mode /\ a >= LOAD_BASE /\ a < RAM_BASE + RAM_BYTES
in_ram(a)        == in_ram_range(a) /\ ~in_ext_flash(a)
in_ext_psram(a)  == a >= EXT_PSRAM_BASE /\ a < EXT_PSRAM_BASE + EXT_PSRAM_BYTES
in_spi_write(a, we) == a = REG_BASE + SPI_DATA /\ we
in_ext(a, we)    == in_ext_flash(a) \/ in_ext_psram(a) \/ in_spi_write(a, we)

req_dev(a, we) == IF in_ext_flash(a) THEN Flash
                  ELSE IF in_spi_write(a, we) THEN Spi
                  ELSE IF psram_bank = 1 THEN RamB ELSE RamA

WINDOW_BYTES == RAM_BASE + RAM_BYTES - LOAD_BASE

ext_addr(a, we) == IF in_ext_flash(a) THEN flash_page * WINDOW_BYTES + (a - LOAD_BASE)
                   ELSE IF in_spi_write(a, we) THEN 0
                   ELSE (a - EXT_PSRAM_BASE) % AddrVals

\* Faulty variant: a store to the flash window is sent to the flash.
ExtRequest_FlashWritable(a, we, wdata, size) ==
  [we |-> we, dev |-> req_dev(a, we), addr |-> ext_addr(a, we),
   wdata |-> Bytes(wdata), size |-> size]

\* The request mem.v drives for an access; flash is never written.
ExtRequest(a, we, wdata, size) ==
  [we |-> we /\ ~in_ext_flash(a), dev |-> req_dev(a, we), addr |-> ext_addr(a, we),
   wdata |-> Bytes(wdata), size |-> size]

--------------------------------------------------------------------------------
\* Read path.  A RAM or ROM read returns four bytes from its address on,
\* whatever the size; bytes past the last RAM word come from an index past the
\* end of ram_words: that word, past, is undefined.
RomByte(a) ==
  IF a < ROM_BYTES THEN Bytes(Rom[a \div 4])[1 + (a % 4)] ELSE 0

RamByte(a, past) == IF a - RAM_BASE \in RamIndex THEN ram[a - RAM_BASE]
                    ELSE past[(a - RAM_BASE) % 4]

RegByte(offset) ==
  IF offset = GPIO_OUT THEN gpio_out
  ELSE IF offset = PSRAM_BANK THEN psram_bank
  ELSE IF offset = QSPI_CTRL THEN qspi_div_sel
  ELSE IF offset = FLASH_PAGE THEN flash_page
  ELSE IF offset = SPI_DATA THEN spi_last_rx
  ELSE IF offset \in InputRegs THEN inputs[offset]
  ELSE 0

\* Values of the word past the end; one is enough when none of it is read.
PastWords(a) ==
  IF in_ram(a) /\ a + 3 >= RAM_BASE + RAM_BYTES THEN Past ELSE {[k \in 0 .. 3 |-> 0]}

\* The bytes an on-chip access reads.
OnChipBytes(a, past) ==
  [i \in 1 .. 4 |->
     IF in_rom(a) THEN RomByte(a + i - 1)
     ELSE IF in_ram(a) THEN RamByte(a + i - 1, past)
     ELSE IF i = 1 THEN RegByte(a - REG_BASE) ELSE 0]

--------------------------------------------------------------------------------
\* Write path.  A byte or half word goes to its own bytes, straddling words if
\* it must; a word replaces the aligned word its address lies in; a byte past
\* the last RAM word is dropped.
RamWritten(a, wdata, size) ==
  LET start == a - RAM_BASE
      n     == SizeBytes(size)
  IN  [i \in RamIndex |->
         IF size = 2
           THEN IF i \div 4 = start \div 4 THEN Bytes(wdata)[1 + (i % 4)] ELSE ram[i]
           ELSE IF i - start \in 0 .. n - 1 THEN Bytes(wdata)[1 + i - start] ELSE ram[i]]

\* An assignment to a register, at an address that is not RAM.
Assigned(we, a, offset, new, old) ==
  IF we /\ ~in_ram(a) /\ a = REG_BASE + offset THEN new ELSE old

MemWrite(we, a, wdata, size) ==
  LET byte == wdata % ByteVals IN
  /\ ram'          = IF we /\ in_ram(a) THEN RamWritten(a, wdata, size) ELSE ram
  /\ gpio_out'     = Assigned(we, a, GPIO_OUT, byte, gpio_out)
  /\ psram_bank'   = Assigned(we, a, PSRAM_BANK, wdata % 2, psram_bank)
  /\ flash_mode'   = Assigned(we, a, FLASH_MODE, TRUE, flash_mode)
  /\ qspi_div_sel' = Assigned(we, a, QSPI_CTRL, wdata % 4, qspi_div_sel)
  /\ flash_page'   = Assigned(we, a, FLASH_PAGE, byte, flash_page)

\* The byte a raw SPI transfer clocked in, latched when it is answered.
SpiLatch(ext_ready, a, we, ext_rdata) ==
  spi_last_rx' = IF ext_ready /\ in_spi_write(a, we) THEN ext_rdata[1] ELSE spi_last_rx

MemStep(we, a, wdata, size, ext_ready, ext_rdata) ==
  /\ MemWrite(we, a, wdata, size)
  /\ SpiLatch(ext_ready, a, we, ext_rdata)
  /\ inputs' \in Inputs

MemReset ==
  /\ gpio_out' = 0 /\ flash_mode' = FALSE /\ flash_page' = 0 /\ psram_bank' = 0
  /\ qspi_div_sel' = 3 /\ spi_last_rx' = 0
  /\ UNCHANGED ram /\ inputs' \in Inputs

MemInit ==
  /\ gpio_out = 0 /\ flash_mode = FALSE /\ flash_page = 0 /\ psram_bank = 0
  /\ qspi_div_sel = 3 /\ spi_last_rx = 0
  /\ inputs \in Inputs

MemTypeOK ==
  /\ ram \in [RamIndex -> Byte] /\ gpio_out \in Byte /\ flash_mode \in BOOLEAN
  /\ flash_page \in Byte /\ psram_bank \in 0 .. 1 /\ qspi_div_sel \in DivSel
  /\ spi_last_rx \in Byte /\ inputs \in Inputs

================================================================================
