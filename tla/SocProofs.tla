---------------------------------- MODULE SocProofs ----------------------------------
(***************************************************************************)
(* Theorems about the whole chip, for every address map that MapAssumption *)
(* allows, every ROM, program and duration of the external transfers.      *)
(***************************************************************************)
EXTENDS Soc, TLAPS

--------------------------------------------------------------------------------
(* Facts about the datapath and the state machine of the core that hold    *)
(* step by step, whatever it is wired to and however long it waits for an  *)
(* answer.                                                                 *)

\* The widths as the provers need them; * is not linear, so each product is
\* bounded once here.
LEMMA Widths ==
  /\ ByteVals \in Nat /\ ByteVals >= 2
  /\ ByteVals * ByteVals \in Nat /\ ByteVals * ByteVals >= 2
  /\ WordVals \in Nat /\ WordVals >= 2
  /\ ByteVals <= WordVals /\ ByteVals * ByteVals <= WordVals
  /\ AddrVals \in Nat /\ AddrVals > 4
<1>1. ByteVals \in Nat /\ ByteVals >= 2 /\ AddrVals \in Nat /\ AddrVals > 4
  BY IsaAssumption
<1> DEFINE H == ByteVals * ByteVals
<1>2. \A m, n \in Nat : m >= 2 /\ n >= 2 => m * n \in Nat /\ m * n >= m /\ m * n >= n
  BY SMT
<1>3. H \in Nat /\ H >= 2 /\ H >= ByteVals
  BY <1>1, <1>2
<1>4. H * H \in Nat /\ H * H >= H
  BY <1>3, <1>2
<1>5. WordVals = H * H
  BY <1>1, SMT DEF WordVals
<1> QED  BY <1>1, <1>3, <1>4, <1>5

\* A remainder is in range.
LEMMA ModRange == ASSUME NEW x \in Int, NEW m \in Nat, m > 0
                  PROVE  x % m \in 0 .. m - 1
  BY SMT

\* What a load writes back is a word.
LEMMA ExtendedIsWord ==
  ASSUME NEW i, i.size \in 0 .. 2, NEW w \in Word
  PROVE  Extended(i, w) \in Word
<1> DEFINE vals == SizeVals(i.size)
           low  == w % vals
<1>1. vals \in Nat /\ vals > 0 /\ vals <= WordVals
  BY Widths DEF SizeVals
<1>2. low \in 0 .. vals - 1
  BY <1>1, ModRange DEF Word
<1>3. low \in Word
  BY <1>1, <1>2, Widths DEF Word
<1>4. low + WordVals - vals \in Word
  BY <1>1, <1>2, Widths DEF Word
<1> HIDE DEF vals, low
<1>5. Extended(i, w) \in {low, low + WordVals - vals}
  BY DEF Extended, vals, low
<1> QED  BY <1>3, <1>4, <1>5

LEMMA EvenIsAddr == ASSUME NEW a \in Addr PROVE Even(a) \in Addr
  BY Widths, SMT DEF Even, Addr

\* Every value the datapath computes from well-typed registers is well-typed.
LEMMA Datapath ==
  ASSUME CoreTypeOK
  PROVE  /\ ins.op \in Op /\ ins.rd \in Reg /\ ins.imm \in Word /\ ins.size \in 0 .. 2
         /\ rs1_val \in Word /\ rs2_val \in Word
         /\ alu_y \in Word /\ alu_y % AddrVals \in Addr
         /\ NextPc \in Addr
<1>1. /\ ins.op \in Op /\ ins.rd \in Reg /\ ins.rs1 \in Reg /\ ins.rs2 \in Reg
      /\ ins.imm \in Word /\ ins.size \in 0 .. 2
  BY IsaAssumption DEF CoreTypeOK, ins
<1>2. rs1_val \in Word /\ rs2_val \in Word
  BY <1>1, Widths DEF CoreTypeOK, rs1_val, rs2_val, RegVal, Word
<1>3. alu_y \in Word
  BY <1>2, AluAssumption DEF alu_y, ins, CoreTypeOK
<1>4. \A x \in Int : x % AddrVals \in Addr
  BY Widths, ModRange DEF Addr
<1>5. alu_y % AddrVals \in Addr
  BY <1>3, <1>4, Widths DEF Word
<1>6. pc \in Int /\ ins.imm \in Int /\ rs1_val \in Int
  BY <1>1, <1>2, Widths DEF CoreTypeOK, Addr, Word
<1>7. /\ (pc + ins.imm) % AddrVals \in Addr
      /\ Even((rs1_val + ins.imm) % AddrVals) \in Addr
      /\ (pc + 4) % AddrVals \in Addr
  BY <1>4, <1>6, EvenIsAddr
<1>8. NextPc \in Addr
  BY <1>7 DEF NextPc, NextPcOf
<1> QED  BY <1>1, <1>2, <1>3, <1>5, <1>8

LEMMA RdValueIsWord ==
  ASSUME CoreTypeOK, NEW rdata \in Word
  PROVE  RdValue(ins, pc, alu_result, rdata) \in Word
<1>1. ins.imm \in Word /\ ins.size \in 0 .. 2
  BY Datapath
<1>2. pc \in Int /\ ins.imm \in Int
  BY <1>1, Widths DEF CoreTypeOK, Addr, Word
<1>3. (pc + ins.imm) % WordVals \in Word /\ (pc + 4) % WordVals \in Word
  BY <1>2, Widths, ModRange DEF Word
<1>4. Extended(ins, rdata) \in Word
  BY <1>1, ExtendedIsWord
<1> QED  BY <1>1, <1>3, <1>4 DEF RdValue, CoreTypeOK

--------------------------------------------------------------------------------
\* CoreTypeOK is inductive on its own.
LEMMA ResetValues == 2 \in 0 .. 2 /\ 0 \in Addr /\ 0 \in Word
  BY Widths DEF Addr, Word

LEMMA CoreTypeInit == CoreInit => CoreTypeOK
  BY ResetValues DEF CoreInit, CoreTypeOK, State

LEMMA CoreTypeStep ==
  ASSUME CoreTypeOK, NEW ready \in BOOLEAN, NEW rdata \in Word, CoreStep(ready, rdata)
  PROVE  CoreTypeOK'
<1> USE DEF CoreTypeOK, State, busOut
<1>1. CASE Fetch
  BY <1>1, ResetValues DEF Fetch
<1>2. CASE FetchWait(ready)
  BY <1>2 DEF FetchWait
<1>3. CASE DecodeStep(rdata)
  BY <1>3 DEF DecodeStep
<1>4. CASE Halt
  BY <1>4 DEF Halt
<1>5. CASE Exec
  BY <1>5, Datapath DEF Exec
<1>6. CASE MemLoad
  BY <1>6, Datapath DEF MemLoad
<1>7. CASE MemStore
  BY <1>7, Datapath DEF MemStore
<1>8. CASE MemNone
  BY <1>8 DEF MemNone
<1>9. CASE MemWait(ready)
  BY <1>9 DEF MemWait
<1>10. CASE WriteBack(rdata)
  <2>1. WritesRd(ins) => ins.rd \in Reg \ {0}
    BY Datapath DEF WritesRd
  <2>2. regs' \in [Reg \ {0} -> Word]
    <3>1. CASE WritesRd(ins)
      <4> DEFINE v == RdValue(ins, pc, alu_result, rdata)
      <4>1. v \in Word
        BY RdValueIsWord
      <4> HIDE DEF v
      <4>2. regs' = [regs EXCEPT ![ins.rd] = v]
        BY <3>1, <1>10 DEF WriteBack, v
      <4> QED  BY <4>1, <4>2, <2>1, <3>1
    <3>2. CASE ~WritesRd(ins)
      BY <3>2, <1>10 DEF WriteBack
    <3> QED  BY <3>1, <3>2
  <2> QED  BY <1>10, <2>2 DEF WriteBack
<1>11. CASE Halted
  BY <1>11 DEF Halted
<1> QED
  BY <1>1, <1>2, <1>3, <1>4, <1>5, <1>6, <1>7, <1>8, <1>9, <1>10, <1>11
     DEF CoreStep

LEMMA CoreTypeReset == CoreTypeOK /\ CoreReset => CoreTypeOK'
  BY ResetValues DEF CoreReset, CoreTypeOK, State

LEMMA CoreTypeStutter == CoreTypeOK /\ UNCHANGED coreVars => CoreTypeOK'
  BY DEF coreVars, busOut, CoreTypeOK

--------------------------------------------------------------------------------
\* ValidPhases: mem_valid is high exactly in the two wait states that have a
\* request outstanding, so it is low in DECODE and WB, which read mem_rdata.
ValidPhases ==
  mem_valid <=> \/ state = "FETCH_WAIT"
                \/ state = "MEM_WAIT" /\ ins.op \in {"LOAD", "STORE"}

\* The four bus invariants, which need one another: a strobe outlives its state
\* unless valid is low elsewhere, and the address and the result a wait state
\* relies on are the ones its predecessors fixed.  None depends on the types, so
\* they are inductive for any answers of the memory, words or not.
Control == WriteStrobe /\ ValidPhases /\ AddressHeld /\ ResultFixed

\* The decoded fields and the ALU read nothing but ir, pc and the registers.
LEMMA Combinational ==
  ASSUME UNCHANGED <<ir, pc, regs>>
  PROVE  ins' = ins /\ alu_y' = alu_y /\ rs2_val' = rs2_val /\ NextPc' = NextPc
  BY DEF ins, alu_y, NextPc, rs1_val, rs2_val, RegVal

LEMMA ControlInit == CoreInit => Control
  BY DEF CoreInit, Control, WriteStrobe, ValidPhases, AddressHeld, ResultFixed

LEMMA ControlStep ==
  ASSUME Control, NEW ready, NEW rdata, CoreStep(ready, rdata)
  PROVE  Control'
<1> USE DEF Control, WriteStrobe, ValidPhases, AddressHeld, ResultFixed, busOut
<1>1. CASE Fetch
  BY <1>1 DEF Fetch
<1>2. CASE FetchWait(ready)
  BY <1>2 DEF FetchWait
<1>3. CASE DecodeStep(rdata)
  BY <1>3 DEF DecodeStep
<1>4. CASE Halt
  BY <1>4 DEF Halt
<1>5. CASE Exec
  BY <1>5, Combinational DEF Exec
<1>6. CASE MemLoad
  BY <1>6, Combinational DEF MemLoad
<1>7. CASE MemStore
  BY <1>7, Combinational DEF MemStore
<1>8. CASE MemNone
  BY <1>8, Combinational DEF MemNone
<1>9. CASE MemWait(ready)
  BY <1>9, Combinational DEF MemWait
<1>10. CASE WriteBack(rdata)
  BY <1>10 DEF WriteBack
<1>11. CASE Halted
  BY <1>11 DEF Halted
<1> QED
  BY <1>1, <1>2, <1>3, <1>4, <1>5, <1>6, <1>7, <1>8, <1>9, <1>10, <1>11
     DEF CoreStep

LEMMA ControlReset == CoreReset => Control'
  BY DEF CoreReset, Control, WriteStrobe, ValidPhases, AddressHeld, ResultFixed

LEMMA ControlStutter == Control /\ UNCHANGED coreVars => Control'
  BY Combinational DEF coreVars, busOut, Control, WriteStrobe, ValidPhases,
     AddressHeld, ResultFixed

--------------------------------------------------------------------------------
\* Words and bytes.
LEMMA DigitPair ==
  ASSUME NEW m \in Nat, NEW n \in Nat, NEW x \in 0 .. m - 1, NEW y \in 0 .. n - 1
  PROVE  x + m * y \in 0 .. m * n - 1
<1>1. m * n - m * y = m * (n - y)
  BY SMT
<1>2. \A p, q \in Nat : q >= 1 => p * q >= p
  BY SMT
<1>3. n - y \in Nat /\ n - y >= 1
  OBVIOUS
<1>4. m * (n - y) >= m
  BY <1>2, <1>3
<1>5. m * y \in Nat /\ m * n \in Nat
  BY SMT
<1> QED  BY <1>1, <1>4, <1>5

LEMMA WordOfIsWord == ASSUME NEW b \in [1 .. 4 -> Byte] PROVE WordOf(b) \in Word
<1> DEFINE B == ByteVals
           H == B * B
<1>1. B \in Nat /\ B >= 2
  BY Widths
<1>2. b[1] \in 0 .. B - 1 /\ b[2] \in 0 .. B - 1 /\ b[3] \in 0 .. B - 1 /\ b[4] \in 0 .. B - 1
  BY DEF Byte
<1>3. H \in Nat /\ B * H \in Nat /\ B * (B * H) \in Nat
  BY <1>1, SMT
<1>4. b[3] + B * b[4] \in 0 .. H - 1
  BY <1>1, <1>2, DigitPair
<1> HIDE DEF H
<1>5. b[2] + B * (b[3] + B * b[4]) \in 0 .. B * H - 1
  BY <1>1, <1>2, <1>3, <1>4, DigitPair
<1>6. b[1] + B * (b[2] + B * (b[3] + B * b[4])) \in 0 .. B * (B * H) - 1
  BY <1>1, <1>2, <1>3, <1>5, DigitPair
<1>7. B * (B * H) = WordVals
  BY <1>1, SMT DEF H, WordVals
<1> QED  BY <1>6, <1>7 DEF WordOf, Word

LEMMA BytesAreBytes ==
  ASSUME NEW w \in Word
  PROVE  /\ Bytes(w) \in [1 .. 4 -> Byte]
         /\ w % ByteVals \in Byte /\ w % 2 \in 0 .. 1 /\ w % 4 \in DivSel
<1>1. \A x \in Int : x % ByteVals \in Byte
  BY Widths, ModRange DEF Byte
<1>2. \A x \in Int, n \in Nat : n > 0 => x \div n \in Int
  BY SMT
<1> DEFINE H == ByteVals * ByteVals
           T == H * ByteVals
<1>3. H \in Nat /\ H > 0
  BY Widths
<1>4. T \in Nat /\ T > 0
  <2>1. \A p, q \in Nat : p > 0 /\ q > 0 => p * q \in Nat /\ p * q > 0
    BY SMT
  <2> HIDE DEF H
  <2> QED  BY <2>1, <1>3, Widths
<1>5. w \in Int
  BY Widths DEF Word
<1>6. w \div ByteVals \in Int /\ w \div H \in Int /\ w \div T \in Int
  BY <1>2, <1>3, <1>4, <1>5, Widths
<1>7. Bytes(w) = <<w % ByteVals, (w \div ByteVals) % ByteVals,
                   (w \div H) % ByteVals, (w \div T) % ByteVals>>
  BY DEF Bytes
<1>8. Bytes(w) \in [1 .. 4 -> Byte]
  <2> DEFINE b1 == w % ByteVals
             b2 == (w \div ByteVals) % ByteVals
             b3 == (w \div H) % ByteVals
             b4 == (w \div T) % ByteVals
  <2>1. b1 \in Byte /\ b2 \in Byte /\ b3 \in Byte /\ b4 \in Byte
    BY <1>1, <1>5, <1>6
  <2>2. Bytes(w) = <<b1, b2, b3, b4>>
    BY <1>7
  <2> HIDE DEF b1, b2, b3, b4
  <2> QED  BY <2>1, <2>2
<1>9. w % ByteVals \in Byte /\ w % 2 \in 0 .. 1 /\ w % 4 \in DivSel
  BY <1>1, <1>5, ModRange DEF DivSel
<1> QED  BY <1>8, <1>9

--------------------------------------------------------------------------------
\* The memory map.
LEMMA Map ==
  /\ ByteVals \in Nat /\ ByteVals >= 4
  /\ ROM_BYTES \in Nat /\ RAM_BASE \in Nat /\ RAM_BYTES \in Nat /\ LOAD_BASE \in Nat
  /\ EXT_PSRAM_BASE \in Nat /\ EXT_PSRAM_BYTES \in Nat /\ REG_BASE \in Nat
  /\ AddrVals \in Nat /\ AddrVals > 4 /\ MemSize \in Nat /\ MemSize > 0
  /\ RAM_BASE < LOAD_BASE /\ RAM_BASE + RAM_BYTES <= EXT_PSRAM_BASE
  /\ EXT_PSRAM_BASE + EXT_PSRAM_BYTES <= REG_BASE
  BY MapAssumption, SocAssumption, Widths

LEMMA SmallBytes ==
  /\ 0 \in Byte /\ 0 .. 1 \subseteq Byte /\ DivSel \subseteq Byte
  /\ 0 \in 0 .. 1 /\ 3 \in DivSel
  BY Map DEF Byte, DivSel

\* An external address lies in the load window, in the PSRAM window or is SPI_DATA:
\* a store there is not a store to on-chip RAM or to a register.
LEMMA ExternalIsNotOnChip ==
  ASSUME NEW a \in Addr, in_ext(a, TRUE)
  PROVE  /\ ~in_ram(a)
         /\ \A r \in {GPIO_OUT, PSRAM_BANK, FLASH_MODE, QSPI_CTRL, FLASH_PAGE} : a # REG_BASE + r
  BY Map DEF Addr, in_ext, in_ram, in_ram_range, in_ext_flash, in_ext_psram, in_spi_write,
     GPIO_OUT, PSRAM_BANK, FLASH_MODE, QSPI_CTRL, FLASH_PAGE, SPI_DATA

LEMMA RequestType ==
  ASSUME MemTypeOK, NEW a \in Addr, NEW we \in BOOLEAN, NEW w \in Word, NEW size \in Size
  PROVE  ExtRequest(a, we, w, size) \in AllRequests
<1>1. req_dev(a, we) \in Dev
  BY DEF req_dev, Dev, Spi, Flash, RamA, RamB
<1>2. ext_addr(a, we) \in Nat
  <2>1. CASE in_ext_flash(a)
    <3>1. WINDOW_BYTES \in Nat /\ flash_page \in Nat /\ a - LOAD_BASE \in Nat
      BY <2>1, Map DEF WINDOW_BYTES, in_ext_flash, MemTypeOK, Byte, Addr
    <3>2. flash_page * WINDOW_BYTES + (a - LOAD_BASE) \in Nat
      <4> HIDE DEF WINDOW_BYTES
      <4> QED  BY <3>1, SMT
    <3> QED  BY <2>1, <3>2 DEF ext_addr
  <2>2. CASE ~in_ext_flash(a)
    <3>1. (a - EXT_PSRAM_BASE) % AddrVals \in Nat
      BY Map, ModRange DEF Addr
    <3> QED  BY <2>2, <3>1 DEF ext_addr
  <2> QED  BY <2>1, <2>2
<1>3. Bytes(w) \in [1 .. 4 -> Byte]
  BY BytesAreBytes
<1>4. (we /\ ~in_ext_flash(a)) \in BOOLEAN
  OBVIOUS
<1> QED  BY <1>1, <1>2, <1>3, <1>4 DEF ExtRequest, AllRequests

\* The word of a byte of the ROM is one of its words.
LEMMA WordOfByte ==
  \A x, n \in Nat : x < n /\ n % 4 = 0 => x \div 4 \in 0 .. n \div 4 - 1
<1> SUFFICES ASSUME NEW x \in Nat, NEW n \in Nat, x < n, n % 4 = 0
             PROVE  x \div 4 \in 0 .. n \div 4 - 1
  OBVIOUS
<1> DEFINE q == n \div 4
<1>1. q \in Nat /\ n = 4 * q  OBVIOUS
<1>2. x \div 4 \in Nat /\ 4 * (x \div 4) <= x  OBVIOUS
<1>3. x \div 4 < q
  <2> HIDE DEF q
  <2> QED  BY <1>1, <1>2
<1> QED  BY <1>1, <1>2, <1>3

\* What the on-chip memories and registers answer is a word.
LEMMA OnChipType ==
  ASSUME MemTypeOK, NEW a \in Addr, NEW past \in [0 .. 3 -> Byte]
  PROVE  OnChipBytes(a, past) \in [1 .. 4 -> Byte]
<1>1. ASSUME NEW x \in Nat  PROVE  RomByte(x) \in Byte
  <2>1. CASE x < ROM_BYTES
    <3>1. x \div 4 \in 0 .. ROM_BYTES \div 4 - 1
      <4>1. ROM_BYTES \in Nat /\ ROM_BYTES % 4 = 0  BY MapAssumption
      <4> QED  BY <2>1, <4>1, WordOfByte
    <3>2. Rom[x \div 4] \in Word
      BY <3>1, MapAssumption
    <3>3. 1 + (x % 4) \in 1 .. 4
      OBVIOUS
    <3> QED  BY <2>1, <3>2, <3>3, BytesAreBytes DEF RomByte
  <2>2. CASE ~(x < ROM_BYTES)
    BY <2>2, SmallBytes DEF RomByte
  <2> QED  BY <2>1, <2>2
<1>2. ASSUME NEW x \in Nat  PROVE  RamByte(x, past) \in Byte
  <2>1. (x - RAM_BASE) % 4 \in 0 .. 3
    BY Map
  <2> QED  BY <2>1 DEF RamByte, MemTypeOK
<1>3. \A offset : RegByte(offset) \in Byte
  BY SmallBytes, MapAssumption DEF RegByte, MemTypeOK
<1>4. \A k \in 1 .. 4 : a + k - 1 \in Nat
  BY Map DEF Addr
<1> QED  BY <1>1, <1>2, <1>3, <1>4, SmallBytes DEF OnChipBytes

LEMMA ReadDataType ==
  ASSUME TypeOK, NEW past \in [0 .. 3 -> Byte]
  PROVE  mem_rdata(past) \in Word
<1>1. OnChipBytes(mem_addr, past) \in [1 .. 4 -> Byte]
  BY OnChipType DEF TypeOK, CoreTypeOK
<1> QED  BY <1>1, WordOfIsWord DEF mem_rdata, TypeOK, PortTypeOK

--------------------------------------------------------------------------------
\* TypeOK, component by component.
LEMMA MemTypeStep ==
  ASSUME MemTypeOK, NEW we \in BOOLEAN, NEW a \in Addr, NEW w \in Word, NEW size \in Size,
         NEW ready \in BOOLEAN, NEW rdata \in [1 .. 4 -> Byte],
         MemStep(we, a, w, size, ready, rdata)
  PROVE  MemTypeOK'
<1>1. /\ w % ByteVals \in Byte /\ w % 2 \in 0 .. 1 /\ w % 4 \in DivSel
      /\ Bytes(w) \in [1 .. 4 -> Byte]
  BY BytesAreBytes
<1>2. RamWritten(a, w, size) \in [RamIndex -> Byte]
  <2> DEFINE start == a - RAM_BASE
  <2>1. start \in Int
    BY Map DEF Addr
  <2>2. \A k \in RamIndex : 1 + (k % 4) \in 1 .. 4
    BY Map DEF RamIndex
  <2>3. \A k \in RamIndex : k - start \in 0 .. SizeBytes(size) - 1 => 1 + k - start \in 1 .. 4
    BY <2>1, Map DEF RamIndex, SizeBytes, Size
  <2> QED  BY <1>1, <2>2, <2>3 DEF RamWritten, MemTypeOK
<1>3. ram' \in [RamIndex -> Byte]
  BY <1>2 DEF MemStep, MemWrite, MemTypeOK
<1>4. /\ gpio_out' \in Byte /\ psram_bank' \in 0 .. 1 /\ flash_mode' \in BOOLEAN
      /\ qspi_div_sel' \in DivSel /\ flash_page' \in Byte
  BY <1>1 DEF MemStep, MemWrite, Assigned, MemTypeOK
<1>5. spi_last_rx' \in Byte /\ inputs' \in Inputs
  BY DEF MemStep, SpiLatch, MemTypeOK
<1> QED  BY <1>3, <1>4, <1>5 DEF MemTypeOK

LEMMA MemTypeReset == MemTypeOK /\ MemReset => MemTypeOK'
  BY SmallBytes DEF MemTypeOK, MemReset

LEMMA DataBytesRange ==
  ASSUME NEW r \in AllRequests
  PROVE  P!DataBytes(r) \in 1 .. 4 /\ P!ChipOf(r.dev) \in Chip
  BY DEF P!DataBytes, P!SizeBytes, P!ChipOf, Chip, AllRequests, Size

LEMMA WrittenType ==
  ASSUME PortTypeOK, NEW k \in 0 .. 4
  PROVE  P!Written(chips, cur, k) \in [Chip -> [0 .. MemSize - 1 -> Byte]]
<1> DEFINE c == P!ChipOf(cur.dev)
           old == chips[c]
           new == [x \in DOMAIN old |-> IF P!Offset(cur, x) < k
                                          THEN cur.wdata[P!Offset(cur, x) + 1] ELSE old[x]]
<1>1. c \in Chip /\ old \in [0 .. MemSize - 1 -> Byte]
  BY DataBytesRange DEF PortTypeOK
<1>2. \A x \in 0 .. MemSize - 1 : P!Offset(cur, x) \in Nat
  <2>1. cur.addr \in Nat
    BY DEF PortTypeOK, AllRequests
  <2> QED  BY <2>1, Map, ModRange DEF P!Offset
<1>3. cur.wdata \in [1 .. 4 -> Byte]
  BY DEF PortTypeOK, AllRequests
<1>4. new \in [0 .. MemSize - 1 -> Byte]
  <2> HIDE DEF old
  <2> QED  BY <1>1, <1>2, <1>3
<1>5. P!Written(chips, cur, k) = [chips EXCEPT ![c] = new]
  BY DEF P!Written
<1> HIDE DEF c, old, new
<1> QED  BY <1>1, <1>4, <1>5 DEF PortTypeOK

LEMMA ReplyType ==
  ASSUME PortTypeOK
  PROVE  P!Replies(chips, cur) \subseteq [1 .. 4 -> Byte]
<1>1. CASE cur.dev = P!Spi
  BY <1>1, SmallBytes, SocAssumption DEF P!Replies
<1>2. CASE cur.dev # P!Spi
  <2>1. \A k \in 1 .. 4 : (cur.addr + k - 1) % MemSize \in 0 .. MemSize - 1
    <3>1. cur.addr \in Nat
      BY DEF PortTypeOK, AllRequests
    <3> QED  BY <3>1, Map, ModRange
  <2>2. P!ChipOf(cur.dev) \in Chip
    BY DataBytesRange DEF PortTypeOK
  <2>3. P!ReadWord(chips, cur) \in [1 .. 4 -> Byte]
    BY <2>1, <2>2, SmallBytes DEF P!ReadWord, PortTypeOK
  <2> QED  BY <1>2, <2>3 DEF P!Replies
<1> QED  BY <1>1, <1>2

LEMMA PortTypeStep ==
  ASSUME PortTypeOK, NEW valid, NEW r \in AllRequests, P!PortStep(valid, r)
  PROVE  PortTypeOK'
<1>1. CASE P!PortIdle(valid) \/ P!Transfer
  BY <1>1 DEF P!PortIdle, P!Transfer, P!portVars, PortTypeOK
<1>2. CASE P!Take(valid, r)
  BY <1>2 DEF P!Take, PortTypeOK
<1>3. CASE P!Answer
  <2>1. P!DataBytes(cur) \in 0 .. 4
    BY DataBytesRange DEF PortTypeOK
  <2>2. chips' \in [Chip -> [0 .. MemSize - 1 -> Byte]]
    BY <1>3, <2>1, WrittenType DEF P!Answer, PortTypeOK
  <2>3. ext_rdata' \in [1 .. 4 -> Byte]
    BY <1>3, ReplyType DEF P!Answer
  <2> QED  BY <1>3, <2>2, <2>3 DEF P!Answer, PortTypeOK
<1>4. CASE P!PortPost
  BY <1>4 DEF P!PortPost, PortTypeOK
<1> QED  BY <1>1, <1>2, <1>3, <1>4 DEF P!PortStep

LEMMA PortTypeReset == ASSUME PortTypeOK, P!PortReset PROVE PortTypeOK'
<1>1. PICK k \in 0 .. 4 : chips' = P!Written(chips, cur, k)
  BY DEF P!PortReset
<1>2. chips' \in [Chip -> [0 .. MemSize - 1 -> Byte]]
  BY <1>1, WrittenType
<1>3. ext_rdata' \in [1 .. 4 -> Byte]
  BY SmallBytes DEF P!PortReset
<1> QED  BY <1>2, <1>3 DEF P!PortReset, PortTypeOK

LEMMA RequestLines == TypeOK => ext_req \in AllRequests
  BY RequestType DEF ext_req, TypeOK, CoreTypeOK, Size

LEMMA SocTypeInit == Init => TypeOK
<1> SUFFICES ASSUME Init PROVE TypeOK
  OBVIOUS
<1>1. CoreTypeOK
  BY CoreTypeInit DEF Init
<1>2. MemTypeOK
  BY SmallBytes, SocAssumption DEF Init, MemInit, MemTypeOK
<1>3. PortTypeOK
  <2>1. Bytes(0) \in [1 .. 4 -> Byte]
    BY BytesAreBytes, ResetValues
  <2>2. cur \in AllRequests
    BY <2>1 DEF Init, AllRequests, Dev, Spi, RamB, Size
  <2> QED  BY <2>2, SmallBytes, SocAssumption DEF Init, PortTypeOK
<1> QED  BY <1>1, <1>2, <1>3 DEF TypeOK

LEMMA SocTypeStep == TypeOK /\ [Next]_vars => TypeOK'
<1> SUFFICES ASSUME TypeOK, [Next]_vars PROVE TypeOK'
  OBVIOUS
<1> USE DEF TypeOK
<1>1. CASE Tick
  <2>1. PastWords(mem_addr) \subseteq [0 .. 3 -> Byte]
    BY SmallBytes, MapAssumption DEF PastWords
  <2>2. PICK past \in PastWords(mem_addr) : CoreStep(mem_ready, mem_rdata(past))
    BY <1>1 DEF Tick
  <2>3. mem_rdata(past) \in Word /\ mem_ready \in BOOLEAN
    BY <2>1, <2>2, ReadDataType DEF mem_ready, ext_ready, P!ready
  <2>4. CoreTypeOK'
    BY <2>2, <2>3, CoreTypeStep
  <2>5. MemTypeOK'
    <3>1. mem_we \in BOOLEAN /\ mem_addr \in Addr /\ mem_wdata \in Word /\ mem_size \in Size
      BY DEF CoreTypeOK, Size
    <3>2. ext_ready \in BOOLEAN /\ ext_rdata \in [1 .. 4 -> Byte]
      BY DEF ext_ready, P!ready, PortTypeOK
    <3> QED  BY <1>1, <3>1, <3>2, MemTypeStep DEF Tick
  <2>6. PortTypeOK'
    BY <1>1, RequestLines, PortTypeStep DEF Tick
  <2> QED  BY <2>4, <2>5, <2>6
<1>2. CASE Reset
  BY <1>2, CoreTypeReset, MemTypeReset, PortTypeReset DEF Reset
<1>3. CASE UNCHANGED vars
  <2>1. CoreTypeOK'
    BY <1>3, CoreTypeStutter DEF vars
  <2>2. MemTypeOK'
    BY <1>3 DEF vars, memVars, regVars, MemTypeOK
  <2>3. PortTypeOK'
    BY <1>3 DEF vars, portVars, PortTypeOK
  <2> QED  BY <2>1, <2>2, <2>3
<1> QED  BY <1>1, <1>2, <1>3 DEF Next

\* SocTypeCorrect: every register of the chip keeps the range of its declaration, so
\* every request has a legal device, size and address and memories hold bytes.
THEOREM SocTypeCorrect == Spec => []TypeOK
  BY SocTypeInit, SocTypeStep, PTL DEF Spec

--------------------------------------------------------------------------------
\* The handshake between mem.v and the port: a port that is not idle serves the
\* request that is still on the bus, and what it serves never writes the flash.
Handshake ==
  /\ port # "idle" => ext_req_valid /\ ext_req = cur
  /\ cur.we => cur.dev # Flash

IInv == TypeOK /\ Control /\ Handshake

extRegs == <<flash_mode, flash_page, psram_bank, qspi_div_sel>>

\* An external store changes no register the request is made from.
LEMMA ExternalStoreKeepsRegisters ==
  ASSUME TypeOK, ext_req_valid, Tick
  PROVE  UNCHANGED extRegs
<1>1. MemWrite(mem_we, mem_addr, mem_wdata, mem_size)
  BY DEF Tick, MemStep
<1>2. CASE ~mem_we
  BY <1>1, <1>2 DEF MemWrite, Assigned, extRegs
<1>3. CASE mem_we
  <2>1. mem_addr \in Addr /\ in_ext(mem_addr, TRUE)
    BY <1>3 DEF ext_req_valid, TypeOK, CoreTypeOK
  <2> QED  BY <1>1, <2>1, ExternalIsNotOnChip DEF MemWrite, Assigned, extRegs
<1> QED  BY <1>2, <1>3

\* The core does not move while an external request has no answer.
LEMMA CoreWaits ==
  ASSUME Control, ext_req_valid, ~ext_ready, Tick
  PROVE  UNCHANGED <<state, busOut>>
<1>1. PICK past \in PastWords(mem_addr) : CoreStep(mem_ready, mem_rdata(past))
  BY DEF Tick
<1>2. mem_ready = FALSE
  BY DEF mem_ready, ext_ready
<1>3. state \in {"FETCH_WAIT", "MEM_WAIT"}
  BY DEF Control, ValidPhases, ext_req_valid
<1>4. FetchWait(FALSE) \/ MemWait(FALSE)
  BY <1>1, <1>2, <1>3 DEF CoreStep, Fetch, DecodeStep, Halt, Exec, MemLoad, MemStore, MemNone,
     WriteBack, Halted
<1> QED  BY <1>4 DEF FetchWait, MemWait, busOut

\* So the request lines are held until the answer ...
LEMMA LinesHeld ==
  ASSUME TypeOK, Control, ext_req_valid, ~ext_ready, Tick
  PROVE  ext_req_valid' /\ ext_req' = ext_req /\ UNCHANGED extRegs
<1>1. UNCHANGED <<busOut, extRegs>>
  BY CoreWaits, ExternalStoreKeepsRegisters
<1>2. UNCHANGED <<mem_addr, mem_we, mem_wdata, mem_size, mem_valid,
                  flash_mode, flash_page, psram_bank>>
  BY <1>1 DEF busOut, extRegs
<1>3. ext_req_valid' = ext_req_valid
  BY <1>2 DEF ext_req_valid, in_ext, in_ext_flash, in_ext_psram, in_spi_write
<1>4. ext_req' = ext_req
  BY <1>2 DEF ext_req, ExtRequest, req_dev, ext_addr, in_ext_flash, in_spi_write
<1> QED  BY <1>1, <1>3, <1>4

\* ... and dropped with it.
LEMMA LinesDropped ==
  ASSUME Control, ext_req_valid, ext_ready, Tick
  PROVE  ~ext_req_valid'
<1>1. PICK past \in PastWords(mem_addr) : CoreStep(mem_ready, mem_rdata(past))
  BY DEF Tick
<1>2. mem_ready = TRUE
  BY DEF mem_ready, ext_ready
<1>3. state \in {"FETCH_WAIT", "MEM_WAIT"}
  BY DEF Control, ValidPhases, ext_req_valid
<1>4. FetchWait(TRUE) \/ MemWait(TRUE)
  BY <1>1, <1>2, <1>3 DEF CoreStep, Fetch, DecodeStep, Halt, Exec, MemLoad, MemStore, MemNone,
     WriteBack, Halted
<1>5. mem_valid' = FALSE
  BY <1>4 DEF FetchWait, MemWait
<1> QED  BY <1>5 DEF ext_req_valid

LEMMA NoFlashWriteAsked ==
  ASSUME TypeOK, ext_req.we
  PROVE  ext_req.dev # Flash
<1>1. (mem_we /\ ~in_ext_flash(mem_addr)) \in BOOLEAN
  OBVIOUS
<1>2. ~in_ext_flash(mem_addr)
  BY <1>1 DEF ext_req, ExtRequest
<1> QED  BY <1>2 DEF ext_req, ExtRequest, req_dev, Flash, Spi, RamA, RamB

LEMMA HandshakeStep ==
  ASSUME IInv, Tick
  PROVE  Handshake'
<1> USE DEF IInv, Handshake
<1>1. P!PortStep(ext_req_valid, ext_req)
  BY DEF Tick
<1>2. CASE P!PortIdle(ext_req_valid)
  BY <1>2 DEF P!PortIdle, P!portVars
<1>3. CASE P!Take(ext_req_valid, ext_req)
  <2>1. ~ext_ready
    BY <1>3 DEF P!Take, ext_ready, P!ready
  <2> QED  BY <1>3, <2>1, LinesHeld, NoFlashWriteAsked DEF P!Take
<1>4. CASE P!Transfer \/ P!Answer
  <2>1. port = "busy" /\ ~ext_ready /\ ext_req_valid /\ cur' = cur
    BY <1>4 DEF P!Transfer, P!Answer, P!portVars, ext_ready, P!ready
  <2> QED  BY <2>1, LinesHeld
<1>5. CASE P!PortPost
  BY <1>5 DEF P!PortPost
<1> QED  BY <1>1, <1>2, <1>3, <1>4, <1>5 DEF P!PortStep

LEMMA IInvInit == Init => IInv
<1> SUFFICES ASSUME Init PROVE IInv
  OBVIOUS
<1>1. Control
  BY ControlInit DEF Init
<1>2. Handshake
  BY DEF Init, Handshake
<1> QED  BY <1>1, <1>2, SocTypeInit DEF IInv

LEMMA IInvStep == IInv /\ [Next]_vars => IInv'
<1> SUFFICES ASSUME IInv, [Next]_vars PROVE IInv'
  OBVIOUS
<1> USE DEF IInv
<1>1. TypeOK'
  BY SocTypeStep
<1>2. CASE Tick
  <2>1. Control'
    BY <1>2, ControlStep DEF Tick
  <2> QED  BY <1>1, <1>2, <2>1, HandshakeStep
<1>3. CASE Reset
  <2>1. Control'
    BY <1>3, ControlReset DEF Reset
  <2>2. Handshake'
    BY <1>3 DEF Reset, P!PortReset, Handshake
  <2> QED  BY <1>1, <2>1, <2>2
<1>4. CASE UNCHANGED vars
  <2>1. Control'
    BY <1>4, ControlStutter DEF vars
  <2>2. Handshake'
    BY <1>4 DEF Handshake, vars, coreVars, busOut, memVars, regVars, portVars, ext_req_valid,
       ext_req, ExtRequest, req_dev, ext_addr, in_ext, in_ext_flash, in_ext_psram, in_spi_write
  <2> QED  BY <1>1, <2>1, <2>2
<1> QED  BY <1>2, <1>3, <1>4 DEF Next

LEMMA IInvInvariant == Spec => []IInv
  BY IInvInit, IInvStep, PTL DEF Spec

--------------------------------------------------------------------------------
\* The core's side of the bus.  Control is inductive whatever answers the core, so
\* these hold however long mem.v makes it wait.

\* NoStrayWrite: mem_we, on which alone mem.v commits, is high only while a store
\* waits for its answer with its own address, data and size on the bus.
THEOREM NoStrayWrite == Spec => []WriteStrobe
<1>1. IInv => WriteStrobe  BY DEF IInv, Control
<1> QED  BY <1>1, IInvInvariant, PTL

\* AddressOutlivesValid: DECODE and WB, which read mem_rdata after mem_valid has been
\* dropped, still have the address they read on the bus.
THEOREM AddressOutlivesValid == Spec => []AddressHeld
<1>1. IInv => AddressHeld  BY DEF IInv, Control
<1> QED  BY <1>1, IInvInvariant, PTL

\* ResultsOutliveWaiting: however long MEM_WAIT lasts, WB uses the result and the next
\* pc that the instruction's own operands give.
THEOREM ResultsOutliveWaiting == Spec => []ResultFixed
<1>1. IInv => ResultFixed  BY DEF IInv, Control
<1> QED  BY <1>1, IInvInvariant, PTL

--------------------------------------------------------------------------------
\* BusContractHolds: mem.v drives the external port as the port's specification
\* assumes, whatever program runs; so what QspiLink shows of the port under that
\* contract is true of the chip.
THEOREM BusContractHolds == Spec => BusContract
<1>1. IInv /\ [Next]_vars /\ (ext_req \in AllRequests)' => [P!Next]_(P!vars)
  <2> SUFFICES ASSUME IInv, [Next]_vars, (ext_req \in AllRequests)' PROVE [P!Next]_(P!vars)
    OBVIOUS
  <2> USE DEF IInv
  <2>1. CASE Tick
    <3>1. P!Bus
      <4>1. CASE ext_req_valid /\ ~ext_ready
        BY <4>1, <2>1, LinesHeld DEF P!Bus, P!BusHold, ext_ready
      <4>2. CASE ext_req_valid /\ ext_ready
        BY <4>2, <2>1, LinesDropped DEF P!Bus, P!BusDrop, ext_ready
      <4>3. CASE ~ext_req_valid
        <5>1. ext_req_valid' \in BOOLEAN
          BY DEF ext_req_valid
        <5> QED  BY <4>3, <5>1 DEF P!Bus, P!BusFree
      <4> QED  BY <4>1, <4>2, <4>3
    <3> QED  BY <2>1, <3>1 DEF Tick, P!Next, P!Clock
  <2>2. CASE Reset
    <3>1. ~ext_req_valid'
      BY <2>2 DEF Reset, CoreReset, ext_req_valid
    <3> QED  BY <2>2, <3>1 DEF Reset, P!Next, P!Reset
  <2>3. CASE UNCHANGED vars
    <3>1. UNCHANGED P!vars
      BY <2>3 DEF P!vars, P!portVars, vars, coreVars, busOut, memVars, regVars, portVars,
         ext_req_valid, ext_req, ExtRequest, req_dev, ext_addr, in_ext, in_ext_flash,
         in_ext_psram, in_spi_write
    <3> QED  BY <3>1
  <2> QED  BY <2>1, <2>2, <2>3 DEF Next
<1>2. IInv => ext_req \in AllRequests
  BY RequestLines DEF IInv
<1> QED  BY <1>1, <1>2, IInvInvariant, PTL DEF Spec, BusContract

\* NothingMoves: no register that a transaction in flight depends on changes under it.
THEOREM NothingMoves == Spec => NothingMovesUnderARequest
<1>1. IInv /\ [Next]_vars =>
        [(port = "busy" /\ port' # "idle") => UNCHANGED extRegs]_vars
  <2> SUFFICES ASSUME IInv, Next, port = "busy", port' # "idle" PROVE UNCHANGED extRegs
    OBVIOUS
  <2>1. Tick
    BY DEF Next, Reset, P!PortReset
  <2>2. TypeOK /\ ext_req_valid
    BY DEF IInv, Handshake
  <2> QED  BY <2>1, <2>2, ExternalStoreKeepsRegisters
<1> QED  BY <1>1, IInvInvariant, PTL DEF Spec, NothingMovesUnderARequest, extRegs

\* Writing no bytes writes nothing.
LEMMA WrittenNone == ASSUME PortTypeOK PROVE P!Written(chips, cur, 0) = chips
<1> DEFINE c == P!ChipOf(cur.dev)
           old == chips[c]
           new == [x \in DOMAIN old |-> IF P!Offset(cur, x) < 0
                                          THEN cur.wdata[P!Offset(cur, x) + 1] ELSE old[x]]
<1>1. c \in Chip /\ old \in [0 .. MemSize - 1 -> Byte]
  BY DataBytesRange DEF PortTypeOK
<1>2. \A x \in 0 .. MemSize - 1 : P!Offset(cur, x) \in Nat
  <2>1. cur.addr \in Nat
    BY DEF PortTypeOK, AllRequests
  <2> QED  BY <2>1, Map, ModRange DEF P!Offset
<1>3. new = old
  <2> HIDE DEF old
  <2> QED  BY <1>1, <1>2
<1>4. P!Written(chips, cur, 0) = [chips EXCEPT ![c] = new]
  BY DEF P!Written
<1> HIDE DEF c, new
<1> QED  BY <1>1, <1>3, <1>4 DEF PortTypeOK, old

\* A request that is not a write to the flash leaves the flash alone.
LEMMA WrittenElsewhere ==
  ASSUME PortTypeOK, NEW k, cur.dev # Flash
  PROVE  P!Written(chips, cur, k)[ChipOf(Flash)] = chips[ChipOf(Flash)]
<1>1. P!ChipOf(cur.dev) # ChipOf(Flash) /\ ChipOf(Flash) \in Chip
  BY DEF P!ChipOf, ChipOf, P!Flash, Flash, P!RamA, RamA, Chip
<1> QED  BY <1>1 DEF P!Written, PortTypeOK

\* FlashUntouched: no program, whatever mode, page and bank it selects, changes the flash.
THEOREM FlashUntouched == Spec => FlashNeverWritten
<1>1. IInv /\ [Next]_vars => [chips'[ChipOf(Flash)] = chips[ChipOf(Flash)]]_vars
  <2> SUFFICES ASSUME IInv, Next PROVE chips'[ChipOf(Flash)] = chips[ChipOf(Flash)]
    OBVIOUS
  <2>1. PortTypeOK /\ (cur.we => cur.dev # Flash)
    BY DEF IInv, TypeOK, Handshake
  <2>2. P!IsMemWrite(cur) => cur.dev # Flash
    BY <2>1 DEF P!IsMemWrite
  <2>3. CASE Tick
    <3>1. CASE P!Answer
      BY <3>1, <2>1, <2>2, WrittenElsewhere DEF P!Answer
    <3>2. CASE ~P!Answer
      BY <3>2, <2>3 DEF Tick, P!PortStep, P!PortIdle, P!Take, P!Transfer, P!PortPost, P!portVars
    <3> QED  BY <3>1, <3>2
  <2>4. CASE Reset
    <3>1. PICK k \in 0 .. 4 :
            /\ k <= IF port = "busy" /\ P!IsMemWrite(cur) THEN P!DataBytes(cur) ELSE 0
            /\ chips' = P!Written(chips, cur, k)
      BY <2>4 DEF Reset, P!PortReset
    <3>2. CASE P!IsMemWrite(cur)
      BY <3>1, <3>2, <2>1, <2>2, WrittenElsewhere
    <3>3. CASE ~P!IsMemWrite(cur)
      <4>1. k = 0
        BY <3>1, <3>3
      <4> QED  BY <4>1, <3>1, <2>1, WrittenNone
    <3> QED  BY <3>2, <3>3
  <2> QED  BY <2>3, <2>4 DEF Next
<1> QED  BY <1>1, IInvInvariant, PTL DEF Spec, FlashNeverWritten

\* HaltSilence: after EBREAK only a reset moves anything but the inputs.
THEOREM HaltSilence == Spec => HaltIsSilent
<1> DEFINE Silent ==
      \/ state' = "HALTED" /\ UNCHANGED <<pc, regs, ram, regVars, chips, port>>
      \/ state' = "FETCH" /\ pc' = 0 /\ port' = "idle" /\ UNCHANGED <<regs, ram, chips>>
<1>1. IInv /\ [Next]_vars => [state = "HALTED" => Silent]_vars
  <2> SUFFICES ASSUME IInv, Next, state = "HALTED" PROVE Silent
    OBVIOUS
  <2>1. mem_we = FALSE /\ mem_valid = FALSE
    BY DEF IInv, TypeOK, CoreTypeOK, Control, WriteStrobe, ValidPhases
  <2>2. ~ext_req_valid /\ port = "idle"
    BY <2>1 DEF IInv, Handshake, ext_req_valid
  <2>3. CASE Tick
    <3>1. state' = "HALTED" /\ UNCHANGED <<pc, regs>>
      BY <2>3 DEF Tick, CoreStep, Fetch, FetchWait, DecodeStep, Halt, Exec, MemLoad, MemStore,
         MemNone, MemWait, WriteBack, Halted
    <3>2. UNCHANGED <<ram, regVars>>
      BY <2>1, <2>2, <2>3 DEF Tick, MemStep, MemWrite, Assigned, SpiLatch, ext_ready, P!ready,
         regVars
    <3>3. UNCHANGED <<chips, port>>
      BY <2>2, <2>3 DEF Tick, P!PortStep, P!PortIdle, P!Take, P!Transfer, P!Answer, P!PortPost,
         P!portVars
    <3> QED  BY <3>1, <3>2, <3>3
  <2>4. CASE Reset
    <3>1. PICK k \in 0 .. 4 :
            /\ k <= IF port = "busy" /\ P!IsMemWrite(cur) THEN P!DataBytes(cur) ELSE 0
            /\ chips' = P!Written(chips, cur, k)
      BY <2>4 DEF Reset, P!PortReset
    <3>2. k = 0
      BY <3>1, <2>2
    <3>3. chips' = chips
      BY <3>1, <3>2, WrittenNone DEF IInv, TypeOK
    <3> QED  BY <2>4, <3>3 DEF Reset, CoreReset, MemReset, P!PortReset
  <2> QED  BY <2>3, <2>4 DEF Next
<1> QED  BY <1>1, IInvInvariant, PTL DEF Spec, HaltIsSilent

--------------------------------------------------------------------------------
\* The refinement.  The operators that AgilaIsa takes from the modules Soc is built from
\* mean in it what they mean in Soc, since its variables are those of Soc, pc and phase
\* apart: the address decode, ...
LEMMA SameDecode ==
  /\ \A x : Arch!in_ram(x) <=> in_ram(x)
  /\ \A x : Arch!in_ext_psram(x) <=> in_ext_psram(x)
  /\ \A x, w : Arch!in_spi_write(x, w) <=> in_spi_write(x, w)
  /\ \A x, w : Arch!in_ext(x, w) <=> in_ext(x, w)
  BY DEF Arch!in_ram, in_ram, Arch!in_ram_range, in_ram_range, Arch!in_ext_psram, in_ext_psram,
     Arch!in_spi_write, in_spi_write, Arch!in_ext, in_ext, Arch!in_ext_flash, in_ext_flash,
     Arch!SPI_DATA, SPI_DATA

\* ... the request an access makes, ...
LEMMA SameRequest ==
  \A x, w, d, s : Arch!ExtRequest(x, w, d, s) = ExtRequest(x, w, d, s)
  BY DEF Arch!ExtRequest, ExtRequest, Arch!req_dev, req_dev, Arch!ext_addr, ext_addr,
     Arch!in_ext_flash, in_ext_flash, Arch!in_spi_write, in_spi_write, Arch!SPI_DATA, SPI_DATA,
     Arch!WINDOW_BYTES, WINDOW_BYTES, Arch!Bytes, Bytes, Arch!Flash, Flash, Arch!Spi, Spi,
     Arch!RamA, RamA, Arch!RamB, RamB

\* ... the bytes read on chip, ...
LEMMA SameOnChip ==
  /\ \A x, past : Arch!OnChipBytes(x, past) = OnChipBytes(x, past)
  /\ \A x : Arch!PastWords(x) = PastWords(x)
  BY DEF Arch!OnChipBytes, OnChipBytes, Arch!PastWords, PastWords, Arch!in_rom, in_rom,
     Arch!in_ram, in_ram, Arch!in_ram_range, in_ram_range, Arch!in_ext_flash, in_ext_flash,
     Arch!RomByte, RomByte, Arch!RamByte, RamByte, Arch!RegByte, RegByte,
     Arch!RamIndex, RamIndex, Arch!Bytes, Bytes,
     Arch!GPIO_OUT, GPIO_OUT, Arch!PSRAM_BANK, PSRAM_BANK, Arch!QSPI_CTRL, QSPI_CTRL,
     Arch!FLASH_PAGE, FLASH_PAGE, Arch!SPI_DATA, SPI_DATA, Arch!InputRegs, InputRegs

\* ... the contents of the chips, ...
LEMMA SameChips ==
  /\ \A r, k : Arch!Written(chips, r, k) = P!Written(chips, r, k)
  /\ \A r : Arch!ReadWord(chips, r) = P!ReadWord(chips, r)
  /\ \A r : Arch!DataBytes(r) = P!DataBytes(r)
  BY DEF Arch!Written, P!Written, Arch!ReadWord, P!ReadWord, Arch!DataBytes, P!DataBytes,
     Arch!SizeBytes, P!SizeBytes, Arch!ChipOf, P!ChipOf, Arch!Offset, P!Offset,
     Arch!Flash, P!Flash, Arch!Spi, P!Spi, Arch!RamA, P!RamA, Arch!RamB, P!RamB

\* ... a store to RAM or a register, ...
LEMMA SameWrite ==
  ASSUME NEW w, NEW x, NEW d, NEW s
  PROVE  Arch!MemWrite(w, x, d, s) <=> MemWrite(w, x, d, s)
  BY DEF Arch!MemWrite, MemWrite, Arch!RamWritten, RamWritten, Arch!Assigned, Assigned,
     Arch!in_ram, in_ram, Arch!in_ram_range, in_ram_range, Arch!in_ext_flash, in_ext_flash,
     Arch!GPIO_OUT, GPIO_OUT, Arch!PSRAM_BANK, PSRAM_BANK, Arch!QSPI_CTRL, QSPI_CTRL,
     Arch!FLASH_PAGE, FLASH_PAGE, Arch!FLASH_MODE, FLASH_MODE, Arch!RamIndex, RamIndex, 
     Arch!Bytes, Bytes, Arch!SizeBytes, SizeBytes

\* ... the instruction and its operands, ...
LEMMA SameInstruction ==
  /\ Arch!i = ins /\ Arch!a = rs1_val /\ Arch!b = rs2_val
  /\ Arch!AluOut(ins, rs1_val, rs2_val) = alu_y
  /\ Arch!Target = alu_y % AddrVals
  /\ Arch!WritesRd(ins) <=> WritesRd(ins)
  BY DEF Arch!i, ins, Arch!a, rs1_val, Arch!b, rs2_val, Arch!Val, RegVal, Arch!Target, alu_y,
     Arch!AluOut, AluOut, Arch!WritesRd, WritesRd

\* ... what it computes from them, ...
LEMMA SameValues ==
  /\ \A p : Arch!NextPcOf(ins, p, rs1_val, rs2_val) = NextPcOf(ins, p, rs1_val, rs2_val)
  /\ \A p, y, w : Arch!RdValue(ins, p, y, w) = RdValue(ins, p, y, w)
  BY DEF Arch!NextPcOf, NextPcOf, Arch!Even, Even, Arch!RdValue, RdValue, Arch!WordVals, WordVals,
     Arch!Extended, Extended, Arch!SizeVals, SizeVals

\* ... and the words an address may read.
LEMMA SameWords ==
  ASSUME NEW x, NEW s
  PROVE  Arch!ReadWords(x, s) =
           IF in_ext(x, FALSE) THEN {WordOf(P!ReadWord(chips, ExtRequest(x, FALSE, 0, s)))}
           ELSE {WordOf(OnChipBytes(x, past)) : past \in PastWords(x)}
<1>1. \A t : Arch!WordOf(t) = WordOf(t)
  BY DEF Arch!WordOf, WordOf
<1> QED  BY <1>1, SameDecode, SameRequest, SameOnChip, SameChips DEF Arch!ReadWords

--------------------------------------------------------------------------------
\* The word a read of the current instruction finds in the chips.
FetchWord == P!ReadWord(chips, ExtRequest(mem_addr, FALSE, 0, mem_size))

\* What the port answered is what DECODE and WB read: the port's answer is right in the
\* cycle it is given, and nothing moves it, the chips or the address before it is used.
Answered ==
  /\ (port = "post" /\ ~P!IsMemWrite(cur)) => ext_rdata \in P!Replies(chips, cur)
  /\ ((state = "DECODE" \/ (state = "WB" /\ ins.op = "LOAD")) /\ in_ext(mem_addr, FALSE))
       => ext_rdata = FetchWord

\* A store waits for its answer with mem_we high.
Strobed == (state = "MEM_WAIT" /\ ins.op = "STORE") => mem_we

RInv == IInv /\ Answered /\ Strobed

\* The data of a request does not matter to what it reads, and a read is never a raw SPI
\* transfer.
LEMMA ReadRequest ==
  ASSUME NEW x, in_ext(x, FALSE), NEW d, NEW s
  PROVE  /\ P!ReadWord(chips, ExtRequest(x, FALSE, d, s))
              = P!ReadWord(chips, ExtRequest(x, FALSE, 0, s))
         /\ ExtRequest(x, FALSE, d, s).dev # P!Spi
         /\ ~P!IsMemWrite(ExtRequest(x, FALSE, d, s))
<1>1. in_ext_flash(x) \/ in_ext_psram(x)
  BY DEF in_ext, in_spi_write
<1>2. ExtRequest(x, FALSE, d, s).dev # P!Spi
  BY DEF ExtRequest, req_dev, in_spi_write, P!Spi, Flash, RamA, RamB
<1>3. ~P!IsMemWrite(ExtRequest(x, FALSE, d, s))
  BY DEF ExtRequest, P!IsMemWrite
<1>4. P!ReadWord(chips, ExtRequest(x, FALSE, d, s)) = P!ReadWord(chips, ExtRequest(x, FALSE, 0, s))
  BY DEF ExtRequest, P!ReadWord, P!DataBytes, P!SizeBytes
<1> QED  BY <1>2, <1>3, <1>4

\* While the core reads, no chip changes.
LEMMA ChipsStill ==
  ASSUME Tick, ~P!Answer \/ ~P!IsMemWrite(cur)
  PROVE  chips' = chips
  BY DEF Tick, P!PortStep, P!PortIdle, P!Take, P!Transfer, P!Answer, P!PortPost, P!portVars

\* Without a request on the bus the port is idle and stays so.
LEMMA PortQuiet ==
  ASSUME Handshake, Tick, ~ext_req_valid
  PROVE  port = "idle" /\ UNCHANGED <<port, chips, ext_rdata>>
  BY DEF Handshake, Tick, P!PortStep, P!PortIdle, P!Take, P!Transfer, P!Answer, P!PortPost,
     P!portVars

\* The answer of a fetch or a load is the word at its address.
LEMMA AnswerIsTheWord ==
  ASSUME RInv, ext_req_valid, ext_ready, ~mem_we
  PROVE  ext_rdata = FetchWord
<1>1. in_ext(mem_addr, FALSE) /\ mem_we = FALSE
  BY DEF ext_req_valid, RInv, IInv, TypeOK, CoreTypeOK
<1>2. port = "post" /\ cur = ExtRequest(mem_addr, FALSE, mem_wdata, mem_size)
  BY <1>1 DEF RInv, IInv, Handshake, ext_ready, P!ready, ext_req
<1>3. ext_rdata \in P!Replies(chips, cur)
  BY <1>1, <1>2, ReadRequest DEF RInv, Answered
<1>4. ext_rdata = P!ReadWord(chips, cur)
  BY <1>1, <1>2, <1>3, ReadRequest DEF P!Replies
<1> QED  BY <1>1, <1>2, <1>4, ReadRequest DEF FetchWord

\* Nothing has been answered after power-up or a reset.
LEMMA AnsweredInit == Init => Answered
  BY DEF Init, CoreInit, Answered

LEMMA AnsweredReset == Reset => Answered'
  BY DEF Reset, CoreReset, P!PortReset, Answered

LEMMA AnsweredStutter == Answered /\ UNCHANGED vars => Answered'
  BY DEF Answered, FetchWord, vars, coreVars, busOut, memVars, regVars, portVars, ins, in_ext, 
     in_ext_flash, in_ext_psram, in_spi_write, ExtRequest, req_dev, ext_addr, P!Replies

\* The port's answer is right in the cycle it is given.
LEMMA RepliesStep ==
  ASSUME RInv, Tick, port' = "post", ~P!IsMemWrite(cur')
  PROVE  ext_rdata' \in P!Replies(chips', cur')
<1>1. P!Answer
  BY DEF Tick, P!PortStep, P!PortIdle, P!Take, P!Transfer, P!Answer, P!PortPost,
     P!portVars, RInv, IInv, TypeOK, PortTypeOK
<1>2. cur' = cur /\ chips' = chips
  BY <1>1 DEF P!Answer
<1> QED  BY <1>1, <1>2 DEF P!Answer

\* A step that ends a read leaves its word on mem_rdata.
LEMMA WordStays ==
  ASSUME RInv, Tick, ~mem_we, mem_ready, mem_valid,
         UNCHANGED <<mem_addr, mem_size>>, in_ext(mem_addr, FALSE)'
  PROVE  ext_rdata' = FetchWord'
<1>1. UNCHANGED <<flash_mode, flash_page, psram_bank>>
  BY DEF Tick, MemStep, MemWrite, Assigned
<1>2. in_ext(mem_addr, FALSE)
  BY <1>1 DEF in_ext, in_ext_flash, in_ext_psram, in_spi_write
<1>3. mem_we = FALSE
  BY DEF RInv, IInv, TypeOK, CoreTypeOK
<1>4. ext_req_valid /\ ext_ready
  BY <1>2, <1>3 DEF ext_req_valid, mem_ready
<1>5. ext_rdata = FetchWord
  BY <1>4, AnswerIsTheWord
<1>6. UNCHANGED <<chips, ext_rdata>>
  BY <1>4 DEF ext_ready, Tick, P!PortStep, P!PortIdle, P!Take, P!Transfer, P!Answer, P!PortPost,
     P!ready
<1>7. FetchWord' = FetchWord
  BY <1>1, <1>6 DEF FetchWord, ExtRequest, req_dev, ext_addr, in_ext_flash, in_spi_write
<1> QED  BY <1>5, <1>6, <1>7

\* Answered is preserved by a clock.
LEMMA AnsweredStep == ASSUME RInv, Tick PROVE Answered'
<1>1. (port = "post" /\ ~P!IsMemWrite(cur))' => (ext_rdata \in P!Replies(chips, cur))'
  BY RepliesStep
<1>2. PICK past \in PastWords(mem_addr) : CoreStep(mem_ready, mem_rdata(past))
  BY DEF Tick
<1>3. ASSUME (state = "DECODE")', in_ext(mem_addr, FALSE)' PROVE (ext_rdata = FetchWord)'
  <2>1. FetchWait(mem_ready)
    BY <1>2, <1>3 DEF CoreStep, Fetch, DecodeStep, Halt, Exec, MemLoad, MemStore, MemNone,
       MemWait, WriteBack, Halted
  <2>2. mem_ready /\ UNCHANGED <<mem_addr, mem_size>>
    BY <2>1, <1>3 DEF FetchWait
  <2>3. mem_valid /\ ~mem_we
    BY <2>1 DEF FetchWait, RInv, IInv, Control, WriteStrobe, ValidPhases
  <2> QED  BY <2>2, <2>3, <1>3, WordStays
<1>4. ASSUME (state = "WB" /\ ins.op = "LOAD")', in_ext(mem_addr, FALSE)'
      PROVE  (ext_rdata = FetchWord)'
  <2>1. MemWait(mem_ready)
    BY <1>2, <1>4 DEF CoreStep, Fetch, FetchWait, DecodeStep, Halt, Exec, MemLoad, MemStore,
      MemNone,  WriteBack, Halted
  <2>2. mem_ready /\ UNCHANGED <<mem_addr, mem_size, ir>>
    BY <2>1, <1>4 DEF MemWait
  <2>3. ins.op = "LOAD"
    BY <2>2, <1>4 DEF ins
  <2>4. mem_valid /\ ~mem_we
    BY <2>1, <2>3 DEF MemWait, RInv, IInv, Control, WriteStrobe, ValidPhases
  <2> QED  BY <2>2, <2>4, <1>4, WordStays
<1> QED  BY <1>1, <1>3, <1>4 DEF Answered

\* mem_we stays high until the answer.
LEMMA StrobedStep == RInv /\ [Next]_vars => Strobed'
<1> SUFFICES ASSUME RInv, [Next]_vars, (state = "MEM_WAIT" /\ ins.op = "STORE")'
             PROVE  mem_we'
  BY DEF Strobed
<1>1. CASE Tick
  <2>1. PICK past \in PastWords(mem_addr) : CoreStep(mem_ready, mem_rdata(past))
    BY <1>1 DEF Tick
  <2>2. CASE MemStore
    BY <2>2 DEF MemStore
  <2>3. CASE MemNone \/ MemLoad
    BY <2>3 DEF MemNone, MemLoad, ins
  <2>4. CASE MemWait(mem_ready)
    BY <2>4 DEF MemWait, ins, RInv, Strobed
  <2> QED  BY <2>1, <2>2, <2>3, <2>4 DEF CoreStep, Fetch, FetchWait, DecodeStep, Halt, Exec,
           WriteBack, Halted
<1>2. CASE Reset
  BY <1>2 DEF Reset, CoreReset
<1>3. CASE UNCHANGED vars
  BY <1>3 DEF vars, coreVars, busOut, ins, RInv, Strobed
<1> QED  BY <1>1, <1>2, <1>3 DEF Next

\* The invariant of the refinement.
LEMMA RInvInvariant == Spec => []RInv
<1>1. Init => RInv
  BY IInvInit, AnsweredInit DEF RInv, Strobed, Init, CoreInit
<1>2. RInv /\ [Next]_vars => RInv'
  <2> SUFFICES ASSUME RInv, [Next]_vars PROVE RInv'
    OBVIOUS
  <2>1. Answered'
    BY AnsweredStep, AnsweredReset, AnsweredStutter DEF RInv, Next
  <2> QED  BY <2>1, IInvStep, StrobedStep DEF RInv
<1> QED  BY <1>1, <1>2, PTL DEF Spec

--------------------------------------------------------------------------------
\* The program counter that the program sees.
ArchPc == IF StoreDone THEN next_pc ELSE pc

\* A step that leaves alone all that the program sees but the inputs.
LEMMA IsInputsMove ==
  ASSUME UNCHANGED <<Phase, ArchPc, ir, regs, chips, ram, regVars>>, inputs' \in Inputs
  PROVE  Arch!Next
<1>1. Arch!InputsMove
  BY DEF Arch!InputsMove, Arch!regVars, regVars, ArchPc
<1> QED  BY <1>1 DEF Arch!Next

\* A memory bus that writes nothing.
LEMMA NoStrobe ==
  ASSUME Tick, ~mem_we
  PROVE  UNCHANGED <<ram, regVars>> /\ inputs' \in Inputs
  BY DEF Tick, MemStep, MemWrite, Assigned, SpiLatch, in_spi_write, regVars

\* An external store that has not been answered, or is not the SPI byte, writes nothing
\* on chip.
LEMMA ExternalStore ==
  ASSUME TypeOK, Tick, in_ext(mem_addr, TRUE), ~ext_ready \/ ~in_spi_write(mem_addr, TRUE)
  PROVE  UNCHANGED <<ram, regVars>> /\ inputs' \in Inputs
<1>1. CASE ~mem_we
  BY <1>1, NoStrobe
<1>2. CASE mem_we
  <2>1. ~in_ram(mem_addr)
     /\ \A r \in {GPIO_OUT, PSRAM_BANK, FLASH_MODE, QSPI_CTRL, FLASH_PAGE} : mem_addr # REG_BASE + r
    BY ExternalIsNotOnChip DEF TypeOK, CoreTypeOK
  <2>2. UNCHANGED <<ram, gpio_out, flash_mode, flash_page, psram_bank, qspi_div_sel>>
    BY <2>1 DEF Tick, MemStep, MemWrite, Assigned
  <2>3. spi_last_rx' = spi_last_rx
    BY <1>2 DEF Tick, MemStep, SpiLatch, in_spi_write
  <2>4. inputs' \in Inputs
    BY DEF Tick, MemStep
  <2> QED  BY <2>2, <2>3, <2>4 DEF regVars
<1> QED  BY <1>1, <1>2

\* An idle bus neither writes on chip nor moves the port.
LEMMA IdleBus ==
  ASSUME RInv, Tick, ~mem_valid
  PROVE  /\ UNCHANGED <<ram, regVars, port, chips, ext_rdata>> /\ inputs' \in Inputs
         /\ mem_ready
<1>1. ~mem_we
  BY DEF RInv, IInv, Control, WriteStrobe
<1>2. ~ext_req_valid
  BY DEF ext_req_valid
<1> QED  BY <1>1, <1>2, NoStrobe, PortQuiet DEF RInv, IInv, mem_ready

\* Fetching, executing and starting an access are steps the program does not see.
LEMMA QuietStates ==
  ASSUME RInv, Tick, Fetch \/ Exec \/ MemLoad \/ MemStore \/ MemNone \/ Halted
  PROVE  Arch!Next
<1>1. ~mem_valid
  BY DEF RInv, IInv, Control, ValidPhases, Fetch, Exec, MemLoad, MemStore, MemNone, Halted
<1>2. UNCHANGED <<ram, regVars, port, chips>> /\ inputs' \in Inputs /\ port # "post"
  BY <1>1, IdleBus, PortQuiet DEF ext_req_valid, RInv, IInv
<1>3. UNCHANGED <<pc, ir, regs>>
  BY DEF Fetch, Exec, MemLoad, MemStore, MemNone, Halted, busOut
<1>4. ~StoreDone
  BY DEF StoreDone, Fetch, Exec, MemLoad, MemStore, MemNone, Halted
<1>5. ~StoreDone'
  BY <1>2 DEF StoreDone, Fetch, Exec, MemLoad, MemStore, MemNone, Halted, ext_ready, P!ready
<1>6. Phase' = Phase
  BY <1>4, <1>5 DEF Phase, Fetch, Exec, MemLoad, MemStore, MemNone, Halted
<1>7. ArchPc' = ArchPc
  BY <1>3, <1>4, <1>5 DEF ArchPc
<1> QED  BY <1>2, <1>3, <1>6, <1>7, IsInputsMove

\* A request without mem_we writes no chip.
LEMMA ReadsNeverWrite == ASSUME ~mem_we PROVE ~P!IsMemWrite(ext_req)
<1>1. ~ext_req.we
  BY DEF ext_req, ExtRequest
<1> QED  BY <1>1 DEF P!IsMemWrite

\* Nor is waiting for a fetch.
LEMMA FetchWaits ==
  ASSUME RInv, Tick, FetchWait(mem_ready)
  PROVE  Arch!Next
<1>1. ~mem_we /\ mem_we = FALSE
  BY DEF RInv, IInv, TypeOK, CoreTypeOK, Control, WriteStrobe, FetchWait
<1>2. P!Answer => ~P!IsMemWrite(cur)
  BY <1>1, ReadsNeverWrite DEF P!Answer, RInv, IInv, Handshake
<1>3. chips' = chips
  BY <1>2, ChipsStill
<1>4. ~StoreDone /\ ~StoreDone'
  BY DEF StoreDone, FetchWait
<1>5. Phase' = Phase
  BY <1>4 DEF Phase, FetchWait
<1>6. ArchPc' = ArchPc /\ UNCHANGED <<ir, regs>>
  BY <1>4 DEF ArchPc, FetchWait
<1> QED  BY <1>1, <1>3, <1>5, <1>6, NoStrobe, IsInputsMove

\* What a load or a fetch reads is a word its address may read.
LEMMA ReadsAWord ==
  ASSUME RInv, ~mem_we, NEW past \in PastWords(mem_addr),
         state = "DECODE" \/ (state = "WB" /\ ins.op = "LOAD")
  PROVE  mem_rdata(past) \in Arch!ReadWords(mem_addr, mem_size)
<1>1. mem_we = FALSE
  BY DEF RInv, IInv, TypeOK, CoreTypeOK
<1>2. CASE in_ext(mem_addr, FALSE)
  <2>1. mem_rdata(past) = WordOf(FetchWord)
    BY <1>1, <1>2 DEF mem_rdata, RInv, Answered
  <2> QED  BY <2>1, <1>2, SameWords DEF FetchWord
<1>3. CASE ~in_ext(mem_addr, FALSE)
  <2>1. mem_rdata(past) = WordOf(OnChipBytes(mem_addr, past))
    BY <1>1, <1>3 DEF mem_rdata
  <2> QED  BY <2>1, <1>3, SameWords
<1> QED  BY <1>2, <1>3

\* DECODE is where the program sees its instruction fetched.
LEMMA Decodes ==
  ASSUME RInv, Tick, NEW past \in PastWords(mem_addr), DecodeStep(mem_rdata(past))
  PROVE  Arch!Next
<1>1. ~mem_valid /\ ~mem_we /\ mem_addr = pc /\ mem_size = 2
  BY DEF RInv, IInv, Control, WriteStrobe, ValidPhases, AddressHeld, DecodeStep
<1>2. UNCHANGED <<ram, regVars, chips>> /\ inputs' \in Inputs
  BY <1>1, IdleBus
<1>3. ~StoreDone /\ ~StoreDone'
  BY DEF StoreDone, DecodeStep
<1>4. Phase = "fetch" /\ Phase' = "execute"
  BY <1>3 DEF Phase, DecodeStep
<1>5. ArchPc = pc /\ ArchPc' = pc /\ regs' = regs
  BY <1>3 DEF ArchPc, DecodeStep
<1>6. ir' \in Arch!ReadWords(pc, 2)
  BY <1>1, ReadsAWord DEF DecodeStep
<1>7. Arch!FetchInstruction
  BY <1>2, <1>3, <1>4, <1>5, <1>6 DEF Arch!FetchInstruction, Arch!regVars, regVars, ArchPc
<1> QED  BY <1>7 DEF Arch!Next

\* EXEC is where EBREAK is seen.
LEMMA Halts == ASSUME RInv, Tick, Halt PROVE Arch!Next
<1>1. ~mem_valid
  BY DEF RInv, IInv, Control, ValidPhases, Halt
<1>2. UNCHANGED <<ram, regVars, chips>> /\ inputs' \in Inputs
  BY <1>1, IdleBus
<1>3. ~StoreDone /\ ~StoreDone'
  BY DEF StoreDone, Halt
<1>4. Phase = "execute" /\ Phase' = "halted"
  BY <1>3 DEF Phase, Halt
<1>5. Arch!i.op = "EBREAK" /\ UNCHANGED <<pc, ir, regs>>
  BY SameInstruction DEF Halt
<1>6. Arch!Ebreak
  BY <1>2, <1>3, <1>4, <1>5 DEF Arch!Ebreak, Arch!regVars, regVars
<1> QED  BY <1>6 DEF Arch!Next

\* WB completes every instruction but a store, whose effect has been seen already.
LEMMA WritesBack ==
  ASSUME RInv, Tick, NEW past \in PastWords(mem_addr), WriteBack(mem_rdata(past))
  PROVE  Arch!Next
<1>1. ~mem_valid /\ ~mem_we /\ next_pc = NextPc /\ alu_result = alu_y /\ ins.op # "EBREAK"
  BY DEF RInv, IInv, Control, WriteStrobe, ValidPhases, ResultFixed, WriteBack
<1>2. UNCHANGED <<ram, regVars, chips>> /\ inputs' \in Inputs
  BY <1>1, IdleBus
<1>3. ~StoreDone' /\ state' = "FETCH" /\ pc' = next_pc /\ ir' = ir
  BY DEF StoreDone, WriteBack
<1>4. Phase' = "fetch" /\ ArchPc' = next_pc
  BY <1>3 DEF Phase, ArchPc
<1>5. CASE ins.op = "STORE"
  <2>1. StoreDone /\ Phase = "fetch" /\ ArchPc = next_pc
    BY <1>5 DEF StoreDone, WriteBack, Phase, ArchPc
  <2>2. regs' = regs
    BY <1>5 DEF WriteBack, WritesRd
  <2> QED  BY <1>2, <1>3, <1>4, <2>1, <2>2, IsInputsMove
<1>6. CASE ins.op # "STORE"
  <2>1. ~StoreDone /\ Phase = "execute"
    BY <1>6 DEF StoreDone, Phase, WriteBack
  <2>2. next_pc = Arch!NextPcOf(ins, pc, rs1_val, rs2_val)
    BY <1>1, SameValues DEF NextPc
  <2>3. \A w : Arch!RdValue(ins, pc, alu_y, w) = RdValue(ins, pc, alu_y, w)
    BY SameValues
  <2>4. ASSUME NEW w, ins.op = "LOAD" => w = mem_rdata(past)
        PROVE  Arch!Advance(w)
    <3>1. RdValue(ins, pc, alu_y, w) = RdValue(ins, pc, alu_y, mem_rdata(past))
      BY <2>4 DEF RdValue
    <3>2. regs' = IF Arch!WritesRd(ins)
                    THEN [regs EXCEPT ![ins.rd] = Arch!RdValue(ins, pc, alu_y, w)] ELSE regs
      BY <1>1, <2>3, <3>1, SameInstruction DEF WriteBack
    <3> QED  BY <1>2, <1>3, <1>4, <2>1, <2>2, <3>2, SameInstruction DEF Arch!Advance, ArchPc
  <2>5. UNCHANGED <<chips, ram, Arch!regVars>>
    BY <1>2 DEF Arch!regVars, regVars
  <2>6. CASE ins.op = "LOAD"
    <3>1. mem_addr = alu_y % AddrVals /\ mem_size = ins.size
      BY <2>6 DEF RInv, IInv, Control, AddressHeld, WriteBack
    <3>2. mem_rdata(past) \in Arch!ReadWords(Arch!Target, Arch!i.size)
      BY <3>1, <2>6, <1>1, ReadsAWord, SameInstruction DEF WriteBack
    <3>3. Arch!Advance(mem_rdata(past))
      BY <2>4
    <3>4. Arch!Load
      BY <2>5, <2>6, <3>2, <3>3, SameInstruction DEF Arch!Load
    <3> QED  BY <3>4 DEF Arch!Next
  <2>7. CASE ins.op # "LOAD"
    <3>1. Arch!Advance(0)
      BY <2>4, <2>7
    <3>2. Arch!Compute
      BY <1>1, <1>6, <2>5, <2>7, <3>1, SameInstruction DEF Arch!Compute
    <3> QED  BY <3>2 DEF Arch!Next
  <2> QED  BY <2>6, <2>7
<1> QED  BY <1>5, <1>6

--------------------------------------------------------------------------------
\* MEM_WAIT.

\* Waiting for anything but a store is not seen.
LEMMA LoadWaits ==
  ASSUME RInv, Tick, MemWait(mem_ready), ins.op # "STORE"
  PROVE  Arch!Next
<1>1. ~mem_we
  BY DEF RInv, IInv, Control, WriteStrobe
<1>2. P!Answer => ~P!IsMemWrite(cur)
  BY <1>1, ReadsNeverWrite DEF P!Answer, RInv, IInv, Handshake
<1>3. chips' = chips
  BY <1>2, ChipsStill
<1>4. UNCHANGED <<pc, ir, regs>> /\ ins' = ins
  BY DEF MemWait, ins
<1>5. ~StoreDone /\ ~StoreDone'
  BY <1>4 DEF StoreDone
<1>6. Phase' = Phase
  BY <1>5 DEF Phase, MemWait
<1>7. ArchPc' = ArchPc
  BY <1>4, <1>5 DEF ArchPc
<1> QED  BY <1>1, <1>3, <1>4, <1>6, <1>7, NoStrobe, IsInputsMove

\* The store on the bus is the one of the instruction.
LEMMA StoreOnTheBus ==
  ASSUME RInv, state = "MEM_WAIT", ins.op = "STORE"
  PROVE  /\ mem_valid /\ next_pc = NextPc /\ mem_we = TRUE
         /\ mem_addr = Arch!Target /\ mem_wdata = Arch!b /\ mem_size = Arch!i.size
<1>1. mem_valid /\ next_pc = NextPc /\ mem_we
  BY DEF RInv, IInv, Control, ValidPhases, ResultFixed, Strobed
<1>2. mem_addr = alu_y % AddrVals /\ mem_wdata = rs2_val /\ mem_size = ins.size
  BY <1>1 DEF RInv, IInv, Control, WriteStrobe
<1> QED  BY <1>1, <1>2, SameInstruction DEF RInv, IInv, TypeOK, CoreTypeOK

\* The effect of a store, in the variables of the chip.
LEMMA IsStore ==
  ASSUME RInv, state = "MEM_WAIT", ins.op = "STORE", ~StoreDone, StoreDone',
         UNCHANGED <<next_pc, ir, regs>>, state' \in {"MEM_WAIT", "WB"}, inputs' \in Inputs,
         MemWrite(mem_we, mem_addr, mem_wdata, mem_size),
         spi_last_rx' \in IF in_spi_write(mem_addr, TRUE) THEN SpiReply ELSE {spi_last_rx},
         chips' = IF in_ext_psram(mem_addr)
                    THEN P!Written(chips, ext_req, P!DataBytes(ext_req)) ELSE chips
  PROVE  Arch!Next
<1>1. /\ next_pc = NextPc /\ mem_we = TRUE
      /\ mem_addr = Arch!Target /\ mem_wdata = Arch!b /\ mem_size = Arch!i.size
  BY StoreOnTheBus
<1>2. Phase = "execute" /\ Phase' = "fetch"
  BY DEF Phase
<1>3. ArchPc = pc /\ ArchPc' = next_pc
  BY DEF ArchPc
<1>4. Arch!i.op = "STORE"
  BY SameInstruction
<1>5. Arch!Advance(0)
  <2>1. next_pc = Arch!NextPcOf(Arch!i, pc, Arch!a, Arch!b)
    BY <1>1, SameValues, SameInstruction DEF NextPc
  <2>2. ~Arch!WritesRd(Arch!i)
    BY <1>4 DEF Arch!WritesRd
  <2> QED  BY <1>2, <1>3, <2>1, <2>2 DEF Arch!Advance, ArchPc
<1>6. Arch!MemWrite(TRUE, Arch!Target, Arch!b, Arch!i.size)
  BY <1>1, SameWrite
<1>7. spi_last_rx' \in IF Arch!in_spi_write(Arch!Target, TRUE) THEN SpiReply ELSE {spi_last_rx}
  BY <1>1, SameDecode
<1>8. chips' = IF Arch!IsPsramStore
                THEN Arch!Written(chips, Arch!StoreReq, Arch!DataBytes(Arch!StoreReq))
               ELSE chips
  <2>1. Arch!StoreReq = ext_req
    BY <1>1, SameRequest DEF Arch!StoreReq, ext_req
  <2>2. Arch!IsPsramStore <=> in_ext_psram(mem_addr)
    BY <1>1, <1>2, <1>4, SameDecode DEF Arch!IsPsramStore
  <2> QED  BY <2>1, <2>2, SameChips
<1>9. Arch!Store
  BY <1>4, <1>5, <1>6, <1>7, <1>8 DEF Arch!Store
<1> QED  BY <1>9 DEF Arch!Next

\* The regions of a store are apart.
LEMMA StoreRegions ==
  ASSUME RInv
  PROVE  /\ in_ext_psram(mem_addr) => ~in_spi_write(mem_addr, TRUE) /\ ~in_ext_flash(mem_addr)
         /\ in_spi_write(mem_addr, TRUE) => ~in_ext_flash(mem_addr)
  BY Map DEF RInv, IInv, TypeOK, CoreTypeOK, Addr, in_ext_psram, in_spi_write, in_ext_flash,
     SPI_DATA

\* Of the stores only one to the PSRAM window writes a chip.
LEMMA OnlyPsramWrites ==
  ASSUME RInv, mem_we = TRUE, ext_req_valid
  PROVE  P!IsMemWrite(ext_req) <=> in_ext_psram(mem_addr)
<1>1. in_ext_flash(mem_addr) \/ in_ext_psram(mem_addr) \/ in_spi_write(mem_addr, TRUE)
  BY DEF ext_req_valid, in_ext
<1>2. CASE in_ext_flash(mem_addr)
  <2>1. ~ext_req.we
    BY <1>2 DEF ext_req, ExtRequest
  <2> QED  BY <1>2, <2>1, StoreRegions DEF P!IsMemWrite
<1>3. CASE in_spi_write(mem_addr, TRUE)
  <2>1. ext_req.dev = P!Spi
    BY <1>3, StoreRegions DEF ext_req, ExtRequest, req_dev, P!Spi, Spi
  <2> QED  BY <1>3, <2>1, StoreRegions DEF P!IsMemWrite
<1>4. CASE in_ext_psram(mem_addr)
  <2>1. ~in_ext_flash(mem_addr) /\ ~in_spi_write(mem_addr, TRUE)
    BY <1>4, StoreRegions
  <2>2. ext_req.dev # P!Spi
    BY <2>1 DEF ext_req, ExtRequest, req_dev, P!Spi, RamA, RamB
  <2>3. ext_req.we
    BY <2>1 DEF ext_req, ExtRequest
  <2> QED  BY <1>4, <2>2, <2>3 DEF P!IsMemWrite
<1> QED  BY <1>1, <1>2, <1>3, <1>4

\* Waiting that neither completes a store nor writes a chip is not seen.
LEMMA StoreStutters ==
  ASSUME UNCHANGED <<ram, regVars, chips, pc, next_pc, ir, regs>>, inputs' \in Inputs,
         state = "MEM_WAIT", state' \in {"MEM_WAIT", "WB"}, StoreDone' <=> StoreDone
  PROVE  Arch!Next
<1>1. Phase' = Phase
  BY DEF Phase
<1>2. ArchPc' = ArchPc
  BY DEF ArchPc
<1> QED  BY <1>1, <1>2, IsInputsMove

\* A store takes effect when a PSRAM store is answered and when any other leaves MEM_WAIT.
LEMMA StoreWaits ==
  ASSUME RInv, Tick, MemWait(mem_ready), ins.op = "STORE"
  PROVE  Arch!Next
<1>1. state = "MEM_WAIT" /\ mem_we = TRUE /\ mem_valid
  BY StoreOnTheBus DEF MemWait
<1>2. UNCHANGED <<pc, next_pc, ir, regs, mem_addr>> /\ ins' = ins
  BY DEF MemWait, ins
<1>3. MemWrite(mem_we, mem_addr, mem_wdata, mem_size) /\ inputs' \in Inputs
  BY DEF Tick, MemStep
<1>4. state' = IF mem_ready THEN "WB" ELSE "MEM_WAIT"
  BY <1>1 DEF MemWait
<1>5. in_ext_psram(mem_addr)' <=> in_ext_psram(mem_addr)
  BY <1>2 DEF in_ext_psram
<1>6. ext_req_valid <=> in_ext(mem_addr, TRUE)
  BY <1>1 DEF ext_req_valid
<1>7. mem_ready <=> (~ext_req_valid \/ ext_ready)
  BY DEF mem_ready, ext_ready, P!ready
<1>8. StoreDone <=> in_ext_psram(mem_addr) /\ ext_ready
  BY <1>1 DEF StoreDone
<1>9. StoreDone' <=> mem_ready \/ (in_ext_psram(mem_addr) /\ ext_ready')
  BY <1>2, <1>4, <1>5 DEF StoreDone
<1>10. in_ext_psram(mem_addr) => ext_req_valid
  BY <1>6 DEF in_ext
<1>11. ext_ready => port = "post" /\ ~P!Answer
  BY DEF ext_ready, P!ready, P!Answer
<1>12. port # "idle" => cur = ext_req /\ ext_req_valid
  BY DEF RInv, IInv, Handshake
<1>13. CASE StoreDone
  <2>1. chips' = chips
    BY <1>8, <1>11, <1>13, ChipsStill
  <2>2. StoreDone'
    BY <1>7, <1>8, <1>9, <1>13
  <2>3. UNCHANGED <<ram, regVars>>
    BY <1>6, <1>8, <1>10, <1>13, StoreRegions, ExternalStore DEF RInv, IInv
  <2> QED  BY <1>1, <1>2, <1>3, <1>4, <1>13, <2>1, <2>2, <2>3, StoreStutters
<1>14. CASE ~StoreDone /\ mem_ready
  <2>1. ~in_ext_psram(mem_addr)
    BY <1>7, <1>8, <1>10, <1>14
  <2>2. ~P!Answer
    BY <1>7, <1>11, <1>12, <1>14 DEF P!Answer
  <2>3. chips' = chips
    BY <2>2, ChipsStill
  <2>4. spi_last_rx' \in IF in_spi_write(mem_addr, TRUE) THEN SpiReply ELSE {spi_last_rx}
    <3>1. SpiLatch(ext_ready, mem_addr, TRUE, ext_rdata)
      BY <1>1 DEF Tick, MemStep
    <3>2. CASE in_spi_write(mem_addr, TRUE)
      <4>1. ext_req_valid /\ ext_ready
        BY <3>2, <1>6, <1>7, <1>14 DEF in_ext
      <4>2. cur = ext_req /\ port = "post"
        BY <4>1, <1>11, <1>12
      <4>3. cur.dev = P!Spi
        BY <3>2, <1>1, <4>2, StoreRegions DEF ext_req, ExtRequest, req_dev, P!Spi, Spi
      <4>4. ext_rdata \in P!Replies(chips, cur)
        BY <4>2, <4>3 DEF RInv, Answered, P!IsMemWrite
      <4>5. ext_rdata[1] \in SpiReply
        BY <4>3, <4>4 DEF P!Replies
      <4> QED  BY <3>1, <3>2, <4>1, <4>5 DEF SpiLatch
    <3>3. CASE ~in_spi_write(mem_addr, TRUE)
      BY <3>1, <3>3 DEF SpiLatch
    <3> QED  BY <3>2, <3>3
  <2> QED  BY <1>1, <1>2, <1>3, <1>4, <1>9, <1>14, <2>1, <2>3, <2>4, IsStore
<1>15. CASE ~StoreDone /\ ~mem_ready
  <2>1. ext_req_valid /\ ~ext_ready
    BY <1>7, <1>15
  <2>2. UNCHANGED <<ram, regVars>>
    BY <2>1, <1>6, ExternalStore DEF RInv, IInv
  <2>3. P!IsMemWrite(ext_req) <=> in_ext_psram(mem_addr)
    BY <1>1, <2>1, OnlyPsramWrites
  <2>4. CASE P!Answer /\ in_ext_psram(mem_addr)
    <3>1. cur = ext_req
      BY <2>4, <1>12 DEF P!Answer
    <3>2. ext_ready'
      BY <2>4 DEF P!Answer, ext_ready, P!ready
    <3>3. chips' = P!Written(chips, ext_req, P!DataBytes(ext_req))
      BY <2>3, <2>4, <3>1 DEF P!Answer
    <3>4. spi_last_rx' = spi_last_rx
      BY <2>2 DEF regVars
    <3> QED  BY <1>1, <1>2, <1>3, <1>4, <1>9, <1>15, <2>4, <3>2, <3>3, <3>4, StoreRegions, IsStore
  <2>5. CASE ~P!Answer \/ ~in_ext_psram(mem_addr)
    <3>1. chips' = chips
      <4>1. P!Answer => ~P!IsMemWrite(cur)
        BY <2>3, <2>5, <1>12 DEF P!Answer
      <4> QED  BY <4>1, ChipsStill
    <3>2. ext_ready' => P!Answer
      BY <2>1 DEF Tick, P!PortStep, P!PortIdle, P!Take, P!Transfer, P!Answer, P!PortPost,
         P!portVars, ext_ready, P!ready
    <3>3. ~StoreDone'
      BY <1>9, <1>15, <2>5, <3>2
    <3> QED  BY <1>1, <1>2, <1>3, <1>4, <1>15, <2>2, <3>1, <3>3, StoreStutters
  <2> QED  BY <2>4, <2>5
<1> QED  BY <1>13, <1>14, <1>15

\* Every clock is a step of AgilaIsa.
LEMMA TickMaps == ASSUME RInv, Tick PROVE Arch!Next
<1>1. PICK past \in PastWords(mem_addr) : CoreStep(mem_ready, mem_rdata(past))
  BY DEF Tick
<1>2. CASE Fetch \/ Exec \/ MemLoad \/ MemStore \/ MemNone \/ Halted
  BY <1>2, QuietStates
<1>3. CASE FetchWait(mem_ready)
  BY <1>3, FetchWaits
<1>4. CASE DecodeStep(mem_rdata(past))
  BY <1>4, Decodes
<1>5. CASE Halt
  BY <1>5, Halts
<1>6. CASE MemWait(mem_ready)
  BY <1>6, LoadWaits, StoreWaits
<1>7. CASE WriteBack(mem_rdata(past))
  BY <1>7, WritesBack
<1> QED  BY <1>1, <1>2, <1>3, <1>4, <1>5, <1>6, <1>7 DEF CoreStep

\* A reset leaves of an unfinished PSRAM store its first bytes.
LEMMA ResetMaps == ASSUME RInv, Reset PROVE Arch!Next
<1>1. ~StoreDone' /\ state' = "FETCH" /\ pc' = 0 /\ ir' = 0 /\ regs' = regs
  BY DEF Reset, CoreReset, StoreDone
<1>2. Phase' = "fetch" /\ ArchPc' = 0
  BY <1>1 DEF Phase, ArchPc
<1>3. Arch!MemReset
  BY DEF Reset, MemReset, Arch!MemReset
<1>4. PICK k \in 0 .. 4 :
        /\ k <= IF port = "busy" /\ P!IsMemWrite(cur) THEN P!DataBytes(cur) ELSE 0
        /\ chips' = P!Written(chips, cur, k)
  BY DEF Reset, P!PortReset
<1>5. \E n \in 0 .. 4 :
        /\ n <= IF Arch!IsPsramStore THEN Arch!DataBytes(Arch!StoreReq) ELSE 0
        /\ chips' = IF n = 0 THEN chips ELSE Arch!Written(chips, Arch!StoreReq, n)
  <2>1. CASE k = 0
    <3>1. chips' = chips
      BY <1>4, <2>1, WrittenNone DEF RInv, IInv, TypeOK
    <3>2. Arch!DataBytes(Arch!StoreReq) >= 0
      BY DEF Arch!DataBytes, Arch!SizeBytes
    <3> QED  BY <3>1, <3>2
  <2>2. CASE k # 0
    <3>1. port = "busy" /\ P!IsMemWrite(cur) /\ k <= P!DataBytes(cur)
      BY <1>4, <2>2
    <3>2. cur = ext_req /\ ext_req_valid
      BY <3>1 DEF RInv, IInv, Handshake
    <3>3. mem_we
      BY <3>1, <3>2, ReadsNeverWrite
    <3>4. state = "MEM_WAIT" /\ ins.op = "STORE"
      BY <3>3 DEF RInv, IInv, Control, WriteStrobe
    <3>5. /\ mem_we = TRUE /\ mem_addr = Arch!Target /\ mem_wdata = Arch!b
          /\ mem_size = Arch!i.size
      BY <3>4, StoreOnTheBus
    <3>6. in_ext_psram(mem_addr)
      BY <3>1, <3>2, <3>5, OnlyPsramWrites
    <3>7. ~StoreDone
      BY <3>1, <3>4 DEF StoreDone, ext_ready, P!ready
    <3>8. Arch!IsPsramStore
      BY <3>4, <3>5, <3>6, <3>7, SameDecode, SameInstruction DEF Arch!IsPsramStore, Phase
    <3>9. Arch!StoreReq = cur
      BY <3>2, <3>5, SameRequest DEF Arch!StoreReq, ext_req
    <3> QED  BY <1>4, <2>2, <3>1, <3>8, <3>9, SameChips
  <2> QED  BY <2>1, <2>2
<1>6. Arch!Reset
  BY <1>1, <1>2, <1>3, <1>5 DEF Arch!Reset, ArchPc
<1> QED  BY <1>6 DEF Arch!Next

\* Power-up is a start of AgilaIsa.
LEMMA InitMaps == Init => Arch!Init
<1> SUFFICES ASSUME Init PROVE Arch!Init
  OBVIOUS
<1>1. TypeOK
  BY SocTypeInit
<1>2. state = "FETCH" /\ ~StoreDone /\ Phase = "fetch" /\ pc = 0 /\ ir = 0
  BY DEF Init, CoreInit, StoreDone, Phase
<1>3. Arch!MemInit
  BY DEF Init, MemInit, Arch!MemInit
<1>4. /\ regs \in [Arch!Reg \ {0} -> Arch!Word]
      /\ ram \in [Arch!RamIndex -> Arch!Byte]
      /\ chips \in [Arch!Chip -> [0 .. MemSize - 1 -> Arch!Byte]]
  BY <1>1 DEF TypeOK, CoreTypeOK, MemTypeOK, PortTypeOK, Reg, Arch!Reg, Word, Arch!Word,
     WordVals, Arch!WordVals, RamIndex, Arch!RamIndex, Byte, Arch!Byte, Chip, Arch!Chip
<1> QED  BY <1>2, <1>3, <1>4 DEF Arch!Init

\* IsaImplemented: the chip implements AgilaIsa.  Whatever the program, the contents of the
\* memories, the address map and the time transfers take, every clock of core, memory map
\* and port is one instruction fetched, computed, loaded or stored as AgilaIsa says, a reset
\* as it allows, or nothing that a program can see.
THEOREM IsaImplemented == Spec => ExecutesTheIsa
<1>1. RInv /\ [Next]_vars => [Arch!Next]_(Arch!vars)
  <2> SUFFICES ASSUME RInv, [Next]_vars PROVE [Arch!Next]_(Arch!vars)
    OBVIOUS
  <2>1. CASE Tick
    BY <2>1, TickMaps
  <2>2. CASE Reset
    BY <2>2, ResetMaps
  <2>3. CASE UNCHANGED vars
    <3>1. UNCHANGED <<StoreDone, Phase>>
      BY <2>3 DEF vars, coreVars, busOut, memVars, regVars, portVars, StoreDone, Phase, ins,
         in_ext_psram, ext_ready, P!ready
    <3>2. UNCHANGED <<pc, next_pc, ir, regs, chips, ram, regVars, inputs>>
      BY <2>3 DEF vars, coreVars, memVars, regVars, portVars
    <3> QED  BY <3>1, <3>2 DEF Arch!vars, Arch!memVars, Arch!regVars, regVars
  <2> QED  BY <2>1, <2>2, <2>3 DEF Next
<1> QED  BY <1>1, InitMaps, RInvInvariant, PTL DEF Spec, ExecutesTheIsa, Arch!Spec

=====================================================================================
