------------------------------- MODULE QspiEngine -------------------------------
(***************************************************************************)
(* qspi_shared_engine.v: the shift engine that turns one request into one  *)
(* SPI transaction (chip select, command, address, data, deselect) on a    *)
(* single set of pins.  One step of EngineStep is one rising edge of clk;  *)
(* primed variables are the non-blocking assignments of that edge.         *)
(***************************************************************************)
EXTENDS QspiBus, Sequences

CONSTANTS
  ByteBits,    \* bits per byte (8 in the code)
  AddrBytes,   \* address bytes in a frame (3 in the code)
  HalfPeriod   \* clk cycles per SCK half period for each value of req_div_sel

ASSUME EngineAssumption ==
  /\ ByteBits \in Nat /\ ByteBits >= 2
  /\ AddrBytes \in Nat \ {0}
  /\ HalfPeriod \in [DivSel -> Nat \ {0}]

VARIABLES
  st,             \* ST_IDLE, ST_SHIFT_LO, ST_SHIFT_HI, ST_DONE, ST_POST
  cs,             \* pin_cs0..pin_cs2, active low
  sck, mosi,      \* pin_sck, pin_mosi
  req_ready,      \* one-cycle answer pulse
  req_rdata,      \* the word read, four bytes, lowest address first
  sreg,           \* the 64-bit shift register, most significant bit first
  data_bits, nbits_total, bits_done,
  half_period_r, div_cnt

engineVars == <<st, cs, sck, mosi, req_ready, req_rdata, sreg, data_bits,
                nbits_total, bits_done, half_period_r, div_cnt>>

Bit      == {0, 1}
Byte     == [1 .. ByteBits -> Bit]
ZeroByte == [i \in 1 .. ByteBits |-> 0]
AllHigh  == [c \in Chip |-> 1]

--------------------------------------------------------------------------------
\* build_preload: command, address, then the data bytes in address order,
\* left-justified; the data field of a read is zero.  The raw SPI byte has no
\* command or address in front of it.
Bits(n, width) == [i \in 1 .. width |-> (n \div 2^(width - i)) % 2]

\* Faulty variant: the bytes go out last one first.
DataField_BigEndian(r) ==
  LET Field(i) == IF r.we /\ i <= SizeBytes(r.size)
                    THEN r.wdata[SizeBytes(r.size) + 1 - i] ELSE ZeroByte
  IN  Field(1) \o Field(2) \o Field(3) \o Field(4)

DataField(r) ==
  LET Field(i) == IF r.we /\ i <= SizeBytes(r.size) THEN r.wdata[i] ELSE ZeroByte
  IN  Field(1) \o Field(2) \o Field(3) \o Field(4)

CmdRead  == 3
CmdWrite == 2

build_preload(r) ==
  Bits(IF r.we THEN CmdWrite ELSE CmdRead, ByteBits)
    \o Bits(r.addr, AddrBytes * ByteBits) \o DataField(r)

SregBits == (AddrBytes + 5) * ByteBits

\* Faulty variant: the register is loaded with the raw byte alone.
Preload_Short(r) == IF r.dev = Spi THEN r.wdata[1] ELSE build_preload(r)

Preload(r) ==
  IF r.dev = Spi
    THEN r.wdata[1] \o [i \in 1 .. SregBits - ByteBits |-> 0]
    ELSE build_preload(r)

\* Faulty variant: a raw SPI byte is framed like a memory access.
FrameBits_AlwaysFramed(r) == (1 + AddrBytes + DataBytes(r)) * ByteBits

FrameBits(r) ==
  IF r.dev = Spi THEN ByteBits ELSE (1 + AddrBytes + DataBytes(r)) * ByteBits

\* The low data_bits of the shift register, first byte transferred first,
\* re-ordered so that byte 1 is the one at the lowest address.
\* Faulty variant: the bytes stay in the order they were clocked in.
CapturedWord_NotReversed(bits, width) ==
  [i \in 1 .. 4 |->
     IF i * ByteBits <= width
       THEN [j \in 1 .. ByteBits |-> bits[Len(bits) - i * ByteBits + j]]
       ELSE ZeroByte]

CapturedWord(bits, width) ==
  LET start == Len(bits) - width
  IN  [i \in 1 .. 4 |->
         IF i * ByteBits <= width
           THEN [j \in 1 .. ByteBits |-> bits[start + (i - 1) * ByteBits + j]]
           ELSE ZeroByte]

--------------------------------------------------------------------------------
EngineReset ==
  /\ st' = "IDLE" /\ cs' = AllHigh /\ sck' = 0 /\ mosi' = 1
  /\ req_ready' = FALSE
  /\ req_rdata' = [i \in 1 .. 4 |-> ZeroByte]
  /\ sreg' = [i \in 1 .. SregBits |-> 0]
  /\ half_period_r' = 1 /\ div_cnt' = 0
  /\ UNCHANGED <<data_bits, nbits_total, bits_done>>

Idle(valid) ==
  /\ st = "IDLE" /\ ~valid
  /\ sck' = 0 /\ req_ready' = FALSE
  /\ UNCHANGED <<st, cs, mosi, req_rdata, sreg, data_bits, nbits_total,
                 bits_done, half_period_r, div_cnt>>

\* Everything the transaction depends on is latched here, the divider included.
Accept(valid, r, sel) ==
  /\ st = "IDLE" /\ valid
  /\ st' = "SHIFT_LO"
  /\ cs' = [c \in Chip |-> IF c = ChipOf(r.dev) THEN 0 ELSE 1]
  /\ sck' = 0 /\ req_ready' = FALSE
  /\ data_bits' = DataBytes(r) * ByteBits
  /\ nbits_total' = FrameBits(r)
  /\ bits_done' = 0
  /\ sreg' = Preload(r)
  /\ half_period_r' = HalfPeriod[sel]
  /\ div_cnt' = 0
  /\ UNCHANGED <<mosi, req_rdata>>

\* Faulty variant: a half period one cycle too long.
LastOfPhase_OneLate == div_cnt = half_period_r

LastOfPhase == div_cnt = half_period_r - 1

ShiftLo ==
  /\ st = "SHIFT_LO"
  /\ sck' = 0 /\ req_ready' = FALSE
  /\ mosi' = IF div_cnt = 0 THEN sreg[1] ELSE mosi
  /\ div_cnt' = IF LastOfPhase THEN 0 ELSE div_cnt + 1
  /\ st' = IF LastOfPhase THEN "SHIFT_HI" ELSE st
  /\ UNCHANGED <<cs, req_rdata, sreg, data_bits, nbits_total, bits_done,
                 half_period_r>>

ShiftHiHold ==
  /\ st = "SHIFT_HI" /\ ~LastOfPhase
  /\ sck' = 1 /\ req_ready' = FALSE
  /\ div_cnt' = div_cnt + 1
  /\ UNCHANGED <<st, cs, mosi, req_rdata, sreg, data_bits, nbits_total,
                 bits_done, half_period_r>>

\* Faulty variant: the next bit is put on MOSI here, on the edge that raises SCK
\* when the half period is one cycle.
ShiftHiSample_MosiHere(miso_pin) ==
  /\ st = "SHIFT_HI" /\ LastOfPhase
  /\ sck' = 1 /\ req_ready' = FALSE
  /\ sreg' = Append(Tail(sreg), miso_pin)
  /\ mosi' = sreg[2]
  /\ div_cnt' = 0
  /\ IF bits_done + 1 = nbits_total
       THEN st' = "DONE" /\ UNCHANGED bits_done
       ELSE st' = "SHIFT_LO" /\ bits_done' = bits_done + 1
  /\ UNCHANGED <<cs, req_rdata, data_bits, nbits_total, half_period_r>>

\* Faulty variant: the bit sampled is the one the engine itself drives.
ShiftHiSample_LoopsMosi(miso_pin) ==
  /\ st = "SHIFT_HI" /\ LastOfPhase
  /\ sck' = 1 /\ req_ready' = FALSE
  /\ sreg' = Append(Tail(sreg), mosi)
  /\ div_cnt' = 0
  /\ IF bits_done + 1 = nbits_total
       THEN st' = "DONE" /\ UNCHANGED bits_done
       ELSE st' = "SHIFT_LO" /\ bits_done' = bits_done + 1
  /\ UNCHANGED <<cs, mosi, req_rdata, data_bits, nbits_total, half_period_r>>

\* The last cycle of the high half samples MISO and moves to the next bit.
ShiftHiSample(miso_pin) ==
  /\ st = "SHIFT_HI" /\ LastOfPhase
  /\ sck' = 1 /\ req_ready' = FALSE
  /\ sreg' = Append(Tail(sreg), miso_pin)
  /\ div_cnt' = 0
  /\ IF bits_done + 1 = nbits_total
       THEN st' = "DONE" /\ UNCHANGED bits_done
       ELSE st' = "SHIFT_LO" /\ bits_done' = bits_done + 1
  /\ UNCHANGED <<cs, mosi, req_rdata, data_bits, nbits_total, half_period_r>>

\* Faulty variant: no ST_POST.
AfterDone_Idle == "IDLE"

AfterDone == "POST"

Done ==
  /\ st = "DONE" /\ st' = AfterDone
  /\ cs' = AllHigh /\ sck' = 0
  /\ req_rdata' = CapturedWord(sreg, data_bits)
  /\ req_ready' = TRUE
  /\ UNCHANGED <<mosi, sreg, data_bits, nbits_total, bits_done,
                 half_period_r, div_cnt>>

\* Faulty variant: ST_POST is never left.
Post_NoExit ==
  /\ st = "POST"
  /\ req_ready' = FALSE
  /\ UNCHANGED <<st, cs, sck, mosi, req_rdata, sreg, data_bits, nbits_total,
                 bits_done, half_period_r, div_cnt>>

\* One cycle in which req_ready is visible before req_valid is looked at again.
Post ==
  /\ st = "POST" /\ st' = "IDLE"
  /\ req_ready' = FALSE
  /\ UNCHANGED <<cs, sck, mosi, req_rdata, sreg, data_bits, nbits_total,
                 bits_done, half_period_r, div_cnt>>

EngineStep(valid, r, sel, miso_pin) ==
  \/ Idle(valid)
  \/ Accept(valid, r, sel)
  \/ ShiftLo
  \/ ShiftHiHold
  \/ ShiftHiSample(miso_pin)
  \/ Done
  \/ Post

--------------------------------------------------------------------------------
EngineInit ==
  /\ st = "IDLE" /\ cs = AllHigh /\ sck = 0 /\ mosi = 1
  /\ req_ready = FALSE
  /\ req_rdata = [i \in 1 .. 4 |-> ZeroByte]
  /\ sreg = [i \in 1 .. SregBits |-> 0]
  /\ half_period_r = 1 /\ div_cnt = 0
  /\ data_bits = 0 /\ nbits_total = 0 /\ bits_done = 0

EngineTypeOK ==
  /\ st \in {"IDLE", "SHIFT_LO", "SHIFT_HI", "DONE", "POST"}
  /\ cs \in [Chip -> Bit] /\ sck \in Bit /\ mosi \in Bit
  /\ req_ready \in BOOLEAN
  /\ req_rdata \in [1 .. 4 -> Byte]
  /\ sreg \in [1 .. SregBits -> Bit]
  /\ data_bits \in Nat /\ nbits_total \in Nat /\ bits_done \in Nat
  /\ half_period_r \in Nat \ {0} /\ div_cnt \in Nat

================================================================================
