-------------------------------- MODULE QspiLink --------------------------------
(***************************************************************************)
(* The external port at the level of pins and clock edges: the memory bus  *)
(* of mem.v raising requests, the engine, and the SPI chips, all stepping  *)
(* on the same clock.  rst_n may fall at any time.                         *)
(***************************************************************************)
EXTENDS SpiChips

CONSTANTS
  Requests,   \* requests the bus raises in the model
  Divs,       \* values QSPI_CTRL takes in the model
  Contents    \* initial contents of the chips

ASSUME LinkAssumption ==
  /\ Requests # {}
  /\ Requests \subseteq
       [we : BOOLEAN, dev : Dev, addr : Nat, wdata : [1 .. 4 -> Byte], size : Size]
  /\ Divs \subseteq DivSel /\ 3 \in Divs
  /\ Contents \in [Chip -> [0 .. MemSize - 1 -> Byte]]
  \* an address fits the address bytes of a frame (24 bits in the code)
  /\ \A r \in Requests : Val(Bits(r.addr, AddrBytes * ByteBits)) = r.addr

VARIABLES
  req_valid, req,   \* ext_req_valid and the req_* lines of mem.v
  qspi_div_sel,     \* the QSPI_CTRL register
  \* history, for the properties only
  cur, curHalf,     \* the request accepted last, and its SCK half period
  mem0,             \* chip contents when it was accepted
  sent,             \* bits on MISO at the rising edges of SCK since then
  age               \* cycles since the last change of SCK or chip select

busVars  == <<req_valid, req, qspi_div_sel>>
histVars == <<cur, curHalf, mem0, sent, age>>
vars     == <<engineVars, chipVars, busVars, histVars>>

Selected == \E c \in Chip : cs[c] = 0

--------------------------------------------------------------------------------
\* The bus holds a request until the cycle that sees req_ready and drops it there.
BusHold  == req_valid /\ ~req_ready /\ UNCHANGED <<req_valid, req>>
BusDrop  == req_valid /\ req_ready /\ req_valid' = FALSE /\ UNCHANGED req
BusQuiet == ~req_valid /\ UNCHANGED <<req_valid, req>>
\* A program for a board without RAM B does not address it.
BusRaise == ~req_valid /\ req_valid' = TRUE
            /\ req' \in {r \in Requests : peripheralOnCs2 => r.dev # RamB}
BusStep  == (BusHold \/ BusDrop \/ BusQuiet \/ BusRaise) /\ qspi_div_sel' \in Divs

Accepting == st = "IDLE" /\ st' = "SHIFT_LO"

History ==
  /\ cur'     = IF Accepting THEN req ELSE cur
  /\ curHalf' = IF Accepting THEN HalfPeriod[qspi_div_sel] ELSE curHalf
  /\ mem0'    = IF Accepting THEN chips ELSE mem0
  /\ sent'    = IF Accepting THEN << >>
                ELSE IF SckRises THEN Append(sent, MisoPin) ELSE sent
  /\ age'     = IF cs' = AllHigh THEN 0
                ELSE IF sck' # sck \/ cs' # cs THEN 1 ELSE age + 1

Tick ==
  /\ EngineStep(req_valid, req, qspi_div_sel, MisoPin)
  /\ ChipsStep
  /\ BusStep
  /\ History

\* rst_n falls: the engine and the bus are reset at once; chips only see their
\* chip selects rise and keep what they stored.
Reset ==
  /\ EngineReset
  /\ rx' = [c \in Chip |-> << >>] /\ miso' = [c \in Chip |-> 0] /\ UNCHANGED <<chips, peripheralOnCs2>>
  /\ req_valid' = FALSE /\ UNCHANGED req /\ qspi_div_sel' = 3
  /\ age' = 0 /\ UNCHANGED <<cur, curHalf, mem0, sent>>

Init ==
  /\ EngineInit
  /\ ChipsInit(Contents)
  /\ req_valid = FALSE /\ req = (CHOOSE r \in Requests : TRUE) /\ qspi_div_sel = 3
  /\ cur = req /\ curHalf = HalfPeriod[3] /\ mem0 = Contents
  /\ sent = << >> /\ age = 0

Next == Tick \/ Reset

\* The clock keeps running: tt_um_agila32 has no clock gate.
Spec == Init /\ [][Next]_vars /\ WF_vars(Tick)

--------------------------------------------------------------------------------
\* TypeOK: every pin, register and history variable has the range of its
\* declaration in qspi_shared_engine.v, spi_ram_model.v and mem.v.
TypeOK ==
  /\ EngineTypeOK
  /\ peripheralOnCs2 \in BOOLEAN
  /\ rx \in [Chip -> Seq(Bit)] /\ miso \in [Chip -> Bit]
  /\ chips \in [Chip -> [0 .. MemSize - 1 -> Byte]]
  /\ req_valid \in BOOLEAN /\ req \in Requests /\ qspi_div_sel \in Divs
  /\ cur \in Requests /\ curHalf \in Nat \ {0}
  /\ mem0 \in [Chip -> [0 .. MemSize - 1 -> Byte]]
  /\ sent \in Seq(Bit) /\ age \in Nat

\* The frame a chip expects for request r, stated bit by bit: bit n is bit j of
\* byte k, counting the command as byte 1.
FrameLength(r) ==
  ByteBits * (IF r.dev = Spi THEN 1 ELSE 1 + AddrBytes + SizeBytes(r.size))

FrameBit(r, n) ==
  LET k == 1 + ((n - 1) \div ByteBits)
      j == 1 + ((n - 1) % ByteBits)
  IN  IF r.dev = Spi THEN r.wdata[1][j]
      ELSE IF k = 1 THEN Bits(IF r.we THEN 2 ELSE 3, ByteBits)[j]
      ELSE IF k <= 1 + AddrBytes THEN Bits(r.addr, AddrBytes * ByteBits)[n - ByteBits]
      ELSE IF r.we THEN r.wdata[k - 1 - AddrBytes][j] ELSE 0

\* OneRequestOneTransaction: the wires are active, and an answer is given, only
\* while the request that was accepted is still being asked for, and the only
\* chip selected is the one it names.  Without ST_POST the engine starts a
\* second transaction from the request it has just answered.
OneRequestOneTransaction ==
  /\ req_ready => req_valid
  /\ Selected => req_valid /\ req = cur
  /\ \A c \in Chip : cs[c] = 0 => c = ChipOf(cur.dev)

\* FrameOnTheWire: what the selected chip has clocked in is, bit for bit, the
\* beginning of the frame of the accepted request (command, address, data bytes
\* in address order), and the whole frame by the time the engine deselects it.
FrameOnTheWire ==
  \A c \in Chip : cs[c] = 0 =>
    /\ \A n \in 1 .. Len(rx[c]) : rx[c][n] = FrameBit(cur, n)
    /\ st = "DONE" => Len(rx[c]) = FrameLength(cur)

\* CapturedFromTheWire: the bits the engine reports are the ones the device
\* presented at the rising edges of SCK, although it samples at the end of the
\* high half.
CapturedFromTheWire ==
  st = "DONE" => SubSeq(sreg, SregBits - Len(sent) + 1, SregBits) = sent

\* MosiStable: MOSI never changes on an edge that raises SCK or while SCK stays
\* high (the one-bit-early race the comment in ST_SHIFT_LO describes).
MosiStable == [][sck' = 1 => mosi' = mosi]_vars

\* SckPulseWidth: the divider latched at accept time governs the transaction
\* whatever is written to QSPI_CTRL meanwhile: SCK stays high for exactly its
\* half period and low for at least that long.
SckPulseWidth ==
  [][/\ SckRises => age >= curHalf
     /\ (SckFalls /\ st' # "IDLE") => age = curHalf]_vars

\* SpiByteLeavesRamAlone: a raw SPI byte selects CS2, which may be RAM B; no
\* chip's contents change while it is on the wire.
SpiByteLeavesRamAlone == [][cur.dev = Spi /\ Selected => chips' = chips]_vars

\* Answered: a request never stalls the bus for ever; it is answered, or reset.
Answered == req_valid ~> ~req_valid

--------------------------------------------------------------------------------
\* The chips' contents seen through the port: a write in flight has not
\* happened yet.
Port == INSTANCE ExtPort WITH
  SpiReply <- Byte,
  port     <- IF st = "IDLE" THEN "idle" ELSE IF st = "POST" THEN "post" ELSE "busy",
  chips    <- IF Selected THEN mem0 ELSE chips,
  rdata    <- req_rdata

\* PortSafety: the pin-level port implements the abstract one.
PortSafety == Port!Spec

================================================================================
