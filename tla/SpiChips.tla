-------------------------------- MODULE SpiChips --------------------------------
(***************************************************************************)
(* The chips at the other end of the wires, as test/spi_ram_model.v models *)
(* a serial RAM: each keeps the bits it has clocked in since its chip      *)
(* select fell, which determines its phase (command, address, data), the   *)
(* byte it is in and the address it is at.  CS2 carries either RAM B or,   *)
(* on a modified board, a raw SPI peripheral that answers what it likes.   *)
(*                                                                         *)
(* A chip reacts to the pins of the engine, so these steps are conjoined   *)
(* with an EngineStep and look at its unprimed and primed pins.  A chip    *)
(* that samples MOSI on an edge where MOSI also changes reads either value.*)
(***************************************************************************)
EXTENDS QspiEngine

CONSTANTS
  MemSize   \* bytes a chip stores (2^14 in spi_ram_model.v)

ASSUME ChipsAssumption == MemSize \in Nat /\ MemSize >= 4

VARIABLES
  peripheralOnCs2,   \* CS2 of this board is wired to a raw SPI device, not to RAM B
  rx,      \* bits clocked in by each chip since it was selected
  miso,    \* the level each chip drives on MISO
  chips    \* contents of each memory chip

chipVars == <<peripheralOnCs2, rx, miso, chips>>

IsRam(c) == c # 2 \/ ~peripheralOnCs2

Val(bits) ==
  LET v[i \in 0 .. Len(bits)] == IF i = 0 THEN 0 ELSE 2 * v[i - 1] + bits[i]
  IN  v[Len(bits)]

HeaderBits == (1 + AddrBytes) * ByteBits

InData(bits)   == Len(bits) >= HeaderBits
ChipWe(bits)   == SubSeq(bits, 1, ByteBits) = Bits(CmdWrite, ByteBits)
ChipAddr(bits) == Val(SubSeq(bits, ByteBits + 1, HeaderBits))
                    + (Len(bits) - HeaderBits) \div ByteBits

SckRises == sck = 0 /\ sck' = 1
SckFalls == sck = 1 /\ sck' = 0

\* The byte that the last of bits completes goes to the address before the one
\* the chip is now at.
Stored(m, bits) ==
  IF Len(bits) > HeaderBits /\ Len(bits) % ByteBits = 0 /\ ChipWe(bits)
    THEN [m EXCEPT ![(ChipAddr(bits) - 1) % MemSize] =
                      SubSeq(bits, Len(bits) - ByteBits + 1, Len(bits))]
    ELSE m

\* What a RAM puts on MISO when SCK falls.
MisoBit(m, bits) ==
  IF InData(bits) /\ ~ChipWe(bits)
    THEN m[ChipAddr(bits) % MemSize][1 + (Len(bits) % ByteBits)]
    ELSE 0

Clocked(c) == SckRises /\ cs'[c] = 0

SampleMosi ==
  \E b \in {mosi, mosi'} :
    /\ rx' = [c \in Chip |-> IF cs'[c] = 1 THEN << >>
                             ELSE IF SckRises THEN Append(rx[c], b) ELSE rx[c]]
    /\ chips' = [c \in Chip |->
                   IF Clocked(c) /\ IsRam(c) THEN Stored(chips[c], Append(rx[c], b))
                                             ELSE chips[c]]

DriveMiso ==
  \E b \in IF peripheralOnCs2 THEN Bit ELSE {0} :
    miso' = [c \in Chip |->
               IF cs'[c] = 1 THEN 0
               ELSE IF IsRam(c) THEN IF SckFalls THEN MisoBit(chips[c], rx[c]) ELSE miso[c]
               ELSE IF SckFalls \/ cs[c] = 1 THEN b ELSE miso[c]]

ChipsStep == SampleMosi /\ DriveMiso /\ UNCHANGED peripheralOnCs2

MisoPin == IF \E c \in Chip : cs[c] = 0 /\ miso[c] = 1 THEN 1 ELSE 0

ChipsInit(contents) ==
  /\ peripheralOnCs2 \in BOOLEAN
  /\ rx = [c \in Chip |-> << >>]
  /\ miso = [c \in Chip |-> 0]
  /\ chips = contents

================================================================================
