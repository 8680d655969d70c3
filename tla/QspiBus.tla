-------------------------------- MODULE QspiBus --------------------------------
(***************************************************************************)
(* The vocabulary shared by every module that touches the external bus of  *)
(* AgilA32: which device a request names, which chip-select pin serves it  *)
(* and how many data bytes it carries.  A request is what mem.v drives on  *)
(* the req_* inputs of qspi_shared_engine.v:                               *)
(*   [we, dev, addr, wdata, size]                                          *)
(* wdata is the 32-bit word as its four bytes, lowest address first.       *)
(***************************************************************************)
EXTENDS Integers

\* The four values of req_dev.
Spi   == 0    \* raw byte to whatever is wired to CS2
Flash == 1    \* NOR flash on CS0
RamA  == 2    \* PSRAM on CS1
RamB  == 3    \* PSRAM on CS2
Dev   == Spi .. RamB

\* The three chip-select pins; CS2 serves both RAM B and the raw SPI byte.
Chip == 0 .. 2
ChipOf(dev) == IF dev = Flash THEN 0 ELSE IF dev = RamA THEN 1 ELSE 2

\* funct3[1:0] as the bus carries it: 0 byte, 1 half word, 2 word.
Size == 0 .. 2
SizeBytes(size) == IF size = 0 THEN 1 ELSE IF size = 1 THEN 2 ELSE 4

\* A raw SPI transfer is one byte whatever req_size says.
DataBytes(r) == IF r.dev = Spi THEN 1 ELSE SizeBytes(r.size)

DivSel == 0 .. 3

================================================================================
