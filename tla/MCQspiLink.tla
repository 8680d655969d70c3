------------------------------ MODULE MCQspiLink ------------------------------
(***************************************************************************)
(* Small instances of QspiLink: two-bit bytes and one-byte addresses keep  *)
(* every phase of a frame (command, address, one, two or four data bytes)  *)
(* in at most twelve bits.                                                 *)
(***************************************************************************)
EXTENDS QspiLink

MCHalfPeriod == [d \in DivSel |-> IF d = 0 THEN 1 ELSE 2]

\* The four bytes of the word that is written, all different; the first one is
\* the write command, the worst a raw SPI byte can look like to RAM B.
MCWord == [i \in 1 .. 4 |-> Bits((i + 1) % 4, ByteBits)]

MCContents == [c \in Chip |-> [a \in 0 .. MemSize - 1 |-> Bits((3 + c + 3 * a) % 4, ByteBits)]]

Request(we, dev, addr, size) ==
  [we |-> we, dev |-> dev, addr |-> addr, wdata |-> MCWord, size |-> size]

\* Reads of all three memories, writes of both RAMs, the raw SPI byte.  A store
\* to 0xFD is a byte store by convention only, so its size is not always 0.
MCRequests ==
  {Request(FALSE, Flash, 3, 2), Request(FALSE, RamA, 1, 0), Request(FALSE, RamA, 0, 1)}
    \cup {Request(TRUE, RamA, 0, s) : s \in Size}
    \cup {Request(TRUE, RamB, 2, 1), Request(TRUE, Spi, 0, 2)}

===============================================================================
