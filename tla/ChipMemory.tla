------------------------------- MODULE ChipMemory -------------------------------
(***************************************************************************)
(* What a request means for the contents of the memory chips, as the       *)
(* serial RAM of test/spi_ram_model.v carries it out.  Contents are a      *)
(* function from chip selects to functions from chip addresses to bytes;   *)
(* chip addresses wrap at MemSize.                                         *)
(***************************************************************************)
EXTENDS QspiBus

CONSTANTS MemSize, ZeroByte

\* How far address a lies past the start of request r.
Offset(r, a) == (a - r.addr) % MemSize

\* The contents m after the first k bytes of request r have been written.
Written(m, r, k) ==
  [m EXCEPT ![ChipOf(r.dev)] =
     [a \in DOMAIN @ |-> IF Offset(r, a) < k THEN r.wdata[Offset(r, a) + 1]
                                             ELSE @[a]]]

IsMemWrite(r) == r.we /\ r.dev # Spi

\* The word request r returns: the bytes it reads, lowest address first.
ReadWord(m, r) ==
  [i \in 1 .. 4 |-> IF ~r.we /\ i <= DataBytes(r)
                      THEN m[ChipOf(r.dev)][(r.addr + i - 1) % MemSize]
                      ELSE ZeroByte]

================================================================================
