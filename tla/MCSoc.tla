---------------------------------- MODULE MCSoc ----------------------------------
(***************************************************************************)
(* A small AgilA32: two-bit bytes, a 48-address bus with the regions in    *)
(* the order of the real map (ROM 0-3, RAM 8-19 with the load window       *)
(* 12-19, PSRAM 20-23, registers 32-47), two registers beside x0.  The ROM *)
(* jumps to the load window, which holds any two instructions of a pool;   *)
(* execution then runs on through the PSRAM window, the unmapped addresses *)
(* and the registers, and back to the ROM.                                 *)
(***************************************************************************)
EXTENDS Soc

I(op, fn, rd, rs1, rs2, imm, size) ==
  [op |-> op, fn |-> fn, rd |-> rd, rs1 |-> rs1, rs2 |-> rs2, imm |-> imm,
   size |-> size, unsigned |-> FALSE]
U(i) == [i EXCEPT !.unsigned = TRUE]
R(offset) == 32 + offset

\* Instruction k is encoded as the word k; words above, and 0, are no instruction.
Program ==
  <<(* 1*) I("JAL", "", 0, 0, 0, 12, 2),
    (* 2*) I("IMM", "ADD", 1, 0, 0, 1, 2),
    (* 3*) I("REG", "SUB", 2, 1, 2, 0, 2),
    (* 4*) I("STORE", "", 0, 0, 1, 11, 1),             \* SH straddling into the window
    (* 5*) I("STORE", "", 0, 0, 2, 16, 2),             \* SW over the second instruction
    (* 6*) I("LOAD", "", 2, 0, 0, 19, 1),              \* LH past the last RAM byte
    (* 7*) U(I("LOAD", "", 2, 0, 0, R(4), 0)),         \* LBU GPIO_IN
    (* 8*) I("BRANCH", "BEQ", 0, 1, 2, 40, 2),         \* back by 8
    (* 9*) I("JALR", "", 2, 1, 0, 12, 2),
    (*10*) I("EBREAK", "", 0, 0, 0, 0, 2),
    (*11*) I("STORE", "", 0, 0, 1, R(GPIO_OUT), 0),
    (*12*) I("STORE", "", 0, 0, 0, R(FLASH_MODE), 0),
    (*13*) I("STORE", "", 0, 0, 1, R(FLASH_PAGE), 0),
    (*14*) I("STORE", "", 0, 0, 1, R(PSRAM_BANK), 0),
    (*15*) I("STORE", "", 0, 0, 1, R(SPI_DATA), 0),
    (*16*) U(I("LOAD", "", 2, 0, 0, R(SPI_DATA), 0)),
    (*17*) I("STORE", "", 0, 0, 2, 20, 2),             \* SW PSRAM
    (*18*) I("LOAD", "", 1, 0, 0, 21, 1),              \* LH PSRAM
    (*19*) I("STORE", "", 0, 0, 1, 13, 0),             \* SB into the window
    (*20*) I("JAL", "", 1, 0, 0, 44, 2),               \* back by 4
    (*21*) I("LUI", "", 2, 0, 0, 64, 2),
    (*22*) I("AUIPC", "", 1, 0, 0, 64, 2),
    (*23*) I("STORE", "", 0, 0, 1, R(QSPI_CTRL), 0),
    (*24*) I("LOAD", "", 1, 0, 0, 17, 0)>>             \* LB from the window

MCDecode(w) == IF w \in DOMAIN Program THEN Program[w] ELSE I("OTHER", "", 1, 1, 1, 0, 2)
MCAlu(fn, x, y)   == IF fn = "SUB" THEN (x - y) % WordVals ELSE (x + y) % WordVals
MCTaken(fn, x, y) == x = y

MCRom    == [k \in 0 .. 0 |-> 1]
MCInputs == {[k \in InputRegs |-> IF k = 4 THEN g ELSE 0] : g \in {0, 3}}
MCPast   == {[k \in 0 .. 3 |-> (x + k) % 4] : x \in Byte} \cup {[k \in 0 .. 3 |-> 0]}
MCRegs   == {<<5, 0>>}

\* Memory holding the given words from its start on.
Image(words, size) ==
  [k \in 0 .. size - 1 |-> IF k \div 4 + 1 \in DOMAIN words
                             THEN Bytes(words[k \div 4 + 1])[1 + (k % 4)] ELSE 0]

RamWith(pool)      == {Image(<<0, x, y>>, RAM_BYTES) : x \in pool, y \in pool}
ChipsWith(f, x, y) == {<<Image(f, MemSize), Image(x, MemSize), Image(y, MemSize)>>}
ZeroBased(s)       == {[c \in Chip |-> t[c + 1]] : t \in s}

Memories(rams, contents) == [ram : rams, chips : contents]

OnChipMemories ==
  Memories(RamWith({2, 4, 5, 6, 7, 8, 9, 10, 11, 19, 20, 24})
             \cup {Image(<<0, x, 22>>, RAM_BYTES) : x \in {3, 21}},
           ZeroBased(ChipsWith(<<10>>, <<11>>, <<10>>)))

\* In one flash, page 0 writes PSRAM and moves to page 1, which reads it back or
\* stops; in the other, page 0 stores into its own window.
ExternalMemories ==
  Memories(RamWith({5, 12, 13, 14, 15, 16, 17, 18, 23}),
           ZeroBased(ChipsWith(<<13, 17, 18, 10>>, <<16>>, <<14>>)
                       \cup ChipsWith(<<19, 5, 10, 10>>, <<16>>, <<14>>)))

MCMemories == OnChipMemories \cup ExternalMemories

\* A half word stored across the bottom of the load window in flash mode.
StraddleMemories ==
  Memories({Image(<<0, 12, 12>>, RAM_BYTES)},
           ZeroBased(ChipsWith(<<4, 4>>, <<10>>, <<10>>)))

====================================================================================
