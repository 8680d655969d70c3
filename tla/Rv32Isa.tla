-------------------------------- MODULE Rv32Isa --------------------------------
(***************************************************************************)
(* Words, addresses and decoded instructions of the AgilA32 core.          *)
(*                                                                         *)
(* The width of the data is a parameter: a byte takes ByteVals values (256 *)
(* in the code), a word is four bytes, and the bus address is the low part *)
(* of a word.  An instruction is the record its decoder sees,              *)
(*   [op, fn, rd, rs1, rs2, imm, size, unsigned]                           *)
(* and the encoding of records as words, the ALU and the branch comparator *)
(* are constant operators.                                                 *)
(***************************************************************************)
EXTENDS Integers

CONSTANTS
  ByteVals,         \* values of a byte
  AddrVals,         \* bus addresses (256 in the code)
  NumRegs,          \* registers, x0 included (32 in the code)
  Decode(_),        \* the instruction a fetched word encodes
  Alu(_, _, _),     \* alu_y for an operation and two operands
  Taken(_, _, _)    \* branch_cond for a comparison and two operands

WordVals == ByteVals * ByteVals * ByteVals * ByteVals

Byte == 0 .. ByteVals - 1
Word == 0 .. WordVals - 1
Addr == 0 .. AddrVals - 1
Reg  == 0 .. NumRegs - 1

Op == {"LUI", "AUIPC", "JAL", "JALR", "BRANCH", "LOAD", "STORE",
       "IMM", "REG", "EBREAK", "OTHER"}

ASSUME IsaAssumption ==
  /\ ByteVals \in Nat /\ ByteVals >= 2
  /\ AddrVals \in Nat /\ AddrVals > 4
  /\ NumRegs \in Nat \ {0}
  /\ \A w \in Word : /\ Decode(w).op \in Op
                     /\ Decode(w).rd \in Reg /\ Decode(w).rs1 \in Reg /\ Decode(w).rs2 \in Reg
                     /\ Decode(w).imm \in Word
                     /\ Decode(w).size \in 0 .. 2

\* A word as its bytes, the one at the lowest address first, and back.
Bytes(w) ==
  <<w % ByteVals, (w \div ByteVals) % ByteVals,
    (w \div (ByteVals * ByteVals)) % ByteVals,
    (w \div (ByteVals * ByteVals * ByteVals)) % ByteVals>>

WordOf(b) ==
  b[1] + ByteVals * (b[2] + ByteVals * (b[3] + ByteVals * b[4]))

\* The value a load writes back: the addressed bytes of rdata, zero- or
\* sign-extended.  SignVals(n) is the least n-byte value with its sign bit set.
SizeVals(size) ==
  IF size = 0 THEN ByteVals ELSE IF size = 1 THEN ByteVals * ByteVals ELSE WordVals

Extended(i, w) ==
  LET vals == SizeVals(i.size)
      low  == w % vals
  IN  IF i.unsigned \/ 2 * low < vals THEN low ELSE low + WordVals - vals

--------------------------------------------------------------------------------
\* What instruction i computes at address p from its operands a (rs1) and b (rs2).
AluOut(i, a, b) ==
  Alu(IF i.op \in {"IMM", "REG"} THEN i.fn ELSE IF i.op = "BRANCH" THEN "SUB" ELSE "ADD",
      a, IF i.op \in {"IMM", "LOAD", "STORE"} THEN i.imm ELSE b)

\* The ALU returns a word.
ASSUME AluAssumption ==
  \A i \in {Decode(w) : w \in Word}, x, y \in Word : AluOut(i, x, y) \in Word

\* JALR clears bit 0 of its target.
Even(a) == a - (a % 2)

\* Faulty variant: the sequential successor is not truncated to the bus width.
NextPcOf_NoWrap(i, p, a, b) ==
  IF i.op = "JAL" THEN (p + i.imm) % AddrVals
  ELSE IF i.op = "JALR" THEN Even((a + i.imm) % AddrVals)
  ELSE IF i.op = "BRANCH" /\ Taken(i.fn, a, b) THEN (p + i.imm) % AddrVals
  ELSE p + 4

NextPcOf(i, p, a, b) ==
  IF i.op = "JAL" THEN (p + i.imm) % AddrVals
  ELSE IF i.op = "JALR" THEN Even((a + i.imm) % AddrVals)
  ELSE IF i.op = "BRANCH" /\ Taken(i.fn, a, b) THEN (p + i.imm) % AddrVals
  ELSE (p + 4) % AddrVals

\* The value written back to rd, from the ALU result and the word a load read.
WritesRd(i) ==
  i.rd # 0 /\ i.op \in {"LUI", "AUIPC", "JAL", "JALR", "LOAD", "IMM", "REG"}

RdValue(i, p, alu, rdata) ==
  IF i.op = "LUI" THEN i.imm
  ELSE IF i.op = "AUIPC" THEN (p + i.imm) % WordVals
  ELSE IF i.op \in {"JAL", "JALR"} THEN (p + 4) % WordVals
  ELSE IF i.op = "LOAD" THEN Extended(i, rdata)
  ELSE alu

================================================================================
