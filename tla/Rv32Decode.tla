-------------------------------- MODULE Rv32Decode --------------------------------
(***************************************************************************)
(* What the core's decoder makes of a word (src/rv32i_core.v).  A word is  *)
(* the set of the positions of its ones; the instruction it stands for is  *)
(*   [m |-> mnemonic, rd, rs1, rs2, imm]                                   *)
(* with 0 for what the decoder does not look at.  The bus has eight        *)
(* address bits, so of a branch or jump offset only the low byte counts.   *)
(***************************************************************************)
EXTENDS Integers, Sequences

\* The number whose ones are at the positions s, none of them above 19.
Five(s, n) ==
  LET bit(k) == IF n + k \in s THEN 1 ELSE 0
  IN  bit(0) + 2 * bit(1) + 4 * bit(2) + 8 * bit(3) + 16 * bit(4)

Number(s) == Five(s, 0) + 32 * Five(s, 5) + 1024 * Five(s, 10) + 32768 * Five(s, 15)

\* The number in bits hi .. lo of a word.
Field(w, hi, lo) == Number({k - lo : k \in w \cap (lo .. hi)})

Signed(n, width) == IF n >= 2^(width - 1) THEN n - 2^width ELSE n

opcode(w)    == Field(w, 6, 0)
funct3(w)    == Field(w, 14, 12)
funct7_b5(w) == 30 \in w

imm_i(w) == Signed(Field(w, 31, 20), 12)
imm_s(w) == Signed(32 * Field(w, 31, 25) + Field(w, 11, 7), 12)
imm_u(w) == Field(w, 31, 12)
imm_b(w) == 32 * Field(w, 27, 25) + 2 * Field(w, 11, 8)
imm_j(w) == 2 * Field(w, 27, 21)

OP_IMM    == 19
OP_REG    == 51
OP_LOAD   == 3
OP_STORE  == 35
OP_BRANCH == 99
OP_JAL    == 111
OP_JALR   == 103
OP_LUI    == 55
OP_AUIPC  == 23
OP_SYSTEM == 115

\* The mnemonic for each value of funct3.
ImmOps    == <<"ADDI", "SLLI", "SLTI", "SLTIU", "XORI", "SRLI", "ORI", "ANDI">>
RegOps    == <<"ADD", "SLL", "SLT", "SLTU", "XOR", "SRL", "OR", "AND">>
LoadOps   == <<"LB", "LH", "LW", "LW", "LBU", "LHU", "LW", "LW">>
StoreOps  == <<"SB", "SH", "SW", "SW", "SB", "SH", "SW", "SW">>
BranchOps == <<"BEQ", "BNE", "never", "never", "BLT", "BGE", "BLTU", "BGEU">>

Shifts == {"SLLI", "SRLI", "SRAI"}

AluOp(w) ==
  IF opcode(w) = OP_IMM
    THEN IF funct3(w) = 5 /\ funct7_b5(w) THEN "SRAI" ELSE ImmOps[funct3(w) + 1]
    ELSE IF ~funct7_b5(w) THEN RegOps[funct3(w) + 1]
         ELSE IF funct3(w) = 0 THEN "SUB"
         ELSE IF funct3(w) = 5 THEN "SRA" ELSE RegOps[funct3(w) + 1]

Instruction(m, rd, rs1, rs2, imm) == [m |-> m, rd |-> rd, rs1 |-> rs1, rs2 |-> rs2, imm |-> imm]

Decoded(w) ==
  LET rd  == Field(w, 11, 7)
      rs1 == Field(w, 19, 15)
      rs2 == Field(w, 24, 20)
  IN CASE opcode(w) = OP_IMM ->
            Instruction(AluOp(w), rd, rs1, 0,
                        IF AluOp(w) \in Shifts THEN imm_i(w) % 32 ELSE imm_i(w))
       [] opcode(w) = OP_REG    -> Instruction(AluOp(w), rd, rs1, rs2, 0)
       [] opcode(w) = OP_LOAD   -> Instruction(LoadOps[funct3(w) + 1], rd, rs1, 0, imm_i(w))
       [] opcode(w) = OP_STORE  -> Instruction(StoreOps[funct3(w) + 1], 0, rs1, rs2, imm_s(w))
       [] opcode(w) = OP_BRANCH -> Instruction(BranchOps[funct3(w) + 1], 0, rs1, rs2, imm_b(w))
       [] opcode(w) = OP_JAL    -> Instruction("JAL", rd, 0, 0, imm_j(w))
       [] opcode(w) = OP_JALR   -> Instruction("JALR", rd, rs1, 0, imm_i(w))
       [] opcode(w) = OP_LUI    -> Instruction("LUI", rd, 0, 0, imm_u(w))
       [] opcode(w) = OP_AUIPC  -> Instruction("AUIPC", rd, 0, 0, imm_u(w))
       [] opcode(w) = OP_SYSTEM /\ funct3(w) = 0 /\ Field(w, 31, 20) = 1
                                -> Instruction("EBREAK", 0, 0, 0, 0)
       [] OTHER                 -> Instruction("NOP", 0, 0, 0, 0)

================================================================================
