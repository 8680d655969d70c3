--------------------------------- MODULE Rv32Asm ---------------------------------
(***************************************************************************)
(* The assembler the programs are written with: class Asm of               *)
(* tools/asm_pineapple.py and its older copy in tools/build_boot_rom.py.   *)
(* A script makes its calls in any order; branches and jumps to labels are *)
(* left open and encoded by finalize(), from the address each label turned *)
(* out to have.  Words are sets of bit positions, as in Rv32Decode.        *)
(***************************************************************************)
EXTENDS Rv32Decode, FiniteSets

CONSTANTS
  Plain,       \* instructions a script may ask for that need no label
  Jumps,       \* branches and jumps it may ask for: [m, rd, rs1, rs2]
  Gaps,        \* lengths of the stretches of other code between them
  LabelNames,
  Bases,       \* address of the first word: 0, or LOAD_BASE for a page
  Entry,       \* RAM_BASE of the boot ROM, load_base of a page: where absolute jumps go
  MaxCalls,    \* bound: calls of a script
  MaxAsked     \* bound: instructions without a label among them

VARIABLES
  mode,        \* "script", "words" out of finalize(), "image", "refused" by an assertion
  base, count, \* address of the first word, words so far
  words,       \* the words encoded so far: function from their places
  labels,      \* function from the labels defined to their addresses
  fixups,      \* [at, jump, target]
  image,       \* the bytes written out, four for each place
  \* history, for the properties only
  calls,
  asked        \* [at, instr] of every call that needs no label, [at, to] of absolute jumps

vars == <<mode, base, count, words, labels, fixups, image, calls, asked>>

--------------------------------------------------------------------------------
\* The low width bits of a number, and a field moved up to its place.
Bits(n, width) == {k \in 0 .. width - 1 : (n \div 2^k) % 2 = 1}
Shl(s, n)      == {k + n : k \in s}

\* Bits hi .. lo of a number.
Slice(n, hi, lo) == Bits(n \div 2^lo, hi - lo + 1)

Opcode(op) == Bits(op, 7)

_r(funct7, rs2, rs1, f3, rd, op) ==
  Shl(Bits(funct7, 7), 25) \cup Shl(Bits(rs2, 5), 20) \cup Shl(Bits(rs1, 5), 15)
    \cup Shl(Bits(f3, 3), 12) \cup Shl(Bits(rd, 5), 7) \cup Opcode(op)

_i(imm, rs1, f3, rd, op) ==
  Shl(Bits(imm, 12), 20) \cup Shl(Bits(rs1, 5), 15)
    \cup Shl(Bits(f3, 3), 12) \cup Shl(Bits(rd, 5), 7) \cup Opcode(op)

_u(imm20, rd, op) == Shl(Bits(imm20, 20), 12) \cup Shl(Bits(rd, 5), 7) \cup Opcode(op)

\* Faulty variant: the upper part of the offset is taken one bit too low.
_store_Low(rs2, rs1, f3, imm) ==
  Shl(Slice(imm, 10, 4), 25) \cup Shl(Bits(rs2, 5), 20) \cup Shl(Bits(rs1, 5), 15)
    \cup Shl(Bits(f3, 3), 12) \cup Shl(Bits(imm, 5), 7) \cup Opcode(OP_STORE)

_store(rs2, rs1, f3, imm) ==
  Shl(Slice(imm, 11, 5), 25) \cup Shl(Bits(rs2, 5), 20) \cup Shl(Bits(rs1, 5), 15)
    \cup Shl(Bits(f3, 3), 12) \cup Shl(Bits(imm, 5), 7) \cup Opcode(OP_STORE)

BranchWord(f3, rs1, rs2, off) ==
  Shl(Slice(off, 12, 12), 31) \cup Shl(Slice(off, 10, 5), 25)
    \cup Shl(Bits(rs2, 5), 20) \cup Shl(Bits(rs1, 5), 15) \cup Shl(Bits(f3, 3), 12)
    \cup Shl(Slice(off, 4, 1), 8) \cup Shl(Slice(off, 11, 11), 7) \cup Opcode(OP_BRANCH)

JalWord(rd, off) ==
  Shl(Slice(off, 20, 20), 31) \cup Shl(Slice(off, 10, 1), 21) \cup Shl(Slice(off, 11, 11), 20)
    \cup Shl(Slice(off, 19, 12), 12) \cup Shl(Bits(rd, 5), 7) \cup Opcode(OP_JAL)

--------------------------------------------------------------------------------
\* The mnemonics: funct7 and funct3 of the register forms, funct3 of the others.
RegForms ==
  [ADD |-> <<0, 0>>, SUB |-> <<32, 0>>, SLL |-> <<0, 1>>, SLT |-> <<0, 2>>, SLTU |-> <<0, 3>>,
   XOR |-> <<0, 4>>, SRL |-> <<0, 5>>, SRA |-> <<32, 5>>, OR |-> <<0, 6>>, AND |-> <<0, 7>>]

ImmForms   == [ADDI |-> 0, SLTI |-> 2, SLTIU |-> 3, XORI |-> 4, ORI |-> 6, ANDI |-> 7]
ShiftForms == [SLLI |-> <<0, 1>>, SRLI |-> <<0, 5>>, SRAI |-> <<1024, 5>>]
LoadForms  == [LB |-> 0, LH |-> 1, LW |-> 2, LBU |-> 4, LHU |-> 5]
StoreForms == [SB |-> 0, SH |-> 1, SW |-> 2]
BranchForms == [BEQ |-> 0, BNE |-> 1, BLT |-> 4, BGE |-> 5, BLTU |-> 6, BGEU |-> 7]
UpperForms == [LUI |-> OP_LUI, AUIPC |-> OP_AUIPC]

Encoded(i) ==
  CASE i.m \in DOMAIN RegForms ->
         _r(RegForms[i.m][1], i.rs2, i.rs1, RegForms[i.m][2], i.rd, OP_REG)
    [] i.m \in DOMAIN ImmForms   -> _i(i.imm, i.rs1, ImmForms[i.m], i.rd, OP_IMM)
    [] i.m \in DOMAIN ShiftForms ->
         _i(ShiftForms[i.m][1] + (i.imm % 32), i.rs1, ShiftForms[i.m][2], i.rd, OP_IMM)
    [] i.m \in DOMAIN LoadForms  -> _i(i.imm, i.rs1, LoadForms[i.m], i.rd, OP_LOAD)
    [] i.m = "JALR"              -> _i(i.imm, i.rs1, 0, i.rd, OP_JALR)
    [] i.m \in DOMAIN StoreForms -> _store(i.rs2, i.rs1, StoreForms[i.m], i.imm)
    [] i.m \in DOMAIN UpperForms -> _u(i.imm, i.rd, UpperForms[i.m])
    [] i.m = "EBREAK"            -> _i(1, 0, 0, 0, OP_SYSTEM)

\* An instruction whose operands its form has room for; what the form lacks is 0.
\* The encoders do not check it: they mask what is too long, or let it run into the
\* next field, so it is what a script owes them.
Fits(i) ==
  /\ i = Instruction(i.m, i.rd, i.rs1, i.rs2, i.imm)
  /\ i.rd \in 0 .. 31 /\ i.rs1 \in 0 .. 31 /\ i.rs2 \in 0 .. 31
  /\ \/ i.m \in DOMAIN RegForms /\ i.imm = 0
     \/ /\ i.m \in DOMAIN ImmForms \cup DOMAIN LoadForms \cup {"JALR"}
        /\ i.imm \in Int /\ -2^11 <= i.imm /\ i.imm < 2^11 /\ i.rs2 = 0
     \/ i.m \in DOMAIN ShiftForms /\ i.imm \in 0 .. 31 /\ i.rs2 = 0
     \/ /\ i.m \in DOMAIN StoreForms
        /\ i.imm \in Int /\ -2^11 <= i.imm /\ i.imm < 2^11 /\ i.rd = 0
     \/ /\ i.m \in DOMAIN UpperForms
        /\ i.imm \in Nat /\ i.imm < 2^20 /\ i.rs1 = 0 /\ i.rs2 = 0
     \/ i = Instruction("EBREAK", 0, 0, 0, 0)

\* A branch or a jump, before its label is known.
IsJump(j) ==
  /\ j = [m |-> j.m, rd |-> j.rd, rs1 |-> j.rs1, rs2 |-> j.rs2]
  /\ \/ j.m \in DOMAIN BranchForms /\ j.rd = 0 /\ j.rs1 \in 0 .. 31 /\ j.rs2 \in 0 .. 31
     \/ j.m = "JAL" /\ j.rd \in 0 .. 31 /\ j.rs1 = 0 /\ j.rs2 = 0

ASSUME AsmAssumption ==
  /\ \A i \in Plain : Fits(i)
  /\ \A j \in Jumps : IsJump(j)
  /\ Gaps \subseteq Nat
  /\ \A a \in Bases \cup {Entry} : a \in Nat /\ a % 4 = 0

--------------------------------------------------------------------------------
\* The calls of a script.
addr == base + 4 * count

Calling == mode = "script" /\ calls < MaxCalls /\ calls' = calls + 1

\* g, and f where g is not defined.
Over(f, g) == [x \in DOMAIN f \cup DOMAIN g |-> IF x \in DOMAIN g THEN g[x] ELSE f[x]]

emit(word) ==
  /\ words' = Over(words, [at \in {count} |-> word])
  /\ count' = count + 1

Ask ==
  /\ Calling /\ Cardinality(asked) < MaxAsked
  /\ \E i \in Plain :
       emit(Encoded(i)) /\ asked' = asked \cup {[at |-> count, instr |-> i]}
  /\ UNCHANGED <<mode, base, labels, fixups, image>>

OtherCode ==
  /\ Calling /\ \E n \in Gaps : count' = count + n
  /\ UNCHANGED <<mode, base, words, labels, fixups, image, asked>>

label ==
  /\ Calling
  /\ \E l \in LabelNames \ DOMAIN labels : labels' = Over(labels, [k \in {l} |-> addr])
  /\ UNCHANGED <<mode, base, count, words, fixups, image, asked>>

\* A branch or a JAL: a place is kept, the word is None.
Branch ==
  /\ Calling
  /\ \E j \in Jumps, l \in LabelNames :
       fixups' = fixups \cup {[at |-> count, jump |-> j, target |-> l]}
  /\ count' = count + 1
  /\ UNCHANGED <<mode, base, words, labels, image, asked>>

\* _emit_trampoline: a jump to a fixed address, encoded where it stands.
Trampoline ==
  /\ Calling /\ Cardinality(asked) < MaxAsked
  /\ emit(JalWord(0, Entry - addr))
  /\ asked' = asked \cup {[at |-> count, to |-> Entry]}
  /\ UNCHANGED <<mode, base, labels, fixups, image>>

--------------------------------------------------------------------------------
PcOf(at) == base + 4 * at

\* finalize(): a label that was never defined, or one too far, ends the script.
Offset(f) == labels[f.target] - PcOf(f.at)

\* What an offset may be.
Reaches(f) ==
  /\ Offset(f) % 2 = 0
  /\ IF f.jump.m = "JAL" THEN Offset(f) >= -(2^20) /\ Offset(f) < 2^20
                         ELSE Offset(f) >= -4096 /\ Offset(f) < 4096

\* Faulty variant: the address of the next instruction is subtracted.
FixedUp_FromNext(f) ==
  IF f.jump.m = "JAL" THEN JalWord(f.jump.rd, Offset(f) - 4)
  ELSE BranchWord(BranchForms[f.jump.m], f.jump.rs1, f.jump.rs2, Offset(f) - 4)

FixedUp(f) ==
  IF f.jump.m = "JAL" THEN JalWord(f.jump.rd, Offset(f))
  ELSE BranchWord(BranchForms[f.jump.m], f.jump.rs1, f.jump.rs2, Offset(f))

Accepted == \A f \in fixups : f.target \in DOMAIN labels /\ Reaches(f)

finalize ==
  /\ mode = "script" /\ Accepted
  /\ mode' = "words"
  /\ words' = Over(words, [at \in {f.at : f \in fixups} |->
                            FixedUp(CHOOSE f \in fixups : f.at = at)])
  /\ UNCHANGED <<base, count, labels, fixups, image, calls, asked>>

Refuse ==
  /\ mode = "script" /\ ~Accepted /\ mode' = "refused"
  /\ UNCHANGED <<base, count, words, labels, fixups, image, calls, asked>>

\* words_to_bytes: the lowest byte first.
\* Faulty variant: what is above the byte is not masked off.
BytesOf_Unmasked(w) == [k \in 0 .. 3 |-> {b - 8 * k : b \in w \cap (8 * k .. 31)}]

BytesOf(w) == [k \in 0 .. 3 |-> {b - 8 * k : b \in w \cap (8 * k .. 8 * k + 7)}]

\* The placeholder at label RUN of the boot ROM, a jump to itself.
RunAt == {f.at : f \in {g \in fixups : base = 0 /\ g.jump.m = "JAL" /\ g.target = "RUN"
                                       /\ labels["RUN"] = PcOf(g.at)}}

\* The boot ROM's script makes it a jump to RAM_BASE before it writes the words.
Patched == Over(words, [at \in RunAt |-> JalWord(0, Entry - PcOf(at))])

Write ==
  /\ mode = "words" /\ mode' = "image"
  /\ image' = [at \in DOMAIN Patched |-> BytesOf(Patched[at])]
  /\ UNCHANGED <<base, count, words, labels, fixups, calls, asked>>

Init ==
  /\ mode = "script" /\ base \in Bases /\ count = 0
  /\ words = << >> /\ labels = << >> /\ image = << >>
  /\ fixups = {} /\ asked = {} /\ calls = 0

Next == Ask \/ OtherCode \/ label \/ Branch \/ Trampoline \/ finalize \/ Refuse \/ Write

Spec == Init /\ [][Next]_vars

--------------------------------------------------------------------------------
\* Every place is a call's, every word 32 bits.
TypeOK ==
  /\ mode \in {"script", "words", "image", "refused"} /\ base \in Bases /\ count \in Nat
  /\ DOMAIN words \subseteq 0 .. count - 1
  /\ \A at \in DOMAIN words : words[at] \subseteq 0 .. 31
  /\ \A l \in DOMAIN labels : labels[l] \in base .. addr
  /\ \A f \in fixups : f.at < count
  /\ \A at \in DOMAIN image : \A k \in 0 .. 3 : image[at][k] \subseteq 0 .. 7

\* The word the core fetches at a place: the lowest address is its lowest byte.
Fetched(at) == UNION {Shl(image[at][k], 8 * k) : k \in 0 .. 3}

BusAddr(n) == n % 256

GoesTo(at) == BusAddr(PcOf(at) + Decoded(Fetched(at)).imm)

\* What the core executes is what the script asked for: each instruction with its
\* operands, each branch to the address its label has on the bus, and each jump
\* to a fixed address to that address.
ExecutesAsAsked ==
  mode = "image" =>
    /\ \A q \in asked : q.at \notin RunAt =>
         IF "to" \in DOMAIN q
           THEN Decoded(Fetched(q.at)).m = "JAL" /\ GoesTo(q.at) = BusAddr(q.to)
           ELSE Decoded(Fetched(q.at)) = q.instr
    /\ \A f \in fixups : f.at \notin RunAt =>
         /\ GoesTo(f.at) = BusAddr(labels[f.target])
         /\ Decoded(Fetched(f.at)) =
              [Instruction(f.jump.m, f.jump.rd, f.jump.rs1, f.jump.rs2, 0)
                 EXCEPT !.imm = Decoded(Fetched(f.at)).imm]
    /\ \A at \in RunAt : Decoded(Fetched(at)).m = "JAL" /\ GoesTo(at) = BusAddr(Entry)

================================================================================
