-------------------------------- MODULE AgilaIsa --------------------------------
(***************************************************************************)
(* What AgilA32 promises to a program: instructions execute one at a time, *)
(* in order, each fetched after the effects of the one before it, and each *)
(* store takes effect once.  There are no clocks, buses or wait states.    *)
(* An instruction is fetched, then executed; GPIO and timer inputs move at *)
(* any time.  A reset abandons an instruction: of a PSRAM store it may     *)
(* leave the first bytes written, of anything else nothing.                *)
(***************************************************************************)
EXTENDS AgilaMem, ChipMemory

CONSTANT SpiReply   \* bytes the device on CS2 may answer

VARIABLES
  phase,      \* "fetch", "execute", "halted"
  pc, ir, regs,
  chips       \* contents of the external memory chips

vars == <<phase, pc, ir, regs, chips, memVars>>

--------------------------------------------------------------------------------
i    == Decode(ir)
Val(r) == IF r = 0 THEN 0 ELSE regs[r]
a    == Val(i.rs1)
b    == Val(i.rs2)

\* The words a read at an address may return.
ReadWords(addr, size) ==
  IF in_ext(addr, FALSE)
    THEN {WordOf(ReadWord(chips, ExtRequest(addr, FALSE, 0, size)))}
    ELSE {WordOf(OnChipBytes(addr, past)) : past \in PastWords(addr)}

Target   == AluOut(i, a, b) % AddrVals
StoreReq == ExtRequest(Target, TRUE, b, i.size)

IsPsramStore == phase = "execute" /\ i.op = "STORE" /\ in_ext_psram(Target)

Advance(rd_word) ==
  /\ phase = "execute" /\ phase' = "fetch"
  /\ pc' = NextPcOf(i, pc, a, b)
  /\ regs' = IF WritesRd(i)
               THEN [regs EXCEPT ![i.rd] = RdValue(i, pc, AluOut(i, a, b), rd_word)]
               ELSE regs
  /\ inputs' \in Inputs
  /\ UNCHANGED ir

--------------------------------------------------------------------------------
FetchInstruction ==
  /\ phase = "fetch" /\ phase' = "execute"
  /\ ir' \in ReadWords(pc, 2)
  /\ inputs' \in Inputs
  /\ UNCHANGED <<pc, regs, chips, ram, regVars>>

Compute ==
  /\ i.op \notin {"LOAD", "STORE", "EBREAK"}
  /\ Advance(0)
  /\ UNCHANGED <<chips, ram, regVars>>

Load ==
  /\ i.op = "LOAD"
  /\ \E w \in ReadWords(Target, i.size) : Advance(w)
  /\ UNCHANGED <<chips, ram, regVars>>

Store ==
  /\ i.op = "STORE"
  /\ Advance(0)
  /\ MemWrite(TRUE, Target, b, i.size)
  /\ spi_last_rx' \in IF in_spi_write(Target, TRUE) THEN SpiReply ELSE {spi_last_rx}
  /\ chips' = IF IsPsramStore THEN Written(chips, StoreReq, DataBytes(StoreReq)) ELSE chips

Ebreak ==
  /\ phase = "execute" /\ i.op = "EBREAK"
  /\ phase' = "halted"
  /\ inputs' \in Inputs
  /\ UNCHANGED <<pc, ir, regs, chips, ram, regVars>>

InputsMove == inputs' \in Inputs /\ UNCHANGED <<phase, pc, ir, regs, chips, ram, regVars>>

Reset ==
  /\ phase' = "fetch" /\ pc' = 0 /\ ir' = 0
  /\ MemReset
  /\ \E k \in 0 .. 4 :
       /\ k <= IF IsPsramStore THEN DataBytes(StoreReq) ELSE 0
       /\ chips' = IF k = 0 THEN chips ELSE Written(chips, StoreReq, k)
  /\ UNCHANGED regs

Init ==
  /\ phase = "fetch" /\ pc = 0 /\ ir = 0
  /\ MemInit
  /\ regs \in [Reg \ {0} -> Word]
  /\ ram \in [RamIndex -> Byte]
  /\ chips \in [Chip -> [0 .. MemSize - 1 -> Byte]]

Next == FetchInstruction \/ Compute \/ Load \/ Store \/ Ebreak \/ InputsMove \/ Reset

Spec == Init /\ [][Next]_vars

================================================================================
