-------------------------------- MODULE Rv32Core --------------------------------
(***************************************************************************)
(* rv32i_core.v: the multi-cycle state machine of the core.  One CoreStep  *)
(* is one rising edge of clk; it sees mem_ready and mem_rdata, which mem.v *)
(* derives combinationally from the bus outputs below.                      *)
(***************************************************************************)
EXTENDS Rv32Isa

VARIABLES
  state,                        \* the FSM state
  pc, next_pc, ir, alu_result,
  regs,                         \* x1 .. x31; not reset
  mem_addr, mem_wdata, mem_we, mem_size, mem_valid

busOut   == <<mem_addr, mem_wdata, mem_we, mem_size, mem_valid>>
coreVars == <<state, pc, next_pc, ir, alu_result, regs, busOut>>

State == {"FETCH", "FETCH_WAIT", "DECODE", "EXEC", "MEM", "MEM_WAIT", "WB", "HALTED"}

--------------------------------------------------------------------------------
ins == Decode(ir)

RegVal(r) == IF r = 0 THEN 0 ELSE regs[r]
rs1_val == RegVal(ins.rs1)
rs2_val == RegVal(ins.rs2)

alu_y   == AluOut(ins, rs1_val, rs2_val)
NextPc  == NextPcOf(ins, pc, rs1_val, rs2_val)

--------------------------------------------------------------------------------
CoreReset ==
  /\ state' = "FETCH" /\ pc' = 0 /\ ir' = 0
  /\ mem_we' = FALSE /\ mem_addr' = 0 /\ mem_size' = 2 /\ mem_wdata' = 0
  /\ mem_valid' = FALSE
  /\ UNCHANGED <<next_pc, alu_result, regs>>

Fetch ==
  /\ state = "FETCH" /\ state' = "FETCH_WAIT"
  /\ mem_addr' = pc /\ mem_we' = FALSE /\ mem_size' = 2 /\ mem_valid' = TRUE
  /\ UNCHANGED <<pc, next_pc, ir, alu_result, regs, mem_wdata>>

\* Faulty variant: the address leaves the bus with mem_valid.
FetchWait_DropsAddress(ready) ==
  /\ state = "FETCH_WAIT"
  /\ IF ready THEN mem_valid' = FALSE /\ mem_addr' = 0 /\ state' = "DECODE"
              ELSE UNCHANGED <<mem_valid, mem_addr, state>>
  /\ UNCHANGED <<pc, next_pc, ir, alu_result, regs, mem_wdata, mem_we, mem_size>>

FetchWait(ready) ==
  /\ state = "FETCH_WAIT"
  /\ IF ready THEN mem_valid' = FALSE /\ state' = "DECODE"
              ELSE UNCHANGED <<mem_valid, state>>
  /\ UNCHANGED <<pc, next_pc, ir, alu_result, regs, mem_addr, mem_wdata, mem_we, mem_size>>

\* mem_rdata is read one cycle after mem_valid was dropped.
DecodeStep(rdata) ==
  /\ state = "DECODE" /\ state' = "EXEC"
  /\ ir' = rdata
  /\ UNCHANGED <<pc, next_pc, alu_result, regs, busOut>>

Halt ==
  /\ state = "EXEC" /\ ins.op = "EBREAK"
  /\ state' = "HALTED" /\ mem_we' = FALSE /\ mem_valid' = FALSE
  /\ UNCHANGED <<pc, next_pc, ir, alu_result, regs, mem_addr, mem_wdata, mem_size>>

\* Faulty variant: a jump target computed in an earlier instruction is kept.
Exec_KeepsNextPc ==
  /\ state = "EXEC" /\ ins.op # "EBREAK"
  /\ state' = "MEM"
  /\ alu_result' = alu_y
  /\ next_pc' = IF ins.op = "BRANCH" THEN next_pc ELSE NextPc
  /\ UNCHANGED <<pc, ir, regs, busOut>>

Exec ==
  /\ state = "EXEC" /\ ins.op # "EBREAK"
  /\ state' = "MEM"
  /\ alu_result' = alu_y /\ next_pc' = NextPc
  /\ UNCHANGED <<pc, ir, regs, busOut>>

MemLoad ==
  /\ state = "MEM" /\ ins.op = "LOAD" /\ state' = "MEM_WAIT"
  /\ mem_addr' = alu_y % AddrVals /\ mem_we' = FALSE
  /\ mem_size' = ins.size /\ mem_valid' = TRUE
  /\ UNCHANGED <<pc, next_pc, ir, alu_result, regs, mem_wdata>>

MemStore ==
  /\ state = "MEM" /\ ins.op = "STORE" /\ state' = "MEM_WAIT"
  /\ mem_addr' = alu_y % AddrVals /\ mem_wdata' = rs2_val /\ mem_we' = TRUE
  /\ mem_size' = ins.size /\ mem_valid' = TRUE
  /\ UNCHANGED <<pc, next_pc, ir, alu_result, regs>>

MemNone ==
  /\ state = "MEM" /\ ins.op \notin {"LOAD", "STORE"} /\ state' = "MEM_WAIT"
  /\ mem_we' = FALSE /\ mem_valid' = FALSE
  /\ UNCHANGED <<pc, next_pc, ir, alu_result, regs, mem_addr, mem_wdata, mem_size>>

\* Faulty variants: mem_we stays high into WB; mem_valid does.
MemWait_KeepsWe(ready) ==
  /\ state = "MEM_WAIT"
  /\ IF ready THEN mem_valid' = FALSE /\ state' = "WB"
              ELSE UNCHANGED <<mem_valid, state>>
  /\ UNCHANGED <<pc, next_pc, ir, alu_result, regs, mem_addr, mem_wdata, mem_we, mem_size>>

MemWait_KeepsValid(ready) ==
  /\ state = "MEM_WAIT"
  /\ IF ready THEN mem_we' = FALSE /\ state' = "WB" ELSE UNCHANGED <<mem_we, state>>
  /\ UNCHANGED <<pc, next_pc, ir, alu_result, regs, mem_addr, mem_wdata, mem_size, mem_valid>>

MemWait(ready) ==
  /\ state = "MEM_WAIT"
  /\ IF ready THEN mem_valid' = FALSE /\ mem_we' = FALSE /\ state' = "WB"
              ELSE UNCHANGED <<mem_valid, mem_we, state>>
  /\ UNCHANGED <<pc, next_pc, ir, alu_result, regs, mem_addr, mem_wdata, mem_size>>

\* A load reads mem_rdata here, one cycle after mem_valid was dropped.
WriteBack(rdata) ==
  /\ state = "WB" /\ state' = "FETCH"
  /\ mem_we' = FALSE
  /\ regs' = IF WritesRd(ins)
               THEN [regs EXCEPT ![ins.rd] = RdValue(ins, pc, alu_result, rdata)]
               ELSE regs
  /\ pc' = next_pc
  /\ UNCHANGED <<next_pc, ir, alu_result, mem_addr, mem_wdata, mem_size, mem_valid>>

\* Faulty variant: a halted core fetches again.
Halted_Resumes ==
  /\ state = "HALTED" /\ state' = "FETCH"
  /\ mem_valid' = FALSE /\ mem_we' = FALSE
  /\ UNCHANGED <<pc, next_pc, ir, alu_result, regs, mem_addr, mem_wdata, mem_size>>

Halted ==
  /\ state = "HALTED"
  /\ mem_valid' = FALSE /\ mem_we' = FALSE
  /\ UNCHANGED <<state, pc, next_pc, ir, alu_result, regs, mem_addr, mem_wdata, mem_size>>

CoreStep(ready, rdata) ==
  \/ Fetch
  \/ FetchWait(ready)
  \/ DecodeStep(rdata)
  \/ Halt
  \/ Exec
  \/ MemLoad
  \/ MemStore
  \/ MemNone
  \/ MemWait(ready)
  \/ WriteBack(rdata)
  \/ Halted

\* rst_n is held low at power-up; what reset leaves alone starts anywhere.
CoreInit ==
  /\ state = "FETCH" /\ pc = 0 /\ ir = 0
  /\ mem_we = FALSE /\ mem_addr = 0 /\ mem_size = 2 /\ mem_wdata = 0
  /\ mem_valid = FALSE
  /\ next_pc \in Addr /\ alu_result \in Word
  /\ regs \in [Reg \ {0} -> Word]

--------------------------------------------------------------------------------
\* CoreTypeOK: the registers of rv32i_core.v have the ranges of their declarations.
CoreTypeOK ==
  /\ state \in State
  /\ pc \in Addr /\ next_pc \in Addr
  /\ ir \in Word /\ alu_result \in Word
  /\ regs \in [Reg \ {0} -> Word]
  /\ mem_addr \in Addr /\ mem_wdata \in Word /\ mem_size \in 0 .. 2
  /\ mem_we \in BOOLEAN /\ mem_valid \in BOOLEAN

\* WriteStrobe: mem_we is high only while a store waits for its answer, with
\* mem_valid high and its operands on the bus.  mem.v commits RAM and registers
\* on mem_we alone (mem.v:669), so a stray mem_we would be a stray write.
WriteStrobe ==
  mem_we => /\ mem_valid
            /\ state = "MEM_WAIT" /\ ins.op = "STORE"
            /\ mem_addr = alu_y % AddrVals /\ mem_wdata = rs2_val
            /\ mem_size = ins.size

\* AddressHeld: the address of a fetch is still on the bus when DECODE reads the
\* word, and the address and size of a load when WB reads it; mem.v selects what
\* mem_rdata shows from them after mem_valid has been dropped.
AddressHeld ==
  /\ state \in {"FETCH_WAIT", "DECODE"} => mem_addr = pc /\ mem_size = 2
  /\ (state \in {"MEM_WAIT", "WB"} /\ ins.op = "LOAD") =>
        mem_addr = alu_y % AddrVals /\ mem_size = ins.size

\* ResultFixed: what EXEC computed is still what the instruction computes when
\* WB uses it; no register or ir changes between the two.
ResultFixed ==
  /\ state \in {"MEM", "MEM_WAIT", "WB"} => next_pc = NextPc /\ alu_result = alu_y
  /\ state \in {"MEM", "MEM_WAIT", "WB"} => ins.op # "EBREAK"

================================================================================
