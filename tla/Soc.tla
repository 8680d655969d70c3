----------------------------------- MODULE Soc -----------------------------------
(***************************************************************************)
(* The chip: rv32i_core.v and mem.v wired as in tt_um_agila32.v, with the  *)
(* external port in the abstract form that QspiLink implements.  One Tick  *)
(* is one rising edge of clk for all three; mem_ready and mem_rdata are    *)
(* the combinational answers of mem.v to the bus as it stands.             *)
(***************************************************************************)
EXTENDS Rv32Core, AgilaMem

CONSTANTS
  MemSize, SpiReply,
  InitRegs,        \* power-up contents of the registers in the model
  InitMemories     \* and of RAM and chips together

ASSUME SocAssumption ==
  /\ MemSize \in Nat \ {0} /\ SpiReply \subseteq Byte
  /\ InitRegs \subseteq [Reg \ {0} -> Word]
  /\ InitMemories \subseteq [ram   : [RamIndex -> Byte],
                              chips : [Chip -> [0 .. MemSize - 1 -> Byte]]]

VARIABLES port, cur, chips, ext_rdata

portVars == <<port, cur, chips, ext_rdata>>
vars     == <<coreVars, memVars, portVars>>

--------------------------------------------------------------------------------
ext_req_valid == mem_valid /\ in_ext(mem_addr, mem_we)
ext_req       == ExtRequest(mem_addr, mem_we, mem_wdata, mem_size)

AllRequests == [we : BOOLEAN, dev : Dev, addr : Nat, wdata : [1 .. 4 -> Byte], size : Size]

P == INSTANCE ExtPort WITH
  ZeroByte <- 0, Requests <- AllRequests,
  req_valid <- ext_req_valid, req <- ext_req, rdata <- ext_rdata

ext_ready == P!ready
\* Faulty variants: external accesses are not waited for; on-chip ones wait too.
mem_ready_NeverWaits == TRUE
mem_ready_AlwaysWaits == IF mem_valid THEN ext_ready ELSE TRUE

mem_ready == IF ext_req_valid THEN ext_ready ELSE TRUE

mem_rdata(past) ==
  WordOf(IF in_ext(mem_addr, mem_we) THEN ext_rdata ELSE OnChipBytes(mem_addr, past))

--------------------------------------------------------------------------------
Tick ==
  /\ \E past \in PastWords(mem_addr) : CoreStep(mem_ready, mem_rdata(past))
  /\ MemStep(mem_we, mem_addr, mem_wdata, mem_size, ext_ready, ext_rdata)
  /\ P!PortStep(ext_req_valid, ext_req)

Reset == CoreReset /\ MemReset /\ P!PortReset

Init ==
  /\ next_pc = 0 /\ alu_result = 0 /\ regs \in InitRegs
  /\ \E m \in InitMemories : ram = m.ram /\ chips = m.chips
  /\ CoreInit
  /\ MemInit
  /\ port = "idle" /\ ext_rdata = [k \in 1 .. 4 |-> 0]
  /\ cur = [we |-> FALSE, dev |-> Spi, addr |-> 0, wdata |-> Bytes(0), size |-> 0]

Next == Tick \/ Reset

\* The clock runs for ever, and a transfer ends (Answered in QspiLink).
Spec == Init /\ [][Next]_vars /\ WF_vars(Tick) /\ WF_vars(Tick /\ P!Answer)

--------------------------------------------------------------------------------
\* A store has taken effect once it is in WB, and a PSRAM store as soon as the
\* port answers it.
StoreDone ==
  /\ ins.op = "STORE"
  /\ \/ state = "WB"
     \/ state = "MEM_WAIT" /\ in_ext_psram(mem_addr) /\ ext_ready

Phase ==
  IF state = "HALTED" THEN "halted"
  ELSE IF state \in {"FETCH", "FETCH_WAIT", "DECODE"} \/ StoreDone THEN "fetch"
  ELSE "execute"

Arch == INSTANCE AgilaIsa WITH
  ZeroByte <- 0, phase <- Phase, pc <- IF StoreDone THEN next_pc ELSE pc

\* ExecutesTheIsa: clock by clock, the chip executes the instructions of its
\* program one at a time, in order, each store taking effect once, and each
\* fetch seeing the effect of the store before it (FLASH_MODE, FLASH_PAGE,
\* PSRAM_BANK and self-modified RAM included).
ExecutesTheIsa == Arch!Spec

\* BusContract: the core and mem.v keep the contract the external port needs: a
\* request is raised, held unchanged until ready, and low in the next cycle.
BusContract == [][P!Next]_(P!vars)

\* NothingMovesUnderARequest: while a transaction is in flight no register that
\* its request or its timing was made from changes.
NothingMovesUnderARequest ==
  [][(port = "busy" /\ port' # "idle") =>
        UNCHANGED <<flash_mode, flash_page, psram_bank, qspi_div_sel>>]_vars

\* HaltIsSilent: once EBREAK has halted the core it stays halted, nothing it
\* could write changes and the external bus stays idle, until reset.
HaltIsSilent ==
  [][state = "HALTED" =>
       \/ state' = "HALTED" /\ UNCHANGED <<pc, regs, ram, regVars, chips, port>>
       \/ state' = "FETCH" /\ pc' = 0 /\ port' = "idle" /\ UNCHANGED <<regs, ram, chips>>]_vars

\* FlashNeverWritten: no access, whatever its address, mode and page, is a write
\* to the flash on CS0.
FlashNeverWritten == [][chips'[ChipOf(Flash)] = chips[ChipOf(Flash)]]_vars

\* TypeOK: every register of the core, of mem.v and of the port has the range of its
\* declaration, and memories hold bytes.
PortTypeOK ==
  /\ cur \in AllRequests /\ port \in {"idle", "busy", "post"}
  /\ chips \in [Chip -> [0 .. MemSize - 1 -> Byte]]
  /\ ext_rdata \in [1 .. 4 -> Byte]

TypeOK == CoreTypeOK /\ MemTypeOK /\ PortTypeOK

\* Progress: however long transfers take, the core keeps finishing instructions
\* unless it has halted.
Progress == []<>(state \in {"FETCH", "HALTED"})

--------------------------------------------------------------------------------
\* What a comment of mem.v says, and the code does not do.

\* WindowWritesDropped: "Writes to [the load window] while FLASH_MODE is set are
\* dropped" (mem.v:25-26).
WindowWritesDropped ==
  [][flash_mode /\ flash_mode' =>
       \A k \in RamIndex : k >= LOAD_BASE - RAM_BASE => ram'[k] = ram[k]]_vars

================================================================================
