-------------------------------- MODULE BootLoader --------------------------------
(***************************************************************************)
(* The boot ROM (tools/build_boot_rom.py) against the host that drives     *)
(* DATA, CLOCK and START on ui_in (boot_send_program in test/test.py).     *)
(* There is no acknowledge line: chip and host meet only through the pins, *)
(* and the chip sees them only when it executes LW GPIO_IN.                *)
(*                                                                         *)
(* One Tick is the time of one ROM instruction, 7 clock cycles.  The chip  *)
(* is at a label whose first instruction reads the pins, or is busy with   *)
(* the instructions up to the next such read; the effects of a path are    *)
(* taken when it begins, its length in instructions is kept in busy.       *)
(***************************************************************************)
EXTENDS Integers, Sequences

CONSTANTS
  ByteBits,      \* bits per byte (8 in the code)
  Power,         \* Power[n] = 2^n, for n up to ByteBits
  Timeout,       \* iterations of MAIN_LOOP (2^TIMEOUT_SHIFT in the code)
  Hold,          \* ticks the host leaves the pins alone at least (200 cycles in test.py)
  StartHold,     \* ticks between START and the first bit at least (20 cycles)
  Messages,      \* programs a host may send: sequences of bytes
  AddrVals, RAM_BASE, LOAD_BASE, RAM_END, EXT_PSRAM_END, FLASH_MODE,
  PsramTicks     \* time of a store to the PSRAM window, in ticks

Byte == 0 .. Power[ByteBits] - 1
Addr == 0 .. AddrVals - 1
Ram  == RAM_BASE .. RAM_END - 1

ASSUME LoaderAssumption ==
  /\ ByteBits \in Nat \ {0} /\ Timeout \in Nat \ {0}
  /\ Power \in [0 .. ByteBits -> Nat \ {0}] /\ Power[0] = 1
  /\ \A n \in 1 .. ByteBits : Power[n] = 2 * Power[n - 1]
  /\ Hold \in Nat /\ StartHold \in Nat /\ PsramTicks \in Nat
  /\ {AddrVals, RAM_BASE, LOAD_BASE, RAM_END, EXT_PSRAM_END, FLASH_MODE} \subseteq Nat
  /\ 0 < RAM_BASE /\ RAM_BASE < LOAD_BASE /\ LOAD_BASE < RAM_END
  /\ RAM_END <= EXT_PSRAM_END /\ EXT_PSRAM_END <= FLASH_MODE /\ FLASH_MODE < AddrVals

\* What the chip cannot check: the program fits the load window, and the host leaves
\* each level of CLOCK there long enough for the longest path between two reads of it.
ASSUME HostAssumption ==
  /\ Messages \subseteq Seq(Byte)
  /\ \A m \in Messages : Len(m) \in Byte /\ LOAD_BASE + Len(m) <= RAM_END
  /\ Hold >= 8

VARIABLES
  \* the chip
  label, busy,
  ra,            \* x1: which call of RECV_BYTE is running
  x4, x5, x6, x7, x9,
  ram, flash_mode,
  \* the pins and the host
  data, clock, start,
  host,          \* "idle", "setup", "high", "low", "sent"
  held,          \* ticks since the host last moved a pin
  msg,           \* the program it sends
  raised,        \* bits it has clocked: rising edges of CLOCK
  \* history, for the properties only
  got            \* bits the chip has sampled

chipVars == <<label, busy, ra, x4, x5, x6, x7, x9, ram, flash_mode, got>>
pins     == <<data, clock, start>>
hostVars == <<pins, host, held, msg, raised>>
vars     == <<chipVars, hostVars>>

\* The bits of a message on the wire: length byte, then the program, MSB first.
WireBytes(m) == <<Len(m)>> \o m
WireBit(m, n) ==
  (WireBytes(m)[1 + (n - 1) \div ByteBits]
     \div Power[ByteBits - 1 - ((n - 1) % ByteBits)]) % 2
WireLength(m) == ByteBits * (1 + Len(m))

--------------------------------------------------------------------------------
\* The chip goes on to a label after a path of n instructions.
GoTo(l, n) == label' = l /\ busy' = n - 1

Working == busy > 0 /\ busy' = busy - 1
           /\ UNCHANGED <<label, ra, x4, x5, x6, x7, x9, ram, flash_mode, got>>

\* RECV_BYTE clears its accumulator and its bit counter.
\* Faulty variant: the accumulator keeps what it held.
EnterRecvByte_KeepsX6(caller) == ra' = caller /\ x7' = 0 /\ UNCHANGED x6

EnterRecvByte(caller) == ra' = caller /\ x6' = 0 /\ x7' = 0

\* SELFTEST and MAIN_INIT; its result only lights an LED.
SelfTest ==
  /\ label = "SELFTEST" /\ busy = 0
  /\ \/ UNCHANGED <<label, busy, x9>>
     \/ GoTo("MAIN_LOOP", 1) /\ x9' = 0
  /\ UNCHANGED <<ra, x4, x5, x6, x7, ram, flash_mode, got>>

\* MAIN_LOOP polls START and counts its iterations.
StartSeen ==
  /\ label = "MAIN_LOOP" /\ busy = 0 /\ start = 1
  /\ GoTo("BIT_WAIT_HIGH", 6)
  /\ EnterRecvByte("length")
  /\ UNCHANGED <<x4, x5, x9, ram, flash_mode, got>>

\* The count that a fruitless poll leads to.
\* Faulty variant: the count is tested only after one more poll.
GivesUp_OneLate(n) == n > Timeout

GivesUp(n) == n >= Timeout

NoStart ==
  /\ label = "MAIN_LOOP" /\ busy = 0 /\ start = 0
  /\ x9' = x9 + 1
  /\ GoTo(IF GivesUp(x9 + 1) THEN "TIMED_OUT" ELSE "MAIN_LOOP", 9)
  /\ UNCHANGED <<ra, x4, x5, x6, x7, ram, flash_mode, got>>

Fallback ==
  /\ label = "TIMED_OUT" /\ busy = 0
  /\ flash_mode' = TRUE
  /\ GoTo("RUN", 2)
  /\ UNCHANGED <<ra, x4, x5, x6, x7, x9, ram, got>>

BitWaitHigh ==
  /\ label = "BIT_WAIT_HIGH" /\ busy = 0
  /\ IF clock = 0
       THEN GoTo("BIT_WAIT_HIGH", 3) /\ UNCHANGED <<x6, got>>
       ELSE /\ GoTo("BIT_WAIT_LOW", 6 + data)
            /\ x6' = 2 * x6 + data
            /\ got' = Append(got, data)
  /\ UNCHANGED <<ra, x4, x5, x7, x9, ram, flash_mode>>

\* Faulty variant: the low phase of CLOCK is not waited for.
StillHigh_NotWaited == FALSE

StillHigh == clock = 1

BitWaitLow ==
  /\ label = "BIT_WAIT_LOW" /\ busy = 0
  /\ \/ StillHigh /\ GoTo("BIT_WAIT_LOW", 3) /\ UNCHANGED x7
     \/ ~StillHigh /\ x7 + 1 < ByteBits /\ GoTo("BIT_WAIT_HIGH", 6) /\ x7' = x7 + 1
  /\ UNCHANGED <<ra, x4, x5, x6, x9, ram, flash_mode, got>>

ByteReceived == label = "BIT_WAIT_LOW" /\ busy = 0 /\ ~StillHigh /\ x7 + 1 >= ByteBits

\* START_SEEN after its call, and the first test of BYTE_LOOP.
LengthReceived ==
  /\ ByteReceived /\ ra = "length"
  /\ x4' = x6 /\ x5' = LOAD_BASE
  /\ IF x6 = 0 THEN GoTo("RUN", 10) /\ UNCHANGED <<ra, x6, x7>>
               ELSE GoTo("BIT_WAIT_HIGH", 13) /\ EnterRecvByte("byte")
  /\ UNCHANGED <<x9, ram, flash_mode, got>>

\* BYTE_LOOP goes round again after the byte it has just stored.
\* Faulty variant: the last byte of a longer program is not waited for.
MoreBytes_OneEarly == x4 > 2

MoreBytes == x4 # 1

\* One round of BYTE_LOOP: SB, advance, test.  The bus has AddrVals addresses; what
\* is past the load window is the PSRAM window, then the registers, then ROM.
DataReceived ==
  LET a    == x5 % AddrVals
      wait == IF a >= RAM_END /\ a < EXT_PSRAM_END THEN PsramTicks ELSE 0
  IN /\ ByteReceived /\ ra = "byte"
     /\ ram' = IF a \in Ram /\ (flash_mode => a < LOAD_BASE)
                 THEN [ram EXCEPT ![a] = x6 % Power[ByteBits]] ELSE ram
     /\ flash_mode' = (flash_mode \/ a = FLASH_MODE)
     /\ x5' = x5 + 1 /\ x4' = x4 - 1
     /\ IF MoreBytes THEN GoTo("BIT_WAIT_HIGH", 15 + wait) /\ EnterRecvByte("byte")
                     ELSE GoTo("RUN", 12 + wait) /\ UNCHANGED <<ra, x6, x7>>
     /\ UNCHANGED <<x9, got>>

\* The jump to the load window: the ROM is left.
Run ==
  /\ label = "RUN" /\ busy = 0 /\ GoTo("LOADED", 1)
  /\ UNCHANGED <<ra, x4, x5, x6, x7, x9, ram, flash_mode, got>>

Gone == label = "LOADED" /\ busy = 0 /\ UNCHANGED chipVars

ChipTick ==
  \/ Working \/ SelfTest \/ StartSeen \/ NoStart \/ Fallback
  \/ BitWaitHigh \/ BitWaitLow \/ LengthReceived \/ DataReceived \/ Run \/ Gone

--------------------------------------------------------------------------------
\* The host.  It may take longer over any step than it must.
MaxHold == IF Hold > StartHold THEN Hold ELSE StartHold
Wait == held' = (IF held < MaxHold THEN held + 1 ELSE held)
        /\ UNCHANGED <<pins, host, msg, raised>>

\* It has waited past the self-test.
AssertStart ==
  /\ host = "idle" /\ label # "SELFTEST"
  /\ start' = 1 /\ host' = "start" /\ held' = 1
  /\ UNCHANGED <<data, clock, msg, raised>>

PutData ==
  /\ \/ host = "start" /\ held >= StartHold
     \/ host = "low" /\ held >= Hold /\ raised < WireLength(msg)
  /\ data' = WireBit(msg, raised + 1) /\ host' = "setup" /\ held' = 1
  /\ UNCHANGED <<clock, start, msg, raised>>

RaiseClock ==
  /\ host = "setup" /\ held >= Hold
  /\ clock' = 1 /\ host' = "high" /\ held' = 1 /\ raised' = raised + 1
  /\ UNCHANGED <<data, start, msg>>

LowerClock ==
  /\ host = "high" /\ held >= Hold
  /\ clock' = 0 /\ host' = "low" /\ held' = 1
  /\ UNCHANGED <<data, start, msg, raised>>

Send     == PutData \/ RaiseClock \/ LowerClock
HostTick == Wait \/ AssertStart \/ Send

--------------------------------------------------------------------------------
Init ==
  /\ label = "SELFTEST" /\ busy = 0 /\ ra = "length"
  /\ x4 = 0 /\ x5 = 0 /\ x6 = 1 /\ x7 = 0 /\ x9 = 0
  /\ ram = [a \in Ram |-> 0] /\ flash_mode = FALSE /\ got = << >>
  /\ data = 0 /\ clock = 0 /\ start = 0
  /\ host = "idle" /\ held = 0 /\ msg \in Messages /\ raised = 0

Tick == ChipTick /\ HostTick
Next == Tick

\* The chip's clock runs, its self-test ends (the port always answers), and a host
\* that has asserted START goes on sending.
Spec == Init /\ [][Next]_vars /\ WF_vars(Tick)
        /\ WF_vars(Tick /\ label' # "SELFTEST") /\ WF_vars(Tick /\ Send)

--------------------------------------------------------------------------------
\* TypeOK: pins are bits, registers words, and the PC stays in the ROM until RUN.
TypeOK ==
  /\ label \in {"SELFTEST", "MAIN_LOOP", "TIMED_OUT", "BIT_WAIT_HIGH", "BIT_WAIT_LOW",
                "RUN", "LOADED"}
  /\ busy \in Nat /\ ra \in {"length", "byte"}
  /\ x4 \in Byte /\ x5 \in Nat /\ x6 \in Byte /\ x7 \in 0 .. ByteBits - 1
  /\ x9 \in 0 .. Timeout
  /\ ram \in [Ram -> Byte] /\ flash_mode \in BOOLEAN
  /\ data \in 0 .. 1 /\ clock \in 0 .. 1 /\ start \in 0 .. 1
  /\ host \in {"idle", "start", "setup", "high", "low"} /\ held \in 0 .. MaxHold
  /\ msg \in Messages /\ raised \in 0 .. WireLength(msg)

\* InStep: the chip has sampled every bit the host has clocked, once, in order and
\* with the right level, except the one that may be on the pins now.
InStep ==
  host # "idle" /\ label \notin {"TIMED_OUT", "RUN", "LOADED"} /\ ~flash_mode =>
    /\ Len(got) \in {raised - 1, raised}
    /\ host \in {"setup", "low"} /\ held >= Hold => Len(got) = raised
    /\ \A n \in DOMAIN got : got[n] = WireBit(msg, n)

\* LoadedIsSent: a program that is started from RAM is the program that was sent,
\* all of it, with its last bit clocked; the flash is started only after the whole
\* timeout and if not a single bit was received.
LoadedIsSent ==
  label = "LOADED" =>
    IF flash_mode
      THEN got = << >> /\ x9 = Timeout
      ELSE /\ raised = WireLength(msg) /\ Len(got) = raised
           /\ \A k \in DOMAIN msg : ram[LOAD_BASE + k - 1] = msg[k]

\* Boots: with or without a host the ROM ends up starting a program.
Boots == <>(label = "LOADED")

--------------------------------------------------------------------------------
\* What docs/info.md says, and the code does not do.

\* StartInTime: "The host can assert START at any point before the boot-timeout
\* fallback below fires" (docs/info.md:154-155): START up before FLASH_MODE is
\* written is a bootload.
StartInTime == [][start = 1 /\ ~flash_mode => ~(label = "TIMED_OUT" /\ flash_mode')]_vars

================================================================================
