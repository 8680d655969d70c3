# AgilA32 in TLA+

A verification development of AgilA32, a small RV32I processor with a boot ROM, a shared
SPI engine for flash and PSRAM, a timer and a PWM. The hardware is Verilog under `src/`, the
boot ROM and the flash programs are built by Python under `tools/`, the serial memories and
the bootload host are those of `test/`. Paths in this file are relative to the repository.

Model-checking a module: `tlc -config qspi_link.cfg MCQspiLink`. Checking proofs:
`tlapm SocProofs.tla`.

## 1. Inventory

| component | state | operations | talks to |
|---|---|---|---|
| RV32I core, `src/rv32i_core.v` | FSM state, `pc`, `next_pc`, `ir`, `alu_result`, `x1..x31`, bus outputs | one per FSM state | mem.v: `addr wdata size we valid` out, `ready rdata` in |
| memory map, `src/mem.v` | 48 bytes of RAM, LED_OUT, FLASH_MODE, FLASH_PAGE, PSRAM_BANK, QSPI_CTRL, last SPI byte | on-chip read, on-chip write, request to the external port | core, engine |
| timer, PWM, pin mux, `src/mem.v`, `src/tt_um_agila32.v` | counter, enable, overflow; counter, duty, enable; mux | count, store, clear; count, store | mem.v's bus, `uo_out[7]` |
| QSPI engine, `src/qspi_shared_engine.v` | FSM state, chip selects, SCK, MOSI, shift register, bit and divider counters, answer | accept, shift low, shift high, done, post | mem.v (`req_*`), the pins |
| chips on the Pmod, `test/spi_ram_model.v` | contents, phase, bit counter, address | sample on rising SCK, drive on falling SCK, deselect | the pins |
| boot ROM, `tools/build_boot_rom.py` | `x1 x4 x5 x6 x7 x9`, the place in the program | self test, count on the LEDs, poll START, receive a byte, store it, time out, run | `ui_in`, GPIO_OUT, mem.v |
| bootload host, `test/test.py` | the bits still to send, the pins | START, data, clock up, clock down | `ui_in` |
| assembler, `tools/asm_pineapple.py`, and its older copy in the boot ROM's script | words, labels, fix-ups | encode, label, branch, finish, patch, write out | the core's decoder |
| page builder, `tools/asm_pineapple.py` | the pages of a flash image | emit, switch page, finish | flash, FLASH_PAGE |
| hand-off stub, `tools/build_flash_handoff_stub.py` | - | one store to FLASH_MODE | the window |
| PS/2 reader and ASCII decoder, `tools/build_ps2_*.py` | page, accumulator, two prefix flags, character | wait for an edge, sample, follow a prefix, look up, emit | keyboard on `ui_in`, GPIO_OUT, FLASH_PAGE |
| PS/2 keyboard, `test/tb_ps2_*.v` | the bytes of an event, edges of the frame | strike, next edge, end of frame | `ui_in` |
| ST7789 program, `tools/build_st7789_flash_image.py` | page, pixels left, delay | select, two stores a bit, delay, ring of pixels | panel on GPIO_OUT, FLASH_PAGE |
| ST7789 panel, `test/tb_st7789_driver.v` | bits of a byte, bytes received | sample on rising SCK, abandon on CS | GPIO_OUT |
| flash test images, `tools/build_flash_pagetest.py`, `build_flash_canary.py` | - | - | see section 5 |

Everything in the chip is clocked by one clock, with an asynchronous reset. What makes it
hard:

* **Handshakes without slack.** The engine answers with a single-cycle `req_ready`, the core
  drops `valid` a cycle later, and reads `rdata` a cycle after that. mem.v commits writes on
  `we` alone. `ready` is combinational, and decoded from the address the core holds.
* **Redirection of the next fetch.** A store to FLASH_MODE, FLASH_PAGE or PSRAM_BANK, or to
  RAM that is about to be executed, changes what the very next fetch returns.
* **Races on edges.** MOSI against SCK at the fastest divider; the timer's wrap against a
  store to its flag; the divider register against a transfer on the wires.
* **Polling instead of handshakes.** The boot ROM sees `ui_in` only when it loads it, and
  shares no clock and no acknowledge with the host; the start poll races with a timeout.
* **Devices that wait for nobody.** A keyboard clocks its frame at its own speed; an edge
  the program is too late for is lost and nothing tells it so. The panel takes every rising
  SCK it sees while it is selected, whoever made it.
* **Reset anywhere**, with registers and RAM that are not reset, and chips, keyboard and
  panel that are not connected to it at all.

What makes each component correct: the core executes one instruction at a time, in order;
mem.v gives each access the memory its address names and each store its effect once; a
request is one SPI transaction with the right frame on the right chip select; timer and PWM
keep time; the boot ROM starts what was sent, or the flash if nothing was; the assembler's
words mean to the decoder what the script asked for, and pages run as one program; the
keyboard programs show what is typed, once and in order; the panel receives the stream that
fills it.

## 2. Modules

| module | models |
|---|---|
| `Rv32Isa` | words, addresses, decoded instructions; next PC, write-back value, load extension |
| `Rv32Core` | the core's FSM, one action per state and outcome, one step per clock; its invariants |
| `AgilaMem` | mem.v: decode, read multiplexer, write path, registers |
| `AgilaIsa` | what the chip promises a program: atomic fetch and execute, no clock, no bus |
| `QspiBus`, `ChipMemory` | requests, chip selects; what a request means for chip contents |
| `QspiEngine`, `SpiChips` | the engine and the chips at the level of pins and edges |
| `QspiLink` | bus, engine and chips on one clock, with reset |
| `ExtPort` | what the external port promises: take, transfer, answer once, reset anywhere |
| `QspiProofs` | what a frame is bit by bit; the engine's properties and `QspiLink => ExtPort`, proved |
| `Soc` | core, mem.v and the port (as `ExtPort`) on one clock, with reset |
| `Timer`, `Pwm` | the two peripherals and the multiplexer of `uo_out[7]` |
| `Peripherals` | both on the one bus they share: at most one store a cycle, one reset |
| `BootLoader` | the boot ROM and the host at their own speeds |
| `PagedFlash` | the page builder call by call, then the run of its image under FLASH_PAGE |
| `PagedProgram` | what the page builder promises: pages of any length, no window |
| `Rv32Decode`, `Rv32Asm` | the decoder bit by bit; the assembler from call to image, with the patch of the boot ROM |
| `Ps2Reader` | a keyboard and the frame receiver both keyboard programs begin with |
| `Ps2Ascii` | the two programs whole: the reader's result page, the decoder's prefixes and table |
| `Keystrokes` | what they promise: what is typed is shown, in order, once |
| `St7789` | the display program store by store, the panel, and the boot ROM's use of the same pins |
| `DisplayFill` | what it promises: one stream of commands and data, from the start after a reset |
| `SocProofs`, `AsmProofs`, `PagedProofs`, `PeripheralsProofs`, `Ps2Proofs`, `BootProofs`, `St7789Proofs` | proofs |
| `MC*` | small instances |

    Rv32Isa -- Rv32Core --+
       |                  |
       +---- AgilaMem ----+-- Soc  --implements-->  AgilaIsa
                               |
                               +-- ExtPort  <--implements--  QspiLink
                                                             (QspiEngine + SpiChips)
    PagedFlash             --implements-->  PagedProgram
    Ps2Reader -- Ps2Ascii  --implements-->  Keystrokes
    St7789                 --implements-->  DisplayFill
    Timer + Pwm -- Peripherals          Rv32Decode -- Rv32Asm

The two hardware refinements meet in `ExtPort`. `QspiLink` implements it for any bus that
keeps its half of the handshake (`PortSafety`, proved); `Soc` uses it in place of the engine,
keeps that half (`BusContract`, proved) and implements `AgilaIsa` (`ExecutesTheIsa`, proved).

Correspondence with the code. Variables keep the names of the registers. A step of the
hardware modules is one rising edge: guards are the FSM state and conditions, primed
variables the non-blocking assignments. The exceptions:

* Data widths are constants (`ByteVals`, `AddrVals`, `ByteBits`, ...). An instruction is the
  record its decoder sees; the encoding, the ALU and the branch comparator are the constants
  `Decode`, `Alu` and `Taken`. The immediates are words, of which the PC uses its width.
* RAM is a function on bytes; the two words of `ram_pair` are the four bytes from an address
  on. An index past the last of `ram_words` reads an undefined word (`Past`) and a write to
  it is dropped.
* The timer and PWM registers and GPIO_IN are inputs of `AgilaMem` that any cycle may change;
  `Peripherals` models them on their own, with the store of a cycle as its input.
* Registers that reset leaves alone (`regs`, `ram`, `next_pc`, `alu_result`, chips) keep
  their values in `Reset` and start from sets of contents.
* A chip that samples MOSI on an edge where MOSI also changes gets either value.
* `PagedFlash` has two phases: the calls a build script makes, in any order they allow, and
  the core running the image. An instruction of the author is work, a load of the switch
  register or a branch to a label; `written` is the program as the script stated it. The
  core keeps the switch register over a reset, so on the first start it may hold any page.
* In `BootLoader` a step is the time of one ROM instruction (7 cycles). The ROM is at an
  instruction that reads the pins, or busy with the path to the next one; the effects of a
  path are taken when it starts and its length is counted. The bootloader's stores stay
  invisible until the jump, so when they happen within the path does not matter.

* In `Rv32Asm` a word is the set of the positions of its ones. A script is any sequence of
  calls; code that matters to nothing is a stretch of a given length, so that branches span
  their whole range. Offsets are compared in the eight bits the core has of an address.
* In `Ps2Ascii` a step is the longest time a page takes from its first instruction through
  its switch, and both the program and the keyboard move in it. The keyboard may leave a
  level for longer than `Hold` and the gap between frames for longer than `Gap` steps, never
  for less. Reader and decoder share their first pages, so one module runs both. They start
  out of the boot ROM with anything in their registers.
* In `St7789` a step is one store to GPIO_OUT, or a page's branch. Pages with the same
  content are one action for a block of eight. The boot ROM is its counter on the LEDs and
  the moment it leaves. A reset gives the pins back to the ROM; the panel's own reset pin is
  tied high in the program's wiring, so it keeps the bits it has, and the counter may complete
  one byte of them before SWRESET clears it: the stream is what comes from page 0 on.

`AgilaIsa` shares with the detailed model the constant operators of `Rv32Isa` and the memory
map of `AgilaMem` (what one instruction or one access does). The refinement is about
everything between: when the effects happen, in which order, how often, and from which
operands.

## 3. Runs

| run | shows | bounds |
|---|---|---|
| `qspi_link` | framing, clocking, chip selects and answers for reads and writes of three memories and the raw byte, with RAM B or a raw device that answers any bits on CS2; refinement of `ExtPort`; a request never stalls | 2-bit bytes, 1 address byte, 4-byte chips; half periods 1 and 2, changing at any time |
| `soc` | refinement of `AgilaIsa`; the discipline of the core's bus and of the port's; nothing moves under a request; flash is never written; silence after EBREAK; instructions end | 2-bit bytes, 48 addresses, 12 bytes of RAM; every pair of 12 instructions in the window and a few more, and every pair of 9 that use flash, pages, banks and the SPI byte, with two flash images |
| `peripherals` | flag and counter invent no wrap and lose none but the one a store to TIMER_FLAG meets; the duty over every window of one period; with stores to either in any cycle | 3 counts with two wraps of history, period 4 |
| `boot_loader` | what is started is what was sent; the host is never out of step | 3-bit bytes, 0 to 3 bytes of program, host phases of at least 56 cycles (test.py: 200), START at least 21 before the first bit |
| `paged_flash` | the image runs as its author wrote it; a page switch always meets the trampoline | windows of 6 words (11 in the code), every program of one or two pages of work, loads and branches |
| `rv32_asm` | what the decoder makes of an image is what the script asked for | 4 calls, of which one needs no label; every mnemonic; labels up to one word beyond a branch's reach; base 0 (boot ROM) and 0xB4 (page) |
| `ps2` | the receiver keeps its place; what is typed is shown in order, once, sooner or later | all 22 edges of a frame, all pages; 10 key events, 2 table entries; levels of at least 2 steps, gaps of at least 7 |
| `st7789` | the panel receives the stream whole and in order, set up before it is sampled, with both rests | panel 240 by 320; 3 pixels, delay 20, one reset at any store; entered at a displayed count of 8 to 15 or by the timeout after 16 counts (512 in the code) |

The instances keep every case apart: there are instructions of every kind, every access size
at every alignment that matters (a half word across the edge of the window and past the last
byte, a word over the next instruction), all four devices, the divider at its special value
one, transfers longer than a reset needs to hit every byte. Programs run off their two
instructions into PSRAM, unmapped addresses, registers and back to ROM, so the PC wraps.
`boot_loader` lets the host take any time longer than its minimum, so it covers every slower
host; 49 cycles a phase still pass and 42 do not. In `ps2`, `Gap + Hold` is 9, exactly what
the program needs: with a gap of 6 it loses its place, because six pages of the decoder look
at no edge. Key codes are those on either side of each limit (226, 227, 255, and the one
whose page is the emit page). A delay of 20 is exact in its twelve bits, so that `st7789`
checks that both delays are taken and `st7789_delay` that a real one is cut. The ring of
`st7789` is the same for any count: its first and its last pixel and one between are three,
and the two high bytes of the extents differ.

Four runs check a sentence of the documentation or a comment that the code does not keep:

* `soc_window_writes`: a half word that straddles the lower edge of the redirected window is
  stored into it.
* `boot_late_start`: START can be missed before the fallback.
* `st7789_boot_leds`: the boot ROM counts on the LEDs, whose low bits are the panel's SCK and
  whose bit 3 its CS. If a host is heard while the displayed count is below 8 the panel has
  been clocked, and as CS goes low once and for good it stays out of step. With a count of 8
  or above, as in the test bench, the program is right: that is `st7789`.
* `st7789_delay`: the delays are loaded by one immediate of twelve bits, so the two million
  iterations meant for a real panel are 1152.

More divergences were met and have no run. EBREAK halts, where docs/info.md:50 counts it
among the no-ops (a later section says that it halts). A store to TIMER_CTRL that does not
clear the counter costs it a count, where `src/mem.v:67` says that it counts once per clock
(`TimeRecovered` states what holds: also that a store to TIMER_FLAG in the cycle of a wrap
takes that wrap with it, and that no other wrap is lost). A page for which `bytes_free`
still shows four bytes is refused by `switch_to`, whose own load takes them
(`PadToAssertion`). A half word at 0xDF indexes `ram_words` past entry 11, which the comment
at `src/mem.v:316` excludes. A program longer than 44 bytes is stored past the RAM, where
docs/info.md:166 says the bootloader always loads into on-chip RAM. The protocol of
docs/info.md:148-150 is called a full handshake that needs no rate matching, while the
loader needs the host's phases to be longer than its longest path between two polls.
`load_const32` of the display program adds the low twelve bits sign-extended and does not
correct the upper part, so a number whose bit 11 is set comes out 4096 too small; 57600, the
count of the panel in the repository, has it clear (240 by 320 would not). The docstring of
the boot ROM says that it never touches FLASH_MODE; its fallback stores to it (line 312).

The keyboard programs have no way back once they are out of step: there is no timeout, and
start, parity and stop bit are not looked at, so a program that starts in the middle of a
frame stays there. `ps2` starts them with the line idle. A page visit is at most some 1540
clocks with the flash at its fastest divider; a real keyboard holds CLOCK for 30 to 50
microseconds, which the slower dividers do not leave time for. The test benches use the
fastest one and hold each level for 4000 clocks.

**Fairness.** `WF(Tick)`: the clock runs; there is no clock gate. For `Progress` in `Soc` also
`WF(Tick /\ Answer)`, the port eventually answers: that is what `Answered` shows of the
engine from the clock alone. For `Boots` also that the self test ends (its two accesses are
answered) and that a host which has asserted START goes on sending; nothing is assumed of
when it does, nor that it ever asserts START. For `ShownInTheEnd` also `WF(Tick /\ Send)`: a
keyboard that began an event finishes it; it need not begin one. For `StreamCompleted`
`WF(Step)`, the clock again; resets are not fair and are bounded.

## 4. Proofs

For every value of the constants that satisfies the named assumptions (`IsaAssumption`,
`AluAssumption`, `MapAssumption`, `SocAssumption`: widths are positive, the regions of the
address map do not overlap and lie in the right order, the ALU returns words; for the pages
`WindowAssumption` and `PagesAssumption`: a window of at least four words, page numbers that
fit FLASH_PAGE; for the engine `EngineAssumption`, `ChipsAssumption` and `LinkAssumption`:
bytes of at least two bits, half periods of at least a cycle, chips of at least four bytes,
addresses that fit the address bytes of a frame; for the boot loader `LoaderAssumption` and
`HostAssumption`: programs that fit the load window, and a host that leaves each level of
CLOCK for the time of eight instructions, 56 cycles where test.py takes 200; for the display
program `DisplayAssumption`: numbers that fit the bytes they are sent in; for the assembler
`AsmAssumption`: operands that fit their fields, which the encoders leave to the script, and
addresses that are words').

* `SocProofs`: type correctness of the whole chip, and from
  `IInv == TypeOK /\ Control /\ Handshake` the core's discipline (`WriteStrobe`,
  `AddressHeld`, `ResultFixed`) and the four action properties `BusContract`,
  `NothingMovesUnderARequest`, `FlashNeverWritten` and `HaltIsSilent`. `Control`
  is those three and that mem_valid is high in the two wait states only
  (`ValidPhases`); it is inductive whatever answers the core and when, and none of the four
  is alone: that `we` is low outside MEM_WAIT
  needs that it is low on entry, that the operands are still those of the instruction needs
  that neither `ir` nor the registers moved, which is `ResultFixed`. `Handshake` relates the
  port to the core: a busy or answering port serves the request that is on the bus, and it
  is not a write to the flash. It is needed because the port keeps its own copy of the
  request, and because mem.v's decode of the held address must not change under it, which is
  where the registers' not moving comes from.
  The refinement `ExecutesTheIsa` rests on `RInv == IInv /\ Answered /\ Strobed`: an answer of
  the port is right when it is given and is still the word at its address when DECODE, or WB
  of a load, reads it (`Answered`; that nothing writes in between is the contract of the bus),
  and a store that waits has mem_we high (`Strobed`). A fetch is mapped to the step that leaves
  DECODE; a store to PSRAM to the port's answer, any other to the step out of MEM_WAIT; every
  other instruction to WB; and a reset in the middle of a store to PSRAM to a reset of the
  abstract machine that leaves the first bytes of the word behind.
* `QspiProofs`: the safety properties of the `qspi_link` run and the refinement of `ExtPort`,
  for every width of bytes and addresses, divider table, set of requests and contents. `IInv`
  says where in the frame the engine is: which request it serves and that the bus still holds
  it (`Asked`), the counters (`Counted`), the age of the last SCK edge in each half period
  (`Timed`), what is left of the frame in the shift register (`Loaded`), what the chip has of
  it (`Received`) and which of its answers are in the register (`Sampled`). Each needs others:
  that the chip reads bit n of the frame at edge n needs that the register has been shifted n
  times and that MOSI has not moved since; that a frame is whole when the chip is deselected
  needs the counters. For the refinement `RInv` adds that the chips hold the contents at the
  accept with the bytes clocked in so far written over them (`Kept`), that the selected memory
  has on MISO the bit that is due (`Driven`), that the bits heard were those (`Heard`), and
  that no request names a chip the board lacks (`Wired`). A reset in the middle of a write maps
  to a reset of the abstract port after `WholeAt(Edges)` bytes.
  Its first part says what a frame is bit by bit, what shifting does to it, and what a memory
  makes of it: the header decodes to the command and the address (that the value of the bits
  is a number at all is an induction, done with the least element of a set), the last bit of
  byte b stores it at the b-th address, the answer is the bit at the chip's place.

* `PagedProofs`: type correctness and `SwitchMeetsTrampoline` for every window, every number
  of pages and every program. `Inv == Built /\ Placed`: `Built` says that a finished page has
  its store and jump at the fixed words, neither of them elsewhere, and branches that stay on
  it (`GoodPage`), and that the branches of the page being built are its author's; `Placed`
  that PC, FLASH_PAGE and the switch register are in range. `GoodPage` is needed because a
  branch onto the store or past it would break what the run relies on; it holds because a
  label is resolved against the words before it, which `Built` counts.
  The refinement `RunsAsWritten` adds to `Inv` that the page being built is the first words
  and then the author's instructions (`CurIsBody`), and that each finished page is laid out as
  written: its instructions in order behind the first words, then at most the load of a
  switch, padding, and the store and jump (`PagesAreWritten`). The author's index of a word is
  the number of words before it that are not padding (`Counted`), so moving over padding is a
  stutter, and a branch lands on the instruction its label named.

* `PeripheralsProofs`: type correctness, `TimeRecovered` and `DutyCycle` for every width of
  the two counters (`PeripheralsAssumption`: at least two values). `DutyCycle` speaks of a
  full window; `PwmInv` says of every shorter one how many of its cycles were below the duty,
  counted from wherever the window began (`Below`), and that this count over a whole period
  is the duty. `TimerInv` adds to `TimeRecovered` that no more
  cycles are unshown than were begun.
* `Ps2Proofs`: type correctness and `InStep` for every table, every set of key events and
  every keyboard with `Gap + Hold >= 9` (`Ps2Assumption`). `InStep` says where the keyboard
  is, not when: `OnTime` adds how long ago its last edge was, bounded by how deep behind the
  frame the program is in its pages (`Depth`), and that is what keeps a second edge from
  coming before the program listens again. The bits are arithmetic lemmas of their own.
  `ShowsWhatIsTyped` is the safety of `Ps2Ascii => Keystrokes`, again for every table, set of
  key events and such a keyboard. The invariant behind it (`RInv`) relates what is owed to
  the bytes struck and not dealt with (`Unread`): in the reader they are the same; in the
  decoder what is unread is what the flags leave (`Remaining`) of one key, or the last byte
  of one and the whole of the next, which is struck while the program is still at the
  decoder's pages. `Checked` says what each page has found out about the byte before it, so
  that the page that ends a key ends the one it was owed for.
* `BootProofs`: type correctness, `InStep` and `LoadedIsSent` for every program that fits the
  load window, every width of bytes and every host that holds each level of CLOCK for eight
  instructions. The argument is about time: `OnTime` bounds the ticks a path has left by
  those the host must still wait before it lowers CLOCK again (`Elapsed`, counted from the
  last time it did), so the chip always polls within the level it waits for. Eight is what
  this invariant needs: a byte takes fourteen instructions from the read that ends it to the
  next read of CLOCK, after a poll that may be seven late, and three levels are 24. (TLC finds
  that 49 cycles are enough on the instance, where the chip makes up between the bits of a
  byte for what it lost at its end; the proof does not use that.) `Placed` says which
  byte and bit of the message the chip is at, from the pointer, the count and the
  accumulator; it is what makes the bits sampled in order the bytes that were sent.
* `St7789Proofs`: `SetUpBeforeSampling` without conditions; type correctness, `Rests` and
  `StreamInOrder`, the safety of the refinement of `DisplayFill`, from what the code needs for
  them and no more: `HeardDeselected` (the boot ROM hears the host, or gives up, at a count
  that leaves CS high), `DelayFits` (the delay survives its immediate) and `CountFits` (the
  number of pixels survives `load_const32`). `st7789_boot_leds` and `st7789_delay` show that
  the first two are needed, and `WhatTheLoadsKeep` says which numbers the last two are: delays
  below 2048, and counts below 2^23 whose bit 11 is clear. `Inv` says where the program is
  (`Placed`: a page, its half, the store of that half on the pins; a block of bit pages is
  followed only from its last page), that the bits on the pins are bits (`Ranged`) and how far
  the boot ROM has counted (`Counted`). `StreamInv` relates it to the panel: the panel holds
  as many bits as the block has pages behind it, and they are the top bits of the block's byte
  (`Aligned`, `AlignedInBoot`); it has received as many bytes as blocks are behind the program,
  ring passes included (`InStream`, by `Taken` of the page and x5); and on the pages behind a
  delay it has been left alone for all of it (`Rested`). `Aligned` is why one bit more or less
  shifts the rest for good, and `Taken` is what makes the ring's last decrement come out: it
  needs that x5 is never negative on the ring (`PixelsLeft`), which is `CountFits`.
* `AsmProofs`: type correctness and `ExecutesAsAsked` for every script, whatever calls it
  makes and in which order, every instruction whose operands fit and every place of the
  labels. The first half is about words: which bits of a number a field keeps (`NumberOf`, by
  halving), what the decoder finds in a word of each format (`RWord` to `JWord`: the fields
  do not overlap, and each is where the decoder looks), and so that each mnemonic is read
  back as itself (`EncodedReads`); of a branch's scattered offset, that the pieces the core
  keeps are its low byte, all that eight address bits can tell. The second half is about the
  script: `IInv` says that what was asked for stands encoded at its place (`Asked`), that a
  branch has its place to itself and after finalize() its word (`Fixed`), and that the image
  is the words with the patch (`Written`). That no fix-up overwrites a word that was asked for
  needs both to be below the next place, which is why `Fixed` says so.

`SocProofs` begins with the arithmetic of widths, the ranges of the constant operators and
the preservation lemmas of the core alone; the proof about the chip goes through one step per
action and one lemma per conjunct.

Every invariant and action property that a passing run checks is proved, and the safety of
every refinement. Model-checked only is all liveness (`Answered`, `Progress`, `Boots`,
`StreamCompleted`, `ShownInTheEnd`), which is out of the prover's reach.

## 5. Not modelled

The arithmetic of the ALU and the branch comparator, which are constants given a small
instance; the flash test images, scripts of a few pages that end in a marker on GPIO_OUT (what
they exercise is `paged_flash` for every program of its size); the Tiny Tapeout template; the
ROM's words as executed by the core, whose program is modelled as actions instead; the test
benches except the devices in them; electrical matters; metastability of `ui_in`, which is
read without a synchroniser; the fixed `uio` directions.

Torn reads of TIMER_LO/HI, a length byte beyond the window, a host that stops in the middle
of a byte, a keyboard joined in the middle of a frame and a pixel count with bit 11 set are
known hazards without a property: the code makes no promise there.

## 6. Plan

Done: core, memory map, port, engine, peripherals, boot loader, pages, assembler against
decoder, keyboard programs, display program; proofs of the core's and the chip's control
invariants, of the pages, of the peripherals and of the frame receiver; what the boot loader
loads; the assembler against the decoder; the engine's properties and `QspiLink => ExtPort`; `Soc => AgilaIsa`; `PagedFlash =>
PagedProgram`; the display program; the safety of `St7789 => DisplayFill` and of `Ps2Ascii =>
Keystrokes`.

Left:

1. the boot ROM's words executed by `Soc` against `BootLoader`.
