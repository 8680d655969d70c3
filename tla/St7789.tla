--------------------------------- MODULE St7789 ---------------------------------
(***************************************************************************)
(* The display program (tools/build_st7789_flash_image.py) on GPIO_OUT, and *)
(* the panel that hangs on its four low pins and samples MOSI on a rising  *)
(* SCK.  The program is pages of flash of one bit each; the boot ROM has   *)
(* the same pins before it, for its LED counter, and a reset gives them    *)
(* back to the ROM at any time while the panel, whose reset is tied high,  *)
(* keeps what it was in the middle of.                                     *)
(***************************************************************************)
EXTENDS Integers, Sequences

CONSTANTS
  PANEL_WIDTH, PANEL_HEIGHT, MADCTL_VALUE, FILL_COLOR,
  pixel_count, delay_count,
  BootLoops,   \* iterations of the boot ROM's MAIN_LOOP (512 in the code)
  StartAt,     \* displayed counts at which a host may be heard
  MaxResets    \* bound: resets of a behaviour

ASSUME DisplayAssumption ==
  /\ PANEL_WIDTH \in Nat \ {0} /\ PANEL_WIDTH <= 65536
  /\ PANEL_HEIGHT \in Nat \ {0} /\ PANEL_HEIGHT <= 65536
  /\ FILL_COLOR \in Nat /\ FILL_COLOR < 65536
  /\ MADCTL_VALUE \in Nat /\ MADCTL_VALUE < 256
  /\ pixel_count \in Nat \ {0} /\ delay_count \in Nat
  /\ BootLoops \in Nat \ {0} /\ BootLoops % 16 = 0
  /\ StartAt \subseteq 0 .. 15 /\ MaxResets \in Nat

VARIABLES
  mode,       \* "boot" in the ROM, "pages" in the program
  page, half, \* FLASH_PAGE; "setup" at the page's start, "pulse" or "loop" inside
  x2, x5,     \* scratch, pixels left to send
  x8, x9,     \* the boot ROM's self-test flag and counter
  gpio_out,
  resets,
  \* the panel
  bits,       \* bits of the byte it is in the middle of
  received,   \* bytes it has taken since page 0 was last entered
  \* history, for the properties only
  waited      \* delay iterations since the last byte

programVars == <<mode, page, half, x2, x5, x8, x9, resets>>
vars == <<programVars, gpio_out, bits, received, waited>>

DC_CMD  == 0
DC_DATA == 4

Sck(v)  == v % 2
Mosi(v) == (v \div 2) % 2
Dc(v)   == (v \div 4) % 2
Cs(v)   == (v \div 8) % 2

--------------------------------------------------------------------------------
\* What a store to GPIO_OUT does: CS high abandons a byte, a rising SCK under CS
\* low takes a bit, most significant first, and DC goes with the last of eight.
ByteOf(b) ==
  128 * b[1] + 64 * b[2] + 32 * b[3] + 16 * b[4] + 8 * b[5] + 4 * b[6] + 2 * b[7] + b[8]

Rising(v) == Cs(v) = 0 /\ Sck(gpio_out) = 0 /\ Sck(v) = 1

Deselected(v) == Cs(v) = 1 /\ bits' = << >> /\ UNCHANGED <<received, waited>>

NoEdge(v) == Cs(v) = 0 /\ ~Rising(v) /\ UNCHANGED <<bits, received, waited>>

TakesBit(v) ==
  /\ Rising(v) /\ Len(bits) < 7
  /\ bits' = Append(bits, Mosi(v)) /\ UNCHANGED <<received, waited>>

TakesByte(v) ==
  /\ Rising(v) /\ Len(bits) = 7
  /\ bits' = << >> /\ waited' = 0
  /\ received' = IF mode = "boot" THEN received
       ELSE Append(received, [data |-> Dc(v) = 1, byte |-> ByteOf(Append(bits, Mosi(v)))])

Writes(v) ==
  /\ gpio_out' = v
  /\ Deselected(v) \/ NoEdge(v) \/ TakesBit(v) \/ TakesByte(v)

NoWrite == UNCHANGED <<gpio_out, bits, received>>

--------------------------------------------------------------------------------
\* The boot ROM shows the low bits of its count beside the self-test's flag, and
\* leaves MAIN_LOOP when it hears a host or has counted enough.
Count ==
  /\ mode = "boot" /\ x9 < BootLoops
  /\ x9' = x9 + 1 /\ x2' = x8 + ((x9 + 1) % 16)
  /\ Writes(x2')
  /\ UNCHANGED <<mode, page, half, x5, x8, resets>>

\* Through the loader and the hand-off stub, or straight on, to page 0.
EnterFlash ==
  /\ mode = "boot"
  /\ x9 % 16 \in StartAt \/ x9 = BootLoops
  /\ mode' = "pages" /\ page' = 0 /\ half' = "setup"
  /\ NoWrite /\ UNCHANGED <<x2, x5, x8, x9, resets, waited>>

--------------------------------------------------------------------------------
\* An immediate is twelve bits, sign-extended.
Imm12(n) == IF n % 4096 >= 2048 THEN (n % 4096) - 4096 ELSE n % 4096

load_const32(n) == Imm12(n % 4096) + 4096 * Imm12(n \div 4096)

At(h) == mode = "pages" /\ half = h

TurnTo(p) == page' = p /\ half' = "setup"

\* Page 0: CS low for good, and the count of pixels.
Select ==
  /\ At("setup") /\ page = 0
  /\ x2' = 0 /\ Writes(0)
  /\ x5' = load_const32(pixel_count)
  /\ TurnTo(1)
  /\ UNCHANGED <<mode, x8, x9, resets>>

Block(at, dc, byte, next) == [at |-> at, dc |-> dc, byte |-> byte, next |-> next]

RING_START == 147
CTRL_PAGE  == 163
DONE_PAGE  == 164
DelayPages == {9, 18}

\* The blocks of eight pages, one for each bit of a byte, and where each goes on.
InitBlocks ==
  { Block(1, DC_CMD, 1, 9),                                  \* SWRESET
    Block(10, DC_CMD, 17, 18),                               \* SLPOUT
    Block(19, DC_CMD, 58, 27), Block(27, DC_DATA, 5, 35),    \* COLMOD
    Block(35, DC_CMD, 54, 43), Block(43, DC_DATA, MADCTL_VALUE, 51),
    Block(51, DC_CMD, 42, 59),                               \* CASET
    Block(59, DC_DATA, 0, 67), Block(67, DC_DATA, 0, 75),
    Block(75, DC_DATA, (PANEL_WIDTH - 1) \div 256, 83),
    Block(83, DC_DATA, (PANEL_WIDTH - 1) % 256, 91),
    Block(91, DC_CMD, 43, 99),                               \* RASET
    Block(99, DC_DATA, 0, 107), Block(107, DC_DATA, 0, 115),
    Block(115, DC_DATA, (PANEL_HEIGHT - 1) \div 256, 123),
    Block(123, DC_DATA, (PANEL_HEIGHT - 1) % 256, 131),
    Block(131, DC_CMD, 41, 139),                             \* DISPON
    Block(139, DC_CMD, 44, RING_START) }                     \* RAMWR

RingBlocks ==
  { Block(RING_START, DC_DATA, FILL_COLOR \div 256, RING_START + 8),
    Block(RING_START + 8, DC_DATA, FILL_COLOR % 256, CTRL_PAGE) }

Blocks == InitBlocks \cup RingBlocks

\* Bit 7 first.
\* Faulty variant: bit 0 first.
BitOn_LowFirst(b) == (b.byte \div 2^(page - b.at)) % 2

BitOn(b)  == (b.byte \div 2^(7 - (page - b.at))) % 2
Here(b)   == page \in b.at .. b.at + 7
NextOf(b) == IF page = b.at + 7 THEN b.next ELSE page + 1

SetupVal(b) == b.dc + 2 * BitOn(b)

\* The first store of a bit page: MOSI and DC, with SCK low.
\* Faulty variant: it lowers SCK and leaves MOSI and DC to the second.
SetupWrite_OnlySck(b) == gpio_out - Sck(gpio_out)

SetupWrite(b) == SetupVal(b)

SetUp ==
  /\ At("setup")
  /\ \E b \in Blocks : Here(b) /\ x2' = SetupWrite(b)
  /\ Writes(x2') /\ half' = "pulse"
  /\ UNCHANGED <<mode, page, x5, x8, x9, resets>>

\* The second: the same with SCK high; then the page is turned.
Pulse ==
  /\ At("pulse")
  /\ \E b \in Blocks : Here(b) /\ x2' = SetupVal(b) + 1 /\ TurnTo(NextOf(b))
  /\ Writes(x2')
  /\ UNCHANGED <<mode, x5, x8, x9, resets>>

\* The delays: loops within one page.
\* Faulty variant: the count is not loaded again for the second of them.
DelayLoaded_Once == IF page = 9 THEN Imm12(delay_count) ELSE x2

DelayLoaded == Imm12(delay_count)

DelayEnter ==
  /\ At("setup") /\ page \in DelayPages
  /\ x2' = DelayLoaded /\ half' = "loop"
  /\ NoWrite /\ UNCHANGED <<mode, page, x5, x8, x9, resets, waited>>

DelayLoop ==
  /\ At("loop") /\ x2 # 0
  /\ x2' = x2 - 1 /\ waited' = waited + 1
  /\ NoWrite /\ UNCHANGED <<mode, page, half, x5, x8, x9, resets>>

DelayDone ==
  /\ At("loop") /\ x2 = 0 /\ TurnTo(page + 1)
  /\ NoWrite /\ UNCHANGED <<mode, x2, x5, x8, x9, resets, waited>>

\* Is there another pixel, when n are left?
\* Faulty variants: one too few; the count is tested before it is decremented.
MorePixels_OneLess(n) == n > 1
MorePixels_Before(n)  == n + 1 # 0

MorePixels(n) == n # 0

Control ==
  /\ At("setup") /\ page = CTRL_PAGE
  /\ x5' = x5 - 1
  /\ TurnTo(IF MorePixels(x5 - 1) THEN RING_START ELSE DONE_PAGE)
  /\ NoWrite /\ UNCHANGED <<mode, x2, x8, x9, resets, waited>>

Spin == At("setup") /\ page = DONE_PAGE /\ UNCHANGED vars

--------------------------------------------------------------------------------
\* A reset clears GPIO_OUT and FLASH_PAGE and starts the ROM over; the panel's own
\* reset pin is not the program's.
Reset ==
  /\ mode = "pages" /\ resets < MaxResets
  /\ resets' = resets + 1
  /\ mode' = "boot" /\ page' = 0 /\ half' = "setup" /\ x9' = 0 /\ gpio_out' = 0
  /\ received' = << >> /\ waited' = 0 /\ bits' = bits
  /\ UNCHANGED <<x2, x5, x8>>

\* The panel's select pin floats until GPIO_OUT drives it, so it begins afresh.
Init ==
  /\ mode = "boot" /\ page = 0 /\ half = "setup" /\ x2 = 0 /\ x5 = 0
  /\ x8 \in {0, 128} /\ x9 = 0 /\ gpio_out = 0 /\ resets = 0
  /\ bits = << >> /\ received = << >> /\ waited = 0

Step == Count \/ EnterFlash \/ Select \/ SetUp \/ Pulse
          \/ DelayEnter \/ DelayLoop \/ DelayDone \/ Control \/ Spin

Next == Step \/ Reset

\* The clock runs on.
Spec == Init /\ [][Next]_vars /\ WF_vars(Step)

--------------------------------------------------------------------------------
\* The program stays on its pages and counts no more pixels than there are.
TypeOK ==
  /\ mode \in {"boot", "pages"} /\ page \in 0 .. DONE_PAGE
  /\ half \in {"setup", "pulse", "loop"}
  /\ x2 \in Nat /\ x5 \in 0 .. pixel_count
  /\ x8 \in {0, 128} /\ x9 \in 0 .. BootLoops /\ gpio_out \in 0 .. 255
  /\ resets \in 0 .. MaxResets /\ Len(bits) < 8 /\ waited \in Nat

\* MOSI, DC and CS have been up for a whole store before the panel samples them.
SetUpBeforeSampling ==
  [][Sck(gpio_out) = 0 /\ Sck(gpio_out') = 1
       => (gpio_out' \div 2) % 8 = (gpio_out \div 2) % 8]_vars

\* After SWRESET and after SLPOUT the panel is left alone for the whole delay
\* before the first bit of the next command.
Rests == Len(received) \in {1, 2} /\ bits # << >> => waited >= delay_count

Display == INSTANCE DisplayFill

\* StreamInOrder: what the panel has received is at any time a beginning of the
\* stream that fills it, with the right DC, whenever the program was entered and
\* wherever a reset had cut it off.
StreamInOrder == Display!Safety

\* StreamCompleted: and it receives the whole of it.
StreamCompleted == Display!Completes

================================================================================
