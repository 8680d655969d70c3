-------------------------------- MODULE Ps2Reader --------------------------------
(***************************************************************************)
(* A PS/2 keyboard and the frame receiver that both keyboard programs      *)
(* start with (tools/build_ps2_reader.py, pages 0-22): a program of flash  *)
(* pages in which every page waits for one edge of CLOCK.                  *)
(*                                                                         *)
(* One Tick is the time a page takes at most, from its first instruction   *)
(* through its page switch; a page that polls reads GPIO_IN once in it.    *)
(* The keyboard keeps its own time: there is no handshake, and an edge the *)
(* program does not look at in time is lost.                               *)
(***************************************************************************)
EXTENDS Integers, Sequences

CONSTANTS
  Image,    \* programs in flash: subset of {"reader", "ascii"}
  Events,   \* key events of the model: [extended, released, code]
  Hold,     \* ticks the keyboard leaves CLOCK at a level at least
  Gap       \* ticks it leaves CLOCK high at least between two frames

Byte == 0 .. 255

\* The prefixes of Scan Code Set 2.
BREAK_PREFIX    == 240   \* 0xF0
EXTENDED_PREFIX == 224   \* 0xE0

ASSUME Ps2Assumption ==
  /\ Image \subseteq {"reader", "ascii"}
  /\ Events \subseteq [extended : BOOLEAN, released : BOOLEAN,
                       code : Byte \ {BREAK_PREFIX, EXTENDED_PREFIX}]
  /\ Hold \in Nat \ {0} /\ Gap \in Nat /\ Gap + Hold >= 9

VARIABLES
  image,      \* the program in flash
  page,       \* FLASH_PAGE
  accum,      \* x4, ACCUM
  \* the keyboard
  bytes,      \* bytes of the event in progress still to be sent, the current one first
  edges,      \* edges of CLOCK made in the current frame, 0 between frames
  held,       \* ticks since the last edge
  \* history, for the properties only
  lastByte    \* the byte of the last complete frame

keyboardVars == <<bytes, edges, held, lastByte>>

FrameEdges == 22   \* start, eight data, parity and stop bit: two edges each

--------------------------------------------------------------------------------
\* CLOCK idles high; a bit is on DATA while CLOCK is low.
Clock == IF edges % 2 = 1 THEN 0 ELSE 1

\* bit_value of data bit n = 0 .. 7, and that bit of a byte.
BitValue == <<1, 2, 4, 8, 16, 32, 64, 128, 256>>
BitOf(b, n) == (b \div BitValue[n + 1]) % 2

Parity(b) == (1 + BitOf(b, 0) + BitOf(b, 1) + BitOf(b, 2) + BitOf(b, 3) + BitOf(b, 4)
                + BitOf(b, 5) + BitOf(b, 6) + BitOf(b, 7)) % 2

\* Bit k of a frame: start, data with the least significant bit first, parity, stop.
FrameBit(b, k) ==
  IF k = 0 THEN 0 ELSE IF k <= 8 THEN BitOf(b, k - 1) ELSE IF k = 9 THEN Parity(b) ELSE 1

Data == IF Clock = 1 THEN 1 ELSE FrameBit(Head(bytes), edges \div 2)

WireBytes(e) ==
  (IF e.extended THEN <<EXTENDED_PREFIX>> ELSE << >>)
    \o (IF e.released THEN <<BREAK_PREFIX>> ELSE << >>) \o <<e.code>>

MaxHeld == IF Hold > Gap THEN Hold ELSE Gap   \* beyond it, waiting makes no difference

Rest ==
  /\ held' = IF held < MaxHeld THEN held + 1 ELSE held
  /\ UNCHANGED <<bytes, edges, lastByte>>

\* A key is struck: the start bit of its first byte.
Strike(e) ==
  /\ edges = 0 /\ bytes = << >> /\ held >= Gap
  /\ bytes' = WireBytes(e) /\ edges' = 1 /\ held' = 1
  /\ UNCHANGED lastByte

StartFrame ==
  /\ edges = 0 /\ bytes # << >> /\ held >= Gap
  /\ edges' = 1 /\ held' = 1
  /\ UNCHANGED <<bytes, lastByte>>

NextEdge ==
  /\ edges > 0 /\ edges < FrameEdges - 1 /\ held >= Hold
  /\ edges' = edges + 1 /\ held' = 1
  /\ UNCHANGED <<bytes, lastByte>>

EndFrame ==
  /\ edges = FrameEdges - 1 /\ held >= Hold
  /\ edges' = 0 /\ held' = 1
  /\ lastByte' = Head(bytes) /\ bytes' = Tail(bytes)

Send == StartFrame \/ NextEdge \/ EndFrame

KeyboardInit ==
  /\ bytes = << >> /\ edges = 0 /\ held = Gap /\ lastByte = 0

--------------------------------------------------------------------------------
\* The pages.  Page 0 starts; page n = 1 .. 22 waits for edge n of a frame, odd
\* pages for CLOCK low, even ones for CLOCK high; odd pages from BIT_PAGES_START
\* to 17 sample a data bit from the read that saw CLOCK low.
START_LOW       == 1
BIT_PAGES_START == 3
PARITY_LOW      == 19
STOP_HIGH       == 22
RESULT_PAGE     == 23

SamplePages == {3, 5, 7, 9, 11, 13, 15, 17}

\* Faulty variant: the pages' bits are counted from one.
BitIndex_From1(p) == (p - BIT_PAGES_START) \div 2 + 1

BitIndex(p) == (p - BIT_PAGES_START) \div 2

\* x4 after ORI with a bit_value.
Ored(x, n) == IF BitOf(x, n) = 1 THEN x ELSE x + BitValue[n + 1]

EdgeSeen(p) == Clock = (IF p % 2 = 1 THEN 0 ELSE 1)

Start == page = 0 /\ page' = START_LOW /\ accum' = 0

Poll ==
  /\ page \in 1 .. STOP_HIGH /\ ~EdgeSeen(page)
  /\ UNCHANGED <<page, accum>>

wait_clock ==
  /\ page \in (1 .. STOP_HIGH) \ SamplePages /\ EdgeSeen(page)
  /\ page' = page + 1 /\ UNCHANGED accum

wait_clock_low_and_sample ==
  /\ page \in SamplePages /\ EdgeSeen(page)
  /\ page' = page + 1
  /\ accum' = IF Data = 1 THEN Ored(accum, BitIndex(page)) ELSE accum

Receive == Poll \/ wait_clock \/ wait_clock_low_and_sample

================================================================================
