------------------------------- MODULE St7789Proofs -------------------------------
(***************************************************************************)
(* Theorems about the display program, for every panel, colour, number of  *)
(* pixels and length of the rests.  What the code takes for granted of its *)
(* constants is named here and is a hypothesis of the theorems that need   *)
(* it; the runs st7789_boot_leds and st7789_delay show what is lost        *)
(* without the first two.                                                  *)
(***************************************************************************)
EXTENDS St7789, SequenceTheorems, TLAPS

\* A host is heard while the displayed count holds the panel's CS high.
HeardDeselected == StartAt \subseteq 8 .. 15

\* The immediate keeps the delay, and load_const32 the number of pixels.
DelayFits == Imm12(delay_count) = delay_count
CountFits == load_const32(pixel_count) = pixel_count

--------------------------------------------------------------------------------
\* Where the program is: the half of a page it can be in there, and between the
\* two stores of a bit page what the first has left on the pins.
Placed ==
  /\ mode \in {"boot", "pages"} /\ page \in 0 .. DONE_PAGE
  /\ half \in {"setup", "pulse", "loop"}
  /\ mode = "boot" => half = "setup"
  /\ half = "loop" => page \in DelayPages
  /\ half = "pulse" => \E b \in Blocks : Here(b) /\ gpio_out = SetupVal(b)

\* What the boot ROM's count has left on the pins.
Counted ==
  /\ x8 \in {0, 128} /\ x9 \in 0 .. BootLoops
  /\ mode = "boot" => gpio_out = IF x9 = 0 THEN 0 ELSE x8 + (x9 % 16)

Bit    == {0, 1}
Taking == [data : BOOLEAN, byte : Int]

Ranged ==
  /\ gpio_out \in Nat /\ gpio_out < 256 /\ resets \in 0 .. MaxResets
  /\ x2 \in Int /\ x5 \in Int /\ waited \in Nat
  /\ bits \in Seq(Bit) /\ Len(bits) < 8
  /\ received \in Seq(Taking)

Inv == Placed /\ Counted /\ Ranged

\* The registers count down from what was loaded and are not counted past zero.
DelayLeft == x2 \in Nat

PixelsLeft ==
  /\ x5 \in 0 .. pixel_count
  /\ mode = "pages" /\ page \in 1 .. CTRL_PAGE => x5 > 0

--------------------------------------------------------------------------------
\* The bytes of the stream that precede page p, with n pixels to go.
Taken(p, n) ==
  IF p < 9 THEN 0 ELSE IF p < 18 THEN 1 ELSE IF p < 27 THEN 2
  ELSE IF p < RING_START THEN 2 + ((p - 19) \div 8)
  ELSE LET gone == load_const32(pixel_count) - n
       IN  18 + gone + gone + (IF p = DONE_PAGE THEN 0 ELSE (p - RING_START) \div 8)

\* The panel is empty whenever a byte is begun, and holds the first bits of the
\* byte that the program is in the middle of.
AlignedInBoot ==
  mode = "boot" /\ x9 > 0 /\ x9 % 16 \notin 1 .. 7 => bits = << >>

Aligned ==
  mode = "pages" =>
    \/ bits = << >> /\ \A b \in Blocks : Here(b) => page = b.at
    \/ \E b \in Blocks :
         /\ Here(b) /\ Len(bits) = page - b.at
         /\ \A i \in 1 .. 7 : i <= Len(bits) => bits[i] = (b.byte \div 2^(8 - i)) % 2

\* The program is as far in the stream as the panel.
InStream ==
  /\ Len(received) = IF mode = "boot" THEN 0 ELSE Taken(page, x5)
  /\ mode = "pages" /\ page > 0 =>
       /\ x5 <= load_const32(pixel_count)
       /\ page < RING_START => x5 = load_const32(pixel_count)

\* How long the program has left the panel alone.
Rested ==
  /\ mode = "boot" \/ page = 0 \/ (page \in DelayPages /\ half = "setup") => waited = 0
  /\ mode = "pages" /\ half = "loop" => x2 + waited = Imm12(delay_count)
  /\ mode = "pages" /\ (page \in 10 .. 17 \/ page \in 19 .. 26) => waited = Imm12(delay_count)

StreamInv == Inv /\ AlignedInBoot /\ Aligned /\ InStream /\ Rested

--------------------------------------------------------------------------------
\* The blocks: consecutive but for the two delays, each as wide as a byte.
Starts ==
  {1, 10, 19, 27, 35, 43, 51, 59, 67, 75, 83, 91, 99, 107, 115, 123, 131, 139,
   RING_START, RING_START + 8}

LEMMA BlockTypes ==
  ASSUME NEW b \in Blocks
  PROVE  /\ b.at \in Starts /\ b.next = b.at + 8
         /\ b.dc \in {0, 4} /\ b.byte \in Nat /\ b.byte < 256
<1>1. b.at \in Starts /\ b.next = b.at + 8
  BY SMTT(60) DEF Blocks, InitBlocks, RingBlocks, Block, Starts, RING_START, CTRL_PAGE
<1>2. b.dc \in {0, 4}
  BY SMTT(60) DEF Blocks, InitBlocks, RingBlocks, Block, DC_CMD, DC_DATA
<1>3. \A n \in Nat : n < 65536 => n \div 256 \in Nat /\ n \div 256 < 256
                                 /\ n % 256 \in Nat /\ n % 256 < 256
  OBVIOUS
<1>4. /\ PANEL_WIDTH - 1 \in Nat /\ PANEL_WIDTH - 1 < 65536
      /\ PANEL_HEIGHT - 1 \in Nat /\ PANEL_HEIGHT - 1 < 65536
      /\ FILL_COLOR \in Nat /\ FILL_COLOR < 65536
      /\ MADCTL_VALUE \in Nat /\ MADCTL_VALUE < 256
  BY DisplayAssumption
<1>5. b.byte \in Nat /\ b.byte < 256
  BY <1>3, <1>4, SMTT(60) DEF Blocks, InitBlocks, RingBlocks, Block
<1> QED  BY <1>1, <1>2, <1>5

LEMMA OneBlockAtEach ==
  ASSUME NEW b \in Blocks, NEW c \in Blocks, b.at = c.at
  PROVE  b = c
  BY SMTT(60) DEF Blocks, InitBlocks, RingBlocks, Block, RING_START, CTRL_PAGE

\* A page is in at most one of them.
LEMMA OneBlock ==
  ASSUME NEW b \in Blocks, NEW c \in Blocks, page \in Nat, Here(b), Here(c)
  PROVE  b = c
<1>1. b.at \in Starts /\ c.at \in Starts
  BY BlockTypes
<1>2. b.at = c.at
  BY <1>1 DEF Here, Starts, RING_START
<1> QED  BY <1>2, OneBlockAtEach

\* The weights of a byte's bits: the prover evaluates powers of numerals only.
LEMMA Weights ==
  ASSUME NEW e \in 0 .. 7
  PROVE  2^e \in {1, 2, 4, 8, 16, 32, 64, 128}
<1> DEFINE w == 2^e
<1>1. e = 0 \/ e = 1 \/ e = 2 \/ e = 3 \/ e = 4 \/ e = 5 \/ e = 6 \/ e = 7
  OBVIOUS
<1>2. \/ w = 2^0 \/ w = 2^1 \/ w = 2^2 \/ w = 2^3
      \/ w = 2^4 \/ w = 2^5 \/ w = 2^6 \/ w = 2^7
  BY <1>1, Zenon
<1> HIDE DEF w
<1>3. w \in {2^0, 2^1, 2^2, 2^3, 2^4, 2^5, 2^6, 2^7}
  BY <1>2, Zenon
<1>4. w \in {1, 2, 4, 8, 16, 32, 64, 128}
  BY <1>3, SMT
<1> QED  BY <1>4 DEF w

\* What the two stores of a bit page write.
LEMMA SetupRange ==
  ASSUME NEW b \in Blocks, page \in Nat, Here(b)
  PROVE  /\ BitOn(b) \in {0, 1}
         /\ SetupVal(b) \in {0, 2, 4, 6}
<1>1. b.dc \in {0, 4} /\ b.byte \in Int /\ 7 - (page - b.at) \in 0 .. 7
  BY BlockTypes DEF Here, Starts, RING_START
<1> DEFINE w == 2^(7 - (page - b.at))
<1>2. w \in {1, 2, 4, 8, 16, 32, 64, 128}
  BY <1>1, Weights
<1> HIDE DEF w
<1>3. (b.byte \div w) % 2 \in {0, 1}
  BY <1>1, <1>2
<1>4. BitOn(b) \in {0, 1}
  BY <1>3 DEF BitOn, w
<1> QED  BY <1>1, <1>4 DEF SetupVal

--------------------------------------------------------------------------------
\* A store keeps the panel's registers in range.
LEMMA StoreTypes ==
  ASSUME Ranged, NEW v \in Nat, Writes(v)
  PROVE  /\ gpio_out' = v
         /\ waited' \in Nat /\ bits' \in Seq(Bit) /\ Len(bits') < 8
         /\ received' \in Seq(Taking)
<1> DEFINE more == Append(bits, Mosi(v))
<1>1. gpio_out' = v
  BY DEF Writes
<1>2. Mosi(v) \in Bit
  BY DEF Mosi, Bit
<1>3. more \in Seq(Bit) /\ Len(more) = Len(bits) + 1
  BY <1>2 DEF Ranged
<1>4. CASE Deselected(v) \/ NoEdge(v)
  <2>1. received' = received /\ waited' = waited
    BY <1>4 DEF Deselected, NoEdge
  <2>2. bits' = << >> \/ bits' = bits
    BY <1>4 DEF Deselected, NoEdge
  <2>3. << >> \in Seq(Bit) /\ Len(<< >>) < 8
    OBVIOUS
  <2>4. bits' \in Seq(Bit) /\ Len(bits') < 8
    BY <2>2, <2>3, Zenon DEF Ranged
  <2> QED  BY <1>1, <2>1, <2>4 DEF Ranged
<1>5. CASE TakesBit(v)
  BY <1>1, <1>3, <1>5 DEF TakesBit, Ranged
<1>6. CASE TakesByte(v)
  <2>1. more[1] \in Int /\ more[2] \in Int /\ more[3] \in Int /\ more[4] \in Int
        /\ more[5] \in Int /\ more[6] \in Int /\ more[7] \in Int /\ more[8] \in Int
    <3>1. Len(more) = 8
      BY <1>3, <1>6 DEF TakesByte
    <3>2. \A i \in 1 .. 8 : more[i] \in Bit
      <4> HIDE DEF more
      <4> QED  BY <1>3, <3>1, ElementOfSeq
    <3> HIDE DEF more
    <3> QED  BY <3>2 DEF Bit
  <2>2. ByteOf(more) \in Int
    <3> HIDE DEF more
    <3> QED  BY <2>1 DEF ByteOf
  <2> DEFINE t == [data |-> Dc(v) = 1, byte |-> ByteOf(more)]
  <2>3. t \in Taking
    BY <2>2, Zenon DEF Taking
  <2>4. received' = received \/ received' = Append(received, t)
    BY <1>6 DEF TakesByte
  <2> HIDE DEF t, more
  <2>5. received' \in Seq(Taking)
    BY <2>3, <2>4 DEF Ranged
  <2> QED  BY <1>1, <1>6, <2>5 DEF TakesByte
<1> QED  BY <1>4, <1>5, <1>6 DEF Writes

LEMMA Loaded == load_const32(pixel_count) \in Int /\ Imm12(delay_count) \in Int
<1>1. \A n \in Nat : Imm12(n) \in Int
  BY DEF Imm12
<1> QED  BY <1>1, DisplayAssumption DEF load_const32

LEMMA RangedStep == Ranged /\ Placed /\ Counted /\ [Next]_vars => Ranged'
<1> SUFFICES ASSUME Ranged, Placed, Counted, [Next]_vars  PROVE Ranged'
  OBVIOUS
<1> USE DEF Ranged
<1>1. CASE Count
  <2>1. x8 + ((x9 + 1) % 16) \in Nat /\ x8 + ((x9 + 1) % 16) < 256
    BY DisplayAssumption DEF Counted
  <2>2. x2' \in Nat /\ x2' < 256 /\ Writes(x2') /\ x5' = x5 /\ resets' = resets
    BY <1>1, <2>1 DEF Count
  <2> QED  BY <2>2, StoreTypes
<1>2. CASE EnterFlash
  BY <1>2 DEF EnterFlash, NoWrite
<1>3. CASE Select
  BY <1>3, StoreTypes, Loaded DEF Select
<1>4. CASE SetUp
  <2>1. PICK b \in Blocks : Here(b) /\ x2' = SetupVal(b)
    BY <1>4 DEF SetUp, SetupWrite
  <2>2. x2' \in Nat /\ x2' < 256
    BY <2>1, SetupRange DEF Placed
  <2> QED  BY <1>4, <2>2, StoreTypes DEF SetUp
<1>5. CASE Pulse
  <2>1. PICK b \in Blocks : Here(b) /\ x2' = SetupVal(b) + 1
    BY <1>5 DEF Pulse
  <2>2. x2' \in Nat /\ x2' < 256
    BY <2>1, SetupRange DEF Placed
  <2> QED  BY <1>5, <2>2, StoreTypes DEF Pulse
<1>6. CASE DelayEnter \/ DelayLoop \/ DelayDone
  BY <1>6, Loaded DEF DelayEnter, DelayLoop, DelayDone, DelayLoaded, NoWrite
<1>7. CASE Control
  BY <1>7 DEF Control, NoWrite
<1>8. CASE Reset
  BY <1>8, DisplayAssumption DEF Reset
<1>9. CASE Spin \/ UNCHANGED vars
  BY <1>9 DEF Spin, vars, programVars
<1> QED  BY <1>1, <1>2, <1>3, <1>4, <1>5, <1>6, <1>7, <1>8, <1>9 DEF Next, Step

\* Where a bit page goes on.
LEMMA Turned ==
  ASSUME NEW b \in Blocks, page \in Nat, Here(b)
  PROVE  NextOf(b) \in 1 .. CTRL_PAGE
<1>1. b.at \in 1 .. 155 /\ b.next = b.at + 8
  BY BlockTypes DEF Starts, RING_START
<1> QED  BY <1>1 DEF NextOf, Here, CTRL_PAGE

LEMMA PlacedStep == Placed /\ [Next]_vars => Placed'
<1> SUFFICES ASSUME Placed, [Next]_vars  PROVE Placed'
  OBVIOUS
<1>1. CASE Count
  BY <1>1 DEF Count, Placed
<1>2. CASE EnterFlash
  BY <1>2 DEF EnterFlash, Placed, DONE_PAGE
<1>3. CASE Select
  BY <1>3 DEF Select, Placed, TurnTo, At, DONE_PAGE
<1>4. CASE SetUp
  <2>1. PICK b \in Blocks : Here(b) /\ x2' = SetupVal(b)
    BY <1>4 DEF SetUp, SetupWrite
  <2>2. gpio_out' = SetupVal(b) /\ page' = page /\ mode' = mode /\ half' = "pulse" /\ mode = "pages"
    BY <1>4, <2>1 DEF SetUp, Writes, At
  <2>3. Here(b)' /\ SetupVal(b)' = SetupVal(b)
    BY <2>1, <2>2 DEF Here, SetupVal, BitOn
  <2>4. gpio_out' = SetupVal(b)'
    BY <2>2, <2>3
  <2> QED  BY <2>2, <2>3, <2>4 DEF Placed
<1>5. CASE Pulse
  <2>1. PICK b \in Blocks : Here(b) /\ TurnTo(NextOf(b))
    BY <1>5 DEF Pulse
  <2>2. page' \in 1 .. CTRL_PAGE /\ half' = "setup" /\ mode' = mode
    BY <1>5, <2>1, Turned DEF Placed, TurnTo, Pulse
  <2> QED  BY <2>2 DEF Placed, CTRL_PAGE, DONE_PAGE
<1>6. CASE DelayEnter \/ DelayLoop
  BY <1>6 DEF DelayEnter, DelayLoop, Placed, At
<1>7. CASE DelayDone
  BY <1>7 DEF DelayDone, Placed, TurnTo, At, DelayPages, DONE_PAGE
<1>8. CASE Control
  BY <1>8 DEF Control, TurnTo, Placed, RING_START, DONE_PAGE
<1>9. CASE Reset
  BY <1>9 DEF Reset, Placed, DONE_PAGE
<1>10. CASE Spin \/ UNCHANGED vars
  <2>1. UNCHANGED <<mode, page, half, gpio_out>>
    BY <1>10 DEF Spin, vars, programVars
  <2> QED  BY <2>1 DEF Placed, Here, SetupVal, BitOn
<1> QED  BY <1>1, <1>2, <1>3, <1>4, <1>5, <1>6, <1>7, <1>8, <1>9, <1>10 DEF Next, Step

LEMMA CountedStep == Counted /\ [Next]_vars => Counted'
<1> SUFFICES ASSUME Counted, [Next]_vars  PROVE Counted'
  OBVIOUS
<1> USE DisplayAssumption DEF Counted
<1>1. CASE Count
  BY <1>1 DEF Count, Writes
<1>2. CASE EnterFlash
  BY <1>2 DEF EnterFlash
<1>3. CASE Select \/ SetUp \/ Pulse \/ DelayEnter \/ DelayLoop \/ DelayDone \/ Control
  BY <1>3 DEF Select, SetUp, Pulse, DelayEnter, DelayLoop, DelayDone, Control, At
<1>4. CASE Reset
  BY <1>4 DEF Reset
<1>5. CASE Spin \/ UNCHANGED vars
  BY <1>5 DEF Spin, vars, programVars
<1> QED  BY <1>1, <1>2, <1>3, <1>4, <1>5 DEF Next, Step

LEMMA InvInit == Init => Inv
<1> SUFFICES ASSUME Init  PROVE Inv
  OBVIOUS
<1>1. << >> \in Seq(Bit) /\ Len(<< >>) < 8 /\ << >> \in Seq(Taking)
  OBVIOUS
<1>2. bits \in Seq(Bit) /\ Len(bits) < 8 /\ received \in Seq(Taking)
  BY <1>1, Zenon DEF Init
<1>3. Ranged
  BY <1>2, DisplayAssumption DEF Init, Ranged
<1> QED  BY <1>3, DisplayAssumption DEF Init, Inv, Placed, Counted, DONE_PAGE

LEMMA InvStep == Inv /\ [Next]_vars => Inv'
  BY RangedStep, PlacedStep, CountedStep DEF Inv

LEMMA InvInvariant == Spec => []Inv
  BY InvInit, InvStep, PTL DEF Spec

--------------------------------------------------------------------------------
\* SetUpFirst: whoever writes the pins, the boot ROM's count or the program, and
\* whatever a reset interrupts, MOSI, DC and CS stand for a whole store before SCK
\* rises.
THEOREM SetUpFirst == Spec => SetUpBeforeSampling
<1> DEFINE Held == Sck(gpio_out) = 0 /\ Sck(gpio_out') = 1
                     => (gpio_out' \div 2) % 8 = (gpio_out \div 2) % 8
<1>1. Inv /\ [Next]_vars => [Held]_vars
  <2> SUFFICES ASSUME Inv, Next  PROVE Held
    OBVIOUS
  <2> USE DEF Inv
  <2>1. CASE Count
    <3>1. gpio_out' = x8 + ((x9 + 1) % 16) /\ x8 \in {0, 128} /\ x9 \in Nat
      BY <2>1, DisplayAssumption DEF Count, Writes, Counted
    <3>2. gpio_out = IF x9 = 0 THEN 0 ELSE x8 + (x9 % 16)
      BY <2>1 DEF Count, Counted
    <3>3. CASE x9 = 0
      BY <3>1, <3>2, <3>3 DEF Sck
    <3>4. CASE x9 # 0
      <4> DEFINE r == x9 % 16
      <4>1. r \in 0 .. 15 /\ (x9 + 1) % 16 = IF r = 15 THEN 0 ELSE r + 1
        BY <3>1
      <4> HIDE DEF r
      <4>2. gpio_out = x8 + r
        BY <3>2, <3>4 DEF r
      <4>3. \A g \in Nat : g % 2 = 0 => (g + 1) \div 2 = g \div 2
        OBVIOUS
      <4>4. CASE r = 15
        BY <3>1, <4>1, <4>4 DEF Sck
      <4>5. CASE r # 15
        <5>1. gpio_out' = gpio_out + 1 /\ gpio_out \in Nat
          BY <3>1, <4>1, <4>2, <4>5
        <5>2. gpio_out % 2 = 0 => gpio_out' \div 2 = gpio_out \div 2
          BY <4>3, <5>1
        <5> QED  BY <5>2 DEF Sck
      <4> QED  BY <4>4, <4>5
    <3> QED  BY <3>3, <3>4
  <2>2. CASE Pulse
    <3>1. PICK b \in Blocks : Here(b) /\ x2' = SetupVal(b) + 1
      BY <2>2 DEF Pulse
    <3>2. PICK c \in Blocks : Here(c) /\ gpio_out = SetupVal(c)
      BY <2>2 DEF Placed, Pulse, At
    <3>3. b = c
      BY <3>1, <3>2, OneBlock DEF Placed
    <3>4. gpio_out' = gpio_out + 1 /\ gpio_out \in {0, 2, 4, 6}
      BY <2>2, <3>1, <3>2, <3>3, SetupRange DEF Placed, Pulse, Writes
    <3> QED  BY <3>4 DEF Sck
  <2>3. CASE SetUp
    <3>1. PICK b \in Blocks : Here(b) /\ x2' = SetupVal(b)
      BY <2>3 DEF SetUp, SetupWrite
    <3>2. gpio_out' \in {0, 2, 4, 6}
      BY <2>3, <3>1, SetupRange DEF Placed, SetUp, Writes
    <3>3. \A g \in {0, 2, 4, 6} : Sck(g) = 0
      BY DEF Sck
    <3> QED  BY <3>2, <3>3
  <2>4. CASE Select \/ Reset
    <3>1. gpio_out' = 0
      BY <2>4 DEF Select, Reset, Writes
    <3> QED  BY <3>1 DEF Sck
  <2>5. CASE EnterFlash \/ DelayEnter \/ DelayLoop \/ DelayDone \/ Control \/ Spin
    <3>1. gpio_out' = gpio_out
      BY <2>5 DEF EnterFlash, DelayEnter, DelayLoop, DelayDone, Control, Spin, NoWrite, vars
    <3> QED  BY <3>1
  <2> QED  BY <2>1, <2>2, <2>3, <2>4, <2>5 DEF Next, Step
<1>2. [Held]_vars => [Sck(gpio_out) = 0 /\ Sck(gpio_out') = 1
                        => (gpio_out' \div 2) % 8 = (gpio_out \div 2) % 8]_vars
  OBVIOUS
<1> QED  BY <1>1, <1>2, InvInvariant, PTL DEF Spec, SetUpBeforeSampling

--------------------------------------------------------------------------------
\* The stream, byte by byte.
LEMMA Joined ==
  ASSUME NEW s \in Seq(Taking), NEW t \in Seq(Taking)
  PROVE  /\ s \o t \in Seq(Taking) /\ Len(s \o t) = Len(s) + Len(t)
         /\ \A i \in 1 .. Len(s) : (s \o t)[i] = s[i]
         /\ \A i \in 1 .. Len(t) : (s \o t)[Len(s) + i] = t[i]
  BY ConcatProperties

LEMMA Records ==
  \A n \in Int : Display!Command(n) \in Taking /\ Display!Datum(n) \in Taking
  BY DEF Display!Command, Display!Datum, Taking

LEMMA ExtentIs ==
  ASSUME NEW n \in Nat
  PROVE  /\ Display!Extent(n) \in Seq(Taking) /\ Len(Display!Extent(n)) = 4
         /\ Display!Extent(n)[1] = Display!Datum(0) /\ Display!Extent(n)[2] = Display!Datum(0)
         /\ Display!Extent(n)[3] = Display!Datum((n - 1) \div 256)
         /\ Display!Extent(n)[4] = Display!Datum((n - 1) % 256)
<1> DEFINE a == Display!Datum(0)
           c == Display!Datum((n - 1) \div 256)
           d == Display!Datum((n - 1) % 256)
<1>1. a \in Taking /\ c \in Taking /\ d \in Taking
  BY Records
<1>2. Display!Extent(n) = <<a, a, c, d>>
  BY DEF Display!Extent, Display!High, Display!Low
<1> HIDE DEF a, c, d
<1>3. /\ <<a, a, c, d>> \in Seq(Taking) /\ Len(<<a, a, c, d>>) = 4
      /\ <<a, a, c, d>>[1] = a /\ <<a, a, c, d>>[2] = a
      /\ <<a, a, c, d>>[3] = c /\ <<a, a, c, d>>[4] = d
  BY <1>1
<1> QED  BY <1>2, <1>3 DEF a, c, d

LEMMA PreambleIs ==
  LET P    == Display!Preamble
      C(n) == Display!Command(n)
      D(n) == Display!Datum(n)
  IN  /\ P \in Seq(Taking) /\ Len(P) = 18
      /\ P[1] = C(1) /\ P[2] = C(17) /\ P[3] = C(58) /\ P[4] = D(5)
      /\ P[5] = C(54) /\ P[6] = D(MADCTL_VALUE)
      /\ P[7] = C(42) /\ P[8] = D(0) /\ P[9] = D(0)
      /\ P[10] = D((PANEL_WIDTH - 1) \div 256) /\ P[11] = D((PANEL_WIDTH - 1) % 256)
      /\ P[12] = C(43) /\ P[13] = D(0) /\ P[14] = D(0)
      /\ P[15] = D((PANEL_HEIGHT - 1) \div 256) /\ P[16] = D((PANEL_HEIGHT - 1) % 256)
      /\ P[17] = C(41) /\ P[18] = C(44)
<1> DEFINE C(n) == Display!Command(n)
           D(n) == Display!Datum(n)
           A1 == <<C(1), C(17), C(58), D(5), C(54), D(MADCTL_VALUE)>>
           A2 == <<C(42)>>
           A3 == Display!Extent(PANEL_WIDTH)
           A4 == <<C(43)>>
           A5 == Display!Extent(PANEL_HEIGHT)
           A6 == <<C(41), C(44)>>
           B2 == A1 \o A2
           B3 == B2 \o A3
           B4 == B3 \o A4
           B5 == B4 \o A5
           B6 == B5 \o A6
<1>1. Display!Preamble = B6
  BY DEF Display!Preamble, Display!SWRESET, Display!SLPOUT, Display!COLMOD, Display!MADCTL,
         Display!CASET, Display!RASET, Display!DISPON, Display!RAMWR
<1>2. \A n \in Int : C(n) \in Taking /\ D(n) \in Taking
  BY Records
<1> HIDE DEF C, D
<1>3. /\ A1 \in Seq(Taking) /\ Len(A1) = 6
      /\ A1[1] = C(1) /\ A1[2] = C(17) /\ A1[3] = C(58) /\ A1[4] = D(5)
      /\ A1[5] = C(54) /\ A1[6] = D(MADCTL_VALUE)
  <2>1. /\ C(1) \in Taking /\ C(17) \in Taking /\ C(58) \in Taking /\ D(5) \in Taking
        /\ C(54) \in Taking /\ D(MADCTL_VALUE) \in Taking
    BY <1>2, DisplayAssumption
  <2> QED  BY <2>1
<1>4. /\ A2 \in Seq(Taking) /\ Len(A2) = 1 /\ A2[1] = C(42)
      /\ A4 \in Seq(Taking) /\ Len(A4) = 1 /\ A4[1] = C(43)
      /\ A6 \in Seq(Taking) /\ Len(A6) = 2 /\ A6[1] = C(41) /\ A6[2] = C(44)
  <2>1. C(42) \in Taking /\ C(43) \in Taking /\ C(41) \in Taking /\ C(44) \in Taking
    BY <1>2
  <2> QED  BY <2>1
<1>5. /\ A3 \in Seq(Taking) /\ Len(A3) = 4 /\ A3[1] = D(0) /\ A3[2] = D(0)
      /\ A3[3] = D((PANEL_WIDTH - 1) \div 256) /\ A3[4] = D((PANEL_WIDTH - 1) % 256)
  BY ExtentIs, DisplayAssumption DEF D
<1>6. /\ A5 \in Seq(Taking) /\ Len(A5) = 4 /\ A5[1] = D(0) /\ A5[2] = D(0)
      /\ A5[3] = D((PANEL_HEIGHT - 1) \div 256) /\ A5[4] = D((PANEL_HEIGHT - 1) % 256)
  BY ExtentIs, DisplayAssumption DEF D
<1> HIDE DEF A1, A2, A3, A4, A5, A6
<1>7. /\ B2 \in Seq(Taking) /\ Len(B2) = 7
      /\ \A i \in 1 .. 6 : B2[i] = A1[i]
      /\ B2[7] = A2[1]
  <2>1. /\ A1 \in Seq(Taking) /\ Len(A1) = 6
        /\ A2 \in Seq(Taking) /\ Len(A2) = 1
    BY <1>3, <1>4
  <2>2. /\ B2 \in Seq(Taking) /\ Len(B2) = Len(A1) + Len(A2)
        /\ \A i \in 1 .. Len(A1) : B2[i] = A1[i]
        /\ \A i \in 1 .. Len(A2) : B2[Len(A1) + i] = A2[i]
    BY <2>1, Joined, Zenon
  <2> HIDE DEF B2
  <2> QED  BY <2>1, <2>2
<1> HIDE DEF B2
<1>8. /\ B3 \in Seq(Taking) /\ Len(B3) = 11
      /\ \A i \in 1 .. 7 : B3[i] = B2[i]
      /\ \A i \in 1 .. 4 : B3[7 + i] = A3[i]
  <2>1. /\ B2 \in Seq(Taking) /\ Len(B2) = 7
        /\ A3 \in Seq(Taking) /\ Len(A3) = 4
    BY <1>5, <1>7
  <2>2. /\ B3 \in Seq(Taking) /\ Len(B3) = Len(B2) + Len(A3)
        /\ \A i \in 1 .. Len(B2) : B3[i] = B2[i]
        /\ \A i \in 1 .. Len(A3) : B3[Len(B2) + i] = A3[i]
    BY <2>1, Joined, Zenon
  <2> HIDE DEF B3
  <2> QED  BY <2>1, <2>2
<1> HIDE DEF B3
<1>9. /\ B4 \in Seq(Taking) /\ Len(B4) = 12
      /\ \A i \in 1 .. 11 : B4[i] = B3[i]
      /\ B4[12] = A4[1]
  <2>1. /\ B3 \in Seq(Taking) /\ Len(B3) = 11
        /\ A4 \in Seq(Taking) /\ Len(A4) = 1
    BY <1>4, <1>8
  <2>2. /\ B4 \in Seq(Taking) /\ Len(B4) = Len(B3) + Len(A4)
        /\ \A i \in 1 .. Len(B3) : B4[i] = B3[i]
        /\ \A i \in 1 .. Len(A4) : B4[Len(B3) + i] = A4[i]
    BY <2>1, Joined, Zenon
  <2> HIDE DEF B4
  <2> QED  BY <2>1, <2>2
<1> HIDE DEF B4
<1>10. /\ B5 \in Seq(Taking) /\ Len(B5) = 16
       /\ \A i \in 1 .. 12 : B5[i] = B4[i]
       /\ \A i \in 1 .. 4 : B5[12 + i] = A5[i]
  <2>1. /\ B4 \in Seq(Taking) /\ Len(B4) = 12
        /\ A5 \in Seq(Taking) /\ Len(A5) = 4
    BY <1>6, <1>9
  <2>2. /\ B5 \in Seq(Taking) /\ Len(B5) = Len(B4) + Len(A5)
        /\ \A i \in 1 .. Len(B4) : B5[i] = B4[i]
        /\ \A i \in 1 .. Len(A5) : B5[Len(B4) + i] = A5[i]
    BY <2>1, Joined, Zenon
  <2> HIDE DEF B5
  <2> QED  BY <2>1, <2>2
<1> HIDE DEF B5
<1>11. /\ B6 \in Seq(Taking) /\ Len(B6) = 18
       /\ \A i \in 1 .. 16 : B6[i] = B5[i]
       /\ \A i \in 1 .. 2 : B6[16 + i] = A6[i]
  <2>1. /\ B5 \in Seq(Taking) /\ Len(B5) = 16
        /\ A6 \in Seq(Taking) /\ Len(A6) = 2
    BY <1>4, <1>10
  <2>2. /\ B6 \in Seq(Taking) /\ Len(B6) = Len(B5) + Len(A6)
        /\ \A i \in 1 .. Len(B5) : B6[i] = B5[i]
        /\ \A i \in 1 .. Len(A6) : B6[Len(B5) + i] = A6[i]
    BY <2>1, Joined, Zenon
  <2> HIDE DEF B6
  <2> QED  BY <2>1, <2>2
<1> HIDE DEF B6
<1>12. /\ B6 \in Seq(Taking) /\ Len(B6) = 18
       /\ B6[1] = C(1) /\ B6[2] = C(17) /\ B6[3] = C(58) /\ B6[4] = D(5)
       /\ B6[5] = C(54) /\ B6[6] = D(MADCTL_VALUE)
       /\ B6[7] = C(42) /\ B6[8] = D(0) /\ B6[9] = D(0)
       /\ B6[10] = D((PANEL_WIDTH - 1) \div 256) /\ B6[11] = D((PANEL_WIDTH - 1) % 256)
       /\ B6[12] = C(43) /\ B6[13] = D(0) /\ B6[14] = D(0)
       /\ B6[15] = D((PANEL_HEIGHT - 1) \div 256) /\ B6[16] = D((PANEL_HEIGHT - 1) % 256)
       /\ B6[17] = C(41) /\ B6[18] = C(44)
  <2>1. \A i \in 1 .. 12 : B6[i] = B4[i]
    BY <1>10, <1>11
  <2>2. \A i \in 1 .. 7 : B6[i] = B2[i]
    BY <2>1, <1>8, <1>9
  <2>3. \A i \in 1 .. 4 : B6[7 + i] = A3[i]
    BY <2>1, <1>8, <1>9
  <2>4. \A i \in 1 .. 4 : B6[12 + i] = A5[i]
    <3>1. \A i \in 1 .. 4 : 12 + i \in 1 .. 16
      OBVIOUS
    <3>2. \A i \in 1 .. 4 : B6[12 + i] = B5[12 + i]
      BY <1>11, <3>1, Zenon
    <3> QED  BY <1>10, <3>2, Zenon
  <2>5. \A i \in 1 .. 6 : B6[i] = A1[i]
    BY <2>2, <1>7
  <2>6. B6[7] = A2[1] /\ B6[12] = A4[1] /\ B6[17] = A6[1] /\ B6[18] = A6[2]
    BY <2>1, <2>2, <1>7, <1>9, <1>11
  <2> QED  BY <2>3, <2>4, <2>5, <2>6, <1>3, <1>4, <1>5, <1>6, <1>11
<1> QED  BY <1>1, <1>12 DEF C, D

LEMMA StreamIs ==
  /\ Len(Display!Stream) = 18 + pixel_count + pixel_count
  /\ \A i \in 1 .. 18 : Display!Stream[i] = Display!Preamble[i]
  /\ \A k \in 1 .. pixel_count :
       /\ Display!Stream[18 + (k + k - 1)] = Display!Datum(FILL_COLOR \div 256)
       /\ Display!Stream[18 + (k + k)] = Display!Datum(FILL_COLOR % 256)
<1> DEFINE P == Display!Preamble
           X == Display!Pixels
           hi == Display!Datum(FILL_COLOR \div 256)
           lo == Display!Datum(FILL_COLOR % 256)
<1>1. P \in Seq(Taking) /\ Len(P) = 18
  BY PreambleIs
<1>2. hi \in Taking /\ lo \in Taking
  BY Records, DisplayAssumption
<1>3. X = [k \in 1 .. pixel_count + pixel_count |-> IF k % 2 = 1 THEN hi ELSE lo]
  <2>1. 2 * pixel_count = pixel_count + pixel_count
    BY DisplayAssumption
  <2> QED  BY <2>1 DEF Display!Pixels, Display!High, Display!Low
<1> HIDE DEF P, X, hi, lo
<1>4. X \in Seq(Taking) /\ Len(X) = pixel_count + pixel_count
  BY <1>2, <1>3, DisplayAssumption
<1>5. \A k \in 1 .. pixel_count : X[k + k - 1] = hi /\ X[k + k] = lo
  <2> SUFFICES ASSUME NEW k \in 1 .. pixel_count  PROVE X[k + k - 1] = hi /\ X[k + k] = lo
    OBVIOUS
  <2>1. /\ k + k - 1 \in 1 .. pixel_count + pixel_count /\ k + k \in 1 .. pixel_count + pixel_count
        /\ (k + k - 1) % 2 = 1 /\ (k + k) % 2 = 0
    BY DisplayAssumption
  <2> QED  BY <1>3, <2>1
<1>6. /\ Len(P \o X) = Len(P) + Len(X)
      /\ \A i \in 1 .. Len(P) : (P \o X)[i] = P[i]
      /\ \A i \in 1 .. Len(X) : (P \o X)[Len(P) + i] = X[i]
  BY Joined, <1>1, <1>4, Zenon
<1> DEFINE S == P \o X
<1> HIDE DEF S
<1>7. /\ Len(S) = Len(P) + Len(X)
      /\ \A i \in 1 .. Len(P) : S[i] = P[i]
      /\ \A i \in 1 .. Len(X) : S[Len(P) + i] = X[i]
  BY <1>6, Zenon DEF S
<1>8. Len(S) = 18 + pixel_count + pixel_count /\ \A i \in 1 .. 18 : S[i] = P[i]
  BY <1>1, <1>4, <1>7, DisplayAssumption
<1>9. \A k \in 1 .. pixel_count : S[18 + (k + k - 1)] = hi /\ S[18 + (k + k)] = lo
  <2> SUFFICES ASSUME NEW k \in 1 .. pixel_count
               PROVE  S[18 + (k + k - 1)] = hi /\ S[18 + (k + k)] = lo
    OBVIOUS
  <2>1. k + k - 1 \in 1 .. Len(X) /\ k + k \in 1 .. Len(X)
    BY <1>4, DisplayAssumption
  <2>2. S[18 + (k + k - 1)] = X[k + k - 1] /\ S[18 + (k + k)] = X[k + k]
    BY <1>1, <1>7, <2>1, Zenon
  <2> QED  BY <1>5, <2>2
<1>10. Display!Stream = S
  BY DEF Display!Stream, S, P, X
<1> QED  BY <1>8, <1>9, <1>10, ZenonT(60) DEF P, hi, lo

\* A block's pages stand at one place in the stream, the next page one further on.
LEMMA Positions ==
  ASSUME NEW b \in Blocks, NEW p \in Nat, b.at <= p, p <= b.at + 7, NEW n \in Int
  PROVE  /\ Taken(p, n) = Taken(b.at, n)
         /\ b.at = 139 /\ n = load_const32(pixel_count)
              => Taken(b.at + 8, n) = Taken(b.at, n) + 1
         /\ b.at # 139 => Taken(b.at + 8, n) = Taken(b.at, n) + 1
<1> DEFINE gone == load_const32(pixel_count) - n
<1>1. b.at \in Starts
  BY BlockTypes
<1>2. gone \in Int /\ (n = load_const32(pixel_count) => gone = 0)
  BY Loaded
<1>3. \A q : Taken(q, n) =
        IF q < 9 THEN 0 ELSE IF q < 18 THEN 1 ELSE IF q < 27 THEN 2
        ELSE IF q < 147 THEN 2 + ((q - 19) \div 8)
        ELSE 18 + gone + gone + (IF q = 164 THEN 0 ELSE (q - 147) \div 8)
  BY DEF Taken, RING_START, DONE_PAGE
<1> HIDE DEF gone
<1>4. Taken(p, n) = Taken(b.at, n)
  BY <1>1, <1>2, <1>3 DEF Starts, RING_START
<1>5. b.at # 139 => Taken(b.at + 8, n) = Taken(b.at, n) + 1
  BY <1>1, <1>2, <1>3 DEF Starts, RING_START
<1>6. b.at = 139 /\ n = load_const32(pixel_count) => Taken(b.at + 8, n) = Taken(b.at, n) + 1
  BY <1>2, <1>3
<1> QED  BY <1>4, <1>5, <1>6

\* What a block sends is what the stream has at its place.
LEMMA OnTheStream ==
  ASSUME CountFits, NEW b \in Blocks, NEW n \in 1 .. pixel_count
  PROVE  LET i == Taken(b.at, n) + 1
         IN  /\ i \in 1 .. Len(Display!Stream)
             /\ Display!Stream[i] = [data |-> b.dc = 4, byte |-> b.byte]
<1> DEFINE i == Taken(b.at, n) + 1
           P == Display!Preamble
           R == [data |-> b.dc = 4, byte |-> b.byte]
<1>1. CASE b \in InitBlocks
  <2> DEFINE C(m) == Display!Command(m)
             D(m) == Display!Datum(m)
             w1 == (PANEL_WIDTH - 1) \div 256
             w2 == (PANEL_WIDTH - 1) % 256
             h1 == (PANEL_HEIGHT - 1) \div 256
             h2 == (PANEL_HEIGHT - 1) % 256
  <2>1. /\ P[1] = C(1) /\ P[2] = C(17) /\ P[3] = C(58) /\ P[4] = D(5)
        /\ P[5] = C(54) /\ P[6] = D(MADCTL_VALUE)
        /\ P[7] = C(42) /\ P[8] = D(0) /\ P[9] = D(0) /\ P[10] = D(w1) /\ P[11] = D(w2)
        /\ P[12] = C(43) /\ P[13] = D(0) /\ P[14] = D(0) /\ P[15] = D(h1) /\ P[16] = D(h2)
        /\ P[17] = C(41) /\ P[18] = C(44)
    BY PreambleIs
  <2>2. b \in { Block(1, 0, 1, 9), Block(10, 0, 17, 18), Block(19, 0, 58, 27),
                Block(27, 4, 5, 35), Block(35, 0, 54, 43), Block(43, 4, MADCTL_VALUE, 51),
                Block(51, 0, 42, 59), Block(59, 4, 0, 67), Block(67, 4, 0, 75),
                Block(75, 4, w1, 83), Block(83, 4, w2, 91),
                Block(91, 0, 43, 99), Block(99, 4, 0, 107), Block(107, 4, 0, 115),
                Block(115, 4, h1, 123), Block(123, 4, h2, 131),
                Block(131, 0, 41, 139), Block(139, 0, 44, 147) }
    BY <1>1 DEF InitBlocks, DC_CMD, DC_DATA, RING_START
  <2>3. i = IF b.at = 1 THEN 1 ELSE IF b.at = 10 THEN 2 ELSE 3 + ((b.at - 19) \div 8)
    <3>1. b.at \in Starts /\ b.at < 147
      BY <2>2, BlockTypes DEF Block
    <3> QED  BY <3>1 DEF Taken, Starts, RING_START
  <2>4. \A m : /\ C(m) = [data |-> FALSE, byte |-> m]
               /\ D(m) = [data |-> TRUE, byte |-> m]
    BY DEF Display!Command, Display!Datum
  <2> HIDE DEF w1, w2, h1, h2, C, D, P, i
  <2>5. P[i] = IF b.dc = 4 THEN D(b.byte) ELSE C(b.byte)
    BY <2>1, <2>2, <2>3, SMTT(60) DEF Block
  <2>6. i \in 1 .. 18
    BY <2>2, <2>3, SMTT(60) DEF Block
  <2>7. P[i] = R
    <3>1. CASE b.dc = 4
      BY <2>4, <2>5, <3>1
    <3>2. CASE b.dc # 4
      BY <2>4, <2>5, <3>2
    <3> QED  BY <3>1, <3>2
  <2>8. i \in 1 .. Len(Display!Stream) /\ Display!Stream[i] = P[i]
    <3>1. Len(Display!Stream) = 18 + pixel_count + pixel_count
      BY StreamIs, Zenon
    <3>2. Display!Stream[i] = P[i]
      BY <2>6, StreamIs, Zenon DEF P
    <3> QED  BY <2>6, <3>1, <3>2, DisplayAssumption
  <2> QED  BY <2>7, <2>8 DEF i
<1>2. CASE b \in RingBlocks
  <2> DEFINE k == pixel_count - n + 1
  <2>1. k \in 1 .. pixel_count
    BY DisplayAssumption
  <2>2. \/ b = Block(147, 4, FILL_COLOR \div 256, 155)
        \/ b = Block(155, 4, FILL_COLOR % 256, 163)
    BY <1>2 DEF RingBlocks, DC_DATA, RING_START, CTRL_PAGE
  <2>3. i = IF b.at = 147 THEN 18 + (k + k - 1) ELSE 18 + (k + k)
    BY <2>1, <2>2, DisplayAssumption DEF Taken, RING_START, DONE_PAGE, CountFits, Block
  <2> HIDE DEF k, i
  <2>4. i \in 1 .. Len(Display!Stream)
    <3>1. Len(Display!Stream) = 18 + pixel_count + pixel_count
      BY StreamIs, Zenon
    <3> QED  BY <2>1, <2>3, <3>1, DisplayAssumption
  <2>5. Display!Stream[i] = Display!Datum(b.byte) /\ b.dc = 4
    <3>1. CASE b = Block(147, 4, FILL_COLOR \div 256, 155)
      <4>1. b.at = 147 /\ b.dc = 4 /\ b.byte = FILL_COLOR \div 256
        BY <3>1 DEF Block
      <4>2. i = 18 + (k + k - 1)
        BY <2>3, <4>1
      <4>3. Display!Stream[18 + (k + k - 1)] = Display!Datum(FILL_COLOR \div 256)
        BY <2>1, StreamIs
      <4> QED  BY <4>1, <4>2, <4>3
    <3>2. CASE b = Block(155, 4, FILL_COLOR % 256, 163)
      <4>1. b.at = 155 /\ b.dc = 4 /\ b.byte = FILL_COLOR % 256
        BY <3>2 DEF Block
      <4>2. i = 18 + (k + k)
        BY <2>3, <4>1
      <4>3. Display!Stream[18 + (k + k)] = Display!Datum(FILL_COLOR % 256)
        BY <2>1, StreamIs
      <4> QED  BY <4>1, <4>2, <4>3
    <3> QED  BY <2>2, <3>1, <3>2, Zenon
  <2> QED  BY <2>4, <2>5 DEF Display!Datum, i
<1> QED  BY <1>1, <1>2 DEF Blocks

--------------------------------------------------------------------------------
\* The panel's shift register.  A byte is the sum of its bits.
LEMMA WholeByte ==
  ASSUME NEW n \in Nat, n < 256, NEW f,
         \A i \in 1 .. 8 : f[i] = (n \div 2^(8 - i)) % 2
  PROVE  ByteOf(f) = n
<1>1. /\ f[1] = (n \div 2^7) % 2 /\ f[2] = (n \div 2^6) % 2 /\ f[3] = (n \div 2^5) % 2
      /\ f[4] = (n \div 2^4) % 2 /\ f[5] = (n \div 2^3) % 2 /\ f[6] = (n \div 2^2) % 2
      /\ f[7] = (n \div 2^1) % 2 /\ f[8] = (n \div 2^0) % 2
  <2>1. 8 - 1 = 7 /\ 8 - 2 = 6 /\ 8 - 3 = 5 /\ 8 - 4 = 4 /\ 8 - 5 = 3 /\ 8 - 6 = 2
        /\ 8 - 7 = 1 /\ 8 - 8 = 0
    OBVIOUS
  <2>2. /\ 1 \in 1 .. 8 /\ 2 \in 1 .. 8 /\ 3 \in 1 .. 8 /\ 4 \in 1 .. 8
        /\ 5 \in 1 .. 8 /\ 6 \in 1 .. 8 /\ 7 \in 1 .. 8 /\ 8 \in 1 .. 8
    OBVIOUS
  <2>3. /\ f[1] = (n \div 2^(8 - 1)) % 2 /\ f[2] = (n \div 2^(8 - 2)) % 2
        /\ f[3] = (n \div 2^(8 - 3)) % 2 /\ f[4] = (n \div 2^(8 - 4)) % 2
        /\ f[5] = (n \div 2^(8 - 5)) % 2 /\ f[6] = (n \div 2^(8 - 6)) % 2
        /\ f[7] = (n \div 2^(8 - 7)) % 2 /\ f[8] = (n \div 2^(8 - 8)) % 2
    BY <2>2, Zenon
  <2> QED  BY <2>1, <2>3, Zenon
<1>2. /\ f[1] = (n \div 128) % 2 /\ f[2] = (n \div 64) % 2 /\ f[3] = (n \div 32) % 2
      /\ f[4] = (n \div 16) % 2 /\ f[5] = (n \div 8) % 2 /\ f[6] = (n \div 4) % 2
      /\ f[7] = (n \div 2) % 2 /\ f[8] = n % 2
  BY <1>1, SMT
<1>3. LET b(k) == (n \div k) % 2
      IN  128 * b(128) + 64 * b(64) + 32 * b(32) + 16 * b(16) + 8 * b(8) + 4 * b(4)
            + 2 * b(2) + (n % 2) = n
  OBVIOUS
<1> QED  BY <1>2, <1>3 DEF ByteOf

LEMMA InTheByte ==
  ASSUME Inv, Aligned, mode = "pages", NEW b \in Blocks, Here(b)
  PROVE  /\ Len(bits) = page - b.at
         /\ \A i \in 1 .. 7 : i <= Len(bits) => bits[i] = (b.byte \div 2^(8 - i)) % 2
<1>1. page \in Nat
  BY DEF Inv, Placed
<1>2. CASE bits = << >> /\ \A c \in Blocks : Here(c) => page = c.at
  <2>1. Len(bits) = 0 /\ page = b.at
    BY <1>2
  <2> QED  BY <1>1, <2>1
<1>3. CASE \E c \in Blocks :
             /\ Here(c) /\ Len(bits) = page - c.at
             /\ \A i \in 1 .. 7 : i <= Len(bits) => bits[i] = (c.byte \div 2^(8 - i)) % 2
  <2>1. PICK c \in Blocks :
             /\ Here(c) /\ Len(bits) = page - c.at
             /\ \A i \in 1 .. 7 : i <= Len(bits) => bits[i] = (c.byte \div 2^(8 - i)) % 2
    BY <1>3
  <2>2. c = b
    BY <1>1, <2>1, OneBlock
  <2> QED  BY <2>1, <2>2
<1> QED  BY <1>2, <1>3 DEF Aligned

\* The second store of a bit page clocks one bit of the block's byte into the panel,
\* that of the last page the byte.
LEMMA Clocked ==
  ASSUME Inv, Aligned, At("pulse"), NEW b \in Blocks, Here(b), Writes(SetupVal(b) + 1)
  PROVE  /\ page < b.at + 7 =>
              /\ Len(bits') = page + 1 - b.at
              /\ \A i \in 1 .. 7 : i <= Len(bits') => bits'[i] = (b.byte \div 2^(8 - i)) % 2
              /\ received' = received /\ waited' = waited
         /\ page = b.at + 7 =>
              /\ bits' = << >> /\ waited' = 0
              /\ received' = Append(received, [data |-> b.dc = 4, byte |-> b.byte])
<1> DEFINE v == SetupVal(b) + 1
           more == Append(bits, Mosi(v))
<1>1. mode = "pages" /\ page \in Nat /\ bits \in Seq(Bit) /\ Len(bits) \in Nat
  BY DEF At, Inv, Placed, Ranged
<1>2. /\ Len(bits) = page - b.at
      /\ \A i \in 1 .. 7 : i <= Len(bits) => bits[i] = (b.byte \div 2^(8 - i)) % 2
  BY <1>1, InTheByte
<1>3. gpio_out = SetupVal(b)
  <2>1. PICK c \in Blocks : Here(c) /\ gpio_out = SetupVal(c)
    BY DEF At, Inv, Placed
  <2> QED  BY <1>1, <2>1, OneBlock
<1>4. b.dc \in {0, 4} /\ b.byte \in Nat /\ b.byte < 256 /\ b.at \in Nat
  BY BlockTypes DEF Starts, RING_START
<1>5. BitOn(b) \in {0, 1}
  BY <1>1, SetupRange
<1>6. Sck(gpio_out) = 0 /\ Sck(v) = 1 /\ Mosi(v) = BitOn(b) /\ Cs(v) = 0 /\ (Dc(v) = 1 <=> b.dc = 4)
  <2>1. \A d \in {0, 4}, m \in {0, 1} :
          /\ Sck(d + 2 * m) = 0 /\ Sck(d + 2 * m + 1) = 1 /\ Mosi(d + 2 * m + 1) = m
          /\ Cs(d + 2 * m + 1) = 0 /\ (Dc(d + 2 * m + 1) = 1 <=> d = 4)
    BY DEF Sck, Mosi, Cs, Dc
  <2> QED  BY <1>3, <1>4, <1>5, <2>1 DEF SetupVal
<1>7. Rising(v)
  BY <1>6 DEF Rising
<1>8. TakesBit(v) \/ TakesByte(v)
  BY <1>6, <1>7 DEF Writes, Deselected, NoEdge
<1>9. /\ Len(more) = page + 1 - b.at
      /\ \A i \in 1 .. 8 : i <= Len(more) => more[i] = (b.byte \div 2^(8 - i)) % 2
  <2> DEFINE n == Len(bits)
  <2>1. /\ Len(more) = n + 1 /\ more[n + 1] = BitOn(b)
        /\ \A i \in 1 .. n : more[i] = bits[i]
    BY <1>1, <1>5, <1>6 DEF Bit
  <2>2. n = page - b.at /\ n \in Nat /\ n < 8
    BY <1>1, <1>2, <1>4 DEF Here
  <2>3. 8 - (n + 1) = 7 - (page - b.at)
    BY <1>1, <1>4, <2>2
  <2>4. BitOn(b) = (b.byte \div 2^(8 - (n + 1))) % 2
    BY <2>3, Zenon DEF BitOn
  <2> HIDE DEF more, n
  <2> SUFFICES ASSUME NEW i \in 1 .. 8, i <= Len(more)
               PROVE  more[i] = (b.byte \div 2^(8 - i)) % 2
    BY <1>1, <1>4, <2>1, <2>2
  <2>5. CASE i = n + 1
    BY <2>1, <2>4, <2>5, Zenon
  <2>6. CASE i # n + 1
    <3>1. i \in 1 .. n /\ i \in 1 .. 7 /\ i <= n
      BY <2>1, <2>2, <2>6
    <3>2. bits[i] = (b.byte \div 2^(8 - i)) % 2
      BY <1>2, <3>1, Zenon DEF n
    <3> QED  BY <2>1, <3>1, <3>2
  <2> QED  BY <2>5, <2>6
<1>10. CASE page < b.at + 7
  <2>1. Len(bits) < 7
    BY <1>1, <1>2, <1>4, <1>10
  <2>2. bits' = more /\ received' = received /\ waited' = waited
    <3>1. ~TakesByte(v)
      <4>1. TakesByte(v) => Len(bits) = 7
        BY Zenon DEF TakesByte
      <4>2. Len(bits) # 7
        <5> HIDE DEF v, more
        <5>1. \A n \in Nat : n < 7 => n # 7
          OBVIOUS
        <5> QED  BY <1>1, <2>1, <5>1
      <4> QED  BY <4>1, <4>2, Zenon
    <3> QED  BY <1>8, <3>1 DEF TakesBit
  <2>3. page # b.at + 7
    BY <1>1, <1>4, <1>10
  <2>4. Len(bits') = page + 1 - b.at
    BY <1>9, <2>2, Zenon
  <2>5. \A i \in 1 .. 7 : i <= Len(more) => more[i] = (b.byte \div 2^(8 - i)) % 2
    <3>1. \A i \in 1 .. 7 : i \in 1 .. 8
      OBVIOUS
    <3> QED  BY <1>9, <3>1, Zenon
  <2> QED  BY <2>2, <2>3, <2>4, <2>5, Zenon
<1>11. CASE page = b.at + 7
  <2>1. Len(bits) = 7
    BY <1>1, <1>2, <1>4, <1>11
  <2>2. /\ bits' = << >> /\ waited' = 0
        /\ received' = Append(received, [data |-> Dc(v) = 1, byte |-> ByteOf(more)])
    BY <1>1, <1>8, <2>1 DEF TakesBit, TakesByte
  <2> HIDE DEF more
  <2>3. \A i \in 1 .. 8 : more[i] = (b.byte \div 2^(8 - i)) % 2
    <3>1. Len(more) = page + 1 - b.at
      BY <1>9, Zenon
    <3>2. \A i \in 1 .. 8 : i <= Len(more)
      BY <1>1, <1>4, <1>11, <3>1
    <3> QED  BY <1>9, <3>2, Zenon
  <2>4. ByteOf(more) = b.byte
    BY <1>4, <2>3, WholeByte
  <2>5. [data |-> Dc(v) = 1, byte |-> ByteOf(more)] = [data |-> b.dc = 4, byte |-> b.byte]
    BY <1>6, <2>4, Zenon
  <2> QED  BY <1>4, <1>1, <1>11, <2>2, <2>5
<1> QED  BY <1>1, <1>4, <1>10, <1>11

--------------------------------------------------------------------------------
\* A store that lowers SCK, or leaves it low, under CS low clocks nothing.
LEMMA NoClock ==
  ASSUME NEW v, Writes(v), Cs(v) = 0, Sck(v) = 0
  PROVE  bits' = bits /\ received' = received /\ waited' = waited
<1>1. ~Rising(v)
  BY DEF Rising
<1>2. ~Deselected(v)
  BY DEF Deselected
<1>3. NoEdge(v)
  BY <1>1, <1>2, Zenon DEF Writes, TakesBit, TakesByte
<1> QED  BY <1>3, Zenon DEF NoEdge

\* A page that begins a block, or is in none, is inside of none.
Whole == Starts \cup DelayPages \cup {0, CTRL_PAGE, DONE_PAGE}

LEMMA NotInside ==
  ASSUME NEW p \in Whole, NEW b \in Blocks, b.at <= p, p <= b.at + 7
  PROVE  p = b.at
<1>1. b.at \in Starts
  BY BlockTypes
<1> QED  BY <1>1 DEF Whole, Starts, DelayPages, RING_START, CTRL_PAGE, DONE_PAGE

LEMMA Afresh ==
  ASSUME bits' = << >>, page' \in Whole
  PROVE  Aligned'
<1>1. \A b \in Blocks : Here(b)' => page' = b.at
  <2> SUFFICES ASSUME NEW b \in Blocks, Here(b)'  PROVE page' = b.at
    OBVIOUS
  <2>1. page' \in Nat
    BY DEF Whole, Starts, DelayPages, RING_START, CTRL_PAGE, DONE_PAGE
  <2>2. b.at \in Nat
    <3>1. b.at \in Starts
      BY BlockTypes
    <3> QED  BY <3>1 DEF Starts, RING_START
  <2>3. b.at <= page' /\ page' <= b.at + 7
    BY <2>1, <2>2 DEF Here
  <2> QED  BY <2>3, NotInside
<1> QED  BY <1>1 DEF Aligned

\* And on such a page the panel is empty.
LEMMA EmptyHere ==
  ASSUME Inv, Aligned, mode = "pages", page \in Whole
  PROVE  bits = << >>
<1>1. page \in Nat /\ bits \in Seq(Bit)
  BY DEF Inv, Placed, Ranged
<1>2. ASSUME NEW b \in Blocks, Here(b), Len(bits) = page - b.at
      PROVE  bits = << >>
  <2>1. b.at \in Nat
    BY BlockTypes DEF Starts, RING_START
  <2>2. page = b.at
    BY <1>1, <1>2, <2>1, NotInside DEF Here
  <2>3. Len(bits) = 0
    BY <1>1, <1>2, <2>2
  <2> QED  BY <1>1, <2>3, EmptySeq
<1> QED  BY <1>2 DEF Aligned

LEMMA BlockOnward == ASSUME NEW b \in Blocks PROVE b.next \in Whole /\ b.next = b.at + 8
<1>1. b.at \in Starts /\ b.next = b.at + 8
  BY BlockTypes
<1> QED  BY <1>1 DEF Whole, Starts, DelayPages, RING_START, CTRL_PAGE

\* While the boot ROM counts: CS is high from 8 to 15 and drops with SCK low.
LEMMA BootStep == Inv /\ AlignedInBoot /\ [Next]_vars => AlignedInBoot'
<1> SUFFICES ASSUME Inv, AlignedInBoot, [Next]_vars, mode' = "boot",
                    x9' > 0, x9' % 16 \notin 1 .. 7
             PROVE  bits' = << >>
  BY DEF AlignedInBoot
<1> USE DEF Inv
<1>1. CASE Count
  <2> DEFINE v == x8 + ((x9 + 1) % 16)
             r == x9 % 16
  <2>1. x8 \in {0, 128} /\ x9 \in Nat /\ x9' = x9 + 1 /\ Writes(v) /\ mode = "boot"
    BY <1>1, DisplayAssumption DEF Count, Counted
  <2>2. r \in 0 .. 15 /\ (x9 + 1) % 16 = (IF r = 15 THEN 0 ELSE r + 1)
    BY <2>1
  <2>3. CASE r = 15
    <3>1. v = x8 /\ x9 > 0
      BY <2>1, <2>2, <2>3
    <3>2. Cs(v) = 0 /\ Sck(v) = 0
      BY <2>1, <3>1 DEF Cs, Sck
    <3>3. bits = << >>
      BY <2>1, <2>3, <3>1 DEF AlignedInBoot
    <3> HIDE DEF v
    <3> QED  BY <2>1, <3>2, <3>3, NoClock
  <2>4. CASE r # 15
    <3>1. r + 1 \in 8 .. 15 /\ v = x8 + (r + 1)
      BY <2>1, <2>2, <2>4
    <3>2. Cs(v) = 1
      <4> HIDE DEF r, v
      <4> QED  BY <2>1, <3>1 DEF Cs
    <3> HIDE DEF v
    <3> QED  BY <2>1, <3>2 DEF Writes, Deselected, NoEdge, TakesBit, TakesByte, Rising
  <2> QED  BY <2>3, <2>4
<1>2. CASE Reset
  BY <1>2 DEF Reset
<1>3. CASE UNCHANGED vars
  BY <1>3 DEF AlignedInBoot, vars, programVars
<1>4. CASE EnterFlash
  BY <1>4 DEF EnterFlash
<1>5. CASE Select \/ SetUp \/ Pulse \/ DelayEnter \/ DelayLoop \/ DelayDone \/ Control \/ Spin
  BY <1>5 DEF Select, SetUp, Pulse, DelayEnter, DelayLoop, DelayDone, Control, Spin, At,
              vars, programVars
<1> QED  BY <1>1, <1>2, <1>3, <1>4, <1>5 DEF Next, Step

LEMMA AlignedStep ==
  HeardDeselected /\ Inv /\ AlignedInBoot /\ Aligned /\ [Next]_vars => Aligned'
<1> SUFFICES ASSUME HeardDeselected, Inv, AlignedInBoot, Aligned, [Next]_vars  PROVE Aligned'
  OBVIOUS
<1>1. CASE Count
  BY <1>1 DEF Count, Aligned
<1>2. CASE EnterFlash
  <2>1. x9 \in Nat /\ x9 > 0 /\ x9 % 16 \notin 1 .. 7
    <3>1. x9 \in Nat
      BY DisplayAssumption DEF Inv, Counted
    <3>2. CASE x9 % 16 \in StartAt
      BY <3>1, <3>2 DEF HeardDeselected
    <3>3. CASE x9 = BootLoops
      BY <3>1, <3>3, DisplayAssumption
    <3> QED  BY <1>2, <3>1, <3>2, <3>3 DEF EnterFlash
  <2>2. bits = << >>
    BY <1>2, <2>1 DEF AlignedInBoot, EnterFlash
  <2>3. bits' = << >> /\ page' = 0
    BY <1>2, <2>2 DEF EnterFlash, NoWrite
  <2> QED  BY <2>3, Afresh DEF Whole
<1>3. CASE Select
  <2>1. bits = << >>
    BY <1>3, EmptyHere DEF Select, At, Whole
  <2>2. Cs(0) = 0 /\ Sck(0) = 0
    BY DEF Cs, Sck
  <2>3. bits' = << >> /\ page' = 1
    BY <1>3, <2>1, <2>2, NoClock DEF Select, TurnTo
  <2> QED  BY <2>3, Afresh DEF Whole, Starts
<1>4. CASE SetUp
  <2>1. PICK b \in Blocks : Here(b) /\ x2' = SetupVal(b)
    BY <1>4 DEF SetUp, SetupWrite
  <2>2. SetupVal(b) \in {0, 2, 4, 6}
    BY <2>1, SetupRange DEF Inv, Placed
  <2>3. Cs(SetupVal(b)) = 0 /\ Sck(SetupVal(b)) = 0
    BY <2>2 DEF Cs, Sck
  <2>4. bits' = bits /\ page' = page /\ mode' = mode
    BY <1>4, <2>1, <2>3, NoClock DEF SetUp
  <2> QED  BY <2>4 DEF Aligned, Here
<1>5. CASE Pulse
  <2>1. PICK b \in Blocks : Here(b) /\ x2' = SetupVal(b) + 1 /\ TurnTo(NextOf(b))
    BY <1>5 DEF Pulse
  <2>2. At("pulse") /\ Writes(SetupVal(b) + 1) /\ page \in Nat /\ b.at \in Nat
    BY <1>5, <2>1, BlockTypes DEF Pulse, Inv, Placed, Starts, RING_START
  <2>3. CASE page = b.at + 7
    <3>1. bits' = << >> /\ page' = b.next
      BY <2>1, <2>2, <2>3, Clocked DEF TurnTo, NextOf
    <3> QED  BY <3>1, BlockOnward, Afresh
  <2>4. CASE page # b.at + 7
    <3>1. page < b.at + 7 /\ page' = page + 1
      BY <2>1, <2>2, <2>4 DEF Here, TurnTo, NextOf
    <3>2. /\ Len(bits') = page' - b.at
          /\ \A i \in 1 .. 7 : i <= Len(bits') => bits'[i] = (b.byte \div 2^(8 - i)) % 2
      <4>1. /\ Len(bits') = page + 1 - b.at
            /\ \A i \in 1 .. 7 : i <= Len(bits') => bits'[i] = (b.byte \div 2^(8 - i)) % 2
        BY <2>1, <2>2, <3>1, Clocked
      <4>2. page + 1 - b.at = page' - b.at
        BY <2>2, <3>1
      <4> QED  BY <4>1, <4>2, Zenon
    <3>3. Here(b)'
      BY <2>1, <2>2, <3>1 DEF Here
    <3> QED  BY <3>2, <3>3, Zenon DEF Aligned
  <2> QED  BY <2>3, <2>4
<1>6. CASE DelayEnter \/ DelayLoop
  <2>1. bits' = bits /\ page' = page /\ mode' = mode
    BY <1>6 DEF DelayEnter, DelayLoop, NoWrite
  <2> QED  BY <2>1 DEF Aligned, Here
<1>7. CASE DelayDone
  <2>1. page \in DelayPages /\ page' = page + 1 /\ mode = "pages" /\ bits' = bits
    BY <1>7 DEF DelayDone, At, TurnTo, NoWrite, Inv, Placed
  <2>2. bits = << >>
    BY <2>1, EmptyHere DEF Whole
  <2> QED  BY <2>1, <2>2, Afresh DEF DelayPages, Whole, Starts
<1>8. CASE Control
  <2>1. page = CTRL_PAGE /\ page' \in {RING_START, DONE_PAGE} /\ mode = "pages" /\ bits' = bits
    BY <1>8 DEF Control, At, TurnTo, NoWrite
  <2>2. bits = << >>
    BY <2>1, EmptyHere DEF Whole
  <2> QED  BY <2>1, <2>2, Afresh DEF Whole, Starts
<1>9. CASE Reset
  BY <1>9 DEF Reset, Aligned
<1>10. CASE Spin \/ UNCHANGED vars
  <2>1. bits' = bits /\ page' = page /\ mode' = mode
    BY <1>10 DEF Spin, vars, programVars
  <2> QED  BY <2>1 DEF Aligned, Here
<1> QED  BY <1>1, <1>2, <1>3, <1>4, <1>5, <1>6, <1>7, <1>8, <1>9, <1>10 DEF Next, Step

\* What a page that only turns to the next does to the place in the stream.
LEMMA BootTakesNone ==
  ASSUME Writes(x2'), mode = "boot"
  PROVE  received' = received /\ (waited' = waited \/ waited' = 0)
  BY DEF Writes, Deselected, NoEdge, TakesBit, TakesByte

LEMMA InStreamStep ==
  Inv /\ Aligned /\ InStream /\ [Next]_vars => InStream'
<1> SUFFICES ASSUME Inv, Aligned, InStream, [Next]_vars  PROVE InStream'
  OBVIOUS
<1> DEFINE count == load_const32(pixel_count)
<1>0. count \in Int /\ x5 \in Int /\ page \in Nat /\ received \in Seq(Taking)
  BY Loaded DEF Inv, Placed, Ranged
<1>1. CASE Count
  <2>1. received' = received /\ mode = "boot" /\ mode' = "boot"
    BY <1>1, BootTakesNone DEF Count
  <2> QED  BY <2>1 DEF InStream
<1>2. CASE EnterFlash
  BY <1>2 DEF EnterFlash, InStream, NoWrite, Taken
<1>3. CASE Select
  <2>1. Cs(0) = 0 /\ Sck(0) = 0
    BY DEF Cs, Sck
  <2>2. received' = received /\ page = 0 /\ mode = "pages" /\ mode' = mode /\ page' = 1 /\ x5' = count
    BY <1>3, <2>1, NoClock DEF Select, At, TurnTo
  <2> QED  BY <2>2, <1>0 DEF InStream, Taken, RING_START
<1>4. CASE SetUp
  <2>1. PICK b \in Blocks : Here(b) /\ x2' = SetupVal(b)
    BY <1>4 DEF SetUp, SetupWrite
  <2>2. SetupVal(b) \in {0, 2, 4, 6}
    BY <2>1, SetupRange DEF Inv, Placed
  <2>3. Cs(SetupVal(b)) = 0 /\ Sck(SetupVal(b)) = 0
    BY <2>2 DEF Cs, Sck
  <2>4. received' = received /\ page' = page /\ mode' = mode /\ x5' = x5
    BY <1>4, <2>1, <2>3, NoClock DEF SetUp
  <2> QED  BY <2>4 DEF InStream
<1>5. CASE Pulse
  <2>1. PICK b \in Blocks : Here(b) /\ x2' = SetupVal(b) + 1 /\ TurnTo(NextOf(b))
    BY <1>5 DEF Pulse
  <2>2. /\ At("pulse") /\ Writes(SetupVal(b) + 1) /\ x5' = x5 /\ mode' = mode /\ mode = "pages"
        /\ b.at \in Starts /\ b.at \in Nat /\ b.next = b.at + 8
    BY <1>5, <2>1, BlockTypes DEF Pulse, At, Starts, RING_START
  <2>3. Len(received) = Taken(page, x5) /\ x5 <= count /\ (page < RING_START => x5 = count)
    <3>1. page > 0
      <4>1. b.at > 0
        BY <2>2 DEF Starts, RING_START
      <4> QED  BY <1>0, <2>1, <2>2, <4>1 DEF Here
    <3> QED  BY <2>2, <3>1 DEF InStream
  <2>4. b.at <= page /\ page <= b.at + 7
    BY <1>0, <2>1, <2>2 DEF Here
  <2>5. Taken(page, x5) = Taken(b.at, x5)
    BY <1>0, <2>4, Positions
  <2>6. CASE page = b.at + 7
    <3>1. Len(received') = Len(received) + 1 /\ page' = b.at + 8
      <4>1. received' = Append(received, [data |-> b.dc = 4, byte |-> b.byte])
        BY <2>1, <2>2, <2>6, Clocked
      <4>2. [data |-> b.dc = 4, byte |-> b.byte] \in Taking
        BY BlockTypes DEF Taking
      <4>3. page' = b.at + 8
        BY <2>1, <2>2, <2>6 DEF TurnTo, NextOf
      <4> DEFINE r == [data |-> b.dc = 4, byte |-> b.byte]
      <4> HIDE DEF r
      <4>4. received' = Append(received, r) /\ r \in Taking
        BY <4>1, <4>2 DEF r
      <4> QED  BY <1>0, <4>3, <4>4
    <3>2. Taken(b.at + 8, x5) = Taken(b.at, x5) + 1
      <4>1. b.at = 139 => x5 = count
        BY <2>3, <2>6 DEF RING_START
      <4> QED  BY <1>0, <2>2, <4>1, Positions
    <3>3. page' < RING_START => x5 = count
      BY <1>0, <2>3, <2>6, <3>1, <2>2 DEF RING_START
    <3> QED  BY <2>2, <2>3, <2>5, <3>1, <3>2, <3>3 DEF InStream
  <2>7. CASE page # b.at + 7
    <3>1. received' = received /\ page' = page + 1 /\ page + 1 <= b.at + 7
      <4>1. page < b.at + 7
        BY <1>0, <2>2, <2>4, <2>7
      <4>2. received' = received
        BY <2>1, <2>2, <4>1, Clocked
      <4> QED  BY <1>0, <2>1, <2>2, <2>7, <4>1, <4>2 DEF TurnTo, NextOf
    <3>2. Taken(page + 1, x5) = Taken(b.at, x5)
      BY <1>0, <2>2, <2>4, <3>1, Positions
    <3>3. page' < RING_START => x5 = count
      BY <1>0, <2>3, <3>1 DEF RING_START
    <3> QED  BY <2>2, <2>3, <2>5, <3>1, <3>2, <3>3 DEF InStream
  <2> QED  BY <2>6, <2>7
<1>6. CASE DelayEnter \/ DelayLoop
  <2>1. received' = received /\ page' = page /\ mode' = mode /\ x5' = x5
    BY <1>6 DEF DelayEnter, DelayLoop, NoWrite
  <2> QED  BY <2>1 DEF InStream
<1>7. CASE DelayDone
  <2>1. /\ page \in DelayPages /\ page' = page + 1 /\ mode = "pages" /\ mode' = mode
        /\ received' = received /\ x5' = x5
    BY <1>7 DEF DelayDone, At, TurnTo, NoWrite, Inv, Placed
  <2>2. Taken(page + 1, x5) = Taken(page, x5)
    BY <1>0, <2>1 DEF DelayPages, Taken, RING_START
  <2> QED  BY <1>0, <2>1, <2>2 DEF InStream, DelayPages, RING_START
<1>8. CASE Control
  <2>1. /\ page = CTRL_PAGE /\ mode = "pages" /\ mode' = mode
        /\ received' = received /\ x5' = x5 - 1
        /\ page' = RING_START \/ page' = DONE_PAGE
    BY <1>8 DEF Control, At, TurnTo, NoWrite
  <2>2. Taken(RING_START, x5 - 1) = Taken(page, x5) /\ Taken(DONE_PAGE, x5 - 1) = Taken(page, x5)
    BY <1>0, <2>1 DEF Taken, RING_START, CTRL_PAGE, DONE_PAGE
  <2>3. x5 <= count /\ Len(received) = Taken(page, x5)
    BY <2>1 DEF InStream, CTRL_PAGE
  <2>4. x5' <= count /\ ~(page' < RING_START)
    BY <1>0, <2>1, <2>3 DEF RING_START, DONE_PAGE
  <2> QED  BY <2>1, <2>2, <2>3, <2>4 DEF InStream
<1>9. CASE Reset
  BY <1>9 DEF Reset, InStream
<1>10. CASE Spin \/ UNCHANGED vars
  <2>1. received' = received /\ page' = page /\ mode' = mode /\ x5' = x5
    BY <1>10 DEF Spin, vars, programVars
  <2> QED  BY <2>1 DEF InStream
<1> QED  BY <1>1, <1>2, <1>3, <1>4, <1>5, <1>6, <1>7, <1>8, <1>9, <1>10 DEF Next, Step

LEMMA RestedStep ==
  Inv /\ Aligned /\ Rested /\ [Next]_vars => Rested'
<1> SUFFICES ASSUME Inv, Aligned, Rested, [Next]_vars  PROVE Rested'
  OBVIOUS
<1>0. page \in Nat /\ x2 \in Int /\ waited \in Nat /\ Imm12(delay_count) \in Int
  BY Loaded DEF Inv, Placed, Ranged
<1>1. CASE Count
  <2>1. (waited' = waited \/ waited' = 0) /\ mode = "boot" /\ mode' = "boot"
    BY <1>1, BootTakesNone DEF Count
  <2> QED  BY <2>1 DEF Rested
<1>2. CASE EnterFlash
  BY <1>2 DEF EnterFlash, Rested
<1>3. CASE Select
  <2>1. page' = 1 /\ half' = "setup" /\ mode' = "pages"
    BY <1>3 DEF Select, TurnTo, At
  <2> QED  BY <2>1 DEF Rested, DelayPages
<1>4. CASE SetUp
  <2>1. PICK b \in Blocks : Here(b) /\ x2' = SetupVal(b)
    BY <1>4 DEF SetUp, SetupWrite
  <2>2. SetupVal(b) \in {0, 2, 4, 6}
    BY <2>1, SetupRange DEF Inv, Placed
  <2>3. Cs(SetupVal(b)) = 0 /\ Sck(SetupVal(b)) = 0
    BY <2>2 DEF Cs, Sck
  <2>4. /\ waited' = waited /\ page' = page /\ mode' = mode /\ mode = "pages"
        /\ half = "setup" /\ half' = "pulse"
    BY <1>4, <2>1, <2>3, NoClock DEF SetUp, At
  <2> QED  BY <2>4 DEF Rested
<1>5. CASE Pulse
  <2>1. PICK b \in Blocks : Here(b) /\ x2' = SetupVal(b) + 1 /\ TurnTo(NextOf(b))
    BY <1>5 DEF Pulse
  <2>2. /\ At("pulse") /\ Writes(SetupVal(b) + 1) /\ mode' = mode /\ mode = "pages"
        /\ b.at \in Starts /\ b.at \in Nat /\ b.next = b.at + 8 /\ half' = "setup"
    BY <1>5, <2>1, BlockTypes DEF Pulse, At, Starts, RING_START, TurnTo
  <2>3. b.at <= page /\ page <= b.at + 7
    BY <1>0, <2>1, <2>2 DEF Here
  <2>4. CASE page = b.at + 7
    <3>1. waited' = 0 /\ page' = b.at + 8
      BY <2>1, <2>2, <2>4, Clocked DEF TurnTo, NextOf
    <3>2. page' \notin 10 .. 17 /\ page' \notin 19 .. 26
      BY <2>2, <3>1 DEF Starts, RING_START
    <3> QED  BY <2>2, <3>1, <3>2 DEF Rested
  <2>5. CASE page # b.at + 7
    <3>1. page < b.at + 7
      BY <1>0, <2>2, <2>3, <2>5
    <3>2. waited' = waited /\ page' = page + 1
      BY <2>1, <2>2, <2>5, <3>1, Clocked DEF TurnTo, NextOf
    <3>3. page' \notin DelayPages /\ page' # 0
      BY <1>0, <2>2, <2>3, <3>1, <3>2 DEF Starts, RING_START, DelayPages
    <3>4. page' \in 10 .. 17 \/ page' \in 19 .. 26 => page \in 10 .. 17 \/ page \in 19 .. 26
      BY <1>0, <2>2, <2>3, <3>1, <3>2 DEF Starts, RING_START
    <3> QED  BY <2>2, <3>2, <3>3, <3>4 DEF Rested
  <2> QED  BY <2>4, <2>5
<1>6. CASE DelayEnter
  <2>1. /\ half = "setup" /\ half' = "loop" /\ page \in DelayPages /\ page' = page
        /\ mode = "pages" /\ mode' = mode /\ waited' = waited /\ x2' = Imm12(delay_count)
    BY <1>6 DEF DelayEnter, DelayLoaded, At
  <2> QED  BY <1>0, <2>1 DEF Rested, DelayPages
<1>7. CASE DelayLoop
  <2>1. /\ half = "loop" /\ half' = half /\ page' = page /\ page \in DelayPages
        /\ mode = "pages" /\ mode' = mode /\ waited' = waited + 1 /\ x2' = x2 - 1
    BY <1>7 DEF DelayLoop, At, Inv, Placed
  <2> QED  BY <1>0, <2>1 DEF Rested, DelayPages
<1>8. CASE DelayDone
  <2>1. /\ half = "loop" /\ half' = "setup" /\ page \in DelayPages /\ page' = page + 1
        /\ mode = "pages" /\ mode' = mode /\ waited' = waited /\ x2 = 0
    BY <1>8 DEF DelayDone, At, TurnTo, Inv, Placed
  <2>2. waited = Imm12(delay_count)
    BY <1>0, <2>1 DEF Rested
  <2> QED  BY <2>1, <2>2 DEF Rested, DelayPages
<1>9. CASE Control
  <2>1. mode' = "pages" /\ half' = "setup" /\ page' \in {RING_START, DONE_PAGE}
    BY <1>9 DEF Control, TurnTo, At
  <2> QED  BY <2>1 DEF Rested, DelayPages, RING_START, DONE_PAGE
<1>10. CASE Reset
  BY <1>10 DEF Reset, Rested
<1>11. CASE Spin \/ UNCHANGED vars
  BY <1>11 DEF Spin, vars, programVars, Rested
<1> QED
  BY <1>1, <1>2, <1>3, <1>4, <1>5, <1>6, <1>7, <1>8, <1>9, <1>10, <1>11 DEF Next, Step

LEMMA StreamInvInit == Init => StreamInv
<1> SUFFICES ASSUME Init  PROVE StreamInv
  OBVIOUS
<1>1. Len(<< >>) = 0
  OBVIOUS
<1> QED  BY <1>1, InvInit DEF Init, StreamInv, AlignedInBoot, Aligned, InStream, Rested

LEMMA StreamInvStep == HeardDeselected /\ StreamInv /\ [Next]_vars => StreamInv'
  BY InvStep, BootStep, AlignedStep, InStreamStep, RestedStep DEF StreamInv

LEMMA StreamInvariant == ASSUME HeardDeselected PROVE Spec => []StreamInv
<1>1. StreamInv /\ [Next]_vars => StreamInv'
  BY StreamInvStep
<1> QED  BY <1>1, StreamInvInit, PTL DEF Spec

--------------------------------------------------------------------------------
\* WhatTheLoadsKeep: the delays are what was asked for below 2048, the number of
\* pixels if it is below 2^23 and its bit 11 is clear.  240 by 240 is such a number;
\* DELAY_COUNT of the real panel and 240 by 320 are not.
THEOREM WhatTheLoadsKeep ==
  /\ DelayFits <=> delay_count < 2048
  /\ CountFits <=> pixel_count < 2048 * 4096 /\ pixel_count % 4096 < 2048
<1>1. \A n \in Nat : Imm12(n) = n <=> n < 2048
  BY DEF Imm12
<1>2. DelayFits <=> delay_count < 2048
  BY <1>1, DisplayAssumption DEF DelayFits
<1> DEFINE n == pixel_count
           lo == n % 4096
           hi == n \div 4096
<1>3. lo \in Nat /\ lo < 4096 /\ hi \in Nat /\ n = lo + 4096 * hi /\ n \in Nat
  BY DisplayAssumption
<1>4. hi < 2048 <=> n < 2048 * 4096
  <2> HIDE DEF lo, hi, n
  <2> QED  BY <1>3
<1>5. load_const32(n) = Imm12(lo) + 4096 * Imm12(hi)
  BY DEF load_const32
<1> HIDE DEF lo, hi, n
<1>6. Imm12(lo) = IF lo < 2048 THEN lo ELSE lo - 4096
  BY <1>3 DEF Imm12
<1>7. Imm12(hi) \in Int /\ Imm12(hi) < 2048
  BY <1>3 DEF Imm12
<1>8. Imm12(hi) = hi <=> hi < 2048
  BY <1>1, <1>3
<1>9. load_const32(n) = n <=> lo < 2048 /\ hi < 2048
  <2>1. CASE lo < 2048
    <3>1. load_const32(n) = n <=> Imm12(hi) = hi
      BY <1>3, <1>5, <1>6, <1>7, <2>1
    <3> QED  BY <1>8, <2>1, <3>1
  <2>2. CASE ~(lo < 2048)
    <3>1. load_const32(n) = n <=> Imm12(hi) = hi + 1
      BY <1>3, <1>5, <1>6, <1>7, <2>2
    <3>2. Imm12(hi) # hi + 1
      BY <1>3 DEF Imm12
    <3> QED  BY <2>2, <3>1, <3>2
  <2> QED  BY <2>1, <2>2
<1>10. load_const32(n) = n <=> n < 2048 * 4096 /\ lo < 2048
  BY <1>4, <1>9
<1> QED  BY <1>2, <1>10 DEF CountFits, n, lo

--------------------------------------------------------------------------------
LEMMA DelayLeftStep == DelayFits /\ Inv /\ DelayLeft /\ [Next]_vars => DelayLeft'
<1> SUFFICES ASSUME DelayFits, Inv, DelayLeft, [Next]_vars  PROVE x2' \in Nat
  BY DEF DelayLeft
<1> USE DEF DelayLeft, Inv
<1>1. CASE Count
  BY <1>1, DisplayAssumption DEF Count, Counted
<1>2. CASE Select
  BY <1>2 DEF Select
<1>3. CASE SetUp
  <2>1. PICK b \in Blocks : Here(b) /\ x2' = SetupVal(b)
    BY <1>3 DEF SetUp, SetupWrite
  <2> QED  BY <2>1, SetupRange DEF Placed
<1>4. CASE Pulse
  <2>1. PICK b \in Blocks : Here(b) /\ x2' = SetupVal(b) + 1
    BY <1>4 DEF Pulse
  <2> QED  BY <2>1, SetupRange DEF Placed
<1>5. CASE DelayEnter
  BY <1>5, DisplayAssumption DEF DelayEnter, DelayLoaded, DelayFits
<1>6. CASE DelayLoop
  BY <1>6 DEF DelayLoop
<1>7. CASE EnterFlash \/ DelayDone \/ Control \/ Reset \/ Spin \/ UNCHANGED vars
  BY <1>7 DEF EnterFlash, DelayDone, Control, Reset, Spin, vars, programVars
<1> QED  BY <1>1, <1>2, <1>3, <1>4, <1>5, <1>6, <1>7 DEF Next, Step

LEMMA PixelsLeftStep == CountFits /\ Inv /\ PixelsLeft /\ [Next]_vars => PixelsLeft'
<1> SUFFICES ASSUME CountFits, Inv, PixelsLeft, [Next]_vars  PROVE PixelsLeft'
  OBVIOUS
<1>0. page \in Nat /\ pixel_count \in Nat \ {0}
  BY DisplayAssumption DEF Inv, Placed
<1>1. CASE Count \/ Reset
  BY <1>1 DEF Count, Reset, PixelsLeft
<1>2. CASE EnterFlash
  BY <1>2 DEF EnterFlash, PixelsLeft
<1>3. CASE Select
  BY <1>0, <1>3 DEF Select, CountFits, PixelsLeft
<1>4. CASE Pulse
  <2>1. PICK b \in Blocks : Here(b) /\ page' = NextOf(b)
    BY <1>4 DEF Pulse, TurnTo
  <2>2. page \in 1 .. CTRL_PAGE
    <3>1. b.at \in 1 .. 155
      BY BlockTypes DEF Starts, RING_START
    <3> QED  BY <1>0, <2>1, <3>1 DEF Here, CTRL_PAGE
  <2> QED  BY <1>4, <2>2 DEF Pulse, At, PixelsLeft
<1>5. CASE DelayDone
  BY <1>5 DEF DelayDone, At, PixelsLeft, Inv, Placed, DelayPages, CTRL_PAGE
<1>6. CASE Control
  <2>1. x5 \in 1 .. pixel_count /\ x5' = x5 - 1 /\ mode' = mode
        /\ page' = IF x5 - 1 # 0 THEN RING_START ELSE DONE_PAGE
    BY <1>0, <1>6 DEF Control, At, PixelsLeft, CTRL_PAGE, MorePixels, TurnTo
  <2> QED  BY <1>0, <2>1 DEF PixelsLeft, CTRL_PAGE, DONE_PAGE
<1>7. CASE SetUp \/ DelayEnter \/ DelayLoop \/ Spin \/ UNCHANGED vars
  BY <1>7 DEF SetUp, DelayEnter, DelayLoop, Spin, vars, programVars, PixelsLeft
<1> QED  BY <1>1, <1>2, <1>3, <1>4, <1>5, <1>6, <1>7 DEF Next, Step

LEMMA PixelsLeftInvariant == ASSUME CountFits PROVE Spec => []PixelsLeft
<1>1. Init => PixelsLeft
  BY DisplayAssumption DEF Init, PixelsLeft
<1>2. Inv /\ PixelsLeft /\ [Next]_vars => PixelsLeft'
  BY PixelsLeftStep
<1> QED  BY <1>1, <1>2, InvInvariant, PTL DEF Spec

\* TypeCorrect: where both loads keep their numbers, the program stays on its pages,
\* counts neither pixels nor delays below zero, and the panel never gathers more
\* bits than a byte has; stray bits of the boot ROM's counter included.
THEOREM TypeCorrect == ASSUME DelayFits, CountFits PROVE Spec => []TypeOK
<1>1. Init => DelayLeft
  BY DEF Init, DelayLeft
<1>2. Inv /\ DelayLeft /\ [Next]_vars => DelayLeft'
  BY DelayLeftStep
<1>3. Inv /\ DelayLeft /\ PixelsLeft => TypeOK
  BY DEF Inv, Placed, Counted, Ranged, DelayLeft, PixelsLeft, TypeOK
<1> QED  BY <1>1, <1>2, <1>3, InvInvariant, PixelsLeftInvariant, PTL DEF Spec

--------------------------------------------------------------------------------
\* RestsAreKept: entered with the panel empty, and with a delay that fits its
\* immediate, the program leaves the panel alone for the whole delay after SWRESET
\* and after SLPOUT, whatever the number of pixels and resets.
THEOREM RestsAreKept == ASSUME HeardDeselected, DelayFits PROVE Spec => []Rests
<1>1. StreamInv => Rests
  <2> SUFFICES ASSUME StreamInv, Len(received) \in {1, 2}, bits # << >>
               PROVE  waited >= delay_count
    BY DEF Rests
  <2> USE DEF StreamInv
  <2>1. page \in Nat /\ page <= 164 /\ x5 \in Int /\ load_const32(pixel_count) \in Int
    BY Loaded DEF Inv, Placed, Ranged, DONE_PAGE
  <2>2. mode = "pages" /\ Len(received) = Taken(page, x5)
    BY DEF InStream, Inv, Placed
  <2>3. page \notin Whole
    BY <2>2, EmptyHere
  <2>4. page \notin {0, 9, 18, 163, 164}
    BY <2>3 DEF Whole, DelayPages, CTRL_PAGE, DONE_PAGE
  <2>5. page \in 10 .. 17 \/ page \in 19 .. 26
    <3>1. CASE page < RING_START
      BY <2>1, <2>2, <2>4, <3>1 DEF Taken, RING_START
    <3>2. CASE ~(page < RING_START)
      <4>1. x5 <= load_const32(pixel_count)
        BY <2>1, <2>2, <3>2 DEF InStream, RING_START
      <4> QED  BY <2>1, <2>2, <3>2, <4>1 DEF Taken, RING_START, DONE_PAGE
    <3> QED  BY <3>1, <3>2
  <2>6. waited = Imm12(delay_count)
    BY <2>2, <2>5 DEF Rested
  <2> QED  BY <2>6, DisplayAssumption DEF DelayFits
<1> QED  BY <1>1, StreamInvariant, PTL

\* StreamIsFilled: entered with the panel empty, and with a number of pixels that
\* load_const32 keeps, the program sends the panel nothing but the stream that fills
\* it, byte after byte, and no byte after its last.
THEOREM StreamIsFilled == ASSUME HeardDeselected, CountFits PROVE Spec => StreamInOrder
<1>1. Init => Display!Init
  BY DEF Init, Display!Init
<1>2. StreamInv /\ PixelsLeft /\ [Next]_vars => [Display!Transfer \/ Display!Restart]_received
  <2> SUFFICES ASSUME StreamInv, PixelsLeft, [Next]_vars
               PROVE  Display!Transfer \/ Display!Restart \/ received' = received
    OBVIOUS
  <2> USE DEF StreamInv
  <2>1. CASE Count
    BY <2>1, BootTakesNone DEF Count
  <2>2. CASE Select
    <3>1. Cs(0) = 0 /\ Sck(0) = 0
      BY DEF Cs, Sck
    <3> QED  BY <2>2, <3>1, NoClock DEF Select
  <2>3. CASE SetUp
    <3>1. PICK b \in Blocks : Here(b) /\ x2' = SetupVal(b)
      BY <2>3 DEF SetUp, SetupWrite
    <3>2. SetupVal(b) \in {0, 2, 4, 6}
      BY <3>1, SetupRange DEF Inv, Placed
    <3>3. Cs(SetupVal(b)) = 0 /\ Sck(SetupVal(b)) = 0
      BY <3>2 DEF Cs, Sck
    <3> QED  BY <2>3, <3>1, <3>3, NoClock DEF SetUp
  <2>4. CASE Pulse
    <3>1. PICK b \in Blocks : Here(b) /\ x2' = SetupVal(b) + 1
      BY <2>4 DEF Pulse
    <3>2. At("pulse") /\ Writes(SetupVal(b) + 1) /\ mode = "pages" /\ page \in Nat
      BY <2>4, <3>1 DEF Pulse, At, Inv, Placed
    <3>3. b.at \in 1 .. 155
      BY BlockTypes DEF Starts, RING_START
    <3>4. b.at <= page /\ page <= b.at + 7
      BY <3>1, <3>2, <3>3 DEF Here
    <3>5. CASE page < b.at + 7
      BY <3>1, <3>2, <3>5, Clocked
    <3>6. CASE page = b.at + 7
      <4>1. received' = Append(received, [data |-> b.dc = 4, byte |-> b.byte])
        BY <3>1, <3>2, <3>6, Clocked
      <4>2. x5 \in 1 .. pixel_count
        BY <3>2, <3>3, <3>4, DisplayAssumption DEF PixelsLeft, CTRL_PAGE
      <4>3. Len(received) = Taken(b.at, x5)
        <5>1. Len(received) = Taken(page, x5)
          BY <3>2 DEF InStream
        <5>2. Taken(page, x5) = Taken(b.at, x5)
          BY <3>2, <3>4, <4>2, Positions
        <5> QED  BY <5>1, <5>2
      <4>4. /\ Len(received) + 1 \in 1 .. Len(Display!Stream)
            /\ Display!Stream[Len(received) + 1] = [data |-> b.dc = 4, byte |-> b.byte]
        BY <4>2, <4>3, OnTheStream
      <4>5. Len(received) < Len(Display!Stream)
        <5>1. Len(received) \in Int /\ Len(Display!Stream) \in Int
          BY StreamIs, DisplayAssumption DEF Inv, Ranged
        <5> QED  BY <4>4, <5>1
      <4> QED  BY <4>1, <4>4, <4>5, Zenon DEF Display!Transfer
    <3> QED  BY <3>2, <3>3, <3>4, <3>5, <3>6
  <2>5. CASE Reset
    BY <2>5 DEF Reset, Display!Restart
  <2>6. CASE EnterFlash \/ DelayEnter \/ DelayLoop \/ DelayDone \/ Control \/ Spin \/ UNCHANGED vars
    BY <2>6 DEF EnterFlash, DelayEnter, DelayLoop, DelayDone, Control, Spin, NoWrite, vars
  <2> QED  BY <2>1, <2>2, <2>3, <2>4, <2>5, <2>6 DEF Next, Step
<1> QED
  BY <1>1, <1>2, StreamInvariant, PixelsLeftInvariant, PTL DEF Spec, StreamInOrder, Display!Safety

================================================================================
