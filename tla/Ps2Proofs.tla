-------------------------------- MODULE Ps2Proofs --------------------------------
(***************************************************************************)
(* The receiver keeps its place for every keyboard that leaves a frame's   *)
(* edges and the gap between frames the time Ps2Assumption asks for: how   *)
(* far the keyboard may be ahead is bounded by how deep in its pages the   *)
(* program is.  And what the programs show is what was typed: the bytes    *)
(* struck and not dealt with are what the flags leave of one key, or of    *)
(* one key's end and the next, and what is owed is owed for those keys.    *)
(***************************************************************************)
EXTENDS Ps2Ascii, SequenceTheorems, TLAPS

LEMMA Parameters ==
  /\ Hold \in Nat /\ Hold >= 1 /\ Gap \in Nat /\ Gap + Hold >= 9
  /\ MaxHeld \in Nat /\ Hold <= MaxHeld /\ Gap <= MaxHeld
  BY Ps2Assumption DEF MaxHeld

--------------------------------------------------------------------------------
(* Bits                                                                    *)

LEMMA Powers ==
  /\ BitValue[1] = 1  /\ BitValue[2] = 2  /\ BitValue[3] = 4   /\ BitValue[4] = 8
  /\ BitValue[5] = 16 /\ BitValue[6] = 32 /\ BitValue[7] = 64  /\ BitValue[8] = 128
  /\ BitValue[9] = 256
  BY DEF BitValue

\* One more low bit of a byte.
LEMMA OneMoreBit ==
  ASSUME NEW b \in Byte
  PROVE  /\ b % 1   = 0
         /\ b % 4   = (b % 2)   + 2   * ((b \div 2) % 2)
         /\ b % 8   = (b % 4)   + 4   * ((b \div 4) % 2)
         /\ b % 16  = (b % 8)   + 8   * ((b \div 8) % 2)
         /\ b % 32  = (b % 16)  + 16  * ((b \div 16) % 2)
         /\ b % 64  = (b % 32)  + 32  * ((b \div 32) % 2)
         /\ b % 128 = (b % 64)  + 64  * ((b \div 64) % 2)
         /\ b % 256 = (b % 128) + 128 * ((b \div 128) % 2)
         /\ b % 256 = b
  BY DEF Byte

\* The bit that ORI sets is clear in what has been gathered before.
LEMMA StillClear ==
  ASSUME NEW b \in Byte
  PROVE  /\ ((b % 1) \div 1) % 2 = 0     /\ ((b % 2) \div 2) % 2 = 0
         /\ ((b % 4) \div 4) % 2 = 0     /\ ((b % 8) \div 8) % 2 = 0
         /\ ((b % 16) \div 16) % 2 = 0   /\ ((b % 32) \div 32) % 2 = 0
         /\ ((b % 64) \div 64) % 2 = 0   /\ ((b % 128) \div 128) % 2 = 0
  BY DEF Byte

\* What has been gathered of a byte when each page is to be run.
LEMMA SampledAt ==
  ASSUME NEW b \in Byte
  PROVE  /\ \A p \in 1 .. 3 : Sampled(b, p) = b % 1
         /\ \A p \in 4 .. 5 : Sampled(b, p) = b % 2
         /\ \A p \in 6 .. 7 : Sampled(b, p) = b % 4
         /\ \A p \in 8 .. 9 : Sampled(b, p) = b % 8
         /\ \A p \in 10 .. 11 : Sampled(b, p) = b % 16
         /\ \A p \in 12 .. 13 : Sampled(b, p) = b % 32
         /\ \A p \in 14 .. 15 : Sampled(b, p) = b % 64
         /\ \A p \in 16 .. 17 : Sampled(b, p) = b % 128
         /\ \A p \in 18 .. 22 : Sampled(b, p) = b % 256
  BY Powers DEF Sampled, BIT_PAGES_START, PARITY_LOW

\* What ORI makes of the low bits of a byte and its next bit.
LEMMA Gathered ==
  ASSUME NEW b \in Byte, NEW w \in {1, 2, 4, 8, 16, 32, 64, 128}
  PROVE  (IF (b \div w) % 2 = 1
            THEN IF ((b % w) \div w) % 2 = 1 THEN b % w ELSE (b % w) + w
            ELSE b % w) = b % (2 * w)
<1>1. b \div 1 = b /\ b % 1 = 0 /\ b % 2 \in Nat  BY DEF Byte
<1>2. (b \div w) % 2 = 0 \/ (b \div w) % 2 = 1
  BY DEF Byte
<1>3. ((b % w) \div w) % 2 = 0  BY StillClear
<1>4. b % (2 * w) = (b % w) + w * ((b \div w) % 2)
  <2>1. CASE w = 1
    <3>1. b % (2 * w) = b % 2 /\ b % w = b % 1 /\ (b \div w) % 2 = b % 2  BY <2>1, <1>1
    <3> QED  BY <3>1, <2>1, <1>1
  <2>2. CASE w # 1
    BY <2>2, OneMoreBit
  <2> QED  BY <2>1, <2>2
<1> QED  BY <1>2, <1>3, <1>4 DEF Byte

\* The n-th bit, as a page finds it on the wire and gathers it.
LEMMA GatherBit ==
  ASSUME NEW b \in Byte, NEW p \in SamplePages, accum = Sampled(b, p), edges = p,
         bytes # << >>, b = Head(bytes),
         accum' = IF Data = 1 THEN Ored(accum, BitIndex(p)) ELSE accum
  PROVE  accum' = Sampled(b, p + 1)
<1> DEFINE n == (p - 3) \div 2
           bit == (b \div BitValue[n + 1]) % 2
<1>1. /\ n \in 0 .. 7 /\ p = 2 * n + 3 /\ BitIndex(p) = n
      /\ p % 2 = 1 /\ p \div 2 = n + 1
  BY DEF SamplePages, BitIndex, BIT_PAGES_START
<1>2. Data = bit
  BY <1>1 DEF Data, Clock, FrameBit, BitOf
<1>3. Ored(accum, n) = IF (accum \div BitValue[n + 1]) % 2 = 1 THEN accum ELSE accum + BitValue[n + 1]
  BY DEF Ored, BitOf
<1>4. /\ BitValue[n + 1] \in {1, 2, 4, 8, 16, 32, 64, 128}
      /\ accum = b % BitValue[n + 1] /\ Sampled(b, p + 1) = b % (2 * BitValue[n + 1])
  <2> HIDE DEF n
  <2>1. /\ accum = Sampled(b, 2 * n + 3) /\ Sampled(b, p + 1) = Sampled(b, 2 * n + 4)
        /\ n = 0 \/ n = 1 \/ n = 2 \/ n = 3 \/ n = 4 \/ n = 5 \/ n = 6 \/ n = 7
    BY <1>1
  <2>2. /\ Sampled(b, 3) = b % 1   /\ Sampled(b, 4) = b % 2
        /\ Sampled(b, 5) = b % 2   /\ Sampled(b, 6) = b % 4
        /\ Sampled(b, 7) = b % 4   /\ Sampled(b, 8) = b % 8
        /\ Sampled(b, 9) = b % 8   /\ Sampled(b, 10) = b % 16
        /\ Sampled(b, 11) = b % 16 /\ Sampled(b, 12) = b % 32
        /\ Sampled(b, 13) = b % 32 /\ Sampled(b, 14) = b % 64
        /\ Sampled(b, 15) = b % 64 /\ Sampled(b, 16) = b % 128
        /\ Sampled(b, 17) = b % 128 /\ Sampled(b, 18) = b % 256
    BY SampledAt
  <2> QED  BY <2>1, <2>2, Powers
<1> QED  BY <1>1, <1>2, <1>3, <1>4, Gathered, SMTT(60)

\* Between the sampling pages nothing is gathered and nothing is missing.
LEMMA NothingToGather ==
  ASSUME NEW b \in Byte, NEW p \in (1 .. 21) \ SamplePages
  PROVE  Sampled(b, p + 1) = Sampled(b, p)
  BY SampledAt DEF SamplePages

LEMMA FirstAndLast ==
  \A b \in Byte : Sampled(b, 1) = 0 /\ Sampled(b, 22) = b
  BY SampledAt, OneMoreBit DEF Byte

LEMMA SampledIsByte ==
  ASSUME NEW b \in Byte, NEW p \in 1 .. 22
  PROVE  Sampled(b, p) \in Byte
<1>1. \/ p \in 1 .. 3 \/ p \in 4 .. 5 \/ p \in 6 .. 7 \/ p \in 8 .. 9 \/ p \in 10 .. 11
      \/ p \in 12 .. 13 \/ p \in 14 .. 15 \/ p \in 16 .. 17 \/ p \in 18 .. 22
  OBVIOUS
<1> QED  BY <1>1, SampledAt, OneMoreBit DEF Byte

--------------------------------------------------------------------------------
(* The invariant                                                           *)

\* Ticks a page past the frame is behind the first of them, at most.
Depth(p) == IF p <= PROCESS_DISPATCH THEN p - RESULT_PAGE ELSE IF p = EMIT_PAGE THEN 6 ELSE 5

\* How far ahead the keyboard is while the program is not at the receiver's pages.
OnTime ==
  /\ page = 0 => edges = 0
  /\ page = STOP_HIGH /\ edges = 0 => held = 1
  /\ page > STOP_HIGH /\ edges = 0 => held <= Depth(page) + 2
  /\ page > STOP_HIGH /\ edges = 1 => held + Gap <= Depth(page) + 2

IInv == TypeOK /\ InStep /\ OnTime

\* What a visit to a page comes to.
LEMMA VisitStep ==
  ASSUME IInv, NEW left, Visit(left)
  PROVE  \/ page = 0 /\ page' = 1 /\ accum' = 0
         \/ page \in 1 .. 22 /\ ~EdgeSeen(page) /\ page' = page /\ accum' = accum
         \/ /\ page \in (1 .. 22) \ SamplePages /\ EdgeSeen(page)
            /\ page' = page + 1 /\ accum' = accum
         \/ /\ page \in SamplePages /\ EdgeSeen(page) /\ page' = page + 1
            /\ accum' = IF Data = 1 THEN Ored(accum, BitIndex(page)) ELSE accum
         \/ page > 22 /\ page' = 1 /\ accum' = 0
         \/ /\ page > 22 /\ page' > 22 /\ page' \in Byte /\ accum' = accum
            /\ Depth(page') = Depth(page) + 1
            /\ page' \in 23 .. 27 => page \in 23 .. 27
<1>0. page \in Byte /\ accum \in Byte
  BY DEF IInv, TypeOK
<1>1. CASE Begin
  BY <1>1 DEF Begin, Start, START_LOW
<1>2. CASE ReceiveByte
  BY <1>2 DEF ReceiveByte, Receive, Poll, wait_clock, wait_clock_low_and_sample, STOP_HIGH
<1>3. CASE BreakPrefix \/ ExtendedPrefix \/ Result \/ EndOfRelease \/ EndOfExtended \/ Emit
  BY <1>3 DEF BreakPrefix, ExtendedPrefix, Result, EndOfRelease, EndOfExtended, Emit, Listen,
    START_LOW, PROCESS_BP, PROCESS_F0, PROCESS_E0, PROCESS_EXTCHECK, RESULT_PAGE, EMIT_PAGE
<1>4. CASE NotThis
  BY <1>4, <1>0 DEF NotThis, PROCESS_BP, PROCESS_F0, PROCESS_E0, PROCESS_EXTCHECK,
    PROCESS_DISPATCH, RESULT_PAGE, Depth, Byte
<1>5. CASE Dispatch
  <2>1. page = 27 /\ page' = TablePage(accum) /\ accum' = accum
    BY <1>5 DEF Dispatch, PROCESS_DISPATCH
  <2>2. TablePage(accum) \in 29 .. 255
    BY <1>0 DEF TablePage, PageStored, TABLE_START, MAX_SAFE_SCANCODE, Byte
  <2> QED  BY <2>1, <2>2 DEF Depth, PROCESS_DISPATCH, RESULT_PAGE, EMIT_PAGE, Byte
<1>6. CASE LookUp
  <2>1. page >= 29 /\ page' = 28 /\ accum' = accum
    BY <1>6 DEF LookUp, TABLE_START, EMIT_PAGE
  <2> QED  BY <2>1, <1>0 DEF Depth, PROCESS_DISPATCH, RESULT_PAGE, EMIT_PAGE, Byte
<1> QED
  BY <1>1, <1>2, <1>3, <1>4, <1>5, <1>6 DEF Visit, Step, EventEnds

\* What the keyboard does in the meantime.
LEMMA WireBytesSent ==
  ASSUME NEW e \in Events
  PROVE  WireBytes(e) \in Seq(Byte) /\ WireBytes(e) # << >>
<1>1. /\ e.code \in Byte /\ EXTENDED_PREFIX \in Byte /\ BREAK_PREFIX \in Byte
  BY Ps2Assumption DEF Byte, EXTENDED_PREFIX, BREAK_PREFIX
<1> DEFINE ext == IF e.extended THEN <<EXTENDED_PREFIX>> ELSE << >>
           brk == IF e.released THEN <<BREAK_PREFIX>> ELSE << >>
<1>2. ext \in Seq(Byte) /\ brk \in Seq(Byte) /\ <<e.code>> \in Seq(Byte) /\ Len(<<e.code>>) = 1
  BY <1>1
<1> HIDE DEF ext, brk
<1>3. ext \o brk \in Seq(Byte) /\ (ext \o brk) \o <<e.code>> \in Seq(Byte)
      /\ Len((ext \o brk) \o <<e.code>>) > 0
  BY <1>2
<1> QED  BY <1>3 DEF WireBytes, ext, brk

LEMMA KeyboardStep ==
  ASSUME IInv, NEW left, Keyboard(left)
  PROVE  /\ bytes' \in Seq(Byte) /\ lastByte' \in Byte
         /\ edges' > 0 => bytes' # << >>
         /\ edges > 0 => Head(bytes) \in Byte
         /\ \/ /\ edges' = edges /\ bytes' = bytes /\ lastByte' = lastByte
               /\ held' = IF held < MaxHeld THEN held + 1 ELSE held
            \/ edges = 0 /\ held >= Gap /\ edges' = 1 /\ held' = 1 /\ lastByte' = lastByte
            \/ /\ edges \in 1 .. 20 /\ held >= Hold /\ edges' = edges + 1 /\ held' = 1
               /\ bytes' = bytes /\ lastByte' = lastByte
            \/ /\ edges = 21 /\ held >= Hold /\ edges' = 0 /\ held' = 1
               /\ lastByte' = Head(bytes)
<1>1. /\ bytes \in Seq(Byte) /\ edges \in 0 .. 21 /\ (edges > 0 => bytes # << >>)
      /\ lastByte \in Byte
  BY DEF IInv, TypeOK, FrameEdges
<1>2. edges > 0 => Head(bytes) \in Byte /\ Tail(bytes) \in Seq(Byte)
  BY <1>1
<1>3. CASE Rest
  BY <1>3, <1>1, <1>2 DEF Rest
<1>4. CASE StartFrame
  BY <1>4, <1>1, <1>2 DEF StartFrame
<1>5. CASE NextEdge
  BY <1>5, <1>1, <1>2 DEF NextEdge, FrameEdges
<1>6. CASE EndFrame
  BY <1>6, <1>1, <1>2 DEF EndFrame, FrameEdges
<1>7. ASSUME NEW e \in Events, Strike(e) PROVE bytes' \in Seq(Byte) /\ bytes' # << >>
  BY <1>7, WireBytesSent DEF Strike
<1>8. ASSUME NEW e \in Events, Strike(e)
      PROVE  edges = 0 /\ held >= Gap /\ edges' = 1 /\ held' = 1 /\ lastByte' = lastByte
  BY <1>8 DEF Strike
<1>9. Rest \/ StartFrame \/ NextEdge \/ EndFrame \/ \E e \in Events : Strike(e)
  BY DEF Keyboard, Send
<1> QED  BY <1>1, <1>2, <1>3, <1>4, <1>5, <1>6, <1>7, <1>8, <1>9

--------------------------------------------------------------------------------
(* Types                                                                   *)

LEMMA RegistersTyped ==
  ASSUME IInv, NEW left, Visit(left)
  PROVE  /\ break_pending' \in {0, 1} /\ ext_pending' \in {0, 1}
         /\ x8' \in Byte /\ gpio_out' \in Byte
<1>1. /\ break_pending \in {0, 1} /\ ext_pending \in {0, 1} /\ x8 \in Byte /\ gpio_out \in Byte
      /\ accum \in Byte
  BY DEF IInv, TypeOK
<1>2. \A s : Translation(s) \in Byte
  BY AsciiAssumption DEF Translation, Byte
<1>3. CASE Begin \/ ReceiveByte \/ BreakPrefix \/ ExtendedPrefix \/ NotThis \/ Dispatch
  BY <1>3, <1>1 DEF Begin, ReceiveByte, BreakPrefix, ExtendedPrefix, NotThis, Dispatch, flagVars
<1>4. CASE Result \/ EndOfRelease \/ EndOfExtended \/ Emit
  BY <1>4, <1>1 DEF Result, EndOfRelease, EndOfExtended, Emit, flagVars
<1>5. CASE LookUp
  BY <1>5, <1>1, <1>2 DEF LookUp, flagVars
<1> QED  BY <1>3, <1>4, <1>5 DEF Visit, Step, EventEnds

--------------------------------------------------------------------------------
(* Edges, and the bits gathered from them                                  *)

\* Where the program and the keyboard can be, in numbers.
Abreast ==
  /\ page \in 0 .. 255 /\ edges \in 0 .. 21 /\ held \in 0 .. MaxHeld
  /\ page = 0 => edges = 0
  /\ page \in 1 .. 22 => edges = page - 1 \/ edges = page \/ (page = 22 /\ edges = 0)
  /\ page = 22 => edges # 22
  /\ page > 22 => edges \in {0, 1}
  /\ page = 22 /\ edges = 0 => held = 1
  /\ page > 22 => Depth(page) \in 0 .. 6
  /\ page > 22 /\ edges = 0 => held <= Depth(page) + 2
  /\ page > 22 /\ edges = 1 => held + Gap <= Depth(page) + 2

LEMMA DepthBound == \A p \in Nat : p > 22 => Depth(p) \in 0 .. 6
  BY DEF Depth, PROCESS_DISPATCH, RESULT_PAGE, EMIT_PAGE

LEMMA IsAbreast == IInv => Abreast
<1> SUFFICES ASSUME IInv PROVE Abreast
  OBVIOUS
<1>1. page \in 0 .. 255 /\ edges \in 0 .. 21 /\ held \in 0 .. MaxHeld
  BY DEF IInv, TypeOK, Byte, FrameEdges
<1>2. page \in 1 .. 22 => edges = page - 1 \/ edges = page \/ (page = 22 /\ edges = 0)
  <2> SUFFICES ASSUME page \in 1 .. 22 PROVE edges = page - 1 \/ edges = page \/ (page = 22 /\ edges = 0)
    OBVIOUS
  <2>1. edges = page - 1 \/ edges = page % 22
    BY DEF IInv, InStep, STOP_HIGH, FrameEdges
  <2>2. page % 22 = IF page = 22 THEN 0 ELSE page
    OBVIOUS
  <2> QED  BY <2>1, <2>2
<1> QED  BY <1>1, <1>2, DepthBound DEF Abreast, IInv, InStep, OnTime, STOP_HIGH, FrameEdges

\* The level of CLOCK, at the page for an edge that has come or is to come.
LEMMA EdgeToCome ==
  ASSUME NEW p \in 1 .. 22, page = p
  PROVE  /\ edges = p - 1 => ~EdgeSeen(p)
         /\ edges = p => EdgeSeen(p)
         /\ p = 22 /\ edges = 0 => EdgeSeen(p)
  BY DEF EdgeSeen, Clock

LEMMA AbreastStep ==
  ASSUME IInv, NEW l1, Visit(l1), NEW l2, Keyboard(l2)
  PROVE  Abreast'
<1>1. Abreast  BY IsAbreast
<1>2. page \in 1 .. 22 =>
        /\ edges = page - 1 => ~EdgeSeen(page)
        /\ edges = page \/ (edges = 0 /\ page = 22) => EdgeSeen(page)
  BY <1>1, EdgeToCome
<1>3. \/ page = 0 /\ page' = 1
      \/ page \in 1 .. 22 /\ ~EdgeSeen(page) /\ page' = page
      \/ page \in 1 .. 22 /\ EdgeSeen(page) /\ page' = page + 1
      \/ page > 22 /\ page' = 1
      \/ page > 22 /\ page' \in 23 .. 255 /\ Depth(page') = Depth(page) + 1
  BY VisitStep DEF Byte, SamplePages
<1>4. \/ edges' = edges /\ held' = (IF held < MaxHeld THEN held + 1 ELSE held)
      \/ edges = 0 /\ held >= Gap /\ edges' = 1 /\ held' = 1
      \/ edges \in 1 .. 20 /\ held >= Hold /\ edges' = edges + 1 /\ held' = 1
      \/ edges = 21 /\ held >= Hold /\ edges' = 0 /\ held' = 1
  BY KeyboardStep
<1>5. Depth(23) = 0 /\ \A p \in Nat : p > 22 => Depth(p) \in 0 .. 6
  BY DepthBound DEF Depth, PROCESS_DISPATCH, RESULT_PAGE
<1>6. CASE page = 0
  BY <1>6, <1>1, <1>3, <1>4, Parameters DEF Abreast
<1>7. CASE page \in 1 .. 22 /\ edges = page - 1
  BY <1>7, <1>1, <1>2, <1>3, <1>4, Parameters DEF Abreast
<1>8. CASE page \in 1 .. 21 /\ edges = page
  BY <1>8, <1>1, <1>2, <1>3, <1>4, Parameters DEF Abreast
<1>9. CASE page = 22 /\ edges = 0
  BY <1>9, <1>1, <1>2, <1>3, <1>4, <1>5, Parameters DEF Abreast
<1>10. CASE page > 22
  BY <1>10, <1>1, <1>3, <1>4, <1>5, Parameters DEF Abreast
<1> QED  BY <1>1, <1>6, <1>7, <1>8, <1>9, <1>10 DEF Abreast

\* What has been gathered goes with the edges that have come.
LEMMA GatheredStep ==
  ASSUME IInv, NEW l1, Visit(l1), NEW l2, Keyboard(l2)
  PROVE  /\ accum' \in Byte
         /\ page' \in 1 .. 22 =>
              accum' = IF edges' > 0 THEN Sampled(Head(bytes'), page')
                       ELSE IF page' = 1 THEN 0 ELSE lastByte'
         /\ page' \in 23 .. 27 => accum' = lastByte'
<1>1. Abreast /\ Abreast'  BY IsAbreast, AbreastStep
<1>2. /\ accum \in Byte /\ lastByte \in Byte
      /\ page \in 1 .. 22 =>
           accum = IF edges > 0 THEN Sampled(Head(bytes), page) ELSE IF page = 1 THEN 0 ELSE lastByte
      /\ page \in 23 .. 27 => accum = lastByte
  BY DEF IInv, TypeOK, InStep, STOP_HIGH, START_LOW, RESULT_PAGE, PROCESS_DISPATCH
<1>3. /\ edges > 0 => Head(bytes) \in Byte /\ bytes # << >>
      /\ edges' > 0 => Head(bytes') \in Byte
  BY KeyboardStep DEF IInv, TypeOK
<1>4. /\ edges > 0 /\ edges' > 0 => bytes' = bytes
      /\ edges > 0 /\ edges' = 0 => lastByte' = Head(bytes) /\ edges = 21
      /\ edges = 0 => lastByte' = lastByte
      /\ edges > 0 /\ edges < 21 => lastByte' = lastByte
      /\ edges = 21 /\ edges' = 21 => lastByte' = lastByte
  BY <1>1, KeyboardStep DEF Abreast
<1>listening. CASE page' = 1 /\ accum' = 0
  <2>1. edges' > 0 => Sampled(Head(bytes'), 1) = 0  BY <1>3, FirstAndLast
  <2>2. 0 \in Byte  BY DEF Byte
  <2> QED  BY <1>listening, <2>1, <2>2
<1>5. CASE page = 0
  <2>1. page' = 1 /\ accum' = 0  BY <1>5, VisitStep DEF SamplePages
  <2> QED  BY <2>1, <1>listening
<1>6. CASE page \in 1 .. 22 /\ ~EdgeSeen(page)
  <2>1. page' = page /\ accum' = accum  BY <1>6, VisitStep
  <2>2. edges = page - 1
    BY <1>6, <1>1, EdgeToCome DEF Abreast
  <2>3. CASE page = 1
    <3>1. accum' = 0 /\ page' = 1  BY <2>1, <2>2, <2>3, <1>2
    <3> QED  BY <3>1, <1>listening
  <2>4. CASE page \in 2 .. 22 /\ edges' > 0
    BY <2>1, <2>2, <2>4, <1>2, <1>4
  <2>5. CASE page \in 2 .. 22 /\ edges' = 0
    <3>1. page = 22  BY <2>5, <2>2, <1>4
    <3> QED  BY <3>1, <2>1, <2>2, <2>5, <1>2, <1>3, <1>4, FirstAndLast
  <2> QED  BY <2>3, <2>4, <2>5, <1>6, <1>1 DEF Abreast
<1>7. CASE page \in 1 .. 21 /\ EdgeSeen(page)
  <2>1. edges = page /\ page' = page + 1
    BY <1>7, <1>1, EdgeToCome, VisitStep DEF Abreast, SamplePages
  <2>2. accum' = Sampled(Head(bytes), page')
    <3>1. CASE page \in SamplePages
      <4>1. accum' = IF Data = 1 THEN Ored(accum, BitIndex(page)) ELSE accum
        BY <3>1, <1>7, VisitStep DEF SamplePages
      <4> QED  BY <4>1, <3>1, <2>1, <1>2, <1>3, <1>7, GatherBit
    <3>2. CASE page \notin SamplePages
      <4>1. accum' = accum  BY <3>2, <1>7, VisitStep
      <4> QED  BY <4>1, <3>2, <2>1, <1>2, <1>3, <1>7, NothingToGather
    <3> QED  BY <3>1, <3>2
  <2>3. accum' \in Byte
    BY <2>1, <2>2, <1>3, <1>7, SampledIsByte
  <2>4. CASE edges' > 0
    BY <2>1, <2>2, <2>3, <2>4, <1>4, <1>7
  <2>5. CASE edges' = 0
    <3>1. page' = 22 /\ lastByte' = Head(bytes)  BY <2>5, <2>1, <1>4, <1>7
    <3> QED  BY <3>1, <2>2, <2>3, <2>5, <1>3, <2>1, <1>7, FirstAndLast
  <2> QED  BY <2>4, <2>5, <1>1 DEF Abreast
<1>8. CASE page = 22 /\ EdgeSeen(page)
  <2>1. page' = 23 /\ accum' = accum /\ edges = 0
    BY <1>8, <1>1, EdgeToCome, VisitStep DEF Abreast, SamplePages
  <2> QED  BY <2>1, <1>2, <1>4, <1>8
<1>9. CASE page > 22
  <2>1. \/ page' = 1 /\ accum' = 0
        \/ page' > 22 /\ accum' = accum /\ (page' \in 23 .. 27 => page \in 23 .. 27)
    BY <1>9, VisitStep DEF SamplePages
  <2>2. lastByte' = lastByte  BY <1>9, <1>1, <1>4 DEF Abreast
  <2>3. CASE page' = 1 /\ accum' = 0
    BY <2>3, <1>listening
  <2>4. CASE page' > 22 /\ accum' = accum /\ (page' \in 23 .. 27 => page \in 23 .. 27)
    BY <2>4, <2>2, <1>2
  <2> QED  BY <2>1, <2>3, <2>4
<1> QED  BY <1>1, <1>5, <1>6, <1>7, <1>8, <1>9 DEF Abreast

LEMMA IInvInit == Init => IInv
<1> SUFFICES ASSUME Init PROVE IInv
  OBVIOUS
<1>1. TypeOK
  BY Parameters, AsciiAssumption DEF Init, TypeOK, KeyboardInit, Byte, FrameEdges
<1>2. InStep /\ OnTime
  BY DEF Init, InStep, OnTime, KeyboardInit, STOP_HIGH, RESULT_PAGE, PROCESS_DISPATCH
<1> QED  BY <1>1, <1>2 DEF IInv

LEMMA IInvNext == IInv /\ [Next]_vars => IInv'
<1> SUFFICES ASSUME IInv, [Next]_vars PROVE IInv'
  OBVIOUS
<1>1. CASE Next
  <2>1. PICK left : Visit(left) /\ Keyboard(left) /\ UNCHANGED image
    BY <1>1 DEF Next, Tick
  <2>2. Abreast /\ Abreast'  BY <2>1, IsAbreast, AbreastStep
  <2>3. TypeOK'
    <3>1. image' \in Image /\ page' \in Byte /\ accum' \in Byte
      BY <2>1, <2>2, GatheredStep DEF IInv, TypeOK, Abreast, Byte
    <3>2. /\ break_pending' \in {0, 1} /\ ext_pending' \in {0, 1}
          /\ x8' \in Byte /\ gpio_out' \in Byte
      BY <2>1, RegistersTyped
    <3>3. /\ edges' \in 0 .. FrameEdges - 1 /\ held' \in 0 .. MaxHeld
      BY <2>2 DEF Abreast, FrameEdges
    <3>4. /\ lastByte' \in Byte /\ bytes' \in Seq(Byte) /\ (edges' > 0 => bytes' # << >>)
      BY <2>1, KeyboardStep
    <3> QED  BY <3>1, <3>2, <3>3, <3>4 DEF TypeOK
  <2>4. InStep'
    <3>1. page' \in 1 .. 22 => edges' = page' - 1 \/ edges' = page' % 22
      <4>1. page' \in 1 .. 22 => page' % 22 = IF page' = 22 THEN 0 ELSE page'
        OBVIOUS
      <4> QED  BY <4>1, <2>2 DEF Abreast
    <3>2. page' > 22 => edges' \in {0, 1}
      BY <2>2 DEF Abreast
    <3> QED
      BY <3>1, <3>2, <2>1, GatheredStep
      DEF InStep, STOP_HIGH, START_LOW, FrameEdges, RESULT_PAGE, PROCESS_DISPATCH
  <2>5. OnTime'
    BY <2>2 DEF Abreast, OnTime, STOP_HIGH
  <2> QED  BY <2>3, <2>4, <2>5 DEF IInv
<1>2. CASE UNCHANGED vars
  BY <1>2 DEF vars, programVars, keyboardVars, flagVars, IInv, TypeOK, InStep, OnTime
<1> QED  BY <1>1, <1>2

LEMMA Invariant == Spec => []IInv
  BY IInvInit, IInvNext, PTL DEF Spec

\* TypeCorrect: for every table, every choice of key events and every keyboard that
\* leaves Hold and Gap, the registers keep to bytes and FLASH_PAGE to eight bits
\* (build_ps2_ascii.py:389-404).
THEOREM TypeCorrect == Spec => []TypeOK
<1>1. IInv => TypeOK  BY DEF IInv
<1> QED  BY <1>1, Invariant, PTL

\* NeverLosesItsPlace: the receiver stays in step with every keyboard that leaves
\* Gap + Hold >= 9 page visits from the end of a frame to the second edge of the next,
\* and has the byte of every frame whole (build_ps2_reader.py:147-190).
THEOREM NeverLosesItsPlace == Spec => []InStep
<1>1. IInv => InStep  BY DEF IInv
<1> QED  BY <1>1, Invariant, PTL

--------------------------------------------------------------------------------
(* What is owed                                                            *)

\* The last frame is whole and its byte not dealt with.
Pending == page > STOP_HIGH \/ (page = STOP_HIGH /\ edges = 0)

\* The bytes struck and not dealt with.
Unread == (IF Pending THEN <<lastByte>> ELSE << >>) \o bytes

\* The bytes of a key, and those of them the flags do not stand for.
Spell(x, r, c) ==
  (IF x THEN <<EXTENDED_PREFIX>> ELSE << >>)
    \o (IF r THEN <<BREAK_PREFIX>> ELSE << >>) \o <<c>>

Remaining(e) == Spell(e.extended /\ ext_pending = 0, e.released /\ break_pending = 0, e.code)

\* The flags stand for the first bytes of e.
Begun(e) ==
  /\ ext_pending = 1 => e.extended
  /\ break_pending = 1 => e.released /\ (e.extended => ext_pending = 1)

\* What the decoder has found out about the byte by the page it is at.
Checked ==
  /\ image = "reader" => page <= RESULT_PAGE
  /\ page > PROCESS_BP => break_pending = 0
  /\ page > PROCESS_F0 => lastByte # BREAK_PREFIX
  /\ page > PROCESS_E0 => lastByte # EXTENDED_PREFIX
  /\ page > PROCESS_EXTCHECK => ext_pending = 0
  /\ page = EMIT_PAGE => x8 = Translation(lastByte)
  /\ page >= TABLE_START => page = TablePage(lastByte)

\* Nothing unread and nothing owed; or one key, of which the flags may stand for some bytes;
\* or its last byte alone and a key behind it.
Nothing == Unread = << >> /\ owed = << >> /\ break_pending = 0 /\ ext_pending = 0

OneKey(e) == Begun(e) /\ Unread = Remaining(e) /\ owed = Keys!Shows(e)

TwoKeys(e, f) ==
  /\ Begun(e) /\ Pending /\ Remaining(e) = <<lastByte>> /\ bytes = WireBytes(f)
  /\ owed = Keys!Shows(e) \o Keys!Shows(f)

Owes ==
  /\ page = 0 => bytes = << >> /\ owed = << >>
  /\ image = "reader" => owed = Unread
  /\ image = "ascii" /\ page # 0 =>
       Nothing \/ (\E e \in Events : OneKey(e)) \/ (\E e, f \in Events : TwoKeys(e, f))

RInv == IInv /\ Checked /\ Owes

LEMMA OneByOne ==
  ASSUME NEW a \in Int, NEW b \in Int, NEW c \in Int
  PROVE  <<a>> \o <<b>> = <<a, b>> /\ <<a, b>> \o <<c>> = <<a, b, c>>
<1>1. <<a, b>> = Append(<<a>>, b) /\ <<a, b, c>> = Append(<<a, b>>, c)
  OBVIOUS
<1>2. <<a>> \in Seq(Int) /\ <<a, b>> \in Seq(Int)
  OBVIOUS
<1> QED  BY <1>1, <1>2, AppendIsConcat

LEMMA Spelled ==
  ASSUME NEW x \in BOOLEAN, NEW r \in BOOLEAN, NEW c \in Byte
  PROVE  /\ Spell(x, r, c) \in Seq(Byte) /\ Spell(x, r, c) # << >>
         /\ x => /\ Head(Spell(x, r, c)) = EXTENDED_PREFIX
                 /\ Tail(Spell(x, r, c)) = Spell(FALSE, r, c)
         /\ ~x /\ r => /\ Head(Spell(x, r, c)) = BREAK_PREFIX
                       /\ Tail(Spell(x, r, c)) = Spell(FALSE, FALSE, c)
         /\ ~x /\ ~r => Spell(x, r, c) = <<c>>
<1> DEFINE E == EXTENDED_PREFIX
           B == BREAK_PREFIX
<1>1. E \in Byte /\ B \in Byte
  BY DEF Byte, EXTENDED_PREFIX, BREAK_PREFIX
<1> HIDE DEF E, B
<1>2. /\ Spell(FALSE, FALSE, c) = <<c>>
      /\ Spell(FALSE, TRUE, c) = <<B, c>>
      /\ Spell(TRUE, FALSE, c) = <<E, c>>
      /\ Spell(TRUE, TRUE, c) = <<E, B, c>>
  <2>1. \A q \in Seq(Byte) : << >> \o q = q /\ q \o << >> = q
    BY ConcatEmptySeq
  <2>2. << >> \in Seq(Byte) /\ <<c>> \in Seq(Byte) /\ <<E>> \in Seq(Byte) /\ <<B>> \in Seq(Byte)
    BY <1>1
  <2>3. << >> \o << >> = << >> /\ << >> \o <<B>> = <<B>> /\ <<E>> \o << >> = <<E>>
        /\ << >> \o <<c>> = <<c>>
    BY <2>1, <2>2, Zenon
  <2>int. B \in Int /\ E \in Int /\ c \in Int
    BY <1>1 DEF Byte
  <2>4. <<B>> \o <<c>> = <<B, c>> /\ <<E>> \o <<c>> = <<E, c>> /\ <<E>> \o <<B>> = <<E, B>>
    BY <2>int, OneByOne
  <2>5. <<E, B>> \o <<c>> = <<E, B, c>>
    BY <2>int, OneByOne
  <2> QED  BY <2>3, <2>4, <2>5 DEF Spell, E, B
<1>3. /\ <<c>> \in Seq(Byte) /\ <<B, c>> \in Seq(Byte) /\ <<E, c>> \in Seq(Byte)
      /\ <<E, B, c>> \in Seq(Byte)
      /\ <<c>> # << >> /\ <<B, c>> # << >> /\ <<E, c>> # << >> /\ <<E, B, c>> # << >>
      /\ Head(<<B, c>>) = B /\ Tail(<<B, c>>) = <<c>>
      /\ Head(<<E, c>>) = E /\ Tail(<<E, c>>) = <<c>>
      /\ Head(<<E, B, c>>) = E /\ Tail(<<E, B, c>>) = <<B, c>>
  BY <1>1
<1>4. x = TRUE \/ x = FALSE
  OBVIOUS
<1>5. r = TRUE \/ r = FALSE
  OBVIOUS
<1> QED  BY <1>2, <1>3, <1>4, <1>5, Zenon DEF E, B

\* Its first byte tells what it starts with.
LEMMA HeadTells ==
  ASSUME NEW x \in BOOLEAN, NEW r \in BOOLEAN,
         NEW c \in Byte \ {BREAK_PREFIX, EXTENDED_PREFIX}
  PROVE  /\ Head(Spell(x, r, c)) = EXTENDED_PREFIX <=> x
         /\ Head(Spell(x, r, c)) = BREAK_PREFIX <=> ~x /\ r
<1>1. /\ x => Head(Spell(x, r, c)) = EXTENDED_PREFIX
      /\ ~x /\ r => Head(Spell(x, r, c)) = BREAK_PREFIX
      /\ ~x /\ ~r => Spell(x, r, c) = <<c>>
  BY Spelled
<1>2. Head(<<c>>) = c /\ c # BREAK_PREFIX /\ c # EXTENDED_PREFIX
  OBVIOUS
<1>3. EXTENDED_PREFIX # BREAK_PREFIX
  BY DEF EXTENDED_PREFIX, BREAK_PREFIX
<1> QED  BY <1>1, <1>2, <1>3, Zenon

\* A key, as the keyboard sends it and as the flags leave it.
LEMMA KeyTypes ==
  ASSUME NEW e \in Events
  PROVE  /\ e.extended \in BOOLEAN /\ e.released \in BOOLEAN /\ e.code \in Byte
         /\ e.code # BREAK_PREFIX /\ e.code # EXTENDED_PREFIX
         /\ WireBytes(e) = Spell(e.extended, e.released, e.code)
<1>1. e \in [extended : BOOLEAN, released : BOOLEAN,
             code : Byte \ {BREAK_PREFIX, EXTENDED_PREFIX}]
  BY Ps2Assumption
<1>2. WireBytes(e) = Spell(e.extended, e.released, e.code)
  BY DEF WireBytes, Spell
<1> QED  BY <1>1, <1>2

\* What the reader and the decoder owe for it.
LEMMA ShowsIs ==
  ASSUME NEW e
  PROVE  /\ image = "reader" => Keys!Shows(e) = WireBytes(e)
         /\ image = "ascii" =>
              Keys!Shows(e) = <<IF e.extended \/ e.released THEN -1 ELSE Translation(e.code)>>
  BY DEF Keys!Shows, Keys!Silence

LEMMA TranslationIsByte == \A s : Translation(s) \in Byte
  BY AsciiAssumption DEF Translation, Byte

\* The decoder owes one thing for a key.
LEMMA ShowsOne ==
  ASSUME image = "ascii", NEW e
  PROVE  \E s \in Int : Keys!Shows(e) = <<s>>
<1> DEFINE s == IF e.extended \/ e.released THEN -1 ELSE Translation(e.code)
<1>1. s \in Int
  BY TranslationIsByte DEF Byte
<1>2. Keys!Shows(e) = <<s>>
  BY ShowsIs
<1> QED  BY <1>1, <1>2

\* A byte in front of others.
LEMMA OnTheFront ==
  ASSUME NEW b \in Byte, NEW q \in Seq(Byte)
  PROVE  /\ <<b>> \o q \in Seq(Byte) /\ <<b>> \o q # << >>
         /\ Head(<<b>> \o q) = b /\ Tail(<<b>> \o q) = q
         /\ \A c \in Byte : <<b>> \o q = <<c>> => q = << >> /\ b = c
<1> DEFINE u == <<b>> \o q
<1>1. <<b>> \in Seq(Byte) /\ Len(<<b>>) = 1 /\ <<b>>[1] = b
  OBVIOUS
<1>2. Len(q) \in Nat
  OBVIOUS
<1>3. /\ u \in Seq(Byte) /\ Len(u) = 1 + Len(q)
      /\ \A i \in 1 .. 1 + Len(q) : u[i] = IF i <= 1 THEN <<b>>[i] ELSE q[i - 1]
  BY <1>1, ConcatProperties, Zenon
<1> HIDE DEF u
<1>4. u # << >> /\ Head(u) = b
  BY <1>1, <1>2, <1>3
<1>5. Tail(u) = q
  <2>1. /\ Tail(u) \in Seq(Byte) /\ Len(Tail(u)) = Len(u) - 1
        /\ \A i \in 1 .. Len(Tail(u)) : Tail(u)[i] = u[i + 1]
    BY <1>3, <1>4, HeadTailProperties, Zenon
  <2>2. Len(Tail(u)) = Len(q)
    BY <1>2, <1>3, <2>1
  <2>3. \A i \in 1 .. Len(Tail(u)) : Tail(u)[i] = q[i]
    BY <1>2, <1>3, <2>1, <2>2
  <2> QED  BY <2>1, <2>2, <2>3, SeqEqual, Zenon
<1>6. \A c \in Byte : Tail(<<c>>) = << >> /\ Head(<<c>>) = c
  OBVIOUS
<1> QED  BY <1>3, <1>4, <1>5, <1>6, Zenon DEF u

\* The page a byte turns to has its character.
LEMMA TableIsRight ==
  ASSUME NEW s \in Byte
  PROVE  TablePage(s) \in 29 .. 255 /\ Translation(TablePage(s) - TABLE_START) = Translation(s)
<1>1. CASE s > 226
  <2>1. TablePage(s) = 29 /\ TablePage(s) - TABLE_START = 0
    BY <1>1 DEF TablePage, MAX_SAFE_SCANCODE, TABLE_START
  <2>2. s \notin DOMAIN SCANCODE_TO_ASCII /\ 0 \notin DOMAIN SCANCODE_TO_ASCII
    BY <1>1, AsciiAssumption
  <2> QED  BY <2>1, <2>2 DEF Translation
<1>2. CASE ~(s > 226)
  <2>1. TablePage(s) = s + 29
    BY <1>2 DEF TablePage, PageStored, MAX_SAFE_SCANCODE, TABLE_START, Byte
  <2>2. TablePage(s) - TABLE_START = s
    BY <2>1 DEF TABLE_START, Byte
  <2> QED  BY <1>2, <2>1, <2>2 DEF Byte
<1> QED  BY <1>1, <1>2

--------------------------------------------------------------------------------
(* What a visit does to the registers                                      *)

\* Back to listening, a byte dealt with.
Listens == page > STOP_HIGH /\ page' = START_LOW

LEMMA VisitIs ==
  ASSUME IInv, NEW left, Visit(left)
  PROVE  \/ /\ ~Listens /\ left = owed /\ UNCHANGED <<gpio_out, turn>>
            /\ page # 0 => UNCHANGED flagVars
            /\ page = 0 /\ image = "ascii" => break_pending' = 0 /\ ext_pending' = 0
         \/ /\ Listens /\ left = owed /\ UNCHANGED <<gpio_out, turn>>
            /\ BreakPrefix \/ ExtendedPrefix
         \/ /\ Listens /\ left = (IF owed = << >> THEN owed ELSE Tail(owed)) /\ turn' = 1 - turn
            /\ Result \/ EndOfRelease \/ EndOfExtended \/ Emit
<1> USE DEF Listens, STOP_HIGH, START_LOW
<1>0. page \in Byte /\ accum \in Byte
  BY DEF IInv, TypeOK
<1>1. CASE EventEnds /\ left = (IF owed = << >> THEN owed ELSE Tail(owed)) /\ turn' = 1 - turn
  BY <1>1 DEF EventEnds, Result, EndOfRelease, EndOfExtended, Emit, Listen, RESULT_PAGE,
     PROCESS_BP, PROCESS_EXTCHECK, EMIT_PAGE
<1>2. CASE (BreakPrefix \/ ExtendedPrefix) /\ left = owed /\ UNCHANGED turn
  BY <1>2 DEF BreakPrefix, ExtendedPrefix, Listen, PROCESS_F0, PROCESS_E0
<1>3. CASE Begin /\ left = owed /\ UNCHANGED turn
  BY <1>3 DEF Begin, Start
<1>4. CASE ReceiveByte /\ left = owed /\ UNCHANGED turn
  <2>1. page \in 1 .. 22
    BY <1>4 DEF ReceiveByte, Receive, Poll, wait_clock, wait_clock_low_and_sample, SamplePages
  <2>2. UNCHANGED <<flagVars, gpio_out>>
    BY <1>4 DEF ReceiveByte
  <2> QED  BY <1>4, <2>1, <2>2
<1>5. CASE (NotThis \/ Dispatch \/ LookUp) /\ left = owed /\ UNCHANGED turn
  <2>1. TablePage(accum) \in 29 .. 255
    BY <1>0, TableIsRight
  <2>2. UNCHANGED <<flagVars, gpio_out>>
    BY <1>5 DEF NotThis, Dispatch, LookUp
  <2>3. page > 22 /\ page' > 22
    <3>1. CASE NotThis
      BY <1>0, <3>1 DEF NotThis, PROCESS_BP, PROCESS_F0, PROCESS_E0, PROCESS_EXTCHECK, Byte
    <3>2. CASE Dispatch
      BY <3>2, <2>1 DEF Dispatch, PROCESS_DISPATCH
    <3>3. CASE LookUp
      BY <1>0, <3>3 DEF LookUp, TABLE_START, EMIT_PAGE, Byte
    <3> QED  BY <1>5, <3>1, <3>2, <3>3
  <2> QED  BY <1>5, <2>2, <2>3
<1> QED  BY <1>1, <1>2, <1>3, <1>4, <1>5 DEF Visit, Step

\* Which byte is pending, and when it stops being so.
LEMMA PendingMoves ==
  ASSUME IInv, NEW l1, Visit(l1), NEW l2, Keyboard(l2)
  PROVE  /\ Pending => edges \in {0, 1} /\ lastByte' = lastByte /\ lastByte \in Byte
         /\ Listens => Pending /\ ~Pending'
         /\ Pending /\ ~Listens => Pending'
         /\ ~Pending /\ ~(edges = 21 /\ edges' = 0) => ~Pending'
         /\ edges = 21 /\ edges' = 0 => Pending' /\ ~Pending
<1> USE DEF Pending, Listens, STOP_HIGH, START_LOW
<1>1. Abreast /\ Abreast'
  BY IsAbreast, AbreastStep
<1>2. page \in 1 .. 22 =>
        /\ edges = page - 1 => ~EdgeSeen(page)
        /\ edges = page \/ (edges = 0 /\ page = 22) => EdgeSeen(page)
  BY <1>1, EdgeToCome
<1>3. \/ page = 0 /\ page' = 1
      \/ page \in 1 .. 22 /\ ~EdgeSeen(page) /\ page' = page
      \/ page \in 1 .. 22 /\ EdgeSeen(page) /\ page' = page + 1
      \/ page > 22 /\ page' = 1
      \/ page > 22 /\ page' \in 23 .. 255 /\ Depth(page') = Depth(page) + 1
  BY VisitStep DEF Byte, SamplePages
<1>4. \/ edges' = edges /\ lastByte' = lastByte
      \/ edges = 0 /\ edges' = 1 /\ lastByte' = lastByte
      \/ edges \in 1 .. 20 /\ edges' = edges + 1 /\ lastByte' = lastByte
      \/ edges = 21 /\ edges' = 0
  BY KeyboardStep
<1>5. lastByte \in Byte
  BY DEF IInv, TypeOK
<1>6. Pending => edges \in {0, 1}
  BY <1>1 DEF Abreast
<1>7. CASE page = 0
  BY <1>7, <1>1, <1>3, <1>4, <1>5, <1>6 DEF Abreast
<1>8. CASE page \in 1 .. 21
  BY <1>8, <1>1, <1>2, <1>3, <1>4, <1>5, <1>6 DEF Abreast
<1>9. CASE page = 22
  BY <1>9, <1>1, <1>2, <1>3, <1>4, <1>5, <1>6 DEF Abreast
<1>10. CASE page > 22
  BY <1>10, <1>1, <1>3, <1>4, <1>5, <1>6 DEF Abreast
<1> QED  BY <1>1, <1>7, <1>8, <1>9, <1>10 DEF Abreast

\* What is unread: a byte dealt with goes, the bytes of a key struck come.
LEMMA UnreadMoves ==
  ASSUME IInv, NEW l1, Visit(l1), NEW l2, Keyboard(l2)
  PROVE  /\ Pending => Unread = <<lastByte>> \o bytes
         /\ Rest \/ Send => Unread' = IF Listens THEN bytes ELSE Unread
         /\ Rest \/ Send => (Pending => bytes' = bytes)
         /\ bytes = << >> => Unread = IF Pending THEN <<lastByte>> ELSE << >>
         /\ \A e \in Events : Strike(e) =>
              /\ bytes = << >> /\ bytes' = WireBytes(e)
              /\ Unread' = (IF Listens THEN << >> ELSE Unread) \o WireBytes(e)
<1>1. /\ Pending => edges \in {0, 1} /\ lastByte' = lastByte /\ lastByte \in Byte
      /\ Listens => Pending /\ ~Pending'
      /\ Pending /\ ~Listens => Pending'
      /\ ~Pending /\ ~(edges = 21 /\ edges' = 0) => ~Pending'
      /\ edges = 21 /\ edges' = 0 => Pending' /\ ~Pending
  BY PendingMoves
<1>2. /\ bytes \in Seq(Byte) /\ bytes' \in Seq(Byte) /\ edges \in 0 .. 21
      /\ edges > 0 => bytes # << >>
      /\ lastByte \in Byte
  BY KeyboardStep DEF IInv, TypeOK, FrameEdges
<1>3. /\ \A q \in Seq(Byte) : << >> \o q = q /\ q \o << >> = q
      /\ << >> \in Seq(Byte) /\ <<lastByte>> \in Seq(Byte)
  BY <1>2, ConcatEmptySeq
<1>4. Pending => Unread = <<lastByte>> \o bytes
  BY DEF Unread
<1>5. ~Pending => Unread = bytes
  BY <1>2, <1>3, Zenon DEF Unread
<1>6. /\ Pending' => Unread' = <<lastByte'>> \o bytes'
      /\ ~Pending' => Unread' = bytes'
  BY <1>2, <1>3, Zenon DEF Unread
<1>7. Rest \/ Send => bytes' = bytes \/ (edges = 21 /\ edges' = 0)
  BY DEF Rest, Send, StartFrame, NextEdge, EndFrame, FrameEdges
<1>8. ASSUME edges = 21, edges' = 0  PROVE <<lastByte'>> \o bytes' = bytes
  <2>1. lastByte' = Head(bytes) /\ bytes' = Tail(bytes) /\ bytes # << >>
    <3>1. CASE Rest \/ StartFrame \/ NextEdge
      BY <1>8, <3>1 DEF Rest, StartFrame, NextEdge
    <3>2. CASE EndFrame
      BY <1>2, <1>8, <3>2 DEF EndFrame
    <3>3. ASSUME NEW e \in Events, Strike(e)  PROVE FALSE
      BY <1>8, <3>3 DEF Strike
    <3> QED  BY <3>1, <3>2, <3>3 DEF Keyboard, Send
  <2> QED  BY <1>2, <2>1
<1>9. (Rest \/ Send) /\ Pending => bytes' = bytes
  BY <1>1, <1>7
<1>10. Rest \/ Send => Unread' = IF Listens THEN bytes ELSE Unread
  BY <1>1, <1>4, <1>5, <1>6, <1>7, <1>8, <1>9
<1>11. bytes = << >> => Unread = IF Pending THEN <<lastByte>> ELSE << >>
  BY <1>3, <1>4, <1>5
<1>12. ASSUME NEW e \in Events, Strike(e)
       PROVE  /\ bytes = << >> /\ bytes' = WireBytes(e)
              /\ Unread' = (IF Listens THEN << >> ELSE Unread) \o WireBytes(e)
  <2>1. bytes = << >> /\ bytes' = WireBytes(e) /\ edges = 0 /\ edges' = 1
    BY <1>12 DEF Strike
  <2>2. ~(edges = 21 /\ edges' = 0)
    BY <2>1
  <2>3. << >> \o WireBytes(e) = WireBytes(e)
    BY <1>2, <1>3, <2>1
  <2> QED  BY <1>1, <1>6, <1>11, <2>1, <2>2, <2>3
<1> QED  BY <1>4, <1>9, <1>10, <1>11, <1>12

\* What a page finds out about the byte stays true of it.
LEMMA CheckedStep ==
  ASSUME RInv, NEW l1, Visit(l1), NEW l2, Keyboard(l2), UNCHANGED image
  PROVE  Checked'
<1> USE DEF PROCESS_BP, PROCESS_F0, PROCESS_E0, PROCESS_EXTCHECK, PROCESS_DISPATCH, EMIT_PAGE,
            RESULT_PAGE
<1>0. page \in Nat /\ page' \in Nat /\ accum \in Byte
  <2>1. page' \in 0 .. 255
    BY AbreastStep DEF Abreast, RInv
  <2> QED  BY <2>1 DEF RInv, IInv, TypeOK, Byte
<1>1. CASE page' <= 23
  BY <1>0, <1>1 DEF Checked, TABLE_START
<1>2. CASE page' > 23
  <2>1. page > 22 /\ lastByte' = lastByte /\ lastByte \in Byte
    <3>1. page > 22
      BY <1>2, <1>0, VisitStep DEF RInv, SamplePages
    <3> QED  BY <3>1, PendingMoves DEF RInv, Pending, STOP_HIGH
  <2>2. page \in 23 .. 27 => accum = lastByte
    BY DEF RInv, IInv, InStep
  <2>3. (NotThis \/ Dispatch \/ LookUp) /\ UNCHANGED flagVars
    <3>1. ~(Begin \/ ReceiveByte)
      BY <1>2, <2>1 DEF Begin, Start, START_LOW, ReceiveByte, Receive, Poll, wait_clock,
         wait_clock_low_and_sample, STOP_HIGH, SamplePages
    <3>2. ~(BreakPrefix \/ ExtendedPrefix \/ EventEnds)
      BY <1>2 DEF EventEnds, BreakPrefix, ExtendedPrefix, Result, EndOfRelease, EndOfExtended,
         Emit, Listen, START_LOW
    <3>3. NotThis \/ Dispatch \/ LookUp
      BY <3>1, <3>2 DEF Visit, Step
    <3> QED  BY <3>3 DEF NotThis, Dispatch, LookUp
  <2>4. TablePage(lastByte) \in 29 .. 255
        /\ Translation(TablePage(lastByte) - TABLE_START) = Translation(lastByte)
    BY <2>1, TableIsRight
  <2>5. CASE NotThis
    BY <1>0, <2>1, <2>2, <2>3, <2>5 DEF NotThis, RInv, Checked, flagVars, TABLE_START
  <2>6. CASE Dispatch
    <3>1. page = 27 /\ page' = TablePage(lastByte)
      BY <2>2, <2>6 DEF Dispatch
    <3> QED  BY <1>0, <2>1, <2>3, <2>4, <3>1 DEF RInv, Checked, flagVars, TABLE_START
  <2>7. CASE LookUp
    <3>1. page' = 28 /\ page >= 29 /\ x8' = Translation(lastByte)
      BY <2>4, <2>7 DEF LookUp, RInv, Checked, TABLE_START
    <3> QED  BY <1>0, <2>1, <2>3, <3>1 DEF RInv, Checked, flagVars, TABLE_START
  <2> QED  BY <2>3, <2>5, <2>6, <2>7
<1> QED  BY <1>0, <1>1, <1>2

--------------------------------------------------------------------------------
(* Prefixes and keys                                                       *)

\* The byte a check is made on, and what is known of it there.
LEMMA Known ==
  ASSUME RInv
  PROVE  /\ break_pending \in {0, 1} /\ ext_pending \in {0, 1}
         /\ page \in {24, 25} => accum = lastByte
         /\ page > 23 => break_pending = 0
         /\ page > 25 => lastByte # BREAK_PREFIX /\ lastByte # EXTENDED_PREFIX
         /\ page = 28 => x8 = Translation(lastByte) /\ ext_pending = 0
<1>1. page \in Nat
  BY DEF RInv, IInv, TypeOK, Byte
<1> QED
  BY <1>1 DEF RInv, IInv, TypeOK, InStep, Checked, PROCESS_BP, PROCESS_F0, PROCESS_E0,
     PROCESS_EXTCHECK, PROCESS_DISPATCH, EMIT_PAGE, RESULT_PAGE

\* A prefix is moved from the bytes to the flags.
LEMMA PrefixStep ==
  ASSUME RInv, NEW e \in Events, Begun(e), Head(Remaining(e)) = lastByte,
         BreakPrefix \/ ExtendedPrefix
  PROVE  Begun(e)' /\ Remaining(e)' = Tail(Remaining(e)) /\ Tail(Remaining(e)) # << >>
<1> DEFINE x == e.extended /\ ext_pending = 0
           r == e.released /\ break_pending = 0
           c == e.code
<1>1. /\ x \in BOOLEAN /\ r \in BOOLEAN /\ c \in Byte \ {BREAK_PREFIX, EXTENDED_PREFIX}
      /\ c \in Byte
  BY KeyTypes
<1>2. Remaining(e) = Spell(x, r, c)
  BY DEF Remaining
<1> HIDE DEF x, r, c
<1>3. /\ lastByte = EXTENDED_PREFIX => x
      /\ lastByte = BREAK_PREFIX => ~x /\ r
  BY <1>1, <1>2, HeadTells
<1>4. /\ \A y \in BOOLEAN : Spell(FALSE, y, c) # << >>
      /\ x => Tail(Spell(x, r, c)) = Spell(FALSE, r, c)
      /\ ~x /\ r => Tail(Spell(x, r, c)) = Spell(FALSE, FALSE, c)
  BY <1>1, Spelled
<1>5. CASE BreakPrefix
  <2>1. break_pending' = 1 /\ ext_pending' = ext_pending /\ lastByte = BREAK_PREFIX
    BY <1>5, Known DEF BreakPrefix, PROCESS_F0
  <2>2. ~x /\ r
    BY <1>3, <2>1
  <2>3. e.released /\ (e.extended => ext_pending = 1)
    BY <2>2, Known, Zenon DEF x, r
  <2>4. Begun(e)'
    BY <2>1, <2>3, Zenon DEF Begun
  <2>5. Remaining(e)' = Spell(FALSE, FALSE, c)
    <3>1. (e.extended /\ ext_pending' = 0) = FALSE
      BY <2>1, <2>2, Zenon DEF x
    <3>2. (e.released /\ break_pending' = 0) = FALSE
      BY <2>1
    <3> QED  BY <3>1, <3>2, Zenon DEF Remaining, c
  <2> QED  BY <1>2, <1>4, <2>2, <2>4, <2>5
<1>6. CASE ExtendedPrefix
  <2>1. /\ ext_pending' = 1 /\ break_pending' = break_pending /\ break_pending = 0
        /\ lastByte = EXTENDED_PREFIX
    BY <1>6, Known DEF ExtendedPrefix, PROCESS_E0
  <2>2. x
    BY <1>3, <2>1
  <2>3. e.extended
    BY <2>2 DEF x
  <2>4. Begun(e)'
    BY <2>1, <2>3 DEF Begun
  <2>5. Remaining(e)' = Spell(FALSE, r, c)
    <3>1. (e.extended /\ ext_pending' = 0) = FALSE
      BY <2>1
    <3>2. (e.released /\ break_pending' = 0) = r
      BY <2>1 DEF r
    <3> QED  BY <3>1, <3>2, Zenon DEF Remaining, c
  <2> QED  BY <1>1, <1>2, <1>4, <2>2, <2>4, <2>5
<1> QED  BY <1>5, <1>6

\* A byte that ends a key is its last, and what is shown of the key is shown.
LEMMA EndStep ==
  ASSUME RInv, image = "ascii", NEW e \in Events, Begun(e), Head(Remaining(e)) = lastByte,
         EndOfRelease \/ EndOfExtended \/ Emit
  PROVE  /\ Remaining(e) = <<lastByte>>
         /\ break_pending' = 0 /\ ext_pending' = 0
         /\ \E s \in Int : /\ Keys!Shows(e) = <<s>>
                           /\ gpio_out' = IF s = -1 THEN gpio_out ELSE s
<1> DEFINE x == e.extended /\ ext_pending = 0
           r == e.released /\ break_pending = 0
           c == e.code
<1>1. /\ x \in BOOLEAN /\ r \in BOOLEAN /\ c \in Byte \ {BREAK_PREFIX, EXTENDED_PREFIX}
      /\ c \in Byte
  BY KeyTypes
<1>2. Remaining(e) = Spell(x, r, c)
  BY DEF Remaining
<1>3. Keys!Shows(e) = <<IF e.extended \/ e.released THEN -1 ELSE Translation(c)>>
  BY ShowsIs
<1>4. ~x /\ ~r => Remaining(e) = <<c>> /\ c = lastByte
  <2>1. Head(<<c>>) = c
    OBVIOUS
  <2> QED  BY <1>1, <1>2, <2>1, Spelled
<1>5. /\ lastByte # EXTENDED_PREFIX => ~x
      /\ lastByte # BREAK_PREFIX => x \/ ~r
  <2> HIDE DEF x, r, c
  <2> QED  BY <1>1, <1>2, HeadTells
<1>6. CASE EndOfRelease
  <2>1. /\ break_pending = 1 /\ break_pending' = 0 /\ ext_pending' = 0 /\ gpio_out' = gpio_out
    BY <1>6 DEF EndOfRelease
  <2>2. e.released /\ (e.extended => ext_pending = 1)
    BY <2>1, Zenon DEF Begun
  <2>3. ~x /\ ~r
    BY <2>1, <2>2
  <2>4. Keys!Shows(e) = <<-1>>
    BY <1>3, <2>2
  <2> QED  BY <1>4, <2>1, <2>3, <2>4
<1>7. CASE EndOfExtended
  <2>1. /\ ext_pending = 1 /\ ext_pending' = 0 /\ break_pending' = break_pending
        /\ break_pending = 0 /\ gpio_out' = gpio_out
        /\ lastByte # BREAK_PREFIX /\ lastByte # EXTENDED_PREFIX
    BY <1>7, Known DEF EndOfExtended, PROCESS_EXTCHECK
  <2>2. e.extended
    BY <2>1, Zenon DEF Begun
  <2>3. ~x /\ ~r
    BY <1>5, <2>1, Zenon
  <2>4. Keys!Shows(e) = <<-1>>
    BY <1>3, <2>2
  <2> QED  BY <1>4, <2>1, <2>3, <2>4
<1>8. CASE Emit
  <2>1. /\ break_pending = 0 /\ ext_pending = 0 /\ UNCHANGED flagVars /\ gpio_out' = x8
        /\ lastByte # BREAK_PREFIX /\ lastByte # EXTENDED_PREFIX
        /\ x8 = Translation(lastByte)
    BY <1>8, Known DEF Emit, EMIT_PAGE
  <2>2. ~x /\ ~r
    BY <1>5, <2>1, Zenon
  <2>3. ~e.extended /\ ~e.released
    BY <2>1, <2>2
  <2>4. Keys!Shows(e) = <<Translation(c)>>
    BY <1>3, <2>3
  <2>5. Translation(c) \in Int /\ Translation(c) # -1
    BY TranslationIsByte DEF Byte
  <2> QED  BY <1>4, <2>1, <2>2, <2>4, <2>5 DEF flagVars
<1> QED  BY <1>6, <1>7, <1>8

\* What ends a byte shows what is owed first.
LEMMA ShownRight ==
  ASSUME RInv, image \in {"reader", "ascii"},
         Result \/ EndOfRelease \/ EndOfExtended \/ Emit
  PROVE  /\ owed # << >>
         /\ gpio_out' = IF Head(owed) = Keys!Silence THEN gpio_out ELSE Head(owed)
<1>1. page > 22 /\ page # 0 /\ Pending
  <2>1. page > 22 /\ page # 0
    BY DEF Result, EndOfRelease, EndOfExtended, Emit, RESULT_PAGE, PROCESS_BP,
       PROCESS_EXTCHECK, EMIT_PAGE
  <2> QED  BY <2>1 DEF Pending, STOP_HIGH
<1>2. lastByte \in Byte /\ bytes \in Seq(Byte)
  BY DEF RInv, IInv, TypeOK
<1>3. Unread = <<lastByte>> \o bytes
  BY <1>1 DEF Unread
<1>4. Unread # << >> /\ Head(Unread) = lastByte /\ Tail(Unread) = bytes
  BY <1>2, <1>3, OnTheFront
<1>5. CASE image = "reader"
  <2>1. owed = Unread
    BY <1>5 DEF RInv, Owes
  <2>2. gpio_out' = accum /\ page = 23
    BY <1>5 DEF Result, EndOfRelease, EndOfExtended, Emit, RInv, Checked, RESULT_PAGE,
       PROCESS_EXTCHECK, EMIT_PAGE
  <2>3. accum = lastByte /\ lastByte # -1
    BY <1>2, <2>2 DEF RInv, IInv, InStep, RESULT_PAGE, PROCESS_DISPATCH, Byte
  <2> QED  BY <1>4, <2>1, <2>2, <2>3 DEF Keys!Silence
<1>6. CASE image = "ascii"
  <2>1. EndOfRelease \/ EndOfExtended \/ Emit
    BY <1>6 DEF Result
  <2>2. (\E e \in Events : OneKey(e)) \/ (\E e, f \in Events : TwoKeys(e, f))
    BY <1>1, <1>4, <1>6 DEF RInv, Owes, Nothing
  <2>3. ASSUME NEW e \in Events, OneKey(e)
        PROVE  /\ owed # << >>
               /\ gpio_out' = IF Head(owed) = -1 THEN gpio_out ELSE Head(owed)
    <3>1. Begun(e) /\ Head(Remaining(e)) = lastByte /\ owed = Keys!Shows(e)
      BY <1>4, <2>3 DEF OneKey
    <3>2. PICK s \in Int : /\ Keys!Shows(e) = <<s>>
                           /\ gpio_out' = IF s = -1 THEN gpio_out ELSE s
      BY <1>6, <2>1, <3>1, EndStep
    <3> QED  BY <3>1, <3>2
  <2>4. ASSUME NEW e \in Events, NEW f \in Events, TwoKeys(e, f)
        PROVE  /\ owed # << >>
               /\ gpio_out' = IF Head(owed) = -1 THEN gpio_out ELSE Head(owed)
    <3>1. Begun(e) /\ Remaining(e) = <<lastByte>> /\ owed = Keys!Shows(e) \o Keys!Shows(f)
      BY <2>4 DEF TwoKeys
    <3>2. PICK s \in Int : /\ Keys!Shows(e) = <<s>>
                           /\ gpio_out' = IF s = -1 THEN gpio_out ELSE s
      <4>1. Head(Remaining(e)) = lastByte
        BY <3>1
      <4> QED  BY <1>6, <2>1, <3>1, <4>1, EndStep
    <3>3. PICK t \in Int : Keys!Shows(f) = <<t>>
      BY <1>6, ShowsOne
    <3>4. owed = <<s, t>>
      BY <3>1, <3>2, <3>3, OneByOne
    <3> QED  BY <3>2, <3>4
  <2> QED  BY <2>2, <2>3, <2>4 DEF Keys!Silence
<1> QED  BY <1>5, <1>6

\* A key struck when nothing is left of the one before.
LEMMA NewKey ==
  ASSUME image = "ascii", UNCHANGED image, NEW f \in Events,
         break_pending' = 0, ext_pending' = 0, Unread' = WireBytes(f), owed' = Keys!Shows(f)
  PROVE  OneKey(f)'
<1>1. Begun(f)'
  BY DEF Begun
<1>2. Remaining(f)' = WireBytes(f)
  <2>1. f.extended \in BOOLEAN /\ f.released \in BOOLEAN
    BY KeyTypes
  <2>2. (f.extended /\ ext_pending' = 0) = f.extended
    BY <2>1
  <2>3. (f.released /\ break_pending' = 0) = f.released
    BY <2>1
  <2>4. Remaining(f)' = Spell(f.extended, f.released, f.code)
    BY <2>2, <2>3, Zenon DEF Remaining
  <2> QED  BY <2>4, KeyTypes
<1>3. Keys!Shows(f)' = Keys!Shows(f)
  BY DEF Keys!Shows
<1> QED  BY <1>1, <1>2, <1>3 DEF OneKey

\* What the keyboard makes of nothing unread and nothing owed.
LEMMA FromNothing ==
  ASSUME IInv, image = "ascii", UNCHANGED image, NEW l1, Visit(l1), NEW left, Keyboard(left),
         ~Listens, Unread = << >>, left = << >>, break_pending' = 0, ext_pending' = 0
  PROVE  Nothing' \/ \E f \in Events : OneKey(f)'
<1>1. CASE (Rest \/ Send) /\ owed' = left
  <2>1. Unread' = << >>
    BY <1>1, UnreadMoves
  <2> QED  BY <1>1, <2>1 DEF Nothing
<1>2. ASSUME NEW f \in Events, Strike(f), owed' = left \o Keys!Shows(f)
      PROVE  OneKey(f)'
  <2>1. Unread' = << >> \o WireBytes(f)
    BY <1>2, UnreadMoves
  <2>2. << >> \o WireBytes(f) = WireBytes(f)
    BY WireBytesSent, ConcatEmptySeq
  <2>3. << >> \o Keys!Shows(f) = Keys!Shows(f)
    <3>1. PICK s \in Int : Keys!Shows(f) = <<s>>
      BY ShowsOne
    <3>2. <<s>> \in Seq(Int)
      OBVIOUS
    <3> QED  BY <3>1, <3>2, ConcatEmptySeq
  <2> QED  BY <1>2, <2>1, <2>2, <2>3, NewKey
<1> QED  BY <1>1, <1>2 DEF Keyboard

\* While the bytes of one key are coming in, or another is struck at its last.
LEMMA FromOneKey ==
  ASSUME RInv, image = "ascii", UNCHANGED image, page # 0, NEW l1, Visit(l1), Keyboard(l1),
         NEW e \in Events, OneKey(e)
  PROVE  Nothing' \/ (\E g \in Events : OneKey(g)') \/ (\E g, h \in Events : TwoKeys(g, h)')
<1>1. /\ Begun(e) /\ Unread = Remaining(e) /\ owed = Keys!Shows(e)
      /\ IInv /\ lastByte \in Byte /\ bytes \in Seq(Byte)
  BY DEF OneKey, RInv, IInv, TypeOK
<1>2. Remaining(e) # << >>
  BY KeyTypes, Spelled DEF Remaining
<1>3. Keys!Shows(e)' = Keys!Shows(e)
  BY DEF Keys!Shows
<1>4. PICK s \in Int : Keys!Shows(e) = <<s>>
  BY ShowsOne
<1>5. Pending =>
        /\ Head(Remaining(e)) = lastByte /\ Tail(Remaining(e)) = bytes
        /\ Remaining(e) = <<lastByte>> => bytes = << >>
        /\ bytes = << >> => Remaining(e) = <<lastByte>>
  <2> SUFFICES ASSUME Pending
               PROVE  /\ Head(Remaining(e)) = lastByte /\ Tail(Remaining(e)) = bytes
                      /\ Remaining(e) = <<lastByte>> => bytes = << >>
                      /\ bytes = << >> => Remaining(e) = <<lastByte>>
    OBVIOUS
  <2>1. Remaining(e) = <<lastByte>> \o bytes
    BY <1>1, UnreadMoves
  <2>2. bytes = << >> => Unread = <<lastByte>>
    BY <1>1, UnreadMoves
  <2> QED  BY <1>1, <2>1, <2>2, OnTheFront
<1>6. CASE ~Listens /\ l1 = owed /\ UNCHANGED flagVars
  <2>1. Begun(e)' /\ Remaining(e)' = Remaining(e)
    BY <1>1, <1>6 DEF Begun, Remaining, flagVars
  <2>2. CASE (Rest \/ Send) /\ owed' = l1
    <3>1. Unread' = Unread
      BY <1>1, <1>6, <2>2, UnreadMoves
    <3> QED  BY <1>1, <1>3, <1>6, <2>1, <2>2, <3>1 DEF OneKey
  <2>3. ASSUME NEW f \in Events, Strike(f), owed' = l1 \o Keys!Shows(f)
        PROVE  TwoKeys(e, f)'
    <3>1. bytes = << >> /\ bytes' = WireBytes(f)
      BY <1>1, <2>3, UnreadMoves
    <3>2. Pending
      BY <1>1, <1>2, <3>1, UnreadMoves
    <3>3. Pending' /\ lastByte' = lastByte
      BY <1>1, <1>6, <3>2, PendingMoves
    <3>4. Remaining(e)' = <<lastByte'>>
      BY <1>5, <2>1, <3>1, <3>2, <3>3
    <3>5. Keys!Shows(f)' = Keys!Shows(f)
      BY DEF Keys!Shows
    <3>6. (Keys!Shows(e) \o Keys!Shows(f))' = Keys!Shows(e) \o Keys!Shows(f)
      BY <1>3, <3>5
    <3>7. owed' = (Keys!Shows(e) \o Keys!Shows(f))'
      BY <1>1, <1>6, <2>3, <3>6
    <3>8. bytes' = WireBytes(f)'
      BY <3>1
    <3> QED  BY <2>1, <3>3, <3>4, <3>7, <3>8 DEF TwoKeys
  <2> QED  BY <2>2, <2>3 DEF Keyboard
<1>7. CASE Listens /\ l1 = owed /\ (BreakPrefix \/ ExtendedPrefix)
  <2>1. Pending
    BY <1>1, <1>7, PendingMoves
  <2>2. Begun(e)' /\ Remaining(e)' = bytes /\ bytes # << >>
    BY <1>1, <1>5, <1>7, <2>1, PrefixStep
  <2>3. (Rest \/ Send) /\ owed' = l1
    BY <1>1, <2>2, UnreadMoves DEF Keyboard
  <2>4. Unread' = bytes
    BY <1>1, <1>7, <2>3, UnreadMoves
  <2> QED  BY <1>1, <1>3, <1>7, <2>2, <2>3, <2>4 DEF OneKey
<1>8. CASE /\ Listens /\ l1 = (IF owed = << >> THEN owed ELSE Tail(owed))
           /\ EndOfRelease \/ EndOfExtended \/ Emit
  <2>1. Pending
    BY <1>1, <1>8, PendingMoves
  <2>2. /\ Remaining(e) = <<lastByte>> /\ bytes = << >>
        /\ break_pending' = 0 /\ ext_pending' = 0
    BY <1>1, <1>5, <1>8, <2>1, EndStep
  <2>3. l1 = << >>
    <3>1. <<s>> # << >> /\ Tail(<<s>>) = << >>
      OBVIOUS
    <3> QED  BY <1>1, <1>4, <1>8, <3>1, Zenon
  <2>4. CASE (Rest \/ Send) /\ owed' = l1
    <3>1. Unread' = << >>
      BY <1>1, <1>8, <2>2, <2>4, UnreadMoves
    <3> QED  BY <2>2, <2>3, <2>4, <3>1 DEF Nothing
  <2>5. ASSUME NEW f \in Events, Strike(f), owed' = l1 \o Keys!Shows(f)
        PROVE  OneKey(f)'
    <3>1. Unread' = << >> \o WireBytes(f)
      BY <1>1, <1>8, <2>5, UnreadMoves
    <3>2. << >> \o WireBytes(f) = WireBytes(f)
      BY WireBytesSent, ConcatEmptySeq
    <3>3. << >> \o Keys!Shows(f) = Keys!Shows(f)
      <4>1. PICK t \in Int : Keys!Shows(f) = <<t>>
        BY ShowsOne
      <4>2. <<t>> \in Seq(Int)
        OBVIOUS
      <4> QED  BY <4>1, <4>2, ConcatEmptySeq
    <3> QED  BY <2>2, <2>3, <2>5, <3>1, <3>2, <3>3, NewKey
  <2> QED  BY <2>4, <2>5 DEF Keyboard
<1> QED  BY <1>1, <1>6, <1>7, <1>8, VisitIs DEF Result

\* While a key's last byte is dealt with and the next key is coming in.
LEMMA FromTwoKeys ==
  ASSUME RInv, image = "ascii", UNCHANGED image, page # 0, NEW l1, Visit(l1), Keyboard(l1),
         NEW e \in Events, NEW f \in Events, TwoKeys(e, f)
  PROVE  OneKey(f)' \/ TwoKeys(e, f)'
<1>1. /\ Begun(e) /\ Pending /\ Remaining(e) = <<lastByte>> /\ bytes = WireBytes(f)
      /\ owed = Keys!Shows(e) \o Keys!Shows(f)
      /\ IInv /\ lastByte \in Byte /\ bytes \in Seq(Byte) /\ bytes # << >>
  BY WireBytesSent DEF TwoKeys, RInv, IInv, TypeOK
<1>2. Head(Remaining(e)) = lastByte /\ Tail(Remaining(e)) = << >>
  BY <1>1
<1>3. (Keys!Shows(e) \o Keys!Shows(f))' = Keys!Shows(e) \o Keys!Shows(f)
      /\ Keys!Shows(f)' = Keys!Shows(f)
  BY DEF Keys!Shows
<1>4. (Rest \/ Send) /\ owed' = l1 /\ bytes' = bytes
  BY <1>1, UnreadMoves DEF Keyboard
<1>5. CASE ~Listens /\ l1 = owed /\ UNCHANGED flagVars
  <2>1. Begun(e)' /\ Remaining(e)' = Remaining(e)
    BY <1>1, <1>5 DEF Begun, Remaining, flagVars
  <2>2. Pending' /\ lastByte' = lastByte
    BY <1>1, <1>5, PendingMoves
  <2>3. Remaining(e)' = <<lastByte'>>
    BY <1>1, <2>1, <2>2
  <2>4. owed' = (Keys!Shows(e) \o Keys!Shows(f))' /\ bytes' = WireBytes(f)'
    BY <1>1, <1>3, <1>4, <1>5
  <2> QED  BY <2>1, <2>2, <2>3, <2>4 DEF TwoKeys
<1>6. CASE Listens /\ l1 = owed /\ (BreakPrefix \/ ExtendedPrefix)
  BY <1>1, <1>2, <1>6, PrefixStep
<1>7. CASE /\ Listens /\ l1 = (IF owed = << >> THEN owed ELSE Tail(owed))
           /\ EndOfRelease \/ EndOfExtended \/ Emit
  <2>1. break_pending' = 0 /\ ext_pending' = 0
    BY <1>1, <1>2, <1>7, EndStep
  <2>2. Unread' = WireBytes(f)
    BY <1>1, <1>4, <1>7, UnreadMoves
  <2>3. owed' = Keys!Shows(f)
    <3>1. PICK s \in Int : Keys!Shows(e) = <<s>>
      BY ShowsOne
    <3>2. PICK t \in Int : Keys!Shows(f) = <<t>>
      BY ShowsOne
    <3>3. owed = <<s, t>>
      BY <1>1, <3>1, <3>2, OneByOne
    <3>4. <<s, t>> # << >> /\ Tail(<<s, t>>) = <<t>>
      OBVIOUS
    <3> QED  BY <1>4, <1>7, <3>2, <3>3, <3>4
  <2> QED  BY <2>1, <2>2, <2>3, NewKey
<1> QED  BY <1>1, <1>5, <1>6, <1>7, VisitIs DEF Result

\* The reader owes what it has not read.
LEMMA ReaderOwes ==
  ASSUME RInv, image = "reader", UNCHANGED image, NEW l1, Visit(l1), Keyboard(l1)
  PROVE  owed' = Unread'
<1>1. /\ owed = Unread /\ IInv /\ lastByte \in Byte /\ bytes \in Seq(Byte)
  BY DEF RInv, Owes, IInv, TypeOK
<1>2. ~(BreakPrefix \/ ExtendedPrefix)
  BY DEF BreakPrefix, ExtendedPrefix, RInv, Checked, PROCESS_F0, PROCESS_E0, RESULT_PAGE
<1>3. l1 = IF Listens THEN bytes ELSE Unread
  <2>1. CASE ~Listens /\ l1 = owed
    BY <1>1, <2>1
  <2>2. CASE Listens /\ l1 = (IF owed = << >> THEN owed ELSE Tail(owed))
    <3>1. Unread = <<lastByte>> \o bytes
      BY <1>1, <2>2, PendingMoves, UnreadMoves
    <3>2. owed # << >> /\ Tail(owed) = bytes
      BY <1>1, <3>1, OnTheFront
    <3> QED  BY <2>2, <3>2
  <2> QED  BY <1>1, <1>2, <2>1, <2>2, VisitIs
<1>4. CASE (Rest \/ Send) /\ owed' = l1
  BY <1>1, <1>3, <1>4, UnreadMoves
<1>5. ASSUME NEW f \in Events, Strike(f), owed' = l1 \o Keys!Shows(f)
      PROVE  owed' = Unread'
  <2>1. bytes = << >> /\ Unread' = (IF Listens THEN << >> ELSE Unread) \o WireBytes(f)
    BY <1>1, <1>5, UnreadMoves
  <2>2. Keys!Shows(f) = WireBytes(f)
    BY ShowsIs
  <2> QED  BY <1>3, <1>5, <2>1, <2>2
<1> QED  BY <1>4, <1>5 DEF Keyboard

\* What is owed goes with what is unread, at every step.
LEMMA OwesStep ==
  ASSUME RInv, UNCHANGED image, NEW l1, Visit(l1), Keyboard(l1)
  PROVE  Owes'
<1>1. page' # 0
  BY VisitStep DEF RInv, SamplePages
<1>2. image' = "reader" => owed' = Unread'
  BY ReaderOwes
<1>3. ASSUME image = "ascii"
      PROVE  Nothing' \/ (\E g \in Events : OneKey(g)') \/ (\E g, h \in Events : TwoKeys(g, h)')
  <2>1. CASE page = 0
    <3>1. IInv /\ bytes = << >> /\ owed = << >> /\ ~Pending /\ ~Listens
      BY <2>1 DEF RInv, Owes, Pending, Listens, STOP_HIGH
    <3>2. Unread = << >>
      BY <3>1, <2>1, UnreadMoves
    <3>3. l1 = << >> /\ break_pending' = 0 /\ ext_pending' = 0
      BY <1>3, <2>1, <3>1, VisitIs
    <3> QED  BY <1>3, <3>1, <3>2, <3>3, FromNothing
  <2>2. CASE page # 0 /\ Nothing
    <3>1. IInv /\ Unread = << >> /\ owed = << >> /\ break_pending = 0 /\ ext_pending = 0
      BY <2>2 DEF RInv, Nothing
    <3>2. ~Listens
      <4>1. lastByte \in Byte /\ bytes \in Seq(Byte)
        BY DEF RInv, IInv, TypeOK
      <4> QED  BY <3>1, <4>1, PendingMoves, UnreadMoves, OnTheFront
    <3>3. l1 = << >> /\ break_pending' = 0 /\ ext_pending' = 0
      BY <2>2, <3>1, <3>2, VisitIs DEF flagVars
    <3> QED  BY <1>3, <3>1, <3>2, <3>3, FromNothing
  <2>3. CASE page # 0 /\ \E e \in Events : OneKey(e)
    BY <1>3, <2>3, FromOneKey
  <2>4. CASE page # 0 /\ \E e, f \in Events : TwoKeys(e, f)
    BY <1>3, <2>4, FromTwoKeys
  <2> QED  BY <1>3, <2>1, <2>2, <2>3, <2>4 DEF RInv, Owes
<1> QED  BY <1>1, <1>2, <1>3 DEF Owes

--------------------------------------------------------------------------------
(* The programs implement Keystrokes                                       *)

LEMMA RInvInit == Init => RInv
<1> SUFFICES ASSUME Init PROVE RInv
  OBVIOUS
<1>1. IInv
  BY IInvInit
<1>2. page = 0 /\ bytes = << >> /\ owed = << >>
  BY DEF Init, KeyboardInit
<1>3. Checked
  BY <1>2 DEF Checked, RESULT_PAGE, PROCESS_BP, PROCESS_F0, PROCESS_E0, PROCESS_EXTCHECK,
     EMIT_PAGE, TABLE_START
<1>4. Owes
  <2>1. ~Pending
    BY <1>2 DEF Pending, STOP_HIGH
  <2>2. << >> \in Seq(Byte)
    OBVIOUS
  <2>3. Unread = << >>
    BY <1>2, <2>1, <2>2, ConcatEmptySeq, Zenon DEF Unread
  <2> QED  BY <1>2, <2>3 DEF Owes
<1> QED  BY <1>1, <1>3, <1>4 DEF RInv

LEMMA RInvNext == RInv /\ [Next]_vars => RInv'
<1> SUFFICES ASSUME RInv, [Next]_vars PROVE RInv'
  OBVIOUS
<1>1. IInv'
  BY IInvNext DEF RInv
<1>2. CASE Next
  <2>1. PICK left : Visit(left) /\ Keyboard(left) /\ UNCHANGED image
    BY <1>2 DEF Next, Tick
  <2>2. Checked'
    BY <2>1, CheckedStep
  <2>3. Owes'
    BY <2>1, OwesStep
  <2> QED  BY <1>1, <2>2, <2>3 DEF RInv
<1>3. CASE UNCHANGED vars
  <2>1. UNCHANGED <<image, page, break_pending, ext_pending, x8, bytes, edges, lastByte, owed>>
    BY <1>3 DEF vars, programVars, keyboardVars, flagVars
  <2>2. Checked'
    BY <2>1 DEF RInv, Checked
  <2>3. Owes'
    <3>1. (Pending' <=> Pending) /\ Unread' = Unread
      BY <2>1 DEF Pending, Unread
    <3>2. Nothing' <=> Nothing
      BY <2>1, <3>1 DEF Nothing
    <3>3. ASSUME NEW e
          PROVE  (Begun(e)' <=> Begun(e)) /\ Remaining(e)' = Remaining(e)
                 /\ Keys!Shows(e)' = Keys!Shows(e)
      BY <2>1 DEF Begun, Remaining, Keys!Shows
    <3>4. ASSUME NEW e
          PROVE  OneKey(e)' <=> OneKey(e)
      BY <2>1, <3>1, <3>3, Zenon DEF OneKey
    <3>5. ASSUME NEW e, NEW f
          PROVE  TwoKeys(e, f)' <=> TwoKeys(e, f)
      <4>1. /\ Begun(e)' <=> Begun(e)
            /\ Remaining(e)' = Remaining(e)
            /\ Keys!Shows(e)' = Keys!Shows(e) /\ Keys!Shows(f)' = Keys!Shows(f)
        BY <3>3
      <4>2. (Keys!Shows(e) \o Keys!Shows(f))' = Keys!Shows(e) \o Keys!Shows(f)
        BY <4>1
      <4>3. <<lastByte>>' = <<lastByte>>
        BY <2>1
      <4> QED  BY <2>1, <3>1, <4>1, <4>2, <4>3 DEF TwoKeys
    <3> QED  BY <2>1, <3>1, <3>2, <3>4, <3>5, Zenon DEF RInv, Owes
  <2> QED  BY <1>1, <2>2, <2>3 DEF RInv
<1> QED  BY <1>2, <1>3

\* Every tick is a step of Keystrokes or leaves its variables alone.
LEMMA KeysStep == RInv /\ [Next]_vars => [Keys!Next]_(Keys!vars)
<1> SUFFICES ASSUME RInv, [Next]_vars PROVE [Keys!Next]_(Keys!vars)
  OBVIOUS
<1>1. CASE Next
  <2>1. PICK left : Visit(left) /\ Keyboard(left) /\ UNCHANGED image
    BY <1>1 DEF Next, Tick
  <2>2. image \in {"reader", "ascii"} /\ IInv
    BY Ps2Assumption DEF RInv, IInv, TypeOK
  <2>3. \/ owed' = left
        \/ \E f \in Events : owed' = left \o Keys!Shows(f)
    BY <2>1 DEF Keyboard
  <2>4. CASE left = owed /\ UNCHANGED <<gpio_out, turn>>
    <3>1. CASE owed' = left
      BY <2>1, <2>4, <3>1 DEF Keys!vars
    <3>2. ASSUME NEW f \in Events, owed' = left \o Keys!Shows(f)
          PROVE  Keys!Type(f)
      BY <2>1, <2>4, <3>2 DEF Keys!Type
    <3> QED  BY <2>3, <3>1, <3>2 DEF Keys!Next
  <2>5. CASE /\ left = (IF owed = << >> THEN owed ELSE Tail(owed)) /\ turn' = 1 - turn
             /\ Result \/ EndOfRelease \/ EndOfExtended \/ Emit
    <3>1. /\ owed # << >> /\ left = Tail(owed)
          /\ gpio_out' = IF Head(owed) = Keys!Silence THEN gpio_out ELSE Head(owed)
      BY <2>2, <2>5, ShownRight
    <3>2. CASE owed' = left
      BY <2>1, <2>5, <3>1, <3>2 DEF Keys!Show, Keys!Next
    <3>3. ASSUME NEW f \in Events, owed' = left \o Keys!Shows(f)
          PROVE  Keys!TypeAndShow(f)
      BY <2>1, <2>5, <3>1, <3>3 DEF Keys!TypeAndShow
    <3> QED  BY <2>3, <3>2, <3>3 DEF Keys!Next
  <2> QED  BY <2>1, <2>2, <2>4, <2>5, VisitIs
<1>2. CASE UNCHANGED vars
  BY <1>2 DEF vars, programVars, Keys!vars
<1> QED  BY <1>1, <1>2

\* ShowsWhatIsTyped: for every table, every choice of key events and every keyboard that
\* leaves Hold and Gap, what the programs do is what Keystrokes allows: every byte, or
\* every character, is shown once and in the order typed, and nothing of a release, of a
\* prefix or of an extended key (build_ps2_reader.py:192-208, build_ps2_ascii.py:322-450).
THEOREM ShowsWhatIsTyped == Spec => ShownAsTyped
<1>1. Init => Keys!Init
  BY DEF Init, Keys!Init
<1> QED
  BY <1>1, RInvInit, RInvNext, KeysStep, PTL DEF Spec, ShownAsTyped, Keys!Safety

================================================================================
