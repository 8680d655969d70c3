-------------------------------- MODULE Ps2Ascii --------------------------------
(***************************************************************************)
(* The keyboard programs whole: behind the receiver of Ps2Reader, either   *)
(* the one RESULT page of build_ps2_reader.py, or the pages of             *)
(* build_ps2_ascii.py that follow prefixes and look a character up by      *)
(* turning to the page whose number is the scancode plus TABLE_START.      *)
(***************************************************************************)
EXTENDS Ps2Reader

CONSTANTS
  SCANCODE_TO_ASCII,   \* function from the scancodes that have a character
  FirstShown           \* what the boot ROM may have left on GPIO_OUT

ASSUME AsciiAssumption ==
  /\ DOMAIN SCANCODE_TO_ASCII \subseteq 1 .. 226
  /\ \A s \in DOMAIN SCANCODE_TO_ASCII : SCANCODE_TO_ASCII[s] \in Byte
  /\ FirstShown \subseteq Byte

VARIABLES
  break_pending, ext_pending,   \* x5, x6
  x8,                           \* the character, on the way to EMIT_PAGE
  gpio_out,
  \* history, for the properties only
  owed, turn                    \* what is still to be shown, and a bit: see Keystrokes

flagVars    == <<break_pending, ext_pending>>
programVars == <<image, page, accum, flagVars, x8, gpio_out>>
vars        == <<programVars, keyboardVars, owed, turn>>

PROCESS_BP       == 23
PROCESS_F0       == 24
PROCESS_E0       == 25
PROCESS_EXTCHECK == 26
PROCESS_DISPATCH == 27
EMIT_PAGE        == 28
TABLE_START      == 29
MAX_SAFE_SCANCODE == 255 - TABLE_START

\* FLASH_PAGE keeps eight bits.
PageStored(n) == n % 256

Translation(s) == IF s \in DOMAIN SCANCODE_TO_ASCII THEN SCANCODE_TO_ASCII[s] ELSE 0

\* A byte is done with: back to listening.
Listen == page' = START_LOW /\ accum' = 0

--------------------------------------------------------------------------------
Begin ==
  /\ Start
  /\ IF image = "ascii" THEN break_pending' = 0 /\ ext_pending' = 0 ELSE UNCHANGED flagVars
  /\ UNCHANGED <<x8, gpio_out>>

ReceiveByte == Receive /\ UNCHANGED <<flagVars, x8, gpio_out>>

\* build_ps2_reader.py: every byte is shown.
Result ==
  /\ image = "reader" /\ page = RESULT_PAGE
  /\ gpio_out' = accum /\ Listen
  /\ UNCHANGED <<flagVars, x8>>

\* The byte after F0 is the released key's own: it ends the event.
\* Faulty variant: the extended flag outlives the release.
EndOfRelease_KeepsExt ==
  /\ image = "ascii" /\ page = PROCESS_BP /\ break_pending = 1
  /\ break_pending' = 0 /\ Listen
  /\ UNCHANGED <<ext_pending, x8, gpio_out>>

EndOfRelease ==
  /\ image = "ascii" /\ page = PROCESS_BP /\ break_pending = 1
  /\ break_pending' = 0 /\ ext_pending' = 0 /\ Listen
  /\ UNCHANGED <<x8, gpio_out>>

BreakPrefix ==
  /\ page = PROCESS_F0 /\ accum = BREAK_PREFIX
  /\ break_pending' = 1 /\ Listen
  /\ UNCHANGED <<ext_pending, x8, gpio_out>>

ExtendedPrefix ==
  /\ page = PROCESS_E0 /\ accum = EXTENDED_PREFIX
  /\ ext_pending' = 1 /\ Listen
  /\ UNCHANGED <<break_pending, x8, gpio_out>>

\* The byte after E0 is an extended key: none has a character.
EndOfExtended ==
  /\ page = PROCESS_EXTCHECK /\ ext_pending = 1
  /\ ext_pending' = 0 /\ Listen
  /\ UNCHANGED <<break_pending, x8, gpio_out>>

\* A check that does not apply falls through to the next page.
NotThis ==
  /\ \/ image = "ascii" /\ page = PROCESS_BP /\ break_pending = 0
     \/ page = PROCESS_F0 /\ accum # BREAK_PREFIX
     \/ page = PROCESS_E0 /\ accum # EXTENDED_PREFIX
     \/ page = PROCESS_EXTCHECK /\ ext_pending = 0
  /\ page' = page + 1
  /\ UNCHANGED <<accum, flagVars, x8, gpio_out>>

\* Faulty variant: no bounds check.
TablePage_Unchecked(s) == PageStored(s + TABLE_START)

TablePage(s) ==
  IF s > MAX_SAFE_SCANCODE THEN TABLE_START ELSE PageStored(s + TABLE_START)

Dispatch ==
  /\ page = PROCESS_DISPATCH /\ page' = TablePage(accum)
  /\ UNCHANGED <<accum, flagVars, x8, gpio_out>>

LookUp ==
  /\ page >= TABLE_START
  /\ x8' = Translation(page - TABLE_START) /\ page' = EMIT_PAGE
  /\ UNCHANGED <<accum, flagVars, gpio_out>>

\* Faulty variant: back to START_HIGH instead of START_LOW.
Emit_OnePageOn ==
  /\ page = EMIT_PAGE
  /\ gpio_out' = x8 /\ page' = START_LOW + 1 /\ accum' = 0
  /\ UNCHANGED <<flagVars, x8>>

Emit ==
  /\ page = EMIT_PAGE
  /\ gpio_out' = x8 /\ Listen
  /\ UNCHANGED <<flagVars, x8>>

\* What the program has just dealt with is no longer owed.
EventEnds == Result \/ EndOfRelease \/ EndOfExtended \/ Emit

Step == Begin \/ ReceiveByte \/ BreakPrefix \/ ExtendedPrefix \/ NotThis \/ Dispatch \/ LookUp

--------------------------------------------------------------------------------
Keys == INSTANCE Keystrokes WITH shown <- gpio_out

\* The program's half of a tick, and what it leaves owed.
Visit(left) ==
  \/ Step /\ left = owed /\ UNCHANGED turn
  \/ EventEnds /\ left = (IF owed = << >> THEN owed ELSE Tail(owed)) /\ turn' = 1 - turn

\* The keyboard's half.
Keyboard(left) ==
  \/ (Rest \/ Send) /\ owed' = left
  \/ \E e \in Events : Strike(e) /\ owed' = left \o Keys!Shows(e)

Tick ==
  \E left \in {owed} \cup (IF owed = << >> THEN {} ELSE {Tail(owed)}) :
    Visit(left) /\ Keyboard(left) /\ UNCHANGED image

\* Out of the boot ROM: its registers hold anything, its LEDs are on GPIO_OUT.
Init ==
  /\ image \in Image /\ page = 0 /\ accum \in {0, 255}
  /\ break_pending \in {0, 1} /\ ext_pending \in {0, 1}
  /\ x8 \in FirstShown /\ gpio_out \in FirstShown
  /\ KeyboardInit /\ owed = << >> /\ turn = 0

Next == Tick

\* The chip's clock runs on, and a keyboard that began an event finishes it.
Spec == Init /\ [][Next]_vars /\ WF_vars(Tick) /\ WF_vars(Tick /\ Send)

--------------------------------------------------------------------------------
\* The registers keep to the values the pages give them, FLASH_PAGE to eight bits.
TypeOK ==
  /\ image \in Image /\ page \in Byte /\ accum \in Byte
  /\ break_pending \in {0, 1} /\ ext_pending \in {0, 1}
  /\ x8 \in Byte /\ gpio_out \in Byte
  /\ edges \in 0 .. FrameEdges - 1 /\ held \in 0 .. MaxHeld /\ lastByte \in Byte
  /\ bytes \in Seq(Byte) /\ (edges > 0 => bytes # << >>)

\* The bits of a byte that have been sampled when page p is to be run.
Sampled(b, p) ==
  LET n == IF p <= BIT_PAGES_START THEN 0
           ELSE IF p >= PARITY_LOW THEN 8 ELSE (p - BIT_PAGES_START + 1) \div 2
  IN  b % BitValue[n + 1]

\* The receiver never loses its place: it waits for the edge that comes next or
\* for the one just made, what it has gathered are the low bits of the byte on
\* the wire, and once it is past the frame it has the whole byte and is back to
\* listen before more than the start edge of the next frame has gone by.
InStep ==
  /\ page \in 1 .. STOP_HIGH =>
       /\ edges = page - 1 \/ edges = page % FrameEdges
       /\ accum = IF edges > 0 THEN Sampled(Head(bytes), page)
                  ELSE IF page = START_LOW THEN 0 ELSE lastByte
  /\ page > STOP_HIGH => edges \in {0, 1}
  /\ page \in RESULT_PAGE .. PROCESS_DISPATCH => accum = lastByte

\* ShownAsTyped: what is typed is shown, in order, each once, and nothing else is.
ShownAsTyped == Keys!Safety

\* ShownInTheEnd: what is typed is shown sooner or later.
ShownInTheEnd == Keys!Completes

================================================================================
