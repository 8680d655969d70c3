------------------------------- MODULE DisplayFill -------------------------------
(***************************************************************************)
(* What the ST7789 program promises to the panel: one stream of command    *)
(* and data bytes that wakes it, gives it 16-bit pixels and the whole      *)
(* screen as its window, and then fills the window with one colour.  There *)
(* are no bits, pages or registers.  After a reset it starts over.         *)
(***************************************************************************)
EXTENDS Integers, Sequences

CONSTANTS PANEL_WIDTH, PANEL_HEIGHT, MADCTL_VALUE, FILL_COLOR, pixel_count

VARIABLE received   \* what the panel has received since the last reset: [data, byte]

Command(b) == [data |-> FALSE, byte |-> b]
Datum(b)   == [data |-> TRUE, byte |-> b]

High(n) == n \div 256
Low(n)  == n % 256

\* From 0 to the last row or column.
Extent(n) == <<Datum(0), Datum(0), Datum(High(n - 1)), Datum(Low(n - 1))>>

SWRESET == 1
SLPOUT  == 17
COLMOD  == 58
MADCTL  == 54
CASET   == 42
RASET   == 43
DISPON  == 41
RAMWR   == 44

Preamble ==
  <<Command(SWRESET), Command(SLPOUT), Command(COLMOD), Datum(5),
    Command(MADCTL), Datum(MADCTL_VALUE)>>
    \o <<Command(CASET)>> \o Extent(PANEL_WIDTH)
    \o <<Command(RASET)>> \o Extent(PANEL_HEIGHT)
    \o <<Command(DISPON), Command(RAMWR)>>

Pixels ==
  [k \in 1 .. 2 * pixel_count |-> Datum(IF k % 2 = 1 THEN High(FILL_COLOR) ELSE Low(FILL_COLOR))]

Stream == Preamble \o Pixels

Init == received = << >>

Transfer ==
  /\ Len(received) < Len(Stream)
  /\ received' = Append(received, Stream[Len(received) + 1])

Restart == received' = << >>

Safety == Init /\ [][Transfer \/ Restart]_received

Completes == WF_received(Transfer)

Spec == Safety /\ Completes

================================================================================
