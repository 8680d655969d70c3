------------------------------- MODULE Keystrokes -------------------------------
(***************************************************************************)
(* What the PS/2 programs promise to whoever looks at GPIO_OUT: what is    *)
(* typed is shown, in order, each once.  The reader shows every byte the   *)
(* keyboard sends; the ASCII decoder shows the character of a key that is  *)
(* pressed and nothing of a release or of an extended key.  There are no   *)
(* frames, prefixes, pages or clocks.                                      *)
(***************************************************************************)
EXTENDS Integers, Sequences

CONSTANTS
  Image,            \* programs that may be in flash: "reader", "ascii"
  Events,           \* key events: [extended, released : BOOLEAN, code : Byte]
  WireBytes(_),     \* the bytes a keyboard sends for an event
  Translation(_)    \* the character of a scancode, 0 if it has none

VARIABLES
  image,   \* the program in flash
  owed,    \* what is still to be shown for the keys typed so far
  shown,   \* what GPIO_OUT shows
  turn     \* flips when something is shown: the same byte twice is two steps

vars == <<image, owed, shown, turn>>

Silence == -1   \* nothing is to be shown: no byte

\* What is to be shown for an event.
Shows(e) ==
  IF image = "reader" THEN WireBytes(e)
  ELSE IF e.extended \/ e.released THEN <<Silence>>
  ELSE <<Translation(e.code)>>

Type(e) == owed' = owed \o Shows(e) /\ UNCHANGED <<image, shown, turn>>

\* The next thing owed is shown.
Show ==
  /\ owed # << >>
  /\ owed' = Tail(owed)
  /\ shown' = IF Head(owed) = Silence THEN shown ELSE Head(owed)
  /\ turn' = 1 - turn
  /\ UNCHANGED image

\* A key may be typed in the very moment something is shown.
TypeAndShow(e) ==
  /\ owed # << >>
  /\ owed' = Tail(owed) \o Shows(e)
  /\ shown' = IF Head(owed) = Silence THEN shown ELSE Head(owed)
  /\ turn' = 1 - turn
  /\ UNCHANGED image

Init == image \in Image /\ owed = << >> /\ turn = 0

Next == Show \/ \E e \in Events : Type(e) \/ TypeAndShow(e)

Safety == Init /\ [][Next]_vars

\* What is typed is shown sooner or later.
Completes == WF_vars(Show \/ \E e \in Events : TypeAndShow(e))

Spec == Safety /\ Completes

================================================================================
