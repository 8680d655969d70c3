-------------------------------- MODULE MCPs2 --------------------------------
EXTENDS Ps2Ascii, TLC

\* The letter a of SCANCODE_TO_ASCII, and a key at the end of the table.
Table == (28 :> 97) @@ (102 :> 8)

Key(e, r, c) == [extended |-> e, released |-> r, code |-> c]

\* Mapped and unmapped codes, the codes on either side of MAX_SAFE_SCANCODE and
\* the one whose page would be EMIT_PAGE; with and without each prefix.
KeyEvents ==
  {Key(FALSE, FALSE, c) : c \in {28, 102, 5, 226, 227, 255}}
    \cup {Key(FALSE, TRUE, 28), Key(TRUE, FALSE, 28), Key(TRUE, FALSE, 20), Key(TRUE, TRUE, 28)}

================================================================================
