------------------------------ MODULE MCBootLoader ------------------------------
(***************************************************************************)
(* Three-bit bytes, messages of up to three; a bus of 16 addresses with    *)
(* RAM at 8-11 (load window 9-11), PSRAM at 12, FLASH_MODE at 14.          *)
(***************************************************************************)
EXTENDS BootLoader

MCPower == [n \in 0 .. 3 |-> 2^n]

MCMessages == {<< >>, <<5>>, <<1, 6>>, <<3, 0, 7>>}
================================================================================
