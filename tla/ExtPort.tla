-------------------------------- MODULE ExtPort --------------------------------
(***************************************************************************)
(* What the external port promises to the memory bus: a request that is    *)
(* raised and held is taken once, keeps the port busy for some time, and   *)
(* is answered by one single-cycle pulse.  A write reaches the chip as a   *)
(* whole by the time it is answered; a read returns what the chip held.    *)
(* A reset ends a transaction anywhere: a write it interrupts has reached  *)
(* the chip up to some byte, in address order.                             *)
(*                                                                         *)
(* QspiLink (the bit-level engine wired to SPI chips) implements this      *)
(* specification; Soc uses it in place of the engine.                      *)
(***************************************************************************)
EXTENDS ChipMemory

CONSTANTS
  Byte,            \* the bytes; ZeroByte is one of them
  Requests,        \* the requests the bus may raise
  SpiReply         \* what the device on CS2 may answer to a raw SPI byte

VARIABLES
  req_valid, req,  \* the request lines of the bus
  port,            \* "idle", "busy", "post" (answering: ready is high)
  cur,             \* the request being served
  chips,           \* contents of the memory chip behind each chip select
  rdata            \* the answer, held until the next one

portVars == <<port, cur, chips, rdata>>
vars     == <<req_valid, req, portVars>>

ready == port = "post"

Replies(m, r) ==
  IF r.dev = Spi
    THEN {[i \in 1 .. 4 |-> IF i = 1 THEN b ELSE ZeroByte] : b \in SpiReply}
    ELSE {ReadWord(m, r)}

--------------------------------------------------------------------------------
PortIdle(valid) == port = "idle" /\ ~valid /\ UNCHANGED portVars

Take(valid, r) ==
  /\ port = "idle" /\ valid
  /\ port' = "busy" /\ cur' = r
  /\ UNCHANGED <<chips, rdata>>

Transfer == port = "busy" /\ UNCHANGED portVars

Answer ==
  /\ port = "busy" /\ port' = "post"
  /\ chips' = IF IsMemWrite(cur) THEN Written(chips, cur, DataBytes(cur)) ELSE chips
  /\ rdata' \in Replies(chips, cur)
  /\ UNCHANGED cur

PortPost == port = "post" /\ port' = "idle" /\ UNCHANGED <<cur, chips, rdata>>

PortStep(valid, r) ==
  PortIdle(valid) \/ Take(valid, r) \/ Transfer \/ Answer \/ PortPost

PortReset ==
  /\ port' = "idle"
  /\ rdata' = [i \in 1 .. 4 |-> ZeroByte]
  /\ \E k \in 0 .. 4 :
       /\ k <= IF port = "busy" /\ IsMemWrite(cur) THEN DataBytes(cur) ELSE 0
       /\ chips' = Written(chips, cur, k)
  /\ UNCHANGED cur

PortInit ==
  /\ port = "idle" /\ cur \in Requests
  /\ rdata = [i \in 1 .. 4 |-> ZeroByte]

--------------------------------------------------------------------------------
\* The bus side of the handshake: a request is held until the cycle that sees
\* ready, and is low in the next one.
BusHold == req_valid /\ ~ready /\ UNCHANGED <<req_valid, req>>
BusDrop == req_valid /\ ready /\ req_valid' = FALSE /\ req' \in Requests
BusFree == ~req_valid /\ req_valid' \in BOOLEAN /\ req' \in Requests
Bus     == BusHold \/ BusDrop \/ BusFree

Init ==
  /\ req_valid = FALSE /\ req \in Requests
  /\ PortInit
  /\ chips \in [Chip -> [0 .. MemSize - 1 -> Byte]]

Clock == PortStep(req_valid, req) /\ Bus
Reset == PortReset /\ req_valid' = FALSE /\ req' \in Requests

Next == Clock \/ Reset
Spec == Init /\ [][Next]_vars

================================================================================
