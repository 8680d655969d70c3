-------------------------------- MODULE BootProofs --------------------------------
(***************************************************************************)
(* The boot loader loads what was sent, for every program that fits the    *)
(* load window and every host that leaves each level of CLOCK there for    *)
(* eight instructions: the chip is never so late that it misses one.       *)
(***************************************************************************)
EXTENDS BootLoader, TLAPS

\* The least time from one falling edge of CLOCK to the next.
Period == Hold + Hold + Hold

LEMMA Parameters ==
  /\ ByteBits \in Nat /\ ByteBits >= 1 /\ Timeout \in Nat /\ Timeout >= 1
  /\ Hold \in Nat /\ Hold >= 8 /\ StartHold \in Nat /\ PsramTicks \in Nat
  /\ MaxHold \in Nat /\ Hold <= MaxHold /\ StartHold <= MaxHold
  /\ Period \in Nat /\ Period = Hold + Hold + Hold
  BY LoaderAssumption, HostAssumption DEF MaxHold, Period

LEMMA Map ==
  /\ RAM_BASE \in Nat /\ LOAD_BASE \in Nat /\ RAM_END \in Nat /\ FLASH_MODE \in Nat
  /\ AddrVals \in Nat /\ EXT_PSRAM_END \in Nat
  /\ 0 < RAM_BASE /\ RAM_BASE < LOAD_BASE /\ LOAD_BASE < RAM_END
  /\ RAM_END <= EXT_PSRAM_END /\ EXT_PSRAM_END <= FLASH_MODE /\ FLASH_MODE < AddrVals
  BY LoaderAssumption

--------------------------------------------------------------------------------
(* Bits                                                                    *)

\* Quotient and remainder.
LEMMA Euclid ==
  ASSUME NEW d \in Nat, d > 0, NEW q \in Nat, NEW r \in 0 .. d - 1
  PROVE  (d * q + r) \div d = q /\ (d * q + r) % d = r
<1>1. d * q \in Nat  OBVIOUS
<1> QED  BY <1>1, SMTT(30)

LEMMA EuclidOf ==
  ASSUME NEW d \in Nat, d > 0, NEW n \in Nat
  PROVE  \E q \in Nat : \E r \in 0 .. d - 1 : n = d * q + r
<1>1. n \div d \in Nat /\ n % d \in 0 .. d - 1 /\ n = d * (n \div d) + (n % d)
  OBVIOUS
<1> QED  BY <1>1

LEMMA Powers ==
  /\ Power[0] = 1
  /\ \A n \in 0 .. ByteBits : Power[n] \in Nat /\ Power[n] >= 1
  /\ \A n \in 0 .. ByteBits - 1 : Power[n + 1] = 2 * Power[n]
<1>1. ASSUME NEW n \in 0 .. ByteBits - 1  PROVE  Power[n + 1] = 2 * Power[n]
  <2>1. n + 1 \in 1 .. ByteBits /\ (n + 1) - 1 = n  BY Parameters
  <2> QED  BY <2>1, LoaderAssumption
<1>2. Power[0] = 1 /\ Power \in [0 .. ByteBits -> Nat \ {0}]  BY LoaderAssumption
<1> QED  BY <1>1, <1>2, Parameters

\* Halving the divisor brings in one more bit.
LEMMA OneMoreBit ==
  ASSUME NEW v \in Nat, NEW p \in Nat, p >= 1
  PROVE  v \div p = 2 * (v \div (2 * p)) + ((v \div p) % 2)
<1>1. PICK q \in Nat : \E r \in 0 .. p - 1 : v = p * q + r
  <2>1. p > 0  OBVIOUS
  <2> QED  BY <2>1, EuclidOf, Zenon
<1>5. PICK r \in 0 .. p - 1 : v = p * q + r  BY <1>1
<1>2. PICK h \in Nat, t \in 0 .. 1 : q = 2 * h + t
  <2>1. q \div 2 \in Nat /\ q % 2 \in 0 .. 1 /\ q = 2 * (q \div 2) + (q % 2)  OBVIOUS
  <2> QED  BY <2>1
<1>3. v \div p = q  BY <1>5, Euclid
<1>4. v \div (2 * p) = h
  <2>1. p * t \in Nat /\ p * t <= p  BY <1>2
  <2>2. p * t + r \in 0 .. (2 * p) - 1  BY <2>1, <1>5
  <2>3. p * q = (2 * p) * h + p * t  BY <1>2
  <2>4. v = (2 * p) * h + (p * t + r)  BY <1>5, <2>1, <2>3
  <2>5. 2 * p \in Nat /\ 2 * p > 0  OBVIOUS
  <2> QED  BY <2>2, <2>4, <2>5, Euclid, Zenon
<1> QED  BY <1>2, <1>3, <1>4

\* The bytes on the wire.
LEMMA WireType ==
  ASSUME NEW m \in Messages
  PROVE  /\ m \in Seq(Byte) /\ Len(m) \in Byte /\ Len(m) \in Nat /\ LOAD_BASE + Len(m) <= RAM_END
         /\ WireBytes(m)[1] = Len(m)
         /\ \A k \in 1 .. Len(m) : WireBytes(m)[k + 1] = m[k]
         /\ \A k \in 0 .. Len(m) : WireBytes(m)[k + 1] \in Byte
         /\ WireLength(m) = ByteBits * (1 + Len(m)) /\ WireLength(m) \in Nat
<1>1. m \in Seq(Byte) /\ Len(m) \in Byte /\ Len(m) \in Nat /\ LOAD_BASE + Len(m) <= RAM_END
  BY HostAssumption
<1>2. /\ WireBytes(m)[1] = Len(m)
      /\ \A k \in 1 .. Len(m) : WireBytes(m)[k + 1] = m[k]
  BY <1>1 DEF WireBytes
<1>3. ASSUME NEW k \in 0 .. Len(m)  PROVE  WireBytes(m)[k + 1] \in Byte
  <2>1. CASE k = 0
    BY <2>1, <1>1, <1>2
  <2>2. CASE k # 0
    <3>1. k \in 1 .. Len(m)  BY <2>2, <1>1
    <3>2. m[k] \in Byte  BY <3>1, <1>1
    <3> QED  BY <3>1, <3>2, <1>2
  <2> QED  BY <2>1, <2>2
<1>4. WireLength(m) = ByteBits * (1 + Len(m)) /\ WireLength(m) \in Nat
  BY <1>1, Parameters DEF WireLength
<1> QED  BY <1>1, <1>2, <1>3, <1>4

\* Bit b of byte k, both counted from 0.
LEMMA WireBitAt ==
  ASSUME NEW m \in Messages, NEW k \in 0 .. Len(m), NEW b \in 0 .. ByteBits - 1
  PROVE  WireBit(m, ByteBits * k + b + 1)
           = (WireBytes(m)[k + 1] \div Power[ByteBits - 1 - b]) % 2
<1>1. k \in Nat /\ b \in Nat /\ ByteBits * k \in Nat  BY WireType, Parameters
<1>2. (ByteBits * k + b) \div ByteBits = k /\ (ByteBits * k + b) % ByteBits = b
  BY <1>1, Euclid, Parameters
<1>3. (ByteBits * k + b + 1) - 1 = ByteBits * k + b /\ 1 + k = k + 1  BY <1>1
<1> QED  BY <1>2, <1>3, Zenon DEF WireBit

\* A position on the wire is a bit of a byte.
LEMMA PositionOf ==
  ASSUME NEW m \in Messages, NEW n \in 1 .. WireLength(m)
  PROVE  \E k \in 0 .. Len(m), b \in 0 .. ByteBits - 1 : n = ByteBits * k + b + 1
<1>1. PICK k \in Nat, b \in 0 .. ByteBits - 1 : n - 1 = ByteBits * k + b
  <2>1. n - 1 \in Nat  BY WireType
  <2>2. \E k \in Nat : \E b \in 0 .. ByteBits - 1 : n - 1 = ByteBits * k + b
    <3>1. ByteBits \in Nat /\ ByteBits > 0  BY Parameters
    <3> QED  BY <2>1, <3>1, EuclidOf, Zenon
  <2> QED  BY <2>2
<1>2. k <= Len(m)
  <2> SUFFICES ASSUME ~(k <= Len(m))  PROVE FALSE
    OBVIOUS
  <2>1. Len(m) \in Nat /\ WireLength(m) = ByteBits * (1 + Len(m))  BY WireType
  <2>2. PICK e \in Nat : k = 1 + Len(m) + e
    <3>1. k - (1 + Len(m)) \in Nat /\ k = 1 + Len(m) + (k - (1 + Len(m)))  BY <2>1
    <3> QED  BY <3>1
  <2>3. ByteBits * k = ByteBits * (1 + Len(m)) + ByteBits * e /\ ByteBits * e >= 0
    BY <2>1, <2>2, Parameters
  <2>4. ByteBits * e \in Nat /\ ByteBits * (1 + Len(m)) \in Nat  BY <2>1, <2>2, Parameters
  <2> QED  BY <1>1, <2>1, <2>3, <2>4, Parameters
<1>3. n = ByteBits * k + b + 1
  <2>1. ByteBits * k \in Nat  BY Parameters
  <2> QED  BY <1>1, <2>1, Parameters
<1> QED  BY <1>1, <1>2, <1>3, WireType

LEMMA WireBitIsBit ==
  ASSUME NEW m \in Messages, NEW n \in 1 .. WireLength(m)
  PROVE  WireBit(m, n) \in 0 .. 1
<1>1. PICK k \in 0 .. Len(m), b \in 0 .. ByteBits - 1 : n = ByteBits * k + b + 1
  BY PositionOf
<1>2. WireBit(m, n) = (WireBytes(m)[k + 1] \div Power[ByteBits - 1 - b]) % 2
  BY <1>1, WireBitAt
<1>3. WireBytes(m)[k + 1] \in Nat
  BY WireType, Parameters, Powers DEF Byte
<1>4. Power[ByteBits - 1 - b] \in Nat /\ Power[ByteBits - 1 - b] >= 1
  BY Powers, Parameters
<1>5. \A v, p \in Nat : p >= 1 => (v \div p) % 2 \in 0 .. 1
  OBVIOUS
<1> QED  BY <1>2, <1>3, <1>4, <1>5

\* What is known of a byte: nothing, one more bit, all of it.
LEMMA TopOf ==
  ASSUME NEW m \in Messages, NEW k \in 0 .. Len(m)
  PROVE  /\ WireBytes(m)[k + 1] \div Power[ByteBits - 0] = 0
         /\ WireBytes(m)[k + 1] \div Power[ByteBits - ByteBits] = WireBytes(m)[k + 1]
         /\ \A b \in 0 .. ByteBits : WireBytes(m)[k + 1] \div Power[ByteBits - b] \in Byte
         /\ \A b \in 0 .. ByteBits - 1 :
              2 * (WireBytes(m)[k + 1] \div Power[ByteBits - b]) + WireBit(m, ByteBits * k + b + 1)
                = WireBytes(m)[k + 1] \div Power[ByteBits - (b + 1)]
<1>1. PICK v : v = WireBytes(m)[k + 1]  OBVIOUS
<1>2. v \in Nat /\ v < Power[ByteBits] /\ Power[ByteBits] \in Nat
  BY <1>1, WireType, Powers, Parameters DEF Byte
<1>3. v \div Power[ByteBits - 0] = 0
  <2>1. \A x, p \in Nat : x < p => x \div p = 0
    <3> SUFFICES ASSUME NEW x \in Nat, NEW p \in Nat, x < p  PROVE  x \div p = 0
      OBVIOUS
    <3>1. p > 0 /\ x \in 0 .. p - 1 /\ p * 0 + x = x  OBVIOUS
    <3> QED  BY <3>1, Euclid, Zenon
  <2>2. ByteBits - 0 = ByteBits  BY Parameters
  <2> QED  BY <1>2, <2>1, <2>2
<1>4. v \div Power[ByteBits - ByteBits] = v
  <2>1. ByteBits - ByteBits = 0  BY Parameters
  <2> QED  BY <1>2, <2>1, Powers
<1>5. ASSUME NEW b \in 0 .. ByteBits  PROVE  v \div Power[ByteBits - b] \in Byte
  <2>1. ByteBits - b \in 0 .. ByteBits  BY Parameters
  <2>2. Power[ByteBits - b] \in Nat /\ Power[ByteBits - b] >= 1  BY <2>1, Powers
  <2>3. \A x, p \in Nat : p >= 1 => x \div p \in Nat /\ x \div p <= x
    <3> SUFFICES ASSUME NEW x \in Nat, NEW p \in Nat, p >= 1
                 PROVE  x \div p \in Nat /\ x \div p <= x
      OBVIOUS
    <3>1. p > 0  OBVIOUS
    <3>2. PICK q \in Nat : \E r \in 0 .. p - 1 : x = p * q + r
      BY <3>1, EuclidOf, Zenon
    <3>3. PICK r \in 0 .. p - 1 : x = p * q + r  BY <3>2
    <3>4. x \div p = q  BY <3>3, <3>1, Euclid
    <3>5. p * q >= q  BY <3>1
    <3>6. p * q \in Nat  OBVIOUS
    <3> QED  BY <3>3, <3>4, <3>5, <3>6
  <2>4. v \div Power[ByteBits - b] \in Nat /\ v \div Power[ByteBits - b] <= v
    BY <1>2, <2>2, <2>3
  <2> QED  BY <1>2, <2>4 DEF Byte
<1>6. ASSUME NEW b \in 0 .. ByteBits - 1
      PROVE  2 * (v \div Power[ByteBits - b]) + WireBit(m, ByteBits * k + b + 1)
               = v \div Power[ByteBits - (b + 1)]
  <2>1. PICK p \in Nat : p = Power[ByteBits - 1 - b] /\ p >= 1
    <3>1. ByteBits - 1 - b \in 0 .. ByteBits  BY Parameters
    <3> QED  BY <3>1, Powers
  <2>2. Power[ByteBits - b] = 2 * p
    <3>1. ByteBits - 1 - b \in 0 .. ByteBits - 1 /\ (ByteBits - 1 - b) + 1 = ByteBits - b
      BY Parameters
    <3> QED  BY <3>1, <2>1, Powers
  <2>3. ByteBits - (b + 1) = ByteBits - 1 - b  BY Parameters
  <2>4. WireBit(m, ByteBits * k + b + 1) = (v \div p) % 2
    BY <2>1, <1>1, WireBitAt
  <2>5. v \div p = 2 * (v \div (2 * p)) + ((v \div p) % 2)
    BY <2>1, <1>2, OneMoreBit
  <2> QED  BY <2>1, <2>2, <2>3, <2>4, <2>5
<1> QED  BY <1>1, <1>3, <1>4, <1>5, <1>6

--------------------------------------------------------------------------------
(* The invariant                                                           *)

Receiving == label \in {"BIT_WAIT_HIGH", "BIT_WAIT_LOW"}
Started   == label \in {"RUN", "LOADED"}

\* Bytes received whole, the length byte included, and what is known of the next
\* after b of its bits.
Whole  == IF ra = "length" THEN 0 ELSE x5 - LOAD_BASE + 1
Top(b) == WireBytes(msg)[Whole + 1] \div Power[ByteBits - b]

\* The first n bytes of the program are in the load window.
Stored(n) == \A k \in 1 .. n : ram[LOAD_BASE + k - 1] = msg[k]

\* The pins say where the host is.
HostInv ==
  /\ start = (IF host = "idle" THEN 0 ELSE 1)
  /\ clock = (IF host = "high" THEN 1 ELSE 0)
  /\ host \in {"idle", "start"} => raised = 0
  /\ host \in {"high", "low"} => raised >= 1
  /\ host = "setup" => raised < WireLength(msg) /\ data = WireBit(msg, raised + 1)
  /\ host = "high" => data = WireBit(msg, raised)

\* How far the chip is: polling, receiving, or done.
ChipInv ==
  /\ got \in Seq(0 .. 1) /\ \A n \in DOMAIN got : got[n] = WireBit(msg, n)
  /\ label = "SELFTEST" => host = "idle" /\ x9 = 0
  /\ label = "MAIN_LOOP" => x9 < Timeout
  /\ label = "TIMED_OUT" => x9 = Timeout
  /\ label \in {"SELFTEST", "MAIN_LOOP", "TIMED_OUT"} => got = << >> /\ ~flash_mode
  /\ flash_mode => Started /\ got = << >> /\ x9 = Timeout
  /\ Started /\ ~flash_mode =>
       /\ raised = WireLength(msg) /\ Len(got) = raised
       /\ Stored(Len(msg))

\* How far it is in the message: which byte, which bit, what of it.
Placed ==
  Receiving =>
    /\ host # "idle"
    /\ ra = "byte" => /\ x5 >= LOAD_BASE /\ Whole \in 1 .. Len(msg)
                      /\ x4 = Len(msg) + 1 - Whole
                      /\ Stored(Whole - 1)
    /\ label = "BIT_WAIT_HIGH" => Len(got) = ByteBits * Whole + x7 /\ x6 = Top(x7)
    /\ label = "BIT_WAIT_LOW"  => Len(got) = ByteBits * Whole + x7 + 1 /\ x6 = Top(x7 + 1)

\* Ticks since the host last lowered CLOCK, at most; the time it may take longer does
\* not count.
HeldUpTo == IF held < Hold THEN held ELSE Hold
Lead     == IF host = "low" THEN 0 ELSE IF host = "setup" THEN Hold ELSE Hold + Hold
Elapsed  == IF host \in {"idle", "start"} THEN Hold ELSE Lead + HeldUpTo

\* The chip reads the pins before they change.
OnTime ==
  /\ label = "MAIN_LOOP" => busy <= 8
  /\ label = "MAIN_LOOP" /\ host # "idle" =>
       host \in {"start", "setup"} /\ raised = 0 /\ busy + Elapsed <= Hold + 8
  /\ label = "BIT_WAIT_HIGH" =>
       /\ Len(got) = IF host = "high" THEN raised - 1 ELSE raised
       /\ busy + Elapsed <= Period
  /\ label = "BIT_WAIT_LOW" =>
       /\ Len(got) = raised /\ host \in {"high", "low"}
       /\ host = "high" => busy <= 6
       /\ host = "low"  => busy + held <= 7

IInv == TypeOK /\ HostInv /\ ChipInv /\ Placed /\ OnTime

--------------------------------------------------------------------------------
(* The host                                                                *)

HostType ==
  /\ data \in 0 .. 1 /\ clock \in 0 .. 1 /\ start \in 0 .. 1
  /\ host \in {"idle", "start", "setup", "high", "low"} /\ held \in 0 .. MaxHold
  /\ msg \in Messages /\ raised \in 0 .. WireLength(msg)

ChipType ==
  /\ label \in {"SELFTEST", "MAIN_LOOP", "TIMED_OUT", "BIT_WAIT_HIGH", "BIT_WAIT_LOW",
                "RUN", "LOADED"}
  /\ busy \in Nat /\ ra \in {"length", "byte"}
  /\ x4 \in Byte /\ x5 \in Nat /\ x6 \in Byte /\ x7 \in 0 .. ByteBits - 1
  /\ x9 \in 0 .. Timeout
  /\ ram \in [Ram -> Byte] /\ flash_mode \in BOOLEAN

LEMMA Types == TypeOK <=> HostType /\ ChipType
  BY DEF TypeOK, HostType, ChipType

\* What the host does is seen on the pins, whatever the chip does.
LEMMA HostStep ==
  ASSUME HostType, HostInv, HostTick
  PROVE  HostType' /\ HostInv' /\ msg' = msg
<1>1. /\ Hold \in Nat /\ MaxHold \in Nat /\ MaxHold >= 8 /\ msg \in Messages
      /\ WireLength(msg) \in Nat /\ WireLength(msg) >= 1
  <2>1. Len(msg) \in Nat /\ WireLength(msg) = ByteBits * (1 + Len(msg)) /\ WireLength(msg) \in Nat
    BY WireType DEF HostType
  <2>2. ByteBits * (1 + Len(msg)) >= 1  BY <2>1, Parameters
  <2> QED  BY <2>1, <2>2, Parameters DEF HostType
<1>2. CASE Wait
  BY <1>1, <1>2 DEF Wait, HostType, HostInv, pins
<1>3. CASE AssertStart
  BY <1>1, <1>3 DEF AssertStart, HostType, HostInv
<1>4. CASE PutData
  <2>1. raised < WireLength(msg) /\ raised \in Nat
    BY <1>1, <1>4 DEF PutData, HostType, HostInv
  <2>2. WireBit(msg, raised + 1) \in 0 .. 1
    BY <2>1, <1>1, WireBitIsBit
  <2> QED  BY <1>1, <1>4, <2>1, <2>2 DEF PutData, HostType, HostInv
<1>5. CASE RaiseClock
  BY <1>1, <1>5 DEF RaiseClock, HostType, HostInv
<1>6. CASE LowerClock
  BY <1>1, <1>6 DEF LowerClock, HostType, HostInv
<1> QED  BY <1>2, <1>3, <1>4, <1>5, <1>6 DEF HostTick, Send

\* Time does not run faster for the host than for the chip.
LEMMA HostMoves ==
  ASSUME HostType, HostInv, HostTick
  PROVE  /\ Elapsed \in Nat /\ Elapsed' \in Nat /\ held \in Nat /\ held' \in Nat
         /\ raised \in Nat
         /\ host # "idle" => Elapsed' <= Elapsed + 1
         /\ host \in {"idle", "start"} => Elapsed = Hold
         /\ host = "low" => Elapsed <= Hold /\ Elapsed <= held
         /\ host \in {"low", "setup", "start"} => Elapsed <= Hold + Hold
         /\ \/ host' = host /\ raised' = raised /\ held' <= held + 1
            \/ /\ host = "idle" /\ host' = "start" /\ raised' = raised
               /\ label # "SELFTEST" /\ Elapsed' = Hold
            \/ host = "start" /\ host' = "setup" /\ raised' = raised
            \/ /\ host = "setup" /\ host' = "high" /\ raised' = raised + 1
               /\ Elapsed = Hold + Hold
            \/ /\ host = "high" /\ host' = "low" /\ raised' = raised /\ held' = 1
               /\ Elapsed = Hold + Hold + Hold
            \/ host = "low" /\ host' = "setup" /\ raised' = raised /\ held >= Hold
<1>1. Hold \in Nat /\ Hold >= 8 /\ MaxHold \in Nat /\ MaxHold >= Hold /\ held \in Nat
  BY Parameters DEF HostType
<1>2. /\ HostType' /\ held' \in Nat /\ raised \in Nat
      /\ host \in {"idle", "start", "setup", "high", "low"}
  <2>1. HostType'  BY HostStep
  <2> QED  BY <2>1, <1>1, WireType DEF HostType
<1>3. CASE Wait
  BY <1>1, <1>2, <1>3 DEF Wait, Elapsed, Lead, HeldUpTo
<1>4. CASE AssertStart
  BY <1>1, <1>2, <1>4 DEF AssertStart, Elapsed, Lead, HeldUpTo
<1>5. CASE PutData
  BY <1>1, <1>2, <1>5 DEF PutData, Elapsed, Lead, HeldUpTo
<1>6. CASE RaiseClock
  BY <1>1, <1>2, <1>6 DEF RaiseClock, Elapsed, Lead, HeldUpTo
<1>7. CASE LowerClock
  BY <1>1, <1>2, <1>7 DEF LowerClock, Elapsed, Lead, HeldUpTo
<1> QED  BY <1>3, <1>4, <1>5, <1>6, <1>7 DEF HostTick, Send

--------------------------------------------------------------------------------
(* The chip, one lemma per action                                          *)

\* What a step of the chip has to keep, given that the host takes one too.
Kept == ChipType' /\ ChipInv' /\ Placed' /\ OnTime'

\* The pins the chip reads.
LEMMA PinsSeen ==
  ASSUME IInv
  PROVE  /\ HostType /\ HostInv /\ ChipType /\ busy \in Nat /\ msg \in Messages
         /\ clock = 1 <=> host = "high"
         /\ clock = 0 <=> host # "high"
         /\ start = 1 <=> host # "idle"
         /\ start = 0 <=> host = "idle"
         /\ Len(got) \in Nat
BY Types DEF IInv, HostInv, HostType, ChipType, ChipInv

\* A chip that receives has seen START.
LEMMA WaitingStarted ==
  ASSUME IInv, Receiving  PROVE  host # "idle"
BY DEF IInv, Placed

\* The message does not change, nor what is known of its bytes when the chip does not.
LEMMA SameMessage ==
  ASSUME msg' = msg
  PROVE  /\ WireLength(msg)' = WireLength(msg)
         /\ \A n : WireBit(msg, n)' = WireBit(msg, n)
         /\ UNCHANGED <<ra, x5>> => Whole' = Whole /\ \A b : Top(b)' = Top(b)
         /\ UNCHANGED ram => \A n : Stored(n)' = Stored(n)
BY DEF WireLength, WireBit, WireBytes, Whole, Top, Stored

LEMMA WorkingStep ==
  ASSUME IInv, HostTick, Working
  PROVE  Kept
<1>1. /\ HostType /\ HostInv /\ ChipType /\ busy \in Nat /\ Hold \in Nat /\ Hold >= 8
      /\ Period \in Nat /\ Period = Hold + Hold + Hold
      /\ HostType' /\ HostInv' /\ msg' = msg
  BY PinsSeen, HostStep, Parameters
<1>2. /\ UNCHANGED <<label, ra, x4, x5, x6, x7, x9, ram, flash_mode, got>>
      /\ busy > 0 /\ busy' = busy - 1
  BY DEF Working
<1>3. ChipType'
  BY <1>1, <1>2 DEF ChipType
<1>4. OnTime'
  <2>1. OnTime /\ Len(got) \in Nat  BY PinsSeen DEF IInv
  <2>2. CASE label = "MAIN_LOOP"
    <3>1. CASE host = "idle"
      BY <1>1, <1>2, <2>1, <2>2, <3>1, HostMoves DEF OnTime, HostInv
    <3>2. CASE host # "idle"
      BY <1>1, <1>2, <2>1, <2>2, <3>2, HostMoves DEF OnTime
    <3> QED  BY <3>1, <3>2
  <2>3. CASE label = "BIT_WAIT_HIGH"
    <3>1. host # "idle"  BY <2>3, WaitingStarted DEF Receiving
    <3>2. /\ Elapsed \in Nat /\ Elapsed' \in Nat /\ Elapsed' <= Elapsed + 1
          /\ Elapsed = Period => busy = 0
          /\ busy + Elapsed <= Period
      BY <1>1, <2>1, <2>3, <3>1, HostMoves DEF OnTime
    <3>3. busy' + Elapsed' <= Period
      <4>1. Period \in Nat /\ busy \in Nat /\ busy' = busy - 1  BY <1>1, <1>2
      <4>2. \A b, e, f, p \in Nat : b + e <= p /\ f <= e + 1 => (b - 1) + f <= p  OBVIOUS
      <4> QED  BY <3>2, <4>1, <4>2, Zenon
    <3>4. Len(got) = IF host' = "high" THEN raised' - 1 ELSE raised'
      <4>1. Len(got) = IF host = "high" THEN raised - 1 ELSE raised
        BY <2>1, <2>3 DEF OnTime
      <4>2. ~(host = "high" /\ host' = "low")
        BY <1>1, <1>2, <3>2, HostMoves
      <4> QED  BY <1>1, <3>1, <4>1, <4>2, HostMoves
    <3> QED  BY <1>2, <2>3, <3>3, <3>4 DEF OnTime
  <2>4. CASE label = "BIT_WAIT_LOW"
    BY <1>1, <1>2, <2>1, <2>4, HostMoves DEF OnTime
  <2> QED  BY <1>2, <2>2, <2>3, <2>4 DEF OnTime
<1>5. ChipInv'
  <2>1. Started /\ ~flash_mode => raised' = raised
    BY <1>1, HostMoves DEF IInv, ChipInv, HostInv
  <2>2. label = "SELFTEST" => host' = "idle"
    BY <1>1, HostMoves DEF IInv, ChipInv
  <2> QED  BY <1>1, <1>2, <2>1, <2>2, SameMessage DEF IInv, ChipInv, Started
<1>6. Placed'
  <2>1. host # "idle" => host' # "idle"
    BY <1>1, HostMoves
  <2> QED  BY <1>1, <1>2, <2>1, SameMessage DEF IInv, Placed, Receiving
<1> QED  BY <1>3, <1>4, <1>5, <1>6 DEF Kept

\* What every step of both starts from.
LEMMA Both ==
  ASSUME IInv, HostTick
  PROVE  /\ HostType /\ HostInv /\ ChipType /\ busy \in Nat /\ msg \in Messages
         /\ Hold \in Nat /\ Hold >= 8 /\ Period \in Nat /\ Period = Hold + Hold + Hold
         /\ HostType' /\ HostInv' /\ msg' = msg
         /\ Len(msg) \in Nat /\ Len(got) \in Nat /\ got \in Seq(0 .. 1)
         /\ ByteBits \in Nat /\ ByteBits >= 1 /\ Timeout \in Nat /\ Timeout >= 1
         /\ raised \in Nat /\ 0 \in Byte
         /\ host # "idle" => host' # "idle"
<1>1. /\ HostType /\ HostInv /\ ChipType /\ busy \in Nat /\ Hold \in Nat /\ Hold >= 8
      /\ Period \in Nat /\ Period = Hold + Hold + Hold
      /\ HostType' /\ HostInv' /\ msg' = msg /\ msg \in Messages
      /\ ByteBits \in Nat /\ ByteBits >= 1 /\ Timeout \in Nat /\ Timeout >= 1
  BY PinsSeen, HostStep, Parameters
<1>2. Len(msg) \in Nat  BY <1>1, WireType
<1>3. 0 \in Byte
  <2>1. Power[ByteBits] \in Nat /\ Power[ByteBits] >= 1  BY <1>1, Powers
  <2> QED  BY <2>1 DEF Byte
<1>4. raised \in Nat /\ (host # "idle" => host' # "idle")  BY <1>1, HostMoves
<1>5. got \in Seq(0 .. 1) /\ Len(got) \in Nat  BY DEF IInv, ChipInv
<1> QED  BY <1>1, <1>2, <1>3, <1>4, <1>5

LEMMA SelfTestStep ==
  ASSUME IInv, HostTick, SelfTest
  PROVE  Kept
<1>1. /\ label = "SELFTEST" /\ busy = 0
      /\ UNCHANGED <<ra, x4, x5, x6, x7, ram, flash_mode, got>>
      /\ \/ UNCHANGED <<label, busy, x9>>
         \/ label' = "MAIN_LOOP" /\ busy' = 0 /\ x9' = 0
  BY DEF SelfTest, GoTo
<1>2. host = "idle" /\ host' = "idle" /\ x9 = 0 /\ got = << >> /\ ~flash_mode
  <2>1. host = "idle" /\ x9 = 0 /\ got = << >> /\ ~flash_mode
    BY <1>1 DEF IInv, ChipInv
  <2> QED  BY <2>1, <1>1, Both, HostMoves
<1>3. ChipType'  BY <1>1, Both DEF ChipType
<1>4. ChipInv'
  BY <1>1, <1>2, Both DEF IInv, ChipInv, Started
<1>5. Placed'  BY <1>1 DEF Placed, Receiving
<1>6. OnTime'  BY <1>1, <1>2 DEF OnTime
<1> QED  BY <1>3, <1>4, <1>5, <1>6 DEF Kept

LEMMA StartSeenStep ==
  ASSUME IInv, HostTick, StartSeen
  PROVE  Kept
<1>1. /\ label = "MAIN_LOOP" /\ busy = 0 /\ start = 1
      /\ label' = "BIT_WAIT_HIGH" /\ busy' = 5
      /\ ra' = "length" /\ x6' = 0 /\ x7' = 0
      /\ UNCHANGED <<x4, x5, x9, ram, flash_mode, got>>
  BY DEF StartSeen, GoTo, EnterRecvByte
<1>2. host # "idle" /\ got = << >> /\ ~flash_mode
  BY <1>1, PinsSeen DEF IInv, ChipInv
<1>3. /\ host \in {"start", "setup"} /\ raised = 0 /\ Elapsed <= Hold + 8
      /\ Elapsed \in Nat /\ Elapsed' \in Nat
  BY <1>1, <1>2, Both, HostMoves DEF IInv, OnTime
<1>4. ChipType'  BY <1>1, Both DEF ChipType
<1>5. ChipInv'
  BY <1>1, <1>2, Both DEF IInv, ChipInv, Started
<1>6. Placed'
  <2>1. Whole' = 0  BY <1>1 DEF Whole
  <2>2. Top(0)' = 0
    <3>1. Top(0)' = WireBytes(msg)[0 + 1] \div Power[ByteBits - 0]
      BY <2>1, Both DEF Top, WireBytes
    <3>2. 0 \in 0 .. Len(msg)  BY Both
    <3> QED  BY <3>1, <3>2, Both, TopOf
  <2>3. Len(got') = ByteBits * 0 + 0  BY <1>1, <1>2, Both
  <2> QED  BY <1>1, <1>2, <2>1, <2>2, <2>3, Both DEF Placed
<1>7. OnTime'
  <2>1. Elapsed' <= Hold + 9  BY <1>2, <1>3, Both, HostMoves
  <2>2. Len(got') = IF host' = "high" THEN raised' - 1 ELSE raised'
    BY <1>1, <1>2, <1>3, Both, HostMoves
  <2> QED  BY <1>1, <1>3, <2>1, <2>2, Both DEF OnTime
<1> QED  BY <1>4, <1>5, <1>6, <1>7 DEF Kept

LEMMA NoStartStep ==
  ASSUME IInv, HostTick, NoStart
  PROVE  Kept
<1>1. /\ label = "MAIN_LOOP" /\ busy = 0 /\ start = 0
      /\ x9' = x9 + 1 /\ busy' = 8
      /\ label' = IF x9 + 1 >= Timeout THEN "TIMED_OUT" ELSE "MAIN_LOOP"
      /\ UNCHANGED <<ra, x4, x5, x6, x7, ram, flash_mode, got>>
  BY DEF NoStart, GoTo, GivesUp
<1>2. /\ host = "idle" /\ got = << >> /\ ~flash_mode /\ x9 < Timeout /\ x9 \in Nat
      /\ raised = 0
  BY <1>1, PinsSeen, Both DEF IInv, ChipInv, ChipType, HostInv
<1>3. ChipType'  BY <1>1, <1>2, Both DEF ChipType
<1>4. ChipInv'
  BY <1>1, <1>2, Both DEF IInv, ChipInv, Started
<1>5. Placed'  BY <1>1 DEF Placed, Receiving
<1>6. OnTime'
  <2>1. \/ host' = "idle"
        \/ host' = "start" /\ raised' = 0 /\ Elapsed' = Hold
    BY <1>2, Both, HostMoves
  <2> QED  BY <1>1, <2>1, Both DEF OnTime
<1> QED  BY <1>3, <1>4, <1>5, <1>6 DEF Kept

LEMMA FallbackStep ==
  ASSUME IInv, HostTick, Fallback
  PROVE  Kept
<1>1. /\ label = "TIMED_OUT" /\ flash_mode' = TRUE /\ label' = "RUN" /\ busy' = 1
      /\ UNCHANGED <<ra, x4, x5, x6, x7, x9, ram, got>>
  BY DEF Fallback, GoTo
<1>2. got = << >> /\ x9 = Timeout
  BY <1>1 DEF IInv, ChipInv
<1>3. ChipType'  BY <1>1, Both DEF ChipType
<1>4. ChipInv'  BY <1>1, <1>2, Both DEF IInv, ChipInv, Started
<1> QED  BY <1>1, <1>3, <1>4 DEF Kept, Placed, Receiving, OnTime

LEMMA RunStep ==
  ASSUME IInv, HostTick, Run
  PROVE  Kept
<1>1. /\ label = "RUN" /\ label' = "LOADED" /\ busy' = 0
      /\ UNCHANGED <<ra, x4, x5, x6, x7, x9, ram, flash_mode, got>>
  BY DEF Run, GoTo
<1>2. ChipType'  BY <1>1, Both DEF ChipType
<1>3. ChipInv'
  <2>1. ~flash_mode => raised' = raised
    BY <1>1, Both, HostMoves DEF IInv, ChipInv, Started, HostInv
  <2> QED  BY <1>1, <2>1, Both, SameMessage DEF IInv, ChipInv, Started
<1> QED  BY <1>1, <1>2, <1>3 DEF Kept, Placed, Receiving, OnTime

LEMMA GoneStep ==
  ASSUME IInv, HostTick, Gone
  PROVE  Kept
<1>1. /\ label = "LOADED" /\ UNCHANGED <<label, busy, ra, x4, x5, x6, x7, x9, ram, flash_mode, got>>
  BY DEF Gone, chipVars
<1>2. ChipType'  BY <1>1, Both DEF ChipType
<1>3. ChipInv'
  <2>1. ~flash_mode => raised' = raised
    BY <1>1, Both, HostMoves DEF IInv, ChipInv, Started, HostInv
  <2> QED  BY <1>1, <2>1, Both, SameMessage DEF IInv, ChipInv, Started
<1> QED  BY <1>1, <1>2, <1>3 DEF Kept, Placed, Receiving, OnTime

\* Where the chip is in the message.
LEMMA Position ==
  ASSUME IInv, Receiving
  PROVE  /\ host # "idle" /\ ~flash_mode
         /\ Whole \in 0 .. Len(msg) /\ x7 \in 0 .. ByteBits - 1
         /\ Len(msg) \in Nat /\ ByteBits * Whole \in Nat
         /\ ra = "length" => Whole = 0
         /\ ra = "byte"   => /\ x5 = LOAD_BASE + Whole - 1 /\ x5 \in Nat
                             /\ Whole >= 1 /\ x4 = Len(msg) + 1 - Whole
                             /\ Stored(Whole - 1)
<1>1. /\ msg \in Messages /\ ra \in {"length", "byte"} /\ x5 \in Nat
      /\ x7 \in 0 .. ByteBits - 1 /\ ByteBits \in Nat /\ LOAD_BASE \in Nat
  BY PinsSeen, Parameters, Map DEF ChipType
<1>2. Len(msg) \in Nat  BY <1>1, WireType
<1>3. host # "idle" /\ ~flash_mode
  BY DEF IInv, Placed, ChipInv, Receiving, Started
<1>4. ra = "length" => Whole = 0  BY DEF Whole
<1>5. ra = "byte" => /\ x5 = LOAD_BASE + Whole - 1
                     /\ Whole \in 1 .. Len(msg) /\ x4 = Len(msg) + 1 - Whole
                     /\ Stored(Whole - 1)
  <2>1. ra = "byte" => Whole = x5 - LOAD_BASE + 1  BY DEF Whole
  <2>2. ra = "byte" => x5 >= LOAD_BASE /\ Whole \in 1 .. Len(msg) /\ x4 = Len(msg) + 1 - Whole
                       /\ Stored(Whole - 1)
    BY DEF IInv, Placed
  <2> QED  BY <1>1, <2>1, <2>2
<1>6. Whole \in 0 .. Len(msg)  BY <1>1, <1>2, <1>4, <1>5
<1>7. ByteBits * Whole \in Nat  BY <1>1, <1>2, <1>6
<1> QED  BY <1>1, <1>2, <1>3, <1>4, <1>5, <1>6, <1>7

LEMMA BitWaitHighStep ==
  ASSUME IInv, HostTick, BitWaitHigh
  PROVE  Kept
<1>0. /\ label = "BIT_WAIT_HIGH" /\ busy = 0 /\ Receiving
      /\ UNCHANGED <<ra, x4, x5, x7, x9, ram, flash_mode>>
      /\ Whole' = Whole /\ \A b : Top(b)' = Top(b)
      /\ \A n : Stored(n)' = Stored(n)
  <2>1. /\ label = "BIT_WAIT_HIGH" /\ busy = 0
        /\ UNCHANGED <<ra, x4, x5, x7, x9, ram, flash_mode>>
    BY DEF BitWaitHigh
  <2>2. Receiving  BY <2>1 DEF Receiving
  <2> QED  BY <2>1, <2>2, Both, SameMessage
<1>1. /\ Len(got) = IF host = "high" THEN raised - 1 ELSE raised
      /\ Elapsed <= Period /\ Elapsed \in Nat /\ Elapsed' \in Nat
      /\ Len(got) = ByteBits * Whole + x7 /\ x6 = Top(x7)
  BY <1>0, Both, HostMoves DEF IInv, OnTime, Placed
<1>2. CASE clock = 0
  <2>1. label' = "BIT_WAIT_HIGH" /\ busy' = 2 /\ UNCHANGED <<x6, got>>
    BY <1>2 DEF BitWaitHigh, GoTo
  <2>2. host # "high"  BY <1>2, PinsSeen
  <2>3. ChipType'  BY <1>0, <2>1, Both DEF ChipType
  <2>4. ChipInv'
    BY <1>0, <2>1, Position, Both, SameMessage DEF IInv, ChipInv, Started
  <2>5. Placed'
    BY <1>0, <1>1, <2>1, Position, Both DEF IInv, Placed
  <2>6. OnTime'
    <3>1. Elapsed' <= Hold + Hold + 1
      <4>1. host \in {"low", "setup", "start"}
        <5>1. host # "idle"  BY <1>0, Position
        <5> QED  BY <5>1, <2>2, Both DEF HostType
      <4>2. /\ Elapsed \in Nat /\ Elapsed' \in Nat /\ Elapsed' <= Elapsed + 1
            /\ Elapsed <= Hold + Hold
        BY <4>1, Both, HostMoves
      <4> QED  BY <4>2, Parameters
    <3>2. Len(got') = IF host' = "high" THEN raised' - 1 ELSE raised'
      <4>1. Len(got') = raised /\ raised \in Nat  BY <1>1, <2>1, <2>2, Both
      <4>2. host # "idle"  BY <1>0, Position
      <4> QED  BY <4>1, <4>2, <2>2, Both, HostMoves
    <3> QED  BY <1>1, <2>1, <3>1, <3>2, Both DEF OnTime
  <2> QED  BY <2>3, <2>4, <2>5, <2>6 DEF Kept
<1>3. CASE clock # 0
  <2>1. /\ label' = "BIT_WAIT_LOW" /\ busy' = 5 + data
        /\ x6' = 2 * x6 + data /\ got' = Append(got, data)
    BY <1>3, Both DEF BitWaitHigh, GoTo, HostType
  <2>2. host = "high" /\ data = WireBit(msg, raised) /\ data \in 0 .. 1
    BY <1>3, PinsSeen, Both DEF HostType, HostInv
  <2>3. raised = ByteBits * Whole + x7 + 1 /\ raised = Len(got) + 1
    <3>1. Len(got) = raised - 1 /\ Len(got) = ByteBits * Whole + x7  BY <1>1, <2>2
    <3>2. ByteBits * Whole \in Nat /\ x7 \in Nat /\ raised \in Nat  BY <1>0, Position, Both
    <3> QED  BY <3>1, <3>2
  <2>4. x6' = Top(x7 + 1) /\ x6' \in Byte
    <3>1. /\ Top(x7) = WireBytes(msg)[Whole + 1] \div Power[ByteBits - x7]
          /\ Top(x7 + 1) = WireBytes(msg)[Whole + 1] \div Power[ByteBits - (x7 + 1)]
      BY DEF Top
    <3>2. Whole \in 0 .. Len(msg) /\ x7 \in 0 .. ByteBits - 1 /\ msg \in Messages
      BY <1>0, Position, Both
    <3>3. 2 * (WireBytes(msg)[Whole + 1] \div Power[ByteBits - x7])
              + WireBit(msg, ByteBits * Whole + x7 + 1)
            = WireBytes(msg)[Whole + 1] \div Power[ByteBits - (x7 + 1)]
      BY <3>2, TopOf
    <3>4. x7 + 1 \in 0 .. ByteBits  BY <3>2, Both
    <3>5. WireBytes(msg)[Whole + 1] \div Power[ByteBits - (x7 + 1)] \in Byte
      BY <3>2, <3>4, TopOf
    <3> QED  BY <1>1, <2>1, <2>2, <2>3, <3>1, <3>3, <3>5
  <2>5. /\ got' \in Seq(0 .. 1) /\ Len(got') = Len(got) + 1
        /\ \A n \in DOMAIN got' : got'[n] = WireBit(msg, n)
    <3>1. got \in Seq(0 .. 1) /\ \A n \in DOMAIN got : got[n] = WireBit(msg, n)
      BY DEF IInv, ChipInv
    <3>2. /\ got' \in Seq(0 .. 1) /\ Len(got') = Len(got) + 1
          /\ \A n \in 1 .. Len(got) : got'[n] = got[n]
          /\ got'[Len(got) + 1] = data
      BY <2>1, <2>2, <3>1
    <3>3. got'[raised] = WireBit(msg, raised)  BY <2>2, <2>3, <3>2
    <3>4. ASSUME NEW n \in DOMAIN got'  PROVE  got'[n] = WireBit(msg, n)
      <4>1. n \in 1 .. Len(got) + 1 /\ Len(got) \in Nat  BY <3>2, Both
      <4>2. CASE n = raised
        BY <4>2, <3>3
      <4>3. CASE n # raised
        <5>1. n \in 1 .. Len(got)  BY <4>1, <4>3, <2>3
        <5>2. n \in DOMAIN got  BY <5>1, <3>1
        <5> QED  BY <5>1, <5>2, <3>1, <3>2
      <4> QED  BY <4>2, <4>3
    <3> QED  BY <3>2, <3>4
  <2>6. ChipType'
    <3>1. busy' \in Nat /\ label' = "BIT_WAIT_LOW" /\ x6' \in Byte  BY <2>1, <2>2, <2>4
    <3>2. ChipType  BY Both
    <3> QED  BY <1>0, <3>1, <3>2 DEF ChipType
  <2>7. ChipInv'
    BY <1>0, <2>1, <2>5, Position, Both, SameMessage DEF IInv, ChipInv, Started
  <2>8. Placed'
    <3>1. Len(got') = ByteBits * Whole + x7 + 1  BY <1>1, <2>3, <2>5
    <3>2. (x6 = Top(x7 + 1))'
      BY <1>0, <2>4, Both DEF Top, Whole, WireBytes
    <3>3. (Len(got) = ByteBits * Whole + x7 + 1)'  BY <1>0, <3>1
    <3>4. ra = "byte" => /\ x5 >= LOAD_BASE /\ Whole \in 1 .. Len(msg)
                         /\ x4 = Len(msg) + 1 - Whole /\ Stored(Whole - 1)
      BY <1>0 DEF IInv, Placed
    <3>5. (Stored(Whole - 1))' <=> Stored(Whole - 1)
      BY <1>0, Both DEF Stored, Whole
    <3> QED  BY <1>0, <2>1, <3>2, <3>3, <3>4, <3>5, Position, Both DEF Placed
  <2>9. OnTime'
    <3>1. \/ host' = "high" /\ raised' = raised
          \/ host' = "low" /\ held' = 1 /\ raised' = raised
      BY <2>2, Both, HostMoves
    <3>2. Len(got') = raised' /\ busy' \in 0 .. 6
      <4>1. Len(got') = Len(got) + 1 /\ raised = Len(got) + 1 /\ raised' = raised
        BY <2>3, <2>5, <3>1
      <4> QED  BY <2>1, <2>2, <4>1
    <3> QED  BY <2>1, <3>1, <3>2 DEF OnTime
  <2> QED  BY <2>6, <2>7, <2>8, <2>9 DEF Kept
<1> QED  BY <1>2, <1>3

\* When the chip sees CLOCK low, the host has only just lowered it.
LEMMA LowSeen ==
  ASSUME IInv, HostTick, label = "BIT_WAIT_LOW", busy = 0, ~StillHigh
  PROVE  /\ Receiving /\ host = "low" /\ host' = "low" /\ raised' = raised
         /\ Elapsed' \in Nat /\ Elapsed' <= 8 /\ Len(got) = raised
         /\ Len(got) = ByteBits * Whole + x7 + 1 /\ x6 = Top(x7 + 1)
<1>1. Receiving  BY DEF Receiving
<1>2. host = "low" /\ held <= 7 /\ Len(got) = raised
  <2>1. host # "high" /\ held \in Nat  BY PinsSeen, Both, HostMoves DEF StillHigh
  <2> QED  BY <2>1 DEF IInv, OnTime
<1>3. Elapsed' \in Nat /\ Elapsed' <= 8 /\ raised' = raised /\ host' = "low"
  <2>1. /\ Elapsed \in Nat /\ Elapsed' \in Nat /\ held \in Nat /\ Elapsed <= held
        /\ Elapsed' <= Elapsed + 1
    BY <1>2, Both, HostMoves
  <2>2. raised' = raised /\ host' = "low"
    BY <1>2, <2>1, Both, HostMoves
  <2> QED  BY <1>2, <2>1, <2>2
<1>4. Len(got) = ByteBits * Whole + x7 + 1 /\ x6 = Top(x7 + 1)
  BY <1>1 DEF IInv, Placed
<1> QED  BY <1>1, <1>2, <1>3, <1>4

LEMMA BitWaitLowStep ==
  ASSUME IInv, HostTick, BitWaitLow
  PROVE  Kept
<1>0. /\ label = "BIT_WAIT_LOW" /\ busy = 0 /\ Receiving
      /\ UNCHANGED <<ra, x4, x5, x6, x9, ram, flash_mode, got>>
      /\ Whole' = Whole /\ \A b : Top(b)' = Top(b)
      /\ \A n : Stored(n)' = Stored(n)
  <2>1. /\ label = "BIT_WAIT_LOW" /\ busy = 0
        /\ UNCHANGED <<ra, x4, x5, x6, x9, ram, flash_mode, got>>
    BY DEF BitWaitLow
  <2>2. Receiving  BY <2>1 DEF Receiving
  <2> QED  BY <2>1, <2>2, Both, SameMessage
<1>1. label' \in {"BIT_WAIT_LOW", "BIT_WAIT_HIGH"} /\ x7' \in 0 .. ByteBits - 1 /\ busy' \in Nat
  <2>1. x7 \in 0 .. ByteBits - 1 /\ ByteBits \in Nat  BY <1>0, Position, Parameters
  <2>2. CASE StillHigh
    BY <2>1, <2>2 DEF BitWaitLow, GoTo
  <2>3. CASE ~StillHigh
    BY <2>1, <2>3 DEF BitWaitLow, GoTo
  <2> QED  BY <2>2, <2>3
<1>2. ChipType'
  <2>1. ChipType  BY Both
  <2> QED  BY <1>0, <1>1, <2>1 DEF ChipType
<1>3. ChipInv'
  BY <1>0, <1>1, Position, Both, SameMessage DEF IInv, ChipInv, Started
<1>4. ra = "byte" => /\ x5 >= LOAD_BASE /\ Whole \in 1 .. Len(msg)
                     /\ x4 = Len(msg) + 1 - Whole /\ Stored(Whole - 1)
  BY <1>0 DEF IInv, Placed
<1>5. (Stored(Whole - 1))' <=> Stored(Whole - 1)
  BY <1>0, Both DEF Stored, Whole
<1>6. CASE StillHigh
  <2>1. label' = "BIT_WAIT_LOW" /\ busy' = 2 /\ x7' = x7
    BY <1>6 DEF BitWaitLow, GoTo
  <2>2. host = "high" /\ Len(got) = raised
    BY <1>0, <1>6, PinsSeen DEF StillHigh, IInv, OnTime
  <2>3. Placed'
    <3>1. (x6 = Top(x7 + 1))'
      BY <1>0, <2>1, Both DEF IInv, Placed, Top, Whole, WireBytes
    <3>2. (Len(got) = ByteBits * Whole + x7 + 1)'  BY <1>0, <2>1 DEF IInv, Placed
    <3> QED  BY <1>0, <1>4, <1>5, <2>1, <3>1, <3>2, Position, Both DEF Placed
  <2>4. OnTime'
    <3>1. \/ host' = "high" /\ raised' = raised
          \/ host' = "low" /\ held' = 1 /\ raised' = raised
      BY <2>2, Both, HostMoves
    <3> QED  BY <1>0, <2>1, <2>2, <3>1, Both DEF OnTime
  <2> QED  BY <1>2, <1>3, <2>3, <2>4 DEF Kept
<1>7. CASE ~StillHigh
  <2>1. label' = "BIT_WAIT_HIGH" /\ busy' = 5 /\ x7' = x7 + 1
    BY <1>7 DEF BitWaitLow, GoTo
  <2>2. /\ host' = "low" /\ raised' = raised /\ Elapsed' \in Nat /\ Elapsed' <= 8
        /\ Len(got) = raised /\ Len(got) = ByteBits * Whole + x7 + 1 /\ x6 = Top(x7 + 1)
    BY <1>0, <1>7, LowSeen
  <2>3. Placed'
    <3>1. (x6 = Top(x7))'
      BY <1>0, <2>1, <2>2, Both DEF Top, Whole, WireBytes
    <3>2. (Len(got) = ByteBits * Whole + x7)'
      <4>1. ByteBits * Whole \in Nat /\ x7 \in Nat  BY <1>0, Position, Both
      <4>2. Len(got') = ByteBits * Whole' + x7'
        <5>1. Len(got') = ByteBits * Whole + x7 + 1 /\ Whole' = Whole  BY <1>0, <2>2
        <5>2. ByteBits * Whole + x7 + 1 = ByteBits * Whole + (x7 + 1)  BY <4>1
        <5> QED  BY <5>1, <5>2, <2>1
      <4> QED  BY <4>2
    <3> QED  BY <1>0, <1>4, <1>5, <2>1, <3>1, <3>2, Position, Both DEF Placed
  <2>4. OnTime'
    BY <1>0, <2>1, <2>2, Both DEF OnTime
  <2> QED  BY <1>2, <1>3, <2>3, <2>4 DEF Kept
<1> QED  BY <1>6, <1>7

\* A byte is complete with its last bit.
LEMMA ByteComplete ==
  ASSUME IInv, HostTick, ByteReceived
  PROVE  /\ label = "BIT_WAIT_LOW" /\ busy = 0 /\ Receiving /\ ~flash_mode
         /\ host = "low" /\ host' = "low" /\ raised' = raised
         /\ Elapsed' \in Nat /\ Elapsed' <= 8
         /\ x6 = WireBytes(msg)[Whole + 1] /\ Whole \in 0 .. Len(msg)
         /\ Len(got) = raised /\ Len(got) = ByteBits * (Whole + 1)
<1>1. /\ label = "BIT_WAIT_LOW" /\ busy = 0 /\ ~StillHigh /\ x7 + 1 >= ByteBits
  BY DEF ByteReceived
<1>2. /\ Receiving /\ host = "low" /\ host' = "low" /\ raised' = raised
      /\ Elapsed' \in Nat /\ Elapsed' <= 8 /\ Len(got) = raised
      /\ Len(got) = ByteBits * Whole + x7 + 1 /\ x6 = Top(x7 + 1)
  BY <1>1, LowSeen
<1>3. x7 + 1 = ByteBits /\ Whole \in 0 .. Len(msg) /\ Whole \in Nat /\ ~flash_mode
  <2>1. /\ x7 \in 0 .. ByteBits - 1 /\ Whole \in 0 .. Len(msg) /\ Len(msg) \in Nat
        /\ ~flash_mode
    BY <1>2, Position, Zenon
  <2> QED  BY <1>1, <2>1, Parameters
<1>4. x6 = WireBytes(msg)[Whole + 1]
  <2>1. x6 = WireBytes(msg)[Whole + 1] \div Power[ByteBits - ByteBits]
    BY <1>2, <1>3 DEF Top
  <2> QED  BY <2>1, <1>3, Both, TopOf
<1>5. Len(got) = ByteBits * (Whole + 1)
  <2>1. ByteBits * Whole + x7 + 1 = ByteBits * Whole + ByteBits
    <3>1. ByteBits * Whole \in Nat /\ x7 \in Nat  BY <1>2, Position, Both
    <3> QED  BY <3>1, <1>3, Both
  <2>2. ByteBits * (Whole + 1) = ByteBits * Whole + ByteBits
    BY <1>3, Both
  <2> QED  BY <1>2, <2>1, <2>2
<1> QED  BY <1>1, <1>2, <1>3, <1>4, <1>5

\* With the length byte, the program that is to come is known.
LEMMA LengthReceivedStep ==
  ASSUME IInv, HostTick, LengthReceived
  PROVE  Kept
<1>0. /\ label = "BIT_WAIT_LOW" /\ busy = 0 /\ Receiving /\ ~flash_mode
      /\ host' = "low" /\ raised' = raised /\ Elapsed' \in Nat /\ Elapsed' <= 8
      /\ ra = "length" /\ Whole = 0 /\ x6 = Len(msg)
      /\ Len(got) = raised /\ Len(got) = ByteBits
      /\ x4' = x6 /\ x5' = LOAD_BASE
      /\ UNCHANGED <<x9, ram, flash_mode, got>>
  <2>1. ByteReceived /\ ra = "length" /\ x4' = x6 /\ x5' = LOAD_BASE
        /\ UNCHANGED <<x9, ram, flash_mode, got>>
    BY DEF LengthReceived
  <2>2. Whole = 0 /\ Receiving  BY <2>1, ByteComplete, Position
  <2>3. x6 = WireBytes(msg)[0 + 1] /\ Len(got) = ByteBits * (0 + 1)
    BY <2>1, <2>2, ByteComplete
  <2>4. x6 = Len(msg) /\ Len(got) = ByteBits  BY <2>3, Both, WireType
  <2> QED  BY <2>1, <2>2, <2>4, ByteComplete
<1>1. Len(msg) \in Byte /\ LOAD_BASE \in Nat  BY Both, WireType, Map
<1>2. CASE x6 = 0
  <2>1. label' = "RUN" /\ busy' = 9 /\ UNCHANGED <<ra, x6, x7>>
    BY <1>2 DEF LengthReceived, GoTo
  <2>2. ChipType'  BY <1>0, <1>1, <2>1, Both DEF ChipType
  <2>3. ChipInv'
    <3>1. Len(msg) = 0 /\ WireLength(msg) = ByteBits
      <4>1. Len(msg) = 0 /\ WireLength(msg) = ByteBits * (1 + Len(msg))
        BY <1>0, <1>2, Both, WireType
      <4>2. ByteBits * (1 + 0) = ByteBits  BY Both
      <4> QED  BY <4>1, <4>2
    <3>2. Stored(Len(msg))'  BY <3>1, Both DEF Stored
    <3>3. raised' = WireLength(msg') /\ Len(got') = raised'  BY <3>1, <1>0, Both
    <3> QED  BY <1>0, <2>1, <3>2, <3>3, Both, SameMessage DEF IInv, ChipInv, Started
  <2> QED  BY <2>1, <2>2, <2>3 DEF Kept, Placed, Receiving, OnTime
<1>3. CASE x6 # 0
  <2>1. label' = "BIT_WAIT_HIGH" /\ busy' = 12 /\ ra' = "byte" /\ x6' = 0 /\ x7' = 0
    BY <1>3 DEF LengthReceived, GoTo, EnterRecvByte
  <2>2. ChipType'  BY <1>0, <1>1, <2>1, Both DEF ChipType
  <2>3. ChipInv'
    BY <1>0, <2>1, Both, SameMessage DEF IInv, ChipInv, Started
  <2>4. Placed'
    <3>1. Whole' = 1  BY <1>0, <1>1, <2>1 DEF Whole
    <3>2. Len(msg) >= 1 /\ 1 \in 0 .. Len(msg)  BY <1>0, <1>3, Both
    <3>3. (x6 = Top(x7))'
      <4>1. WireBytes(msg)[1 + 1] \div Power[ByteBits - 0] = 0  BY <3>2, Both, TopOf
      <4> QED  BY <4>1, <2>1, <3>1, Both DEF Top, WireBytes
    <3>4. (Len(got) = ByteBits * Whole + x7)'
      <4>1. Len(got') = ByteBits * 1 + 0  BY <1>0, Both
      <4> QED  BY <4>1, <2>1, <3>1
    <3>5. Stored(Whole - 1)'  BY <3>1 DEF Stored
    <3>6. (x4 = Len(msg) + 1 - Whole)'
      <4>1. x4' = Len(msg) + 1 - 1  BY <1>0, Both
      <4> QED  BY <4>1, <3>1, Both
    <3> QED  BY <1>0, <1>1, <2>1, <3>1, <3>2, <3>3, <3>4, <3>5, <3>6, Both DEF Placed
  <2>5. OnTime'
    BY <1>0, <2>1, Both DEF OnTime
  <2> QED  BY <2>2, <2>3, <2>4, <2>5 DEF Kept
<1> QED  BY <1>2, <1>3

\* The byte that is complete goes to its place in the load window.
LEMMA DataReceivedStep ==
  ASSUME IInv, HostTick, DataReceived
  PROVE  Kept
<1>0. /\ label = "BIT_WAIT_LOW" /\ busy = 0 /\ Receiving /\ ~flash_mode
      /\ host' = "low" /\ raised' = raised /\ Elapsed' \in Nat /\ Elapsed' <= 8
      /\ ra = "byte" /\ Len(got) = raised /\ Len(got) = ByteBits * (Whole + 1)
      /\ Whole \in 1 .. Len(msg) /\ x5 = LOAD_BASE + Whole - 1 /\ x5 \in Nat
      /\ x4 = Len(msg) + 1 - Whole /\ Stored(Whole - 1)
      /\ x6 = WireBytes(msg)[Whole + 1]
  <2>1. ByteReceived /\ ra = "byte"  BY DEF DataReceived
  <2>2. Receiving  BY <2>1, ByteComplete
  <2> QED  BY <2>1, <2>2, ByteComplete, Position
<1>1. x6 = msg[Whole] /\ x6 \in Byte /\ x6 \in Nat /\ x6 % Power[ByteBits] = x6
  <2>1. x6 = msg[Whole]  BY <1>0, Both, WireType
  <2>2. x6 \in Byte  BY Both DEF ChipType
  <2>3. Power[ByteBits] \in Nat /\ Power[ByteBits] >= 1  BY Both, Powers
  <2>4. x6 \in 0 .. Power[ByteBits] - 1 /\ Power[ByteBits] * 0 + x6 = x6
    BY <2>2, <2>3 DEF Byte
  <2>5. x6 % Power[ByteBits] = x6
    <3>1. Power[ByteBits] > 0 /\ 0 \in Nat  BY <2>3
    <3> QED  BY <2>3, <2>4, <3>1, Euclid, Zenon
  <2> QED  BY <2>1, <2>2, <2>4, <2>5, <2>3
<1>2. x5 \in LOAD_BASE .. RAM_END - 1 /\ x5 % AddrVals = x5 /\ x5 \in Ram /\ x5 # FLASH_MODE
  <2>1. LOAD_BASE + Len(msg) <= RAM_END  BY Both, WireType
  <2>2. x5 \in LOAD_BASE .. RAM_END - 1  BY <1>0, <2>1, Both, Map
  <2>3. x5 \in 0 .. AddrVals - 1 /\ AddrVals \in Nat /\ AddrVals > 0 /\ AddrVals * 0 + x5 = x5
    BY <2>2, Map
  <2>4. x5 % AddrVals = x5
    <3>1. 0 \in Nat  OBVIOUS
    <3> QED  BY <2>3, <3>1, Euclid, Zenon
  <2> QED  BY <2>2, <2>4, Map DEF Ram
<1>3. /\ ram' = [ram EXCEPT ![x5] = x6] /\ flash_mode' = flash_mode
      /\ x5' = x5 + 1 /\ x4' = x4 - 1 /\ UNCHANGED <<x9, got>>
      /\ IF x4 # 1
           THEN /\ label' = "BIT_WAIT_HIGH" /\ busy' = 14
                /\ ra' = "byte" /\ x6' = 0 /\ x7' = 0
           ELSE label' = "RUN" /\ busy' = 11 /\ UNCHANGED <<ra, x6, x7>>
  <2>1. ~(x5 >= RAM_END /\ x5 < EXT_PSRAM_END)  BY <1>2, Map
  <2>2. /\ x5' = x5 + 1 /\ x4' = x4 - 1 /\ UNCHANGED <<x9, got>>
        /\ flash_mode' = (flash_mode \/ x5 = FLASH_MODE)
        /\ ram' = IF x5 \in Ram /\ (flash_mode => x5 < LOAD_BASE)
                    THEN [ram EXCEPT ![x5] = x6] ELSE ram
    BY <1>1, <1>2 DEF DataReceived
  <2>3. ram' = [ram EXCEPT ![x5] = x6]  BY <2>2, <1>0, <1>2
  <2>4. flash_mode' = flash_mode
    <3>1. flash_mode \in BOOLEAN  BY Both DEF ChipType
    <3> QED  BY <2>2, <1>0, <1>2, <3>1
  <2>5. IF MoreBytes THEN GoTo("BIT_WAIT_HIGH", 15 + 0) /\ EnterRecvByte("byte")
                     ELSE GoTo("RUN", 12 + 0) /\ UNCHANGED <<ra, x6, x7>>
    BY <1>2, <2>1 DEF DataReceived
  <2>6. IF x4 # 1
          THEN /\ label' = "BIT_WAIT_HIGH" /\ busy' = 14
               /\ ra' = "byte" /\ x6' = 0 /\ x7' = 0
          ELSE label' = "RUN" /\ busy' = 11 /\ UNCHANGED <<ra, x6, x7>>
    BY <2>5 DEF GoTo, EnterRecvByte, MoreBytes
  <2> QED  BY <2>2, <2>3, <2>4, <2>6, Zenon
<1>4. ASSUME NEW k \in 1 .. Whole  PROVE ram'[LOAD_BASE + k - 1] = msg[k]
  <2>1. ram \in [Ram -> Byte]  BY Both DEF ChipType
  <2>2. CASE k = Whole
    <3>1. LOAD_BASE + k - 1 = x5  BY <2>2, <1>0
    <3> QED  BY <3>1, <2>1, <1>1, <1>2, <1>3, <2>2
  <2>3. CASE k # Whole
    <3>1. k \in 1 .. Whole - 1 /\ LOAD_BASE + k - 1 # x5
      BY <2>3, <1>0, Map
    <3>2. ram[LOAD_BASE + k - 1] = msg[k]  BY <3>1, <1>0 DEF Stored
    <3>3. LOAD_BASE + k - 1 \in Ram
      BY <3>1, <1>0, <1>2, Map DEF Ram
    <3> QED  BY <3>2, <3>3, <2>1, <3>1, <1>3
  <2> QED  BY <2>2, <2>3
<1>5. Len(msg) \in Byte /\ Len(msg) \in Nat /\ LOAD_BASE \in Nat /\ ByteBits \in Nat
  BY Both, WireType, Map
<1>6. x4' \in Byte /\ x5' \in Nat /\ ram' \in [Ram -> Byte]
  <2>1. ram \in [Ram -> Byte] /\ x4 \in Byte  BY Both DEF ChipType
  <2>2. x4 >= 1  BY <1>0, <1>5
  <2>3. x4' \in Byte
    <3>1. Power[ByteBits] \in Nat /\ x4' = x4 - 1  BY <1>3, <1>5, Powers
    <3> QED  BY <2>1, <2>2, <3>1 DEF Byte
  <2>4. ram' \in [Ram -> Byte]  BY <1>1, <1>2, <1>3, <2>1
  <2> QED  BY <1>0, <1>3, <2>3, <2>4
<1>7. CASE x4 = 1
  <2>1. label' = "RUN" /\ busy' = 11 /\ UNCHANGED <<ra, x6, x7>>  BY <1>3, <1>7
  <2>2. ChipType'
    <3>1. ChipType  BY Both
    <3> QED  BY <1>3, <1>6, <2>1, <3>1 DEF ChipType
  <2>3. Whole = Len(msg)  BY <1>0, <1>5, <1>7
  <2>4. ChipInv'
    <3>1. Stored(Len(msg))'  BY <1>4, <2>3, Both DEF Stored
    <3>2. raised' = WireLength(msg') /\ Len(got') = raised'
      <4>1. WireLength(msg) = ByteBits * (1 + Len(msg))  BY Both, WireType
      <4>2. 1 + Len(msg) = Whole + 1  BY <2>3, <1>5
      <4> QED  BY <1>0, <1>3, <4>1, <4>2, Both
    <3> QED  BY <1>0, <1>3, <2>1, <3>1, <3>2, Both, SameMessage DEF IInv, ChipInv, Started
  <2> QED  BY <2>1, <2>2, <2>4 DEF Kept, Placed, Receiving, OnTime
<1>8. CASE x4 # 1
  <2>1. label' = "BIT_WAIT_HIGH" /\ busy' = 14 /\ ra' = "byte" /\ x6' = 0 /\ x7' = 0
    BY <1>3, <1>8
  <2>2. ChipType'
    <3>1. ChipType  BY Both
    <3> QED  BY <1>3, <1>6, <2>1, <3>1, Both DEF ChipType
  <2>3. ChipInv'
    BY <1>0, <1>3, <2>1, Both, SameMessage DEF IInv, ChipInv, Started
  <2>4. Placed'
    <3>1. Whole' = Whole + 1 /\ Whole \in Nat  BY <1>0, <1>3, <1>5, <2>1 DEF Whole
    <3>2. Whole + 1 \in 1 .. Len(msg) /\ Whole + 1 \in 0 .. Len(msg)
      BY <1>0, <1>5, <1>8
    <3>3. (x6 = Top(x7))'
      <4>1. WireBytes(msg)[Whole + 1 + 1] \div Power[ByteBits - 0] = 0
        BY <3>2, Both, TopOf
      <4> QED  BY <4>1, <2>1, <3>1, Both DEF Top, WireBytes
    <3>4. (Len(got) = ByteBits * Whole + x7)'
      <4>1. ByteBits * (Whole + 1) \in Nat  BY <3>1, <1>5
      <4>2. Len(got') = ByteBits * (Whole + 1) + 0  BY <1>0, <1>3, <4>1
      <4> QED  BY <4>2, <2>1, <3>1
    <3>5. (Stored(Whole - 1))'
      <4>1. Whole' - 1 = Whole  BY <3>1
      <4>2. \A k \in 1 .. Whole' - 1 : ram'[LOAD_BASE + k - 1] = msg'[k]
        BY <4>1, <1>4, Both
      <4> QED  BY <4>2 DEF Stored
    <3>6. (x4 = Len(msg) + 1 - Whole)'
      <4>1. x4' = Len(msg) + 1 - (Whole + 1)  BY <1>0, <1>3, <1>5, <3>1
      <4> QED  BY <4>1, <3>1, Both
    <3>7. (Whole \in 1 .. Len(msg))' /\ x5' >= LOAD_BASE /\ host' # "idle"
      BY <1>0, <1>3, <1>5, <3>1, <3>2, Both
    <3> QED  BY <2>1, <3>3, <3>4, <3>5, <3>6, <3>7 DEF Placed
  <2>5. OnTime'
    <3>1. Len(got') = raised' /\ host' = "low"  BY <1>0, <1>3
    <3>2. busy' + Elapsed' <= Period
      <4>1. Elapsed' \in Nat /\ Elapsed' <= 8 /\ busy' = 14  BY <1>0, <2>1, Zenon
      <4>2. Hold \in Nat /\ Hold >= 8 /\ Period \in Nat /\ Period = Hold + Hold + Hold  BY Parameters
      <4>3. \A e, h, p \in Nat : e <= 8 /\ h >= 8 /\ p = h + h + h => 14 + e <= p  OBVIOUS
      <4> QED  BY <4>1, <4>2, <4>3, Zenon
    <3> QED  BY <2>1, <3>1, <3>2 DEF OnTime
  <2> QED  BY <2>2, <2>3, <2>4, <2>5 DEF Kept
<1> QED  BY <1>7, <1>8

--------------------------------------------------------------------------------
(* The theorems                                                            *)

LEMMA InvInit == Init => IInv
<1> SUFFICES ASSUME Init  PROVE IInv
  OBVIOUS
<1>1. msg \in Messages /\ WireLength(msg) \in Nat
  <2>1. msg \in Messages  BY DEF Init
  <2> QED  BY <2>1, WireType
<1>2. 0 \in Byte /\ 1 \in Byte
  <2>1. Power[ByteBits] \in Nat /\ Power[ByteBits] >= 2
    <3>1. ByteBits - 1 \in 0 .. ByteBits - 1 /\ ByteBits - 1 \in 0 .. ByteBits
          /\ (ByteBits - 1) + 1 = ByteBits
      BY Parameters
    <3>2. Power[ByteBits - 1] \in Nat /\ Power[ByteBits - 1] >= 1  BY <3>1, Powers
    <3>3. Power[ByteBits] = 2 * Power[ByteBits - 1]  BY <3>1, Powers
    <3> QED  BY <3>2, <3>3
  <2> QED  BY <2>1 DEF Byte
<1>3. ChipType
  <2>1. ram \in [Ram -> Byte]  BY <1>2 DEF Init
  <2>2. 0 \in 0 .. ByteBits - 1 /\ 0 \in 0 .. Timeout  BY Parameters
  <2> QED  BY <1>2, <2>1, <2>2 DEF Init, ChipType
<1>4. HostType
  BY <1>1, Parameters DEF Init, HostType
<1>5. HostInv  BY DEF Init, HostInv
<1>6. ChipInv
  BY DEF Init, ChipInv, Started
<1>7. Placed /\ OnTime
  BY DEF Init, Placed, Receiving, OnTime
<1> QED  BY <1>3, <1>4, <1>5, <1>6, <1>7, Types DEF IInv

LEMMA InvStep == IInv /\ [Next]_vars => IInv'
<1> SUFFICES ASSUME IInv, [Next]_vars  PROVE IInv'
  OBVIOUS
<1>1. CASE Tick
  <2>1. HostTick /\ ChipTick  BY <1>1 DEF Tick
  <2>2. HostType' /\ HostInv'  BY <2>1, Both
  <2>3. Kept
    BY <2>1, WorkingStep, SelfTestStep, StartSeenStep, NoStartStep, FallbackStep,
       BitWaitHighStep, BitWaitLowStep, LengthReceivedStep, DataReceivedStep, RunStep, GoneStep
       DEF ChipTick
  <2>4. TypeOK' <=> HostType' /\ ChipType'
    BY DEF TypeOK, HostType, ChipType
  <2> QED  BY <2>2, <2>3, <2>4 DEF Kept, IInv
<1>2. CASE UNCHANGED vars
  <2>1. UNCHANGED <<label, busy, ra, x4, x5, x6, x7, x9, ram, flash_mode, got, data, clock, start,
                    host, held, msg, raised>>
    BY <1>2 DEF vars, chipVars, hostVars, pins
  <2>2. TypeOK' BY <2>1 DEF IInv, TypeOK
  <2>3. HostInv' /\ ChipInv'
    BY <2>1, SameMessage DEF IInv, HostInv, ChipInv, Started
  <2>4. Placed'
    BY <2>1, SameMessage DEF IInv, Placed, Receiving
  <2>5. OnTime'
    BY <2>1 DEF IInv, OnTime, Elapsed, Lead, HeldUpTo
  <2> QED  BY <2>2, <2>3, <2>4, <2>5 DEF IInv
<1> QED  BY <1>1, <1>2 DEF Next

LEMMA Invariance == Spec => []IInv
<1>1. Init => IInv  BY InvInit
<1>2. IInv /\ [Next]_vars => IInv'  BY InvStep
<1> QED  BY <1>1, <1>2, PTL DEF Spec

\* TypeCorrect: registers and pins keep their ranges, for every message and every host.
THEOREM TypeCorrect == Spec => []TypeOK
<1>1. IInv => TypeOK  BY DEF IInv
<1> QED  BY <1>1, Invariance, PTL

\* ChipInStep: for every program and every host that leaves each level of CLOCK for eight
\* instructions at least, RECV_BYTE samples every bit once and in order, although nothing
\* acknowledges a bit.
THEOREM ChipInStep == Spec => []InStep
<1>1. IInv => InStep
  <2> SUFFICES ASSUME IInv, host # "idle", label \notin {"TIMED_OUT", "RUN", "LOADED"}, ~flash_mode
               PROVE  /\ Len(got) \in {raised - 1, raised}
                      /\ host \in {"setup", "low"} /\ held >= Hold => Len(got) = raised
                      /\ \A n \in DOMAIN got : got[n] = WireBit(msg, n)
    BY DEF InStep
  <2>1. label \in {"MAIN_LOOP", "BIT_WAIT_HIGH", "BIT_WAIT_LOW"}
    BY PinsSeen DEF ChipType, IInv, ChipInv
  <2>2. CASE label = "MAIN_LOOP"
    <3>1. got = << >> /\ raised = 0  BY <2>2 DEF IInv, ChipInv, OnTime
    <3> QED  BY <3>1
  <2>3. CASE label = "BIT_WAIT_HIGH"
    BY <2>3, PinsSeen DEF IInv, ChipInv, OnTime
  <2>4. CASE label = "BIT_WAIT_LOW"
    BY <2>4, PinsSeen DEF IInv, ChipInv, OnTime
  <2> QED  BY <2>1, <2>2, <2>3, <2>4
<1> QED  BY <1>1, Invariance, PTL

\* WhatRunsWasSent: whatever its bytes and its length, the program that BYTE_LOOP leaves in
\* the load window when it jumps there is the one that was sent; and the flash is started only
\* if no bit was received in the whole timeout.
THEOREM WhatRunsWasSent == Spec => []LoadedIsSent
<1>1. IInv => LoadedIsSent
  <2> SUFFICES ASSUME IInv, label = "LOADED"
               PROVE  IF flash_mode
                        THEN got = << >> /\ x9 = Timeout
                        ELSE /\ raised = WireLength(msg) /\ Len(got) = raised
                             /\ \A k \in DOMAIN msg : ram[LOAD_BASE + k - 1] = msg[k]
    BY DEF LoadedIsSent
  <2>1. CASE flash_mode
    BY <2>1 DEF IInv, ChipInv
  <2>2. CASE ~flash_mode
    <3>1. raised = WireLength(msg) /\ Len(got) = raised /\ Stored(Len(msg))
      BY <2>2 DEF IInv, ChipInv, Started
    <3>2. DOMAIN msg = 1 .. Len(msg)
      BY PinsSeen, WireType
    <3> QED  BY <2>2, <3>1, <3>2 DEF Stored
  <2> QED  BY <2>1, <2>2
<1> QED  BY <1>1, Invariance, PTL
================================================================================
