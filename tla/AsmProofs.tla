-------------------------------- MODULE AsmProofs --------------------------------
(***************************************************************************)
(* What the assembler writes, the core's decoder reads: for every script   *)
(* whose operands fit their fields, by way of what each format puts where  *)
(* and what the decoder finds there.                                       *)
(***************************************************************************)
EXTENDS Rv32Asm, TLAPS

--------------------------------------------------------------------------------
(* Numbers and their bits                                                  *)

\* A bit of a number is what halving leaves over.
LEMMA Halving ==
  ASSUME NEW n \in Int, NEW w \in Nat
  PROVE  LET bit(k) == IF k \in Bits(n, w) THEN 1 ELSE 0
         IN  /\ bit(0) = IF w > 0 THEN n - 2 * (n \div 2^1) ELSE 0
             /\ bit(1) = IF w > 1 THEN (n \div 2^1) - 2 * (n \div 2^2) ELSE 0
             /\ bit(2) = IF w > 2 THEN (n \div 2^2) - 2 * (n \div 2^3) ELSE 0
             /\ bit(3) = IF w > 3 THEN (n \div 2^3) - 2 * (n \div 2^4) ELSE 0
             /\ bit(4) = IF w > 4 THEN (n \div 2^4) - 2 * (n \div 2^5) ELSE 0
             /\ bit(5) = IF w > 5 THEN (n \div 2^5) - 2 * (n \div 2^6) ELSE 0
             /\ bit(6) = IF w > 6 THEN (n \div 2^6) - 2 * (n \div 2^7) ELSE 0
             /\ bit(7) = IF w > 7 THEN (n \div 2^7) - 2 * (n \div 2^8) ELSE 0
             /\ bit(8) = IF w > 8 THEN (n \div 2^8) - 2 * (n \div 2^9) ELSE 0
             /\ bit(9) = IF w > 9 THEN (n \div 2^9) - 2 * (n \div 2^10) ELSE 0
             /\ bit(10) = IF w > 10 THEN (n \div 2^10) - 2 * (n \div 2^11) ELSE 0
             /\ bit(11) = IF w > 11 THEN (n \div 2^11) - 2 * (n \div 2^12) ELSE 0
             /\ bit(12) = IF w > 12 THEN (n \div 2^12) - 2 * (n \div 2^13) ELSE 0
             /\ bit(13) = IF w > 13 THEN (n \div 2^13) - 2 * (n \div 2^14) ELSE 0
             /\ bit(14) = IF w > 14 THEN (n \div 2^14) - 2 * (n \div 2^15) ELSE 0
             /\ bit(15) = IF w > 15 THEN (n \div 2^15) - 2 * (n \div 2^16) ELSE 0
             /\ bit(16) = IF w > 16 THEN (n \div 2^16) - 2 * (n \div 2^17) ELSE 0
             /\ bit(17) = IF w > 17 THEN (n \div 2^17) - 2 * (n \div 2^18) ELSE 0
             /\ bit(18) = IF w > 18 THEN (n \div 2^18) - 2 * (n \div 2^19) ELSE 0
             /\ bit(19) = IF w > 19 THEN (n \div 2^19) - 2 * (n \div 2^20) ELSE 0
  BY SMT DEF Bits

\* The number a field holds is the one whose bits were put there.
LEMMA NumberOf ==
  ASSUME NEW n \in Int, NEW w \in Nat
  PROVE  /\ w = 3  => Number(Bits(n, w)) = n % 8
         /\ w = 4  => Number(Bits(n, w)) = n % 16
         /\ w = 5  => Number(Bits(n, w)) = n % 32
         /\ w = 7  => Number(Bits(n, w)) = n % 128
         /\ w = 12 => Number(Bits(n, w)) = n % 4096
         /\ w = 20 => Number(Bits(n, w)) = n % 2^20
<1> DEFINE s == Bits(n, w)
           bit(k) == IF k \in s THEN 1 ELSE 0
<1>1. /\ Five(s, 0) = bit(0) + 2 * bit(1) + 4 * bit(2) + 8 * bit(3) + 16 * bit(4)
      /\ Five(s, 5) = bit(5) + 2 * bit(6) + 4 * bit(7) + 8 * bit(8) + 16 * bit(9)
      /\ Five(s, 10) = bit(10) + 2 * bit(11) + 4 * bit(12) + 8 * bit(13) + 16 * bit(14)
      /\ Five(s, 15) = bit(15) + 2 * bit(16) + 4 * bit(17) + 8 * bit(18) + 16 * bit(19)
  BY DEF Five
<1>2. /\ w >= 5  => Five(s, 0)  = n - 32 * (n \div 2^5)
      /\ w >= 10 => Five(s, 5)  = (n \div 2^5) - 32 * (n \div 2^10)
      /\ w >= 15 => Five(s, 10) = (n \div 2^10) - 32 * (n \div 2^15)
      /\ w >= 20 => Five(s, 15) = (n \div 2^15) - 32 * (n \div 2^20)
  <2>1. w >= 5  => Five(s, 0)  = n - 32 * (n \div 2^5)
    BY <1>1, Halving, SMT
  <2>2. w >= 10 => Five(s, 5)  = (n \div 2^5) - 32 * (n \div 2^10)
    BY <1>1, Halving, SMT
  <2>3. w >= 15 => Five(s, 10) = (n \div 2^10) - 32 * (n \div 2^15)
    BY <1>1, Halving, SMT
  <2>4. w >= 20 => Five(s, 15) = (n \div 2^15) - 32 * (n \div 2^20)
    BY <1>1, Halving, SMT
  <2> QED  BY <2>1, <2>2, <2>3, <2>4
<1>3. /\ w <= 5  => Five(s, 5)  = 0
      /\ w <= 10 => Five(s, 10) = 0
      /\ w <= 15 => Five(s, 15) = 0
  BY <1>1, Halving, SMT
<1>4. /\ w = 3   => Five(s, 0)  = n - 8 * (n \div 2^3)
      /\ w = 4   => Five(s, 0)  = n - 16 * (n \div 2^4)
      /\ w = 7   => Five(s, 5)  = (n \div 2^5) - 4 * (n \div 2^7)
      /\ w = 12  => Five(s, 10) = (n \div 2^10) - 4 * (n \div 2^12)
  BY <1>1, Halving, SMT
<1>5. Number(s) = Five(s, 0) + 32 * Five(s, 5) + 1024 * Five(s, 10) + 32768 * Five(s, 15)
  BY DEF Number
<1> HIDE DEF s
<1> QED  BY <1>2, <1>3, <1>4, <1>5, SMT DEF s

\* The same for the widths the formats use.
LEMMA FieldsOf ==
  ASSUME NEW n \in Int
  PROVE  /\ Number(Bits(n, 3)) = n % 8     /\ Number(Bits(n, 4)) = n % 16
         /\ Number(Bits(n, 5)) = n % 32    /\ Number(Bits(n, 7)) = n % 128
         /\ Number(Bits(n, 12)) = n % 2^12 /\ Number(Bits(n, 20)) = n % 2^20
<1>1. 3 \in Nat /\ 4 \in Nat /\ 5 \in Nat /\ 7 \in Nat /\ 12 \in Nat /\ 20 \in Nat
  OBVIOUS
<1>2. Number(Bits(n, 3)) = n % 8
  BY <1>1, NumberOf, SMT
<1>3. Number(Bits(n, 4)) = n % 16
  BY <1>1, NumberOf, SMT
<1>4. Number(Bits(n, 5)) = n % 32
  BY <1>1, NumberOf, SMT
<1>5. Number(Bits(n, 7)) = n % 128
  BY <1>1, NumberOf, SMT
<1>6. Number(Bits(n, 12)) = n % 2^12
  <2>1. Number(Bits(n, 12)) = n % 4096
    BY <1>1, NumberOf, SMT
  <2> QED  BY <2>1, SMT
<1>7. Number(Bits(n, 20)) = n % 2^20
  BY <1>1, NumberOf, SMT
<1> QED  BY <1>2, <1>3, <1>4, <1>5, <1>6, <1>7, SMT

--------------------------------------------------------------------------------
(* Fields and words                                                        *)

\* A field moved up n places is where it was moved to.
LEMMA InShl ==
  ASSUME NEW s, s \subseteq Nat, NEW n \in Nat
  PROVE  /\ Shl(s, n) \subseteq Nat
         /\ \A k \in Nat : k \in Shl(s, n) <=> k - n \in s
  BY DEF Shl

\* The field that holds s.
LEMMA FieldOf ==
  ASSUME NEW w, w \subseteq Nat, NEW lo \in Nat, NEW hi \in Nat, NEW s, s \subseteq Nat,
         \A k \in lo .. hi : k \in w <=> k - lo \in s,
         \A k \in s : k <= hi - lo
  PROVE  Field(w, hi, lo) = Number(s)
<1>1. {k - lo : k \in w \cap (lo .. hi)} = s
  <2>1. ASSUME NEW i \in s PROVE i \in {k - lo : k \in w \cap (lo .. hi)}
    <3>1. i \in Nat /\ i <= hi - lo /\ lo + i \in lo .. hi /\ (lo + i) - lo = i
      BY <2>1
    <3>2. lo + i \in w
      BY <2>1, <3>1
    <3> QED  BY <3>1, <3>2
  <2>2. ASSUME NEW k \in w \cap (lo .. hi) PROVE k - lo \in s
    BY <2>2
  <2> QED  BY <2>1, <2>2
<1> QED  BY <1>1 DEF Field

\* What the decoder finds in a word with all six fields; the stores have them too.
RParts(a, b, c, d, e, o) ==
  /\ a \subseteq 0 .. 6 /\ b \subseteq 0 .. 4 /\ c \subseteq 0 .. 4
  /\ d \subseteq 0 .. 2 /\ e \subseteq 0 .. 4 /\ o \subseteq 0 .. 6

RMade(a, b, c, d, e, o) ==
  Shl(a, 25) \cup Shl(b, 20) \cup Shl(c, 15) \cup Shl(d, 12)
    \cup Shl(e, 7) \cup o

RRead(w, a, b, c, d, e, o) ==
  /\ w \subseteq 0 .. 31 /\ (30 \in w <=> 5 \in a)
  /\ Field(w, 6, 0) = Number(o) /\ Field(w, 11, 7) = Number(e)
  /\ Field(w, 14, 12) = Number(d) /\ Field(w, 19, 15) = Number(c)
  /\ Field(w, 24, 20) = Number(b) /\ Field(w, 31, 25) = Number(a)

LEMMA RWord ==
  ASSUME NEW a, NEW b, NEW c, NEW d, NEW e, NEW o,
         RParts(a, b, c, d, e, o)
  PROVE  RRead(RMade(a, b, c, d, e, o), a, b, c, d, e, o)
<1> DEFINE w == RMade(a, b, c, d, e, o)
<1> USE DEF RParts, RMade
<1>0. /\ a \subseteq Nat /\ b \subseteq Nat /\ c \subseteq Nat
      /\ d \subseteq Nat /\ e \subseteq Nat /\ o \subseteq Nat
  OBVIOUS
<1>1. Shl(a, 25) \subseteq Nat /\ \A k \in Nat : k \in Shl(a, 25) <=> k - 25 \in a
  BY <1>0, InShl
<1>2. Shl(b, 20) \subseteq Nat /\ \A k \in Nat : k \in Shl(b, 20) <=> k - 20 \in b
  BY <1>0, InShl
<1>3. Shl(c, 15) \subseteq Nat /\ \A k \in Nat : k \in Shl(c, 15) <=> k - 15 \in c
  BY <1>0, InShl
<1>4. Shl(d, 12) \subseteq Nat /\ \A k \in Nat : k \in Shl(d, 12) <=> k - 12 \in d
  BY <1>0, InShl
<1>5. Shl(e, 7) \subseteq Nat /\ \A k \in Nat : k \in Shl(e, 7) <=> k - 7 \in e
  BY <1>0, InShl
<1>6. w \subseteq Nat
  BY <1>0, <1>1, <1>2, <1>3, <1>4, <1>5
<1>7. ASSUME NEW k \in Nat
      PROVE  k \in w <=>
               \/ k - 25 \in a \/ k - 20 \in b \/ k - 15 \in c
               \/ k - 12 \in d \/ k - 7 \in e \/ k \in o
  BY <1>0, <1>1, <1>2, <1>3, <1>4, <1>5
<1> HIDE DEF w
<1>8. w \subseteq 0 .. 31
  BY <1>6, <1>7
<1>9. 30 \in w <=> 5 \in a
  BY <1>7
<1>10. Field(w, 6, 0) = Number(o)
  <2>1. (\A k \in 0 .. 6 : k \in w <=> k - 0 \in o) /\ (\A k \in o : k <= 6 - 0)
    BY <1>7
  <2>2. o \subseteq Nat
    OBVIOUS
  <2> QED  BY <1>6, <2>1, <2>2, FieldOf
<1>11. Field(w, 11, 7) = Number(e)
  <2>1. (\A k \in 7 .. 11 : k \in w <=> k - 7 \in e) /\ (\A k \in e : k <= 11 - 7)
    BY <1>7
  <2>2. e \subseteq Nat
    OBVIOUS
  <2> QED  BY <1>6, <2>1, <2>2, FieldOf
<1>12. Field(w, 14, 12) = Number(d)
  <2>1. (\A k \in 12 .. 14 : k \in w <=> k - 12 \in d) /\ (\A k \in d : k <= 14 - 12)
    BY <1>7
  <2>2. d \subseteq Nat
    OBVIOUS
  <2> QED  BY <1>6, <2>1, <2>2, FieldOf
<1>13. Field(w, 19, 15) = Number(c)
  <2>1. (\A k \in 15 .. 19 : k \in w <=> k - 15 \in c) /\ (\A k \in c : k <= 19 - 15)
    BY <1>7
  <2>2. c \subseteq Nat
    OBVIOUS
  <2> QED  BY <1>6, <2>1, <2>2, FieldOf
<1>14. Field(w, 24, 20) = Number(b)
  <2>1. (\A k \in 20 .. 24 : k \in w <=> k - 20 \in b) /\ (\A k \in b : k <= 24 - 20)
    BY <1>7
  <2>2. b \subseteq Nat
    OBVIOUS
  <2> QED  BY <1>6, <2>1, <2>2, FieldOf
<1>15. Field(w, 31, 25) = Number(a)
  <2>1. (\A k \in 25 .. 31 : k \in w <=> k - 25 \in a) /\ (\A k \in a : k <= 31 - 25)
    BY <1>7
  <2>2. a \subseteq Nat
    OBVIOUS
  <2> QED  BY <1>6, <2>1, <2>2, FieldOf
<1> QED  BY <1>8, <1>9, <1>10, <1>11, <1>12, <1>13, <1>14, <1>15, Zenon DEF w, RRead

\* In a word with a long immediate.
IParts(a, c, d, e, o) ==
  /\ a \subseteq 0 .. 11 /\ c \subseteq 0 .. 4 /\ d \subseteq 0 .. 2
  /\ e \subseteq 0 .. 4 /\ o \subseteq 0 .. 6

IMade(a, c, d, e, o) ==
  Shl(a, 20) \cup Shl(c, 15) \cup Shl(d, 12) \cup Shl(e, 7) \cup o

IRead(w, a, c, d, e, o) ==
  /\ w \subseteq 0 .. 31 /\ (30 \in w <=> 10 \in a)
  /\ Field(w, 6, 0) = Number(o) /\ Field(w, 11, 7) = Number(e)
  /\ Field(w, 14, 12) = Number(d) /\ Field(w, 19, 15) = Number(c)
  /\ Field(w, 31, 20) = Number(a)

LEMMA IWord ==
  ASSUME NEW a, NEW c, NEW d, NEW e, NEW o,
         IParts(a, c, d, e, o)
  PROVE  IRead(IMade(a, c, d, e, o), a, c, d, e, o)
<1> DEFINE w == IMade(a, c, d, e, o)
<1> USE DEF IParts, IMade
<1>0. a \subseteq Nat /\ c \subseteq Nat /\ d \subseteq Nat /\ e \subseteq Nat /\ o \subseteq Nat
  OBVIOUS
<1>1. Shl(a, 20) \subseteq Nat /\ \A k \in Nat : k \in Shl(a, 20) <=> k - 20 \in a
  BY <1>0, InShl
<1>2. Shl(c, 15) \subseteq Nat /\ \A k \in Nat : k \in Shl(c, 15) <=> k - 15 \in c
  BY <1>0, InShl
<1>3. Shl(d, 12) \subseteq Nat /\ \A k \in Nat : k \in Shl(d, 12) <=> k - 12 \in d
  BY <1>0, InShl
<1>4. Shl(e, 7) \subseteq Nat /\ \A k \in Nat : k \in Shl(e, 7) <=> k - 7 \in e
  BY <1>0, InShl
<1>5. w \subseteq Nat
  BY <1>0, <1>1, <1>2, <1>3, <1>4
<1>6. ASSUME NEW k \in Nat
      PROVE  k \in w <=> (k - 20 \in a \/ k - 15 \in c \/ k - 12 \in d \/ k - 7 \in e \/ k \in o)
  BY <1>0, <1>1, <1>2, <1>3, <1>4
<1> HIDE DEF w
<1>7. w \subseteq 0 .. 31
  BY <1>5, <1>6
<1>8. 30 \in w <=> 10 \in a
  BY <1>6
<1>9. Field(w, 6, 0) = Number(o)
  <2>1. (\A k \in 0 .. 6 : k \in w <=> k - 0 \in o) /\ (\A k \in o : k <= 6 - 0)
    BY <1>6
  <2>2. o \subseteq Nat
    OBVIOUS
  <2> QED  BY <1>5, <2>1, <2>2, FieldOf
<1>10. Field(w, 11, 7) = Number(e)
  <2>1. (\A k \in 7 .. 11 : k \in w <=> k - 7 \in e) /\ (\A k \in e : k <= 11 - 7)
    BY <1>6
  <2>2. e \subseteq Nat
    OBVIOUS
  <2> QED  BY <1>5, <2>1, <2>2, FieldOf
<1>11. Field(w, 14, 12) = Number(d)
  <2>1. (\A k \in 12 .. 14 : k \in w <=> k - 12 \in d) /\ (\A k \in d : k <= 14 - 12)
    BY <1>6
  <2>2. d \subseteq Nat
    OBVIOUS
  <2> QED  BY <1>5, <2>1, <2>2, FieldOf
<1>12. Field(w, 19, 15) = Number(c)
  <2>1. (\A k \in 15 .. 19 : k \in w <=> k - 15 \in c) /\ (\A k \in c : k <= 19 - 15)
    BY <1>6
  <2>2. c \subseteq Nat
    OBVIOUS
  <2> QED  BY <1>5, <2>1, <2>2, FieldOf
<1>13. Field(w, 31, 20) = Number(a)
  <2>1. (\A k \in 20 .. 31 : k \in w <=> k - 20 \in a) /\ (\A k \in a : k <= 31 - 20)
    BY <1>6
  <2>2. a \subseteq Nat
    OBVIOUS
  <2> QED  BY <1>5, <2>1, <2>2, FieldOf
<1> QED  BY <1>7, <1>8, <1>9, <1>10, <1>11, <1>12, <1>13, Zenon DEF w, IRead

\* In a word with an upper immediate.
UParts(a, e, o) ==
  a \subseteq 0 .. 19 /\ e \subseteq 0 .. 4 /\ o \subseteq 0 .. 6

UMade(a, e, o) ==
  Shl(a, 12) \cup Shl(e, 7) \cup o

URead(w, a, e, o) ==
  /\ w \subseteq 0 .. 31 /\ Field(w, 6, 0) = Number(o)
  /\ Field(w, 11, 7) = Number(e) /\ Field(w, 31, 12) = Number(a)

LEMMA UWord ==
  ASSUME NEW a, NEW e, NEW o,
         UParts(a, e, o)
  PROVE  URead(UMade(a, e, o), a, e, o)
<1> DEFINE w == UMade(a, e, o)
<1> USE DEF UParts, UMade
<1>0. a \subseteq Nat /\ e \subseteq Nat /\ o \subseteq Nat
  OBVIOUS
<1>1. Shl(a, 12) \subseteq Nat /\ \A k \in Nat : k \in Shl(a, 12) <=> k - 12 \in a
  BY <1>0, InShl
<1>2. Shl(e, 7) \subseteq Nat /\ \A k \in Nat : k \in Shl(e, 7) <=> k - 7 \in e
  BY <1>0, InShl
<1>3. w \subseteq Nat
  BY <1>0, <1>1, <1>2
<1>4. ASSUME NEW k \in Nat
      PROVE  k \in w <=> (k - 12 \in a \/ k - 7 \in e \/ k \in o)
  BY <1>0, <1>1, <1>2
<1> HIDE DEF w
<1>5. w \subseteq 0 .. 31
  BY <1>3, <1>4
<1>6. Field(w, 6, 0) = Number(o)
  <2>1. (\A k \in 0 .. 6 : k \in w <=> k - 0 \in o) /\ (\A k \in o : k <= 6 - 0)
    BY <1>4
  <2>2. o \subseteq Nat
    OBVIOUS
  <2> QED  BY <1>3, <2>1, <2>2, FieldOf
<1>7. Field(w, 11, 7) = Number(e)
  <2>1. (\A k \in 7 .. 11 : k \in w <=> k - 7 \in e) /\ (\A k \in e : k <= 11 - 7)
    BY <1>4
  <2>2. e \subseteq Nat
    OBVIOUS
  <2> QED  BY <1>3, <2>1, <2>2, FieldOf
<1>8. Field(w, 31, 12) = Number(a)
  <2>1. (\A k \in 12 .. 31 : k \in w <=> k - 12 \in a) /\ (\A k \in a : k <= 31 - 12)
    BY <1>4
  <2>2. a \subseteq Nat
    OBVIOUS
  <2> QED  BY <1>3, <2>1, <2>2, FieldOf
<1> QED  BY <1>5, <1>6, <1>7, <1>8, Zenon DEF w, URead

\* In a branch: of the offset, the bits that reach the bus.
BParts(p, a, b, c, d, e, q, o, l) ==
  /\ p \subseteq 0 .. 0 /\ a \subseteq 0 .. 5 /\ b \subseteq 0 .. 4 /\ c \subseteq 0 .. 4
  /\ d \subseteq 0 .. 2 /\ e \subseteq 0 .. 3 /\ q \subseteq 0 .. 0 /\ o \subseteq 0 .. 6
  /\ l \subseteq 0 .. 2 /\ \A k \in 0 .. 2 : k \in l <=> k \in a

BMade(p, a, b, c, d, e, q, o) ==
  Shl(p, 31) \cup Shl(a, 25) \cup Shl(b, 20) \cup Shl(c, 15)
    \cup Shl(d, 12) \cup Shl(e, 8) \cup Shl(q, 7) \cup o

BRead(w, p, a, b, c, d, e, q, o, l) ==
  /\ w \subseteq 0 .. 31 /\ Field(w, 6, 0) = Number(o)
  /\ Field(w, 14, 12) = Number(d) /\ Field(w, 19, 15) = Number(c)
  /\ Field(w, 24, 20) = Number(b) /\ Field(w, 11, 8) = Number(e)
  /\ Field(w, 27, 25) = Number(l)

LEMMA BWord ==
  ASSUME NEW p, NEW a, NEW b, NEW c, NEW d, NEW e, NEW q, NEW o, NEW l,
         BParts(p, a, b, c, d, e, q, o, l)
  PROVE  BRead(BMade(p, a, b, c, d, e, q, o), p, a, b, c, d, e, q, o, l)
<1> DEFINE w == BMade(p, a, b, c, d, e, q, o)
<1> USE DEF BParts, BMade
<1>0. /\ p \subseteq Nat /\ a \subseteq Nat /\ b \subseteq Nat /\ c \subseteq Nat
      /\ d \subseteq Nat /\ e \subseteq Nat /\ q \subseteq Nat /\ o \subseteq Nat
  OBVIOUS
<1>1. Shl(p, 31) \subseteq Nat /\ \A k \in Nat : k \in Shl(p, 31) <=> k - 31 \in p
  BY <1>0, InShl
<1>2. Shl(a, 25) \subseteq Nat /\ \A k \in Nat : k \in Shl(a, 25) <=> k - 25 \in a
  BY <1>0, InShl
<1>3. Shl(b, 20) \subseteq Nat /\ \A k \in Nat : k \in Shl(b, 20) <=> k - 20 \in b
  BY <1>0, InShl
<1>4. Shl(c, 15) \subseteq Nat /\ \A k \in Nat : k \in Shl(c, 15) <=> k - 15 \in c
  BY <1>0, InShl
<1>5. Shl(d, 12) \subseteq Nat /\ \A k \in Nat : k \in Shl(d, 12) <=> k - 12 \in d
  BY <1>0, InShl
<1>6. Shl(e, 8) \subseteq Nat /\ \A k \in Nat : k \in Shl(e, 8) <=> k - 8 \in e
  BY <1>0, InShl
<1>7. Shl(q, 7) \subseteq Nat /\ \A k \in Nat : k \in Shl(q, 7) <=> k - 7 \in q
  BY <1>0, InShl
<1>8. w \subseteq Nat
  BY <1>0, <1>1, <1>2, <1>3, <1>4, <1>5, <1>6, <1>7
<1>9. ASSUME NEW k \in Nat
      PROVE  k \in w <=>
               \/ k - 31 \in p \/ k - 25 \in a \/ k - 20 \in b \/ k - 15 \in c
               \/ k - 12 \in d \/ k - 8 \in e \/ k - 7 \in q \/ k \in o
  BY <1>0, <1>1, <1>2, <1>3, <1>4, <1>5, <1>6, <1>7
<1> HIDE DEF w
<1>10. w \subseteq 0 .. 31
  BY <1>8, <1>9
<1>11. Field(w, 6, 0) = Number(o)
  <2>1. (\A k \in 0 .. 6 : k \in w <=> k - 0 \in o) /\ (\A k \in o : k <= 6 - 0)
    BY <1>9
  <2>2. o \subseteq Nat
    OBVIOUS
  <2> QED  BY <1>8, <2>1, <2>2, FieldOf
<1>12. Field(w, 14, 12) = Number(d)
  <2>1. (\A k \in 12 .. 14 : k \in w <=> k - 12 \in d) /\ (\A k \in d : k <= 14 - 12)
    BY <1>9
  <2>2. d \subseteq Nat
    OBVIOUS
  <2> QED  BY <1>8, <2>1, <2>2, FieldOf
<1>13. Field(w, 19, 15) = Number(c)
  <2>1. (\A k \in 15 .. 19 : k \in w <=> k - 15 \in c) /\ (\A k \in c : k <= 19 - 15)
    BY <1>9
  <2>2. c \subseteq Nat
    OBVIOUS
  <2> QED  BY <1>8, <2>1, <2>2, FieldOf
<1>14. Field(w, 24, 20) = Number(b)
  <2>1. (\A k \in 20 .. 24 : k \in w <=> k - 20 \in b) /\ (\A k \in b : k <= 24 - 20)
    BY <1>9
  <2>2. b \subseteq Nat
    OBVIOUS
  <2> QED  BY <1>8, <2>1, <2>2, FieldOf
<1>15. Field(w, 11, 8) = Number(e)
  <2>1. (\A k \in 8 .. 11 : k \in w <=> k - 8 \in e) /\ (\A k \in e : k <= 11 - 8)
    BY <1>9
  <2>2. e \subseteq Nat
    OBVIOUS
  <2> QED  BY <1>8, <2>1, <2>2, FieldOf
<1>16. Field(w, 27, 25) = Number(l)
  <2>1. (\A k \in 25 .. 27 : k \in w <=> k - 25 \in l) /\ (\A k \in l : k <= 27 - 25)
    BY <1>9
  <2>2. l \subseteq Nat
    OBVIOUS
  <2> QED  BY <1>8, <2>1, <2>2, FieldOf
<1> QED  BY <1>10, <1>11, <1>12, <1>13, <1>14, <1>15, <1>16, Zenon DEF w, BRead

\* And in a jump.
JParts(p, a, q, b, e, o, l) ==
  /\ p \subseteq 0 .. 0 /\ a \subseteq 0 .. 9 /\ q \subseteq 0 .. 0 /\ b \subseteq 0 .. 7
  /\ e \subseteq 0 .. 4 /\ o \subseteq 0 .. 6
  /\ l \subseteq 0 .. 6 /\ \A k \in 0 .. 6 : k \in l <=> k \in a

JMade(p, a, q, b, e, o) ==
  Shl(p, 31) \cup Shl(a, 21) \cup Shl(q, 20) \cup Shl(b, 12)
    \cup Shl(e, 7) \cup o

JRead(w, p, a, q, b, e, o, l) ==
  /\ w \subseteq 0 .. 31 /\ Field(w, 6, 0) = Number(o)
  /\ Field(w, 11, 7) = Number(e) /\ Field(w, 27, 21) = Number(l)

LEMMA JWord ==
  ASSUME NEW p, NEW a, NEW q, NEW b, NEW e, NEW o, NEW l,
         JParts(p, a, q, b, e, o, l)
  PROVE  JRead(JMade(p, a, q, b, e, o), p, a, q, b, e, o, l)
<1> DEFINE w == JMade(p, a, q, b, e, o)
<1> USE DEF JParts, JMade
<1>0. /\ p \subseteq Nat /\ a \subseteq Nat /\ q \subseteq Nat
      /\ b \subseteq Nat /\ e \subseteq Nat /\ o \subseteq Nat
  OBVIOUS
<1>1. Shl(p, 31) \subseteq Nat /\ \A k \in Nat : k \in Shl(p, 31) <=> k - 31 \in p
  BY <1>0, InShl
<1>2. Shl(a, 21) \subseteq Nat /\ \A k \in Nat : k \in Shl(a, 21) <=> k - 21 \in a
  BY <1>0, InShl
<1>3. Shl(q, 20) \subseteq Nat /\ \A k \in Nat : k \in Shl(q, 20) <=> k - 20 \in q
  BY <1>0, InShl
<1>4. Shl(b, 12) \subseteq Nat /\ \A k \in Nat : k \in Shl(b, 12) <=> k - 12 \in b
  BY <1>0, InShl
<1>5. Shl(e, 7) \subseteq Nat /\ \A k \in Nat : k \in Shl(e, 7) <=> k - 7 \in e
  BY <1>0, InShl
<1>6. w \subseteq Nat
  BY <1>0, <1>1, <1>2, <1>3, <1>4, <1>5
<1>7. ASSUME NEW k \in Nat
      PROVE  k \in w <=>
               \/ k - 31 \in p \/ k - 21 \in a \/ k - 20 \in q
               \/ k - 12 \in b \/ k - 7 \in e \/ k \in o
  BY <1>0, <1>1, <1>2, <1>3, <1>4, <1>5
<1> HIDE DEF w
<1>8. w \subseteq 0 .. 31
  BY <1>6, <1>7
<1>9. Field(w, 6, 0) = Number(o)
  <2>1. (\A k \in 0 .. 6 : k \in w <=> k - 0 \in o) /\ (\A k \in o : k <= 6 - 0)
    BY <1>7
  <2>2. o \subseteq Nat
    OBVIOUS
  <2> QED  BY <1>6, <2>1, <2>2, FieldOf
<1>10. Field(w, 11, 7) = Number(e)
  <2>1. (\A k \in 7 .. 11 : k \in w <=> k - 7 \in e) /\ (\A k \in e : k <= 11 - 7)
    BY <1>7
  <2>2. e \subseteq Nat
    OBVIOUS
  <2> QED  BY <1>6, <2>1, <2>2, FieldOf
<1>11. Field(w, 27, 21) = Number(l)
  <2>1. (\A k \in 21 .. 27 : k \in w <=> k - 21 \in l) /\ (\A k \in l : k <= 27 - 21)
    BY <1>7
  <2>2. l \subseteq Nat
    OBVIOUS
  <2> QED  BY <1>6, <2>1, <2>2, FieldOf
<1> QED  BY <1>8, <1>9, <1>10, <1>11, Zenon DEF w, JRead


--------------------------------------------------------------------------------
(* Each format, decoded                                                    *)

\* A field of the width its number needs.
LEMMA BitsIn ==
  ASSUME NEW n
  PROVE  /\ Bits(n, 1) \subseteq 0 .. 0   /\ Bits(n, 3) \subseteq 0 .. 2
         /\ Bits(n, 4) \subseteq 0 .. 3   /\ Bits(n, 5) \subseteq 0 .. 4
         /\ Bits(n, 6) \subseteq 0 .. 5   /\ Bits(n, 7) \subseteq 0 .. 6
         /\ Bits(n, 8) \subseteq 0 .. 7   /\ Bits(n, 10) \subseteq 0 .. 9
         /\ Bits(n, 12) \subseteq 0 .. 11 /\ Bits(n, 20) \subseteq 0 .. 19
  BY DEF Bits

\* A register number, a funct3 and an opcode fill their fields.
LEMMA Whole ==
  /\ \A r \in 0 .. 31 : Number(Bits(r, 5)) = r
  /\ \A f \in 0 .. 7 : Number(Bits(f, 3)) = f
  /\ \A op \in 0 .. 127 : Number(Bits(op, 7)) = op
<1>1. ASSUME NEW r \in 0 .. 31 PROVE Number(Bits(r, 5)) = r
  <2>1. r \in Int
    OBVIOUS
  <2>2. Number(Bits(r, 5)) = r % 32
    BY <2>1, FieldsOf, Zenon
  <2> QED  BY <2>2
<1>2. ASSUME NEW f \in 0 .. 7 PROVE Number(Bits(f, 3)) = f
  <2>1. f \in Int
    OBVIOUS
  <2>2. Number(Bits(f, 3)) = f % 8
    BY <2>1, FieldsOf, Zenon
  <2> QED  BY <2>2
<1>3. ASSUME NEW op \in 0 .. 127 PROVE Number(Bits(op, 7)) = op
  <2>1. op \in Int
    OBVIOUS
  <2>2. Number(Bits(op, 7)) = op % 128
    BY <2>1, FieldsOf, Zenon
  <2> QED  BY <2>2
<1> QED  BY <1>1, <1>2, <1>3

\* What the decoder takes from a word of a register form.
RHas(w, f7, rs2, rs1, f3, rd, op) ==
  /\ w \subseteq 0 .. 31 /\ opcode(w) = op /\ funct3(w) = f3
  /\ (funct7_b5(w) <=> f7 = 32)
  /\ Field(w, 11, 7) = rd /\ Field(w, 19, 15) = rs1 /\ Field(w, 24, 20) = rs2

LEMMA RFields ==
  ASSUME NEW f7 \in {0, 32}, NEW rs2 \in 0 .. 31, NEW rs1 \in 0 .. 31, NEW f3 \in 0 .. 7,
         NEW rd \in 0 .. 31, NEW op \in 0 .. 127
  PROVE  RHas(_r(f7, rs2, rs1, f3, rd, op), f7, rs2, rs1, f3, rd, op)
<1> DEFINE a == Bits(f7, 7)
           b == Bits(rs2, 5)
           c == Bits(rs1, 5)
           d == Bits(f3, 3)
           e == Bits(rd, 5)
           o == Bits(op, 7)
           w == RMade(a, b, c, d, e, o)
<1>1. _r(f7, rs2, rs1, f3, rd, op) = w
  BY Zenon DEF _r, RMade, Opcode
<1>2. RParts(a, b, c, d, e, o)
  BY BitsIn, Zenon DEF RParts
<1>3. /\ Number(b) = rs2 /\ Number(c) = rs1 /\ Number(d) = f3 /\ Number(e) = rd
      /\ Number(o) = op
  BY Whole
<1>4. 5 \in a <=> f7 = 32
  BY DEF Bits
<1> HIDE DEF a, b, c, d, e, o
<1>5. RRead(w, a, b, c, d, e, o)
  BY <1>2, RWord, Zenon
<1> HIDE DEF w
<1> QED  BY <1>1, <1>3, <1>4, <1>5, Zenon DEF RHas, RRead, opcode, funct3, funct7_b5

\* From one with a 12-bit immediate; a shift has its kind in bit 10 of it.
IHas(w, imm, rs1, f3, rd, op) ==
  /\ w \subseteq 0 .. 31 /\ opcode(w) = op /\ funct3(w) = f3
  /\ (funct7_b5(w) <=> (imm \div 1024) % 2 = 1)
  /\ Field(w, 11, 7) = rd /\ Field(w, 19, 15) = rs1
  /\ Field(w, 31, 20) = imm % 4096

LEMMA IFields ==
  ASSUME NEW imm \in Int, NEW rs1 \in 0 .. 31, NEW f3 \in 0 .. 7,
         NEW rd \in 0 .. 31, NEW op \in 0 .. 127
  PROVE  IHas(_i(imm, rs1, f3, rd, op), imm, rs1, f3, rd, op)
<1> DEFINE a == Bits(imm, 12)
           c == Bits(rs1, 5)
           d == Bits(f3, 3)
           e == Bits(rd, 5)
           o == Bits(op, 7)
           w == IMade(a, c, d, e, o)
<1>1. _i(imm, rs1, f3, rd, op) = w
  BY Zenon DEF _i, IMade, Opcode
<1>2. IParts(a, c, d, e, o)
  BY BitsIn, Zenon DEF IParts
<1>3. /\ Number(c) = rs1 /\ Number(d) = f3 /\ Number(e) = rd /\ Number(o) = op
  BY Whole
<1>4. 10 \in a <=> (imm \div 1024) % 2 = 1
  BY SMT DEF Bits
<1>5. Number(a) = imm % 4096
  <2>1. Number(a) = imm % 2^12
    BY FieldsOf, Zenon
  <2> QED  BY <2>1, SMT
<1> HIDE DEF a, c, d, e, o
<1>6. IRead(w, a, c, d, e, o)
  BY <1>2, IWord, Zenon
<1> HIDE DEF w
<1>7. /\ w \subseteq 0 .. 31 /\ opcode(w) = op /\ funct3(w) = f3
      /\ (funct7_b5(w) <=> 10 \in a)
      /\ Field(w, 11, 7) = rd /\ Field(w, 19, 15) = rs1
      /\ Field(w, 31, 20) = Number(a)
  BY <1>3, <1>6, Zenon DEF IRead, opcode, funct3, funct7_b5
<1> QED  BY <1>1, <1>4, <1>5, <1>7, SMT DEF IHas

\* From one with an upper immediate.
UHas(w, imm, rd, op) ==
  /\ w \subseteq 0 .. 31 /\ opcode(w) = op
  /\ Field(w, 11, 7) = rd /\ imm_u(w) = imm

LEMMA UFields ==
  ASSUME NEW imm \in Nat, imm < 2^20, NEW rd \in 0 .. 31, NEW op \in 0 .. 127
  PROVE  UHas(_u(imm, rd, op), imm, rd, op)
<1> DEFINE a == Bits(imm, 20)
           e == Bits(rd, 5)
           o == Bits(op, 7)
           w == UMade(a, e, o)
<1>1. _u(imm, rd, op) = w
  BY Zenon DEF _u, UMade, Opcode
<1>2. UParts(a, e, o)
  BY BitsIn, Zenon DEF UParts
<1>3. Number(e) = rd /\ Number(o) = op
  BY Whole
<1>4. Number(a) = imm
  <2>1. imm \in Int
    OBVIOUS
  <2>2. Number(a) = imm % 2^20
    BY <2>1, FieldsOf, Zenon
  <2> QED  BY <2>2, SMT
<1> HIDE DEF a, e, o
<1>5. URead(w, a, e, o)
  BY <1>2, UWord, Zenon
<1> HIDE DEF w
<1> QED  BY <1>1, <1>3, <1>4, <1>5, Zenon DEF UHas, URead, opcode, imm_u

\* From a store, whose immediate is in two pieces.
SHas(w, rs2, rs1, f3, imm) ==
  /\ w \subseteq 0 .. 31 /\ opcode(w) = OP_STORE /\ funct3(w) = f3
  /\ Field(w, 19, 15) = rs1 /\ Field(w, 24, 20) = rs2 /\ imm_s(w) = imm

LEMMA SFields ==
  ASSUME NEW rs2 \in 0 .. 31, NEW rs1 \in 0 .. 31, NEW f3 \in 0 .. 7,
         NEW imm \in Int, -2^11 <= imm, imm < 2^11
  PROVE  SHas(_store(rs2, rs1, f3, imm), rs2, rs1, f3, imm)
<1> DEFINE a == Bits(imm \div 2^5, 7)
           b == Bits(rs2, 5)
           c == Bits(rs1, 5)
           d == Bits(f3, 3)
           e == Bits(imm, 5)
           o == Bits(OP_STORE, 7)
           w == RMade(a, b, c, d, e, o)
<1>1. _store(rs2, rs1, f3, imm) = w
  <2>1. 11 - 5 + 1 = 7
    OBVIOUS
  <2> QED  BY <2>1, Zenon DEF _store, RMade, Slice, Opcode
<1>2. RParts(a, b, c, d, e, o)
  BY BitsIn, Zenon DEF RParts
<1>3. Number(b) = rs2 /\ Number(c) = rs1 /\ Number(d) = f3 /\ Number(o) = OP_STORE
  BY Whole DEF OP_STORE
<1>4. Number(e) = imm % 32
  <2>1. imm \in Int
    OBVIOUS
  <2> QED  BY <2>1, FieldsOf, Zenon
<1>5. Number(a) = (imm \div 32) % 128
  <2>1. imm \div 2^5 \in Int /\ imm \div 2^5 = imm \div 32
    BY SMT
  <2>2. Number(a) = (imm \div 2^5) % 128
    BY <2>1, FieldsOf, Zenon
  <2> QED  BY <2>1, <2>2, Zenon
<1> HIDE DEF a, b, c, d, e, o
<1>6. RRead(w, a, b, c, d, e, o)
  BY <1>2, RWord, Zenon
<1> HIDE DEF w
<1>7. imm_s(w) = imm
  BY <1>4, <1>5, <1>6, SMT DEF RRead, imm_s, Signed
<1> QED  BY <1>1, <1>3, <1>6, <1>7, Zenon DEF SHas, RRead, opcode, funct3

\* From a branch and a jump: the low byte of the offset, put together from its pieces.
BHas(w, f3, rs1, rs2, off) ==
  /\ w \subseteq 0 .. 31 /\ opcode(w) = OP_BRANCH /\ funct3(w) = f3
  /\ Field(w, 19, 15) = rs1 /\ Field(w, 24, 20) = rs2 /\ imm_b(w) = BusAddr(off)

LEMMA BFields ==
  ASSUME NEW f3 \in 0 .. 7, NEW rs1 \in 0 .. 31, NEW rs2 \in 0 .. 31, NEW off \in Int,
         off % 2 = 0
  PROVE  BHas(BranchWord(f3, rs1, rs2, off), f3, rs1, rs2, off)
<1> DEFINE p == Bits(off \div 2^12, 1)
           a == Bits(off \div 2^5, 6)
           b == Bits(rs2, 5)
           c == Bits(rs1, 5)
           d == Bits(f3, 3)
           e == Bits(off \div 2^1, 4)
           q == Bits(off \div 2^11, 1)
           o == Bits(OP_BRANCH, 7)
           l == Bits(off \div 2^5, 3)
           w == BMade(p, a, b, c, d, e, q, o)
<1>1. BranchWord(f3, rs1, rs2, off) = w
  <2>1. 12 - 12 + 1 = 1 /\ 10 - 5 + 1 = 6 /\ 4 - 1 + 1 = 4 /\ 11 - 11 + 1 = 1
    OBVIOUS
  <2> QED  BY <2>1, Zenon DEF BranchWord, BMade, Slice, Opcode
<1>2. BParts(p, a, b, c, d, e, q, o, l)
  <2>1. \A k \in 0 .. 2 : k \in l <=> k \in a
    BY DEF Bits
  <2> QED  BY <2>1, BitsIn, Zenon DEF BParts
<1>3. Number(b) = rs2 /\ Number(c) = rs1 /\ Number(d) = f3 /\ Number(o) = OP_BRANCH
  BY Whole DEF OP_BRANCH
<1>4. Number(l) = (off \div 32) % 8 /\ Number(e) = (off \div 2) % 16
  <2>1. /\ off \div 2^5 \in Int /\ off \div 2^1 \in Int
        /\ off \div 2^5 = off \div 32 /\ off \div 2^1 = off \div 2
    BY SMT
  <2>2. Number(l) = (off \div 2^5) % 8
    BY <2>1, FieldsOf, Zenon
  <2>3. Number(e) = (off \div 2^1) % 16
    BY <2>1, FieldsOf, Zenon
  <2> QED  BY <2>1, <2>2, <2>3, Zenon
<1> HIDE DEF p, a, b, c, d, e, q, o, l
<1>5. BRead(w, p, a, b, c, d, e, q, o, l)
  BY <1>2, BWord, Zenon
<1> HIDE DEF w
<1>6. imm_b(w) = BusAddr(off)
  BY <1>4, <1>5, SMT DEF BRead, imm_b, BusAddr
<1> QED  BY <1>1, <1>3, <1>5, <1>6, Zenon DEF BHas, BRead, opcode, funct3

JHas(w, rd, off) ==
  /\ w \subseteq 0 .. 31 /\ opcode(w) = OP_JAL
  /\ Field(w, 11, 7) = rd /\ imm_j(w) = BusAddr(off)

LEMMA JFields ==
  ASSUME NEW rd \in 0 .. 31, NEW off \in Int, off % 2 = 0
  PROVE  JHas(JalWord(rd, off), rd, off)
<1> DEFINE p == Bits(off \div 2^20, 1)
           a == Bits(off \div 2^1, 10)
           q == Bits(off \div 2^11, 1)
           b == Bits(off \div 2^12, 8)
           e == Bits(rd, 5)
           o == Bits(OP_JAL, 7)
           l == Bits(off \div 2^1, 7)
           w == JMade(p, a, q, b, e, o)
<1>1. JalWord(rd, off) = w
  <2>1. 20 - 20 + 1 = 1 /\ 10 - 1 + 1 = 10 /\ 11 - 11 + 1 = 1 /\ 19 - 12 + 1 = 8
    OBVIOUS
  <2> QED  BY <2>1, Zenon DEF JalWord, JMade, Slice, Opcode
<1>2. JParts(p, a, q, b, e, o, l)
  <2>1. \A k \in 0 .. 6 : k \in l <=> k \in a
    BY DEF Bits
  <2> QED  BY <2>1, BitsIn, Zenon DEF JParts
<1>3. Number(e) = rd /\ Number(o) = OP_JAL
  BY Whole DEF OP_JAL
<1>4. Number(l) = (off \div 2) % 128
  <2>1. off \div 2^1 \in Int /\ off \div 2^1 = off \div 2
    BY SMT
  <2>2. Number(l) = (off \div 2^1) % 128
    BY <2>1, FieldsOf, Zenon
  <2> QED  BY <2>1, <2>2, Zenon
<1> HIDE DEF p, a, q, b, e, o, l
<1>5. JRead(w, p, a, q, b, e, o, l)
  BY <1>2, JWord, Zenon
<1> HIDE DEF w
<1>6. imm_j(w) = BusAddr(off)
  BY <1>4, <1>5, SMT DEF JRead, imm_j, BusAddr
<1> QED  BY <1>1, <1>3, <1>5, <1>6, Zenon DEF JHas, JRead, opcode

--------------------------------------------------------------------------------
(* The mnemonics                                                           *)

\* The tables of the assembler and of the decoder, form by form.
LEMMA RegTable ==
  ASSUME NEW m \in DOMAIN RegForms
  PROVE  /\ RegForms[m][1] \in {0, 32} /\ RegForms[m][2] \in 0 .. 7
         /\ RegForms[m][1] = 0 => m = RegOps[RegForms[m][2] + 1]
         /\ RegForms[m][1] = 32 => \/ RegForms[m][2] = 0 /\ m = "SUB"
                                   \/ RegForms[m][2] = 5 /\ m = "SRA"
  BY DEF RegForms, RegOps

LEMMA ImmTable ==
  ASSUME NEW m \in DOMAIN ImmForms
  PROVE  /\ ImmForms[m] \in {0, 2, 3, 4, 6, 7} /\ m = ImmOps[ImmForms[m] + 1]
         /\ m \notin Shifts
  BY DEF ImmForms, ImmOps, Shifts

LEMMA ShiftTable ==
  ASSUME NEW m \in DOMAIN ShiftForms
  PROVE  /\ m \in Shifts
         /\ \/ ShiftForms[m] = <<0, 1>> /\ m = "SLLI"
            \/ ShiftForms[m] = <<0, 5>> /\ m = "SRLI"
            \/ ShiftForms[m] = <<1024, 5>> /\ m = "SRAI"
  BY SMT DEF ShiftForms, Shifts

LEMMA LoadTable ==
  ASSUME NEW m \in DOMAIN LoadForms
  PROVE  LoadForms[m] \in 0 .. 7 /\ m = LoadOps[LoadForms[m] + 1]
  BY DEF LoadForms, LoadOps

LEMMA StoreTable ==
  ASSUME NEW m \in DOMAIN StoreForms
  PROVE  StoreForms[m] \in 0 .. 7 /\ m = StoreOps[StoreForms[m] + 1]
  BY DEF StoreForms, StoreOps

LEMMA BranchTable ==
  ASSUME NEW m \in DOMAIN BranchForms
  PROVE  BranchForms[m] \in 0 .. 7 /\ m = BranchOps[BranchForms[m] + 1]
  BY DEF BranchForms, BranchOps

\* The opcode chooses the form.
LEMMA Forms ==
  ASSUME NEW w
  PROVE  /\ opcode(w) = OP_IMM =>
              Decoded(w) = Instruction(AluOp(w), Field(w, 11, 7), Field(w, 19, 15), 0,
                             IF AluOp(w) \in Shifts THEN imm_i(w) % 32 ELSE imm_i(w))
         /\ opcode(w) = OP_REG =>
              Decoded(w) = Instruction(AluOp(w), Field(w, 11, 7), Field(w, 19, 15),
                                       Field(w, 24, 20), 0)
         /\ opcode(w) = OP_LOAD =>
              Decoded(w) = Instruction(LoadOps[funct3(w) + 1], Field(w, 11, 7),
                                       Field(w, 19, 15), 0, imm_i(w))
         /\ opcode(w) = OP_STORE =>
              Decoded(w) = Instruction(StoreOps[funct3(w) + 1], 0, Field(w, 19, 15),
                                       Field(w, 24, 20), imm_s(w))
         /\ opcode(w) = OP_BRANCH =>
              Decoded(w) = Instruction(BranchOps[funct3(w) + 1], 0, Field(w, 19, 15),
                                       Field(w, 24, 20), imm_b(w))
         /\ opcode(w) = OP_JAL =>
              Decoded(w) = Instruction("JAL", Field(w, 11, 7), 0, 0, imm_j(w))
         /\ opcode(w) = OP_JALR =>
              Decoded(w) = Instruction("JALR", Field(w, 11, 7), Field(w, 19, 15), 0, imm_i(w))
         /\ opcode(w) = OP_LUI =>
              Decoded(w) = Instruction("LUI", Field(w, 11, 7), 0, 0, imm_u(w))
         /\ opcode(w) = OP_AUIPC =>
              Decoded(w) = Instruction("AUIPC", Field(w, 11, 7), 0, 0, imm_u(w))
         /\ opcode(w) = OP_SYSTEM /\ funct3(w) = 0 /\ Field(w, 31, 20) = 1 =>
              Decoded(w) = Instruction("EBREAK", 0, 0, 0, 0)
  BY SMT DEF Decoded, OP_IMM, OP_REG, OP_LOAD, OP_STORE, OP_BRANCH, OP_JAL, OP_JALR,
             OP_LUI, OP_AUIPC, OP_SYSTEM

\* A word that is an instruction.
Reads(w, i) == w \subseteq 0 .. 31 /\ Decoded(w) = i

\* Form by form: the word is the instruction.
LEMMA RegReads ==
  ASSUME NEW m \in DOMAIN RegForms,
         NEW rd \in 0 .. 31, NEW rs1 \in 0 .. 31, NEW rs2 \in 0 .. 31
  PROVE  Reads(_r(RegForms[m][1], rs2, rs1, RegForms[m][2], rd, OP_REG),
               Instruction(m, rd, rs1, rs2, 0))
<1> DEFINE f7 == RegForms[m][1]
           f3 == RegForms[m][2]
           w  == _r(f7, rs2, rs1, f3, rd, OP_REG)
<1>1. /\ f7 \in {0, 32} /\ f3 \in 0 .. 7
      /\ f7 = 0 => m = RegOps[f3 + 1]
      /\ f7 = 32 => \/ f3 = 0 /\ m = "SUB"
                    \/ f3 = 5 /\ m = "SRA"
  BY RegTable
<1>2. OP_REG \in 0 .. 127 /\ OP_REG # OP_IMM
  BY DEF OP_REG, OP_IMM
<1> HIDE DEF f7, f3
<1>3. RHas(w, f7, rs2, rs1, f3, rd, OP_REG)
  BY <1>1, <1>2, RFields, Zenon
<1> HIDE DEF w
<1>4. AluOp(w) = m
  BY <1>1, <1>2, <1>3 DEF AluOp, RHas
<1>5. Decoded(w) = Instruction(m, rd, rs1, rs2, 0)
  BY <1>3, <1>4, Forms, Zenon DEF RHas
<1> QED  BY <1>3, <1>5, Zenon DEF Reads, RHas, w, f7, f3

LEMMA ImmReads ==
  ASSUME NEW m \in DOMAIN ImmForms, NEW rd \in 0 .. 31, NEW rs1 \in 0 .. 31,
         NEW imm \in Int, -2^11 <= imm, imm < 2^11
  PROVE  Reads(_i(imm, rs1, ImmForms[m], rd, OP_IMM), Instruction(m, rd, rs1, 0, imm))
<1> DEFINE f3 == ImmForms[m]
           w  == _i(imm, rs1, f3, rd, OP_IMM)
<1>1. f3 \in 0 .. 7 /\ f3 # 5 /\ m = ImmOps[f3 + 1] /\ m \notin Shifts
  BY ImmTable
<1>2. OP_IMM \in 0 .. 127
  BY DEF OP_IMM
<1> HIDE DEF f3
<1>3. IHas(w, imm, rs1, f3, rd, OP_IMM)
  BY <1>1, <1>2, IFields, Zenon
<1> HIDE DEF w
<1>4. /\ w \subseteq 0 .. 31 /\ opcode(w) = OP_IMM /\ funct3(w) = f3
      /\ Field(w, 11, 7) = rd /\ Field(w, 19, 15) = rs1
  BY <1>3, SMT DEF IHas
<1>5. AluOp(w) = m
  BY <1>1, <1>4, Zenon DEF AluOp
<1>6. imm_i(w) = imm
  BY <1>3, SMT DEF IHas, imm_i, Signed
<1>7. (IF AluOp(w) \in Shifts THEN imm_i(w) % 32 ELSE imm_i(w)) = imm
  BY <1>1, <1>5, <1>6, Zenon
<1>8. Decoded(w) = Instruction(m, rd, rs1, 0, imm)
  BY <1>4, <1>5, <1>7, Forms, Zenon
<1> QED  BY <1>4, <1>8, Zenon DEF Reads, w, f3

LEMMA ShiftReads ==
  ASSUME NEW m \in DOMAIN ShiftForms, NEW rd \in 0 .. 31, NEW rs1 \in 0 .. 31,
         NEW sh \in 0 .. 31
  PROVE  Reads(_i(ShiftForms[m][1] + (sh % 32), rs1, ShiftForms[m][2], rd, OP_IMM),
               Instruction(m, rd, rs1, 0, sh))
<1> DEFINE imm == ShiftForms[m][1] + (sh % 32)
           f3  == ShiftForms[m][2]
           w   == _i(imm, rs1, f3, rd, OP_IMM)
<1>1. \/ imm = sh /\ f3 = 1 /\ m = "SLLI"
      \/ imm = sh /\ f3 = 5 /\ m = "SRLI"
      \/ imm = 1024 + sh /\ f3 = 5 /\ m = "SRAI"
  BY ShiftTable, SMT
<1>2. imm \in Int /\ f3 \in 0 .. 7 /\ OP_IMM \in 0 .. 127
  BY <1>1, SMT DEF OP_IMM
<1> HIDE DEF imm, f3
<1>3. IHas(w, imm, rs1, f3, rd, OP_IMM)
  BY <1>2, IFields, Zenon
<1> HIDE DEF w
<1>4. /\ w \subseteq 0 .. 31 /\ opcode(w) = OP_IMM /\ funct3(w) = f3
      /\ Field(w, 11, 7) = rd /\ Field(w, 19, 15) = rs1
  BY <1>3, SMT DEF IHas
<1>5. funct7_b5(w) <=> m = "SRAI"
  BY <1>1, <1>3, SMT DEF IHas
<1>6. AluOp(w) = m
  <2>1. ImmOps[2] = "SLLI" /\ ImmOps[6] = "SRLI"
    BY DEF ImmOps
  <2>2. (f3 = 1 => f3 + 1 = 2 /\ f3 # 5) /\ (f3 = 5 => f3 + 1 = 6)
    OBVIOUS
  <2>3. \/ f3 = 1 /\ m = "SLLI"
        \/ f3 = 5 /\ m = "SRLI"
        \/ f3 = 5 /\ m = "SRAI"
    BY <1>1, SMT
  <2> QED  BY <1>4, <1>5, <2>1, <2>2, <2>3 DEF AluOp
<1>7. m \in Shifts
  BY ShiftTable
<1>8. imm_i(w) % 32 = sh
  BY <1>1, <1>3, SMT DEF IHas, imm_i, Signed
<1>9. (IF AluOp(w) \in Shifts THEN imm_i(w) % 32 ELSE imm_i(w)) = sh
  BY <1>6, <1>7, <1>8, Zenon
<1>10. Decoded(w) = Instruction(m, rd, rs1, 0, sh)
  BY <1>4, <1>6, <1>9, Forms, Zenon
<1> QED  BY <1>4, <1>10, Zenon DEF Reads, w, imm, f3

LEMMA LoadReads ==
  ASSUME NEW m \in DOMAIN LoadForms, NEW rd \in 0 .. 31, NEW rs1 \in 0 .. 31,
         NEW imm \in Int, -2^11 <= imm, imm < 2^11
  PROVE  Reads(_i(imm, rs1, LoadForms[m], rd, OP_LOAD), Instruction(m, rd, rs1, 0, imm))
<1> DEFINE f3 == LoadForms[m]
           w  == _i(imm, rs1, f3, rd, OP_LOAD)
<1>1. f3 \in 0 .. 7 /\ m = LoadOps[f3 + 1]
  BY LoadTable
<1>2. OP_LOAD \in 0 .. 127
  BY DEF OP_LOAD
<1> HIDE DEF f3
<1>3. IHas(w, imm, rs1, f3, rd, OP_LOAD)
  BY <1>1, <1>2, IFields, Zenon
<1> HIDE DEF w
<1>4. /\ w \subseteq 0 .. 31 /\ opcode(w) = OP_LOAD /\ funct3(w) = f3
      /\ Field(w, 11, 7) = rd /\ Field(w, 19, 15) = rs1
  BY <1>3, SMT DEF IHas
<1>5. imm_i(w) = imm
  BY <1>3, SMT DEF IHas, imm_i, Signed
<1>6. Decoded(w) = Instruction(m, rd, rs1, 0, imm)
  BY <1>1, <1>4, <1>5, Forms, Zenon
<1> QED  BY <1>4, <1>6, Zenon DEF Reads, w, f3

LEMMA JalrReads ==
  ASSUME NEW rd \in 0 .. 31, NEW rs1 \in 0 .. 31,
         NEW imm \in Int, -2^11 <= imm, imm < 2^11
  PROVE  Reads(_i(imm, rs1, 0, rd, OP_JALR), Instruction("JALR", rd, rs1, 0, imm))
<1> DEFINE w == _i(imm, rs1, 0, rd, OP_JALR)
<1>1. OP_JALR \in 0 .. 127 /\ 0 \in 0 .. 7
  BY DEF OP_JALR
<1>2. IHas(w, imm, rs1, 0, rd, OP_JALR)
  BY <1>1, IFields, Zenon
<1> HIDE DEF w
<1>3. /\ w \subseteq 0 .. 31 /\ opcode(w) = OP_JALR
      /\ Field(w, 11, 7) = rd /\ Field(w, 19, 15) = rs1
  BY <1>2, SMT DEF IHas
<1>4. imm_i(w) = imm
  BY <1>2, SMT DEF IHas, imm_i, Signed
<1>5. Decoded(w) = Instruction("JALR", rd, rs1, 0, imm)
  BY <1>3, <1>4, Forms, Zenon
<1> QED  BY <1>3, <1>5, Zenon DEF Reads, w

LEMMA EbreakReads == Reads(_i(1, 0, 0, 0, OP_SYSTEM), Instruction("EBREAK", 0, 0, 0, 0))
<1> DEFINE w == _i(1, 0, 0, 0, OP_SYSTEM)
<1>1. OP_SYSTEM \in 0 .. 127 /\ 0 \in 0 .. 7 /\ 0 \in 0 .. 31 /\ 1 \in Int
  BY DEF OP_SYSTEM
<1>2. IHas(w, 1, 0, 0, 0, OP_SYSTEM)
  BY <1>1, IFields, Zenon
<1> HIDE DEF w
<1>3. w \subseteq 0 .. 31 /\ opcode(w) = OP_SYSTEM /\ funct3(w) = 0 /\ Field(w, 31, 20) = 1
  BY <1>2, SMT DEF IHas
<1>4. Decoded(w) = Instruction("EBREAK", 0, 0, 0, 0)
  BY <1>3, Forms, Zenon
<1> QED  BY <1>3, <1>4, Zenon DEF Reads, w

LEMMA StoreReads ==
  ASSUME NEW m \in DOMAIN StoreForms, NEW rs1 \in 0 .. 31, NEW rs2 \in 0 .. 31,
         NEW imm \in Int, -2^11 <= imm, imm < 2^11
  PROVE  Reads(_store(rs2, rs1, StoreForms[m], imm), Instruction(m, 0, rs1, rs2, imm))
<1> DEFINE f3 == StoreForms[m]
           w  == _store(rs2, rs1, f3, imm)
<1>1. f3 \in 0 .. 7 /\ m = StoreOps[f3 + 1]
  BY StoreTable
<1> HIDE DEF f3
<1>2. SHas(w, rs2, rs1, f3, imm)
  BY <1>1, SFields, Zenon
<1> HIDE DEF w
<1>3. Decoded(w) = Instruction(m, 0, rs1, rs2, imm)
  BY <1>1, <1>2, Forms, Zenon DEF SHas
<1> QED  BY <1>2, <1>3, Zenon DEF Reads, SHas, w, f3

LEMMA UpperReads ==
  ASSUME NEW m \in DOMAIN UpperForms, NEW rd \in 0 .. 31, NEW imm \in Nat, imm < 2^20
  PROVE  Reads(_u(imm, rd, UpperForms[m]), Instruction(m, rd, 0, 0, imm))
<1> DEFINE op == UpperForms[m]
           w  == _u(imm, rd, op)
<1>1. /\ op \in 0 .. 127
      /\ \/ op = OP_LUI /\ m = "LUI"
         \/ op = OP_AUIPC /\ m = "AUIPC"
  BY DEF UpperForms, OP_LUI, OP_AUIPC
<1> HIDE DEF op
<1>2. UHas(w, imm, rd, op)
  BY <1>1, UFields, Zenon
<1> HIDE DEF w
<1>3. Decoded(w) = Instruction(m, rd, 0, 0, imm)
  BY <1>1, <1>2, Forms, Zenon DEF UHas
<1> QED  BY <1>2, <1>3, Zenon DEF Reads, UHas, w, op

\* A branch and a jump: the instruction, and where it goes on the bus.
LEMMA BranchReads ==
  ASSUME NEW m \in DOMAIN BranchForms, NEW rs1 \in 0 .. 31, NEW rs2 \in 0 .. 31,
         NEW off \in Int, off % 2 = 0
  PROVE  Reads(BranchWord(BranchForms[m], rs1, rs2, off),
               Instruction(m, 0, rs1, rs2, BusAddr(off)))
<1> DEFINE f3 == BranchForms[m]
           w  == BranchWord(f3, rs1, rs2, off)
<1>1. f3 \in 0 .. 7 /\ m = BranchOps[f3 + 1]
  BY BranchTable
<1> HIDE DEF f3
<1>2. BHas(w, f3, rs1, rs2, off)
  BY <1>1, BFields, Zenon
<1> HIDE DEF w
<1>3. Decoded(w) = Instruction(m, 0, rs1, rs2, BusAddr(off))
  BY <1>1, <1>2, Forms, Zenon DEF BHas
<1> QED  BY <1>2, <1>3, Zenon DEF Reads, BHas, w, f3

LEMMA JalReads ==
  ASSUME NEW rd \in 0 .. 31, NEW off \in Int, off % 2 = 0
  PROVE  Reads(JalWord(rd, off), Instruction("JAL", rd, 0, 0, BusAddr(off)))
<1> DEFINE w == JalWord(rd, off)
<1>1. JHas(w, rd, off)
  BY JFields, Zenon
<1> HIDE DEF w
<1>2. Decoded(w) = Instruction("JAL", rd, 0, 0, BusAddr(off))
  BY <1>1, Forms, Zenon DEF JHas
<1> QED  BY <1>1, <1>2, Zenon DEF Reads, JHas, w

\* Every instruction a script can ask for is encoded as what the core reads.
LEMMA EncodedReads ==
  ASSUME NEW i, Fits(i)
  PROVE  Reads(Encoded(i), i)
<1>0. /\ i = Instruction(i.m, i.rd, i.rs1, i.rs2, i.imm)
      /\ i.rd \in 0 .. 31 /\ i.rs1 \in 0 .. 31 /\ i.rs2 \in 0 .. 31
  BY Zenon DEF Fits
<1>1. CASE i.m \in DOMAIN RegForms /\ i.imm = 0
  <2>1. Encoded(i) = _r(RegForms[i.m][1], i.rs2, i.rs1, RegForms[i.m][2], i.rd, OP_REG)
    BY <1>1 DEF Encoded, RegForms, ImmForms, ShiftForms, LoadForms, StoreForms, UpperForms
  <2> QED  BY <1>0, <1>1, <2>1, RegReads, Zenon
<1>2. CASE i.m \in DOMAIN ImmForms /\ i.imm \in Int /\ -2^11 <= i.imm /\ i.imm < 2^11 /\ i.rs2 = 0
  <2>1. Encoded(i) = _i(i.imm, i.rs1, ImmForms[i.m], i.rd, OP_IMM)
    BY <1>2 DEF Encoded, RegForms, ImmForms, ShiftForms, LoadForms, StoreForms, UpperForms
  <2> QED  BY <1>0, <1>2, <2>1, ImmReads, Zenon
<1>3. CASE i.m \in DOMAIN LoadForms /\ i.imm \in Int /\ -2^11 <= i.imm /\ i.imm < 2^11 /\ i.rs2 = 0
  <2>1. Encoded(i) = _i(i.imm, i.rs1, LoadForms[i.m], i.rd, OP_LOAD)
    BY <1>3 DEF Encoded, RegForms, ImmForms, ShiftForms, LoadForms, StoreForms, UpperForms
  <2> QED  BY <1>0, <1>3, <2>1, LoadReads, Zenon
<1>4. CASE i.m = "JALR" /\ i.imm \in Int /\ -2^11 <= i.imm /\ i.imm < 2^11 /\ i.rs2 = 0
  <2>1. Encoded(i) = _i(i.imm, i.rs1, 0, i.rd, OP_JALR)
    BY <1>4 DEF Encoded, RegForms, ImmForms, ShiftForms, LoadForms, StoreForms, UpperForms
  <2> QED  BY <1>0, <1>4, <2>1, JalrReads, Zenon
<1>5. CASE i.m \in DOMAIN ShiftForms /\ i.imm \in 0 .. 31 /\ i.rs2 = 0
  <2>1. Encoded(i) =
          _i(ShiftForms[i.m][1] + (i.imm % 32), i.rs1, ShiftForms[i.m][2], i.rd, OP_IMM)
    BY <1>5 DEF Encoded, RegForms, ImmForms, ShiftForms, LoadForms, StoreForms, UpperForms
  <2> DEFINE m == i.m
             rd == i.rd
             rs1 == i.rs1
             sh == i.imm
  <2>2. m \in DOMAIN ShiftForms /\ rd \in 0 .. 31 /\ rs1 \in 0 .. 31 /\ sh \in 0 .. 31
    BY <1>0, <1>5, Zenon
  <2> HIDE DEF m, rd, rs1, sh
  <2>3. Reads(_i(ShiftForms[m][1] + (sh % 32), rs1, ShiftForms[m][2], rd, OP_IMM),
              Instruction(m, rd, rs1, 0, sh))
    BY <2>2, ShiftReads, Zenon
  <2> QED  BY <1>0, <1>5, <2>1, <2>3, Zenon DEF m, rd, rs1, sh
<1>6. CASE i.m \in DOMAIN StoreForms /\ i.imm \in Int /\ -2^11 <= i.imm /\ i.imm < 2^11 /\ i.rd = 0
  <2>1. Encoded(i) = _store(i.rs2, i.rs1, StoreForms[i.m], i.imm)
    BY <1>6 DEF Encoded, RegForms, ImmForms, ShiftForms, LoadForms, StoreForms, UpperForms
  <2> QED  BY <1>0, <1>6, <2>1, StoreReads, Zenon
<1>7. CASE i.m \in DOMAIN UpperForms /\ i.imm \in Nat /\ i.imm < 2^20 /\ i.rs1 = 0 /\ i.rs2 = 0
  <2>1. Encoded(i) = _u(i.imm, i.rd, UpperForms[i.m])
    BY <1>7 DEF Encoded, RegForms, ImmForms, ShiftForms, LoadForms, StoreForms, UpperForms
  <2> QED  BY <1>0, <1>7, <2>1, UpperReads, Zenon
<1>8. CASE i = Instruction("EBREAK", 0, 0, 0, 0)
  <2>1. Encoded(i) = _i(1, 0, 0, 0, OP_SYSTEM)
    <3>1. i.m = "EBREAK"
      BY <1>8 DEF Instruction
    <3> QED
      BY <3>1 DEF Encoded, RegForms, ImmForms, ShiftForms, LoadForms, StoreForms, UpperForms
  <2> QED  BY <1>8, <2>1, EbreakReads, Zenon
<1> QED  BY <1>1, <1>2, <1>3, <1>4, <1>5, <1>6, <1>7, <1>8, Zenon DEF Fits

--------------------------------------------------------------------------------
(* Bytes                                                                   *)

\* The bytes of a word, put back where they were.
LEMMA BytesBack ==
  ASSUME NEW w, w \subseteq 0 .. 31, NEW bytes, bytes = BytesOf(w)
  PROVE  /\ UNION {Shl(bytes[k], 8 * k) : k \in 0 .. 3} = w
         /\ \A k \in 0 .. 3 : bytes[k] \subseteq 0 .. 7
<1>1. ASSUME NEW k \in 0 .. 3
      PROVE  /\ bytes[k] = {b - 8 * k : b \in w \cap (8 * k .. 8 * k + 7)}
             /\ bytes[k] \subseteq 0 .. 7
             /\ Shl(bytes[k], 8 * k) = w \cap (8 * k .. 8 * k + 7)
  <2>1. bytes[k] = {b - 8 * k : b \in w \cap (8 * k .. 8 * k + 7)}
    BY Zenon DEF BytesOf
  <2>2. ASSUME NEW b \in w \cap (8 * k .. 8 * k + 7)
        PROVE  b - 8 * k \in 0 .. 7 /\ (b - 8 * k) + 8 * k = b
    OBVIOUS
  <2>3. bytes[k] \subseteq 0 .. 7
    BY <2>1, <2>2
  <2>4. ASSUME NEW b \in w \cap (8 * k .. 8 * k + 7) PROVE b \in Shl(bytes[k], 8 * k)
    BY <2>1, <2>2, Zenon DEF Shl
  <2>5. ASSUME NEW b \in Shl(bytes[k], 8 * k) PROVE b \in w \cap (8 * k .. 8 * k + 7)
    <3>1. PICK j \in bytes[k] : b = j + 8 * k
      BY <2>5, Zenon DEF Shl
    <3>2. PICK c \in w \cap (8 * k .. 8 * k + 7) : j = c - 8 * k
      BY <2>1, <3>1, Zenon
    <3> QED  BY <2>2, <3>1, <3>2, Zenon
  <2> QED  BY <2>1, <2>3, <2>4, <2>5, Zenon
<1>2. ASSUME NEW b \in w PROVE \E k \in 0 .. 3 : b \in w \cap (8 * k .. 8 * k + 7)
  <2>1. b \in 0 .. 31
    OBVIOUS
  <2>2. CASE b < 8
    <3>1. b \in 8 * 0 .. 8 * 0 + 7
      BY <2>1, <2>2
    <3> QED  BY <3>1
  <2>3. CASE 8 <= b /\ b < 16
    <3>1. b \in 8 * 1 .. 8 * 1 + 7
      BY <2>1, <2>3
    <3> QED  BY <3>1
  <2>4. CASE 16 <= b /\ b < 24
    <3>1. b \in 8 * 2 .. 8 * 2 + 7
      BY <2>1, <2>4
    <3> QED  BY <3>1
  <2>5. CASE 24 <= b
    <3>1. b \in 8 * 3 .. 8 * 3 + 7
      BY <2>1, <2>5
    <3> QED  BY <3>1
  <2> QED  BY <2>1, <2>2, <2>3, <2>4, <2>5
<1> DEFINE all == UNION {Shl(bytes[k], 8 * k) : k \in 0 .. 3}
<1>3. ASSUME NEW b \in w PROVE b \in all
  <2>1. PICK k \in 0 .. 3 : b \in w \cap (8 * k .. 8 * k + 7)
    BY <1>2, Zenon
  <2>2. b \in Shl(bytes[k], 8 * k)
    BY <1>1, <2>1, Zenon
  <2> QED  BY <2>2, Zenon
<1>4. ASSUME NEW b \in all PROVE b \in w
  <2>1. PICK k \in 0 .. 3 : b \in Shl(bytes[k], 8 * k)
    BY Zenon
  <2> QED  BY <1>1, <2>1, Zenon
<1> QED  BY <1>1, <1>3, <1>4, Zenon

--------------------------------------------------------------------------------
(* The script                                                              *)

\* Where a function written over another has its values from.
LEMMA OverIs ==
  ASSUME NEW f, NEW g
  PROVE  /\ DOMAIN Over(f, g) = DOMAIN f \cup DOMAIN g
         /\ \A x \in DOMAIN g : Over(f, g)[x] = g[x]
         /\ \A x \in DOMAIN f : x \notin DOMAIN g => Over(f, g)[x] = f[x]
  BY Zenon DEF Over

\* The parts of an instruction.
LEMMA Parts ==
  ASSUME NEW m, NEW rd, NEW rs1, NEW rs2, NEW imm
  PROVE  /\ Instruction(m, rd, rs1, rs2, imm).m = m
         /\ Instruction(m, rd, rs1, rs2, imm).imm = imm
  BY DEF Instruction

\* What a call without a label asked for stands encoded at its place.
Asked ==
  \A q \in asked :
    /\ q.at \in DOMAIN words
    /\ \/ \E i \in Plain : q = [at |-> q.at, instr |-> i] /\ words[q.at] = Encoded(i)
       \/ q = [at |-> q.at, to |-> Entry] /\ words[q.at] = JalWord(0, Entry - PcOf(q.at))

\* A branch has its place to itself, and after finalize() its word.
Fixed ==
  \A f \in fixups :
    /\ f.at \in Nat /\ f.at < count /\ f.jump \in Jumps
    /\ \A q \in asked : q.at # f.at
    /\ \A g \in fixups : g.at = f.at => g = f
    /\ mode \in {"words", "image"} =>
         /\ f.target \in DOMAIN labels /\ Reaches(f)
         /\ f.at \in DOMAIN words /\ words[f.at] = FixedUp(f)

\* The image is the words with the patch, byte by byte.
Written ==
  image = IF mode = "image" THEN [at \in DOMAIN Patched |-> BytesOf(Patched[at])] ELSE << >>

\* The inductive invariant.
IInv == TypeOK /\ Asked /\ Fixed /\ Written

\* On eight address bits.
LEMMA Wraps ==
  ASSUME NEW p \in Int, NEW t \in Int
  PROVE  BusAddr(p + BusAddr(t - p)) = BusAddr(t)
  BY DEF BusAddr

\* The jump of a trampoline, and of the boot ROM's last instruction.
LEMMA ToEntry ==
  ASSUME NEW at \in Nat, base \in Bases
  PROVE  /\ PcOf(at) \in Int
         /\ Reads(JalWord(0, Entry - PcOf(at)),
                  Instruction("JAL", 0, 0, 0, BusAddr(Entry - PcOf(at))))
         /\ BusAddr(PcOf(at) + BusAddr(Entry - PcOf(at))) = BusAddr(Entry)
<1>1. Entry \in Nat /\ base \in Nat /\ Entry % 4 = 0 /\ base % 4 = 0
  BY AsmAssumption, Zenon
<1>2. PcOf(at) \in Int /\ Entry - PcOf(at) \in Int /\ (Entry - PcOf(at)) % 2 = 0
  BY <1>1 DEF PcOf
<1>3. BusAddr(PcOf(at) + BusAddr(Entry - PcOf(at))) = BusAddr(Entry)
  <2>1. Entry \in Int
    BY <1>1
  <2> QED  BY <1>2, <2>1, Wraps, Zenon
<1>4. 0 \in 0 .. 31
  OBVIOUS
<1> QED  BY <1>2, <1>3, <1>4, JalReads, Zenon

\* The word finalize() gives a branch.
LEMMA FixedReads ==
  ASSUME NEW f, f.jump \in Jumps, f.at \in Nat, base \in Bases,
         labels[f.target] \in Int, Reaches(f)
  PROVE  /\ Reads(FixedUp(f), Instruction(f.jump.m, f.jump.rd, f.jump.rs1, f.jump.rs2,
                                          BusAddr(Offset(f))))
         /\ BusAddr(PcOf(f.at) + BusAddr(Offset(f))) = BusAddr(labels[f.target])
<1>1. base \in Nat /\ IsJump(f.jump)
  BY AsmAssumption, Zenon
<1>2. PcOf(f.at) \in Int /\ Offset(f) \in Int /\ Offset(f) = labels[f.target] - PcOf(f.at)
  BY <1>1 DEF PcOf, Offset
<1>3. Offset(f) % 2 = 0
  BY SMT DEF Reaches
<1>4. BusAddr(PcOf(f.at) + BusAddr(Offset(f))) = BusAddr(labels[f.target])
  BY <1>2 DEF BusAddr
<1>5. CASE /\ f.jump.m \in DOMAIN BranchForms /\ f.jump.rd = 0
           /\ f.jump.rs1 \in 0 .. 31 /\ f.jump.rs2 \in 0 .. 31
  <2>1. f.jump.m # "JAL"
    BY <1>5 DEF BranchForms
  <2>2. FixedUp(f) = BranchWord(BranchForms[f.jump.m], f.jump.rs1, f.jump.rs2, Offset(f))
    BY <2>1, Zenon DEF FixedUp
  <2>3. Reads(BranchWord(BranchForms[f.jump.m], f.jump.rs1, f.jump.rs2, Offset(f)),
              Instruction(f.jump.m, 0, f.jump.rs1, f.jump.rs2, BusAddr(Offset(f))))
    <3> DEFINE m == f.jump.m
               rs1 == f.jump.rs1
               rs2 == f.jump.rs2
               off == Offset(f)
    <3>1. /\ m \in DOMAIN BranchForms /\ rs1 \in 0 .. 31 /\ rs2 \in 0 .. 31
          /\ off \in Int /\ off % 2 = 0
      BY <1>2, <1>3, <1>5, Zenon
    <3> HIDE DEF m, rs1, rs2, off
    <3>2. Reads(BranchWord(BranchForms[m], rs1, rs2, off),
                Instruction(m, 0, rs1, rs2, BusAddr(off)))
      BY <3>1, BranchReads
    <3> QED  BY <3>2, Zenon DEF m, rs1, rs2, off
  <2> QED  BY <1>4, <1>5, <2>2, <2>3, Zenon
<1>6. CASE f.jump.m = "JAL" /\ f.jump.rd \in 0 .. 31 /\ f.jump.rs1 = 0 /\ f.jump.rs2 = 0
  <2>1. FixedUp(f) = JalWord(f.jump.rd, Offset(f))
    BY <1>6, Zenon DEF FixedUp
  <2> QED  BY <1>2, <1>3, <1>4, <1>6, <2>1, JalReads, Zenon
<1>7. \/ /\ f.jump.m \in DOMAIN BranchForms /\ f.jump.rd = 0
         /\ f.jump.rs1 \in 0 .. 31 /\ f.jump.rs2 \in 0 .. 31
      \/ f.jump.m = "JAL" /\ f.jump.rd \in 0 .. 31 /\ f.jump.rs1 = 0 /\ f.jump.rs2 = 0
  BY <1>1, Zenon DEF IsJump
<1> QED  BY <1>5, <1>6, <1>7

\* The words as they are written out.
LEMMA PatchedIs ==
  ASSUME IInv
  PROVE  /\ RunAt \subseteq Nat
         /\ DOMAIN Patched = DOMAIN words \cup RunAt
         /\ \A at \in RunAt : Patched[at] = JalWord(0, Entry - PcOf(at))
         /\ \A at \in DOMAIN words : at \notin RunAt => Patched[at] = words[at]
         /\ \A at \in DOMAIN Patched : Patched[at] \subseteq 0 .. 31
<1>1. RunAt \subseteq Nat
  BY Zenon DEF RunAt, IInv, Fixed
<1> DEFINE g == [at \in RunAt |-> JalWord(0, Entry - PcOf(at))]
<1>2. Patched = Over(words, g)
  BY Zenon DEF Patched
<1>3. DOMAIN g = RunAt /\ \A at \in RunAt : g[at] = JalWord(0, Entry - PcOf(at))
  BY Zenon
<1> HIDE DEF g
<1>3a. /\ DOMAIN Over(words, g) = DOMAIN words \cup DOMAIN g
       /\ \A x \in DOMAIN g : Over(words, g)[x] = g[x]
       /\ \A x \in DOMAIN words : x \notin DOMAIN g => Over(words, g)[x] = words[x]
  BY OverIs, Zenon
<1>4. /\ DOMAIN Patched = DOMAIN words \cup RunAt
      /\ \A at \in RunAt : Patched[at] = JalWord(0, Entry - PcOf(at))
      /\ \A at \in DOMAIN words : at \notin RunAt => Patched[at] = words[at]
  BY <1>2, <1>3, <1>3a, Zenon
<1>5. ASSUME NEW at \in DOMAIN Patched PROVE Patched[at] \subseteq 0 .. 31
  <2>1. CASE at \in RunAt
    <3>1. base \in Bases /\ at \in Nat
      BY <1>1, <2>1, Zenon DEF IInv, TypeOK
    <3>2. JalWord(0, Entry - PcOf(at)) \subseteq 0 .. 31
      BY <3>1, ToEntry, Zenon DEF Reads
    <3> QED  BY <1>4, <2>1, <3>2, Zenon
  <2>2. CASE at \notin RunAt
    BY <1>4, <2>2, Zenon DEF IInv, TypeOK
  <2> QED  BY <2>1, <2>2
<1> QED  BY <1>1, <1>4, <1>5, Zenon

\* The core fetches the word that was written.
LEMMA FetchedIs ==
  ASSUME IInv, mode = "image", NEW at \in DOMAIN Patched
  PROVE  Fetched(at) = Patched[at]
<1>1. image[at] = BytesOf(Patched[at])
  BY Zenon DEF IInv, Written
<1>2. Patched[at] \subseteq 0 .. 31
  BY PatchedIs, Zenon
<1>3. UNION {Shl(image[at][k], 8 * k) : k \in 0 .. 3} = Patched[at]
  BY <1>1, <1>2, BytesBack
<1> QED  BY <1>3, Zenon DEF Fetched

\* So what the core executes is what was asked for.
LEMMA Executes == IInv => ExecutesAsAsked
<1> SUFFICES ASSUME IInv, mode = "image" PROVE ExecutesAsAsked
  BY Zenon DEF ExecutesAsAsked
<1>0. base \in Bases
  BY Zenon DEF IInv, TypeOK
<1>1. ASSUME NEW at \in DOMAIN Patched, NEW i, Reads(Patched[at], i)
      PROVE  Decoded(Fetched(at)) = i
  BY <1>1, FetchedIs, Zenon DEF Reads
<1>2. ASSUME NEW at \in Nat, at \in DOMAIN Patched, Patched[at] = JalWord(0, Entry - PcOf(at))
      PROVE  Decoded(Fetched(at)).m = "JAL" /\ GoesTo(at) = BusAddr(Entry)
  <2> DEFINE off == BusAddr(Entry - PcOf(at))
  <2>1. /\ Reads(JalWord(0, Entry - PcOf(at)), Instruction("JAL", 0, 0, 0, off))
        /\ BusAddr(PcOf(at) + off) = BusAddr(Entry)
    BY <1>0, <1>2, ToEntry
  <2> HIDE DEF off
  <2>2. Decoded(Fetched(at)) = Instruction("JAL", 0, 0, 0, off)
    BY <1>1, <1>2, <2>1, Zenon
  <2>3. Decoded(Fetched(at)).m = "JAL" /\ Decoded(Fetched(at)).imm = off
    BY <2>2, Parts
  <2> QED  BY <2>1, <2>3, Zenon DEF GoesTo
<1>3. ASSUME NEW q \in asked, q.at \notin RunAt
      PROVE  IF "to" \in DOMAIN q
               THEN Decoded(Fetched(q.at)).m = "JAL" /\ GoesTo(q.at) = BusAddr(q.to)
               ELSE Decoded(Fetched(q.at)) = q.instr
  <2>1. q.at \in DOMAIN words /\ q.at \in DOMAIN Patched /\ Patched[q.at] = words[q.at]
    BY <1>3, PatchedIs, Zenon DEF IInv, Asked
  <2>2. q.at \in Nat
    BY <2>1 DEF IInv, TypeOK
  <2>3. ASSUME NEW i \in Plain, q = [at |-> q.at, instr |-> i], words[q.at] = Encoded(i)
        PROVE  "to" \notin DOMAIN q /\ Decoded(Fetched(q.at)) = q.instr
    <3>1. "to" \notin DOMAIN q /\ q.instr = i
      <4> DEFINE at == q.at
      <4>1. q = [at |-> at, instr |-> i]
        BY <2>3
      <4> HIDE DEF at
      <4> QED  BY <4>1
    <3>2. Reads(Patched[q.at], i)
      BY <2>1, <2>3, AsmAssumption, EncodedReads, Zenon
    <3> QED  BY <1>1, <2>1, <3>1, <3>2, Zenon
  <2>4. ASSUME q = [at |-> q.at, to |-> Entry], words[q.at] = JalWord(0, Entry - PcOf(q.at))
        PROVE  /\ "to" \in DOMAIN q
               /\ Decoded(Fetched(q.at)).m = "JAL" /\ GoesTo(q.at) = BusAddr(q.to)
    <3>1. "to" \in DOMAIN q /\ q.to = Entry
      <4> DEFINE at == q.at
      <4>1. q = [at |-> at, to |-> Entry]
        BY <2>4
      <4> HIDE DEF at
      <4> QED  BY <4>1
    <3> QED  BY <1>2, <2>1, <2>2, <2>4, <3>1, Zenon
  <2> QED  BY <2>3, <2>4, Zenon DEF IInv, Asked
<1>4. ASSUME NEW f \in fixups, f.at \notin RunAt
      PROVE  /\ GoesTo(f.at) = BusAddr(labels[f.target])
             /\ Decoded(Fetched(f.at)) =
                  [Instruction(f.jump.m, f.jump.rd, f.jump.rs1, f.jump.rs2, 0)
                     EXCEPT !.imm = Decoded(Fetched(f.at)).imm]
  <2>1. /\ f.at \in Nat /\ f.jump \in Jumps /\ f.target \in DOMAIN labels /\ Reaches(f)
        /\ f.at \in DOMAIN words /\ words[f.at] = FixedUp(f)
    BY Zenon DEF IInv, Fixed
  <2>2. labels[f.target] \in Int
    <3>1. labels[f.target] \in base .. addr /\ base \in Nat /\ count \in Nat
      BY <1>0, <2>1, AsmAssumption, Zenon DEF IInv, TypeOK
    <3> QED  BY <3>1 DEF addr
  <2>3. f.at \in DOMAIN Patched /\ Patched[f.at] = FixedUp(f)
    BY <1>4, <2>1, PatchedIs, Zenon
  <2> DEFINE off == BusAddr(Offset(f))
  <2>4. /\ Reads(FixedUp(f), Instruction(f.jump.m, f.jump.rd, f.jump.rs1, f.jump.rs2, off))
        /\ BusAddr(PcOf(f.at) + off) = BusAddr(labels[f.target])
    BY <1>0, <2>1, <2>2, FixedReads
  <2> HIDE DEF off
  <2>5. Decoded(Fetched(f.at)) = Instruction(f.jump.m, f.jump.rd, f.jump.rs1, f.jump.rs2, off)
    BY <1>1, <2>3, <2>4, Zenon
  <2>6. Decoded(Fetched(f.at)).imm = off
    BY <2>5, Parts
  <2>7. [Instruction(f.jump.m, f.jump.rd, f.jump.rs1, f.jump.rs2, 0) EXCEPT !.imm = off]
          = Instruction(f.jump.m, f.jump.rd, f.jump.rs1, f.jump.rs2, off)
    BY DEF Instruction
  <2> QED  BY <2>4, <2>5, <2>6, <2>7, Zenon DEF GoesTo
<1>5. ASSUME NEW at \in RunAt
      PROVE  Decoded(Fetched(at)).m = "JAL" /\ GoesTo(at) = BusAddr(Entry)
  BY <1>2, PatchedIs, Zenon
<1> QED  BY <1>3, <1>4, <1>5, Zenon DEF ExecutesAsAsked

--------------------------------------------------------------------------------
(* The calls keep the invariant                                            *)

\* The labels stay below the address of the next word.
LEMMA Below ==
  ASSUME IInv, base' = base, NEW n \in Nat, count' = count + n
  PROVE  /\ base \in Nat /\ count \in Nat /\ count' \in Nat
         /\ base .. addr \subseteq base' .. addr' /\ 0 .. count - 1 \subseteq 0 .. count' - 1
         /\ \A k \in Nat : k < count => k < count'
         /\ \A k \in 0 .. count - 1 : k # count
<1>1. base \in Nat /\ count \in Nat
  BY AsmAssumption, Zenon DEF IInv, TypeOK
<1> QED  BY <1>1, SMT DEF addr

\* A word more, and the call that asked for it.
LEMMA Emits ==
  ASSUME IInv, mode = "script", NEW w, w \subseteq 0 .. 31, emit(w), NEW q, asked' = asked \cup {q},
         UNCHANGED <<mode, base, labels, fixups, image>>, q.at = count,
         \/ \E i \in Plain : q = [at |-> count, instr |-> i] /\ w = Encoded(i)
         \/ q = [at |-> count, to |-> Entry] /\ w = JalWord(0, Entry - PcOf(count))
  PROVE  IInv'
<1> USE DEF IInv
<1>1. /\ base' = base /\ count' = count + 1 /\ 1 \in Nat
      /\ words' = Over(words, [at \in {count} |-> w])
  BY Zenon DEF emit
<1>2. /\ base \in Nat /\ count \in Nat /\ count' \in Nat
      /\ base .. addr \subseteq base' .. addr' /\ 0 .. count - 1 \subseteq 0 .. count' - 1
      /\ \A k \in Nat : k < count => k < count'
      /\ \A k \in 0 .. count - 1 : k # count
  BY <1>1, Below, Zenon
<1>3. count < count' /\ count \in 0 .. count' - 1
  BY <1>1, <1>2
<1>4. /\ DOMAIN words' = DOMAIN words \cup {count} /\ words'[count] = w
      /\ \A at \in DOMAIN words : at # count /\ words'[at] = words[at]
  <2> DEFINE g == [at \in {count} |-> w]
  <2>1. DOMAIN g = {count} /\ g[count] = w
    BY Zenon
  <2> HIDE DEF g
  <2>2. /\ DOMAIN Over(words, g) = DOMAIN words \cup DOMAIN g
        /\ \A x \in DOMAIN g : Over(words, g)[x] = g[x]
        /\ \A x \in DOMAIN words : x \notin DOMAIN g => Over(words, g)[x] = words[x]
    BY OverIs, Zenon
  <2>3. words' = Over(words, g)
    BY <1>1, Zenon DEF g
  <2>4. DOMAIN words \subseteq 0 .. count - 1
    BY Zenon DEF TypeOK
  <2> QED  BY <1>2, <2>1, <2>2, <2>3, <2>4, Zenon
<1>5. TypeOK'
  <2>1. mode' \in {"script", "words", "image", "refused"} /\ base' \in Bases /\ count' \in Nat
    BY <1>2, Zenon DEF TypeOK
  <2>2. DOMAIN words' \subseteq 0 .. count' - 1
    BY <1>2, <1>3, <1>4, Zenon DEF TypeOK
  <2>3. \A at \in DOMAIN words' : words'[at] \subseteq 0 .. 31
    BY <1>4, Zenon DEF TypeOK
  <2>4. \A l \in DOMAIN labels' : labels'[l] \in base' .. addr'
    BY <1>2, Zenon DEF TypeOK
  <2>5. \A f \in fixups' : f.at < count'
    BY <1>2, Zenon DEF Fixed
  <2>6. \A at \in DOMAIN image' : \A k \in 0 .. 3 : image'[at][k] \subseteq 0 .. 7
    BY Zenon DEF TypeOK
  <2> QED  BY <2>1, <2>2, <2>3, <2>4, <2>5, <2>6, Zenon DEF TypeOK
<1>6. Asked'
  <2>1. \A at : PcOf(at)' = PcOf(at)
    BY <1>1, Zenon DEF PcOf
  <2>2. ASSUME NEW r \in asked
        PROVE  /\ r.at \in DOMAIN words'
               /\ \/ \E i \in Plain : r = [at |-> r.at, instr |-> i] /\ words'[r.at] = Encoded(i)
                  \/ /\ r = [at |-> r.at, to |-> Entry]
                     /\ words'[r.at] = JalWord(0, Entry - PcOf(r.at))
    <3>1. r.at \in DOMAIN words' /\ words'[r.at] = words[r.at]
      BY <1>4, Zenon DEF Asked
    <3> QED  BY <3>1, Zenon DEF Asked
  <2>3. /\ q.at \in DOMAIN words'
        /\ \/ \E i \in Plain : q = [at |-> q.at, instr |-> i] /\ words'[q.at] = Encoded(i)
           \/ /\ q = [at |-> q.at, to |-> Entry]
              /\ words'[q.at] = JalWord(0, Entry - PcOf(q.at))
    BY <1>4, Zenon
  <2> QED  BY <2>1, <2>2, <2>3, Zenon DEF Asked
<1>7. Fixed'
  <2>1. ASSUME NEW f \in fixups
        PROVE  /\ f.at \in Nat /\ f.at < count' /\ f.jump \in Jumps
               /\ f.at # count
    <3>1. f.at \in Nat /\ f.at < count /\ f.jump \in Jumps
      BY Zenon DEF Fixed
    <3> QED  BY <1>2, <3>1
  <2> QED  BY <2>1, Zenon DEF Fixed
<1>8. Written'
  BY Zenon DEF Written
<1> QED  BY <1>5, <1>6, <1>7, <1>8, Zenon

LEMMA AskKeeps == IInv /\ Ask => IInv'
<1> SUFFICES ASSUME IInv, Ask PROVE IInv'
  OBVIOUS
<1>1. mode = "script" /\ UNCHANGED <<mode, base, labels, fixups, image>>
  BY Zenon DEF Ask, Calling
<1>2. PICK i \in Plain : emit(Encoded(i)) /\ asked' = asked \cup {[at |-> count, instr |-> i]}
  BY Zenon DEF Ask
<1>3. Encoded(i) \subseteq 0 .. 31
  BY AsmAssumption, EncodedReads, Zenon DEF Reads
<1> DEFINE q == [at |-> count, instr |-> i]
           w == Encoded(i)
<1>4. q.at = count
  OBVIOUS
<1>5. \E j \in Plain : q = [at |-> count, instr |-> j] /\ w = Encoded(j)
  OBVIOUS
<1>6. w \subseteq 0 .. 31 /\ emit(w) /\ asked' = asked \cup {q}
  BY <1>2, <1>3
<1> HIDE DEF q, w
<1> QED  BY <1>1, <1>4, <1>5, <1>6, Emits

LEMMA TrampolineKeeps == IInv /\ Trampoline => IInv'
<1> SUFFICES ASSUME IInv, Trampoline PROVE IInv'
  OBVIOUS
<1>1. mode = "script" /\ UNCHANGED <<mode, base, labels, fixups, image>>
  BY Zenon DEF Trampoline, Calling
<1>2. base \in Bases /\ count \in Nat
  BY Zenon DEF IInv, TypeOK
<1> DEFINE q == [at |-> count, to |-> Entry]
           w == JalWord(0, Entry - PcOf(count))
<1>3. w \subseteq 0 .. 31
  BY <1>2, ToEntry, Zenon DEF Reads
<1>4. q.at = count
  OBVIOUS
<1>5. emit(w) /\ asked' = asked \cup {q}
  BY Zenon DEF Trampoline, addr, PcOf
<1>6. q = [at |-> count, to |-> Entry] /\ w = JalWord(0, Entry - PcOf(count))
  OBVIOUS
<1> HIDE DEF q, w
<1> QED  BY <1>1, <1>3, <1>4, <1>5, <1>6, Emits

LEMMA OtherCodeKeeps == IInv /\ OtherCode => IInv'
<1> SUFFICES ASSUME IInv, OtherCode PROVE IInv'
  OBVIOUS
<1> USE DEF IInv
<1>1. /\ mode = "script" /\ UNCHANGED <<mode, base, words, labels, fixups, image, asked>>
      /\ \E n \in Nat : count' = count + n
  BY AsmAssumption, Zenon DEF OtherCode, Calling
<1>2. /\ base \in Nat /\ count' \in Nat
      /\ base .. addr \subseteq base' .. addr' /\ 0 .. count - 1 \subseteq 0 .. count' - 1
      /\ \A k \in Nat : k < count => k < count'
  BY <1>1, Below, Zenon
<1>3. TypeOK'
  <2>1. mode' \in {"script", "words", "image", "refused"} /\ base' \in Bases /\ count' \in Nat
    BY <1>1, <1>2, Zenon DEF TypeOK
  <2>2. DOMAIN words' \subseteq 0 .. count' - 1
    BY <1>1, <1>2, Zenon DEF TypeOK
  <2>3. \A at \in DOMAIN words' : words'[at] \subseteq 0 .. 31
    BY <1>1, Zenon DEF TypeOK
  <2>4. \A l \in DOMAIN labels' : labels'[l] \in base' .. addr'
    BY <1>1, <1>2, Zenon DEF TypeOK
  <2>5. \A f \in fixups' : f.at < count'
    BY <1>1, <1>2, Zenon DEF Fixed
  <2>6. \A at \in DOMAIN image' : \A k \in 0 .. 3 : image'[at][k] \subseteq 0 .. 7
    BY <1>1, Zenon DEF TypeOK
  <2> QED  BY <2>1, <2>2, <2>3, <2>4, <2>5, <2>6, Zenon DEF TypeOK
<1>4. Asked'
  BY <1>1, Zenon DEF Asked, PcOf
<1>5. Fixed'
  BY <1>1, <1>2, Zenon DEF Fixed
<1>6. Written'
  BY <1>1, Zenon DEF Written
<1> QED  BY <1>3, <1>4, <1>5, <1>6, Zenon

LEMMA LabelKeeps == IInv /\ label => IInv'
<1> SUFFICES ASSUME IInv, label PROVE IInv'
  OBVIOUS
<1> USE DEF IInv
<1>1. mode = "script" /\ UNCHANGED <<mode, base, count, words, fixups, image, asked>>
  BY Zenon DEF label, Calling
<1>2. PICK l \in LabelNames : labels' = Over(labels, [k \in {l} |-> addr])
  BY Zenon DEF label
<1>3. addr \in base .. addr /\ addr' = addr
  <2>1. base \in Nat /\ count \in Nat
    BY AsmAssumption, Zenon DEF TypeOK
  <2> QED  BY <1>1, <2>1 DEF addr
<1>4. \A m \in DOMAIN labels' : labels'[m] \in base .. addr
  <2> DEFINE g == [k \in {l} |-> addr]
  <2>1. DOMAIN g = {l} /\ g[l] = addr
    BY Zenon
  <2> HIDE DEF g
  <2>2. /\ DOMAIN Over(labels, g) = DOMAIN labels \cup DOMAIN g
        /\ \A x \in DOMAIN g : Over(labels, g)[x] = g[x]
        /\ \A x \in DOMAIN labels : x \notin DOMAIN g => Over(labels, g)[x] = labels[x]
    BY OverIs, Zenon
  <2>3. labels' = Over(labels, g)
    BY <1>2, Zenon DEF g
  <2>4. ASSUME NEW m \in DOMAIN labels PROVE labels[m] \in base .. addr
    BY Zenon DEF TypeOK
  <2>5. ASSUME NEW m \in DOMAIN labels' PROVE labels'[m] \in base .. addr
    <3>1. CASE m = l
      BY <1>3, <2>1, <2>2, <2>3, <3>1, Zenon
    <3>2. CASE m # l
      BY <2>1, <2>2, <2>3, <2>4, <2>5, <3>2, Zenon
    <3> QED  BY <3>1, <3>2
  <2> QED  BY <2>5
<1>5. TypeOK'
  BY <1>1, <1>3, <1>4, Zenon DEF TypeOK
<1>6. Asked'
  BY <1>1, Zenon DEF Asked, PcOf
<1>7. Fixed'
  BY <1>1, Zenon DEF Fixed
<1>8. Written'
  BY <1>1, Zenon DEF Written
<1> QED  BY <1>5, <1>6, <1>7, <1>8, Zenon

LEMMA BranchKeeps == IInv /\ Branch => IInv'
<1> SUFFICES ASSUME IInv, Branch PROVE IInv'
  OBVIOUS
<1> USE DEF IInv
<1>1. /\ mode = "script" /\ UNCHANGED <<mode, base, words, labels, image, asked>>
      /\ count' = count + 1 /\ 1 \in Nat
  BY Zenon DEF Branch, Calling
<1>2. PICK j \in Jumps, l \in LabelNames :
        fixups' = fixups \cup {[at |-> count, jump |-> j, target |-> l]}
  BY Zenon DEF Branch
<1> DEFINE new == [at |-> count, jump |-> j, target |-> l]
<1>3. /\ base \in Nat /\ count \in Nat /\ count' \in Nat
      /\ base .. addr \subseteq base' .. addr' /\ 0 .. count - 1 \subseteq 0 .. count' - 1
      /\ \A k \in Nat : k < count => k < count'
      /\ \A k \in 0 .. count - 1 : k # count
  BY <1>1, Below, Zenon
<1>4. count < count'
  BY <1>1, <1>3
<1>5. new.at = count /\ new.jump = j
  OBVIOUS
<1>6. fixups' = fixups \cup {new}
  BY <1>2
<1> HIDE DEF new
<1>7. ASSUME NEW f \in fixups
      PROVE  f.at \in Nat /\ f.at < count' /\ f.at # count /\ f.jump \in Jumps
  <2>1. f.at \in Nat /\ f.at < count /\ f.jump \in Jumps
    BY Zenon DEF Fixed
  <2> QED  BY <1>3, <2>1
<1>8. TypeOK'
  <2>1. mode' \in {"script", "words", "image", "refused"} /\ base' \in Bases /\ count' \in Nat
    BY <1>1, <1>3, Zenon DEF TypeOK
  <2>2. DOMAIN words' \subseteq 0 .. count' - 1
    BY <1>1, <1>3, Zenon DEF TypeOK
  <2>3. \A at \in DOMAIN words' : words'[at] \subseteq 0 .. 31
    BY <1>1, Zenon DEF TypeOK
  <2>4. \A m \in DOMAIN labels' : labels'[m] \in base' .. addr'
    BY <1>1, <1>3, Zenon DEF TypeOK
  <2>5. \A f \in fixups' : f.at < count'
    BY <1>4, <1>5, <1>6, <1>7, Zenon
  <2>6. \A at \in DOMAIN image' : \A k \in 0 .. 3 : image'[at][k] \subseteq 0 .. 7
    BY <1>1, Zenon DEF TypeOK
  <2> QED  BY <2>1, <2>2, <2>3, <2>4, <2>5, <2>6, Zenon DEF TypeOK
<1>9. Asked'
  BY <1>1, Zenon DEF Asked, PcOf
<1>10. Fixed'
  <2>1. ASSUME NEW q \in asked PROVE q.at # count
    <3>1. q.at \in 0 .. count - 1
      BY Zenon DEF Asked, TypeOK
    <3> QED  BY <1>3, <3>1, Zenon
  <2>2. \A f \in fixups' : f.at \in Nat /\ f.at < count' /\ f.jump \in Jumps
    BY <1>3, <1>4, <1>5, <1>6, <1>7, Zenon
  <2>3. \A f \in fixups' : \A q \in asked' : q.at # f.at
    BY <1>1, <1>5, <1>6, <2>1, Zenon DEF Fixed
  <2>4. \A f \in fixups' : \A g \in fixups' : g.at = f.at => g = f
    <3>1. ASSUME NEW f \in fixups, NEW g \in fixups, g.at = f.at PROVE g = f
      BY <3>1, Zenon DEF Fixed
    <3> QED  BY <1>5, <1>6, <1>7, <3>1, Zenon
  <2> QED  BY <1>1, <2>2, <2>3, <2>4, Zenon DEF Fixed
<1>11. Written'
  BY <1>1, Zenon DEF Written
<1> QED  BY <1>8, <1>9, <1>10, <1>11, Zenon

\* The offsets are those of the labels.
LEMMA SameFixups ==
  ASSUME base' = base, labels' = labels
  PROVE  \A f : Reaches(f)' = Reaches(f) /\ FixedUp(f)' = FixedUp(f)
<1> SUFFICES ASSUME NEW f PROVE Reaches(f)' = Reaches(f) /\ FixedUp(f)' = FixedUp(f)
  OBVIOUS
<1>1. Offset(f)' = Offset(f)
  BY Zenon DEF Offset, PcOf
<1>2. Reaches(f)' = Reaches(f)
  BY <1>1, SMT DEF Reaches
<1>3. FixedUp(f)' = FixedUp(f)
  BY <1>1, Zenon DEF FixedUp
<1> QED  BY <1>2, <1>3

LEMMA FinalizeKeeps == IInv /\ finalize => IInv'
<1> SUFFICES ASSUME IInv, finalize PROVE IInv'
  OBVIOUS
<1> USE DEF IInv
<1>1. /\ mode = "script" /\ mode' = "words" /\ Accepted
      /\ UNCHANGED <<base, count, labels, fixups, image, asked>>
  BY Zenon DEF finalize
<1>2. base \in Nat /\ count \in Nat /\ base \in Bases
  BY AsmAssumption, Zenon DEF TypeOK
<1>3. ASSUME NEW f \in fixups
      PROVE  /\ f.at \in Nat /\ f.jump \in Jumps /\ f.at \in 0 .. count - 1
             /\ f.target \in DOMAIN labels /\ Reaches(f) /\ FixedUp(f) \subseteq 0 .. 31
  <2>1. f.at \in Nat /\ f.at < count /\ f.jump \in Jumps
    BY Zenon DEF Fixed
  <2>2. f.at \in 0 .. count - 1
    BY <1>2, <2>1
  <2>3. f.target \in DOMAIN labels /\ Reaches(f)
    BY <1>1, Zenon DEF Accepted
  <2>4. labels[f.target] \in Int
    <3>1. labels[f.target] \in base .. addr
      BY <2>3, Zenon DEF TypeOK
    <3> QED  BY <1>2, <3>1 DEF addr
  <2>5. FixedUp(f) \subseteq 0 .. 31
    BY <1>2, <2>1, <2>3, <2>4, FixedReads, Zenon DEF Reads
  <2> QED  BY <2>1, <2>2, <2>3, <2>5, Zenon
<1> DEFINE g == [at \in {f.at : f \in fixups} |-> FixedUp(CHOOSE f \in fixups : f.at = at)]
<1>4. DOMAIN g = {f.at : f \in fixups}
  BY Zenon
<1>5. ASSUME NEW f \in fixups PROVE f.at \in DOMAIN g /\ g[f.at] = FixedUp(f)
  <2>1. f.at \in {h.at : h \in fixups}
    BY Zenon
  <2>2. g[f.at] = FixedUp(CHOOSE h \in fixups : h.at = f.at)
    BY <2>1, Zenon
  <2>3. (CHOOSE h \in fixups : h.at = f.at) = f
    BY Zenon DEF Fixed
  <2> QED  BY <1>4, <2>1, <2>2, <2>3, Zenon
<1>6. words' = Over(words, g)
  BY Zenon DEF finalize
<1> HIDE DEF g
<1>7. /\ DOMAIN words' = DOMAIN words \cup DOMAIN g
      /\ \A x \in DOMAIN g : words'[x] = g[x]
      /\ \A x \in DOMAIN words : x \notin DOMAIN g => words'[x] = words[x]
  <2>1. /\ DOMAIN Over(words, g) = DOMAIN words \cup DOMAIN g
        /\ \A x \in DOMAIN g : Over(words, g)[x] = g[x]
        /\ \A x \in DOMAIN words : x \notin DOMAIN g => Over(words, g)[x] = words[x]
    BY OverIs, Zenon
  <2> QED  BY <1>6, <2>1, Zenon
<1>8. ASSUME NEW x \in DOMAIN g PROVE \E f \in fixups : x = f.at
  BY <1>4, Zenon
<1>9. TypeOK'
  <2>1. mode' \in {"script", "words", "image", "refused"} /\ base' \in Bases /\ count' \in Nat
    BY <1>1, Zenon DEF TypeOK
  <2>2. DOMAIN words' \subseteq 0 .. count' - 1
    <3>1. ASSUME NEW x \in DOMAIN g PROVE x \in 0 .. count - 1
      BY <1>3, <1>8, Zenon
    <3>2. DOMAIN words \subseteq 0 .. count - 1
      BY Zenon DEF TypeOK
    <3> QED  BY <1>1, <1>7, <3>1, <3>2, Zenon
  <2>3. \A at \in DOMAIN words' : words'[at] \subseteq 0 .. 31
    <3>1. ASSUME NEW at \in DOMAIN g PROVE words'[at] \subseteq 0 .. 31
      <4>1. PICK f \in fixups : at = f.at
        BY <1>8, Zenon
      <4>2. words'[at] = FixedUp(f)
        BY <1>5, <1>7, <4>1, Zenon
      <4> QED  BY <1>3, <4>2, Zenon
    <3>2. ASSUME NEW at \in DOMAIN words, at \notin DOMAIN g PROVE words'[at] \subseteq 0 .. 31
      BY <1>7, <3>2, Zenon DEF TypeOK
    <3> QED  BY <1>7, <3>1, <3>2, Zenon
  <2>4. \A l \in DOMAIN labels' : labels'[l] \in base' .. addr'
    BY <1>1, Zenon DEF TypeOK, addr
  <2>5. \A f \in fixups' : f.at < count'
    BY <1>1, Zenon DEF TypeOK
  <2>6. \A at \in DOMAIN image' : \A k \in 0 .. 3 : image'[at][k] \subseteq 0 .. 7
    BY <1>1, Zenon DEF TypeOK
  <2> QED  BY <2>1, <2>2, <2>3, <2>4, <2>5, <2>6, Zenon DEF TypeOK
<1>10. Asked'
  <2>1. \A at : PcOf(at)' = PcOf(at)
    BY <1>1, Zenon DEF PcOf
  <2>2. ASSUME NEW q \in asked PROVE q.at \in DOMAIN words' /\ words'[q.at] = words[q.at]
    <3>1. q.at \notin DOMAIN g
      BY <1>8, Zenon DEF Fixed
    <3> QED  BY <1>7, <3>1, Zenon DEF Asked
  <2>3. ASSUME NEW q \in asked
        PROVE  /\ q.at \in DOMAIN words'
               /\ \/ \E i \in Plain : q = [at |-> q.at, instr |-> i] /\ words'[q.at] = Encoded(i)
                  \/ /\ q = [at |-> q.at, to |-> Entry]
                     /\ words'[q.at] = JalWord(0, Entry - PcOf(q.at))
    BY <2>2, Zenon DEF Asked
  <2> QED  BY <1>1, <2>1, <2>3, Zenon DEF Asked
<1>11. Fixed'
  <2>1. \A f : Reaches(f)' = Reaches(f) /\ FixedUp(f)' = FixedUp(f)
    BY <1>1, SameFixups, Zenon
  <2>2. ASSUME NEW f \in fixups
        PROVE  /\ f.at \in Nat /\ f.at < count' /\ f.jump \in Jumps
               /\ \A q \in asked' : q.at # f.at
               /\ \A h \in fixups' : h.at = f.at => h = f
    BY <1>1, Zenon DEF Fixed
  <2>3. ASSUME NEW f \in fixups
        PROVE  /\ f.target \in DOMAIN labels' /\ Reaches(f)'
               /\ f.at \in DOMAIN words' /\ words'[f.at] = FixedUp(f)'
    BY <1>1, <1>3, <1>5, <1>7, <2>1, Zenon
  <2> QED  BY <1>1, <2>2, <2>3, Zenon DEF Fixed
<1>12. Written'
  BY <1>1, Zenon DEF Written
<1> QED  BY <1>9, <1>10, <1>11, <1>12, Zenon

LEMMA RefuseKeeps == IInv /\ Refuse => IInv'
<1> SUFFICES ASSUME IInv, Refuse PROVE IInv'
  OBVIOUS
<1> USE DEF IInv
<1>1. /\ mode = "script" /\ mode' = "refused"
      /\ UNCHANGED <<base, count, words, labels, fixups, image, asked>>
  BY Zenon DEF Refuse
<1>2. TypeOK'
  BY <1>1, Zenon DEF TypeOK, addr
<1>3. Asked'
  BY <1>1, Zenon DEF Asked, PcOf
<1>4. Fixed'
  BY <1>1, Zenon DEF Fixed
<1>5. Written'
  BY <1>1, Zenon DEF Written
<1> QED  BY <1>2, <1>3, <1>4, <1>5, Zenon

LEMMA WriteKeeps == IInv /\ Write => IInv'
<1> SUFFICES ASSUME IInv, Write PROVE IInv'
  OBVIOUS
<1> USE DEF IInv
<1>1. /\ mode = "words" /\ mode' = "image"
      /\ image' = [at \in DOMAIN Patched |-> BytesOf(Patched[at])]
      /\ UNCHANGED <<base, count, words, labels, fixups, asked>>
  BY Zenon DEF Write
<1>2. DOMAIN image' = DOMAIN Patched
  BY <1>1, Zenon
<1>3. ASSUME NEW at \in DOMAIN image', NEW k \in 0 .. 3 PROVE image'[at][k] \subseteq 0 .. 7
  <2>1. image'[at] = BytesOf(Patched[at]) /\ Patched[at] \subseteq 0 .. 31
    BY <1>1, <1>2, PatchedIs, Zenon
  <2> QED  BY <2>1, BytesBack, Zenon
<1>4. TypeOK'
  BY <1>1, <1>3, Zenon DEF TypeOK, addr
<1>5. Asked'
  BY <1>1, Zenon DEF Asked, PcOf
<1>6. Fixed'
  <2>1. \A f : Reaches(f)' = Reaches(f) /\ FixedUp(f)' = FixedUp(f)
    BY <1>1, SameFixups, Zenon
  <2> QED  BY <1>1, <2>1, Zenon DEF Fixed
<1>7. Written'
  BY <1>1, Zenon DEF Written, Patched, RunAt, PcOf
<1> QED  BY <1>4, <1>5, <1>6, <1>7, Zenon

--------------------------------------------------------------------------------

LEMMA InitHolds == Init => IInv
<1> SUFFICES ASSUME Init PROVE IInv
  OBVIOUS
<1>1. /\ mode = "script" /\ base \in Bases /\ count = 0
      /\ words = << >> /\ labels = << >> /\ image = << >> /\ fixups = {} /\ asked = {}
  BY Zenon DEF Init
<1>2. DOMAIN words = {} /\ DOMAIN labels = {} /\ DOMAIN image = {} /\ count \in Nat
  BY <1>1
<1> QED  BY <1>1, <1>2, Zenon DEF IInv, TypeOK, Asked, Fixed, Written

LEMMA NextKeeps == IInv /\ [Next]_vars => IInv'
<1> SUFFICES ASSUME IInv, [Next]_vars PROVE IInv'
  OBVIOUS
<1>1. CASE UNCHANGED vars
  <2>1. UNCHANGED <<mode, base, count, words, labels, fixups, image, asked>>
    BY <1>1, Zenon DEF vars
  <2>2. TypeOK'
    BY <2>1, Zenon DEF IInv, TypeOK, addr
  <2>3. Asked'
    BY <2>1, Zenon DEF IInv, Asked, PcOf
  <2>4. \A f : Reaches(f)' = Reaches(f) /\ FixedUp(f)' = FixedUp(f)
    BY <2>1, SameFixups, Zenon
  <2>5. Fixed'
    BY <2>1, <2>4, Zenon DEF IInv, Fixed
  <2>6. Written'
    BY <2>1, Zenon DEF IInv, Written, Patched, RunAt, PcOf
  <2> QED  BY <2>2, <2>3, <2>5, <2>6, Zenon DEF IInv
<1> QED  BY <1>1, AskKeeps, OtherCodeKeeps, LabelKeeps, BranchKeeps, TrampolineKeeps,
            FinalizeKeeps, RefuseKeeps, WriteKeeps, Zenon DEF Next

LEMMA Invariant == Spec => []IInv
  BY InitHolds, NextKeeps, PTL DEF Spec

\* TypeOK: every place of a program is a call's (emit), every word has 32 bits and every
\* byte of words_to_bytes eight, whatever the script.
THEOREM TypeCorrect == Spec => []TypeOK
<1>1. IInv => TypeOK
  BY Zenon DEF IInv
<1> QED  BY <1>1, Invariant, PTL

\* ExecutesAsAsked: whatever a script asks for, the core reads back from the written image,
\* each instruction with its operands (the encoders), each branch going to where its label
\* was set (finalize), each jump to a fixed address to that address (_emit_trampoline, RUN).
THEOREM RunsWhatIsAsked == Spec => []ExecutesAsAsked
  BY Executes, Invariant, PTL

================================================================================
