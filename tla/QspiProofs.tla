------------------------------- MODULE QspiProofs -------------------------------
(***************************************************************************)
(* The shift engine and the chips for every width of bytes and addresses,  *)
(* every table of dividers and every set of requests.  IInv says at which  *)
(* edge of SCK the engine is, how many bits each end of the wire has by    *)
(* then, and which bits they are; RInv adds what the chips have stored of  *)
(* a write and what a memory has on MISO, which is what the abstract port  *)
(* of ExtPort is about.  First come the facts about the operators of the   *)
(* engine and of the chips: what a frame is bit by bit, what a shift       *)
(* moves, what a chip stores and answers.                                  *)
(***************************************************************************)
EXTENDS QspiLink, SequenceTheorems, WellFoundedInduction, TLAPS

--------------------------------------------------------------------------------
(* Numbers                                                                 *)

\* The least number of a set of them.
LEMMA Least ==
  ASSUME NEW T \in SUBSET Nat, T # {}
  PROVE  \E n \in T : \A m \in T : n <= m
<1> DEFINE R == OpToRel(<, Nat)
<1>1. IsWellFoundedOn(R, Nat)  BY NatLessThanWellFounded
<1>2. \A x, y \in Nat : y < x => <<y, x>> \in R
  BY DEF OpToRel
<1> HIDE DEF R
<1>3. PICK n \in T : \A m \in T : <<m, n>> \notin R
  BY <1>1, WFMin
<1>4. ASSUME NEW m \in T PROVE n <= m
  <2>1. n \in Nat /\ m \in Nat /\ ~(m < n)  BY <1>2, <1>3
  <2> QED  BY <2>1
<1> QED  BY <1>4

\* The number some bits stand for is one, however many they are.
LEMMA ValIsNat ==
  ASSUME NEW bits \in Seq(Bit)
  PROVE  Val(bits) \in Nat
<1> DEFINE N == Len(bits)
           Upto(k) == {f \in [0 .. k -> Nat] :
                         \A i \in 0 .. k : f[i] = IF i = 0 THEN 0 ELSE 2 * f[i - 1] + bits[i]}
<1>0. N \in Nat /\ \A i \in 1 .. N : bits[i] \in Nat
  BY DEF Bit
<1>1. Upto(N) # {}
  <2> DEFINE T == {k \in 0 .. N : Upto(k) = {}}
  <2>0. SUFFICES ASSUME T # {} PROVE FALSE
    <3>1. N \in T \/ Upto(N) # {}  BY <1>0
    <3> QED  BY <3>1
  <2>1. PICK k \in T : \A m \in T : k <= m
    <3>1. T \in SUBSET Nat  BY <1>0
    <3> HIDE DEF T
    <3> QED  BY <2>0, <3>1, Least
  <2>2. CASE k = 0
    <3>1. [i \in 0 .. 0 |-> 0] \in Upto(0)
      OBVIOUS
    <3> QED  BY <3>1, <2>1, <2>2
  <2>3. CASE k > 0
    <3>1. Upto(k - 1) # {}
      <4>1. k - 1 \in 0 .. N /\ ~(k <= k - 1)  BY <2>1, <2>3, <1>0
      <4>2. k - 1 \notin T  BY <4>1, <2>1
      <4> QED  BY <4>1, <4>2
    <3>2. PICK g \in Upto(k - 1) : TRUE  BY <3>1
    <3> DEFINE f == [i \in 0 .. k |-> IF i = k THEN 2 * g[k - 1] + bits[k] ELSE g[i]]
    <3>3. /\ g \in [0 .. k - 1 -> Nat]
          /\ \A i \in 0 .. k - 1 : g[i] = IF i = 0 THEN 0 ELSE 2 * g[i - 1] + bits[i]
      BY <3>2
    <3>4. k \in Nat /\ k \in 1 .. N  BY <2>1, <2>3, <1>0
    <3>5. f \in [0 .. k -> Nat]
      BY <3>3, <3>4, <1>0
    <3>6. ASSUME NEW i \in 0 .. k
          PROVE  f[i] = IF i = 0 THEN 0 ELSE 2 * f[i - 1] + bits[i]
      <4>1. CASE i = k
        BY <4>1, <3>3, <3>4, <1>0
      <4>2. CASE i # k
        <5>1. i \in 0 .. k - 1 /\ (i # 0 => i - 1 \in 0 .. k /\ i - 1 # k)
          BY <4>2, <3>4
        <5>2. f[i] = g[i] /\ (i # 0 => f[i - 1] = g[i - 1])
          BY <5>1, <4>2
        <5> QED  BY <5>1, <5>2, <3>3
      <4> QED  BY <4>1, <4>2
    <3>7. f \in Upto(k)  BY <3>5, <3>6
    <3> QED  BY <3>7, <2>1
  <2> QED  BY <2>1, <2>2, <2>3, <1>0
<1>2. PICK f \in Upto(N) : TRUE  BY <1>1
<1> DEFINE v == CHOOSE w : w = [i \in 0 .. N |-> IF i = 0 THEN 0 ELSE 2 * w[i - 1] + bits[i]]
<1>3. Val(bits) = v[N]
  BY DEF Val
<1>4. f = [i \in 0 .. N |-> IF i = 0 THEN 0 ELSE 2 * f[i - 1] + bits[i]]
  <2>1. f \in [0 .. N -> Nat] /\ \A i \in 0 .. N : f[i] = IF i = 0 THEN 0 ELSE 2 * f[i - 1] + bits[i]
    BY <1>2
  <2> QED  BY <2>1
<1>5. v = [i \in 0 .. N |-> IF i = 0 THEN 0 ELSE 2 * v[i - 1] + bits[i]]
  BY <1>4
<1> HIDE DEF v
<1>6. v[N] \in Nat
  <2> DEFINE T == {k \in 0 .. N : v[k] \notin Nat}
  <2> SUFFICES ASSUME T # {} PROVE FALSE
    BY <1>0
  <2>1. PICK k \in T : \A m \in T : k <= m
    <3>1. T \in SUBSET Nat  BY <1>0
    <3> HIDE DEF T
    <3> QED  BY <3>1, Least
  <2>2. k \in 0 .. N /\ v[k] \notin Nat  BY <2>1
  <2>3. v[k] = IF k = 0 THEN 0 ELSE 2 * v[k - 1] + bits[k]
    BY <2>2, <1>5
  <2>4. k # 0 => k - 1 \in 0 .. N /\ k - 1 < k /\ k \in 1 .. N
    BY <2>2, <1>0
  <2>5. k # 0 => v[k - 1] \in Nat
    BY <2>4, <2>1, <2>2, <1>0
  <2> QED  BY <2>2, <2>3, <2>4, <2>5, <1>0
<1> QED  BY <1>3, <1>6

AddrBits == AddrBytes * ByteBits

\* The widths of a byte, an address, a header and the register.
LEMMA Widths ==
  /\ ByteBits \in Nat /\ ByteBits >= 2 /\ AddrBytes \in Nat /\ AddrBytes >= 1
  /\ AddrBits \in Nat /\ AddrBits >= ByteBits
  /\ SregBits = ByteBits + AddrBits + 4 * ByteBits
  /\ HeaderBits = ByteBits + AddrBits
  /\ SregBits \in Nat /\ HeaderBits \in Nat
<1>1. ByteBits \in Nat /\ ByteBits >= 2 /\ AddrBytes \in Nat /\ AddrBytes >= 1
  BY EngineAssumption
<1>2. AddrBits \in Nat /\ AddrBits >= ByteBits
  BY <1>1 DEF AddrBits
<1>3. SregBits = ByteBits + AddrBits + 4 * ByteBits /\ HeaderBits = ByteBits + AddrBits
  BY <1>1 DEF AddrBits, SregBits, HeaderBits
<1> QED  BY <1>1, <1>2, <1>3

Request == [we : BOOLEAN, dev : Dev, addr : Nat, wdata : [1 .. 4 -> Byte], size : Size]

\* The fields of a request.
LEMMA RequestType ==
  ASSUME NEW r \in Requests
  PROVE  /\ r \in Request /\ r.we \in BOOLEAN /\ r.dev \in 0 .. 3 /\ r.addr \in Nat
         /\ r.wdata \in [1 .. 4 -> Byte] /\ r.size \in 0 .. 2
<1>1. r \in Request
  BY LinkAssumption DEF Request
<1> QED  BY <1>1 DEF Request, Dev, Spi, RamB, Size

\* The bits of a frame: at most what the register holds.
LEMMA Amounts ==
  ASSUME NEW r \in Requests
  PROVE  /\ DataBytes(r) \in 1 .. 4 /\ SizeBytes(r.size) \in 1 .. 4
         /\ DataBytes(r) * ByteBits \in 1 .. 4 * ByteBits
         /\ FrameBits(r) = IF r.dev = Spi THEN ByteBits
                           ELSE ByteBits + AddrBits + SizeBytes(r.size) * ByteBits
         /\ FrameBits(r) \in 2 .. SregBits
         /\ FrameLength(r) = FrameBits(r)
<1>1. DataBytes(r) \in 1 .. 4 /\ SizeBytes(r.size) \in 1 .. 4
  BY DEF DataBytes, SizeBytes
<1>2. r.dev # Spi => DataBytes(r) = SizeBytes(r.size)
  BY DEF DataBytes
<1>3. \A k \in 1 .. 4 : /\ k * ByteBits \in 1 .. 4 * ByteBits
                        /\ (1 + AddrBytes + k) * ByteBits = ByteBits + AddrBits + k * ByteBits
                        /\ ByteBits * (1 + AddrBytes + k) = ByteBits + AddrBits + k * ByteBits
  BY Widths DEF AddrBits
<1>4. FrameBits(r) = IF r.dev = Spi THEN ByteBits
                     ELSE ByteBits + AddrBits + SizeBytes(r.size) * ByteBits
  BY <1>1, <1>2, <1>3 DEF FrameBits
<1>5. FrameLength(r) = FrameBits(r)
  <2>1. ByteBits * 1 = ByteBits  BY Widths
  <2> QED  BY <1>1, <1>3, <1>4, <2>1 DEF FrameLength
<1> QED  BY <1>1, <1>3, <1>4, <1>5, Widths

--------------------------------------------------------------------------------
(* The frame                                                               *)

\* A number written out in bits.
LEMMA BitsType ==
  ASSUME NEW n \in Nat, NEW w \in Nat
  PROVE  /\ Bits(n, w) \in [1 .. w -> Bit] /\ Bits(n, w) \in Seq(Bit) /\ Len(Bits(n, w)) = w
<1>1. \A i \in 1 .. w : (n \div 2^(w - i)) % 2 \in Bit
  BY DEF Bit
<1>2. Bits(n, w) \in [1 .. w -> Bit]
  BY <1>1 DEF Bits
<1> QED  BY <1>2, SeqDef, LenProperties

\* A byte is a sequence of bits.
LEMMA ByteIsSeq ==
  ASSUME NEW b \in Byte
  PROVE  b \in Seq(Bit) /\ Len(b) = ByteBits /\ \A j \in 1 .. ByteBits : b[j] \in Bit
<1>1. b \in [1 .. ByteBits -> Bit] /\ ByteBits \in Nat  BY Widths DEF Byte
<1> QED  BY <1>1, SeqDef, LenProperties

\* The zero byte is a byte of zeros.
LEMMA ZeroByteIsByte ==
  ZeroByte \in Byte /\ \A j \in 1 .. ByteBits : ZeroByte[j] = 0
  BY DEF ZeroByte, Byte, Bit

\* Two pieces, the first of a known length.
LEMMA TwoPieces ==
  ASSUME NEW s \in Seq(Bit), NEW t \in Seq(Bit)
  PROVE  /\ s \o t \in Seq(Bit) /\ Len(s \o t) = Len(s) + Len(t)
         /\ \A k \in 1 .. Len(s) + Len(t) :
              (s \o t)[k] = IF k <= Len(s) THEN s[k] ELSE t[k - Len(s)]
  BY ConcatProperties, Zenon

\* d is the four bytes of f one after the other.
InARow(d, f) ==
  /\ d \in Seq(Bit) /\ Len(d) = 4 * ByteBits
  /\ \A i \in 1 .. 4 : \A j \in 1 .. ByteBits : d[(i - 1) * ByteBits + j] = f[i][j]

\* Four bytes one after the other are four bytes in a row.
LEMMA FourBytes ==
  ASSUME NEW f \in [1 .. 4 -> Byte], NEW d, d = f[1] \o f[2] \o f[3] \o f[4]
  PROVE  InARow(d, f)
<1>1. /\ f[1] \in Seq(Bit) /\ Len(f[1]) = ByteBits
      /\ f[2] \in Seq(Bit) /\ Len(f[2]) = ByteBits
      /\ f[3] \in Seq(Bit) /\ Len(f[3]) = ByteBits
      /\ f[4] \in Seq(Bit) /\ Len(f[4]) = ByteBits
  BY ByteIsSeq
<1>2. PICK two :
        /\ two = f[1] \o f[2] /\ two \in Seq(Bit) /\ Len(two) = 2 * ByteBits
        /\ \A k \in 1 .. 2 * ByteBits :
             two[k] = IF k <= ByteBits THEN f[1][k] ELSE f[2][k - ByteBits]
  <2>1. f[1] \in Seq(Bit) /\ Len(f[1]) = ByteBits /\ ByteBits + ByteBits = 2 * ByteBits
    BY <1>1, Widths
  <2>2. f[2] \in Seq(Bit) /\ Len(f[2]) = ByteBits
    BY <1>1
  <2>3. /\ f[1] \o f[2] \in Seq(Bit) /\ Len(f[1] \o f[2]) = Len(f[1]) + Len(f[2])
        /\ \A k \in 1 .. Len(f[1]) + Len(f[2]) :
             (f[1] \o f[2])[k] = IF k <= Len(f[1]) THEN f[1][k] ELSE f[2][k - Len(f[1])]
    BY <2>1, <2>2, TwoPieces
  <2>4. /\ f[1] \o f[2] \in Seq(Bit) /\ Len(f[1] \o f[2]) = 2 * ByteBits
        /\ \A k \in 1 .. 2 * ByteBits :
             (f[1] \o f[2])[k] = IF k <= ByteBits THEN f[1][k] ELSE f[2][k - ByteBits]
    BY <2>1, <2>2, <2>3, Zenon
  <2> QED  BY <2>4, Zenon
<1>3. PICK three :
        /\ three = two \o f[3] /\ three \in Seq(Bit) /\ Len(three) = 3 * ByteBits
        /\ \A k \in 1 .. 3 * ByteBits :
             three[k] = IF k <= 2 * ByteBits THEN two[k] ELSE f[3][k - 2 * ByteBits]
  <2>1. two \in Seq(Bit) /\ Len(two) = 2 * ByteBits /\ 2 * ByteBits + ByteBits = 3 * ByteBits
    BY <1>1, <1>2, Widths
  <2>2. f[3] \in Seq(Bit) /\ Len(f[3]) = ByteBits
    BY <1>1
  <2>3. /\ two \o f[3] \in Seq(Bit) /\ Len(two \o f[3]) = Len(two) + Len(f[3])
        /\ \A k \in 1 .. Len(two) + Len(f[3]) :
             (two \o f[3])[k] = IF k <= Len(two) THEN two[k] ELSE f[3][k - Len(two)]
    BY <2>1, <2>2, TwoPieces
  <2>4. /\ two \o f[3] \in Seq(Bit) /\ Len(two \o f[3]) = 3 * ByteBits
        /\ \A k \in 1 .. 3 * ByteBits :
             (two \o f[3])[k] = IF k <= 2 * ByteBits THEN two[k] ELSE f[3][k - 2 * ByteBits]
    BY <2>1, <2>2, <2>3, Zenon
  <2> QED  BY <2>4, Zenon
<1>4. PICK four :
        /\ four = three \o f[4] /\ four \in Seq(Bit) /\ Len(four) = 4 * ByteBits
        /\ \A k \in 1 .. 4 * ByteBits :
             four[k] = IF k <= 3 * ByteBits THEN three[k] ELSE f[4][k - 3 * ByteBits]
  <2>1. three \in Seq(Bit) /\ Len(three) = 3 * ByteBits /\ 3 * ByteBits + ByteBits = 4 * ByteBits
    BY <1>1, <1>3, Widths
  <2>2. f[4] \in Seq(Bit) /\ Len(f[4]) = ByteBits
    BY <1>1
  <2>3. /\ three \o f[4] \in Seq(Bit) /\ Len(three \o f[4]) = Len(three) + Len(f[4])
        /\ \A k \in 1 .. Len(three) + Len(f[4]) :
             (three \o f[4])[k] = IF k <= Len(three) THEN three[k] ELSE f[4][k - Len(three)]
    BY <2>1, <2>2, TwoPieces
  <2>4. /\ three \o f[4] \in Seq(Bit) /\ Len(three \o f[4]) = 4 * ByteBits
        /\ \A k \in 1 .. 4 * ByteBits :
             (three \o f[4])[k] = IF k <= 3 * ByteBits THEN three[k] ELSE f[4][k - 3 * ByteBits]
    BY <2>1, <2>2, <2>3, Zenon
  <2> QED  BY <2>4, Zenon
<1>5. ASSUME NEW i \in 1 .. 4, NEW j \in 1 .. ByteBits
      PROVE  four[(i - 1) * ByteBits + j] = f[i][j]
  <2>1. /\ j \in Nat /\ j >= 1 /\ j <= ByteBits /\ ByteBits \in Nat
        /\ (ByteBits + j) - ByteBits = j /\ (2 * ByteBits + j) - 2 * ByteBits = j
        /\ (3 * ByteBits + j) - 3 * ByteBits = j
    BY Widths
  <2>2. CASE i = 1
    <3>1. (i - 1) * ByteBits + j = j  BY <2>1, <2>2
    <3>2. two[j] = f[1][j]  BY <2>1, <1>2
    <3>3. three[j] = two[j]  BY <2>1, <1>3
    <3>4. four[j] = three[j]  BY <2>1, <1>4
    <3> QED  BY <3>1, <3>2, <3>3, <3>4, <2>2
  <2>3. CASE i = 2
    <3>1. (i - 1) * ByteBits + j = ByteBits + j  BY <2>1, <2>3
    <3>0. ByteBits + j \in 1 .. 2 * ByteBits /\ ~(ByteBits + j <= ByteBits)  BY <2>1
    <3>2. two[ByteBits + j] = f[2][(ByteBits + j) - ByteBits]
      <4>1. two[ByteBits + j] = IF ByteBits + j <= ByteBits THEN f[1][ByteBits + j]
                                ELSE f[2][(ByteBits + j) - ByteBits]
        BY <3>0, <1>2, Zenon
      <4> QED  BY <4>1, <3>0, Zenon
    <3>3. three[ByteBits + j] = two[ByteBits + j]  BY <2>1, <1>3
    <3>4. four[ByteBits + j] = three[ByteBits + j]  BY <2>1, <1>4
    <3> QED  BY <3>1, <3>2, <3>3, <3>4, <2>1, <2>3
  <2>4. CASE i = 3
    <3>1. (i - 1) * ByteBits + j = 2 * ByteBits + j  BY <2>1, <2>4
    <3>0. 2 * ByteBits + j \in 1 .. 3 * ByteBits /\ ~(2 * ByteBits + j <= 2 * ByteBits)  BY <2>1
    <3>2. three[2 * ByteBits + j] = f[3][(2 * ByteBits + j) - 2 * ByteBits]
      <4>1. three[2 * ByteBits + j] = IF 2 * ByteBits + j <= 2 * ByteBits THEN two[2 * ByteBits + j]
                                      ELSE f[3][(2 * ByteBits + j) - 2 * ByteBits]
        BY <3>0, <1>3, Zenon
      <4> QED  BY <4>1, <3>0, Zenon
    <3>3. four[2 * ByteBits + j] = three[2 * ByteBits + j]
      <4>1. 2 * ByteBits + j \in 1 .. 4 * ByteBits /\ 2 * ByteBits + j <= 3 * ByteBits  BY <2>1
      <4> QED  BY <4>1, <1>4, Zenon
    <3> QED  BY <3>1, <3>2, <3>3, <2>1, <2>4
  <2>5. CASE i = 4
    <3>1. (i - 1) * ByteBits + j = 3 * ByteBits + j  BY <2>1, <2>5
    <3>2. four[3 * ByteBits + j] = f[4][(3 * ByteBits + j) - 3 * ByteBits]  BY <2>1, <1>4
    <3> QED  BY <3>1, <3>2, <2>1, <2>5
  <2> QED  BY <2>2, <2>3, <2>4, <2>5
<1>6. four = d
  BY <1>2, <1>3, <1>4
<1>7. InARow(four, f)  BY <1>4, <1>5, Zenon DEF InARow
<1> QED  BY <1>6, <1>7, Zenon

\* Every number is so many whole times b and a rest below b.
LEMMA Euclid ==
  ASSUME NEW m \in Nat, NEW b \in Nat, b > 0
  PROVE  \E q \in Nat : \E x \in 0 .. b - 1 :
           m = q * b + x /\ m \div b = q /\ m % b = x
<1>1. m \div b \in Nat /\ m % b \in 0 .. b - 1 /\ m = b * (m \div b) + (m % b)
  OBVIOUS
<1>2. b * (m \div b) = (m \div b) * b
  BY <1>1
<1>3. m = (m \div b) * b + (m % b)
  BY <1>1, <1>2
<1> QED  BY <1>1, <1>3

\* Quotient and remainder of a number written with them.
LEMMA EuclidOf ==
  ASSUME NEW q \in Nat, NEW b \in Nat, b > 0, NEW x \in 0 .. b - 1
  PROVE  (q * b + x) \div b = q /\ (q * b + x) % b = x
OBVIOUS

\* The data field: the bytes of the word that is written, zeros after them.
LEMMA DataFieldIs ==
  ASSUME NEW r \in Requests
  PROVE  /\ DataField(r) \in Seq(Bit) /\ Len(DataField(r)) = 4 * ByteBits
         /\ \A i \in 1 .. SizeBytes(r.size) : \A j \in 1 .. ByteBits :
              DataField(r)[(i - 1) * ByteBits + j] = IF r.we THEN r.wdata[i][j] ELSE 0
<1> DEFINE Fields(f) ==
      \A i \in 1 .. 4 : f[i] = IF r.we /\ i <= SizeBytes(r.size) THEN r.wdata[i] ELSE ZeroByte
<1>1. \E f \in [1 .. 4 -> Byte] : Fields(f)
  <2> DEFINE g == [i \in 1 .. 4 |-> IF r.we /\ i <= SizeBytes(r.size) THEN r.wdata[i] ELSE ZeroByte]
  <2>1. g \in [1 .. 4 -> Byte]  BY RequestType, ZeroByteIsByte
  <2>2. Fields(g)
    OBVIOUS
  <2> QED  BY <2>1, <2>2
<1>2. SizeBytes(r.size) \in 1 .. 4  BY Amounts
<1>3. ASSUME NEW f \in [1 .. 4 -> Byte], Fields(f)
      PROVE  /\ DataField(r) \in Seq(Bit) /\ Len(DataField(r)) = 4 * ByteBits
             /\ \A i \in 1 .. SizeBytes(r.size) : \A j \in 1 .. ByteBits :
                  DataField(r)[(i - 1) * ByteBits + j] = IF r.we THEN r.wdata[i][j] ELSE 0
  <2>1. DataField(r) = f[1] \o f[2] \o f[3] \o f[4]
    <3>1. 1 \in 1 .. 4 /\ 2 \in 1 .. 4 /\ 3 \in 1 .. 4 /\ 4 \in 1 .. 4
      OBVIOUS
    <3> QED  BY <3>1, <1>3, Zenon DEF DataField
  <2>2. /\ DataField(r) \in Seq(Bit) /\ Len(DataField(r)) = 4 * ByteBits
        /\ \A i \in 1 .. 4 : \A j \in 1 .. ByteBits : DataField(r)[(i - 1) * ByteBits + j] = f[i][j]
    <3>1. PICK d : d = DataField(r)  OBVIOUS
    <3>2. d = f[1] \o f[2] \o f[3] \o f[4]  BY <3>1, <2>1, Zenon
    <3>3. InARow(d, f)  BY <3>2, FourBytes, Zenon
    <3> QED  BY <3>1, <3>3, Zenon DEF InARow
  <2>3. ASSUME NEW i \in 1 .. SizeBytes(r.size), NEW j \in 1 .. ByteBits
        PROVE  f[i][j] = IF r.we THEN r.wdata[i][j] ELSE 0
    <3>1. i \in 1 .. 4 /\ i <= SizeBytes(r.size)  BY <1>2
    <3>2. CASE r.we
      <4>1. f[i] = r.wdata[i]  BY <3>1, <3>2, <1>3, Zenon
      <4> QED  BY <4>1, <3>2, Zenon
    <3>3. CASE ~r.we
      <4>1. f[i] = ZeroByte  BY <3>1, <3>3, <1>3, Zenon
      <4> QED  BY <4>1, <3>3, ZeroByteIsByte, Zenon
    <3> QED  BY <3>2, <3>3
  <2>4. \A i \in 1 .. SizeBytes(r.size) : i \in 1 .. 4
    BY <1>2
  <2> QED  BY <2>2, <2>3, <2>4
<1> QED  BY <1>1, <1>3

\* What build_preload loads, piece by piece.
LEMMA FramedPreload ==
  ASSUME NEW r \in Requests, r.dev # Spi
  PROVE  /\ Preload(r) \in [1 .. SregBits -> Bit]
         /\ \A n \in 1 .. ByteBits :
              Preload(r)[n] = Bits(IF r.we THEN CmdWrite ELSE CmdRead, ByteBits)[n]
         /\ \A n \in 1 .. AddrBits : Preload(r)[ByteBits + n] = Bits(r.addr, AddrBits)[n]
         /\ \A n \in 1 .. 4 * ByteBits : Preload(r)[HeaderBits + n] = DataField(r)[n]
<1> DEFINE c == Bits(IF r.we THEN CmdWrite ELSE CmdRead, ByteBits)
           a == Bits(r.addr, AddrBits)
           d == DataField(r)
<1>1. c \in Seq(Bit) /\ Len(c) = ByteBits
  BY BitsType, Widths DEF CmdWrite, CmdRead
<1>2. a \in Seq(Bit) /\ Len(a) = AddrBits
  BY BitsType, Widths, RequestType
<1>3. d \in Seq(Bit) /\ Len(d) = 4 * ByteBits
  BY DataFieldIs
<1>4. Preload(r) = c \o a \o d
  BY DEF Preload, build_preload, AddrBits
<1> HIDE DEF c, a, d
<1>5. PICK h : /\ h = c \o a /\ h \in Seq(Bit) /\ Len(h) = HeaderBits
               /\ \A k \in 1 .. HeaderBits : h[k] = IF k <= ByteBits THEN c[k] ELSE a[k - ByteBits]
  <2>1. /\ c \o a \in Seq(Bit) /\ Len(c \o a) = Len(c) + Len(a)
        /\ \A k \in 1 .. Len(c) + Len(a) : (c \o a)[k] = IF k <= Len(c) THEN c[k] ELSE a[k - Len(c)]
    BY <1>1, <1>2, TwoPieces
  <2>2. Len(c) + Len(a) = HeaderBits  BY <1>1, <1>2, Widths
  <2> QED  BY <2>1, <2>2, <1>1, Zenon
<1>6. PICK w : /\ w = h \o d /\ w \in Seq(Bit) /\ Len(w) = SregBits
               /\ \A k \in 1 .. SregBits : w[k] = IF k <= HeaderBits THEN h[k] ELSE d[k - HeaderBits]
  <2>1. /\ h \o d \in Seq(Bit) /\ Len(h \o d) = Len(h) + Len(d)
        /\ \A k \in 1 .. Len(h) + Len(d) : (h \o d)[k] = IF k <= Len(h) THEN h[k] ELSE d[k - Len(h)]
    BY <1>3, <1>5, TwoPieces
  <2>2. Len(h) + Len(d) = SregBits  BY <1>3, <1>5, Widths
  <2> QED  BY <2>1, <2>2, <1>5, Zenon
<1>7. Preload(r) = w
  BY <1>4, <1>5, <1>6
<1>8. w \in [1 .. SregBits -> Bit]
  BY <1>6, LenProperties
<1>9. ASSUME NEW n \in 1 .. ByteBits PROVE w[n] = c[n]
  <2>1. n \in 1 .. SregBits /\ n \in 1 .. HeaderBits /\ n <= HeaderBits /\ n <= ByteBits
    BY Widths
  <2> QED  BY <2>1, <1>5, <1>6, Zenon
<1>10. ASSUME NEW n \in 1 .. AddrBits PROVE w[ByteBits + n] = a[n]
  <2>1. /\ ByteBits + n \in 1 .. SregBits /\ ByteBits + n \in 1 .. HeaderBits
        /\ ByteBits + n <= HeaderBits /\ ~(ByteBits + n <= ByteBits)
        /\ (ByteBits + n) - ByteBits = n
    BY Widths
  <2>2. w[ByteBits + n] = h[ByteBits + n]  BY <2>1, <1>6, Zenon
  <2>3. h[ByteBits + n] = a[(ByteBits + n) - ByteBits]  BY <2>1, <1>5, Zenon
  <2> QED  BY <2>1, <2>2, <2>3, Zenon
<1>11. ASSUME NEW n \in 1 .. 4 * ByteBits PROVE w[HeaderBits + n] = d[n]
  <2>1. /\ HeaderBits + n \in 1 .. SregBits /\ ~(HeaderBits + n <= HeaderBits)
        /\ (HeaderBits + n) - HeaderBits = n
    BY Widths
  <2>2. w[HeaderBits + n] = d[(HeaderBits + n) - HeaderBits]  BY <2>1, <1>6, Zenon
  <2> QED  BY <2>1, <2>2, Zenon
<1> QED  BY <1>7, <1>8, <1>9, <1>10, <1>11, Zenon DEF c, a, d

\* The shift register is loaded with the frame: the two definitions of a frame
\* agree, the engine's by concatenation and the property's bit by bit.
LEMMA PreloadIs ==
  ASSUME NEW r \in Requests
  PROVE  /\ Preload(r) \in [1 .. SregBits -> Bit]
         /\ \A n \in 1 .. FrameBits(r) : Preload(r)[n] = FrameBit(r, n)
<1>1. CASE r.dev = Spi
  <2> DEFINE w == r.wdata[1]
             z == [i \in 1 .. SregBits - ByteBits |-> 0]
  <2>1. w \in Seq(Bit) /\ Len(w) = ByteBits
    BY RequestType, ByteIsSeq
  <2>2. SregBits - ByteBits \in Nat /\ ByteBits + (SregBits - ByteBits) = SregBits
    BY Widths
  <2>3. z \in Seq(Bit) /\ Len(z) = SregBits - ByteBits
    <3>1. z \in [1 .. SregBits - ByteBits -> Bit]  BY DEF Bit
    <3> QED  BY <3>1, <2>2, SeqDef, LenProperties
  <2>4. Preload(r) = w \o z  BY <1>1 DEF Preload
  <2> HIDE DEF w, z
  <2>5. /\ w \o z \in Seq(Bit) /\ Len(w \o z) = SregBits
        /\ \A k \in 1 .. SregBits : (w \o z)[k] = IF k <= ByteBits THEN w[k] ELSE z[k - ByteBits]
    <3>1. /\ w \o z \in Seq(Bit) /\ Len(w \o z) = Len(w) + Len(z)
          /\ \A k \in 1 .. Len(w) + Len(z) : (w \o z)[k] = IF k <= Len(w) THEN w[k] ELSE z[k - Len(w)]
      BY <2>1, <2>3, TwoPieces
    <3> QED  BY <3>1, <2>1, <2>2, <2>3, Zenon
  <2>6. Preload(r) \in [1 .. SregBits -> Bit]
    BY <2>4, <2>5, LenProperties
  <2>7. ASSUME NEW n \in 1 .. FrameBits(r) PROVE Preload(r)[n] = FrameBit(r, n)
    <3>1. n \in 1 .. ByteBits  BY <1>1, Amounts
    <3>2. n \in 1 .. SregBits /\ n <= ByteBits  BY <3>1, Widths
    <3>3. Preload(r)[n] = w[n]  BY <3>2, <2>4, <2>5, Zenon
    <3>4. 1 + ((n - 1) % ByteBits) = n
      <4>1. n - 1 \in 0 .. ByteBits - 1 /\ 0 * ByteBits + (n - 1) = n - 1 /\ ByteBits > 0
        BY <3>1, Widths
      <4>2. (0 * ByteBits + (n - 1)) % ByteBits = n - 1  BY <4>1, Widths, EuclidOf
      <4> QED  BY <4>1, <4>2
    <3>5. FrameBit(r, n) = r.wdata[1][1 + ((n - 1) % ByteBits)]
      BY <1>1 DEF FrameBit
    <3> QED  BY <3>3, <3>4, <3>5, Zenon DEF w
  <2> QED  BY <2>6, <2>7
<1>2. CASE r.dev # Spi
  <2>0. /\ Preload(r) \in [1 .. SregBits -> Bit]
        /\ \A n \in 1 .. ByteBits :
             Preload(r)[n] = Bits(IF r.we THEN CmdWrite ELSE CmdRead, ByteBits)[n]
        /\ \A n \in 1 .. AddrBits : Preload(r)[ByteBits + n] = Bits(r.addr, AddrBits)[n]
        /\ \A n \in 1 .. 4 * ByteBits : Preload(r)[HeaderBits + n] = DataField(r)[n]
    BY <1>2, FramedPreload
  <2>1. ASSUME NEW n \in 1 .. FrameBits(r) PROVE Preload(r)[n] = FrameBit(r, n)
    <3> DEFINE k == 1 + ((n - 1) \div ByteBits)
               j == 1 + ((n - 1) % ByteBits)
    <3>0. FrameBit(r, n) =
            IF k = 1 THEN Bits(IF r.we THEN 2 ELSE 3, ByteBits)[j]
            ELSE IF k <= 1 + AddrBytes THEN Bits(r.addr, AddrBits)[n - ByteBits]
            ELSE IF r.we THEN r.wdata[k - 1 - AddrBytes][j] ELSE 0
      BY <1>2 DEF FrameBit, AddrBits
    <3>1. FrameBits(r) \in Nat /\ n \in Nat /\ n - 1 \in Nat /\ ByteBits > 0 /\ n <= FrameBits(r)
      BY Amounts, Widths
    <3>2. PICK q \in Nat : \E x \in 0 .. ByteBits - 1 :
            n - 1 = q * ByteBits + x /\ (n - 1) \div ByteBits = q /\ (n - 1) % ByteBits = x
      BY <3>1, Widths, Euclid
    <3>3. PICK x \in 0 .. ByteBits - 1 :
            n - 1 = q * ByteBits + x /\ (n - 1) \div ByteBits = q /\ (n - 1) % ByteBits = x
      BY <3>2
    <3>4. k = 1 + q /\ j = 1 + x /\ j \in 1 .. ByteBits /\ n = q * ByteBits + j
      BY <3>1, <3>3, Widths
    <3> HIDE DEF k, j
    <3>5. CASE q = 0
      <4>1. k = 1 /\ n = j  BY <3>4, <3>5, Widths
      <4>2. Preload(r)[n] = Bits(IF r.we THEN CmdWrite ELSE CmdRead, ByteBits)[n]
        BY <4>1, <3>4, <2>0, Zenon
      <4> QED  BY <4>1, <4>2, <3>0, Zenon DEF CmdWrite, CmdRead
    <3>6. CASE q \in 1 .. AddrBytes
      <4>1. k # 1 /\ k <= 1 + AddrBytes  BY <3>4, <3>6, Widths
      <4>2. n - ByteBits \in 1 .. AddrBits /\ ByteBits + (n - ByteBits) = n
        <5>1. (q - 1) * ByteBits = q * ByteBits - ByteBits /\ (q - 1) * ByteBits >= 0
          BY <3>6, Widths
        <5>2. PICK e \in Nat : e = AddrBytes - q  BY <3>6, Widths
        <5>3. e * ByteBits >= 0 /\ e * ByteBits = AddrBits - q * ByteBits
          BY <5>2, <3>6, Widths DEF AddrBits
        <5> QED  BY <5>1, <5>3, <3>4, <3>1, Widths
      <4>3. Preload(r)[ByteBits + (n - ByteBits)] = Bits(r.addr, AddrBits)[n - ByteBits]
        BY <4>2, <2>0, Zenon
      <4> QED  BY <4>1, <4>2, <4>3, <3>0, Zenon
    <3>7. CASE q > AddrBytes
      <4>1. PICK i \in Nat : i = q - AddrBytes /\ i >= 1  BY <3>7, Widths
      <4>2. q * ByteBits = AddrBits + i * ByteBits
        BY <4>1, Widths DEF AddrBits
      <4>3. i <= SizeBytes(r.size)
        <5>1. n <= ByteBits + AddrBits + SizeBytes(r.size) * ByteBits /\ SizeBytes(r.size) \in Nat
          BY <1>2, <3>1, Amounts
        <5>2. i * ByteBits + j <= ByteBits + SizeBytes(r.size) * ByteBits
          BY <5>1, <4>2, <3>4, <4>1, Widths
        <5>3. SUFFICES ASSUME ~(i <= SizeBytes(r.size)) PROVE FALSE
          OBVIOUS
        <5>4. PICK e \in Nat : i = SizeBytes(r.size) + 1 + e
          <6>1. i - (SizeBytes(r.size) + 1) \in Nat  BY <5>1, <5>3, <4>1
          <6>2. i = SizeBytes(r.size) + 1 + (i - (SizeBytes(r.size) + 1))  BY <5>1, <4>1
          <6> QED  BY <6>1, <6>2, Zenon
        <5>5. i * ByteBits = SizeBytes(r.size) * ByteBits + ByteBits + e * ByteBits /\ e * ByteBits >= 0
          BY <5>1, <5>4, Widths
        <5> QED  BY <5>1, <5>2, <5>5, <3>4, Widths
      <4>4. SizeBytes(r.size) \in 1 .. 4  BY Amounts
      <4>5. i \in 1 .. SizeBytes(r.size) /\ i \in 1 .. 4  BY <4>1, <4>3, <4>4
      <4>6. /\ (i - 1) * ByteBits + j \in 1 .. 4 * ByteBits
            /\ HeaderBits + ((i - 1) * ByteBits + j) = n
        <5>1. (i - 1) * ByteBits \in 0 .. 3 * ByteBits /\ (i - 1) * ByteBits = i * ByteBits - ByteBits
          BY <4>5, Widths
        <5> QED  BY <5>1, <3>4, <4>2, Widths
      <4>7. Preload(r)[n] = DataField(r)[(i - 1) * ByteBits + j]
        BY <4>6, <2>0, Zenon
      <4>8. DataField(r)[(i - 1) * ByteBits + j] = IF r.we THEN r.wdata[i][j] ELSE 0
        BY <4>5, <3>4, DataFieldIs, Zenon
      <4>9. k # 1 /\ ~(k <= 1 + AddrBytes) /\ k - 1 - AddrBytes = i
        BY <3>4, <4>1, Widths
      <4> QED  BY <4>7, <4>8, <4>9, <3>0, Zenon
    <3>8. q = 0 \/ q \in 1 .. AddrBytes \/ q > AddrBytes  BY Widths
    <3> QED  BY <3>5, <3>6, <3>7, <3>8
  <2> QED  BY <2>0, <2>1
<1> QED  BY <1>1, <1>2

--------------------------------------------------------------------------------
(* Shifting, storing, answering                                            *)

\* A bit more at the end.
LEMMA Grow ==
  ASSUME NEW s \in Seq(Bit), NEW b \in Bit
  PROVE  /\ Append(s, b) \in Seq(Bit) /\ Len(Append(s, b)) = Len(s) + 1
         /\ \A i \in 1 .. Len(s) : Append(s, b)[i] = s[i]
         /\ Append(s, b)[Len(s) + 1] = b
<1>1. /\ Append(s, b) \in Seq(Bit) /\ Len(Append(s, b)) = Len(s) + 1
      /\ \A i \in 1 .. Len(s) : Append(s, b)[i] = s[i]
      /\ Append(s, b)[Len(s) + 1] = b
  BY AppendProperties
<1> QED  BY <1>1

\* The shift of the register moves every bit up one place and takes b in.
LEMMA ShiftIn ==
  ASSUME NEW s \in [1 .. SregBits -> Bit], NEW b \in Bit
  PROVE  /\ Append(Tail(s), b) \in [1 .. SregBits -> Bit]
         /\ \A i \in 1 .. SregBits - 1 : Append(Tail(s), b)[i] = s[i + 1]
         /\ Append(Tail(s), b)[SregBits] = b
<1>1. s \in Seq(Bit) /\ Len(s) = SregBits /\ SregBits \in Nat /\ SregBits >= 1
  BY Widths, SeqDef, LenProperties
<1>2. s # << >>  BY <1>1
<1>3. PICK t : t = Tail(s)  OBVIOUS
<1>4. t \in Seq(Bit) /\ Len(t) = SregBits - 1 /\ \A i \in 1 .. Len(t) : t[i] = s[i + 1]
  BY <1>1, <1>2, <1>3, HeadTailProperties
<1>5. PICK a : a = Append(t, b)  OBVIOUS
<1>6. /\ a \in Seq(Bit) /\ Len(a) = Len(t) + 1
      /\ \A i \in 1 .. Len(t) : a[i] = t[i]
      /\ a[Len(t) + 1] = b
  BY <1>4, <1>5, Grow
<1>7. a \in [1 .. SregBits -> Bit] /\ Len(t) + 1 = SregBits
  BY <1>1, <1>4, <1>6, LenProperties
<1>8. ASSUME NEW i \in 1 .. SregBits - 1 PROVE a[i] = s[i + 1]
  <2>1. i \in 1 .. Len(t)  BY <1>4
  <2> QED  BY <2>1, <1>4, <1>6, Zenon
<1>9. a[SregBits] = b  BY <1>6, <1>7, Zenon
<1> QED  BY <1>3, <1>5, <1>7, <1>8, <1>9, Zenon

Memory == [0 .. MemSize - 1 -> Byte]

\* The address a chip is at is a number.
LEMMA AddressType ==
  ASSUME NEW bits \in Seq(Bit), InData(bits)
  PROVE  ChipAddr(bits) \in Nat
<1>1. Len(bits) \in Nat /\ HeaderBits \in Nat /\ Len(bits) >= HeaderBits /\ ByteBits \in Nat
  BY Widths DEF InData
<1>2. SubSeq(bits, ByteBits + 1, HeaderBits) \in Seq(Bit)
  <2>1. \A i \in ByteBits + 1 .. HeaderBits : bits[i] \in Bit  BY <1>1, Widths
  <2> QED  BY <2>1, <1>1, SubSeqProperties
<1>3. Val(SubSeq(bits, ByteBits + 1, HeaderBits)) \in Nat
  BY <1>2, ValIsNat
<1>4. (Len(bits) - HeaderBits) \div ByteBits \in Nat
  BY <1>1, Widths
<1> QED  BY <1>3, <1>4 DEF ChipAddr

\* A RAM answers with a bit.
LEMMA AnswerType ==
  ASSUME NEW m \in Memory, NEW bits \in Seq(Bit)
  PROVE  MisoBit(m, bits) \in Bit
<1>1. CASE InData(bits) /\ ~ChipWe(bits)
  <2>1. ChipAddr(bits) % MemSize \in 0 .. MemSize - 1
    BY <1>1, AddressType, ChipsAssumption
  <2>2. 1 + (Len(bits) % ByteBits) \in 1 .. ByteBits
    BY Widths
  <2>3. m[ChipAddr(bits) % MemSize] \in Byte
    BY <2>1 DEF Memory
  <2>4. \A b \in Byte : \A j \in 1 .. ByteBits : b[j] \in Bit
    BY ByteIsSeq
  <2>5. m[ChipAddr(bits) % MemSize][1 + (Len(bits) % ByteBits)] \in Bit
    BY <2>2, <2>3, <2>4
  <2> QED  BY <1>1, <2>5 DEF MisoBit
<1>2. CASE ~(InData(bits) /\ ~ChipWe(bits))
  BY <1>2 DEF MisoBit, Bit
<1> QED  BY <1>1, <1>2

\* A RAM stores a byte at an address it has.
LEMMA StoreType ==
  ASSUME NEW m \in Memory, NEW bits \in Seq(Bit)
  PROVE  Stored(m, bits) \in Memory
<1>1. CASE Len(bits) > HeaderBits /\ Len(bits) % ByteBits = 0 /\ ChipWe(bits)
  <2>1. Len(bits) \in Nat /\ HeaderBits \in Nat /\ Len(bits) >= ByteBits
    BY <1>1, Widths
  <2>2. ChipAddr(bits) \in Nat
    BY <1>1, <2>1, AddressType DEF InData
  <2>3. (ChipAddr(bits) - 1) % MemSize \in 0 .. MemSize - 1
    BY <2>2, ChipsAssumption
  <2>4. SubSeq(bits, Len(bits) - ByteBits + 1, Len(bits)) \in Byte
    <3>1. PICK p \in Int : p = Len(bits) - ByteBits + 1  BY <2>1, Widths
    <3>2. p \in 1 .. Len(bits) /\ Len(bits) - p + 1 = ByteBits
      BY <2>1, <3>1, Widths
    <3>3. \A i \in p .. Len(bits) : bits[i] \in Bit
      BY <3>2
    <3>4. p <= Len(bits) /\ p \in Int /\ Len(bits) \in Int
      BY <3>2
    <3>5. /\ SubSeq(bits, p, Len(bits)) \in Seq(Bit)
          /\ Len(SubSeq(bits, p, Len(bits))) = Len(bits) - p + 1
      BY <3>3, <3>4, SubSeqProperties
    <3> QED  BY <3>1, <3>2, <3>5, LenProperties DEF Byte
  <2>5. Stored(m, bits) = [m EXCEPT ![(ChipAddr(bits) - 1) % MemSize] =
                             SubSeq(bits, Len(bits) - ByteBits + 1, Len(bits))]
    BY <1>1, Zenon DEF Stored
  <2> QED  BY <2>3, <2>4, <2>5 DEF Memory
<1>2. CASE ~(Len(bits) > HeaderBits /\ Len(bits) % ByteBits = 0 /\ ChipWe(bits))
  BY <1>2, Zenon DEF Stored
<1> QED  BY <1>1, <1>2

\* The answer to a read is four bytes.
LEMMA WordType ==
  ASSUME NEW bits \in [1 .. SregBits -> Bit], NEW width \in 1 .. 4 * ByteBits
  PROVE  CapturedWord(bits, width) \in [1 .. 4 -> Byte]
<1>1. bits \in Seq(Bit) /\ Len(bits) = SregBits /\ SregBits \in Nat
  BY Widths, SeqDef, LenProperties
<1>2. PICK start \in Nat : start = Len(bits) - width /\ start + width = SregBits
  <2>1. SregBits - width \in Nat /\ (SregBits - width) + width = SregBits  BY Widths
  <2> QED  BY <2>1, <1>1
<1> DEFINE piece(i) == IF i * ByteBits <= width
                         THEN [j \in 1 .. ByteBits |-> bits[start + (i - 1) * ByteBits + j]]
                         ELSE ZeroByte
<1>3. ASSUME NEW i \in 1 .. 4 PROVE piece(i) \in Byte
  <2>1. CASE i * ByteBits <= width
    <3>1. ASSUME NEW j \in 1 .. ByteBits PROVE start + (i - 1) * ByteBits + j \in 1 .. SregBits
      <4>1. (i - 1) * ByteBits = i * ByteBits - ByteBits /\ (i - 1) * ByteBits \in Nat
        BY Widths
      <4> QED  BY <4>1, <2>1, <1>2, Widths
    <3>2. \A j \in 1 .. ByteBits : bits[start + (i - 1) * ByteBits + j] \in Bit
      BY <3>1
    <3> QED  BY <2>1, <3>2 DEF Byte
  <2>2. CASE ~(i * ByteBits <= width)
    BY <2>2, ZeroByteIsByte
  <2> QED  BY <2>1, <2>2
<1>4. CapturedWord(bits, width) = [i \in 1 .. 4 |-> piece(i)]
  BY <1>2 DEF CapturedWord
<1> QED  BY <1>3, <1>4

--------------------------------------------------------------------------------
(* What a memory makes of a frame                                          *)

\* The remainder of a number, possibly negative, written with it.
LEMMA Remainder ==
  ASSUME NEW q \in Int, NEW b \in Nat, b > 0, NEW x \in 0 .. b - 1
  PROVE  (q * b + x) % b = x
OBVIOUS

\* Counting on from an address of a memory and counting back to it.
LEMMA Around ==
  ASSUME NEW x \in Nat, NEW k \in 0 .. MemSize - 1, NEW a \in 0 .. MemSize - 1
  PROVE  (a - x) % MemSize = k <=> a = (x + k) % MemSize
<1> DEFINE M == MemSize
<1>0. M \in Nat /\ M > 0 /\ k \in 0 .. M - 1 /\ a \in 0 .. M - 1  BY ChipsAssumption
<1> HIDE DEF M
<1>1. PICK q \in Nat : \E y \in 0 .. M - 1 : x = q * M + y /\ x \div M = q /\ x % M = y
  BY <1>0, Euclid
<1>2. PICK t \in 0 .. M - 1 : x = q * M + t
  BY <1>1
<1>3. a >= t => (a - x) % M = a - t
  <2> SUFFICES ASSUME a >= t PROVE (a - x) % M = a - t
    OBVIOUS
  <2>1. PICK p \in Int : p = -q  OBVIOUS
  <2>2. p * M = -(q * M)  BY <2>1, <1>0
  <2>3. a - t \in 0 .. M - 1 /\ p * M + (a - t) = a - x  BY <2>2, <1>0, <1>2
  <2>4. (p * M + (a - t)) % M = a - t  BY <2>3, <1>0, Remainder
  <2> QED  BY <2>3, <2>4
<1>4. a < t => (a - x) % M = a - t + M
  <2> SUFFICES ASSUME a < t PROVE (a - x) % M = a - t + M
    OBVIOUS
  <2>1. PICK p \in Int : p = -q - 1  OBVIOUS
  <2>2. p * M = -(q * M) - M  BY <2>1, <1>0
  <2>3. a - t + M \in 0 .. M - 1 /\ p * M + (a - t + M) = a - x  BY <2>2, <1>0, <1>2
  <2>4. (p * M + (a - t + M)) % M = a - t + M  BY <2>3, <1>0, Remainder
  <2> QED  BY <2>3, <2>4
<1>5. t + k < M => (x + k) % M = t + k
  <2> SUFFICES ASSUME t + k < M PROVE (x + k) % M = t + k
    OBVIOUS
  <2>1. PICK u \in 0 .. M - 1 : u = t + k /\ q * M + u = x + k  BY <1>0, <1>2
  <2>2. q \in Int /\ (q * M + u) % M = u  BY <1>0, Remainder
  <2> QED  BY <2>1, <2>2
<1>6. t + k >= M => (x + k) % M = t + k - M
  <2> SUFFICES ASSUME t + k >= M PROVE (x + k) % M = t + k - M
    OBVIOUS
  <2>1. PICK p \in Int : p = q + 1  OBVIOUS
  <2>2. p * M = q * M + M  BY <2>1, <1>0
  <2>3. t + k - M \in 0 .. M - 1 /\ p * M + (t + k - M) = x + k  BY <2>2, <1>0, <1>2
  <2>4. (p * M + (t + k - M)) % M = t + k - M  BY <2>3, <1>0, Remainder
  <2> QED  BY <2>3, <2>4
<1>7. (a - x) % M = k <=> a = (x + k) % M
  BY <1>0, <1>3, <1>4, <1>5, <1>6
<1> QED  BY <1>7 DEF M

\* A whole number of bytes after the header is a whole number of bytes.
LEMMA WholeBytes ==
  ASSUME NEW k \in Nat, k >= HeaderBits
  PROVE  \E b \in Nat : \E x \in 0 .. ByteBits - 1 :
           /\ k = HeaderBits + b * ByteBits + x
           /\ (k - HeaderBits) \div ByteBits = b /\ k % ByteBits = x
<1>1. k - HeaderBits \in Nat /\ ByteBits > 0 /\ ByteBits \in Nat  BY Widths
<1>2. PICK b \in Nat : \E x \in 0 .. ByteBits - 1 :
        /\ k - HeaderBits = b * ByteBits + x
        /\ (k - HeaderBits) \div ByteBits = b /\ (k - HeaderBits) % ByteBits = x
  BY <1>1, Euclid
<1>3. PICK x \in 0 .. ByteBits - 1 :
        /\ k - HeaderBits = b * ByteBits + x /\ (k - HeaderBits) \div ByteBits = b
  BY <1>2
<1>4. PICK q \in Nat : q = 1 + AddrBytes + b  BY Widths
<1>5. q * ByteBits = HeaderBits + b * ByteBits
  BY <1>4, Widths DEF HeaderBits
<1>6. k = HeaderBits + b * ByteBits + x /\ k = q * ByteBits + x  BY <1>1, <1>3, <1>5, Widths
<1>7. (q * ByteBits + x) % ByteBits = x  BY <1>1, Remainder
<1>8. k % ByteBits = x  BY <1>6, <1>7
<1> QED  BY <1>3, <1>6, <1>8

\* bits is what a chip has after the first Len(bits) bits of the frame of r.
Begins(bits, r) ==
  /\ bits \in Seq(Bit) /\ Len(bits) <= FrameBits(r)
  /\ \A n \in 1 .. Len(bits) : bits[n] = Preload(r)[n]

\* A part of a beginning of the frame, as a function.
LEMMA Part ==
  ASSUME NEW s \in Seq(Bit), NEW p \in Nat, NEW w \in Nat, p + w <= Len(s), w > 0
  PROVE  /\ SubSeq(s, p + 1, p + w) \in [1 .. w -> Bit]
         /\ \A i \in 1 .. w : SubSeq(s, p + 1, p + w)[i] = s[p + i]
<1>1. PICK t : t = SubSeq(s, p + 1, p + w)  OBVIOUS
<1>2. PICK m \in Int : m = p + 1  OBVIOUS
<1>3. PICK n \in Int : n = p + w  OBVIOUS
<1>4. /\ Len(s) \in Nat /\ m <= n /\ m \in 1 .. Len(s) /\ n \in 1 .. Len(s) /\ n - m + 1 = w
  BY <1>2, <1>3
<1>5. \A i \in m .. n : s[i] \in Bit  BY <1>4
<1>6. /\ SubSeq(s, m, n) \in Seq(Bit) /\ Len(SubSeq(s, m, n)) = n - m + 1
      /\ \A i \in 1 .. n - m + 1 : SubSeq(s, m, n)[i] = s[m + i - 1]
  BY <1>4, <1>5, SubSeqProperties
<1>7. t \in Seq(Bit) /\ Len(t) = w /\ \A i \in 1 .. w : t[i] = s[m + i - 1]
  BY <1>1, <1>2, <1>3, <1>4, <1>6
<1>8. \A i \in 1 .. w : m + i - 1 = p + i  BY <1>2
<1>9. t \in [1 .. w -> Bit]  BY <1>7, LenProperties
<1> QED  BY <1>1, <1>7, <1>8, <1>9

\* The command and the address reach the chip.
LEMMA HeaderReceived ==
  ASSUME NEW r \in Requests, r.dev # Spi, NEW bits, Begins(bits, r), Len(bits) >= HeaderBits
  PROVE  (ChipWe(bits) <=> r.we) /\ Val(SubSeq(bits, ByteBits + 1, HeaderBits)) = r.addr
<1>0. bits \in Seq(Bit) /\ Len(bits) \in Nat /\ Len(bits) <= FrameBits(r) /\ FrameBits(r) <= SregBits
  BY Amounts, Widths DEF Begins
<1>1. /\ \A n \in 1 .. ByteBits :
           Preload(r)[n] = Bits(IF r.we THEN CmdWrite ELSE CmdRead, ByteBits)[n]
      /\ \A n \in 1 .. AddrBits : Preload(r)[ByteBits + n] = Bits(r.addr, AddrBits)[n]
  BY FramedPreload
<1>2. SubSeq(bits, 1, ByteBits) = Bits(IF r.we THEN CmdWrite ELSE CmdRead, ByteBits)
  <2> DEFINE w == Bits(IF r.we THEN CmdWrite ELSE CmdRead, ByteBits)
  <2>1. /\ 0 \in Nat /\ ByteBits \in Nat /\ ByteBits > 0 /\ 0 + ByteBits = ByteBits /\ 0 + 1 = 1
        /\ 0 + ByteBits <= Len(bits)
    BY <1>0, Widths
  <2>2. /\ SubSeq(bits, 0 + 1, 0 + ByteBits) \in [1 .. ByteBits -> Bit]
        /\ \A i \in 1 .. ByteBits : SubSeq(bits, 0 + 1, 0 + ByteBits)[i] = bits[0 + i]
    BY <2>1, <1>0, Part
  <2>3. PICK t \in [1 .. ByteBits -> Bit] :
          t = SubSeq(bits, 1, ByteBits) /\ \A i \in 1 .. ByteBits : t[i] = bits[0 + i]
    BY <2>1, <2>2
  <2>4. w \in [1 .. ByteBits -> Bit]  BY <2>1, BitsType DEF CmdWrite, CmdRead
  <2> HIDE DEF w
  <2>5. ASSUME NEW i \in 1 .. ByteBits PROVE t[i] = w[i]
    <3>1. i \in 1 .. Len(bits) /\ 0 + i = i  BY <1>0, Widths
    <3>2. bits[i] = Preload(r)[i]  BY <3>1, Zenon DEF Begins
    <3>3. Preload(r)[i] = w[i]  BY <1>1, Zenon DEF w
    <3> QED  BY <2>3, <3>1, <3>2, <3>3
  <2>6. t = w  BY <2>4, <2>5, Widths
  <2> QED  BY <2>3, <2>6 DEF w
<1>3. Bits(CmdWrite, ByteBits) # Bits(CmdRead, ByteBits)
  <2>1. ByteBits \in 1 .. ByteBits /\ ByteBits - ByteBits = 0 /\ 2^0 = 1  BY Widths
  <2>2. Bits(CmdWrite, ByteBits)[ByteBits] = (2 \div 2^0) % 2
    BY <2>1 DEF Bits, CmdWrite
  <2>3. Bits(CmdRead, ByteBits)[ByteBits] = (3 \div 2^0) % 2
    BY <2>1 DEF Bits, CmdRead
  <2>4. (2 \div 2^0) % 2 = 0 /\ (3 \div 2^0) % 2 = 1  OBVIOUS
  <2> QED  BY <2>2, <2>3, <2>4
<1>4. ChipWe(bits) <=> r.we
  <2>1. r.we \in BOOLEAN  BY RequestType
  <2> QED  BY <1>2, <1>3, <2>1, Zenon DEF ChipWe
<1>5. SubSeq(bits, ByteBits + 1, HeaderBits) = Bits(r.addr, AddrBits)
  <2>1. /\ ByteBits \in Nat /\ AddrBits \in Nat /\ AddrBits > 0
        /\ ByteBits + AddrBits = HeaderBits /\ ByteBits + AddrBits <= Len(bits)
    BY <1>0, Widths
  <2>2. /\ SubSeq(bits, ByteBits + 1, ByteBits + AddrBits) \in [1 .. AddrBits -> Bit]
        /\ \A i \in 1 .. AddrBits :
             SubSeq(bits, ByteBits + 1, ByteBits + AddrBits)[i] = bits[ByteBits + i]
    BY <2>1, <1>0, Part
  <2>3. PICK t \in [1 .. AddrBits -> Bit] :
          /\ t = SubSeq(bits, ByteBits + 1, HeaderBits)
          /\ \A i \in 1 .. AddrBits : t[i] = bits[ByteBits + i]
    BY <2>1, <2>2
  <2>4. PICK w \in [1 .. AddrBits -> Bit] : w = Bits(r.addr, AddrBits)
    BY <2>1, RequestType, BitsType
  <2>5. ASSUME NEW i \in 1 .. AddrBits PROVE t[i] = w[i]
    <3>1. ByteBits + i \in 1 .. Len(bits)  BY <2>1, <1>0
    <3>2. bits[ByteBits + i] = Preload(r)[ByteBits + i]  BY <3>1, Zenon DEF Begins
    <3>3. Preload(r)[ByteBits + i] = w[i]  BY <1>1, <2>4, Zenon
    <3> QED  BY <2>3, <3>2, <3>3
  <2>6. t = w  BY <2>5, Widths
  <2> QED  BY <2>3, <2>4, <2>6
<1>6. Val(Bits(r.addr, AddrBits)) = r.addr
  BY LinkAssumption DEF AddrBits
<1> QED  BY <1>4, <1>5, <1>6, Zenon

\* So does each byte of data.
LEMMA ByteReceived ==
  ASSUME NEW r \in Requests, r.dev # Spi, r.we, NEW bits, Begins(bits, r),
         NEW b \in 1 .. SizeBytes(r.size), Len(bits) = HeaderBits + b * ByteBits
  PROVE  SubSeq(bits, Len(bits) - ByteBits + 1, Len(bits)) = r.wdata[b]
<1>0. /\ bits \in Seq(Bit) /\ Len(bits) \in Nat /\ b \in 1 .. 4 /\ HeaderBits \in Nat
      /\ ByteBits \in Nat /\ ByteBits > 0
  BY Amounts, Widths DEF Begins
<1>1. r.wdata[b] \in [1 .. ByteBits -> Bit]
  BY <1>0, RequestType DEF Byte
<1>2. PICK p \in Nat : p = HeaderBits + (b - 1) * ByteBits /\ p + ByteBits = Len(bits)
  <2>1. (b - 1) * ByteBits \in Nat /\ (b - 1) * ByteBits + ByteBits = b * ByteBits
    BY <1>0
  <2> QED  BY <2>1, <1>0
<1>3. Len(bits) - ByteBits + 1 = p + 1  BY <1>0, <1>2
<1>4. /\ SubSeq(bits, p + 1, p + ByteBits) \in [1 .. ByteBits -> Bit]
      /\ \A i \in 1 .. ByteBits : SubSeq(bits, p + 1, p + ByteBits)[i] = bits[p + i]
  <2>1. p + ByteBits <= Len(bits)  BY <1>0, <1>2
  <2> QED  BY <2>1, <1>0, Part
<1>5. PICK t \in [1 .. ByteBits -> Bit] :
        /\ t = SubSeq(bits, Len(bits) - ByteBits + 1, Len(bits))
        /\ \A i \in 1 .. ByteBits : t[i] = bits[p + i]
  BY <1>2, <1>3, <1>4
<1>6. ASSUME NEW j \in 1 .. ByteBits PROVE t[j] = r.wdata[b][j]
  <2>1. p + j \in 1 .. Len(bits)  BY <1>0, <1>2
  <2>2. bits[p + j] = Preload(r)[p + j]  BY <2>1, Zenon DEF Begins
  <2>3. /\ (b - 1) * ByteBits + j \in 1 .. 4 * ByteBits
        /\ HeaderBits + ((b - 1) * ByteBits + j) = p + j
    <3>1. (b - 1) * ByteBits \in 0 .. 3 * ByteBits  BY <1>0
    <3> QED  BY <3>1, <1>0, <1>2
  <2>4. Preload(r)[HeaderBits + ((b - 1) * ByteBits + j)] = DataField(r)[(b - 1) * ByteBits + j]
    BY <2>3, FramedPreload
  <2>5. DataField(r)[(b - 1) * ByteBits + j] = r.wdata[b][j]
    BY DataFieldIs
  <2> QED  BY <1>5, <2>2, <2>3, <2>4, <2>5
<1>7. t = r.wdata[b]  BY <1>1, <1>6, Widths
<1> QED  BY <1>5, <1>7

\* What a memory stores as the frame comes in: byte b of a write when its last
\* bit is there, at the b-th address; otherwise nothing.
LEMMA StoredByte ==
  ASSUME NEW r \in Requests, r.dev # Spi, NEW m, NEW bits, Begins(bits, r), r.we,
         Len(bits) > HeaderBits, Len(bits) % ByteBits = 0
  PROVE  \E b \in 1 .. SizeBytes(r.size) :
           /\ (Len(bits) - HeaderBits) \div ByteBits = b
           /\ Stored(m, bits) = [m EXCEPT ![(r.addr + (b - 1)) % MemSize] = r.wdata[b]]
<1>0. /\ Len(bits) \in Nat /\ HeaderBits \in Nat /\ ByteBits \in Nat /\ ByteBits > 0
      /\ Len(bits) <= ByteBits + AddrBits + SizeBytes(r.size) * ByteBits
      /\ HeaderBits = ByteBits + AddrBits /\ SizeBytes(r.size) \in 1 .. 4 /\ r.addr \in Nat
      /\ AddrBits \in Nat
  BY Amounts, Widths, RequestType DEF Begins
<1>1. PICK b \in Nat : \E x \in 0 .. ByteBits - 1 :
        /\ Len(bits) = HeaderBits + b * ByteBits + x
        /\ (Len(bits) - HeaderBits) \div ByteBits = b /\ Len(bits) % ByteBits = x
  <2>1. Len(bits) >= HeaderBits  BY <1>0
  <2>2. PICK k \in Nat : k = Len(bits)  BY <1>0
  <2>3. \E b \in Nat : \E x \in 0 .. ByteBits - 1 :
          /\ k = HeaderBits + b * ByteBits + x
          /\ (k - HeaderBits) \div ByteBits = b /\ k % ByteBits = x
    BY <2>1, <2>2, WholeBytes
  <2> QED  BY <2>2, <2>3, Zenon
<1>2. Len(bits) = HeaderBits + b * ByteBits /\ (Len(bits) - HeaderBits) \div ByteBits = b
  BY <1>1, <1>0
<1>3. b >= 1
  <2>1. b = 0 => b * ByteBits = 0  BY <1>0
  <2> QED  BY <2>1, <1>0, <1>2
<1>4. b <= SizeBytes(r.size)
  <2> SUFFICES ASSUME ~(b <= SizeBytes(r.size)) PROVE FALSE
    OBVIOUS
  <2>1. b - (SizeBytes(r.size) + 1) \in Nat  BY <1>0
  <2>2. PICK e \in Nat : e = b - (SizeBytes(r.size) + 1)  BY <2>1, Zenon
  <2>3. e * ByteBits >= 0 /\ e * ByteBits = b * ByteBits - SizeBytes(r.size) * ByteBits - ByteBits
    <3>1. ByteBits \in Nat /\ SizeBytes(r.size) \in Nat  BY <1>0
    <3>2. \A x, y, n \in Nat : (x - (y + 1)) * n = x * n - y * n - n  OBVIOUS
    <3>3. \A z, n \in Nat : z * n >= 0  OBVIOUS
    <3>4. b \in Nat  BY <1>0
    <3>5. (b - (SizeBytes(r.size) + 1)) * ByteBits
            = b * ByteBits - SizeBytes(r.size) * ByteBits - ByteBits
      BY <3>1, <3>2, <3>4, Zenon
    <3>6. e * ByteBits >= 0  BY <3>1, <3>3, Zenon
    <3> QED  BY <2>2, <3>5, <3>6, Zenon
  <2>4. SizeBytes(r.size) * ByteBits \in Nat /\ b * ByteBits \in Nat /\ e * ByteBits \in Nat  BY <1>0, <2>2
  <2> QED  BY <2>3, <2>4, <1>0, <1>2
<1>5. b \in 1 .. SizeBytes(r.size)  BY <1>0, <1>3, <1>4
<1>6. ChipWe(bits) /\ Val(SubSeq(bits, ByteBits + 1, HeaderBits)) = r.addr
  <2>1. Len(bits) >= HeaderBits  BY <1>0
  <2> QED  BY <2>1, HeaderReceived
<1>7. ChipAddr(bits) - 1 = r.addr + (b - 1)
  BY <1>0, <1>2, <1>6 DEF ChipAddr
<1>8. SubSeq(bits, Len(bits) - ByteBits + 1, Len(bits)) = r.wdata[b]
  BY <1>2, <1>5, ByteReceived
<1>9. Stored(m, bits) = [m EXCEPT ![(ChipAddr(bits) - 1) % MemSize] =
                           SubSeq(bits, Len(bits) - ByteBits + 1, Len(bits))]
  BY <1>6, Zenon DEF Stored
<1>10. Stored(m, bits) = [m EXCEPT ![(r.addr + (b - 1)) % MemSize] = r.wdata[b]]
  BY <1>7, <1>8, <1>9, Zenon
<1> QED  BY <1>2, <1>5, <1>10

\* A frame that is not a write, or not at the end of a byte, stores nothing.
LEMMA StoredNothing ==
  ASSUME NEW r \in Requests, r.dev # Spi, NEW m, NEW bits, Begins(bits, r),
         ~(r.we /\ Len(bits) > HeaderBits /\ Len(bits) % ByteBits = 0)
  PROVE  Stored(m, bits) = m
<1>0. Len(bits) \in Nat /\ HeaderBits \in Nat  BY Widths DEF Begins
<1>1. Len(bits) > HeaderBits => (ChipWe(bits) <=> r.we)
  <2>1. Len(bits) > HeaderBits => Len(bits) >= HeaderBits  BY <1>0
  <2> QED  BY <2>1, HeaderReceived
<1>2. ~(Len(bits) > HeaderBits /\ Len(bits) % ByteBits = 0 /\ ChipWe(bits))
  BY <1>1, Zenon
<1> QED  BY <1>2, Zenon DEF Stored

\* The bit a memory m answers once it has the first n bits of the frame of r.
AnswerBit(m, r, n) ==
  IF n >= HeaderBits /\ ~r.we
    THEN m[(r.addr + ((n - HeaderBits) \div ByteBits)) % MemSize][1 + (n % ByteBits)]
    ELSE 0

\* It is what a memory answers.
LEMMA AnsweredBit ==
  ASSUME NEW r \in Requests, r.dev # Spi, NEW m, NEW bits, Begins(bits, r)
  PROVE  MisoBit(m, bits) = AnswerBit(m, r, Len(bits))
<1>0. Len(bits) \in Nat /\ HeaderBits \in Nat  BY Widths DEF Begins
<1>1. CASE Len(bits) >= HeaderBits
  <2>1. (ChipWe(bits) <=> r.we) /\ Val(SubSeq(bits, ByteBits + 1, HeaderBits)) = r.addr
    BY <1>1, HeaderReceived
  <2>2. ChipAddr(bits) = r.addr + ((Len(bits) - HeaderBits) \div ByteBits)
    BY <2>1, Zenon DEF ChipAddr
  <2>3. InData(bits)  BY <1>1 DEF InData
  <2> QED  BY <1>1, <2>1, <2>2, <2>3, Zenon DEF MisoBit, AnswerBit
<1>2. CASE ~(Len(bits) >= HeaderBits)
  BY <1>2, Zenon DEF MisoBit, AnswerBit, InData
<1> QED  BY <1>1, <1>2

\* The contents of the memories, address by address, after k bytes of a write.
LEMMA WrittenIs ==
  ASSUME NEW m \in [Chip -> Memory], NEW r \in Requests, NEW k \in 0 .. 4
  PROVE  /\ Port!Written(m, r, k) \in [Chip -> Memory]
         /\ \A c \in Chip : \A a \in 0 .. MemSize - 1 :
              Port!Written(m, r, k)[c][a] =
                IF c = ChipOf(r.dev) /\ Port!Offset(r, a) < k
                  THEN r.wdata[Port!Offset(r, a) + 1] ELSE m[c][a]
<1> DEFINE ch == ChipOf(r.dev)
           f == [a \in 0 .. MemSize - 1 |->
                   IF Port!Offset(r, a) < k THEN r.wdata[Port!Offset(r, a) + 1] ELSE m[ch][a]]
<1>1. ch \in Chip /\ m[ch] \in Memory  BY DEF ChipOf, Chip
<1>2. DOMAIN m[ch] = 0 .. MemSize - 1  BY <1>1 DEF Memory
<1>3. Port!Written(m, r, k) = [m EXCEPT ![ch] = f]
  <2>1. Port!Written(m, r, k) =
          [m EXCEPT ![ch] = [a \in DOMAIN @ |->
             IF Port!Offset(r, a) < k THEN r.wdata[Port!Offset(r, a) + 1] ELSE @[a]]]
    BY DEF Port!Written, Port!ChipOf, ChipOf, Port!Flash, Flash, Port!RamA, RamA
  <2> QED  BY <2>1, <1>2
<1>4. \A a \in 0 .. MemSize - 1 : Port!Offset(r, a) \in Nat
  BY RequestType, ChipsAssumption DEF Port!Offset
<1>5. f \in Memory
  <2>1. ASSUME NEW a \in 0 .. MemSize - 1, Port!Offset(r, a) < k
        PROVE  r.wdata[Port!Offset(r, a) + 1] \in Byte
    <3>1. Port!Offset(r, a) + 1 \in 1 .. 4  BY <1>4, <2>1
    <3> QED  BY <3>1, RequestType
  <2>2. \A a \in 0 .. MemSize - 1 : m[ch][a] \in Byte  BY <1>1 DEF Memory
  <2> QED  BY <2>1, <2>2 DEF Memory
<1>6. \A a \in 0 .. MemSize - 1 :
        f[a] = IF Port!Offset(r, a) < k THEN r.wdata[Port!Offset(r, a) + 1] ELSE m[ch][a]
  OBVIOUS
<1> HIDE DEF f
<1>7. [m EXCEPT ![ch] = f] \in [Chip -> Memory]
  BY <1>1, <1>5
<1>8. \A c \in Chip : [m EXCEPT ![ch] = f][c] = IF c = ch THEN f ELSE m[c]
  BY <1>1
<1>9. ASSUME NEW c \in Chip, NEW a \in 0 .. MemSize - 1
      PROVE  Port!Written(m, r, k)[c][a] =
                IF c = ch /\ Port!Offset(r, a) < k
                  THEN r.wdata[Port!Offset(r, a) + 1] ELSE m[c][a]
  <2>1. CASE c = ch
    <3>1. Port!Written(m, r, k)[c] = f  BY <2>1, <1>3, <1>8, Zenon
    <3> QED  BY <3>1, <2>1, <1>6, Zenon
  <2>2. CASE c # ch
    <3>1. Port!Written(m, r, k)[c] = m[c]  BY <2>2, <1>3, <1>8, Zenon
    <3> QED  BY <3>1, <2>2, Zenon
  <2> QED  BY <2>1, <2>2
<1> QED  BY <1>3, <1>7, <1>9, Zenon

\* Contents that agree at every address are the same.
LEMMA SameContents ==
  ASSUME NEW f \in [Chip -> Memory], NEW g \in [Chip -> Memory],
         \A c \in Chip : \A a \in 0 .. MemSize - 1 : f[c][a] = g[c][a]
  PROVE  f = g
<1>1. ASSUME NEW c \in Chip PROVE f[c] = g[c]
  <2>1. PICK x : x = f[c] /\ x \in [0 .. MemSize - 1 -> Byte]  BY DEF Memory
  <2>2. PICK y : y = g[c] /\ y \in [0 .. MemSize - 1 -> Byte]  BY DEF Memory
  <2>3. \A a \in 0 .. MemSize - 1 : x[a] = y[a]  BY <2>1, <2>2
  <2>4. x = y  BY <2>1, <2>2, <2>3, ChipsAssumption
  <2> QED  BY <2>1, <2>2, <2>4
<1> QED  BY <1>1

\* No byte of a write is no change.
LEMMA WrittenNone ==
  ASSUME NEW m \in [Chip -> Memory], NEW r \in Requests
  PROVE  Port!Written(m, r, 0) = m
<1>1. PICK w : w = Port!Written(m, r, 0)  OBVIOUS
<1>2. 0 \in 0 .. 4  OBVIOUS
<1>3. /\ w \in [Chip -> Memory]
      /\ \A c \in Chip : \A a \in 0 .. MemSize - 1 :
           w[c][a] = IF c = ChipOf(r.dev) /\ Port!Offset(r, a) < 0
                       THEN r.wdata[Port!Offset(r, a) + 1] ELSE m[c][a]
  BY <1>1, <1>2, WrittenIs
<1>4. \A a \in 0 .. MemSize - 1 : ~(Port!Offset(r, a) < 0)
  BY RequestType, ChipsAssumption DEF Port!Offset
<1>5. \A c \in Chip : \A a \in 0 .. MemSize - 1 : w[c][a] = m[c][a]
  BY <1>3, <1>4, Zenon
<1>6. w = m  BY <1>3, <1>5, SameContents
<1> QED  BY <1>1, <1>6

\* The next byte of a write goes to the address after the last one's.
LEMMA WrittenNext ==
  ASSUME NEW m \in [Chip -> Memory], NEW r \in Requests, NEW b \in 1 .. 4, NEW g,
         g = [c \in Chip |->
                IF c = ChipOf(r.dev)
                  THEN [Port!Written(m, r, b - 1)[c] EXCEPT ![(r.addr + (b - 1)) % MemSize] = r.wdata[b]]
                  ELSE Port!Written(m, r, b - 1)[c]]
  PROVE  g = Port!Written(m, r, b)
<1> DEFINE x == (r.addr + (b - 1)) % MemSize
<1>0. /\ b \in 0 .. 4 /\ b - 1 \in 0 .. 4 /\ r.addr \in Nat /\ r.wdata[b] \in Byte
      /\ x \in 0 .. MemSize - 1 /\ b - 1 \in 0 .. MemSize - 1
  BY RequestType, ChipsAssumption
<1>1. PICK v : v = Port!Written(m, r, b - 1)  OBVIOUS
<1>2. PICK w : w = Port!Written(m, r, b)  OBVIOUS
<1>3. /\ v \in [Chip -> Memory]
      /\ \A c \in Chip : \A a \in 0 .. MemSize - 1 :
           v[c][a] = IF c = ChipOf(r.dev) /\ Port!Offset(r, a) < b - 1
                       THEN r.wdata[Port!Offset(r, a) + 1] ELSE m[c][a]
  BY <1>0, <1>1, WrittenIs
<1>4. /\ w \in [Chip -> Memory]
      /\ \A c \in Chip : \A a \in 0 .. MemSize - 1 :
           w[c][a] = IF c = ChipOf(r.dev) /\ Port!Offset(r, a) < b
                       THEN r.wdata[Port!Offset(r, a) + 1] ELSE m[c][a]
  BY <1>0, <1>2, WrittenIs
<1>5. \A a \in 0 .. MemSize - 1 : Port!Offset(r, a) \in Nat /\ (Port!Offset(r, a) = b - 1 <=> a = x)
  <2>1. \A a \in 0 .. MemSize - 1 : (a - r.addr) % MemSize = b - 1 <=> a = (r.addr + (b - 1)) % MemSize
    BY <1>0, Around
  <2>2. \A a \in 0 .. MemSize - 1 : (a - r.addr) % MemSize \in Nat
    BY <1>0, ChipsAssumption
  <2> QED  BY <2>1, <2>2, Zenon DEF Port!Offset
<1> HIDE DEF x
<1>6. g = [c \in Chip |-> IF c = ChipOf(r.dev) THEN [v[c] EXCEPT ![x] = r.wdata[b]] ELSE v[c]]
  BY <1>1 DEF x
<1>7. g \in [Chip -> Memory]
  <2>1. \A c \in Chip : [v[c] EXCEPT ![x] = r.wdata[b]] \in Memory  BY <1>0, <1>3 DEF Memory
  <2> QED  BY <2>1, <1>3, <1>6
<1>8. ASSUME NEW c \in Chip, NEW a \in 0 .. MemSize - 1 PROVE g[c][a] = w[c][a]
  <2>0. v[c] \in [0 .. MemSize - 1 -> Byte]  BY <1>3 DEF Memory
  <2>1. CASE c # ChipOf(r.dev)
    <3>1. g[c] = v[c]  BY <2>1, <1>6
    <3>2. v[c][a] = m[c][a] /\ w[c][a] = m[c][a]  BY <2>1, <1>3, <1>4, Zenon
    <3> QED  BY <3>1, <3>2
  <2>2. CASE c = ChipOf(r.dev)
    <3>1. g[c] = [v[c] EXCEPT ![x] = r.wdata[b]]  BY <2>2, <1>6
    <3>2. CASE a = x
      <4>1. g[c][a] = r.wdata[b]  BY <3>1, <3>2, <2>0
      <4>2. Port!Offset(r, a) = b - 1  BY <3>2, <1>5
      <4>3. Port!Offset(r, a) < b /\ Port!Offset(r, a) + 1 = b  BY <4>2, <1>0
      <4>4. w[c][a] = r.wdata[Port!Offset(r, a) + 1]  BY <4>3, <2>2, <1>4, Zenon
      <4> QED  BY <4>1, <4>3, <4>4
    <3>3. CASE a # x
      <4>1. g[c][a] = v[c][a]  BY <3>1, <3>3, <2>0
      <4>2. Port!Offset(r, a) < b <=> Port!Offset(r, a) < b - 1
        <5>1. Port!Offset(r, a) # b - 1 /\ Port!Offset(r, a) \in Nat  BY <3>3, <1>5
        <5> QED  BY <5>1, <1>0
      <4>3. w[c][a] = v[c][a]
        <5>1. CASE Port!Offset(r, a) < b
          BY <5>1, <4>2, <2>2, <1>3, <1>4, Zenon
        <5>2. CASE ~(Port!Offset(r, a) < b)
          BY <5>2, <4>2, <2>2, <1>3, <1>4, Zenon
        <5> QED  BY <5>1, <5>2
      <4> QED  BY <4>1, <4>3
    <3> QED  BY <3>2, <3>3
  <2> QED  BY <2>1, <2>2
<1>9. g = w  BY <1>4, <1>7, <1>8, SameContents
<1> QED  BY <1>2, <1>9

\* Data bytes a memory has whole after k bits of a frame.
WholeAt(k) == IF k >= HeaderBits THEN (k - HeaderBits) \div ByteBits ELSE 0

\* One bit more completes a byte every ByteBits bits.
LEMMA WholeNext ==
  ASSUME NEW k \in Nat
  PROVE  WholeAt(k + 1) = IF k + 1 > HeaderBits /\ (k + 1) % ByteBits = 0
                            THEN WholeAt(k) + 1 ELSE WholeAt(k)
<1>0. HeaderBits \in Nat /\ ByteBits \in Nat /\ ByteBits > 0  BY Widths
<1>1. CASE k + 1 < HeaderBits
  BY <1>0, <1>1 DEF WholeAt
<1>2. CASE k + 1 = HeaderBits
  <2>1. (k + 1 - HeaderBits) \div ByteBits = 0  BY <1>0, <1>2
  <2> QED  BY <2>1, <1>0, <1>2 DEF WholeAt
<1>3. CASE k + 1 > HeaderBits
  <2>1. PICK m \in Nat : m = k + 1  OBVIOUS
  <2>2. m >= HeaderBits  BY <2>1, <1>0, <1>3
  <2>3. PICK b \in Nat : \E x \in 0 .. ByteBits - 1 :
          /\ m = HeaderBits + b * ByteBits + x
          /\ (m - HeaderBits) \div ByteBits = b /\ m % ByteBits = x
    BY <2>2, WholeBytes
  <2>4. PICK x \in 0 .. ByteBits - 1 :
          /\ m = HeaderBits + b * ByteBits + x
          /\ (m - HeaderBits) \div ByteBits = b /\ m % ByteBits = x
    BY <2>3
  <2>5. WholeAt(k + 1) = b /\ k >= HeaderBits /\ k - HeaderBits \in Nat
    BY <2>1, <2>2, <2>4, <1>0, <1>3 DEF WholeAt
  <2>6. WholeAt(k) = (k - HeaderBits) \div ByteBits  BY <2>5 DEF WholeAt
  <2>7. b * ByteBits \in Nat  BY <1>0
  <2>8. CASE x = 0
    <3>1. b >= 1
      <4>1. b = 0 => b * ByteBits = 0  BY <1>0
      <4> QED  BY <4>1, <2>1, <2>4, <2>8, <1>0, <1>3
    <3>2. PICK q \in Nat : q = b - 1  BY <3>1
    <3>3. q * ByteBits = b * ByteBits - ByteBits  BY <3>2, <1>0
    <3>4. k - HeaderBits = q * ByteBits + (ByteBits - 1)
      BY <3>3, <2>1, <2>4, <2>7, <2>8, <1>0
    <3>5. (q * ByteBits + (ByteBits - 1)) \div ByteBits = q
      <4>1. PICK y \in 0 .. ByteBits - 1 : y = ByteBits - 1  BY <1>0
      <4> QED  BY <4>1, <1>0, EuclidOf
    <3>6. WholeAt(k) = b - 1  BY <2>6, <3>2, <3>4, <3>5
    <3>7. k + 1 > HeaderBits /\ (k + 1) % ByteBits = 0  BY <1>3, <2>1, <2>4, <2>8
    <3> QED  BY <2>5, <3>6, <3>7
  <2>9. CASE x # 0
    <3>1. PICK y \in 0 .. ByteBits - 1 : y = x - 1  BY <2>9, <1>0
    <3>2. k - HeaderBits = b * ByteBits + y  BY <3>1, <2>1, <2>4, <2>7, <1>0
    <3>3. (b * ByteBits + y) \div ByteBits = b  BY <1>0, EuclidOf
    <3>4. WholeAt(k) = b  BY <2>6, <3>2, <3>3
    <3>5. (k + 1) % ByteBits # 0  BY <2>1, <2>4, <2>9
    <3> QED  BY <2>5, <3>4, <3>5
  <2> QED  BY <2>8, <2>9
<1> QED  BY <1>0, <1>1, <1>2, <1>3

\* The data bytes of a whole frame are the ones of the request.
LEMMA WholeFrameAt ==
  ASSUME NEW r \in Requests, r.dev # Spi, NEW k \in Nat, k <= FrameBits(r)
  PROVE  /\ WholeAt(k) \in 0 .. DataBytes(r)
         /\ k = FrameBits(r) => WholeAt(k) = DataBytes(r)
<1>0. /\ HeaderBits \in Nat /\ ByteBits \in Nat /\ ByteBits > 0 /\ HeaderBits = ByteBits + AddrBits
      /\ AddrBits \in Nat
  BY Widths
<1>1. PICK d \in 1 .. 4 : d = DataBytes(r) /\ FrameBits(r) = HeaderBits + d * ByteBits
  <2>1. DataBytes(r) = SizeBytes(r.size)  BY DEF DataBytes
  <2>2. FrameBits(r) = ByteBits + AddrBits + SizeBytes(r.size) * ByteBits /\ DataBytes(r) \in 1 .. 4
    BY Amounts
  <2> QED  BY <2>1, <2>2, <1>0
<1>2. CASE k >= HeaderBits
  <2>1. PICK m \in Nat : m = k - HeaderBits /\ m <= d * ByteBits  BY <1>0, <1>1, <1>2
  <2>2. PICK b \in Nat : \E x \in 0 .. ByteBits - 1 :
          m = b * ByteBits + x /\ m \div ByteBits = b /\ m % ByteBits = x
    BY <1>0, Euclid
  <2>3. WholeAt(k) = b  BY <2>1, <2>2, <1>2 DEF WholeAt
  <2>4. b <= d
    <3> SUFFICES ASSUME ~(b <= d) PROVE FALSE
      OBVIOUS
    <3>1. PICK e \in Nat : e = b - (d + 1)  OBVIOUS
    <3>2. e * ByteBits \in Nat /\ b * ByteBits \in Nat /\ d * ByteBits \in Nat  BY <3>1, <1>0
    <3>3. e * ByteBits = b * ByteBits - d * ByteBits - ByteBits  BY <3>1, <1>0
    <3> QED  BY <3>2, <3>3, <2>1, <2>2, <1>0
  <2>5. k = FrameBits(r) => b = d
    <3> SUFFICES ASSUME k = FrameBits(r) PROVE b = d
      OBVIOUS
    <3>1. m = d * ByteBits + 0  BY <2>1, <1>0, <1>1
    <3>2. (d * ByteBits + 0) \div ByteBits = d  BY <1>0, EuclidOf
    <3> QED  BY <3>1, <3>2, <2>2
  <2> QED  BY <2>3, <2>4, <2>5, <1>1
<1>3. CASE k < HeaderBits
  <2>1. d * ByteBits \in Nat  BY <1>0
  <2>2. WholeAt(k) = 0  BY <1>0, <1>3 DEF WholeAt
  <2> QED  BY <2>1, <2>2, <1>0, <1>1, <1>3
<1> QED  BY <1>0, <1>2, <1>3

\* Bit j of byte i of what a memory answers.
LEMMA DueByte ==
  ASSUME NEW r \in Requests, NEW m, NEW i \in 1 .. 4, NEW j \in 1 .. ByteBits, NEW n \in Nat,
         n = HeaderBits + (i - 1) * ByteBits + j
  PROVE  AnswerBit(m, r, n - 1) = IF r.we THEN 0 ELSE m[(r.addr + i - 1) % MemSize][j]
<1>0. HeaderBits \in Nat /\ ByteBits \in Nat /\ ByteBits > 0 /\ r.addr \in Nat
  BY Widths, RequestType
<1>1. PICK q \in Nat : q = i - 1  OBVIOUS
<1>2. PICK x \in 0 .. ByteBits - 1 : x = j - 1  BY <1>0
<1>3. PICK k \in Nat : k = n - 1 /\ k = HeaderBits + q * ByteBits + x
  <2>1. q * ByteBits \in Nat  BY <1>0
  <2> QED  BY <2>1, <1>0, <1>1, <1>2
<1>4. k >= HeaderBits
  <2>1. q * ByteBits \in Nat  BY <1>0
  <2> QED  BY <2>1, <1>0, <1>3
<1>5. k - HeaderBits = q * ByteBits + x
  <2>1. q * ByteBits \in Nat  BY <1>0
  <2> QED  BY <2>1, <1>0, <1>3
<1>6. (k - HeaderBits) \div ByteBits = q  BY <1>0, <1>5, EuclidOf
<1>7. k % ByteBits = x
  <2>1. PICK b \in Nat : \E y \in 0 .. ByteBits - 1 :
          /\ k = HeaderBits + b * ByteBits + y
          /\ (k - HeaderBits) \div ByteBits = b /\ k % ByteBits = y
    BY <1>4, WholeBytes
  <2>2. b = q  BY <1>6, <2>1
  <2> QED  BY <2>1, <2>2, <1>0, <1>3
<1>8. r.addr + q = r.addr + i - 1 /\ 1 + x = j  BY <1>0, <1>1, <1>2
<1>9. AnswerBit(m, r, k) = IF ~r.we THEN m[(r.addr + q) % MemSize][1 + x] ELSE 0
  BY <1>4, <1>6, <1>7, Zenon DEF AnswerBit
<1>10. r.we \in BOOLEAN  BY RequestType
<1> QED  BY <1>3, <1>8, <1>9, <1>10

--------------------------------------------------------------------------------
(* Where the engine is                                                     *)

\* A transaction is on the wire.
Busy == st \in {"SHIFT_LO", "SHIFT_HI", "DONE"}

\* Times the register has been shifted, and rising edges of SCK, since accept.
Shifted == IF st = "DONE" THEN bits_done + 1 ELSE bits_done
Edges   == IF st = "SHIFT_HI" THEN bits_done + sck ELSE Shifted

Chosen(r) == [c \in Chip |-> IF c = ChipOf(r.dev) THEN 0 ELSE 1]

\* The request that was accepted is the one still asked for, and its chip is
\* the one selected.
Asked ==
  /\ cs = IF Busy THEN Chosen(cur) ELSE AllHigh
  /\ Busy => req_valid /\ req = cur
  /\ req_ready <=> st = "POST"
  /\ req_ready => req_valid

\* The counters of the transaction.
Counted ==
  Busy => /\ half_period_r = curHalf /\ div_cnt < half_period_r
          /\ data_bits = DataBytes(cur) * ByteBits
          /\ nbits_total = FrameBits(cur)
          /\ bits_done < nbits_total
          /\ st = "DONE" => bits_done + 1 = nbits_total

\* Which half of which clock period it is, and how long it has lasted.
Timed ==
  /\ ~Busy => sck = 0
  /\ st = "SHIFT_LO" => /\ sck = 0 => age >= div_cnt
                        /\ sck = 1 => age = curHalf /\ div_cnt = 0
  /\ st = "SHIFT_HI" => /\ sck = 0 => age >= curHalf /\ div_cnt = 0
                        /\ sck = 1 => age = div_cnt /\ div_cnt > 0
  /\ st = "DONE" => sck = 1 /\ age = curHalf

\* What is left of the frame in the register, and its next bit on MOSI.
Loaded ==
  Busy => /\ \A i \in 1 .. SregBits - Shifted : sreg[i] = Preload(cur)[i + Shifted]
          /\ st = "SHIFT_HI" \/ (st = "SHIFT_LO" /\ div_cnt > 0) => mosi = sreg[1]

\* A chip has one bit of the frame per rising edge; the others have none.
Received ==
  \A c \in Chip :
    /\ Len(rx[c]) = IF cs[c] = 0 THEN Edges ELSE 0
    /\ cs[c] = 0 => \A n \in 1 .. Edges : rx[c][n] = Preload(cur)[n]

\* The bits sampled are the ones of the rising edges, and the one of the edge
\* that has not been sampled yet is still on the pin.
Sampled ==
  Busy => /\ Len(sent) = Edges
          /\ \A i \in 1 .. Shifted : sreg[SregBits - Shifted + i] = sent[i]
          /\ st = "SHIFT_HI" /\ sck = 1 => sent[Edges] = MisoPin

IInv == TypeOK /\ Asked /\ Counted /\ Timed /\ Loaded /\ Received /\ Sampled

--------------------------------------------------------------------------------
(* Types                                                                   *)

\* The MISO pin carries a bit.
LEMMA PinType == MisoPin \in Bit
BY DEF MisoPin, Bit

\* Every divider gives a half period of at least one cycle.
LEMMA HalfType ==
  ASSUME qspi_div_sel \in Divs
  PROVE  HalfPeriod[qspi_div_sel] \in Nat \ {0}
BY LinkAssumption, EngineAssumption

\* The types hold initially.
LEMMA InitTypes == Init => TypeOK
<1> SUFFICES ASSUME Init PROVE TypeOK
  OBVIOUS
<1>1. EngineTypeOK
  <2>1. SregBits \in Nat  BY Widths
  <2>2. sreg \in [1 .. SregBits -> Bit]  BY <2>1 DEF Init, EngineInit, Bit
  <2>3. req_rdata \in [1 .. 4 -> Byte]  BY ZeroByteIsByte DEF Init, EngineInit
  <2>4. cs \in [Chip -> Bit]  BY DEF Init, EngineInit, AllHigh, Bit
  <2>5. req_ready \in BOOLEAN  BY DEF Init, EngineInit
  <2>6. /\ st \in {"IDLE", "SHIFT_LO", "SHIFT_HI", "DONE", "POST"} /\ sck \in Bit /\ mosi \in Bit
        /\ data_bits \in Nat /\ nbits_total \in Nat /\ bits_done \in Nat
        /\ half_period_r \in Nat \ {0} /\ div_cnt \in Nat
    BY DEF Init, EngineInit, Bit
  <2> QED  BY <2>2, <2>3, <2>4, <2>5, <2>6, Zenon DEF EngineTypeOK
<1>2. /\ rx \in [Chip -> Seq(Bit)] /\ miso \in [Chip -> Bit] /\ peripheralOnCs2 \in BOOLEAN
      /\ chips \in [Chip -> Memory] /\ mem0 \in [Chip -> Memory]
  BY LinkAssumption DEF Init, ChipsInit, Bit, Memory
<1>3. (CHOOSE r \in Requests : TRUE) \in Requests
  BY LinkAssumption
<1>4. req_valid \in BOOLEAN /\ req \in Requests /\ qspi_div_sel \in Divs /\ cur \in Requests
  BY <1>3, LinkAssumption DEF Init
<1>5. curHalf \in Nat \ {0} /\ sent \in Seq(Bit) /\ age \in Nat
  <2>1. HalfPeriod[3] \in Nat \ {0}  BY EngineAssumption DEF DivSel
  <2> QED  BY <2>1 DEF Init
<1> QED  BY <1>1, <1>2, <1>4, <1>5 DEF TypeOK, Memory

\* A step of the engine keeps the types of its registers: the shift register is
\* loaded and shifted at its full width, and the word captured is four bytes.
LEMMA EngineTypes ==
  ASSUME TypeOK, Counted, EngineStep(req_valid, req, qspi_div_sel, MisoPin)
  PROVE  EngineTypeOK'
<1> USE PinType DEF TypeOK, EngineTypeOK
<1>1. CASE Idle(req_valid)
  BY <1>1 DEF Idle, Bit
<1>2. CASE Accept(req_valid, req, qspi_div_sel)
  <2>1. Preload(req) \in [1 .. SregBits -> Bit]  BY PreloadIs
  <2>2. FrameBits(req) \in Nat /\ DataBytes(req) * ByteBits \in Nat  BY Amounts, Widths
  <2>3. HalfPeriod[qspi_div_sel] \in Nat \ {0}  BY HalfType
  <2>4. [c \in Chip |-> IF c = ChipOf(req.dev) THEN 0 ELSE 1] \in [Chip -> Bit]  BY DEF Bit
  <2> QED  BY <1>2, <2>1, <2>2, <2>3, <2>4 DEF Accept, Bit
<1>3. CASE ShiftLo
  <2>1. sreg[1] \in Bit  BY Widths
  <2>2. div_cnt' \in Nat  BY <1>3 DEF ShiftLo
  <2>3. mosi' \in Bit  BY <1>3, <2>1 DEF ShiftLo
  <2>4. st' \in {"IDLE", "SHIFT_LO", "SHIFT_HI", "DONE", "POST"}  BY <1>3 DEF ShiftLo
  <2> QED  BY <1>3, <2>2, <2>3, <2>4 DEF ShiftLo, Bit
<1>4. CASE ShiftHiHold
  <2>1. div_cnt' \in Nat /\ sck' \in Bit  BY <1>4 DEF ShiftHiHold, Bit
  <2>2. req_ready' \in BOOLEAN  BY <1>4 DEF ShiftHiHold
  <2> QED  BY <1>4, <2>1, <2>2, Zenon DEF ShiftHiHold
<1>5. CASE ShiftHiSample(MisoPin)
  <2>1. sreg' \in [1 .. SregBits -> Bit]  BY <1>5, ShiftIn DEF ShiftHiSample
  <2>2. bits_done' \in Nat /\ st' \in {"IDLE", "SHIFT_LO", "SHIFT_HI", "DONE", "POST"}
    BY <1>5 DEF ShiftHiSample
  <2> QED  BY <1>5, <2>1, <2>2 DEF ShiftHiSample, Bit
<1>6. CASE Done
  <2>1. data_bits \in 1 .. 4 * ByteBits
    <3>1. Busy  BY <1>6 DEF Done, Busy
    <3> QED  BY <3>1, Amounts DEF Counted
  <2>2. req_rdata' \in [1 .. 4 -> Byte]  BY <1>6, <2>1, WordType DEF Done
  <2>3. cs' \in [Chip -> Bit]  BY <1>6 DEF Done, AllHigh, Bit
  <2> QED  BY <1>6, <2>2, <2>3 DEF Done, AfterDone, Bit
<1>7. CASE Post
  BY <1>7 DEF Post
<1> QED  BY <1>1, <1>2, <1>3, <1>4, <1>5, <1>6, <1>7 DEF EngineStep

\* A step of the chips keeps them collecting bits, storing bytes and driving bits.
LEMMA ChipTypes ==
  ASSUME TypeOK, EngineTypeOK', ChipsStep
  PROVE  /\ rx' \in [Chip -> Seq(Bit)] /\ miso' \in [Chip -> Bit]
         /\ chips' \in [Chip -> Memory] /\ peripheralOnCs2' \in BOOLEAN
<1>1. /\ mosi \in Bit /\ mosi' \in Bit /\ rx \in [Chip -> Seq(Bit)] /\ miso \in [Chip -> Bit]
      /\ chips \in [Chip -> Memory] /\ peripheralOnCs2 \in BOOLEAN
  BY DEF TypeOK, EngineTypeOK, Memory
<1>2. PICK b \in {mosi, mosi'} :
        /\ rx' = [c \in Chip |-> IF cs'[c] = 1 THEN << >>
                                 ELSE IF SckRises THEN Append(rx[c], b) ELSE rx[c]]
        /\ chips' = [c \in Chip |->
                       IF Clocked(c) /\ IsRam(c) THEN Stored(chips[c], Append(rx[c], b))
                                                 ELSE chips[c]]
  BY DEF ChipsStep, SampleMosi
<1>3. b \in Bit /\ \A c \in Chip : Append(rx[c], b) \in Seq(Bit)
  BY <1>1, <1>2
<1>4. rx' \in [Chip -> Seq(Bit)]
  BY <1>1, <1>2, <1>3
<1>5. \A c \in Chip : Stored(chips[c], Append(rx[c], b)) \in Memory
  BY <1>1, <1>3, StoreType
<1>6. chips' \in [Chip -> Memory]
  BY <1>1, <1>2, <1>5
<1>7. PICK d \in Bit :
        miso' = [c \in Chip |->
                   IF cs'[c] = 1 THEN 0
                   ELSE IF IsRam(c) THEN IF SckFalls THEN MisoBit(chips[c], rx[c]) ELSE miso[c]
                   ELSE IF SckFalls \/ cs[c] = 1 THEN d ELSE miso[c]]
  BY DEF ChipsStep, DriveMiso, Bit
<1>8. \A c \in Chip : MisoBit(chips[c], rx[c]) \in Bit
  BY <1>1, AnswerType
<1>9. miso' \in [Chip -> Bit]
  BY <1>1, <1>7, <1>8 DEF Bit
<1> QED  BY <1>1, <1>4, <1>6, <1>9 DEF ChipsStep

\* The types hold in the next state.
LEMMA Types ==
  ASSUME IInv, [Next]_vars
  PROVE  TypeOK'
<1> USE DEF IInv
<1>1. CASE Tick
  <2>1. EngineTypeOK'  BY <1>1, EngineTypes DEF Tick
  <2>2. /\ rx' \in [Chip -> Seq(Bit)] /\ miso' \in [Chip -> Bit]
        /\ chips' \in [Chip -> Memory] /\ peripheralOnCs2' \in BOOLEAN
    BY <1>1, <2>1, ChipTypes DEF Tick
  <2>3. req_valid' \in BOOLEAN /\ req' \in Requests /\ qspi_div_sel' \in Divs
    BY <1>1 DEF Tick, BusStep, BusHold, BusDrop, BusQuiet, BusRaise, TypeOK
  <2>4. cur' \in Requests /\ curHalf' \in Nat \ {0} /\ mem0' \in [Chip -> Memory]
    BY <1>1, HalfType DEF Tick, History, TypeOK, Memory
  <2>5. age' \in Nat
    BY <1>1 DEF Tick, History, TypeOK
  <2>6. sent' \in Seq(Bit)
    <3>1. sent' \in {<< >>, Append(sent, MisoPin), sent}  BY <1>1 DEF Tick, History
    <3>2. sent \in Seq(Bit)  BY DEF TypeOK
    <3>3. Append(sent, MisoPin) \in Seq(Bit)  BY <3>2, PinType
    <3>4. << >> \in Seq(Bit)  OBVIOUS
    <3> QED  BY <3>1, <3>2, <3>3, <3>4, Zenon
  <2> QED  BY <2>1, <2>2, <2>3, <2>4, <2>5, <2>6 DEF TypeOK, Memory
<1>2. CASE Reset
  <2>1. EngineTypeOK'
    <3>1. SregBits \in Nat  BY Widths
    <3>2. sreg' \in [1 .. SregBits -> Bit]  BY <1>2, <3>1 DEF Reset, EngineReset, Bit
    <3>3. req_rdata' \in [1 .. 4 -> Byte]  BY <1>2, ZeroByteIsByte DEF Reset, EngineReset
    <3>4. cs' \in [Chip -> Bit]  BY <1>2 DEF Reset, EngineReset, AllHigh, Bit
    <3>5. req_ready' \in BOOLEAN  BY <1>2 DEF Reset, EngineReset
    <3>6. /\ st' \in {"IDLE", "SHIFT_LO", "SHIFT_HI", "DONE", "POST"} /\ sck' \in Bit /\ mosi' \in Bit
          /\ data_bits' \in Nat /\ nbits_total' \in Nat /\ bits_done' \in Nat
          /\ half_period_r' \in Nat \ {0} /\ div_cnt' \in Nat
      BY <1>2 DEF EngineTypeOK, TypeOK, Reset, EngineReset, Bit
    <3> QED  BY <3>2, <3>3, <3>4, <3>5, <3>6, Zenon DEF EngineTypeOK
  <2>2. rx' \in [Chip -> Seq(Bit)] /\ miso' \in [Chip -> Bit]
    BY <1>2 DEF Reset, Bit
  <2>3. qspi_div_sel' \in Divs  BY <1>2, LinkAssumption DEF Reset
  <2> QED  BY <1>2, <2>1, <2>2, <2>3 DEF TypeOK, Reset
<1>3. CASE UNCHANGED vars
  BY <1>3 DEF vars, engineVars, chipVars, busVars, histVars, TypeOK, EngineTypeOK
<1> QED  BY <1>1, <1>2, <1>3 DEF Next

--------------------------------------------------------------------------------
(* The request and its counters                                            *)

\* One chip is selected, and only one.
LEMMA OneChosen ==
  ASSUME NEW r
  PROVE  /\ ChipOf(r.dev) \in Chip /\ Chosen(r)[ChipOf(r.dev)] = 0
         /\ \A c \in Chip : Chosen(r)[c] = 0 <=> c = ChipOf(r.dev)
         /\ Chosen(r) # AllHigh
<1>1. ChipOf(r.dev) \in Chip  BY DEF ChipOf, Chip
<1>2. \A c \in Chip : Chosen(r)[c] = IF c = ChipOf(r.dev) THEN 0 ELSE 1  BY DEF Chosen
<1>3. \A c \in Chip : AllHigh[c] = 1  BY DEF AllHigh
<1> QED  BY <1>1, <1>2, <1>3

\* Shifting and answering leave what was accepted alone, and the bus keeps asking.
LEMMA Frozen ==
  ASSUME IInv, Tick, Busy
  PROVE  /\ cur' = cur /\ curHalf' = curHalf
         /\ req_valid /\ req = cur /\ req_valid' /\ req' = req
<1>1. st # "IDLE" /\ st # "POST"  BY DEF Busy
<1>2. cur' = cur /\ curHalf' = curHalf  BY <1>1 DEF Tick, History, Accepting
<1>3. ~req_ready  BY <1>1, Zenon DEF IInv, Asked
<1>4. req_valid /\ req = cur  BY Zenon DEF IInv, Asked
<1>5. req_valid' /\ req' = req  BY <1>3, <1>4, Zenon DEF Tick, BusStep, BusHold, BusDrop, BusQuiet, BusRaise
<1> QED  BY <1>2, <1>4, <1>5, Zenon

\* The bus keeps asking for the accepted request until it is answered.
LEMMA AskedStep ==
  ASSUME IInv, Tick
  PROVE  Asked'
<1> USE DEF IInv
<1>1. CASE Idle(req_valid)
  <2>1. st = "IDLE" /\ st' = "IDLE" /\ cs' = cs /\ req_ready' = FALSE  BY <1>1 DEF Idle
  <2>2. ~Busy /\ ~Busy' /\ st' # "POST"  BY <2>1 DEF Busy
  <2>3. cs' = AllHigh  BY <2>1, <2>2, Zenon DEF Asked
  <2> QED  BY <2>1, <2>2, <2>3, Zenon DEF Asked
<1>2. CASE Accept(req_valid, req, qspi_div_sel)
  <2>1. /\ st = "IDLE" /\ st' = "SHIFT_LO" /\ cs' = Chosen(req) /\ req_ready' = FALSE /\ req_valid
    BY <1>2 DEF Accept, Chosen
  <2>2. Busy' /\ st' # "POST" /\ st # "POST" /\ cur' = req
    BY <1>2, <2>1 DEF Busy, Tick, History, Accepting
  <2>3. ~req_ready  BY <2>2, Zenon DEF Asked
  <2>4. req_valid' /\ req' = req
    BY <2>1, <2>3, Zenon DEF Tick, BusStep, BusHold, BusDrop, BusQuiet, BusRaise
  <2>5. cs' = Chosen(cur)'  BY <2>1, <2>2 DEF Chosen
  <2> QED  BY <2>1, <2>2, <2>4, <2>5, Zenon DEF Asked
<1>3. CASE ShiftLo \/ ShiftHiHold \/ ShiftHiSample(MisoPin)
  <2>1. /\ st \in {"SHIFT_LO", "SHIFT_HI"} /\ st' \in {"SHIFT_LO", "SHIFT_HI", "DONE"}
        /\ cs' = cs /\ req_ready' = FALSE
    BY <1>3 DEF ShiftLo, ShiftHiHold, ShiftHiSample
  <2>2. Busy /\ Busy' /\ st' # "POST"  BY <2>1 DEF Busy
  <2>3. cur' = cur /\ req_valid' /\ req' = req /\ req = cur  BY <2>2, Frozen
  <2>4. cs = Chosen(cur)  BY <2>2, Zenon DEF Asked
  <2>5. cs' = Chosen(cur)'  BY <2>1, <2>3, <2>4 DEF Chosen
  <2> QED  BY <2>1, <2>2, <2>3, <2>5, Zenon DEF Asked
<1>4. CASE Done
  <2>1. st = "DONE" /\ st' = "POST" /\ cs' = AllHigh /\ req_ready' = TRUE
    BY <1>4 DEF Done, AfterDone
  <2>2. Busy /\ ~Busy'  BY <2>1 DEF Busy
  <2>3. req_valid'  BY <2>2, Frozen
  <2> QED  BY <2>1, <2>2, <2>3, Zenon DEF Asked
<1>5. CASE Post
  <2>1. st = "POST" /\ st' = "IDLE" /\ cs' = cs /\ req_ready' = FALSE  BY <1>5 DEF Post
  <2>2. ~Busy /\ ~Busy' /\ st' # "POST"  BY <2>1 DEF Busy
  <2>3. cs' = AllHigh  BY <2>1, <2>2, Zenon DEF Asked
  <2> QED  BY <2>1, <2>2, <2>3, Zenon DEF Asked
<1> QED  BY <1>1, <1>2, <1>3, <1>4, <1>5 DEF Tick, EngineStep

\* The counters stay within the frame and the half period.
LEMMA CountedStep ==
  ASSUME IInv, Tick
  PROVE  Counted'
<1> USE DEF IInv
<1>1. CASE Idle(req_valid) \/ Done \/ Post
  <2>1. ~Busy'  BY <1>1 DEF Idle, Done, Post, AfterDone, Busy
  <2> QED  BY <2>1 DEF Counted
<1>2. CASE Accept(req_valid, req, qspi_div_sel)
  <2>1. /\ st = "IDLE" /\ st' = "SHIFT_LO" /\ data_bits' = DataBytes(req) * ByteBits
        /\ nbits_total' = FrameBits(req) /\ bits_done' = 0
        /\ half_period_r' = HalfPeriod[qspi_div_sel] /\ div_cnt' = 0
    BY <1>2 DEF Accept
  <2>2. cur' = req /\ curHalf' = HalfPeriod[qspi_div_sel]
    BY <2>1 DEF Tick, History, Accepting
  <2>3. HalfPeriod[qspi_div_sel] \in Nat \ {0}  BY HalfType DEF TypeOK
  <2>4. FrameBits(req) \in Nat /\ 0 < FrameBits(req)  BY Amounts, Widths DEF TypeOK
  <2>5. div_cnt' < half_period_r' /\ bits_done' < nbits_total'  BY <2>1, <2>3, <2>4
  <2>6. data_bits' = (DataBytes(cur) * ByteBits)' /\ nbits_total' = FrameBits(cur)'
    BY <2>1, <2>2 DEF DataBytes, FrameBits
  <2> QED  BY <2>1, <2>2, <2>5, <2>6 DEF Counted
<1>3. CASE ShiftLo \/ ShiftHiHold \/ ShiftHiSample(MisoPin)
  <2>1. /\ st \in {"SHIFT_LO", "SHIFT_HI"} /\ half_period_r' = half_period_r
        /\ data_bits' = data_bits /\ nbits_total' = nbits_total
    BY <1>3 DEF ShiftLo, ShiftHiHold, ShiftHiSample
  <2>2. Busy /\ st # "DONE"  BY <2>1 DEF Busy
  <2>3. cur' = cur /\ curHalf' = curHalf  BY <2>2, Frozen
  <2>4. /\ half_period_r = curHalf /\ div_cnt < half_period_r
        /\ data_bits = DataBytes(cur) * ByteBits /\ nbits_total = FrameBits(cur)
        /\ bits_done < nbits_total
    BY <2>2 DEF Counted
  <2>5. /\ data_bits' = (DataBytes(cur) * ByteBits)' /\ nbits_total' = FrameBits(cur)'
        /\ half_period_r' = curHalf'
    BY <2>1, <2>3, <2>4 DEF DataBytes, FrameBits
  <2>6. /\ half_period_r \in Nat \ {0} /\ div_cnt \in Nat /\ bits_done \in Nat /\ nbits_total \in Nat
    BY DEF TypeOK, EngineTypeOK
  <2>7. div_cnt' < half_period_r'
    <3>1. div_cnt' = 0 \/ (div_cnt' = div_cnt + 1 /\ div_cnt # half_period_r - 1)
      BY <1>3 DEF ShiftLo, ShiftHiHold, ShiftHiSample, LastOfPhase
    <3> QED  BY <3>1, <2>1, <2>4, <2>6
  <2>8. bits_done' < nbits_total' /\ (st' = "DONE" => bits_done' + 1 = nbits_total')
    <3>1. CASE ShiftLo \/ ShiftHiHold
      <4>1. bits_done' = bits_done /\ st' # "DONE"
        BY <3>1, <2>1 DEF ShiftLo, ShiftHiHold
      <4> QED  BY <4>1, <2>1, <2>4
    <3>2. CASE ShiftHiSample(MisoPin)
      <4>1. IF bits_done + 1 = nbits_total
              THEN st' = "DONE" /\ bits_done' = bits_done
              ELSE st' = "SHIFT_LO" /\ bits_done' = bits_done + 1
        BY <3>2 DEF ShiftHiSample
      <4> QED  BY <4>1, <2>1, <2>4, <2>6
    <3> QED  BY <1>3, <3>1, <3>2
  <2> QED  BY <2>5, <2>7, <2>8 DEF Counted
<1> QED  BY <1>1, <1>2, <1>3 DEF Tick, EngineStep

--------------------------------------------------------------------------------
(* Time                                                                    *)

\* During a transaction age counts from the last edge of SCK.
LEMMA AgeRuns ==
  ASSUME IInv, Tick, Busy, cs' = cs
  PROVE  age' = IF sck' # sck THEN 1 ELSE age + 1
<1>1. cs = Chosen(cur)  BY Zenon DEF IInv, Asked
<1>2. cs' # AllHigh  BY <1>1, OneChosen
<1> QED  BY <1>2 DEF Tick, History

\* Each half of the clock period lasts as long as the counter says.
LEMMA TimedStep ==
  ASSUME IInv, Tick
  PROVE  Timed'
<1> USE DEF IInv
<1>0. /\ age \in Nat /\ div_cnt \in Nat /\ half_period_r \in Nat \ {0} /\ sck \in {0, 1}
  BY DEF TypeOK, EngineTypeOK, Bit
<1>1. CASE Idle(req_valid) \/ Done \/ Post
  <2>1. ~Busy' /\ st' \notin {"SHIFT_LO", "SHIFT_HI", "DONE"}
    BY <1>1 DEF Idle, Done, Post, AfterDone, Busy
  <2>2. sck' = 0
    <3>1. Post => ~Busy /\ sck' = sck  BY DEF Post, Busy
    <3> QED  BY <1>1, <3>1 DEF Idle, Done, Timed
  <2> QED  BY <2>1, <2>2 DEF Timed
<1>2. CASE Accept(req_valid, req, qspi_div_sel)
  <2>1. st' = "SHIFT_LO" /\ sck' = 0 /\ div_cnt' = 0  BY <1>2 DEF Accept
  <2>2. age' \in Nat  BY <1>0 DEF Tick, History
  <2> QED  BY <2>1, <2>2 DEF Timed, Busy
<1>3. CASE ShiftLo \/ ShiftHiHold \/ ShiftHiSample(MisoPin)
  <2>1. st \in {"SHIFT_LO", "SHIFT_HI"} /\ cs' = cs
    BY <1>3 DEF ShiftLo, ShiftHiHold, ShiftHiSample
  <2>2. Busy  BY <2>1 DEF Busy
  <2>3. curHalf' = curHalf  BY <2>2, Frozen
  <2>4. half_period_r = curHalf /\ div_cnt < curHalf  BY <2>2 DEF Counted
  <2>5. age' = IF sck' # sck THEN 1 ELSE age + 1  BY <2>1, <2>2, AgeRuns
  <2>6. CASE ShiftLo
    <3>1. /\ st = "SHIFT_LO" /\ sck' = 0
          /\ div_cnt' = IF div_cnt = curHalf - 1 THEN 0 ELSE div_cnt + 1
          /\ st' = IF div_cnt = curHalf - 1 THEN "SHIFT_HI" ELSE "SHIFT_LO"
      BY <2>6, <2>4 DEF ShiftLo, LastOfPhase
    <3>2. (sck = 0 => age >= div_cnt) /\ (sck = 1 => age = curHalf /\ div_cnt = 0)
      BY <3>1 DEF Timed
    <3>3. age' >= div_cnt + 1  BY <3>1, <3>2, <2>5, <1>0
    <3>4. CASE div_cnt = curHalf - 1
      <4>1. st' = "SHIFT_HI" /\ div_cnt' = 0 /\ age' >= curHalf  BY <3>1, <3>3, <3>4, <1>0, <2>4
      <4> QED  BY <4>1, <3>1, <2>3 DEF Timed, Busy
    <3>5. CASE div_cnt # curHalf - 1
      <4>1. st' = "SHIFT_LO" /\ age' >= div_cnt'  BY <3>1, <3>3, <3>5
      <4> QED  BY <4>1, <3>1 DEF Timed, Busy
    <3> QED  BY <3>4, <3>5
  <2>7. CASE ShiftHiHold \/ ShiftHiSample(MisoPin)
    <3>1. st = "SHIFT_HI" /\ sck' = 1  BY <2>7 DEF ShiftHiHold, ShiftHiSample
    <3>2. (sck = 0 => age >= curHalf /\ div_cnt = 0) /\ (sck = 1 => age = div_cnt)
      BY <3>1 DEF Timed
    <3>3. age' = div_cnt + 1  BY <3>1, <3>2, <2>5, <1>0
    <3>4. CASE ShiftHiHold
      <4>1. st' = "SHIFT_HI" /\ div_cnt' = div_cnt + 1  BY <3>4 DEF ShiftHiHold
      <4> QED  BY <4>1, <3>1, <3>3, <1>0 DEF Timed, Busy
    <3>5. CASE ShiftHiSample(MisoPin)
      <4>1. st' \in {"SHIFT_LO", "DONE"} /\ div_cnt' = 0 /\ div_cnt = curHalf - 1
        BY <3>5, <2>4 DEF ShiftHiSample, LastOfPhase
      <4>2. age' = curHalf'  BY <4>1, <3>3, <2>3, <2>4, <1>0
      <4> QED  BY <4>1, <4>2, <3>1 DEF Timed, Busy
    <3> QED  BY <2>7, <3>4, <3>5
  <2> QED  BY <1>3, <2>6, <2>7
<1> QED  BY <1>1, <1>2, <1>3 DEF Tick, EngineStep

--------------------------------------------------------------------------------
(* The bits                                                                *)

\* In a transaction no counter leaves the frame, nor the frame the register.
LEMMA Counts ==
  ASSUME IInv, Busy
  PROVE  /\ bits_done \in Nat /\ Shifted \in Nat /\ Edges \in Nat /\ SregBits \in Nat
         /\ FrameBits(cur) \in Nat
         /\ bits_done + 1 <= FrameBits(cur) /\ FrameBits(cur) <= SregBits
         /\ Shifted <= Edges /\ Edges <= FrameBits(cur)
<1>1. /\ bits_done \in Nat /\ sck \in {0, 1} /\ nbits_total \in Nat /\ cur \in Requests
  BY DEF IInv, TypeOK, EngineTypeOK, Bit
<1>2. nbits_total = FrameBits(cur) /\ bits_done < nbits_total
  BY DEF IInv, Counted
<1>3. FrameBits(cur) \in 2 .. SregBits /\ SregBits \in Nat
  BY <1>1, Amounts, Widths
<1> QED  BY <1>1, <1>2, <1>3 DEF Shifted, Edges

\* Every shift brings the next bit of the frame to the front of the register.
LEMMA LoadedStep ==
  ASSUME IInv, Tick
  PROVE  Loaded'
<1> USE DEF IInv
<1>1. CASE Idle(req_valid) \/ Done \/ Post
  <2>1. ~Busy'  BY <1>1 DEF Idle, Done, Post, AfterDone, Busy
  <2> QED  BY <2>1 DEF Loaded
<1>2. CASE Accept(req_valid, req, qspi_div_sel)
  <2>1. st = "IDLE" /\ st' = "SHIFT_LO" /\ sreg' = Preload(req) /\ bits_done' = 0 /\ div_cnt' = 0
    BY <1>2 DEF Accept
  <2>2. cur' = req  BY <2>1 DEF Tick, History, Accepting
  <2>3. Shifted' = 0 /\ SregBits \in Nat  BY <2>1, Widths DEF Shifted
  <2>4. Preload(cur)' = sreg'  BY <2>1, <2>2 DEF Preload, build_preload, DataField
  <2>5. ASSUME NEW i \in 1 .. SregBits - Shifted'
        PROVE  sreg'[i] = Preload(cur)'[i + Shifted']
    <3>1. i + Shifted' = i  BY <2>3
    <3> QED  BY <3>1, <2>4
  <2>6. ~(st' = "SHIFT_HI" \/ (st' = "SHIFT_LO" /\ div_cnt' > 0))  BY <2>1
  <2> QED  BY <2>5, <2>6 DEF Loaded
<1>3. CASE ShiftLo \/ ShiftHiHold
  <2>1. /\ st \in {"SHIFT_LO", "SHIFT_HI"} /\ st' \in {"SHIFT_LO", "SHIFT_HI"}
        /\ sreg' = sreg /\ bits_done' = bits_done
    BY <1>3 DEF ShiftLo, ShiftHiHold
  <2>2. Busy  BY <2>1 DEF Busy
  <2>3. cur' = cur  BY <2>2, Frozen
  <2>4. Shifted' = Shifted  BY <2>1 DEF Shifted
  <2>5. Preload(cur)' = Preload(cur)  BY <2>3 DEF Preload, build_preload, DataField
  <2>6. \A i \in 1 .. SregBits - Shifted' : sreg'[i] = Preload(cur)'[i + Shifted']
    BY <2>1, <2>2, <2>4, <2>5 DEF Loaded
  <2>7. mosi' = sreg'[1]
    <3>1. CASE ShiftLo
      <4>1. st = "SHIFT_LO" /\ mosi' = IF div_cnt = 0 THEN sreg[1] ELSE mosi  BY <3>1 DEF ShiftLo
      <4>2. div_cnt \in Nat  BY DEF TypeOK, EngineTypeOK
      <4>3. div_cnt # 0 => mosi = sreg[1]  BY <2>2, <4>1, <4>2 DEF Loaded
      <4> QED  BY <2>1, <4>1, <4>3
    <3>2. CASE ShiftHiHold
      <4>1. st = "SHIFT_HI" /\ mosi' = mosi  BY <3>2 DEF ShiftHiHold
      <4> QED  BY <2>1, <2>2, <4>1 DEF Loaded
    <3> QED  BY <1>3, <3>1, <3>2
  <2> QED  BY <2>6, <2>7 DEF Loaded
<1>4. CASE ShiftHiSample(MisoPin)
  <2>1. /\ st = "SHIFT_HI" /\ sreg' = Append(Tail(sreg), MisoPin) /\ div_cnt' = 0
        /\ IF bits_done + 1 = nbits_total
             THEN st' = "DONE" /\ bits_done' = bits_done
             ELSE st' = "SHIFT_LO" /\ bits_done' = bits_done + 1
    BY <1>4 DEF ShiftHiSample
  <2>2. Busy  BY <2>1 DEF Busy
  <2>3. cur' = cur  BY <2>2, Frozen
  <2>4. Shifted = bits_done /\ Shifted' = bits_done + 1  BY <2>1 DEF Shifted
  <2>5. Preload(cur)' = Preload(cur)  BY <2>3 DEF Preload, build_preload, DataField
  <2>6. /\ bits_done \in Nat /\ SregBits \in Nat /\ bits_done + 1 <= SregBits
    BY <2>2, Counts
  <2>7. ASSUME NEW i \in 1 .. SregBits - Shifted'
        PROVE  sreg'[i] = Preload(cur)'[i + Shifted']
    <3>1. /\ i \in 1 .. SregBits - 1 /\ i + 1 \in 1 .. SregBits - Shifted
          /\ (i + 1) + Shifted = i + Shifted'
      BY <2>4, <2>6
    <3>2. sreg'[i] = sreg[i + 1]
      <4>1. sreg \in [1 .. SregBits -> Bit]  BY DEF TypeOK, EngineTypeOK
      <4> QED  BY <2>1, <3>1, <4>1, PinType, ShiftIn
    <3>3. sreg[i + 1] = Preload(cur)[(i + 1) + Shifted]  BY <2>2, <3>1, Zenon DEF Loaded
    <3> QED  BY <3>1, <3>2, <3>3, <2>5
  <2>8. ~(st' = "SHIFT_HI" \/ (st' = "SHIFT_LO" /\ div_cnt' > 0))  BY <2>1
  <2> QED  BY <2>7, <2>8 DEF Loaded
<1> QED  BY <1>1, <1>2, <1>3, <1>4 DEF Tick, EngineStep

\* Nothing moves on the chips' side but at a rising edge of SCK, which finds the
\* register's first bit on MOSI.
LEMMA RxMoves ==
  ASSUME IInv, Tick, NEW c \in Chip
  PROVE  /\ cs'[c] = 1 => rx'[c] = << >>
         /\ cs'[c] # 1 /\ ~SckRises => rx'[c] = rx[c]
         /\ cs'[c] # 1 /\ SckRises /\ mosi' = mosi => rx'[c] = Append(rx[c], mosi)
<1>1. PICK b \in {mosi, mosi'} :
        rx' = [d \in Chip |-> IF cs'[d] = 1 THEN << >>
                              ELSE IF SckRises THEN Append(rx[d], b) ELSE rx[d]]
  BY DEF Tick, ChipsStep, SampleMosi
<1>2. rx'[c] = IF cs'[c] = 1 THEN << >> ELSE IF SckRises THEN Append(rx[c], b) ELSE rx[c]
  BY <1>1
<1>3. mosi' = mosi => b = mosi  BY <1>1
<1> QED  BY <1>2, <1>3

\* Every rising edge gives the selected chip the next bit of the frame.
LEMMA ReceivedStep ==
  ASSUME IInv, Tick
  PROVE  Received'
<1> USE DEF IInv
<1>0. rx \in [Chip -> Seq(Bit)] /\ cs \in [Chip -> Bit] /\ sck \in {0, 1}
  BY DEF TypeOK, EngineTypeOK, Bit
<1>1. CASE Idle(req_valid) \/ Done \/ Post
  <2>1. ~Busy'  BY <1>1 DEF Idle, Done, Post, AfterDone, Busy
  <2>2. Asked'  BY AskedStep
  <2>3. cs' = AllHigh  BY <2>1, <2>2 DEF Asked, AllHigh
  <2>4. ASSUME NEW c \in Chip PROVE cs'[c] = 1 /\ rx'[c] = << >>
    <3>1. cs'[c] = 1  BY <2>3 DEF AllHigh
    <3> QED  BY <3>1, RxMoves
  <2>5. ASSUME NEW c \in Chip PROVE Len(rx'[c]) = 0 /\ cs'[c] # 0
    BY <2>4
  <2> QED  BY <2>5 DEF Received
<1>2. CASE Accept(req_valid, req, qspi_div_sel)
  <2>1. st = "IDLE" /\ st' = "SHIFT_LO" /\ sck' = 0 /\ bits_done' = 0
    BY <1>2 DEF Accept
  <2>2. ~SckRises  BY <2>1 DEF SckRises
  <2>3. ~Busy  BY <2>1 DEF Busy
  <2>4. cs = AllHigh  BY <2>3 DEF Asked
  <2>5. Edges' = 0  BY <2>1 DEF Edges, Shifted
  <2>6. ASSUME NEW c \in Chip PROVE Len(rx'[c]) = 0
    <3>1. cs[c] # 0  BY <2>4 DEF AllHigh
    <3>2. Len(rx[c]) = 0  BY <3>1 DEF Received
    <3>3. rx'[c] = << >> \/ rx'[c] = rx[c]  BY <2>2, RxMoves
    <3> QED  BY <3>2, <3>3
  <2> QED  BY <2>5, <2>6 DEF Received
<1>3. CASE ShiftLo
  <2>1. /\ st = "SHIFT_LO" /\ cs' = cs /\ sck' = 0 /\ bits_done' = bits_done
        /\ st' \in {"SHIFT_LO", "SHIFT_HI"}
    BY <1>3 DEF ShiftLo
  <2>2. Busy  BY <2>1 DEF Busy
  <2>3. ~SckRises /\ cur' = cur  BY <2>1, <2>2, Frozen DEF SckRises
  <2>4. bits_done \in Nat  BY DEF TypeOK, EngineTypeOK
  <2>5. Edges' = Edges  BY <2>1, <2>4 DEF Edges, Shifted
  <2>6. Preload(cur)' = Preload(cur)  BY <2>3 DEF Preload, build_preload, DataField
  <2>7. ASSUME NEW c \in Chip, cs[c] = 0 PROVE rx'[c] = rx[c]
    <3>1. cs'[c] # 1  BY <2>1, <2>7
    <3> QED  BY <3>1, <2>3, RxMoves
  <2>8. ASSUME NEW c \in Chip, cs[c] # 0 PROVE Len(rx'[c]) = 0
    <3>1. cs'[c] = 1  BY <2>1, <2>8, <1>0 DEF Bit
    <3>2. rx'[c] = << >>  BY <3>1, RxMoves
    <3> QED  BY <3>2
  <2> QED  BY <2>1, <2>5, <2>6, <2>7, <2>8 DEF Received
<1>4. CASE ShiftHiHold \/ ShiftHiSample(MisoPin)
  <2>1. st = "SHIFT_HI" /\ cs' = cs /\ sck' = 1 /\ mosi' = mosi
    BY <1>4 DEF ShiftHiHold, ShiftHiSample
  <2>2. Busy  BY <2>1 DEF Busy
  <2>3. cur' = cur  BY <2>2, Frozen
  <2>4. Preload(cur)' = Preload(cur)  BY <2>3 DEF Preload, build_preload, DataField
  <2>5. bits_done \in Nat /\ SregBits \in Nat /\ bits_done + 1 <= SregBits /\ FrameBits(cur) \in Nat
    <3>1. /\ bits_done \in Nat /\ SregBits \in Nat /\ FrameBits(cur) \in Nat
          /\ bits_done + 1 <= FrameBits(cur) /\ FrameBits(cur) <= SregBits
      BY <2>2, Counts
    <3> QED  BY <3>1
  <2>6. Edges = bits_done + sck /\ Shifted = bits_done  BY <2>1 DEF Edges, Shifted
  <2>7. Edges' = bits_done + 1
    <3>1. CASE ShiftHiHold
      <4>1. st' = "SHIFT_HI" /\ bits_done' = bits_done  BY <3>1, <2>1 DEF ShiftHiHold
      <4> QED  BY <4>1, <2>1 DEF Edges
    <3>2. CASE ShiftHiSample(MisoPin)
      <4>1. \/ st' = "DONE" /\ bits_done' = bits_done
            \/ st' = "SHIFT_LO" /\ bits_done' = bits_done + 1
        BY <3>2 DEF ShiftHiSample
      <4> QED  BY <4>1 DEF Edges, Shifted
    <3> QED  BY <1>4, <3>1, <3>2
  <2>8. mosi = Preload(cur)[bits_done + 1]
    <3>1. mosi = sreg[1]  BY <2>1, <2>2, Zenon DEF Loaded
    <3>2. 1 \in 1 .. SregBits - Shifted /\ 1 + Shifted = bits_done + 1  BY <2>5, <2>6
    <3>3. sreg[1] = Preload(cur)[1 + Shifted]  BY <2>2, <3>2, Zenon DEF Loaded
    <3> QED  BY <3>1, <3>2, <3>3
  <2>9. ASSUME NEW c \in Chip, cs[c] # 0 PROVE Len(rx'[c]) = 0
    <3>1. cs'[c] = 1  BY <2>1, <2>9, <1>0 DEF Bit
    <3>2. rx'[c] = << >>  BY <3>1, RxMoves
    <3> QED  BY <3>2
  <2>10. ASSUME NEW c \in Chip, cs[c] = 0
         PROVE  Len(rx'[c]) = Edges' /\ \A n \in 1 .. Edges' : rx'[c][n] = Preload(cur)[n]
    <3>0. /\ cs'[c] # 1 /\ rx[c] \in Seq(Bit) /\ Len(rx[c]) = Edges
          /\ \A n \in 1 .. Edges : rx[c][n] = Preload(cur)[n]
      BY <2>1, <2>10, <1>0 DEF Received
    <3>1. CASE sck = 1
      <4>1. ~SckRises  BY <3>1 DEF SckRises
      <4>2. rx'[c] = rx[c]  BY <4>1, <3>0, RxMoves
      <4>3. Edges' = Edges  BY <3>1, <2>6, <2>7
      <4> QED  BY <4>2, <4>3, <3>0
    <3>2. CASE sck = 0
      <4>1. SckRises  BY <3>2, <2>1 DEF SckRises
      <4>2. rx'[c] = Append(rx[c], mosi)  BY <4>1, <2>1, <3>0, RxMoves
      <4>3. Edges = bits_done /\ Edges' = Edges + 1 /\ Edges \in Nat  BY <3>2, <2>5, <2>6, <2>7
      <4>4. mosi \in Bit  BY DEF TypeOK, EngineTypeOK
      <4>5. /\ Len(rx'[c]) = Edges + 1
            /\ \A n \in 1 .. Edges : rx'[c][n] = rx[c][n]
            /\ rx'[c][Edges + 1] = mosi
        <5>1. PICK s \in Seq(Bit) : s = rx[c] /\ Len(s) = Edges  BY <3>0
        <5>2. /\ Len(Append(s, mosi)) = Len(s) + 1
              /\ \A n \in 1 .. Len(s) : Append(s, mosi)[n] = s[n]
              /\ Append(s, mosi)[Len(s) + 1] = mosi
          BY <4>4, Grow
        <5> QED  BY <5>1, <5>2, <4>2, Zenon
      <4>6. ASSUME NEW n \in 1 .. Edges' PROVE rx'[c][n] = Preload(cur)[n]
        <5>1. n \in 1 .. Edges \/ n = Edges + 1  BY <4>3
        <5> QED  BY <5>1, <4>3, <4>5, <3>0, <2>8
      <4> QED  BY <4>3, <4>5, <4>6
    <3> QED  BY <3>1, <3>2, <1>0
  <2> QED  BY <2>1, <2>4, <2>9, <2>10 DEF Received
<1> QED  BY <1>1, <1>2, <1>3, <1>4 DEF Tick, EngineStep

\* MISO moves at a falling edge of SCK or with a chip select, and at no other time.
LEMMA MisoHolds ==
  ASSUME IInv, Tick, cs' = cs, sck' = 1
  PROVE  MisoPin' = MisoPin
<1>1. ~SckFalls  BY DEF SckFalls
<1>2. \A c \in Chip : cs[c] = 0 => miso'[c] = miso[c]
  <2>1. PICK b : miso' = [c \in Chip |->
                   IF cs'[c] = 1 THEN 0
                   ELSE IF IsRam(c) THEN IF SckFalls THEN MisoBit(chips[c], rx[c]) ELSE miso[c]
                   ELSE IF SckFalls \/ cs[c] = 1 THEN b ELSE miso[c]]
    BY DEF Tick, ChipsStep, DriveMiso
  <2>2. ASSUME NEW c \in Chip, cs[c] = 0 PROVE miso'[c] = miso[c]
    <3>1. cs'[c] # 1 /\ cs[c] # 1  BY <2>2
    <3> QED  BY <3>1, <2>1, <1>1
  <2> QED  BY <2>2
<1>3. (\E c \in Chip : cs'[c] = 0 /\ miso'[c] = 1) <=> (\E c \in Chip : cs[c] = 0 /\ miso[c] = 1)
  BY <1>2
<1> QED  BY <1>3 DEF MisoPin

\* The bit sampled is the one that was on the pin at the rising edge.
LEMMA SampledStep ==
  ASSUME IInv, Tick
  PROVE  Sampled'
<1> USE DEF IInv
<1>1. CASE Idle(req_valid) \/ Done \/ Post
  <2>1. ~Busy'  BY <1>1 DEF Idle, Done, Post, AfterDone, Busy
  <2> QED  BY <2>1 DEF Sampled
<1>2. CASE Accept(req_valid, req, qspi_div_sel)
  <2>1. st = "IDLE" /\ st' = "SHIFT_LO" /\ bits_done' = 0  BY <1>2 DEF Accept
  <2>2. sent' = << >>  BY <2>1 DEF Tick, History, Accepting
  <2>3. Edges' = 0 /\ Shifted' = 0  BY <2>1 DEF Edges, Shifted
  <2>4. Len(sent') = Edges'  BY <2>2, <2>3
  <2> QED  BY <2>1, <2>3, <2>4 DEF Sampled
<1>3. CASE ShiftLo
  <2>1. /\ st = "SHIFT_LO" /\ sck' = 0 /\ bits_done' = bits_done /\ sreg' = sreg
        /\ st' \in {"SHIFT_LO", "SHIFT_HI"}
    BY <1>3 DEF ShiftLo
  <2>2. Busy  BY <2>1 DEF Busy
  <2>3. bits_done \in Nat  BY DEF TypeOK, EngineTypeOK
  <2>4. Edges' = Edges /\ Shifted' = Shifted  BY <2>1, <2>3 DEF Edges, Shifted
  <2>5. sent' = sent  BY <2>1 DEF Tick, History, Accepting, SckRises
  <2>6. Len(sent) = Edges /\ \A i \in 1 .. Shifted : sreg[SregBits - Shifted + i] = sent[i]
    BY <2>2 DEF Sampled
  <2> QED  BY <2>1, <2>4, <2>5, <2>6 DEF Sampled
<1>4. CASE ShiftHiHold \/ ShiftHiSample(MisoPin)
  <2>1. st = "SHIFT_HI" /\ cs' = cs /\ sck' = 1
    BY <1>4 DEF ShiftHiHold, ShiftHiSample
  <2>2. Busy  BY <2>1 DEF Busy
  <2>3. bits_done \in Nat /\ SregBits \in Nat /\ bits_done + 1 <= SregBits
    <3>1. /\ bits_done \in Nat /\ SregBits \in Nat /\ FrameBits(cur) \in Nat
          /\ bits_done + 1 <= FrameBits(cur) /\ FrameBits(cur) <= SregBits
      BY <2>2, Counts
    <3> QED  BY <3>1
  <2>4. Edges = bits_done + sck /\ Shifted = bits_done /\ sck \in {0, 1}
    BY <2>1 DEF Edges, Shifted, TypeOK, EngineTypeOK, Bit
  <2>5. /\ Len(sent) = Edges /\ \A i \in 1 .. Shifted : sreg[SregBits - Shifted + i] = sent[i]
        /\ sck = 1 => sent[Edges] = MisoPin
    BY <2>1, <2>2 DEF Sampled
  <2>6. /\ Len(sent') = bits_done + 1 /\ sent'[bits_done + 1] = MisoPin
        /\ \A i \in 1 .. bits_done : sent'[i] = sent[i]
    <3>1. CASE sck = 1
      <4>1. sent' = sent  BY <3>1, <2>1 DEF Tick, History, Accepting, SckRises
      <4> QED  BY <4>1, <3>1, <2>4, <2>5
    <3>2. CASE sck = 0
      <4>1. sent' = Append(sent, MisoPin)
        BY <3>2, <2>1 DEF Tick, History, Accepting, SckRises
      <4>2. Len(sent) = bits_done  BY <3>2, <2>3, <2>4, <2>5
      <4>3. PICK s \in Seq(Bit) : s = sent  BY DEF TypeOK
      <4>4. /\ Len(Append(s, MisoPin)) = Len(s) + 1
            /\ \A n \in 1 .. Len(s) : Append(s, MisoPin)[n] = s[n]
            /\ Append(s, MisoPin)[Len(s) + 1] = MisoPin
        BY PinType, Grow
      <4> QED  BY <4>1, <4>2, <4>3, <4>4, Zenon
    <3> QED  BY <3>1, <3>2, <2>4
  <2>7. CASE ShiftHiHold
    <3>1. st' = "SHIFT_HI" /\ bits_done' = bits_done /\ sreg' = sreg
      BY <2>7, <2>1 DEF ShiftHiHold
    <3>2. Edges' = bits_done + 1 /\ Shifted' = bits_done  BY <3>1, <2>1 DEF Edges, Shifted
    <3>3. MisoPin' = MisoPin  BY <2>1, MisoHolds
    <3>4. \A i \in 1 .. bits_done : sreg'[SregBits - bits_done + i] = sent'[i]
      BY <3>1, <2>4, <2>5, <2>6
    <3> QED  BY <3>2, <3>3, <3>4, <2>6 DEF Sampled
  <2>8. CASE ShiftHiSample(MisoPin)
    <3>1. /\ sreg' = Append(Tail(sreg), MisoPin)
          /\ \/ st' = "DONE" /\ bits_done' = bits_done
             \/ st' = "SHIFT_LO" /\ bits_done' = bits_done + 1
      BY <2>8 DEF ShiftHiSample
    <3>2. Edges' = bits_done + 1 /\ Shifted' = bits_done + 1 /\ st' # "SHIFT_HI"
      BY <3>1 DEF Edges, Shifted
    <3>3. sreg \in [1 .. SregBits -> Bit]  BY DEF TypeOK, EngineTypeOK
    <3>4. (\A i \in 1 .. SregBits - 1 : sreg'[i] = sreg[i + 1]) /\ sreg'[SregBits] = MisoPin
      BY <3>1, <3>3, PinType, ShiftIn
    <3>5. ASSUME NEW i \in 1 .. bits_done + 1
          PROVE  sreg'[SregBits - (bits_done + 1) + i] = sent'[i]
      <4>1. CASE i = bits_done + 1
        <5>1. SregBits - (bits_done + 1) + i = SregBits  BY <4>1, <2>3
        <5> QED  BY <5>1, <4>1, <3>4, <2>6
      <4>2. CASE i # bits_done + 1
        <5>1. PICK k \in 1 .. SregBits - 1 : k = SregBits - (bits_done + 1) + i
          BY <4>2, <2>3
        <5>2. i \in 1 .. bits_done /\ k + 1 = SregBits - bits_done + i  BY <5>1, <4>2, <2>3
        <5>3. sreg'[k] = sreg[k + 1]  BY <3>4
        <5>4. sreg[SregBits - bits_done + i] = sent[i]  BY <5>2, <2>4, <2>5
        <5> QED  BY <5>1, <5>2, <5>3, <5>4, <2>6
      <4> QED  BY <4>1, <4>2
    <3> QED  BY <3>2, <3>5, <2>6 DEF Sampled
  <2> QED  BY <1>4, <2>7, <2>8
<1> QED  BY <1>1, <1>2, <1>3, <1>4 DEF Tick, EngineStep

--------------------------------------------------------------------------------
(* The invariant                                                           *)

\* With no transaction on the wire the invariant asks only for quiet pins.
LEMMA Idling ==
  ASSUME st = "IDLE", cs = AllHigh, sck = 0, req_ready = FALSE, rx = [c \in Chip |-> << >>]
  PROVE  Asked /\ Counted /\ Timed /\ Loaded /\ Received /\ Sampled
<1>1. ~Busy  BY DEF Busy
<1>2. Asked  BY <1>1 DEF Asked
<1>3. Counted /\ Loaded /\ Sampled  BY <1>1 DEF Counted, Loaded, Sampled
<1>4. Timed  BY DEF Timed
<1>5. \A c \in Chip : cs[c] # 0 /\ Len(rx[c]) = 0  BY DEF AllHigh
<1>6. Received  BY <1>5 DEF Received
<1> QED  BY <1>2, <1>3, <1>4, <1>6

\* The invariant holds initially.
LEMMA InitInv == Init => IInv
<1> SUFFICES ASSUME Init PROVE IInv
  OBVIOUS
<1>1. TypeOK  BY InitTypes
<1>2. Asked /\ Counted /\ Timed /\ Loaded /\ Received /\ Sampled
  BY Idling DEF Init, EngineInit, ChipsInit
<1> QED  BY <1>1, <1>2 DEF IInv

\* Every step preserves the invariant.
LEMMA StepInv == IInv /\ [Next]_vars => IInv'
<1> SUFFICES ASSUME IInv, [Next]_vars PROVE IInv'
  OBVIOUS
<1>1. TypeOK'  BY Types
<1>2. CASE Tick
  BY <1>1, <1>2, AskedStep, CountedStep, TimedStep, LoadedStep, ReceivedStep, SampledStep, Zenon
     DEF IInv
<1>3. CASE Reset
  <2>1. /\ st' = "IDLE" /\ cs' = AllHigh /\ sck' = 0 /\ req_ready' = FALSE
        /\ rx' = [c \in Chip |-> << >>]
    BY <1>3 DEF Reset, EngineReset
  <2>2. ~Busy'  BY <2>1 DEF Busy
  <2>3. Asked'  BY <2>1, <2>2 DEF Asked, AllHigh
  <2>4. Counted' /\ Loaded' /\ Sampled'  BY <2>2 DEF Counted, Loaded, Sampled
  <2>5. Timed'  BY <2>1 DEF Timed
  <2>6. \A c \in Chip : cs'[c] # 0 /\ Len(rx'[c]) = 0  BY <2>1 DEF AllHigh
  <2>7. Received'  BY <2>6 DEF Received
  <2> QED  BY <1>1, <2>3, <2>4, <2>5, <2>7 DEF IInv
<1>4. CASE UNCHANGED vars
  <2>1. /\ st' = st /\ cs' = cs /\ sck' = sck /\ mosi' = mosi /\ req_ready' = req_ready
        /\ sreg' = sreg /\ data_bits' = data_bits /\ nbits_total' = nbits_total
        /\ bits_done' = bits_done /\ half_period_r' = half_period_r /\ div_cnt' = div_cnt
        /\ rx' = rx /\ miso' = miso /\ req_valid' = req_valid /\ req' = req
        /\ cur' = cur /\ curHalf' = curHalf /\ sent' = sent /\ age' = age
    BY <1>4 DEF vars, engineVars, chipVars, busVars, histVars
  <2>2. Busy' = Busy /\ Shifted' = Shifted /\ Edges' = Edges /\ MisoPin' = MisoPin
    BY <2>1 DEF Busy, Shifted, Edges, MisoPin
  <2>3. Asked'  BY <2>1, <2>2 DEF IInv, Asked, Chosen, AllHigh
  <2>4. Counted'  BY <2>1, <2>2 DEF IInv, Counted, DataBytes, FrameBits
  <2>5. Timed'  BY <2>1, <2>2 DEF IInv, Timed
  <2>6. Preload(cur)' = Preload(cur)  BY <2>1 DEF Preload, build_preload, DataField
  <2>7. Loaded'  BY <2>1, <2>2, <2>6 DEF IInv, Loaded
  <2>8. Received'  BY <2>1, <2>2, <2>6 DEF IInv, Received
  <2>9. Sampled'  BY <2>1, <2>2 DEF IInv, Sampled
  <2> QED  BY <1>1, <2>3, <2>4, <2>5, <2>7, <2>8, <2>9 DEF IInv
<1> QED  BY <1>2, <1>3, <1>4 DEF Next

\* InvariantHolds: the engine is always where IInv says it is.
THEOREM InvariantHolds == Spec => []IInv
<1>1. Init => IInv  BY InitInv
<1>2. IInv /\ [Next]_vars => IInv'  BY StepInv
<1> QED  BY <1>1, <1>2, PTL DEF Spec

--------------------------------------------------------------------------------
(* What follows from it                                                    *)

\* TypeCorrect: the pins, registers and chips keep their ranges; the shift
\* register keeps its width and every byte a chip stores or answers is a byte.
THEOREM TypeCorrect == Spec => []TypeOK
<1>1. IInv => TypeOK  BY DEF IInv
<1> QED  BY <1>1, InvariantHolds, PTL

\* A selected chip is the one of the transaction on the wire.
LEMMA SelectedIsBusy ==
  ASSUME IInv, NEW c \in Chip, cs[c] = 0
  PROVE  Busy /\ c = ChipOf(cur.dev)
<1>1. cs = IF Busy THEN Chosen(cur) ELSE AllHigh  BY Zenon DEF IInv, Asked
<1>2. Busy  BY <1>1 DEF AllHigh
<1>3. cs = Chosen(cur)  BY <1>1, <1>2
<1> QED  BY <1>2, <1>3, OneChosen

\* OneTransaction: whatever the requests and the dividers, a chip is selected
\* only for the request being asked, and each request is answered by one
\* transaction (ST_IDLE, ST_DONE and ST_POST of qspi_shared_engine.v against the
\* ext_req_valid handshake of mem.v).
THEOREM OneTransaction == Spec => []OneRequestOneTransaction
<1>1. IInv => OneRequestOneTransaction
  <2> SUFFICES ASSUME IInv PROVE OneRequestOneTransaction
    OBVIOUS
  <2>1. req_ready => req_valid  BY Zenon DEF IInv, Asked
  <2>2. Busy => req_valid /\ req = cur  BY Zenon DEF IInv, Asked
  <2>3. Selected => Busy  BY SelectedIsBusy DEF Selected
  <2>4. \A c \in Chip : cs[c] = 0 => c = ChipOf(cur.dev)  BY SelectedIsBusy
  <2> QED  BY <2>1, <2>2, <2>3, <2>4, Zenon DEF OneRequestOneTransaction
<1> QED  BY <1>1, InvariantHolds, PTL

\* WholeFrame: whatever the widths, the selected chip has clocked in a beginning
\* of the frame of the accepted request, and all of it when it is deselected
\* (build_preload and the bit counter of qspi_shared_engine.v).
THEOREM WholeFrame == Spec => []FrameOnTheWire
<1>1. IInv => FrameOnTheWire
  <2> SUFFICES ASSUME IInv, NEW c \in Chip, cs[c] = 0
               PROVE  /\ \A n \in 1 .. Len(rx[c]) : rx[c][n] = FrameBit(cur, n)
                      /\ st = "DONE" => Len(rx[c]) = FrameLength(cur)
    BY DEF FrameOnTheWire
  <2>1. Busy  BY SelectedIsBusy
  <2>2. Len(rx[c]) = Edges /\ \A n \in 1 .. Edges : rx[c][n] = Preload(cur)[n]
    BY DEF IInv, Received
  <2>3. /\ Edges \in Nat /\ FrameBits(cur) \in Nat /\ Edges <= FrameBits(cur)
    BY <2>1, Counts
  <2>4. cur \in Requests  BY DEF IInv, TypeOK
  <2>5. \A n \in 1 .. FrameBits(cur) : Preload(cur)[n] = FrameBit(cur, n)
    BY <2>4, PreloadIs
  <2>6. \A n \in 1 .. Edges : n \in 1 .. FrameBits(cur)  BY <2>3
  <2>7. st = "DONE" => Edges = FrameBits(cur)
    <3>1. st = "DONE" => Edges = bits_done + 1  BY DEF Edges, Shifted
    <3>2. st = "DONE" => bits_done + 1 = nbits_total  BY <2>1, Zenon DEF IInv, Counted
    <3>3. nbits_total = FrameBits(cur)  BY <2>1, Zenon DEF IInv, Counted
    <3> QED  BY <3>1, <3>2, <3>3
  <2>8. FrameLength(cur) = FrameBits(cur)  BY <2>4, Amounts
  <2> QED  BY <2>2, <2>5, <2>6, <2>7, <2>8
<1> QED  BY <1>1, InvariantHolds, PTL

\* AnswerIsFromTheWire: whatever the divider, the bits the engine reports are the
\* ones the device presented at the rising edges of SCK (ST_SHIFT_HI).
THEOREM AnswerIsFromTheWire == Spec => []CapturedFromTheWire
<1>1. IInv => CapturedFromTheWire
  <2> SUFFICES ASSUME IInv, st = "DONE"
               PROVE  SubSeq(sreg, SregBits - Len(sent) + 1, SregBits) = sent
    BY DEF CapturedFromTheWire
  <2>1. Busy  BY DEF Busy
  <2>2. /\ Shifted \in Nat /\ Edges \in Nat /\ SregBits \in Nat /\ FrameBits(cur) \in Nat
        /\ Edges <= FrameBits(cur) /\ FrameBits(cur) <= SregBits
    BY <2>1, Counts
  <2>3. Edges = Shifted /\ Shifted <= SregBits  BY <2>2 DEF Edges
  <2>4. Shifted >= 1
    <3>1. bits_done \in Nat  BY DEF IInv, TypeOK, EngineTypeOK
    <3> QED  BY <3>1 DEF Shifted
  <2>5. /\ sent \in Seq(Bit) /\ Len(sent) = Shifted
        /\ \A i \in 1 .. Shifted : sreg[SregBits - Shifted + i] = sent[i]
    BY <2>1, <2>3 DEF IInv, TypeOK, Sampled
  <2>6. sreg \in [1 .. SregBits -> Bit]  BY DEF IInv, TypeOK, EngineTypeOK
  <2>7. sreg \in Seq(Bit) /\ Len(sreg) = SregBits  BY <2>2, <2>6, SeqDef, LenProperties
  <2>8. PICK p \in 1 .. SregBits : p = SregBits - Shifted + 1 /\ SregBits - p + 1 = Shifted
    BY <2>2, <2>3, <2>4
  <2>9. PICK t : t = SubSeq(sreg, p, SregBits)  OBVIOUS
  <2>10. /\ t \in Seq(Bit) /\ Len(t) = SregBits - p + 1
         /\ \A i \in 1 .. SregBits - p + 1 : t[i] = sreg[p + i - 1]
    BY <2>2, <2>6, <2>7, <2>8, <2>9, SubSeqProperties
  <2>11. \A i \in 1 .. Shifted : p + i - 1 = SregBits - Shifted + i
    BY <2>2, <2>8
  <2>12. Len(t) = Len(sent) /\ \A i \in 1 .. Len(t) : t[i] = sent[i]
    <3>1. Len(t) = Shifted /\ Len(sent) = Shifted  BY <2>5, <2>8, <2>10
    <3>2. ASSUME NEW i \in 1 .. Shifted  PROVE  t[i] = sent[i]
      <4>1. t[i] = sreg[p + i - 1]  BY <2>8, <2>10
      <4>2. p + i - 1 = SregBits - Shifted + i  BY <2>11
      <4>3. sreg[SregBits - Shifted + i] = sent[i]  BY <2>5
      <4> QED  BY <4>1, <4>2, <4>3, Zenon
    <3> QED  BY <3>1, <3>2, Zenon
  <2>13. t = sent  BY <2>5, <2>10, <2>12, SeqEqual
  <2> QED  BY <2>5, <2>8, <2>9, <2>13
<1> QED  BY <1>1, InvariantHolds, PTL

\* MosiHeld: whatever the divider, MOSI does not move on an edge that raises SCK
\* or while SCK is high (ST_SHIFT_LO alone drives it).
THEOREM MosiHeld == Spec => MosiStable
<1>1. [Next]_vars => [sck' = 1 => mosi' = mosi]_vars
  <2> SUFFICES ASSUME Next, sck' = 1 PROVE mosi' = mosi
    OBVIOUS
  <2>1. CASE Tick
    BY <2>1 DEF Tick, EngineStep, Idle, Accept, ShiftLo, ShiftHiHold, ShiftHiSample, Done, Post
  <2>2. CASE Reset
    BY <2>2 DEF Reset, EngineReset
  <2> QED  BY <2>1, <2>2 DEF Next
<1> QED  BY <1>1, PTL DEF Spec, MosiStable

\* PulseWidth: whatever the dividers, and whenever software changes QSPI_CTRL, SCK
\* is high for exactly the half period latched at accept time, and low for no
\* less (half_period_r and div_cnt of qspi_shared_engine.v).
THEOREM PulseWidth == Spec => SckPulseWidth
<1> DEFINE A == /\ SckRises => age >= curHalf
                /\ (SckFalls /\ st' # "IDLE") => age = curHalf
<1>1. IInv /\ [Next]_vars => [A]_vars
  <2> SUFFICES ASSUME IInv, Next PROVE A
    OBVIOUS
  <2>1. Timed  BY DEF IInv
  <2>2. SckRises => age >= curHalf
    <3> SUFFICES ASSUME SckRises PROVE age >= curHalf
      OBVIOUS
    <3>1. sck = 0 /\ sck' = 1  BY DEF SckRises
    <3>2. st = "SHIFT_HI"
      BY <3>1 DEF Next, Tick, Reset, EngineReset, EngineStep, Idle, Accept, ShiftLo,
                  ShiftHiHold, ShiftHiSample, Done, Post
    <3> QED  BY <3>1, <3>2, <2>1 DEF Timed
  <2>3. (SckFalls /\ st' # "IDLE") => age = curHalf
    <3> SUFFICES ASSUME SckFalls, st' # "IDLE" PROVE age = curHalf
      OBVIOUS
    <3>1. sck = 1 /\ sck' = 0  BY DEF SckFalls
    <3>2. Busy  BY <3>1, <2>1 DEF Timed
    <3>3. st \in {"SHIFT_LO", "DONE"}
      BY <3>1, <3>2 DEF Busy, Next, Tick, Reset, EngineReset, EngineStep, Idle, Accept, ShiftLo,
                        ShiftHiHold, ShiftHiSample, Done, Post
    <3> QED  BY <3>1, <3>3, <2>1 DEF Timed
  <2> QED  BY <2>2, <2>3
<1>2. Spec => [][A]_vars  BY <1>1, InvariantHolds, PTL DEF Spec
<1> QED  BY <1>2 DEF SckPulseWidth

\* RawByteIsNotACommand: whatever the byte written to the SPI register, no chip
\* stores anything while it is on the wire, RAM B included: a frame without a
\* header is too short to be a write (spi_ram_model.v, FrameBits).
THEOREM RawByteIsNotACommand == Spec => SpiByteLeavesRamAlone
<1> DEFINE A == cur.dev = Spi /\ Selected => chips' = chips
<1>1. IInv /\ [Next]_vars => [A]_vars
  <2> SUFFICES ASSUME IInv, Next, cur.dev = Spi, Selected PROVE chips' = chips
    OBVIOUS
  <2>1. CASE Tick
    <3>1. Busy  BY SelectedIsBusy DEF Selected
    <3>2. cur \in Requests /\ rx \in [Chip -> Seq(Bit)] /\ chips \in [Chip -> Memory] /\ mosi \in Bit /\ mosi' \in Bit
      <4>1. TypeOK /\ TypeOK'  BY Types DEF IInv
      <4> QED  BY <4>1 DEF TypeOK, EngineTypeOK, Memory
    <3>3. FrameBits(cur) = ByteBits  BY <3>2, Amounts
    <3>4. Edges \in Nat /\ Edges <= ByteBits  BY <3>1, <3>3, Counts
    <3>5. ASSUME NEW c \in Chip, NEW b \in Bit
          PROVE  Stored(chips[c], Append(rx[c], b)) = chips[c]
      <4>1. Len(rx[c]) <= ByteBits /\ Len(rx[c]) \in Nat
        <5>1. Len(rx[c]) = IF cs[c] = 0 THEN Edges ELSE 0  BY DEF IInv, Received
        <5> QED  BY <5>1, <3>4, Widths
      <4>2. Len(Append(rx[c], b)) = Len(rx[c]) + 1  BY <3>2, Grow
      <4>3. ~(Len(Append(rx[c], b)) > HeaderBits)  BY <4>1, <4>2, Widths
      <4> QED  BY <4>3, Zenon DEF Stored
    <3>6. PICK b \in Bit :
            chips' = [c \in Chip |->
                        IF Clocked(c) /\ IsRam(c) THEN Stored(chips[c], Append(rx[c], b))
                                                  ELSE chips[c]]
      BY <2>1, <3>2 DEF Tick, ChipsStep, SampleMosi
    <3> QED  BY <3>2, <3>5, <3>6
  <2>2. CASE Reset
    BY <2>2 DEF Reset
  <2> QED  BY <2>1, <2>2 DEF Next
<1>2. Spec => [][A]_vars  BY <1>1, InvariantHolds, PTL DEF Spec
<1> QED  BY <1>2 DEF SpiByteLeavesRamAlone

--------------------------------------------------------------------------------
(* The abstract port                                                       *)

\* Only a board without a raw device on CS2 is asked for RAM B.
Wired == req_valid => (peripheralOnCs2 => req.dev # RamB)

\* A write has reached the chips up to the last whole byte; nothing else reaches them.
Kept ==
  Busy => chips = IF Port!IsMemWrite(cur) THEN Port!Written(mem0, cur, WholeAt(Edges)) ELSE mem0

\* What the memory of the accepted request answers after n bits of its frame.
Due(n) == AnswerBit(mem0[ChipOf(cur.dev)], cur, n)

\* A chip that is not selected leaves MISO low; the selected memory puts its
\* answer there at the fall of SCK and keeps it to the next.
Driven ==
  /\ \A c \in Chip : cs[c] = 1 => miso[c] = 0
  /\ (st = "SHIFT_LO" /\ sck = 0) \/ st = "SHIFT_HI"
       => (cur.dev # Spi => miso[ChipOf(cur.dev)] = Due(bits_done))

\* The bits on the pin at the rising edges so far were the ones due.
Heard == Busy /\ cur.dev # Spi => \A i \in 1 .. Edges : sent[i] = Due(i - 1)

RInv == IInv /\ Wired /\ Kept /\ Driven /\ Heard

\* A cycle inside a transaction.
Shifting == ShiftLo \/ ShiftHiHold \/ ShiftHiSample(MisoPin)

\* The steps of the engine, those inside a transaction together.
LEMMA StepCases ==
  ASSUME Tick
  PROVE  Idle(req_valid) \/ Accept(req_valid, req, qspi_div_sel) \/ Shifting \/ Done \/ Post
BY DEF Tick, EngineStep, Shifting

\* What a cycle inside a transaction does to the edge it is at.
LEMMA EdgeNext ==
  ASSUME IInv, Tick, Shifting
  PROVE  /\ Busy /\ Busy' /\ cs' = cs /\ cur' = cur /\ mem0' = mem0
         /\ Edges \in Nat /\ bits_done \in Nat
         /\ Edges' = IF SckRises THEN Edges + 1 ELSE Edges
         /\ SckRises => st = "SHIFT_HI" /\ Edges = bits_done /\ mosi' = mosi
                        /\ Edges + 1 <= FrameBits(cur) /\ FrameBits(cur) \in Nat
<1>1. /\ st \in {"SHIFT_LO", "SHIFT_HI"} /\ st' \in {"SHIFT_LO", "SHIFT_HI", "DONE"} /\ cs' = cs
  BY DEF Shifting, ShiftLo, ShiftHiHold, ShiftHiSample
<1>2. Busy /\ Busy'  BY <1>1 DEF Busy
<1>3. cur' = cur /\ mem0' = mem0  BY <1>1 DEF Tick, History, Accepting
<1>4. /\ bits_done \in Nat /\ Edges \in Nat /\ sck \in {0, 1} /\ FrameBits(cur) \in Nat
      /\ bits_done + 1 <= FrameBits(cur)
  <2>1. sck \in {0, 1}  BY DEF IInv, TypeOK, EngineTypeOK, Bit
  <2> QED  BY <2>1, <1>2, Counts
<1>5. CASE ShiftLo
  <2>1. /\ st = "SHIFT_LO" /\ sck' = 0 /\ bits_done' = bits_done /\ st' \in {"SHIFT_LO", "SHIFT_HI"}
    BY <1>5 DEF ShiftLo
  <2>2. ~SckRises  BY <2>1 DEF SckRises
  <2>3. Edges' = Edges  BY <2>1, <1>4 DEF Edges, Shifted
  <2> QED  BY <1>1, <1>2, <1>3, <1>4, <2>2, <2>3
<1>6. CASE ShiftHiHold \/ ShiftHiSample(MisoPin)
  <2>1. st = "SHIFT_HI" /\ sck' = 1 /\ mosi' = mosi
    BY <1>6 DEF ShiftHiHold, ShiftHiSample
  <2>2. Edges = bits_done + sck  BY <2>1 DEF Edges
  <2>3. Edges' = bits_done + 1
    <3>1. CASE ShiftHiHold
      <4>1. st' = "SHIFT_HI" /\ bits_done' = bits_done  BY <3>1, <2>1 DEF ShiftHiHold
      <4> QED  BY <4>1, <2>1 DEF Edges
    <3>2. CASE ShiftHiSample(MisoPin)
      <4>1. \/ st' = "DONE" /\ bits_done' = bits_done
            \/ st' = "SHIFT_LO" /\ bits_done' = bits_done + 1
        BY <3>2 DEF ShiftHiSample
      <4> QED  BY <4>1 DEF Edges, Shifted
    <3> QED  BY <1>6, <3>1, <3>2
  <2>4. SckRises <=> sck = 0  BY <2>1 DEF SckRises
  <2>5. Edges' = IF SckRises THEN Edges + 1 ELSE Edges
    <3>1. CASE sck = 0  BY <3>1, <2>2, <2>3, <2>4, <1>4
    <3>2. CASE sck = 1  BY <3>2, <2>2, <2>3, <2>4, <1>4
    <3> QED  BY <3>1, <3>2, <1>4
  <2>6. SckRises => Edges = bits_done  BY <2>2, <2>4, <1>4
  <2> QED  BY <1>1, <1>2, <1>3, <1>4, <2>1, <2>5, <2>6
<1> QED  BY <1>5, <1>6 DEF Shifting

\* The contents of the chips move at a rising edge of SCK and at no other time.
LEMMA ChipsMove ==
  ASSUME IInv, Tick
  PROVE  /\ ~SckRises => chips' = chips
         /\ SckRises /\ mosi' = mosi =>
              chips' = [c \in Chip |->
                          IF cs'[c] = 0 /\ IsRam(c) THEN Stored(chips[c], Append(rx[c], mosi))
                                                    ELSE chips[c]]
<1>1. PICK b \in {mosi, mosi'} :
        chips' = [c \in Chip |-> IF Clocked(c) /\ IsRam(c) THEN Stored(chips[c], Append(rx[c], b))
                                                           ELSE chips[c]]
  BY DEF Tick, ChipsStep, SampleMosi
<1>2. chips \in [Chip -> Memory]  BY DEF IInv, TypeOK, Memory
<1>3. ASSUME ~SckRises PROVE chips' = chips
  <2>1. \A c \in Chip : ~Clocked(c)  BY <1>3 DEF Clocked
  <2> QED  BY <1>1, <1>2, <2>1
<1>4. ASSUME SckRises, mosi' = mosi
      PROVE  chips' = [c \in Chip |->
                          IF cs'[c] = 0 /\ IsRam(c) THEN Stored(chips[c], Append(rx[c], mosi))
                                                    ELSE chips[c]]
  <2>1. b = mosi  BY <1>4
  <2>2. \A c \in Chip : Clocked(c) <=> cs'[c] = 0  BY <1>4 DEF Clocked
  <2> QED  BY <1>1, <2>1, <2>2
<1> QED  BY <1>3, <1>4

\* Every cycle that is not inside a transaction leaves SCK low.
LEMMA NoRise ==
  ASSUME Tick, ~Shifting, IInv
  PROVE  ~SckRises
<1>1. Idle(req_valid) \/ Accept(req_valid, req, qspi_div_sel) \/ Done => sck' = 0
  BY DEF Idle, Accept, Done
<1>2. Post => sck' = sck  BY DEF Post
<1> QED  BY <1>1, <1>2, StepCases DEF SckRises

\* The bus raises no request the board cannot serve.
LEMMA WiredStep ==
  ASSUME IInv, Wired, Tick
  PROVE  Wired'
<1>1. peripheralOnCs2' = peripheralOnCs2  BY DEF Tick, ChipsStep
<1>2. CASE BusHold \/ BusDrop \/ BusQuiet
  <2>1. req' = req /\ (req_valid' => req_valid)
    BY <1>2 DEF BusHold, BusDrop, BusQuiet
  <2> QED  BY <1>1, <2>1 DEF Wired
<1>3. CASE BusRaise
  <2>1. req' \in {r \in Requests : peripheralOnCs2 => r.dev # RamB}  BY <1>3 DEF BusRaise
  <2> QED  BY <1>1, <2>1 DEF Wired
<1> QED  BY <1>2, <1>3 DEF Tick, BusStep

\* The chip of a request that is being served, unless it is a raw byte, is a memory.
LEMMA ServedByRam ==
  ASSUME IInv, Wired, req_valid, req.dev # Spi
  PROVE  IsRam(ChipOf(req.dev))
<1>1. req \in Requests  BY DEF IInv, TypeOK
<1>2. req.dev \in 0 .. 3  BY <1>1, RequestType
<1>3. peripheralOnCs2 => req.dev # RamB  BY DEF Wired
<1>4. req.dev # RamB => ChipOf(req.dev) # 2
  BY <1>2 DEF ChipOf, Flash, RamA, RamB, Spi
<1> QED  BY <1>3, <1>4 DEF IsRam

\* The same of the request accepted last.
LEMMA CurRam ==
  ASSUME IInv, Wired, Busy, cur.dev # Spi
  PROVE  IsRam(ChipOf(cur.dev))
<1>1. req_valid /\ req = cur  BY Zenon DEF IInv, Asked
<1> QED  BY <1>1, ServedByRam

\* A bit clocked in extends what the selected chip has of the frame.
LEMMA NextBit ==
  ASSUME IInv, Tick, Shifting, SckRises
  PROVE  /\ Begins(Append(rx[ChipOf(cur.dev)], mosi), cur)
         /\ Len(Append(rx[ChipOf(cur.dev)], mosi)) = Edges + 1
<1> DEFINE c == ChipOf(cur.dev)
<1>0. /\ cs' = cs /\ Busy /\ mosi' = mosi /\ Edges' = Edges + 1 /\ cur' = cur /\ Edges \in Nat
      /\ Edges + 1 <= FrameBits(cur)
  BY EdgeNext
<1>1. c \in Chip /\ cs[c] = 0
  <2>1. cs = Chosen(cur)  BY <1>0, Zenon DEF IInv, Asked
  <2> QED  BY <2>1, OneChosen
<1>2. mosi \in Bit /\ rx[c] \in Seq(Bit)  BY <1>1 DEF IInv, TypeOK, EngineTypeOK
<1>3. cs'[c] # 1  BY <1>0, <1>1
<1>4. rx'[c] = Append(rx[c], mosi)  BY <1>0, <1>1, <1>3, RxMoves
<1>5. Received'  BY ReceivedStep
<1>6. cs'[c] = 0 /\ c \in Chip  BY <1>0, <1>1
<1>7. Len(rx'[c]) = Edges' /\ \A n \in 1 .. Edges' : rx'[c][n] = Preload(cur)'[n]
  BY <1>5, <1>6 DEF Received
<1>8. Preload(cur)' = Preload(cur)  BY <1>0 DEF Preload, build_preload, DataField
<1>9. Append(rx[c], mosi) \in Seq(Bit)  BY <1>2, Grow
<1> HIDE DEF c
<1>10. PICK s \in Seq(Bit) : s = Append(rx[c], mosi)  BY <1>9
<1>11. Len(s) = Edges + 1 /\ \A n \in 1 .. Edges + 1 : s[n] = Preload(cur)[n]
  BY <1>0, <1>4, <1>7, <1>8, <1>10
<1>12. Begins(s, cur)  BY <1>0, <1>11 DEF Begins
<1> QED  BY <1>10, <1>11, <1>12 DEF c

\* The last bit of a byte of data, and no other, changes a memory.
LEMMA KeptEdge ==
  ASSUME IInv, Wired, Kept, Tick, Shifting, SckRises
  PROVE  Kept'
<1> DEFINE c == ChipOf(cur.dev)
           bits == Append(rx[c], mosi)
<1>0. /\ Busy /\ Busy' /\ cs' = cs /\ cur' = cur /\ mem0' = mem0 /\ mosi' = mosi /\ Edges \in Nat
      /\ Edges' = Edges + 1 /\ Edges + 1 <= FrameBits(cur) /\ FrameBits(cur) \in Nat
  BY EdgeNext
<1>1. /\ cur \in Requests /\ chips \in [Chip -> Memory] /\ mem0 \in [Chip -> Memory] /\ c \in Chip
      /\ \A d \in Chip : cs[d] = 0 <=> d = c
  <2>1. cs = Chosen(cur)  BY <1>0, Zenon DEF IInv, Asked
  <2> QED  BY <2>1, OneChosen DEF IInv, TypeOK, Memory
<1>2. Begins(bits, cur) /\ Len(bits) = Edges + 1  BY NextBit
<1> HIDE DEF c, bits
<1>3. chips' = [d \in Chip |-> IF d = c /\ IsRam(d) THEN Stored(chips[c], bits) ELSE chips[d]]
  <2>1. chips' = [d \in Chip |->
                    IF cs'[d] = 0 /\ IsRam(d) THEN Stored(chips[d], Append(rx[d], mosi))
                                              ELSE chips[d]]
    BY <1>0, ChipsMove
  <2> QED  BY <2>1, <1>0, <1>1 DEF bits
<1>4. chips = IF Port!IsMemWrite(cur) THEN Port!Written(mem0, cur, WholeAt(Edges)) ELSE mem0
  BY <1>0, Zenon DEF Kept
<1>5. Port!IsMemWrite(cur) <=> cur.we /\ cur.dev # Spi
  BY DEF Port!IsMemWrite, Port!Spi, Spi
<1>6. SUFFICES chips' = IF Port!IsMemWrite(cur) THEN Port!Written(mem0, cur, WholeAt(Edges + 1))
                                                ELSE mem0
  <2>1. WholeAt(Edges)' = WholeAt(Edges + 1)  BY <1>0 DEF WholeAt, HeaderBits
  <2>2. Port!IsMemWrite(cur)' <=> Port!IsMemWrite(cur)  BY <1>0 DEF Port!IsMemWrite
  <2>3. Port!Written(mem0, cur, WholeAt(Edges))' = Port!Written(mem0, cur, WholeAt(Edges + 1))
    BY <1>0, <2>1 DEF Port!Written, Port!Offset
  <2> QED  BY <1>0, <2>2, <2>3 DEF Kept
<1>7. CASE cur.dev = Spi
  <2>1. FrameBits(cur) = ByteBits  BY <1>1, <1>7, Amounts
  <2>2. ~(Len(bits) > HeaderBits)  BY <1>0, <1>2, <2>1, Widths
  <2>3. Stored(chips[c], bits) = chips[c]  BY <2>2, Zenon DEF Stored
  <2>4. chips' = chips  BY <1>1, <1>3, <2>3
  <2> QED  BY <2>4, <1>4, <1>5, <1>7
<1>8. CASE cur.dev # Spi /\ cur.we /\ Edges + 1 > HeaderBits /\ (Edges + 1) % ByteBits = 0
  <2>1. Len(bits) > HeaderBits /\ Len(bits) % ByteBits = 0  BY <1>2, <1>8
  <2>2. PICK b \in 1 .. SizeBytes(cur.size) :
          /\ (Len(bits) - HeaderBits) \div ByteBits = b
          /\ Stored(chips[c], bits) = [chips[c] EXCEPT ![(cur.addr + (b - 1)) % MemSize] = cur.wdata[b]]
    BY <1>1, <1>2, <1>8, <2>1, StoredByte
  <2>3. WholeAt(Edges + 1) = b
    BY <1>0, <1>2, <1>8, <2>2, Widths DEF WholeAt
  <2>4. WholeAt(Edges + 1) = WholeAt(Edges) + 1  BY <1>0, <1>8, WholeNext
  <2>5. b \in 1 .. 4  BY <1>1, Amounts
  <2>6. WholeAt(Edges) = b - 1
    <3>1. WholeAt(Edges) \in Int  BY <1>0, Widths DEF WholeAt
    <3> QED  BY <3>1, <2>3, <2>4, <2>5
  <2>7. chips = Port!Written(mem0, cur, b - 1)  BY <1>4, <1>5, <1>8, <2>6
  <2>8. IsRam(c)  BY <1>0, <1>8, CurRam DEF c
  <2>9. chips' = [d \in Chip |->
                    IF d = c THEN [chips[d] EXCEPT ![(cur.addr + (b - 1)) % MemSize] = cur.wdata[b]]
                             ELSE chips[d]]
    BY <1>1, <1>3, <2>2, <2>8
  <2>10. chips' = [d \in Chip |->
                    IF d = ChipOf(cur.dev)
                      THEN [Port!Written(mem0, cur, b - 1)[d]
                              EXCEPT ![(cur.addr + (b - 1)) % MemSize] = cur.wdata[b]]
                      ELSE Port!Written(mem0, cur, b - 1)[d]]
    BY <2>7, <2>9, Zenon DEF c
  <2>11. chips' = Port!Written(mem0, cur, b)  BY <1>1, <2>5, <2>10, WrittenNext
  <2> QED  BY <2>3, <2>11, <1>5, <1>8
<1>9. CASE cur.dev # Spi /\ ~(cur.we /\ Edges + 1 > HeaderBits /\ (Edges + 1) % ByteBits = 0)
  <2>1. ~(cur.we /\ Len(bits) > HeaderBits /\ Len(bits) % ByteBits = 0)  BY <1>2, <1>9
  <2>2. Stored(chips[c], bits) = chips[c]  BY <1>1, <1>2, <1>9, <2>1, StoredNothing
  <2>3. chips' = chips  BY <1>1, <1>3, <2>2
  <2>4. cur.we => WholeAt(Edges + 1) = WholeAt(Edges)  BY <1>0, <1>9, WholeNext
  <2> QED  BY <2>3, <2>4, <1>4, <1>5
<1> QED  BY <1>7, <1>8, <1>9

\* A step of the clock keeps the chips in step with the bytes clocked in.
LEMMA KeptStep ==
  ASSUME IInv, Wired, Kept, Tick
  PROVE  Kept'
<1>1. CASE Idle(req_valid) \/ Done \/ Post
  <2>1. ~Busy'  BY <1>1 DEF Idle, Done, Post, AfterDone, Busy
  <2> QED  BY <2>1 DEF Kept
<1>2. CASE Accept(req_valid, req, qspi_div_sel)
  <2>1. st = "IDLE" /\ st' = "SHIFT_LO" /\ bits_done' = 0 /\ sck' = 0  BY <1>2 DEF Accept
  <2>2. mem0' = chips /\ cur' = req  BY <2>1 DEF Tick, History, Accepting
  <2>3. chips' = chips  BY <2>1, ChipsMove DEF SckRises
  <2>4. Edges' = 0  BY <2>1 DEF Edges, Shifted
  <2>5. WholeAt(Edges)' = 0
    <3>1. HeaderBits \in Nat /\ HeaderBits > 0  BY Widths
    <3> QED  BY <3>1, <2>4 DEF WholeAt, HeaderBits
  <2>6. Port!Written(mem0, cur, WholeAt(Edges))' = Port!Written(chips, req, 0)
    BY <2>2, <2>5 DEF Port!Written, Port!Offset
  <2>7. Port!Written(chips, req, 0) = chips
    <3>1. chips \in [Chip -> Memory] /\ req \in Requests  BY DEF IInv, TypeOK, Memory
    <3> QED  BY <3>1, WrittenNone
  <2> QED  BY <2>2, <2>3, <2>6, <2>7 DEF Kept
<1>3. CASE Shifting
  <2>1. CASE SckRises
    BY <1>3, <2>1, KeptEdge
  <2>2. CASE ~SckRises
    <3>1. Busy /\ cur' = cur /\ mem0' = mem0 /\ Edges' = Edges  BY <1>3, <2>2, EdgeNext
    <3>2. chips' = chips  BY <2>2, ChipsMove
    <3>3. WholeAt(Edges)' = WholeAt(Edges)  BY <3>1 DEF WholeAt, HeaderBits
    <3>4. Port!IsMemWrite(cur)' <=> Port!IsMemWrite(cur)  BY <3>1 DEF Port!IsMemWrite
    <3>5. Port!Written(mem0, cur, WholeAt(Edges))' = Port!Written(mem0, cur, WholeAt(Edges))
      BY <3>1, <3>3 DEF Port!Written, Port!Offset
    <3>6. chips = IF Port!IsMemWrite(cur) THEN Port!Written(mem0, cur, WholeAt(Edges)) ELSE mem0
      BY <3>1, Zenon DEF Kept
    <3> QED  BY <3>1, <3>2, <3>4, <3>5, <3>6 DEF Kept
  <2> QED  BY <2>1, <2>2
<1> QED  BY <1>1, <1>2, <1>3, StepCases

\* What a memory of the board puts on MISO.
LEMMA MisoMoves ==
  ASSUME IInv, Tick, NEW c \in Chip
  PROVE  /\ cs'[c] = 1 => miso'[c] = 0
         /\ cs'[c] # 1 /\ IsRam(c) =>
              miso'[c] = IF SckFalls THEN MisoBit(chips[c], rx[c]) ELSE miso[c]
<1>1. PICK b : miso' = [d \in Chip |->
                 IF cs'[d] = 1 THEN 0
                 ELSE IF IsRam(d) THEN IF SckFalls THEN MisoBit(chips[d], rx[d]) ELSE miso[d]
                 ELSE IF SckFalls \/ cs[d] = 1 THEN b ELSE miso[d]]
  BY DEF Tick, ChipsStep, DriveMiso
<1> QED  BY <1>1

\* Before the frame has begun a memory answers nothing.
LEMMA DueNothing ==
  ASSUME NEW m, NEW r
  PROVE  AnswerBit(m, r, 0) = 0
BY Widths DEF AnswerBit

\* The fall of SCK puts out the bit that is due next.
LEMMA Falls ==
  ASSUME IInv, Wired, Kept, Tick, ShiftLo, SckFalls, cur.dev # Spi
  PROVE  miso'[ChipOf(cur.dev)] = Due(bits_done)
<1> DEFINE c == ChipOf(cur.dev)
<1>0. st = "SHIFT_LO" /\ cs' = cs  BY DEF ShiftLo
<1>1. Busy  BY <1>0 DEF Busy
<1>2. /\ cur \in Requests /\ rx \in [Chip -> Seq(Bit)] /\ c \in Chip /\ cs[c] = 0
  <2>1. cs = Chosen(cur)  BY <1>1, Zenon DEF IInv, Asked
  <2> QED  BY <2>1, OneChosen DEF IInv, TypeOK
<1>3. IsRam(c)  BY <1>1, CurRam
<1>4. miso'[c] = MisoBit(chips[c], rx[c])
  <2>1. cs'[c] # 1  BY <1>0, <1>2
  <2> QED  BY <2>1, <1>2, <1>3, MisoMoves
<1>5. Edges = bits_done  BY <1>0 DEF Edges, Shifted
<1>6. Begins(rx[c], cur) /\ Len(rx[c]) = bits_done
  <2>1. Len(rx[c]) = Edges /\ \A n \in 1 .. Edges : rx[c][n] = Preload(cur)[n]
    BY <1>2 DEF IInv, Received
  <2>2. Edges \in Nat /\ Edges <= FrameBits(cur)  BY <1>1, Counts
  <2> QED  BY <2>1, <2>2, <1>2, <1>5 DEF Begins
<1> HIDE DEF c
<1>7. MisoBit(chips[c], rx[c]) = AnswerBit(chips[c], cur, bits_done)
  <2>1. PICK s : s = rx[c]  OBVIOUS
  <2>2. MisoBit(chips[c], s) = AnswerBit(chips[c], cur, Len(s))
    BY <2>1, <1>2, <1>6, AnsweredBit
  <2> QED  BY <2>1, <2>2, <1>6
<1>8. AnswerBit(chips[c], cur, bits_done) = AnswerBit(mem0[c], cur, bits_done)
  <2>1. CASE cur.we
    BY <2>1, Zenon DEF AnswerBit
  <2>2. CASE ~cur.we
    <3>1. ~Port!IsMemWrite(cur)  BY <2>2 DEF Port!IsMemWrite
    <3>2. chips = mem0  BY <3>1, <1>1, Zenon DEF Kept
    <3> QED  BY <3>2
  <2> QED  BY <2>1, <2>2
<1> QED  BY <1>4, <1>7, <1>8, Zenon DEF Due, c

\* The selected memory keeps the bit that is due on MISO while it may be sampled.
LEMMA DrivenStep ==
  ASSUME IInv, Wired, Kept, Driven, Tick
  PROVE  Driven'
<1>0. \A c \in Chip : cs'[c] = 1 => miso'[c] = 0  BY MisoMoves
<1>1. CASE Idle(req_valid) \/ Done \/ Post
  <2>1. st' \notin {"SHIFT_LO", "SHIFT_HI"}  BY <1>1 DEF Idle, Done, Post, AfterDone
  <2> QED  BY <1>0, <2>1 DEF Driven
<1>2. CASE Accept(req_valid, req, qspi_div_sel)
  <2>1. /\ st = "IDLE" /\ st' = "SHIFT_LO" /\ bits_done' = 0 /\ sck' = 0 /\ req_valid
        /\ cs' = Chosen(req)
    BY <1>2 DEF Accept, Chosen
  <2>2. cur' = req /\ mem0' = chips  BY <2>1 DEF Tick, History, Accepting
  <2>3. ~Busy  BY <2>1 DEF Busy
  <2>4. cs = AllHigh /\ sck = 0  BY <2>3, Zenon DEF IInv, Asked, Timed
  <2>5. \A c \in Chip : miso[c] = 0  BY <2>4 DEF Driven, AllHigh
  <2>6. ASSUME req.dev # Spi PROVE miso'[ChipOf(req.dev)] = 0
    <3>1. IsRam(ChipOf(req.dev))  BY <2>1, <2>6, ServedByRam
    <3>2. ChipOf(req.dev) \in Chip /\ cs'[ChipOf(req.dev)] # 1  BY <2>1, OneChosen
    <3>3. ~SckFalls  BY <2>4 DEF SckFalls
    <3> QED  BY <3>1, <3>2, <3>3, <2>5, MisoMoves
  <2>7. Due(bits_done)' = 0
    <3>1. Due(bits_done)' = AnswerBit(chips[ChipOf(req.dev)], req, 0)
      BY <2>1, <2>2 DEF Due, AnswerBit, HeaderBits
    <3> QED  BY <3>1, DueNothing
  <2>8. cur'.dev # Spi => miso'[ChipOf(cur'.dev)] = Due(bits_done)'  BY <2>2, <2>6, <2>7
  <2> QED  BY <1>0, <2>8 DEF Driven
<1>3. CASE ShiftLo
  <2>1. st = "SHIFT_LO" /\ sck' = 0 /\ bits_done' = bits_done /\ cs' = cs  BY <1>3 DEF ShiftLo
  <2>2. Shifting  BY <1>3 DEF Shifting
  <2>3. Busy /\ cur' = cur /\ mem0' = mem0  BY <2>2, EdgeNext
  <2>4. ASSUME cur.dev # Spi PROVE miso'[ChipOf(cur.dev)] = Due(bits_done)
    <3>1. CASE SckFalls
      BY <3>1, <1>3, <2>4, Falls
    <3>2. CASE ~SckFalls
      <4>1. sck = 0
        <5>1. sck \in {0, 1}  BY DEF IInv, TypeOK, EngineTypeOK, Bit
        <5> QED  BY <5>1, <3>2, <2>1 DEF SckFalls
      <4>2. miso[ChipOf(cur.dev)] = Due(bits_done)  BY <4>1, <2>1, <2>4, Zenon DEF Driven
      <4>3. IsRam(ChipOf(cur.dev))  BY <2>3, <2>4, CurRam
      <4>4. ChipOf(cur.dev) \in Chip /\ cs'[ChipOf(cur.dev)] # 1
        <5>1. cs = Chosen(cur)  BY <2>3, Zenon DEF IInv, Asked
        <5> QED  BY <5>1, <2>1, OneChosen
      <4> QED  BY <4>2, <4>3, <4>4, <3>2, MisoMoves
    <3> QED  BY <3>1, <3>2
  <2>5. Due(bits_done)' = Due(bits_done)  BY <2>1, <2>3 DEF Due, AnswerBit, HeaderBits
  <2>6. cur'.dev # Spi => miso'[ChipOf(cur'.dev)] = Due(bits_done)'  BY <2>3, <2>4, <2>5
  <2> QED  BY <1>0, <2>6 DEF Driven
<1>4. CASE ShiftHiHold
  <2>1. st = "SHIFT_HI" /\ sck' = 1 /\ bits_done' = bits_done /\ cs' = cs  BY <1>4 DEF ShiftHiHold
  <2>2. Shifting  BY <1>4 DEF Shifting
  <2>3. Busy /\ cur' = cur /\ mem0' = mem0  BY <2>2, EdgeNext
  <2>4. ASSUME cur.dev # Spi PROVE miso'[ChipOf(cur.dev)] = Due(bits_done)
    <3>1. ~SckFalls  BY <2>1 DEF SckFalls
    <3>2. miso[ChipOf(cur.dev)] = Due(bits_done)  BY <2>1, <2>4, Zenon DEF Driven
    <3>3. IsRam(ChipOf(cur.dev))  BY <2>3, <2>4, CurRam
    <3>4. ChipOf(cur.dev) \in Chip /\ cs'[ChipOf(cur.dev)] # 1
      <4>1. cs = Chosen(cur)  BY <2>3, Zenon DEF IInv, Asked
      <4> QED  BY <4>1, <2>1, OneChosen
    <3> QED  BY <3>1, <3>2, <3>3, <3>4, MisoMoves
  <2>5. Due(bits_done)' = Due(bits_done)  BY <2>1, <2>3 DEF Due, AnswerBit, HeaderBits
  <2>6. cur'.dev # Spi => miso'[ChipOf(cur'.dev)] = Due(bits_done)'  BY <2>3, <2>4, <2>5
  <2> QED  BY <1>0, <2>6 DEF Driven
<1>5. CASE ShiftHiSample(MisoPin)
  <2>1. st' # "SHIFT_HI" /\ sck' # 0  BY <1>5 DEF ShiftHiSample
  <2> QED  BY <1>0, <2>1 DEF Driven
<1> QED  BY <1>1, <1>2, <1>3, <1>4, <1>5, StepCases DEF Shifting

\* The pin shows the one chip that is selected.
LEMMA PinShows ==
  ASSUME IInv, Busy
  PROVE  MisoPin = miso[ChipOf(cur.dev)]
<1>1. cs = Chosen(cur)  BY Zenon DEF IInv, Asked
<1>2. ChipOf(cur.dev) \in Chip /\ \A c \in Chip : cs[c] = 0 <=> c = ChipOf(cur.dev)
  BY <1>1, OneChosen
<1>3. miso[ChipOf(cur.dev)] \in {0, 1}  BY <1>2 DEF IInv, TypeOK, Bit
<1>4. (\E c \in Chip : cs[c] = 0 /\ miso[c] = 1) <=> miso[ChipOf(cur.dev)] = 1  BY <1>2, Zenon
<1> QED  BY <1>3, <1>4 DEF MisoPin

\* The bits heard are the ones that were due.
LEMMA HeardStep ==
  ASSUME IInv, Driven, Heard, Tick
  PROVE  Heard'
<1>1. CASE Idle(req_valid) \/ Done \/ Post
  <2>1. ~Busy'  BY <1>1 DEF Idle, Done, Post, AfterDone, Busy
  <2> QED  BY <2>1 DEF Heard
<1>2. CASE Accept(req_valid, req, qspi_div_sel)
  <2>1. st' = "SHIFT_LO" /\ bits_done' = 0  BY <1>2 DEF Accept
  <2>2. Edges' = 0  BY <2>1 DEF Edges, Shifted
  <2> QED  BY <2>2 DEF Heard
<1>3. CASE Shifting
  <2> SUFFICES ASSUME cur'.dev # Spi
               PROVE  \A i \in 1 .. Edges' : sent'[i] = Due(i - 1)'
    BY DEF Heard
  <2>0. /\ Busy /\ cur' = cur /\ mem0' = mem0 /\ Edges \in Nat
        /\ Edges' = IF SckRises THEN Edges + 1 ELSE Edges
        /\ SckRises => st = "SHIFT_HI" /\ Edges = bits_done
    BY <1>3, EdgeNext
  <2>1. \A i \in 1 .. Edges : sent[i] = Due(i - 1)  BY <2>0 DEF Heard
  <2>2. st # "IDLE"  BY <2>0 DEF Busy
  <2>3. sent' = IF SckRises THEN Append(sent, MisoPin) ELSE sent
    BY <2>2 DEF Tick, History, Accepting
  <2>4. \A i \in 1 .. Edges' : Due(i - 1)' = Due(i - 1)
    BY <2>0 DEF Due, AnswerBit, HeaderBits
  <2>5. CASE ~SckRises
    BY <2>0, <2>1, <2>3, <2>4, <2>5
  <2>6. CASE SckRises
    <3>1. MisoPin = Due(bits_done)
      <4>1. miso[ChipOf(cur.dev)] = Due(bits_done)  BY <2>0, <2>6, Zenon DEF Driven
      <4> QED  BY <4>1, <2>0, PinShows
    <3>2. PICK s \in Seq(Bit) : s = sent /\ Len(s) = Edges
      BY <2>0 DEF IInv, TypeOK, Sampled
    <3>3. /\ \A i \in 1 .. Edges : sent'[i] = sent[i]
          /\ sent'[Edges + 1] = MisoPin
      <4>1. /\ \A n \in 1 .. Len(s) : Append(s, MisoPin)[n] = s[n]
            /\ Append(s, MisoPin)[Len(s) + 1] = MisoPin
        BY PinType, Grow
      <4> QED  BY <4>1, <3>2, <2>3, <2>6, Zenon
    <3>4. ASSUME NEW i \in 1 .. Edges' PROVE sent'[i] = Due(i - 1)'
      <4>1. i \in 1 .. Edges \/ i = Edges + 1  BY <2>0, <2>6
      <4>2. Due(i - 1)' = Due(i - 1)  BY <2>4
      <4>3. CASE i \in 1 .. Edges
        BY <4>2, <4>3, <2>1, <3>3
      <4>4. CASE i = Edges + 1
        <5>1. i - 1 = bits_done  BY <4>4, <2>0, <2>6
        <5> QED  BY <5>1, <4>2, <4>4, <3>1, <3>3
      <4> QED  BY <4>1, <4>3, <4>4
    <3> QED  BY <3>4
  <2> QED  BY <2>5, <2>6
<1> QED  BY <1>1, <1>2, <1>3, StepCases

\* The invariant of the refinement holds initially.
LEMMA RInvInit == Init => RInv
<1> SUFFICES ASSUME Init PROVE RInv
  OBVIOUS
<1>1. st = "IDLE" /\ req_valid = FALSE /\ miso = [c \in Chip |-> 0]
  BY DEF Init, EngineInit, ChipsInit
<1>2. ~Busy  BY <1>1 DEF Busy
<1>3. Wired /\ Kept /\ Heard  BY <1>1, <1>2 DEF Wired, Kept, Heard
<1>4. Driven  BY <1>1 DEF Driven
<1> QED  BY <1>3, <1>4, InitInv DEF RInv

\* Every step preserves it.
LEMMA RInvStep == RInv /\ [Next]_vars => RInv'
<1> SUFFICES ASSUME RInv, [Next]_vars PROVE RInv'
  OBVIOUS
<1>0. IInv /\ Wired /\ Kept /\ Driven /\ Heard  BY DEF RInv
<1>1. IInv'  BY <1>0, StepInv
<1>2. CASE Tick
  BY <1>0, <1>1, <1>2, WiredStep, KeptStep, DrivenStep, HeardStep, Zenon DEF RInv
<1>3. CASE Reset
  <2>1. st' = "IDLE" /\ req_valid' = FALSE /\ miso' = [c \in Chip |-> 0]
    BY <1>3 DEF Reset, EngineReset
  <2>2. ~Busy'  BY <2>1 DEF Busy
  <2>3. Wired' /\ Kept' /\ Heard'  BY <2>1, <2>2 DEF Wired, Kept, Heard
  <2>4. Driven'  BY <2>1 DEF Driven
  <2> QED  BY <1>1, <2>3, <2>4 DEF RInv
<1>4. CASE UNCHANGED vars
  <2>1. /\ st' = st /\ cs' = cs /\ sck' = sck /\ bits_done' = bits_done /\ miso' = miso
        /\ chips' = chips /\ peripheralOnCs2' = peripheralOnCs2
        /\ req_valid' = req_valid /\ req' = req /\ cur' = cur /\ mem0' = mem0 /\ sent' = sent
    BY <1>4 DEF vars, engineVars, chipVars, busVars, histVars
  <2>2. Busy' = Busy /\ Edges' = Edges  BY <2>1 DEF Busy, Edges, Shifted
  <2>3. Wired'  BY <1>0, <2>1 DEF Wired
  <2>4. Kept'
    <3>1. WholeAt(Edges)' = WholeAt(Edges)  BY <2>2 DEF WholeAt, HeaderBits
    <3>2. Port!IsMemWrite(cur)' = Port!IsMemWrite(cur)  BY <2>1 DEF Port!IsMemWrite
    <3>3. Port!Written(mem0, cur, WholeAt(Edges))' = Port!Written(mem0, cur, WholeAt(Edges))
      BY <2>1, <3>1 DEF Port!Written, Port!Offset
    <3> QED  BY <1>0, <2>1, <2>2, <3>2, <3>3 DEF Kept
  <2>6. Driven'
    <3>1. Due(bits_done)' = Due(bits_done)  BY <2>1 DEF Due, AnswerBit, HeaderBits
    <3> QED  BY <1>0, <2>1, <3>1 DEF Driven
  <2>7. Heard'
    <3>1. \A i \in 1 .. Edges' : Due(i - 1)' = Due(i - 1)  BY <2>1 DEF Due, AnswerBit, HeaderBits
    <3> QED  BY <1>0, <2>1, <2>2, <3>1 DEF Heard
  <2> QED  BY <1>1, <2>3, <2>4, <2>6, <2>7 DEF RInv
<1> QED  BY <1>2, <1>3, <1>4 DEF Next

--------------------------------------------------------------------------------
(* The answer                                                              *)

\* The register at the end of a transaction with a memory holds the word the
\* request reads.
LEMMA AnswerWord ==
  ASSUME RInv, st = "DONE", cur.dev # Spi
  PROVE  CapturedWord(sreg, data_bits) = Port!ReadWord(mem0, cur)
<1> DEFINE m == mem0[ChipOf(cur.dev)]
           w == CapturedWord(sreg, data_bits)
<1>0. IInv /\ Heard /\ Busy  BY DEF RInv, Busy
<1>1. cur \in Requests /\ mem0 \in [Chip -> Memory] /\ sreg \in [1 .. SregBits -> Bit]
  BY <1>0 DEF IInv, TypeOK, EngineTypeOK, Memory
<1>2. m \in Memory  BY <1>1, OneChosen
<1>3. /\ ByteBits \in Nat /\ ByteBits > 0 /\ HeaderBits \in Nat /\ SregBits \in Nat
      /\ HeaderBits = ByteBits + AddrBits /\ AddrBits \in Nat
  BY Widths
<1>4. PICK d \in 1 .. 4 :
        d = DataBytes(cur) /\ data_bits = d * ByteBits /\ FrameBits(cur) = HeaderBits + d * ByteBits
  <2>1. DataBytes(cur) = SizeBytes(cur.size)  BY DEF DataBytes
  <2>2. FrameBits(cur) = ByteBits + AddrBits + SizeBytes(cur.size) * ByteBits /\ DataBytes(cur) \in 1 .. 4
    BY <1>1, Amounts
  <2>3. data_bits = DataBytes(cur) * ByteBits  BY <1>0 DEF IInv, Counted
  <2> QED  BY <2>1, <2>2, <2>3, <1>3
<1>5. PICK f \in Nat : f = HeaderBits + d * ByteBits /\ Shifted = f /\ Edges = f /\ f <= SregBits
  <2>1. Shifted = bits_done + 1 /\ Edges = Shifted  BY DEF Shifted, Edges
  <2>2. bits_done + 1 = nbits_total /\ nbits_total = FrameBits(cur)
    BY <1>0, Zenon DEF IInv, Counted
  <2>3. FrameBits(cur) \in Nat /\ FrameBits(cur) <= SregBits  BY <1>0, Counts
  <2> QED  BY <2>1, <2>2, <2>3, <1>4
<1>6. \A n \in 1 .. f : sreg[SregBits - f + n] = AnswerBit(m, cur, n - 1)
  <2>1. \A n \in 1 .. f : sreg[SregBits - f + n] = sent[n]
    BY <1>0, <1>5 DEF IInv, Sampled
  <2>2. \A n \in 1 .. f : sent[n] = AnswerBit(m, cur, n - 1)
    BY <1>0, <1>5 DEF Heard, Due
  <2> QED  BY <2>1, <2>2
<1> HIDE DEF m
<1>7. Len(sreg) = SregBits
  BY <1>1, <1>3, LenProperties
<1>8. ASSUME NEW i \in 1 .. 4 PROVE i * ByteBits <= d * ByteBits <=> i <= d
  <2>1. CASE i <= d
    <3>1. PICK e \in Nat : e = d - i  BY <2>1
    <3>2. e * ByteBits \in Nat /\ e * ByteBits = d * ByteBits - i * ByteBits  BY <3>1, <1>3
    <3>3. d * ByteBits \in Nat /\ i * ByteBits \in Nat  BY <1>3
    <3> QED  BY <2>1, <3>2, <3>3
  <2>2. CASE ~(i <= d)
    <3>1. PICK e \in Nat : e = i - d - 1  BY <2>2
    <3>2. e * ByteBits \in Nat /\ e * ByteBits = i * ByteBits - d * ByteBits - ByteBits  BY <3>1, <1>3
    <3>3. d * ByteBits \in Nat /\ i * ByteBits \in Nat  BY <1>3
    <3> QED  BY <2>2, <3>2, <3>3, <1>3
  <2> QED  BY <2>1, <2>2
<1>9. w = [i \in 1 .. 4 |->
             IF i * ByteBits <= d * ByteBits
               THEN [j \in 1 .. ByteBits |-> sreg[SregBits - d * ByteBits + (i - 1) * ByteBits + j]]
               ELSE ZeroByte]
  BY <1>4, <1>7 DEF CapturedWord
<1>10. ASSUME NEW i \in 1 .. 4, i <= d, NEW j \in 1 .. ByteBits
       PROVE  sreg[SregBits - d * ByteBits + (i - 1) * ByteBits + j] =
                IF cur.we THEN 0 ELSE m[(cur.addr + i - 1) % MemSize][j]
  <2>1. PICK q \in Nat : q = (i - 1) * ByteBits  BY <1>3
  <2>2. q + ByteBits <= d * ByteBits
    <3>1. PICK e \in Nat : e = d - i  BY <1>10
    <3>2. e * ByteBits \in Nat /\ e * ByteBits = d * ByteBits - q - ByteBits  BY <3>1, <2>1, <1>3
    <3>3. d * ByteBits \in Nat  BY <1>3
    <3> QED  BY <3>2, <3>3, <2>1, <1>3
  <2>3. PICK n \in Nat : n = HeaderBits + q + j  BY <1>3
  <2>4. d * ByteBits \in Nat  BY <1>3
  <2>5. n \in 1 .. f  BY <2>1, <2>2, <2>3, <2>4, <1>3, <1>5
  <2>6. SregBits - d * ByteBits + q + j = SregBits - f + n
    BY <2>1, <2>3, <2>4, <1>3, <1>5
  <2>7. n = HeaderBits + (i - 1) * ByteBits + j  BY <2>1, <2>3
  <2>8. AnswerBit(m, cur, n - 1) = IF cur.we THEN 0 ELSE m[(cur.addr + i - 1) % MemSize][j]
    BY <2>7, <1>1, DueByte
  <2> QED  BY <2>1, <2>5, <2>6, <2>8, <1>6
<1>11. ASSUME NEW i \in 1 .. 4, i <= d
       PROVE  [j \in 1 .. ByteBits |-> sreg[SregBits - d * ByteBits + (i - 1) * ByteBits + j]]
                = IF cur.we THEN ZeroByte ELSE m[(cur.addr + i - 1) % MemSize]
  <2>1. (cur.addr + i - 1) % MemSize \in 0 .. MemSize - 1
    BY <1>1, RequestType, ChipsAssumption
  <2>2. PICK y \in Byte : y = m[(cur.addr + i - 1) % MemSize]  BY <2>1, <1>2 DEF Memory
  <2>3. y \in [1 .. ByteBits -> Bit]  BY <2>2 DEF Byte
  <2>4. \A j \in 1 .. ByteBits :
          sreg[SregBits - d * ByteBits + (i - 1) * ByteBits + j] = IF cur.we THEN 0 ELSE y[j]
    BY <1>10, <1>11, <2>2
  <2>5. CASE cur.we
    BY <2>4, <2>5 DEF ZeroByte
  <2>6. CASE ~cur.we
    <3>1. [j \in 1 .. ByteBits |-> sreg[SregBits - d * ByteBits + (i - 1) * ByteBits + j]]
            = [j \in 1 .. ByteBits |-> y[j]]
      BY <2>4, <2>6
    <3>2. y = [j \in 1 .. ByteBits |-> y[j]]  BY <2>3
    <3> QED  BY <2>2, <2>6, <3>1, <3>2
  <2> QED  BY <2>5, <2>6
<1>12. Port!ReadWord(mem0, cur) =
         [i \in 1 .. 4 |-> IF ~cur.we /\ i <= d THEN m[(cur.addr + i - 1) % MemSize] ELSE ZeroByte]
  <2>1. Port!ChipOf(cur.dev) = ChipOf(cur.dev)
    BY DEF Port!ChipOf, ChipOf, Port!Flash, Flash, Port!RamA, RamA
  <2>2. Port!DataBytes(cur) = DataBytes(cur)
    BY DEF Port!DataBytes, DataBytes, Port!Spi, Spi, Port!SizeBytes, SizeBytes
  <2> QED  BY <2>1, <2>2, <1>4 DEF Port!ReadWord, m
<1>13. ASSUME NEW i \in 1 .. 4
       PROVE  (IF i * ByteBits <= d * ByteBits
                 THEN [j \in 1 .. ByteBits |-> sreg[SregBits - d * ByteBits + (i - 1) * ByteBits + j]]
                 ELSE ZeroByte)
              = (IF ~cur.we /\ i <= d THEN m[(cur.addr + i - 1) % MemSize] ELSE ZeroByte)
  <2>1. CASE i <= d
    <3>1. i * ByteBits <= d * ByteBits  BY <2>1, <1>8
    <3> QED  BY <2>1, <3>1, <1>11, Zenon
  <2>2. CASE ~(i <= d)
    <3>1. ~(i * ByteBits <= d * ByteBits)  BY <2>2, <1>8
    <3> QED  BY <2>2, <3>1, Zenon
  <2> QED  BY <2>1, <2>2
<1> QED  BY <1>9, <1>12, <1>13, Zenon

\* What the port answers to a raw byte is a byte.
LEMMA AnswerRaw ==
  ASSUME IInv, st = "DONE", cur.dev = Spi
  PROVE  \E b \in Byte : CapturedWord(sreg, data_bits) = [i \in 1 .. 4 |-> IF i = 1 THEN b ELSE ZeroByte]
<1>1. Busy  BY DEF Busy
<1>2. data_bits = ByteBits
  <2>1. data_bits = DataBytes(cur) * ByteBits  BY <1>1 DEF IInv, Counted
  <2>2. DataBytes(cur) = 1  BY DEF DataBytes
  <2> QED  BY <2>1, <2>2, Widths
<1>3. sreg \in [1 .. SregBits -> Bit] /\ data_bits \in 1 .. 4 * ByteBits
  BY <1>2, Widths DEF IInv, TypeOK, EngineTypeOK
<1>4. PICK w \in [1 .. 4 -> Byte] : w = CapturedWord(sreg, data_bits)  BY <1>3, WordType
<1>5. ASSUME NEW i \in 1 .. 4, i # 1 PROVE w[i] = ZeroByte
  <2>1. i = 2 \/ i = 3 \/ i = 4  BY <1>5
  <2>2. ~(i * ByteBits <= data_bits)  BY <2>1, <1>2, Widths
  <2>3. w[i] = IF i * ByteBits <= data_bits
                 THEN [j \in 1 .. ByteBits |-> sreg[Len(sreg) - data_bits + (i - 1) * ByteBits + j]]
                 ELSE ZeroByte
    BY <1>4 DEF CapturedWord
  <2> QED  BY <2>2, <2>3
<1>6. w = [i \in 1 .. 4 |-> IF i = 1 THEN w[1] ELSE ZeroByte]
  BY <1>5
<1>7. w[1] \in Byte  OBVIOUS
<1> QED  BY <1>4, <1>6, <1>7

--------------------------------------------------------------------------------
(* The port implements the abstract one                                    *)

\* The contents of the chips seen through the port, and its state.
Seen  == IF Selected THEN mem0 ELSE chips
State == IF st = "IDLE" THEN "idle" ELSE IF st = "POST" THEN "post" ELSE "busy"

\* A chip is selected exactly while a transaction is on the wire.
LEMMA SelectedWhenBusy ==
  ASSUME IInv
  PROVE  Selected <=> Busy
<1>1. Selected => Busy  BY SelectedIsBusy DEF Selected
<1>2. ASSUME Busy PROVE Selected
  <2>1. cs = Chosen(cur)  BY <1>2, Zenon DEF IInv, Asked
  <2> QED  BY <2>1, OneChosen DEF Selected
<1> QED  BY <1>1, <1>2

\* The same of the next state.
LEMMA SelectedNext ==
  ASSUME Asked'
  PROVE  Selected' <=> Busy'
<1>1. cs' = IF Busy' THEN Chosen(cur)' ELSE AllHigh'  BY Zenon DEF Asked
<1>2. ASSUME ~Busy' PROVE ~Selected'
  <2>1. \A c \in Chip : cs'[c] # 0  BY <1>1, <1>2 DEF AllHigh
  <2> QED  BY <2>1 DEF Selected
<1>3. ASSUME Busy' PROVE Selected'
  <2>1. cs' = Chosen(cur')  BY <1>1, <1>3 DEF Chosen
  <2>2. ChipOf(cur'.dev) \in Chip /\ Chosen(cur')[ChipOf(cur'.dev)] = 0  BY OneChosen
  <2>3. ChipOf(cur'.dev) \in Chip /\ cs'[ChipOf(cur'.dev)] = 0  BY <2>1, <2>2
  <2> QED  BY <2>3 DEF Selected
<1> QED  BY <1>2, <1>3

\* What the abstract port sees has the types it expects.
LEMMA SeenTypes ==
  ASSUME RInv, RInv'
  PROVE  Seen \in [Chip -> Memory] /\ req \in Requests /\ cur \in Requests /\ req' \in Requests
<1>1. TypeOK /\ TypeOK'  BY DEF RInv, IInv
<1> QED  BY <1>1 DEF TypeOK, Seen, Memory

\* Nothing is written until the transaction is over.
LEMMA SeenAnswered ==
  ASSUME RInv, Tick, Done
  PROVE  chips' = IF Port!IsMemWrite(cur) THEN Port!Written(Seen, cur, Port!DataBytes(cur)) ELSE Seen
<1>0. IInv /\ Wired /\ Kept  BY DEF RInv
<1>1. st = "DONE" /\ sck' = 0  BY DEF Done
<1>2. Busy  BY <1>1 DEF Busy
<1>3. Seen = mem0  BY <1>0, <1>2, SelectedWhenBusy DEF Seen
<1>4. chips' = chips
  <2>1. ~SckRises  BY <1>1 DEF SckRises
  <2> QED  BY <2>1, <1>0, ChipsMove
<1>5. chips = IF Port!IsMemWrite(cur) THEN Port!Written(mem0, cur, WholeAt(Edges)) ELSE mem0
  BY <1>0, <1>2, Zenon DEF Kept
<1>6. ASSUME Port!IsMemWrite(cur) PROVE WholeAt(Edges) = Port!DataBytes(cur)
  <2>1. cur.dev # Spi  BY <1>6 DEF Port!IsMemWrite, Port!Spi, Spi
  <2>2. cur \in Requests  BY <1>0 DEF IInv, TypeOK
  <2>3. Edges = bits_done + 1  BY <1>1 DEF Edges, Shifted
  <2>4. bits_done + 1 = nbits_total /\ nbits_total = FrameBits(cur)
    BY <1>0, <1>1, <1>2, Zenon DEF IInv, Counted
  <2>5. Edges = FrameBits(cur) /\ Edges \in Nat /\ Edges <= FrameBits(cur)
    BY <2>3, <2>4, <1>0, <1>2, Counts
  <2>6. WholeAt(Edges) = DataBytes(cur)  BY <2>1, <2>2, <2>5, WholeFrameAt
  <2>7. Port!DataBytes(cur) = DataBytes(cur)
    BY DEF Port!DataBytes, DataBytes, Port!Spi, Spi, Port!SizeBytes, SizeBytes
  <2> QED  BY <2>6, <2>7
<1> QED  BY <1>3, <1>4, <1>5, <1>6, Zenon

\* The word captured is one the abstract port may answer.
LEMMA RepliesRight ==
  ASSUME RInv, st = "DONE"
  PROVE  CapturedWord(sreg, data_bits) \in Port!Replies(Seen, cur)
<1>0. IInv /\ Busy  BY DEF RInv, Busy
<1>1. Seen = mem0  BY <1>0, SelectedWhenBusy DEF Seen
<1>2. CASE cur.dev = Spi
  <2>1. cur.dev = Port!Spi  BY <1>2 DEF Port!Spi, Spi
  <2>2. PICK b \in Byte :
          CapturedWord(sreg, data_bits) = [i \in 1 .. 4 |-> IF i = 1 THEN b ELSE ZeroByte]
    BY <1>0, <1>2, AnswerRaw
  <2> QED  BY <2>1, <2>2 DEF Port!Replies
<1>3. CASE cur.dev # Spi
  <2>1. cur.dev # Port!Spi  BY <1>3 DEF Port!Spi, Spi
  <2>2. CapturedWord(sreg, data_bits) = Port!ReadWord(mem0, cur)  BY <1>3, AnswerWord
  <2> QED  BY <2>1, <2>2, <1>1 DEF Port!Replies
<1> QED  BY <1>2, <1>3

\* The bus side of a clock cycle is one of the abstract bus.
LEMMA BusMapped ==
  ASSUME RInv, RInv', Tick
  PROVE  Port!Bus
<1>0. IInv /\ req' \in Requests /\ req_valid' \in BOOLEAN /\ req_valid \in BOOLEAN
  BY DEF RInv, IInv, TypeOK
<1>1. req_ready <=> State = "post"
  <2>1. req_ready <=> st = "POST"  BY <1>0, Zenon DEF IInv, Asked
  <2>2. State = "post" <=> st = "POST"  BY DEF State
  <2> QED  BY <2>1, <2>2
<1>2. Port!ready <=> req_ready  BY <1>1 DEF Port!ready, State
<1>3. CASE BusHold  BY <1>2, <1>3 DEF BusHold, Port!Bus, Port!BusHold
<1>4. CASE BusDrop  BY <1>0, <1>2, <1>4 DEF BusDrop, Port!Bus, Port!BusDrop
<1>5. CASE BusQuiet
  <2>1. ~req_valid  BY <1>5 DEF BusQuiet
  <2> QED  BY <2>1, <1>0, Zenon DEF Port!Bus, Port!BusFree
<1>6. CASE BusRaise
  <2>1. ~req_valid  BY <1>6 DEF BusRaise
  <2> QED  BY <2>1, <1>0, Zenon DEF Port!Bus, Port!BusFree
<1> QED  BY <1>3, <1>4, <1>5, <1>6 DEF Tick, BusStep

\* A clock cycle is a clock cycle of the abstract port.
LEMMA TickMapped ==
  ASSUME RInv, RInv', Tick
  PROVE  Port!Clock
<1>0. IInv /\ Asked' /\ req \in Requests /\ cur \in Requests
  BY SeenTypes DEF RInv, IInv
<1>1. Port!Bus  BY BusMapped
<1>2. (Selected <=> Busy) /\ (Selected' <=> Busy')  BY <1>0, SelectedWhenBusy, SelectedNext
<1>3. SUFFICES Port!PortStep(req_valid, req)
  BY <1>1 DEF Port!Clock
<1>4. CASE Idle(req_valid)
  <2>1. st = "IDLE" /\ st' = "IDLE" /\ ~req_valid /\ req_rdata' = req_rdata  BY <1>4 DEF Idle
  <2>2. ~Busy /\ ~Busy' /\ ~Shifting /\ cur' = cur
    BY <2>1 DEF Busy, Shifting, ShiftLo, ShiftHiHold, ShiftHiSample, Tick, History, Accepting
  <2>3. chips' = chips  BY <1>0, <2>2, NoRise, ChipsMove
  <2>4. Seen' = Seen  BY <1>2, <2>2, <2>3 DEF Seen
  <2>5. State = "idle" /\ State' = "idle"  BY <2>1 DEF State
  <2>6. Port!PortIdle(req_valid)
    BY <2>1, <2>2, <2>4, <2>5 DEF Port!PortIdle, Port!portVars, State, Seen
  <2> QED  BY <2>6 DEF Port!PortStep
<1>5. CASE Accept(req_valid, req, qspi_div_sel)
  <2>1. st = "IDLE" /\ st' = "SHIFT_LO" /\ req_valid /\ req_rdata' = req_rdata  BY <1>5 DEF Accept
  <2>2. ~Busy /\ Busy' /\ ~Shifting /\ cur' = req /\ mem0' = chips
    BY <2>1 DEF Busy, Shifting, ShiftLo, ShiftHiHold, ShiftHiSample, Tick, History, Accepting
  <2>3. Seen' = Seen  BY <1>2, <2>2 DEF Seen
  <2>4. State = "idle" /\ State' = "busy"  BY <2>1 DEF State
  <2>5. Port!Take(req_valid, req)
    BY <2>1, <2>2, <2>3, <2>4 DEF Port!Take, State, Seen
  <2> QED  BY <2>5 DEF Port!PortStep
<1>6. CASE Shifting
  <2>1. /\ st \in {"SHIFT_LO", "SHIFT_HI"} /\ st' \in {"SHIFT_LO", "SHIFT_HI", "DONE"}
        /\ req_rdata' = req_rdata
    BY <1>6 DEF Shifting, ShiftLo, ShiftHiHold, ShiftHiSample
  <2>2. Busy /\ Busy' /\ cur' = cur /\ mem0' = mem0  BY <1>0, <1>6, EdgeNext
  <2>3. Seen' = Seen  BY <1>2, <2>2 DEF Seen
  <2>4. State = "busy" /\ State' = "busy"  BY <2>1 DEF State
  <2>5. Port!Transfer
    BY <2>1, <2>2, <2>3, <2>4 DEF Port!Transfer, Port!portVars, State, Seen
  <2> QED  BY <2>5 DEF Port!PortStep
<1>7. CASE Done
  <2>1. st = "DONE" /\ st' = "POST" /\ req_rdata' = CapturedWord(sreg, data_bits)
    BY <1>7 DEF Done, AfterDone
  <2>2. ~Busy' /\ cur' = cur  BY <2>1 DEF Busy, Tick, History, Accepting
  <2>3. Seen' = chips'  BY <1>2, <2>2 DEF Seen
  <2>4. chips' = IF Port!IsMemWrite(cur) THEN Port!Written(Seen, cur, Port!DataBytes(cur)) ELSE Seen
    BY <1>7, SeenAnswered
  <2>5. req_rdata' \in Port!Replies(Seen, cur)  BY <2>1, RepliesRight
  <2>6. State = "busy" /\ State' = "post"  BY <2>1 DEF State
  <2>7. Seen' = IF Port!IsMemWrite(cur) THEN Port!Written(Seen, cur, Port!DataBytes(cur)) ELSE Seen
    BY <2>3, <2>4
  <2>8. Port!Answer
    BY <2>2, <2>5, <2>6, <2>7 DEF Port!Answer, State, Seen
  <2> QED  BY <2>8 DEF Port!PortStep
<1>8. CASE Post
  <2>1. st = "POST" /\ st' = "IDLE" /\ req_rdata' = req_rdata  BY <1>8 DEF Post
  <2>2. ~Busy /\ ~Busy' /\ ~Shifting /\ cur' = cur
    BY <2>1 DEF Busy, Shifting, ShiftLo, ShiftHiHold, ShiftHiSample, Tick, History, Accepting
  <2>3. chips' = chips  BY <1>0, <2>2, NoRise, ChipsMove
  <2>4. Seen' = Seen  BY <1>2, <2>2, <2>3 DEF Seen
  <2>5. State = "post" /\ State' = "idle"  BY <2>1 DEF State
  <2>6. Port!PortPost
    BY <2>1, <2>2, <2>4, <2>5 DEF Port!PortPost, State, Seen
  <2> QED  BY <2>6 DEF Port!PortStep
<1> QED  BY <1>4, <1>5, <1>6, <1>7, <1>8, StepCases

\* A reset is a reset of the abstract port, which may cut a write short.
LEMMA ResetMapped ==
  ASSUME RInv, RInv', Reset
  PROVE  Port!Reset
<1>0. /\ IInv /\ Kept /\ Asked' /\ cur \in Requests /\ req' \in Requests
      /\ Seen \in [Chip -> Memory]
  BY SeenTypes DEF RInv, IInv
<1>1. /\ st' = "IDLE" /\ req_rdata' = [i \in 1 .. 4 |-> ZeroByte] /\ chips' = chips
      /\ cur' = cur /\ req_valid' = FALSE
  BY DEF Reset, EngineReset
<1>2. ~Busy'  BY <1>1 DEF Busy
<1>3. (Selected <=> Busy) /\ ~Selected'  BY <1>0, <1>2, SelectedWhenBusy, SelectedNext
<1>4. Seen' = chips  BY <1>1, <1>3 DEF Seen
<1>5. State' = "idle"  BY <1>1 DEF State
<1>6. State = "busy" <=> Busy
  <2>1. st \in {"IDLE", "SHIFT_LO", "SHIFT_HI", "DONE", "POST"}
    BY <1>0 DEF IInv, TypeOK, EngineTypeOK
  <2> QED  BY <2>1 DEF State, Busy
<1>7. \E k \in 0 .. 4 :
        /\ k <= IF State = "busy" /\ Port!IsMemWrite(cur) THEN Port!DataBytes(cur) ELSE 0
        /\ Seen' = Port!Written(Seen, cur, k)
  <2>1. CASE Busy /\ Port!IsMemWrite(cur)
    <3>1. Seen = mem0  BY <1>3, <2>1 DEF Seen
    <3>2. chips = Port!Written(mem0, cur, WholeAt(Edges))  BY <1>0, <2>1, Zenon DEF Kept
    <3>3. cur.dev # Spi  BY <2>1 DEF Port!IsMemWrite, Port!Spi, Spi
    <3>4. Edges \in Nat /\ Edges <= FrameBits(cur)  BY <1>0, <2>1, Counts
    <3>5. WholeAt(Edges) \in 0 .. DataBytes(cur)  BY <1>0, <3>3, <3>4, WholeFrameAt
    <3>6. Port!DataBytes(cur) = DataBytes(cur)
      BY DEF Port!DataBytes, DataBytes, Port!Spi, Spi, Port!SizeBytes, SizeBytes
    <3>7. DataBytes(cur) \in 1 .. 4  BY <1>0, Amounts
    <3>8. PICK k \in 0 .. 4 : k = WholeAt(Edges) /\ k <= DataBytes(cur)  BY <3>5, <3>7
    <3>9. Seen' = Port!Written(Seen, cur, k)  BY <1>4, <3>1, <3>2, <3>8
    <3>10. State = "busy"  BY <1>6, <2>1
    <3>11. k <= IF State = "busy" /\ Port!IsMemWrite(cur) THEN Port!DataBytes(cur) ELSE 0
      BY <2>1, <3>6, <3>8, <3>10
    <3> QED  BY <3>9, <3>11
  <2>2. CASE ~(Busy /\ Port!IsMemWrite(cur))
    <3>1. Seen = chips
      <4>1. CASE Busy
        <5>1. chips = mem0  BY <1>0, <2>2, <4>1, Zenon DEF Kept
        <5> QED  BY <5>1 DEF Seen
      <4>2. CASE ~Busy
        BY <1>3, <4>2 DEF Seen
      <4> QED  BY <4>1, <4>2
    <3>2. Port!Written(Seen, cur, 0) = Seen  BY <1>0, WrittenNone
    <3>3. Seen' = Port!Written(Seen, cur, 0)  BY <1>4, <3>1, <3>2
    <3>4. ~(State = "busy" /\ Port!IsMemWrite(cur))  BY <1>6, <2>2
    <3>5. 0 \in 0 .. 4 /\ 0 <= 0  OBVIOUS
    <3>6. 0 <= IF State = "busy" /\ Port!IsMemWrite(cur) THEN Port!DataBytes(cur) ELSE 0
      BY <3>4, <3>5, Zenon
    <3> QED  BY <3>3, <3>5, <3>6, Zenon
  <2> QED  BY <2>1, <2>2
<1>8. Port!PortReset
  BY <1>1, <1>5, <1>7 DEF Port!PortReset, State, Seen
<1> QED  BY <1>0, <1>1, <1>8 DEF Port!Reset

\* An initial state is one of the abstract port.
LEMMA InitMapped == Init => Port!Init
<1> SUFFICES ASSUME Init PROVE Port!Init
  OBVIOUS
<1>1. TypeOK  BY InitTypes
<1>2. /\ st = "IDLE" /\ req_valid = FALSE /\ req_rdata = [i \in 1 .. 4 |-> ZeroByte]
      /\ cs = AllHigh
  BY DEF Init, EngineInit
<1>3. ~Selected  BY <1>2 DEF Selected, AllHigh
<1>4. chips \in [Chip -> [0 .. MemSize - 1 -> Byte]] /\ req \in Requests /\ cur \in Requests
  BY <1>1 DEF TypeOK
<1>5. Port!PortInit  BY <1>2, <1>4 DEF Port!PortInit
<1>6. chips \in [Port!Chip -> [0 .. MemSize - 1 -> Byte]]  BY <1>4 DEF Port!Chip, Chip
<1> QED  BY <1>2, <1>3, <1>4, <1>5, <1>6 DEF Port!Init

\* PortImplemented: for every width, divider table, set of requests and contents,
\* the pin-level engine wired to the chips does nothing the abstract port does
\* not: a request is taken once, a write reaches its chip whole (or up to a byte,
\* if rst_n falls), a read answers what the chip held (qspi_shared_engine.v against
\* mem.v and spi_ram_model.v).
THEOREM PortImplemented == Spec => PortSafety
<1>1. Init => Port!Init  BY InitMapped
<1>2. RInv /\ RInv' /\ [Next]_vars => [Port!Next]_(Port!vars)
  <2> SUFFICES ASSUME RInv, RInv', [Next]_vars PROVE [Port!Next]_(Port!vars)
    OBVIOUS
  <2>1. CASE Tick
    BY <2>1, TickMapped DEF Port!Next
  <2>2. CASE Reset
    BY <2>2, ResetMapped DEF Port!Next
  <2>3. CASE UNCHANGED vars
    <3>1. /\ st' = st /\ cs' = cs /\ chips' = chips /\ req_rdata' = req_rdata
          /\ req_valid' = req_valid /\ req' = req /\ cur' = cur /\ mem0' = mem0
      BY <2>3 DEF vars, engineVars, chipVars, busVars, histVars
    <3>2. Selected' = Selected  BY <3>1 DEF Selected
    <3> QED  BY <3>1, <3>2 DEF Port!vars, Port!portVars
  <2> QED  BY <2>1, <2>2, <2>3 DEF Next
<1>3. Spec => []RInv
  <2>1. Init => RInv  BY RInvInit
  <2>2. RInv /\ [Next]_vars => RInv'  BY RInvStep
  <2> QED  BY <2>1, <2>2, PTL DEF Spec
<1> QED  BY <1>1, <1>2, <1>3, PTL DEF Spec, PortSafety, Port!Spec

================================================================================
