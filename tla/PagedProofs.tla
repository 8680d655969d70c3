------------------------------ MODULE PagedProofs ------------------------------
(***************************************************************************)
(* Theorems about paged flash programs, for every window, every number of  *)
(* pages FLASH_PAGE can hold, and every program.                           *)
(***************************************************************************)
EXTENDS PagedFlash, SequenceTheorems, FiniteSetTheorems, TLAPS

--------------------------------------------------------------------------------
\* Words and the layout of a page.
Ops     == {"nop", "work", "load", "branch", "store", "jump"}
AnyWord == [op : Ops, n : Int]

RawWord == {Nop} \cup Instr

LEMMA Offsets ==
  /\ WINDOW_WORDS \in Nat /\ switch_at \in Nat /\ trampoline \in Nat
  /\ switch_at >= 2 /\ trampoline = switch_at + 1 /\ WINDOW_WORDS = switch_at + 2
  /\ MaxPages \in Nat /\ MaxPages >= 1 /\ PageVals \in Nat /\ MaxPages <= PageVals
BY WindowAssumption, PagesAssumption DEF switch_at, trampoline

LEMMA WordFields ==
  ASSUME NEW op \in Ops, NEW n \in Int
  PROVE  Word(op, n) \in AnyWord /\ Word(op, n).op = op /\ Word(op, n).n = n
BY DEF AnyWord, Word

LEMMA FixedWords ==
  /\ Nop \in AnyWord /\ Store \in AnyWord /\ Jump \in AnyWord
  /\ Nop.op = "nop" /\ Store.op = "store" /\ Jump.op = "jump" /\ Jump.n = 0 - trampoline
<1>1. 0 \in Int /\ 0 - trampoline \in Int
  BY Offsets
<1>2. "nop" \in Ops /\ "store" \in Ops /\ "jump" \in Ops
  BY DEF Ops
<1> QED  BY <1>1, <1>2, WordFields, Zenon DEF Nop, Store, Jump

LEMMA InstrWords ==
  ASSUME NEW w \in RawWord
  PROVE  /\ w \in AnyWord /\ w.op \in {"nop", "work", "load", "branch"}
         /\ w.op = "load" => w.n \in 0 .. MaxPages - 1
         /\ w.op = "branch" => w.n \in Labels
         /\ w.op = "nop" => w = Nop
<1>1. CASE w = Nop
  BY <1>1, FixedWords
<1>2. CASE w = Word("work", 0)
  <2>1. w \in AnyWord /\ w.op = "work"
    BY <1>2, WordFields DEF Ops
  <2> QED  BY <2>1
<1>3. ASSUME NEW n \in 0 .. MaxPages - 1, w = Word("load", n)
      PROVE  w \in AnyWord /\ w.op = "load" /\ w.n = n
  BY <1>3, WordFields, Offsets DEF Ops
<1>4. ASSUME NEW label \in Labels, w = Word("branch", label)
      PROVE  w \in AnyWord /\ w.op = "branch" /\ w.n = label
  <2>1. label \in Int
    BY Offsets DEF Labels
  <2> QED  BY <1>4, <2>1, WordFields DEF Ops
<1>5. CASE \E n \in 0 .. MaxPages - 1 : w = Word("load", n)
  BY <1>3, <1>5
<1>6. CASE \E label \in Labels : w = Word("branch", label)
  BY <1>4, <1>6
<1> QED  BY <1>1, <1>2, <1>5, <1>6 DEF RawWord, Instr

LEMMA FirstWordsSeq ==
  ASSUME NEW X, Nop \in X, NEW page \in Nat
  PROVE  /\ FirstWords(page) \in Seq(X) /\ Len(FirstWords(page)) \in {0, 1}
         /\ \A k \in 1 .. Len(FirstWords(page)) : FirstWords(page)[k] = Nop
BY DEF FirstWords

LEMMA Constant ==
  ASSUME NEW X, NEW x \in X, NEW n \in Nat
  PROVE  /\ [k \in 1 .. n |-> x] \in Seq(X) /\ Len([k \in 1 .. n |-> x]) = n
         /\ \A k \in 1 .. n : [j \in 1 .. n |-> x][k] = x
<1>1. [k \in 1 .. n |-> x] \in [1 .. n -> X]
  OBVIOUS
<1>2. [k \in 1 .. n |-> x] \in Seq(X)
  BY <1>1, SeqDef, Zenon
<1>3. Len([k \in 1 .. n |-> x]) = n
  BY <1>2, LenProperties
<1> QED  BY <1>2, <1>3

LEMMA Padded ==
  ASSUME NEW X, Nop \in X, NEW words \in Seq(X), NEW n \in Nat, Len(words) <= n
  PROVE  /\ PadTo(words, n) \in Seq(X) /\ Len(PadTo(words, n)) = n
         /\ \A k \in 1 .. n :
              PadTo(words, n)[k] = IF k <= Len(words) THEN words[k] ELSE Nop
<1>1. Len(words) \in Nat /\ n - Len(words) \in Nat
  BY LenProperties
<1> DEFINE fill == [k \in 1 .. (n - Len(words)) |-> Nop]
<1>2. fill \in Seq(X) /\ Len(fill) = n - Len(words)
      /\ \A k \in 1 .. n - Len(words) : fill[k] = Nop
  BY <1>1, Constant
<1> HIDE DEF fill
<1>3. /\ words \o fill \in Seq(X) /\ Len(words \o fill) = Len(words) + Len(fill)
      /\ \A k \in 1 .. Len(words) + Len(fill) :
           (words \o fill)[k] = IF k <= Len(words) THEN words[k] ELSE fill[k - Len(words)]
  BY <1>2, ConcatProperties, Zenon
<1>4. PadTo(words, n) = words \o fill
  BY DEF PadTo, fill
<1> QED  BY <1>1, <1>2, <1>3, <1>4

\* A finished page is its own words, padding, the store and the jump.
LEMMA Reserved ==
  ASSUME NEW words \in Seq(RawWord), Len(words) <= switch_at
  PROVE  /\ Reserve(words) \in Seq(AnyWord) /\ Len(Reserve(words)) = WINDOW_WORDS
         /\ \A k \in 1 .. switch_at :
              Reserve(words)[k] = IF k <= Len(words) THEN words[k] ELSE Nop
         /\ Reserve(words)[switch_at + 1] = Store
         /\ Reserve(words)[trampoline + 1] = Jump
<1>1. words \in Seq(AnyWord)
  BY InstrWords, SeqMonotonic
<1> DEFINE front == PadTo(words, switch_at)
           back  == <<Store, Jump>>
<1>2. /\ front \in Seq(AnyWord) /\ Len(front) = switch_at
      /\ \A k \in 1 .. switch_at : front[k] = IF k <= Len(words) THEN words[k] ELSE Nop
  BY <1>1, FixedWords, Offsets, Padded
<1>3. back \in Seq(AnyWord) /\ Len(back) = 2 /\ back[1] = Store /\ back[2] = Jump
  BY FixedWords
<1> HIDE DEF front, back
<1>4. /\ front \o back \in Seq(AnyWord) /\ Len(front \o back) = Len(front) + Len(back)
      /\ \A k \in 1 .. Len(front) + Len(back) :
           (front \o back)[k] = IF k <= Len(front) THEN front[k] ELSE back[k - Len(front)]
  BY <1>2, <1>3, ConcatProperties, Zenon
<1>5. Reserve(words) = front \o back
  BY DEF Reserve, front, back
<1> QED  BY <1>2, <1>3, <1>4, <1>5, Offsets

GoodPage(p) ==
  /\ p \in Seq(AnyWord) /\ Len(p) = WINDOW_WORDS
  /\ p[switch_at + 1] = Store /\ p[trampoline + 1] = Jump
  /\ \A k \in 1 .. switch_at :
       /\ p[k].op \in {"nop", "work", "load", "branch"}
       /\ p[k].op = "load" => p[k].n \in 0 .. MaxPages - 1
       /\ p[k].op = "branch" => k - 1 + p[k].n \in 0 .. switch_at

\* Branches to labels of the page stay among its own words.
LEMMA PageIsGood ==
  ASSUME NEW words \in Seq(RawWord), Len(words) <= switch_at, NEW page \in Nat,
         \A k \in 1 .. Len(words) :
           words[k].op = "branch" => AddressOf(words[k].n, page) \in 0 .. switch_at
  PROVE  GoodPage(Resolve(Reserve(words), page))
<1> DEFINE res == Reserve(words)
           p   == Resolve(res, page)
<1>1. /\ res \in Seq(AnyWord) /\ Len(res) = WINDOW_WORDS
      /\ \A k \in 1 .. switch_at : res[k] = IF k <= Len(words) THEN words[k] ELSE Nop
      /\ res[switch_at + 1] = Store /\ res[trampoline + 1] = Jump
  BY Reserved
<1> HIDE DEF res
<1>2. DOMAIN res = 1 .. WINDOW_WORDS
  BY <1>1, LenProperties
<1>3. \A k \in 1 .. WINDOW_WORDS :
        p[k] = IF res[k].op = "branch"
                 THEN Word("branch", AddressOf(res[k].n, page) - (k - 1)) ELSE res[k]
  BY <1>2 DEF Resolve
<1>4. p = [k \in 1 .. WINDOW_WORDS |-> p[k]]
  BY <1>2 DEF Resolve
<1> HIDE DEF p
<1>5. \A k \in 1 .. switch_at :
        /\ p[k] \in AnyWord /\ p[k].op \in {"nop", "work", "load", "branch"}
        /\ p[k].op = "load" => p[k].n \in 0 .. MaxPages - 1
        /\ p[k].op = "branch" => k - 1 + p[k].n \in 0 .. switch_at
  <2> TAKE k \in 1 .. switch_at
  <2>1. k \in 1 .. WINDOW_WORDS
    BY Offsets
  <2>2. CASE k > Len(words)
    <3>1. res[k] = Nop
      BY <1>1, <2>2, LenProperties
    <3>2. p[k] = Nop
      BY <1>3, <2>1, <3>1, FixedWords
    <3> QED  BY <3>2, FixedWords
  <2>3. CASE k <= Len(words)
    <3>1. res[k] = words[k]
      BY <1>1, <2>3
    <3>2. k \in 1 .. Len(words)
      BY <2>3, LenProperties
    <3>3. words[k] \in RawWord
      BY <3>2, ElementOfSeq
    <3>4. CASE words[k].op # "branch"
      <4>1. p[k] = words[k]
        BY <1>3, <2>1, <3>1, <3>4
      <4> QED  BY <3>3, <3>4, <4>1, InstrWords
    <3>5. CASE words[k].op = "branch"
      <4> DEFINE target == AddressOf(words[k].n, page)
      <4>1. target \in 0 .. switch_at
        BY <3>2, <3>5
      <4> HIDE DEF target
      <4>2. p[k] = Word("branch", target - (k - 1))
        BY <1>3, <2>1, <3>1, <3>5 DEF target
      <4>3. target - (k - 1) \in Int
        BY <4>1, Offsets
      <4>4. /\ p[k] \in AnyWord /\ p[k].op = "branch" /\ p[k].n = target - (k - 1)
        BY <4>2, <4>3, WordFields DEF Ops
      <4>5. k - 1 + p[k].n = target
        BY <4>1, <4>4, Offsets
      <4> QED  BY <4>1, <4>4, <4>5
    <3> QED  BY <3>4, <3>5
  <2> QED  BY <2>2, <2>3, LenProperties
<1>6. p[switch_at + 1] = Store /\ p[trampoline + 1] = Jump
  BY <1>1, <1>3, FixedWords, Offsets
<1>7. \A k \in 1 .. WINDOW_WORDS : p[k] \in AnyWord
  <2> TAKE k \in 1 .. WINDOW_WORDS
  <2>1. k \in 1 .. switch_at \/ k = switch_at + 1 \/ k = trampoline + 1
    BY Offsets
  <2> QED  BY <1>5, <1>6, <2>1, FixedWords
<1>8. p \in [1 .. WINDOW_WORDS -> AnyWord]
  BY <1>4, <1>7
<1>9. p \in Seq(AnyWord)
  BY <1>8, SeqDef, Offsets, Zenon
<1>10. Len(p) = WINDOW_WORDS
  BY <1>8, <1>9, LenProperties, Offsets
<1> QED  BY <1>5, <1>6, <1>9, <1>10 DEF GoodPage, p, res

--------------------------------------------------------------------------------
\* The invariant.
Built ==
  /\ pages \in Seq(Seq(AnyWord)) /\ Len(pages) <= MaxPages
  /\ \A p \in 1 .. Len(pages) : GoodPage(pages[p])
  /\ written \in Seq(Seq(Instr)) /\ Len(written) = Len(pages)
  /\ cur \in Seq(RawWord) /\ Len(cur) <= switch_at
  /\ body \in Seq(Instr)
  /\ Len(cur) = Len(FirstWords(Len(pages))) + Len(body)
  /\ \A k \in 1 .. Len(cur) : cur[k].op = "branch" =>
       \E j \in 1 .. Len(body) : cur[k] = body[j]

Placed ==
  /\ mode \in {"build", "last", "boot", "run", "refused"}
  /\ mode = "build" => Len(pages) <= MaxPages - 1
  /\ mode # "run" => flash_page = 0
  /\ pc \in 0 .. trampoline
  /\ mode \in {"boot", "run"} =>
       /\ \A p \in 1 .. Len(pages) : \A k \in 1 .. WINDOW_WORDS :
            pages[p][k].op = "load" => pages[p][k].n < Len(pages)
       /\ flash_page \in 0 .. Len(pages) - 1 /\ x30 \in 0 .. Len(pages) - 1

Inv == Built /\ Placed

LEMMA InvImpliesType == Inv => TypeOK
<1> SUFFICES ASSUME Inv PROVE TypeOK
  OBVIOUS
<1>1. DOMAIN pages = 1 .. Len(pages)
  BY LenProperties DEF Inv, Built
<1>2. \A p \in DOMAIN pages : Len(pages[p]) = WINDOW_WORDS
  BY <1>1 DEF Inv, Built, GoodPage
<1>3. mode = "run" => {flash_page, x30} \subseteq 0 .. Len(pages) - 1
  BY DEF Inv, Placed
<1> QED  BY <1>2, <1>3 DEF Inv, Built, Placed, TypeOK

LEMMA InitInv == Init => Inv
<1> SUFFICES ASSUME Init PROVE Inv
  OBVIOUS
<1>1. pages \in Seq(Seq(AnyWord)) /\ written \in Seq(Seq(Instr)) /\ body \in Seq(Instr)
      /\ Len(pages) = 0 /\ Len(written) = 0 /\ Len(body) = 0
  BY EmptySeq DEF Init
<1>2. Nop \in RawWord
  BY DEF RawWord
<1>3. /\ cur \in Seq(RawWord) /\ Len(cur) \in {0, 1} /\ cur = FirstWords(Len(pages))
      /\ \A k \in 1 .. Len(cur) : cur[k] = Nop
  BY <1>1, <1>2, FirstWordsSeq DEF Init
<1>4. Built
  BY <1>1, <1>3, FixedWords, Offsets DEF Built
<1>5. Placed
  BY <1>1, Offsets DEF Init, Placed
<1> QED  BY <1>4, <1>5 DEF Inv

--------------------------------------------------------------------------------
\* A page that is finished has its branches resolved; the next one starts empty.
LEMMA PageFinished ==
  ASSUME Built, Len(pages) <= MaxPages - 1,
         NEW words \in Seq(RawWord), Len(words) <= switch_at,
         \A k \in 1 .. Len(words) : words[k].op = "branch" =>
           \E j \in 1 .. Len(cur) : words[k] = cur[j],
         NEW instrs \in Seq(Instr),
         \A j \in 1 .. Len(body) : j \in DOMAIN instrs /\ instrs[j] = body[j],
         FinishCurrentPage(words, instrs)
  PROVE  Built' /\ Len(pages') = Len(pages) + 1
<1> DEFINE first == FirstWords(Len(pages))
           page  == Resolve(Reserve(words), Len(pages))
<1>1. Len(pages) \in Nat /\ Len(cur) \in Nat /\ Len(body) \in Nat /\ Len(words) \in Nat
  BY LenProperties DEF Built
<1>2. Nop \in RawWord
  BY DEF RawWord
<1>3. Len(first) \in {0, 1}
  BY <1>1, <1>2, FirstWordsSeq
<1>4. ASSUME NEW k \in 1 .. Len(words), words[k].op = "branch"
      PROVE  AddressOf(words[k].n, Len(pages)) \in 0 .. switch_at
  <2>1. PICK i \in 1 .. Len(cur) : words[k] = cur[i]
    BY <1>4
  <2>2. PICK j \in 1 .. Len(body) : cur[i] = body[j]
    BY <1>4, <2>1 DEF Built
  <2>3. instrs[j].op = "branch" /\ j \in DOMAIN instrs /\ instrs[j] = words[k]
    BY <1>4, <2>1, <2>2
  <2>4. words[k].n <= Len(body) + 1
    BY <2>3 DEF FinishCurrentPage, LabelsDefined
  <2>5. words[k] \in RawWord
    BY ElementOfSeq
  <2>6. words[k].n \in 1 .. WINDOW_WORDS - 1
    BY <1>4, <2>5, InstrWords DEF Labels
  <2>7. Len(first) + Len(body) <= switch_at
    BY DEF Built
  <2> DEFINE n == words[k].n
  <2>8. AddressOf(n, Len(pages)) = Len(first) + n - 1
    BY DEF AddressOf
  <2>9. n \in Nat /\ n >= 1 /\ n <= Len(body) + 1
    BY <2>4, <2>6, Offsets
  <2> HIDE DEF n, first
  <2>10. AddressOf(n, Len(pages)) \in 0 .. switch_at
    BY <1>1, <1>3, <2>7, <2>8, <2>9, Offsets
  <2> QED  BY <2>10 DEF n
<1>5. GoodPage(page)
  BY <1>1, <1>4, PageIsGood
<1>6. page \in Seq(AnyWord)
  BY <1>5 DEF GoodPage
<1>7. pages' = Append(pages, page) /\ written' = Append(written, instrs)
      /\ cur' = FirstWords(Len(pages) + 1) /\ body' = << >>
  BY DEF FinishCurrentPage
<1> HIDE DEF page, first
<1>8. /\ pages' \in Seq(Seq(AnyWord)) /\ Len(pages') = Len(pages) + 1
      /\ \A p \in 1 .. Len(pages) : pages'[p] = pages[p]
      /\ pages'[Len(pages) + 1] = page
  BY <1>6, <1>7, AppendProperties DEF Built
<1>9. /\ written' \in Seq(Seq(Instr)) /\ Len(written') = Len(written) + 1
  BY <1>7, AppendProperties DEF Built
<1>10. \A p \in 1 .. Len(pages') : GoodPage(pages'[p])
  <2> TAKE p \in 1 .. Len(pages')
  <2>1. CASE p = Len(pages) + 1
    BY <1>5, <1>8, <2>1
  <2>2. CASE p \in 1 .. Len(pages)
    BY <1>8, <2>2 DEF Built
  <2> QED  BY <1>1, <1>8, <2>1, <2>2
<1>11. body' \in Seq(Instr) /\ Len(body') = 0
  BY <1>7, EmptySeq
<1>12. /\ cur' \in Seq(RawWord) /\ Len(cur') \in {0, 1} /\ cur' = FirstWords(Len(pages'))
       /\ \A k \in 1 .. Len(cur') : cur'[k] = Nop
  <2>1. Len(pages) + 1 \in Nat
    BY <1>1
  <2>2. cur' = FirstWords(Len(pages')) /\ Len(pages') \in Nat
    BY <1>7, <1>8, <2>1
  <2> QED  BY <1>2, <2>2, FirstWordsSeq, Zenon
<1>13. Len(cur') <= switch_at /\ Len(cur') = Len(FirstWords(Len(pages'))) + Len(body')
  <2>1. Len(FirstWords(Len(pages'))) = Len(cur')
    BY <1>12, Zenon
  <2> QED  BY <1>11, <1>12, <2>1, Offsets
<1>14. \A k \in 1 .. Len(cur') : cur'[k].op # "branch"
  BY <1>12, FixedWords
<1>15. (\A p \in 1 .. Len(pages) : GoodPage(pages[p]))'
  BY <1>10 DEF GoodPage
<1>16. Len(pages') <= MaxPages
  BY <1>1, <1>8, Offsets
<1>17. Len(written') = Len(pages')
  BY <1>8, <1>9 DEF Built
<1> QED  BY <1>8, <1>9, <1>11, <1>12, <1>13, <1>14, <1>15, <1>16, <1>17 DEF Built

LEMMA LeftFor ==
  ASSUME Built, Len(pages) <= MaxPages - 1, NEW n \in 0 .. MaxPages - 1, LeaveFor(n)
  PROVE  Built' /\ Len(pages') = Len(pages) + 1
<1> DEFINE load == Word("load", n)
           pad  == PadTo(cur, switch_at - 1)
<1>1. load \in Instr /\ load \in RawWord /\ load.op = "load" /\ Nop \in RawWord
  <2>1. n \in Int
    BY Offsets
  <2> QED  BY <2>1, WordFields DEF Instr, RawWord, Ops
<1>2. Len(cur) <= switch_at - 1 /\ FinishCurrentPage(Append(pad, load), Append(body, load))
  BY DEF LeaveFor
<1> HIDE DEF load
<1>3. switch_at - 1 \in Nat
  BY Offsets
<1>4. /\ pad \in Seq(RawWord) /\ Len(pad) = switch_at - 1
      /\ \A k \in 1 .. switch_at - 1 : pad[k] = IF k <= Len(cur) THEN cur[k] ELSE Nop
  BY <1>1, <1>2, <1>3, Padded DEF Built
<1> HIDE DEF pad
<1>5. /\ Append(pad, load) \in Seq(RawWord) /\ Len(Append(pad, load)) = switch_at
      /\ \A k \in 1 .. switch_at - 1 : Append(pad, load)[k] = pad[k]
      /\ Append(pad, load)[switch_at] = load
  <2>1. Len(pad) + 1 = switch_at
    BY <1>3, <1>4, Offsets
  <2>2. /\ Append(pad, load) \in Seq(RawWord) /\ Len(Append(pad, load)) = Len(pad) + 1
        /\ \A k \in 1 .. Len(pad) : Append(pad, load)[k] = pad[k]
        /\ Append(pad, load)[Len(pad) + 1] = load
    BY <1>1, <1>4, AppendProperties
  <2> QED  BY <1>4, <2>1, <2>2
<1>6. /\ Append(body, load) \in Seq(Instr) /\ Len(Append(body, load)) = Len(body) + 1
      /\ \A j \in 1 .. Len(body) : Append(body, load)[j] = body[j]
  BY <1>1, AppendProperties DEF Built
<1>7. \A j \in 1 .. Len(body) : j \in DOMAIN Append(body, load)
  BY <1>6, LenProperties DEF Built
<1>8. ASSUME NEW k \in 1 .. Len(Append(pad, load)), Append(pad, load)[k].op = "branch"
      PROVE  \E j \in 1 .. Len(cur) : Append(pad, load)[k] = cur[j]
  <2>1. k # switch_at
    BY <1>1, <1>5, <1>8
  <2>2. k \in 1 .. switch_at - 1
    BY <1>5, <2>1, Offsets
  <2>3. pad[k].op = "branch" /\ Append(pad, load)[k] = pad[k]
    BY <1>5, <1>8, <2>2
  <2>4. k <= Len(cur) /\ pad[k] = cur[k]
    BY <1>4, <2>2, <2>3, FixedWords
  <2>5. k \in 1 .. Len(cur)
    BY <2>2, <2>4, LenProperties DEF Built
  <2> QED  BY <2>3, <2>4, <2>5
<1>9. Len(Append(pad, load)) <= switch_at
  BY <1>5, Offsets
<1> DEFINE words == Append(pad, load)
           instrs == Append(body, load)
<1>10. /\ words \in Seq(RawWord) /\ Len(words) <= switch_at /\ instrs \in Seq(Instr)
       /\ FinishCurrentPage(words, instrs)
       /\ \A j \in 1 .. Len(body) : j \in DOMAIN instrs /\ instrs[j] = body[j]
       /\ \A k \in 1 .. Len(words) : words[k].op = "branch" =>
            \E j \in 1 .. Len(cur) : words[k] = cur[j]
  BY <1>2, <1>5, <1>6, <1>7, <1>8, <1>9
<1> HIDE DEF words, instrs
<1> QED  BY <1>10, PageFinished

--------------------------------------------------------------------------------
\* Building.
LEMMA EmitBuilt ==
  ASSUME Built, Emit PROVE Built'
<1>1. PICK i \in Instr : cur' = Append(cur, i) /\ body' = Append(body, i)
  BY DEF Emit
<1>2. UNCHANGED <<pages, written>> /\ Len(cur) < switch_at
  BY DEF Emit
<1>3. i \in RawWord
  BY DEF RawWord
<1>4. /\ cur' \in Seq(RawWord) /\ Len(cur') = Len(cur) + 1
      /\ \A k \in 1 .. Len(cur) : cur'[k] = cur[k]
      /\ cur'[Len(cur) + 1] = i
  BY <1>1, <1>3, AppendProperties DEF Built
<1>5. /\ body' \in Seq(Instr) /\ Len(body') = Len(body) + 1
      /\ \A k \in 1 .. Len(body) : body'[k] = body[k]
      /\ body'[Len(body) + 1] = i
  BY <1>1, AppendProperties DEF Built
<1>6. Len(cur) \in Nat /\ Len(body) \in Nat
  BY LenProperties DEF Built
<1>7. ASSUME NEW k \in 1 .. Len(cur'), cur'[k].op = "branch"
      PROVE  \E j \in 1 .. Len(body') : cur'[k] = body'[j]
  <2>1. CASE k = Len(cur) + 1
    BY <1>4, <1>5, <1>6, <2>1
  <2>2. CASE k \in 1 .. Len(cur)
    <3>1. PICK j \in 1 .. Len(body) : cur[k] = body[j]
      BY <1>4, <1>7, <2>2 DEF Built
    <3>2. j \in 1 .. Len(body')
      BY <1>5, <1>6
    <3> QED  BY <1>4, <1>5, <2>2, <3>1, <3>2
  <2> QED  BY <1>4, <1>6, <2>1, <2>2
<1>8. (\A p \in 1 .. Len(pages) : GoodPage(pages[p]))'
  BY <1>2 DEF Built, GoodPage
<1>9. Len(cur') <= switch_at
  BY <1>2, <1>4, <1>6, Offsets
<1>10. Len(cur') = Len(FirstWords(Len(pages'))) + Len(body')
  <2>1. Len(FirstWords(Len(pages'))) = Len(FirstWords(Len(pages)))
    BY <1>2
  <2>2. Len(FirstWords(Len(pages))) = Len(cur) - Len(body)
    <3>1. Nop \in RawWord /\ Len(pages) \in Nat
      BY LenProperties DEF RawWord, Built
    <3>2. Len(FirstWords(Len(pages))) \in {0, 1}
      BY <3>1, FirstWordsSeq
    <3> QED  BY <1>6, <3>2 DEF Built
  <2> QED  BY <1>4, <1>5, <1>6, <2>1, <2>2
<1> QED  BY <1>2, <1>4, <1>5, <1>7, <1>8, <1>9, <1>10 DEF Built

LEMMA BuiltStays ==
  ASSUME Built, UNCHANGED buildVars PROVE Built'
BY DEF Built, GoodPage, buildVars

LEMMA LenPages == ASSUME Built PROVE Len(pages) \in Nat
BY LenProperties DEF Built

\* Every page is built complete, so no program leaves its window or its pages.
LEMMA BuildStep ==
  ASSUME Inv,
         Emit \/ SwitchTo \/ SwitchToComputed \/ FinalizeLastPage \/ PadToAssertion \/ Finalize
  PROVE  Inv'
<1>1. Built /\ Placed /\ Len(pages) \in Nat
  BY LenPages DEF Inv
<1>2. CASE Emit
  <2>1. Built'
    BY <1>1, <1>2, EmitBuilt
  <2>2. Placed'
    BY <1>1, <1>2 DEF Emit, Placed
  <2> QED  BY <2>1, <2>2 DEF Inv
<1>3. CASE SwitchTo
  <2>1. PICK n \in 0 .. MaxPages - 1 : LeaveFor(n)
    BY <1>3 DEF SwitchTo
  <2>2. mode = "build" /\ mode' = mode /\ Len(pages) < MaxPages - 1
    BY <1>3 DEF SwitchTo
  <2>3. Built' /\ Len(pages') = Len(pages) + 1
    BY <1>1, <2>1, <2>2, LeftFor, Offsets
  <2>4. UNCHANGED <<flash_page, pc, x30>>
    BY <2>1 DEF LeaveFor, FinishCurrentPage
  <2>5. Len(pages') <= MaxPages - 1
    BY <1>1, <2>2, <2>3, Offsets
  <2>6. Placed'
    BY <1>1, <2>2, <2>4, <2>5 DEF Placed
  <2> QED  BY <2>3, <2>6 DEF Inv
<1>4. CASE SwitchToComputed
  <2>1. FinishCurrentPage(cur, body)
    BY <1>4 DEF SwitchToComputed
  <2>2. mode = "build" /\ mode' = mode /\ Len(pages) < MaxPages - 1
    BY <1>4 DEF SwitchToComputed
  <2>3. /\ cur \in Seq(RawWord) /\ Len(cur) <= switch_at /\ body \in Seq(Instr)
        /\ \A j \in 1 .. Len(body) : j \in DOMAIN body
    BY <1>1, LenProperties DEF Built
  <2>4. Len(pages) <= MaxPages - 1
    BY <1>1, <2>2, Offsets
  <2>5. Built' /\ Len(pages') = Len(pages) + 1
    BY <1>1, <2>1, <2>3, <2>4, PageFinished
  <2>6. UNCHANGED <<flash_page, pc, x30>>
    BY <2>1 DEF FinishCurrentPage
  <2>7. Len(pages') <= MaxPages - 1
    BY <1>1, <2>2, <2>5, Offsets
  <2>8. Placed'
    BY <1>1, <2>2, <2>6, <2>7 DEF Placed
  <2> QED  BY <2>5, <2>8 DEF Inv
<1>5. CASE FinalizeLastPage
  <2>1. LeaveFor(Len(pages)) /\ mode = "build" /\ mode' = "last"
    BY <1>5 DEF FinalizeLastPage
  <2>2. Len(pages) <= MaxPages - 1
    BY <1>1, <2>1 DEF Placed
  <2>3. Len(pages) \in 0 .. MaxPages - 1
    BY <1>1, <2>2, Offsets
  <2>4. Built'
    BY <1>1, <2>1, <2>2, <2>3, LeftFor
  <2>5. UNCHANGED <<flash_page, pc, x30>>
    BY <2>1 DEF LeaveFor, FinishCurrentPage
  <2>6. Placed'
    BY <1>1, <2>1, <2>5 DEF Placed
  <2> QED  BY <2>4, <2>6 DEF Inv
<1>6. CASE PadToAssertion
  <2>1. /\ UNCHANGED buildVars /\ UNCHANGED <<flash_page, pc, x30>>
        /\ mode' = "refused" /\ mode = "build"
    BY <1>6 DEF PadToAssertion
  <2>2. Placed'
    BY <1>1, <2>1 DEF Placed
  <2> QED  BY <1>1, <2>1, <2>2, BuiltStays DEF Inv
<1>7. CASE Finalize
  <2>1. /\ UNCHANGED buildVars /\ UNCHANGED <<flash_page, pc>> /\ mode = "last" /\ mode' = "boot"
        /\ x30' \in 0 .. Len(pages) - 1
    BY <1>7 DEF Finalize
  <2>2. DOMAIN pages = 1 .. Len(pages)
    BY <1>1, LenProperties DEF Built
  <2>3. \A p \in 1 .. Len(pages) : \A k \in 1 .. WINDOW_WORDS :
          pages[p][k].op = "load" => pages[p][k].n < Len(pages)
    BY <1>7, <2>2 DEF Finalize
  <2>4. pages' = pages /\ flash_page' = 0 /\ pc' = pc
    BY <1>1, <2>1 DEF buildVars, Placed
  <2>5. 0 \in 0 .. Len(pages) - 1
    BY <1>1, <2>1
  <2>6. Placed'
    BY <1>1, <2>1, <2>3, <2>4, <2>5 DEF Placed
  <2> QED  BY <1>1, <2>1, <2>6, BuiltStays DEF Inv
<1> QED  BY <1>2, <1>3, <1>4, <1>5, <1>6, <1>7

--------------------------------------------------------------------------------
\* Running.  What the window shows is a word of a good page.
LEMMA FetchedWord ==
  ASSUME Inv, mode = "run"
  PROVE  LET p == pages[flash_page + 1]
         IN  /\ GoodPage(p) /\ flash_page + 1 \in 1 .. Len(pages)
             /\ Fetched = p[pc + 1]
             /\ pc \in 0 .. trampoline
             /\ Fetched.op = "load" => Fetched.n \in 0 .. Len(pages) - 1
             /\ Fetched.op \in {"work", "nop", "load", "branch"} => pc \in 0 .. switch_at - 1
             /\ Fetched.op = "branch" => pc + Fetched.n \in 0 .. switch_at
             /\ Fetched.op = "store" => pc = switch_at
             /\ Fetched.op = "jump" => pc + Fetched.n = 0
<1> DEFINE p == pages[flash_page + 1]
<1>1. /\ Len(pages) \in Nat /\ flash_page \in 0 .. Len(pages) - 1 /\ pc \in 0 .. trampoline
      /\ \A q \in 1 .. Len(pages) : \A k \in 1 .. WINDOW_WORDS :
           pages[q][k].op = "load" => pages[q][k].n < Len(pages)
  BY LenPages DEF Inv, Placed
<1>2. flash_page + 1 \in 1 .. Len(pages)
  BY <1>1
<1>3. GoodPage(p)
  BY <1>2 DEF Inv, Built
<1>4. pc + 1 \in 1 .. WINDOW_WORDS
  BY <1>1, Offsets
<1>5. Fetched = p[pc + 1] /\ (Fetched.op = "load" => Fetched.n < Len(pages))
  BY <1>1, <1>2, <1>4 DEF Fetched
<1> HIDE DEF p
<1>6. CASE pc = trampoline
  <2>1. Fetched = Jump
    BY <1>3, <1>5, <1>6 DEF GoodPage
  <2>2. Fetched.op = "jump" /\ pc + Fetched.n = 0
    BY <2>1, <1>6, FixedWords, Offsets
  <2> QED  BY <1>1, <1>2, <1>3, <1>5, <2>2 DEF p
<1>7. CASE pc = switch_at
  <2>1. Fetched = Store
    BY <1>3, <1>5, <1>7 DEF GoodPage
  <2>2. Fetched.op = "store"
    BY <2>1, FixedWords
  <2> QED  BY <1>1, <1>2, <1>3, <1>5, <1>7, <2>2 DEF p
<1>8. CASE pc \in 0 .. switch_at - 1
  <2>1. pc + 1 \in 1 .. switch_at
    BY <1>8, Offsets
  <2>2. /\ Fetched.op \in {"nop", "work", "load", "branch"}
        /\ Fetched.op = "load" => Fetched.n \in 0 .. MaxPages - 1
        /\ Fetched.op = "branch" => (pc + 1) - 1 + Fetched.n \in 0 .. switch_at
    BY <1>3, <1>5, <2>1 DEF GoodPage
  <2>3. (pc + 1) - 1 = pc
    BY <1>1, Offsets
  <2>4. Fetched.op = "load" => Fetched.n \in 0 .. Len(pages) - 1
    BY <1>1, <1>5, <2>2, Offsets
  <2> QED  BY <1>1, <1>2, <1>3, <1>5, <1>8, <2>2, <2>3, <2>4 DEF p
<1> QED  BY <1>1, <1>6, <1>7, <1>8, Offsets

LEMMA RunStep ==
  ASSUME Inv,
         \/ HandOff \/ BootTimeout \/ Reset
         \/ ExecWork \/ ExecLoad \/ ExecBranch \/ ExecStore \/ ExecJump
  PROVE  Inv'
<1>1. /\ Built /\ Placed /\ Len(pages) \in Nat /\ UNCHANGED buildVars
      /\ mode \in {"boot", "run"} /\ mode' \in {"boot", "run"}
  BY LenPages DEF Inv, HandOff, BootTimeout, Reset,
                  ExecWork, ExecLoad, ExecBranch, ExecStore, ExecJump, Executes
<1>2. Built' /\ pages' = pages
  BY <1>1, BuiltStays DEF buildVars
<1>3. /\ \A p \in 1 .. Len(pages) : \A k \in 1 .. WINDOW_WORDS :
           pages[p][k].op = "load" => pages[p][k].n < Len(pages)
      /\ flash_page \in 0 .. Len(pages) - 1 /\ x30 \in 0 .. Len(pages) - 1
      /\ pc \in 0 .. trampoline /\ (mode # "run" => flash_page = 0)
  BY <1>1 DEF Placed
<1>4. ASSUME pc' \in 0 .. trampoline, flash_page' \in 0 .. Len(pages) - 1,
             x30' \in 0 .. Len(pages) - 1, mode' # "run" => flash_page' = 0
      PROVE  Inv'
  BY <1>1, <1>2, <1>3, <1>4 DEF Inv, Placed
<1>5. CASE HandOff \/ BootTimeout
  <2>1. pc' \in {0, 1} /\ UNCHANGED <<flash_page, x30>> /\ mode' = "run"
    BY <1>5 DEF HandOff, BootTimeout
  <2> QED  BY <1>3, <1>4, <2>1, Offsets
<1>6. CASE Reset
  <2>1. pc' = 0 /\ flash_page' = 0 /\ x30' = x30
    BY <1>6 DEF Reset
  <2> QED  BY <1>1, <1>3, <1>4, <2>1, Offsets
<1>7. CASE ExecWork
  <2>1. /\ mode = "run" /\ mode' = "run" /\ Fetched.op \in {"work", "nop"}
        /\ pc' = pc + 1 /\ UNCHANGED <<flash_page, x30>>
    BY <1>7 DEF ExecWork, Executes
  <2>2. pc \in 0 .. switch_at - 1
    BY <2>1, FetchedWord
  <2> QED  BY <1>3, <1>4, <2>1, <2>2, Offsets
<1>8. CASE ExecLoad
  <2>1. /\ mode = "run" /\ mode' = "run" /\ Fetched.op = "load"
        /\ pc' = pc + 1 /\ x30' = Fetched.n /\ flash_page' = flash_page
    BY <1>8 DEF ExecLoad, Executes
  <2>2. pc \in 0 .. switch_at - 1 /\ Fetched.n \in 0 .. Len(pages) - 1
    BY <2>1, FetchedWord
  <2> QED  BY <1>3, <1>4, <2>1, <2>2, Offsets
<1>9. CASE ExecBranch
  <2>1. /\ mode = "run" /\ mode' = "run" /\ Fetched.op = "branch"
        /\ pc' \in {pc + 1, pc + Fetched.n} /\ UNCHANGED <<flash_page, x30>>
    BY <1>9 DEF ExecBranch, Executes
  <2>2. pc \in 0 .. switch_at - 1 /\ pc + Fetched.n \in 0 .. switch_at
    BY <2>1, FetchedWord
  <2>3. pc' \in 0 .. trampoline
    BY <2>1, <2>2, Offsets
  <2> QED  BY <1>3, <1>4, <2>1, <2>3
<1>10. CASE ExecStore
  <2>1. /\ mode = "run" /\ mode' = "run" /\ Fetched.op = "store"
        /\ pc' = pc + 1 /\ flash_page' = x30 % PageVals /\ x30' = x30
    BY <1>10 DEF ExecStore, Executes
  <2>2. pc = switch_at
    BY <2>1, FetchedWord
  <2>3. x30 \in 0 .. PageVals - 1
    BY <1>1, <1>3, Offsets DEF Built
  <2>4. \A v, n \in Nat : v < n => v % n = v
    BY SMT
  <2>5. flash_page' = x30
    BY <2>1, <2>3, <2>4, Offsets
  <2> QED  BY <1>3, <1>4, <2>1, <2>2, <2>5, Offsets
<1>11. CASE ExecJump
  <2>1. /\ mode = "run" /\ mode' = "run" /\ Fetched.op = "jump"
        /\ pc' = pc + Fetched.n /\ UNCHANGED <<flash_page, x30>>
    BY <1>11 DEF ExecJump, Executes
  <2>2. pc' = 0
    BY <2>1, FetchedWord
  <2> QED  BY <1>3, <1>4, <2>1, <2>2, Offsets
<1> QED  BY <1>5, <1>6, <1>7, <1>8, <1>9, <1>10, <1>11

LEMMA NextInv == Inv /\ [Next]_vars => Inv'
<1> SUFFICES ASSUME Inv, [Next]_vars PROVE Inv'
  OBVIOUS
<1>1. CASE UNCHANGED vars
  <2>1. UNCHANGED buildVars /\ UNCHANGED <<mode, flash_page, pc, x30>>
    BY <1>1 DEF vars, buildVars
  <2>2. Placed'
    BY <2>1 DEF Inv, Placed, buildVars
  <2> QED  BY <2>1, <2>2, BuiltStays DEF Inv
<1>2. CASE Next
  BY <1>2, BuildStep, RunStep DEF Next
<1> QED  BY <1>1, <1>2

\* PagesStayGood: a page once finished has its store and its jump at the fixed words, and
\* its branches stay on it, whatever is built and run after it (PagedAsm).
THEOREM PagesStayGood == Spec => []Inv
<1> QED  BY InitInv, NextInv, PTL DEF Spec

\* TypeCorrect: every finished page fills the window exactly, and whatever its
\* branches and switches a program stays in the window and in the pages it has
\* (PagedAsm and the fetches through FLASH_PAGE).
THEOREM TypeCorrect == Spec => []TypeOK
<1> QED  BY PagesStayGood, InvImpliesType, PTL

\* TrampolineAlways: after a write to FLASH_PAGE the next word fetched is the jump to
\* the start of the window, in whichever page it is fetched from (switch_to and
\* switch_to_computed against mem.v's redirection of the very next fetch).
THEOREM TrampolineAlways == Spec => SwitchMeetsTrampoline
<1> DEFINE Meets == flash_page' # flash_page /\ mode' = "run"
                      => \A p \in DOMAIN pages : pages[p][pc' + 1] = Jump
<1>1. ASSUME Inv, Next PROVE Meets
  <2> SUFFICES ASSUME flash_page' # flash_page, mode' = "run", NEW p \in DOMAIN pages
               PROVE  pages[p][pc' + 1] = Jump
    OBVIOUS
  <2>1. ExecStore
    BY <1>1 DEF Next, Emit, SwitchTo, SwitchToComputed, FinalizeLastPage, LeaveFor,
                FinishCurrentPage, PadToAssertion, Finalize, HandOff, BootTimeout,
                ExecWork, ExecLoad, ExecBranch, ExecJump, Reset
  <2>2. mode = "run" /\ Fetched.op = "store" /\ pc' = pc + 1
    BY <2>1 DEF ExecStore, Executes
  <2>3. pc' = trampoline
    BY <1>1, <2>2, FetchedWord, Offsets
  <2>4. p \in 1 .. Len(pages)
    BY <1>1, LenProperties DEF Inv, Built
  <2>5. GoodPage(pages[p])
    BY <1>1, <2>4 DEF Inv, Built
  <2> QED  BY <2>3, <2>5 DEF GoodPage
<1>2. UNCHANGED vars => Meets
  BY DEF vars
<1>3. Inv /\ [Next]_vars => [Meets]_vars
  BY <1>1, <1>2
<1> QED  BY <1>3, PagesStayGood, PTL DEF Spec, SwitchMeetsTrampoline

--------------------------------------------------------------------------------
\* The refinement.  A finished page holds the instructions its author wrote: n of them in
\* order behind the first words, and the load of switch_to just before the store.
Compiled(word, k, i, f, n) ==
  /\ word.op = i.op
  /\ i.op = "load" => word.n = i.n
  /\ i.op = "branch" => i.n \in 1 .. n + 1 /\ k - 1 + word.n = f + i.n - 1

LaidWith(p, w, f, tail) ==
  LET n == Len(w) - tail
  IN  /\ n \in Nat /\ f + n <= switch_at - tail
      /\ \A k \in 1 .. switch_at :
           p[k] # Nop <=> (k \in f + 1 .. f + n \/ (tail = 1 /\ k = switch_at))
      /\ \A j \in 1 .. n : Compiled(p[f + j], f + j, w[j], f, n)
      /\ tail = 1 => w[n + 1].op = "load" /\ p[switch_at] = w[n + 1]

Laid(p, w, f) == \E tail \in {0, 1} : LaidWith(p, w, f, tail)

First(page) == Len(FirstWords(page))

\* No instruction is padding.
LEMMA InstrOps ==
  ASSUME NEW i \in Instr
  PROVE  /\ i.op \in {"work", "load", "branch"} /\ i \in RawWord /\ i # Nop
<1>1. i.op \in {"work", "load", "branch"}
  BY DEF Instr, Word
<1>2. i # Nop
  BY <1>1, FixedWords
<1> QED  BY <1>1, <1>2 DEF RawWord

\* The instructions before a word of a page.
Before(p, x) == Cardinality({k \in 1 .. x : p[k] # Nop})

\* How many of them there are, by the layout of the page.
LEMMA Counted ==
  ASSUME NEW p, NEW w, Len(w) \in Nat, NEW f \in {0, 1}, NEW tail \in {0, 1},
         LaidWith(p, w, f, tail), NEW x \in 0 .. switch_at
  PROVE  /\ x = switch_at => Before(p, x) = Len(w)
         /\ x <= f => Before(p, x) = 0
         /\ \A j \in 0 .. Len(w) - tail : x = f + j => Before(p, x) = j
         /\ (x >= f + Len(w) - tail /\ x < switch_at) => Before(p, x) = Len(w) - tail
<1> DEFINE n == Len(w) - tail
           top == IF x < f + n THEN x ELSE f + n
           S == {k \in 1 .. x : p[k] # Nop}
<1>1. /\ n \in Nat /\ f + n <= switch_at - tail /\ f \in Nat /\ switch_at \in Nat
      /\ \A k \in 1 .. switch_at :
           p[k] # Nop <=> (k \in f + 1 .. f + n \/ (tail = 1 /\ k = switch_at))
  <2>1. n \in Nat /\ f + n <= switch_at - tail /\ f \in Nat /\ switch_at \in Nat
    BY Offsets DEF LaidWith
  <2>2. \A k \in 1 .. switch_at :
           p[k] # Nop <=> (k \in f + 1 .. f + n \/ (tail = 1 /\ k = switch_at))
    BY Offsets DEF LaidWith
  <2> QED  BY <2>1, <2>2
<1> HIDE DEF n
<1>2. top \in Nat /\ top <= f + n /\ top <= x /\ x \in Nat
  BY <1>1
<1>3. \A k : k \in S <=> k \in 1 .. x /\ (k \in f + 1 .. top \/ (tail = 1 /\ k = switch_at))
  BY <1>1
<1>4. IsFiniteSet(f + 1 .. top)
      /\ Cardinality(f + 1 .. top) = IF f + 1 > top THEN 0 ELSE top - f
  <2>1. f + 1 \in Int /\ top \in Int
    BY <1>1, <1>2
  <2> HIDE DEF top
  <2>2. /\ IsFiniteSet(f + 1 .. top)
        /\ Cardinality(f + 1 .. top) = IF f + 1 > top THEN 0 ELSE top - (f + 1) + 1
    BY <2>1, FS_Interval
  <2> QED  BY <2>1, <2>2, <1>1
<1>5. CASE ~(tail = 1 /\ x = switch_at)
  <2>1. S = f + 1 .. top
    BY <1>1, <1>2, <1>3, <1>5
  <2>2. Before(p, x) = IF f + 1 > top THEN 0 ELSE top - f
    BY <2>1, <1>4 DEF Before
  <2>3. x = switch_at => tail = 0 /\ n = Len(w)
    BY <1>5 DEF n
  <2>4. Len(w) - tail = n /\ f + Len(w) - tail = f + n
    BY <1>1 DEF n
  <2> QED  BY <1>1, <1>2, <2>2, <2>3, <2>4
<1>6. CASE tail = 1 /\ x = switch_at
  <2>1. S = (f + 1 .. top) \cup {switch_at} /\ switch_at \notin f + 1 .. top
    BY <1>1, <1>2, <1>3, <1>6
  <2>2. Cardinality(S) = Cardinality(f + 1 .. top) + 1
    BY <2>1, <1>4, FS_AddElement
  <2>3. top = f + n
    BY <1>1, <1>6
  <2>4. Before(p, x) = n + 1
    BY <1>1, <1>4, <2>2, <2>3 DEF Before
  <2>5. Len(w) = n + 1 /\ Len(w) - tail = n
    BY <1>6 DEF n
  <2>6. x > f + n
    BY <1>1, <1>6
  <2> QED  BY <1>1, <1>6, <2>4, <2>5, <2>6
<1> QED  BY <1>5, <1>6

\* A page laid out from its words and finished is the author's.
LEMMA PageIsLaid ==
  ASSUME NEW words \in Seq(RawWord), Len(words) <= switch_at, NEW page \in Nat,
         NEW instrs \in Seq(Instr), NEW tail \in {0, 1},
         Len(instrs) - tail \in Nat, First(page) + Len(instrs) - tail <= switch_at - tail,
         \A k \in 1 .. switch_at :
           (IF k <= Len(words) THEN words[k] ELSE Nop)
             = IF k \in First(page) + 1 .. First(page) + Len(instrs) - tail
                 THEN instrs[k - First(page)]
               ELSE IF tail = 1 /\ k = switch_at THEN instrs[Len(instrs)] ELSE Nop,
         tail = 1 => instrs[Len(instrs)].op = "load",
         \A j \in 1 .. Len(instrs) : instrs[j].op = "branch" =>
           instrs[j].n \in 1 .. Len(instrs) - tail + 1
  PROVE  LaidWith(Resolve(Reserve(words), page), instrs, First(page), tail)
<1> DEFINE res == Reserve(words)
           p   == Resolve(res, page)
           f   == First(page)
           n   == Len(instrs) - tail
<1>1. /\ res \in Seq(AnyWord) /\ Len(res) = WINDOW_WORDS
      /\ \A k \in 1 .. switch_at : res[k] = IF k <= Len(words) THEN words[k] ELSE Nop
  BY Reserved
<1> HIDE DEF res
<1>2. DOMAIN res = 1 .. WINDOW_WORDS
  BY <1>1, LenProperties
<1>3. \A k \in 1 .. WINDOW_WORDS :
        p[k] = IF res[k].op = "branch"
                 THEN Word("branch", AddressOf(res[k].n, page) - (k - 1)) ELSE res[k]
  BY <1>2 DEF Resolve
<1> HIDE DEF p
<1>4. f \in {0, 1} /\ f \in Nat
  <2>1. Nop \in RawWord
    BY DEF RawWord
  <2> QED  BY <2>1, FirstWordsSeq DEF First
<1>5. n \in Nat /\ Len(instrs) = n + tail /\ f + n <= switch_at - tail /\ tail \in Nat
  BY LenProperties
<1>6. \A label : AddressOf(label, page) = f + label - 1
  BY DEF AddressOf, First
<1> HIDE DEF f
<1>7. \A k \in 1 .. switch_at :
        res[k] = IF k \in f + 1 .. f + n THEN instrs[k - f]
                 ELSE IF tail = 1 /\ k = switch_at THEN instrs[n + tail] ELSE Nop
  BY <1>1, <1>4, <1>5 DEF f
<1> HIDE DEF n
<1>8. \A j \in 1 .. n + tail : instrs[j] \in Instr
  BY <1>5, ElementOfSeq
<1>9. ASSUME NEW j \in 1 .. n
      PROVE  Compiled(p[f + j], f + j, instrs[j], f, n) /\ p[f + j] # Nop
  <2>1. PICK k \in 1 .. switch_at : k = f + j /\ k - f = j /\ k \in f + 1 .. f + n
    <3>1. n \in Nat /\ f \in Nat /\ j \in Nat /\ 1 <= j /\ j <= n /\ f + n <= switch_at
      BY <1>4, <1>5, Offsets
    <3> QED  BY <3>1, Offsets
  <2>2. res[k] = instrs[j]
    BY <1>7, <2>1
  <2>3. instrs[j] \in Instr /\ j \in 1 .. Len(instrs)
    BY <1>5, <1>8
  <2>4. k \in 1 .. WINDOW_WORDS
    BY Offsets
  <2>5. CASE instrs[j].op # "branch"
    <3>1. p[k] = instrs[j]
      BY <1>3, <2>2, <2>4, <2>5
    <3> QED  BY <2>1, <2>3, <2>5, <3>1, InstrOps DEF Compiled
  <2>6. CASE instrs[j].op = "branch"
    <3>1. instrs[j].n \in 1 .. n + 1
      BY <2>3, <2>6 DEF n
    <3>2. PICK target \in Int : target = f + instrs[j].n - 1
      BY <1>4, <1>5, <3>1
    <3>3. AddressOf(res[k].n, page) = target
      BY <1>6, <2>2, <3>2
    <3>4. p[k] = Word("branch", target - (k - 1))
      BY <1>3, <2>2, <2>4, <2>6, <3>3
    <3>5. target - (k - 1) \in Int
      BY <2>4, Offsets
    <3>6. p[k].op = "branch" /\ p[k].n = target - (k - 1)
      BY <3>4, <3>5, WordFields DEF Ops
    <3>7. k - 1 + p[k].n = target
      BY <2>4, <3>6, Offsets
    <3>8. p[k] # Nop
      BY <3>6, FixedWords
    <3> QED  BY <2>1, <2>6, <3>1, <3>2, <3>6, <3>7, <3>8 DEF Compiled
  <2> QED  BY <2>5, <2>6
<1>10. tail = 1 => /\ instrs[n + 1].op = "load" /\ p[switch_at] = instrs[n + 1]
                   /\ p[switch_at] # Nop
  <2> SUFFICES ASSUME tail = 1
               PROVE  /\ instrs[n + 1].op = "load" /\ p[switch_at] = instrs[n + 1]
                      /\ p[switch_at] # Nop
    OBVIOUS
  <2>1. switch_at \in 1 .. switch_at /\ switch_at \in 1 .. WINDOW_WORDS
    BY Offsets
  <2>2. switch_at \notin f + 1 .. f + n
    BY <1>4, <1>5
  <2>3. res[switch_at] = instrs[n + 1] /\ instrs[n + 1].op = "load"
    BY <1>5, <1>7, <2>1, <2>2
  <2>4. p[switch_at] = instrs[n + 1]
    BY <1>3, <2>1, <2>3
  <2>5. instrs[n + 1] # Nop
    BY <2>3, FixedWords
  <2> QED  BY <2>3, <2>4, <2>5
<1>11. ASSUME NEW k \in 1 .. switch_at
       PROVE  p[k] # Nop <=> (k \in f + 1 .. f + n \/ (tail = 1 /\ k = switch_at))
  <2>1. CASE k \in f + 1 .. f + n
    <3>1. k - f \in 1 .. n /\ f + (k - f) = k
      BY <1>4, <1>5, <2>1
    <3> QED  BY <1>9, <2>1, <3>1
  <2>2. CASE tail = 1 /\ k = switch_at
    BY <1>10, <2>2
  <2>3. CASE k \notin f + 1 .. f + n /\ ~(tail = 1 /\ k = switch_at)
    <3>1. res[k] = Nop
      BY <1>7, <2>3
    <3>2. k \in 1 .. WINDOW_WORDS
      BY Offsets
    <3>3. p[k] = Nop
      BY <1>3, <3>1, <3>2, FixedWords
    <3> QED  BY <2>3, <3>3
  <2> QED  BY <2>1, <2>2, <2>3
<1>12. LaidWith(p, instrs, f, tail)
  BY <1>5, <1>9, <1>10, <1>11 DEF LaidWith, n
<1> QED  BY <1>12 DEF p, res, f

--------------------------------------------------------------------------------
\* The page being built is its first words and its author's instructions so far, and every
\* finished page is its author's.
CurIsBody ==
  /\ \A k \in 1 .. First(Len(pages)) : cur[k] = Nop
  /\ \A j \in 1 .. Len(body) : cur[First(Len(pages)) + j] = body[j]

PagesAreWritten == \A q \in 1 .. Len(pages) : Laid(pages[q], written[q], First(q - 1))

RInv == Inv /\ CurIsBody /\ PagesAreWritten

\* Page 0 has one first word and the others none.
LEMMA FirstRange ==
  ASSUME NEW page \in Nat
  PROVE  First(page) \in {0, 1} /\ \A k \in 1 .. First(page) : FirstWords(page)[k] = Nop
<1>1. Nop \in RawWord
  BY DEF RawWord
<1> QED  BY <1>1, FirstWordsSeq DEF First

\* Resolving labels leaves a sequence of words.
LEMMA ResolveType ==
  ASSUME NEW res \in Seq(AnyWord), NEW page \in Nat
  PROVE  Resolve(res, page) \in Seq(AnyWord)
<1>1. DOMAIN res = 1 .. Len(res) /\ Len(res) \in Nat
  BY LenProperties
<1>2. ASSUME NEW w \in AnyWord, NEW k \in Nat
      PROVE  Word("branch", AddressOf(w.n, page) - (k - 1)) \in AnyWord
  <2>1. w.n \in Int
    BY DEF AnyWord
  <2>2. AddressOf(w.n, page) - (k - 1) \in Int
    BY <2>1, FirstRange DEF AddressOf, First
  <2> QED  BY <2>2, WordFields DEF Ops
<1>3. \A k \in 1 .. Len(res) : res[k] \in AnyWord
  BY <1>1, ElementOfSeq
<1>4. Resolve(res, page) \in [1 .. Len(res) -> AnyWord]
  BY <1>1, <1>2, <1>3 DEF Resolve
<1> QED  BY <1>1, <1>4, SeqDef

\* A new page starts with its first words alone.
LEMMA NewPage ==
  ASSUME Built, NEW words \in Seq(RawWord), Len(words) <= switch_at,
         NEW instrs \in Seq(Instr), NEW tail \in {0, 1},
         FinishCurrentPage(words, instrs), Len(pages') = Len(pages) + 1,
         PagesAreWritten,
         LaidWith(Resolve(Reserve(words), Len(pages)), instrs, First(Len(pages)), tail)
  PROVE  CurIsBody' /\ PagesAreWritten'
<1> DEFINE page == Resolve(Reserve(words), Len(pages))
<1>1. pages' = Append(pages, page) /\ written' = Append(written, instrs)
      /\ cur' = FirstWords(Len(pages) + 1) /\ body' = << >>
  BY DEF FinishCurrentPage
<1>2. Len(pages) \in Nat /\ Len(written) = Len(pages)
  BY LenProperties DEF Built
<1>3. CurIsBody'
  <2>1. \A k \in 1 .. First(Len(pages')) : cur'[k] = Nop
    BY <1>1, <1>2, FirstRange
  <2>2. Len(body') = 0
    BY <1>1
  <2> QED  BY <2>1, <2>2 DEF CurIsBody
<1>4. Laid(page, instrs, First(Len(pages)))
  BY DEF Laid
<1> HIDE DEF page
<1>5. \A q \in 1 .. Len(pages) : pages'[q] = pages[q] /\ written'[q] = written[q]
  BY <1>1, <1>2, AppendProperties DEF Built
<1>6. pages'[Len(pages) + 1] = page /\ written'[Len(pages) + 1] = instrs
  <2>1. pages \in Seq(Seq(AnyWord)) /\ written \in Seq(Seq(Instr))
    BY DEF Built
  <2>2. written'[Len(written) + 1] = instrs
    BY <1>1, <2>1, AppendProperties
  <2>3. page \in Seq(AnyWord)
    BY <1>2, Reserved, ResolveType DEF page
  <2>4. pages'[Len(pages) + 1] = page
    BY <1>1, <2>1, <2>3, AppendProperties
  <2> QED  BY <1>2, <2>2, <2>4
<1>7. ASSUME NEW q \in 1 .. Len(pages')
      PROVE  Laid(pages'[q], written'[q], First(q - 1))
  <2>1. CASE q \in 1 .. Len(pages)
    BY <1>5, <2>1 DEF PagesAreWritten
  <2>2. CASE q = Len(pages) + 1
    <3>1. q - 1 = Len(pages)
      BY <1>2, <2>2
    <3> QED  BY <1>4, <1>6, <2>2, <3>1
  <2> QED  BY <1>2, <2>1, <2>2
<1>8. PagesAreWritten'
  BY <1>7 DEF PagesAreWritten, Laid, LaidWith, Compiled
<1> QED  BY <1>3, <1>8

\* The words of the page being built, one by one.
LEMMA CurWords ==
  ASSUME RInv, NEW k \in 1 .. switch_at
  PROVE  (IF k <= Len(cur) THEN cur[k] ELSE Nop)
           = IF k \in First(Len(pages)) + 1 .. First(Len(pages)) + Len(body)
               THEN body[k - First(Len(pages))] ELSE Nop
<1> DEFINE f == First(Len(pages))
<1>1. Len(pages) \in Nat /\ Len(body) \in Nat
  BY LenProperties DEF RInv, Inv, Built
<1>2. f \in {0, 1} /\ Len(cur) = f + Len(body)
  BY <1>1, FirstRange DEF RInv, Inv, Built, First
<1>3. /\ \A j \in 1 .. f : cur[j] = Nop
      /\ \A j \in 1 .. Len(body) : cur[f + j] = body[j]
  BY DEF RInv, CurIsBody
<1> HIDE DEF f
<1>4. CASE k \in f + 1 .. f + Len(body)
  <2>1. k - f \in 1 .. Len(body) /\ f + (k - f) = k /\ k <= Len(cur)
    BY <1>1, <1>2, <1>4
  <2>2. cur[k] = body[k - f]
    BY <1>3, <2>1
  <2> QED  BY <1>4, <2>1, <2>2 DEF f
<1>5. CASE k \notin f + 1 .. f + Len(body)
  <2>1. k <= Len(cur) => k \in 1 .. f
    BY <1>1, <1>2, <1>5
  <2> QED  BY <1>3, <1>5, <2>1 DEF f
<1> QED  BY <1>4, <1>5

\* A label is at one of the instructions of its page or just behind them.
LEMMA LabelsInRange ==
  ASSUME NEW instrs \in Seq(Instr), LabelsDefined(instrs)
  PROVE  \A j \in 1 .. Len(instrs) : instrs[j].op = "branch" => instrs[j].n \in 1 .. Len(body) + 1
<1> SUFFICES ASSUME NEW j \in 1 .. Len(instrs), instrs[j].op = "branch"
             PROVE  instrs[j].n \in 1 .. Len(body) + 1
  OBVIOUS
<1>1. instrs[j] \in Instr /\ j \in DOMAIN instrs
  BY ElementOfSeq, LenProperties
<1>2. instrs[j].n \in Labels
  BY <1>1, InstrOps, InstrWords
<1>3. instrs[j].n <= Len(body) + 1
  BY <1>1 DEF LabelsDefined
<1> QED  BY <1>2, <1>3, Offsets DEF Labels

\* switch_to_computed() finishes the page with the author's words alone.
LEMMA ComputedLaid ==
  ASSUME RInv, FinishCurrentPage(cur, body)
  PROVE  LaidWith(Resolve(Reserve(cur), Len(pages)), body, First(Len(pages)), 0)
<1>1. /\ Len(pages) \in Nat /\ Len(body) \in Nat /\ cur \in Seq(RawWord)
      /\ body \in Seq(Instr) /\ Len(cur) <= switch_at
      /\ Len(cur) = First(Len(pages)) + Len(body)
  BY LenProperties DEF RInv, Inv, Built, First
<1>2. \A j \in 1 .. Len(body) : body[j].op = "branch" => body[j].n \in 1 .. Len(body) - 0 + 1
  BY <1>1, LabelsInRange DEF FinishCurrentPage
<1>3. First(Len(pages)) \in {0, 1}
  BY <1>1, FirstRange
<1>4. Len(body) - 0 = Len(body)
      /\ First(Len(pages)) + Len(body) - 0 = First(Len(pages)) + Len(body)
      /\ switch_at - 0 = switch_at
  BY <1>1, <1>3, Offsets
<1>5. \A k \in 1 .. switch_at :
        (IF k <= Len(cur) THEN cur[k] ELSE Nop)
          = IF k \in First(Len(pages)) + 1 .. First(Len(pages)) + Len(body) - 0
              THEN body[k - First(Len(pages))]
            ELSE IF 0 = 1 /\ k = switch_at THEN body[Len(body)] ELSE Nop
  BY <1>4, CurWords
<1> QED  BY <1>1, <1>2, <1>4, <1>5, PageIsLaid

\* switch_to(n) also with the load of n, last before the store.
LEMMA LeftForLaid ==
  ASSUME RInv, NEW n \in 0 .. MaxPages - 1, LeaveFor(n)
  PROVE  LET load == Word("load", n)
         IN  LaidWith(Resolve(Reserve(Append(PadTo(cur, switch_at - 1), load)), Len(pages)),
                      Append(body, load), First(Len(pages)), 1)
<1> DEFINE load   == Word("load", n)
           words  == Append(PadTo(cur, switch_at - 1), load)
           instrs == Append(body, load)
           f == First(Len(pages))
<1>1. /\ Len(pages) \in Nat /\ Len(body) \in Nat /\ cur \in Seq(RawWord)
      /\ body \in Seq(Instr) /\ Len(cur) <= switch_at - 1
      /\ Len(cur) = f + Len(body)
  BY LenProperties DEF RInv, Inv, Built, First, LeaveFor
<1>2. load \in Instr /\ load.op = "load"
  <2>1. n \in Int
    BY Offsets
  <2> QED  BY <2>1, WordFields DEF Instr, Ops
<1>3. FinishCurrentPage(words, instrs)
  BY DEF LeaveFor
<1> HIDE DEF load
<1>4. f \in {0, 1}
  BY <1>1, FirstRange
<1>5. /\ instrs \in Seq(Instr) /\ Len(instrs) = Len(body) + 1
      /\ \A j \in 1 .. Len(body) : instrs[j] = body[j]
      /\ instrs[Len(body) + 1] = load
  BY <1>1, <1>2, AppendProperties
<1>6. /\ words \in Seq(RawWord) /\ Len(words) = switch_at
      /\ \A k \in 1 .. switch_at - 1 : words[k] = IF k <= Len(cur) THEN cur[k] ELSE Nop
      /\ words[switch_at] = load
  <2> DEFINE pad == PadTo(cur, switch_at - 1)
  <2>1. Nop \in RawWord /\ load \in RawWord /\ switch_at - 1 \in Nat
    BY <1>2, InstrOps, Offsets DEF RawWord
  <2>2. /\ pad \in Seq(RawWord) /\ Len(pad) = switch_at - 1
        /\ \A k \in 1 .. switch_at - 1 : pad[k] = IF k <= Len(cur) THEN cur[k] ELSE Nop
    BY <1>1, <2>1, Padded
  <2> HIDE DEF pad
  <2>3. /\ Append(pad, load) \in Seq(RawWord) /\ Len(Append(pad, load)) = Len(pad) + 1
        /\ \A k \in 1 .. Len(pad) : Append(pad, load)[k] = pad[k]
        /\ Append(pad, load)[Len(pad) + 1] = load
    BY <2>1, <2>2, AppendProperties
  <2>4. Len(pad) + 1 = switch_at
    BY <2>2, Offsets
  <2> QED  BY <2>2, <2>3, <2>4 DEF pad
<1>7. LabelsDefined(instrs)
  BY <1>3 DEF FinishCurrentPage
<1> HIDE DEF words, instrs, f
<1>8. \A j \in 1 .. Len(instrs) : instrs[j].op = "branch" => instrs[j].n \in 1 .. Len(body) + 1
  BY <1>5, <1>7, LabelsInRange
<1>9. Len(instrs) - 1 = Len(body) /\ f + Len(instrs) - 1 = f + Len(body)
      /\ f + Len(body) <= switch_at - 1
  BY <1>1, <1>4, <1>5
<1>10. ASSUME NEW k \in 1 .. switch_at
       PROVE  (IF k <= Len(words) THEN words[k] ELSE Nop)
                = IF k \in f + 1 .. f + Len(instrs) - 1 THEN instrs[k - f]
                  ELSE IF 1 = 1 /\ k = switch_at THEN instrs[Len(instrs)] ELSE Nop
  <2>1. k <= Len(words)
    BY <1>6, Offsets
  <2>2. CASE k = switch_at
    <3>1. k \notin f + 1 .. f + Len(body)
      BY <1>1, <1>4, <1>9, <2>2, Offsets
    <3> QED  BY <1>5, <1>6, <1>9, <2>1, <2>2, <3>1
  <2>3. CASE k # switch_at
    <3>1. k \in 1 .. switch_at - 1
      BY <2>3, Offsets
    <3>2. words[k] = IF k \in f + 1 .. f + Len(body) THEN body[k - f] ELSE Nop
      BY <1>6, <3>1, CurWords DEF f
    <3>3. k \in f + 1 .. f + Len(body) => k - f \in 1 .. Len(body)
      BY <1>1, <1>4
    <3> QED  BY <1>5, <1>9, <2>1, <2>3, <3>2, <3>3
  <2> QED  BY <2>2, <2>3
<1>11. instrs[Len(instrs)].op = "load"
  BY <1>2, <1>5
<1>12. /\ Len(words) <= switch_at /\ Len(instrs) - 1 \in Nat
       /\ f + Len(instrs) - 1 <= switch_at - 1
       /\ \A j \in 1 .. Len(instrs) : instrs[j].op = "branch" =>
            instrs[j].n \in 1 .. Len(instrs) - 1 + 1
  BY <1>1, <1>6, <1>8, <1>9, Offsets
<1>13. LaidWith(Resolve(Reserve(words), Len(pages)), instrs, f, 1)
  BY <1>1, <1>5, <1>6, <1>10, <1>11, <1>12, PageIsLaid DEF f
<1> QED  BY <1>13 DEF words, instrs, load, f

\* An emitted instruction goes behind the others.
LEMMA EmitLaid ==
  ASSUME RInv, Emit
  PROVE  CurIsBody' /\ PagesAreWritten'
<1> DEFINE f == First(Len(pages))
<1>1. PICK i \in Instr : cur' = Append(cur, i) /\ body' = Append(body, i)
  BY DEF Emit
<1>2. UNCHANGED <<pages, written>>
  BY DEF Emit
<1>3. /\ Len(pages) \in Nat /\ Len(body) \in Nat /\ cur \in Seq(RawWord)
      /\ body \in Seq(Instr) /\ Len(cur) = f + Len(body)
  BY LenProperties DEF RInv, Inv, Built, First
<1>4. f \in {0, 1}
  BY <1>3, FirstRange
<1>5. /\ \A k \in 1 .. Len(cur) : cur'[k] = cur[k]
      /\ cur'[Len(cur) + 1] = i
  BY <1>1, <1>3, InstrOps, AppendProperties
<1>6. /\ Len(body') = Len(body) + 1
      /\ \A k \in 1 .. Len(body) : body'[k] = body[k]
      /\ body'[Len(body) + 1] = i
  BY <1>1, <1>3, AppendProperties
<1>7. First(Len(pages'))  = f
  BY <1>2
<1> HIDE DEF f
<1>8. \A k \in 1 .. f : cur'[k] = Nop
  BY <1>3, <1>4, <1>5 DEF RInv, CurIsBody, f
<1>9. ASSUME NEW j \in 1 .. Len(body')
      PROVE  cur'[f + j] = body'[j]
  <2>1. CASE j = Len(body) + 1
    <3>1. f + j = Len(cur) + 1
      BY <1>3, <1>4, <2>1
    <3> QED  BY <1>5, <1>6, <2>1, <3>1
  <2>2. CASE j \in 1 .. Len(body)
    <3>1. f + j \in 1 .. Len(cur) /\ cur[f + j] = body[j]
      BY <1>3, <1>4, <2>2 DEF RInv, CurIsBody, f
    <3> QED  BY <1>5, <1>6, <2>2, <3>1
  <2> QED  BY <1>3, <1>6, <2>1, <2>2
<1>10. CurIsBody'
  BY <1>7, <1>8, <1>9 DEF CurIsBody
<1>11. PagesAreWritten'
  BY <1>2 DEF RInv, PagesAreWritten
<1> QED  BY <1>10, <1>11

\* However the page is finished it is laid out as written.
LEMMA LeftForKeeps ==
  ASSUME RInv, Len(pages) <= MaxPages - 1, NEW n \in 0 .. MaxPages - 1, LeaveFor(n)
  PROVE  CurIsBody' /\ PagesAreWritten'
<1> DEFINE load  == Word("load", n)
           words == Append(PadTo(cur, switch_at - 1), load)
<1>1. load \in Instr /\ load \in RawWord /\ Nop \in RawWord
  <2>1. n \in Int
    BY Offsets
  <2> QED  BY <2>1, WordFields DEF Instr, RawWord, Ops
<1>2. FinishCurrentPage(words, Append(body, load)) /\ Len(cur) <= switch_at - 1
  BY DEF LeaveFor
<1>3. LaidWith(Resolve(Reserve(words), Len(pages)), Append(body, load), First(Len(pages)), 1)
  BY LeftForLaid
<1>4. Len(pages') = Len(pages) + 1
  BY LeftFor DEF RInv, Inv
<1> HIDE DEF load
<1>5. Append(body, load) \in Seq(Instr)
  BY <1>1, AppendProperties DEF RInv, Inv, Built
<1>6. words \in Seq(RawWord) /\ Len(words) <= switch_at
  <2>1. switch_at - 1 \in Nat /\ cur \in Seq(RawWord)
    BY Offsets DEF RInv, Inv, Built
  <2>2. PadTo(cur, switch_at - 1) \in Seq(RawWord) /\ Len(PadTo(cur, switch_at - 1)) = switch_at - 1
    BY <1>1, <1>2, <2>1, Padded
  <2>3. words \in Seq(RawWord) /\ Len(words) = Len(PadTo(cur, switch_at - 1)) + 1
    BY <1>1, <2>2, AppendProperties
  <2>4. Len(words) = switch_at - 1 + 1
    BY <2>2, <2>3, Zenon
  <2> HIDE DEF words
  <2> QED  BY <2>3, <2>4, Offsets
<1> HIDE DEF words
<1> QED  BY <1>2, <1>3, <1>4, <1>5, <1>6, NewPage DEF RInv, Inv

\* The invariant of the refinement.
LEMMA RefinementInit == Init => RInv
<1> SUFFICES ASSUME Init PROVE RInv
  OBVIOUS
<1>1. Len(pages) = 0 /\ Len(body) = 0 /\ cur = FirstWords(0)
  BY DEF Init
<1>2. CurIsBody
  BY <1>1, FirstRange DEF CurIsBody
<1>3. PagesAreWritten
  BY <1>1 DEF PagesAreWritten
<1> QED  BY <1>2, <1>3, InitInv DEF RInv

\* Every step of the builder and of the core keeps it.
LEMMA RefinementStep == RInv /\ [Next]_vars => RInv'
<1> SUFFICES ASSUME RInv, [Next]_vars PROVE CurIsBody' /\ PagesAreWritten'
  BY NextInv DEF RInv
<1>1. Len(pages) \in Nat
  BY LenPages DEF RInv, Inv
<1>2. CASE UNCHANGED buildVars
  BY <1>2 DEF buildVars, RInv, CurIsBody, PagesAreWritten
<1>3. CASE Emit
  BY <1>3, EmitLaid
<1>4. CASE SwitchTo
  <2>1. PICK n \in 0 .. MaxPages - 1 : LeaveFor(n)
    BY <1>4 DEF SwitchTo
  <2>2. Len(pages) <= MaxPages - 1
    BY <1>1, <1>4, Offsets DEF SwitchTo
  <2> QED  BY <2>1, <2>2, LeftForKeeps
<1>5. CASE SwitchToComputed
  <2>1. FinishCurrentPage(cur, body) /\ Len(pages) <= MaxPages - 1
    BY <1>1, <1>5, Offsets DEF SwitchToComputed
  <2>2. /\ cur \in Seq(RawWord) /\ Len(cur) <= switch_at /\ body \in Seq(Instr)
        /\ \A j \in 1 .. Len(body) : j \in DOMAIN body
        /\ \A k \in 1 .. Len(cur) : cur[k].op = "branch" => \E j \in 1 .. Len(cur) : cur[k] = cur[j]
    BY LenProperties DEF RInv, Inv, Built
  <2>3. Len(pages') = Len(pages) + 1
    BY <2>1, <2>2, PageFinished DEF RInv, Inv
  <2> QED  BY <2>1, <2>2, <2>3, ComputedLaid, NewPage DEF RInv, Inv
<1>6. CASE FinalizeLastPage
  <2>1. LeaveFor(Len(pages)) /\ Len(pages) <= MaxPages - 1
    BY <1>6 DEF FinalizeLastPage, RInv, Inv, Placed
  <2>2. Len(pages) \in 0 .. MaxPages - 1
    BY <1>1, <2>1, Offsets
  <2> QED  BY <2>1, <2>2, LeftForKeeps
<1> QED  BY <1>2, <1>3, <1>4, <1>5, <1>6 DEF Next, PadToAssertion, Finalize, HandOff, BootTimeout,
         ExecWork, ExecLoad, ExecBranch, ExecStore, ExecJump, Executes, Reset, vars, buildVars

--------------------------------------------------------------------------------
\* Running.  The page that runs is a page its author wrote.
LEMMA RunningPage ==
  ASSUME RInv, mode = "run"
  PROVE  /\ flash_page + 1 \in 1 .. Len(pages) /\ written[flash_page + 1] \in Seq(Instr)
         /\ Len(written[flash_page + 1]) \in Nat
         /\ First(flash_page) \in {0, 1}
         /\ Laid(pages[flash_page + 1], written[flash_page + 1], First(flash_page))
<1>1. Len(pages) \in Nat /\ flash_page \in 0 .. Len(pages) - 1
  BY LenPages DEF RInv, Inv, Placed
<1>2. flash_page + 1 \in 1 .. Len(pages) /\ flash_page \in Nat /\ flash_page + 1 - 1 = flash_page
  BY <1>1
<1>3. written[flash_page + 1] \in Seq(Instr)
  BY <1>2, ElementOfSeq DEF RInv, Inv, Built
<1> QED  BY <1>2, <1>3, FirstRange, LenProperties DEF RInv, PagesAreWritten

\* Where the author is: after the instructions before the PC.
LEMMA IndexIsCount ==
  ASSUME mode = "run", pc # trampoline
  PROVE  AuthorIndex = 1 + Before(pages[flash_page + 1], pc)
  BY DEF AuthorIndex, Before

\* Their number is a number: the words of a page are finitely many.
LEMMA BeforeIsNat == ASSUME NEW p, NEW x \in Int PROVE Before(p, x) \in Nat
<1>1. IsFiniteSet(1 .. x)
  BY FS_Interval
<1>2. IsFiniteSet({k \in 1 .. x : p[k] # Nop})
  BY <1>1, FS_Subset
<1> QED  BY <1>2, FS_CardinalityType DEF Before

\* A word of a page is padding, or the instruction the author is at.
LEMMA WordIsInstr ==
  ASSUME NEW p, NEW w, Len(w) \in Nat, NEW f \in {0, 1}, Laid(p, w, f),
         NEW x \in 0 .. switch_at - 1
  PROVE  /\ p[x + 1] = Nop => Before(p, x + 1) = Before(p, x)
         /\ p[x + 1] # Nop =>
              /\ Before(p, x + 1) = Before(p, x) + 1
              /\ Before(p, x) + 1 \in 1 .. Len(w)
              /\ p[x + 1].op = w[Before(p, x) + 1].op
              /\ p[x + 1].op = "load" => p[x + 1].n = w[Before(p, x) + 1].n
              /\ p[x + 1].op = "branch" =>
                   /\ x + p[x + 1].n \in 0 .. switch_at
                   /\ Before(p, x + p[x + 1].n) + 1 = w[Before(p, x) + 1].n
<1>1. PICK tail \in {0, 1} : LaidWith(p, w, f, tail)
  BY DEF Laid
<1>2. PICK n \in Nat : n = Len(w) - tail /\ Len(w) = n + tail
  BY <1>1 DEF LaidWith
<1>3. /\ f + n <= switch_at - tail /\ switch_at \in Nat /\ f \in Nat /\ tail \in Nat
      /\ \A k \in 1 .. switch_at :
           p[k] # Nop <=> (k \in f + 1 .. f + n \/ (tail = 1 /\ k = switch_at))
      /\ \A j \in 1 .. n : Compiled(p[f + j], f + j, w[j], f, n)
      /\ tail = 1 => w[n + 1].op = "load" /\ p[switch_at] = w[n + 1]
  BY <1>1, <1>2, Offsets DEF LaidWith
<1>4. x + 1 \in 1 .. switch_at /\ x \in 0 .. switch_at /\ x + 1 \in 0 .. switch_at /\ x \in Nat
  BY <1>3
<1>5. ASSUME NEW y \in 0 .. switch_at
      PROVE  /\ y = switch_at => Before(p, y) = n + tail
             /\ y <= f => Before(p, y) = 0
             /\ \A j \in 0 .. n : y = f + j => Before(p, y) = j
             /\ (y >= f + n /\ y < switch_at) => Before(p, y) = n
  BY <1>1, <1>2, <1>3, Counted
<1>6. CASE p[x + 1] = Nop
  <2>1. x + 1 \notin f + 1 .. f + n /\ ~(tail = 1 /\ x + 1 = switch_at)
    BY <1>3, <1>4, <1>6
  <2>2. ASSUME x + 1 <= f PROVE Before(p, x + 1) = Before(p, x)
    BY <1>3, <1>4, <1>5, <2>2
  <2>3. ASSUME x + 1 > f PROVE Before(p, x + 1) = Before(p, x)
    <3>1. x >= f + n /\ x < switch_at
      BY <1>3, <1>4, <2>1, <2>3
    <3>2. Before(p, x) = n
      BY <1>4, <1>5, <3>1
    <3>3. ASSUME x + 1 = switch_at PROVE Before(p, x + 1) = n
      BY <1>3, <1>4, <1>5, <2>1, <3>3
    <3>4. ASSUME x + 1 < switch_at PROVE Before(p, x + 1) = n
      BY <1>3, <1>4, <1>5, <3>1, <3>4
    <3> QED  BY <1>3, <1>4, <3>2, <3>3, <3>4
  <2>4. Before(p, x + 1) = Before(p, x)
    BY <1>3, <1>4, <2>2, <2>3
  <2> QED  BY <1>6, <2>4
<1>7. CASE p[x + 1] # Nop /\ x + 1 \in f + 1 .. f + n
  <2>1. PICK j \in 1 .. n : x + 1 = f + j
    <3>1. x + 1 - f \in 1 .. n /\ x + 1 = f + (x + 1 - f)
      BY <1>3, <1>4, <1>7
    <3> QED  BY <3>1
  <2>2. x = f + (j - 1) /\ j - 1 \in 0 .. n /\ j \in 0 .. n /\ j - 1 + 1 = j /\ j \in 1 .. Len(w)
    BY <1>2, <1>3, <1>4, <2>1
  <2>3. Before(p, x) = j - 1 /\ Before(p, x + 1) = j
    BY <1>4, <1>5, <2>1, <2>2
  <2>4. Compiled(p[x + 1], x + 1, w[j], f, n)
    BY <1>3, <2>1
  <2>5. ASSUME p[x + 1].op = "branch"
        PROVE  /\ x + p[x + 1].n \in 0 .. switch_at
               /\ Before(p, x + p[x + 1].n) + 1 = w[j].n
    <3>1. w[j].n \in 1 .. n + 1 /\ x + 1 - 1 + p[x + 1].n = f + w[j].n - 1
      BY <2>4, <2>5 DEF Compiled
    <3>2. PICK m \in 0 .. n : w[j].n = m + 1
      <4>1. w[j].n - 1 \in 0 .. n /\ w[j].n = (w[j].n - 1) + 1
        BY <3>1, <1>2
      <4> QED  BY <4>1
    <3>3. x + p[x + 1].n = f + m
      <4>1. x + 1 - 1 = x
        BY <1>4
      <4>2. f + (m + 1) - 1 = f + m
        BY <1>3, <3>2
      <4> QED  BY <3>1, <3>2, <4>1, <4>2
    <3>4. f + m \in 0 .. switch_at
      BY <1>3, <3>2
    <3>5. Before(p, f + m) = m
      BY <1>5, <3>2, <3>4
    <3> QED  BY <3>2, <3>3, <3>4, <3>5
  <2>6. w[Before(p, x) + 1] = w[j] /\ Before(p, x) + 1 = j
    BY <2>2, <2>3
  <2> QED  BY <1>7, <2>2, <2>3, <2>4, <2>5, <2>6 DEF Compiled
<1>8. CASE tail = 1 /\ x + 1 = switch_at
  <2>1. x >= f + n /\ x < switch_at
    BY <1>3, <1>4, <1>8
  <2>2. Before(p, x) = n /\ Before(p, x + 1) = n + 1 /\ n + 1 \in 1 .. Len(w)
    BY <1>2, <1>4, <1>5, <1>8, <2>1
  <2>3. p[x + 1] = w[n + 1] /\ w[n + 1].op = "load"
    BY <1>3, <1>8
  <2>4. p[x + 1] # Nop
    BY <1>3, <1>4, <1>8
  <2> QED  BY <2>2, <2>3, <2>4
<1> QED  BY <1>3, <1>4, <1>6, <1>7, <1>8

\* A stutter of the program.
LEMMA ProgramStutters ==
  ASSUME UNCHANGED <<written, flash_page, x30, AuthorIndex>>,
         (mode' \in {"boot", "run"}) <=> (mode \in {"boot", "run"})
  PROVE  UNCHANGED Program!vars
  BY DEF Program!vars

\* While the image is built the program is written, and finalize() starts it.
LEMMA BuildingIsWriting ==
  ASSUME RInv, RInv',
         Emit \/ SwitchTo \/ SwitchToComputed \/ FinalizeLastPage \/ PadToAssertion \/ Finalize
  PROVE  [Program!Next]_(Program!vars)
<1>1. mode \notin {"boot", "run"} /\ mode' # "run"
  BY DEF Emit, SwitchTo, SwitchToComputed, FinalizeLastPage, PadToAssertion, Finalize
<1>2. AuthorIndex = 1 /\ AuthorIndex' = 1
  BY <1>1 DEF AuthorIndex
<1>3. flash_page' = flash_page /\ written' \in Seq(Seq(Instr))
  BY <1>1 DEF RInv, Inv, Placed, Built
<1>4. CASE Finalize
  <2>1. /\ mode' = "boot" /\ written' = written /\ x30' \in 0 .. Len(pages) - 1
    BY <1>4 DEF Finalize, buildVars
  <2>2. Len(pages) = Len(written) /\ flash_page' = 0
    BY <1>1 DEF RInv, Inv, Built, Placed
  <2>3. Program!Start
    BY <1>1, <1>2, <2>1, <2>2 DEF Program!Start, Program!Pages
  <2> QED  BY <2>3 DEF Program!Next
<1>5. CASE ~Finalize
  <2>1. x30' = x30 /\ mode' \notin {"boot", "run"}
    BY <1>5 DEF Emit, SwitchTo, SwitchToComputed, FinalizeLastPage, PadToAssertion, LeaveFor,
       FinishCurrentPage
  <2>2. Program!WritePage
    BY <1>1, <1>2, <1>3, <2>1 DEF Program!WritePage
  <2> QED  BY <2>2 DEF Program!Next
<1> QED  BY <1>4, <1>5

\* The boot, either way, ends at the first instruction; a reset starts again there.
LEMMA BootingIsStarting ==
  ASSUME RInv, RInv', HandOff \/ BootTimeout \/ Reset
  PROVE  [Program!Next]_(Program!vars)
<1>1. UNCHANGED <<written, x30>> /\ mode \in {"boot", "run"} /\ mode' \in {"boot", "run"}
  BY DEF HandOff, BootTimeout, Reset, buildVars
<1>2. CASE Reset
  <2>1. AuthorIndex' = 1 /\ flash_page' = 0
    BY <1>2 DEF Reset, AuthorIndex
  <2>2. Program!Restart
    BY <1>1, <2>1 DEF Program!Restart
  <2> QED  BY <2>2 DEF Program!Next
<1>3. CASE HandOff \/ BootTimeout
  <2>1. mode = "boot" /\ mode' = "run" /\ pc' \in {0, 1} /\ flash_page' = flash_page
    BY <1>3 DEF HandOff, BootTimeout
  <2>2. AuthorIndex = 1 /\ flash_page = 0
    BY <2>1 DEF AuthorIndex, RInv, Inv, Placed
  <2>3. 1 \in 1 .. Len(pages) /\ pages' = pages
    <3>1. pages' = pages
      BY <1>3 DEF HandOff, BootTimeout, buildVars
    <3>2. Len(pages) \in Nat /\ flash_page \in 0 .. Len(pages) - 1
      BY <2>1, LenPages DEF RInv, Inv, Placed
    <3> QED  BY <3>1, <3>2
  <2>4. First(1 - 1) = 1
    BY DEF First, FirstWords
  <2>5. Laid(pages[1], written[1], 1)
    BY <2>3, <2>4 DEF RInv, PagesAreWritten
  <2>6. Len(written[1]) \in Nat
    <3>1. written[1] \in Seq(Instr)
      BY <2>3, ElementOfSeq DEF RInv, Inv, Built
    <3> QED  BY <3>1, LenProperties
  <2>7. pc' \in 0 .. switch_at /\ pc' <= 1 /\ pc' # trampoline
    BY <2>1, Offsets
  <2>8. Before(pages[1], pc') = 0
    BY <2>5, <2>6, <2>7, Counted DEF Laid
  <2>9. AuthorIndex' = 1 + Before(pages[1], pc')
    BY <2>1, <2>2, <2>3, <2>7 DEF AuthorIndex, Before
  <2>10. AuthorIndex' = AuthorIndex
    BY <2>2, <2>8, <2>9
  <2> QED  BY <1>1, <2>1, <2>10, ProgramStutters
<1> QED  BY <1>2, <1>3

\* An instruction other than a store or a jump is where the author is.
LEMMA InstrIsNext ==
  ASSUME RInv, RInv',
         ExecWork \/ ExecLoad \/ ExecBranch
  PROVE  [Program!Next]_(Program!vars)
<1> DEFINE p == pages[flash_page + 1]
           w == written[flash_page + 1]
           n == Before(p, pc)
<1>1. mode = "run" /\ mode' = "run" /\ UNCHANGED <<pages, written, flash_page>>
      /\ Fetched.op \in {"work", "nop", "load", "branch"}
  BY DEF ExecWork, ExecLoad, ExecBranch, Executes, buildVars
<1>2. /\ w \in Seq(Instr) /\ Len(w) \in Nat
      /\ First(flash_page) \in {0, 1} /\ Laid(p, w, First(flash_page))
  BY <1>1, RunningPage
<1>3. pc \in 0 .. switch_at - 1 /\ Fetched = p[pc + 1]
  BY <1>1, FetchedWord DEF RInv
<1>4. pc # trampoline /\ pc + 1 \in 0 .. switch_at
  BY <1>3, Offsets
<1>5. AuthorIndex = 1 + n
  BY <1>1, <1>4, IndexIsCount
<1>6. ASSUME pc' \in 0 .. switch_at
      PROVE  AuthorIndex' = 1 + Before(p, pc')
  <2>1. pc' # trampoline
    BY <1>6, Offsets
  <2> QED  BY <1>1, <2>1 DEF AuthorIndex, Before
<1> HIDE DEF p, w, n
<1>7. /\ p[pc + 1] = Nop => Before(p, pc + 1) = n
      /\ p[pc + 1] # Nop =>
           /\ Before(p, pc + 1) = n + 1
           /\ n + 1 \in 1 .. Len(w)
           /\ p[pc + 1].op = w[n + 1].op
           /\ p[pc + 1].op = "load" => p[pc + 1].n = w[n + 1].n
           /\ p[pc + 1].op = "branch" =>
                /\ pc + p[pc + 1].n \in 0 .. switch_at
                /\ Before(p, pc + p[pc + 1].n) + 1 = w[n + 1].n
  BY <1>2, <1>3, WordIsInstr DEF n
<1>8. CASE Fetched = Nop
  <2>1. Fetched.op = "nop"
    BY <1>8, FixedWords
  <2>2. pc' = pc + 1 /\ x30' = x30
    BY <2>1 DEF ExecWork, ExecLoad, ExecBranch, Executes
  <2>3. AuthorIndex' = AuthorIndex
    BY <1>3, <1>4, <1>5, <1>6, <1>7, <1>8, <2>2
  <2> QED  BY <1>1, <2>2, <2>3, ProgramStutters
<1>9. CASE Fetched # Nop
  <2>1. /\ Before(p, pc + 1) = n + 1 /\ n + 1 \in 1 .. Len(w) /\ Fetched.op = w[n + 1].op
        /\ Fetched.op = "load" => Fetched.n = w[n + 1].n
        /\ Fetched.op = "branch" =>
                /\ pc + Fetched.n \in 0 .. switch_at
                /\ Before(p, pc + Fetched.n) + 1 = w[n + 1].n
    BY <1>3, <1>7, <1>9
  <2>2. PICK here \in 1 .. Len(w) : here = n + 1
    BY <2>1
  <2>3. n = here - 1 /\ AuthorIndex = here /\ here \in Nat /\ here <= Len(w)
    <3>1. n \in Nat
      BY <1>2, <1>3, BeforeIsNat DEF n
    <3> QED  BY <1>2, <1>5, <2>2, <3>1
  <2>4. Program!Current = w /\ mode \in {"boot", "run"}
    BY <1>1 DEF Program!Current, w
  <2>5. ASSUME pc' = pc + 1 PROVE AuthorIndex' = here + 1
    BY <1>4, <1>6, <2>1, <2>2, <2>3, <2>5
  <2>6. CASE Fetched.op = "work"
    <3>1. pc' = pc + 1 /\ x30' = x30
      BY <2>6 DEF ExecWork, ExecLoad, ExecBranch, Executes
    <3>2. Program!Work
      BY <2>1, <2>2, <2>3, <2>4, <2>5, <2>6, <3>1 DEF Program!Work
    <3> QED  BY <1>1, <2>3, <2>4, <3>2 DEF Program!Execute, Program!Next
  <2>7. CASE Fetched.op = "load"
    <3>1. pc' = pc + 1 /\ x30' = Fetched.n
      BY <2>7 DEF ExecWork, ExecLoad, ExecBranch, Executes
    <3>2. Program!LoadReg
      BY <2>1, <2>2, <2>3, <2>4, <2>5, <2>7, <3>1 DEF Program!LoadReg
    <3> QED  BY <1>1, <2>3, <2>4, <3>2 DEF Program!Execute, Program!Next
  <2>8. CASE Fetched.op = "branch"
    <3>1. pc' \in {pc + 1, pc + Fetched.n} /\ x30' = x30
      BY <2>8 DEF ExecWork, ExecLoad, ExecBranch, Executes
    <3>2. ASSUME pc' = pc + Fetched.n PROVE AuthorIndex' = w[here].n
      <4>1. pc' \in 0 .. switch_at /\ Before(p, pc') + 1 = w[here].n
        BY <2>1, <2>2, <2>8, <3>2
      <4>2. Before(p, pc') \in Nat
        BY <1>2, <4>1, BeforeIsNat
      <4> QED  BY <1>6, <4>1, <4>2
    <3>3. AuthorIndex' \in {here + 1, w[here].n}
      BY <2>5, <3>1, <3>2
    <3>4. Program!Branch
      BY <2>1, <2>2, <2>3, <2>4, <2>8, <3>1, <3>3 DEF Program!Branch
    <3> QED  BY <1>1, <2>3, <2>4, <3>4 DEF Program!Execute, Program!Next
  <2>9. Fetched.op # "nop"
    <3>1. w[n + 1] \in Instr
      BY <1>2, <2>1, ElementOfSeq
    <3> QED  BY <2>1, <3>1, InstrOps
  <2> QED  BY <1>1, <2>6, <2>7, <2>8, <2>9
<1> QED  BY <1>8, <1>9

\* The store at the end of a page turns it.
LEMMA StoreTurns ==
  ASSUME RInv, RInv', ExecStore
  PROVE  [Program!Next]_(Program!vars)
<1> DEFINE p == pages[flash_page + 1]
           w == written[flash_page + 1]
<1>1. /\ mode = "run" /\ mode' = "run" /\ UNCHANGED <<written, x30>> /\ pc' = pc + 1
      /\ flash_page' = x30 % PageVals
  BY DEF ExecStore, Executes, buildVars
<1>2. pc = switch_at
  BY <1>1, FetchedWord DEF RInv, ExecStore, Executes
<1>3. /\ Len(w) \in Nat /\ First(flash_page) \in {0, 1} /\ Laid(p, w, First(flash_page))
  BY <1>1, RunningPage
<1>4. pc # trampoline /\ pc \in 0 .. switch_at /\ pc' = trampoline
  BY <1>1, <1>2, Offsets
<1>5. AuthorIndex = 1 + Before(p, pc)
  BY <1>1, <1>4, IndexIsCount
<1>6. AuthorIndex' = 1
  BY <1>1, <1>4 DEF AuthorIndex, trampoline
<1> HIDE DEF p, w
<1>7. Before(p, pc) = Len(w)
  BY <1>2, <1>3, <1>4, Counted DEF Laid
<1>8. AuthorIndex > Len(w)
  BY <1>3, <1>5, <1>7
<1>9. flash_page' = x30
  <2>1. x30 \in 0 .. Len(pages) - 1 /\ Len(pages) \in Nat /\ Len(pages) <= MaxPages
    BY <1>1, LenPages DEF RInv, Inv, Built, Placed
  <2>2. x30 \in Nat /\ x30 < PageVals
    BY <2>1, Offsets
  <2>3. \A v, m \in Nat : v < m => v % m = v
    BY SMT
  <2> QED  BY <1>1, <2>2, <2>3, Offsets
<1>10. Program!TurnPage
  BY <1>1, <1>6, <1>8, <1>9 DEF Program!TurnPage, Program!Current, w
<1> QED  BY <1>10 DEF Program!Next

\* The only jump of a page is its last word.
LEMMA JumpIsLast ==
  ASSUME RInv, mode = "run", Fetched.op = "jump"
  PROVE  pc = trampoline
<1> DEFINE p == pages[flash_page + 1]
<1>1. GoodPage(p) /\ Fetched = p[pc + 1] /\ pc \in 0 .. trampoline
  BY FetchedWord DEF RInv
<1> HIDE DEF p
<1>2. ASSUME pc \in 0 .. switch_at - 1 PROVE FALSE
  <2>1. pc + 1 \in 1 .. switch_at
    BY <1>2, Offsets
  <2> QED  BY <1>1, <2>1 DEF GoodPage
<1>3. ASSUME pc = switch_at PROVE FALSE
  BY <1>1, <1>3, FixedWords DEF GoodPage
<1> QED  BY <1>1, <1>2, <1>3, Offsets

\* The jump behind it is not seen.
LEMMA JumpIsSilent ==
  ASSUME RInv, ExecJump
  PROVE  [Program!Next]_(Program!vars)
<1>1. mode = "run" /\ mode' = "run" /\ UNCHANGED <<written, flash_page, x30>>
      /\ pc' = pc + Fetched.n /\ Fetched.op = "jump"
  BY DEF ExecJump, Executes, buildVars
<1>2. pc' = 0 /\ pc \in 0 .. trampoline
  BY <1>1, FetchedWord DEF RInv
<1>3. pc = trampoline
  BY <1>1, JumpIsLast
<1>4. AuthorIndex = 1
  BY <1>3 DEF AuthorIndex
<1>5. AuthorIndex' = 1
  <2>1. pc' # trampoline
    BY <1>2, Offsets
  <2>2. {k \in 1 .. pc' : pages'[flash_page' + 1][k] # Nop} = {}
    BY <1>2
  <2> QED  BY <2>1, <2>2, FS_EmptySet DEF AuthorIndex, trampoline
<1> QED  BY <1>1, <1>4, <1>5, ProgramStutters

\* PagedRunsAsWritten: a paged program runs as its author wrote it.  Whatever the window, the
\* number of pages, their lengths, branches and switches, every word the core fetches from
\* the image of PagedAsm is padding, the trampoline, or the next instruction of its page.
THEOREM PagedRunsAsWritten == Spec => RunsAsWritten
<1>1. Init => Program!Init
  <2> SUFFICES ASSUME Init PROVE Program!Init
    OBVIOUS
  <2>1. AuthorIndex = 1
    BY DEF Init, AuthorIndex
  <2> QED  BY <2>1 DEF Init, Program!Init
<1>2. RInv /\ RInv' /\ [Next]_vars => [Program!Next]_(Program!vars)
  <2> SUFFICES ASSUME RInv, RInv', [Next]_vars PROVE [Program!Next]_(Program!vars)
    OBVIOUS
  <2>1. CASE UNCHANGED vars
    <3>1. AuthorIndex' = AuthorIndex
      BY <2>1 DEF vars, AuthorIndex
    <3> QED  BY <2>1, <3>1, ProgramStutters DEF vars
  <2>2. CASE Next
    BY <2>2, BuildingIsWriting, BootingIsStarting, InstrIsNext, StoreTurns, JumpIsSilent DEF Next
  <2> QED  BY <2>1, <2>2
<1>3. Spec => []RInv
  BY RefinementInit, RefinementStep, PTL DEF Spec
<1> QED  BY <1>1, <1>2, <1>3, PTL DEF Spec, RunsAsWritten, Program!Spec
================================================================================
