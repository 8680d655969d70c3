------------------------------- MODULE PagedFlash -------------------------------
(***************************************************************************)
(* A program larger than the load window: PagedAsm cuts it into pages of   *)
(* one window each, and FLASH_PAGE selects the page the window shows.  A   *)
(* write to FLASH_PAGE redirects the very next fetch, so each page ends in *)
(* the store at a fixed offset and a jump every page has at the same word. *)
(* First the image is built, call by call; then the core runs it.          *)
(* Words stand for instructions, and word offsets in the window for PCs.   *)
(***************************************************************************)
EXTENDS Integers, Sequences, FiniteSets

CONSTANTS
  WINDOW_WORDS,   \* words of the load window; 11 in the code
  PageVals,       \* values FLASH_PAGE holds; 256 in the code
  MaxPages        \* bound: pages of a program

\* A page needs room for the load, the store and the jump; page numbers fit FLASH_PAGE.
ASSUME WindowAssumption == WINDOW_WORDS \in Nat /\ WINDOW_WORDS > 3
ASSUME PagesAssumption  == PageVals \in Nat /\ MaxPages \in 1..PageVals

VARIABLES
  mode,         \* "build", "last", "boot", "run", "refused"
  pages,        \* finished pages, each a sequence of words
  cur,          \* words of the page being built
  written,      \* history: the finished pages as their author wrote them
  body,         \* history: the author's instructions on this page
  flash_page, pc, x30

vars == <<mode, pages, cur, written, body, flash_page, pc, x30>>

buildVars == <<pages, cur, written, body>>

--------------------------------------------------------------------------------
(* The words of a page. *)
Word(op, n) == [op |-> op, n |-> n]

Nop        == Word("nop", 0)
switch_at  == WINDOW_WORDS - 2
trampoline == WINDOW_WORDS - 1
Store      == Word("store", 0)          \* SW x30, FLASH_PAGE
Jump       == Word("jump", 0 - trampoline)

FirstWords_AllLive(page) == << >>
\* Page 0 alone starts with a word the hand-off never fetches.
FirstWords(page) == IF page = 0 THEN <<Nop>> ELSE << >>

PadTo(words, n) == words \o [k \in 1..(n - Len(words)) |-> Nop]

Reserve_Unpadded(words) == PadTo(Append(words, Store), trampoline) \o <<Jump>>
Reserve_LateStore(words) == PadTo(words, trampoline) \o <<Store>>

\* The switch and the trampoline at their fixed offsets.
Reserve(words) == PadTo(words, switch_at) \o <<Store, Jump>>

\* A label's address is the number of words before it when it was defined.
AddressOf(label, page) == Len(FirstWords(page)) + label - 1

\* finalize() turns the label of a branch into an offset from the branch.
Resolve(words, page) ==
  [k \in DOMAIN words |->
     IF words[k].op = "branch"
       THEN Word("branch", AddressOf(words[k].n, page) - (k - 1))
       ELSE words[k]]

--------------------------------------------------------------------------------
(* Building. *)
Init ==
  /\ mode = "build" /\ pages = << >> /\ cur = FirstWords(0)
  /\ written = << >> /\ body = << >>
  /\ flash_page = 0 /\ pc = 0 /\ x30 = 0

\* An author's instruction: straight-line work, a page number put in x30, or a
\* branch to the label before the label-th instruction of its page.
Labels == 1..(WINDOW_WORDS - 1)
Instr  == {Word("work", 0)}
            \cup {Word("load", n) : n \in 0..MaxPages - 1}
            \cup {Word("branch", label) : label \in Labels}

Emit ==
  /\ mode = "build" /\ Len(cur) < switch_at
  /\ \E i \in Instr : cur' = Append(cur, i) /\ body' = Append(body, i)
  /\ UNCHANGED <<mode, pages, written, flash_page, pc, x30>>

\* Every branch of a page is to a label of that page.
LabelsDefined(instrs) ==
  \A k \in DOMAIN instrs : instrs[k].op = "branch" => instrs[k].n <= Len(body) + 1

FinishCurrentPage(words, instrs) ==
  /\ LabelsDefined(instrs)
  /\ pages'   = Append(pages, Resolve(Reserve(words), Len(pages)))
  /\ written' = Append(written, instrs)
  /\ cur'     = FirstWords(Len(pages) + 1)
  /\ body'    = << >>
  /\ UNCHANGED <<flash_page, pc, x30>>

\* switch_to(n): the load of n is the last word before the store.
LeaveFor(n) ==
  LET load == Word("load", n)
  IN  /\ Len(cur) <= switch_at - 1
      /\ FinishCurrentPage(Append(PadTo(cur, switch_at - 1), load), Append(body, load))

SwitchTo ==
  /\ mode = "build" /\ Len(pages) < MaxPages - 1
  /\ \E n \in 0..MaxPages - 1 : LeaveFor(n)
  /\ UNCHANGED mode

SwitchToComputed ==
  /\ mode = "build" /\ Len(pages) < MaxPages - 1
  /\ FinishCurrentPage(cur, body)
  /\ UNCHANGED mode

FinalizeLastPage ==
  /\ mode = "build" /\ LeaveFor(Len(pages))
  /\ mode' = "last"

\* The assertion of _pad_to: no room for the load of switch_to.
PadToAssertion ==
  /\ mode = "build" /\ Len(cur) > switch_at - 1
  /\ mode' = "refused"
  /\ UNCHANGED <<buildVars, flash_page, pc, x30>>

\* A program names only pages it has.  No reset writes x30: on the first start
\* it holds anything; the program is assumed to use only page numbers.
Finalize ==
  /\ mode = "last" /\ mode' = "boot"
  /\ \A p \in DOMAIN pages : \A k \in 1..WINDOW_WORDS :
       pages[p][k].op = "load" => pages[p][k].n < Len(pages)
  /\ x30' \in 0..Len(pages) - 1
  /\ UNCHANGED <<buildVars, flash_page, pc>>

--------------------------------------------------------------------------------
(* Running. *)
\* The stub's store to FLASH_MODE is at the start of the window: PC+4 is next.
HandOff ==
  /\ mode = "boot" /\ mode' = "run" /\ pc' = 1
  /\ UNCHANGED <<buildVars, flash_page, x30>>

\* The boot ROM's own jump, when no host appears.
BootTimeout ==
  /\ mode = "boot" /\ mode' = "run" /\ pc' = 0
  /\ UNCHANGED <<buildVars, flash_page, x30>>

Fetched == pages[flash_page + 1][pc + 1]

Executes(op) ==
  /\ mode = "run" /\ Fetched.op = op
  /\ UNCHANGED <<mode, buildVars>>

ExecWork ==
  /\ Executes("work") \/ Executes("nop")
  /\ pc' = pc + 1 /\ UNCHANGED <<flash_page, x30>>

ExecLoad ==
  /\ Executes("load")
  /\ x30' = Fetched.n /\ pc' = pc + 1 /\ UNCHANGED flash_page

ExecBranch ==
  /\ Executes("branch")
  /\ pc' \in {pc + 1, pc + Fetched.n} /\ UNCHANGED <<flash_page, x30>>

ExecStore ==
  /\ Executes("store")
  /\ flash_page' = x30 % PageVals /\ pc' = pc + 1 /\ UNCHANGED x30

ExecJump ==
  /\ Executes("jump")
  /\ pc' = pc + Fetched.n /\ UNCHANGED <<flash_page, x30>>

\* Reset clears no register of the core, and the boot ROM that runs again leaves x30.
Reset ==
  /\ mode = "run" /\ mode' = "boot"
  /\ flash_page' = 0 /\ pc' = 0
  /\ UNCHANGED <<buildVars, x30>>

Next ==
  \/ Emit \/ SwitchTo \/ SwitchToComputed \/ FinalizeLastPage \/ PadToAssertion \/ Finalize
  \/ HandOff \/ BootTimeout
  \/ ExecWork \/ ExecLoad \/ ExecBranch \/ ExecStore \/ ExecJump
  \/ Reset

Spec == Init /\ [][Next]_vars

--------------------------------------------------------------------------------
(* Properties. *)

\* TypeOK: a finished page fills the window exactly, and the program never
\* leaves the pages it has or the words of the window.
TypeOK ==
  /\ mode \in {"build", "last", "boot", "run", "refused"}
  /\ Len(pages) <= MaxPages /\ Len(written) = Len(pages)
  /\ \A p \in DOMAIN pages : Len(pages[p]) = WINDOW_WORDS
  /\ Len(cur) <= switch_at
  /\ pc \in 0..trampoline
  /\ mode = "run" => {flash_page, x30} \subseteq 0..Len(pages) - 1

\* SwitchMeetsTrampoline: whatever page the next fetch comes from after a write to
\* FLASH_PAGE, it is the jump to the window's start ("the trampoline is
\* byte-identical in every single page", asm_pineapple.py:226).
SwitchMeetsTrampoline ==
  [][flash_page' # flash_page /\ mode' = "run"
       => \A p \in DOMAIN pages : pages[p][pc' + 1] = Jump]_vars

\* RunsAsWritten: the core runs the program its author wrote, whatever the pages'
\* lengths, branches and switches.  The author's position is the number of words
\* before the PC that are not padding; at the trampoline the page has turned.
AuthorIndex ==
  IF mode # "run" \/ pc = trampoline THEN 1
  ELSE 1 + Cardinality({k \in 1..pc : pages[flash_page + 1][k] # Nop})

Program == INSTANCE PagedProgram WITH
  program <- written,
  running <- mode \in {"boot", "run"},
  page    <- flash_page,
  index   <- AuthorIndex,
  reg     <- x30

RunsAsWritten == Program!Spec
================================================================================
