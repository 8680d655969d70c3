------------------------------ MODULE PagedProgram ------------------------------
(***************************************************************************)
(* What the page builder promises to the author of a paged program: pages  *)
(* of any length, each run from its first instruction, and at the end of a *)
(* page a move to the page whose number the switch register holds.  There  *)
(* is no window, padding or trampoline.                                    *)
(***************************************************************************)
EXTENDS Naturals, Sequences

CONSTANT Instr   \* [op : {"work", "load", "branch"}, n : Nat]

VARIABLES program,   \* its pages, each a sequence of instructions
          running,
          page, index, reg

vars == <<program, running, page, index, reg>>

Init ==
  /\ program = << >> /\ running = FALSE
  /\ page = 0 /\ index = 1 /\ reg = 0

Pages == 0..Len(program) - 1

WritePage ==
  /\ ~running /\ program' \in Seq(Seq(Instr))
  /\ UNCHANGED <<running, page, index, reg>>

\* A register nobody has written holds any number.
Start ==
  /\ ~running /\ running'
  /\ page' = 0 /\ index' = 1 /\ reg' \in Pages
  /\ UNCHANGED program

Current == program[page + 1]

Work ==
  /\ Current[index].op = "work"
  /\ index' = index + 1 /\ UNCHANGED reg

LoadReg ==
  /\ Current[index].op = "load"
  /\ index' = index + 1 /\ reg' = Current[index].n

Branch ==
  /\ Current[index].op = "branch"
  /\ index' \in {index + 1, Current[index].n} /\ UNCHANGED reg

Execute ==
  /\ running /\ index <= Len(Current)
  /\ Work \/ LoadReg \/ Branch
  /\ UNCHANGED <<program, running, page>>

TurnPage ==
  /\ running /\ index > Len(Current)
  /\ page' = reg /\ index' = 1
  /\ UNCHANGED <<program, running, reg>>

Restart ==
  /\ running /\ page' = 0 /\ index' = 1
  /\ UNCHANGED <<program, running, reg>>

Next == WritePage \/ Start \/ Execute \/ TurnPage \/ Restart

Spec == Init /\ [][Next]_vars
================================================================================
