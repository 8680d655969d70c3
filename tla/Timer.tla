---------------------------------- MODULE Timer ----------------------------------
(***************************************************************************)
(* The free-running timer of mem.v: TIMER_LO/HI, TIMER_CTRL, TIMER_FLAG.   *)
(* One Clock is one rising edge of clk; the store the core has on the bus  *)
(* in that cycle, if any, is an input.                                     *)
(***************************************************************************)
EXTENDS Integers

CONSTANT CntVals   \* values of timer_cnt (2^16 in the code)

VARIABLES
  timer_cnt, timer_enable, timer_overflow,
  \* history, for the properties only
  clocks,   \* cycles begun with timer_enable set, since the counter was last zero when
            \* TIMER_FLAG or the counter was written
  unshown   \* how many of them the registers do not show

vars == <<timer_cnt, timer_enable, timer_overflow, clocks, unshown>>

\* What the store of a cycle does to the timer.
Stores == [reg : {"TIMER_CTRL"}, enable : BOOLEAN, clear : BOOLEAN]
            \cup [reg : {"TIMER_FLAG", "none"}]

IsCtrl(w)   == w.reg = "TIMER_CTRL"
IsClear(w)  == IsCtrl(w) /\ w.clear
IsFlag(w)   == w.reg = "TIMER_FLAG"
Counting(w) == ~IsCtrl(w) /\ timer_enable

\* Faulty variant: the flag follows a compare that is one count early.
Wraps_Early(w) == Counting(w) /\ timer_cnt = CntVals - 2

Wraps(w) == Counting(w) /\ timer_cnt = CntVals - 1

--------------------------------------------------------------------------------
\* Faulty variant: the counter is one bit too wide.
NextCount_Wide(w) ==
  IF IsClear(w) THEN 0
  ELSE IF Counting(w) THEN (timer_cnt + 1) % (2 * CntVals) ELSE timer_cnt

NextCount(w) ==
  IF IsClear(w) THEN 0
  ELSE IF Counting(w) THEN (timer_cnt + 1) % CntVals ELSE timer_cnt

\* The write to TIMER_FLAG comes last in the always block: it wins over a wrap.
NextOverflow(w) == ~IsFlag(w) /\ (timer_overflow \/ Wraps(w))

\* The count the pair (overflow, counter) stands for.
Count == timer_cnt + IF timer_overflow THEN CntVals ELSE 0

MaxClocks == 2 * CntVals   \* bound on the history

\* Zero is written to the counter: what is left is the flag.
Restarts == clocks' = (IF timer_overflow THEN CntVals ELSE 0) /\ unshown' = 0

\* The flag is cleared: what is left is the counter, one cycle later; the turn it
\* completes in this very cycle is not shown.
Acknowledges ==
  /\ clocks' = timer_cnt + (IF timer_enable THEN 1 ELSE 0)
  /\ unshown' = IF clocks' = CntVals THEN CntVals ELSE 0

\* A cycle that stores to TIMER_CTRL is not shown.
Counts(w) ==
  IF timer_enable /\ clocks < MaxClocks
    THEN clocks' = clocks + 1 /\ unshown' = unshown + IF IsCtrl(w) THEN 1 ELSE 0
    ELSE UNCHANGED <<clocks, unshown>>

History(w) ==
  IF IsClear(w) THEN Restarts ELSE IF IsFlag(w) THEN Acknowledges ELSE Counts(w)

Clock(w) ==
  /\ timer_enable' = IF IsCtrl(w) THEN w.enable ELSE timer_enable
  /\ timer_cnt' = NextCount(w)
  /\ timer_overflow' = NextOverflow(w)
  /\ History(w)

Reset ==
  /\ timer_cnt' = 0 /\ timer_enable' = FALSE /\ timer_overflow' = FALSE
  /\ clocks' = 0 /\ unshown' = 0

Init ==
  /\ timer_cnt = 0 /\ timer_enable = FALSE /\ timer_overflow = FALSE
  /\ clocks = 0 /\ unshown = 0

Next == (\E w \in Stores : Clock(w)) \/ Reset

Spec == Init /\ [][Next]_vars

--------------------------------------------------------------------------------
\* TypeOK: the registers have the widths of their declarations in mem.v.
TypeOK ==
  /\ timer_cnt \in 0 .. CntVals - 1
  /\ timer_enable \in BOOLEAN /\ timer_overflow \in BOOLEAN
  /\ clocks \in 0 .. MaxClocks /\ unshown \in 0 .. MaxClocks

\* TimeRecovered: a program that does not let two wraps go by can tell from
\* TIMER_FLAG and the counter exactly how many cycles were counted since the zero
\* it last wrote or acknowledged: no wrap is missed, none is invented, and the wrap
\* is flagged in the very cycle in which the counter shows zero.  Two things are not
\* shown: cycles that store to TIMER_CTRL, and a turn that ends in the very cycle
\* of a store to TIMER_FLAG, whose wrap that store takes with it (mem.v:399).
TimeRecovered == clocks < MaxClocks => Count = clocks - unshown

================================================================================
