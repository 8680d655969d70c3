---------------------------- MODULE PeripheralsProofs ----------------------------
(***************************************************************************)
(* The timer and the PWM for every width of their counters.  Their         *)
(* properties relate a history to the registers; TimerInv and PwmInv say   *)
(* what is true of the history in the middle of a wrap or of a window.     *)
(***************************************************************************)
EXTENDS Peripherals, TLAPS

LEMMA Widths == CntVals \in Nat /\ CntVals >= 2 /\ DutyVals \in Nat /\ DutyVals >= 2
  BY PeripheralsAssumption

\* A counter one further, modulo its width.
LEMMA Successor ==
  ASSUME NEW n \in Nat, n >= 2, NEW x \in 0 .. n - 1
  PROVE  (x + 1) % n = IF x = n - 1 THEN 0 ELSE x + 1
<1>1. CASE x = n - 1
  <2>1. x + 1 = n * 1 + 0  BY <1>1
  <2> QED  BY <2>1, <1>1, SMT
<1>2. CASE x # n - 1  BY <1>2, SMT
<1> QED  BY <1>1, <1>2

--------------------------------------------------------------------------------
\* The history of the timer in the middle of a wrap: no more cycles unshown than begun.
TimerInv == T!TypeOK /\ T!TimeRecovered /\ unshown <= clocks

\* What one cycle does to the timer, with the modulus resolved.
LEMMA TimerCycle ==
  ASSUME T!TypeOK, NEW w \in T!Stores \cup {[reg |-> "none"]}, T!Clock(w)
  PROVE  /\ timer_enable' \in BOOLEAN /\ timer_overflow' \in BOOLEAN
         /\ timer_cnt' \in 0 .. CntVals - 1
         /\ \/ /\ T!IsClear(w) /\ timer_cnt' = 0 /\ timer_overflow' = timer_overflow
            \/ /\ T!IsFlag(w) /\ ~timer_overflow'
            \/ /\ ~T!IsClear(w) /\ ~T!IsFlag(w) /\ T!IsCtrl(w)
               /\ timer_cnt' = timer_cnt /\ timer_overflow' = timer_overflow
            \/ /\ ~T!IsCtrl(w) /\ ~T!IsFlag(w) /\ ~timer_enable
               /\ timer_cnt' = timer_cnt /\ timer_overflow' = timer_overflow
            \/ /\ ~T!IsCtrl(w) /\ ~T!IsFlag(w) /\ timer_enable /\ timer_cnt < CntVals - 1
               /\ timer_cnt' = timer_cnt + 1 /\ timer_overflow' = timer_overflow
            \/ /\ ~T!IsCtrl(w) /\ ~T!IsFlag(w) /\ timer_enable /\ timer_cnt = CntVals - 1
               /\ timer_cnt' = 0 /\ timer_overflow'
<1>1. timer_cnt \in 0 .. CntVals - 1 /\ timer_enable \in BOOLEAN /\ timer_overflow \in BOOLEAN
  BY DEF T!TypeOK
<1>2. (timer_cnt + 1) % CntVals = IF timer_cnt = CntVals - 1 THEN 0 ELSE timer_cnt + 1
  BY <1>1, Widths, Successor
<1>3. /\ T!IsCtrl(w) => w.enable \in BOOLEAN /\ ~T!IsFlag(w)
      /\ T!IsClear(w) => T!IsCtrl(w)
  BY DEF T!IsCtrl, T!IsClear, T!IsFlag, T!Stores
<1>4. timer_enable' \in BOOLEAN
  BY <1>1, <1>3 DEF T!Clock
<1>5. timer_cnt' = IF T!IsClear(w) THEN 0
                   ELSE IF ~T!IsCtrl(w) /\ timer_enable THEN (timer_cnt + 1) % CntVals
                   ELSE timer_cnt
  BY DEF T!Clock, T!NextCount, T!Counting
<1>6. timer_overflow' = (/\ ~T!IsFlag(w)
                         /\ \/ timer_overflow
                            \/ ~T!IsCtrl(w) /\ timer_enable /\ timer_cnt = CntVals - 1)
  BY Zenon DEF T!Clock, T!NextOverflow, T!Wraps, T!Counting
<1>7. timer_overflow' \in BOOLEAN
  BY <1>6, Zenon
<1>8. timer_cnt' \in 0 .. CntVals - 1
  BY <1>1, <1>2, <1>5, Widths
<1>9. CASE T!IsCtrl(w)
  <2>1. ~T!IsFlag(w)  BY <1>9, <1>3
  <2>2. timer_overflow' = timer_overflow  BY <1>1, <1>6, <1>9, <2>1, Zenon
  <2>3. CASE T!IsClear(w)
    BY <2>3, <2>2, <1>4, <1>5, <1>7, <1>8
  <2>4. CASE ~T!IsClear(w)
    BY <2>4, <2>2, <2>1, <1>9, <1>4, <1>5, <1>7, <1>8
  <2> QED  BY <2>3, <2>4
<1>10. CASE ~T!IsCtrl(w) /\ T!IsFlag(w)
  BY <1>10, <1>4, <1>6, <1>7, <1>8, Zenon
<1>11. CASE ~T!IsCtrl(w) /\ ~T!IsFlag(w)
  <2>1. CASE ~timer_enable
    BY <2>1, <1>1, <1>11, <1>3, <1>4, <1>5, <1>6, <1>7, <1>8, Zenon
  <2>2. CASE timer_enable /\ timer_cnt = CntVals - 1
    <3>1. timer_overflow'  BY <2>2, <1>11, <1>6, Zenon
    <3> QED  BY <3>1, <2>2, <1>11, <1>2, <1>3, <1>4, <1>5, <1>7, <1>8
  <2>3. CASE timer_enable /\ timer_cnt # CntVals - 1
    <3>1. timer_overflow' = timer_overflow  BY <2>3, <1>1, <1>11, <1>6, Zenon
    <3>2. timer_cnt < CntVals - 1  BY <2>3, <1>1, Widths
    <3> QED  BY <3>1, <3>2, <2>3, <1>11, <1>2, <1>3, <1>4, <1>5, <1>7, <1>8
  <2> QED  BY <2>1, <2>2, <2>3
<1> QED  BY <1>9, <1>10, <1>11

\* The pair of counter and flag counts up to twice the width.
LEMMA TwoTurns ==
  ASSUME NEW x \in 0 .. CntVals - 1
  PROVE  x + CntVals \in 0 .. 2 * CntVals - 1 /\ x + 0 \in 0 .. 2 * CntVals - 1
  BY Widths

\* What is left after a store of zero to the counter, and after one to the flag.
LEMMA ClearedCounter ==
  ASSUME T!TypeOK, NEW w \in T!Stores \cup {[reg |-> "none"]}, T!Clock(w), T!IsClear(w)
  PROVE  timer_cnt' = 0 /\ timer_overflow' = timer_overflow
<1>1. T!IsCtrl(w) /\ ~T!IsFlag(w)
  BY DEF T!IsClear, T!IsCtrl, T!IsFlag
<1>2. timer_cnt' = 0
  BY DEF T!Clock, T!NextCount
<1>3. timer_overflow \in BOOLEAN
  BY DEF T!TypeOK
<1>4. timer_overflow' = timer_overflow
  BY <1>1, <1>3, Zenon DEF T!Clock, T!NextOverflow, T!Wraps, T!Counting
<1> QED  BY <1>2, <1>4

LEMMA AcknowledgedFlag ==
  ASSUME T!TypeOK, NEW w \in T!Stores \cup {[reg |-> "none"]}, T!Clock(w), T!IsFlag(w)
  PROVE  /\ ~timer_overflow'
         /\ timer_cnt' = IF ~timer_enable THEN timer_cnt
                         ELSE IF timer_cnt = CntVals - 1 THEN 0 ELSE timer_cnt + 1
<1>1. timer_cnt \in 0 .. CntVals - 1
  BY DEF T!TypeOK
<1>2. ~T!IsCtrl(w) /\ ~T!IsClear(w)
  BY DEF T!IsClear, T!IsCtrl, T!IsFlag
<1>3. ~timer_overflow'
  BY Zenon DEF T!Clock, T!NextOverflow
<1>4. timer_cnt' = IF timer_enable THEN (timer_cnt + 1) % CntVals ELSE timer_cnt
  BY <1>2 DEF T!Clock, T!NextCount, T!Counting
<1> QED  BY <1>1, <1>3, <1>4, Widths, Successor

LEMMA TimerStep ==
  ASSUME TimerInv, NEW w \in T!Stores \cup {[reg |-> "none"]}, T!Clock(w)
  PROVE  TimerInv'
<1>1. /\ timer_cnt \in 0 .. CntVals - 1 /\ clocks \in 0 .. 2 * CntVals /\ unshown \in 0 .. 2 * CntVals
      /\ unshown <= clocks
      /\ clocks < 2 * CntVals => timer_cnt + (IF timer_overflow THEN CntVals ELSE 0) = clocks - unshown
  BY DEF TimerInv, T!TypeOK, T!TimeRecovered, T!Count, T!MaxClocks
<1>2. /\ timer_enable' \in BOOLEAN /\ timer_overflow' \in BOOLEAN
      /\ timer_cnt' \in 0 .. CntVals - 1
  BY TimerCycle DEF TimerInv
<1>5. timer_cnt' \in 0 .. CntVals - 1
  BY <1>2, Zenon
<1> DEFINE wrapped == IF timer_overflow THEN CntVals ELSE 0
           count   == timer_cnt + wrapped
<1>3. count' \in 0 .. 2 * CntVals - 1
  <2>1. CASE timer_overflow'
    <3>1. count' = timer_cnt' + CntVals  BY <2>1
    <3>2. timer_cnt' + CntVals \in 0 .. 2 * CntVals - 1  BY <1>5, TwoTurns
    <3> QED  BY <3>1, <3>2, Zenon
  <2>2. CASE ~timer_overflow'
    <3>1. count' = timer_cnt' + 0  BY <2>2
    <3>2. timer_cnt' + 0 \in 0 .. 2 * CntVals - 1  BY <1>5, TwoTurns
    <3> QED  BY <3>1, <3>2, Zenon
  <2> QED  BY <2>1, <2>2
<1>4. /\ clocks' \in 0 .. 2 * CntVals /\ unshown' \in 0 .. 2 * CntVals /\ unshown' <= clocks'
      /\ clocks' < 2 * CntVals => count' = clocks' - unshown'
  <2>1. CASE T!IsClear(w)
    <3>1. clocks' = wrapped /\ unshown' = 0
      BY <2>1 DEF T!Clock, T!History, T!Restarts
    <3>2. timer_cnt' = 0 /\ timer_overflow' = timer_overflow
      BY <2>1, ClearedCounter DEF TimerInv
    <3>3. wrapped' = wrapped
      BY <3>2
    <3> QED  BY <3>1, <3>2, <3>3, Widths
  <2>4. CASE ~T!IsClear(w) /\ T!IsFlag(w)
    <3>1. /\ clocks' = timer_cnt + (IF timer_enable THEN 1 ELSE 0)
          /\ unshown' = IF clocks' = CntVals THEN CntVals ELSE 0
      BY <2>4 DEF T!Clock, T!History, T!Acknowledges
    <3>2. /\ ~timer_overflow'
          /\ timer_cnt' = IF ~timer_enable THEN timer_cnt
                          ELSE IF timer_cnt = CntVals - 1 THEN 0 ELSE timer_cnt + 1
      BY <2>4, AcknowledgedFlag DEF TimerInv
    <3>3. count' = timer_cnt' + 0
      BY <3>2
    <3> QED  BY <3>1, <3>2, <3>3, <1>1, Widths
  <2>2. CASE ~(T!IsClear(w) \/ T!IsFlag(w)) /\ timer_enable /\ clocks < 2 * CntVals
    <3>1. clocks' = clocks + 1 /\ unshown' = unshown + (IF T!IsCtrl(w) THEN 1 ELSE 0)
      BY <2>2 DEF T!Clock, T!History, T!Counts, T!MaxClocks
    <3>2. CASE T!IsCtrl(w)
      <4>1. count' = count  BY <3>2, <2>2, TimerCycle DEF TimerInv
      <4> QED  BY <4>1, <3>1, <3>2, <2>2, <1>1, Widths
    <3>3. CASE ~T!IsCtrl(w) /\ timer_cnt < CntVals - 1
      <4>1. timer_cnt' = timer_cnt + 1 /\ timer_overflow' = timer_overflow
        BY <3>3, <2>2, <1>1, TimerCycle, Widths DEF TimerInv
      <4> QED  BY <4>1, <3>1, <3>3, <2>2, <1>1, Widths
    <3>4. CASE ~T!IsCtrl(w) /\ timer_cnt = CntVals - 1
      <4>1. timer_cnt' = 0 /\ timer_overflow'
        BY <3>4, <2>2, TimerCycle, Widths DEF TimerInv
      <4> QED  BY <4>1, <3>1, <3>4, <2>2, <1>1, Widths
    <3>5. timer_cnt < CntVals - 1 \/ timer_cnt = CntVals - 1  BY <1>1, Widths
    <3> QED  BY <3>2, <3>3, <3>4, <3>5
  <2>3. CASE ~(T!IsClear(w) \/ T!IsFlag(w)) /\ ~(timer_enable /\ clocks < 2 * CntVals)
    <3>1. clocks' = clocks /\ unshown' = unshown
      BY <2>3 DEF T!Clock, T!History, T!Counts, T!MaxClocks
    <3>2. clocks < 2 * CntVals => count' = count
      BY <2>3, TimerCycle DEF TimerInv
    <3> QED  BY <3>1, <3>2, <1>1
  <2> QED  BY <2>1, <2>2, <2>3, <2>4
<1> QED
  BY <1>2, <1>4 DEF TimerInv, T!TypeOK, T!TimeRecovered, T!Count, T!MaxClocks

\* A store for the other component leaves the timer one cycle older all the same.
LEMMA ToTimerStores == \A w : ToTimer(w) \in T!Stores \cup {[reg |-> "none"]}
  BY DEF ToTimer

LEMMA TimerNext == TimerInv /\ [Next]_vars => TimerInv'
<1> SUFFICES ASSUME TimerInv, [Next]_vars PROVE TimerInv'
  OBVIOUS
<1>1. ASSUME NEW w, Clock(w) PROVE TimerInv'
  BY <1>1, TimerStep, ToTimerStores DEF Clock
<1>2. CASE T!Reset
  <2>1. (IF timer_overflow' THEN CntVals ELSE 0) = 0
    BY <1>2, Zenon DEF T!Reset
  <2>2. T!Count' = 0
    BY <2>1, <1>2 DEF T!Reset, T!Count
  <2>3. timer_enable' \in BOOLEAN /\ timer_overflow' \in BOOLEAN
    BY <1>2, Zenon DEF T!Reset
  <2>4. timer_cnt' = 0 /\ clocks' = 0 /\ unshown' = 0
    BY <1>2 DEF T!Reset
  <2> QED
    BY <2>2, <2>3, <2>4, Widths DEF TimerInv, T!TypeOK, T!TimeRecovered, T!MaxClocks
<1>3. CASE UNCHANGED vars
  BY <1>3 DEF vars, T!vars, TimerInv, T!TypeOK, T!TimeRecovered, T!Count, T!MaxClocks
<1> QED  BY <1>1, <1>2, <1>3 DEF Next

LEMMA TimerInvariant == Spec => []TimerInv
<1>1. Init => TimerInv
  <2> SUFFICES ASSUME T!Init PROVE TimerInv
    BY DEF Init
  <2>1. (IF timer_overflow THEN CntVals ELSE 0) = 0
    BY Zenon DEF T!Init
  <2>2. T!Count = 0
    BY <2>1 DEF T!Init, T!Count
  <2>3. timer_enable \in BOOLEAN /\ timer_overflow \in BOOLEAN
    BY Zenon DEF T!Init
  <2>4. timer_cnt = 0 /\ clocks = 0 /\ unshown = 0
    BY DEF T!Init
  <2> QED
    BY <2>2, <2>3, <2>4, Widths DEF TimerInv, T!TypeOK, T!TimeRecovered, T!MaxClocks
<1> QED  BY <1>1, TimerNext, PTL DEF Spec

\* TimeIsRecovered: however wide the counter and whatever stores share its cycles, flag
\* and counter give the number of cycles counted, but for the cycles that store to
\* TIMER_CTRL and a wrap in the very cycle of a store to TIMER_FLAG (mem.v:388-401).
THEOREM TimeIsRecovered == Spec => []TimeRecovered
<1>1. TimerInv => TimeRecovered  BY DEF TimerInv, TimeRecovered
<1> QED  BY <1>1, TimerInvariant, PTL

--------------------------------------------------------------------------------
Smaller(a, b) == IF a <= b THEN a ELSE b

\* How many of the last n counts before c were below d, when a period is p long.
Below(p, c, n, d) ==
  IF n <= c THEN Smaller(c, d) - Smaller(c - n, d)
            ELSE Smaller(c, d) + d - Smaller(p - n + c, d)

\* In the middle of a window the pin was high as often as the counts that went by
\* were below the duty.
Half ==
  window > 0 /\ pin_mux = 1 =>
    high = IF pwm_enable = 0 THEN 0
           ELSE IF pwm_duty = DutyVals - 1 THEN window
           ELSE Below(DutyVals, pwm_counter, window, pwm_duty)

PwmInv == P!TypeOK /\ high <= window /\ Half

LEMMA BelowStarts ==
  ASSUME NEW p \in Nat, p >= 2, NEW c \in 0 .. p - 1, NEW d \in 0 .. p - 1
  PROVE  Below(p, IF c = p - 1 THEN 0 ELSE c + 1, 1, d) = IF c < d THEN 1 ELSE 0
  BY SMT DEF Below, Smaller

LEMMA BelowGrows ==
  ASSUME NEW p \in Nat, p >= 2, NEW c \in 0 .. p - 1, NEW d \in 0 .. p - 1,
         NEW n \in 1 .. p - 1
  PROVE  Below(p, IF c = p - 1 THEN 0 ELSE c + 1, n + 1, d)
           = Below(p, c, n, d) + IF c < d THEN 1 ELSE 0
<1>1. CASE c = p - 1  BY <1>1, SMT DEF Below, Smaller
<1>2. CASE c # p - 1  BY <1>2, SMT DEF Below, Smaller
<1> QED  BY <1>1, <1>2

LEMMA BelowWhole ==
  ASSUME NEW p \in Nat, p >= 2, NEW c \in 0 .. p - 1, NEW d \in 0 .. p - 1
  PROVE  Below(p, c, p, d) = d
  BY SMT DEF Below, Smaller

\* What one cycle does to a window, with the modulus resolved.
LEMMA PwmStep ==
  ASSUME PwmInv, NEW w \in P!Stores, P!Clock(w)
  PROVE  PwmInv'
<1> DEFINE next == IF pwm_counter = DutyVals - 1 THEN 0 ELSE pwm_counter + 1
<1>1. /\ pwm_counter \in 0 .. DutyVals - 1 /\ pwm_duty \in 0 .. DutyVals - 1
      /\ pwm_enable \in 0 .. 1 /\ pin_mux \in 0 .. 3
      /\ window \in 0 .. DutyVals /\ high \in 0 .. DutyVals /\ high <= window
  BY DEF PwmInv, P!TypeOK, P!Duty
<1>2. pwm_counter' = next /\ next \in 0 .. DutyVals - 1
  BY <1>1, Widths, Successor DEF P!Clock, P!NextCounter
<1>3. /\ pwm_duty' \in 0 .. DutyVals - 1 /\ pwm_enable' \in 0 .. 1 /\ pin_mux' \in 0 .. 3
      /\ led7' \in BOOLEAN /\ halted' \in BOOLEAN
  BY <1>1 DEF P!Clock, P!Assigned, P!Stores, P!Duty
<1> DEFINE w0  == IF window = DutyVals THEN 0 ELSE window
           h0  == IF window = DutyVals THEN 0 ELSE high
           now == IF P!uo7_mux THEN 1 ELSE 0
<1>4. CASE w.reg # "none"
  <2>1. window' = 0 /\ high' = 0
    BY <1>4 DEF P!Clock, P!History
  <2> QED
    BY <2>1, <1>2, <1>3, Widths DEF PwmInv, P!TypeOK, P!Duty, Half
<1>5. CASE w.reg = "none"
  <2>1. window' = w0 + 1 /\ high' = h0 + now
    BY <1>5 DEF P!Clock, P!History
  <2>2. UNCHANGED <<pwm_duty, pwm_enable, pin_mux>>
    BY <1>5 DEF P!Clock, P!Assigned
  <2>3. now \in 0 .. 1
    OBVIOUS
  <2>4. w0 \in 0 .. DutyVals - 1 /\ h0 \in 0 .. w0
    BY <1>1, Widths
  <2> HIDE DEF w0, h0, now
  <2>5. ASSUME pin_mux = 1
        PROVE  high' = IF pwm_enable = 0 THEN 0
                       ELSE IF pwm_duty = DutyVals - 1 THEN w0 + 1
                       ELSE Below(DutyVals, next, w0 + 1, pwm_duty)
    <3>1. P!uo7_mux <=> P!pwm_out
      BY <2>5 DEF P!uo7_mux
    <3>2. CASE pwm_enable = 0
      <4>1. now = 0  BY <3>1, <3>2 DEF P!pwm_out, now
      <4>2. h0 = 0   BY <3>2, <2>5, <1>1, Widths DEF PwmInv, Half, h0
      <4> QED  BY <4>1, <4>2, <2>1, <3>2
    <3>3. CASE pwm_enable = 1 /\ pwm_duty = DutyVals - 1
      <4>1. now = 1  BY <3>1, <3>3 DEF P!pwm_out, now
      <4>2. h0 = w0  BY <3>3, <2>5, <1>1, Widths DEF PwmInv, Half, h0, w0
      <4> QED  BY <4>1, <4>2, <2>1, <3>3, <2>4
    <3>4. CASE pwm_enable = 1 /\ pwm_duty # DutyVals - 1
      <4>1. now = IF pwm_counter < pwm_duty THEN 1 ELSE 0
        BY <3>1, <3>4 DEF P!pwm_out, now
      <4>2. CASE w0 = 0
        <5>1. h0 = 0  BY <4>2, <2>4
        <5> QED  BY <5>1, <4>1, <4>2, <2>1, <3>4, <1>1, Widths, BelowStarts
      <4>3. CASE w0 # 0
        <5>1. w0 \in 1 .. DutyVals - 1 /\ w0 = window /\ h0 = high
          BY <4>3, <2>4, <1>1, Widths DEF w0, h0
        <5>2. h0 = Below(DutyVals, pwm_counter, w0, pwm_duty)
          BY <5>1, <3>4, <2>5, <1>1, Widths DEF PwmInv, Half
        <5>3. Below(DutyVals, next, w0 + 1, pwm_duty) = h0 + now
          BY <5>1, <5>2, <4>1, <1>1, Widths, BelowGrows
        <5> QED  BY <5>3, <2>1, <3>4
      <4> QED  BY <4>2, <4>3
    <3> QED  BY <3>2, <3>3, <3>4, <1>1
  <2>6. Half'
    BY <2>1, <2>2, <2>5, <1>2 DEF Half
  <2>7. /\ window' \in 0 .. DutyVals /\ high' \in 0 .. DutyVals /\ high' <= window'
    BY <2>1, <2>3, <2>4, Widths
  <2> QED
    BY <2>6, <2>7, <1>2, <1>3 DEF PwmInv, P!TypeOK, P!Duty
<1> QED  BY <1>4, <1>5

LEMMA ToPwmStores == \A w : ToPwm(w) \in P!Stores
  BY DEF ToPwm, P!Stores

LEMMA PwmNext == PwmInv /\ [Next]_vars => PwmInv'
<1> SUFFICES ASSUME PwmInv, [Next]_vars PROVE PwmInv'
  OBVIOUS
<1>1. ASSUME NEW w, Clock(w) PROVE PwmInv'
  BY <1>1, PwmStep, ToPwmStores DEF Clock
<1>2. CASE P!Reset
  <2>1. led7' \in BOOLEAN /\ halted' \in BOOLEAN
    BY <1>2, Zenon DEF P!Reset
  <2>2. /\ pwm_counter' = 0 /\ pwm_duty' = 0 /\ pwm_enable' = 0 /\ pin_mux' = 0
        /\ window' = 0 /\ high' = 0
    BY <1>2 DEF P!Reset
  <2> QED  BY <2>1, <2>2, Widths DEF PwmInv, P!TypeOK, P!Duty, Half
<1>3. CASE UNCHANGED vars
  BY <1>3 DEF vars, P!vars, P!muxIn, PwmInv, P!TypeOK, P!Duty, Half
<1> QED  BY <1>1, <1>2, <1>3 DEF Next

LEMMA PwmInvariant == Spec => []PwmInv
<1>1. Init => PwmInv
  <2> SUFFICES ASSUME P!Init PROVE PwmInv
    BY DEF Init
  <2>1. led7 \in BOOLEAN /\ halted \in BOOLEAN
    BY Zenon DEF P!Init
  <2>2. /\ pwm_counter = 0 /\ pwm_duty = 0 /\ pwm_enable = 0 /\ pin_mux = 0
        /\ window = 0 /\ high = 0
    BY DEF P!Init
  <2> QED  BY <2>1, <2>2, Widths DEF PwmInv, P!TypeOK, P!Duty, Half
<1> QED  BY <1>1, PwmNext, PTL DEF Spec

\* TypeCorrect: neither component leaves the widths of its registers, nor the bounds of
\* its history.
THEOREM TypeCorrect == Spec => []TypeOK
<1>1. TimerInv /\ PwmInv => TypeOK  BY DEF TimerInv, PwmInv, TypeOK
<1> QED  BY <1>1, TimerInvariant, PwmInvariant, PTL

\* DutyKept: however wide the counter and wherever in its cycle a period without stores
\* begins, the pin is high for exactly PWM_DUTY cycles of it (mem.v:404-424).
THEOREM DutyKept == Spec => []DutyCycle
<1>1. PwmInv => DutyCycle
  <2> SUFFICES ASSUME PwmInv, window = DutyVals, pin_mux = 1
               PROVE  high = IF pwm_enable = 0 THEN 0
                             ELSE IF pwm_duty = DutyVals - 1 THEN DutyVals ELSE pwm_duty
    BY DEF DutyCycle, P!DutyCycle
  <2>1. pwm_counter \in 0 .. DutyVals - 1 /\ pwm_duty \in 0 .. DutyVals - 1
    BY DEF PwmInv, P!TypeOK, P!Duty
  <2>2. Below(DutyVals, pwm_counter, DutyVals, pwm_duty) = pwm_duty
    BY <2>1, Widths, BelowWhole
  <2> QED  BY <2>2, Widths DEF PwmInv, Half
<1> QED  BY <1>1, PwmInvariant, PTL

=============================================================================
