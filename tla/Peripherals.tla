------------------------------- MODULE Peripherals -------------------------------
(***************************************************************************)
(* The timer and the PWM of mem.v on the one bus they share: a cycle has   *)
(* at most one store, which reaches at most one register, and one rst_n.   *)
(***************************************************************************)
EXTENDS Integers

CONSTANTS CntVals, DutyVals   \* see Timer and Pwm

ASSUME PeripheralsAssumption ==
  CntVals \in Nat /\ CntVals >= 2 /\ DutyVals \in Nat /\ DutyVals >= 2

VARIABLES
  timer_cnt, timer_enable, timer_overflow, clocks, unshown,
  pwm_counter, pwm_duty, pwm_enable, pin_mux, led7, halted, window, high

T == INSTANCE Timer
P == INSTANCE Pwm

vars == <<T!vars, P!vars>>

\* What a store is to a component: itself, or nothing to do with it.
ToTimer(w) == IF w \in T!Stores THEN w ELSE [reg |-> "none"]
ToPwm(w)   == IF w \in P!Stores THEN w ELSE [reg |-> "none", data |-> 0]

Clock(w) == T!Clock(ToTimer(w)) /\ P!Clock(ToPwm(w))

Init == T!Init /\ P!Init

Next == (\E w \in T!Stores \cup P!Stores : Clock(w)) \/ (T!Reset /\ P!Reset)

Spec == Init /\ [][Next]_vars

--------------------------------------------------------------------------------
\* TypeOK: the registers of both have the widths of their declarations in mem.v.
TypeOK == T!TypeOK /\ P!TypeOK

\* TimeRecovered: no wrap of the counter is missed or invented, whatever stores
\* share the bus with it, but for the one that a store to TIMER_FLAG meets: see Timer.
TimeRecovered == T!TimeRecovered

\* DutyCycle: over a whole period without a store to the PWM the pin is high for
\* PWM_DUTY cycles: see Pwm.
DutyCycle == P!DutyCycle

================================================================================
