----------------------------------- MODULE Pwm -----------------------------------
(***************************************************************************)
(* The PWM of mem.v and the uo_out[7] multiplexer of tt_um_agila32.v.  One *)
(* Clock is one rising edge of clk; the store on the bus in that cycle,    *)
(* LED_OUT[7] and the core's halted status are inputs.                     *)
(***************************************************************************)
EXTENDS Integers

CONSTANT DutyVals   \* values of pwm_counter and pwm_duty (2^8 in the code)

VARIABLES
  pwm_counter, pwm_duty, pwm_enable, pin_mux,
  led7, halted,   \* LED_OUT[7] and the status output of the core
  \* history, for the properties only: a window of cycles in which nothing was
  \* stored to the registers above, and how many of them had uo_out[7] high
  window, high

muxIn == <<led7, halted>>
vars  == <<pwm_counter, pwm_duty, pwm_enable, pin_mux, muxIn, window, high>>

Duty == 0 .. DutyVals - 1

Stores == [reg : {"PWM_DUTY"}, data : Duty] \cup [reg : {"PWM_CTRL"}, data : 0 .. 1]
            \cup [reg : {"PIN_MUX"}, data : 0 .. 3] \cup [reg : {"none"}, data : {0}]

\* Faulty variant: the comparison includes the duty itself.
pwm_out_Closed ==
  pwm_enable = 1 /\ (pwm_duty = DutyVals - 1 \/ pwm_counter <= pwm_duty)

pwm_out == pwm_enable = 1 /\ (pwm_duty = DutyVals - 1 \/ pwm_counter < pwm_duty)

uo7_mux ==
  IF pin_mux = 1 THEN pwm_out ELSE IF pin_mux = 2 THEN halted ELSE led7

Assigned(w, reg, old) == IF w.reg = reg THEN w.data ELSE old

\* Faulty variant: the counter does not wrap.
NextCounter_NoWrap == pwm_counter + 1

NextCounter == (pwm_counter + 1) % DutyVals

\* A window ends when a register is stored to, or when it is a period long.
History(w) ==
  IF w.reg # "none" THEN window' = 0 /\ high' = 0
  ELSE LET w0 == IF window = DutyVals THEN 0 ELSE window
           h0 == IF window = DutyVals THEN 0 ELSE high
       IN  window' = w0 + 1 /\ high' = h0 + IF uo7_mux THEN 1 ELSE 0

Clock(w) ==
  /\ pwm_counter' = NextCounter
  /\ pwm_duty'    = Assigned(w, "PWM_DUTY", pwm_duty)
  /\ pwm_enable'  = Assigned(w, "PWM_CTRL", pwm_enable)
  /\ pin_mux'     = Assigned(w, "PIN_MUX", pin_mux)
  /\ led7' \in BOOLEAN /\ halted' \in BOOLEAN
  /\ History(w)

Reset ==
  /\ pwm_counter' = 0 /\ pwm_duty' = 0 /\ pwm_enable' = 0 /\ pin_mux' = 0
  /\ led7' = FALSE /\ halted' = FALSE
  /\ window' = 0 /\ high' = 0

Init ==
  /\ pwm_counter = 0 /\ pwm_duty = 0 /\ pwm_enable = 0 /\ pin_mux = 0
  /\ led7 = FALSE /\ halted = FALSE
  /\ window = 0 /\ high = 0

Next == (\E w \in Stores : Clock(w)) \/ Reset

Spec == Init /\ [][Next]_vars

--------------------------------------------------------------------------------
\* TypeOK: the registers have the widths of their declarations in mem.v.
TypeOK ==
  /\ pwm_counter \in Duty /\ pwm_duty \in Duty
  /\ pwm_enable \in 0 .. 1 /\ pin_mux \in 0 .. 3
  /\ led7 \in BOOLEAN /\ halted \in BOOLEAN
  /\ window \in 0 .. DutyVals /\ high \in 0 .. DutyVals

\* DutyCycle: over any whole period in which nothing is stored to the PWM, and
\* wherever in the counter's cycle that period begins, a pin switched to the PWM
\* is high for exactly PWM_DUTY cycles, for all of them when PWM_DUTY is the
\* special value, and for none when the PWM is disabled.
DutyCycle ==
  window = DutyVals /\ pin_mux = 1 =>
    high = IF pwm_enable = 0 THEN 0
           ELSE IF pwm_duty = DutyVals - 1 THEN DutyVals ELSE pwm_duty

================================================================================
