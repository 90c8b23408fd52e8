------------------------------ MODULE PwmTimers -------------------------------
(***************************************************************************)
(* Pulse trains.  In the kernel a high-resolution timer sets the pin and   *)
(* arms itself for the on or the off phase, reading the duty each time,    *)
(* while an ordinary timer steps the duty: the first interrupts the second *)
(* anywhere, also between the step and its wrap.  In user space a loop     *)
(* counts turns and writes the pin through a driver.                       *)
(*                                                                         *)
(* Source: driver/High_Resolution_Timer_LED/High_Resolution_Timer_pwm.c,   *)
(* driver/High_Resolution_Timer_servo/High_Resolution_Timer_servo.c and    *)
(* driver/High_Resolution_Timer_servo_LED (both); app/led_PWM_2 and 3 with *)
(* driver/driver_led_pwm_2 and 3.                                          *)
(***************************************************************************)
EXTENDS Integers

CONSTANTS
    Trains,       \* rows: first duty, the duty that wraps, length of a period
    MaxSteps,     \* most steps of the duty within one on phase
    Turns, DutyWrap      \* the loop's: 100 turns a period, duty 99 becomes 1

LED_train == [first |-> 1, wrap |-> 99, total |-> 99]
servo_train == [first |-> 44, wrap |-> 144, total |-> 1250]

ASSUME PwmAssumption ==
    /\ Trains \subseteq [first : Nat \ {0}, wrap : Nat, total : Nat]
    /\ \A t \in Trains : t.first < t.wrap /\ t.wrap <= t.total
    /\ MaxSteps \in Nat
    /\ Turns \in Nat /\ DutyWrap \in Nat /\ 1 < DutyWrap /\ DutyWrap <= Turns

VARIABLES
    train, flag, duty,     \* the driver; LED_flag or servo_flag, and its duty
    stepping,              \* the timer function is between step and wrap
    on_time, period,       \* what the phases of the last period were armed for
    steps, gain,           \* history: steps and wraps within its on phase
    turn, turn_duty, soft_duty, soft_pin,   \* the loop: count, count_duty, duty
    high                   \* history: turns of the period with the pin high
hrVars == <<train, flag, duty, stepping, on_time, period, steps, gain>>
softVars == <<turn, turn_duty, soft_duty, soft_pin, high>>
pwmVars == <<hrVars, softVars>>

-------------------------------------------------------------------------------
(* led_timer_callback and timer_callback.                                  *)

PhaseOn ==
    /\ flag = 1
    /\ flag' = 0
    /\ on_time' = duty
    /\ steps' = 0 /\ gain' = 0
    /\ UNCHANGED <<train, duty, stepping, period>>

PhaseOff ==
    /\ flag = 0
    /\ flag' = 1
    /\ period' = on_time + (train.total - duty)
    /\ UNCHANGED <<train, duty, stepping, on_time, steps, gain>>

(* kernel_timer_led_func and servo_kernel_timer_func: the step, ...        *)
DutySteps ==
    /\ ~stepping /\ (flag = 0 => steps < MaxSteps)
    /\ duty' = duty + 1
    /\ stepping' = TRUE
    /\ steps' = IF flag = 0 THEN steps + 1 ELSE steps
    /\ UNCHANGED <<train, flag, on_time, period, gain>>

(* Mutant: the wrap comes one step late.                                   *)
DutyWrapsLate ==
    /\ stepping
    /\ IF duty = train.wrap + 1
       THEN /\ duty' = train.first
            /\ gain' = IF flag = 0 THEN gain + (duty - train.first) ELSE gain
       ELSE UNCHANGED <<duty, gain>>
    /\ stepping' = FALSE
    /\ UNCHANGED <<train, flag, on_time, period, steps>>

(* ... and the wrap.                                                       *)
DutyWraps ==
    /\ stepping
    /\ IF duty = train.wrap
       THEN /\ duty' = train.first
            /\ gain' = IF flag = 0 THEN gain + (duty - train.first) ELSE gain
       ELSE UNCHANGED <<duty, gain>>
    /\ stepping' = FALSE
    /\ UNCHANGED <<train, flag, on_time, period, steps>>

Timers == PhaseOn \/ PhaseOff \/ DutySteps \/ DutyWraps

-------------------------------------------------------------------------------
(* The loop of led_pwm_2 and led_pwm_3, one turn of it.  The write before  *)
(* the duty is compared is overwritten when both happen in a turn.         *)

(* Mutant: the duty is stepped a turn early.                               *)
StepsTurnEarly ==
    LET restart == turn = Turns
        step == turn_duty = Turns - 1
        c == IF restart THEN 0 ELSE turn
        d == IF ~step THEN soft_duty
             ELSE IF soft_duty + 1 = DutyWrap THEN 1 ELSE soft_duty + 1
        pin == IF ~step /\ c = soft_duty THEN 0 ELSE IF restart THEN 1 ELSE soft_pin
    IN  /\ turn' = c + 1
        /\ turn_duty' = (IF step THEN 0 ELSE turn_duty) + 1
        /\ soft_duty' = d /\ soft_pin' = pin
        /\ high' = (IF restart THEN 0 ELSE high) + pin

LoopTurns ==
    LET restart == turn = Turns
        step == turn_duty = Turns
        c == IF restart THEN 0 ELSE turn
        d == IF ~step THEN soft_duty
             ELSE IF soft_duty + 1 = DutyWrap THEN 1 ELSE soft_duty + 1
        pin == IF ~step /\ c = soft_duty THEN 0 ELSE IF restart THEN 1 ELSE soft_pin
    IN  /\ turn' = c + 1
        /\ turn_duty' = (IF step THEN 0 ELSE turn_duty) + 1
        /\ soft_duty' = d /\ soft_pin' = pin
        /\ high' = (IF restart THEN 0 ELSE high) + pin

-------------------------------------------------------------------------------
PwmInit ==
    /\ train \in Trains /\ flag = 1 /\ duty = train.first /\ stepping = FALSE
    /\ on_time = duty /\ period = train.total /\ steps = 0 /\ gain = 0
    /\ turn = 0 /\ turn_duty = 0 /\ soft_duty = 0 /\ soft_pin \in {0, 1} /\ high = 0

TimersNext == Timers /\ UNCHANGED softVars
LoopNext == LoopTurns /\ UNCHANGED hrVars
PwmNext == TimersNext \/ LoopNext
PwmSpec == PwmInit /\ [][PwmNext]_pwmVars

-------------------------------------------------------------------------------
(* Wherever the two timers interrupt each other, both phases are armed for *)
(* a time that is none of them negative, and a period differs from its     *)
(* length by exactly the steps of the duty in its on phase, and the wrap   *)
(* if it was among them.                                                   *)
PeriodAddsUp ==
    /\ on_time >= train.first /\ duty <= train.total
    /\ flag = 1 => period = train.total - steps + gain

(* Each period of the loop has the pin high for as many turns as its duty  *)
(* says, from the first one on.                                            *)
PulseIsDuty == turn = Turns => high = soft_duty
===============================================================================
