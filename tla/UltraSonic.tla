------------------------------ MODULE UltraSonic ------------------------------
(***************************************************************************)
(* The ultrasonic rangers: a timer triggers the sensor, the sensor holds   *)
(* the echo pin high for as long as the echo took, and an edge interrupt   *)
(* stamps the pulse.  The handler busy-waits on the UART, and the hardware *)
(* latches one edge while it runs.                                         *)
(*                                                                         *)
(* Source: driver/UltraSonic_Interrupt/gpio_interrupt.c, and the variants  *)
(* Threaded_IRQ_, Tasklet_ and WorkQueue_Interrupt_UltraSonic_Interrupt:   *)
(* they differ in the edges they ask for and in who prints the distance.   *)
(* The handler they started from, driver/button_on_off/GPIO_interrupt_4,   *)
(* times a button the same way: there a user makes the pulse.              *)
(* External: sensor, user, the latch and the time until the handler is run.*)
(* Time is in ticks; a stamp is kept as its age.  A stamp of 0, never      *)
(* written, is as old as the machine is up.  A tick is the unit of the     *)
(* distances too: 1 ms is 17 cm.                                           *)
(***************************************************************************)
EXTENDS Integers

CONSTANTS
    Drivers,      \* rows: the edges a driver asks for, who prints the result,
                  \* the handler ("inline"), its "thread" or "none", and
                  \* what makes the pulse it times, "trigger" or "button"
    Latency,      \* most ticks from a latched edge to the handler's first line
    BusyRise, BusyFall, BusyPrint,   \* ticks the handler spends in each message
    Period,       \* ticks from one trigger to the next, at least
    Widths,       \* lengths of echo the sensor may give
    Fits,         \* times from here on do not fit the int they are printed by
    Forever       \* ages at and above this one are not told apart

ASSUME UltraAssumption ==
    /\ Drivers \subseteq [edges : SUBSET {"rising", "falling"},
                       bottom : {"inline", "thread", "none"},
                       pulse : {"trigger", "button"}]
    /\ Latency \in Nat /\ BusyRise \in Nat /\ BusyFall \in Nat /\ BusyPrint \in Nat
    /\ Period \in Nat /\ BusyRise <= Period
    /\ Widths \subseteq Nat \ {0}
    /\ Fits \in Nat /\ BusyRise + Latency < Fits /\ Period <= Fits
    /\ \A w \in Widths : w + Latency < Fits
    /\ Forever \in Nat /\ Fits + BusyFall <= Forever

(* A handler is done, message and all, before the next trigger, which is  *)
(* due 10 jiffies after the last.                                         *)
ASSUME GapAssumption ==
    Latency < Period /\ BusyRise + Latency <= Period /\ BusyFall + Latency <= Period

(* The drivers.  The tasklet is scheduled by a handler that is never       *)
(* registered, the work is never queued: nobody prints for those two.      *)
UltraSonic_Interrupt ==
    [edges |-> {"rising", "falling"}, bottom |-> "inline", pulse |-> "trigger"]
Threaded_IRQ == [edges |-> {"rising"}, bottom |-> "thread", pulse |-> "trigger"]
Tasklet == [edges |-> {"rising", "falling"}, bottom |-> "none", pulse |-> "trigger"]
WorkQueue == [edges |-> {"falling"}, bottom |-> "none", pulse |-> "trigger"]
button_on_off == [edges |-> {"rising", "falling"}, bottom |-> "inline", pulse |-> "button"]

VARIABLES
    driver,               \* the one that is loaded
    pin, high,            \* the echo pin; ticks it will still be high
    timer,                \* ticks until the trigger is due
    latched, wait,        \* an edge waits for the handler; for how long
    irq, busy,            \* what the handler is doing; ticks it will take
    start_time, end_time, \* ages of the stamps
    diff_time,            \* the last measurement
    woken, printed,       \* the threaded half; the distance last printed
    garbled,              \* history: the time last printed did not fit
    width, whole          \* history: the last echo, and whether its first edge
                          \* found the handler idle and its last one came later
                          \* than the handler may
pinVars == <<pin, high, width, whole>>
stamps == <<start_time, end_time>>
print == <<printed, garbled>>
vars == <<driver, pinVars, timer, latched, wait, irq, busy, stamps, diff_time, woken, print>>

Ages == 0 .. Forever
Older(age) == IF age < Forever THEN age + 1 ELSE Forever
Less(n) == IF n > 0 THEN n - 1 ELSE 0

(* (int)diff_time_us * 17 / 1000, or the milliseconds of the button as     *)
(* unsigned: past 126 seconds the product wraps to any int, past 49 days   *)
(* the milliseconds to any unsigned.                                       *)
Wrapped == IF driver.pulse = "button" THEN 0 .. Forever ELSE -Forever .. Forever
Prints(d) ==
    /\ printed' \in IF d < Fits THEN {d} ELSE Wrapped
    /\ garbled' = (d >= Fits)

(* Edge e of the pin: latched if the driver asked for it.                  *)
Latch(e) == latched' = (latched \/ e \in driver.edges)

(* Loading may fall in the middle of an echo of an earlier load's trigger, *)
(* and comes when the machine is up, for the length of a period at least.  *)
Init ==
    /\ driver \in Drivers
    /\ pin \in {0, 1} /\ high \in {0} \cup Widths /\ (pin = 0 <=> high = 0)
    /\ timer = Period
    /\ latched = FALSE /\ wait = 0 /\ irq = "idle" /\ busy = 0
    /\ start_time \in Period .. Forever /\ end_time = start_time /\ diff_time = 0
    /\ woken = FALSE /\ printed = 0 /\ garbled = FALSE
    /\ width = high /\ whole = FALSE

PulseBegins ==
    /\ pin = 0 /\ pin' = 1
    /\ \E w \in Widths : high' = w /\ width' = w /\ whole' = (w > Latency
                             /\ irq = "idle" /\ ~latched)
    /\ Latch("rising")

(* kernel_timer_func: pulses the trigger pin and arms itself again.  The   *)
(* sensor ignores a trigger during an echo.                                *)
kernel_timer_func ==
    /\ driver.pulse = "trigger"
    /\ timer = 0
    /\ timer' = Period
    /\ PulseBegins \/ (pin = 1 /\ UNCHANGED <<pinVars, latched>>)
    /\ UNCHANGED <<driver, wait, irq, busy, stamps, diff_time, woken, print>>

ButtonPressed ==
    /\ driver.pulse = "button"
    /\ PulseBegins
    /\ UNCHANGED <<driver, timer, wait, irq, busy, stamps, diff_time, woken, print>>

EchoEnds ==
    /\ pin = 1 /\ high = 0
    /\ pin' = 0
    /\ Latch("falling")
    /\ UNCHANGED <<driver, high, width, whole, timer, wait, irq, busy, stamps, diff_time,
                   woken, print>>

(* gpio_irq_handler up to its first message: it tests the pin as it is now *)
(* and takes the stamp of the branch.                                      *)
HandlerStamps ==
    /\ latched /\ irq = "idle"
    /\ latched' = FALSE /\ wait' = 0
    /\ \/ /\ pin = 1
          /\ start_time' = 0
          /\ irq' = "rise" /\ busy' = BusyRise
          /\ UNCHANGED end_time
       \/ /\ pin = 0
          /\ end_time' = 0
          /\ irq' = "fall" /\ busy' = BusyFall
          /\ UNCHANGED start_time
    /\ UNCHANGED <<driver, pinVars, timer, diff_time, woken, print>>

(* The message of the rising branch is out.                                *)
Finish == irq' = "idle" /\ busy' = 0 /\ woken' = (woken \/ driver.bottom = "thread")

(* Mutant: the rising edge is stamped after its message.                   *)
RiseStampsLate ==
    /\ irq = "rise" /\ busy = 0
    /\ Finish
    /\ start_time' = 0
    /\ UNCHANGED <<driver, pinVars, timer, latched, wait, end_time, diff_time, print>>

RiseDone ==
    /\ irq = "rise" /\ busy = 0
    /\ Finish
    /\ UNCHANGED <<driver, pinVars, timer, latched, wait, stamps, diff_time, print>>

(* Mutant: the end is stamped after the message.                           *)
FallStampsLate ==
    /\ irq = "fall" /\ busy = 0
    /\ diff_time' = start_time
    /\ IF driver.bottom = "inline"
       THEN irq' = "print" /\ busy' = BusyPrint /\ Prints(diff_time') /\ UNCHANGED woken
       ELSE Finish /\ UNCHANGED print
    /\ UNCHANGED <<driver, pinVars, timer, latched, wait, stamps>>

(* The message of the falling branch is out: the difference, and the       *)
(* distance where the handler prints it.                                   *)
FallDone ==
    /\ irq = "fall" /\ busy = 0
    /\ diff_time' = start_time - end_time
    /\ IF driver.bottom = "inline"
       THEN irq' = "print" /\ busy' = BusyPrint /\ Prints(diff_time') /\ UNCHANGED woken
       ELSE Finish /\ UNCHANGED print
    /\ UNCHANGED <<driver, pinVars, timer, latched, wait, stamps>>

PrintDone ==
    /\ irq = "print" /\ busy = 0
    /\ Finish
    /\ UNCHANGED <<driver, pinVars, timer, latched, wait, stamps, diff_time, print>>

(* gpio_interrupt_thread_fn, whenever it gets to run.                      *)
gpio_interrupt_thread_fn ==
    /\ woken
    /\ woken' = FALSE
    /\ Prints(diff_time)
    /\ UNCHANGED <<driver, pinVars, timer, latched, wait, irq, busy, stamps, diff_time>>

(* A tick.  It does not pass over the end of an echo, the end of a message *)
(* or an edge that has waited as long as it may.                           *)
Tick ==
    /\ ~(pin = 1 /\ high = 0)
    /\ ~(irq # "idle" /\ busy = 0)
    /\ ~(latched /\ irq = "idle" /\ wait = Latency)
    /\ high' = Less(high) /\ busy' = Less(busy)
    /\ timer' = IF driver.pulse = "trigger" THEN Less(timer) ELSE timer
    /\ wait' = IF latched /\ irq = "idle" THEN wait + 1 ELSE 0
    /\ start_time' = Older(start_time) /\ end_time' = Older(end_time)
    /\ UNCHANGED <<driver, pin, width, whole, latched, irq, diff_time, woken, print>>

Handler == HandlerStamps \/ RiseDone \/ FallDone \/ PrintDone
Next == \/ kernel_timer_func \/ ButtonPressed \/ EchoEnds
        \/ Handler \/ gpio_interrupt_thread_fn \/ Tick
Spec == Init /\ [][Next]_vars

-------------------------------------------------------------------------------
TypeOK ==
    /\ driver \in Drivers
    /\ pin \in {0, 1} /\ high \in Nat /\ (pin = 0 => high = 0)
    /\ timer \in 0 .. Period
    /\ latched \in BOOLEAN /\ wait \in 0 .. Latency
    /\ irq \in {"idle", "rise", "fall", "print"} /\ busy \in Nat
    /\ (irq = "idle" => busy = 0)
    /\ start_time \in Ages /\ end_time \in Ages
    /\ diff_time \in Ages                          \* no end before its start
    /\ printed \in -Forever .. Forever /\ garbled \in BOOLEAN
    /\ woken \in BOOLEAN
    /\ width \in {0} \cup Widths /\ whole \in BOOLEAN

(* Everything the last echo set off has been done.                         *)
Settled == pin = 0 /\ ~latched /\ irq = "idle" /\ ~woken

(* What a measurement of the last echo may be off: the handler may be late *)
(* for either edge, and is never ready for the second one before it is     *)
(* through with the message of the first.                                  *)
Larger(a, b) == IF a > b THEN a ELSE b
Close(d) == width - Latency <= d /\ d <= Larger(width, BusyRise) + Latency

(* The drivers that take both edges: once everything is done, the time     *)
(* measured, and printed where the handler prints it, is that of the last  *)
(* pulse, whatever pulse came before, how late the handler was and when    *)
(* the module was loaded; but for a pulse so short that one run of the     *)
(* handler saw both edges, or one that began before an earlier one was     *)
(* dealt with.                                                             *)
BothEdges == driver.edges = {"rising", "falling"}
EchoMeasured ==
    BothEdges /\ Settled /\ whole =>
        Close(diff_time) /\ (driver.bottom = "inline" => Close(printed))

(* The busy-wait sets a floor: however near the obstacle, no measurement   *)
(* is shorter than the rising branch's message.                            *)
NoneBelowMessage == diff_time # 0 => diff_time >= BusyRise

(* What the driver with the threaded half prints, rising edges being all   *)
(* it asked for: 0, or, after an echo that was over before the handler     *)
(* looked, the time since the beginning of some earlier one, or since the  *)
(* machine came up; but for a time that did not fit, 126 seconds without   *)
(* an echo the handler saw begin, in whose place anything is printed.      *)
OnlyGapsPrinted ==
    driver = Threaded_IRQ /\ printed # 0 /\ ~garbled => printed >= Period - Latency

(* "Distance = %d cm": the threaded driver prints the distance of the last *)
(* echo.                                                                   *)
DistancePrinted == driver.bottom = "thread" /\ Settled /\ whole => Close(printed)
===============================================================================
