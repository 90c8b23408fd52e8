--------------------------- MODULE UltraSonicProofs ---------------------------
(* Proofs about the ranging and button drivers.                            *)
EXTENDS UltraSonic, TLAPS

(* The two halves of TypeOK.                                               *)
Logic ==
    /\ driver \in Drivers /\ latched \in BOOLEAN /\ woken \in BOOLEAN /\ whole \in BOOLEAN
    /\ garbled \in BOOLEAN
Numbers ==
    /\ pin \in {0, 1} /\ high \in Nat /\ (pin = 0 => high = 0)
    /\ timer \in 0 .. Period /\ wait \in 0 .. Latency
    /\ irq \in {"idle", "rise", "fall", "print"} /\ busy \in Nat
    /\ (irq = "idle" => busy = 0)
    /\ start_time \in Ages /\ end_time \in Ages /\ diff_time \in Ages
    /\ printed \in -Forever .. Forever /\ width \in {0} \cup Widths

(* An edge waits only for an idle handler; only one driver has a thread.   *)
Waits ==
    /\ ~latched => wait = 0
    /\ irq # "idle" => wait = 0
    /\ woken => driver.bottom = "thread"

(* The stamps the handler is working with, and the floor the message of    *)
(* the rising branch puts under every difference.                          *)
Floor ==
    /\ irq = "rise" => start_time + busy = BusyRise
    /\ irq # "rise" => start_time >= BusyRise
    /\ irq = "fall" => end_time + busy = BusyFall /\ start_time >= end_time
                       /\ (start_time - end_time >= BusyRise \/ start_time = Forever)
    /\ NoneBelowMessage

(* Where a whole echo stands: not handled yet, begun, over but its end not *)
(* handled yet, being measured, measured.                                  *)
Unseen == pin = 1 /\ latched /\ irq = "idle" /\ width - high = wait /\ Latency < width
Begun ==
    /\ pin = 1 /\ ~latched /\ irq \in {"idle", "rise"}
    /\ start_time <= width - high /\ width - high <= start_time + Latency
Over ==
    /\ pin = 0 /\ latched /\ irq \in {"idle", "rise"}
    /\ width - Latency <= start_time
    /\ start_time <= Larger(width, BusyRise) + wait
Ending == pin = 0 /\ ~latched /\ irq = "fall" /\ Close(start_time - end_time)
Measured ==
    /\ pin = 0 /\ ~latched /\ irq \in {"idle", "print"} /\ Close(diff_time)
    /\ driver.bottom = "inline" => printed = diff_time
Followed == BothEdges /\ whole => Unseen \/ Begun \/ Over \/ Ending \/ Measured

Ranging == Logic /\ Numbers /\ Waits /\ Floor /\ Followed

USE UltraAssumption DEF Ages, print

(* What fits is printed as it is.                                          *)
LEMMA Printed ==
  ASSUME NEW d \in Ages, Prints(d)
  PROVE  /\ printed' \in -Forever .. Forever /\ garbled' \in BOOLEAN
         /\ d < Fits => printed' = d
         /\ ~garbled' => printed' = d
<1>1. garbled' = (d >= Fits) /\ printed' \in IF d < Fits THEN {d} ELSE Wrapped
  BY Zenon DEF Prints
<1>2. Wrapped \subseteq -Forever .. Forever
  BY SMT DEF Wrapped
<1>3. garbled' \in BOOLEAN /\ (~garbled' => d < Fits)
  <2>1. (d >= Fits) \in BOOLEAN /\ (~(d >= Fits) => d < Fits)
    BY SMT
  <2> QED
    BY <1>1, <2>1, Zenon
<1> QED
  BY <1>1, <1>2, <1>3, SMT

(* Nothing is followed and no stamp is taken at the start.                 *)
LEMMA RangingInit == Init => Ranging
<1> SUFFICES ASSUME Init PROVE Ranging
  OBVIOUS
<1>1. Logic /\ Waits
  BY Zenon DEF Init, Logic, Waits
<1>a. Numbers
  BY SMT DEF Init, Numbers
<1>2. Floor /\ Followed
  BY SMT DEF Init, Floor, Followed, NoneBelowMessage
<1> QED
  BY <1>1, <1>a, <1>2 DEF Ranging

(* A pulse that begins is not handled yet.                                 *)
LEMMA PulseStep ==
  ASSUME Ranging, PulseBegins, timer' \in 0 .. Period,
         UNCHANGED <<driver, wait, irq, busy, stamps, diff_time, woken, print>>
  PROVE  Ranging'
<1>a. Logic'
  BY Zenon DEF Ranging, Logic, PulseBegins, stamps, Latch
<1>b. Numbers'
  BY SMT DEF Ranging, Numbers, PulseBegins, stamps, Latch
<1>c. Waits'
  BY Zenon DEF Ranging, Waits, PulseBegins, stamps, Latch
<1>2. Floor'
  BY SMT DEF Ranging, Floor, NoneBelowMessage, PulseBegins, stamps, Latch
<1>3. Followed'
  <2> SUFFICES ASSUME "rising" \in driver.edges, whole' PROVE Unseen'
    BY Zenon DEF Followed, BothEdges
  <2>1. PICK w \in Widths : high' = w /\ width' = w /\ whole' =
      (w > Latency /\ irq = "idle" /\ ~latched)
    BY Zenon DEF PulseBegins
  <2>2. w > Latency /\ irq = "idle" /\ ~latched
    BY <2>1, Zenon
  <2>3. latched' /\ pin' = 1 /\ irq' = irq /\ wait' = wait
    BY Zenon DEF PulseBegins, Latch
  <2>4. wait = 0
    BY <2>2, Zenon DEF Ranging, Waits
  <2>5. width' - high' = wait' /\ Latency < width'
    <3>1. w \in Nat /\ width' = w /\ high' = w /\ Latency < w
      BY <2>1, <2>2 DEF UltraAssumption
    <3> QED
      BY <3>1, <2>3, <2>4, SMT
  <2> QED
    BY <2>2, <2>3, <2>5, Zenon DEF Unseen
<1> QED
  BY <1>a, <1>b, <1>c, <1>2, <1>3 DEF Ranging

(* A trigger begins a new echo or changes nothing that is followed.        *)
LEMMA TimerStep == ASSUME Ranging, kernel_timer_func PROVE Ranging'
<1>1. CASE PulseBegins
  <2>1. timer' \in 0 .. Period
    BY SMT DEF kernel_timer_func
  <2> QED
    BY <1>1, <2>1, PulseStep, Zenon DEF kernel_timer_func
<1>2. CASE pin = 1 /\ UNCHANGED <<pinVars, latched>>
  BY <1>2, SMT DEF Ranging, Logic, Numbers, Waits, Floor, NoneBelowMessage, Followed,
     BothEdges, Unseen, Begun, Over, Ending, Measured, Close, Larger,
     kernel_timer_func, pinVars, stamps
<1> QED
  BY <1>1, <1>2, Zenon DEF kernel_timer_func

(* The button does what the trigger does.                                  *)
LEMMA ButtonStep == ASSUME Ranging, ButtonPressed PROVE Ranging'
<1>1. timer' \in 0 .. Period
  BY SMT DEF Ranging, Numbers, ButtonPressed
<1> QED
  BY <1>1, PulseStep, Zenon DEF ButtonPressed

(* The end of an echo is latched: begun becomes over.                      *)
LEMMA EchoEndsStep == ASSUME Ranging, EchoEnds PROVE Ranging'
<1>a. Logic'
  BY Zenon DEF Ranging, Logic, EchoEnds, stamps, Latch
<1>b. Numbers'
  BY SMT DEF Ranging, Numbers, EchoEnds, stamps, Latch
<1>c. Waits'
  BY Zenon DEF Ranging, Waits, EchoEnds, stamps, Latch
<1>2. Floor'
  BY SMT DEF Ranging, Floor, NoneBelowMessage, EchoEnds, stamps
<1>3. Followed'
  <2> SUFFICES ASSUME BothEdges, whole PROVE Over'
    BY Zenon DEF Followed, EchoEnds, BothEdges
  <2>1. latched' /\ pin' = 0 /\ high = 0 /\ UNCHANGED <<width, irq, wait, start_time>>
    BY Zenon DEF EchoEnds, Latch, BothEdges, stamps
  <2>2. pin = 1 /\ wait \in 0 .. Latency
    BY Zenon DEF Ranging, Numbers, EchoEnds
  <2>3. Begun
    BY <2>1, <2>2, SMT DEF Ranging, Numbers, Followed, Unseen, Over, Ending, Measured
  <2> QED
    BY <2>1, <2>2, <2>3, SMT DEF Ranging, Numbers, Begun, Over, Larger
<1> QED
  BY <1>a, <1>b, <1>c, <1>2, <1>3 DEF Ranging

(* The handler takes a stamp: unseen becomes begun, over becomes ending.   *)
LEMMA HandlerStampsStep == ASSUME Ranging, HandlerStamps PROVE Ranging'
<1>a. Logic'
  BY Zenon DEF Ranging, Logic, HandlerStamps, pinVars
<1>b. Numbers'
  BY SMT DEF Ranging, Numbers, HandlerStamps, pinVars
<1>c. Waits'
  BY Zenon DEF Ranging, Waits, HandlerStamps, pinVars
<1>2. Floor'
  BY SMT DEF Ranging, Logic, Numbers, Waits, Floor, NoneBelowMessage, HandlerStamps, pinVars
<1>3. Followed'
  BY SMT DEF Ranging, Logic, Numbers, Waits, Followed, BothEdges, Unseen, Begun, Over,
     Ending, Measured, Close,
     Larger, HandlerStamps, pinVars
<1> QED
  BY <1>a, <1>b, <1>c, <1>2, <1>3 DEF Ranging

(* The message of the rising branch is out; the floor is reached.          *)
LEMMA RiseDoneStep == ASSUME Ranging, RiseDone PROVE Ranging'
<1>a. Logic'
  BY Zenon DEF Ranging, Logic, RiseDone, Finish, pinVars, stamps
<1>b. Numbers'
  BY SMT DEF Ranging, Numbers, RiseDone, Finish, pinVars, stamps
<1>c. Waits'
  BY Zenon DEF Ranging, Waits, RiseDone, Finish, pinVars, stamps
<1>2. Floor'
  BY SMT DEF Ranging, Logic, Numbers, Waits, Floor, NoneBelowMessage, RiseDone, Finish,
     pinVars, stamps
<1>3. Followed'
  BY SMT DEF Ranging, Logic, Numbers, Waits, Floor, Followed, BothEdges, Unseen, Begun,
     Over, Ending, Measured,
     Close, Larger, RiseDone, Finish, pinVars, stamps
<1> QED
  BY <1>a, <1>b, <1>c, <1>2, <1>3 DEF Ranging

(* The difference is taken: ending becomes measured.                       *)
LEMMA FallDoneStep == ASSUME Ranging, FallDone PROVE Ranging'
<1>0. diff_time' = start_time - end_time /\ diff_time' \in Ages
  BY SMT DEF Ranging, Numbers, Floor, FallDone
<1>1. /\ diff_time' = start_time - end_time /\ diff_time' \in Ages
      /\ printed' \in -Forever .. Forever /\ garbled' \in BOOLEAN
      /\ (driver.bottom = "inline" /\ diff_time' < Fits => printed' = diff_time')
  <2>1. CASE driver.bottom = "inline"
    <3>1. Prints(diff_time')
      BY <2>1, Zenon DEF FallDone
    <3> QED
      BY <1>0, <3>1, Printed, Zenon
  <2>2. CASE driver.bottom # "inline"
    BY <1>0, <2>2, Zenon DEF Ranging, Logic, Numbers, FallDone
  <2> QED
    BY <2>1, <2>2
<1>a. Logic'
  BY <1>1, Zenon DEF Ranging, Logic, FallDone, Finish, pinVars, stamps
<1>b. Numbers'
  BY <1>1, SMT DEF Ranging, Numbers, FallDone, Finish, pinVars, stamps
<1>c. Waits'
  BY Zenon DEF Ranging, Waits, FallDone, Finish, pinVars, stamps
<1>3. Floor'
  BY <1>1, SMT DEF Ranging, Logic, Numbers, Waits, Floor, NoneBelowMessage, FallDone,
     Finish, pinVars, stamps
<1>4. Followed'
  <2> SUFFICES ASSUME BothEdges, whole PROVE Measured'
    BY Zenon DEF Followed, BothEdges, FallDone, pinVars
  <2>1. irq = "fall" /\ UNCHANGED <<driver, pin, latched, width>>
    BY Zenon DEF FallDone, pinVars
  <2>2. irq' \in {"idle", "print"}
    BY Zenon DEF FallDone, Finish
  <2>3. pin = 0 /\ ~latched /\ Close(start_time - end_time)
    BY <2>1, SMT DEF Ranging, Numbers, Followed, Unseen, Begun, Over, Ending, Measured
  <2>4. Close(diff_time')
    BY <1>0, <2>3, Zenon
  <2>5. diff_time' < Fits
    BY <1>0, <2>4, SMT DEF Ranging, Numbers, Close, Larger
  <2>6. Close(diff_time)'
    BY <2>1, <2>4, Zenon DEF Close
  <2> QED
    BY <1>1, <2>1, <2>2, <2>3, <2>5, <2>6, Zenon DEF Measured
<1> QED
  BY <1>a, <1>b, <1>c, <1>3, <1>4 DEF Ranging

(* The distance is out; what was measured stays.                           *)
LEMMA PrintDoneStep == ASSUME Ranging, PrintDone PROVE Ranging'
<1>a. Logic'
  BY Zenon DEF Ranging, Logic, PrintDone, Finish, pinVars, stamps
<1>b. Numbers'
  BY SMT DEF Ranging, Numbers, PrintDone, Finish, pinVars, stamps
<1>c. Waits'
  BY Zenon DEF Ranging, Waits, PrintDone, Finish, pinVars, stamps
<1>2. Floor'
  BY SMT DEF Ranging, Floor, NoneBelowMessage, PrintDone, Finish, pinVars, stamps
<1>3. Followed'
  BY SMT DEF Ranging, Followed, BothEdges, Unseen, Begun, Over, Ending, Measured, Close,
     Larger, PrintDone,
     Finish, pinVars, stamps
<1> QED
  BY <1>a, <1>b, <1>c, <1>2, <1>3 DEF Ranging

(* The threaded half only prints.                                          *)
LEMMA ThreadStep == ASSUME Ranging, gpio_interrupt_thread_fn PROVE Ranging'
<1>1. diff_time \in Ages /\ Prints(diff_time)
  BY Zenon DEF Ranging, Numbers, gpio_interrupt_thread_fn
<1>a. Logic'
  BY <1>1, Printed, Zenon DEF Ranging, Logic, gpio_interrupt_thread_fn, pinVars, stamps
<1>b. Numbers'
  BY <1>1, Printed, Zenon DEF Ranging, Numbers, gpio_interrupt_thread_fn, pinVars, stamps
<1>c. Waits'
  BY Zenon DEF Ranging, Waits, gpio_interrupt_thread_fn, pinVars, stamps
<1>2. Floor'
  BY SMT DEF Ranging, Floor, NoneBelowMessage, gpio_interrupt_thread_fn, pinVars, stamps
<1>3. driver.bottom # "inline"
  BY SMT DEF Ranging, Waits, gpio_interrupt_thread_fn
<1>4. Followed'
  BY <1>3, SMT DEF Ranging, Followed, BothEdges, Unseen, Begun, Over, Ending, Measured,
     Close, Larger,
     gpio_interrupt_thread_fn, pinVars, stamps
<1> QED
  BY <1>a, <1>b, <1>c, <1>2, <1>4 DEF Ranging

(* Time ages the stamps and the waiting edge alike.                        *)
LEMMA TickStep == ASSUME Ranging, Tick PROVE Ranging'
<1>a. Logic'
  BY Zenon DEF Ranging, Logic, Tick, Older, Less
<1>b. Numbers'
  BY SMT DEF Ranging, Numbers, Tick, Older, Less
<1>c. Waits'
  BY Zenon DEF Ranging, Waits, Tick, Older, Less
<1>2. Floor'
  BY SMT DEF Ranging, Logic, Numbers, Waits, Floor, NoneBelowMessage, Tick, Older, Less
<1>3. Followed'
  BY SMT DEF Ranging, Logic, Numbers, Waits, Floor, Followed, BothEdges, Unseen, Begun,
     Over, Ending, Measured,
     Close, Larger, Tick, Older, Less
<1> QED
  BY <1>a, <1>b, <1>c, <1>2, <1>3 DEF Ranging

(* Each step of the driver, the sensor and time preserves the invariant.   *)
LEMMA RangingNext == Ranging /\ [Next]_vars => Ranging'
<1> SUFFICES ASSUME Ranging, [Next]_vars PROVE Ranging'
  OBVIOUS
<1>1. CASE Next
  BY <1>1, TimerStep, ButtonStep, EchoEndsStep, HandlerStampsStep, RiseDoneStep, FallDoneStep,
     PrintDoneStep,
     ThreadStep, TickStep DEF Next, Handler
<1>2. CASE UNCHANGED vars
  BY <1>2 DEF vars, pinVars, stamps, Ranging, Logic, Numbers, Waits, Floor,
     NoneBelowMessage, Followed, BothEdges,
     Unseen, Begun, Over, Ending, Measured, Close
<1> QED
  BY <1>1, <1>2

(* So it always holds.                                                     *)
LEMMA RangingAlways == Spec => []Ranging
  BY RangingInit, RangingNext, PTL DEF Spec

(* Every variable keeps its type: no measurement ends before it began.     *)
THEOREM RangingType == Spec => []TypeOK
<1>1. Ranging => TypeOK
  BY Zenon DEF Ranging, TypeOK, Logic, Numbers
<1> QED
  BY <1>1, RangingAlways, PTL

(* A whole pulse is measured, and printed, within the handler's lateness,  *)
(* for every lateness, message time, period and set of pulses.             *)
THEOREM EchoIsMeasured == Spec => []EchoMeasured
<1>1. Ranging => EchoMeasured
  BY SMT DEF Ranging, Followed, EchoMeasured, Settled, Unseen, Begun, Over, Ending, Measured
<1> QED
  BY <1>1, RangingAlways, PTL

(* No driver measures less than the time of the rising branch's message.   *)
THEOREM FloorOfMeasurements == Spec => []NoneBelowMessage
<1>1. Ranging => NoneBelowMessage
  BY DEF Ranging, Floor
<1> QED
  BY <1>1, RangingAlways, PTL
-------------------------------------------------------------------------------
(* The threaded driver.  Only a trigger makes an edge it asked for, so how *)
(* long the edge has waited, and how old a stamp is, follow from when the  *)
(* timer last expired: Since ticks ago.                                    *)
Since == Period - timer
OnTime ==
    /\ latched => wait = Since /\ (irq # "idle" => busy = 0)
    /\ irq # "idle" => Since + busy <= Period
    /\ irq # "print"
Gaps ==
    /\ start_time >= (IF latched THEN Period ELSE Since) - Latency
    /\ irq = "fall" => end_time + busy = BusyFall
                       /\ (start_time = Forever \/ start_time - end_time >= Period - Latency)
    /\ diff_time # 0 => diff_time >= Period - Latency
    /\ printed # 0 /\ ~garbled => printed >= Period - Latency
Gapped == driver = Threaded_IRQ => OnTime /\ Gaps

(* Nothing is latched, stamped or printed at the start.                    *)
LEMMA GappedInit == Init => Gapped
  BY GapAssumption, SMT DEF Init, Gapped, OnTime, Gaps, Since

(* Every step of the threaded driver keeps its gaps.                       *)
LEMMA GappedNext == Ranging /\ Gapped /\ [Next]_vars => Gapped'
<1> SUFFICES ASSUME Ranging, Gapped, [Next]_vars, driver' = Threaded_IRQ
             PROVE  OnTime' /\ Gaps'
  BY DEF Gapped
<1> USE GapAssumption
<1>d. driver = Threaded_IRQ
  BY Zenon DEF Next, Handler, vars, pinVars, stamps, kernel_timer_func, ButtonPressed, EchoEnds,
     HandlerStamps, RiseDone, FallDone, PrintDone, gpio_interrupt_thread_fn, Tick
<1>t. driver.edges = {"rising"} /\ driver.bottom = "thread" /\ driver.pulse = "trigger"
  BY <1>d, SMT DEF Threaded_IRQ
<1>i. OnTime /\ Gaps /\ Numbers /\ Waits /\ latched \in BOOLEAN
  BY <1>d, Zenon DEF Gapped, Ranging, Logic
<1>1. CASE kernel_timer_func
  <2>1. timer = 0 /\ timer' = Period /\ UNCHANGED <<wait, irq, busy, stamps, diff_time, print>>
    BY <1>1, Zenon DEF kernel_timer_func
  <2>2. ~latched /\ wait = 0
    BY <2>1, <1>i, SMT DEF OnTime, Numbers, Waits, Since
  <2>3. irq # "idle" => busy = 0
    BY <2>1, <1>i, SMT DEF OnTime, Numbers, Since
  <2>4. latched' \in BOOLEAN
    BY <1>1, <1>i, Zenon DEF kernel_timer_func, PulseBegins, Latch
  <2> QED
    BY <2>1, <2>2, <2>3, <2>4, <1>i, SMT DEF OnTime, Gaps, Numbers, Since, stamps
<1>2. CASE ButtonPressed
  BY <1>2, <1>t, Zenon DEF ButtonPressed
<1>3. CASE EchoEnds
  <2>1. latched' = latched
    BY <1>3, <1>t, <1>i, SMT DEF EchoEnds, Latch
  <2> QED
    BY <1>3, <2>1, <1>i, SMT DEF EchoEnds, OnTime, Gaps, Since, stamps
<1>4. CASE HandlerStamps
  BY <1>4, <1>i, SMT DEF HandlerStamps, OnTime, Gaps, Numbers, Waits, Since
<1>5. CASE RiseDone
  BY <1>5, <1>i, SMT DEF RiseDone, Finish, OnTime, Gaps, Numbers, Waits, Since, stamps
<1>6. CASE FallDone
  BY <1>6, <1>t, <1>i, SMT DEF FallDone, Finish, OnTime, Gaps, Numbers, Waits, Since, stamps
<1>7. CASE PrintDone
  BY <1>7, <1>i, SMT DEF PrintDone, OnTime
<1>8. CASE gpio_interrupt_thread_fn
  <2>1. diff_time \in Ages /\ Prints(diff_time)
    BY <1>8, <1>i, Zenon DEF Numbers, gpio_interrupt_thread_fn
  <2>2. ~garbled' => printed' = diff_time
    BY <2>1, Printed, Zenon
  <2>3. UNCHANGED <<timer, latched, wait, irq, busy, stamps, diff_time>>
    BY <1>8, Zenon DEF gpio_interrupt_thread_fn
  <2> QED
    BY <1>i, <2>2, <2>3, SMT DEF OnTime, Gaps, Since, stamps
<1>9. CASE Tick
  BY <1>9, <1>t, <1>i, SMT DEF Tick, Older, Less, OnTime, Gaps, Numbers, Waits, Since
<1>10. CASE UNCHANGED vars
  BY <1>10, <1>i, SMT DEF vars, OnTime, Gaps, Since, stamps
<1> QED
  BY <1>1, <1>2, <1>3, <1>4, <1>5, <1>6, <1>7, <1>8, <1>9, <1>10, Zenon DEF Next, Handler

(* The threaded driver prints 0 or the time between two triggers, less the *)
(* lateness of the handler: never the length of the echo it was meant for. *)
THEOREM GapsOnly == Spec => []OnlyGapsPrinted
<1>1. Gapped => OnlyGapsPrinted
  BY SMT DEF Gapped, Gaps, OnlyGapsPrinted
<1> QED
  BY <1>1, RangingAlways, GappedInit, GappedNext, PTL DEF Spec
===============================================================================
