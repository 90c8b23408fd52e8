------------------------------- MODULE Debounce -------------------------------
(***************************************************************************)
(* The debounced button: a rising edge raises the interrupt, and the       *)
(* handler drops it when fewer than 20 jiffies have passed since the last  *)
(* edge it took.  jiffies is unsigned and wraps, and old_jiffie starts at  *)
(* 0; the handler reads jiffies twice, and the clock may tick in between.  *)
(* The contact bounces when it opens too: a press begins with a rising     *)
(* edge, a release with a falling one, but the bounces of either rise.     *)
(*                                                                         *)
(* Source: driver/GPIO_Interrupt_2/GPIO_Interrupt_2.c.                     *)
(* External: the button, the interrupt latch and the handler's lateness.   *)
(***************************************************************************)
EXTENDS Integers

CONSTANTS
    Window,       \* 20 in the code
    Wrap,         \* jiffies counts modulo Wrap
    Bounce,       \* the contact bounces for at most so many jiffies
    Latency,      \* the handler does not wait for longer, nor take longer
    Gap           \* jiffies from one movement of the button, press or
                  \* release, to the next, at least

ASSUME DebounceAssumption ==
    /\ Window \in Nat /\ Wrap \in Nat \ {0}
    /\ Bounce \in Nat /\ Latency \in Nat /\ Gap \in Nat
    /\ Bounce + 2 * Latency < Window /\ Window < Wrap
    /\ Bounce + 2 * Latency < Gap

VARIABLES
    jiffies, old_jiffie, led_toggle,
    out,             \* the LED pin
    edge, late,      \* an edge is latched; ticks the handler has been due
    dpc,             \* gpio_irq_handler: idle, or past its test
    down,            \* the button
    since,           \* ticks since it moved, up to Gap
    idle,            \* history: ticks since old_jiffie was the time, up to Wrap
    toggles,         \* history: toggles since it moved, 2 for more
    expect           \* history: how often its movement should toggle the LED
contact == <<down, since, toggles, expect>>
debVars == <<jiffies, old_jiffie, led_toggle, out, edge, late, dpc, idle, contact>>

(* Unsigned subtraction.                                                   *)
Diff == IF jiffies >= old_jiffie THEN jiffies - old_jiffie
        ELSE jiffies - old_jiffie + Wrap

UpTo(n, top) == IF n < top THEN n + 1 ELSE top

(* Edges that come within Settling of a movement are all that the handler  *)
(* has to do with it: bounces, the last of them up to twice late.          *)
Settling == Bounce + 2 * Latency
Moves(ifOld) ==
    /\ since = Gap
    /\ since' = 0 /\ toggles' = 0 /\ down' = ~down
    /\ expect' = IF idle + Settling < Window THEN "none"
                 ELSE IF Window <= idle /\ idle + Settling < Wrap THEN ifOld
                 ELSE "any"
    /\ UNCHANGED <<jiffies, old_jiffie, led_toggle, out, late, dpc, idle>>

PressBegins == ~down /\ Moves("one") /\ edge' = TRUE
ReleaseBegins == down /\ Moves("any") /\ UNCHANGED edge

Bounces ==
    /\ since <= Bounce
    /\ edge' = TRUE
    /\ UNCHANGED <<jiffies, old_jiffie, led_toggle, out, late, dpc, idle, contact>>

(* Mutant: signed comparison, as with an int for diff and a wrapped clock. *)
TestsSigned ==
    /\ edge /\ dpc = "idle"
    /\ edge' = FALSE
    /\ IF jiffies - old_jiffie < Window
       THEN late' = 0 /\ UNCHANGED dpc
       ELSE dpc' = "take" /\ UNCHANGED late
    /\ UNCHANGED <<jiffies, old_jiffie, led_toggle, out, idle, contact>>

(* gpio_irq_handler up to its early return, ...                            *)
HandlerTests ==
    /\ edge /\ dpc = "idle"
    /\ edge' = FALSE
    /\ IF Diff < Window
       THEN late' = 0 /\ UNCHANGED dpc
       ELSE dpc' = "take" /\ UNCHANGED late
    /\ UNCHANGED <<jiffies, old_jiffie, led_toggle, out, idle, contact>>

(* ... and from there on.                                                  *)
HandlerToggles ==
    /\ dpc = "take"
    /\ old_jiffie' = jiffies
    /\ led_toggle' = 1 - led_toggle /\ out' = led_toggle'
    /\ dpc' = "idle" /\ late' = 0
    /\ idle' = 0 /\ toggles' = UpTo(toggles, 2)
    /\ UNCHANGED <<jiffies, edge, down, since, expect>>

(* etx_write sets the pin and leaves led_toggle alone.                     *)
etx_write ==
    /\ out' \in {0, 1}
    /\ UNCHANGED <<jiffies, old_jiffie, led_toggle, edge, late, dpc, idle, contact>>

Due == edge \/ dpc = "take"
Jiffy ==
    /\ ~(Due /\ late = Latency)
    /\ jiffies' = IF jiffies = Wrap - 1 THEN 0 ELSE jiffies + 1
    /\ late' = IF Due THEN late + 1 ELSE 0
    /\ since' = UpTo(since, Gap) /\ idle' = UpTo(idle, Wrap)
    /\ UNCHANGED <<old_jiffie, led_toggle, out, edge, dpc, down, toggles, expect>>

(* old_jiffie = 0: as if an edge had been taken when jiffies was 0.        *)
DebInit ==
    /\ jiffies \in 0 .. Wrap - 1 /\ old_jiffie = 0 /\ idle = jiffies
    /\ led_toggle = 0 /\ out = 0
    /\ edge = FALSE /\ late = 0 /\ dpc = "idle"
    /\ down \in BOOLEAN /\ since = Gap /\ toggles = 0 /\ expect = "any"

DebNext == \/ PressBegins \/ ReleaseBegins \/ Bounces \/ HandlerTests \/ HandlerToggles
           \/ etx_write \/ Jiffy
DebSpec == DebInit /\ [][DebNext]_debVars

(* No movement of the button toggles the LED twice, however it bounces and *)
(* wherever jiffies wraps.  A press toggles it once if the window is over  *)
(* since an edge was taken (or since jiffies was 0 after loading) but not  *)
(* the whole round of the counter; a press or a release within the window  *)
(* not at all: released in time, a button toggles once.  Not promised: the *)
(* release of a press held longer than the window may toggle again, and    *)
(* with the movement at the very end of the window it is either.           *)
TogglesPerMovement ==
    /\ toggles <= 1
    /\ expect = "one" /\ ~Due => toggles = 1
    /\ expect = "none" => toggles = 0
===============================================================================
