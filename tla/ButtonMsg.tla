------------------------------- MODULE ButtonMsg ------------------------------
(***************************************************************************)
(* The button message drivers: a push of the button writes a message, a    *)
(* read of the device copies it out and clears it, and the application     *)
(* prints whatever it read that does not begin with a zero byte.  Neither  *)
(* the interrupt handler nor the read takes a lock, and on a board with    *)
(* several processors they run at the same time; the message is split      *)
(* where they can be seen half done, into its first byte and the rest.     *)
(*                                                                         *)
(* Source: driver/GPIO_Interrupt/gpio_interrupt.c,                         *)
(* driver/gpio_Interrupt_button_LED/int_led.c, which also sets an LED, and *)
(* app/GPIO_Button_Intterrupt/gpio_Button.int.c.                           *)
(***************************************************************************)
EXTENDS Naturals

CONSTANTS
    Pollers,      \* processes that run the application
    MaxPushes     \* bound on pushes

ASSUME ButtonAssumption == MaxPushes \in Nat

VARIABLES
    has_led,          \* which of the two drivers is loaded
    msg_first, msg_rest, count,     \* globals: is the byte, the rest non-zero
    led,              \* the LED pin
    ipc,              \* where btn_interrupt is
    mpc,              \* where each process is in its loop
    buf_first,        \* the first byte of each process's buffer
    printed_by,       \* history: messages each process printed
    owed              \* history: a push nobody has read yet and that fell in
                      \* no process's read between its copy and its clear

driverMsg == <<has_led, msg_first, msg_rest, count, led, ipc>>
poller == <<mpc, buf_first, printed_by>>
msgVars == <<driverMsg, poller, owed>>

-------------------------------------------------------------------------------
(* btn_interrupt: strcpy begins, ...                                       *)
PushBegins ==
    /\ ipc = "idle" /\ count < MaxPushes
    /\ count' = count + 1
    /\ msg_first' = 1
    /\ ipc' = "strcpy"
    /\ owed' = (owed \/ \A p \in Pollers : mpc[p] # "clear")
    /\ UNCHANGED <<has_led, msg_rest, led, poller>>

(* ... and ends; the LED driver goes on to set the LED by the count.       *)
PushEnds ==
    /\ ipc = "strcpy"
    /\ msg_rest' = 1
    /\ led' = IF ~has_led THEN led ELSE IF count % 2 = 0 THEN 1 ELSE 0
    /\ ipc' = "idle"
    /\ UNCHANGED <<has_led, msg_first, count, poller, owed>>

-------------------------------------------------------------------------------
(* gpiobtn_read, called from the application's loop.                       *)

ReadCopies(p) ==
    /\ mpc[p] = "copy"
    /\ buf_first' = [buf_first EXCEPT ![p] = msg_first]
    /\ owed' = (owed /\ msg_first = 0)
    /\ mpc' = [mpc EXCEPT ![p] = "clear"]
    /\ UNCHANGED <<driverMsg, printed_by>>

(* Mutant: the message is not cleared.                                     *)
ReadKeeps(p) ==
    /\ mpc[p] = "clear"
    /\ mpc' = [mpc EXCEPT ![p] = "clear_rest"]
    /\ UNCHANGED <<driverMsg, buf_first, printed_by, owed>>

ReadClears(p) ==
    /\ mpc[p] = "clear"
    /\ msg_first' = 0
    /\ mpc' = [mpc EXCEPT ![p] = "clear_rest"]
    /\ UNCHANGED <<has_led, msg_rest, count, led, ipc, buf_first, printed_by, owed>>

(* Mutant: memset clears the whole message only now.                       *)
ReadClearsAll(p) ==
    /\ mpc[p] = "clear_rest"
    /\ msg_rest' = 0 /\ msg_first' = 0
    /\ mpc' = [mpc EXCEPT ![p] = "print"]
    /\ UNCHANGED <<has_led, count, led, ipc, buf_first, printed_by, owed>>

ReadClearsRest(p) ==
    /\ mpc[p] = "clear_rest"
    /\ msg_rest' = 0
    /\ mpc' = [mpc EXCEPT ![p] = "print"]
    /\ UNCHANGED <<has_led, msg_first, count, led, ipc, buf_first, printed_by, owed>>

(* if(buf[0] != '\0') printf, and round again.                             *)
Prints(p) ==
    /\ mpc[p] = "print"
    /\ printed_by' = IF buf_first[p] = 0 THEN printed_by
                     ELSE [printed_by EXCEPT ![p] = @ + 1]
    /\ mpc' = [mpc EXCEPT ![p] = "copy"]
    /\ UNCHANGED <<driverMsg, buf_first, owed>>

-------------------------------------------------------------------------------
MsgInit ==
    /\ has_led \in BOOLEAN
    /\ msg_first = 0 /\ msg_rest = 0 /\ count = 0 /\ led = 0 /\ ipc = "idle"
    /\ mpc = [p \in Pollers |-> "copy"]
    /\ buf_first = [p \in Pollers |-> 0]
    /\ printed_by = [p \in Pollers |-> 0]
    /\ owed = FALSE

Polls(p) == ReadCopies(p) \/ ReadClears(p) \/ ReadClearsRest(p) \/ Prints(p)
MsgNext == PushBegins \/ PushEnds \/ \E p \in Pollers : Polls(p)
MsgSpec == MsgInit /\ [][MsgNext]_msgVars

(* The application polls for ever.                                         *)
MsgFairness == \A p \in Pollers : WF_msgVars(Polls(p))
MsgFairSpec == MsgSpec /\ MsgFairness

-------------------------------------------------------------------------------
(* Nobody prints a message twice, and none that was not pushed, however    *)
(* many processes read the one message and clear it under each other.      *)
PrintsBacked == \A p \in Pollers : printed_by[p] <= count

(* A push is read by some process, unless it fell between a copy and the   *)
(* clear after it: that window is the only way to lose one.                *)
PushSeen == owed ~> ~owed
===============================================================================
