----------------------------- MODULE MCUltraSonic -----------------------------
(* Small instances of the ranging and button drivers.  A tick is about a *)
(* millisecond: a message at 115200 baud takes two or three.               *)
EXTENDS UltraSonic
Fleet == {UltraSonic_Interrupt, Threaded_IRQ, Tasklet, WorkQueue, button_on_off}
Lengths == {1, 2, 3, 5, 9}
===============================================================================
