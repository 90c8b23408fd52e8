----------------------------- MODULE SendingSignal ----------------------------
(***************************************************************************)
(* The signal driver: a timer function sends a signal to the one process   *)
(* that registered last, and the application waits for it again and again. *)
(* Unlike the remote-control driver it forgets a process that closes the   *)
(* device.  The timer function tests task and reads it again to send, and  *)
(* a message to the console lies in between.  The application opens        *)
(* /dev/etx_device and the driver creates /dev/sample_device: whether the  *)
(* first leads to the driver is up to who sets the machine up, and as the  *)
(* two are in the repository it does not and the application gives up.     *)
(*                                                                         *)
(* Source: driver/Sending_button_signal/signal.c, app/SendingSig/main.c.   *)
(***************************************************************************)
CONSTANTS
    Clients,      \* processes that run the application
    NULL

ASSUME SendingAssumption == NULL \notin Clients

VARIABLES
    task, tpc,          \* the registered process; where kernel_timer_func is
    sigpc,              \* where each process is; "out" when it does not run
    check, done,        \* its globals: a signal was seen, Ctrl-C was
    queued,             \* a signal is queued for it
    linked,             \* /dev/etx_device leads to this driver
    last                \* history: who registered last

client == <<sigpc, check, done, queued>>
sigVars == <<task, tpc, client, linked, last>>

Lives(p) == sigpc[p] # "out"
Registered(p) == sigpc[p] \notin {"out", "started", "opened"}
At(p, l) == sigpc[p] = l
Goes(p, l) == sigpc' = [sigpc EXCEPT ![p] = l]

-------------------------------------------------------------------------------
(* kernel_timer_func.                                                      *)

(* Mutant: the timer is armed again only after a signal.                   *)
TimerRearmsIfSent ==
    /\ tpc = "armed"
    /\ tpc' = IF task # NULL THEN "send" ELSE "off"
    /\ UNCHANGED <<task, client, linked, last>>

(* if (task != NULL); without one the timer is armed again.                *)
TimerTests ==
    /\ tpc = "armed"
    /\ tpc' = IF task # NULL THEN "send" ELSE "armed"
    /\ UNCHANGED <<task, client, linked, last>>

(* send_sig_info.  task has been read again after the message, and a NULL  *)
(* in it brings the kernel down.                                           *)
TimerSends ==
    /\ tpc = "send"
    /\ \/ /\ task # NULL
          /\ queued' = [queued EXCEPT ![task] = TRUE]
          /\ tpc' = "armed"
       \/ /\ task = NULL
          /\ tpc' = "oops"
          /\ UNCHANGED queued
    /\ UNCHANGED <<task, sigpc, check, done, linked, last>>

-------------------------------------------------------------------------------
(* The file operations.                                                    *)

(* Mutant: as in the remote-control driver, the process is not forgotten.  *)
ReleaseKeepsTask(p) ==
    /\ Goes(p, "out")
    /\ queued' = [queued EXCEPT ![p] = FALSE]
    /\ UNCHANGED <<task, tpc, check, done, linked, last>>

(* sample_release, called by close or by the end of the process.           *)
sample_release(p) ==
    /\ Goes(p, "out")
    /\ task' = IF task = p THEN NULL ELSE task
    /\ queued' = [queued EXCEPT ![p] = FALSE]
    /\ UNCHANGED <<tpc, check, done, linked, last>>

sample_ioctl(p) ==
    /\ At(p, "opened")
    /\ task' = p /\ last' = p
    /\ Goes(p, "loop")
    /\ UNCHANGED <<tpc, check, done, queued, linked>>

-------------------------------------------------------------------------------
(* The application.                                                        *)

(* It is started, with fresh globals, and installs its handlers, ...       *)
Starts(p) ==
    /\ At(p, "out")
    /\ Goes(p, "started")
    /\ check' = [check EXCEPT ![p] = FALSE]
    /\ done' = [done EXCEPT ![p] = FALSE]
    /\ UNCHANGED <<task, tpc, queued, linked, last>>

(* ... opens the device, and returns if it cannot.                         *)
Opens(p) ==
    /\ At(p, "started")
    /\ Goes(p, IF linked THEN "opened" ELSE "out")
    /\ UNCHANGED <<task, tpc, check, done, queued, linked, last>>

Loop(p) ==
    /\ At(p, "loop")
    /\ Goes(p, IF done[p] THEN "close" ELSE "spin")
    /\ UNCHANGED <<task, tpc, check, done, queued, linked, last>>

LeavesSpin(p) ==
    /\ At(p, "spin") /\ (done[p] \/ check[p])
    /\ Goes(p, "reset")
    /\ UNCHANGED <<task, tpc, check, done, queued, linked, last>>

Resets(p) ==
    /\ At(p, "reset")
    /\ check' = [check EXCEPT ![p] = FALSE]
    /\ Goes(p, "loop")
    /\ UNCHANGED <<task, tpc, done, queued, linked, last>>

Closes(p) == At(p, "close") /\ sample_release(p)

(* The signal's value is 10: check becomes true.                           *)
sig_event_handler(p) ==
    /\ Lives(p) /\ queued[p]
    /\ queued' = [queued EXCEPT ![p] = FALSE]
    /\ check' = [check EXCEPT ![p] = TRUE]
    /\ UNCHANGED <<task, tpc, sigpc, done, linked, last>>

(* The handler is installed once: a second Ctrl-C ends the process.        *)
ctrl_c_handler(p) ==
    /\ Lives(p)
    /\ \/ /\ ~done[p]
          /\ done' = [done EXCEPT ![p] = TRUE]
          /\ UNCHANGED <<task, tpc, sigpc, check, queued, linked, last>>
       \/ done[p] /\ sample_release(p)

-------------------------------------------------------------------------------
SigInit ==
    /\ task = NULL /\ tpc = "armed" /\ last = NULL
    /\ sigpc = [p \in Clients |-> "out"]
    /\ check = [p \in Clients |-> FALSE] /\ done = [p \in Clients |-> FALSE]
    /\ queued = [p \in Clients |-> FALSE]
    /\ linked \in BOOLEAN

Up == tpc # "oops"
Timer == TimerTests \/ TimerSends
Runs(p) == Up /\ (\/ Opens(p) \/ sample_ioctl(p)
                 \/ Loop(p) \/ LeavesSpin(p) \/ Resets(p) \/ Closes(p))
Handles(p) == Up /\ sig_event_handler(p)
SigNext == \/ Timer
           \/ \E p \in Clients : Runs(p) \/ Handles(p)
           \/ Up /\ \E p \in Clients : Starts(p) \/ ctrl_c_handler(p)
SigSpec == SigInit /\ [][SigNext]_sigVars

(* The timer expires, processes run, a queued signal is delivered.         *)
SigFairness == /\ WF_sigVars(Timer)
               /\ \A p \in Clients : WF_sigVars(Runs(p)) /\ WF_sigVars(Handles(p))

-------------------------------------------------------------------------------
(* The signal is for the process that registered last and for no other:    *)
(* while that one runs it stays registered, whoever else closes the device *)
(* or is killed; once it is gone nobody is, and no dead process is left in *)
(* task.                                                                   *)
TaskIsLast == task = IF last # NULL /\ Registered(last) THEN last ELSE NULL

(* The wait of the last to register comes to an end, though the value of   *)
(* a signal that comes between two waits is erased and the timer finds     *)
(* nobody for a while; unless a release falls between the timer's test and *)
(* its send, which brings the machine down.  Nobody waits who could not    *)
(* open the device.                                                        *)
WaitEnds ==
    \A p \in Clients : (At(p, "spin") /\ last = p) ~> (~At(p, "spin") \/ last # p \/ ~Up)
===============================================================================
