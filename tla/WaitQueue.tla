------------------------------- MODULE WaitQueue -------------------------------
(***************************************************************************)
(* The wait-queue driver: a read of the device wakes WaitThread through    *)
(* wait_queue_flag, and module exit tells the thread to return with the    *)
(* value 2 of the same flag.  The wait itself is modelled as the kernel's  *)
(* wait_event_interruptible does it: the thread queues itself, looks at    *)
(* the flag, and sleeps only if nobody woke it meanwhile.                  *)
(*                                                                         *)
(* Source: driver/Wait_queue/wait_queue.c.                                 *)
(***************************************************************************)
EXTENDS Naturals

CONSTANTS
    Readers,     \* processes that read the device
    MaxReads     \* bound on reads altogether

ASSUME WaitQueueAssumption == MaxReads \in Nat

VARIABLES
    wait_queue_flag, read_count,    \* globals of the driver
    wpc,        \* where WaitThread is
    woken,      \* the thread has been woken since it queued itself
    rpc,        \* where each reader is in etx_read
    reads,      \* reads begun
    xpc         \* where etx_driver_exit is

vars == <<wait_queue_flag, read_count, wpc, woken, rpc, reads, xpc>>

(* wake_up_interruptible: wakes the thread if it is on the queue.          *)
Queued == wpc \in {"check", "schedule"}
WakeUp == woken' = (woken \/ Queued)

-------------------------------------------------------------------------------
(* WaitThread.                                                             *)

ThreadEnqueues ==
    /\ wpc = "enqueue"
    /\ woken' = FALSE
    /\ wpc' = "check"
    /\ UNCHANGED <<wait_queue_flag, read_count, rpc, reads, xpc>>

(* Mutant: the thread goes to sleep without looking at the flag.           *)
ThreadSleepsUnchecked ==
    /\ wpc = "check"
    /\ wpc' = "schedule"
    /\ UNCHANGED <<wait_queue_flag, read_count, woken, rpc, reads, xpc>>

ThreadChecks ==
    /\ wpc = "check"
    /\ wpc' = IF wait_queue_flag # 0 THEN "test" ELSE "schedule"
    /\ UNCHANGED <<wait_queue_flag, read_count, woken, rpc, reads, xpc>>

ThreadResumes ==
    /\ wpc = "schedule" /\ woken
    /\ wpc' = "enqueue"
    /\ UNCHANGED <<wait_queue_flag, read_count, woken, rpc, reads, xpc>>

(* Mutant: any event but 1 is taken for the exit.                          *)
ThreadTestsForOne ==
    /\ wpc = "test"
    /\ wpc' = IF wait_queue_flag = 1 THEN "stopped" ELSE "count"
    /\ UNCHANGED <<wait_queue_flag, read_count, woken, rpc, reads, xpc>>

ThreadTests ==
    /\ wpc = "test"
    /\ wpc' = IF wait_queue_flag = 2 THEN "stopped" ELSE "count"
    /\ UNCHANGED <<wait_queue_flag, read_count, woken, rpc, reads, xpc>>

ThreadCounts ==
    /\ wpc = "count"
    /\ read_count' = read_count + 1
    /\ wpc' = "clear"
    /\ UNCHANGED <<wait_queue_flag, woken, rpc, reads, xpc>>

(* Mutant: the flag is left set.                                           *)
ThreadKeepsFlag ==
    /\ wpc = "clear"
    /\ wpc' = "enqueue"
    /\ UNCHANGED <<wait_queue_flag, read_count, woken, rpc, reads, xpc>>

ThreadClears ==
    /\ wpc = "clear"
    /\ wait_queue_flag' = 0
    /\ wpc' = "enqueue"
    /\ UNCHANGED <<read_count, woken, rpc, reads, xpc>>

Thread == \/ ThreadEnqueues \/ ThreadChecks \/ ThreadResumes
          \/ ThreadTests \/ ThreadCounts \/ ThreadClears

-------------------------------------------------------------------------------
(* etx_read, after an open that keeps the module from being removed.       *)

ReadSets(r) ==
    /\ rpc[r] = "out" /\ reads < MaxReads /\ xpc = "loaded"
    /\ wait_queue_flag' = 1
    /\ reads' = reads + 1
    /\ rpc' = [rpc EXCEPT ![r] = "wake"]
    /\ UNCHANGED <<read_count, wpc, woken, xpc>>

ReadWakes(r) ==
    /\ rpc[r] = "wake"
    /\ WakeUp
    /\ rpc' = [rpc EXCEPT ![r] = "out"]
    /\ UNCHANGED <<wait_queue_flag, read_count, wpc, reads, xpc>>

(* etx_driver_exit, refused while the device is open.                      *)
ExitSets ==
    /\ xpc = "loaded" /\ \A r \in Readers : rpc[r] = "out"
    /\ wait_queue_flag' = 2
    /\ xpc' = "wake"
    /\ UNCHANGED <<read_count, wpc, woken, rpc, reads>>

(* Mutant: the exit sets the flag and wakes nobody.                        *)
ExitForgetsWake ==
    /\ xpc = "wake"
    /\ xpc' = "unloaded"
    /\ UNCHANGED <<wait_queue_flag, read_count, wpc, woken, rpc, reads>>

ExitWakes ==
    /\ xpc = "wake"
    /\ WakeUp
    /\ xpc' = "unloaded"
    /\ UNCHANGED <<wait_queue_flag, read_count, wpc, rpc, reads>>

-------------------------------------------------------------------------------
Init ==
    /\ wait_queue_flag = 0 /\ read_count = 0
    /\ wpc = "enqueue" /\ woken = FALSE
    /\ rpc = [r \in Readers |-> "out"] /\ reads = 0
    /\ xpc = "loaded"

Next ==
    \/ Thread
    \/ \E r \in Readers : ReadSets(r) \/ ReadWakes(r)
    \/ ExitSets \/ ExitWakes

Spec == Init /\ [][Next]_vars

(* The kernel runs every runnable thread; a system call that has begun     *)
(* completes.                                                              *)
Fairness ==
    /\ WF_vars(Thread)
    /\ \A r \in Readers : WF_vars(ReadWakes(r))
    /\ WF_vars(ExitWakes)

FairSpec == Spec /\ Fairness

-------------------------------------------------------------------------------
(* Type invariant.                                                         *)
TypeOK ==
    /\ wait_queue_flag \in 0..2
    /\ read_count \in 0..MaxReads
    /\ wpc \in {"enqueue", "check", "schedule", "test", "count", "clear", "stopped"}
    /\ woken \in BOOLEAN
    /\ rpc \in [Readers -> {"out", "wake"}]
    /\ reads \in 0..MaxReads
    /\ xpc \in {"loaded", "wake", "unloaded"}

(* No event is counted that was not read: reads merged into one event or   *)
(* dropped with the flag may go uncounted, but every count is backed by a  *)
(* read of its own, and while the flag still says 1 one more is owed.      *)
CountsBacked ==
    read_count
      + (IF wpc = "count" THEN 1 ELSE 0)
      + (IF wait_queue_flag = 1 /\ wpc \notin {"count", "clear"} THEN 1 ELSE 0)
    <= reads

(* The thread stops only on the exit's word, and never while a reader is   *)
(* still inside etx_read.                                                  *)
StopsOnlyOnExit ==
    wpc = "stopped" => xpc # "loaded" /\ \A r \in Readers : rpc[r] = "out"

(* The thread does nothing that nobody asked for: one flag carries the     *)
(* readers' word and the exit's, and neither is taken for the other or     *)
(* taken twice.                                                            *)
NothingInvented == CountsBacked /\ StopsOnlyOnExit

(* No wake-up is lost: whatever is in the flag is acted on, however reads, *)
(* the exit and the thread's way to sleep interleave.                      *)
EventServed == (wait_queue_flag # 0) ~> (wait_queue_flag = 0 \/ wpc = "stopped")

(* A module exit that finds the thread waiting ends it.                    *)
IdleThreadStops ==
    (xpc = "wake" /\ wait_queue_flag = 2 /\ wpc \in {"enqueue", "check", "schedule"})
        ~> (wpc = "stopped")

(* Every module exit ends the thread: it sets wait_queue_flag = 2 for the  *)
(* message "Event Came From Exit Function" and the return after it.        *)
ExitEndsThread == (xpc = "unloaded") ~> (wpc = "stopped")

(* The flag is the one-slot mailbox of FrameMailbox, without its liveness, *)
(* which ends with the module.                                             *)
mailbox == INSTANCE FrameMailbox WITH
    pending <- wait_queue_flag # 0,
    busy <- wpc \in {"count", "clear"}
MailboxKept == mailbox!MailSpec
===============================================================================
