----------------------------- MODULE RemoteSignal -----------------------------
(***************************************************************************)
(* The remote-controller driver with its worker thread and the application *)
(* it signals: the interrupt handler of IrReceiver hands a complete frame  *)
(* to WaitThread through wait_queue_flag; the thread decodes it into a key *)
(* and sends the key as the value of signal 44 to the registered process,  *)
(* whose main loop waits for the value.                                    *)
(*                                                                         *)
(* Source: driver/remote_controller_signal/remote_controller_signal.c and  *)
(* app/Remote_Control_signal/main.c, with the two designs it grew from:    *)
(* Remote_controller/gpio_interrupt.c decodes in the interrupt handler,    *)
(* remote_controller_wait_queue.c in the thread, and both only print.      *)
(*                                                                         *)
(* The interrupt handler is one action: a run of it writes one element of  *)
(* diff_time_us and then possibly wait_queue_flag, and the thread reads    *)
(* one element per step, so every mixture of old and new data the thread   *)
(* can see is reached.  Signals of one process are handled between two     *)
(* steps of its main loop.                                                 *)
(***************************************************************************)
EXTENDS RemoteDecode, Sequences

CONSTANTS
    Designs,             \* the designs looked at
    MaxPending,          \* queued signals a process may have
    MaxRuns              \* bound on starts of the application

ASSUME RemoteAssumption ==
    /\ Designs \subseteq [thread : BOOLEAN, signals : BOOLEAN]
    /\ MaxPending \in Nat \ {0}
    /\ MaxRuns \in Nat \ {0}

VARIABLES
    design,       \* the driver that is loaded
    wait_queue_flag, output, task, bit_array, i,     \* globals of the driver
    wpc,          \* where WaitThread is
    loaded,       \* the module is inserted
    told,         \* history: the key the frame handed over stands for
    run, apc,     \* the application process: its number, where it is
    check, done,  \* globals of the application
    queue         \* signals queued for it

driver == <<design, wait_queue_flag, output, task, bit_array, i, wpc, loaded, told>>
app == <<run, apc, check, done, queue>>
vars == <<irVars, driver, app>>

remote_controller_signal == [thread |-> TRUE, signals |-> TRUE]
remote_controller_wait_queue == [thread |-> TRUE, signals |-> FALSE]
Remote_controller == [thread |-> FALSE, signals |-> FALSE]

NULL == 0
Unknown == 10     \* told: nothing is promised about the decode

-------------------------------------------------------------------------------
(* Sending a signal.                                                       *)

Alive == apc \notin {"start", "exited"}

(* send_sig_info queues the value for the registered process, unless its    *)
(* queue is full.  etx_release leaves task set, so after that process has   *)
(* exited the kernel is handed a dead task; whatever comes of it, no later  *)
(* process receives the value.                                              *)
signalfunc(value) ==
    queue' = IF design.signals /\ task = run /\ Alive /\ Len(queue) < MaxPending
             THEN Append(queue, value) ELSE queue

-------------------------------------------------------------------------------
(* The driver.                                                             *)

(* What the switch over the character leaves in output.                    *)
Switch(array) == IF KeyOf(array) = Kept THEN output ELSE KeyOf(array)

(* The handler of the first design decodes where the later ones set a flag. *)
(* bit_array is read as it was, diff_time_us as the handler has just left  *)
(* it: old is the one, the prime gives the other.                          *)
DecodesInHandler ==
    IF event' = "frame"
    THEN /\ \E old \in {bit_array} : bit_array' = Decoded(old)'
         /\ output' = Switch(bit_array')
    ELSE UNCHANGED <<bit_array, output>>

(* A run of gpio_irq_handler: what it does beyond timing the edge.         *)
IrqEdge ==
    /\ loaded
    /\ StartEdge \/ NextEdge \/ SpuriousEdge
    /\ IF design.thread
       THEN /\ wait_queue_flag' = IF event' = "frame" THEN 1 ELSE wait_queue_flag
            /\ UNCHANGED <<bit_array, output>>
       ELSE DecodesInHandler /\ UNCHANGED wait_queue_flag
    /\ IF event' = "repeat" THEN signalfunc(output) ELSE UNCHANGED queue
    /\ told' = IF wpc \in {"send", "clear"} THEN told
               ELSE IF /\ event' = "frame" /\ clean' /\ wpc = "wait"
                       /\ wait_queue_flag = 0
                       /\ tx'.kind = "frame" /\ tx'.pos = FrameEdges
                    THEN KeyOfWord(tx'.word) ELSE Unknown
    /\ UNCHANGED <<design, task, i, wpc, loaded, run, apc, check, done>>

UnseenEdge == loaded /\ HiddenEdge /\ UNCHANGED <<driver, app>>

(* wait_function: wait_event_interruptible returns.                        *)
WorkerWakes ==
    /\ wpc = "wait" /\ wait_queue_flag # 0
    /\ wpc' = IF wait_queue_flag = 2 THEN "stopped" ELSE "decode"
    /\ i' = 0
    /\ UNCHANGED <<irVars, design, wait_queue_flag, output, task, bit_array, loaded, told, app>>

(* remote_control_function: one turn of the loop over the intervals.       *)
WorkerDecodesBit ==
    /\ wpc = "decode" /\ i < NBits
    /\ bit_array' = [bit_array EXCEPT ![i] = DecodeBit(i, bit_array)]
    /\ i' = i + 1
    /\ UNCHANGED <<irVars, design, wait_queue_flag, output, task, wpc, loaded, told, app>>

(* The switch over the character.                                          *)
WorkerSwitches ==
    /\ wpc = "decode" /\ i = NBits
    /\ output' = Switch(bit_array)
    /\ wpc' = "send"
    /\ UNCHANGED <<irVars, design, wait_queue_flag, task, bit_array, i, loaded, told, app>>

WorkerSends ==
    /\ wpc = "send"
    /\ signalfunc(output)
    /\ wpc' = "clear"
    /\ UNCHANGED <<irVars, design, wait_queue_flag, output, task, bit_array, i, loaded, told,
                   run, apc, check, done>>

(* Mutant: the thread forgets to reset the flag.                           *)
WorkerKeepsFlag ==
    /\ wpc = "clear"
    /\ told' = Unknown
    /\ wpc' = "wait"
    /\ UNCHANGED <<irVars, design, wait_queue_flag, output, task, bit_array, i, loaded, app>>

WorkerClears ==
    /\ wpc = "clear"
    /\ wait_queue_flag' = 0
    /\ told' = Unknown
    /\ wpc' = "wait"
    /\ UNCHANGED <<irVars, design, output, task, bit_array, i, loaded, app>>

(* sample_ioctl with REG_CURRENT_TASK.                                     *)
sample_ioctl ==
    /\ apc = "opened"
    /\ task' = run
    /\ apc' = "loop"
    /\ UNCHANGED <<irVars, design, wait_queue_flag, output, bit_array, i, wpc, loaded, told,
                   run, check, done, queue>>

(* etx_driver_exit, refused while the device is open.  It frees the        *)
(* interrupt and touches neither wait_queue_flag nor the thread.           *)
etx_driver_exit ==
    /\ loaded /\ ~Alive
    /\ loaded' = FALSE
    /\ UNCHANGED <<irVars, design, wait_queue_flag, output, task, bit_array, i, wpc, told, app>>

-------------------------------------------------------------------------------
(* The application.                                                        *)

AppOpens ==
    /\ apc = "start"
    /\ apc' = IF loaded THEN "opened" ELSE "exited"
    /\ UNCHANGED <<irVars, driver, run, check, done, queue>>

AppLoops ==
    /\ apc = "loop"
    /\ apc' = IF done = 1 THEN "exited" ELSE "spin"
    /\ UNCHANGED <<irVars, driver, run, check, done, queue>>

(* Mutant: the wait does not look at done.                                 *)
AppAwaitsCheck ==
    /\ apc = "spin" /\ check # 0
    /\ apc' = "reset"
    /\ UNCHANGED <<irVars, driver, run, check, done, queue>>

AppLeavesSpin ==
    /\ apc = "spin" /\ (done = 1 \/ check # 0)
    /\ apc' = "reset"
    /\ UNCHANGED <<irVars, driver, run, check, done, queue>>

AppResets ==
    /\ apc = "reset"
    /\ check' = 0
    /\ apc' = "loop"
    /\ UNCHANGED <<irVars, driver, run, done, queue>>

(* Mutant: a value that comes while the loop is not waiting is dropped.    *)
HandlerOnlyInWait ==
    /\ Alive /\ queue # <<>>
    /\ check' = IF apc = "spin" THEN Head(queue) ELSE check
    /\ queue' = Tail(queue)
    /\ UNCHANGED <<irVars, driver, run, apc, done>>

sig_event_handler ==
    /\ Alive /\ queue # <<>>
    /\ check' = Head(queue)
    /\ queue' = Tail(queue)
    /\ UNCHANGED <<irVars, driver, run, apc, done>>

(* Ctrl-C: the handler is installed once (SA_RESETHAND), so a second one   *)
(* ends the process.                                                       *)
ctrl_c_handler ==
    /\ Alive
    /\ IF done = 0 THEN done' = 1 /\ UNCHANGED apc ELSE apc' = "exited" /\ UNCHANGED done
    /\ UNCHANGED <<irVars, driver, run, check, queue>>

(* The application is started again: a new process with fresh globals.     *)
AppRestarts ==
    /\ apc = "exited" /\ run < MaxRuns
    /\ run' = run + 1
    /\ apc' = "start"
    /\ check' = 0 /\ done' = 0 /\ queue' = <<>>
    /\ UNCHANGED <<irVars, driver>>

-------------------------------------------------------------------------------
Init ==
    /\ IrInit
    /\ design \in Designs
    /\ wait_queue_flag = 0 /\ output = 0 /\ task = NULL
    /\ bit_array = [b \in Bits |-> 0] /\ i = 0
    /\ wpc = "wait" /\ loaded = TRUE /\ told = Unknown
    /\ IF design.signals THEN run = 1 /\ apc = "start"      \* no other has an
       ELSE run = MaxRuns /\ apc = "exited"                \* application
    /\ check = 0 /\ done = 0 /\ queue = <<>>

Worker == WorkerWakes \/ WorkerDecodesBit \/ WorkerSwitches \/ WorkerSends \/ WorkerClears
AppStep == AppOpens \/ sample_ioctl \/ AppLoops \/ AppLeavesSpin \/ AppResets

Next ==
    \/ IrqEdge \/ UnseenEdge
    \/ Worker \/ etx_driver_exit
    \/ AppStep \/ sig_event_handler \/ ctrl_c_handler \/ AppRestarts

Spec == Init /\ [][Next]_vars

(* The kernel runs every runnable thread, and delivers a queued signal.    *)
Fairness == WF_vars(Worker) /\ WF_vars(AppStep) /\ WF_vars(sig_event_handler)

FairSpec == Spec /\ Fairness

-------------------------------------------------------------------------------
(* Type invariant of what RemoteSignal adds to the receiver.  Keys are     *)
(* digits; only the process that registered last has values queued, or has *)
(* seen one.                                                               *)
RemoteTypeOK ==
    /\ design \in Designs /\ wait_queue_flag \in {0, 1}
    /\ wpc \in {"wait", "decode", "send", "clear"} /\ i \in 0..NBits
    /\ bit_array \in [Bits -> {0, 1}] /\ output \in 0..9 /\ told \in 0..Kept
    /\ loaded \in BOOLEAN /\ run \in 1..MaxRuns /\ task \in NULL..run
    /\ apc \in {"start", "opened", "loop", "spin", "reset", "exited"}
    /\ check \in 0..9 /\ done \in {0, 1}
    /\ queue \in Seq(0..9) /\ Len(queue) <= MaxPending
    /\ (queue # <<>> \/ check # 0 \/ apc \in {"loop", "spin", "reset"}) => task = run

(* The key sent for a frame is the key that was pressed, provided the      *)
(* frame was heard cleanly by an idle receiver, the thread was waiting     *)
(* when it ended and no further edge arrived before the thread had decoded *)
(* it (diff_time_us is shared with the handler and not protected; the      *)
(* design that decodes in its handler needs only the first).  Bits outside *)
(* the classified window and the first slot, which holds the lead          *)
(* interval, never matter.                                                 *)
Reports(k) == output' = IF k = Kept THEN output ELSE k
DecodeFaithful ==
    [][/\ (wpc = "decode" /\ wpc' = "send" /\ told # Unknown) => Reports(told)
       /\ (~design.thread /\ told' # Unknown) => Reports(told')]_vars

(* A key the thread is about to send to a running, registered process with *)
(* room in its signal queue is eventually seen by that process's handler,  *)
(* whatever repeat codes and edges come in between.  Key 0 is left out:    *)
(* the application cannot tell it from no key.                             *)
SentReachesApp ==
    \A k \in {KeyTable[c] : c \in DOMAIN KeyTable} \ {0} :
        (wpc = "send" /\ output = k /\ task = run /\ Alive /\ Len(queue) < MaxPending)
            ~> (check = k \/ apc = "exited")

(* Ctrl-C ends the application even though its loop spins on two variables *)
(* and signals keep arriving.                                              *)
CtrlCEndsApp == (done = 1) ~> (apc = "exited")

(* The hand-over to the thread is a one-slot mailbox that drops a frame    *)
(* only while an earlier one is being worked on, and decodes nothing twice.*)
mailbox == INSTANCE FrameMailbox WITH
    pending <- wait_queue_flag # 0,
    busy <- wpc \notin {"wait", "stopped"}
MailboxImplemented == mailbox!FairSpec

(* Removing the module ends WaitThread: the thread reports "Event Came     *)
(* From Exit Function" and returns when it finds wait_queue_flag = 2.      *)
ExitEndsThread == ~loaded ~> (wpc = "stopped")

(* The application waits for a signal: one that arrives while it spins     *)
(* ends the wait.                                                          *)
SignalEndsWait == (queue # <<>> /\ apc = "spin") ~> (apc # "spin")
===============================================================================
