------------------------------ MODULE DriverLoad ------------------------------
(***************************************************************************)
(* Loading and unloading a driver while the rest of the machine is live.   *)
(* A driver is a row of Table: the calls of its init function in order,    *)
(* each with the label it jumps to when it fails, the releases behind the  *)
(* labels, and the releases of its exit function.  From the moment a call  *)
(* has made an entry into the driver -- a character device, an interrupt,  *)
(* a timer, a thread -- the code behind it can run, whether or not init    *)
(* has got to the data it uses; and it can still be running when exit or   *)
(* the unwinding has returned.                                             *)
(*                                                                         *)
(* The rows are in DriverFleet.  This module stands for what the kernel    *)
(* does with them: the module loader, del_timer against a running timer    *)
(* function, free_irq, hrtimer_cancel and kthread_stop, which wait.        *)
(***************************************************************************)
EXTENDS DriverTable

VARIABLES
    d,           \* the driver
    phase,       \* loading, undoing, in, unloading, out
    pos,         \* next step of that phase
    failed,      \* the load failed
    held,        \* resources the driver has and has not given back
    running,     \* contexts inside the driver's code
    misfreed     \* history: released although the driver did not hold it

vars == <<d, phase, pos, failed, held, running, misfreed>>

row == Table[d]
Contexts == DOMAIN row.entry

-------------------------------------------------------------------------------
(* init.                                                                   *)

LoadStep == row.load[pos]

Acquire ==
    /\ phase = "loading" /\ pos <= Len(row.load)
    /\ held' = held \cup ({LoadStep[1]} \ {Nothing})
    /\ pos' = pos + 1
    /\ UNCHANGED <<d, phase, failed, running, misfreed>>

(* A call fails and the driver goes on without noticing.                   *)
FailUnnoticed ==
    /\ phase = "loading" /\ pos <= Len(row.load)
    /\ LoadStep[2] = Unchecked
    /\ pos' = pos + 1
    /\ UNCHANGED <<d, phase, failed, held, running, misfreed>>

FailNoticed ==
    /\ phase = "loading" /\ pos <= Len(row.load)
    /\ LoadStep[2] \notin {CannotFail, Unchecked}
    /\ phase' = "undoing" /\ failed' = TRUE
    /\ pos' = LabelAt(row, LoadStep[2])
    /\ UNCHANGED <<d, held, running, misfreed>>

Loaded ==
    /\ phase = "loading" /\ pos > Len(row.load)
    /\ phase' = "in" /\ pos' = 1
    /\ UNCHANGED <<d, failed, held, running, misfreed>>

-------------------------------------------------------------------------------
(* The labels of init, and exit.                                           *)

Release(r) ==
    /\ r \in Waiting => \A c \in running : row.entry[c] # r
    /\ held' = held \ {r}
    /\ misfreed' = IF r \in held \cup Timers THEN misfreed ELSE misfreed \cup {r}

Undo ==
    /\ phase = "undoing" /\ pos <= Len(row.undo)
    /\ Release(row.undo[pos][2])
    /\ pos' = pos + 1
    /\ UNCHANGED <<d, phase, failed, running>>

(* delete_module: refused while a file of the driver is open, if its file  *)
(* operations name their owner.                                            *)
Remove ==
    /\ phase = "in"
    /\ row.owner => "ops" \notin running
    /\ phase' = "unloading" /\ pos' = 1
    /\ UNCHANGED <<d, failed, held, running, misfreed>>

Unload ==
    /\ phase = "unloading" /\ pos <= Len(row.unload)
    /\ Release(row.unload[pos])
    /\ pos' = pos + 1
    /\ UNCHANGED <<d, phase, failed, running>>

(* The code of the driver is freed.                                        *)
Out ==
    /\ \/ phase = "undoing" /\ pos > Len(row.undo)
       \/ phase = "unloading" /\ pos > Len(row.unload)
    /\ phase' = "out" /\ pos' = 1
    /\ UNCHANGED <<d, failed, held, running, misfreed>>

-------------------------------------------------------------------------------
(* The rest of the machine.  For "ops" a run lasts from open to release.   *)

Enter(c) ==
    /\ c \notin running /\ row.entry[c] \in held
    /\ ~(c = "ops" /\ row.owner /\ phase \in {"unloading", "out"})
    /\ running' = running \cup {c}
    /\ held' = held \ ({row.entry[c]} \cap Timers)
    /\ UNCHANGED <<d, phase, pos, failed, misfreed>>

Leave(c) ==
    /\ c \in running
    /\ running' = running \ {c}
    /\ held' = held \cup ({row.entry[c]} \cap Timers)
    /\ UNCHANGED <<d, phase, pos, failed, misfreed>>

-------------------------------------------------------------------------------
Init ==
    /\ d \in Drivers
    /\ phase = "loading" /\ pos = 1 /\ failed = FALSE
    /\ held = {} /\ running = {} /\ misfreed = {}

Next ==
    \/ Acquire \/ FailUnnoticed \/ FailNoticed \/ Loaded
    \/ Undo \/ Remove \/ Unload \/ Out
    \/ \E c \in Contexts : Enter(c) \/ Leave(c)

Spec == Init /\ [][Next]_vars

-------------------------------------------------------------------------------
(* Properties.                                                             *)

(* The place in a phase is a step of it or just behind its last one, and   *)
(* each phase begins at the first.                                         *)
TypeOK ==
    /\ d \in Drivers
    /\ phase \in {"loading", "undoing", "in", "unloading", "out"}
    /\ pos \in Nat \ {0}
    /\ phase = "loading" => pos <= Len(row.load) + 1
    /\ phase = "undoing" => pos <= Len(row.undo) + 1
    /\ phase = "unloading" => pos <= Len(row.unload) + 1
    /\ phase \in {"in", "out"} => pos = 1
    /\ failed \in BOOLEAN
    /\ held \subseteq Resources(row) \cup Timers
    /\ running \subseteq Contexts

(* A driver that was loaded and removed has given back everything it took, *)
(* whatever was running while exit ran: no pin, mapping or interrupt is    *)
(* lost to the next driver, no timer or thread is left armed.              *)
CleanUnload == phase = "out" /\ ~failed => held \ Static \subseteq Known[d].unloaded

(* Wherever init fails, the labels give back everything it had taken.      *)
CleanFailure == phase = "out" /\ failed => held \ Static \subseteq Known[d].undone

(* Once the code of the driver is freed nobody runs it: every interrupt,   *)
(* timer, thread and file that could come in was shut out and waited for.  *)
(* A file opened while init still ran outlives an init that then fails in  *)
(* every driver: the kernel frees the module without looking.              *)
NoOrphanCall ==
    phase = "out" =>
        running \subseteq Known[d].orphans \cup (IF failed THEN {"ops"} ELSE {})

(* No handler, thread or file operation runs without the mapping, buffer   *)
(* or wait queue that it dereferences: init makes the way in after the     *)
(* data, and exit closes it before.                                        *)
NoHandlerBeforeItsData ==
    \A c \in running : row.needs[c] \subseteq held \/ c \in Known[d].early

(* A driver gives back only what it got: not a pin, interrupt or major     *)
(* number that it failed to get because another driver has it.             *)
FreesOnlyItsOwn == misfreed \subseteq Tolerant \cup Known[d].foreign
===============================================================================
