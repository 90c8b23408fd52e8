------------------------------ MODULE DriverTable ------------------------------
(***************************************************************************)
(* The table of a driver, and what can be read off it without running it.  *)
(*                                                                         *)
(* A row has the calls of the driver's init function in order, each with   *)
(* the label it jumps to when it fails, the releases behind the labels,    *)
(* and the releases of its exit function; the ways into the driver and     *)
(* what the code behind each must not run without.                         *)
(*                                                                         *)
(* The second half reads a row the way a reviewer does: at this place so   *)
(* much has been taken at most, so much at least, and so much given back.  *)
(* DriverLoadProofs shows that whatever runs meanwhile, a driver does no   *)
(* worse than its row shows.                                               *)
(***************************************************************************)
EXTENDS Naturals, Sequences

CONSTANTS
    Drivers,     \* the names of the drivers
    Table,       \* a row for each of them, see DriverFleet
    Known        \* their defects, see DriverFleet: what each property lets pass

(* A row: load is a sequence of <<resource, label>>, undo of               *)
(* <<label, resource>>, unload of resources; entry gives the resource each *)
(* context comes in by, needs what it must not run without; owner says     *)
(* that an open file holds the module.                                     *)
ASSUME TableAssumption ==
    \A v \in Drivers :
        /\ Table[v].load \in Seq(STRING \X STRING)
        /\ Table[v].undo \in Seq(STRING \X STRING)
        /\ Table[v].unload \in Seq(STRING)
        /\ DOMAIN Table[v].needs = DOMAIN Table[v].entry
        /\ \A c \in DOMAIN Table[v].entry : Table[v].entry[c] \in STRING
        /\ Table[v].owner \in BOOLEAN

(* Kernel timers: a timer that fires is no longer armed, and its function  *)
(* arms it again at the end.  del_timer does not wait for the function.    *)
Timers == {"timer", "timer_led", "timer_servo"}

(* Releasing one of these waits until the code it lets in has returned.    *)
Waiting == {"irq", "hrtimer", "hrtimer_led", "hrtimer_servo", "thread", "attr", "proc"}

(* Readied in the module's own memory: nothing to give back.               *)
Static == {"wq"}

(* Releases that recognise a thing the driver does not have.               *)
Tolerant == {"region", "cdev", "class", "device", "kobj", "attr", "proc", "procdir"}

(* A step that takes nothing and only may fail, a call that cannot fail,   *)
(* and one whose result nobody looks at.                                   *)
Nothing == "-"
CannotFail == "void"
Unchecked == "ignored"

(* The place a label stands at; a plain return is behind the last one.     *)
LabelAt(r, l) ==
    IF \E i \in 1..Len(r.undo) : r.undo[i][1] = l
    THEN CHOOSE i \in 1..Len(r.undo) : r.undo[i][1] = l
    ELSE Len(r.undo) + 1

-------------------------------------------------------------------------------
(* Places of a row: before step i of init, before release j of exit, and   *)
(* before release j of the labels when step i has failed.                  *)

LoadEnd(r) == Len(r.load) + 1
UndoEnd(r) == Len(r.undo) + 1
UnloadEnd(r) == Len(r.unload) + 1

Fallible(r) == {i \in 1..Len(r.load) : r.load[i][2] \notin {CannotFail, Unchecked}}
Label(r, i) == LabelAt(r, r.load[i][2])

(* What init has taken before step i: at most, and whatever failed         *)
(* unnoticed.                                                              *)
Taken(r, i) == {r.load[k][1] : k \in 1..(i - 1)} \ {Nothing}
Sure(r, i) == {r.load[k][1] : k \in {n \in 1..(i - 1) : r.load[n][2] # Unchecked}}
                 \ {Nothing}

(* What exit, and the labels, have given back before release j.            *)
Unloaded(r, j) == {r.unload[k] : k \in 1..(j - 1)}
Undone(r, i, j) == {r.undo[k][2] : k \in Label(r, i)..(j - 1)}

Resources(r) == Taken(r, LoadEnd(r))

-------------------------------------------------------------------------------
(* The reading.  T is what may have been taken, S what has been for        *)
(* certain, D what has been given back.                                    *)

(* Left over: not given back, or a timer, which may be running when it is. *)
Left(T, D) == {x \in T : x \notin D \/ x \in Timers} \ Static

(* Who may be in: all whose way in was taken, unless a release waited for  *)
(* them.                                                                   *)
MayRun(r, T, D) == {c \in DOMAIN r.entry : r.entry[c] \in T /\ r.entry[c] \notin Waiting \cap D}

(* Who may be in without its data.                                         *)
Starved(r, T, S, D) == {c \in MayRun(r, T, D) : ~(r.needs[c] \subseteq S \ (D \cup Timers))}

(* While exit runs a file that holds the module is not open.               *)
ShutOut(r) == IF r.owner THEN {"ops"} ELSE {}

KeptByExit(r) == Left(Resources(r), Unloaded(r, UnloadEnd(r)))
KeptByLabels(r) == UNION {Left(Taken(r, i), Undone(r, i, UndoEnd(r))) : i \in Fallible(r)}

InAfterExit(r) == MayRun(r, Resources(r), Unloaded(r, UnloadEnd(r))) \ ShutOut(r)
InAfterLabels(r) == UNION {MayRun(r, Taken(r, i), Undone(r, i, UndoEnd(r))) : i \in Fallible(r)}

StarvedInLoad(r) == UNION {Starved(r, Taken(r, i), Sure(r, i), {}) : i \in 1..LoadEnd(r)}
StarvedInUndo(r) ==
    UNION {UNION {Starved(r, Taken(r, i), Sure(r, i), Undone(r, i, j)) :
                      j \in Label(r, i)..UndoEnd(r)} : i \in Fallible(r)}
StarvedInExit(r) ==
    (UNION {Starved(r, Resources(r), Sure(r, LoadEnd(r)), Unloaded(r, j)) : j \in 1..UnloadEnd(r)})
        \ ShutOut(r)

(* Given back without having been taken for certain, or a second time.     *)
MisfreedByUndo(r) ==
    UNION {{r.undo[j][2] : j \in {n \in Label(r, i)..Len(r.undo) :
                r.undo[n][2] \notin (Sure(r, i) \ Undone(r, i, n)) \cup Timers}} : i \in Fallible(r)}
MisfreedByExit(r) ==
    {r.unload[j] : j \in {n \in 1..Len(r.unload) :
         r.unload[n] \notin (Sure(r, LoadEnd(r)) \ Unloaded(r, n)) \cup Timers}}

(* The known defects of every driver include all that its row shows.       *)
ReadingIsKnown ==
    \A v \in Drivers : LET r == Table[v] IN
        /\ KeptByExit(r) \subseteq Known[v].unloaded
        /\ KeptByLabels(r) \subseteq Known[v].undone
        /\ InAfterExit(r) \subseteq Known[v].orphans
        /\ InAfterLabels(r) \subseteq Known[v].orphans \cup {"ops"}
        /\ StarvedInLoad(r) \cup StarvedInUndo(r) \cup StarvedInExit(r) \subseteq Known[v].early
        /\ MisfreedByUndo(r) \cup MisfreedByExit(r) \subseteq Known[v].foreign \cup Tolerant
===============================================================================
