---------------------------- MODULE SharedGlobals -----------------------------
(***************************************************************************)
(* Three drivers whose file operations talk through one global and take no *)
(* lock: the procfs file that ends when len is 0, the function of one      *)
(* module that another calls to count its reads, and the sysfs file        *)
(* through which an application lets an LED follow a button.               *)
(*                                                                         *)
(* Source: driver/procfs_driver/procfs_driver.c,                           *)
(* driver/Export_symbol_proc_kallsyms/symbol1_driver.c and                 *)
(* symbol2_driver.c, driver/sysfs_driver/sysfs_driver.c and                *)
(* app/sysfs_app_button_control_led/sysfs_app_button_control_led.c.        *)
(***************************************************************************)
EXTENDS Naturals

CONSTANTS
    Procs,        \* processes that use the files
    Followers,    \* those that run the sysfs application; the others only read
    MaxCalls      \* bound on calls of the counting function

ASSUME SharedAssumption == MaxCalls \in Nat /\ Followers \subseteq Procs

VARIABLES
    len, cpc,                      \* procfs: the global, each reader
    cut,                           \* history: a reader stopped before the end,
                                   \* and none has come to the end since
    etx_count, kpc, loaded_count,  \* symbols: the global, each caller, what it loaded
    calls, overlapped,             \* history: calls begun; two of them overlapped
    haha_value, button, sysfs_led, \* sysfs: the global and the pins
    bpc, value                     \* each process: where it is, what it last read

procVars == <<len, cpc, cut>>
symbolVars == <<etx_count, kpc, loaded_count, calls, overlapped>>
sysfsVars == <<haha_value, button, sysfs_led, bpc, value>>
sharedVars == <<procVars, symbolVars, sysfsVars>>

-------------------------------------------------------------------------------
(* procfs: a process reads to the end of the file, or stops before.        *)

ProcOpens(p) ==
    /\ cpc[p] = "out"
    /\ cpc' = [cpc EXCEPT ![p] = "read"]
    /\ UNCHANGED <<len, cut>>

(* read_proc looks at len, ...                                             *)
ProcTests(p) ==
    /\ cpc[p] = "read"
    /\ cpc' = [cpc EXCEPT ![p] = IF len # 0 THEN "data" ELSE "eof"]
    /\ UNCHANGED <<len, cut>>

(* Mutant: the end of the file is returned and len left alone.             *)
ProcKeepsLen(p) ==
    /\ cpc[p] = "eof"
    /\ cpc' = [cpc EXCEPT ![p] = "out"] /\ cut' = FALSE
    /\ UNCHANGED len

(* ... sets it and returns the data, after which the process reads on, ... *)
ProcData(p) ==
    /\ cpc[p] = "data"
    /\ len' = 0
    /\ cpc' = [cpc EXCEPT ![p] = "read"]
    /\ UNCHANGED cut

(* ... or nothing, the end of the file.                                    *)
ProcEof(p) ==
    /\ cpc[p] = "eof"
    /\ len' = 1
    /\ cpc' = [cpc EXCEPT ![p] = "out"] /\ cut' = FALSE

Cat(p) == ProcTests(p) \/ ProcData(p) \/ ProcEof(p)

(* release_proc leaves len as the reads have left it.                      *)
ProcStops(p) ==
    /\ cpc[p] = "read"
    /\ cpc' = [cpc EXCEPT ![p] = "out"] /\ cut' = TRUE
    /\ UNCHANGED len

ProcNext == (\E p \in Procs : ProcOpens(p) \/ Cat(p) \/ ProcStops(p))
            /\ UNCHANGED <<symbolVars, sysfsVars>>

-------------------------------------------------------------------------------
(* Exported symbols: a read of the second module's device calls            *)
(* etx_shared_func of the first: etx_count++.                              *)

CountLoads(p) ==
    /\ kpc[p] = "out" /\ calls < MaxCalls
    /\ loaded_count' = [loaded_count EXCEPT ![p] = etx_count]
    /\ kpc' = [kpc EXCEPT ![p] = "store"]
    /\ calls' = calls + 1
    /\ overlapped' = (overlapped \/ \E q \in Procs : kpc[q] = "store")
    /\ UNCHANGED etx_count

CountStores(p) ==
    /\ kpc[p] = "store"
    /\ etx_count' = loaded_count[p] + 1
    /\ kpc' = [kpc EXCEPT ![p] = "out"]
    /\ UNCHANGED <<loaded_count, calls, overlapped>>

SymbolNext == (\E p \in Procs : CountLoads(p) \/ CountStores(p))
              /\ UNCHANGED <<procVars, sysfsVars>>

-------------------------------------------------------------------------------
(* sysfs: the application writes what it last read, and reads again;       *)
(* another process may read the file at any time.                          *)

ButtonMoves ==
    /\ button' = 1 - button
    /\ UNCHANGED <<haha_value, sysfs_led, bpc, value>>

(* sysfs_store: sscanf into the global, ...                                *)
StoreScans(p) ==
    /\ bpc[p] = "scan"
    /\ haha_value' = IF value[p] = 0 THEN 0 ELSE 1
    /\ bpc' = [bpc EXCEPT ![p] = "set"]
    /\ UNCHANGED <<button, sysfs_led, value>>

(* ... and the LED by what is in it then.                                  *)
StoreSets(p) ==
    /\ bpc[p] = "set"
    /\ sysfs_led' = IF haha_value = 0 THEN 0 ELSE 1
    /\ bpc' = [bpc EXCEPT ![p] = "sample"]
    /\ UNCHANGED <<haha_value, button, value>>

(* Mutant: the button is not looked at.                                    *)
ShowsStored(p) ==
    /\ bpc[p] = "sample"
    /\ bpc' = [bpc EXCEPT ![p] = "show"]
    /\ UNCHANGED <<haha_value, button, sysfs_led, value>>

(* sysfs_show: the button into the global, ...                             *)
ShowSamples(p) ==
    /\ bpc[p] = "sample"
    /\ haha_value' = button
    /\ bpc' = [bpc EXCEPT ![p] = "show"]
    /\ UNCHANGED <<button, sysfs_led, value>>

(* ... and what is in it then to the process.                              *)
ShowPrints(p) ==
    /\ bpc[p] = "show"
    /\ value' = [value EXCEPT ![p] = haha_value]
    /\ bpc' = [bpc EXCEPT ![p] = IF p \in Followers THEN "scan" ELSE "sample"]
    /\ UNCHANGED <<haha_value, button, sysfs_led>>

Follows(p) == StoreScans(p) \/ StoreSets(p) \/ ShowSamples(p) \/ ShowPrints(p)
SysfsStep(p) == Follows(p) /\ UNCHANGED <<procVars, symbolVars>>
SysfsNext == \/ ButtonMoves /\ UNCHANGED <<procVars, symbolVars>>
             \/ \E p \in Procs : SysfsStep(p)

-------------------------------------------------------------------------------
(* value = 1 in the application: not the character '0', so it writes "1".  *)
SharedInit ==
    /\ len = 1 /\ cpc = [p \in Procs |-> "out"] /\ cut = FALSE
    /\ etx_count = 0 /\ kpc = [p \in Procs |-> "out"]
    /\ loaded_count = [p \in Procs |-> 0] /\ calls = 0 /\ overlapped = FALSE
    /\ haha_value = 0 /\ button = 0 /\ sysfs_led = 0
    /\ bpc = [p \in Procs |-> IF p \in Followers THEN "scan" ELSE "sample"]
    /\ value = [p \in Procs |-> 1]

SharedNext == ProcNext \/ SymbolNext \/ SysfsNext
SharedSpec == SharedInit /\ [][SharedNext]_sharedVars

(* The applications loop for ever.                                         *)
SharedFairness == \A p \in Followers : WF_sharedVars(SysfsStep(p))

-------------------------------------------------------------------------------
(* What processes that are through leave behind is what one alone would    *)
(* leave: the next one finds the procfs file with its data, whoever read   *)
(* it under whom, unless a process stopped before the end and none has     *)
(* come to the end since; every call is counted unless two of them         *)
(* overlapped, and a lost count is all that can come of that.              *)
QuietIsSequential ==
    /\ (\A p \in Procs : cpc[p] = "out") /\ ~cut => len = 1
    /\ (\A p \in Procs : kpc[p] = "out") /\ ~overlapped => etx_count = calls
    /\ etx_count <= calls

(* The LED follows the button: if the button stays where it is, the LED    *)
(* comes to show it and goes on to, though the application writes what it  *)
(* read a while ago and others read the file, which sets haha_value.  It   *)
(* takes one application: two can hand an old value to each other for ever.*)
LedFollowsButton == \A b \in {0, 1} : <>[](button = b) => <>[](sysfs_led = b)
===============================================================================
