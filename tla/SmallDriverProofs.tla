--------------------------- MODULE SmallDriverProofs --------------------------
(* Proofs about the message, procfs, symbol, pulse, signal and debounced   *)
(* button drivers.                                                         *)
EXTENDS ButtonMsg, SharedGlobals, PwmTimers, SendingSignal, Debounce, TLAPS

-------------------------------------------------------------------------------
(* Messages.  What process p has printed, holds in its buffer or would     *)
(* still find in the message never exceeds the pushes; while p is about to *)
(* clear the message, what is in it does not count.                        *)
Held(p) == IF mpc[p] # "copy" THEN buf_first[p] ELSE 0
Findable(p) == IF mpc[p] # "clear" THEN msg_first ELSE 0
MsgTypes ==
    /\ count \in Nat /\ msg_first \in {0, 1}
    /\ mpc \in [Pollers -> {"copy", "clear", "clear_rest", "print"}]
    /\ buf_first \in [Pollers -> {0, 1}]
    /\ printed_by \in [Pollers -> Nat]
Backed(p) == printed_by[p] + Held(p) + Findable(p) <= count
Messages == MsgTypes /\ \A p \in Pollers : Backed(p)

(* Nothing is pushed or printed at the start.                              *)
LEMMA MessagesInit == MsgInit => Messages
  BY SMT DEF MsgInit, Messages, MsgTypes, Backed, Held, Findable

(* A push is one more to print; whoever copies, clears and prints moves    *)
(* one message on and makes none.                                          *)
LEMMA MessagesNext == Messages /\ [MsgNext]_msgVars => Messages'
<1> SUFFICES ASSUME Messages, [MsgNext]_msgVars PROVE Messages'
  OBVIOUS
<1> USE DEF Messages, MsgTypes
<1>1. CASE PushBegins
  BY <1>1, SMT DEF PushBegins, poller, Backed, Held, Findable
<1>2. CASE PushEnds
  BY <1>2, SMT DEF PushEnds, poller, Backed, Held, Findable
<1>3. ASSUME NEW p \in Pollers, Polls(p) PROVE Messages'
  <2>1. CASE ReadCopies(p)
    BY <2>1, SMT DEF ReadCopies, driverMsg, Backed, Held, Findable
  <2>2. CASE ReadClears(p)
    BY <2>2, SMT DEF ReadClears, Backed, Held, Findable
  <2>3. CASE ReadClearsRest(p)
    BY <2>3, SMT DEF ReadClearsRest, Backed, Held, Findable
  <2>4. CASE Prints(p)
    BY <2>4, SMT DEF Prints, driverMsg, Backed, Held, Findable
  <2> QED
    BY <1>3, <2>1, <2>2, <2>3, <2>4 DEF Polls
<1>4. CASE UNCHANGED msgVars
  BY <1>4 DEF msgVars, driverMsg, poller, Backed, Held, Findable
<1> QED
  BY <1>1, <1>2, <1>3, <1>4 DEF MsgNext

(* For any number of processes and pushes: none prints more messages than  *)
(* were pushed, though they clear the message under each other.            *)
THEOREM MessagesAreBacked == MsgSpec => []PrintsBacked
<1>1. Messages => PrintsBacked
  <2> SUFFICES ASSUME Messages, NEW p \in Pollers PROVE printed_by[p] <= count
    BY DEF PrintsBacked
  <2>1. count \in Nat /\ printed_by[p] \in Nat /\ Held(p) \in Nat /\ Findable(p) \in Nat
    BY SMT DEF Messages, MsgTypes, Held, Findable
  <2>2. printed_by[p] + Held(p) + Findable(p) <= count
    BY DEF Messages, Backed
  <2> QED
    BY <2>1, <2>2, SMT
<1> QED
  BY <1>1, MessagesInit, MessagesNext, PTL DEF MsgSpec

-------------------------------------------------------------------------------
(* Globals without a lock.  The last reader out of the procfs file has set *)
(* len or stopped; a caller that is to store has loaded a value calls are  *)
(* ahead of, and the latest one if nobody overlapped.                      *)
ProcsKept ==
    /\ cpc \in [Procs -> {"out", "read", "data", "eof"}]
    /\ (\A p \in Procs : cpc[p] = "out") /\ ~cut => len = 1
SymbolTypes ==
    /\ kpc \in [Procs -> {"out", "store"}]
    /\ etx_count \in Nat /\ calls \in Nat /\ loaded_count \in [Procs -> Nat]
    /\ overlapped \in BOOLEAN
Behind ==
    /\ etx_count <= calls
    /\ \A p \in Procs : kpc[p] = "store" => loaded_count[p] < calls
Alone ==
    ~overlapped =>
        /\ (\A p \in Procs : kpc[p] = "out") => etx_count = calls
        /\ \A p \in Procs : kpc[p] = "store" =>
              /\ loaded_count[p] = etx_count /\ calls = etx_count + 1
              /\ \A q \in Procs : q # p => kpc[q] = "out"
Globals == ProcsKept /\ SymbolTypes /\ Behind /\ Alone

(* The files are closed and nothing is counted at the start.               *)
LEMMA GlobalsInit == SharedInit => Globals
<1> SUFFICES ASSUME SharedInit PROVE Globals
  OBVIOUS
<1>1. ProcsKept
  BY SMT DEF SharedInit, ProcsKept
<1>2. SymbolTypes
  <2>1. overlapped \in BOOLEAN
    BY Zenon DEF SharedInit
  <2> QED
    BY <2>1, SMT DEF SharedInit, SymbolTypes
<1>3. Behind /\ Alone
  BY SMT DEF SharedInit, Behind, Alone
<1> QED
  BY <1>1, <1>2, <1>3 DEF Globals

(* A step at the procfs file.                                              *)
LEMMA ProcStep == ASSUME ProcsKept, ProcNext PROVE ProcsKept'
<1>1. PICK p \in Procs : ProcOpens(p) \/ Cat(p) \/ ProcStops(p)
  BY DEF ProcNext
<1> QED
  BY <1>1, SMT DEF ProcsKept, ProcOpens, Cat, ProcTests, ProcData, ProcEof, ProcStops

(* A call's first half.                                                    *)
LEMMA LoadStep ==
  ASSUME SymbolTypes, Behind, Alone, NEW p \in Procs, CountLoads(p)
  PROVE  SymbolTypes' /\ Behind' /\ Alone'
<1>1. SymbolTypes'
  BY SMT DEF SymbolTypes, CountLoads
<1>2. Behind'
  BY SMT DEF SymbolTypes, Behind, CountLoads
<1>3. Alone'
  <2> SUFFICES ASSUME ~overlapped' PROVE Alone'
    BY DEF Alone
  <2>0. ~overlapped /\ \A q \in Procs : kpc[q] # "store"
    BY Zenon DEF CountLoads
  <2>1. ~overlapped /\ \A q \in Procs : kpc[q] = "out"
    BY <2>0, SMT DEF SymbolTypes
  <2>2. etx_count = calls
    BY <2>1, Zenon DEF Alone
  <2>3. /\ kpc'[p] = "store" /\ loaded_count'[p] = etx_count'
        /\ \A q \in Procs : q # p => kpc'[q] = "out"
    BY <2>1, Zenon DEF SymbolTypes, CountLoads
  <2>4. calls' = etx_count' + 1
    BY <2>2, SMT DEF CountLoads
  <2> QED
    BY <2>3, <2>4, Zenon DEF Alone
<1> QED
  BY <1>1, <1>2, <1>3

(* And its second.                                                         *)
LEMMA StoreStep ==
  ASSUME SymbolTypes, Behind, Alone, NEW p \in Procs, CountStores(p)
  PROVE  SymbolTypes' /\ Behind' /\ Alone'
<1>1. SymbolTypes'
  BY SMT DEF SymbolTypes, CountStores
<1>2. Behind'
  BY SMT DEF SymbolTypes, Behind, CountStores
<1>3. Alone'
  BY SMT DEF SymbolTypes, Behind, Alone, CountStores
<1> QED
  BY <1>1, <1>2, <1>3

(* The three files keep out of each other's variables.                     *)
LEMMA GlobalsNext == Globals /\ [SharedNext]_sharedVars => Globals'
<1> SUFFICES ASSUME Globals, [SharedNext]_sharedVars PROVE Globals'
  OBVIOUS
<1>1. CASE ProcNext
  <2>1. UNCHANGED symbolVars
    BY <1>1 DEF ProcNext
  <2> QED
    BY <1>1, <2>1, ProcStep DEF Globals, SymbolTypes, Behind, Alone, symbolVars
<1>2. CASE SymbolNext
  <2>1. UNCHANGED procVars
    BY <1>2 DEF SymbolNext
  <2>2. PICK p \in Procs : CountLoads(p) \/ CountStores(p)
    BY <1>2 DEF SymbolNext
  <2> QED
    BY <2>1, <2>2, LoadStep, StoreStep DEF Globals, ProcsKept, procVars
<1>3. CASE SysfsNext \/ UNCHANGED sharedVars
  <2>1. UNCHANGED <<procVars, symbolVars>>
    BY <1>3 DEF SysfsNext, SysfsStep, sharedVars
  <2> QED
    BY <2>1 DEF Globals, ProcsKept, SymbolTypes, Behind, Alone, procVars, symbolVars
<1> QED
  BY <1>1, <1>2, <1>3 DEF SharedNext

(* For any number of processes: those that are through leave behind what   *)
(* one alone would, and never a count too many.                            *)
THEOREM QuietAsSequential == SharedSpec => []QuietIsSequential
<1>1. Globals => QuietIsSequential
  BY DEF Globals, ProcsKept, Behind, Alone, QuietIsSequential
<1> QED
  BY <1>1, GlobalsInit, GlobalsNext, PTL DEF SharedSpec

-------------------------------------------------------------------------------
(* Pulse trains.  Within the on phase the duty is the time armed for, plus *)
(* the steps since, less what a wrap took off.                             *)
TrainTypes ==
    /\ train \in Trains /\ flag \in {0, 1} /\ stepping \in BOOLEAN
    /\ duty \in Int /\ on_time \in Int /\ period \in Int /\ steps \in Int /\ gain \in Int
DutyInRange ==
    /\ train.first <= duty /\ duty <= train.wrap
    /\ ~stepping => duty < train.wrap
    /\ train.first <= on_time
PhaseKept ==
    IF flag = 0 THEN duty = on_time + steps - gain
    ELSE period = train.total - steps + gain
(* The loop: one duty, one count of turns, and the pin high while the      *)
(* turns are fewer than the duty.                                          *)
LoopKept ==
    /\ turn \in 0 .. Turns /\ turn_duty = turn
    /\ soft_duty \in 0 .. DutyWrap - 1
    /\ turn = 0 => soft_duty = 0 /\ high = 0
    /\ turn > 0 => /\ soft_pin = IF turn <= soft_duty THEN 1 ELSE 0
                   /\ high = IF turn <= soft_duty THEN turn ELSE soft_duty
Pulses == TrainTypes /\ DutyInRange /\ PhaseKept /\ LoopKept

(* The numbers of a row.                                                   *)
LEMMA Rows ==
  ASSUME NEW t \in Trains
  PROVE  /\ t.first \in Int /\ t.wrap \in Int /\ t.total \in Int
         /\ t.first < t.wrap /\ t.wrap <= t.total
  BY PwmAssumption, SMT DEF PwmAssumption

(* At the start a whole period is over and the loop has not turned.        *)
LEMMA PulsesInit == PwmInit => Pulses
<1> SUFFICES ASSUME PwmInit PROVE Pulses
  OBVIOUS
<1>1. TrainTypes /\ DutyInRange /\ PhaseKept
  <2>1. /\ train \in Trains /\ train.first \in Int /\ train.total \in Int
        /\ train.wrap \in Int /\ train.first < train.wrap
    BY Rows DEF PwmInit
  <2>a. stepping \in BOOLEAN
    BY Zenon DEF PwmInit
  <2>2. TrainTypes
    BY <2>1, <2>a, SMT DEF PwmInit, TrainTypes
  <2> QED
    BY <2>1, <2>2, SMT DEF PwmInit, DutyInRange, PhaseKept
<1>2. LoopKept
  BY PwmAssumption, SMT DEF PwmInit, LoopKept, PwmAssumption
<1> QED
  BY <1>1, <1>2 DEF Pulses

(* The timers: stepping and wrapping the duty moves it and its account     *)
(* alike, wherever the phase changes.                                      *)
LEMMA TimersStep ==
  ASSUME TrainTypes, DutyInRange, PhaseKept, Timers
  PROVE  TrainTypes' /\ DutyInRange' /\ PhaseKept'
<1>0. /\ train.first \in Int /\ train.wrap \in Int /\ train.total \in Int
      /\ train.first < train.wrap /\ train.wrap <= train.total
  BY Rows DEF TrainTypes
<1>1. CASE PhaseOn
  BY <1>0, <1>1, SMT DEF PhaseOn, TrainTypes, DutyInRange, PhaseKept
<1>2. CASE PhaseOff
  BY <1>0, <1>2, SMT DEF PhaseOff, TrainTypes, DutyInRange, PhaseKept
<1>3. CASE DutySteps
  BY <1>0, <1>3, SMT DEF DutySteps, TrainTypes, DutyInRange, PhaseKept
<1>4. CASE DutyWraps
  <2>a. stepping' \in BOOLEAN /\ UNCHANGED <<train, flag, on_time, period, steps>>
    BY <1>4, Zenon DEF DutyWraps
  <2>1. CASE duty = train.wrap
    <3>1. /\ duty' = train.first
          /\ gain' = IF flag = 0 THEN gain + (duty - train.first) ELSE gain
      BY <1>4, <2>1, Zenon DEF DutyWraps
    <3>2. TrainTypes'
      BY <1>0, <2>a, <3>1, SMT DEF TrainTypes
    <3> QED
      BY <1>0, <2>a, <2>1, <3>1, <3>2, SMT DEF TrainTypes, DutyInRange, PhaseKept
  <2>2. CASE duty # train.wrap
    <3>1. duty' = duty /\ gain' = gain
      BY <1>4, <2>2, Zenon DEF DutyWraps
    <3>2. TrainTypes'
      BY <2>a, <3>1, SMT DEF TrainTypes
    <3> QED
      BY <1>0, <2>a, <2>2, <3>1, <3>2, SMT DEF TrainTypes, DutyInRange, PhaseKept
  <2> QED
    BY <2>1, <2>2
<1> QED
  BY <1>1, <1>2, <1>3, <1>4 DEF Timers

(* A turn of the loop.                                                     *)
LEMMA TurnStep == ASSUME LoopKept, LoopTurns PROVE LoopKept'
<1> USE PwmAssumption DEF PwmAssumption
<1>1. CASE turn = Turns
  BY <1>1, SMT DEF LoopKept, LoopTurns
<1>2. CASE turn # Turns
  <2>1. /\ turn' = turn + 1 /\ turn_duty' = turn + 1 /\ soft_duty' = soft_duty
        /\ soft_pin' = IF turn = soft_duty THEN 0 ELSE soft_pin
        /\ high' = high + soft_pin'
    BY <1>2, SMT DEF LoopKept, LoopTurns
  <2>2. CASE turn = 0
    BY <1>2, <2>1, <2>2, SMT DEF LoopKept
  <2>3. CASE turn > 0
    <3>1. CASE turn <= soft_duty
      BY <1>2, <2>1, <2>3, <3>1, SMT DEF LoopKept
    <3>2. CASE turn > soft_duty
      <4>1. /\ turn \in 0 .. Turns /\ soft_duty \in 0 .. DutyWrap - 1
            /\ soft_pin = 0 /\ high = soft_duty
        BY <2>3, <3>2, SMT DEF LoopKept
      <4>2. soft_pin' = 0 /\ high' = soft_duty
        BY <2>1, <4>1, SMT
      <4>3. turn' \in 0 .. Turns /\ turn' > 0 /\ ~(turn' <= soft_duty)
        BY <1>2, <2>1, <2>3, <3>2, <4>1, SMT
      <4> QED
        BY <2>1, <4>1, <4>2, <4>3, SMT DEF LoopKept
    <3> QED
      BY <3>1, <3>2, SMT DEF LoopKept
  <2> QED
    BY <2>2, <2>3, SMT DEF LoopKept
<1> QED
  BY <1>1, <1>2

(* The train and the loop share nothing.                                   *)
LEMMA PulsesNext == Pulses /\ [PwmNext]_pwmVars => Pulses'
<1> SUFFICES ASSUME Pulses, [PwmNext]_pwmVars PROVE Pulses'
  OBVIOUS
<1>1. CASE TimersNext
  BY <1>1, TimersStep DEF TimersNext, Pulses, LoopKept, softVars
<1>2. CASE LoopNext
  BY <1>2, TurnStep DEF LoopNext, Pulses, TrainTypes, DutyInRange, PhaseKept, hrVars
<1>3. CASE UNCHANGED pwmVars
  BY <1>3 DEF pwmVars, hrVars, softVars, Pulses, TrainTypes, DutyInRange, PhaseKept, LoopKept
<1> QED
  BY <1>1, <1>2, <1>3 DEF PwmNext

(* For every train and any number of steps: no phase is armed for less     *)
(* than nothing, and a period is off by the steps in its on phase alone.   *)
THEOREM PeriodsAddUp == PwmSpec => []PeriodAddsUp
<1>1. Pulses => PeriodAddsUp
  <2> SUFFICES ASSUME Pulses PROVE PeriodAddsUp
    OBVIOUS
  <2>0. /\ train.first \in Int /\ train.wrap \in Int /\ train.total \in Int
        /\ train.wrap <= train.total
    BY Rows DEF Pulses, TrainTypes
  <2> QED
    BY <2>0, SMT DEF Pulses, TrainTypes, DutyInRange, PhaseKept, PeriodAddsUp
<1> QED
  BY <1>1, PulsesInit, PulsesNext, PTL DEF PwmSpec

(* For every length of the period and every wrap: the pin is high for as   *)
(* many turns as the duty says.                                            *)
THEOREM PulsesAreDuty == PwmSpec => []PulseIsDuty
<1>1. Pulses => PulseIsDuty
  BY PwmAssumption, SMT DEF Pulses, LoopKept, PulseIsDuty, PwmAssumption
<1> QED
  BY <1>1, PulsesInit, PulsesNext, PTL DEF PwmSpec

-------------------------------------------------------------------------------
(* Signals.  TaskIsLast is inductive with the types it needs.              *)
SigTypes ==
    /\ task \in Clients \cup {NULL} /\ last \in Clients \cup {NULL}
    /\ sigpc \in [Clients -> {"out", "started", "opened", "loop", "spin", "reset", "close"}]
LastOnly == SigTypes /\ TaskIsLast

(* A process leaves Registered only through sample_release, which looks    *)
(* whether it is the one in task, and enters it only through sample_ioctl. *)
LEMMA LastOnlyNext == LastOnly /\ [SigNext]_sigVars => LastOnly'
<1> SUFFICES ASSUME LastOnly, [SigNext]_sigVars PROVE LastOnly'
  OBVIOUS
<1> USE SendingAssumption DEF LastOnly, SigTypes, TaskIsLast, Registered, Goes, At
<1>1. CASE Timer
  BY <1>1 DEF Timer, TimerTests, TimerSends, client
<1>2. ASSUME NEW p \in Clients, sample_release(p) PROVE LastOnly'
  BY <1>2 DEF sample_release
<1>3. ASSUME NEW p \in Clients, Runs(p) PROVE LastOnly'
  <2>1. CASE sample_ioctl(p)
    BY <2>1 DEF sample_ioctl
  <2>2. CASE Loop(p)
    BY <2>2 DEF Loop
  <2>3. CASE LeavesSpin(p)
    BY <2>3 DEF LeavesSpin
  <2>4. CASE Resets(p)
    BY <2>4 DEF Resets
  <2>5. CASE Closes(p)
    BY <2>5, <1>2 DEF Closes
  <2>6. CASE Opens(p)
    BY <2>6 DEF Opens
  <2> QED
    BY <1>3, <2>1, <2>2, <2>3, <2>4, <2>5, <2>6 DEF Runs
<1>4. ASSUME NEW p \in Clients, Handles(p) PROVE LastOnly'
  BY <1>4 DEF Handles, sig_event_handler
<1>5. ASSUME NEW p \in Clients, Starts(p) PROVE LastOnly'
  BY <1>5 DEF Starts
<1>6. ASSUME NEW p \in Clients, ctrl_c_handler(p) PROVE LastOnly'
  BY <1>6, <1>2 DEF ctrl_c_handler
<1>7. CASE UNCHANGED sigVars
  BY <1>7 DEF sigVars, client
<1> QED
  BY <1>1, <1>3, <1>4, <1>5, <1>6, <1>7 DEF SigNext

(* For any number of processes: task holds the one that registered last    *)
(* while it runs, and nobody afterwards.                                   *)
THEOREM TaskIsTheLast == SigSpec => []TaskIsLast
<1>1. SigInit => LastOnly
  BY SendingAssumption DEF SigInit, LastOnly, SigTypes, TaskIsLast
<1>2. LastOnly => TaskIsLast
  BY DEF LastOnly
<1> QED
  BY <1>1, <1>2, LastOnlyNext, PTL DEF SigSpec

-------------------------------------------------------------------------------
(* The debounced button.  The types, of the flags and of the numbers.      *)
Flags ==
    /\ edge \in BOOLEAN /\ dpc \in {"idle", "take"}
    /\ expect \in {"none", "one", "any"}
Counts ==
    /\ jiffies \in 0 .. Wrap - 1 /\ old_jiffie \in 0 .. Wrap - 1
    /\ late \in 0 .. Latency /\ since \in 0 .. Gap /\ idle \in 0 .. Wrap
    /\ toggles \in {0, 1}

(* How long after a movement the handler still has to do with it.  An edge    *)
(* latched while the handler takes another one waits longer, but then the  *)
(* handler has only just taken one.                                        *)
Timed ==
    /\ ~Due => late = 0
    /\ dpc = "take" => since <= Bounce + late
    /\ edge /\ dpc = "idle" => \/ since <= Bounce + late
                               \/ idle <= late /\ since <= Bounce + Latency + late

(* The subtraction gives the true age of old_jiffie, until it comes round. *)
Clock == idle < Wrap => jiffies - old_jiffie = idle \/ jiffies - old_jiffie = idle - Wrap

(* A press after the window that is not taken yet will be, a movement      *)
(* within it will not, and one that is taken is not taken again.           *)
Pending ==
    expect = "one" /\ toggles = 0 =>
        /\ Due /\ Window <= idle /\ since <= idle
        /\ idle - since + Settling < Wrap
Quiet ==
    expect = "none" => /\ toggles = 0 /\ dpc = "idle"
                       /\ since < Gap => idle - since + Settling < Window
Taken ==
    toggles = 1 => dpc = "idle" /\ (since < Gap => idle <= since)

Debounced == Flags /\ Counts /\ Timed /\ Clock /\ Pending /\ Quiet /\ Taken

USE DebounceAssumption DEF DebounceAssumption, Settling

(* Whatever is due, is due soon after the press.                           *)
LEMMA DueSoon ==
  ASSUME Debounced, Due
  PROVE  since <= Bounce + 2 * Latency /\ since < Gap /\ since < Window
  BY SMT DEF Debounced, Flags, Counts, Timed, Due

(* While it has not come round, the test sees the true age.                *)
LEMMA TrueAge == ASSUME Debounced, idle < Wrap PROVE Diff = idle
  BY SMT DEF Debounced, Counts, Clock, Diff

(* Nothing is due and the button has not moved at the start.               *)
LEMMA DebouncedInit == DebInit => Debounced
<1> SUFFICES ASSUME DebInit PROVE Debounced
  OBVIOUS
<1>1. Flags
  BY Zenon DEF DebInit, Flags
<1>2. Counts /\ Clock
  BY SMT DEF DebInit, Counts, Clock
<1>3. expect = "any" /\ ~edge /\ dpc = "idle" /\ late = 0 /\ toggles = 0
  BY Zenon DEF DebInit
<1>4. Timed /\ Pending /\ Quiet /\ Taken
  BY <1>3, SMT DEF Timed, Pending, Quiet, Taken, Due
<1> QED
  BY <1>1, <1>2, <1>4 DEF Debounced

(* A movement finds nothing due; a press makes an edge, a release none.    *)
LEMMA MovesStep ==
  ASSUME Debounced, NEW ifOld \in {"one", "any"}, Moves(ifOld),
         edge' \in BOOLEAN, edge' = edge \/ edge' = TRUE, ifOld = "one" => edge'
  PROVE  Debounced'
<1>1. ~Due /\ ~edge /\ late = 0 /\ dpc = "idle"
  BY DueSoon, SMT DEF Debounced, Flags, Counts, Timed, Due, Moves
<1>2. /\ since' = 0 /\ toggles' = 0
      /\ UNCHANGED <<jiffies, old_jiffie, late, dpc, idle>>
      /\ expect' = IF idle + Settling < Window THEN "none"
                   ELSE IF Window <= idle /\ idle + Settling < Wrap THEN ifOld
                   ELSE "any"
  BY Zenon DEF Moves
<1>3. Flags'
  BY <1>1, <1>2, SMT DEF Flags
<1>4. Counts' /\ Clock' /\ Taken'
  BY <1>2, SMT DEF Debounced, Counts, Clock, Taken
<1>5. Timed'
  BY <1>1, <1>2, SMT DEF Timed, Due
<1>6. Pending'
  <2> SUFFICES ASSUME expect' = "one" PROVE Pending'
    BY Zenon DEF Pending
  <2>1. Window <= idle /\ idle + Settling < Wrap /\ ifOld = "one"
    BY <1>2, SMT
  <2>2. Due'
    BY <2>1, Zenon DEF Due
  <2> QED
    BY <1>2, <2>1, <2>2, SMT DEF Debounced, Counts, Pending
<1>7. Quiet'
  <2> SUFFICES ASSUME expect' = "none" PROVE Quiet'
    BY Zenon DEF Quiet
  <2>1. idle + Settling < Window
    BY <1>2, SMT
  <2> QED
    BY <1>1, <1>2, <2>1, SMT DEF Debounced, Counts, Quiet
<1> QED
  BY <1>3, <1>4, <1>5, <1>6, <1>7 DEF Debounced

(* A press is an edge.                                                     *)
LEMMA PressStep == ASSUME Debounced, PressBegins PROVE Debounced'
  BY MovesStep, Zenon DEF PressBegins

(* A release is none.                                                      *)
LEMMA ReleaseStep == ASSUME Debounced, ReleaseBegins PROVE Debounced'
  BY MovesStep, Zenon DEF ReleaseBegins, Debounced, Flags

(* A bounce comes soon after the movement.                                 *)
LEMMA BounceStep == ASSUME Debounced, Bounces PROVE Debounced'
<1>1. edge' /\ Due' /\ edge' \in BOOLEAN
      /\ UNCHANGED <<jiffies, old_jiffie, dpc, since, idle, late, expect, toggles>>
  BY Zenon DEF Bounces, Due, contact
<1>2. Flags' /\ Counts' /\ Clock' /\ Taken' /\ Quiet'
  BY <1>1, Zenon DEF Debounced, Flags, Counts, Clock, Taken, Quiet
<1>4. Timed'
  BY <1>1, SMT DEF Debounced, Counts, Timed, Bounces
<1>5. Pending'
  BY <1>1, Zenon DEF Debounced, Pending
<1> QED
  BY <1>2, <1>4, <1>5 DEF Debounced

(* The handler drops what is too near, and nothing else.                   *)
LEMMA TestsStep == ASSUME Debounced, HandlerTests PROVE Debounced'
<1>1. edge /\ dpc = "idle" /\ Due /\ edge' = FALSE
  BY Zenon DEF HandlerTests, Due
<1>2. UNCHANGED <<jiffies, old_jiffie, since, idle, toggles, expect>>
  BY Zenon DEF HandlerTests, contact
<1>3. Clock'
  BY <1>2, Zenon DEF Debounced, Clock
<1>4. since < Window /\ since < Gap /\ since <= Bounce + 2 * Latency
  BY <1>1, DueSoon
<1>5. CASE Diff < Window
  <2>1. late' = 0 /\ dpc' = "idle" /\ ~Due'
    BY <1>1, <1>5, Zenon DEF HandlerTests, Due
  <2>a. Flags'
    BY <1>1, <1>2, <2>1, Zenon DEF Debounced, Flags
  <2>b. Timed'
    BY <1>1, <2>1, SMT DEF Timed
  <2>2. Flags' /\ Timed'
    BY <2>a, <2>b
  <2>3. Counts' /\ Taken'
    BY <1>2, <2>1, SMT DEF Debounced, Counts, Taken
  <2>4. ~(expect = "one" /\ toggles = 0)
    <3> SUFFICES ASSUME expect = "one", toggles = 0 PROVE FALSE
      BY Zenon
    <3>1. Window <= idle /\ idle - since + Settling < Wrap
      BY Zenon DEF Debounced, Pending
    <3>2. idle < Wrap
      BY <1>4, <3>1, SMT DEF Debounced, Counts
    <3> QED
      BY <1>5, <3>1, <3>2, TrueAge, SMT DEF Debounced, Counts
  <2>5. Pending'
    BY <1>2, <2>4, Zenon DEF Pending
  <2>6. Quiet'
    BY <1>2, <2>1, Zenon DEF Debounced, Quiet
  <2> QED
    BY <1>3, <2>2, <2>3, <2>5, <2>6 DEF Debounced
<1>6. CASE ~(Diff < Window)
  <2>1. late' = late /\ dpc' = "take" /\ Due'
    BY <1>6, Zenon DEF HandlerTests, Due
  <2>2. idle >= Window
    BY <1>6, TrueAge, SMT DEF Debounced, Counts
  <2>3. since <= Bounce + late
    BY <1>1, <2>2, SMT DEF Debounced, Counts, Timed
  <2>4. toggles = 0
    BY <1>4, <2>2, SMT DEF Debounced, Counts, Taken
  <2>5. Flags'
    BY <1>1, <1>2, <2>1, Zenon DEF Debounced, Flags
  <2>6. Counts' /\ Taken'
    BY <1>2, <2>1, <2>4, SMT DEF Debounced, Counts, Taken
  <2>7. Timed'
    BY <1>1, <1>2, <2>1, <2>3, SMT DEF Timed
  <2>8. Pending'
    BY <1>2, <2>1, Zenon DEF Debounced, Pending
  <2>9. Quiet'
    <3>1. expect # "none"
      BY <1>4, <2>2, SMT DEF Debounced, Counts, Quiet
    <3> QED
      BY <1>2, <3>1, Zenon DEF Quiet
  <2> QED
    BY <1>3, <2>5, <2>6, <2>7, <2>8, <2>9 DEF Debounced
<1> QED
  BY <1>5, <1>6

(* Taking an edge makes one toggle of none.                                *)
LEMMA TogglesStep == ASSUME Debounced, HandlerToggles PROVE Debounced'
<1>1. dpc = "take" /\ dpc' = "idle" /\ late' = 0 /\ idle' = 0 /\ old_jiffie' = jiffies
  BY Zenon DEF HandlerToggles
<1>2. UNCHANGED <<jiffies, edge, since, expect>>
  BY Zenon DEF HandlerToggles
<1>3. toggles' = 1
  BY <1>1, SMT DEF Debounced, Counts, Taken, HandlerToggles, UpTo
<1>4. Flags'
  BY <1>1, <1>2, Zenon DEF Debounced, Flags
<1>5. Counts' /\ Clock' /\ Taken'
  BY <1>1, <1>2, <1>3, SMT DEF Debounced, Counts, Clock, Taken
<1>6. Timed'
  BY <1>1, <1>2, SMT DEF Debounced, Counts, Timed
<1>7. Pending'
  BY <1>3, SMT DEF Pending
<1>8. Quiet'
  <2>1. expect # "none"
    BY <1>1, Zenon DEF Debounced, Quiet
  <2> QED
    BY <1>2, <2>1, Zenon DEF Quiet
<1> QED
  BY <1>4, <1>5, <1>6, <1>7, <1>8 DEF Debounced

(* Time: what is due is not late yet, and all ages grow alike.             *)
LEMMA JiffyStep == ASSUME Debounced, Jiffy PROVE Debounced'
<1>1. UNCHANGED <<old_jiffie, edge, dpc, toggles, expect>> /\ (Due' <=> Due)
  BY Zenon DEF Jiffy, Due
<1>2. Flags'
  BY <1>1, Zenon DEF Debounced, Flags
<1>3. late' = (IF Due THEN late + 1 ELSE 0) /\ (Due => late # Latency)
  BY Zenon DEF Jiffy
<1>4. /\ since' = (IF since < Gap THEN since + 1 ELSE Gap)
      /\ idle' = (IF idle < Wrap THEN idle + 1 ELSE Wrap)
      /\ jiffies' = (IF jiffies = Wrap - 1 THEN 0 ELSE jiffies + 1)
  BY Zenon DEF Jiffy, UpTo
<1>5. Counts' /\ Clock'
  BY <1>1, <1>3, <1>4, SMT DEF Debounced, Counts, Clock
<1>6. Timed'
  <2>1. CASE Due
    BY <1>1, <1>3, <1>4, <2>1, SMT DEF Debounced, Counts, Timed
  <2>2. CASE ~Due
    BY <1>1, <1>3, <2>2, SMT DEF Debounced, Flags, Timed, Due
  <2> QED
    BY <2>1, <2>2
<1>7. Pending'
  <2> SUFFICES ASSUME expect = "one", toggles = 0 PROVE Pending'
    BY <1>1, Zenon DEF Pending
  <2>1. Due /\ Window <= idle /\ since <= idle /\ idle - since + Settling < Wrap
    BY Zenon DEF Debounced, Pending
  <2>2. since < Gap /\ since <= Bounce + 2 * Latency
    BY <2>1, DueSoon
  <2>3. since' = since + 1 /\ idle' = idle + 1
    BY <1>4, <2>1, <2>2, SMT DEF Debounced, Counts
  <2> QED
    BY <1>1, <2>1, <2>3, SMT DEF Debounced, Counts, Pending
<1>8. Taken'
  BY <1>1, <1>4, SMT DEF Debounced, Counts, Taken
<1>9. Quiet'
  BY <1>1, <1>4, SMT DEF Debounced, Counts, Quiet
<1> QED
  BY <1>2, <1>5, <1>6, <1>7, <1>8, <1>9 DEF Debounced

(* etx_write touches nothing the debounce uses.                            *)
LEMMA DebouncedNext == Debounced /\ [DebNext]_debVars => Debounced'
<1> SUFFICES ASSUME Debounced, [DebNext]_debVars PROVE Debounced'
  OBVIOUS
<1>1. CASE etx_write \/ UNCHANGED debVars
  <2>1. UNCHANGED <<jiffies, old_jiffie, edge, late, dpc, since, idle, toggles, expect>>
    BY <1>1 DEF etx_write, debVars, contact
  <2> QED
    BY <2>1 DEF Debounced, Flags, Counts, Timed, Clock, Pending, Quiet, Taken, Due
<1> QED
  BY <1>1, PressStep, ReleaseStep, BounceStep, TestsStep, TogglesStep, JiffyStep DEF DebNext

(* For every window, wrap, bounce and lateness: no press or release        *)
(* toggles the LED twice, a press after the window toggles it once, and    *)
(* within the window nothing does.                                         *)
THEOREM MovementTogglesOnce == DebSpec => []TogglesPerMovement
<1>1. Debounced => TogglesPerMovement
  <2> SUFFICES ASSUME Debounced PROVE TogglesPerMovement
    OBVIOUS
  <2>1. toggles \in {0, 1}
    BY Zenon DEF Debounced, Counts
  <2>2. expect = "one" /\ ~Due => toggles # 0
    BY Zenon DEF Debounced, Pending
  <2>3. expect = "none" => toggles = 0
    BY Zenon DEF Debounced, Quiet
  <2> QED
    BY <2>1, <2>2, <2>3, SMT DEF TogglesPerMovement
<1> QED
  BY <1>1, DebouncedInit, DebouncedNext, PTL DEF DebSpec
===============================================================================
