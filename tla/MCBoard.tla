------------------------------- MODULE MCBoard --------------------------------
(***************************************************************************)
(* Small instances of the components that share nothing with each other,   *)
(* in one run: device chooses the one that is exercised, the others stay   *)
(* as they were loaded.                                                    *)
(***************************************************************************)
EXTENDS MCWaitQueue, MCSpiMaster, ButtonMsg, Debounce, SharedGlobals, PwmTimers,
        SendingSignal

VARIABLE device

Others(d) == /\ (d # "wait_queue" => UNCHANGED vars)
             /\ (d # "spi" => UNCHANGED spiVars)
             /\ (d # "message" => UNCHANGED msgVars)
             /\ (d # "debounce" => UNCHANGED debVars)
             /\ (d \notin {"procfs", "symbols", "sysfs"} => UNCHANGED sharedVars)
             /\ (d # "signal" => UNCHANGED sigVars)
             /\ (d \notin {"timers", "loop"} => UNCHANGED pwmVars)
boardVars == <<device, vars, spiVars, msgVars, debVars, sharedVars, pwmVars, sigVars>>
On(d) == device = d /\ UNCHANGED device /\ Others(d)

Devices == {"wait_queue", "spi", "message", "debounce", "procfs", "symbols", "sysfs",
            "timers", "loop", "signal"}

BoardInit ==
    /\ Init /\ SpiInit /\ MsgInit /\ DebInit /\ SharedInit /\ PwmInit /\ SigInit
    /\ device \in Devices
    /\ device # "spi" => app = controller /\ stm_led = 0
    /\ device # "message" => has_led
    /\ device # "debounce" => jiffies = 0 /\ ~down
    /\ device # "timers" => train.first = 1
    /\ device # "loop" => soft_pin = 0
    /\ device # "signal" => linked

BoardNext ==
    \/ Next /\ On("wait_queue")
    \/ SpiNext /\ On("spi")
    \/ MsgNext /\ On("message")
    \/ DebNext /\ On("debounce")
    \/ ProcNext /\ On("procfs")
    \/ SymbolNext /\ On("symbols")
    \/ SysfsNext /\ On("sysfs")
    \/ TimersNext /\ On("timers")
    \/ LoopNext /\ On("loop")
    \/ SigNext /\ On("signal")

(* The fairness of each component, while it is exercised.                  *)
BoardFairness ==
    /\ WF_boardVars(Thread /\ On("wait_queue"))
    /\ \A r \in Readers : WF_boardVars(ReadWakes(r) /\ On("wait_queue"))
    /\ WF_boardVars(ExitWakes /\ On("wait_queue"))
    /\ WF_boardVars(Master /\ On("spi"))
    /\ \A p \in Pollers : WF_boardVars(Polls(p) /\ On("message"))
    /\ \A p \in Followers : WF_boardVars(SysfsStep(p) /\ On("sysfs"))
    /\ WF_boardVars(Timer /\ On("signal"))
    /\ \A p \in Clients : /\ WF_boardVars(Runs(p) /\ On("signal"))
                         /\ WF_boardVars(Handles(p) /\ On("signal"))

BoardSpec == BoardInit /\ [][BoardNext]_boardVars /\ BoardFairness

OneFollower == {r1}

(* The drivers of the repository have no defect but the known ones, as far *)
(* as their tables show: what DriverLoadProofs asks of a table.            *)
Fleet == INSTANCE DriverFleet
FleetReading == INSTANCE DriverTable WITH
    Drivers <- Fleet!FleetDrivers, Table <- Fleet!FleetTable, Known <- Fleet!FleetKnown
ASSUME FleetAssumption == FleetReading!ReadingIsKnown

(* The switch of the remote drivers fits the remote control, and none of   *)
(* its words is a key one bit early: what RemoteSignalProofs asks of them. *)
Remote == INSTANCE NecRemote
RemoteSwitch == INSTANCE KeySwitch WITH
    WindowLo <- 16, WindowHi <- 23,
    KeyTable <- Remote!NecTable, KeyPressed <- Remote!NecPressed
ASSUME RemoteAssumption == RemoteSwitch!SwitchFits /\ RemoteSwitch!EarlyIsNoKey

(* The two trains, a tenth of their duties and of what is left of a period. *)
ShortTrains == {[LED_train EXCEPT !.wrap = 10, !.total = 10],
                [servo_train EXCEPT !.first = 4, !.wrap = 14, !.total = 25]}
===============================================================================
