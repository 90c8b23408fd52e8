------------------------------- MODULE MqttLed -------------------------------
(***************************************************************************)
(* The MQTT LED controller: a program with two threads, its own main loop  *)
(* and the callback thread of the MQTT library, which share a pin reached  *)
(* through sysfs, a connection and the flag reconnection_required.         *)
(*                                                                         *)
(* Source: app/MQTT_led_control/main.cpp.  External: the broker, which     *)
(* forgets a subscription with the connection (clean session); the         *)
(* library, which runs one callback at a time, reconnects by itself only   *)
(* under the options of the latest connect, and completes a connect on an  *)
(* open connection; the kernel's sysfs pin; another program that unexports *)
(* the pin.                                                                *)
(***************************************************************************)
EXTENDS Naturals, Sequences

CONSTANTS
    MAX_CONNECTION_ATTEMPTS, MAX_RETRIES, MaxGpioTries,   \* 5, 10 and 3 in the code
    StatusTicks,     \* turns of the main loop between two status messages (50)
    MaxCommands, MaxLosses, MaxMeddling    \* bounds on the environment

ASSUME MqttAssumption ==
    /\ MAX_CONNECTION_ATTEMPTS \in Nat \ {0} /\ MAX_RETRIES \in Nat \ {0}
    /\ MaxGpioTries \in Nat \ {0} /\ StatusTicks \in Nat
    /\ MaxCommands \in Nat /\ MaxLosses \in Nat /\ MaxMeddling \in Nat

(* A pin that is found taken away is tried again: the code tries 3 times.  *)
ASSUME TriesAssumption == MaxGpioTries >= 2

VARIABLES
    pc, val,                 \* of both threads: where it is, the value in hand
    ret, attempts, ticks,    \* of main: after publishStatus, tries, turns
    try,                     \* of the callback: tries of the pin so far
    running, reconnection_required, exported,    \* atomics of the program
    pin, led,                \* sysfs: absent, in or out; the level driven
    up, connected, subscribed, auto, lost,       \* broker and library
    inbox, retained, shown,  \* messages to come, retained command, status seen
    commands, losses, meddling,                  \* how much has happened
    meddled                  \* history: the pin was taken during this command

threads == <<pc, val, ret, attempts, ticks, try>>
gpio == <<exported, pin, led>>
link == <<up, connected, subscribed, auto, lost>>
topics == <<inbox, retained, shown>>
env == <<commands, losses, meddling, meddled>>
vars == <<threads, running, reconnection_required, gpio, link, topics, env>>

Thread == {"main", "cb"}
Goto(t, l) == pc' = [pc EXCEPT ![t] = l]
Alive == pc["main"] # "exited"

-------------------------------------------------------------------------------
(* GpioController.                                                         *)

exportPin(p) == IF p = "absent" THEN "in" ELSE p     \* always finds or makes it

(* readValue: an input pin with nothing driving it reads low; -1 is Error. *)
Error == 2
Level == IF pin = "out" THEN led ELSE 0
readValue ==
    /\ exported' = TRUE
    /\ pin' = IF exported THEN pin ELSE exportPin(pin)
    /\ UNCHANGED led
Reading == IF exported /\ pin = "absent" THEN Error ELSE Level

(* The end of writeValue: main goes on shutting down, the callback resets  *)
(* the pin and tries again, or answers.                                    *)
Written(t) ==
    /\ Goto(t, IF t = "main" THEN "disconnect" ELSE "pubcheck")
    /\ UNCHANGED try

(* Mutant: the callback tries again without resetting the pin.             *)
RetriesAtOnce(t) ==
    IF t = "cb" /\ try < MaxGpioTries
    THEN Goto(t, "ensure") /\ try' = try + 1
    ELSE Goto(t, IF t = "main" THEN "disconnect" ELSE "pubcheck") /\ UNCHANGED try

NotWritten(t) ==
    IF t = "cb" /\ try < MaxGpioTries
    THEN Goto(t, "unexport") /\ try' = try + 1
    ELSE Goto(t, IF t = "main" THEN "disconnect" ELSE "pubcheck") /\ UNCHANGED try

(* writeValue, its three accesses: direction, value, verification.         *)
WriteEnsures(t) ==
    /\ pc[t] = "ensure"
    /\ exported' = TRUE
    /\ LET p == IF exported THEN pin ELSE exportPin(pin)
       IN  IF p = "absent"
           THEN pin' = p /\ UNCHANGED led /\ NotWritten(t)
           ELSE /\ pin' = "out"
                /\ led' = IF p = "out" THEN led ELSE 0
                /\ Goto(t, "write") /\ UNCHANGED try
    /\ UNCHANGED <<val, ret, attempts, ticks, running, reconnection_required,
                   link, topics, env>>

WriteSets(t) ==
    /\ pc[t] = "write"
    /\ IF pin = "absent" THEN NotWritten(t) ELSE Goto(t, "verify") /\ UNCHANGED try
    /\ led' = IF pin = "out" THEN val[t] ELSE led
    /\ UNCHANGED <<val, ret, attempts, ticks, running, reconnection_required,
                   exported, pin, link, topics, env>>

WriteVerifies(t) ==
    /\ pc[t] = "verify"
    /\ readValue
    /\ IF Reading = val[t] THEN Written(t) ELSE NotWritten(t)
    /\ UNCHANGED <<val, ret, attempts, ticks, running, reconnection_required,
                   link, topics, env>>

(* unexport: the file, then the check that the pin has gone.               *)
UnexportWrites(t) ==
    /\ pc[t] = "unexport"
    /\ pin' = "absent" /\ led' = 0
    /\ Goto(t, "unexported")
    /\ UNCHANGED <<val, ret, attempts, ticks, try, running, reconnection_required,
                   exported, link, topics, env>>

UnexportChecks(t) ==
    /\ pc[t] = "unexported"
    /\ exported' = (exported /\ pin # "absent")
    /\ Goto(t, IF t = "main" THEN "exited" ELSE "reset")
    /\ UNCHANGED <<val, ret, attempts, ticks, try, running, reconnection_required,
                   pin, led, link, topics, env>>

(* exportPin and setDirection of the callback's retry.                     *)
RetryExports ==
    /\ pc["cb"] = "reset"
    /\ exported' = TRUE /\ pin' = exportPin(pin)
    /\ Goto("cb", "direction")
    /\ UNCHANGED <<val, ret, attempts, ticks, try, running, reconnection_required,
                   led, link, topics, env>>

RetryDirects ==
    /\ pc["cb"] = "direction"
    /\ pin' = IF pin = "absent" THEN pin ELSE "out"
    /\ led' = 0
    /\ Goto("cb", "ensure")
    /\ UNCHANGED <<val, ret, attempts, ticks, try, running, reconnection_required,
                   exported, link, topics, env>>

-------------------------------------------------------------------------------
(* publishStatus, on either thread.                                        *)

Published(t) == Goto(t, IF t = "main" THEN ret ELSE "idle")

(* Mutant: a closed connection is only reported.                           *)
PublishGivesUp(t) ==
    /\ pc[t] = "pubcheck"
    /\ IF connected THEN Goto(t, "pubread") ELSE Published(t)
    /\ UNCHANGED <<val, ret, attempts, ticks, try, running, reconnection_required,
                   gpio, link, topics, env>>

PublishChecks(t) ==
    /\ pc[t] = "pubcheck"
    /\ IF connected
       THEN Goto(t, "pubread") /\ UNCHANGED reconnection_required
       ELSE Published(t) /\ reconnection_required' = TRUE
    /\ UNCHANGED <<val, ret, attempts, ticks, try, running, gpio, link, topics, env>>

PublishReads(t) ==
    /\ pc[t] = "pubread"
    /\ readValue
    /\ IF Reading = Error
       THEN Published(t) /\ UNCHANGED val
       ELSE Goto(t, "pubsend") /\ val' = [val EXCEPT ![t] = Reading]
    /\ UNCHANGED <<ret, attempts, ticks, try, running, reconnection_required,
                   link, topics, env>>

PublishSends(t) ==
    /\ pc[t] = "pubsend"
    /\ IF connected
       THEN shown' = val[t] /\ UNCHANGED reconnection_required
       ELSE reconnection_required' = TRUE /\ UNCHANGED shown
    /\ Published(t)
    /\ UNCHANGED <<val, ret, attempts, ticks, try, running, gpio, link,
                   inbox, retained, env>>

Shared(t) ==
    \/ WriteEnsures(t) \/ WriteSets(t) \/ WriteVerifies(t)
    \/ UnexportWrites(t) \/ UnexportChecks(t)
    \/ PublishChecks(t) \/ PublishReads(t) \/ PublishSends(t)

-------------------------------------------------------------------------------
(* MqttCallback, one callback at a time.                                   *)

connection_lost ==
    /\ pc["cb"] = "idle" /\ lost
    /\ lost' = FALSE
    /\ reconnection_required' = TRUE
    /\ UNCHANGED <<threads, running, gpio, up, connected, subscribed, auto, topics, env>>

message_arrived ==
    /\ pc["cb"] = "idle" /\ inbox # <<>>
    /\ LET payload == Head(inbox)
       IN  /\ Goto("cb", CASE payload = "" -> "idle"
                           [] payload = "STATUS" -> "pubcheck"
                           [] payload \in {"ON", "OFF"} -> "ensure")
           /\ val' = [val EXCEPT !["cb"] = IF payload = "ON" THEN 1 ELSE 0]
    /\ inbox' = Tail(inbox)
    /\ try' = 1
    /\ meddled' = FALSE
    /\ UNCHANGED <<ret, attempts, ticks, running, reconnection_required, gpio, link,
                   retained, shown, commands, losses, meddling>>

Callback == connection_lost \/ message_arrived \/ RetryExports \/ RetryDirects
              \/ Shared("cb")

-------------------------------------------------------------------------------
(* main: start.  The pin may have been left exported; its direction is set *)
(* to out, which drives it low.                                            *)

StartGpio ==
    /\ pc["main"] = "gpio"
    /\ exported' = TRUE /\ pin' = "out" /\ led' = 0
    /\ Goto("main", "connect")
    /\ UNCHANGED <<val, ret, attempts, ticks, try, running, reconnection_required,
                   link, topics, env>>

(* Export or direction failed twice.  Like every other way out of the      *)
(* program, this unexports the pin; nothing here looks at it any more.     *)
StartGpioFails ==
    /\ pc["main"] = "gpio"
    /\ Goto("main", "exited")
    /\ UNCHANGED <<val, ret, attempts, ticks, try, running, reconnection_required,
                   gpio, link, topics, env>>

Connects ==
    /\ pc["main"] = "connect"
    /\ up
    /\ connected' = TRUE /\ auto' = TRUE
    /\ Goto("main", "subscribe")
    /\ UNCHANGED <<val, ret, attempts, ticks, try, running, reconnection_required,
                   gpio, up, subscribed, lost, topics, env>>

(* An exception: try again, at most MAX_CONNECTION_ATTEMPTS times.         *)
ConnectThrows ==
    /\ pc["main"] = "connect"
    /\ ~up
    /\ attempts' = attempts + 1
    /\ Goto("main", IF attempts + 1 < MAX_CONNECTION_ATTEMPTS THEN "connect" ELSE "exited")
    /\ auto' = TRUE
    /\ UNCHANGED <<val, ret, ticks, try, running, reconnection_required,
                   gpio, up, connected, subscribed, lost, topics, env>>

(* wait_for runs out: the result is not looked at and main goes on.        *)
ConnectTimesOut ==
    /\ pc["main"] = "connect"
    /\ ~up
    /\ auto' = TRUE
    /\ Goto("main", "subscribe")
    /\ UNCHANGED <<val, ret, attempts, ticks, try, running, reconnection_required,
                   gpio, up, connected, subscribed, lost, topics, env>>

(* subscribe and the clearing publish, in main and in reconnect: without a *)
(* connection they throw.  The broker answers a subscription with the      *)
(* retained command, and sends the clearing message back.                  *)
Subscribe(from, to, thrown) ==
    /\ pc["main"] = from
    /\ subscribed' = connected
    /\ inbox' = IF connected /\ retained # "none" THEN Append(inbox, retained) ELSE inbox
    /\ Goto("main", IF connected THEN to ELSE thrown)
    /\ UNCHANGED <<val, ret, attempts, ticks, try, running, reconnection_required,
                   gpio, up, connected, auto, lost, retained, shown, env>>

Clear(from, after, thrown) ==
    /\ pc["main"] = from
    /\ inbox' = IF connected /\ subscribed THEN Append(inbox, "") ELSE inbox
    /\ retained' = IF connected THEN "none" ELSE retained
    /\ ret' = after
    /\ Goto("main", IF connected THEN "pubcheck" ELSE thrown)
    /\ UNCHANGED <<val, attempts, ticks, try, running, reconnection_required,
                   gpio, link, shown, env>>

Start == StartGpio \/ StartGpioFails \/ Connects \/ ConnectThrows \/ ConnectTimesOut
           \/ Subscribe("subscribe", "clear", "exited") \/ Clear("clear", "loop", "exited")

-------------------------------------------------------------------------------
(* main: the loop, and the shutdown after it.                              *)

LoopSkipsStatus ==
    /\ pc["main"] = "loop" /\ running
    /\ ticks < StatusTicks
    /\ ticks' = ticks + 1
    /\ Goto("main", "check")
    /\ UNCHANGED <<val, ret, attempts, try, running, reconnection_required,
                   gpio, link, topics, env>>

(* Mutant: the status is not sent from the loop.                           *)
LoopOnlyCounts ==
    /\ pc["main"] = "loop" /\ running
    /\ ticks' = 0
    /\ Goto("main", "check")
    /\ UNCHANGED <<val, ret, attempts, try, running, reconnection_required,
                   gpio, link, topics, env>>

(* Time also passes in reconnect, so the status may be due on any turn.    *)
LoopPublishes ==
    /\ pc["main"] = "loop" /\ running
    /\ ticks' = 0
    /\ ret' = "check"
    /\ Goto("main", "pubcheck")
    /\ UNCHANGED <<val, attempts, try, running, reconnection_required,
                   gpio, link, topics, env>>

LoopChecks ==
    /\ pc["main"] = "check"
    /\ Goto("main", IF reconnection_required /\ running THEN "rtest" ELSE "loop")
    /\ attempts' = 0
    /\ UNCHANGED <<val, ret, ticks, try, running, reconnection_required,
                   gpio, link, topics, env>>

(* Mutant: the loop is left only with the connection in order.             *)
LeavesReconnected ==
    /\ pc["main"] = "loop" /\ ~running /\ ~reconnection_required
    /\ Goto("main", "ensure")
    /\ val' = [val EXCEPT !["main"] = 0]
    /\ UNCHANGED <<ret, attempts, ticks, try, running, reconnection_required,
                   gpio, link, topics, env>>

LoopEnds ==
    /\ pc["main"] = "loop" /\ ~running
    /\ Goto("main", "ensure")
    /\ val' = [val EXCEPT !["main"] = 0]
    /\ UNCHANGED <<ret, attempts, ticks, try, running, reconnection_required,
                   gpio, link, topics, env>>

Disconnects ==
    /\ pc["main"] = "disconnect"
    /\ connected' = FALSE /\ subscribed' = FALSE /\ auto' = FALSE
    /\ Goto("main", "unexport")
    /\ UNCHANGED <<val, ret, attempts, ticks, try, running, reconnection_required,
                   gpio, up, lost, topics, env>>

-------------------------------------------------------------------------------
(* reconnect, called from the loop.                                        *)

ReconnectTests ==
    /\ pc["main"] = "rtest"
    /\ LET again == running /\ reconnection_required /\ attempts < MAX_RETRIES
       IN  /\ Goto("main", IF again THEN "rconnect" ELSE "loop")
           /\ attempts' = IF again THEN attempts + 1 ELSE attempts
    /\ UNCHANGED <<val, ret, ticks, try, running, reconnection_required,
                   gpio, link, topics, env>>

(* Mutant: the options keep automatic_reconnect of main's.                 *)
ReconnectKeepsAuto ==
    /\ pc["main"] = "rconnect"
    /\ connected' = (connected \/ up)
    /\ Goto("main", IF connected \/ up THEN "rsubscribe" ELSE "rtest")
    /\ UNCHANGED <<val, ret, attempts, ticks, try, running, reconnection_required,
                   gpio, up, subscribed, auto, lost, topics, env>>

(* connect, with options of its own: no automatic_reconnect.               *)
ReconnectConnects ==
    /\ pc["main"] = "rconnect"
    /\ auto' = FALSE
    /\ connected' = (connected \/ up)
    /\ Goto("main", IF connected \/ up THEN "rsubscribe" ELSE "rtest")
    /\ UNCHANGED <<val, ret, attempts, ticks, try, running, reconnection_required,
                   gpio, up, subscribed, lost, topics, env>>

ReconnectDone ==
    /\ pc["main"] = "rdone"
    /\ reconnection_required' = FALSE
    /\ Goto("main", "loop")
    /\ UNCHANGED <<val, ret, attempts, ticks, try, running, gpio, link, topics, env>>

reconnect == ReconnectTests \/ ReconnectConnects
               \/ Subscribe("rsubscribe", "rclear", "rtest") \/ Clear("rclear", "rdone", "rtest")
               \/ ReconnectDone

Main == Start \/ LoopSkipsStatus \/ LoopPublishes \/ LoopChecks \/ LoopEnds
          \/ Disconnects \/ reconnect \/ Shared("main")

-------------------------------------------------------------------------------
(* The rest of the world.                                                  *)

signalHandler ==
    /\ running /\ running' = FALSE
    /\ UNCHANGED <<threads, reconnection_required, gpio, link, topics, env>>

Command ==
    /\ connected /\ subscribed /\ commands < MaxCommands
    /\ \E c \in {"ON", "OFF", "STATUS"} : inbox' = Append(inbox, c)
    /\ commands' = commands + 1
    /\ UNCHANGED <<threads, running, reconnection_required, gpio, link,
                   retained, shown, losses, meddling, meddled>>

(* The connection breaks and the broker cannot be reached for a while.     *)
Lose ==
    /\ up /\ losses < MaxLosses
    /\ up' = FALSE /\ connected' = FALSE /\ subscribed' = FALSE
    /\ lost' = (lost \/ connected)
    /\ losses' = losses + 1
    /\ UNCHANGED <<threads, running, reconnection_required, gpio, auto, topics,
                   commands, meddling, meddled>>

BrokerBack ==
    /\ ~up /\ up' = TRUE
    /\ UNCHANGED <<threads, running, reconnection_required, gpio,
                   connected, subscribed, auto, lost, topics, env>>

AutoReconnect ==
    /\ auto /\ ~connected /\ up
    /\ connected' = TRUE
    /\ UNCHANGED <<threads, running, reconnection_required, gpio,
                   up, subscribed, auto, lost, topics, env>>

(* Another program unexports the pin.                                      *)
Meddle ==
    /\ meddling < MaxMeddling /\ pin # "absent"
    /\ pin' = "absent" /\ led' = 0
    /\ meddling' = meddling + 1 /\ meddled' = TRUE
    /\ UNCHANGED <<threads, running, reconnection_required, exported, link, topics,
                   commands, losses>>

Environment == signalHandler \/ Command \/ Lose \/ BrokerBack \/ AutoReconnect \/ Meddle

-------------------------------------------------------------------------------
Init ==
    /\ pc = [main |-> "gpio", cb |-> "idle"] /\ val = [main |-> 0, cb |-> 0]
    /\ ret = "loop" /\ attempts = 0 /\ ticks = 0 /\ try = 1
    /\ running = TRUE /\ reconnection_required = FALSE /\ exported = FALSE
    /\ pin \in {"absent", "in", "out"} /\ led \in IF pin = "out" THEN {0, 1} ELSE {0}
    /\ up \in BOOLEAN /\ connected = FALSE /\ subscribed = FALSE
    /\ auto = FALSE /\ lost = FALSE
    /\ inbox = <<>> /\ retained \in {"none", "ON"} /\ shown = Error
    /\ commands = 0 /\ losses = 0 /\ meddling = 0 /\ meddled = FALSE

Next == Alive /\ (Main \/ Callback \/ Environment)

Spec == Init /\ [][Next]_vars

(* Both threads run, and the library reconnects when it can.               *)
Fairness == WF_vars(Alive /\ Main) /\ WF_vars(Alive /\ Callback) /\ WF_vars(Alive /\ AutoReconnect)

FairSpec == Spec /\ Fairness

-------------------------------------------------------------------------------
(* Type invariant.  The counters of the retries are bounded, by the loops  *)
(* they belong to, and a pin that is not an output is dark.                *)
Label == {"gpio", "connect", "subscribe", "clear", "loop", "check", "rtest", "rconnect",
          "rsubscribe", "rclear", "rdone", "ensure", "write", "verify", "disconnect",
          "unexport", "unexported", "reset", "direction", "pubcheck", "pubread", "pubsend",
          "idle", "exited"}
Payload == {"", "ON", "OFF", "STATUS"}
ThreadsTyped ==
    /\ pc \in [Thread -> Label] /\ val \in [Thread -> {0, 1}]
    /\ ret \in {"loop", "check", "rdone"} /\ try \in 1..MaxGpioTries
    /\ ticks \in 0..StatusTicks /\ attempts \in Nat
    /\ pc["main"] \in {"gpio", "connect"} => attempts < MAX_CONNECTION_ATTEMPTS
    /\ pc["main"] \in {"rtest", "rconnect", "rsubscribe", "rclear"} => attempts <= MAX_RETRIES
PinTyped ==
    /\ exported \in BOOLEAN /\ pin \in {"absent", "in", "out"} /\ led \in {0, 1}
    /\ led = 1 => pin = "out"
LinkTyped ==
    /\ up \in BOOLEAN /\ connected \in BOOLEAN /\ subscribed \in BOOLEAN
    /\ auto \in BOOLEAN /\ lost \in BOOLEAN
    /\ running \in BOOLEAN /\ reconnection_required \in BOOLEAN
TopicsTyped == inbox \in Seq(Payload) /\ retained \in {"none", "ON"} /\ shown \in {0, 1, Error}
EnvTyped ==
    /\ commands \in 0..MaxCommands /\ losses \in 0..MaxLosses
    /\ meddling \in 0..MaxMeddling /\ meddled \in BOOLEAN
MqttTypeOK == ThreadsTyped /\ PinTyped /\ LinkTyped /\ TopicsTyped /\ EnvTyped

InStart == {"gpio", "connect", "subscribe", "clear"}

(* The controller is never silently deaf: whenever it is connected without *)
(* its subscription, a loss that main will still see is on record.  A loss *)
(* during reconnect is erased from reconnection_required at its end; what  *)
(* saves the program is that reconnect's connect has turned the library's  *)
(* own reconnection off.                                                   *)
NeverDeaf ==
    connected /\ ~subscribed /\ pc["main"] \notin InStart =>
        reconnection_required \/ lost

(* Once the broker stays reachable the controller listens to it again, if  *)
(* it ever got through its start, however losses fell between the steps of *)
(* reconnect.                                                              *)
HearsAgain ==
    <>[](up /\ running) => <>[](subscribed \/ ~Alive)

(* A command that finds the pin taken away resets it and is carried out    *)
(* all the same, while main reads the pin for the status.                  *)
CommandObeyed ==
    [][(pc["cb"] \in {"ensure", "write", "verify"} /\ pc'["cb"] = "pubcheck"
          /\ running /\ ~meddled)
         => pin' = "out" /\ led' = val["cb"]]_vars

(* When no more commands come, the last status sent is that of the LED,    *)
(* although the two threads read the pin and publish without a lock.       *)
Quiet == connected /\ running /\ Alive /\ inbox = <<>> /\ pc["cb"] = "idle" /\ pin # "absent"
StatusCatchesUp == <>[]Quiet => <>[](shown = Level)

(* A signal ends the program, broker or no broker.                         *)
SignalEnds == ~running ~> ~Alive
===============================================================================
