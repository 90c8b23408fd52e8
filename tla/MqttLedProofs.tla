---------------------------- MODULE MqttLedProofs -----------------------------
(* Proofs about the MQTT LED controller.                                   *)
EXTENDS MqttLed, TLAPS

(* Where main is, as far as the connection is concerned.                   *)
Unsubscribed == pc["main"] \in {"gpio", "connect", "subscribe"}
Over == pc["main"] \in {"unexport", "unexported", "exited"}
Publishing == pc["main"] \in {"pubcheck", "pubread", "pubsend"}
Resubscribed == pc["main"] \in {"rclear", "rdone"} \/ (Publishing /\ ret = "rdone")

(* The inductive invariant.  Wherever the library may connect by itself    *)
(* and the subscription is gone, the loss is on record; and while          *)
(* reconnect has its own subscription, the library does not reconnect.     *)
LossOnRecord ==
    ~Unsubscribed /\ ~Over /\ (auto \/ connected) /\ ~subscribed =>
        reconnection_required \/ lost
Places == pc = [t \in Thread |-> pc[t]]
Linked ==
    /\ Places
    /\ up \in BOOLEAN /\ connected \in BOOLEAN /\ subscribed \in BOOLEAN
    /\ auto \in BOOLEAN /\ lost \in BOOLEAN /\ reconnection_required \in BOOLEAN
    /\ ret \in {"loop", "check", "rdone"}
    /\ connected => up
    /\ subscribed => connected
    /\ pc["main"] = "gpio" => ~connected /\ ~auto
    /\ pc["main"] \in {"rconnect", "rsubscribe"} => reconnection_required
    /\ pc["main"] = "rsubscribe" => ~auto
    /\ Resubscribed => ~auto /\ (connected => subscribed)
    /\ pc["main"] \in {"unexport", "unexported"} => ~auto
    /\ Over => ~connected
    /\ LossOnRecord


LEMMA LinkedInit == Init => Linked
<1> SUFFICES ASSUME Init PROVE Linked
  OBVIOUS
<1>1. Places /\ pc["main"] = "gpio"
  <2>1. pc = [main |-> "gpio", cb |-> "idle"]
    BY Zenon DEF Init
  <2> QED
    BY <2>1, SMT DEF Places, Thread
<1> QED
  BY <1>1, Zenon DEF Init, Linked, LossOnRecord, Unsubscribed, Over, Publishing, Resubscribed

LEMMA GotoMain ==
    ASSUME Places, NEW l, Goto("main", l)
    PROVE  Places' /\ pc'["main"] = l /\ pc'["cb"] = pc["cb"]
<1>1. DOMAIN pc = Thread
  BY Zenon DEF Places
<1>2. pc'["main"] = l /\ pc'["cb"] = pc["cb"]
  BY <1>1, Zenon DEF Goto, Thread
<1>3. pc' = [t \in Thread |-> IF t = "main" THEN l ELSE pc[t]]
  BY <1>1, Zenon DEF Goto
<1>4. Places'
  BY <1>3, Zenon DEF Places
<1> QED
  BY <1>2, <1>4

LEMMA GotoCallback ==
    ASSUME Places, NEW l, Goto("cb", l)
    PROVE  Places' /\ pc'["main"] = pc["main"] /\ pc'["cb"] = l
<1>1. DOMAIN pc = Thread
  BY Zenon DEF Places
<1>2. pc'["main"] = pc["main"] /\ pc'["cb"] = l
  BY <1>1, Zenon DEF Goto, Thread
<1>3. pc' = [t \in Thread |-> IF t = "cb" THEN l ELSE pc[t]]
  BY <1>1, Zenon DEF Goto
<1>4. Places'
  BY <1>3, Zenon DEF Places
<1> QED
  BY <1>2, <1>4

Raised == reconnection_required' \in BOOLEAN
            /\ (reconnection_required => reconnection_required')

(* Steps that leave main and the connection where they are.                *)
LEMMA MainStays ==
    ASSUME Linked, Places', pc'["main"] = pc["main"], UNCHANGED <<ret, link>>, Raised
    PROVE  Linked'
  BY Zenon DEF Raised, link, Linked, LossOnRecord, Unsubscribed, Over, Publishing, Resubscribed

(* Steps of main from one place where nothing special holds to another.    *)
Plain == {"ensure", "write", "verify", "loop", "check", "rtest", "disconnect"}
LEMMA MainMoves ==
    ASSUME Linked, NEW l \in Plain, Goto("main", l), UNCHANGED <<ret, link>>, Raised,
           ~Unsubscribed, ~Over
    PROVE  Linked'
<1>1. Places' /\ pc'["main"] = l
  BY GotoMain DEF Linked
<1> QED
  BY <1>1, Zenon DEF Plain, Raised, link, Linked, LossOnRecord, Unsubscribed, Over, Publishing, Resubscribed

(* Steps of publishStatus called from main.                                *)
LEMMA MainPublishes ==
    ASSUME Linked, Publishing, NEW l \in {"pubread", "pubsend", ret}, Goto("main", l),
           UNCHANGED <<ret, link>>, Raised
    PROVE  Linked'
<1>1. Places' /\ pc'["main"] = l
  BY GotoMain DEF Linked
<1> QED
  BY <1>1, Zenon DEF Raised, link, Linked, LossOnRecord, Unsubscribed, Over, Publishing, Resubscribed

-------------------------------------------------------------------------------
(* Of either thread: writeValue, unexport, publishStatus.                  *)

LEMMA WriteSteps ==
    ASSUME Linked, NEW t \in Thread, WriteEnsures(t) \/ WriteSets(t) \/ WriteVerifies(t)
    PROVE  Linked'
<1>1. UNCHANGED <<ret, link>> /\ Raised
  BY Zenon DEF WriteEnsures, WriteSets, WriteVerifies, Raised, Linked
<1>2. pc[t] \in {"ensure", "write", "verify"}
  BY Zenon DEF WriteEnsures, WriteSets, WriteVerifies
<1>3. CASE t = "main"
  <2>1. \E l \in Plain : Goto("main", l)
    BY <1>3, Zenon DEF WriteEnsures, WriteSets, WriteVerifies, NotWritten, Written, Plain
  <2> QED
    BY <1>1, <1>2, <1>3, <2>1, MainMoves, Zenon DEF Unsubscribed, Over
<1>4. CASE t = "cb"
  <2>1. \E l : Goto("cb", l)
    BY <1>4, Zenon DEF WriteEnsures, WriteSets, WriteVerifies, NotWritten, Written
  <2> QED
    BY <1>1, <2>1, GotoCallback, MainStays, Zenon DEF Linked
<1> QED
  BY <1>3, <1>4, Zenon DEF Thread

LEMMA UnexportSteps ==
    ASSUME Linked, NEW t \in Thread, UnexportWrites(t) \/ UnexportChecks(t)
    PROVE  Linked'
<1>1. UNCHANGED <<ret, link>> /\ Raised
  BY Zenon DEF UnexportWrites, UnexportChecks, Raised, Linked
<1>2. pc[t] \in {"unexport", "unexported"}
  BY Zenon DEF UnexportWrites, UnexportChecks
<1>3. CASE t = "main"
  <2>1. PICK l \in {"unexported", "exited"} : Goto("main", l)
    BY <1>3, Zenon DEF UnexportWrites, UnexportChecks
  <2>2. Places' /\ pc'["main"] = l
    BY <2>1, GotoMain DEF Linked
  <2> QED
    BY <1>1, <1>2, <1>3, <2>2, Zenon DEF Raised, link, Linked, LossOnRecord, Unsubscribed, Over, Publishing, Resubscribed
<1>4. CASE t = "cb"
  <2>1. \E l : Goto("cb", l)
    BY <1>4, Zenon DEF UnexportWrites, UnexportChecks
  <2> QED
    BY <1>1, <2>1, GotoCallback, MainStays, Zenon DEF Linked
<1> QED
  BY <1>3, <1>4, Zenon DEF Thread

(* publishStatus only ever raises the flag, and returns to where main      *)
(* called it from.                                                         *)
LEMMA PublishSteps ==
    ASSUME Linked, NEW t \in Thread,
           PublishChecks(t) \/ PublishReads(t) \/ PublishSends(t)
    PROVE  Linked'
<1>1. UNCHANGED <<ret, link>> /\ Raised
  BY Zenon DEF PublishChecks, PublishReads, PublishSends, Raised, Linked
<1>2. pc[t] \in {"pubcheck", "pubread", "pubsend"}
  BY Zenon DEF PublishChecks, PublishReads, PublishSends
<1>3. CASE t = "main"
  <2>1. \E l \in {"pubread", "pubsend", ret} : Goto("main", l)
    BY <1>3, Zenon DEF PublishChecks, PublishReads, PublishSends, Published
  <2> QED
    BY <1>1, <1>2, <1>3, <2>1, MainPublishes, Zenon DEF Publishing
<1>4. CASE t = "cb"
  <2>1. \E l : Goto("cb", l)
    BY <1>4, Zenon DEF PublishChecks, PublishReads, PublishSends, Published
  <2> QED
    BY <1>1, <2>1, GotoCallback, MainStays, Zenon DEF Linked
<1> QED
  BY <1>3, <1>4, Zenon DEF Thread

LEMMA SharedSteps == ASSUME Linked, NEW t \in Thread, Shared(t) PROVE Linked'
  BY WriteSteps, UnexportSteps, PublishSteps DEF Shared

-------------------------------------------------------------------------------
(* The callbacks.                                                          *)

LEMMA CallbackSteps ==
    ASSUME Linked, connection_lost \/ message_arrived \/ RetryExports \/ RetryDirects
    PROVE  Linked'
<1>1. CASE connection_lost
  BY <1>1, Zenon DEF connection_lost, threads, Places, Linked, LossOnRecord, Unsubscribed, Over, Publishing, Resubscribed
<1>2. CASE message_arrived \/ RetryExports \/ RetryDirects
  <2>1. UNCHANGED <<ret, link>> /\ Raised
    BY <1>2, Zenon DEF message_arrived, RetryExports, RetryDirects, Raised, Linked
  <2>2. \E l : Goto("cb", l)
    BY <1>2, Zenon DEF message_arrived, RetryExports, RetryDirects
  <2> QED
    BY <2>1, <2>2, GotoCallback, MainStays, Zenon DEF Linked
<1> QED
  BY <1>1, <1>2

-------------------------------------------------------------------------------
(* main.                                                                   *)

LEMMA StartSteps == ASSUME Linked, Start PROVE Linked'
<1> USE DEF link, Raised, Linked, LossOnRecord, Unsubscribed, Over, Publishing, Resubscribed
<1>1. CASE StartGpio
  <2>1. Goto("main", "connect")
    BY <1>1 DEF StartGpio
  <2>2. Places' /\ pc'["main"] = "connect"
    BY <2>1, GotoMain
  <2> QED
    BY <1>1, <2>2, Zenon DEF StartGpio
<1>2. CASE StartGpioFails
  <2>1. Goto("main", "exited")
    BY <1>2 DEF StartGpioFails
  <2>2. Places' /\ pc'["main"] = "exited"
    BY <2>1, GotoMain
  <2> QED
    BY <1>2, <2>2, Zenon DEF StartGpioFails
<1>3. CASE Connects
  <2>1. Goto("main", "subscribe")
    BY <1>3 DEF Connects
  <2>2. Places' /\ pc'["main"] = "subscribe"
    BY <2>1, GotoMain
  <2> QED
    BY <1>3, <2>2, Zenon DEF Connects
<1>4. CASE ConnectThrows
  <2>1. PICK l \in {"connect", "exited"} : Goto("main", l)
    BY <1>4, Zenon DEF ConnectThrows
  <2>2. Places' /\ pc'["main"] = l
    BY <2>1, GotoMain
  <2> QED
    BY <1>4, <2>2, Zenon DEF ConnectThrows
<1>5. CASE ConnectTimesOut
  <2>1. Goto("main", "subscribe")
    BY <1>5 DEF ConnectTimesOut
  <2>2. Places' /\ pc'["main"] = "subscribe"
    BY <2>1, GotoMain
  <2> QED
    BY <1>5, <2>2, Zenon DEF ConnectTimesOut
<1>6. CASE Subscribe("subscribe", "clear", "exited")
  <2>1. CASE connected
    <3>1. Goto("main", "clear")
      BY <1>6, <2>1, Zenon DEF Subscribe
    <3>2. Places' /\ pc'["main"] = "clear"
      BY <3>1, GotoMain
    <3> QED
      BY <1>6, <2>1, <3>2, Zenon DEF Subscribe
  <2>2. CASE ~connected
    <3>1. Goto("main", "exited")
      BY <1>6, <2>2, Zenon DEF Subscribe
    <3>2. Places' /\ pc'["main"] = "exited"
      BY <3>1, GotoMain
    <3> QED
      BY <1>6, <2>2, <3>2, Zenon DEF Subscribe
  <2> QED
    BY <2>1, <2>2
<1>7. CASE Clear("clear", "loop", "exited")
  <2>1. CASE connected
    <3>1. Goto("main", "pubcheck")
      BY <1>7, <2>1, Zenon DEF Clear
    <3>2. Places' /\ pc'["main"] = "pubcheck"
      BY <3>1, GotoMain
    <3> QED
      BY <1>7, <2>1, <3>2, Zenon DEF Clear
  <2>2. CASE ~connected
    <3>1. Goto("main", "exited")
      BY <1>7, <2>2, Zenon DEF Clear
    <3>2. Places' /\ pc'["main"] = "exited"
      BY <3>1, GotoMain
    <3> QED
      BY <1>7, <2>2, <3>2, Zenon DEF Clear
  <2> QED
    BY <2>1, <2>2
<1> QED
  BY <1>1, <1>2, <1>3, <1>4, <1>5, <1>6, <1>7, Zenon DEF Start

LEMMA LoopSteps ==
    ASSUME Linked,
           LoopSkipsStatus \/ LoopPublishes \/ LoopChecks \/ LoopEnds \/ Disconnects
    PROVE  Linked'
<1> USE DEF link, Raised, Linked, LossOnRecord, Unsubscribed, Over, Publishing, Resubscribed
<1>1. CASE LoopSkipsStatus
  <2>1. Goto("main", "check")
    BY <1>1, Zenon DEF LoopSkipsStatus
  <2>2. Places' /\ pc'["main"] = "check"
    BY <2>1, GotoMain
  <2> QED
    BY <1>1, <2>2, Zenon DEF LoopSkipsStatus
<1>2. CASE LoopPublishes
  <2>1. Goto("main", "pubcheck")
    BY <1>2, Zenon DEF LoopPublishes
  <2>2. Places' /\ pc'["main"] = "pubcheck"
    BY <2>1, GotoMain
  <2> QED
    BY <1>2, <2>2, Zenon DEF LoopPublishes
<1>3. CASE LoopChecks
  <2>1. PICK l \in {"rtest", "loop"} : Goto("main", l)
    BY <1>3, Zenon DEF LoopChecks
  <2>2. Places' /\ pc'["main"] = l
    BY <2>1, GotoMain
  <2> QED
    BY <1>3, <2>2, Zenon DEF LoopChecks
<1>4. CASE LoopEnds
  <2>1. Goto("main", "ensure")
    BY <1>4, Zenon DEF LoopEnds
  <2>2. Places' /\ pc'["main"] = "ensure"
    BY <2>1, GotoMain
  <2> QED
    BY <1>4, <2>2, Zenon DEF LoopEnds
<1>5. CASE Disconnects
  <2>1. Goto("main", "unexport")
    BY <1>5, Zenon DEF Disconnects
  <2>2. Places' /\ pc'["main"] = "unexport"
    BY <2>1, GotoMain
  <2> QED
    BY <1>5, <2>2, Zenon DEF Disconnects
<1> QED
  BY <1>1, <1>2, <1>3, <1>4, <1>5

(* The steps of reconnect: the flag is still up when it subscribes, and    *)
(* goes down only behind a subscription the library cannot outlive.        *)
LEMMA ReconnectSteps == ASSUME Linked, reconnect PROVE Linked'
<1> USE DEF link, Raised, Linked, LossOnRecord, Unsubscribed, Over, Publishing, Resubscribed
<1>1. CASE ReconnectTests
  <2>1. CASE running /\ reconnection_required /\ attempts < MAX_RETRIES
    <3>1. Goto("main", "rconnect")
      BY <1>1, <2>1, Zenon DEF ReconnectTests
    <3>2. Places' /\ pc'["main"] = "rconnect"
      BY <3>1, GotoMain
    <3> QED
      BY <1>1, <2>1, <3>2, Zenon DEF ReconnectTests
  <2>2. CASE ~(running /\ reconnection_required /\ attempts < MAX_RETRIES)
    <3>1. Goto("main", "loop")
      BY <1>1, <2>2, Zenon DEF ReconnectTests
    <3>2. Places' /\ pc'["main"] = "loop"
      BY <3>1, GotoMain
    <3> QED
      BY <1>1, <2>2, <3>2, Zenon DEF ReconnectTests
  <2> QED
    BY <2>1, <2>2
<1>2. CASE ReconnectConnects
  <2>1. CASE connected \/ up
    <3>1. Goto("main", "rsubscribe")
      BY <1>2, <2>1, Zenon DEF ReconnectConnects
    <3>2. Places' /\ pc'["main"] = "rsubscribe"
      BY <3>1, GotoMain
    <3> QED
      BY <1>2, <2>1, <3>2, Zenon DEF ReconnectConnects
  <2>2. CASE ~(connected \/ up)
    <3>1. Goto("main", "rtest")
      BY <1>2, <2>2, Zenon DEF ReconnectConnects
    <3>2. Places' /\ pc'["main"] = "rtest"
      BY <3>1, GotoMain
    <3> QED
      BY <1>2, <2>2, <3>2, Zenon DEF ReconnectConnects
  <2> QED
    BY <2>1, <2>2
<1>3. CASE Subscribe("rsubscribe", "rclear", "rtest")
  <2>1. CASE connected
    <3>1. Goto("main", "rclear")
      BY <1>3, <2>1, Zenon DEF Subscribe
    <3>2. Places' /\ pc'["main"] = "rclear"
      BY <3>1, GotoMain
    <3> QED
      BY <1>3, <2>1, <3>2, Zenon DEF Subscribe
  <2>2. CASE ~connected
    <3>1. Goto("main", "rtest")
      BY <1>3, <2>2, Zenon DEF Subscribe
    <3>2. Places' /\ pc'["main"] = "rtest"
      BY <3>1, GotoMain
    <3> QED
      BY <1>3, <2>2, <3>2, Zenon DEF Subscribe
  <2> QED
    BY <2>1, <2>2
<1>4. CASE Clear("rclear", "rdone", "rtest")
  <2>1. CASE connected
    <3>1. Goto("main", "pubcheck")
      BY <1>4, <2>1, Zenon DEF Clear
    <3>2. Places' /\ pc'["main"] = "pubcheck"
      BY <3>1, GotoMain
    <3> QED
      BY <1>4, <2>1, <3>2, Zenon DEF Clear
  <2>2. CASE ~connected
    <3>1. Goto("main", "rtest")
      BY <1>4, <2>2, Zenon DEF Clear
    <3>2. Places' /\ pc'["main"] = "rtest"
      BY <3>1, GotoMain
    <3> QED
      BY <1>4, <2>2, <3>2, Zenon DEF Clear
  <2> QED
    BY <2>1, <2>2
<1>5. CASE ReconnectDone
  <2>1. Goto("main", "loop")
    BY <1>5, Zenon DEF ReconnectDone
  <2>2. Places' /\ pc'["main"] = "loop"
    BY <2>1, GotoMain
  <2> QED
    BY <1>5, <2>2, Zenon DEF ReconnectDone
<1> QED
  BY <1>1, <1>2, <1>3, <1>4, <1>5, Zenon DEF reconnect

LEMMA EnvironmentSteps == ASSUME Linked, Alive, Environment PROVE Linked'
<1> USE DEF link, Places, Linked, LossOnRecord, Unsubscribed, Over, Publishing, Resubscribed
<1>1. CASE signalHandler
  BY <1>1, Zenon DEF signalHandler, threads
<1>2. CASE Command
  BY <1>2, Zenon DEF Command, threads
<1>3. CASE Lose
  BY <1>3, Zenon DEF Lose, threads
<1>4. CASE BrokerBack
  BY <1>4, Zenon DEF BrokerBack, threads
<1>5. CASE AutoReconnect
  BY <1>5, Zenon DEF AutoReconnect, threads, Alive
<1>6. CASE Meddle
  BY <1>6, Zenon DEF Meddle, threads
<1> QED
  BY <1>1, <1>2, <1>3, <1>4, <1>5, <1>6, Zenon DEF Environment

LEMMA LinkedNext == Linked /\ [Next]_vars => Linked'
<1> SUFFICES ASSUME Linked, [Next]_vars PROVE Linked'
  OBVIOUS
<1>1. CASE Alive /\ Main
  BY <1>1, SharedSteps, StartSteps, LoopSteps, ReconnectSteps, Zenon DEF Main, Thread
<1>2. CASE Alive /\ Callback
  BY <1>2, SharedSteps, CallbackSteps, Zenon DEF Callback, Thread
<1>3. CASE Alive /\ Environment
  BY <1>3, EnvironmentSteps
<1>4. CASE UNCHANGED vars
  BY <1>4, Zenon DEF vars, threads, link, Places, Linked, LossOnRecord, Unsubscribed, Over, Publishing, Resubscribed
<1> QED
  BY <1>1, <1>2, <1>3, <1>4 DEF Next

(* However losses of the connection, callbacks and the steps of main fall, *)
(* main never goes on connected, unsubscribed and with nothing on record   *)
(* that will make it subscribe again.                                      *)
THEOREM NotDeaf == Spec => []NeverDeaf
<1>1. Linked => NeverDeaf
  BY Zenon DEF NeverDeaf, InStart, Linked, LossOnRecord, Unsubscribed, Over, Publishing, Resubscribed
<1> QED
  BY LinkedInit, LinkedNext, <1>1, PTL DEF Spec

-------------------------------------------------------------------------------
(* The callback's command.  The inductive invariant: nothing arrives       *)
(* before the subscription; main only writes the pin when it shuts down;   *)
(* and while the program runs and nobody took the pin away during the      *)
(* command, the second try finds the pin an output, and after its          *)
(* direction is known nothing turns it back.                               *)
Kept ==
    /\ val = [t \in Thread |-> val[t]]
    /\ try \in Nat \ {0}
    /\ inbox \in Seq(Payload) /\ retained \in {"none", "ON"}
    /\ Unsubscribed => ~subscribed /\ inbox = <<>> /\ pc["cb"] = "idle"
    /\ pc["main"] \in {"ensure", "write", "verify", "disconnect", "unexport", "unexported"}
         => ~running

Retrying ==
    running /\ ~meddled =>
        /\ pc["cb"] \in {"unexport", "unexported", "reset", "direction"} => try >= 2
        /\ pc["cb"] = "direction" => pin # "absent"
        /\ pc["cb"] = "ensure" /\ try >= 2 => pin = "out"
        /\ pc["cb"] = "write" => pin = "out"
        /\ pc["cb"] = "verify" => pin = "out" /\ led = val["cb"]

Obedient == Linked /\ Kept /\ Retrying

LEMMA ObedientInit == Init => Obedient
<1> SUFFICES ASSUME Init PROVE Kept /\ Retrying
  BY LinkedInit DEF Obedient
<1>1. pc["cb"] = "idle" /\ pc["main"] = "gpio"
  <2>1. pc = [main |-> "gpio", cb |-> "idle"]
    BY Zenon DEF Init
  <2> QED
    BY <2>1, SMT
<1>2. val = [t \in Thread |-> val[t]]
  <2>1. val = [main |-> 0, cb |-> 0]
    BY Zenon DEF Init
  <2> QED
    BY <2>1, SMT DEF Thread
<1>3. try \in Nat \ {0} /\ inbox \in Seq(Payload)
  BY SMT DEF Init
<1> QED
  BY <1>1, <1>2, <1>3, Zenon DEF Init, Kept, Retrying, Unsubscribed

(* What main and the rest of the world do around a command.                *)
PinStands ==
    /\ pin = "out" => pin' = "out" /\ led' = led
    /\ pin # "absent" => pin' # "absent"
Apart ==
    /\ pc'["cb"] = pc["cb"] /\ try' = try
    /\ val' = [t \in Thread |-> val'[t]] /\ val'["cb"] = val["cb"]
    /\ running' => running
    /\ running' /\ ~meddled' => ~meddled /\ PinStands

LEMMA RetryingApart == ASSUME Retrying, Apart PROVE Retrying'
  BY Zenon DEF Retrying, Apart, PinStands

(* A value of main's is no value of the callback's.                        *)
LEMMA ValueOfMain ==
    ASSUME Kept, NEW v, val' = [val EXCEPT !["main"] = v]
    PROVE  val' = [t \in Thread |-> val'[t]] /\ val'["cb"] = val["cb"]
<1>1. DOMAIN val = Thread
  BY Zenon DEF Kept
<1>2. val' = [t \in Thread |-> IF t = "main" THEN v ELSE val[t]]
  BY <1>1, Zenon
<1> QED
  BY <1>2, Zenon DEF Thread

LEMMA ReadKeepsPin == ASSUME readValue PROVE PinStands
  BY Zenon DEF readValue, exportPin, PinStands

(* A step of main that leaves value, tries and messages alone, to a place  *)
(* behind the subscription.                                                *)
Behind == {"clear", "loop", "check", "pubcheck", "pubread", "pubsend", "rtest", "rconnect",
           "rsubscribe", "rclear", "rdone", "exited"}
LEMMA MainBehind ==
    ASSUME Obedient, NEW l, Goto("main", l),
           l \in Behind \/ ~running, l \notin {"gpio", "connect", "subscribe"},
           val' = [t \in Thread |-> val'[t]], val'["cb"] = val["cb"],
           UNCHANGED <<try, running, meddled>>,
           inbox' \in Seq(Payload), retained' \in {"none", "ON"},
           running /\ ~meddled => PinStands
    PROVE  Kept' /\ Retrying'
<1>1. pc'["main"] = l /\ pc'["cb"] = pc["cb"]
  BY GotoMain DEF Obedient, Linked
<1>2. Apart
  BY <1>1, Zenon DEF Apart, Obedient
<1>3. Retrying'
  BY <1>2, RetryingApart DEF Obedient
<1>4. Kept'
  BY <1>1, Zenon DEF Obedient, Kept, Unsubscribed, Behind
<1> QED
  BY <1>3, <1>4

LEMMA WriteOfMain ==
    ASSUME Obedient, Shared("main") PROVE Kept' /\ Retrying'
<1> USE DEF env, topics
<1>1. CASE WriteEnsures("main") \/ WriteSets("main") \/ WriteVerifies("main")
             \/ UnexportWrites("main") \/ UnexportChecks("main")
  <2>1. ~running
    BY <1>1, Zenon DEF WriteEnsures, WriteSets, WriteVerifies, UnexportWrites, UnexportChecks, Obedient, Kept
  <2>2. \E l \in {"write", "verify", "disconnect", "unexported", "exited"} : Goto("main", l)
    BY <1>1, Zenon DEF WriteEnsures, WriteSets, WriteVerifies, UnexportWrites, UnexportChecks, NotWritten, Written
  <2>3. UNCHANGED <<try, val, running, meddled, inbox, retained>>
    BY <1>1, Zenon DEF WriteEnsures, WriteSets, WriteVerifies, UnexportWrites, UnexportChecks, NotWritten, Written
  <2>4. val' = [t \in Thread |-> val'[t]] /\ inbox' \in Seq(Payload) /\ retained' \in {"none", "ON"}
    BY <2>3, Zenon DEF Obedient, Kept
  <2> QED
    BY <2>1, <2>2, <2>3, <2>4, MainBehind, Zenon
<1>2. CASE PublishChecks("main") \/ PublishReads("main") \/ PublishSends("main")
  <2>1. \E l \in Behind : Goto("main", l)
    BY <1>2, Zenon DEF PublishChecks, PublishReads, PublishSends, Published, Behind, Obedient, Linked
  <2>2. UNCHANGED <<try, running, meddled, inbox, retained>> /\ PinStands
    BY <1>2, ReadKeepsPin, Zenon DEF PublishChecks, PublishReads, PublishSends, gpio, PinStands
  <2>3. val' = val \/ \E v : val' = [val EXCEPT !["main"] = v]
    BY <1>2, Zenon DEF PublishChecks, PublishReads, PublishSends
  <2>4. val' = [t \in Thread |-> val'[t]] /\ val'["cb"] = val["cb"]
    BY <2>3, ValueOfMain, Zenon DEF Obedient, Kept
  <2>5. inbox' \in Seq(Payload) /\ retained' \in {"none", "ON"}
    BY <2>2, Zenon DEF Obedient, Kept
  <2> QED
    BY <2>1, <2>2, <2>4, <2>5, MainBehind, Zenon DEF Behind
<1> QED
  BY <1>1, <1>2, Zenon DEF Shared

LEMMA SubscribeOfMain ==
    ASSUME Obedient, NEW from, NEW to \in Behind, NEW thrown \in Behind,
           Subscribe(from, to, thrown)
    PROVE  Kept' /\ Retrying'
<1> USE DEF env, gpio
<1>1. \E l \in Behind : Goto("main", l)
  BY Zenon DEF Subscribe
<1>2. UNCHANGED <<val, try, running, meddled, retained, pin, led>>
  BY Zenon DEF Subscribe
<1>3. inbox' \in Seq(Payload)
  <2>1. inbox \in Seq(Payload) /\ (retained # "none" => retained \in Payload)
    BY Zenon DEF Obedient, Kept, Payload
  <2>2. inbox' = inbox \/ (retained # "none" /\ inbox' = Append(inbox, retained))
    BY Zenon DEF Subscribe
  <2> QED
    BY <2>1, <2>2, SMT
<1>4. val' = [t \in Thread |-> val'[t]] /\ retained' \in {"none", "ON"} /\ PinStands
  BY <1>2, Zenon DEF Obedient, Kept, PinStands
<1> QED
  BY <1>1, <1>2, <1>3, <1>4, MainBehind, Zenon DEF Behind

LEMMA ClearOfMain ==
    ASSUME Obedient, NEW from, NEW after, NEW thrown \in Behind, Clear(from, after, thrown)
    PROVE  Kept' /\ Retrying'
<1> USE DEF env, gpio
<1>1. \E l \in Behind : Goto("main", l)
  BY Zenon DEF Clear, Behind
<1>2. UNCHANGED <<val, try, running, meddled, pin, led>>
  BY Zenon DEF Clear
<1>3. inbox' \in Seq(Payload)
  <2>1. inbox \in Seq(Payload)
    BY Zenon DEF Obedient, Kept
  <2>2. inbox' = inbox \/ \E p \in Payload : inbox' = Append(inbox, p)
    BY Zenon DEF Clear, Payload
  <2> QED
    BY <2>1, <2>2, SMT
<1>4. val' = [t \in Thread |-> val'[t]] /\ retained' \in {"none", "ON"} /\ PinStands
  BY <1>2, Zenon DEF Obedient, Kept, PinStands, Clear
<1> QED
  BY <1>1, <1>2, <1>3, <1>4, MainBehind, Zenon DEF Behind

LEMMA StartOfMain ==
    ASSUME Obedient, Start PROVE Kept' /\ Retrying'
<1> USE DEF topics, env, threads
<1>1. CASE StartGpio \/ StartGpioFails \/ Connects \/ ConnectThrows \/ ConnectTimesOut
  <2>1. PICK l \in {"connect", "subscribe", "exited"} : Goto("main", l)
    BY <1>1, Zenon DEF StartGpio, StartGpioFails, Connects, ConnectThrows, ConnectTimesOut
  <2>2. pc'["main"] = l /\ pc'["cb"] = pc["cb"]
    BY <2>1, GotoMain DEF Obedient, Linked
  <2>3. pc["cb"] = "idle" /\ ~subscribed /\ inbox = <<>>
    BY <1>1, Zenon DEF StartGpio, StartGpioFails, Connects, ConnectThrows, ConnectTimesOut, Unsubscribed, Obedient, Kept
  <2>4. UNCHANGED <<val, try, inbox, retained, subscribed, running>>
    BY <1>1, Zenon DEF StartGpio, StartGpioFails, Connects, ConnectThrows, ConnectTimesOut, link
  <2> QED
    BY <2>2, <2>3, <2>4, Zenon DEF Obedient, Kept, Retrying
<1>2. CASE Subscribe("subscribe", "clear", "exited")
  BY <1>2, SubscribeOfMain DEF Behind
<1>3. CASE Clear("clear", "loop", "exited")
  BY <1>3, ClearOfMain DEF Behind
<1> QED
  BY <1>1, <1>2, <1>3, Zenon DEF Start

LEMMA LoopOfMain ==
    ASSUME Obedient,
           LoopSkipsStatus \/ LoopPublishes \/ LoopChecks \/ LoopEnds \/ Disconnects
    PROVE  Kept' /\ Retrying'
<1> USE DEF topics, env, gpio
<1>1. \E l \in Behind \cup {"ensure", "unexport"} : Goto("main", l) /\ (l \in Behind \/ ~running)
  BY Zenon DEF LoopSkipsStatus, LoopPublishes, LoopChecks, LoopEnds, Disconnects, Behind, Obedient, Kept
<1>2. UNCHANGED <<try, running, meddled, inbox, retained, pin, led>>
  BY Zenon DEF LoopSkipsStatus, LoopPublishes, LoopChecks, LoopEnds, Disconnects
<1>3. val' = val \/ \E v : val' = [val EXCEPT !["main"] = v]
  BY Zenon DEF LoopSkipsStatus, LoopPublishes, LoopChecks, LoopEnds, Disconnects
<1>4. val' = [t \in Thread |-> val'[t]] /\ val'["cb"] = val["cb"]
  BY <1>3, ValueOfMain, Zenon DEF Obedient, Kept
<1>5. inbox' \in Seq(Payload) /\ retained' \in {"none", "ON"} /\ PinStands
  BY <1>2, Zenon DEF Obedient, Kept, PinStands
<1> QED
  BY <1>1, <1>2, <1>4, <1>5, MainBehind, Zenon DEF Behind

LEMMA ReconnectOfMain ==
    ASSUME Obedient, reconnect PROVE Kept' /\ Retrying'
<1> USE DEF topics, env, gpio
<1>1. CASE ReconnectTests \/ ReconnectConnects \/ ReconnectDone
  <2>1. \E l \in Behind : Goto("main", l)
    BY <1>1, Zenon DEF ReconnectTests, ReconnectConnects, ReconnectDone, Behind
  <2>2. UNCHANGED <<val, try, running, meddled, inbox, retained, pin, led>>
    BY <1>1, Zenon DEF ReconnectTests, ReconnectConnects, ReconnectDone
  <2>3. val' = [t \in Thread |-> val'[t]] /\ inbox' \in Seq(Payload) /\ retained' \in {"none", "ON"}
          /\ PinStands
    BY <2>2, Zenon DEF Obedient, Kept, PinStands
  <2> QED
    BY <2>1, <2>2, <2>3, MainBehind, Zenon DEF Behind
<1>2. CASE Subscribe("rsubscribe", "rclear", "rtest")
  BY <1>2, SubscribeOfMain DEF Behind
<1>3. CASE Clear("rclear", "rdone", "rtest")
  BY <1>3, ClearOfMain DEF Behind
<1> QED
  BY <1>1, <1>2, <1>3, Zenon DEF reconnect

-------------------------------------------------------------------------------
(* The callback.                                                           *)

(* A try that finds no pin is the first one, so another follows.           *)
LEMMA FirstTry ==
    ASSUME Obedient, running, ~meddled, WriteEnsures("cb")
    PROVE  \/ pc'["cb"] = "unexport" /\ try' >= 2
           \/ pc'["cb"] = "write" /\ pin' = "out"
<1>1. CASE pin' = "absent"
  <2>1. NotWritten("cb") /\ pin = "absent" /\ pc["cb"] = "ensure"
    BY <1>1, Zenon DEF WriteEnsures, exportPin
  <2>2. try = 1
    <3>1. try \in Nat \ {0} /\ ~(try >= 2)
      BY <2>1, Zenon DEF Obedient, Kept, Retrying
    <3> QED
      BY <3>1, SMT
  <2>3. try < MaxGpioTries
    BY <2>2, TriesAssumption, MqttAssumption, SMT
  <2>4. Goto("cb", "unexport") /\ try' = try + 1
    BY <2>1, <2>3, Zenon DEF NotWritten
  <2>5. try' >= 2
    BY <2>2, <2>4, SMT
  <2> QED
    BY <2>4, <2>5, GotoCallback, Zenon DEF Obedient, Linked
<1>2. CASE pin' # "absent"
  <2>1. pin' = "out" /\ Goto("cb", "write")
    <3>1. CASE (IF exported THEN pin ELSE exportPin(pin)) = "absent"
      BY <1>2, <3>1, SMT DEF WriteEnsures
    <3>2. CASE (IF exported THEN pin ELSE exportPin(pin)) # "absent"
      BY <3>2, Zenon DEF WriteEnsures
    <3> QED
      BY <3>1, <3>2
  <2> QED
    BY <2>1, GotoCallback, Zenon DEF Obedient, Linked
<1> QED
  BY <1>1, <1>2

(* Once the pin is an output, the value goes in.                           *)
LEMMA ValueGoesIn ==
    ASSUME Obedient, running, ~meddled, WriteSets("cb")
    PROVE  pc'["cb"] = "verify" /\ pin' = "out" /\ led' = val["cb"] /\ val' = val
<1>1. pin = "out"
  BY Zenon DEF WriteSets, Obedient, Retrying
<1>2. Goto("cb", "verify") /\ pin' = "out" /\ led' = val["cb"] /\ val' = val
  BY <1>1, Zenon DEF WriteSets, gpio
<1> QED
  BY <1>2, GotoCallback, Zenon DEF Obedient, Linked

(* Nothing turns the pin back between the value and its verification.      *)
LEMMA VerifyFinds ==
    ASSUME Obedient, WriteVerifies("cb"), running, ~meddled
    PROVE  pc'["cb"] = "pubcheck" /\ pin' = "out" /\ led' = val["cb"]
<1>1. pin = "out" /\ led = val["cb"]
  BY Zenon DEF WriteVerifies, Obedient, Retrying
<1>2. pin' = "out" /\ led' = led
  BY <1>1, Zenon DEF WriteVerifies, readValue, exportPin
<1>3. Reading = val["cb"]
  BY <1>1, Zenon DEF Reading, Level
<1>4. Goto("cb", "pubcheck")
  BY <1>3, Zenon DEF WriteVerifies, Written
<1> QED
  BY <1>1, <1>2, <1>4, GotoCallback, Zenon DEF Obedient, Linked

LEMMA CommandFollows ==
    ASSUME Obedient, Shared("cb") \/ RetryExports \/ RetryDirects
    PROVE  Kept' /\ Retrying'
<1> USE DEF topics, env, gpio, threads
<1>1. PICK l : Goto("cb", l)
  BY Zenon DEF Shared, WriteEnsures, WriteSets, WriteVerifies, UnexportWrites, UnexportChecks, PublishChecks, PublishReads, PublishSends, RetryExports, RetryDirects, NotWritten, Written, Published
<1>2. pc'["main"] = pc["main"] /\ pc'["cb"] = l
  BY <1>1, GotoCallback DEF Obedient, Linked
<1>3. UNCHANGED <<running, meddled, inbox, retained, subscribed>>
  BY Zenon DEF Shared, WriteEnsures, WriteSets, WriteVerifies, UnexportWrites, UnexportChecks, PublishChecks, PublishReads, PublishSends, RetryExports, RetryDirects, link
<1>4. pc["cb"] # "idle"
  BY Zenon DEF Shared, WriteEnsures, WriteSets, WriteVerifies, UnexportWrites, UnexportChecks, PublishChecks, PublishReads, PublishSends, RetryExports, RetryDirects
<1>5. val' = [t \in Thread |-> val'[t]]
  <2>1. CASE val' = val
    BY <2>1, Zenon DEF Obedient, Kept
  <2>2. CASE \E v : val' = [val EXCEPT !["cb"] = v]
    BY <2>2, Zenon DEF Obedient, Kept, Thread
  <2> QED
    BY <2>1, <2>2, Zenon DEF Shared, WriteEnsures, WriteSets, WriteVerifies, UnexportWrites, UnexportChecks, PublishChecks, PublishReads, PublishSends, RetryExports, RetryDirects
<1>6. try' \in Nat \ {0}
  <2>1. try' = try \/ try' = try + 1
    BY Zenon DEF Shared, WriteEnsures, WriteSets, WriteVerifies, UnexportWrites, UnexportChecks, PublishChecks, PublishReads, PublishSends, RetryExports, RetryDirects, NotWritten, Written
  <2>2. try \in Nat \ {0}
    BY Zenon DEF Obedient, Kept
  <2> QED
    BY <2>1, <2>2, SMT
<1>7. Kept'
  BY <1>2, <1>3, <1>4, <1>5, <1>6, Zenon DEF Obedient, Kept, Unsubscribed
<1>8. running /\ ~meddled => Retrying'
  <2> SUFFICES ASSUME running, ~meddled PROVE Retrying'
    OBVIOUS
  <2>1. CASE WriteEnsures("cb")
    BY <2>1, FirstTry, Zenon DEF Retrying
  <2>2. CASE WriteSets("cb")
    BY <2>2, ValueGoesIn, Zenon DEF Retrying
  <2>3. CASE WriteVerifies("cb")
    BY <2>3, VerifyFinds, Zenon DEF Retrying
  <2>4. CASE UnexportWrites("cb")
    <3>1. pc["cb"] = "unexport" /\ Goto("cb", "unexported") /\ try' = try
      BY <2>4, Zenon DEF UnexportWrites
    <3>2. pc'["cb"] = "unexported"
      BY <3>1, GotoCallback DEF Obedient, Linked
    <3> QED
      BY <3>1, <3>2, Zenon DEF Obedient, Retrying
  <2>5. CASE UnexportChecks("cb")
    <3>1. pc["cb"] = "unexported" /\ Goto("cb", "reset") /\ try' = try
      BY <2>5, Zenon DEF UnexportChecks
    <3>2. pc'["cb"] = "reset"
      BY <3>1, GotoCallback DEF Obedient, Linked
    <3> QED
      BY <3>1, <3>2, Zenon DEF Obedient, Retrying
  <2>6. CASE RetryExports
    <3>1. pc["cb"] = "reset" /\ Goto("cb", "direction") /\ try' = try /\ pin' # "absent"
      BY <2>6, Zenon DEF RetryExports, exportPin
    <3>2. pc'["cb"] = "direction"
      BY <3>1, GotoCallback DEF Obedient, Linked
    <3> QED
      BY <3>1, <3>2, Zenon DEF Obedient, Retrying
  <2>7. CASE RetryDirects
    <3>1. pc["cb"] = "direction" /\ Goto("cb", "ensure")
      BY <2>7, Zenon DEF RetryDirects
    <3>2. pin # "absent"
      BY <3>1, Zenon DEF Obedient, Retrying
    <3>3. pin' = "out"
      BY <2>7, <3>2, Zenon DEF RetryDirects
    <3>4. pc'["cb"] = "ensure"
      BY <3>1, GotoCallback DEF Obedient, Linked
    <3> QED
      BY <3>3, <3>4, Zenon DEF Retrying
  <2>8. CASE PublishChecks("cb") \/ PublishReads("cb") \/ PublishSends("cb")
    <3>1. \E k \in {"pubread", "pubsend", "idle"} : Goto("cb", k)
      BY <2>8, Zenon DEF PublishChecks, PublishReads, PublishSends, Published
    <3>2. pc'["cb"] \in {"pubread", "pubsend", "idle"}
      BY <3>1, GotoCallback, Zenon DEF Obedient, Linked
    <3> QED
      BY <3>2, Zenon DEF Retrying
  <2> QED
    BY <2>1, <2>2, <2>3, <2>4, <2>5, <2>6, <2>7, <2>8, Zenon DEF Shared
<1> QED
  BY <1>3, <1>7, <1>8, Zenon DEF Retrying

(* Notices, a message taken up, and the rest of the world.                 *)
LEMMA CommandArrives ==
    ASSUME Obedient, message_arrived PROVE Kept' /\ Retrying'
<1> DEFINE p == Head(inbox)
<1>1. inbox \in Seq(Payload) /\ inbox # <<>>
  BY Zenon DEF message_arrived, Obedient, Kept
<1>2. p \in Payload /\ inbox' \in Seq(Payload)
  <2>1. inbox' = Tail(inbox)
    BY Zenon DEF message_arrived
  <2> QED
    BY <1>1, <2>1, SMT
<1>3. \E l \in {"idle", "pubcheck", "ensure"} : Goto("cb", l)
  BY <1>2, Zenon DEF message_arrived, Payload
<1>4. pc'["main"] = pc["main"] /\ pc'["cb"] \in {"idle", "pubcheck", "ensure"}
  BY <1>3, GotoCallback, Zenon DEF Obedient, Linked
<1>5. try' = 1 /\ UNCHANGED <<running, retained>>
  BY Zenon DEF message_arrived
<1>6. try' \in Nat \ {0} /\ ~(try' >= 2)
  BY <1>5, SMT
<1>7. val' = [t \in Thread |-> val'[t]]
  BY Zenon DEF message_arrived, Obedient, Kept, Thread
<1>8. Retrying'
  BY <1>4, <1>6, Zenon DEF Retrying
<1>9. Kept'
  BY <1>1, <1>2, <1>4, <1>5, <1>6, <1>7, Zenon DEF Obedient, Kept, Unsubscribed
<1> QED
  BY <1>8, <1>9

LEMMA WorldAround ==
    ASSUME Obedient, connection_lost \/ Environment PROVE Kept' /\ Retrying'
<1> USE DEF threads, topics, env, gpio, link
<1>1. UNCHANGED <<pc, val, try, retained>>
  BY Zenon DEF connection_lost, Environment, signalHandler, Command, Lose, BrokerBack, AutoReconnect, Meddle
<1>2. Apart
  <2>1. running' => running
    BY Zenon DEF connection_lost, Environment, signalHandler, Command, Lose, BrokerBack, AutoReconnect, Meddle
  <2>2. meddled' = TRUE \/ UNCHANGED <<meddled, pin, led>>
    BY Zenon DEF connection_lost, Environment, signalHandler, Command, Lose, BrokerBack, AutoReconnect, Meddle
  <2>3. val' = [t \in Thread |-> val'[t]]
    BY <1>1, Zenon DEF Obedient, Kept
  <2>4. ~meddled' => ~meddled /\ PinStands
    BY <2>2, Zenon DEF PinStands
  <2> QED
    BY <1>1, <2>1, <2>2, <2>3, <2>4, Zenon DEF Apart
<1>3. inbox' = inbox \/ (subscribed /\ \E c \in Payload : inbox' = Append(inbox, c))
  BY Zenon DEF connection_lost, Environment, signalHandler, Command, Lose, BrokerBack, AutoReconnect, Meddle, Payload
<1>4. inbox' \in Seq(Payload)
  <2>1. inbox \in Seq(Payload)
    BY Zenon DEF Obedient, Kept
  <2> QED
    BY <1>3, <2>1, SMT
<1>5. subscribed' => subscribed
  BY Zenon DEF connection_lost, Environment, signalHandler, Command, Lose, BrokerBack, AutoReconnect, Meddle
<1>6. Kept'
  BY <1>1, <1>2, <1>3, <1>4, <1>5, Zenon DEF Obedient, Kept, Unsubscribed, Apart
<1> QED
  BY <1>2, <1>6, RetryingApart DEF Obedient

LEMMA ObedientNext == Obedient /\ [Next]_vars => Obedient'
<1> SUFFICES ASSUME Obedient, [Next]_vars PROVE Kept' /\ Retrying'
  BY LinkedNext DEF Obedient
<1>1. CASE Main
  BY <1>1, StartOfMain, LoopOfMain, ReconnectOfMain, WriteOfMain, Zenon DEF Main
<1>2. CASE Callback
  BY <1>2, CommandArrives, CommandFollows, WorldAround, Zenon DEF Callback
<1>3. CASE Environment
  BY <1>3, WorldAround
<1>4. CASE UNCHANGED vars
  BY <1>4, Zenon DEF vars, threads, gpio, link, topics, env, Obedient, Kept, Retrying, Unsubscribed
<1> QED
  BY <1>1, <1>2, <1>3, <1>4 DEF Next

(* The step that ends a command: it is the verification that finds the     *)
(* level it wants, never the last try given up.                            *)
LEMMA CommandEnds ==
    ASSUME Obedient, [Next]_vars,
           pc["cb"] \in {"ensure", "write", "verify"}, pc'["cb"] = "pubcheck",
           running, ~meddled
    PROVE  pin' = "out" /\ led' = val["cb"]
<1>1. CASE Main
  <2>1. \E l : Goto("main", l)
    BY <1>1, Zenon DEF Main, Start, StartGpio, StartGpioFails, Connects, ConnectThrows, ConnectTimesOut, Subscribe, Clear, LoopSkipsStatus, LoopPublishes, LoopChecks, LoopEnds, Disconnects, reconnect, ReconnectTests, ReconnectConnects, ReconnectDone, Shared, WriteEnsures, WriteSets, WriteVerifies, UnexportWrites, UnexportChecks, PublishChecks, PublishReads, PublishSends, NotWritten, Written, Published
  <2> QED
    BY <2>1, GotoMain, Zenon DEF Obedient, Linked
<1>2. CASE connection_lost \/ Environment \/ UNCHANGED vars
  BY <1>2, Zenon DEF connection_lost, Environment, signalHandler, Command, Lose, BrokerBack, AutoReconnect, Meddle, vars, threads
<1>3. CASE message_arrived \/ RetryExports \/ RetryDirects \/ UnexportWrites("cb") \/ UnexportChecks("cb")
             \/ PublishChecks("cb") \/ PublishReads("cb") \/ PublishSends("cb")
  BY <1>3, Zenon DEF message_arrived, RetryExports, RetryDirects, UnexportWrites, UnexportChecks, PublishChecks, PublishReads, PublishSends
<1>4. CASE WriteVerifies("cb")
  BY <1>4, VerifyFinds
<1>5. CASE WriteEnsures("cb") \/ WriteSets("cb")
  BY <1>5, FirstTry, ValueGoesIn, Zenon
<1> QED
  BY <1>1, <1>2, <1>3, <1>4, <1>5, Zenon DEF Next, Callback, Shared

(* However main's reading of the pin, an unexport between two commands and *)
(* losses of the connection fall, a command that is answered while the     *)
(* program runs has put its level on the pin, unless the pin was taken     *)
(* during the command itself.                                              *)
THEOREM CommandsObeyed == Spec => CommandObeyed
<1>1. Obedient /\ [Next]_vars =>
        [(pc["cb"] \in {"ensure", "write", "verify"} /\ pc'["cb"] = "pubcheck"
            /\ running /\ ~meddled)
           => pin' = "out" /\ led' = val["cb"]]_vars
  BY CommandEnds
<1> QED
  BY ObedientInit, ObedientNext, <1>1, PTL DEF Spec, CommandObeyed

-------------------------------------------------------------------------------
(* The types.  What is not trivial about them: the two retry loops never   *)
(* count past their limits, and only an output is ever lit.                *)

Starting == {"gpio", "connect"}
Retries == {"rtest", "rconnect", "rsubscribe", "rclear"}

(* A thread moves: what the rest of the step has to keep.                  *)
LEMMA ThreadMoves ==
    ASSUME ThreadsTyped, NEW t \in Thread, NEW l \in Label, Goto(t, l),
           val' \in [Thread -> {0, 1}], ret' \in {"loop", "check", "rdone"},
           try' \in 1..MaxGpioTries, ticks' \in 0..StatusTicks, attempts' \in Nat,
           t = "cb" => attempts' = attempts,
           t = "main" /\ l \in Starting => attempts' < MAX_CONNECTION_ATTEMPTS,
           t = "main" /\ l \in Retries => attempts' <= MAX_RETRIES
    PROVE  ThreadsTyped'
<1>1. pc' \in [Thread -> Label] /\ pc'["main"] = IF t = "main" THEN l ELSE pc["main"]
  BY SMT DEF ThreadsTyped, Goto, Thread
<1>2. CASE t = "main"
  BY <1>1, <1>2, Zenon DEF ThreadsTyped, Starting, Retries
<1>3. CASE t = "cb"
  BY <1>1, <1>3, Zenon DEF ThreadsTyped
<1> QED
  BY <1>2, <1>3, Zenon DEF Thread

(* What a step leaves alone stays typed.                                   *)
LEMMA LinkFrame ==
    ASSUME LinkTyped, UNCHANGED <<running, reconnection_required, link>>
    PROVE  LinkTyped'
  BY Zenon DEF LinkTyped, link
LEMMA TopicsFrame ==
    ASSUME TopicsTyped, UNCHANGED topics
    PROVE  TopicsTyped'
  BY Zenon DEF TopicsTyped, topics
LEMMA EnvFrame ==
    ASSUME EnvTyped, UNCHANGED env
    PROVE  EnvTyped'
  BY Zenon DEF EnvTyped, env
LEMMA PinFrame ==
    ASSUME PinTyped, UNCHANGED gpio
    PROVE  PinTyped'
  BY Zenon DEF PinTyped, gpio

(* A place outside the retry loops.                                        *)
Free == Label \ (Starting \cup Retries)
LEMMA ThreadGoes ==
    ASSUME ThreadsTyped, NEW t \in Thread, NEW l \in Free, Goto(t, l),
           UNCHANGED <<ret, attempts, ticks>>,
           val' \in [Thread -> {0, 1}], try' \in 1..MaxGpioTries
    PROVE  ThreadsTyped'
<1>1. l \in Label /\ l \notin Starting /\ l \notin Retries
  BY Zenon DEF Free
<1>2. ret' \in {"loop", "check", "rdone"} /\ ticks' \in 0..StatusTicks
        /\ attempts' \in Nat /\ attempts' = attempts
  BY Zenon DEF ThreadsTyped
<1> QED
  BY <1>1, <1>2, ThreadMoves, Zenon

LEMMA WriteTyped ==
    ASSUME MqttTypeOK, NEW t \in Thread, WriteEnsures(t) \/ WriteSets(t) \/ WriteVerifies(t)
    PROVE  MqttTypeOK'
<1> USE DEF MqttTypeOK
<1>1. PICK l \in Free : Goto(t, l)
  <2>1. \E l \in {"write", "verify", "unexport", "disconnect", "pubcheck"} : Goto(t, l)
    BY Zenon DEF WriteEnsures, WriteSets, WriteVerifies, NotWritten, Written
  <2> QED
    BY <2>1, SMT DEF Free, Label, Starting, Retries
<1>2. try' \in 1..MaxGpioTries
  BY MqttAssumption, SMT DEF ThreadsTyped, WriteEnsures, WriteSets, WriteVerifies,
                             NotWritten, Written
<1>3. UNCHANGED <<val, ret, attempts, ticks>>
  BY Zenon DEF WriteEnsures, WriteSets, WriteVerifies
<1>4. ThreadsTyped'
  BY <1>1, <1>2, <1>3, ThreadGoes, Zenon DEF ThreadsTyped
<1>5. PinTyped'
  <2>1. CASE WriteEnsures(t)
    BY <2>1, SMT DEF PinTyped, WriteEnsures, exportPin
  <2>2. CASE WriteSets(t)
    <3>1. val[t] \in {0, 1}
      BY Zenon DEF ThreadsTyped
    <3> QED
      BY <2>2, <3>1, SMT DEF PinTyped, WriteSets
  <2>3. CASE WriteVerifies(t)
    BY <2>3, SMT DEF PinTyped, WriteVerifies, readValue, exportPin
  <2> QED
    BY <2>1, <2>2, <2>3
<1>6. LinkTyped' /\ TopicsTyped' /\ EnvTyped'
  <2>1. UNCHANGED <<running, reconnection_required, link, topics, env>>
    BY Zenon DEF WriteEnsures, WriteSets, WriteVerifies
  <2> QED
    BY <2>1, LinkFrame, TopicsFrame, EnvFrame, Zenon
<1> QED
  BY <1>4, <1>5, <1>6

LEMMA UnexportTyped ==
    ASSUME MqttTypeOK, NEW t \in Thread,
           UnexportWrites(t) \/ UnexportChecks(t)
             \/ (t = "cb" /\ (RetryExports \/ RetryDirects))
    PROVE  MqttTypeOK'
<1> USE DEF MqttTypeOK
<1>1. PICK l \in Free : Goto(t, l)
  <2>1. \E l \in {"unexported", "exited", "reset", "direction", "ensure"} : Goto(t, l)
    BY Zenon DEF UnexportWrites, UnexportChecks, RetryExports, RetryDirects
  <2> QED
    BY <2>1, SMT DEF Free, Label, Starting, Retries
<1>2. UNCHANGED <<val, ret, attempts, ticks, try>>
  BY Zenon DEF UnexportWrites, UnexportChecks, RetryExports, RetryDirects
<1>3. ThreadsTyped'
  BY <1>1, <1>2, ThreadGoes, Zenon DEF ThreadsTyped
<1>4. PinTyped'
  <2>1. CASE UnexportWrites(t)
    BY <2>1, SMT DEF PinTyped, UnexportWrites
  <2>2. CASE UnexportChecks(t)
    BY <2>2, Zenon DEF PinTyped, UnexportChecks
  <2>3. CASE RetryExports
    BY <2>3, SMT DEF PinTyped, RetryExports, exportPin
  <2>4. CASE RetryDirects
    BY <2>4, SMT DEF PinTyped, RetryDirects
  <2> QED
    BY <2>1, <2>2, <2>3, <2>4
<1>5. LinkTyped' /\ TopicsTyped' /\ EnvTyped'
  <2>1. UNCHANGED <<running, reconnection_required, link, topics, env>>
    BY Zenon DEF UnexportWrites, UnexportChecks, RetryExports, RetryDirects
  <2> QED
    BY <2>1, LinkFrame, TopicsFrame, EnvFrame, Zenon
<1> QED
  BY <1>3, <1>4, <1>5

LEMMA PublishTyped ==
    ASSUME MqttTypeOK, NEW t \in Thread, PublishChecks(t) \/ PublishReads(t) \/ PublishSends(t)
    PROVE  MqttTypeOK'
<1> USE DEF MqttTypeOK
<1>1. PICK l \in Free : Goto(t, l)
  <2>1. \E l \in {"pubread", "pubsend", ret, "idle"} : Goto(t, l)
    BY Zenon DEF PublishChecks, PublishReads, PublishSends, Published
  <2> QED
    BY <2>1, SMT DEF Free, Label, Starting, Retries, ThreadsTyped
<1>2. val' \in [Thread -> {0, 1}]
  <2>1. CASE PublishReads(t)
    <3>1. Reading # Error => Reading \in {0, 1}
      BY SMT DEF Reading, Level, PinTyped
    <3> QED
      BY <2>1, <3>1, SMT DEF PublishReads, ThreadsTyped
  <2>2. CASE PublishChecks(t) \/ PublishSends(t)
    BY <2>2, Zenon DEF PublishChecks, PublishSends, ThreadsTyped
  <2> QED
    BY <2>1, <2>2
<1>3. UNCHANGED <<ret, attempts, ticks, try>>
  BY Zenon DEF PublishChecks, PublishReads, PublishSends
<1>4. ThreadsTyped'
  BY <1>1, <1>2, <1>3, ThreadGoes, Zenon DEF ThreadsTyped
<1>5. PinTyped'
  <2>1. CASE PublishReads(t)
    BY <2>1, SMT DEF PinTyped, PublishReads, readValue, exportPin
  <2>2. CASE PublishChecks(t) \/ PublishSends(t)
    BY <2>2, PinFrame, Zenon DEF PublishChecks, PublishSends
  <2> QED
    BY <2>1, <2>2
<1>6. LinkTyped' /\ EnvTyped'
  BY Zenon DEF LinkTyped, EnvTyped, PublishChecks, PublishReads, PublishSends, link, env
<1>7. TopicsTyped'
  <2>1. val[t] \in {0, 1}
    BY Zenon DEF ThreadsTyped
  <2> QED
    BY <2>1, Zenon DEF TopicsTyped, PublishChecks, PublishReads, PublishSends, topics
<1> QED
  BY <1>4, <1>5, <1>6, <1>7

LEMMA CallbackTyped ==
    ASSUME MqttTypeOK, Callback
    PROVE  MqttTypeOK'
<1> USE DEF MqttTypeOK
<1>1. CASE connection_lost
  <2>1. UNCHANGED <<threads, gpio, topics, env, running, up, connected, subscribed, auto>>
        /\ lost' = FALSE /\ reconnection_required' = TRUE
    BY <1>1, Zenon DEF connection_lost
  <2>2. ThreadsTyped'
    BY <2>1, Zenon DEF ThreadsTyped, threads
  <2>3. LinkTyped'
    BY <2>1, Zenon DEF LinkTyped
  <2> QED
    BY <2>1, <2>2, <2>3, PinFrame, TopicsFrame, EnvFrame, Zenon
<1>2. CASE message_arrived
  <2>1. inbox \in Seq(Payload) /\ inbox # <<>>
    BY <1>2, Zenon DEF message_arrived, TopicsTyped
  <2>2. Head(inbox) \in Payload /\ Tail(inbox) \in Seq(Payload)
    BY <2>1, SMT
  <2>3. PICK l \in Free : Goto("cb", l)
    <3>1. CASE Head(inbox) = ""
      BY <1>2, <3>1, Zenon DEF message_arrived, Free, Label, Starting, Retries
    <3>2. CASE Head(inbox) = "STATUS"
      BY <1>2, <3>2, Zenon DEF message_arrived, Free, Label, Starting, Retries
    <3>3. CASE Head(inbox) \in {"ON", "OFF"}
      BY <1>2, <3>3, Zenon DEF message_arrived, Free, Label, Starting, Retries
    <3> QED
      BY <2>2, <3>1, <3>2, <3>3, Zenon DEF Payload
  <2>4. val' \in [Thread -> {0, 1}] /\ try' \in 1..MaxGpioTries
    <3>1. PICK v \in {0, 1} : val' = [val EXCEPT !["cb"] = v]
      BY <1>2, Zenon DEF message_arrived
    <3>2. val' \in [Thread -> {0, 1}]
      BY <3>1, Zenon DEF ThreadsTyped
    <3>3. try' = 1
      BY <1>2, Zenon DEF message_arrived
    <3> QED
      BY <3>2, <3>3, MqttAssumption, SMT
  <2>5. UNCHANGED <<ret, attempts, ticks>> /\ "cb" \in Thread
    BY <1>2, Zenon DEF message_arrived, Thread
  <2>6. ThreadsTyped'
    BY <2>3, <2>4, <2>5, ThreadGoes, Zenon
  <2>7. TopicsTyped'
    BY <1>2, <2>2, Zenon DEF message_arrived, TopicsTyped
  <2>8. EnvTyped'
    BY <1>2, Zenon DEF message_arrived, EnvTyped
  <2>9. UNCHANGED <<running, reconnection_required, link, gpio>>
    BY <1>2, Zenon DEF message_arrived
  <2> QED
    BY <2>6, <2>7, <2>8, <2>9, PinFrame, LinkFrame, Zenon
<1>3. CASE RetryExports \/ RetryDirects
  BY <1>3, UnexportTyped, Zenon DEF Thread
<1>4. CASE Shared("cb")
  BY <1>4, WriteTyped, UnexportTyped, PublishTyped, Zenon DEF Shared, Thread
<1> QED
  BY <1>1, <1>2, <1>3, <1>4 DEF Callback

LEMMA StartTyped ==
    ASSUME MqttTypeOK,
           StartGpio \/ StartGpioFails \/ Connects \/ ConnectThrows \/ ConnectTimesOut
    PROVE  MqttTypeOK'
<1> USE DEF MqttTypeOK
<1>1. ThreadsTyped'
  <2>1. PICK l \in Label : Goto("main", l) /\ l \notin Retries
                             /\ (l \in Starting => attempts' < MAX_CONNECTION_ATTEMPTS)
    <3>1. CASE ConnectThrows /\ attempts + 1 < MAX_CONNECTION_ATTEMPTS
      BY <3>1, Zenon DEF ConnectThrows, Label, Starting, Retries
    <3>2. CASE ConnectThrows /\ ~(attempts + 1 < MAX_CONNECTION_ATTEMPTS)
      BY <3>2, Zenon DEF ConnectThrows, Label, Starting, Retries
    <3>3. CASE StartGpio
      <4>1. Goto("main", "connect") /\ attempts' < MAX_CONNECTION_ATTEMPTS
        BY <3>3, Zenon DEF StartGpio, ThreadsTyped
      <4> QED
        BY <4>1, Zenon DEF Label, Starting, Retries
    <3>4. CASE StartGpioFails \/ Connects \/ ConnectTimesOut
      BY <3>4, Zenon DEF StartGpioFails, Connects, ConnectTimesOut, Label, Starting, Retries
    <3> QED
      BY <3>1, <3>2, <3>3, <3>4
  <2>2. UNCHANGED <<val, ret, ticks, try>> /\ "main" \in Thread
    BY Zenon DEF StartGpio, StartGpioFails, Connects, ConnectThrows, ConnectTimesOut, Thread
  <2>3. attempts' \in Nat
    BY SMT DEF StartGpio, StartGpioFails, Connects, ConnectThrows, ConnectTimesOut, ThreadsTyped
  <2>4. /\ val' \in [Thread -> {0, 1}] /\ ret' \in {"loop", "check", "rdone"}
        /\ try' \in 1..MaxGpioTries /\ ticks' \in 0..StatusTicks
    BY <2>2, Zenon DEF ThreadsTyped
  <2> QED
    BY <2>1, <2>2, <2>3, <2>4, ThreadMoves, Zenon
<1>2. PinTyped'
  <2>1. CASE StartGpio
    BY <2>1, SMT DEF PinTyped, StartGpio
  <2>2. CASE ~StartGpio
    BY <2>2, PinFrame, Zenon DEF StartGpioFails, Connects, ConnectThrows, ConnectTimesOut
  <2> QED
    BY <2>1, <2>2
<1>3. LinkTyped'
  BY Zenon DEF LinkTyped, StartGpio, StartGpioFails, Connects, ConnectThrows, ConnectTimesOut, link
<1>4. UNCHANGED <<topics, env>>
  BY Zenon DEF StartGpio, StartGpioFails, Connects, ConnectThrows, ConnectTimesOut
<1> QED
  BY <1>1, <1>2, <1>3, <1>4, TopicsFrame, EnvFrame, Zenon

LEMMA Delivered ==
    ASSUME inbox \in Seq(Payload), NEW m \in Payload
    PROVE  Append(inbox, m) \in Seq(Payload)
  BY SMT

(* subscribe and clear, in main's start and in reconnect.                  *)
LEMMA SubscribeTyped ==
    ASSUME MqttTypeOK,
           NEW from, NEW to \in Label \ Starting, NEW thrown \in Label \ Starting,
           {to, thrown} \cap Retries # {} => from \in Retries,
           Subscribe(from, to, thrown)
    PROVE  MqttTypeOK'
<1> USE DEF MqttTypeOK
<1>1. ThreadsTyped'
  <2>1. PICK l \in {to, thrown} : Goto("main", l)
    BY Zenon DEF Subscribe
  <2>2. UNCHANGED <<val, ret, attempts, ticks, try>> /\ pc["main"] = from /\ "main" \in Thread
    BY Zenon DEF Subscribe, Thread
  <2>3. l \in Label /\ l \notin Starting /\ (l \in Retries => attempts <= MAX_RETRIES)
    BY <2>1, <2>2, Zenon DEF ThreadsTyped, Retries
  <2>4. /\ val' \in [Thread -> {0, 1}] /\ ret' \in {"loop", "check", "rdone"}
        /\ try' \in 1..MaxGpioTries /\ ticks' \in 0..StatusTicks
        /\ attempts' \in Nat /\ attempts' = attempts
    BY <2>2, Zenon DEF ThreadsTyped
  <2> QED
    BY <2>1, <2>2, <2>3, <2>4, ThreadMoves, Zenon
<1>2. LinkTyped'
  BY Zenon DEF LinkTyped, Subscribe
<1>3. TopicsTyped'
  <2>1. /\ retained' = retained /\ shown' = shown
        /\ inbox' = inbox \/ (retained # "none" /\ inbox' = Append(inbox, retained))
    BY Zenon DEF Subscribe
  <2>2. retained # "none" => retained \in Payload
    BY Zenon DEF TopicsTyped, Payload
  <2> QED
    BY <2>1, <2>2, Delivered, Zenon DEF TopicsTyped
<1>4. UNCHANGED <<gpio, env>>
  BY Zenon DEF Subscribe
<1> QED
  BY <1>1, <1>2, <1>3, <1>4, PinFrame, EnvFrame, Zenon

LEMMA ClearTyped ==
    ASSUME MqttTypeOK,
           NEW from, NEW after \in {"loop", "rdone"}, NEW thrown \in Label \ Starting,
           thrown \in Retries => from \in Retries,
           Clear(from, after, thrown)
    PROVE  MqttTypeOK'
<1> USE DEF MqttTypeOK
<1>1. ThreadsTyped'
  <2>1. PICK l \in {"pubcheck", thrown} : Goto("main", l)
    BY Zenon DEF Clear
  <2>2. UNCHANGED <<val, attempts, ticks, try>> /\ pc["main"] = from /\ "main" \in Thread
        /\ ret' = after
    BY Zenon DEF Clear, Thread
  <2>3. l \in Label /\ l \notin Starting /\ (l \in Retries => attempts <= MAX_RETRIES)
    BY <2>1, <2>2, Zenon DEF ThreadsTyped, Retries, Starting, Label
  <2>4. /\ val' \in [Thread -> {0, 1}] /\ ret' \in {"loop", "check", "rdone"}
        /\ try' \in 1..MaxGpioTries /\ ticks' \in 0..StatusTicks
        /\ attempts' \in Nat /\ attempts' = attempts
    BY <2>2, Zenon DEF ThreadsTyped
  <2> QED
    BY <2>1, <2>2, <2>3, <2>4, ThreadMoves, Zenon
<1>2. TopicsTyped'
  <2>1. /\ retained' \in {"none", retained} /\ shown' = shown
        /\ inbox' = inbox \/ inbox' = Append(inbox, "")
    BY Zenon DEF Clear
  <2> QED
    BY <2>1, Delivered, Zenon DEF TopicsTyped, Payload
<1>3. UNCHANGED <<gpio, env, link, running, reconnection_required>>
  BY Zenon DEF Clear
<1> QED
  BY <1>1, <1>2, <1>3, PinFrame, EnvFrame, LinkFrame, Zenon

LEMMA LoopTyped ==
    ASSUME MqttTypeOK,
           LoopSkipsStatus \/ LoopPublishes \/ LoopChecks \/ LoopEnds \/ Disconnects
    PROVE  MqttTypeOK'
<1> USE DEF MqttTypeOK
<1>1. ThreadsTyped'
  <2>1. PICK l \in Label \ Starting : Goto("main", l) /\ (l \in Retries => attempts' = 0)
    <3>1. CASE LoopChecks
      <4>1. attempts' = 0 /\ \E l \in {"rtest", "loop"} : Goto("main", l)
        BY <3>1, Zenon DEF LoopChecks
      <4> QED
        BY <4>1, Zenon DEF Label, Starting
    <3>2. CASE ~LoopChecks
      <4>1. \E l \in {"check", "pubcheck", "ensure", "unexport"} : Goto("main", l)
        BY <3>2, Zenon DEF LoopSkipsStatus, LoopPublishes, LoopEnds, Disconnects
      <4> QED
        BY <4>1, Zenon DEF Label, Starting, Retries
    <3> QED
      BY <3>1, <3>2
  <2>2. val' \in [Thread -> {0, 1}]
    BY SMT DEF LoopSkipsStatus, LoopPublishes, LoopChecks, LoopEnds, Disconnects, ThreadsTyped
  <2>3. ticks' \in 0..StatusTicks /\ attempts' \in Nat
    BY MqttAssumption, SMT
       DEF LoopSkipsStatus, LoopPublishes, LoopChecks, LoopEnds, Disconnects, ThreadsTyped
  <2>4. ret' \in {"loop", "check", "rdone"} /\ try' \in 1..MaxGpioTries /\ "main" \in Thread
    BY Zenon DEF LoopSkipsStatus, LoopPublishes, LoopChecks, LoopEnds, Disconnects,
                 ThreadsTyped, Thread
  <2>5. 0 <= MAX_RETRIES
    BY MqttAssumption, SMT
  <2> QED
    BY <2>1, <2>2, <2>3, <2>4, <2>5, ThreadMoves, Zenon
<1>2. LinkTyped'
  BY Zenon DEF LinkTyped, LoopSkipsStatus, LoopPublishes, LoopChecks, LoopEnds, Disconnects, link
<1>3. UNCHANGED <<gpio, topics, env>>
  BY Zenon DEF LoopSkipsStatus, LoopPublishes, LoopChecks, LoopEnds, Disconnects
<1> QED
  BY <1>1, <1>2, <1>3, PinFrame, TopicsFrame, EnvFrame, Zenon

LEMMA LoopIsFree == "loop" \in Label \ Starting /\ "loop" \notin Retries
  BY Zenon DEF Label, Starting, Retries

LEMMA ReconnectTyped ==
    ASSUME MqttTypeOK, ReconnectTests \/ ReconnectConnects \/ ReconnectDone
    PROVE  MqttTypeOK'
<1> USE DEF MqttTypeOK
<1>1. ThreadsTyped'
  <2>1. PICK l \in Label \ Starting : Goto("main", l) /\ (l \in Retries => attempts' <= MAX_RETRIES)
    <3>1. CASE ReconnectTests
      <4> DEFINE again == running /\ reconnection_required /\ attempts < MAX_RETRIES
      <4>1. CASE again
        <5>1. attempts' = attempts + 1 /\ Goto("main", "rconnect")
          BY <3>1, <4>1, Zenon DEF ReconnectTests
        <5>2. attempts' <= MAX_RETRIES
          BY <4>1, <5>1, MqttAssumption, SMT DEF ThreadsTyped
        <5> QED
          BY <5>1, <5>2, Zenon DEF Label, Starting
      <4>2. CASE ~again
        <5>1. Goto("main", "loop")
          BY <3>1, <4>2, Zenon DEF ReconnectTests
        <5> QED
          BY <5>1, LoopIsFree
      <4> QED
        BY <4>1, <4>2
    <3>2. CASE ReconnectConnects
      <4>1. attempts' <= MAX_RETRIES
        BY <3>2, Zenon DEF ReconnectConnects, ThreadsTyped
      <4> QED
        BY <3>2, <4>1, Zenon DEF ReconnectConnects, Label, Starting
    <3>3. CASE ReconnectDone
      <4>1. Goto("main", "loop")
        BY <3>3, Zenon DEF ReconnectDone
      <4> QED
        BY <4>1, LoopIsFree
    <3> QED
      BY <3>1, <3>2, <3>3
  <2>2. attempts' \in Nat
    BY SMT DEF ReconnectTests, ReconnectConnects, ReconnectDone, ThreadsTyped
  <2>3. /\ val' \in [Thread -> {0, 1}] /\ ret' \in {"loop", "check", "rdone"}
        /\ try' \in 1..MaxGpioTries /\ ticks' \in 0..StatusTicks /\ "main" \in Thread
    BY Zenon DEF ReconnectTests, ReconnectConnects, ReconnectDone, ThreadsTyped, Thread
  <2> QED
    BY <2>1, <2>2, <2>3, ThreadMoves, Zenon
<1>2. LinkTyped'
  BY Zenon DEF LinkTyped, ReconnectTests, ReconnectConnects, ReconnectDone, link
<1>3. UNCHANGED <<gpio, topics, env>>
  BY Zenon DEF ReconnectTests, ReconnectConnects, ReconnectDone
<1> QED
  BY <1>1, <1>2, <1>3, PinFrame, TopicsFrame, EnvFrame, Zenon

LEMMA EnvironmentTyped ==
    ASSUME MqttTypeOK, Environment
    PROVE  MqttTypeOK'
<1> USE DEF MqttTypeOK
<1>1. ThreadsTyped'
  <2>1. UNCHANGED threads
    BY Zenon DEF Environment, signalHandler, Command, Lose, BrokerBack, AutoReconnect, Meddle
  <2> QED
    BY <2>1, Zenon DEF ThreadsTyped, threads
<1>2. PinTyped'
  <2>1. CASE Meddle
    BY <2>1, SMT DEF Meddle, PinTyped
  <2>2. CASE ~Meddle
    BY <2>2, PinFrame, Zenon
       DEF Environment, signalHandler, Command, Lose, BrokerBack, AutoReconnect
  <2> QED
    BY <2>1, <2>2
<1>3. LinkTyped'
  BY Zenon DEF Environment, signalHandler, Command, Lose, BrokerBack, AutoReconnect, Meddle,
               LinkTyped, link
<1>4. TopicsTyped'
  <2>1. CASE Command
    <3>1. PICK c \in {"ON", "OFF", "STATUS"} : inbox' = Append(inbox, c)
      BY <2>1, Zenon DEF Command
    <3>2. retained' = retained /\ shown' = shown /\ c \in Payload
      BY <2>1, Zenon DEF Command, Payload
    <3> QED
      BY <3>1, <3>2, Delivered, Zenon DEF TopicsTyped
  <2>2. CASE ~Command
    BY <2>2, TopicsFrame, Zenon
       DEF Environment, signalHandler, Lose, BrokerBack, AutoReconnect, Meddle
  <2> QED
    BY <2>1, <2>2
<1>5. EnvTyped'
  <2>1. CASE signalHandler \/ BrokerBack \/ AutoReconnect
    BY <2>1, EnvFrame, Zenon DEF signalHandler, BrokerBack, AutoReconnect
  <2>2. CASE Command \/ Lose
    BY <2>2, MqttAssumption, SMT DEF Command, Lose, EnvTyped
  <2>3. CASE Meddle
    BY <2>3, MqttAssumption, SMT DEF Meddle, EnvTyped
  <2> QED
    BY <2>1, <2>2, <2>3 DEF Environment
<1> QED
  BY <1>1, <1>2, <1>3, <1>4, <1>5

(* The controller keeps to its types: no retry loop counts past its limit, *)
(* and only an output pin is lit, whatever another program does with it.   *)
THEOREM MqttType == Spec => []MqttTypeOK
<1>1. Init => MqttTypeOK
  <2> SUFFICES ASSUME Init PROVE MqttTypeOK
    OBVIOUS
  <2>1. pc \in [Thread -> Label] /\ pc["main"] = "gpio" /\ val \in [Thread -> {0, 1}]
    BY SMT DEF Init, Thread, Label
  <2>2. ret = "loop" /\ try = 1 /\ ticks = 0 /\ attempts = 0
    BY Zenon DEF Init
  <2>3. ThreadsTyped
    BY <2>1, <2>2, MqttAssumption, SMT DEF ThreadsTyped
  <2>4. PinTyped
    <3>1. exported = FALSE /\ pin \in {"absent", "in", "out"}
          /\ led \in IF pin = "out" THEN {0, 1} ELSE {0}
      BY Zenon DEF Init
    <3>2. led \in {0, 1} /\ (led = 1 => pin = "out")
      <4>1. CASE pin = "out"
        BY <3>1, <4>1, Zenon
      <4>2. CASE pin # "out"
        BY <3>1, <4>2, SMT
      <4> QED
        BY <4>1, <4>2
    <3> QED
      BY <3>1, <3>2, Zenon DEF PinTyped
  <2>5. LinkTyped
    BY Zenon DEF Init, LinkTyped
  <2>6. TopicsTyped
    <3>1. inbox \in Seq(Payload)
      BY SMT DEF Init
    <3> QED
      BY <3>1, Zenon DEF Init, TopicsTyped
  <2>7. EnvTyped
    <3>1. commands = 0 /\ losses = 0 /\ meddling = 0 /\ meddled = FALSE
      BY Zenon DEF Init
    <3>2. 0 \in 0..MaxCommands /\ 0 \in 0..MaxLosses /\ 0 \in 0..MaxMeddling
      BY MqttAssumption, SMT
    <3> QED
      BY <3>1, <3>2, Zenon DEF EnvTyped
  <2> QED
    BY <2>3, <2>4, <2>5, <2>6, <2>7 DEF MqttTypeOK
<1>2. MqttTypeOK /\ [Next]_vars => MqttTypeOK'
  <2> SUFFICES ASSUME MqttTypeOK, [Next]_vars
               PROVE  MqttTypeOK'
    OBVIOUS
  <2>1. CASE Start
    <3>1. CASE Subscribe("subscribe", "clear", "exited")
      BY <3>1, SubscribeTyped, Zenon DEF Label, Starting, Retries
    <3>2. CASE Clear("clear", "loop", "exited")
      BY <3>2, ClearTyped, Zenon DEF Label, Starting, Retries
    <3> QED
      BY <2>1, <3>1, <3>2, StartTyped DEF Start
  <2>2. CASE reconnect
    <3>1. CASE Subscribe("rsubscribe", "rclear", "rtest")
      BY <3>1, SubscribeTyped, Zenon DEF Label, Starting, Retries
    <3>2. CASE Clear("rclear", "rdone", "rtest")
      BY <3>2, ClearTyped, Zenon DEF Label, Starting, Retries
    <3> QED
      BY <2>2, <3>1, <3>2, ReconnectTyped DEF reconnect
  <2>3. CASE LoopSkipsStatus \/ LoopPublishes \/ LoopChecks \/ LoopEnds \/ Disconnects
    BY <2>3, LoopTyped
  <2>4. CASE Shared("main")
    BY <2>4, WriteTyped, UnexportTyped, PublishTyped, Zenon DEF Shared, Thread
  <2>5. CASE UNCHANGED vars
    <3>1. UNCHANGED <<threads, running, reconnection_required, gpio, link, topics, env>>
      BY <2>5, Zenon DEF vars
    <3>2. ThreadsTyped'
      BY <3>1, Zenon DEF threads, MqttTypeOK, ThreadsTyped
    <3> QED
      BY <3>1, <3>2, PinFrame, LinkFrame, TopicsFrame, EnvFrame, Zenon DEF MqttTypeOK
  <2> QED
    BY <2>1, <2>2, <2>3, <2>4, <2>5, CallbackTyped, EnvironmentTyped, Zenon DEF Next, Main
<1> QED
  BY <1>1, <1>2, PTL DEF Spec
===============================================================================
