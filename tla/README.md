# Verification of RPI_Linux_Driver-Userspace

TLA+ models, TLC runs and TLAPS proofs about the Raspberry Pi kernel drivers
and the user-space programs of this repository. Source paths below are relative
to `src/`.

## 1. The system

The repository is a collection of some forty loadable kernel modules
(`driver/`, one directory each) and the programs that use them (`app/`). There
is no main program. What the drivers share is a shape:

* an **init function** that takes resources one by one (device number, cdev,
  class, device node, pins, interrupt, timer, thread, mapped registers) with a
  ladder of labels for failures, and an **exit function**;
* **file operations** called by processes that opened the device node;
* code that the kernel calls on its own: **interrupt handlers**, **timer
  functions**, **kernel threads**;
* **globals without locks**, through which these contexts talk.

So the hard behaviours are those of any driver: an interrupt between two lines
of a thread, a flag that is cleared after it was set again, a timer running
while the module is being removed, a failure half way through init, and, for
the drivers that time pulses, edges that are missed, added or merged.

### 1.1 Inventory

| Component | State | Operations | Talks to | What makes it correct |
|---|---|---|---|---|
| IR receiver, `driver/remote_controller_signal` | `counter`, `capture_time_array[35]`, `diff_time_us[33]` | `gpio_irq_handler`, one run per falling edge | remote control (edges), worker thread (`diff_time_us`, `wait_queue_flag`) | indices stay in the arrays; a cleanly heard frame or repeat code is recognised whatever came before |
| IR decoder, same file | `bit_array[32]`, `output` | `remote_control_function`, `convertBinaryToHex`, the switch | receiver's intervals | each key decodes to itself whatever is left from older frames |
| IR worker and signal, same file and `app/Remote_Control_signal` | `wait_queue_flag`, `task`; `check`, `done` in the application | `wait_function`, `signalfunc`, `sample_ioctl`, `etx_driver_exit`; main loop, signal handlers | receiver, application | a decode is of one frame; a sent key arrives; the thread and the application end when told to |
| Wait-queue driver, `driver/Wait_queue` | `wait_queue_flag`, `read_count` | `etx_read`, `wait_function`, exit | readers, thread | no lost wake-up, no invented event, an orderly end |
| Load, failure and unload of every driver | the resources held, who is inside | `*_init` with its labels, `*_exit` (`probe` and `remove`) | the kernel's module loader, timers, interrupts, files | nothing leaks, nothing foreign is freed, nobody runs in freed code or before its data exists |
| Earlier remote drivers, `driver/remote_controller_wait_queue`, `driver/Remote_controller` | as above, without signal or without thread | handler that decodes itself; `wait_function` | receiver | as above |
| Ultrasonic rangers (4 drivers) and the button timer they grew from, `driver/button_on_off` | `start_time`, `end_time`, `uart_buff` | trigger timer, echo interrupt, threaded handler, tasklet, work item | sensor or user, UART | the reported time is that of the pulse |
| Button signal, `driver/Sending_button_signal`, `app/SendingSig` | `task`, `irq_number`; `check`, `done` | timer, ioctl, open, release; main loop | application | the registered process, and no other, gets the signal; its wait ends |
| Debounced button, `driver/GPIO_Interrupt_2` | `old_jiffie`, `led_toggle` | interrupt handler, read, write | user, file operations | no press or release toggles twice, a press after the window once |
| Button messages, `driver/GPIO_Interrupt`, `driver/gpio_Interrupt_button_LED`, `driver/Driver_ioctl_interrupt` | `msg`, `count` | interrupt handler, read | readers | a push reaches the reader |
| PWM and servo timers (5 drivers) | `led_duty`, phase of the pulse | hrtimer functions, jiffies timers | pins | every period has its length and a legal duty |
| Kernel thread drivers (3) | a thread | poll a pin, copy it to another | pins | the thread ends before the module does |
| procfs, sysfs, exported symbols | `len`, `haha_value`, `etx_count` | read, show, store, shared function | processes, another module | what overlapping users leave behind is what one would leave; the LED follows the button |
| Platform and device-tree LED drivers (4) | mapped registers | probe, remove, read, write | device core | as load and unload |
| Character and misc LED drivers | a pin | read, write, ioctl | processes | as load and unload |
| MQTT LED controller, `app/MQTT_led_control` | LED state, connection state, exit flag | `message_arrived`, `connection_lost`, `reconnect`, `publishStatus`, main loop | broker, GPIO, web page | the published status is the LED's; the connection comes back; shutdown is orderly |
| SPI masters, `app/spi_mcu`, `app/spi_psoc` | buffers, retry counter, `running` | `sendCommand`, `turnLedOn`, `readAnalogValue`, main loops, Ctrl-C | microcontroller | an answer belongs to its command; a command is obeyed once; Ctrl-C leaves the LED off |
| GPIO demos, camera script, code-analysis scripts, device trees | | | | sequential or data |

### 1.2 What is hard here

`PROJECT.json` lists the hazards with their lines. In short: the edge handler
has no time-out, so a lost edge leaves it in mid-frame; `diff_time_us`,
`wait_queue_flag` and `output` are shared by an interrupt handler and a thread
without a lock; the flag is cleared at the end of the work and not when it is
taken; modules are removed while their thread, timer or interrupt still runs;
init lets callers in before the data they use is there; the labels of the init
functions were copied between drivers that take different resources; an SPI
answer comes one transfer late, over a line that may spoil it; counters wrap;
processes share one global through file operations without a lock.

## 2. Modules

| Module | Models | Kind |
|---|---|---|
| `IrReceiver` | the edge handler, the remote control and the light path | component |
| `KeySwitch` | from a window of decoded bits to a key: `convertBinaryToHex` and the switch | pure operators |
| `NecRemote` | the ten keys of the remote control and the cases of the switch | data translated from the code |
| `RemoteDecode` | the decode loop, EXTENDS `IrReceiver` and `KeySwitch` | pure operators and their properties |
| `RemoteSignal` | handler, worker thread, signal and application together, EXTENDS `RemoteDecode`; three designs as rows | composition |
| `FrameMailbox` | what a wait-queue flag promises | abstract specification |
| `WaitQueue` | the wait-queue driver with the kernel's wait loop | component |
| `DriverTable` | what a driver's table row is, and what can be read off it without running the driver | data type and pure operators |
| `DriverLoad` | init, failure and exit of a driver given as a table row, against everything that can call in; EXTENDS `DriverTable` | component |
| `DriverFleet` | the rows of 38 drivers, and their known defects | data translated from the code |
| `MqttLed` | the MQTT LED controller: its two threads, the pin, broker and library as environment | component |
| `UltraSonic` | the four rangers and the button timer, the sensor or user and the edge latch, with time in ticks | component, one row per driver |
| `SpiMaster` | three SPI programs against a line with faults and a microcontroller | component, one row per program |
| `SendingSignal` | the signal driver and its application | component |
| `ButtonMsg` | the button message drivers and the application that polls them | component |
| `Debounce` | the debounced button, with a clock that wraps | component |
| `SharedGlobals` | the procfs, exported-symbol and sysfs drivers and their users | three small components |
| `PwmTimers` | hrtimer and jiffies timer on one duty; the user-space PWM loop | two small components, rows |
| `IrReceiverProofs`, `RemoteSignalProofs`, `WaitQueueProofs`, `DriverLoadProofs`, `MqttLedProofs`, `UltraSonicProofs`, `SpiMasterProofs`, `SmallDriverProofs` | | theorems |
| `MC*` | | constants for TLC |

`MCBoard` puts the components that share nothing with each other into one run:
`device`, chosen at the start, says which one is exercised, and the others stay
as they were loaded. It is a disjoint union, not a composition, so each
component's states are what a run of its own would reach.

Definitions marked "Mutant" are plausible faults of the definition after them;
no specification uses them. They show that a property can tell the code from a
faulty version of it.

### 2.1 IrReceiver

One action per kind of edge; each that the driver sees runs the whole handler.
`capture_time_array[i]` is kept as the *age* of the stored time stamp, so the
code's `capture_time - capture_time_array[counter-1]` is that age; ages
saturate at 14000 microseconds, above every threshold of the code. `NBits` is 32 in the
code, so its 34, 35 and 33 are `NBits+2`, `NBits+3` and `NBits+1`. The order of the
handler's tests is kept: lead sets `counter` to 1 and the common `counter++`
makes it 2; repeat sets it to -1, hence 0; the array is written at the old
`counter`. The remote control is external: it sends frames and repeat codes with
silences at least as long as the largest threshold. `HiddenEdge` and
`SpuriousEdge` are the faults of the light path, at most `MaxFaults` of them.

What the model shows of the code's robustness, and what it does not claim:

* without faults the receiver is always aligned between transmissions
  (`FaultFreeAligned`);
* any cleanly heard frame or repeat code is recognised from *every* receiver
  state but one (`CleanFrameMeasured`, `CleanRepeatRealigns`). The one is a
  receiver that is an edge short of a frame when the transmission begins: its
  first edge completes the old frame, and the lead code is never timed. The
  history variable `clean` holds exactly this exception;
* the code never checks the complement byte, so a frame with an edge missing in
  the middle can decode to another key. The model reaches such states, and no
  property says otherwise.

### 2.2 KeySwitch, NecRemote and RemoteDecode

`DecodeBit` is one turn of the decode loop (an interval in neither class keeps
the old bit), `convertBinaryToHex` the byte window 16..23 with the code's
conversion to a character, `KeyOf` the switch. Slot 0 of `diff_time_us` holds the
lead interval, so every bit is one slot late; the codes of the switch are
shifted accordingly, which `CleanKeyDecoded` confirms against the real codes of
a NEC remote's ten digit keys. A clean frame read one edge off, so that every
bit sits in the neighbouring slot, decodes to no key (`OneEdgeOffIsNoKey`).

That the switch and the remote control fit together is a fact about the ten
codes alone: `SwitchFits` (each word is switched to its key) and `EarlyIsNoKey` (no
word has a case one bit early). `MCBoard` has TLC evaluate both for the real
codes (`RemoteAssumption`); they are what the theorems about the decoder assume.
They stand there and not in the receiver's own run so that a faulty
`convertBinaryToHex` is found by the run's properties and not by an assumption.

### 2.3 RemoteSignal and FrameMailbox

`design` is one of three rows: the driver that signals, the one before it that
has the thread but only prints (`remote_controller_wait_queue`), and the first
(`Remote_controller`), which decodes in the handler itself, with no thread and
no flag. The rows differ in `thread` and `signals`; handler and decoder are shared.

The interrupt handler is one action; the worker thread reads one interval per
step, and its flag test, switch, send and `wait_queue_flag = 0` are steps of
their own, so the handler can come in between any two. Signals are a bounded
queue per process; a process that exits leaves `task` behind, as `etx_release`
does. The application's loop, its signal handlers (between any two steps of the
loop) and its restart are actions. `FrameMailbox` is what the flag amounts to: one
slot, posts merged while full, posts during the work dropped; `RemoteSignal`
and `WaitQueue` are checked to refine it.

The application is taken as built without optimisation, so its plain globals
`check` and `done` are read again on every turn of the wait.

### 2.4 WaitQueue

`wait_event_interruptible` is modelled as the kernel does it: the thread queues
itself, tests the flag, and sleeps only if nobody woke it since it queued.
Setting the flag and waking are two steps of `etx_read` and of the exit. The
exit is refused while a reader has the device open.

### 2.5 DriverTable, DriverLoad and DriverFleet

A row of `DriverFleet` is the driver's init as a sequence of calls, each with the
label a failure goes to, the releases behind the labels in order, the releases
of exit in order, the contexts that can call in with the resource each comes in
by, what each dereferences, and whether the file operations name their owner.
`DriverLoad` runs a row against the kernel: a context can enter as soon as its
resource is held, whether or not init is done; `free_irq`, `hrtimer_cancel`,
`kthread_stop` and the removal of attributes wait for the code they let in;
`del_timer` does not wait for a timer function that is running, and that
function arms the timer again.

The properties would be false of most drivers as they stand. What each driver
gets wrong is therefore written down as data (`LeftByExit`, `LeftByLabels`, `RunOn`,
`RunEarly`, `NotTheirs`), and the properties let exactly that pass. **Every entry of these
tables is needed**: without any one of them TLC finds a behaviour of that
driver that violates the property. So the tables are a complete list, for this
model, of

* what each driver leaks on exit or on a failed load,
* who may still run in freed code,
* who may run before its data is there,
* what is freed that belongs to another driver.

A row can also be *read*, the way a reviewer reads the function: before this call
so much has been taken at most and so much for certain, behind that label so
much has been given back (`Taken`, `Sure`, `Undone`, `Unloaded`), so this can be
left over (`KeptByExit`, `KeptByLabels`), these contexts can still be in
(`InAfterExit`, `InAfterLabels`) or in without their data (`Starved...`), and this is
freed without having been taken (`Misfreed...`). That a driver, whatever fails and
whoever calls in, does no worse than its row reads is proved for every table
(`ReadingIsSound`, section 4); it is not a property of the run, since no row
could violate it.
`ReadingIsKnown` says that what the rows read is among the known defects; TLC
evaluates it for the fleet (`FleetAssumption` in `MCBoard`, apart from the run that
checks the drivers, for the reason given in 2.2). On the fleet the reading is
exact: every known defect can be read off its row.

Assumptions of the rows: `gpio_is_valid` of the constant pins holds; a failed
`ioremap` of a fixed region, `kmalloc` without a test or `kthread_create` tested
against NULL faults at once and is marked "void"; unbinding through sysfs is
not modelled; for platform drivers the row is `probe` and `remove`. A file opened
while an init that will fail is still running outlives the module in every
driver; that is the kernel's, and the properties let it pass.

### 2.6 MqttLed

Two threads, each with a program counter: `main` (start, connect, the loop,
reconnect, disconnect) and `callback`, the Paho library's thread, which runs
`message_arrived` and its retry loop. Both call `GpioController` (`WriteEnsures`,
`WriteSets`, `WriteVerifies`, `Reading` with its re-export) and
`publishStatus` (`PublishChecks`, `PublishReads`, `PublishSends`), so those
actions take the thread as a parameter. Between any two steps the environment may lose the
connection, bring the broker back, let the library reconnect by itself, send a
command, take the pin away (`Meddle`) or send SIGINT.

`connection_lost` only sets `reconnection_required`; `reconnect` runs in the
main loop. `Clear` is the assignment of false at the end of a successful
connect and of `reconnect`: it may overwrite a loss that came in since the
subscription. What saves the program is that the options of `reconnect` do not
turn automatic reconnection on, so after such an overwritten loss the client
stays disconnected and the next `publishStatus`, which tests `is_connected`,
records the loss again. `NeverDeaf` states this (connected, without
subscription, and no loss on record is impossible), `HearsAgain` the liveness that
depends on it. Status messages carry the level read, and the read
and the publication are separate steps, so a thread may publish an older level
after a newer one; `StatusCatchesUp` says the periodic message repairs it.

Assumed of the library and the broker: one callback at a time; the options of
the latest connect apply; a connect on an open connection completes; sessions
are clean, so a lost connection loses its subscription. Assumed of sysfs:
`unexport` leaves the pin an input that reads low. Assumed of the constants: the
pin is tried twice at least (`TriesAssumption`; the code tries three times), since
with a single try a pin found taken away would not be reset at all.

### 2.7 UltraSonic

The drivers are one handler with three choices: the edges asked for, who prints
the distance (the handler, its threaded half, nobody), and what makes the pulse.
A row states them and `Init` picks the row. Asked for are both edges, except that
the threaded driver asks for the rising edge only and the work-queue driver for
the falling edge only, although the handler of each has both branches. The
tasklet is scheduled by `irq_handler`, which nothing registers, and the work is
never queued, so neither prints. `driver/button_on_off` is the handler the rangers
started from: no trigger timer, and a user makes the pulse. Its copy in
`src/button_on_off` is another version, which asks for the falling edge only
(line 343) and has the UART messages commented out; it is
not a row here, and its load is in `DriverFleet` as `button_on_off_plain`.

Time is a counter of ticks. The handler comes up to `Latency` ticks after the
edge; it tests the pin as it is *then*, stamps, and busy-waits on the UART for
each message (`BusyRise`, `BusyFall`, `BusyPrint`). Meanwhile the hardware latches
one edge, not two. `Tick` does not pass an event that is due. Stamps are kept as
ages, saturating at `Forever`; a stamp never taken (0 in the code) is as old as
the machine is up: any time from a period on. The module may be loaded in the
middle of an echo.

What is printed is `(int)diff_time_us * 17 / 1000`, computed in an `int`. `Prints` models
it by what it does: a time below `Fits` is printed as it is (the scaling is one to
one at the model's resolution), one at or above `Fits` as anything, negative
included, and the history variable `garbled` says so. `Fits` stands for 2^31 / 17
microseconds, some 126 s; no echo lasts that long, but a `start_time` that was never
written makes it ordinary, since then the difference is the uptime. The button
timer prints milliseconds in an unsigned `int`, which hold 49 days. The division's
remainder is below a tick. The 64-bit difference is read in one piece.

What follows from the source, and is stated: an echo shorter than the rising
branch's message is measured as long as that message (`EchoMeasured`, and
`NoneBelowMessage`, which is proved and not run), so near obstacles read too far;
an echo both edges of which one run of the handler sees is not measured, and the
history variable `whole` excludes it; the next whole echo is measured right
again whatever went before. Of times that fit the `int`, the threaded driver
prints 0, or the time between echoes, or that since the machine came up, never the
length of an echo (`OnlyGapsPrinted`); of times that do not, anything. All rangers
set their trigger timer 10 jiffies ahead.

External: the sensor (it ignores a trigger during an echo), the latch, the
lateness. Left out: the race of the threaded half and the handler on
`uart_buff`, which garbles text and no measurement; reads and writes of the
device node, which touch one pin.

### 2.8 SpiMaster

A transfer is full duplex: it brings back the answer that was `ready` before it
began. `sendCommand` is a chain of actions, one per transfer: the command, a
dummy word (`sync`), the fetch, up to three more fetches while the checksum is
wrong. The three programs differ in their script, in whether words carry a
checksum, in the dummy word, in the retries, in whether 0xFF repeats the call
and in whether a failed ioctl ends the program: a row each. Every transfer may
fail, arrive spoilt, or come back spoilt, at most `MaxFaults` times, and the line
may go low for good (`LineDies`). `signalHandler` clears `running` at any point;
the loop looks at it only at the places in `checks`. The microcontroller's firmware
is not in the repository: it obeys a sound command, ignores everything else and
shifts out its last answer. Answers spoilt on the way back never have a right
checksum, and the echo program, which has none, only loses transfers or hears
them spoilt on the way out.

### 2.9 SendingSignal

The application opens `/dev/etx_device` (`app/SendingSig/main.c:67`), and the driver
creates `/dev/sample_device` (`driver/Sending_button_signal/signal.c:166`). So **with
the two as committed the open fails and `main` returns** (lines 68-71), and the
wait is never reached unless the node is renamed or linked. `linked`, chosen at
the start, says whether the name leads to the driver; `Opens` follows both branches. `WaitEnds`
speaks of a machine where it does; `TaskIsLast` is about any process that opens the node.

The jiffies timer tests `task` and then, after a message to the console, reads it
again to send: `TimerTests` and `TimerSends`. `sample_release` clears `task` if it is
the closing process; the remote driver of 2.3 lacks exactly this. Processes open,
register, wait, close, are killed by a second Ctrl-C, and start again, in any
order. `tpc = "oops"` is a release between the test and the send: the kernel
writes through NULL. The model reaches it; nothing in the repository says it
cannot happen, so it is described here and the properties hold up to it.

### 2.10 ButtonMsg, Debounce

`ButtonMsg` splits the message into its first byte, by which the application
knows it, and the rest, because interrupt and read run on different processors
and see each other half done. A push between the copy and the clear is lost;
the history variable `owed` excludes exactly that. `Debounce` keeps `jiffies` modulo
`Wrap` with the code's unsigned subtraction and its two readings of the clock;
`etx_write` sets the pin behind `led_toggle`'s back.

The interrupt comes on rising edges only (line 255). A press begins with one, a
release does not, but the contact bounces at both, and every bounce has a rising
edge. `TogglesPerMovement` says that no movement of the button toggles the LED
twice, wherever the counter wraps; that a press after the window toggles it once
(`expect` = "one"); and that a press or a release within the window of the last edge
taken does not toggle it ("none"), so that a button released within 20 jiffies toggles
once. What the driver does not promise, and the model reaches: the
bounce on the release of a press **held for longer than 20 jiffies** may toggle the LED
again; and a press a whole round of the counter after the last edge taken may be dropped.

### 2.11 SharedGlobals, PwmTimers

`SharedGlobals` holds three drivers with one global each and no lock: the procfs
file whose end is `len = 0` (a reader that stops after its first read leaves the next
one an empty file: `cut`, with which `QuietIsSequential` promises nothing), the
counter that one module increments for another (load and store are two steps), and the sysfs file whose show and store both go
through `haha_value`. `PwmTimers` has two timers on one `duty`: the high-resolution one
arms a phase by it, the ordinary one steps and then wraps it, and the first may
interrupt the second between. The user-space loop of `led_PWM_2` and `_3` is one
action per turn, in the order of its tests.

## 3. Runs

| Run | Checks | Bounds | Shows |
|---|---|---|---|
| `receiver` | `IrTypeOK`, `CleanFrameMeasured`, `FaultFreeAligned`, `CleanRepeatRealigns`, `CleanKeyDecoded`, `OneEdgeOffIsNoKey` | 32 bits and the code's own thresholds, ten keys, 1 hidden or spurious edge | the one fault comes at any edge of a frame or before it, so the next transmission meets the receiver at every `counter`; several faults only reach the same states, and the theorems cover any number |
| `remote` | `DecodeFaithful`, `SentReachesApp`, `CtrlCEndsApp`, `MailboxImplemented` | the 3 designs, 3 bits of which 1 is the window, 1 word, 1 hidden edge, 2 runs of the application, queue of 1 | an undisturbed decode reports the key pressed; a sent key arrives; the flag is the mailbox, with its fairness. The theorem `KeysAreFaithful` covers every size |
| `remote_exit` | `ExitEndsThread` | no faults | **violated**: exit never tells the thread |
| `remote_wait` | `SignalEndsWait` | no faults | **violated**: key 0 does not end the wait |
| `board`, wait queue | `NothingInvented`, `EventServed`, `IdleThreadStops`, `MailboxKept` | 2 readers, 5 reads, 1 exit | two readers merge events; five reads allow a read in each state of the thread |
| `board`, SPI | `AnswerInStep`, `ObeyedOnce`, `CtrlCEndsMaster` | the 3 programs, 3 faults and a sudden death, readings 0 and 255 | three faults spoil the fetch and two retries, or command, fetch and the repeated call; 255 is the reading the reader takes for an error |
| `board`, messages | `PrintsBacked`, `PushSeen` | both drivers, 2 pollers, 3 pushes | a push before, inside and after a read, while the other process clears |
| `board`, debounce | `TogglesPerMovement` | window 8, 16 jiffies to a round, bounce 2, lateness 1, movements 5 apart or more | a release inside the window, at its end and after it; every phase of the clock at a movement, and a wrap inside the window |
| `board`, globals | `QuietIsSequential`, `LedFollowsButton` | 2 processes, 3 calls, 1 follower and 1 reader | every overlap of two; more processes are covered by `QuietAsSequential` |
| `board`, pulses | `PeriodAddsUp`, `PulseIsDuty` | the LED's and the servo's train a tenth of their size, 3 steps in an on phase; the loop at its own 100 turns and wrap at 99 | a wrap and the steps around it fall in one phase; the loop runs through every duty |
| `board`, signal | `TaskIsLast`, `WaitEnds` | 2 processes, restarted for ever; the device's name fits or not | registering, closing and dying in every order against the timer's two steps |
| `wait_queue_exit` | `ExitEndsThread` | 2 readers, 2 reads | **violated**: the thread clears the exit's word |
| `driver_load` | `CleanUnload`, `CleanFailure`, `NoOrphanCall`, `NoHandlerBeforeItsData`, `FreesOnlyItsOwn` | all 38 drivers, every failure point; each context is in or out | no bound: a driver's life is finite |
| `mqtt_link` | `NeverDeaf`, `HearsAgain`, `SignalEnds` | 2 losses, the retained command only | one loss before and one inside a reconnection, between any two of its steps |
| `mqtt_pin` | `CommandObeyed`, `StatusCatchesUp` | 2 commands beside the retained one, 2 foreign unexports, 2 of the code's 3 tries, no losses | the pin is taken away before, between or after the retry's steps, while main reads it; two overlapping publications, more would be published one after the other |
| `ultrasonic` | `EchoMeasured`, `OnlyGapsPrinted` | the 5 drivers; pulses of 1, 2, 3, 5, 9 ticks, lateness 0 or 1, messages of 2, a trigger every 10; an `int` that holds less than 22 | pulses shorter than, as long as and longer than the busy-wait, and one that lasts into the next trigger's messages; a gap of two periods fits the `int`, one of three does not |
| `ultrasonic_print` | `DistancePrinted` | the same | **violated**: the threaded driver measures no echo |
| `spi_ack` | `AckIsDone` | no faults but a dead line | **violated**: after the last retry a silent line's 0x00 is returned as the acknowledgement |

`board` is one run; its rows above are its devices.

Type invariants are proved (section 4) and, but for `IrTypeOK`, whose bound on
`counter` keeps two array accesses in range, not run again.

The five runs that expect a violation are disagreements between the code and
its own messages and comments: see "findings" in `PROJECT.json`.

### 3.1 Fairness

The kernel runs every runnable thread (weak fairness of the worker thread's step
and of the application's step), completes a system call that has begun, and
delivers a queued signal; in `MqttLed`, both threads run and the library, where
automatic reconnection is on and the broker is up, reconnects; in `SpiMaster` the
program is scheduled and its transfers and sleeps end; the pollers, the sysfs
application, the signal driver's timer and the processes it signals run. Nothing
is assumed of the remote control, the readers, the sensor, the button, the SPI
line, the user's Ctrl-C or `rmmod`. `DriverLoad`, `UltraSonic`, `Debounce` and `PwmTimers`
have safety properties only and no fairness.

The applications that wait on plain globals (`check`, `done`) are taken as built
without optimisation, as plain gcc does (no build file in `src/` asks for more),
so the globals are read again on every turn of the wait.

### 3.2 Seen while modelling, without a run

* `app/driver_ioctl_interrupt` sends 1 for "on" and 0 for "off" (lines 33-40);
  `driver/Driver_ioctl_interrupt` takes 0 for on and 1 for off (lines 61-68).
* `driver/GPIO_Interrupt/gpio_interrupt.c:42` hands a GPIO number to `disable_irq`.
* In `Sending_button_signal`, the first of two processes to register waits until
  Ctrl-C once the second has registered and gone; and the re-read of `task` (2.9).
* `app/SendingSig` opens a node that its driver does not create (2.9).
* `GPIO_Interrupt_2` may toggle again when a long press is released (2.10).
* The rangers' distance overflows for times from 126 s on (2.7).
* Two sysfs followers can hand an old value to each other for ever; the liveness
  is for one.
* `remote_controller_signal` keeps `task` after its process is gone, and never checks
  a frame's complement bytes.

## 4. Proofs

All for every value of the constants allowed by the modules' assumptions.

* `IrReceiverProofs` -- `ReceiverType`, `FramesMeasured`, `NeverMisaligned`,
  `RepeatsRealign`. The properties are not inductive: that bits are in their
  slots at the end of a frame needs what holds *during* it. The inductive
  invariant says, for a clean transmission at position `pos`, where `counter`
  is (anywhere but the last place before the lead is timed; at `pos` after it),
  that the stamp the next interval is measured against is the last edge's (age
  0), and which slots are already filled; and for a fault-free history that
  `counter` equals `pos`. One step per action and branch of the handler.
* `RemoteSignalProofs` -- of the decoder: `CleanKeysDecoded` and `EarlyFramesAreNoKey`,
  for every frame length, window and table of cases, under `SwitchFits` and
  `EarlyIsNoKey` (2.2). A frame heard cleanly is in its slots (`FramesMeasured`), so
  each turn of the loop reads the bit that was sent (`DecodesTo`), and only the
  window of the array decides the key (`KeyFromWindow`), which is why the lead
  interval in slot 0 and what older frames left do no harm.
  Of the whole chain: `KeysAreFaithful`, the action property `DecodeFaithful`;
  `FlagIsSlot`, the mailbox without fairness; `RemoteType`, types of driver, signal queue
  and application; and from them `ThreadNeverEnds`: the finding of `remote_exit` is no
  accident of a small instance, `WaitThread` ends in no behaviour of any. Each
  step of the composition is a step of the receiver or none. The invariant
  (`Promise`) says that while a key is promised the slots still hold its word and
  the thread has read the bits below `i` right; an edge withdraws the promise, the
  end of the loop redeems it.
* `WaitQueueProofs` -- `WaitQueueType`, `NothingIsInvented`, `FlagIsMailbox`. The counts are
  inductive with the type invariant; that `read_count` is bounded follows from
  them, so the two are proved together. `FlagIsMailbox` maps each step to a step
  of `FrameMailbox` or a stutter.
* `DriverLoadProofs` -- for *every* table, not the fleet's only. `ReadingIsSound` is
  `AsTableShows` (defined with the proofs), a refinement of running by reading. Its
  invariant (`AsRead`) ties each phase to a place of the row: while loading, what is held lies between
  `Sure` and `Taken` before `pos`, whoever is in came by something taken, and nothing
  has been misfreed; while undoing there is a call `i` that failed, whose label is
  not behind `pos`, and the same bounds hold less what the labels gave back
  since; while unloading likewise; always up to timers, which may be running
  when they are deleted. From it, under `ReadingIsKnown`, the five properties of the
  run: `UnloadIsClean`, `FailureIsClean`, `NobodyIsOrphaned`, `DataComesFirst`, `FreesItsOwn`.
  So for the fleet the chain is: TLC evaluates 38 rows, the theorems carry that
  to every interleaving. Two theorems read the other way, for somebody who writes
  a driver. `TableIsEnough`: labels and exit that cover what was taken suffice
  (`TableSuffices`). `WaitingIsEnough`: if files hold the module and every other way
  in is released by a call that waits, nobody is in when `rmmod` frees the code
  (`WaitingSuffices`). These three hold of every table, so they say nothing about
  the drivers at hand. `DriverLoadType`.
* `MqttLedProofs` -- `NotDeaf`, `CommandsObeyed`, `MqttType`, for any number of losses,
  commands, foreign unexports and retries.
  `NeverDeaf` is not inductive. The invariant adds, first, that whenever the library may
  connect by itself and the subscription is gone, the loss is on record or `main` is
  at a step that will not leave it so; second, that from the subscription in
  `reconnect` to its end automatic reconnection is off; and third, which steps
  of `main` imply that a connection was made. The callback thread
  disturbs none of it, since all it does to the link is to set the record.
  `CommandsObeyed` is the action property `CommandObeyed`. Its invariant adds two
  parts. `Kept`: no command arrives before the subscription, so none before `main`
  has readied the pin, and `main` writes the pin only when the program is told to end; hence
  `main`, which meanwhile reads the pin and exports it where it finds it
  unexported, never turns it back. `Retrying`: during a command in which nobody took the
  pin away, the reset is entered on the second try or later, leaves the pin
  an output, and from then on the pin stays one and shows the value written. The
  second try therefore succeeds, which is where `TriesAssumption` is used.
  `MqttType` has in it that neither retry loop counts past its limit and that
  only an output is lit.
* `UltraSonicProofs` -- `RangingType`, `EchoIsMeasured`, `FloorOfMeasurements`, for every
  lateness, message time, period and set of pulses, provided ages are kept long
  enough to tell them apart and the longest pulse fits the `int` it is printed by (`Forever`
  and `Fits` in `UltraAssumption`). The properties speak of
  the end, when all is quiet; the invariant follows a whole echo through its
  stages (`Unseen`, `Begun`, `Over`, `Ending`, `Measured`) and says at each how far the age
  of the stamp may be from the true time, and `Floor` that while a message goes
  out the stamp's age and what is left of the message add up to the message. A
  stage is left only by the action that ends it; `Tick` ages the stamp and the
  waiting edge alike. `GapsOnly` needs `GapAssumption` besides (a handler is done before
  the next trigger), is about times that fit (`Printed`: what was printed is then what was
  measured), and ties the age of every stamp, and the wait of every edge,
  to the one clock that drives the threaded driver, the time since its trigger.
* `SpiMasterProofs` -- `AnswersInStep`, `ObeyedOnceAlways`, `StopsDark` (a controller that has
  stopped has its LED off if its last command was heard). `InStep` is a
  conjunction: where the program can be with which word on the wire (`Places`,
  `OnWire`), that an answer heard is the microcontroller's and is held until the next
  command (`HeldReady`), that one that came through whole is the one returned
  (`Through`), how often a command was obeyed at each place (`Obeyed`), and the
  same for the command after the loop (`AtLast`).
* `SmallDriverProofs` -- `MessagesAreBacked`, `QuietAsSequential`, `PeriodsAddUp`,
  `PulsesAreDuty`, `TaskIsTheLast`, `MovementTogglesOnce`, for any number of processes,
  any trains, any window and any wrap the assumptions allow. Each has a small
  strengthening: what a process has printed, holds and could still find; what
  each caller has loaded; what the phase under way was armed for; and for the
  debounce, that the wrapped difference is the true age until the counter has
  come round, and that whatever is latched is due within `Settling` of the
  movement that caused it.

Every invariant and every action property that a passing run checks is stated by a
theorem. Model-checked only:

* liveness under fairness (`EventServed`, `IdleThreadStops`, `HearsAgain`, `SignalEnds`,
  `StatusCatchesUp`, `SentReachesApp`, `CtrlCEndsApp`, `CtrlCEndsMaster`, `PushSeen`,
  `LedFollowsButton`, `WaitEnds`, and the fairness part of the mailbox refinement), which
  the provers do not reach;
* facts about concrete data that the theorems take as hypotheses and TLC
  evaluates: `SwitchFits` and `EarlyIsNoKey` for the ten codes (the value of a byte is
  a sum over a set, defined by recursion, which the provers cannot unfold), and
  `ReadingIsKnown` for the 38 rows.

## 5. Plan

What is left, most important first:

1. The steps towards the liveness properties that are safety: what each waiting
   place of `MqttLed`'s reconnection and of `RemoteSignal`'s wait has on record, as
   invariants a liveness argument would start from.
2. Type correctness of `SpiMaster` and of the small drivers as theorems of their own.
3. The race on `uart_buff` between the ranging drivers' handler and thread, should
   the text ever matter.

## 6. Not modelled

* `driver/polymorphistic_sys_fs` does not compile (line 111).
* `driver/driver_led` is empty; `driver/platform_Device_Driver` only prints.
* Read, write and ioctl of the plain LED drivers, of the platform drivers and of
  `driver/Driver_ioctl_interrupt` set one pin; the kernel thread drivers copy one pin
  to another; the demos in `app/` over `/dev/gpiomem` and wiringPi are loops around
  one. Load and unload of all these drivers are in `DriverFleet`.
* `app/spi_mcu/main2.cpp` does one transfer of a test pattern and exits.
* The camera script and the web page are I/O; the code-analysis scripts are
  development tooling.
* `*.mod.c`, `*.cmd`, `*.dts` and the editor's databases are generated or data.
