----------------------------- MODULE DriverFleet ------------------------------
(***************************************************************************)
(* The drivers of the repository, as rows for DriverLoad: what each init   *)
(* function takes, in order, with the label a failure goes to; what the    *)
(* labels give back; what the exit function gives back; who can call in    *)
(* and what that caller must not run without.  For a platform driver the   *)
(* two functions are probe and remove.                                     *)
(*                                                                         *)
(* A failure label of "return" is behind the last label: nothing is given  *)
(* back.  "ignored" is a result nobody looks at.  "void" is a call that    *)
(* cannot fail, or whose failure the next line dereferences.  needs holds  *)
(* only what a caller would fault without: a mapping, a buffer, a wait     *)
(* queue head.  A wait queue head is part of the module: init readies it   *)
(* and nothing gives it back.                                              *)
(***************************************************************************)
EXTENDS Naturals, Sequences, TLC

(* The four calls that make a device node, and the four that undo them.    *)
Node(r1, r2, r3, r4) ==
    <<<<"region", r1>>, <<"cdev", r2>>, <<"class", r3>>, <<"device", r4>>>>
NodeGone == <<"device", "class", "cdev", "region">>
ShortNode == Node("return", "r_class", "r_class", "r_device")
ShortUndo == <<<<"r_device", "class">>, <<"r_class", "region">>>>
ShortUndoCdev == ShortUndo \o <<<<"r_class", "cdev">>>>


-------------------------------------------------------------------------------
(* The etx_device family: a node, an output pin, an input pin and its      *)
(* interrupt.                                                              *)

EtxLoadJumpsOver(in, out) ==
    Node("r_unreg", "r_del", "r_class", "r_device")
      \o <<<<out, "r_gpio_out">>, <<in, "r_device">>, <<"irq", "r_gpio_in">>>>

EtxLoad(in, out) ==
    Node("r_unreg", "r_del", "r_class", "r_device")
      \o <<<<out, "r_gpio_out">>, <<in, "r_gpio_in">>, <<"irq", "r_gpio_in">>>>

EtxUndo(in, out) ==
    <<<<"r_gpio_in", in>>, <<"r_gpio_out", out>>, <<"r_device", "device">>,
      <<"r_class", "class">>, <<"r_del", "cdev">>, <<"r_unreg", "region">>>>

EtxExitKeepsIrq(in, out) == <<in, out>> \o NodeGone
EtxExit(in, out) == <<"irq", in, out>> \o NodeGone

EtxRow(in, out) ==
    [load |-> EtxLoad(in, out), undo |-> EtxUndo(in, out), unload |-> EtxExit(in, out),
     entry |-> [ops |-> "cdev", isr |-> "irq"],
     needs |-> [ops |-> {}, isr |-> {}], owner |-> TRUE]

Remote_controller == EtxRow("gpio25", "gpio21")
GPIO_Interrupt_2 == EtxRow("gpio25", "gpio21")
button_on_off_plain == EtxRow("gpio25", "gpio21")

(* The interrupt is requested before the UART it prints to is mapped.      *)
button_on_off ==
    [EtxRow("gpio4", "gpio21") EXCEPT
       !.load = @ \o <<<<"uart", "void">>>>, !.needs.isr = {"uart"}]

(* The interrupt wakes a queue that is readied after it, and a thread that *)
(* nobody stops.                                                           *)
RemoteQueueRow ==
    [EtxRow("gpio25", "gpio21") EXCEPT
       !.load = @ \o <<<<"wq", "void">>, <<"thread", "void">>>>,
       !.entry = @ @@ [thread |-> "thread"],
       !.needs = [ops |-> {}, isr |-> {"wq"}, thread |-> {"wq"}]]

remote_controller_signal == RemoteQueueRow
remote_controller_wait_queue == RemoteQueueRow

(* The ranging drivers add the trigger timer.                              *)
UltraSonic_Interrupt ==
    [EtxRow("gpio26", "gpio19") EXCEPT
       !.load = @ \o <<<<"timer", "void">>, <<"uart", "void">>>>,
       !.unload = <<"timer">> \o @,
       !.entry = @ @@ [timer |-> "timer"],
       !.needs = [ops |-> {}, isr |-> {"uart"}, timer |-> {}]]

Threaded_IRQ ==
    [UltraSonic_Interrupt EXCEPT
       !.entry = @ @@ [irq_thread |-> "irq"], !.needs = @ @@ [irq_thread |-> {"uart"}]]

SysfsUndo == <<<<"r_sysfs", "attr">>, <<"r_sysfs", "kobj">>>>
SysfsPinsUndo ==
    <<<<"r_gpio_in", "gpio26">>, <<"r_gpio_out", "gpio19">>, <<"irq", "irq0">>>>
      \o SysfsUndo \o ShortUndoCdev

(* btn_irq is never assigned: "irq0" is the interrupt line 0 it names.     *)
Tasklet ==
    [load |-> ShortNode \o
       <<<<"kobj", "r_sysfs">>, <<"attr", "r_sysfs">>, <<"gpio19", "r_gpio_out">>,
         <<"gpio26", "r_gpio_in">>, <<"irq", "r_gpio_in">>, <<"tasklet", "irq">>,
         <<"timer", "void">>, <<"uart", "void">>>>,
     undo |-> SysfsPinsUndo,
     unload |-> <<"timer", "irq", "gpio26", "gpio19", "tasklet", "irq0", "attr", "kobj">>
                  \o NodeGone,
     entry |-> [ops |-> "cdev", isr |-> "irq", timer |-> "timer", attr |-> "attr"],
     needs |-> [ops |-> {}, isr |-> {"uart"}, timer |-> {}, attr |-> {}], owner |-> TRUE]

WorkQueue ==
    [Tasklet EXCEPT
       !.load = ShortNode \o
         <<<<"kobj", "r_sysfs">>, <<"attr", "r_sysfs">>, <<"gpio19", "r_gpio_out">>,
           <<"gpio26", "r_gpio_in">>, <<"irq", "ignored">>,
           <<"timer", "void">>, <<"uart", "void">>>>,
       !.unload = <<"timer", "gpio26", "gpio19", "irq0", "attr", "kobj">> \o NodeGone]

-------------------------------------------------------------------------------
(* Timers, threads and the rest of the drivers with a device node.         *)

NodeRow ==
    [load |-> ShortNode, undo |-> ShortUndo, unload |-> NodeGone,
     entry |-> [ops |-> "cdev"], needs |-> [ops |-> {}], owner |-> TRUE]

symbol1_driver == NodeRow
symbol2_driver == NodeRow

Sending_button_signal ==
    [NodeRow EXCEPT
       !.load = @ \o <<<<"timer", "void">>>>, !.undo = <<<<"irq", "timer">>>> \o @,
       !.unload = <<"timer">> \o @,
       !.entry = @ @@ [timer |-> "timer"], !.needs = @ @@ [timer |-> {}]]

HrTimerRow(pin) ==
    [NodeRow EXCEPT
       !.load = @ \o <<<<"hrtimer", "void">>, <<pin, "ignored">>, <<"timer", "void">>>>,
       !.unload = <<"hrtimer">> \o @ \o <<"timer", pin>>,
       !.entry = @ @@ [hrtimer |-> "hrtimer", timer |-> "timer"],
       !.needs = @ @@ [hrtimer |-> {}, timer |-> {}]]

High_Resolution_Timer_LED == HrTimerRow("gpio18")
High_Resolution_Timer_servo == HrTimerRow("gpio23")

High_Resolution_Timer_servo_LED ==
    [NodeRow EXCEPT
       !.load = @ \o <<<<"hrtimer_servo", "void">>, <<"gpio23", "ignored">>,
         <<"timer_servo", "void">>, <<"hrtimer_led", "void">>, <<"gpio18", "ignored">>,
         <<"timer_led", "void">>>>,
       !.unload = <<"hrtimer_led", "hrtimer_servo">> \o @
         \o <<"timer_servo", "timer_led", "gpio23", "gpio18">>,
       !.entry = @ @@ [h1 |-> "hrtimer_servo", t1 |-> "timer_servo",
                       h2 |-> "hrtimer_led", t2 |-> "timer_led"],
       !.needs = @ @@ [h1 |-> {}, t1 |-> {}, h2 |-> {}, t2 |-> {}]]

Kernel_thread_led ==
    [NodeRow EXCEPT
       !.load = <<<<"region", "return">>, <<"cdev", "r_class">>, <<"gpio18", "ignored">>,
         <<"class", "r_class">>, <<"device", "r_device">>, <<"thread", "void">>>>,
       !.undo = ShortUndoCdev, !.unload = <<"thread">> \o @,
       !.entry = @ @@ [thread |-> "thread"], !.needs = @ @@ [thread |-> {}]]

(* The thread is told to end by a flag and a wake-up, and not waited for.  *)
Wait_queue ==
    [NodeRow EXCEPT
       !.load = @ \o <<<<"wq", "void">>, <<"thread", "void">>>>,
       !.entry = @ @@ [thread |-> "thread"],
       !.needs = [ops |-> {"wq"}, thread |-> {"wq"}]]

procfs_driver ==
    [NodeRow EXCEPT
       !.load = @ \o <<<<"procdir", "r_device">>, <<"proc", "ignored">>, <<"gpio18", "ignored">>>>,
       !.unload = <<"proc", "procdir">> \o @,
       !.entry = @ @@ [proc |-> "proc"], !.needs = @ @@ [proc |-> {}]]

sysfs_driver ==
    [NodeRow EXCEPT
       !.load = @ \o <<<<"kobj", "r_sysfs">>, <<"attr", "r_sysfs">>,
                       <<"gpio18", "ignored">>, <<"gpio17", "ignored">>>>,
       !.undo = SysfsUndo \o ShortUndoCdev, !.unload = <<"attr", "kobj">> \o @,
       !.entry = @ @@ [attr |-> "attr"], !.needs = @ @@ [attr |-> {}]]

real_device_driver ==
    [NodeRow EXCEPT
       !.load = @ \o <<<<"mem", "r_device">>>>, !.unload = <<"mem">> \o @,
       !.needs.ops = {"mem"}]

Device_file_create ==
    [NodeRow EXCEPT
       !.load = Node("return", "ignored", "r_class", "r_device"), !.owner = FALSE]

-------------------------------------------------------------------------------
(* Threads over two pins, without a node.                                  *)

SensorThreadRowBusyPin(led, sensor, undoSensor) ==
    [load |-> <<<<led, "err_free_led">>, <<"-", "err_free_led">>, <<sensor, "err_free_led">>,
                <<"-", undoSensor>>, <<"thread", undoSensor>>>>,
     undo |-> <<<<undoSensor, sensor>>, <<"err_free_led", led>>>>,
     unload |-> <<"thread", sensor, led>>,
     entry |-> [thread |-> "thread"], needs |-> [thread |-> {}], owner |-> TRUE]

SensorThreadRow(led, sensor, undoSensor) ==
    [load |-> <<<<led, "return">>, <<"-", "err_free_led">>, <<sensor, "err_free_led">>,
                <<"-", undoSensor>>, <<"thread", undoSensor>>>>,
     undo |-> <<<<undoSensor, sensor>>, <<"err_free_led", led>>>>,
     unload |-> <<"thread", sensor, led>>,
     entry |-> [thread |-> "thread"], needs |-> [thread |-> {}], owner |-> TRUE]

kernel_thread_led_pir == SensorThreadRow("gpio17", "gpio23", "err_free_pir")
sound_led_kernel == SensorThreadRow("gpio26", "gpio27", "err_free_sensor")

-------------------------------------------------------------------------------
(* Drivers with a fixed major number.  Their file operations name no owner.*)

ChrdevRow ==
    [load |-> <<<<"chrdev", "return">>, <<"gpio18", "ignored">>>>, undo |-> <<>>,
     unload |-> <<"chrdev", "gpio18">>,
     entry |-> [ops |-> "chrdev"], needs |-> [ops |-> {}], owner |-> FALSE]

GPIO_IOCTL == ChrdevRow
GPIO_LED == ChrdevRow

gpio_Interrupt_button_LED ==
    [ChrdevRow EXCEPT
       !.load = <<<<"chrdev", "ignored">>, <<"gpio18", "ignored">>,
                  <<"gpio17", "ignored">>, <<"irq", "ignored">>>>,
       !.unload = <<"chrdev", "irq", "gpio17", "gpio18">>,
       !.entry = @ @@ [isr |-> "irq"], !.needs = @ @@ [isr |-> {}]]

GPIO_Interrupt ==
    [gpio_Interrupt_button_LED EXCEPT
       !.load = <<<<"chrdev", "ignored">>, <<"gpio17", "ignored">>, <<"irq", "ignored">>>>,
       !.unload = <<"chrdev", "irq", "gpio17">>]

Driver_ioctl_interrupt ==
    [gpio_Interrupt_button_LED EXCEPT
       !.load = <<<<"iomap", "void">>>> \o @,
       !.unload = <<"iomap", "chrdev", "gpio18">>]

driver_led_node ==
    [ChrdevRow EXCEPT
       !.load = <<<<"chrdev", "return">>, <<"iomap", "void">>>>,
       !.unload = <<"chrdev">>, !.needs.ops = {"iomap"}]

driver_led_pwm_2 ==
    [ChrdevRow EXCEPT
       !.load = <<<<"chrdev", "return">>, <<"iomap", "void">>, <<"iomap2", "void">>>>,
       !.unload = <<"iomap", "chrdev">>, !.needs.ops = {"iomap", "iomap2"}]
driver_led_pwm_3 == driver_led_pwm_2

-------------------------------------------------------------------------------
(* Drivers of the misc class, two of them behind a mapping that the device *)
(* gives back by itself when probe fails.                                  *)

MiscRow ==
    [load |-> <<<<"misc", "return">>, <<"gpio18", "ignored">>>>, undo |-> <<>>,
     unload |-> <<"misc", "gpio18">>,
     entry |-> [ops |-> "misc"], needs |-> [ops |-> {}], owner |-> TRUE]

Platform_LED_driver == MiscRow

Misc_Driver ==
    [MiscRow EXCEPT
       !.load = <<<<"iomap", "void">>, <<"misc", "return">>>>,
       !.unload = <<"misc">>, !.needs.ops = {"iomap"}]

led_platform_device ==
    [MiscRow EXCEPT
       !.load = <<<<"-", "return">>, <<"iomap", "return">>, <<"misc", "devm">>>>,
       !.undo = <<<<"devm", "iomap">>>>,
       !.unload = <<"misc", "iomap">>, !.needs.ops = {"iomap"}]

DtsResourceMapsLate ==
    [led_platform_device EXCEPT
       !.load = <<<<"-", "return">>, <<"misc", "devm">>, <<"iomap", "devm">>>>]

Led_platform_dts_resource == led_platform_device

device_tree_led_platform ==
    [Misc_Driver EXCEPT
       !.load = <<<<"-", "return">>, <<"iomap", "void">>, <<"-", "return">>,
                  <<"-", "return">>, <<"misc", "return">>>>]

(* The module that registers a device for the driver next to it.           *)
led_platform_module ==
    [load |-> <<<<"pdev", "ignored">>, <<"pdrv", "return">>>>, undo |-> <<>>,
     unload |-> <<"pdev", "pdrv">>, entry |-> <<>>, needs |-> <<>>, owner |-> FALSE]

-------------------------------------------------------------------------------
FleetTable ==
    [Remote_controller |-> Remote_controller,
     remote_controller_signal |-> remote_controller_signal,
     remote_controller_wait_queue |-> remote_controller_wait_queue,
     GPIO_Interrupt_2 |-> GPIO_Interrupt_2, button_on_off |-> button_on_off,
     button_on_off_plain |-> button_on_off_plain,
     UltraSonic_Interrupt |-> UltraSonic_Interrupt, Threaded_IRQ |-> Threaded_IRQ,
     Tasklet |-> Tasklet, WorkQueue |-> WorkQueue,
     Sending_button_signal |-> Sending_button_signal,
     High_Resolution_Timer_LED |-> High_Resolution_Timer_LED,
     High_Resolution_Timer_servo |-> High_Resolution_Timer_servo,
     High_Resolution_Timer_servo_LED |-> High_Resolution_Timer_servo_LED,
     Kernel_thread_led |-> Kernel_thread_led, Wait_queue |-> Wait_queue,
     procfs_driver |-> procfs_driver, sysfs_driver |-> sysfs_driver,
     real_device_driver |-> real_device_driver, Device_file_create |-> Device_file_create,
     symbol1_driver |-> symbol1_driver, symbol2_driver |-> symbol2_driver,
     kernel_thread_led_pir |-> kernel_thread_led_pir, sound_led_kernel |-> sound_led_kernel,
     GPIO_IOCTL |-> GPIO_IOCTL, GPIO_LED |-> GPIO_LED,
     gpio_Interrupt_button_LED |-> gpio_Interrupt_button_LED,
     GPIO_Interrupt |-> GPIO_Interrupt, Driver_ioctl_interrupt |-> Driver_ioctl_interrupt,
     driver_led_node |-> driver_led_node, driver_led_pwm_2 |-> driver_led_pwm_2,
     driver_led_pwm_3 |-> driver_led_pwm_3, Platform_LED_driver |-> Platform_LED_driver,
     Misc_Driver |-> Misc_Driver, led_platform_device |-> led_platform_device,
     led_platform_module |-> led_platform_module,
     Led_platform_dts_resource |-> Led_platform_dts_resource,
     device_tree_led_platform |-> device_tree_led_platform]
FleetDrivers == DOMAIN FleetTable

-------------------------------------------------------------------------------
(* The defects of the drivers: what the properties of DriverLoad let pass. *)
(* Without any one of these entries a property is violated.                *)

(* Never given back by exit: pins and mappings forgotten, threads nobody   *)
(* waits for, WorkQueue's interrupt (it frees line 0 instead), and timers  *)
(* that del_timer found running, which arm themselves again.               *)
LeftByExit ==
    [sysfs_driver |-> {"gpio17", "gpio18"},
     Driver_ioctl_interrupt |-> {"gpio17", "irq"},
     Kernel_thread_led |-> {"gpio18"}, procfs_driver |-> {"gpio18"},
     Misc_Driver |-> {"iomap"}, device_tree_led_platform |-> {"iomap"},
     driver_led_node |-> {"iomap"}, driver_led_pwm_2 |-> {"iomap2"},
     driver_led_pwm_3 |-> {"iomap2"}, WorkQueue |-> {"irq", "timer", "uart"},
     Wait_queue |-> {"thread"}, remote_controller_signal |-> {"thread"},
     remote_controller_wait_queue |-> {"thread"},
     High_Resolution_Timer_LED |-> {"timer"},
     High_Resolution_Timer_servo |-> {"timer"},
     Sending_button_signal |-> {"timer"}, Tasklet |-> {"timer", "uart"},
     Threaded_IRQ |-> {"timer", "uart"},
     UltraSonic_Interrupt |-> {"timer", "uart"},
     High_Resolution_Timer_servo_LED |-> {"timer_led", "timer_servo"},
     button_on_off |-> {"uart"}]

(* Left when init fails late: labels that leave out cdev_del or            *)
(* device_destroy, Tasklet's jump to irq past its pins and to the wrong    *)
(* interrupt, mappings without a label.                                    *)
LeftByLabels ==
    [Device_file_create |-> {"cdev"}, High_Resolution_Timer_LED |-> {"cdev"},
     High_Resolution_Timer_servo |-> {"cdev"},
     High_Resolution_Timer_servo_LED |-> {"cdev"},
     Sending_button_signal |-> {"cdev"}, Wait_queue |-> {"cdev"},
     symbol1_driver |-> {"cdev"}, symbol2_driver |-> {"cdev"},
     procfs_driver |-> {"cdev", "device"},
     real_device_driver |-> {"cdev", "device"}, WorkQueue |-> {"device"},
     sysfs_driver |-> {"device"},
     Tasklet |-> {"device", "gpio19", "gpio26", "irq"},
     Kernel_thread_led |-> {"gpio18"}, Misc_Driver |-> {"iomap"},
     device_tree_led_platform |-> {"iomap"}, led_platform_module |-> {"pdev"}]

(* Still running, or coming in again, when the module's code is gone.      *)
RunOn ==
    [Driver_ioctl_interrupt |-> {"isr", "ops"}, Tasklet |-> {"isr", "timer"},
     WorkQueue |-> {"isr", "timer"}, Device_file_create |-> {"ops"},
     GPIO_IOCTL |-> {"ops"}, GPIO_Interrupt |-> {"ops"}, GPIO_LED |-> {"ops"},
     driver_led_node |-> {"ops"}, driver_led_pwm_2 |-> {"ops"},
     driver_led_pwm_3 |-> {"ops"}, gpio_Interrupt_button_LED |-> {"ops"},
     High_Resolution_Timer_servo_LED |-> {"t1", "t2"}, Wait_queue |-> {"thread"},
     remote_controller_signal |-> {"thread"},
     remote_controller_wait_queue |-> {"thread"},
     High_Resolution_Timer_LED |-> {"timer"},
     High_Resolution_Timer_servo |-> {"timer"},
     Sending_button_signal |-> {"timer"}, Threaded_IRQ |-> {"timer"},
     UltraSonic_Interrupt |-> {"timer"}]

(* In before the UART, wait queue, mapping or buffer they use; the two pwm *)
(* drivers also unmap before they unregister.                              *)
RunEarly ==
    [Threaded_IRQ |-> {"irq_thread", "isr"}, Tasklet |-> {"isr"},
     UltraSonic_Interrupt |-> {"isr"}, WorkQueue |-> {"isr"},
     button_on_off |-> {"isr"}, remote_controller_signal |-> {"isr"},
     remote_controller_wait_queue |-> {"isr"}, Wait_queue |-> {"ops"},
     driver_led_node |-> {"ops"}, driver_led_pwm_2 |-> {"ops"},
     driver_led_pwm_3 |-> {"ops"}, real_device_driver |-> {"ops"}]

(* Given back although another driver had it: the label a failed           *)
(* gpio_request jumps to frees that pin, and results nobody looks at.      *)
NotTheirs ==
    [gpio_Interrupt_button_LED |-> {"chrdev", "gpio17", "gpio18", "irq"},
     GPIO_Interrupt |-> {"chrdev", "gpio17", "irq"},
     Driver_ioctl_interrupt |-> {"chrdev", "gpio18"}, GPIO_IOCTL |-> {"gpio18"},
     GPIO_LED |-> {"gpio18"}, High_Resolution_Timer_LED |-> {"gpio18"},
     Platform_LED_driver |-> {"gpio18"},
     High_Resolution_Timer_servo_LED |-> {"gpio18", "gpio23"},
     Threaded_IRQ |-> {"gpio19", "gpio26"},
     UltraSonic_Interrupt |-> {"gpio19", "gpio26"},
     Tasklet |-> {"gpio19", "gpio26", "irq0"},
     WorkQueue |-> {"gpio19", "gpio26", "irq0"},
     GPIO_Interrupt_2 |-> {"gpio21", "gpio25"},
     Remote_controller |-> {"gpio21", "gpio25"},
     button_on_off_plain |-> {"gpio21", "gpio25"},
     remote_controller_signal |-> {"gpio21", "gpio25"},
     remote_controller_wait_queue |-> {"gpio21", "gpio25"},
     button_on_off |-> {"gpio21", "gpio4"},
     High_Resolution_Timer_servo |-> {"gpio23"}, led_platform_module |-> {"pdev"}]

Of(f, v) == IF v \in DOMAIN f THEN f[v] ELSE {}
FleetKnown ==
    [v \in FleetDrivers |->
       [unloaded |-> Of(LeftByExit, v), undone |-> Of(LeftByLabels, v), orphans |-> Of(RunOn, v),
        early |-> Of(RunEarly, v), foreign |-> Of(NotTheirs, v)]]
===============================================================================
