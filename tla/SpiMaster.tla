------------------------------ MODULE SpiMaster -------------------------------
(***************************************************************************)
(* The SPI masters: a program sends a command to a microcontroller, lets   *)
(* it work, and fetches the answer with a transfer of its own.  SPI is     *)
(* full duplex: what a transfer brings back was ready before it began.     *)
(*                                                                         *)
(* Source: app/spi_mcu/main.cpp (controller), app/spi_mcu/main3.cpp        *)
(* (reader), app/spi_psoc/rpi_spi_master.cpp (echo).                       *)
(* External: the microcontroller, whose firmware is not in the repository. *)
(* It is taken as the programs use it: it obeys a sound command, ignores   *)
(* everything else, and shifts out its last answer until the next command. *)
(***************************************************************************)
EXTENDS Integers, Sequences

CONSTANTS
    Apps,          \* the programs: controller, reader, echo
    Readings,      \* bytes the analog input may give
    Garbage,       \* answers spoilt on the line
    MaxFaults,     \* bound on transfers that fail or are spoilt
    LineMayDie     \* the microcontroller may fall silent, its line low

CMD_LED_ON == 1
CMD_LED_OFF == 2
CMD_READ_ANALOG == 4
RESP_ACK == 0
RESP_ERROR == 255

calculateChecksum(data) == 255 - data
Sound(w) == Len(w) = 2 /\ w[2] = calculateChecksum(w[1])
GetResponse == <<255, 0>>

(* The programs: the commands of one turn of the main loop; before which   *)
(* of them running is looked at; the command after the loop, 0 if none;    *)
(* whether words carry a checksum; whether a dummy word comes between      *)
(* command and fetch; the word that fetches; how often a spoilt answer is  *)
(* fetched again; whether an answer of 0xFF repeats the call; whether a    *)
(* failed transfer ends the program.                                       *)
controller == [script |-> <<CMD_LED_ON, CMD_READ_ANALOG, CMD_LED_OFF, CMD_READ_ANALOG>>,
               checks |-> {1, 3}, last |-> CMD_LED_OFF, checked |-> TRUE, sync |-> TRUE,
               fetch |-> GetResponse, retries |-> 3, again |-> FALSE, fatal |-> FALSE]
reader == [script |-> <<CMD_READ_ANALOG>>,
           checks |-> {1}, last |-> 0, checked |-> TRUE, sync |-> FALSE,
           fetch |-> GetResponse, retries |-> 0, again |-> TRUE, fatal |-> FALSE]
echo == [script |-> <<160, 161, 162, 163>>,
         checks |-> 1..4, last |-> 0, checked |-> FALSE, sync |-> FALSE,
         fetch |-> <<0>>, retries |-> 0, again |-> FALSE, fatal |-> TRUE]

ASSUME SpiAssumption ==
    /\ Apps \subseteq {controller, reader, echo}
    /\ Readings \subseteq 0..255
    /\ \A g \in Garbage : g \in (0..255) \X (0..255) /\ ~Sound(g)
    /\ MaxFaults \in Nat /\ LineMayDie \in BOOLEAN

VARIABLES
    app,                   \* the program that runs
    running,               \* its flag, cleared by Ctrl-C
    spc,                   \* where it is
    at,                    \* the call of the turn; 0 after the loop
    cmd, tx, rx, retry,    \* sendCommand: argument, buffers, retry counter
    second, result,        \* the call is a repetition; what sendCommand returned
    stm_led, ready,        \* the microcontroller: LED, answer it shifts out
    line, faults,          \* "up" or "dead"; faults so far
    heard, whole, execs    \* history of the call: the microcontroller heard the
                           \* command; its answer arrived; commands it obeyed

program == <<app, running, spc, at, cmd, tx, retry, second, result>>
slave == <<stm_led, ready, execs, heard>>
spiVars == <<program, rx, slave, line, faults, whole>>

-------------------------------------------------------------------------------
(* The line and the microcontroller.                                       *)

Commands == {CMD_LED_ON, CMD_LED_OFF, CMD_READ_ANALOG} \cup 160..163

Answers(c) == IF c = CMD_READ_ANALOG THEN Readings
              ELSE IF c \in 160..163 THEN {c} ELSE {RESP_ACK}

Word(b) == IF app.checked THEN <<b, calculateChecksum(b)>> ELSE <<b>>

SlaveHears ==
    IF tx[1] \in Commands /\ (app.checked => Sound(tx))
    THEN /\ \E b \in Answers(tx[1]) : ready' = Word(b)
         /\ stm_led' = IF tx[1] = CMD_LED_ON THEN 1
                       ELSE IF tx[1] = CMD_LED_OFF THEN 0 ELSE stm_led
         /\ execs' = execs + 1 /\ heard' = TRUE
    ELSE UNCHANGED slave

Fault == line = "up" /\ faults < MaxFaults /\ faults' = faults + 1

(* spiTransfer: ok tells what the ioctl returned.                          *)
spiTransfer(ok) ==
    /\ \/ /\ ok /\ line = "up" /\ rx' = ready /\ SlaveHears
          /\ whole' = (whole \/ spc \in {"get", "retry"})
          /\ UNCHANGED faults
       \/ /\ ok /\ Fault /\ rx' = ready            \* spoilt on the way out
          /\ whole' = (whole \/ spc \in {"get", "retry"})
          /\ UNCHANGED slave
       \/ /\ ok /\ Fault /\ app.checked /\ SlaveHears      \* or on the way back
          /\ rx' \in Garbage
          /\ UNCHANGED whole
       \/ /\ ok /\ line = "dead" /\ rx' = [n \in 1..Len(tx) |-> 0]
          /\ UNCHANGED <<slave, whole, faults>>
       \/ /\ ~ok /\ Fault
          /\ UNCHANGED <<rx, slave, whole>>
    /\ UNCHANGED line

LineDies ==
    /\ LineMayDie /\ line = "up"
    /\ line' = "dead"
    /\ UNCHANGED <<program, rx, slave, faults, whole>>

-------------------------------------------------------------------------------
(* sendCommand.                                                            *)

Begin(c) ==
    /\ cmd' = c
    /\ tx' = Word(c) /\ rx' = [n \in 1..Len(Word(c)) |-> 0]
    /\ spc' = "command"
    /\ heard' = FALSE /\ whole' = FALSE

Return(b) == result' = b /\ spc' = "return"

(* A transfer failed: RESP_ERROR, or the end of the program.               *)
GiveUp == IF app.fatal THEN spc' = "stopped" /\ UNCHANGED result ELSE Return(RESP_ERROR)

(* Mutant: the dummy bytes are not put into the buffer.                    *)
SendsCommandTwice ==
    /\ spc = "command"
    /\ \E ok \in BOOLEAN :
          /\ spiTransfer(ok)
          /\ IF ok THEN /\ spc' = IF app.sync THEN "sync" ELSE "get"
                        /\ tx' = IF app.sync THEN tx ELSE app.fetch
                        /\ UNCHANGED result
                   ELSE GiveUp /\ UNCHANGED tx
    /\ UNCHANGED <<app, running, at, cmd, retry, second>>

SendsCommand ==
    /\ spc = "command"
    /\ \E ok \in BOOLEAN :
          /\ spiTransfer(ok)
          /\ IF ok THEN /\ spc' = IF app.sync THEN "sync" ELSE "get"
                        /\ tx' = IF app.sync THEN <<0, 0>> ELSE app.fetch
                        /\ UNCHANGED result
                   ELSE GiveUp /\ UNCHANGED tx
    /\ UNCHANGED <<app, running, at, cmd, retry, second>>

Synchronizes ==
    /\ spc = "sync"
    /\ \E ok \in BOOLEAN :
          /\ spiTransfer(ok)
          /\ IF ok THEN spc' = "get" /\ tx' = app.fetch /\ UNCHANGED result
                   ELSE GiveUp /\ UNCHANGED tx
    /\ UNCHANGED <<app, running, at, cmd, retry, second>>

RequestsResponse ==
    /\ spc = "get"
    /\ \E ok \in BOOLEAN :
          /\ spiTransfer(ok)
          /\ IF ~ok THEN GiveUp /\ UNCHANGED retry
             ELSE IF app.retries = 0 \/ Sound(rx') THEN Return(rx'[1]) /\ UNCHANGED retry
             ELSE retry' = 1 /\ spc' = "retry" /\ UNCHANGED result
    /\ UNCHANGED <<app, running, at, cmd, tx, second>>

(* Mutant: the loop over the retries is not left on a good answer.         *)
RetriesOn ==
    /\ spc = "retry"
    /\ \E ok \in BOOLEAN :
          /\ spiTransfer(ok)
          /\ IF retry = app.retries
             THEN Return(rx'[1]) /\ retry' = 0
             ELSE retry' = retry + 1 /\ UNCHANGED <<spc, result>>
    /\ UNCHANGED <<app, running, at, cmd, tx, second>>

(* A failed retry leaves rx as it was; after the last one rx is returned   *)
(* whatever its checksum.                                                  *)
Retries ==
    /\ spc = "retry"
    /\ \E ok \in BOOLEAN :
          /\ spiTransfer(ok)
          /\ IF (ok /\ Sound(rx')) \/ retry = app.retries
             THEN Return(rx'[1]) /\ retry' = 0
             ELSE retry' = retry + 1 /\ UNCHANGED <<spc, result>>
    /\ UNCHANGED <<app, running, at, cmd, tx, second>>

-------------------------------------------------------------------------------
(* The main loops.                                                         *)

(* Mutant: Ctrl-C leaves the program at once, the LED as it is.            *)
LoopsWithoutLast ==
    /\ spc = "loop"
    /\ IF at \in app.checks /\ ~running
       THEN spc' = "stopped" /\ UNCHANGED <<at, cmd, tx, rx, heard, whole>>
       ELSE Begin(app.script[at]) /\ UNCHANGED at
    /\ UNCHANGED <<app, running, retry, second, result, stm_led, ready, line, faults, execs>>

(* To the next call of the turn, or out of the loop.                       *)
Loops ==
    /\ spc = "loop"
    /\ \/ /\ ~(at \in app.checks /\ ~running)
          /\ Begin(app.script[at])
          /\ UNCHANGED at
       \/ /\ at \in app.checks /\ ~running /\ app.last # 0
          /\ Begin(app.last)
          /\ at' = 0
       \/ /\ at \in app.checks /\ ~running /\ app.last = 0
          /\ spc' = "stopped"
          /\ UNCHANGED <<at, cmd, tx, rx, heard, whole>>
    /\ UNCHANGED <<app, running, retry, second, result, stm_led, ready, line, faults, execs>>

(* readAnalogValue of the reader: 0xFF may be an error or a full reading.  *)
TriesAgain ==
    /\ spc = "return" /\ app.again /\ result = RESP_ERROR /\ ~second
    /\ second' = TRUE
    /\ Begin(cmd)
    /\ UNCHANGED <<app, running, at, retry, result, stm_led, ready, line, faults, execs>>

Returns ==
    /\ spc = "return" /\ ~(app.again /\ result = RESP_ERROR /\ ~second)
    /\ second' = FALSE /\ execs' = 0
    /\ spc' = IF at = 0 THEN "stopped" ELSE "loop"
    /\ at' = IF at = 0 THEN 0 ELSE (at % Len(app.script)) + 1
    /\ UNCHANGED <<app, running, cmd, tx, retry, result, rx, stm_led, ready, heard,
                   line, faults, whole>>

signalHandler ==
    /\ running /\ spc # "stopped"
    /\ running' = FALSE
    /\ UNCHANGED <<app, spc, at, cmd, tx, retry, second, result, rx, slave, line, faults, whole>>

SpiInit ==
    /\ app \in Apps /\ running = TRUE
    /\ spc = "loop" /\ at = 1
    /\ cmd = 0 /\ tx = <<0, 0>> /\ rx = <<0, 0>> /\ retry = 0
    /\ second = FALSE /\ result = 0
    /\ stm_led \in {0, 1} /\ ready = Word(0)
    /\ line = "up" /\ faults = 0
    /\ heard = FALSE /\ whole = FALSE /\ execs = 0

Master == \/ Loops \/ SendsCommand \/ Synchronizes \/ RequestsResponse
          \/ Retries \/ TriesAgain \/ Returns
SpiNext == Master \/ signalHandler \/ LineDies
SpiSpec == SpiInit /\ [][SpiNext]_spiVars

(* The program is scheduled; transfers and sleeps come to an end.          *)
SpiFairness == WF_spiVars(Master)
SpiFairSpec == SpiSpec /\ SpiFairness

-------------------------------------------------------------------------------
(* An answer belongs to its command: whenever the microcontroller heard    *)
(* the command of a call and its answer came through in any of the up to   *)
(* four fetches, the call returns that answer, one to this command and the *)
(* microcontroller's last, whatever else the line did to the transfers     *)
(* before and after.                                                       *)
AnswerInStep ==
    spc = "return" /\ heard /\ whole => result = ready[1] /\ result \in Answers(cmd)

(* Retries and the dummy word never make the microcontroller obey a        *)
(* command again; a repeated call of the reader does, once.                *)
ObeyedOnce == execs <= IF second THEN 2 ELSE 1

(* The controller has its LED off, provided its last command was heard.   *)
LedOff == app.last # 0 /\ heard => stm_led = 0

(* Ctrl-C ends each program, whatever the line does and wherever the       *)
(* program is, and "Ensure the LED is turned off before exiting" is kept.  *)
CtrlCEndsMaster == ~running ~> (spc = "stopped" /\ LedOff)

(* "@return true if command successful, false otherwise" of turnLedOn.     *)
AckIsDone == spc = "return" /\ cmd = CMD_LED_ON /\ result = RESP_ACK => stm_led = 1
===============================================================================
