---------------------------- MODULE SpiMasterProofs ----------------------------
(* Proofs about the SPI masters.                                           *)
EXTENDS SpiMaster, TLAPS

(* What the proofs use of the programs: the words that are no commands     *)
(* name none, whoever fetches again can tell a sound answer, and the       *)
(* program with a last command is not ended by a failed transfer.          *)
LEMMA Programs ==
  ASSUME NEW a \in Apps
  PROVE  /\ a.checked \in BOOLEAN /\ a.retries \in Nat
         /\ a.fetch[1] \notin Commands
         /\ a.retries # 0 => a.checked
         /\ a.last \in {0, CMD_LED_OFF}
         /\ a.last # 0 => ~a.fatal
         /\ Len(a.script) \in Nat \ {0}
<1>1. a = controller \/ a = reader \/ a = echo
  BY SpiAssumption, Zenon DEF SpiAssumption
<1>2. CASE a = controller
  BY <1>2, SMT DEF controller, Commands, GetResponse, CMD_LED_ON, CMD_LED_OFF, CMD_READ_ANALOG
<1>3. CASE a = reader
  BY <1>3, SMT DEF reader, Commands, GetResponse, CMD_LED_ON, CMD_LED_OFF, CMD_READ_ANALOG
<1>4. CASE a = echo
  BY <1>4, SMT DEF echo, Commands, CMD_LED_ON, CMD_LED_OFF, CMD_READ_ANALOG
<1> QED
  BY <1>1, <1>2, <1>3, <1>4

(* A word begins with its byte; with a checksum it is sound.               *)
LEMMA WordOf ==
  ASSUME NEW b
  PROVE  Word(b)[1] = b /\ (app.checked => Sound(Word(b)))
  BY SMT DEF Word, Sound

Calling == {"command", "sync", "get", "retry"}

Places ==
    /\ app \in Apps
    /\ spc \in Calling \cup {"loop", "return", "stopped"}
    /\ at \in Nat
    /\ execs \in Nat /\ second \in BOOLEAN /\ whole \in BOOLEAN

(* What is on the wire: the command at first, afterwards none.             *)
OnWire ==
    /\ spc = "command" => tx = Word(cmd)
    /\ spc \in {"sync", "get", "retry"} => tx[1] \notin Commands

(* The answer held ready is a word, to the command of the call once that   *)
(* was heard.                                                              *)
HeldReady ==
    /\ \E b : ready = Word(b)
    /\ heard => ready[1] \in Answers(cmd)
    /\ heard /\ cmd = CMD_LED_OFF => stm_led = 0

(* An answer that comes through ends the call.                             *)
Through ==
    /\ spc \in Calling => ~whole
    /\ spc = "return" /\ whole => result = ready[1]
    /\ spc = "retry" => app.retries # 0

(* Only the first transfer of a call can be obeyed.                        *)
Obeyed ==
    /\ spc = "loop" => execs = 0 /\ ~second
    /\ spc = "command" => execs <= IF second THEN 1 ELSE 0
    /\ ObeyedOnce

(* The last command comes last.                                            *)
AtLast ==
    /\ at = 0 /\ spc # "loop" => cmd = app.last
    /\ spc = "stopped" /\ app.last # 0 => at = 0
    /\ spc = "loop" => at # 0

InStep == Places /\ OnWire /\ HeldReady /\ Through /\ Obeyed /\ AtLast

(* The program is in its loop and nothing was sent.                        *)
LEMMA InStepInit == SpiInit => InStep
<1> SUFFICES ASSUME SpiInit PROVE InStep
  OBVIOUS
<1>1. Places
  BY Zenon DEF SpiInit, Places
<1> QED
  BY <1>1, SMT DEF SpiInit, InStep, OnWire, HeldReady, Through, Obeyed, AtLast, Calling, ObeyedOnce

(* A transfer of a word that is no command leaves the microcontroller as   *)
(* it was; what counts as come through is what it holds ready.             *)
LEMMA Fetches ==
  ASSUME NEW ok \in BOOLEAN, spiTransfer(ok), tx[1] \notin Commands, whole \in BOOLEAN
  PROVE  /\ UNCHANGED slave
         /\ whole' \in BOOLEAN
         /\ ~whole /\ whole' => ok /\ rx' = ready /\ spc \in {"get", "retry"}
<1>1. SlaveHears => UNCHANGED slave
  BY Zenon DEF SlaveHears
<1>2. UNCHANGED slave
  BY <1>1, Zenon DEF spiTransfer
<1>3. whole' \in BOOLEAN
  BY SMT DEF spiTransfer
<1>4. whole' = whole \/ (ok /\ rx' = ready /\ whole' = (whole \/ spc \in {"get", "retry"}))
  BY Zenon DEF spiTransfer
<1> QED
  BY <1>2, <1>3, <1>4, Zenon

(* A transfer of a command is obeyed and answered once, or not at all.     *)
LEMMA CommandSent ==
  ASSUME NEW ok \in BOOLEAN, spiTransfer(ok), spc = "command", tx = Word(cmd),
         whole \in BOOLEAN
  PROVE  /\ whole' = whole
         /\ \/ UNCHANGED slave
            \/ /\ execs' = execs + 1 /\ heard' = TRUE
               /\ \E b \in Answers(cmd) : ready' = Word(b)
               /\ cmd = CMD_LED_OFF => stm_led' = 0
<1>1. tx[1] = cmd
  BY WordOf
<1>2. CMD_LED_OFF # CMD_LED_ON
  BY SMT DEF CMD_LED_OFF, CMD_LED_ON
<1>3. SlaveHears => \/ UNCHANGED slave
                    \/ /\ execs' = execs + 1 /\ heard' = TRUE
                       /\ \E b \in Answers(cmd) : ready' = Word(b)
                       /\ cmd = CMD_LED_OFF => stm_led' = 0
  BY <1>1, <1>2, Zenon DEF SlaveHears
<1>4. spiTransfer(ok) => UNCHANGED slave \/ SlaveHears
  BY SMT DEF spiTransfer
<1>5. whole' = whole
  BY SMT DEF spiTransfer
<1> QED
  BY <1>3, <1>4, <1>5, Zenon

(* The words of a program do not change while it runs.                     *)
LEMMA SameWords ==
  ASSUME app' = app
  PROVE  \A b : Word(b)' = Word(b)
  BY Zenon DEF Word

(* A step that leaves the microcontroller and the call as they were keeps  *)
(* what is held ready.                                                     *)
LEMMA SlaveKept ==
  ASSUME HeldReady, UNCHANGED <<app, cmd, slave>>
  PROVE  HeldReady'
<1>1. UNCHANGED <<app, cmd, stm_led, ready, heard>>
  BY Zenon DEF slave
<1>2. Answers(cmd)' = Answers(cmd)
  BY <1>1, Zenon DEF Answers
<1> QED
  BY <1>1, <1>2, SameWords, Zenon DEF HeldReady

LEMMA SendsInStep == InStep /\ SendsCommand => InStep'
<1> SUFFICES ASSUME InStep, SendsCommand PROVE InStep'
  OBVIOUS
<1>0. UNCHANGED <<app, at, cmd, second>> /\ spc = "command"
  BY Zenon DEF SendsCommand
<1>1. PICK ok \in BOOLEAN :
        /\ spiTransfer(ok)
        /\ IF ok THEN /\ spc' = IF app.sync THEN "sync" ELSE "get"
                      /\ tx' = IF app.sync THEN <<0, 0>> ELSE app.fetch
                      /\ UNCHANGED result
                 ELSE GiveUp /\ UNCHANGED tx
  BY Zenon DEF SendsCommand
<1>2. tx = Word(cmd) /\ whole \in BOOLEAN /\ ~whole /\ execs \in Nat
  BY <1>0, Zenon DEF InStep, OnWire, Places, Through, Calling
<1>3. /\ whole' = whole
      /\ \/ UNCHANGED slave
         \/ /\ execs' = execs + 1 /\ heard' = TRUE
            /\ \E b \in Answers(cmd) : ready' = Word(b)
            /\ cmd = CMD_LED_OFF => stm_led' = 0
  BY <1>0, <1>1, <1>2, CommandSent
<1>4. app \in Apps
  BY Zenon DEF InStep, Places
<1>5. spc' \in {"sync", "get", "return", "stopped"} /\ (spc' = "stopped" => app.fatal)
  BY <1>1, SMT DEF GiveUp, Return
<1>6. execs' \in Nat /\ execs' <= execs + 1
  BY <1>2, <1>3, SMT DEF slave
<1>7. Places'
  BY <1>0, <1>2, <1>3, <1>4, <1>5, <1>6, SMT DEF InStep, Places, Calling
<1>8. OnWire'
  <2>1. <<0, 0>>[1] \notin Commands
    BY SMT DEF Commands, CMD_LED_ON, CMD_LED_OFF, CMD_READ_ANALOG
  <2>2. spc' \in {"sync", "get"} => tx' \in {<<0, 0>>, app.fetch}
    BY <1>1, SMT DEF GiveUp, Return
  <2> QED
    BY <1>0, <1>4, <1>5, <2>1, <2>2, Programs, SMT DEF OnWire, Commands
<1>9. HeldReady'
  <2>1. CASE UNCHANGED slave
    BY <1>0, <2>1, SlaveKept DEF InStep
  <2>2. CASE /\ execs' = execs + 1 /\ heard' = TRUE
             /\ \E b \in Answers(cmd) : ready' = Word(b)
             /\ cmd = CMD_LED_OFF => stm_led' = 0
    <3>1. PICK b \in Answers(cmd) : ready' = Word(b)
      BY <2>2
    <3>2. Word(b)' = Word(b) /\ Word(b)[1] = b
      BY <1>0, SameWords, WordOf
    <3>3. Answers(cmd)' = Answers(cmd)
      BY <1>0, Zenon DEF Answers
    <3> QED
      BY <1>0, <2>2, <3>1, <3>2, <3>3, Zenon DEF HeldReady
  <2> QED
    BY <1>3, <2>1, <2>2
<1>10. Through'
  BY <1>2, <1>3, <1>5, SMT DEF Through, Calling
<1>11. Obeyed'
  BY <1>0, <1>2, <1>5, <1>6, SMT DEF InStep, Places, Obeyed, ObeyedOnce
<1>12. AtLast'
  BY <1>0, <1>4, <1>5, Programs, SMT DEF InStep, AtLast
<1> QED
  BY <1>7, <1>8, <1>9, <1>10, <1>11, <1>12 DEF InStep

(* What the three fetching actions have in common: nothing of the call     *)
(* changes but how far it is and whether the answer came through.          *)
LEMMA FetchInStep ==
  ASSUME InStep, NEW ok \in BOOLEAN, spiTransfer(ok), spc \in {"sync", "get", "retry"},
         UNCHANGED <<app, at, cmd, second>>, tx' \in {tx, app.fetch},
         spc' \in {"get", "retry", "return", "stopped"},
         spc' = "stopped" => app.fatal, spc' = "retry" => app.retries # 0,
         whole' => spc' = "return" /\ result' = ready[1]
  PROVE  InStep'
<1>1. app \in Apps /\ whole \in BOOLEAN /\ tx[1] \notin Commands
  BY Zenon DEF InStep, Places, OnWire
<1>2. UNCHANGED slave /\ whole' \in BOOLEAN
  BY <1>1, Fetches
<1>3. UNCHANGED <<execs, ready>>
  BY <1>2, Zenon DEF slave
<1>4. app.fetch[1] \notin Commands /\ app.last \in {0, CMD_LED_OFF} /\ (app.last # 0 => ~app.fatal)
  BY <1>1, Programs
<1>5. Places'
  BY <1>2, <1>3, SMT DEF InStep, Places, Calling
<1>6. OnWire'
  BY <1>1, <1>4, SMT DEF OnWire, Commands
<1>7. HeldReady'
  BY <1>2, SlaveKept DEF InStep
<1>8. Through'
  BY <1>2, <1>3, SMT DEF Through, Calling
<1>9. Obeyed'
  BY <1>3, SMT DEF InStep, Obeyed, ObeyedOnce
<1>10. AtLast'
  BY <1>4, SMT DEF InStep, AtLast
<1> QED
  BY <1>5, <1>6, <1>7, <1>8, <1>9, <1>10 DEF InStep

LEMMA SynchronizesInStep == InStep /\ Synchronizes => InStep'
<1> SUFFICES ASSUME InStep, Synchronizes PROVE InStep'
  OBVIOUS
<1>0. UNCHANGED <<app, at, cmd, second>> /\ spc = "sync"
  BY Zenon DEF Synchronizes
<1>1. PICK ok \in BOOLEAN :
        /\ spiTransfer(ok)
        /\ IF ok THEN spc' = "get" /\ tx' = app.fetch /\ UNCHANGED result
                 ELSE GiveUp /\ UNCHANGED tx
  BY Zenon DEF Synchronizes
<1>2. whole \in BOOLEAN /\ ~whole /\ tx[1] \notin Commands
  BY <1>0, Zenon DEF InStep, Places, OnWire, Through, Calling
<1>3. ~whole'
  BY <1>0, <1>1, <1>2, Fetches
<1>4. /\ tx' \in {tx, app.fetch} /\ spc' \in {"get", "return", "stopped"}
      /\ spc' = "stopped" => app.fatal
  BY <1>1, SMT DEF GiveUp, Return
<1> QED
  BY <1>0, <1>1, <1>3, <1>4, FetchInStep

(* A sound answer is returned by the fetch that brings it, and every word  *)
(* the microcontroller holds ready is sound.                               *)
LEMMA RequestsInStep == InStep /\ RequestsResponse => InStep'
<1> SUFFICES ASSUME InStep, RequestsResponse PROVE InStep'
  OBVIOUS
<1>0. UNCHANGED <<app, at, cmd, second, tx>> /\ spc = "get"
  BY Zenon DEF RequestsResponse
<1>1. PICK ok \in BOOLEAN :
        /\ spiTransfer(ok)
        /\ IF ~ok THEN GiveUp /\ UNCHANGED retry
           ELSE IF app.retries = 0 \/ Sound(rx') THEN Return(rx'[1]) /\ UNCHANGED retry
           ELSE retry' = 1 /\ spc' = "retry" /\ UNCHANGED result
  BY Zenon DEF RequestsResponse
<1>2. app \in Apps /\ whole \in BOOLEAN /\ ~whole /\ tx[1] \notin Commands
  BY <1>0, Zenon DEF InStep, Places, OnWire, Through, Calling
<1>3. app.retries # 0 => Sound(ready)
  BY <1>2, Programs, WordOf, Zenon DEF InStep, HeldReady
<1>4. whole' => ok /\ rx' = ready
  BY <1>1, <1>2, Fetches
<1>5. whole' => spc' = "return" /\ result' = ready[1]
  BY <1>1, <1>3, <1>4, SMT DEF Return
<1>6. /\ spc' \in {"retry", "return", "stopped"}
      /\ spc' = "stopped" => app.fatal
      /\ spc' = "retry" => app.retries # 0
  BY <1>1, SMT DEF GiveUp, Return
<1> QED
  BY <1>0, <1>1, <1>5, <1>6, FetchInStep

LEMMA RetriesInStep == InStep /\ Retries => InStep'
<1> SUFFICES ASSUME InStep, Retries PROVE InStep'
  OBVIOUS
<1>0. UNCHANGED <<app, at, cmd, second, tx>> /\ spc = "retry"
  BY Zenon DEF Retries
<1>1. PICK ok \in BOOLEAN :
        /\ spiTransfer(ok)
        /\ IF (ok /\ Sound(rx')) \/ retry = app.retries
           THEN Return(rx'[1]) /\ retry' = 0
           ELSE retry' = retry + 1 /\ UNCHANGED <<spc, result>>
  BY Zenon DEF Retries
<1>2. app \in Apps /\ whole \in BOOLEAN /\ ~whole /\ tx[1] \notin Commands /\ app.retries # 0
  BY <1>0, Zenon DEF InStep, Places, OnWire, Through, Calling
<1>3. Sound(ready)
  BY <1>2, Programs, WordOf, Zenon DEF InStep, HeldReady
<1>4. whole' => ok /\ rx' = ready
  BY <1>1, <1>2, Fetches
<1>5. whole' => spc' = "return" /\ result' = ready[1]
  BY <1>1, <1>3, <1>4, SMT DEF Return
<1>6. spc' \in {"retry", "return"}
  BY <1>0, <1>1, SMT DEF Return
<1> QED
  BY <1>0, <1>1, <1>2, <1>5, <1>6, FetchInStep

(* A call begins with nothing heard of it and nothing come through.        *)
LEMMA BeginInStep ==
  ASSUME InStep, NEW c, Begin(c), UNCHANGED <<app, stm_led, ready, execs>>,
         second' \in BOOLEAN, execs <= IF second' THEN 1 ELSE 0,
         at' \in Nat, at' = 0 => c = app.last
  PROVE  InStep'
<1>1. /\ cmd' = c /\ tx' = Word(c) /\ spc' = "command"
      /\ heard' = FALSE /\ whole' = FALSE
  BY DEF Begin
<1>2. Word(cmd)' = Word(c)
  BY <1>1, Zenon DEF Word
<1>3. Places'
  BY <1>1, Zenon DEF InStep, Places, Calling
<1>4. OnWire'
  BY <1>1, <1>2, SMT DEF OnWire
<1>5. HeldReady'
  BY <1>1, SameWords, Zenon DEF InStep, HeldReady
<1>6. Through'
  BY <1>1, SMT DEF Through, Calling
<1>7. Obeyed'
  BY <1>1, SMT DEF InStep, Places, Obeyed, ObeyedOnce
<1>8. AtLast'
  BY <1>1, SMT DEF AtLast
<1> QED
  BY <1>3, <1>4, <1>5, <1>6, <1>7, <1>8 DEF InStep

LEMMA LoopsInStep == InStep /\ Loops => InStep'
<1> SUFFICES ASSUME InStep, Loops PROVE InStep'
  OBVIOUS
<1>0. UNCHANGED <<app, second, result, stm_led, ready, execs>> /\ spc = "loop"
  BY Zenon DEF Loops
<1>1. /\ execs <= IF second' THEN 1 ELSE 0
      /\ second' \in BOOLEAN /\ at \in Nat /\ at # 0
  BY <1>0, SMT DEF InStep, Obeyed, AtLast, Places
<1>2. CASE Begin(app.script[at]) /\ UNCHANGED at
  BY <1>0, <1>1, <1>2, BeginInStep
<1>3. CASE Begin(app.last) /\ at' = 0
  BY <1>0, <1>1, <1>3, BeginInStep
<1>4. CASE app.last = 0 /\ spc' = "stopped" /\ UNCHANGED <<at, cmd, tx, rx, heard, whole>>
  <2>1. Places'
    BY <1>0, <1>4, SMT DEF InStep, Places
  <2>2. OnWire' /\ Through' /\ Obeyed' /\ AtLast'
    BY <1>0, <1>1, <1>4, SMT DEF InStep, OnWire, Through, Obeyed, ObeyedOnce, AtLast, Calling
  <2>3. HeldReady'
    BY <1>0, <1>4, SlaveKept DEF slave, InStep
  <2> QED
    BY <2>1, <2>2, <2>3 DEF InStep
<1> QED
  BY <1>2, <1>3, <1>4, Zenon DEF Loops

LEMMA TriesAgainInStep == InStep /\ TriesAgain => InStep'
<1> SUFFICES ASSUME InStep, TriesAgain PROVE InStep'
  OBVIOUS
<1>1. /\ UNCHANGED <<app, at, stm_led, ready, execs>>
      /\ spc = "return" /\ ~second /\ second' = TRUE /\ Begin(cmd)
  BY Zenon DEF TriesAgain
<1>2. execs <= 1 /\ at \in Nat /\ (at = 0 => cmd = app.last)
  BY <1>1, SMT DEF InStep, Places, Obeyed, ObeyedOnce, AtLast
<1> QED
  BY <1>1, <1>2, BeginInStep

LEMMA ReturnsInStep == InStep /\ Returns => InStep'
<1> SUFFICES ASSUME InStep, Returns PROVE InStep'
  OBVIOUS
<1>1. /\ UNCHANGED <<app, cmd, tx, result, stm_led, ready, heard, whole>>
      /\ spc = "return" /\ second' = FALSE /\ execs' = 0
      /\ spc' = IF at = 0 THEN "stopped" ELSE "loop"
      /\ at' = IF at = 0 THEN 0 ELSE (at % Len(app.script)) + 1
  BY Zenon DEF Returns
<1>2. app \in Apps /\ at \in Nat
  BY Zenon DEF InStep, Places
<1>3. at' \in Nat /\ (at # 0 => at' # 0)
  <2>1. \A n \in Nat \ {0} : (at % n) + 1 \in Nat /\ (at % n) + 1 # 0
    BY <1>2, SMT
  <2>2. (at % Len(app.script)) + 1 \in Nat /\ (at % Len(app.script)) + 1 # 0
    BY <1>2, <2>1, Programs, Zenon
  <2> QED
    BY <1>1, <2>2, SMT
<1>4. Places'
  <2>1. spc' \in {"stopped", "loop"} /\ execs' \in Nat
    BY <1>1, SMT
  <2> QED
    BY <1>1, <1>2, <1>3, <2>1, Zenon DEF InStep, Places
<1>5. OnWire' /\ Through' /\ Obeyed'
  BY <1>1, SMT DEF OnWire, Through, Obeyed, ObeyedOnce, Calling
<1>6. HeldReady'
  <2>1. Answers(cmd)' = Answers(cmd)
    BY <1>1, Zenon DEF Answers
  <2> QED
    BY <1>1, <2>1, SameWords, Zenon DEF InStep, HeldReady
<1>7. AtLast'
  BY <1>1, <1>3, SMT DEF InStep, AtLast
<1> QED
  BY <1>4, <1>5, <1>6, <1>7 DEF InStep

(* Ctrl-C, a line that dies and a stutter touch none of it.                *)
LEMMA OthersInStep ==
  ASSUME InStep, UNCHANGED <<app, spc, at, cmd, tx, second, result, slave, whole>>
  PROVE  InStep'
<1>1. UNCHANGED <<stm_led, ready, execs, heard>>
  BY Zenon DEF slave
<1>2. HeldReady'
  BY SlaveKept DEF InStep
<1>3. Places' /\ Through'
  BY <1>1, Zenon DEF InStep, Places, Through
<1>4. OnWire'
  BY Zenon DEF InStep, OnWire, Word
<1>5. Obeyed' /\ AtLast'
  BY <1>1, Zenon DEF InStep, Obeyed, ObeyedOnce, AtLast
<1> QED
  BY <1>2, <1>3, <1>4, <1>5 DEF InStep

LEMMA InStepNext == InStep /\ [SpiNext]_spiVars => InStep'
<1> SUFFICES ASSUME InStep, [SpiNext]_spiVars PROVE InStep'
  OBVIOUS
<1>1. CASE Master
  BY <1>1, LoopsInStep, SendsInStep, SynchronizesInStep, RequestsInStep, RetriesInStep,
     TriesAgainInStep, ReturnsInStep, Zenon DEF Master
<1>2. CASE signalHandler
  BY <1>2, OthersInStep, Zenon DEF signalHandler
<1>3. CASE LineDies
  BY <1>3, OthersInStep, Zenon DEF LineDies, program
<1>4. CASE UNCHANGED spiVars
  BY <1>4, OthersInStep, Zenon DEF spiVars, program
<1> QED
  BY <1>1, <1>2, <1>3, <1>4, Zenon DEF SpiNext

LEMMA InStepAlways == SpiSpec => []InStep
  BY InStepInit, InStepNext, PTL DEF SpiSpec

(* What a call of any of the programs returns is the microcontroller's     *)
(* answer to the command of that call, whenever the command was heard and  *)
(* one of the fetches of sendCommand came through: for every number of     *)
(* faults, every reading and every way of spoiling an answer.              *)
THEOREM AnswersInStep == SpiSpec => []AnswerInStep
<1>1. InStep => AnswerInStep
  BY Zenon DEF InStep, Through, HeldReady, AnswerInStep
<1> QED
  BY <1>1, InStepAlways, PTL

(* The dummy word, the fetches and the retries of sendCommand carry        *)
(* nothing a microcontroller obeys, for every number of faults.            *)
THEOREM ObeyedOnceAlways == SpiSpec => []ObeyedOnce
<1>1. InStep => ObeyedOnce
  BY Zenon DEF InStep, Obeyed
<1> QED
  BY <1>1, InStepAlways, PTL

(* The safety half of CtrlCEndsMaster: a stopped controller whose last     *)
(* command was heard has the LED off, however many faults came before.     *)
THEOREM StopsDark == SpiSpec => [](spc = "stopped" => LedOff)
<1>1. InStep => (spc = "stopped" => LedOff)
  <2> SUFFICES ASSUME InStep, spc = "stopped", app.last # 0, heard PROVE stm_led = 0
    BY DEF LedOff
  <2>1. at = 0 /\ cmd = app.last /\ app \in Apps
    BY SMT DEF InStep, AtLast, Places
  <2>2. cmd = CMD_LED_OFF
    BY <2>1, Programs
  <2> QED
    BY <2>2 DEF InStep, HeldReady
<1> QED
  BY <1>1, InStepAlways, PTL
===============================================================================
