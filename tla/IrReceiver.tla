------------------------------ MODULE IrReceiver ------------------------------
(***************************************************************************)
(* The infrared receiver of the remote-controller drivers: the interrupt   *)
(* handler that times falling edges of the demodulated signal on GPIO 25   *)
(* and recognises lead codes, repeat codes and complete frames.            *)
(*                                                                         *)
(* Source: driver/remote_controller_signal/remote_controller_signal.c,     *)
(* gpio_irq_handler (the wait-queue driver has the same handler).          *)
(*                                                                         *)
(* The remote control in the user's hand and the light path are external:  *)
(* a transmission is a frame (an edge, a lead interval, NBits bit          *)
(* intervals) or a repeat code (an edge and a repeat interval), and the    *)
(* light path may hide an edge or add one.                                 *)
(*                                                                         *)
(* Time is in microseconds.  capture_time_array[i] is kept as the AGE of   *)
(* the stored time stamp, so a difference with the current time is that    *)
(* age.  Ages saturate at Far: every comparison of the code is against at  *)
(* most 14000, strictly, so nothing tells 14000 from a longer interval.    *)
(***************************************************************************)
EXTENDS Integers

CONSTANTS
    NBits,        \* data bits of a frame (32 in the code, hence 34 edges)
    Words,        \* the bit patterns the remote may send: [0..NBits-1 -> {0,1}]
    ZeroGaps, OneGaps, LeadGaps, RepeatGaps,   \* intervals the remote produces
    QuietGaps,    \* silence between two transmissions
    NoiseGaps,    \* delay of a spurious edge after the last genuine one
    MaxFaults     \* bound on hidden and spurious edges

Far == 14000

ASSUME ReceiverAssumption ==
    /\ NBits \in Nat /\ NBits >= 2
    /\ Words \subseteq [0..NBits-1 -> {0, 1}]
    /\ ZeroGaps \subseteq 1001..1499
    /\ OneGaps \subseteq 2001..2499
    /\ LeadGaps \subseteq 13001..13999
    /\ RepeatGaps \subseteq 11001..11999
    /\ QuietGaps \subseteq {g \in Nat : g >= Far}
    /\ NoiseGaps \subseteq Nat \ {0}
    /\ MaxFaults \in Nat

VARIABLES
    tx,       \* the transmission: its kind, its bits and the edges sent so far
    spent,    \* time of the current interval already used up by spurious edges
    faults,   \* hidden and spurious edges so far
    clean,    \* history: no fault since the current transmission began, and the
              \* receiver was not one edge short of a frame when it began
    counter, capture_time_array, diff_time_us,      \* globals of the driver
    event     \* the branch the latest run of the handler took

receiver == <<counter, capture_time_array, diff_time_us, event>>
air == <<tx, spent, faults, clean>>
irVars == <<air, receiver>>

FrameEdges == NBits + 2          \* 34 in the code
Captures == 0..FrameEdges        \* indices of capture_time_array[35]
Diffs == 0..NBits                \* indices of diff_time_us[33]

Sat(t) == IF t > Far THEN Far ELSE t
Aged(g) == [i \in Captures |-> Sat(capture_time_array[i] + g)]

-------------------------------------------------------------------------------
(* The interrupt handler, run g microseconds after its previous run or     *)
(* after the latest hidden edge.                                           *)

Interval(g) == Aged(g)[counter - 1]
IsLead(g) == counter > 0 /\ Interval(g) > 13000 /\ Interval(g) < 14000

(* Mutant: a repeat code is expected only at the start of a frame.         *)
IsRepeatAtStart(g) == counter = 1 /\ Interval(g) > 11000 /\ Interval(g) < 12000

IsRepeat(g) == counter > 0 /\ Interval(g) > 11000 /\ Interval(g) < 12000

(* Mutants: the start of a frame counted wrongly after a lead code and     *)
(* after a repeat code.                                                    *)
LeadCountedOnce(g) ==
    IF IsLead(g) THEN 1 ELSE IF IsRepeat(g) THEN 0 ELSE counter + 1
RepeatCountedOnce(g) ==
    IF IsLead(g) THEN 2 ELSE IF IsRepeat(g) THEN 1 ELSE counter + 1

NextCounter(g) ==
    IF IsLead(g) THEN 2 ELSE IF IsRepeat(g) THEN 0 ELSE counter + 1

(* Mutant: the end of a frame tested one edge too late.                    *)
CompletesLate(g) == NextCounter(g) = FrameEdges + 1

Completes(g) == NextCounter(g) = FrameEdges

Outcome(g) ==
    IF Completes(g) THEN "frame"
    ELSE IF IsLead(g) THEN "lead"
    ELSE IF IsRepeat(g) THEN "repeat"
    ELSE "edge"

gpio_irq_handler(g) ==
    /\ capture_time_array' = [Aged(g) EXCEPT ![counter] = 0]
    /\ diff_time_us' = IF counter > 0
                       THEN [diff_time_us EXCEPT ![counter - 1] = Interval(g)]
                       ELSE diff_time_us
    /\ counter' = IF Completes(g) THEN 0 ELSE NextCounter(g)
    /\ event' = Outcome(g)

(* What the decoder makes of one measured interval; any other interval     *)
(* leaves the bit as it was.                                               *)
IsZero(d) == d > 1000 /\ d < 1500
IsOne(d) == d > 2000 /\ d < 2500

-------------------------------------------------------------------------------
(* The remote control and the light path (external).                       *)

Edges(kind) == CASE kind = "frame" -> FrameEdges
                 [] kind = "repeat" -> 2
                 [] kind = "idle" -> 0

Idle == tx.pos = Edges(tx.kind)

BitGaps(bit) == IF bit = 1 THEN OneGaps ELSE ZeroGaps

(* Intervals that may precede the next edge of the transmission under way. *)
GapsNow ==
    IF tx.pos = 1
    THEN IF tx.kind = "frame" THEN LeadGaps ELSE RepeatGaps
    ELSE BitGaps(tx.word[tx.pos - 2])

Starts == {[kind |-> "frame", word |-> w, pos |-> 1] : w \in Words}
            \cup {[kind |-> "repeat", word |-> tx.word, pos |-> 1]}

(* The first edge of a transmission, after a silence.                      *)
StartEdge ==
    /\ Idle
    /\ \E t \in Starts, g \in QuietGaps :
         /\ g > spent
         /\ tx' = t
         /\ clean' = (counter # FrameEdges - 1 /\ spent = 0)
         /\ gpio_irq_handler(g - spent)
    /\ spent' = 0
    /\ UNCHANGED faults

(* A later edge.                                                           *)
NextEdge ==
    /\ ~Idle
    /\ \E g \in GapsNow :
         /\ g > spent
         /\ gpio_irq_handler(g - spent)
    /\ tx' = [tx EXCEPT !.pos = @ + 1]
    /\ spent' = 0
    /\ UNCHANGED <<faults, clean>>

(* An edge the receiver does not see: time passes, the handler does not run. *)
Hidden(t, g) ==
    /\ faults < MaxFaults
    /\ g > spent
    /\ tx' = t
    /\ capture_time_array' = Aged(g - spent)
    /\ faults' = faults + 1
    /\ clean' = FALSE
    /\ spent' = 0
    /\ UNCHANGED <<counter, diff_time_us, event>>

HiddenEdge ==
    \/ Idle /\ \E t \in Starts, g \in QuietGaps : Hidden(t, g)
    \/ ~Idle /\ \E g \in GapsNow : Hidden([tx EXCEPT !.pos = @ + 1], g)

(* A spurious edge g microseconds into the current interval.               *)
SpuriousEdge ==
    /\ faults < MaxFaults
    /\ spent = 0
    /\ \E g \in NoiseGaps :
         /\ \E n \in IF Idle THEN QuietGaps ELSE GapsNow : g < n
         /\ spent' = g
         /\ gpio_irq_handler(g)
    /\ faults' = faults + 1
    /\ clean' = FALSE
    /\ UNCHANGED tx

-------------------------------------------------------------------------------
IrInit ==
    /\ \E w \in Words : tx = [kind |-> "idle", word |-> w, pos |-> 0]
    /\ spent = 0
    /\ faults = 0
    /\ clean = TRUE
    /\ counter = 0
    /\ capture_time_array = [i \in Captures |-> Far]
    /\ diff_time_us = [i \in Diffs |-> 0]
    /\ event = "none"

IrNext == StartEdge \/ NextEdge \/ HiddenEdge \/ SpuriousEdge

IrSpec == IrInit /\ [][IrNext]_irVars

-------------------------------------------------------------------------------
(* Type invariant.  Its bound on counter is what keeps both array accesses *)
(* of the handler inside capture_time_array[35] and diff_time_us[33].      *)
IrTypeOK ==
    /\ tx \in [kind : {"idle", "frame", "repeat"},
               word : [0..NBits-1 -> {0, 1}], pos : 0..FrameEdges]
    /\ tx.pos <= Edges(tx.kind)
    /\ tx.kind # "idle" => tx.pos >= 1
    /\ spent \in Nat
    /\ faults \in 0..MaxFaults
    /\ clean \in BOOLEAN
    /\ counter \in 0..FrameEdges-1
    /\ capture_time_array \in [Captures -> 0..Far]
    /\ diff_time_us \in [Diffs -> 0..Far]
    /\ event \in {"none", "edge", "lead", "repeat", "frame"}

(* A frame sent without a fault is recognised on its last edge, and every  *)
(* bit after the first is measured in the slot of the decoder's array one  *)
(* further on, whatever the receiver was doing before: a lead code in      *)
(* mid-frame realigns it.  The exceptions are in clean: a receiver that is *)
(* one edge short of a frame when the transmission begins takes the first  *)
(* edge for the end of that frame and never times the lead code.           *)
CleanFrameMeasured ==
    (clean /\ tx.kind = "frame" /\ tx.pos = FrameEdges) =>
        /\ event = "frame"
        /\ counter = 0
        /\ \A b \in 1..NBits-1 :
             IF tx.word[b] = 1 THEN IsOne(diff_time_us[b + 1])
                               ELSE IsZero(diff_time_us[b + 1])

(* As long as the light path is faultless the receiver is aligned between  *)
(* transmissions: no sequence of frames and repeat codes, however long,    *)
(* leaves it part way through a frame.                                     *)
FaultFreeAligned == (faults = 0 /\ Idle) => counter = 0

(* A repeat code heard without a fault is recognised and brings the        *)
(* receiver back to the start of a frame, wherever it was; the next frame  *)
(* is then measured from its first edge.                                   *)
CleanRepeatRealigns ==
    (clean /\ tx.kind = "repeat" /\ Idle) => event = "repeat" /\ counter = 0

===============================================================================
