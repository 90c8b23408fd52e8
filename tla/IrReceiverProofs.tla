--------------------------- MODULE IrReceiverProofs ---------------------------
(***************************************************************************)
(* Proofs about IrReceiver, for every frame length, every set of words and *)
(* intervals the assumption allows and every number of faults: the indices *)
(* the handler computes stay inside its arrays, a cleanly heard frame is   *)
(* measured bit for bit, a repeat code realigns the receiver, and without  *)
(* faults it is aligned between transmissions.                             *)
(***************************************************************************)
EXTENDS IrReceiver, TLAPS

(* After the first edge: only its own time stamp is recent.                *)
Began ==
    (clean /\ tx.pos = 1) =>
        /\ counter >= 1
        /\ \A n \in Captures : capture_time_array[n] = IF n = counter - 1 THEN 0 ELSE Far

BitMeasured(b) ==
    IF tx.word[b] = 1 THEN IsOne(diff_time_us[b + 1]) ELSE IsZero(diff_time_us[b + 1])

(* From the lead code on the counter counts the edges of this frame.  The  *)
(* time stamp before the first bit is that of the lead's end or, when the  *)
(* lead code realigned the receiver, one from before it.                   *)
InFrame ==
    (clean /\ tx.kind = "frame" /\ tx.pos \in 2..FrameEdges-1) =>
        /\ counter = tx.pos
        /\ \/ capture_time_array[tx.pos - 1] = 0
           \/ tx.pos = 2 /\ capture_time_array[1] > 13000
        /\ \A b \in 1..tx.pos-3 : BitMeasured(b)

CleanUnspent == clean => spent = 0

FaultFree == faults = 0 => clean /\ (tx.kind = "idle" => counter = 0)

IrInv ==
    /\ IrTypeOK
    /\ Began /\ InFrame /\ CleanUnspent /\ FaultFree
    /\ CleanFrameMeasured /\ CleanRepeatRealigns

-------------------------------------------------------------------------------
(* The intervals of the remote are natural numbers.                        *)
LEMMA GapsAreNat ==
    /\ ZeroGaps \subseteq Nat /\ OneGaps \subseteq Nat /\ LeadGaps \subseteq Nat
    /\ RepeatGaps \subseteq Nat /\ QuietGaps \subseteq Nat /\ NoiseGaps \subseteq Nat
BY ReceiverAssumption DEF ReceiverAssumption

LEMMA GapsNowAreNat ==
    ASSUME IrTypeOK PROVE GapsNow \subseteq Nat
BY GapsAreNat DEF GapsNow, BitGaps

LEMMA SatType == ASSUME NEW t \in Nat PROVE Sat(t) \in 0..Far
BY DEF Sat, Far

LEMMA AgedType ==
    ASSUME IrTypeOK, NEW g \in Nat
    PROVE  Aged(g) \in [Captures -> 0..Far]
<1>1. ASSUME NEW n \in Captures PROVE Sat(capture_time_array[n] + g) \in 0..Far
  <2>1. capture_time_array[n] \in 0..Far
    BY <1>1 DEF IrTypeOK
  <2>2. capture_time_array[n] + g \in Nat
    BY <2>1
  <2> QED BY <2>2, SatType
<1> QED BY <1>1 DEF Aged

(* What one run of the handler leaves behind, wherever it was.             *)
LEMMA HandlerType ==
    ASSUME IrTypeOK, NEW g \in Nat, gpio_irq_handler(g)
    PROVE  /\ counter' \in 0..FrameEdges-1
           /\ capture_time_array' \in [Captures -> 0..Far]
           /\ diff_time_us' \in [Diffs -> 0..Far]
           /\ event' \in {"none", "edge", "lead", "repeat", "frame"}
<1>1. NBits \in Nat /\ NBits >= 2
  BY ReceiverAssumption DEF ReceiverAssumption
<1>2. counter \in 0..NBits+1 /\ counter \in Captures
  BY <1>1 DEF IrTypeOK, FrameEdges, Captures
<1>3. Aged(g) \in [Captures -> 0..Far]
  BY AgedType
<1>4. counter' \in 0..FrameEdges-1
  BY <1>1, <1>2 DEF gpio_irq_handler, Completes, NextCounter, FrameEdges
<1>5. capture_time_array' \in [Captures -> 0..Far]
  <2>1. capture_time_array' = [Aged(g) EXCEPT ![counter] = 0]
    BY DEF gpio_irq_handler
  <2>2. 0 \in 0..Far
    BY DEF Far
  <2> QED BY <1>2, <1>3, <2>1, <2>2
<1>6. diff_time_us' \in [Diffs -> 0..Far]
  <2>1. CASE counter > 0
    <3>1. counter - 1 \in Diffs /\ counter - 1 \in Captures
      BY <2>1, <1>1, <1>2 DEF Diffs, Captures, FrameEdges
    <3>2. Interval(g) \in 0..Far
      BY <3>1, <1>3 DEF Interval
    <3> QED BY <2>1, <3>1, <3>2 DEF gpio_irq_handler, IrTypeOK
  <2>2. CASE ~(counter > 0)
    BY <2>2 DEF gpio_irq_handler, IrTypeOK
  <2> QED BY <2>1, <2>2
<1>7. event' \in {"none", "edge", "lead", "repeat", "frame"}
  BY DEF gpio_irq_handler, Outcome
<1> QED BY <1>4, <1>5, <1>6, <1>7

LEMMA EdgesValues ==
    Edges("frame") = FrameEdges /\ Edges("repeat") = 2 /\ Edges("idle") = 0
BY DEF Edges

LEMMA StartType ==
    ASSUME IrTypeOK, NEW t \in Starts
    PROVE  /\ t \in [kind : {"idle", "frame", "repeat"},
                     word : [0..NBits-1 -> {0, 1}], pos : 0..FrameEdges]
           /\ t.pos <= Edges(t.kind) /\ t.kind # "idle" /\ t.pos = 1
<1>1. NBits \in Nat /\ NBits >= 2 /\ Words \subseteq [0..NBits-1 -> {0, 1}]
  BY ReceiverAssumption DEF ReceiverAssumption
<1> QED BY <1>1, EdgesValues DEF Starts, IrTypeOK, FrameEdges

LEMMA AdvanceType ==
    ASSUME IrTypeOK, ~Idle, tx' = [tx EXCEPT !.pos = @ + 1]
    PROVE  /\ tx' \in [kind : {"idle", "frame", "repeat"},
                       word : [0..NBits-1 -> {0, 1}], pos : 0..FrameEdges]
           /\ tx'.pos <= Edges(tx'.kind)
           /\ tx'.pos = tx.pos + 1 /\ tx'.kind = tx.kind /\ tx'.word = tx.word
           /\ tx.kind # "idle" /\ tx.pos >= 1
<1>1. NBits \in Nat /\ NBits >= 2
  BY ReceiverAssumption DEF ReceiverAssumption
<1>2. tx.pos \in Nat /\ tx.pos < Edges(tx.kind) /\ tx.kind \in {"idle", "frame", "repeat"}
  <2>1. tx.pos # Edges(tx.kind) /\ tx.pos <= Edges(tx.kind) /\ tx.pos \in 0..FrameEdges
        /\ tx.kind \in {"idle", "frame", "repeat"}
    BY DEF IrTypeOK, Idle
  <2>2. Edges(tx.kind) \in Nat
    BY <2>1, <1>1, EdgesValues DEF FrameEdges
  <2> QED BY <2>1, <2>2
<1>3. tx.kind # "idle"
  BY <1>2, EdgesValues
<1>4. tx.pos + 1 \in 0..FrameEdges /\ tx.pos + 1 <= Edges(tx.kind)
  BY <1>1, <1>2, <1>3, EdgesValues DEF FrameEdges
<1>5. tx' = [kind |-> tx.kind, word |-> tx.word, pos |-> tx.pos + 1]
  BY DEF IrTypeOK
<1> QED BY <1>2, <1>3, <1>4, <1>5 DEF IrTypeOK

(* Every step keeps every variable in its range; in particular counter     *)
(* never leaves the bounds of the handler's two arrays.                    *)
LEMMA TypeStep == IrTypeOK /\ [IrNext]_irVars => IrTypeOK'
<1> SUFFICES ASSUME IrTypeOK, [IrNext]_irVars PROVE IrTypeOK'
  OBVIOUS
<1>1. CASE StartEdge
  <2>1. PICK t \in Starts, g \in QuietGaps :
          g > spent /\ tx' = t /\ clean' = (counter # FrameEdges - 1 /\ spent = 0)
          /\ gpio_irq_handler(g - spent)
    BY <1>1 DEF StartEdge
  <2>2. g - spent \in Nat
    BY <2>1, GapsAreNat DEF IrTypeOK
  <2>3. spent' = 0 /\ faults' = faults
    BY <1>1 DEF StartEdge
  <2>4. clean' \in BOOLEAN
    BY <2>1
  <2>5. /\ counter' \in 0..FrameEdges-1
        /\ capture_time_array' \in [Captures -> 0..Far]
        /\ diff_time_us' \in [Diffs -> 0..Far]
        /\ event' \in {"none", "edge", "lead", "repeat", "frame"}
    BY <2>1, <2>2, HandlerType
  <2>6. spent' \in Nat /\ faults' \in 0..MaxFaults
    BY <2>3 DEF IrTypeOK
  <2> QED BY <2>1, <2>4, <2>5, <2>6, StartType DEF IrTypeOK
<1>2. CASE NextEdge
  <2>1. PICK g \in GapsNow : g > spent /\ gpio_irq_handler(g - spent)
    BY <1>2 DEF NextEdge
  <2>2. g - spent \in Nat
    BY <2>1, GapsNowAreNat DEF IrTypeOK
  <2>3. ~Idle /\ tx' = [tx EXCEPT !.pos = @ + 1] /\ spent' = 0 /\ faults' = faults
        /\ clean' = clean
    BY <1>2 DEF NextEdge
  <2>4. /\ counter' \in 0..FrameEdges-1
        /\ capture_time_array' \in [Captures -> 0..Far]
        /\ diff_time_us' \in [Diffs -> 0..Far]
        /\ event' \in {"none", "edge", "lead", "repeat", "frame"}
    BY <2>1, <2>2, HandlerType
  <2>5. /\ tx' \in [kind : {"idle", "frame", "repeat"},
                    word : [0..NBits-1 -> {0, 1}], pos : 0..FrameEdges]
        /\ tx'.pos <= Edges(tx'.kind) /\ tx'.pos = tx.pos + 1
        /\ tx.pos \in 0..FrameEdges
    BY <2>3, AdvanceType DEF IrTypeOK
  <2>6. tx'.pos >= 1
    BY <2>5
  <2>7. spent' \in Nat /\ faults' \in 0..MaxFaults /\ clean' \in BOOLEAN
    BY <2>3 DEF IrTypeOK
  <2> QED BY <2>4, <2>5, <2>6, <2>7 DEF IrTypeOK
<1>3. CASE HiddenEdge
  <2>1. \/ Idle /\ \E t \in Starts, g \in QuietGaps : Hidden(t, g)
        \/ ~Idle /\ \E g \in GapsNow : Hidden([tx EXCEPT !.pos = @ + 1], g)
    BY <1>3 DEF HiddenEdge
  <2>2. ASSUME NEW t, NEW g \in Nat, Hidden(t, g)
        PROVE  /\ capture_time_array' \in [Captures -> 0..Far]
               /\ spent' \in Nat /\ faults' \in 0..MaxFaults /\ clean' \in BOOLEAN
               /\ counter' = counter /\ diff_time_us' = diff_time_us /\ event' = event
               /\ tx' = t
    <3>1. g - spent \in Nat
      BY <2>2 DEF Hidden, IrTypeOK
    <3>2. capture_time_array' \in [Captures -> 0..Far]
      <4>1. capture_time_array' = Aged(g - spent)
        BY <2>2 DEF Hidden
      <4> QED BY <4>1, <3>1, AgedType
    <3>3. spent' \in Nat /\ faults' \in 0..MaxFaults /\ clean' \in BOOLEAN
      <4>1. spent' = 0 /\ faults < MaxFaults /\ faults' = faults + 1 /\ clean' = FALSE
        BY <2>2 DEF Hidden
      <4>2. faults \in 0..MaxFaults /\ MaxFaults \in Nat
        BY ReceiverAssumption DEF IrTypeOK, ReceiverAssumption
      <4>3. spent' \in Nat /\ faults' \in 0..MaxFaults
        BY <4>1, <4>2
      <4>4. clean' \in BOOLEAN
        BY <4>1
      <4> QED BY <4>3, <4>4
    <3> QED BY <2>2, <3>2, <3>3 DEF Hidden
  <2>3. CASE Idle /\ \E t \in Starts, g \in QuietGaps : Hidden(t, g)
    BY <2>2, <2>3, GapsAreNat, StartType DEF IrTypeOK
  <2>4. CASE ~Idle /\ \E g \in GapsNow : Hidden([tx EXCEPT !.pos = @ + 1], g)
    BY <2>2, <2>4, GapsNowAreNat, AdvanceType DEF IrTypeOK
  <2> QED BY <2>1, <2>3, <2>4
<1>4. CASE SpuriousEdge
  <2>1. PICK g \in NoiseGaps : spent' = g /\ gpio_irq_handler(g)
    BY <1>4 DEF SpuriousEdge
  <2>2. g \in Nat
    BY GapsAreNat
  <2>3. faults' \in 0..MaxFaults /\ clean' = FALSE /\ tx' = tx
    BY <1>4, ReceiverAssumption DEF SpuriousEdge, IrTypeOK, ReceiverAssumption
  <2> QED BY <2>1, <2>2, <2>3, HandlerType DEF IrTypeOK
<1>5. CASE UNCHANGED irVars
  BY <1>5 DEF irVars, air, receiver, IrTypeOK
<1> QED BY <1>1, <1>2, <1>3, <1>4, <1>5 DEF IrNext

LEMMA TypeInit == IrInit => IrTypeOK
<1> SUFFICES ASSUME IrInit PROVE IrTypeOK
  OBVIOUS
<1>1. NBits \in Nat /\ NBits >= 2 /\ Words \subseteq [0..NBits-1 -> {0, 1}]
      /\ MaxFaults \in Nat
  BY ReceiverAssumption DEF ReceiverAssumption
<1> QED BY <1>1, EdgesValues
        DEF IrInit, IrTypeOK, FrameEdges, Captures, Diffs, Far

(* The handler's index into capture_time_array and diff_time_us is always  *)
(* in range (counter of gpio_irq_handler), with the types of the rest.     *)
THEOREM ReceiverType == IrSpec => []IrTypeOK
BY TypeInit, TypeStep, PTL DEF IrSpec

-------------------------------------------------------------------------------
(* The receiver's alignment.                                               *)

LEMMA Sizes == NBits \in Nat /\ NBits >= 2 /\ FrameEdges = NBits + 2 /\ Far = 14000
BY ReceiverAssumption DEF ReceiverAssumption, FrameEdges, Far

LEMMA ClassBounds ==
    /\ ZeroGaps \subseteq 1001..1499 /\ OneGaps \subseteq 2001..2499
    /\ LeadGaps \subseteq 13001..13999 /\ RepeatGaps \subseteq 11001..11999
BY ReceiverAssumption DEF ReceiverAssumption

(* Arithmetic of saturated ages.                                           *)
LEMMA RangeIsNat == ASSUME NEW x \in 0..Far PROVE x \in Nat
OBVIOUS

LEMMA SatSilence == ASSUME NEW c \in 0..Far, NEW g \in Nat, g >= Far PROVE Sat(c + g) = Far
BY DEF Sat, Far

LEMMA SatLong ==
    ASSUME NEW c \in 0..Far, NEW g \in Nat, g > 13000 PROVE Sat(c + g) > 13000
BY DEF Sat, Far

LEMMA SatPassed ==
    ASSUME NEW c \in 0..Far, NEW g \in Nat, c > 13000, g > 1000 PROVE Sat(c + g) = Far
BY DEF Sat, Far

LEMMA SatFresh ==
    ASSUME NEW c, c = 0, NEW g \in Nat, g < Far PROVE Sat(c + g) = g
BY DEF Sat, Far

LEMMA SumIsNat ==
    ASSUME IrTypeOK, NEW n \in Captures, NEW g \in Nat
    PROVE  /\ capture_time_array[n] \in 0..Far
           /\ capture_time_array[n] + g \in Nat
           /\ Aged(g)[n] = Sat(capture_time_array[n] + g)
<1>1. capture_time_array[n] \in 0..Far
  BY DEF IrTypeOK
<1>2. capture_time_array[n] + g \in Nat
  BY <1>1
<1>3. Aged(g)[n] = Sat(capture_time_array[n] + g)
  BY DEF Aged
<1> QED BY <1>1, <1>2, <1>3

LEMMA IntervalValue ==
    ASSUME IrTypeOK, NEW g \in Nat, counter > 0
    PROVE  /\ counter - 1 \in Captures /\ counter \in Captures
           /\ Interval(g) = Sat(capture_time_array[counter - 1] + g)
BY Sizes DEF IrTypeOK, Interval, Aged, Captures

(* An interval outside both classes just counts the edge.                  *)
LEMMA PlainEdge ==
    ASSUME IrTypeOK, NEW g \in Nat, gpio_irq_handler(g),
           counter > 0 => Interval(g) < 11000 \/ Interval(g) >= Far
    PROVE  /\ counter' = IF counter + 1 = FrameEdges THEN 0 ELSE counter + 1
           /\ event' = IF counter + 1 = FrameEdges THEN "frame" ELSE "edge"
<1>1. counter \in Nat
  BY Sizes DEF IrTypeOK
<1>2. counter > 0 => Interval(g) \in Nat
  <2> SUFFICES ASSUME counter > 0 PROVE Interval(g) \in Nat
    OBVIOUS
  <2>1. Sat(capture_time_array[counter - 1] + g) \in 0..Far
    <3>1. counter - 1 \in Captures
      BY IntervalValue
    <3> QED BY <3>1, SumIsNat, SatType
  <2>2. Sat(capture_time_array[counter - 1] + g) \in Nat
    BY <2>1, RangeIsNat
  <2> QED BY <2>2, IntervalValue
<1>3. ~IsLead(g) /\ ~IsRepeat(g)
  BY <1>1, <1>2, Sizes DEF IsLead, IsRepeat
<1>4. NextCounter(g) = counter + 1
  BY <1>3 DEF NextCounter
<1> QED BY <1>3, <1>4 DEF gpio_irq_handler, Completes, Outcome

(* After a long silence every old time stamp is out of the classes.        *)
LEMMA SilenceAges ==
    ASSUME IrTypeOK, NEW g \in QuietGaps
    PROVE  /\ g \in Nat /\ g >= Far
           /\ \A n \in Captures : Aged(g)[n] = Far
<1>1. g \in Nat /\ g >= Far
  BY ReceiverAssumption DEF ReceiverAssumption
<1>2. ASSUME NEW n \in Captures PROVE Aged(g)[n] = Far
  <2>1. capture_time_array[n] \in 0..Far
    BY DEF IrTypeOK
  <2>2. Sat(capture_time_array[n] + g) = Far
    BY <1>1, <2>1, SatSilence
  <2> QED BY <2>2 DEF Aged
<1> QED BY <1>1, <1>2

LEMMA StartBegins ==
    ASSUME IrTypeOK, NEW g \in QuietGaps, gpio_irq_handler(g), counter # FrameEdges - 1
    PROVE  /\ counter' >= 1
           /\ \A n \in Captures :
                 capture_time_array'[n] = IF n = counter' - 1 THEN 0 ELSE Far
<1>1. g \in Nat /\ \A n \in Captures : Aged(g)[n] = Far
  BY SilenceAges
<1>2. counter \in 0..FrameEdges-1 /\ counter \in Captures
  BY Sizes DEF IrTypeOK, Captures
<1>3. counter > 0 => Interval(g) >= Far
  BY <1>1, IntervalValue, Sizes DEF Interval
<1>4. counter' = counter + 1
  BY <1>1, <1>2, <1>3, PlainEdge, Sizes
<1>5. capture_time_array' = [Aged(g) EXCEPT ![counter] = 0]
  BY DEF gpio_irq_handler
<1>6. \A n \in Captures : capture_time_array'[n] = IF n = counter THEN 0 ELSE Aged(g)[n]
  BY <1>2, <1>5 DEF Aged
<1> QED BY <1>1, <1>2, <1>4, <1>6, Sizes

(* Without faults the receiver is at the start of a frame when idle.       *)
LEMMA AlignedWhenIdle == IrInv => FaultFreeAligned
BY EdgesValues DEF IrInv, IrTypeOK, FaultFree, CleanFrameMeasured, CleanRepeatRealigns,
       FaultFreeAligned, Idle

LEMMA StartStep == ASSUME IrInv, StartEdge, IrTypeOK' PROVE IrInv'
<1>1. PICK t \in Starts, g \in QuietGaps :
        g > spent /\ tx' = t /\ clean' = (counter # FrameEdges - 1 /\ spent = 0)
        /\ gpio_irq_handler(g - spent)
  BY DEF StartEdge
<1>2. IrTypeOK
  BY DEF IrInv
<1>3. tx'.pos = 1 /\ tx'.kind # "idle" /\ spent' = 0 /\ faults' = faults /\ Idle
  BY <1>1, <1>2, StartType DEF StartEdge
<1>4. Began'
  <2> SUFFICES ASSUME clean'
               PROVE  /\ counter' >= 1
                      /\ \A n \in Captures :
                            capture_time_array'[n] = IF n = counter' - 1 THEN 0 ELSE Far
    BY DEF Began, Captures, Far, FrameEdges
  <2>1. counter # FrameEdges - 1 /\ spent = 0
    BY <1>1
  <2>2. g \in Nat
    BY <1>2, SilenceAges
  <2>3. gpio_irq_handler(g)
    <3>1. g - spent = g
      BY <2>1, <2>2
    <3> QED BY <1>1, <3>1
  <2> QED BY <1>2, <2>1, <2>3, StartBegins
<1>5. InFrame'
  BY <1>3 DEF InFrame
<1>6. CleanUnspent'
  BY <1>3 DEF CleanUnspent
<1>7. FaultFree'
  <2>1. ASSUME faults = 0 PROVE clean'
    <3>1. clean /\ spent = 0
      BY <2>1 DEF IrInv, FaultFree, CleanUnspent
    <3>2. counter = 0
      BY <2>1, <1>3, AlignedWhenIdle DEF FaultFreeAligned
    <3>3. counter # FrameEdges - 1
      BY <3>2, Sizes
    <3> QED BY <1>1, <3>1, <3>3
  <2> QED BY <1>3, <2>1 DEF FaultFree
<1>8. CleanFrameMeasured'
  BY <1>3, Sizes DEF CleanFrameMeasured, FrameEdges
<1>9. CleanRepeatRealigns'
  <2>1. tx'.kind = "repeat" => ~Idle'
    BY <1>3, EdgesValues DEF Idle, Edges
  <2> QED BY <2>1 DEF CleanRepeatRealigns
<1> QED BY <1>4, <1>5, <1>6, <1>7, <1>8, <1>9 DEF IrInv

(* The interval that ends a lead code or a repeat code, after a clean      *)
(* first edge.                                                             *)
LEMMA SecondInterval ==
    ASSUME IrTypeOK, Began, clean, tx.pos = 1, NEW g \in Nat, g < Far
    PROVE  counter > 0 /\ Interval(g) = g
<1>1. counter >= 1 /\ counter \in Nat
  BY Sizes DEF Began, IrTypeOK
<1>2. capture_time_array[counter - 1] = 0
  BY <1>1, IntervalValue DEF Began
<1> QED BY <1>1, <1>2, IntervalValue, Sizes DEF Sat

LEMMA LeadStep ==
    ASSUME IrInv, clean, tx.kind = "frame", tx.pos = 1,
           NEW g \in LeadGaps, gpio_irq_handler(g)
    PROVE  /\ counter' = 2
           /\ capture_time_array'[1] = 0 \/ capture_time_array'[1] > 13000
<1>1. g \in 13001..13999 /\ g \in Nat
  BY ReceiverAssumption DEF ReceiverAssumption
<1>2. IrTypeOK /\ Began
  BY DEF IrInv
<1>3. counter > 0 /\ Interval(g) = g
  BY <1>1, <1>2, SecondInterval, Sizes
<1>4. IsLead(g)
  BY <1>1, <1>3 DEF IsLead
<1>5. counter' = 2
  BY <1>4, Sizes DEF gpio_irq_handler, Completes, NextCounter
<1>6. 1 \in Captures /\ counter \in Captures
  BY <1>1, <1>2, <1>3, IntervalValue, Sizes DEF Captures
<1>7. capture_time_array'[1] = IF counter = 1 THEN 0 ELSE Aged(g)[1]
  BY <1>6 DEF gpio_irq_handler, Aged
<1>8. Aged(g)[1] > 13000
  <2>1. capture_time_array[1] \in 0..Far
    BY <1>2, <1>6 DEF IrTypeOK
  <2>2. g > 13000
    BY <1>1
  <2>3. Sat(capture_time_array[1] + g) > 13000
    BY <1>1, <2>1, <2>2, SatLong
  <2> QED BY <1>6, <2>3 DEF Aged
<1> QED BY <1>5, <1>7, <1>8

LEMMA RepeatStep ==
    ASSUME IrInv, clean, tx.kind = "repeat", tx.pos = 1,
           NEW g \in RepeatGaps, gpio_irq_handler(g)
    PROVE  counter' = 0 /\ event' = "repeat"
<1>1. g \in 11001..11999 /\ g \in Nat
  BY ReceiverAssumption DEF ReceiverAssumption
<1>2. IrTypeOK /\ Began
  BY DEF IrInv
<1>3. counter > 0 /\ Interval(g) = g
  BY <1>1, <1>2, SecondInterval, Sizes
<1>4. IsRepeat(g) /\ ~IsLead(g)
  BY <1>1, <1>3 DEF IsRepeat, IsLead
<1> QED BY <1>4, Sizes DEF gpio_irq_handler, Completes, NextCounter, Outcome

LEMMA BitStep ==
    ASSUME IrInv, clean, tx.kind = "frame", tx.pos \in 2..FrameEdges-1,
           NEW g \in BitGaps(tx.word[tx.pos - 2]), gpio_irq_handler(g)
    PROVE  /\ counter' = IF tx.pos + 1 = FrameEdges THEN 0 ELSE tx.pos + 1
           /\ event' = IF tx.pos + 1 = FrameEdges THEN "frame" ELSE "edge"
           /\ capture_time_array'[tx.pos] = 0
           /\ \A b \in 1..tx.pos-2 :
                 IF tx.word[b] = 1 THEN IsOne(diff_time_us'[b + 1])
                                   ELSE IsZero(diff_time_us'[b + 1])
<1> DEFINE p == tx.pos
           bit == tx.word[p - 2]
<1>1. IrTypeOK /\ InFrame /\ p \in Nat /\ p >= 2 /\ p <= NBits + 1
  BY Sizes DEF IrInv
<1>2. /\ counter = p /\ counter > 0
      /\ capture_time_array[p - 1] = 0 \/ (p = 2 /\ capture_time_array[1] > 13000)
      /\ \A b \in 1..p-3 : BitMeasured(b)
  BY <1>1 DEF InFrame
<1>3. /\ bit = 1 => g \in 2001..2499
      /\ bit # 1 => g \in 1001..1499
      /\ g \in 1001..2499 /\ g \in Nat
  <2>1. CASE bit = 1
    <3>1. g \in OneGaps
      BY <2>1 DEF BitGaps
    <3> QED BY <2>1, <3>1, ClassBounds
  <2>2. CASE bit # 1
    <3>1. g \in ZeroGaps
      BY <2>2 DEF BitGaps
    <3> QED BY <2>2, <3>1, ClassBounds
  <2> QED BY <2>1, <2>2
<1>4. p - 1 \in Captures /\ p \in Captures /\ capture_time_array[p - 1] \in 0..Far
      /\ Interval(g) = Sat(capture_time_array[p - 1] + g)
  BY <1>1, <1>2, <1>3, IntervalValue DEF IrTypeOK
<1>5. Interval(g) = g \/ (p = 2 /\ Interval(g) = Far)
  <2>1. CASE capture_time_array[p - 1] = 0
    <3>1. g < Far
      BY <1>3 DEF Far
    <3>2. Sat(capture_time_array[p - 1] + g) = g
      BY <1>3, <2>1, <3>1, SatFresh
    <3> QED BY <1>4, <3>2
  <2>2. CASE p = 2 /\ capture_time_array[1] > 13000
    <3>1. p - 1 = 1
      BY <2>2
    <3>2. capture_time_array[p - 1] > 13000
      BY <2>2, <3>1
    <3>3. capture_time_array[p - 1] \in 0..Far
      BY <1>4
    <3>4. g > 1000
      BY <1>3
    <3>5. Sat(capture_time_array[p - 1] + g) = Far
      BY <1>3, <3>2, <3>3, <3>4, SatPassed
    <3> QED BY <1>4, <2>2, <3>5
  <2> QED BY <1>2, <2>1, <2>2
<1>6. Interval(g) < 11000 \/ Interval(g) >= Far
  BY <1>3, <1>5, Sizes
<1>7. /\ counter' = IF p + 1 = FrameEdges THEN 0 ELSE p + 1
      /\ event' = IF p + 1 = FrameEdges THEN "frame" ELSE "edge"
  BY <1>1, <1>2, <1>3, <1>6, PlainEdge
<1>8. capture_time_array'[p] = 0
  BY <1>2, <1>4 DEF gpio_irq_handler, Aged
<1>9. diff_time_us' = [diff_time_us EXCEPT ![p - 1] = Interval(g)]
  BY <1>2 DEF gpio_irq_handler
<1>10. p - 1 \in Diffs
  BY <1>1, Sizes DEF Diffs
<1>11. ASSUME NEW b \in 1..p-2
       PROVE  IF tx.word[b] = 1 THEN IsOne(diff_time_us'[b + 1])
                                ELSE IsZero(diff_time_us'[b + 1])
  <2>1. CASE b = p - 2
    <3>1. p # 2 /\ b + 1 = p - 1
      BY <1>1, <2>1
    <3>2. diff_time_us'[b + 1] = g
      BY <1>1, <1>5, <1>9, <1>10, <3>1 DEF IrTypeOK
    <3> QED BY <1>3, <2>1, <3>2 DEF IsOne, IsZero
  <2>2. CASE b # p - 2
    <3>1. b \in 1..p-3 /\ b + 1 # p - 1 /\ b + 1 \in Diffs
      BY <1>1, <2>2, Sizes DEF Diffs
    <3>2. diff_time_us'[b + 1] = diff_time_us[b + 1]
      BY <1>1, <1>9, <3>1 DEF IrTypeOK
    <3> QED BY <1>2, <3>1, <3>2 DEF BitMeasured
  <2> QED BY <2>1, <2>2
<1> QED BY <1>7, <1>8, <1>11

LEMMA NextStep == ASSUME IrInv, NextEdge, IrTypeOK' PROVE IrInv'
<1>1. PICK g \in GapsNow : g > spent /\ gpio_irq_handler(g - spent)
  BY DEF NextEdge
<1>2. IrTypeOK /\ clean' = clean /\ faults' = faults /\ spent' = 0 /\ ~Idle
      /\ tx' = [tx EXCEPT !.pos = @ + 1]
  BY DEF IrInv, NextEdge
<1>3. /\ tx'.pos = tx.pos + 1 /\ tx'.kind = tx.kind /\ tx'.word = tx.word
      /\ tx.kind \in {"frame", "repeat"} /\ tx.pos >= 1 /\ tx.pos \in Nat
  <2>1. tx.pos \in Nat /\ tx.kind \in {"idle", "frame", "repeat"}
    <3>1. tx.pos \in 0..FrameEdges /\ tx.kind \in {"idle", "frame", "repeat"}
      BY <1>2 DEF IrTypeOK
    <3> QED BY <3>1, Sizes
  <2> QED BY <1>2, <2>1, AdvanceType
<1>4. Began'
  <2>1. tx'.pos # 1
    BY <1>3
  <2> QED BY <2>1 DEF Began
<1>5. CleanUnspent'
  BY <1>2 DEF CleanUnspent
<1>6. FaultFree'
  BY <1>2, <1>3 DEF FaultFree, IrInv
<1>7. InFrame' /\ CleanFrameMeasured' /\ CleanRepeatRealigns'
  <2>1. CASE ~clean
    BY <1>2, <2>1 DEF InFrame, CleanFrameMeasured, CleanRepeatRealigns
  <2>2. CASE clean
    <3>1. gpio_irq_handler(g)
      <4>1. spent = 0
        BY <2>2 DEF IrInv, CleanUnspent
      <4>2. g - spent = g
        BY <4>1, <1>1, <1>2, GapsNowAreNat
      <4> QED BY <1>1, <4>2
    <3>2. CASE tx.kind = "repeat"
      <4>1. tx.pos = 1
        BY <1>2, <1>3, <3>2, EdgesValues DEF Idle, IrTypeOK
      <4>2. g \in RepeatGaps
        BY <3>2, <4>1 DEF GapsNow
      <4>3. counter' = 0 /\ event' = "repeat"
        BY <2>2, <3>1, <3>2, <4>1, <4>2, RepeatStep
      <4> QED BY <1>3, <3>2, <4>3 DEF InFrame, CleanFrameMeasured, CleanRepeatRealigns
    <3>3. CASE tx.kind = "frame" /\ tx.pos = 1
      <4>1. g \in LeadGaps
        BY <3>3 DEF GapsNow
      <4>2. counter' = 2 /\ (capture_time_array'[1] = 0 \/ capture_time_array'[1] > 13000)
        BY <2>2, <3>1, <3>3, <4>1, LeadStep
      <4>3. tx'.pos = 2 /\ tx'.kind = "frame"
        BY <1>3, <3>3
      <4>4. InFrame'
        <5>1. capture_time_array'[tx'.pos - 1] = capture_time_array'[1]
          BY <4>3
        <5>2. \A b \in 1..tx'.pos-3 : BitMeasured(b)'
          BY <4>3
        <5> QED BY <4>2, <4>3, <5>1, <5>2 DEF InFrame
      <4>5. tx'.pos # FrameEdges
        BY <4>3, Sizes
      <4> QED BY <4>3, <4>4, <4>5 DEF CleanFrameMeasured, CleanRepeatRealigns, FrameEdges
    <3>4. CASE tx.kind = "frame" /\ tx.pos # 1
      <4>1. tx.pos \in 2..FrameEdges-1
        <5>1. tx.pos # FrameEdges /\ tx.pos <= FrameEdges
          BY <1>2, <3>4, EdgesValues DEF Idle, IrTypeOK
        <5> QED BY <1>3, <3>4, <5>1, Sizes
      <4>2. g \in BitGaps(tx.word[tx.pos - 2])
        BY <3>4 DEF GapsNow
      <4>3. /\ counter' = IF tx.pos + 1 = FrameEdges THEN 0 ELSE tx.pos + 1
            /\ event' = IF tx.pos + 1 = FrameEdges THEN "frame" ELSE "edge"
            /\ capture_time_array'[tx.pos] = 0
            /\ \A b \in 1..tx.pos-2 :
                  IF tx.word[b] = 1 THEN IsOne(diff_time_us'[b + 1])
                                    ELSE IsZero(diff_time_us'[b + 1])
        BY <2>2, <3>1, <3>4, <4>1, <4>2, BitStep
      <4>4. InFrame'
        <5> SUFFICES ASSUME tx'.pos \in 2..FrameEdges-1
                     PROVE  /\ counter' = tx'.pos
                            /\ capture_time_array'[tx'.pos - 1] = 0
                            /\ \A b \in 1..tx'.pos-3 : BitMeasured(b)'
          BY DEF InFrame, FrameEdges
        <5>1. tx.pos + 1 # FrameEdges
          BY <1>3, Sizes
        <5>2. counter' = tx'.pos
          BY <1>3, <4>3, <5>1
        <5>3. tx'.pos - 1 = tx.pos /\ tx'.pos - 3 = tx.pos - 2
          BY <1>3
        <5>4. ASSUME NEW b \in 1..tx'.pos-3 PROVE BitMeasured(b)'
          BY <1>3, <4>3, <5>3 DEF BitMeasured
        <5> QED BY <4>3, <5>2, <5>3, <5>4
      <4>5. CleanFrameMeasured'
        <5> SUFFICES ASSUME tx'.pos = FrameEdges
                     PROVE  /\ event' = "frame" /\ counter' = 0
                            /\ \A b \in 1..NBits-1 :
                                  IF tx'.word[b] = 1 THEN IsOne(diff_time_us'[b + 1])
                                                     ELSE IsZero(diff_time_us'[b + 1])
          BY DEF CleanFrameMeasured, FrameEdges, IsOne, IsZero
        <5>1. tx.pos + 1 = FrameEdges /\ tx.pos - 2 = NBits - 1
          <6>1. tx.pos + 1 = FrameEdges /\ tx.pos \in Nat
            BY <1>3
          <6> QED BY <6>1, Sizes
        <5> QED BY <1>3, <4>3, <5>1
      <4>6. CleanRepeatRealigns'
        BY <1>3, <3>4 DEF CleanRepeatRealigns
      <4> QED BY <4>4, <4>5, <4>6
    <3> QED BY <1>3, <3>2, <3>3, <3>4
  <2> QED BY <2>1, <2>2
<1> QED BY <1>4, <1>5, <1>6, <1>7 DEF IrInv

(* A fault makes the transmission unclean, so nothing is claimed of it.    *)
LEMMA FaultStep ==
    ASSUME IrInv, HiddenEdge \/ SpuriousEdge, IrTypeOK' PROVE IrInv'
<1>1. clean' = FALSE /\ faults' = faults + 1
  BY DEF HiddenEdge, Hidden, SpuriousEdge
<1>2. faults' # 0
  <2>1. faults \in 0..MaxFaults /\ MaxFaults \in Nat
    BY ReceiverAssumption DEF IrInv, IrTypeOK, ReceiverAssumption
  <2>2. faults' = faults + 1
    BY <1>1
  <2> QED BY <2>1, <2>2
<1>3. ~clean'
  BY <1>1
<1>4. Began' /\ InFrame' /\ CleanUnspent'
  BY <1>3 DEF Began, InFrame, CleanUnspent
<1>5. FaultFree'
  BY <1>2 DEF FaultFree
<1>6. CleanFrameMeasured' /\ CleanRepeatRealigns'
  BY <1>3 DEF CleanFrameMeasured, CleanRepeatRealigns
<1> QED BY <1>4, <1>5, <1>6 DEF IrInv

LEMMA InvStep == IrInv /\ [IrNext]_irVars => IrInv'
<1> SUFFICES ASSUME IrInv, [IrNext]_irVars PROVE IrInv'
  OBVIOUS
<1>1. IrTypeOK'
  BY TypeStep DEF IrInv
<1>2. CASE StartEdge
  BY <1>1, <1>2, StartStep
<1>3. CASE NextEdge
  BY <1>1, <1>3, NextStep
<1>4. CASE HiddenEdge \/ SpuriousEdge
  BY <1>1, <1>4, FaultStep
<1>5. CASE UNCHANGED irVars
  <2>1. /\ tx' = tx /\ spent' = spent /\ faults' = faults /\ clean' = clean
        /\ counter' = counter /\ capture_time_array' = capture_time_array
        /\ diff_time_us' = diff_time_us /\ event' = event
    BY <1>5 DEF irVars, air, receiver
  <2>2. Began'
    BY <2>1 DEF IrInv, Began, Captures, FrameEdges, Far
  <2>3. InFrame'
    BY <2>1 DEF IrInv, InFrame, BitMeasured, FrameEdges, IsOne, IsZero
  <2>4. CleanUnspent' /\ FaultFree'
    BY <2>1 DEF IrInv, CleanUnspent, FaultFree
  <2>5. CleanFrameMeasured'
    BY <2>1 DEF IrInv, CleanFrameMeasured, FrameEdges, IsOne, IsZero
  <2>6. CleanRepeatRealigns'
    BY <2>1 DEF IrInv, CleanRepeatRealigns, Idle, Edges, FrameEdges
  <2> QED BY <1>1, <2>2, <2>3, <2>4, <2>5, <2>6 DEF IrInv
<1> QED BY <1>2, <1>3, <1>4, <1>5 DEF IrNext

LEMMA InvInit == IrInit => IrInv
<1> SUFFICES ASSUME IrInit PROVE IrInv
  OBVIOUS
<1>1. IrTypeOK
  BY TypeInit
<1>2. tx.pos = 0 /\ tx.kind = "idle" /\ clean = TRUE /\ spent = 0 /\ counter = 0
  BY DEF IrInit
<1>3. Began
  BY <1>2 DEF Began
<1>4. InFrame /\ CleanFrameMeasured /\ CleanRepeatRealigns
  BY <1>2 DEF InFrame, CleanFrameMeasured, CleanRepeatRealigns
<1>5. CleanUnspent /\ FaultFree
  BY <1>2 DEF CleanUnspent, FaultFree
<1> QED BY <1>1, <1>3, <1>4, <1>5 DEF IrInv

LEMMA ReceiverInvariant == IrSpec => []IrInv
BY InvInit, InvStep, PTL DEF IrSpec

(* A frame heard without a fault is announced on its last edge with every  *)
(* bit measured in its slot (gpio_irq_handler).                            *)
THEOREM FramesMeasured == IrSpec => []CleanFrameMeasured
<1>1. IrInv => CleanFrameMeasured
  BY DEF IrInv
<1> QED BY <1>1, ReceiverInvariant, PTL

(* Without faults no sequence of frames and repeat codes misaligns the     *)
(* receiver (counter is 0 between transmissions).                          *)
THEOREM NeverMisaligned == IrSpec => []FaultFreeAligned
BY AlignedWhenIdle, ReceiverInvariant, PTL

(* A clean repeat code brings the receiver back to the start of a frame    *)
(* (the counter = -1 branch of gpio_irq_handler).                          *)
THEOREM RepeatsRealign == IrSpec => []CleanRepeatRealigns
<1>1. IrInv => CleanRepeatRealigns
  BY DEF IrInv
<1> QED BY <1>1, ReceiverInvariant, PTL
===============================================================================
