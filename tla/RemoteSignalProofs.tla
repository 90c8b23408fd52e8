-------------------------- MODULE RemoteSignalProofs --------------------------
(***************************************************************************)
(* Proofs about the remote-controller drivers as a whole: the decoder      *)
(* reports the key that was pressed, and the flag is a mailbox.            *)
(***************************************************************************)
EXTENDS RemoteSignal, IrReceiverProofs

BitWords == [0..NBits-1 -> {0, 1}]

(* The intervals in the slots the decoder classifies stand for the word.   *)
Heard(word) ==
    \A b \in 2..NBits-1 : IF word[b - 1] = 1 THEN IsOne(diff_time_us[b])
                                             ELSE IsZero(diff_time_us[b])
CleanHeard ==
    (clean /\ tx.kind = "frame" /\ tx.pos = FrameEdges) =>
        tx.word \in BitWords /\ Heard(tx.word)

(* The types of the variables RemoteSignal adds, as far as they matter.    *)
ThreadOK ==
    /\ design \in Designs
    /\ wait_queue_flag \in {0, 1}
    /\ wpc \in {"wait", "decode", "send", "clear"}
    /\ i \in 0..NBits
    /\ bit_array \in [Bits -> {0, 1}]
    /\ ~design.thread => wpc = "wait" /\ wait_queue_flag = 0
    /\ wpc \in {"decode", "send", "clear"} => wait_queue_flag = 1

(* While a key is promised the intervals it was heard in are still there,  *)
(* and the thread has read the bits below i right.  The design without a   *)
(* thread has reported it at once.                                         *)
Pending(word) ==
    /\ told = KeyOfWord(word)
    /\ Heard(word)
    /\ wpc = "wait" => wait_queue_flag = 1
    /\ wpc = "decode" => \A b \in 2..NBits-1 : b < i => bit_array[b] = word[b - 1]
Promise ==
    told # Unknown =>
        /\ design.thread /\ wpc \in {"wait", "decode"} => \E word \in BitWords : Pending(word)
        /\ ~design.thread => told = Kept \/ output = told

RemoteInv == ThreadOK /\ Promise

-------------------------------------------------------------------------------
(* Only the window of the array matters for the key.                       *)
LEMMA KeyFromWindow ==
  ASSUME NEW f, NEW word \in BitWords, \A b \in 2..NBits-1 : f[b] = word[b - 1]
  PROVE  KeyOf(f) = KeyOfWord(word)
<1> DEFINE g == [b \in WindowLo..WindowHi |-> word[b - 1]]
<1>1. \A b \in WindowLo..WindowHi : f[b] = g[b]
  <2> TAKE b \in WindowLo..WindowHi
  <2>1. b \in 2..NBits-1
    BY ReceiverAssumption, DecodeAssumption, SMT
  <2> QED
    BY <2>1
<1>2. [b \in WindowLo..WindowHi |-> f[b]] = [b \in WindowLo..WindowHi |-> g[b]]
  BY <1>1, Zenon
<1>3. convertBinaryToHex(f) = convertBinaryToHex(g)
  BY <1>2, Zenon DEF convertBinaryToHex
<1>4. KeyOf(f) = KeyOf(g)
  BY <1>3, Zenon DEF KeyOf
<1> QED
  BY <1>4, Zenon DEF KeyOfWord

(* An interval of a bit's class decodes to that bit, whatever the array    *)
(* held.                                                                   *)
LEMMA ClassDecodes ==
  ASSUME NEW d \in 0..Far, NEW bit \in {0, 1},
         IF bit = 1 THEN IsOne(d) ELSE IsZero(d)
  PROVE  (bit = 0 /\ IsZero(d)) \/ (bit = 1 /\ ~IsZero(d) /\ IsOne(d))
  BY SMT DEF IsOne, IsZero, Far

LEMMA DecodesTo ==
  ASSUME IrTypeOK, NEW b \in Bits, NEW old, NEW bit \in {0, 1},
         IF bit = 1 THEN IsOne(diff_time_us[b]) ELSE IsZero(diff_time_us[b])
  PROVE  Decoded(old)[b] = bit
<1>1. diff_time_us[b] \in 0..Far
  BY ReceiverAssumption, SMT DEF IrTypeOK, Diffs, Bits
<1>2. \/ bit = 0 /\ IsZero(diff_time_us[b])
      \/ bit = 1 /\ ~IsZero(diff_time_us[b]) /\ IsOne(diff_time_us[b])
  BY <1>1, ClassDecodes
<1>3. DecodeBit(b, old) = bit
  BY <1>2, Zenon DEF DecodeBit
<1> QED
  BY <1>3, Zenon DEF Decoded

-------------------------------------------------------------------------------
(* The decoder on its own: IrSpec, with nothing between frame and decode.  *)

(* A clean frame is heard as the word it was sent for.                     *)
LEMMA HeardClean == ASSUME IrTypeOK, CleanFrameMeasured PROVE CleanHeard
<1> SUFFICES ASSUME clean, tx.kind = "frame",
                    tx.pos = FrameEdges
             PROVE  tx.word \in BitWords /\ Heard(tx.word)
  BY Zenon DEF CleanHeard
<1>1. tx.word \in BitWords
  BY DEF IrTypeOK, BitWords
<1>2. ASSUME NEW b \in 2..NBits-1
      PROVE  IF tx.word[b - 1] = 1 THEN IsOne(diff_time_us[b]) ELSE IsZero(diff_time_us[b])
  <2>1. b - 1 \in 1..NBits-1 /\ (b - 1) + 1 = b
    BY ReceiverAssumption, SMT
  <2>2. \A c \in 1..NBits-1 : IF tx.word[c] = 1 THEN IsOne(diff_time_us[c + 1])
                                                 ELSE IsZero(diff_time_us[c + 1])
    BY Zenon DEF CleanFrameMeasured
  <2>3. IF tx.word[b - 1] = 1 THEN IsOne(diff_time_us[(b - 1) + 1])
                              ELSE IsZero(diff_time_us[(b - 1) + 1])
    BY <2>1, <2>2, Zenon
  <2> QED
    BY <2>1, <2>3
<1> QED
  BY <1>1, <1>2, Zenon DEF Heard

(* The remote sends the words of the table only.                           *)
LEMMA WordsSent == IrSpec => [](tx.word \in Words)
<1>1. IrInit => tx.word \in Words
  BY SMT DEF IrInit
<1>2. tx.word \in Words /\ IrTypeOK /\ [IrNext]_irVars => (tx.word \in Words)'
  <2> SUFFICES ASSUME tx.word \in Words, IrTypeOK, [IrNext]_irVars PROVE tx'.word \in Words
    OBVIOUS
  <2>1. \A t \in Starts : t.word \in Words
    BY SMT DEF Starts
  <2>2. [tx EXCEPT !.pos = @ + 1].word = tx.word
    BY SMT DEF IrTypeOK
  <2> QED
    BY <2>1, <2>2, Zenon DEF IrNext, StartEdge, NextEdge, HiddenEdge, Hidden, SpuriousEdge, irVars, air
<1> QED
  BY <1>1, <1>2, ReceiverType, PTL DEF IrSpec

(* A frame heard cleanly decodes to its key, whatever the array held: for  *)
(* every frame length, window, table of cases and remote that fit together *)
(* and any number of faults before the frame (remote_control_function).    *)
THEOREM CleanKeysDecoded == ASSUME SwitchFits PROVE IrSpec => []CleanKeyDecoded
<1>1. IrTypeOK /\ CleanFrameMeasured /\ tx.word \in Words => CleanKeyDecoded
  <2> SUFFICES ASSUME IrTypeOK, CleanFrameMeasured, tx.word \in Words,
                      clean, tx.kind = "frame", tx.pos = FrameEdges, NEW old \in Stale
               PROVE  KeyOf(Decoded(old)) = KeyPressed[tx.word]
    BY Zenon DEF CleanKeyDecoded
  <2>1. tx.word \in BitWords /\ Heard(tx.word)
    BY HeardClean, Zenon DEF CleanHeard
  <2>2. ASSUME NEW b \in 2..NBits-1 PROVE Decoded(old)[b] = tx.word[b - 1]
    <3>1. b \in Bits /\ tx.word[b - 1] \in {0, 1}
      BY <2>1, ReceiverAssumption, SMT DEF BitWords, Bits
    <3>2. IF tx.word[b - 1] = 1 THEN IsOne(diff_time_us[b]) ELSE IsZero(diff_time_us[b])
      BY <2>1, Zenon DEF Heard
    <3> QED
      BY <3>1, <3>2, DecodesTo
  <2>3. KeyOf(Decoded(old)) = KeyOfWord(tx.word)
    BY <2>1, <2>2, KeyFromWindow
  <2>4. tx.word \in DOMAIN KeyPressed
    BY DecodeAssumption
  <2> QED
    BY <2>3, <2>4, SwitchFits, Zenon DEF SwitchFits
<1> QED
  BY <1>1, ReceiverType, FramesMeasured, WordsSent, PTL

(* A frame announced one edge early in the slots, after the receiver missed *)
(* an edge, is no key: it decodes to the word itself, unshifted, and no     *)
(* word has a case there (remote_control_function).                         *)
THEOREM EarlyFramesAreNoKey == ASSUME EarlyIsNoKey PROVE IrSpec => []OneEdgeOffIsNoKey
<1>1. IrTypeOK => OneEdgeOffIsNoKey
  <2> SUFFICES ASSUME IrTypeOK, NEW w \in Words, NEW old \in Stale,
                      \A b \in Bits : IF w[b] = 1 THEN IsOne(diff_time_us[b])
                                                  ELSE IsZero(diff_time_us[b])
               PROVE  KeyOf(Decoded(old)) = Kept
    BY Zenon DEF OneEdgeOffIsNoKey
  <2>1. ASSUME NEW b \in Bits PROVE Decoded(old)[b] = w[b]
    <3>1. w[b] \in {0, 1}
      BY ReceiverAssumption, SMT DEF Bits
    <3> QED
      BY <3>1, DecodesTo
  <2>2. \A b \in WindowLo..WindowHi : b \in Bits
    BY ReceiverAssumption, DecodeAssumption, SMT DEF Bits
  <2>3. [b \in WindowLo..WindowHi |-> Decoded(old)[b]] = [b \in WindowLo..WindowHi |-> w[b]]
    BY <2>1, <2>2, Zenon
  <2>4. KeyOf(Decoded(old)) = KeyOf(w)
    BY <2>3, Zenon DEF KeyOf, convertBinaryToHex
  <2>5. w \in DOMAIN KeyPressed
    BY DecodeAssumption
  <2> QED
    BY <2>4, <2>5, EarlyIsNoKey, Zenon DEF EarlyIsNoKey
<1> QED
  BY <1>1, ReceiverType, PTL

-------------------------------------------------------------------------------
(* Each run of the receiver's handler is a step of IrReceiver.             *)
LEMMA ReceiverRuns == Spec => IrSpec
<1>1. Init => IrInit
  BY DEF Init
<1>2. [Next]_vars => [IrNext]_irVars
  BY Zenon DEF Next, vars, IrNext, IrqEdge, UnseenEdge, Worker, WorkerWakes, WorkerDecodesBit,
     WorkerSwitches, WorkerSends, WorkerClears, etx_driver_exit, AppStep, AppOpens,
     sample_ioctl, AppLoops, AppLeavesSpin, AppResets, sig_event_handler, ctrl_c_handler,
     AppRestarts
<1> QED
  BY <1>1, <1>2, PTL DEF Spec, IrSpec

LEMMA CleanHeardAlways == Spec => []CleanHeard /\ []IrTypeOK
  BY HeardClean, ReceiverRuns, ReceiverType, FramesMeasured, PTL

-------------------------------------------------------------------------------
(* Nothing is promised at the start.                                       *)
LEMMA RemoteInit == Init => RemoteInv
  BY ReceiverAssumption, SMT DEF Init, RemoteInv, ThreadOK, Promise, Bits

(* The handler: a promise made here is about the frame just heard; one     *)
(* made earlier survives only once the thread has decoded it.              *)
LEMMA IrqStep ==
  ASSUME RemoteInv, IrqEdge, CleanHeard', IrTypeOK'
  PROVE  RemoteInv' /\ (~design.thread /\ told' # Unknown => Reports(told'))
<1>1. design \in Designs /\ design.thread \in BOOLEAN
  BY RemoteAssumption DEF RemoteInv, ThreadOK
<1>2. UNCHANGED <<design, i, wpc>>
  BY Zenon DEF IrqEdge
<1>3. wait_queue_flag' \in {0, 1} /\ (~design.thread => UNCHANGED wait_queue_flag)
  BY <1>1, SMT DEF IrqEdge, DecodesInHandler, RemoteInv, ThreadOK
<1>4. wait_queue_flag = 1 => wait_queue_flag' = 1
  BY SMT DEF IrqEdge, DecodesInHandler
<1>5. bit_array' \in [Bits -> {0, 1}]
  <2>1. CASE bit_array' = bit_array
    BY <2>1, Zenon DEF RemoteInv, ThreadOK
  <2>2. CASE \E old \in {bit_array} : bit_array' = Decoded(old)'
    <3>1. \A b \in Bits : bit_array[b] \in {0, 1}
      BY Zenon DEF RemoteInv, ThreadOK
    <3> QED
      BY <2>2, <3>1, SMT DEF Decoded, DecodeBit
  <2> QED
    BY <2>1, <2>2, Zenon DEF IrqEdge, DecodesInHandler
<1>6. ThreadOK'
  BY <1>1, <1>2, <1>3, <1>4, <1>5, SMT DEF RemoteInv, ThreadOK
<1>7. CASE wpc \in {"send", "clear"}
  <2>1. design.thread
    BY <1>7, SMT DEF RemoteInv, ThreadOK
  <2> QED
    BY <1>2, <1>6, <1>7, <2>1, SMT DEF RemoteInv, Promise
<1>8. CASE wpc \notin {"send", "clear"} /\ told' = Unknown
  BY <1>6, <1>8, Zenon DEF RemoteInv, Promise
<1>9. CASE wpc \notin {"send", "clear"} /\ told' # Unknown
  <2>1. /\ event' = "frame" /\ clean' /\ wpc = "wait"
        /\ tx'.kind = "frame" /\ tx'.pos = FrameEdges /\ told' = KeyOfWord(tx'.word)
    BY <1>9, Zenon DEF IrqEdge
  <2>2. tx'.word \in BitWords /\ Heard(tx.word)'
    BY <2>1, Zenon DEF CleanHeard
  <2>3. CASE design.thread
    <3>1. wait_queue_flag' = 1
      BY <2>1, <2>3, Zenon DEF IrqEdge
    <3>2. Pending(tx.word)'
      BY <1>2, <2>1, <2>2, <3>1, SMT DEF Pending
    <3>3. tx.word' \in BitWords
      BY <2>2
    <3>4. Promise'
      <4>1. \E word \in BitWords : Pending(word)'
        BY <3>2, <3>3
      <4> QED
        BY <1>2, <2>3, <4>1, Zenon DEF Promise
    <3> QED
      BY <1>6, <2>3, <3>4, Zenon DEF RemoteInv
  <2>4. CASE ~design.thread
    <3>1. PICK old \in {bit_array} : bit_array' = Decoded(old)'
      BY <2>1, <2>4, Zenon DEF IrqEdge, DecodesInHandler
    <3>2. output' = Switch(bit_array')
      BY <2>1, <2>4, Zenon DEF IrqEdge, DecodesInHandler
    <3>3. \A b \in 2..NBits-1 : bit_array'[b] = tx'.word[b - 1]
      <4> TAKE b \in 2..NBits-1
      <4>1. bit_array'[b] = DecodeBit(b, old)'
        BY <3>1, ReceiverAssumption, SMT DEF Decoded, Bits
      <4>2. tx'.word[b - 1] \in {0, 1}
        BY <2>2, ReceiverAssumption, SMT DEF BitWords
      <4>3. diff_time_us'[b] \in 0..Far
        BY ReceiverAssumption, SMT DEF IrTypeOK, Diffs
      <4>4. IF tx'.word[b - 1] = 1 THEN IsOne(diff_time_us'[b]) ELSE IsZero(diff_time_us'[b])
        BY <2>2, Zenon DEF Heard
      <4>5. \/ tx'.word[b - 1] = 0 /\ IsZero(diff_time_us'[b])
            \/ tx'.word[b - 1] = 1 /\ ~IsZero(diff_time_us'[b]) /\ IsOne(diff_time_us'[b])
        BY <4>2, <4>3, <4>4, ClassDecodes
      <4>6. CASE tx'.word[b - 1] = 0 /\ IsZero(diff_time_us'[b])
        <5>1. DecodeBit(b, old)' = 0
          BY <4>6, Zenon DEF DecodeBit
        <5> QED
          BY <4>1, <4>6, <5>1, Zenon
      <4>7. CASE tx'.word[b - 1] = 1 /\ ~IsZero(diff_time_us'[b]) /\ IsOne(diff_time_us'[b])
        <5>1. DecodeBit(b, old)' = 1
          BY <4>7, Zenon DEF DecodeBit
        <5> QED
          BY <4>1, <4>7, <5>1, Zenon
      <4> QED
        BY <4>5, <4>6, <4>7, Zenon
    <3>4. KeyOf(bit_array') = KeyOfWord(tx'.word)
      BY <2>2, <3>3, KeyFromWindow
    <3>5. output' = IF told' = Kept THEN output ELSE told'
      BY <2>1, <3>2, <3>4, Zenon DEF Switch
    <3>6. Promise'
      BY <1>2, <2>4, <3>5, Zenon DEF Promise
    <3> QED
      BY <1>6, <3>5, <3>6, Zenon DEF RemoteInv, Reports
  <2> QED
    BY <1>1, <2>3, <2>4, Zenon
<1> QED
  BY <1>7, <1>8, <1>9, Zenon

(* The thread takes the frame it was promised: nothing is read yet.        *)
LEMMA WakeStep == ASSUME RemoteInv, WorkerWakes PROVE RemoteInv'
<1>1. wpc = "wait" /\ wpc' = "decode" /\ i' = 0 /\ wait_queue_flag = 1
      /\ UNCHANGED <<irVars, design, wait_queue_flag, output, bit_array, told>>
  BY SMT DEF WorkerWakes, RemoteInv, ThreadOK
<1>2. ThreadOK'
  BY <1>1, ReceiverAssumption, SMT DEF RemoteInv, ThreadOK
<1>3. ASSUME NEW word \in BitWords, Pending(word) PROVE Pending(word)'
  <2>1. Heard(word)' /\ KeyOfWord(word)' = KeyOfWord(word)
    BY <1>1, <1>3, SMT DEF Pending, Heard, irVars, receiver, KeyOfWord, KeyOf
  <2>2. \A b \in 2..NBits-1 : ~(b < 0)
    BY SMT
  <2> QED
    BY <1>1, <1>3, <2>1, <2>2, SMT DEF Pending
<1> QED
  BY <1>1, <1>2, <1>3, Zenon DEF RemoteInv, Promise

(* It reads one bit, of an interval that has not been disturbed.           *)
LEMMA BitRead == ASSUME RemoteInv, IrTypeOK, WorkerDecodesBit PROVE RemoteInv'
<1>1. wpc = "decode" /\ i \in 0..NBits-1 /\ i' = i + 1
      /\ bit_array' = [bit_array EXCEPT ![i] = DecodeBit(i, bit_array)]
      /\ UNCHANGED <<irVars, design, wait_queue_flag, output, wpc, told>>
  BY ReceiverAssumption, SMT DEF WorkerDecodesBit, RemoteInv, ThreadOK
<1>2. bit_array \in [Bits -> {0, 1}]
  BY Zenon DEF RemoteInv, ThreadOK
<1>3. bit_array' \in [Bits -> {0, 1}]
  <2>1. i \in Bits /\ bit_array[i] \in {0, 1}
    BY <1>1, <1>2, SMT DEF Bits
  <2>2. DecodeBit(i, bit_array) \in {0, 1}
    BY <2>1, Zenon DEF DecodeBit
  <2> QED
    BY <1>1, <1>2, <2>2, Zenon
<1>4. ThreadOK'
  BY <1>1, <1>3, ReceiverAssumption, SMT DEF RemoteInv, ThreadOK
<1>5. ASSUME NEW word \in BitWords, Pending(word) PROVE Pending(word)'
  <2>1. Heard(word)' /\ told' = KeyOfWord(word)' /\ Heard(word)
    BY <1>1, <1>5, SMT DEF Pending, Heard, irVars, receiver, KeyOfWord, KeyOf
  <2>2. ASSUME NEW b \in 2..NBits-1, b < i + 1 PROVE bit_array'[b] = word[b - 1]
    <3>1. CASE b = i
      <4>1. bit_array'[b] = DecodeBit(b, bit_array)
        BY <1>1, <1>2, <3>1, SMT DEF Bits
      <4>2. word[b - 1] \in {0, 1}
        BY ReceiverAssumption, SMT DEF BitWords
      <4>3. diff_time_us[b] \in 0..Far
        BY ReceiverAssumption, SMT DEF IrTypeOK, Diffs
      <4>4. IF word[b - 1] = 1 THEN IsOne(diff_time_us[b]) ELSE IsZero(diff_time_us[b])
        BY <2>1, Zenon DEF Heard
      <4>5. \/ word[b - 1] = 0 /\ IsZero(diff_time_us[b])
            \/ word[b - 1] = 1 /\ ~IsZero(diff_time_us[b]) /\ IsOne(diff_time_us[b])
        BY <4>2, <4>3, <4>4, ClassDecodes
      <4>6. CASE word[b - 1] = 0 /\ IsZero(diff_time_us[b])
        <5>1. DecodeBit(b, bit_array) = 0
          BY <4>6, Zenon DEF DecodeBit
        <5> QED
          BY <4>1, <4>6, <5>1, Zenon
      <4>7. CASE word[b - 1] = 1 /\ ~IsZero(diff_time_us[b]) /\ IsOne(diff_time_us[b])
        <5>1. DecodeBit(b, bit_array) = 1
          BY <4>7, Zenon DEF DecodeBit
        <5> QED
          BY <4>1, <4>7, <5>1, Zenon
      <4> QED
        BY <4>5, <4>6, <4>7, Zenon
    <3>2. CASE b # i
      <4>1. b < i /\ b \in Bits
        BY <1>1, <2>2, <3>2, ReceiverAssumption, SMT DEF Bits
      <4>2. bit_array'[b] = bit_array[b]
        BY <1>1, <1>2, <3>2, <4>1, SMT
      <4> QED
        BY <1>1, <1>5, <4>1, <4>2, Zenon DEF Pending
    <3> QED
      BY <3>1, <3>2
  <2> QED
    BY <1>1, <2>1, <2>2, Zenon DEF Pending
<1> QED
  BY <1>1, <1>4, <1>5, Zenon DEF RemoteInv, Promise

(* With all bits read the switch finds the promised key.                   *)
LEMMA SwitchStep ==
  ASSUME RemoteInv, WorkerSwitches
  PROVE  RemoteInv' /\ (told # Unknown => Reports(told))
<1>1. wpc = "decode" /\ i = NBits /\ wpc' = "send" /\ output' = Switch(bit_array)
      /\ UNCHANGED <<design, wait_queue_flag, bit_array, i, told>>
  BY Zenon DEF WorkerSwitches
<1>2. design.thread
  BY <1>1, SMT DEF RemoteInv, ThreadOK
<1>3. RemoteInv'
  BY <1>1, <1>2, SMT DEF RemoteInv, ThreadOK, Promise
<1>4. ASSUME told # Unknown PROVE Reports(told)
  <2>1. PICK word \in BitWords : Pending(word)
    BY <1>1, <1>2, <1>4, Zenon DEF RemoteInv, Promise
  <2>2. \A b \in 2..NBits-1 : bit_array[b] = word[b - 1]
    <3>1. \A b \in 2..NBits-1 : b < NBits
      BY ReceiverAssumption, SMT
    <3> QED
      BY <1>1, <2>1, <3>1, Zenon DEF Pending
  <2>3. KeyOf(bit_array) = told
    BY <2>1, <2>2, KeyFromWindow, Zenon DEF Pending
  <2> QED
    BY <1>1, <2>3, Zenon DEF Switch, Reports
<1> QED
  BY <1>3, <1>4

(* The key is on its way: no promise is left, and none is made by the rest. *)
LEMMA OtherSteps ==
  ASSUME RemoteInv,
         \/ WorkerSends \/ WorkerClears \/ UnseenEdge \/ etx_driver_exit
         \/ AppStep \/ sig_event_handler \/ ctrl_c_handler \/ AppRestarts
         \/ UNCHANGED vars,
         UnseenEdge => UNCHANGED diff_time_us
  PROVE  /\ RemoteInv'
         /\ UNCHANGED <<design, output>>
         /\ told' = told \/ (wpc = "clear" /\ told' = Unknown)
         /\ ~(wpc = "decode" /\ wpc' = "send")
<1>1. CASE WorkerSends
  <2>1. wpc = "send" /\ wpc' = "clear"
        /\ UNCHANGED <<design, wait_queue_flag, bit_array, i, output, told>>
    BY <1>1, Zenon DEF WorkerSends
  <2> QED
    BY <2>1, SMT DEF RemoteInv, ThreadOK, Promise
<1>2. CASE WorkerClears
  <2>1. wpc = "clear" /\ wpc' = "wait" /\ wait_queue_flag' = 0 /\ told' = Unknown
        /\ UNCHANGED <<design, bit_array, i, output>>
    BY <1>2, Zenon DEF WorkerClears
  <2> QED
    BY <2>1, SMT DEF RemoteInv, ThreadOK, Promise
<1>3. CASE ~WorkerSends /\ ~WorkerClears
  <2>1. UNCHANGED <<design, wait_queue_flag, bit_array, i, output, told, wpc, diff_time_us>>
    BY <1>3, Zenon DEF UnseenEdge, driver, etx_driver_exit, AppStep, AppOpens, sample_ioctl,
       AppLoops, AppLeavesSpin, AppResets, sig_event_handler, ctrl_c_handler, AppRestarts,
       vars, irVars, receiver
  <2>2. ThreadOK'
    BY <2>1, Zenon DEF RemoteInv, ThreadOK
  <2>3. ASSUME NEW word \in BitWords, Pending(word) PROVE Pending(word)'
    BY <2>1, <2>3, SMT DEF Pending, Heard, KeyOfWord, KeyOf
  <2>4. Promise'
    BY <2>1, <2>3, Zenon DEF RemoteInv, Promise
  <2> QED
    BY <2>1, <2>2, <2>4, SMT DEF RemoteInv
<1> QED
  BY <1>1, <1>2, <1>3

Faithful ==
    /\ (wpc = "decode" /\ wpc' = "send" /\ told # Unknown) => Reports(told)
    /\ (~design.thread /\ told' # Unknown) => Reports(told')

(* Each step keeps the invariant, and the decode it may do is faithful.    *)
LEMMA RemoteStep ==
  ASSUME RemoteInv, IrTypeOK, IrTypeOK', CleanHeard', [Next]_vars
  PROVE  RemoteInv' /\ Faithful
<1>1. CASE IrqEdge
  <2>1. ~(wpc = "decode" /\ wpc' = "send")
    BY <1>1, SMT DEF IrqEdge
  <2> QED
    BY <1>1, <2>1, IrqStep, Zenon DEF Faithful
<1>2. CASE WorkerWakes \/ WorkerDecodesBit
  <2>1. RemoteInv'
    BY <1>2, WakeStep, BitRead
  <2>2. wpc' \in {"stopped", "decode"} /\ (wpc = "wait" => wait_queue_flag # 0)
    BY <1>2, SMT DEF WorkerWakes, WorkerDecodesBit
  <2>3. design.thread
    BY <1>2, SMT DEF RemoteInv, ThreadOK, WorkerWakes, WorkerDecodesBit
  <2> QED
    BY <2>1, <2>2, <2>3, SMT DEF Faithful
<1>3. CASE WorkerSwitches
  <2>1. design.thread
    BY <1>3, SMT DEF RemoteInv, ThreadOK, WorkerSwitches
  <2> QED
    BY <1>3, <2>1, SwitchStep, Zenon DEF Faithful
<1>4. CASE \/ WorkerSends \/ WorkerClears \/ UnseenEdge \/ etx_driver_exit
           \/ AppStep \/ sig_event_handler \/ ctrl_c_handler \/ AppRestarts
           \/ UNCHANGED vars
  <2>1. UnseenEdge => UNCHANGED diff_time_us
    BY Zenon DEF UnseenEdge, HiddenEdge, Hidden
  <2>2. /\ RemoteInv'
        /\ UNCHANGED <<design, output>>
        /\ told' = told \/ (wpc = "clear" /\ told' = Unknown)
        /\ ~(wpc = "decode" /\ wpc' = "send")
    BY <1>4, <2>1, OtherSteps
  <2>3. ASSUME ~design.thread, told' # Unknown PROVE Reports(told')
    BY <2>2, <2>3, SMT DEF RemoteInv, Promise, Reports
  <2> QED
    BY <2>2, <2>3 DEF Faithful
<1> QED
  BY <1>1, <1>2, <1>3, <1>4, Zenon DEF Next, Worker

(* So it always holds.                                                     *)
LEMMA RemoteAlways == Spec => []RemoteInv
  BY RemoteInit, RemoteStep, CleanHeardAlways, PTL DEF Spec

(* The key reported is the key pressed, for every frame length, key table  *)
(* and number of faults, in each of the three designs: as long as the      *)
(* frame was cleanly heard and nobody touched it until it was decoded.     *)
THEOREM KeysAreFaithful == Spec => DecodeFaithful
  BY RemoteStep, RemoteAlways, CleanHeardAlways, PTL DEF Spec, DecodeFaithful, Faithful

(* The flag is a mailbox, the fairness of taking from it apart: what the   *)
(* thread takes was posted, and was posted after it last went to wait.     *)
THEOREM FlagIsSlot == Spec => mailbox!MailSpec
<1>1. Init => mailbox!MailInit
  BY SMT DEF Init, mailbox!MailInit
<1>2. RemoteInv /\ [Next]_vars => [mailbox!MailNext]_mailbox!mailVars
  <2> SUFFICES ASSUME RemoteInv, [Next]_vars PROVE [mailbox!MailNext]_mailbox!mailVars
    OBVIOUS
  <2> USE DEF mailbox!MailNext, mailbox!mailVars, mailbox!Post, mailbox!Take, mailbox!Finish
  <2>1. CASE IrqEdge
    BY <2>1, SMT DEF IrqEdge, DecodesInHandler
  <2>2. CASE WorkerWakes
    BY <2>2, SMT DEF WorkerWakes, RemoteInv, ThreadOK
  <2>3. CASE WorkerDecodesBit \/ WorkerSwitches \/ WorkerSends
    BY <2>3, SMT DEF WorkerDecodesBit, WorkerSwitches, WorkerSends
  <2>4. CASE WorkerClears
    BY <2>4, SMT DEF WorkerClears
  <2>5. CASE ~Worker /\ ~IrqEdge
    <3>1. UNCHANGED <<wait_queue_flag, wpc>>
      BY <2>5, Zenon DEF Next, UnseenEdge, driver, etx_driver_exit, AppStep, AppOpens,
         sample_ioctl, AppLoops, AppLeavesSpin, AppResets, sig_event_handler, ctrl_c_handler,
         AppRestarts, vars
    <3> QED
      BY <3>1, SMT
  <2> QED
    BY <2>1, <2>2, <2>3, <2>4, <2>5, Zenon DEF Worker
<1> QED
  BY <1>1, <1>2, RemoteAlways, PTL DEF Spec, mailbox!MailSpec

-------------------------------------------------------------------------------
(* The types of the rest: what is sent, and to whom.                       *)

(* The switch leaves a digit in output.                                    *)
LEMMA DigitKeys == ASSUME NEW f PROVE KeyOf(f) \in 0..9 \cup {Kept}
  BY SwitchAssumption, Zenon DEF KeyOf

LEMMA DigitWords == ASSUME NEW w PROVE KeyOfWord(w) \in 0..9 \cup {Kept}
  BY DigitKeys, Zenon DEF KeyOfWord

LEMMA SwitchType == ASSUME output \in 0..9, NEW f PROVE Switch(f) \in 0..9
  BY DigitKeys, Zenon DEF Switch

LEMMA RemoteTypeInit == Init => RemoteTypeOK
<1> SUFFICES ASSUME Init PROVE RemoteTypeOK
  OBVIOUS
<1>1. bit_array \in [Bits -> {0, 1}] /\ queue \in Seq(0..9) /\ Len(queue) = 0 /\ queue = <<>>
  BY SMT DEF Init
<1>2. run \in 1..MaxRuns /\ apc \in {"start", "exited"}
  BY RemoteAssumption, SMT DEF Init
<1>3. 0 <= MaxPending /\ 0 \in 0..NBits
  BY RemoteAssumption, ReceiverAssumption, SMT
<1>4. task \in NULL..run /\ told \in 0..Kept
  BY <1>2, RemoteAssumption, SMT DEF Init, NULL, Unknown, Kept
<1> QED
  BY <1>1, <1>2, <1>3, <1>4, SMT DEF Init, RemoteTypeOK

(* A value goes into the queue of the registered process, or nowhere.      *)
LEMMA QueueType ==
  ASSUME RemoteTypeOK, NEW v \in 0..9, signalfunc(v)
  PROVE  queue' \in Seq(0..9) /\ Len(queue') <= MaxPending /\ (queue' # <<>> => task = run)
<1>1. queue \in Seq(0..9) /\ Len(queue) <= MaxPending /\ (queue # <<>> => task = run)
      /\ MaxPending \in Nat
  BY RemoteAssumption, SMT DEF RemoteTypeOK
<1>2. CASE task = run /\ Len(queue) < MaxPending /\ queue' = Append(queue, v)
  <2>1. Len(queue') = Len(queue) + 1 /\ queue' \in Seq(0..9)
    BY <1>1, <1>2, SMT
  <2> QED
    BY <1>1, <1>2, <2>1, SMT
<1>3. CASE queue' = queue
  BY <1>1, <1>3
<1> QED
  BY <1>2, <1>3, SMT DEF signalfunc

LEMMA IrqType ==
  ASSUME RemoteTypeOK, RemoteInv', IrqEdge PROVE RemoteTypeOK'
<1>1. UNCHANGED <<task, loaded, run, apc, check, done>>
  BY Zenon DEF IrqEdge
<1>2. queue' \in Seq(0..9) /\ Len(queue') <= MaxPending /\ (queue' # <<>> => task = run)
  <2>1. CASE signalfunc(output)
    <3>1. output \in 0..9
      BY SMT DEF RemoteTypeOK
    <3> QED
      BY <2>1, <3>1, QueueType
  <2>2. CASE queue' = queue
    BY <2>2, SMT DEF RemoteTypeOK
  <2> QED
    BY <2>1, <2>2, Zenon DEF IrqEdge
<1>3. output' \in 0..9
  <2>1. output \in 0..9
    BY SMT DEF RemoteTypeOK
  <2>2. output' = output \/ \E f : output' = Switch(f)
    BY Zenon DEF IrqEdge, DecodesInHandler
  <2> QED
    BY <2>1, <2>2, SwitchType
<1>4. told' \in 0..Kept
  <2>1. told' = told \/ told' = Unknown \/ \E w : told' = KeyOfWord(w)
    BY Zenon DEF IrqEdge
  <2>2. \A w : KeyOfWord(w) \in 0..Kept
    BY DigitWords, SMT DEF Kept
  <2> QED
    BY <2>1, <2>2, SMT DEF RemoteTypeOK, Unknown, Kept
<1>5. ThreadOK'
  BY Zenon DEF RemoteInv
<1> QED
  BY <1>1, <1>2, <1>3, <1>4, <1>5, SMT DEF RemoteTypeOK, ThreadOK

LEMMA WorkerType ==
  ASSUME RemoteTypeOK, RemoteInv', Worker PROVE RemoteTypeOK'
<1>1. UNCHANGED <<task, loaded, run, apc, check, done>>
  BY Zenon DEF Worker, WorkerWakes, WorkerDecodesBit, WorkerSwitches, WorkerSends, WorkerClears, app
<1>2. queue' \in Seq(0..9) /\ Len(queue') <= MaxPending /\ (queue' # <<>> => task = run)
  <2>1. CASE signalfunc(output)
    <3>1. output \in 0..9
      BY SMT DEF RemoteTypeOK
    <3> QED
      BY <2>1, <3>1, QueueType
  <2>2. CASE queue' = queue
    BY <2>2, SMT DEF RemoteTypeOK
  <2> QED
    BY <2>1, <2>2, Zenon DEF Worker, WorkerWakes, WorkerDecodesBit, WorkerSwitches, WorkerSends, WorkerClears, app
<1>3. output' \in 0..9
  <2>1. output \in 0..9
    BY SMT DEF RemoteTypeOK
  <2>2. output' = output \/ output' = Switch(bit_array)
    BY Zenon DEF Worker, WorkerWakes, WorkerDecodesBit, WorkerSwitches, WorkerSends, WorkerClears
  <2> QED
    BY <2>1, <2>2, SwitchType
<1>4. told' \in 0..Kept
  <2>1. told' = told \/ told' = Unknown
    BY Zenon DEF Worker, WorkerWakes, WorkerDecodesBit, WorkerSwitches, WorkerSends, WorkerClears
  <2> QED
    BY <2>1, SMT DEF RemoteTypeOK, Unknown, Kept
<1>5. ThreadOK'
  BY Zenon DEF RemoteInv
<1> QED
  BY <1>1, <1>2, <1>3, <1>4, <1>5, SMT DEF RemoteTypeOK, ThreadOK

LEMMA AppType ==
  ASSUME RemoteTypeOK, AppStep \/ sig_event_handler \/ ctrl_c_handler \/ AppRestarts
                          \/ etx_driver_exit
  PROVE  RemoteTypeOK'
<1> USE DEF driver, app
<1>1. UNCHANGED <<design, wait_queue_flag, wpc, i, bit_array, output, told>>
  BY Zenon DEF AppStep, AppOpens, sample_ioctl, AppLoops, AppLeavesSpin, AppResets, sig_event_handler, ctrl_c_handler, AppRestarts, etx_driver_exit
<1>2. CASE AppOpens \/ AppLoops \/ AppLeavesSpin \/ AppResets
  BY <1>1, <1>2, SMT DEF AppOpens, AppLoops, AppLeavesSpin, AppResets, RemoteTypeOK
<1>3. CASE sample_ioctl
  BY <1>1, <1>3, SMT DEF sample_ioctl, RemoteTypeOK, NULL
<1>4. CASE sig_event_handler
  <2>1. queue \in Seq(0..9) /\ queue # <<>> /\ Len(queue) <= MaxPending /\ MaxPending \in Nat
    BY <1>4, RemoteAssumption, SMT DEF sig_event_handler, RemoteTypeOK
  <2>2. Head(queue) \in 0..9 /\ Tail(queue) \in Seq(0..9) /\ Len(Tail(queue)) <= MaxPending
    BY <2>1, SMT
  <2>3. task = run
    BY <2>1, SMT DEF RemoteTypeOK
  <2>4. check' \in 0..9 /\ queue' \in Seq(0..9) /\ Len(queue') <= MaxPending
        /\ UNCHANGED <<task, run, apc, done, loaded>>
    BY <1>4, <2>2, Zenon DEF sig_event_handler
  <2> QED
    BY <1>1, <2>3, <2>4, SMT DEF RemoteTypeOK
<1>5. CASE ctrl_c_handler
  BY <1>1, <1>5, SMT DEF ctrl_c_handler, RemoteTypeOK
<1>6. CASE AppRestarts
  <2>1. queue' = <<>> /\ queue' \in Seq(0..9) /\ Len(queue') = 0 /\ 0 <= MaxPending
    BY <1>6, RemoteAssumption, SMT DEF AppRestarts
  <2>2. run' \in 1..MaxRuns /\ task' \in NULL..run'
    BY <1>6, RemoteAssumption, SMT DEF AppRestarts, RemoteTypeOK, NULL
  <2>3. check' = 0 /\ done' = 0 /\ apc' = "start" /\ loaded' = loaded
    BY <1>6, Zenon DEF AppRestarts
  <2> QED
    BY <1>1, <2>1, <2>2, <2>3, SMT DEF RemoteTypeOK
<1>7. CASE etx_driver_exit
  <2>1. UNCHANGED <<task, run, apc, check, done, queue>> /\ loaded' \in BOOLEAN
    BY <1>7, Zenon DEF etx_driver_exit
  <2> QED
    BY <1>1, <2>1, Zenon DEF RemoteTypeOK
<1> QED
  BY <1>2, <1>3, <1>4, <1>5, <1>6, <1>7, Zenon DEF AppStep

(* Types of the whole, for any number of processes: in particular every    *)
(* value an application sees is a digit, and it has registered for it      *)
(* (signalfunc, sample_ioctl).                                             *)
THEOREM RemoteType == Spec => []RemoteTypeOK
<1>1. RemoteTypeOK /\ RemoteInv' /\ [Next]_vars => RemoteTypeOK'
  <2> SUFFICES ASSUME RemoteTypeOK, RemoteInv', [Next]_vars PROVE RemoteTypeOK'
    OBVIOUS
  <2>1. CASE UnseenEdge \/ UNCHANGED vars
    <3>1. UNCHANGED <<driver, app>>
      BY <2>1, Zenon DEF UnseenEdge, vars
    <3> QED
      BY <3>1, Zenon DEF RemoteTypeOK, driver, app
  <2> QED
    BY <2>1, IrqType, WorkerType, AppType, Zenon DEF Next
<1> QED
  BY <1>1, RemoteTypeInit, RemoteAlways, PTL DEF Spec

(* The finding about the module's exit, for every instance: nothing the    *)
(* driver does ever ends its thread, whether the module is loaded or not   *)
(* (wait_function, etx_driver_exit).                                       *)
THEOREM ThreadNeverEnds == Spec => [](wpc # "stopped")
<1>1. RemoteTypeOK => wpc # "stopped"
  BY SMT DEF RemoteTypeOK
<1> QED
  BY <1>1, RemoteType, PTL
===============================================================================
