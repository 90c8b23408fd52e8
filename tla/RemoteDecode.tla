----------------------------- MODULE RemoteDecode -----------------------------
(***************************************************************************)
(* The decoder of the remote-controller drivers: from the intervals the    *)
(* interrupt handler measured to a key.  The loop over the intervals of    *)
(* remote_control_function in                                              *)
(* driver/remote_controller_signal/remote_controller_signal.c; its switch  *)
(* is KeySwitch.                                                           *)
(***************************************************************************)
EXTENDS IrReceiver, KeySwitch

ASSUME DecodeAssumption ==
    /\ WindowLo \in 2..NBits-1 /\ WindowHi \in WindowLo..NBits-1
    /\ DOMAIN KeyPressed = Words

Bits == 0..NBits-1

(* Mutant: the decoder skips the slot of the lead interval.                *)
DecodeNextSlot(b, array) ==
    IF IsZero(diff_time_us[b + 1]) THEN 0
    ELSE IF IsOne(diff_time_us[b + 1]) THEN 1 ELSE array[b]

(* One turn of the loop over the intervals: an interval in neither class   *)
(* leaves what the array held.                                             *)
DecodeBit(b, array) ==
    IF IsZero(diff_time_us[b]) THEN 0
    ELSE IF IsOne(diff_time_us[b]) THEN 1 ELSE array[b]

-------------------------------------------------------------------------------
(* What the array holds after decoding, from contents old.                 *)
Decoded(old) == [b \in Bits |-> DecodeBit(b, old)]

Stale == [Bits -> {0}] \cup [Bits -> {1}]

(* A frame heard cleanly decodes to the key its command byte stands for on *)
(* the remote (reference KeyPressed), whatever earlier frames left in the  *)
(* array: the lead interval in slot 0 and the byte window shifted by one   *)
(* bit are both accounted for by the codes of the switch.                  *)
CleanKeyDecoded ==
    (clean /\ tx.kind = "frame" /\ tx.pos = FrameEdges) =>
        \A old \in Stale : KeyOf(Decoded(old)) = KeyPressed[tx.word]

(* A receiver that missed the first edge of a frame announces it one edge  *)
(* late with every bit one slot early; such a reading is never taken for a *)
(* key, so the user sees a lost press and not a wrong one.                 *)
OneEdgeOffIsNoKey ==
    (event = "frame" /\ \E w \in Words : \A b \in Bits :
        IF w[b] = 1 THEN IsOne(diff_time_us[b]) ELSE IsZero(diff_time_us[b]))
    => \A old \in Stale : KeyOf(Decoded(old)) = Kept
===============================================================================
