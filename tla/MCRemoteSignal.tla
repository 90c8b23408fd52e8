---------------------------- MODULE MCRemoteSignal ----------------------------
(* Model values for RemoteSignal: frames of three bits, of which slot 2 is   *)
(* decoded.  Code '1' is a key, '0' is the key 0 or no key, by table.        *)
EXTENDS RemoteSignal

W(a, b, c) == [n \in 0..2 |-> <<a, b, c>>[n + 1]]
OneWord == {W(1, 1, 0)}
TwoWords == {W(0, 0, 1), W(1, 1, 0)}
ZeroGap == {1125}
OneGap == {2250}
LeadGap == {13500}
RepeatGap == {11250}
QuietGap == {40000}
NoiseGap == {500}
NoNoise == {}
Pressed == [w \in TwoWords |-> 3 * w[1]]
OnePressed == [w \in OneWord |-> 3]
AllDesigns == {remote_controller_signal, remote_controller_wait_queue, Remote_controller}
LastDesign == {remote_controller_signal}
OneKey == [c \in {49} |-> 3]
TwoKeys == [c \in {48, 49} |-> IF c = 48 THEN 0 ELSE 3]
===============================================================================
