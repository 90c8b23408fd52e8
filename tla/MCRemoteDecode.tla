---------------------------- MODULE MCRemoteDecode ----------------------------
(* Model values for RemoteDecode at the size of the code: 32 bits, the byte  *)
(* window 16..23, the switch and the ten digit keys of NecRemote.            *)
EXTENDS RemoteDecode, NecRemote

ZeroGap == {1125}
OneGap == {2250}
LeadGap == {13500}
RepeatGap == {11250}
QuietGap == {40000}
NoiseGap == {500, 9000}
===============================================================================
