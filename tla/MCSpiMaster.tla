---------------------------- MODULE MCSpiMaster -----------------------------
(* Model values for SpiMaster: the ends of the range of readings, answers    *)
(* pulled low and high.                                                      *)
EXTENDS SpiMaster

AllApps == {controller, reader, echo}
SomeReadings == {0, 255}
SomeGarbage == {<<0, 0>>, <<255, 255>>}
===============================================================================
