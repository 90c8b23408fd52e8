----------------------------- MODULE MCWaitQueue ------------------------------
(* Model values for WaitQueue.                                               *)
EXTENDS WaitQueue

CONSTANTS r1, r2
TwoReaders == {r1, r2}
===============================================================================
