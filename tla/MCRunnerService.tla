--------------------------- MODULE MCRunnerService ---------------------------
(* RunnerService with two devices, opened one after the other or at any time.                   *)
EXTENDS RunnerServiceInv

CONSTANTS d1, d2

TwoDevices == {d1, d2}
AnyTime == BOOLEAN
==============================================================================
