--------------------------- MODULE MCAsyncEngine ---------------------------
(***************************************************************************)
(* What may happen to a stream in the runs of AsyncEngine.                 *)
(***************************************************************************)
EXTENDS AsyncEngineInv

\* Only what a healthy device and bus do, or every fault; with and without a
\* change of rate.
EndPlans == [faults : {Hiccups, FaultKinds}, retunes : 0 .. 1]

\* libusb_handle_events_timeout returns an error.
EventErrorPlan == { [faults |-> {"events"}, retunes |-> 0] }

=============================================================================
