---------------------------- MODULE MCUsbEvents ----------------------------
(***************************************************************************)
(* The timeouts of the runs of UsbEvents: a control transfer times out     *)
(* earlier than one of the stream, as 500 ms and 1000 ms do.               *)
(***************************************************************************)
EXTENDS UsbEventsInv

Timeouts == [x \in Xfers |-> IF x = Control THEN 1 ELSE 2]

=============================================================================
