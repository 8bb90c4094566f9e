---------------------------- MODULE UsbTransfers ----------------------------
(***************************************************************************)
(* The asynchronous transfers of the vendored libusb (libusb/io.c and its  *)
(* Linux backend), as libmsisdr drives them.  A transfer has two pieces    *)
(* of state that the driver is easily tempted to confuse: the public field *)
(* transfer->status, written only when a transfer is reaped, and the       *)
(* private flags, which say whether the kernel still owns the transfer.    *)
(* libusb_submit_transfer changes the flags and leaves status as it was.   *)
(***************************************************************************)
EXTENDS Naturals

CONSTANT N           \* p->xfer_buf_num: the number of transfers

ASSUME NAssumption == N \in Nat \ {0}

VARIABLES
  xst,      \* xst[i]: transfer->status of transfer i
  fly,      \* fly[i]: the IN_FLIGHT, CANCELLING and TIMED_OUT flags of i
  cb,       \* the transfer whose callback is running, and on which thread
  expiry,   \* the transfer whose timeout is being handled, see Discard
  plugged   \* FALSE once the device has been unplugged

usbVars == <<xst, fly, cb, expiry, plugged>>

Xfers == 1 .. N

\* The threads that enter libusb's event loop: the one in msisdr_read_async and
\* the one that executes the commands of the TCP client, in msisdr_stop_async.
Threads == {"reader", "cmd"}

\* The driver treats the two statuses STALL and OVERFLOW alike.
XferStatus == {"COMPLETED", "STALL", "ERROR", "TIMED_OUT", "CANCELLED", "NO_DEVICE"}

Flags == {"idle", "flying", "canceling", "expiring"}

NoCallback == [x |-> 0, on |-> "none"]

\* flying_transfers_lock is free.  Else thread expiry.on holds it in handle_timeout
\* and has discarded transfer expiry.x, but not marked it TIMED_OUT; expiry.read says
\* that the other thread has reaped its urbs and read the flags.
NoExpiry == [x |-> 0, on |-> "none", read |-> FALSE]

UsbTypeOK ==
  /\ xst \in [Xfers -> XferStatus]
  /\ fly \in [Xfers -> Flags]
  /\ cb \in [x : Xfers, on : Threads] \union {NoCallback}
  /\ expiry \in [x : Xfers, on : Threads, read : BOOLEAN] \union {NoExpiry}
  /\ plugged \in BOOLEAN

UsbInit ==
  /\ xst = [i \in Xfers |-> "COMPLETED"]     \* calloc: COMPLETED is 0
  /\ fly = [i \in Xfers |-> "idle"]
  /\ cb = NoCallback /\ expiry = NoExpiry
  /\ plugged = TRUE

\* No transfer belongs to the kernel: what libusb_free_transfer asks for.
Quiet == \A i \in Xfers : fly[i] = "idle"

\* A mutant of AllCancelled: a scan that is content with one.
SomeCancelled == \E i \in Xfers : xst[i] = "CANCELLED"

\* What the driver takes for "every transfer has been cancelled".
AllCancelled == \A i \in Xfers : xst[i] = "CANCELLED"

-----------------------------------------------------------------------------
(* Library calls: the flags after them. *)

\* A transfer in flight is refused with LIBUSB_ERROR_BUSY.
CanSubmit(i) == plugged /\ fly[i] = "idle"

Submitted(i) == [fly EXCEPT ![i] = "flying"]

\* libusb_cancel_transfer on every transfer of S: only one that is in flight
\* and not yet being discarded is affected (NOT_FOUND otherwise).
Cancelled(S) ==
  [i \in Xfers |-> IF i \in S /\ fly[i] = "flying" THEN "canceling" ELSE fly[i]]

\* Putting a transfer on the list of those in flight, and taking it off, wait for a
\* thread that handles timeouts.
ListFree == expiry = NoExpiry

-----------------------------------------------------------------------------
(* The event loop, run by thread t inside libusb_handle_events_timeout.     *)
(* The events lock lets one thread at a time reap transfers and run their   *)
(* callbacks; a thread that handles timeouts need not hold it.              *)

Reap(i, t, outcome) ==
  /\ cb = NoCallback /\ ListFree
  /\ xst' = [xst EXCEPT ![i] = outcome]
  /\ fly' = [fly EXCEPT ![i] = "idle"]
  /\ cb' = [x |-> i, on |-> t]
  /\ UNCHANGED <<expiry, plugged>>

\* The transfer's own timeout runs out.  libusb discards its urbs ...  (The discard
\* fails on a device that is gone, and for a transfer that has just completed.)
Discard(i, t) ==
  /\ ListFree /\ cb.on # t
  /\ fly[i] = "flying" /\ plugged
  /\ fly' = [fly EXCEPT ![i] = "canceling"]
  /\ expiry' = [x |-> i, on |-> t, read |-> FALSE]
  /\ UNCHANGED <<xst, cb, plugged>>

\* ... may be overtaken by the other thread, which reaps them, reads the flags without
\* a lock and waits to take the transfer off the list: it will report CANCELLED ...
ReadFlags(t) ==
  /\ ~ListFree /\ expiry.on # t /\ ~expiry.read /\ cb = NoCallback
  /\ expiry' = [expiry EXCEPT !.read = TRUE]
  /\ UNCHANGED <<xst, fly, cb, plugged>>

\* ... and then marks the transfer as timed out.
Mark ==
  /\ ~ListFree
  /\ fly' = IF expiry.read THEN fly ELSE [fly EXCEPT ![expiry.x] = "expiring"]
  /\ expiry' = NoExpiry
  /\ UNCHANGED <<xst, cb, plugged>>

\* A thread returns from the event loop unless it runs a callback there, handles a
\* timeout, or waits to report a transfer.
CanReturn(t) == cb.on # t /\ expiry.on # t /\ ~expiry.read

\* A transfer that had completed when it was to be cancelled reports its data: the
\* discard finds no urb, and op_cancel_transfer leaves reap_action as it is.
ReapData(i, t) == fly[i] \in {"flying", "canceling"} /\ plugged /\ Reap(i, t, "COMPLETED")

ReapBroken(i, t) ==
  /\ fly[i] = "flying" /\ plugged
  /\ \E outcome \in {"STALL", "ERROR"} : Reap(i, t, outcome)

ReapDiscarded(i, t) ==
  \/ fly[i] = "canceling" /\ Reap(i, t, "CANCELLED")
  \/ fly[i] = "expiring" /\ Reap(i, t, "TIMED_OUT")

\* usbi_handle_disconnect ends whatever is still in flight.
ReapGone(i, t) == ~plugged /\ fly[i] # "idle" /\ Reap(i, t, "NO_DEVICE")

=============================================================================
