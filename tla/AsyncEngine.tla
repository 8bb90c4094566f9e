---------------------------- MODULE AsyncEngine ----------------------------
(***************************************************************************)
(* The streaming engine of libmsisdr (async.c, streaming.c and the stop    *)
(* and restart of hard.c), from the call of msisdr_read_async to the end   *)
(* of msisdr_close, with the three threads msisdrdevice.c puts on it:      *)
(*   reader  the Java thread in openAsync: msisdr_read_async and close;    *)
(*   cmd     the TCP command thread: msisdr_set_sample_rate, which stops   *)
(*           and restarts the transfers;                                   *)
(*   closer  the TCP server thread: after it has joined cmd it calls       *)
(*           tcpClosedCallback, hence msisdr_cancel_async, once.           *)
(* They share p->async_status and the transfers, without a lock.  A        *)
(* thread's pc is the place where it may be overtaken.  A scan of the      *)
(* transfers is one step: what it does with transfer i commutes with what  *)
(* other threads do with the other transfers.                              *)
(***************************************************************************)
EXTENDS UsbTransfers

CONSTANTS
  MaxDrain,     \* rounds of the drain loop of failed_free (20 in the code)
  MaxFaults,    \* bound on the number of faults
  Plans         \* what may happen to a stream, see FaultPlan

FaultKinds == {"alt", "submit", "events", "broken", "timeout", "unplug"}

\* The kinds of fault that may occur, and a bound on the sample rate commands
\* that find a stream.
FaultPlan == [faults : SUBSET FaultKinds, retunes : Nat]

ASSUME EngineAssumption ==
  /\ MaxDrain \in Nat /\ MaxFaults \in Nat
  /\ Plans \subseteq FaultPlan

VARIABLES
  status,       \* p->async_status
  alloc,        \* p->xfer # NULL
  mode,         \* p->transfer
  streaming,    \* the device has been told to stream
  rpc, ri,      \* reader: pc and loop index
  tries,        \* reader: drain_tries
  cpc, ci,      \* cmd: pc and loop index
  retunes,      \* sample rate commands that stopped a stream
  restarts,     \* calls of msisdr_start_async that submitted transfers
  closer,       \* "no", or what msisdr_cancel_async answered
  faults,       \* faults so far
  plan          \* the member of Plans that this behaviour is about

devVars == <<status, alloc, mode, streaming>>
readerVars == <<rpc, ri, tries>>
cmdVars == <<cpc, ci, retunes, restarts>>
envVars == <<closer, faults, plan>>
vars == <<usbVars, devVars, readerVars, cmdVars, envVars>>

AsyncStatus == {"inactive", "canceling", "running", "paused", "failed"}

ReaderPc == {"prepare", "submit", "isodrain", "isofree", "start", "setrun",
             "events", "check", "lastevents", "free", "stopstream", "fail",
             "drain", "drainevents", "failfree", "failstop", "failreturn",
             "returned", "closewait", "closed", "leaked"}

CmdPc == {"idle", "stopscan", "stopevents", "stopcheck", "stopstream",
          "setpaused", "regs", "startasync", "resubmit", "recheck",
          "startstream", "setrunning", "wild"}

TypeOK ==
  /\ UsbTypeOK
  /\ status \in AsyncStatus
  /\ alloc \in BOOLEAN
  /\ mode \in {"isoc", "bulk"}
  /\ streaming \in BOOLEAN
  /\ rpc \in ReaderPc /\ ri \in 1 .. N + 1 /\ tries \in 0 .. MaxDrain
  /\ cpc \in CmdPc /\ ci \in 1 .. N + 1
  /\ plan \in Plans
  /\ retunes \in 0 .. plan.retunes /\ restarts \in 0 .. plan.retunes
  /\ closer \in {"no", "accepted", "refused"}
  /\ faults \in 0 .. MaxFaults

Init ==
  /\ UsbInit
  /\ status = "inactive" /\ alloc = FALSE /\ streaming = FALSE
  /\ mode \in {"isoc", "bulk"}
  /\ rpc = "prepare" /\ ri = 1 /\ tries = 0
  /\ cpc = "idle" /\ ci = 1 /\ retunes = 0 /\ restarts = 0
  /\ closer = "no" /\ faults = 0
  /\ plan \in Plans

Fault(kind) ==
  /\ kind \in plan.faults /\ faults < MaxFaults
  /\ faults' = faults + 1

ReaderGoto(from, to) ==
  /\ rpc = from /\ rpc' = to
  /\ UNCHANGED <<cmdVars, closer, plan>>

CmdGoto(from, to) ==
  /\ cpc = from /\ cpc' = to
  /\ UNCHANGED <<readerVars, retunes, envVars>>

\* msisdr_async_free.  A callback that runs on the command thread meanwhile, or the
\* handling of a timeout, goes on with freed memory: "wild" stands for what happens.
FreeXfers(from, to) ==
  /\ rpc = from /\ rpc' = to
  /\ alloc' = FALSE
  /\ cb' = NoCallback /\ expiry' = NoExpiry
  /\ cpc' = IF cb.on = "cmd" \/ expiry.on = "cmd" THEN "wild" ELSE cpc
  /\ UNCHANGED <<xst, fly, plugged, status, streaming, ri, tries,
                 ci, retunes, restarts, envVars>>

-----------------------------------------------------------------------------
(* msisdr_read_async: from the call to RUNNING. *)

\* The alternate setting (BULK replaces an ISOC that is not available), and
\* msisdr_async_alloc.  Entered again at label retry_transfer.
Prepare ==
  /\ ReaderGoto("prepare", "submit")
  /\ status = "inactive"
  /\ \/ UNCHANGED <<mode, faults>>
     \/ mode = "isoc" /\ mode' = "bulk" /\ Fault("alt")
  /\ alloc' = TRUE
  /\ xst' = [i \in Xfers |-> "COMPLETED"]
  /\ fly' = [i \in Xfers |-> "idle"]
  /\ ri' = 1
  /\ UNCHANGED <<cb, expiry, plugged, status, streaming, tries>>

SubmitNext ==
  /\ ReaderGoto("submit", IF ri = N THEN "start" ELSE "submit")
  /\ CanSubmit(ri) /\ ListFree
  /\ fly' = Submitted(ri)
  /\ ri' = ri + 1
  /\ UNCHANGED <<xst, cb, expiry, plugged, devVars, tries, faults>>

\* BULK gives up; ISOC discards what it has submitted and retries with BULK,
\* after one round of events if anything had been submitted.
SubmitFails ==
  /\ ReaderGoto("submit", IF mode = "bulk" THEN "fail"
                          ELSE IF ri > 1 THEN "isodrain" ELSE "isofree")
  /\ \/ ~plugged /\ UNCHANGED faults
     \/ Fault("submit")
  /\ fly' = IF mode = "isoc" THEN Cancelled(1 .. ri - 1) ELSE fly
  /\ UNCHANGED <<xst, cb, expiry, plugged, devVars, ri, tries>>

IsoDrained ==
  /\ ReaderGoto("isodrain", "isofree")
  /\ CanReturn("reader")
  /\ UNCHANGED <<usbVars, devVars, ri, tries, faults>>

IsoFallBack ==
  /\ FreeXfers("isofree", "prepare")
  /\ mode' = "bulk"

StartStream ==
  /\ ReaderGoto("start", "setrun")
  /\ streaming' = plugged
  /\ UNCHANGED <<usbVars, status, alloc, mode, ri, tries, faults>>

SetRunning ==
  /\ ReaderGoto("setrun", "events")
  /\ status' = "running"
  /\ UNCHANGED <<usbVars, alloc, mode, streaming, ri, tries, faults>>

-----------------------------------------------------------------------------
(* msisdr_read_async: the event loop and its two ways out. *)

EventsReturn ==
  /\ ReaderGoto("events", "check")
  /\ CanReturn("reader")
  /\ UNCHANGED <<usbVars, devVars, ri, tries, faults>>

EventsFail ==
  /\ ReaderGoto("events", "fail")
  /\ CanReturn("reader")
  /\ Fault("events")
  /\ UNCHANGED <<usbVars, devVars, ri, tries>>

CheckStreaming ==
  /\ ReaderGoto("check", "events")
  /\ status \in {"running", "paused"}
  /\ UNCHANGED <<usbVars, devVars, ri, tries, faults>>

CheckFailed ==
  /\ ReaderGoto("check", "fail")
  /\ status = "failed"
  /\ UNCHANGED <<usbVars, devVars, ri, tries, faults>>

\* A mutant of CancelRest: only a transfer that last completed is cancelled.
CancelCompleted ==
  /\ ReaderGoto("check", "events")
  /\ status = "canceling"
  /\ ~AllCancelled
  /\ fly' = Cancelled({i \in Xfers : xst[i] = "COMPLETED"})
  /\ UNCHANGED <<xst, cb, expiry, plugged, devVars, ri, tries, faults>>

\* Cancel every transfer that does not read CANCELLED ...
CancelRest ==
  /\ ReaderGoto("check", "events")
  /\ status = "canceling"
  /\ ~AllCancelled
  /\ fly' = Cancelled({i \in Xfers : xst[i] # "CANCELLED"})
  /\ UNCHANGED <<xst, cb, expiry, plugged, devVars, ri, tries, faults>>

\* ... and stop when all of them do.
CancelDone ==
  /\ ReaderGoto("check", "lastevents")
  /\ status = "canceling"
  /\ AllCancelled
  /\ status' = "inactive"
  /\ UNCHANGED <<usbVars, alloc, mode, streaming, ri, tries, faults>>

LastEvents ==
  /\ ReaderGoto("lastevents", "free")
  /\ CanReturn("reader")
  /\ UNCHANGED <<usbVars, devVars, ri, tries, faults>>

CancelFree == FreeXfers("free", "stopstream") /\ UNCHANGED mode

StopStream ==
  /\ ReaderGoto("stopstream", "returned")
  /\ streaming' = FALSE
  /\ UNCHANGED <<usbVars, status, alloc, mode, ri, tries, faults>>

Fail ==
  /\ ReaderGoto("fail", "drain")
  /\ status' = "canceling"
  /\ fly' = Cancelled(Xfers)
  /\ tries' = 0
  /\ UNCHANGED <<xst, cb, expiry, plugged, alloc, mode, streaming, ri, faults>>

Drained ==
  \A i \in Xfers : xst[i] \in {"CANCELLED", "NO_DEVICE", "COMPLETED", "ERROR"}

\* A mutant of DrainCheck: the loop sets its counter to zero each time round.
DrainForever ==
  /\ ReaderGoto("drain", IF Drained THEN "failfree" ELSE "drainevents")
  /\ tries' = 0
  /\ UNCHANGED <<usbVars, devVars, ri, faults>>

DrainCheck ==
  /\ ReaderGoto("drain", IF Drained \/ tries = MaxDrain THEN "failfree"
                                                        ELSE "drainevents")
  /\ UNCHANGED <<usbVars, devVars, ri, tries, faults>>

DrainEvents ==
  /\ ReaderGoto("drainevents", "drain")
  /\ CanReturn("reader")
  /\ tries' = tries + 1
  /\ UNCHANGED <<usbVars, devVars, ri, faults>>

FailFree == FreeXfers("failfree", "failstop") /\ UNCHANGED mode

FailStop ==
  /\ ReaderGoto("failstop", "failreturn")
  /\ streaming' = FALSE
  /\ UNCHANGED <<usbVars, status, alloc, mode, ri, tries, faults>>

FailReturn ==
  /\ ReaderGoto("failreturn", "returned")
  /\ status' = "inactive"
  /\ UNCHANGED <<usbVars, alloc, mode, streaming, ri, tries, faults>>

-----------------------------------------------------------------------------
(* msisdr_close, with msisdr_cancel_async_now: a device that reads FAILED is *)
(* given up without libusb_close.                                            *)

Close ==
  /\ ReaderGoto("returned", IF status \in {"running", "paused"} THEN "closewait"
                                                                ELSE "closed")
  /\ status \in {"inactive", "running", "paused"}
  /\ status' = IF status = "inactive" THEN status ELSE "canceling"
  /\ UNCHANGED <<usbVars, alloc, mode, streaming, ri, tries, faults>>

\* Nobody is left to end the stream: the wait of 150 rounds expires.
CloseTimeout ==
  /\ ReaderGoto("closewait", "leaked")
  /\ status' = "failed"
  /\ UNCHANGED <<usbVars, alloc, mode, streaming, ri, tries, faults>>

Reader ==
  \/ Prepare \/ SubmitNext \/ SubmitFails \/ IsoDrained \/ IsoFallBack
  \/ StartStream \/ SetRunning
  \/ EventsReturn \/ EventsFail \/ CheckStreaming \/ CheckFailed
  \/ CancelRest \/ CancelDone \/ LastEvents \/ CancelFree \/ StopStream
  \/ Fail \/ DrainCheck \/ DrainEvents \/ FailFree \/ FailStop \/ FailReturn
  \/ Close \/ CloseTimeout

-----------------------------------------------------------------------------
(* The command thread.  A command writes registers, each by an ioctl that    *)
(* waits for nobody; the sample rate command goes through msisdr_set_hard.   *)

\* A sample rate command that finds no running stream only writes registers.
SetHard ==
  /\ cpc = "idle" /\ closer = "no" /\ retunes < plan.retunes
  /\ status = "running"
  /\ cpc' = "stopscan"
  /\ retunes' = retunes + 1
  /\ UNCHANGED <<usbVars, devVars, readerVars, ci, restarts, envVars>>

\* A mutant of StopScan: a transfer that has timed out is not cancelled.
StopScanSkips ==
  /\ CmdGoto("stopscan", IF status # "running" \/ AllCancelled THEN "stopcheck"
                                                             ELSE "stopevents")
  /\ fly' = Cancelled({i \in Xfers : xst[i] \notin {"CANCELLED", "TIMED_OUT"}})
  /\ UNCHANGED <<xst, cb, expiry, plugged, devVars, ci, restarts>>

\* msisdr_stop_async: the scan dereferences p->xfer, which the reader may have
\* freed.
StopScan ==
  /\ CmdGoto("stopscan", IF status # "running" THEN "stopcheck"
                         ELSE IF ~alloc THEN "wild"
                         ELSE IF AllCancelled THEN "stopcheck" ELSE "stopevents")
  /\ fly' = IF status = "running" /\ alloc
            THEN Cancelled({i \in Xfers : xst[i] # "CANCELLED"}) ELSE fly
  /\ UNCHANGED <<xst, cb, expiry, plugged, devVars, ci, restarts>>

StopEvents ==
  /\ CmdGoto("stopevents", "stopscan")
  /\ CanReturn("cmd")
  /\ UNCHANGED <<usbVars, devVars, ci, restarts>>

StopEventsFail ==
  /\ cpc = "stopevents" /\ cpc' = "idle"
  /\ CanReturn("cmd")
  /\ Fault("events")
  /\ UNCHANGED <<usbVars, devVars, readerVars, ci, retunes, restarts, closer, plan>>

StopCheck ==
  /\ CmdGoto("stopcheck", IF status = "running" THEN "stopstream" ELSE "idle")
  /\ UNCHANGED <<usbVars, devVars, ci, restarts>>

StopStreamCmd ==
  /\ CmdGoto("stopstream", "setpaused")
  /\ streaming' = FALSE
  /\ UNCHANGED <<usbVars, status, alloc, mode, ci, restarts>>

\* A mutant of SetPaused: the status is not set.
StayRunning ==
  /\ CmdGoto("setpaused", "regs")
  /\ UNCHANGED <<usbVars, devVars, ci, restarts>>

SetPaused ==
  /\ CmdGoto("setpaused", "regs")
  /\ status' = "paused"
  /\ UNCHANGED <<usbVars, alloc, mode, streaming, ci, restarts>>

\* msisdr_adc_stop and the registers of the new rate.
WriteRegs ==
  /\ CmdGoto("regs", "startasync")
  /\ UNCHANGED <<usbVars, devVars, ci, restarts>>

\* msisdr_start_async
StartAsync ==
  /\ CmdGoto("startasync", IF status = "paused" THEN "resubmit" ELSE "idle")
  /\ ci' = 1
  /\ restarts' = IF status = "paused" THEN restarts + 1 ELSE restarts
  /\ UNCHANGED <<usbVars, devVars>>

Resubmit ==
  /\ ListFree
  /\ CmdGoto("resubmit", IF ~alloc THEN "wild"
                         ELSE IF ~CanSubmit(ci) THEN "idle"
                         ELSE IF ci = N THEN "recheck" ELSE "resubmit")
  /\ fly' = IF alloc /\ CanSubmit(ci) THEN Submitted(ci) ELSE fly
  /\ ci' = IF alloc /\ CanSubmit(ci) THEN ci + 1 ELSE ci
  /\ UNCHANGED <<xst, cb, expiry, plugged, devVars, restarts>>

ResubmitFails ==
  /\ cpc = "resubmit" /\ cpc' = "idle"
  /\ Fault("submit")
  /\ UNCHANGED <<usbVars, devVars, readerVars, ci, retunes, restarts, closer, plan>>

Recheck ==
  /\ CmdGoto("recheck", IF status = "paused" THEN "startstream" ELSE "idle")
  /\ UNCHANGED <<usbVars, devVars, ci, restarts>>

StartStreamCmd ==
  /\ CmdGoto("startstream", "setrunning")
  /\ streaming' = plugged
  /\ UNCHANGED <<usbVars, status, alloc, mode, ci, restarts>>

SetRunningAgain ==
  /\ CmdGoto("setrunning", "idle")
  /\ status' = "running"
  /\ UNCHANGED <<usbVars, alloc, mode, streaming, ci, restarts>>

Cmd ==
  \/ SetHard \/ StopScan \/ StopEvents \/ StopEventsFail \/ StopCheck
  \/ StopStreamCmd \/ SetPaused \/ WriteRegs \/ StartAsync
  \/ Resubmit \/ ResubmitFails \/ Recheck \/ StartStreamCmd \/ SetRunningAgain

-----------------------------------------------------------------------------
(* libusb's event loop and the transfer callback _libusb_callback.          *)

\* Where a thread is in libusb's event loop.  On Android register writes are ioctls,
\* so that the command thread comes here in msisdr_stop_async only.
InEvents(t) ==
  \/ t = "reader" /\ rpc \in {"isodrain", "events", "lastevents", "drainevents"}
  \/ t = "cmd" /\ cpc = "stopevents"

engineVars == <<devVars, readerVars, cmdVars, closer, plan>>

\* A transfer that the driver has freed is nobody's business any more: what
\* libusb does with it is undefined, and left out.
Data(i, t) ==
  /\ alloc /\ InEvents(t) /\ streaming
  /\ ReapData(i, t)
  /\ UNCHANGED <<engineVars, faults>>

Broken(i, t) ==
  /\ alloc /\ InEvents(t)
  /\ ReapBroken(i, t) /\ Fault("broken")
  /\ UNCHANGED engineVars

TimeOut(i, t) ==
  /\ alloc /\ InEvents(t)
  /\ Discard(i, t) /\ Fault("timeout")
  /\ UNCHANGED engineVars

Overtaken(t) ==
  /\ alloc /\ InEvents(t)
  /\ ReadFlags(t)
  /\ UNCHANGED <<engineVars, faults>>

TimedOut == Mark /\ UNCHANGED <<engineVars, faults>>

Discarded(i, t) ==
  /\ alloc /\ InEvents(t)
  /\ ReapDiscarded(i, t)
  /\ UNCHANGED <<engineVars, faults>>

Gone(i, t) ==
  /\ alloc /\ InEvents(t)
  /\ ReapGone(i, t)
  /\ UNCHANGED <<engineVars, faults>>

CallbackReturns == cb' = NoCallback /\ UNCHANGED <<xst, expiry, plugged>>

\* Every status but CANCELLED and NO_DEVICE submits the transfer again,
\* whatever p->async_status is.
CallbackResubmits ==
  /\ cb # NoCallback
  /\ xst[cb.x] \notin {"CANCELLED", "NO_DEVICE"}
  /\ CanSubmit(cb.x) /\ ListFree
  /\ CallbackReturns
  /\ fly' = Submitted(cb.x)
  /\ UNCHANGED <<engineVars, faults>>

\* Label failed: only a RUNNING engine learns of it.
CallbackFails ==
  /\ cb # NoCallback
  /\ \/ xst[cb.x] = "NO_DEVICE" /\ UNCHANGED faults
     \/ /\ xst[cb.x] # "CANCELLED"
        /\ \/ ~CanSubmit(cb.x) /\ UNCHANGED faults
           \/ Fault("submit")
  /\ CallbackReturns
  /\ status' = IF status = "running" THEN "failed" ELSE status
  /\ UNCHANGED <<fly, alloc, mode, streaming, readerVars, cmdVars, closer, plan>>

CallbackCancelled ==
  /\ cb # NoCallback
  /\ xst[cb.x] = "CANCELLED"
  /\ CallbackReturns
  /\ UNCHANGED <<fly, engineVars, faults>>

Callback == CallbackResubmits \/ CallbackFails \/ CallbackCancelled

-----------------------------------------------------------------------------
(* The closer and the world outside. *)

\* A mutant of Cancel: the closed callback does not wait for the command thread.
CancelUnjoined ==
  /\ closer = "no"
  /\ rpc \notin {"returned", "closewait", "closed", "leaked"}
  /\ LET accepted == status \in {"running", "paused"}
     IN /\ closer' = IF accepted THEN "accepted" ELSE "refused"
        /\ status' = IF accepted THEN "canceling" ELSE status
  /\ UNCHANGED <<usbVars, alloc, mode, streaming, readerVars, cmdVars,
                 faults, plan>>

\* tcpClosedCallback: nothing once openAsync has cleared miri_dev.
Cancel ==
  /\ closer = "no" /\ cpc = "idle"
  /\ rpc \notin {"returned", "closewait", "closed", "leaked"}
  /\ LET accepted == status \in {"running", "paused"}
     IN /\ closer' = IF accepted THEN "accepted" ELSE "refused"
        /\ status' = IF accepted THEN "canceling" ELSE status
  /\ UNCHANGED <<usbVars, alloc, mode, streaming, readerVars, cmdVars,
                 faults, plan>>

Unplug ==
  /\ plugged /\ plugged' = FALSE
  /\ Fault("unplug")
  /\ UNCHANGED <<xst, fly, cb, expiry, engineVars>>

\* The driver has let go of the device: nothing more happens here.
Ended ==
  /\ rpc \in {"closed", "leaked"} /\ cpc \in {"idle", "wild"}
  /\ UNCHANGED vars

Usb ==
  \/ \E i \in Xfers, t \in Threads :
       Data(i, t) \/ Broken(i, t) \/ TimeOut(i, t) \/ Discarded(i, t) \/ Gone(i, t)
  \/ \E t \in Threads : Overtaken(t)
  \/ TimedOut

Next == Reader \/ Cmd \/ Usb \/ Callback \/ Cancel \/ Unplug \/ Ended

\* Threads run, a callback returns, a timeout is handled.  SF for the threads: a call of the event
\* loop handles what one poll reports and returns, however many transfers keep
\* completing.  SF for the transfers: poll reports one that the kernel has
\* finished discarding, or whose device is gone, whenever it is called; and a transfer
\* that is cancelled again and again is not each time found to have completed.  The
\* last conjunct is about time: a transfer that has just been submitted again
\* needs the device to fill it, so the scans of an endless msisdr_stop_async do not
\* all fall into a callback that is about to submit its transfer once more.
Fairness ==
  /\ SF_vars(Reader) /\ SF_vars(Cmd) /\ WF_vars(Callback) /\ WF_vars(TimedOut)
  /\ \A i \in Xfers : SF_vars(\E t \in Threads : Discarded(i, t) \/ Gone(i, t))
  /\ []<>(cpc = "stopscan") => []<><<StopScan /\ cb = NoCallback>>_vars

Spec == Init /\ [][Next]_vars

FairSpec == Spec /\ Fairness

-----------------------------------------------------------------------------
(* Safety *)

\* Whatever faults occur, msisdr_read_async frees the transfers of a cancelled
\* stream (async.c:559) only when libusb owns none of them and runs no callback,
\* as long as the stream has not been restarted for a new sample rate.
CancelPathQuiet ==
  rpc = "free" /\ restarts = 0 => Quiet /\ cb = NoCallback

\* The first change of the sample rate writes its registers only after the last
\* transfer has come back ("we must stop streaming", hard.c:29).
FirstStopQuiet == cpc = "regs" /\ restarts = 0 => Quiet

\* The quiet stops of the driver, whatever faults occur.
QuietStops == CancelPathQuiet /\ FirstStopQuiet

\* What a healthy device and bus do now and then.
Hiccups == {"alt", "broken", "timeout"}

Healthy == plan.faults \subseteq Hiccups

\* No transfer that libusb still owns is freed ("It is not legal to free an
\* active transfer", libusb/io.c:1290), on any path through msisdr_read_async.
LegalFree == ~alloc => Quiet

\* On a healthy bus, and as long as the rate is not changed, that holds: also when
\* BULK replaces an ISOC that is not available, and for a transfer that was
\* resubmitted by its callback between the cancel and the free.
FreedQuiet == Healthy /\ plan.retunes = 0 => LegalFree

\* On a healthy bus, with at most one change of rate: the command thread never works
\* on transfers that the reader has freed, be it in a scan of msisdr_stop_async, in a
\* callback or a timeout that it handles for libusb, or in msisdr_start_async.
NoWildAccess == Healthy /\ plan.retunes <= 1 => cpc # "wild"

\* On a healthy bus, with at most one change of rate: a stream that reads RUNNING,
\* with no change under way, has all of its transfers in flight or in their
\* callback.  None is lost on the error paths of _libusb_callback, between
\* msisdr_stop_async and msisdr_start_async, or to a timeout that is reported as a
\* cancellation because the other thread overtakes handle_timeout (io.c:1956, 1958).
StreamAlive ==
  Healthy /\ plan.retunes <= 1 =>
    (status = "running" /\ cpc = "idle" /\ rpc \in {"events", "check"}
       => \A i \in Xfers : fly[i] # "idle" \/ cb.x = i)

-----------------------------------------------------------------------------
(* Liveness *)

\* On a healthy bus a cancel that was accepted ends msisdr_read_async, and the
\* device is closed.
CancelEnds ==
  Healthy /\ plan.retunes = 0 /\ closer = "accepted" ~> rpc = "closed"

\* On a healthy bus a sample rate command that stops the stream (msisdr_set_hard)
\* starts it again.
RetuneEnds ==
  Healthy /\ plan.retunes = 1 /\ cpc = "stopscan" ~> cpc = "idle" /\ status = "running"

\* Whatever the faults, a failure that the callback reports ends
\* msisdr_read_async, and the device is closed.
FailureEnds == plan.retunes = 0 /\ status = "failed" ~> rpc = "closed"

=============================================================================
