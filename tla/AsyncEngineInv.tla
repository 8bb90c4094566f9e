--------------------------- MODULE AsyncEngineInv ---------------------------
(***************************************************************************)
(* The inductive invariant behind the quiet stops of AsyncEngine: what has *)
(* to be known of the threads' places and of the stale status fields for   *)
(* "every transfer reads CANCELLED" to imply "libusb owns none of them".   *)
(***************************************************************************)
EXTENDS AsyncEngine

\* Before msisdr_read_async has set RUNNING (async.c:514).
StartingPc == {"prepare", "submit", "isodrain", "isofree", "start", "setrun"}

\* From the decision that a cancelled stream is over to the free.
CancelledPc == {"lastevents", "free"}

\* From failed_free, or from the forced end in msisdr_close, to the end.
EndingPc == {"drain", "drainevents", "failfree", "failstop", "failreturn",
             "closewait"}

\* Inside msisdr_set_hard with a stream to stop and start.
RetunePc == CmdPc \ {"idle", "wild"}

\* msisdr_stop_async has found every transfer cancelled; nothing is submitted yet.
StoppedPc == {"stopstream", "setpaused", "regs", "startasync"}

\* The loop indices and counters stay within their bounds.
RangeInv ==
  /\ rpc = "submit" => ri \in Xfers
  /\ cpc = "resubmit" => ci \in Xfers
  /\ rpc = "drainevents" => tries < MaxDrain
  /\ restarts <= retunes
  /\ cpc \in {"stopscan", "stopevents", "stopcheck"} \union StoppedPc
       => restarts < retunes

\* A callback runs on a thread that is inside libusb's event loop, for a transfer
\* that has not been freed.
CallbackInv == cb # NoCallback => InEvents(cb.on) /\ alloc

\* So does the handling of a timeout; it can be overtaken only while the command
\* thread is in the event loop too.
ExpiryInv ==
  expiry # NoExpiry =>
    /\ InEvents(expiry.on) /\ alloc /\ fly[expiry.x] = "canceling"
    /\ expiry.read => cb = NoCallback /\ cpc = "stopevents"

\* While read_async starts up nobody else has touched p->async_status, and the
\* command thread cannot be in the middle of a restart.
StartInv ==
  /\ rpc \in StartingPc => status = "inactive" /\ cpc \notin RetunePc
  /\ rpc = "prepare" => ~alloc
  /\ rpc = "submit" =>
       \A i \in ri .. N : xst[i] = "COMPLETED" /\ fly[i] = "idle" /\ cb.x # i

\* A cancel comes after the command thread has been joined.
CancelInv ==
  /\ closer # "no" => cpc \in {"idle", "wild"}
  /\ status = "canceling" => closer # "no" \/ rpc \in EndingPc
  /\ rpc \in CancelledPc => closer # "no"

\* Until the first restart a transfer that reads CANCELLED is in nobody's hands:
\* libusb_submit_transfer leaves the status alone, but nobody submits it.
FreshInv ==
  restarts = 0 => \A i \in Xfers : xst[i] = "CANCELLED" => fly[i] = "idle"

\* The decisions taken on AllCancelled stay true until they are acted upon.
StopInv ==
  restarts = 0 =>
    /\ rpc \in CancelledPc => AllCancelled
    /\ cpc \in StoppedPc => AllCancelled
    /\ cpc = "stopcheck" /\ status = "running" => AllCancelled
    /\ rpc = "free" => cb = NoCallback

RestartInv == cpc \in {"resubmit", "recheck", "startstream", "setrunning"} => restarts > 0

IInv ==
  /\ TypeOK /\ RangeInv
  /\ CallbackInv /\ ExpiryInv /\ StartInv /\ CancelInv /\ FreshInv /\ StopInv /\ RestartInv

-----------------------------------------------------------------------------
(* A healthy bus, with at most one change of rate.                         *)

\* The way of the reader, as nothing makes it fail or fall back.
StreamPc == {"events", "check"}
HealthyPc ==
  {"prepare", "submit", "start", "setrun"} \union StreamPc \union CancelledPc
    \union {"stopstream", "returned", "closed"}

\* msisdr_start_async, and what comes before it once the status is PAUSED.
ResumingPc == {"recheck", "startstream", "setrunning"}
PausedPc == {"regs", "startasync", "resubmit"} \union ResumingPc

\* The status follows the places of the two threads, and none of them goes astray.
PlacesInv ==
  /\ rpc \in HealthyPc /\ cpc # "wild"
  /\ cpc \in RetunePc => rpc \in StreamPc /\ closer = "no"
  /\ cpc \in PausedPc <=> status = "paused"
  /\ cpc \in RetunePc \ PausedPc => status = "running"
  /\ rpc \in StreamPc => status # "inactive"
  /\ rpc \in HealthyPc \ StreamPc => status = "inactive"
  /\ status # "failed"
  /\ alloc <=> rpc \in {"submit", "start", "setrun"} \union StreamPc \union CancelledPc

\* The bus does its part; a callback finds its transfer free to be submitted, unless
\* the transfer was cancelled.
BusInv ==
  /\ plugged
  /\ \A i \in Xfers : xst[i] # "NO_DEVICE"
  /\ cb # NoCallback => fly[cb.x] = "idle" \/ xst[cb.x] = "CANCELLED"

\* The device will complete transfer i, or its callback will submit it again.
Alive(i) ==
  \/ fly[i] \in {"flying", "expiring"}
  \/ cb.x = i /\ xst[i] # "CANCELLED"
  \/ expiry.x = i /\ ~expiry.read

AliveInv ==
  /\ rpc = "submit" => \A i \in 1 .. ri - 1 : Alive(i)
  /\ rpc \in {"start", "setrun"} => \A i \in Xfers : Alive(i)
  /\ status = "running" /\ cpc \notin RetunePc => \A i \in Xfers : Alive(i)
  /\ cpc = "resubmit" =>
       /\ \A i \in 1 .. ci - 1 : Alive(i)
       /\ \A i \in ci .. N : xst[i] = "CANCELLED" /\ fly[i] = "idle"
  /\ cpc \in ResumingPc => \A i \in Xfers : Alive(i)

\* What has been freed had come back.
FreedInv == restarts = 0 => LegalFree

HealthInv == Healthy /\ plan.retunes <= 1 => PlacesInv /\ BusInv /\ AliveInv /\ FreedInv

=============================================================================
