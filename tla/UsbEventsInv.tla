---------------------------- MODULE UsbEventsInv ----------------------------
(***************************************************************************)
(* The inductive invariant behind FreedIsGone: who holds which lock, and   *)
(* who has the control transfer while cmd submits it, waits for it or has  *)
(* freed it.                                                               *)
(***************************************************************************)
EXTENDS UsbEvents

\* The places of a submission, and those where the transfer's lock is held.
Submission == {"submit", "add", "ioctl", "flag", "unadd"}
LockedSubmission == Submission \ {"submit"}

\* Between the reaping of a transfer, or its disconnect, and its callback.
HandlingPlaces == {"handle", "classify", "remove", "callback", "clear"}
Handling(t) == th[t].x = Control /\ th[t].at \in HandlingPlaces

\* Where handle_timeouts has a transfer, or holds flying_transfers_lock.
Cancelling == {"cancel", "mark"}
TimingOut == Cancelling \union {"scan"}

\* The thread handles events: a return to "reap", "disconnect" or "unlock" is one
\* into handle_events.
Handler(t) ==
  \/ th[t].at \in {"taken", "locked", "poll", "reap", "disconnect", "unlock", "release"}
                     \union HandlingPlaces
  \/ th[t].back \in {"reap", "disconnect", "unlock"}

\* Where a call returns to, and what it works on.
ReturnsOf(t) ==
  /\ th[t].back \in {"out", "start", "finish", "return", "reap", "disconnect", "unlock"}
  /\ th[t].at \in {"handle", "classify"} => th[t].back = "reap"
  /\ th[t].at = "clear" => th[t].back = "disconnect"
  /\ th[t].at \in {"remove", "callback"} => th[t].back \in {"reap", "disconnect"}
  /\ th[t].at \in Submission => th[t].back \in {"start", "finish", "reap", "disconnect"}
  /\ th[t].at \in Submission => (th[t].x = Control <=> th[t].back = "finish")
  /\ th[t].back = "finish" => t = "cmd"
  /\ th[t].back = "start" => t = "reader"
  /\ th[t].at \in WithXfer => th[t].x \in Xfers
  /\ th[t].at \in TimingOut \union {"timeouts"} => th[t].back \in {"return", "unlock"}
  /\ th[t].at = "start" => t = "reader"

Returns == \A t \in Threads : ReturnsOf(t)

\* Every lock has the owner that its holder's place says.
OwnsLocks(t) ==
  /\ Handler(t) => ev = t
  /\ th[t].at \in TimingOut => fl = t
  /\ th[t].at \in LockedSubmission => xl[th[t].x] = t

LockOwners == \A t \in Threads : OwnsLocks(t)

\* No entry for the control transfer twice.
Once(list) == \A i, j \in DOMAIN list : list[i] = Control /\ list[j] = Control => i = j

Lists ==
  /\ DOMAIN xl = Xfers /\ DOMAIN flags = Xfers /\ DOMAIN urb = Xfers
  /\ flying \in Seq(Xfers) /\ doneq \in Seq(Xfers)
  /\ Once(flying) /\ Once(doneq)
  /\ Control \in ToSet(doneq) => urb[Control] \in {"done", "killed"}

\* cmd submits the control transfer.
Submitting(places) == th["cmd"].x = Control /\ th["cmd"].at \in places

\* Nobody has the control transfer.
Gone ==
  /\ Control \notin ToSet(flying) /\ urb[Control] = "none"
  /\ \A t \in Threads : ~Handling(t)

\* Not allocated, before it is listed, after its callback, when its submission has failed.
Idle == ~alloc \/ th["cmd"].at = "finish" \/ Submitting({"submit", "add"}) \/ done

CmdLife ==
  /\ th["cmd"].at = "out" => ~alloc
  /\ th["cmd"].at = "finish" \/ Submitting(Submission) => alloc
  /\ ~alloc \/ Submitting(Submission) => ~done
  /\ xl[Control] # None => Submitting(LockedSubmission)
  /\ Idle => Gone
  /\ Submitting({"ioctl", "unadd"}) => urb[Control] = "none" /\ \A t \in Threads : ~Handling(t)
  /\ Submitting({"flag"}) => \A t \in Threads : Handling(t) => th[t].at = "handle"
  /\ Submitting(LockedSubmission) => "IN_FLIGHT" \notin flags[Control]

\* What a thread that has the control transfer knows of it.
Knows(t) ==
  /\ Handling(t) /\ th[t].at # "clear" => urb[Control] = "none"
  /\ Handling(t) /\ th[t].at = "callback" => Control \notin ToSet(flying)
  /\ th[t].at \in Cancelling /\ th[t].x = Control => Control \in ToSet(flying)

ControlLife == CmdLife /\ \A t \in Threads : Knows(t)

\* usbi_handle_disconnect runs, and marks transfers, only on a kernel that does not
\* reap after a disconnect, and then nothing is reaped any more.
Disconnects == removed /\ ~reapAfter

OnThatKernel(t) ==
  /\ th[t].at = "reap" \/ th[t].back = "reap" => ~Disconnects
  /\ th[t].at = "disconnect" \/ th[t].back = "disconnect" => Disconnects

\* The control transfer was marked while its submission holds its lock.
Marked == "DEVICE_DISAPPEARED" \in flags[Control] /\ xl[Control] # None

DisconnectInv ==
  /\ removed => ~plugged
  /\ \A t \in Threads : OnThatKernel(t)
  /\ Marked => Disconnects

FInv == Returns /\ LockOwners /\ Lists /\ ControlLife /\ DisconnectInv

=============================================================================
