------------------------------ MODULE UsbEvents ------------------------------
(***************************************************************************)
(* The event loop of the vendored libusb (io.c, sync.c) under the driver's *)
(* two threads: the reader, which handles events in msisdr_read_async, and *)
(* cmd.  On Android, for which the program is built, cmd is in the event   *)
(* loop only when msisdr_stop_async (async.c:670) calls it for as long as  *)
(* the reader's transfers are not cancelled: its register writes are one   *)
(* USBDEVFS_CONTROL ioctl of the kernel each (libmsisdr.c:33-44, 61-80),   *)
(* and are not in this module.  Built for another system, libmsisdr writes *)
(* registers with libusb_control_transfer (libmsisdr.c:46), which submits  *)
(* a transfer and handles events, or waits for the reader to do so, until  *)
(* it is over.  Here cmd does either, as often as it likes: what is true   *)
(* of the module is true of each build.                                    *)
(* Built without timerfd, so that timeouts are handled by whichever thread *)
(* finds that one has passed.  Below submission and reaping there is one   *)
(* urb per transfer (UsbUrbs models the URBs of one).                      *)
(***************************************************************************)
EXTENDS Naturals, Sequences, FiniteSets, SequencesExt

CONSTANTS
  Streams,      \* the transfers of the stream, resubmitted by their callback
  Timeout,      \* Timeout[x]: units of time until transfer x times out
  SlowSubmits,  \* may a submission take longer than the transfer's timeout?
  Kernels       \* the values of USBFS_CAP_REAP_AFTER_DISCONNECT

\* The control transfer, allocated, submitted and freed by libusb_control_transfer.
Control == "control"
Xfers == Streams \union {Control}
Threads == {"reader", "cmd"}
None == "none"

ASSUME EventsAssumption ==
  /\ IsFiniteSet(Streams) /\ Control \notin Streams /\ None \notin Streams
  /\ Timeout \in [Xfers -> Nat \ {0}]
  /\ SlowSubmits \in BOOLEAN
  /\ Kernels \subseteq BOOLEAN

VARIABLES
  th,       \* th[t]: where thread t is, the transfer it works on, where it returns
  ev,       \* who holds events_lock
  active,   \* event_handler_active
  wl,       \* who holds event_waiters_lock
  fl,       \* who holds flying_transfers_lock
  xl,       \* xl[x]: who holds the lock of transfer x
  flags,    \* flags[x]: the flags of transfer x, enum usbi_transfer_flags
  flying,   \* flying_transfers, sorted by timeout
  left,     \* left[x]: the time left until transfer x times out
  urb,      \* urb[x]: "none", "pending" in the kernel, "done", or "killed": done
            \* with a reap_action of CANCELLED
  doneq,    \* the transfers the kernel has completed, in that order
  done,     \* *completed of the synchronous transfer
  alloc,    \* the control transfer is allocated
  plugged,
  removed,  \* the device's fd was taken out of the poll set
  recent,   \* the transfers submitted again since the event handler's last poll
  started,  \* the transfers msisdr_read_async has submitted
  reapAfter \* the kernel's USBFS_CAP_REAP_AFTER_DISCONNECT: constant

vars == <<th, ev, active, wl, fl, xl, flags, flying, left, urb, doneq, done, alloc,
          plugged, removed, recent, started,
          reapAfter>>

Init ==
  /\ th = [t \in Threads |-> [at |-> IF t = "reader" THEN "start" ELSE "out", x |-> None,
                              back |-> "out", st |-> "COMPLETED"]]
  /\ ev = None /\ active = FALSE /\ wl = None /\ fl = None
  /\ xl = [x \in Xfers |-> None]
  /\ flags = [x \in Xfers |-> {}]
  /\ flying = <<>>
  /\ left = Timeout
  /\ urb = [x \in Xfers |-> "none"] /\ doneq = <<>>
  /\ done = FALSE /\ alloc = FALSE
  /\ plugged = TRUE /\ removed = FALSE /\ recent = {} /\ started = {}
  /\ reapAfter \in Kernels

At(t, place) == th[t].at = place

\* A thread at a place, with what it still needs there.
WithXfer == {"submit", "add", "ioctl", "flag", "unadd", "handle", "classify", "remove",
             "callback", "clear", "cancel", "mark"}

Place(at, x, back, st) ==
  [at   |-> at,
   x    |-> IF at \in WithXfer THEN x ELSE None,
   back |-> IF at \in WithXfer \union {"timeouts", "scan"} THEN back ELSE "out",
   st   |-> IF at \in {"handle", "clear", "remove", "callback"} THEN st ELSE "COMPLETED"]

Move(t, at, x, back, st) == th' = [th EXCEPT ![t] = Place(at, x, back, st)]

Go(t, place) == Move(t, place, th[t].x, th[t].back, th[t].st)

locks == <<ev, active, wl, fl, xl>>
xfers == <<flags, flying, left, urb, doneq>>
rest == <<done, alloc, plugged, removed, recent, started, reapAfter>>

-----------------------------------------------------------------------------
(* libusb_submit_transfer.                                                   *)

\* The transfer's lock is taken, its flags are reset and its timeout set.
SubmitLock(t) ==
  LET x == th[t].x
  IN /\ At(t, "submit") /\ xl[x] = None
     /\ xl' = [xl EXCEPT ![x] = t]
     /\ flags' = [flags EXCEPT ![x] = {"SUBMITTING"}]
     /\ left' = [left EXCEPT ![x] = Timeout[x]]
     /\ Go(t, "add")
     /\ UNCHANGED <<ev, active, wl, fl, flying, urb, doneq, rest>>

\* add_to_flying_list: before the first transfer that times out later.
Inserted(x) ==
  LET later == {i \in DOMAIN flying : left[flying[i]] > left[x]}
  IN InsertAt(flying, IF later = {} THEN Len(flying) + 1 ELSE Min(later), x)

AddToFlyingList(t) ==
  /\ At(t, "add") /\ fl = None
  /\ flying' = Inserted(th[t].x)
  /\ Go(t, "ioctl")
  /\ UNCHANGED <<locks, flags, left, urb, doneq, rest>>

\* usbi_backend->submit_transfer succeeds or fails; flags says so afterwards.
SubmitToKernel(t) ==
  LET x == th[t].x
  IN /\ At(t, "ioctl")
     /\ \/ /\ plugged
           /\ urb' = [urb EXCEPT ![x] = "pending"]
           /\ recent' = IF th[t].back = "reap" THEN recent \union {x} ELSE recent
           /\ Go(t, "flag")
           /\ UNCHANGED flags
        \/ /\ flags' = [flags EXCEPT ![x] = @ \ {"SUBMITTING"}]
           /\ Go(t, "unadd")
           /\ UNCHANGED <<urb, recent>>
     /\ UNCHANGED <<locks, flying, left, doneq, done, alloc, plugged, removed, started, reapAfter>>

\* Where a submission returns: into the sync call, the reader's loop, or the
\* event handler whose callback made it.
Submitted(t, ok) ==
  CASE th[t].back = "finish" /\ ok -> "return"
    [] th[t].back = "start" /\ ~ok -> "out"
    [] OTHER -> th[t].back

\* list_del of the entry of x.
Without(list, x) ==
  IF x \in ToSet(list) THEN RemoveAt(list, CHOOSE i \in DOMAIN list : list[i] = x) ELSE list

Disappeared(x) == "DEVICE_DISAPPEARED" \in flags[x]

\* In flight, unless usbi_handle_disconnect came by before.
SetInFlight(t) ==
  LET x == th[t].x
      gone == Disappeared(x)
  IN /\ At(t, "flag")
     /\ flags' = [flags EXCEPT ![x] = (@ \ {"SUBMITTING"})
                                        \union (IF gone THEN {} ELSE {"IN_FLIGHT"})]
     /\ IF gone
          THEN /\ urb' = [urb EXCEPT ![x] = "none"]
               /\ doneq' = Without(doneq, x)
               /\ Go(t, "unadd") /\ UNCHANGED xl
          ELSE /\ xl' = [xl EXCEPT ![x] = None]
               /\ Go(t, Submitted(t, TRUE)) /\ UNCHANGED <<urb, doneq>>
     /\ UNCHANGED <<ev, active, wl, fl, flying, left, rest>>

\* A failed submission: remove_from_flying_list, with the transfer's lock held.
SubmitFailed(t) ==
  LET x == th[t].x
  IN /\ At(t, "unadd") /\ fl = None
     /\ flying' = Without(flying, x)
     /\ xl' = [xl EXCEPT ![x] = None]
     /\ left' = [left EXCEPT ![x] = Timeout[x]]
     /\ Go(t, Submitted(t, FALSE))
     /\ UNCHANGED <<ev, active, wl, fl, flags, urb, doneq, rest>>

-----------------------------------------------------------------------------
(* The callers.                                                              *)

\* msisdr_read_async submits the transfers of the stream and handles events.
StartStream ==
  /\ At("reader", "start")
  /\ IF started = Streams
       THEN Go("reader", "out") /\ UNCHANGED started
       ELSE \E x \in Streams \ started :
              /\ started' = started \union {x}
              /\ Move("reader", "submit", x, "start", "COMPLETED")
  /\ UNCHANGED <<locks, xfers, done, alloc, plugged, removed, recent, reapAfter>>

ReadOn ==
  /\ At("reader", "out")
  /\ Go("reader", "enter")
  /\ UNCHANGED <<locks, xfers, rest>>

\* msisdr_stop_async handles events and waits for no transfer of its own: completed is
\* NULL.
StopHandles ==
  /\ At("cmd", "out")
  /\ Go("cmd", "enter")
  /\ UNCHANGED <<locks, xfers, rest>>

\* libusb_control_transfer, which no build for Android calls: a transfer is allocated
\* and submitted.
StartControl ==
  /\ At("cmd", "out")
  /\ alloc' = TRUE
  /\ Move("cmd", "submit", Control, "finish", "COMPLETED")
  /\ UNCHANGED <<locks, xfers, done, plugged, removed, recent, started, reapAfter>>

\* A mutant of Completed: whoever sees the timeout does not wait for the callback.
CompletedOrTimedOut == done \/ "TIMED_OUT" \in flags[Control]

\* *completed, set by sync_transfer_cb.
Completed == done

\* The caller of the event functions waits for a transfer: completed is not NULL.
Waits(t) == t = "cmd" /\ alloc

\* Back from the event functions: sync_transfer_wait_for_completion asks
\* whether the transfer is over, msisdr_read_async and msisdr_stop_async go on.
Return(t) ==
  /\ At(t, "return")
  /\ Go(t, IF ~Waits(t) THEN "out" ELSE IF Completed THEN "finish" ELSE "enter")
  /\ UNCHANGED <<locks, xfers, rest>>

\* libusb_control_transfer reads the status and frees the transfer.
FinishControl ==
  /\ At("cmd", "finish")
  /\ alloc' = FALSE /\ done' = FALSE
  /\ Go("cmd", "out")
  /\ UNCHANGED <<locks, xfers, plugged, removed, recent, started, reapAfter>>

-----------------------------------------------------------------------------
(* libusb_handle_events_timeout_completed.                                   *)

\* A mutant of Unhandled: a timeout is handled again, and again.
Listed == DOMAIN flying

Unhandled == {i \in DOMAIN flying : "TIMEOUT_HANDLED" \notin flags[flying[i]]}

\* The next to time out, as the list is sorted.
NextTimeout == flying[Min(Unhandled)]

Expired == Unhandled # {} /\ left[NextTimeout] = 0

\* get_next_timeout
Enter(t) ==
  /\ At(t, "enter") /\ fl = None
  /\ Move(t, IF Expired THEN "timeouts" ELSE "try", None, "return", "COMPLETED")
  /\ UNCHANGED <<locks, xfers, rest>>

\* libusb_try_lock_events takes the lock and then says so.
TryLock(t) ==
  /\ At(t, "try")
  /\ IF ev = None THEN ev' = t /\ Go(t, "taken") ELSE Go(t, "waiters") /\ UNCHANGED ev
  /\ UNCHANGED <<active, wl, fl, xl, xfers, rest>>

SetActive(t) ==
  /\ At(t, "taken")
  /\ active' = TRUE
  /\ Go(t, "locked")
  /\ UNCHANGED <<ev, wl, fl, xl, xfers, rest>>

\* *completed is asked again under the lock.
CheckCompleted(t) == Waits(t) /\ Completed

Locked(t) ==
  /\ At(t, "locked")
  /\ Go(t, IF CheckCompleted(t) THEN "unlock" ELSE "poll")
  /\ UNCHANGED <<locks, xfers, rest>>

\* libusb_unlock_events
Unlock(t) ==
  /\ At(t, "unlock")
  /\ active' = FALSE /\ recent' = {}
  /\ Go(t, "release")
  /\ UNCHANGED <<ev, wl, fl, xl, xfers, done, alloc, plugged, removed, started, reapAfter>>

Release(t) ==
  /\ At(t, "release")
  /\ ev' = None
  /\ Go(t, "broadcast")
  /\ UNCHANGED <<active, wl, fl, xl, xfers, rest>>

Broadcast(t) ==
  /\ At(t, "broadcast") /\ wl = None
  /\ th' = [u \in Threads |->
              CASE u = t -> Place("return", None, "out", "COMPLETED")
                [] At(u, "asleep") -> Place("awake", None, "out", "COMPLETED")
                [] OTHER -> th[u]]
  /\ UNCHANGED <<locks, xfers, rest>>

\* libusb_lock_event_waiters
LockWaiters(t) ==
  /\ At(t, "waiters") /\ wl = None
  /\ wl' = t
  /\ Go(t, "check")
  /\ UNCHANGED <<ev, active, fl, xl, xfers, rest>>

\* A mutant of HandlerWentAway: the handler is not looked for again.
HandlerAssumed == FALSE

HandlerWentAway == ~active

\* Over already, no handler any more, or libusb_wait_for_event.
CheckHandler(t) ==
  /\ At(t, "check")
  /\ wl' = None
  /\ Go(t, IF CheckCompleted(t) THEN "return" ELSE IF HandlerWentAway THEN "try" ELSE "asleep")
  /\ UNCHANGED <<ev, active, fl, xl, xfers, rest>>

\* The wait times out (Broadcast ends it otherwise); both need the lock again.
WaitTimesOut(t) ==
  /\ At(t, "asleep") /\ wl = None
  /\ Move(t, "timeouts", None, "return", "COMPLETED")
  /\ UNCHANGED <<locks, xfers, rest>>

Awake(t) ==
  /\ At(t, "awake") /\ wl = None
  /\ Go(t, "return")
  /\ UNCHANGED <<locks, xfers, rest>>

-----------------------------------------------------------------------------
(* handle_events and op_handle_events.                                       *)

\* poll answers 0 only when no descriptor is ready.
PollTimesOut(t) ==
  /\ At(t, "poll")
  /\ IF plugged THEN doneq = <<>> ELSE removed
  /\ Move(t, "timeouts", None, "unlock", "COMPLETED")
  /\ UNCHANGED <<locks, xfers, rest>>

PollReady(t) ==
  /\ At(t, "poll") /\ plugged /\ doneq # <<>>
  /\ Go(t, "reap")
  /\ UNCHANGED <<locks, xfers, rest>>

\* A mutant of AfterGone: what the kernel gave back is left to nobody.
GoneUnseen == "unlock"

AfterGone == IF reapAfter THEN "reap" ELSE "disconnect"

\* POLLERR: the descriptor leaves the poll set.
PollGone(t) ==
  /\ At(t, "poll") /\ ~plugged /\ ~removed
  /\ removed' = TRUE
  /\ Go(t, AfterGone)
  /\ UNCHANGED <<locks, xfers, done, alloc, plugged, recent, started, reapAfter>>

\* reap_for_handle, until there is none left.
Reap(t) ==
  /\ At(t, "reap")
  /\ IF doneq = <<>>
       THEN Go(t, "unlock") /\ UNCHANGED <<urb, doneq>>
       ELSE /\ doneq' = Tail(doneq)
            /\ urb' = [urb EXCEPT ![Head(doneq)] = "none"]
            /\ Move(t, "handle", Head(doneq), "reap",
                    IF urb[Head(doneq)] = "killed" THEN "CANCELLED" ELSE "COMPLETED")
  /\ UNCHANGED <<locks, flags, flying, left, rest>>

\* The completion handlers of the backend, under the transfer's lock.
Handle(t) ==
  LET x == th[t].x
  IN /\ At(t, "handle") /\ xl[x] = None
     /\ IF th[t].st = "CANCELLED"
          THEN Go(t, "classify")
          ELSE \E st \in {"COMPLETED"} \union (IF plugged THEN {} ELSE {"NO_DEVICE"}) :
                 Move(t, "remove", x, "reap", st)
     /\ UNCHANGED <<locks, xfers, rest>>

\* usbi_handle_transfer_cancellation reads the flags without a lock.
Classify(t) ==
  /\ At(t, "classify")
  /\ Move(t, "remove", th[t].x, "reap",
          IF "TIMED_OUT" \in flags[th[t].x] THEN "TIMED_OUT" ELSE "CANCELLED")
  /\ UNCHANGED <<locks, xfers, rest>>

\* remove_from_flying_list
RemoveFlying(t) ==
  /\ At(t, "remove") /\ fl = None
  /\ flying' = Without(flying, th[t].x)
  /\ Go(t, "callback")
  /\ UNCHANGED <<locks, flags, left, urb, doneq, rest>>

\* usbi_handle_transfer_completion: sync_transfer_cb sets *completed; the
\* stream's callback submits again unless cancelled or unplugged.  Flags and
\* timeout are not read again before the next submission resets them.

Callback(t) ==
  LET x == th[t].x
      again == x \in Streams /\ th[t].st \in {"COMPLETED", "TIMED_OUT"}
  IN /\ At(t, "callback")
     /\ flags' = [flags EXCEPT ![x] = {"COMPLETED"}]
     /\ left' = [left EXCEPT ![x] = Timeout[x]]
     /\ done' = (done \/ x = Control)
     /\ Go(t, IF again THEN "submit" ELSE th[t].back)
     /\ UNCHANGED <<locks, flying, urb, doneq, alloc, plugged, removed, recent, started, reapAfter>>

\* usbi_handle_disconnect: up to the first transfer in flight, every listed
\* one is marked; that one is cleared and reported.
Disconnect(t) ==
  LET inFlight == {i \in DOMAIN flying : "IN_FLIGHT" \in flags[flying[i]]}
      first == IF inFlight = {} THEN Len(flying) + 1 ELSE Min(inFlight)
  IN /\ At(t, "disconnect") /\ fl = None
     /\ flags' = [x \in Xfers |->
                    IF \E i \in 1 .. (first - 1) : flying[i] = x
                      THEN flags[x] \union {"DEVICE_DISAPPEARED"} ELSE flags[x]]
     /\ IF inFlight = {}
          THEN Go(t, "unlock")
          ELSE Move(t, "clear", flying[first], "disconnect", "NO_DEVICE")
     /\ UNCHANGED <<locks, flying, left, urb, doneq, rest>>

ClearPriv(t) ==
  /\ At(t, "clear") /\ xl[th[t].x] = None
  /\ urb' = [urb EXCEPT ![th[t].x] = "none"]
  /\ doneq' = Without(doneq, th[t].x)
  /\ Go(t, "remove")
  /\ UNCHANGED <<locks, flags, flying, left, rest>>

-----------------------------------------------------------------------------
(* handle_timeouts, by whoever finds a timeout passed.                       *)

LockFlying(t) ==
  /\ At(t, "timeouts") /\ fl = None
  /\ fl' = t
  /\ Go(t, "scan")
  /\ UNCHANGED <<ev, active, wl, xl, xfers, rest>>

Scan(t) ==
  /\ At(t, "scan")
  /\ IF Expired
       THEN /\ flags' = [flags EXCEPT ![NextTimeout] = @ \union {"TIMEOUT_HANDLED"}]
            /\ Move(t, "cancel", NextTimeout, th[t].back, "COMPLETED")
            /\ UNCHANGED fl
       ELSE /\ fl' = None
            /\ Go(t, th[t].back) /\ UNCHANGED flags
  /\ UNCHANGED <<ev, active, wl, xl, flying, left, urb, doneq, rest>>

\* libusb_cancel_transfer: the URB is discarded unless it is done or gone.
Cancel(t) ==
  LET x == th[t].x
      refused == "IN_FLIGHT" \notin flags[x] \/ "CANCELLING" \in flags[x]
      discarded == ~refused /\ plugged /\ urb[x] = "pending"
  IN /\ At(t, "cancel") /\ xl[x] = None
     /\ flags' = [flags EXCEPT ![x] = @ \union
          (IF refused THEN {}
           ELSE {"CANCELLING"} \union (IF ~plugged /\ urb[x] # "none"
                                         THEN {"DEVICE_DISAPPEARED"} ELSE {}))]
     /\ urb' = IF discarded THEN [urb EXCEPT ![x] = "killed"] ELSE urb
     /\ doneq' = IF discarded THEN Append(doneq, x) ELSE doneq
     /\ Go(t, IF discarded THEN "mark" ELSE "scan")
     /\ UNCHANGED <<locks, flying, left, rest>>

\* Only now is the transfer said to have timed out.
Mark(t) ==
  /\ At(t, "mark")
  /\ flags' = [flags EXCEPT ![th[t].x] = @ \union {"TIMED_OUT"}]
  /\ Go(t, "scan")
  /\ UNCHANGED <<locks, flying, left, urb, doneq, rest>>

-----------------------------------------------------------------------------
(* The kernel and time.                                                      *)

\* A transfer takes longer than the loop of op_handle_events that submits it
\* again: what is in recent is neither done nor timed out before the handler
\* polls again.
KernelCompletes(x) ==
  /\ urb[x] = "pending" /\ x \notin recent
  /\ urb' = [urb EXCEPT ![x] = "done"] /\ doneq' = Append(doneq, x)
  /\ UNCHANGED <<th, locks, flags, flying, left, rest>>

Pending == {x \in Xfers : urb[x] = "pending"}

\* The kernel gives every URB back, in any order, before it reports POLLERR.
Unplug ==
  /\ plugged
  /\ plugged' = FALSE
  /\ urb' = [x \in Xfers |-> IF x \in Pending THEN "done" ELSE urb[x]]
  /\ \E given \in SetToSeqs(Pending) : doneq' = doneq \o given
  /\ UNCHANGED <<th, locks, flags, flying, left, done, alloc, removed, recent, started, reapAfter>>

Tick ==
  /\ \E i \in DOMAIN flying : left[flying[i]] > 0
  /\ \A t \in Threads :
       th[t].at \in {"ioctl", "flag", "unadd"} /\ left[th[t].x] = 1 => SlowSubmits
  /\ \A x \in recent : left[x] > 1
  /\ left' = [x \in Xfers |-> IF x \in ToSet(flying) /\ left[x] > 0 THEN left[x] - 1
                              ELSE left[x]]
  /\ UNCHANGED <<th, locks, flags, flying, urb, doneq, rest>>

Step(t) ==
  \/ SubmitLock(t) \/ AddToFlyingList(t) \/ SubmitToKernel(t) \/ SetInFlight(t)
  \/ SubmitFailed(t) \/ Return(t)
  \/ Enter(t) \/ TryLock(t) \/ SetActive(t) \/ Locked(t) \/ Unlock(t) \/ Release(t)
  \/ Broadcast(t) \/ LockWaiters(t) \/ CheckHandler(t) \/ WaitTimesOut(t) \/ Awake(t)
  \/ PollTimesOut(t) \/ PollReady(t) \/ PollGone(t) \/ Reap(t) \/ Handle(t) \/ Classify(t)
  \/ RemoveFlying(t) \/ Callback(t) \/ Disconnect(t) \/ ClearPriv(t)
  \/ LockFlying(t) \/ Scan(t) \/ Cancel(t) \/ Mark(t)

Next ==
  \/ \E t \in Threads : Step(t)
  \/ StartStream \/ ReadOn \/ StopHandles \/ StartControl \/ FinishControl
  \/ \E x \in Xfers : KernelCompletes(x)
  \/ Unplug \/ Tick

Spec == Init /\ [][Next]_vars

\* A thread that waits for a mutex gets it some day, time passes, and the
\* thread in msisdr_read_async goes on.  Nothing is assumed of the device: it
\* need not answer, and the command thread need not call anything.
FairSpec ==
  /\ Spec
  /\ \A t \in Threads : SF_vars(Step(t))
  /\ WF_vars(StartStream) /\ WF_vars(ReadOn) /\ WF_vars(FinishControl) /\ WF_vars(Tick)

-----------------------------------------------------------------------------
(* Properties.                                                               *)

\* A thread sleeps in libusb_wait_for_event only while another one handles
\* events or is about to wake it: no wakeup is lost, whatever happens between
\* the failed try of the lock and the wait (io.c:2316).
NoSleeper ==
  \A t \in Threads : At(t, "asleep") =>
    active \/ \E u \in Threads \ {t} : th[u].at \in {"release", "broadcast"}

\* When libusb_control_transfer has freed its transfer nobody has it any more:
\* not the list, not the kernel and not the thread that handles events or
\* timeouts (sync.c:160).
FreedIsGone ==
  ~alloc => /\ Control \notin ToSet(flying) /\ xl[Control] = None /\ urb[Control] = "none"
            /\ \A t \in Threads :
                 th[t].x = Control =>
                   th[t].at \notin {"handle", "classify", "remove", "callback", "clear",
                                    "cancel", "mark"}

\* The loop of libusb_handle_events_timeout_completed (io.c:2302-2324): the events lock
\* is taken, but then nobody says any more, or not yet, that he handles events.
Retries(t) == th[t].at \in {"try", "waiters", "check"}

\* What the command thread calls of libusb returns, with the device silent or unplugged
\* and with either thread handling the events and timeouts of both.  That is, on
\* Android, libusb_handle_events_timeout in msisdr_stop_async (async.c:670), whose
\* callbacks submit the stream's transfers again: it ends unless it finds the lock
\* taken and the handler gone for ever, for which the code has no bound.  In other
\* builds it is libusb_control_transfer, too, and that always ends: each round asks
\* whether its transfer is over.
CallsEnd ==
  (th["cmd"].at # "out") ~> (At("cmd", "out") \/ (~alloc /\ Retries("cmd")))

\* After an unplug every transfer of the stream is reported or refused, and
\* none is left for which msisdr_read_async would wait.
GoneEnds == ~plugged ~> (ToSet(flying) \subseteq {Control})

=============================================================================
