------------------------------- MODULE UsbUrbs -------------------------------
(***************************************************************************)
(* The Linux backend of the vendored libusb (os/linux_usbfs.c): how one    *)
(* transfer is split into URBs, handed to the kernel, discarded and reaped *)
(* until its end is reported once.  itransfer->lock is held for the whole  *)
(* of a submission, a cancellation and the handling of a reaped URB, so    *)
(* job is what its holder is doing; the kernel moves at any time.  Lengths *)
(* are in units of data; the endpoint is an IN endpoint, as the driver's.  *)
(* The kernel (usbfs) is external: it is modelled as libusb's code and     *)
(* comments take it to behave.                                             *)
(***************************************************************************)
EXTENDS Naturals, Sequences, FiniteSets

CONSTANTS
  Cap,          \* MAX_BULK_BUFFER_LENGTH and MAX_ISO_BUFFER_LENGTH
  Requests,     \* the transfers, see RequestOK
  Races,        \* which of the three races below the kernel may run into
  MaxSubmits    \* bound of the model: how often the transfer is submitted

\* usbfs capabilities: "scatter" (or no size limit), "continuation", "plain".
RequestOK(r) ==
  /\ r.type \in {"control", "bulk", "iso"}
  /\ r.lens \in Seq(Nat) /\ r.lens # <<>>  \* packets, or the one length of a buffer
  /\ r.type # "iso" => Len(r.lens) = 1
  /\ r.caps \in {"scatter", "continuation", "plain"}
  /\ r.reapAfter \in BOOLEAN               \* USBFS_CAP_REAP_AFTER_DISCONNECT

\* "stall":  an endpoint stalls with URBs split without continuation behind it
\* "unplug": the device goes between two ioctls of one cancellation
\* "early":  a continued transfer fails while its last URBs are being submitted
RaceKinds == {"stall", "unplug", "early"}

ASSUME UrbAssumption ==
  /\ Cap \in Nat \ {0}
  /\ \A r \in Requests : RequestOK(r)
  /\ Races \subseteq RaceKinds
  /\ MaxSubmits \in Nat

VARIABLES
  req,          \* the transfer: constant
  submits,      \* how often it was submitted
  flags,        \* "idle", "flying" or "cancelling": the flags of io.c
  job,          \* what the holder of itransfer->lock is doing
  urb,          \* the URBs of the last submission
  doneq,        \* the URBs the kernel has completed, in that order
  reaping,      \* the URB returned by REAPURBNDELAY and not yet handled, 0: none
  report,       \* the status the event handler is about to report, or "none"
  priv,         \* linux_transfer_priv
  out,          \* the user's buffer (or packet descriptors): which datum is where
  transferred,  \* itransfer->transferred
  arrived,      \* the number of data the device has delivered
  halted,       \* the endpoint failed: the kernel keeps what is queued behind
  plugged,
  accepted,     \* op_cancel_transfer of this submission returned 0
  told          \* the status reported for the last submission, or "none"

vars == <<req, submits, flags, job, urb, doneq, reaping, report, priv, out, transferred,
          arrived, halted, plugged, accepted, told>>

NoJob == [do |-> "none"]

Min2(a, b) == IF a < b THEN a ELSE b

-----------------------------------------------------------------------------
(* Splitting a transfer.  An URB holds the positions first + 1 .. first + len *)
(* of the buffer, or the packets of these numbers.                            *)

Fresh(first, len, cont, last) ==
  [first |-> first, len |-> len, cont |-> cont, shortNotOk |-> ~last, st |-> "new",
   status |-> "OK", data |-> 0]

BulkPiece == IF req.caps = "scatter" THEN req.lens[1] + (IF req.lens[1] = 0 THEN 1 ELSE 0)
             ELSE Cap

BulkUrbs ==
  LET length == req.lens[1]
      n == IF length = 0 THEN 1 ELSE (length + BulkPiece - 1) \div BulkPiece
  IN [i \in 1 .. n |->
        Fresh((i - 1) * BulkPiece, Min2(BulkPiece, length - (i - 1) * BulkPiece),
              req.caps = "continuation" /\ i > 1, req.caps # "continuation" \/ i = n)]

\* Pack[k]: the URB of packet k and how full that URB is with it.
Pack[k \in 1 .. Len(req.lens)] ==
  IF k = 1 THEN [urb |-> 1, used |-> req.lens[1]]
  ELSE IF req.lens[k] > Cap - Pack[k - 1].used
       THEN [urb |-> Pack[k - 1].urb + 1, used |-> req.lens[k]]
       ELSE [urb |-> Pack[k - 1].urb, used |-> Pack[k - 1].used + req.lens[k]]

IsoUrbs ==
  LET K == 1 .. Len(req.lens)
      Of(i) == {k \in K : Pack[k].urb = i}
      First(i) == CHOOSE k \in Of(i) : \A j \in Of(i) : k <= j
  IN [i \in 1 .. Pack[Len(req.lens)].urb |->
        Fresh(First(i) - 1, Cardinality(Of(i)), FALSE, TRUE)]

ControlUrbs == << Fresh(0, req.lens[1], FALSE, TRUE) >>

Positions == 1 .. IF req.type = "iso" THEN Len(req.lens) ELSE req.lens[1]

-----------------------------------------------------------------------------

Init ==
  /\ req \in Requests
  /\ submits = 0
  /\ flags = "idle"
  /\ job = NoJob
  /\ urb = <<>>
  /\ doneq = <<>>
  /\ reaping = 0
  /\ report = "none"
  /\ priv = [urbs |-> FALSE, action |-> "NORMAL", retired |-> 0, status |-> "COMPLETED",
             packet |-> 0]
  /\ out = [p \in Positions |-> 0]
  /\ transferred = 0
  /\ arrived = 0
  /\ halted = FALSE
  /\ plugged = TRUE
  /\ accepted = FALSE
  /\ told = "none"

Num == Len(urb)

\* The URBs the kernel still has.
Pending == {i \in 1 .. Num : urb[i].st = "pending"}

\* The one the endpoint is working on: URBs of an endpoint are served in order.
Served(i) == i \in Pending /\ \A j \in Pending : i <= j

\* The sequence of the URBs in S, in order.
InOrder(S) ==
  {s \in [1 .. Cardinality(S) -> S] :
     /\ \A i \in S : \E n \in DOMAIN s : s[n] = i
     /\ \A m, n \in DOMAIN s : m < n => s[m] < s[n]}

-----------------------------------------------------------------------------
(* The kernel.                                                               *)

\* URB i ends with d data, which follow those that arrived before.
Finished(i, d, status) ==
  /\ urb' = [urb EXCEPT ![i].st = "done", ![i].status = status, ![i].data = d]
  /\ doneq' = Append(doneq, i)
  /\ out' = [p \in Positions |->
               IF req.type # "iso" /\ p \in urb[i].first + 1 .. urb[i].first + d
                 THEN arrived + p - urb[i].first ELSE out[p]]
  /\ arrived' = arrived + d

KernelOnly ==
  UNCHANGED <<req, submits, flags, job, reaping, report, priv, transferred, plugged,
              accepted, told>>

\* An URB is filled, or a short packet ends it.
KernelCompletes(i) ==
  /\ Served(i) /\ plugged /\ ~halted
  /\ \E d \in 0 .. urb[i].len :
       /\ req.type = "iso" => d = urb[i].len
       /\ d < urb[i].len => ~(urb[i].shortNotOk)
       /\ Finished(i, d, "OK")
  /\ UNCHANGED halted
  /\ KernelOnly

\* An URB fails.  In a continued transfer, a short URB that is not the last one
\* fails too, and the kernel cancels the URBs behind one that fails, in order.
KernelFails(i, status) ==
  LET d == IF status = "REMOTEIO" THEN 0 .. urb[i].len - 1 ELSE {0, urb[i].len}
      cancels == req.caps = "continuation"
      lost == {j \in Pending : cancels /\ j > i}
  IN
  /\ Served(i) /\ plugged /\ ~halted
  /\ req.type = "iso" => status = "PROTO"
  /\ status = "REMOTEIO" => cancels /\ urb[i].shortNotOk
  /\ status = "OVERFLOW" => i = Num /\ job.do # "submit"
  /\ status = "PIPE" => Num <= 2 \/ cancels \/ "stall" \in Races
  /\ status \in {"PIPE", "PROTO"} /\ cancels => job.do # "submit" \/ "early" \in Races
  /\ \E k \in d :
       LET after == [urb EXCEPT ![i].st = "done", ![i].status = status, ![i].data = k]
       IN /\ urb' = [j \in 1 .. Num |->
                       IF j \in lost THEN [after[j] EXCEPT !.st = "done", !.status = "ENOENT"]
                       ELSE after[j]]
          /\ \E behind \in InOrder(lost) : doneq' = Append(doneq, i) \o behind
          /\ out' = [p \in Positions |->
                       IF req.type # "iso" /\ p \in urb[i].first + 1 .. urb[i].first + k
                         THEN arrived + p - urb[i].first ELSE out[p]]
          /\ arrived' = arrived + k
  /\ halted' = (req.type # "iso")
  /\ KernelOnly

\* The device goes: the kernel ends what it has, in order.
Unplug ==
  /\ plugged
  /\ job.do = "discard" /\ job.who = "cancel" => Num = 1 \/ "unplug" \in Races
  /\ plugged' = FALSE
  /\ urb' = [i \in 1 .. Num |->
               IF i \in Pending THEN [urb[i] EXCEPT !.st = "done", !.status = "SHUTDOWN"]
               ELSE urb[i]]
  /\ \E all \in InOrder(Pending) : doneq' = doneq \o all
  /\ UNCHANGED <<req, submits, flags, job, reaping, report, priv, out, transferred, arrived,
                 halted, accepted, told>>

-----------------------------------------------------------------------------
(* The user's thread: op_submit_transfer and op_cancel_transfer, called with  *)
(* itransfer->lock held and for a transfer in the right state of io.c.        *)

\* What the three kinds of submission have in common: the URBs are ready and the
\* first ioctl comes next.
Begin(urbs, p) ==
  /\ job = NoJob /\ flags = "idle" /\ report = "none" /\ submits < MaxSubmits
  /\ submits' = submits + 1
  /\ urb' = urbs
  /\ priv' = [p EXCEPT !.urbs = TRUE, !.action = "NORMAL"]
  /\ job' = [do |-> "submit", i |-> 1]
  /\ transferred' = 0 /\ arrived' = 0 /\ accepted' = FALSE /\ halted' = FALSE
  /\ out' = [k \in Positions |-> 0]
  /\ told' = "none"
  /\ UNCHANGED <<req, flags, doneq, reaping, report, plugged>>

SubmitBulk ==
  req.type = "bulk" /\ Begin(BulkUrbs, [priv EXCEPT !.retired = 0, !.status = "COMPLETED"])

\* A packet that fits into no URB is refused.
SubmitIso ==
  /\ req.type = "iso"
  /\ \A k \in DOMAIN req.lens : req.lens[k] <= Cap
  /\ Begin(IsoUrbs, [priv EXCEPT !.retired = 0, !.packet = 0])

SubmitControl == req.type = "control" /\ Begin(ControlUrbs, priv)

Submit == SubmitBulk \/ SubmitIso \/ SubmitControl

\* SUBMITURB accepts URB i of the loop; the last one ends the submission.
SubmitUrb ==
  /\ job.do = "submit" /\ plugged
  /\ ~(halted /\ urb[job.i].cont)
  /\ urb' = [urb EXCEPT ![job.i].st = "pending"]
  /\ IF job.i = Num
       THEN job' = NoJob /\ flags' = "flying"
       ELSE job' = [job EXCEPT !.i = @ + 1] /\ UNCHANGED flags
  /\ UNCHANGED <<req, submits, doneq, reaping, report, priv, out, transferred, arrived,
                 halted, plugged, accepted, told>>

\* A job of discard_urbs: URBs first .. last, the last one first.
Discard(first, last, who) ==
  [do |-> "discard", first |-> first, last |-> last, i |-> last, ret |-> "OK", who |-> who]

\* SUBMITURB fails for the first URB, and the submission with it.
FirstFails ==
  /\ job.do = "submit" /\ job.i = 1
  /\ priv' = [priv EXCEPT !.urbs = FALSE]
  /\ job' = NoJob
  /\ UNCHANGED <<req, submits, flags, urb, doneq, reaping, report, out, transferred, arrived,
                 halted, plugged, accepted, told>>

\* The URBs of the loop that were not submitted.  The second and the third forms
\* are mutants of it, a URB too many and one too few.
NotSubmittedMore == Num - job.i + 2
NotSubmittedLess == Num - job.i
NotSubmitted == Num - job.i + 1

\* It fails for a later one: the submission is reported as successful, the URBs
\* not submitted count as retired and the others are discarded, unless the kernel
\* answered EREMOTEIO: an earlier URB has ended the transfer.
LaterFails ==
  LET early == halted /\ urb[job.i].cont
  IN
  /\ job.do = "submit" /\ job.i > 1
  /\ priv' = [priv EXCEPT !.action = IF early THEN "COMPLETED_EARLY" ELSE "SUBMIT_FAILED",
                          !.retired = @ + NotSubmitted]
  /\ job' = IF early THEN NoJob ELSE Discard(1, job.i - 1, "submit")
  /\ flags' = IF early THEN "flying" ELSE flags
  /\ UNCHANGED <<req, submits, urb, doneq, reaping, report, out, transferred, arrived,
                 halted, plugged, accepted, told>>

\* op_cancel_transfer finds URBs to discard, or none: then LIBUSB_ERROR_NOT_FOUND.
Cancel ==
  /\ job = NoJob /\ flags = "flying"
  /\ job' = IF priv.urbs THEN Discard(1, Num, "cancel") ELSE NoJob
  /\ flags' = "cancelling"
  /\ UNCHANGED <<req, submits, urb, doneq, reaping, report, priv, out, transferred, arrived,
                 halted, plugged, accepted, told>>

\* DISCARDURB: the kernel kills the URB, which may have got some of its data if
\* it was the one served; EINVAL if it has none; ENODEV without a device.
DiscardUrb ==
  /\ job.do = "discard" /\ job.i >= job.first
  /\ LET i == job.i
     IN \/ /\ plugged /\ i \in Pending
           /\ \E d \in 0 .. urb[i].len : /\ d = 0 \/ (Served(i) /\ ~halted /\ d < urb[i].len)
                                         /\ Finished(i, d, "ENOENT")
           /\ job' = [job EXCEPT !.i = @ - 1]
        \/ /\ plugged /\ i \notin Pending
           /\ job' = [job EXCEPT !.i = @ - 1, !.ret = IF i = job.last THEN "NOT_FOUND" ELSE @]
           /\ UNCHANGED <<urb, doneq, out, arrived>>
        \/ /\ ~plugged
           /\ job' = [job EXCEPT !.i = @ - 1, !.ret = "NO_DEVICE"]
           /\ UNCHANGED <<urb, doneq, out, arrived>>
  /\ UNCHANGED <<req, submits, flags, reaping, report, priv, transferred, halted, plugged,
                 accepted, told>>

\* The last ioctl was made: back in op_cancel_transfer, the submission or the
\* completion handler that called discard_urbs, which release the lock.
DiscardEnds ==
  /\ job.do = "discard" /\ job.i < job.first
  /\ job' = NoJob
  /\ flags' = IF job.who = "submit" THEN "flying" ELSE flags
  /\ IF job.who = "cancel" /\ job.ret = "OK"
       THEN /\ accepted' = TRUE
            /\ priv' = IF req.type = "bulk" /\ priv.action = "ERROR" THEN priv
                       ELSE [priv EXCEPT !.action = "CANCELLED"]
       ELSE UNCHANGED <<accepted, priv>>
  /\ UNCHANGED <<req, submits, urb, doneq, reaping, report, out, transferred, arrived, halted,
                 plugged, told>>

-----------------------------------------------------------------------------
(* The event handler.                                                        *)

\* REAPURBNDELAY: ENODEV for the URBs of a device that is gone, unless the
\* kernel can reap after a disconnect.
Reap ==
  /\ reaping = 0 /\ report = "none" /\ doneq # <<>>
  /\ plugged \/ req.reapAfter
  /\ reaping' = Head(doneq)
  /\ doneq' = Tail(doneq)
  /\ UNCHANGED <<req, submits, flags, job, urb, report, priv, out, transferred, arrived,
                 halted, plugged, accepted, told>>

\* The handlers below take the lock with URB u in hand.
Handling(type, u) == reaping = u /\ job = NoJob /\ req.type = type /\ priv.urbs

\* What they leave: the URB counted as retired, and the URBs freed and a status
\* to report (CANCELLED if a cancellation was accepted) if the transfer is over.
Leave(u, p, over, status) ==
  /\ reaping' = 0
  /\ urb' = [urb EXCEPT ![u].st = "retired"]
  /\ priv' = [p EXCEPT !.urbs = ~over]
  /\ report' = IF ~over THEN "none" ELSE IF p.action = "CANCELLED" THEN "CANCELLED" ELSE status
  /\ UNCHANGED <<req, submits, flags, doneq, arrived, halted, plugged, accepted, told>>

\* The buffer with the data of URB u moved behind the data received so far.  The
\* first form, a mutant of it, leaves the data where the URB has put it.
SurplusLeft(u) == out
SurplusMoved(u) ==
  [p \in Positions |-> IF p \in transferred + 1 .. transferred + urb[u].data
                        THEN out[urb[u].first + p - transferred] ELSE out[p]]

\* The status of a transfer all of whose URBs are back.  The first form, a mutant
\* of it, forgets that the transfer was not submitted as a whole.
AbnormalStatusKept == priv.status
AbnormalStatus ==
  IF priv.action # "COMPLETED_EARLY" /\ priv.status = "COMPLETED" THEN "ERROR"
  ELSE priv.status

\* handle_bulk_completion of a transfer that was cancelled, whose submission
\* failed or that ended early: data that came nevertheless is kept.
BulkSurplus ==
  \E u \in 1 .. Num :
    LET over == priv.retired + 1 = Num
    IN
    /\ Handling("bulk", u) /\ priv.action # "NORMAL"
    /\ out' = SurplusMoved(u)
    /\ transferred' = transferred + urb[u].data
    /\ Leave(u, [priv EXCEPT !.retired = @ + 1, !.status = IF over THEN AbnormalStatus ELSE @],
             over, AbnormalStatus)
    /\ UNCHANGED job

\* handle_bulk_completion otherwise.  A failure, and a short URB that is not the
\* last one, have the URBs behind it discarded.
BulkNormal ==
  \E u \in 1 .. Num :
    LET a == urb[u]
        retired == priv.retired + 1
        good == a.status \in {"OK", "REMOTEIO", "ENOENT"}
        short == good /\ u # Num /\ a.data < a.len
        status == CASE a.status = "SHUTDOWN" -> "NO_DEVICE"
                    [] a.status = "PIPE" /\ priv.status = "COMPLETED" -> "STALL"
                    [] a.status = "OVERFLOW" /\ priv.status = "COMPLETED" -> "OVERFLOW"
                    [] a.status = "PROTO" /\ priv.status = "COMPLETED" -> "ERROR"
                    [] OTHER -> priv.status
        over == \/ a.status = "OVERFLOW"
                \/ good /\ u = Num
                \/ (short \/ ~good) /\ retired = Num
    IN
    /\ Handling("bulk", u) /\ priv.action = "NORMAL"
    /\ transferred' = transferred + a.data
    /\ Leave(u, [priv EXCEPT !.retired = retired, !.status = status,
                             !.action = IF short THEN "COMPLETED_EARLY"
                                        ELSE IF a.status = "PROTO" THEN "ERROR" ELSE @],
             over, status)
    /\ job' = IF (short \/ ~good) /\ ~over THEN Discard(u + 1, Num, "reap") ELSE NoJob
    /\ UNCHANGED out

\* handle_iso_completion: the results of the packets are copied to the next
\* descriptors of the transfer, whatever URB they are of.
IsoCompletion ==
  \E u \in 1 .. Num :
    LET a == urb[u]
        retired == priv.retired + 1
        normal == priv.action = "NORMAL"
    IN
    /\ Handling("iso", u)
    /\ out' = [p \in Positions |->
                 IF p \in priv.packet + 1 .. priv.packet + a.len
                   THEN a.first + p - priv.packet ELSE out[p]]
    /\ Leave(u, [priv EXCEPT !.retired = retired, !.packet = @ + a.len],
             IF normal THEN u = Num ELSE retired = Num,
             CASE ~normal -> "ERROR"
               [] normal /\ a.status = "SHUTDOWN" -> "NO_DEVICE"
               [] normal /\ a.status = "PROTO" -> "ERROR"
               [] OTHER -> "COMPLETED")
    /\ UNCHANGED <<job, transferred>>

\* handle_control_completion.
ControlCompletion ==
  LET a == urb[1]
  IN
  /\ Handling("control", 1)
  /\ transferred' = transferred + a.data
  /\ Leave(1, priv, TRUE,
           CASE a.status = "OK" -> "COMPLETED"
             [] a.status = "ENOENT" -> "CANCELLED"
             [] a.status = "SHUTDOWN" -> "NO_DEVICE"
             [] a.status = "PIPE" -> "STALL"
             [] a.status = "OVERFLOW" -> "OVERFLOW"
             [] OTHER -> "ERROR")
  /\ UNCHANGED <<job, out>>

\* usbi_handle_transfer_completion, without the lock, up to the callback.
Report ==
  /\ report # "none" /\ job = NoJob
  /\ told' = report
  /\ report' = "none"
  /\ flags' = "idle"
  /\ UNCHANGED <<req, submits, job, urb, doneq, reaping, priv, out, transferred, arrived,
                 halted, plugged, accepted>>

\* op_handle_events finds POLLERR: usbi_handle_disconnect drops the URBs that
\* cannot be reaped and ends the transfer.
Disconnect ==
  /\ ~plugged /\ ~req.reapAfter /\ reaping = 0 /\ report = "none" /\ job = NoJob
  /\ flags # "idle"
  /\ priv' = [priv EXCEPT !.urbs = FALSE]
  /\ urb' = [i \in 1 .. Num |-> [urb[i] EXCEPT !.st = "retired"]]
  /\ doneq' = <<>>
  /\ report' = "NO_DEVICE"
  /\ UNCHANGED <<req, submits, flags, job, reaping, out, transferred, arrived, halted,
                 plugged, accepted, told>>

-----------------------------------------------------------------------------

Kernel ==
  \/ \E i \in 1 .. Num : KernelCompletes(i)
  \/ \E i \in 1 .. Num, status \in {"REMOTEIO", "PIPE", "OVERFLOW", "PROTO"} :
       KernelFails(i, status)
  \/ Unplug

\* The steps of a thread inside the library.
InCall == SubmitUrb \/ FirstFails \/ LaterFails \/ DiscardUrb \/ DiscardEnds

Events == Reap \/ BulkSurplus \/ BulkNormal \/ IsoCompletion \/ ControlCompletion
            \/ Report \/ Disconnect

Next == Kernel \/ Submit \/ Cancel \/ InCall \/ Events

Spec == Init /\ [][Next]_vars

\* Calls return and the thread of msisdr_read_async keeps handling events;
\* nothing is assumed of the device.
FairSpec == Spec /\ WF_vars(InCall) /\ WF_vars(Events)

-----------------------------------------------------------------------------
(* Properties.                                                               *)

\* The URBs are freed only when the kernel has returned every one of them: none
\* is pending, waits to be reaped or is in the hands of the event handler, which
\* would follow it into freed memory.  "cancel remaining urbs and wait for their
\* completion before reporting results" (linux_usbfs.c:2427).
NoUrbLeft ==
  ~priv.urbs => \A i \in 1 .. Num : urb[i].st \in {"new", "retired"}

\* The data of a finished bulk transfer is in the buffer without a hole and in the
\* order in which it came, and none of it is lost, however the transfer ended.
DataKept ==
  told # "none" /\ req.type = "bulk" /\ (plugged \/ req.reapAfter)
    => transferred = arrived /\ \A p \in 1 .. transferred : out[p] = p

\* COMPLETED means that the transfer is full or that a short packet ended it, with
\* no failure before; and that the results of isochronous packets are their own.
\* A cancellation that returned success is never answered with COMPLETED.
CompletedIsTrue ==
  told = "COMPLETED" =>
    /\ ~accepted
    /\ req.type = "iso" => \A p \in Positions : out[p] = p
    /\ req.type # "iso" =>
         \E n \in 1 .. Num :
           /\ \A i \in 1 .. n - 1 : urb[i].status = "OK" /\ urb[i].data = urb[i].len
           /\ urb[n].status \in {"OK", "REMOTEIO"}
           /\ n = Num \/ urb[n].data < urb[n].len

\* A transfer that was cancelled, or whose device is gone, comes to its end.
TransferEnds ==
  (flags = "cancelling" \/ (~plugged /\ flags = "flying")) ~> (flags = "idle")

=============================================================================
