------------------------------ MODULE UsbUrbsInv ------------------------------
(***************************************************************************)
(* The inductive invariants, when the kernel runs into none of the races.  *)
(* Behind NoUrbLeft: who has which URB, how many have come back, and, as   *)
(* long as the transfer is normal, that they come back in their order.     *)
(* Behind DataKept and CompletedIsTrue: what is in the URBs, where it is   *)
(* in the user's buffer, and what the status says of it.                   *)
(***************************************************************************)
EXTENDS UsbUrbs

Actions == {"NORMAL", "COMPLETED_EARLY", "SUBMIT_FAILED", "CANCELLED", "ERROR"}

Returns == {"OK", "NOT_FOUND", "NO_DEVICE"}

Statuses == {"OK", "REMOTEIO", "ENOENT", "SHUTDOWN", "PIPE", "OVERFLOW", "PROTO"}

St(i) == urb[i].st

\* URB i is a record with the fields of struct usbfs_urb, whatever they hold.
IsUrb(u) ==
  u = [first |-> u.first, len |-> u.len, cont |-> u.cont, shortNotOk |-> u.shortNotOk,
       st |-> u.st, status |-> u.status, data |-> u.data]

Submitting == job.do = "submit"
Discarding(who) == job.do = "discard" /\ job.who = who

JobOK ==
  \/ job = NoJob
  \/ \E i \in 1 .. Num : job = [do |-> "submit", i |-> i]
  \/ \E first \in 1 .. Num, last \in 1 .. Num, ret \in Returns, who \in {"submit", "cancel", "reap"} :
       \E i \in first - 1 .. last :
         job = [do |-> "discard", first |-> first, last |-> last, i |-> i, ret |-> ret, who |-> who]

UrbsOK ==
  /\ req \in Requests
  /\ urb = [i \in 1 .. Num |-> urb[i]] /\ Num \in Nat
  /\ \A i \in 1 .. Num : /\ IsUrb(urb[i])
                         /\ St(i) \in {"new", "pending", "done", "retired"}
  /\ priv = [urbs |-> priv.urbs, action |-> priv.action, retired |-> priv.retired,
             status |-> priv.status, packet |-> priv.packet]
  /\ priv.urbs \in BOOLEAN /\ priv.action \in Actions /\ priv.retired \in Nat
  /\ plugged \in BOOLEAN
  /\ priv.urbs => Num >= 1
  /\ req.type = "control" => Num <= 1

Holds(s, i) == \E n \in DOMAIN s : s[n] = i
Once(s) == \A m, n \in DOMAIN s : s[m] = s[n] => m = n
Rising(s) == \A m, n \in DOMAIN s : m < n => s[m] < s[n]

\* What the kernel has completed waits in its list or is in the event handler's hand.
QueueInv ==
  /\ doneq \in Seq(1 .. Num) /\ reaping \in 0 .. Num /\ Once(doneq)
  /\ \A i \in 1 .. Num : St(i) = "done" <=> reaping = i \/ Holds(doneq, i)
  /\ ~Holds(doneq, reaping)

\* The URBs exist from the submission to the report, in which nothing of them is left.
LifeInv ==
  /\ job # NoJob => priv.urbs
  /\ report # "none" => ~priv.urbs
  /\ priv.urbs => flags # "idle" \/ Submitting \/ Discarding("submit")

\* What a submission has not reached is new; what is left of it is no normal transfer.
SubmitInv ==
  /\ Submitting => \A i \in 1 .. Num : St(i) = "new" <=> i >= job.i
  /\ Submitting => priv.action = "NORMAL"
  /\ priv.urbs /\ priv.action = "NORMAL" /\ ~Submitting => \A i \in 1 .. Num : St(i) # "new"

\* num_retired counts the URBs that came back and those that were never submitted.
Back == {i \in 1 .. Num : St(i) = "retired" \/ (St(i) = "new" /\ ~Submitting)}

CountInv == priv.urbs /\ req.type # "control" => priv.retired = Cardinality(Back)

\* A device that is gone has nothing; a transfer that stalled has nothing behind.
KernelInv ==
  /\ ~plugged => \A i \in 1 .. Num : St(i) # "pending"
  /\ \A i \in 1 .. Num :
       /\ urb[i].status \in Statuses
       /\ urb[i].status = "SHUTDOWN" => ~plugged
       /\ urb[i].status = "OVERFLOW" => i = Num
       /\ urb[i].status # "OK" => St(i) \in {"done", "retired"}
       /\ urb[i].status = "PIPE" /\ Num > 2
            => ~Submitting /\ \A j \in i .. Num : St(j) # "pending"

\* The discards of one cancellation, once one has been tried: either the last URB was
\* discarded, and all of them are, or there was nothing to discard.
CancelInv ==
  /\ Discarding("cancel") => job.first = 1 /\ job.last = Num
  /\ Discarding("cancel") /\ job.i = job.last => job.ret = "OK"
  /\ Discarding("cancel") /\ job.i < job.last =>
       /\ job.ret = "OK" => plugged \/ Num = 1
       /\ job.ret # "OK" /\ priv.action = "NORMAL" => \A i \in 1 .. Num : St(i) # "pending"
  /\ Discarding("reap") =>
       /\ job.last = Num /\ job.first > 1 /\ St(job.first - 1) = "retired"
       /\ priv.action = "NORMAL" => job.first = Num \/ \A i \in 1 .. Num : St(i) # "pending"
  /\ Discarding("submit") => priv.action # "NORMAL"

\* The cancellation has taken URBs back from the last one on.
Disordered == Discarding("cancel") /\ job.i < job.last /\ job.ret = "OK"

\* URBs come back in order: what is retired comes before what is done, and that
\* before what the kernel still has.
InTurn ==
  /\ \A i, j \in 1 .. Num : i < j =>
       /\ St(j) = "retired" => St(i) = "retired"
       /\ St(j) = "done" => St(i) \in {"done", "retired"}
  /\ Rising(doneq)
  /\ reaping # 0 => \A i \in 1 .. Num : Holds(doneq, i) => reaping < i

\* So do those of a normal transfer, on which "urb Num is the last" relies.
OrderInv == priv.urbs /\ priv.action = "NORMAL" /\ ~Disordered => InTurn

UInv ==
  UrbsOK /\ JobOK /\ QueueInv /\ LifeInv /\ SubmitInv /\ CountInv /\ KernelInv /\ CancelInv
    /\ OrderInv /\ NoUrbLeft

-----------------------------------------------------------------------------
(* Behind DataKept and CompletedIsTrue: what is in the URBs, where it is in *)
(* the buffer, and what the status stands for.                              *)

Length(i) == urb[i].len
Data(i) == urb[i].data
Status(i) == urb[i].status
Full(i) == Data(i) = Length(i)
Returned(i) == St(i) \in {"done", "retired"}

Size == IF req.type = "iso" THEN Len(req.lens) ELSE req.lens[1]

\* URBs lie in the transfer one behind the other and fill it.
Laid(u) ==
  /\ \A i \in 1 .. Len(u) :
       /\ u[i].first \in Nat /\ u[i].len \in Nat /\ u[i].data \in 0 .. u[i].len
       /\ u[i].first + u[i].len <= Size
       /\ i = 1 => u[i].first = 0
       /\ i < Len(u) => u[i + 1].first = u[i].first + u[i].len
       /\ i = Len(u) => u[i].first + u[i].len = Size
       /\ req.type = "bulk" /\ Len(u) > 1 => u[i].len > 0
       /\ req.type = "bulk" /\ req.caps = "continuation" /\ i # Len(u) => u[i].shortNotOk
       /\ u[i].cont => req.type = "bulk" /\ req.caps = "continuation"
  /\ \A i, j \in 1 .. Len(u) : i < j => u[i].first + u[i].len <= u[j].first

LayoutInv == Laid(urb)

Failures == {"REMOTEIO", "PIPE", "OVERFLOW", "PROTO"}

\* Data comes to URBs in order; behind one that failed, or was cut off, none comes.
FillInv ==
  /\ \A i \in 1 .. Num :
       /\ ~Returned(i) => Data(i) = 0
       /\ St(i) = "new" => \A j \in i .. Num : St(j) = "new"
       /\ Data(i) > 0 => \A j \in 1 .. i : Returned(j)
       /\ Status(i) = "REMOTEIO" => Data(i) < Length(i)
  /\ req.type = "bulk" =>
       \A i \in 1 .. Num :
         /\ Status(i) \in Failures => halted
         /\ Status(i) \notin {"OK", "ENOENT"} => \A j \in i + 1 .. Num : Data(j) = 0
         /\ priv.urbs /\ Returned(i) /\ Status(i) = "OK" /\ i # Num
              /\ req.caps = "continuation" => Full(i)

\* URBs with data are reaped in their order, though a cancellation returns others before.
ReapInv ==
  req.type = "bulk" /\ priv.urbs =>
    /\ \A m, n \in DOMAIN doneq :
         m < n /\ Data(doneq[m]) > 0 /\ Data(doneq[n]) > 0 => doneq[m] < doneq[n]
    /\ reaping # 0 /\ Data(reaping) > 0 =>
         \A i \in 1 .. Num : Holds(doneq, i) /\ Data(i) > 0 => reaping < i

\* base[i] data came before those of URB i.  Those of the URBs before bound have been moved
\* to their place, those of the others are where the kernel has put them.
Placed(base, bound) ==
  /\ base[Num + 1] = arrived /\ base[bound] = transferred
  /\ \A i, j \in 1 .. Num + 1 : i < j =>
       /\ base[i] <= base[j]
       /\ (\A k \in i + 1 .. j - 1 : Data(k) = 0) => base[j] = base[i] + Data(i)
  /\ \A i \in 1 .. Num :
       /\ base[i] <= urb[i].first
       /\ (\A j \in 1 .. i - 1 : Full(j)) => base[i] = urb[i].first
       /\ Data(i) > 0 => (St(i) = "retired" <=> i < bound)
       /\ Data(i) > 0 /\ i >= bound =>
            \A n \in 1 .. Data(i) : out[urb[i].first + n] = base[i] + n
  /\ \A p \in 1 .. transferred : out[p] = p

Located ==
  \E base \in [1 .. Num + 1 -> 0 .. arrived], bound \in 1 .. Num + 1 : Placed(base, bound)

PlaceInv == req.type = "bulk" /\ priv.urbs => Located

\* URB n is the one that ends the transfer early.
ShortAt(n) ==
  /\ n < Num /\ Data(n) < Length(n) /\ Status(n) \in {"OK", "REMOTEIO"}
  /\ \A i \in 1 .. n : Returned(i)
  /\ \A i \in 1 .. n - 1 : Status(i) = "OK" /\ Full(i)

EndsShort == \E n \in 1 .. Num : ShortAt(n)

\* What the status and the action of a bulk transfer say of its URBs.
StatusInv ==
  req.type = "bulk" /\ priv.urbs =>
    /\ priv.action = "NORMAL" =>
         \A i \in 1 .. Num : St(i) = "retired" =>
           /\ i # Num => Full(i) \/ Status(i) \in {"SHUTDOWN", "PIPE"}
           /\ priv.status = "COMPLETED" => Status(i) = "OK" /\ Full(i)
    /\ priv.action = "NORMAL" /\ priv.status = "COMPLETED" /\ ~Disordered =>
         /\ ~Discarding("reap")
         /\ \A i \in 1 .. Num : Status(i) = "ENOENT" =>
              \E j \in 1 .. i - 1 : Status(j) \notin {"OK", "ENOENT"}
    /\ priv.action = "COMPLETED_EARLY" /\ priv.status = "COMPLETED" => EndsShort
    /\ priv.action = "ERROR" => priv.status # "COMPLETED"
    /\ Submitting /\ halted /\ req.caps = "continuation" => EndsShort
    /\ Submitting /\ ~halted => \A i \in 1 .. Num : Status(i) # "ENOENT"

\* The results of a normal isochronous transfer are those of the URBs that came back.
PacketInv ==
  req.type = "iso" /\ priv.urbs /\ priv.action = "NORMAL" =>
    /\ priv.packet \in Nat
    /\ \A i \in 1 .. Num : IF St(i) = "retired" THEN urb[i].first + Length(i) <= priv.packet
                                                ELSE priv.packet <= urb[i].first
    /\ \A p \in 1 .. priv.packet : out[p] = p

\* An accepted cancellation leaves its mark on the action.
AcceptInv ==
  accepted => priv.action = "CANCELLED" \/ (req.type = "bulk" /\ priv.action = "ERROR")

\* What COMPLETED stands for,
Whole ==
  /\ ~accepted
  /\ req.type = "iso" => \A p \in Positions : out[p] = p
  /\ req.type # "iso" =>
       \E n \in 1 .. Num :
         /\ \A i \in 1 .. n - 1 : urb[i].status = "OK" /\ urb[i].data = urb[i].len
         /\ urb[n].status \in {"OK", "REMOTEIO"}
         /\ n = Num \/ urb[n].data < urb[n].len

\* and a bulk transfer that keeps its data.
AllKept == transferred = arrived /\ \A p \in 1 .. transferred : out[p] = p

EndInv ==
  /\ told # "none" => report = "none" /\ flags = "idle" /\ ~priv.urbs
  /\ report = "COMPLETED" \/ told = "COMPLETED" => Whole
  /\ (report # "none" \/ told # "none") /\ req.type = "bulk" /\ (plugged \/ req.reapAfter)
       => AllKept

DataInv ==
  LayoutInv /\ FillInv /\ ReapInv /\ PlaceInv /\ StatusInv /\ PacketInv /\ AcceptInv /\ EndInv

===============================================================================
