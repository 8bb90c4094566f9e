------------------------------ MODULE SyncLoss ------------------------------
(***************************************************************************)
(* How the driver finds the blocks of the stream again (convert/ and the   *)
(* end of _libusb_callback in async.c).  The device sends blocks of 1024   *)
(* bytes, each of which starts with the number of its first sample, in     *)
(* packets of 512 bytes.  A transfer takes 32 packets, so that it starts   *)
(* with a block as long as no odd number of packets is lost.  The          *)
(* converters compare the number at the start of a transfer with the one   *)
(* they expect and count the losses.  When there were more losses than     *)
(* there are transfers, one transfer is resubmitted a packet shorter, and  *)
(* the count goes back far enough to sit out the others, which still are   *)
(* in the queue.                                                           *)
(*                                                                         *)
(* A stream is its position within a block.  That samples happen to look   *)
(* like the number that is expected is left out, and so are transfers that *)
(* the device ends early.                                                  *)
(***************************************************************************)
EXTENDS Integers, Sequences

CONSTANTS
  N,               \* p->xfer_buf_num
  MaxDisturbances  \* how often packets are lost, transfers fail or the stream restarts

ASSUME SyncAssumption ==
  N \in Nat \ {0, 1} /\ MaxDisturbances \in Nat

VARIABLES
  half,     \* the packet of a block the device sends next, 0 or 1
  expected, \* p->addr is the number of the block the device is in
  count,    \* p->sync_loss_cnt
  queue,    \* the transfers that are submitted, the one to be filled next first
  length,   \* xfer->length of each: "full" (32 packets) or "short" (31)
  bad,      \* the transfers without blocks since the last disturbance or block
  disturbances

syncVars == <<half, expected, count, queue, length, bad, disturbances>>

Transfers == 1 .. N

\* read_async submits all transfers in their order; where the device starts is open.
InOrder == [i \in Transfers |-> i]

SyncInit ==
  /\ half \in 0 .. 1 /\ expected \in BOOLEAN
  /\ count = 0
  /\ queue = InOrder /\ length = [x \in Transfers |-> "full"]
  /\ bad = 0 /\ disturbances = 0

-----------------------------------------------------------------------------
(* A transfer that is filled.                                              *)

\* The number at the start of the transfer is the one that is expected.
InSync == half = 0 /\ expected

Resubmit(x) == queue' = Append(Tail(queue), x)

\* A mutant of Count: the transfers that are in the queue are forgotten.
CountFromZero(x, losses) ==
  IF losses > N
    THEN count' = 0 /\ length' = [length EXCEPT ![x] = "short"]
    ELSE count' = losses /\ length' = [length EXCEPT ![x] = "full"]

\* A mutant of Count: the threshold is twice the number of transfers.
CountLate(x, losses) ==
  IF losses > 2 * N
    THEN count' = 1 - N /\ length' = [length EXCEPT ![x] = "short"]
    ELSE count' = losses /\ length' = [length EXCEPT ![x] = "full"]

\* After the samples have been handed on, the transfer gets its next length.
Count(x, losses) ==
  IF losses > N
    THEN count' = 1 - N /\ length' = [length EXCEPT ![x] = "short"]
    ELSE count' = losses /\ length' = [length EXCEPT ![x] = "full"]

\* The first transfer is full; lost packets are missing in its middle.
Complete(lost) ==
  LET x    == Head(queue)
      last == (half + lost) % 2
  IN /\ half' = IF length[x] = "short" THEN 1 - last ELSE last
     /\ expected' = (last = 0)
     /\ Count(x, IF InSync THEN count ELSE count + 1)
     /\ Resubmit(x)
     /\ bad' = IF lost > 0 \/ half = 0 THEN 0 ELSE bad + 1

-----------------------------------------------------------------------------
(* Disturbances.                                                           *)

Disturbance == disturbances < MaxDisturbances /\ disturbances' = disturbances + 1

\* The device drops packets because nobody fetches them.
Lose(packets) ==
  /\ Disturbance
  /\ half' = (half + packets) % 2 /\ expected' = FALSE /\ bad' = 0
  /\ UNCHANGED <<count, queue, length>>

LoseWithin(packets) == Disturbance /\ Complete(packets)

\* A transfer ends by a timeout or an error: what it got is dropped and it is
\* submitted again as it is.
Fail(packets) ==
  /\ Disturbance
  /\ half' = (half + packets) % 2 /\ expected' = (expected /\ packets = 0) /\ bad' = 0
  /\ Resubmit(Head(queue))
  /\ UNCHANGED <<count, length>>

\* The stream is stopped for a new sample rate, which also sets p->addr, and
\* started again: all transfers are submitted in their order and as they are.
StreamRestart ==
  /\ Disturbance
  /\ half' \in 0 .. 1 /\ expected' \in BOOLEAN /\ bad' = 0
  /\ queue' = InOrder
  /\ UNCHANGED <<count, length>>

Filled == Complete(0) /\ UNCHANGED disturbances

SyncNext ==
  \/ Filled
  \/ \E packets \in 1 .. 2 : Lose(packets) \/ LoseWithin(packets)
  \/ \E packets \in 0 .. 1 : Fail(packets)
  \/ StreamRestart

SyncSpec == SyncInit /\ [][SyncNext]_syncVars

-----------------------------------------------------------------------------

SyncTypeOK ==
  /\ half \in 0 .. 1 /\ expected \in BOOLEAN
  /\ count \in 1 - N .. N
  /\ queue \in Seq(Transfers) /\ Len(queue) = N
  /\ length \in [Transfers -> {"full", "short"}]
  /\ bad \in Nat /\ disturbances \in 0 .. MaxDisturbances

\* The number of transfers without samples is bounded, whatever happened before:
\* 2 * N until the loss is believed and N that are in the queue (async.c, lines
\* 209 to 218).
GarbageBounded == bad <= 3 * N

\* Once nothing is lost any more, transfers start with a block for good.
Recovers == <>[](half = 0)

\* What GarbageBounded rests on: transfers without samples are counted, or there
\* is a shorter one in the queue.
SyncInv ==
  /\ SyncTypeOK
  /\ half = 0 => bad <= 3 * N
  /\ half = 1 => \/ bad < count + N
                 \/ \E p \in Transfers : length[queue[p]] = "short" /\ bad <= 3 * N - p

=============================================================================
