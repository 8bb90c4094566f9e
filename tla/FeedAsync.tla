----------------------------- MODULE FeedAsync -----------------------------
(***************************************************************************)
(* msisdr_feed_async: the samples of one transfer after the other are cut  *)
(* into blocks of xfer_out_len bytes for the user's callback; what does    *)
(* not fill a block waits in xfer_out for the next transfer.  With         *)
(* xfer_out_len = 0 every transfer is handed on as it is.                  *)
(*                                                                         *)
(* A byte is represented by its number in the stream, so a block that is   *)
(* handed on shows whether it is the right one.                            *)
(***************************************************************************)
EXTENDS Integers

CONSTANTS
  MaxOutLen, \* bound: the length of a block
  MaxBytes,  \* bound: the bytes of one transfer, after conversion
  MaxTotal   \* bound: the bytes of the stream

ASSUME FeedAssumption == MaxOutLen \in Nat /\ MaxBytes \in Nat /\ MaxTotal \in Nat

VARIABLES
  outLen,   \* p->xfer_out_len
  buf,      \* p->xfer_out
  pos,      \* p->xfer_out_pos
  fed,      \* the number of bytes received so far
  taken,    \* how many of them have been handed on, or dropped by a restart
  pc,       \* "idle", or "loop" in one of the two loops of the function
  i, bytes, \* the loop's variable and the length of the transfer
  block     \* what the last call of p->cb was given

feedVars == <<outLen, buf, pos, fed, taken, pc, i, bytes, block>>

Buffers == [0 .. outLen - 1 -> Int]

FeedTypeOK ==
  /\ outLen \in Nat
  /\ buf \in Buffers
  /\ pos \in 0 .. outLen
  /\ fed \in Nat /\ taken \in Nat
  /\ pc \in {"idle", "loop"}
  /\ i \in Nat /\ bytes \in Nat

\* msisdr_read_async, with any length of the blocks; malloc leaves the buffer as it is, which is no byte of the
\* stream.
FeedInit ==
  /\ outLen \in 0 .. MaxOutLen
  /\ buf = [k \in 0 .. outLen - 1 |-> -1]
  /\ pos = 0 /\ fed = 0 /\ taken = 0
  /\ pc = "idle" /\ i = 0 /\ bytes = 0
  /\ block = [k \in {} |-> 0]

-----------------------------------------------------------------------------

\* samples[k] of a transfer that started after `start' bytes of the stream.
Sample(start, k) == start + k

\* memcpy(p->xfer_out + at, samples + from, len)
Stored(at, start, from, len) ==
  [k \in 0 .. outLen - 1 |->
     IF at <= k /\ k < at + len THEN Sample(start, from + k - at) ELSE buf[k]]

\* p->cb(samples + from, len)
HandOn(start, from, len) ==
  /\ block' = [k \in 0 .. len - 1 |-> Sample(start, from + k)]
  /\ taken' = taken + len

\* p->cb(p->xfer_out, p->xfer_out_len), after the memcpy before it
HandOnBuffer ==
  /\ block' = buf'
  /\ taken' = taken + outLen

Received(n) ==
  /\ pc = "idle" /\ n > 0 /\ fed + n <= MaxTotal
  /\ fed' = fed + n
  /\ UNCHANGED outLen

\* A mutant of Direct: one byte too few.
DirectShort(n) ==
  /\ outLen = 0 /\ Received(n)
  /\ HandOn(fed, 0, n - 1)
  /\ UNCHANGED <<buf, pos, pc, i, bytes>>

\* xfer_out_len = 0
Direct(n) ==
  /\ outLen = 0 /\ Received(n)
  /\ HandOn(fed, 0, n)
  /\ UNCHANGED <<buf, pos, pc, i, bytes>>

\* The transfer is exactly one block.
Exact(n) ==
  /\ outLen > 0 /\ pos = 0 /\ n = outLen /\ Received(n)
  /\ HandOn(fed, 0, n)
  /\ UNCHANGED <<buf, pos, pc, i, bytes>>

\* A mutant of Short: what waits is overwritten.
ShortOverwrites(n) ==
  /\ outLen > 0 /\ pos + n < outLen /\ Received(n)
  /\ buf' = Stored(0, fed, 0, n)
  /\ pos' = pos + n
  /\ UNCHANGED <<taken, pc, i, bytes, block>>

\* Not enough for a block, with or without what waits.
Short(n) ==
  /\ outLen > 0 /\ pos + n < outLen /\ Received(n)
  /\ buf' = Stored(pos, fed, 0, n)
  /\ pos' = pos + n
  /\ UNCHANGED <<taken, pc, i, bytes, block>>

\* The transfer completes what waits.
Completes(n) ==
  /\ outLen > 0 /\ pos > 0 /\ pos + n = outLen /\ Received(n)
  /\ buf' = Stored(pos, fed, 0, n)
  /\ HandOnBuffer
  /\ pos' = 0
  /\ UNCHANGED <<pc, i, bytes>>

\* More than one block, and nothing waits.
Long(n) ==
  /\ outLen > 0 /\ pos = 0 /\ n > outLen /\ Received(n)
  /\ pc' = "loop" /\ i' = 0 /\ bytes' = n
  /\ UNCHANGED <<buf, pos, taken, block>>

\* More than what waits needs: that block first.
CompletesMore(n) ==
  /\ outLen > 0 /\ pos > 0 /\ pos + n > outLen /\ Received(n)
  /\ buf' = Stored(pos, fed, 0, outLen - pos)
  /\ HandOnBuffer
  /\ pc' = "loop" /\ i' = outLen - pos /\ bytes' = n
  /\ UNCHANGED pos

\* A round of either loop that hands on a block ...
LoopBlock ==
  /\ pc = "loop" /\ i + outLen <= bytes
  /\ HandOn(fed - bytes, i, outLen)
  /\ i' = i + outLen
  /\ UNCHANGED <<outLen, buf, pos, fed, pc, bytes>>

\* ... and the last one, which stores the rest.  The first loop does not reset
\* xfer_out_pos when nothing is left: it is 0 there.
LoopRest ==
  /\ pc = "loop" /\ i + outLen > bytes
  /\ IF bytes > i
       THEN buf' = Stored(0, fed - bytes, i, bytes - i) /\ pos' = bytes - i
       ELSE UNCHANGED buf /\ pos' = 0
  /\ pc' = "idle" /\ i' = 0 /\ bytes' = 0
  /\ UNCHANGED <<outLen, fed, taken, block>>

\* msisdr_start_async after a pause: what waits is dropped.
Restart ==
  /\ pc = "idle" /\ pos > 0
  /\ pos' = 0
  /\ taken' = taken + pos
  /\ UNCHANGED <<outLen, buf, fed, pc, i, bytes, block>>

Feed(n) ==
  Direct(n) \/ Exact(n) \/ Short(n) \/ Completes(n) \/ Long(n) \/ CompletesMore(n)

FeedNext == (\E n \in 1 .. MaxBytes : Feed(n)) \/ LoopBlock \/ LoopRest \/ Restart

FeedSpec == FeedInit /\ [][FeedNext]_feedVars

-----------------------------------------------------------------------------

\* The user gets every byte once and in order, whatever the lengths of the
\* transfers: what is handed on are the bytes that follow what was handed on
\* before (msisdr_feed_async; only a restart drops some).
NextBytes ==
  [][taken' > taken /\ ~Restart =>
       block' = [k \in 0 .. taken' - taken - 1 |-> taken + k]]_feedVars

\* Between two transfers nothing is missing, and less than a block waits in
\* xfer_out: the bytes that come next.
RestWaits ==
  pc = "idle" =>
    /\ fed = taken + pos
    /\ pos > 0 => pos < outLen
    /\ \A k \in 0 .. pos - 1 : buf[k] = taken + k

\* What the theorems need besides.  In a loop, what has been handed on is what
\* was received before the transfer and the transfer's first i bytes.
LoopInv ==
  /\ outLen = 0 => pc = "idle" /\ pos = 0
  /\ pc = "loop" => i <= bytes /\ bytes <= fed /\ taken = fed - bytes + i

FeedInv == FeedTypeOK /\ RestWaits /\ LoopInv

=============================================================================
