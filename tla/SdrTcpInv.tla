----------------------------- MODULE SdrTcpInv -----------------------------
(***************************************************************************)
(* The inductive invariants behind the theorems of SdrTcpProofs: TInv of   *)
(* the threads, PInv of the pool they share, DInv of the device.           *)
(***************************************************************************)
EXTENDS SdrTcp

\* openAsync has not yet started the server thread ...
BeforeStart ==
  {"open", "pool", "socket", "assign", "setopen", "bind", "verify", "unopen",
   "setdev", "serve", "start"}

\* ... or will not start it any more.
AfterStart == {"unserve", "read", "reading", "close", "stop", "stopclean", "stopwrite", "done"}

\* The server thread has no command thread, or has joined it.
WithoutCommand ==
  {"none", "wait", "accepted", "check", "final", "cleanup", "closedcb", "done"}

PlacesOK ==
  /\ pc \in [Actors -> Places]
  /\ wpc \in [Threads -> {"out", "miss", "create", "wait", "has", "none"}]
  /\ pc["driver"] \in BeforeStart \union AfterStart
  /\ pc["java"] \in {"idle"} \union Stopping

\* Where a thread is inside sdrtcp_cleanup.
CleaningAt(t) ==
  \/ t \in Stoppers /\ pc[t] = "stopclean"
  \/ t = "driver" /\ pc[t] \in {"unopen", "unserve"}
  \/ t = "server" /\ pc[t] = "cleanup"

\* Whoever cleans up holds the lock; at the end the pool is gone.
CleanerLocks ==
  /\ locker \in {"none", "feed"} <=> cleaning = "no"
  /\ locker \notin {"none", "feed"} => CleaningAt(locker)
  /\ cleaning = "end" => ~valid

\* Whoever feeds is inside the pool only under the lock.
FeederLocks ==
  /\ locker = "feed" <=> pc["feed"] \in {"feed", "unlock"}
  /\ wpc["feed"] # "out" => pc["feed"] = "feed"

\* The threads exist in their order: driver, server, command.
ThreadOrder ==
  /\ pc["driver"] \in BeforeStart => pc["server"] = "none"
  /\ pc["server"] \in {"none", "wait", "accepted", "check"} => pc["command"] = "none"
  /\ pc["server"] \in WithoutCommand => pc["command"] \in {"none", "done"}

\* Until the server thread is started its state only goes up to SOCKET_OPEN.
EarlyState ==
  /\ pc["driver"] \in BeforeStart => state \in 0 .. 2 /\ pc["java"] # "stopwrite"
  /\ pc["driver"] \in {"setdev", "serve"} => state \in {UNINITIALIZED, SOCKET_OPEN}

\* What cleaning up leaves behind.
CleanedUp ==
  state = UNINITIALIZED /\ cleaning = "no" =>
    ~valid /\ (pc["driver"] # "setopen" => ~listening)

ClosedInv ==
  /\ closed > 0 => closed = 1 /\ pc["server"] \in {"none", "done"} /\ pc["driver"] \in AfterStart
  /\ closed > 0 \/ pc["server"] = "closedcb" =>
       \/ ~listening /\ ~valid
       \/ pc["server"] = "none" /\ locker = "java"

\* Everything the theorems need of a reachable state: which threads there
\* are, who may be in the pool, and what has been released.
TInv ==
  /\ locker \in {"none"} \union Actors /\ cleaning \in {"no", "socket", "pool", "end"}
  /\ closed \in Nat
  /\ PlacesOK /\ CleanerLocks /\ FeederLocks /\ ThreadOrder /\ EarlyState /\ CleanedUp /\ ClosedInv

-----------------------------------------------------------------------------
(* The pool.                                                               *)

PoolTypes ==
  /\ elements \in Nat /\ fed \in Nat /\ out \in Nat /\ valid \in BOOLEAN
  /\ queues \in [Ids -> Seq(Nat \ {0})]
  /\ hold \in [Threads -> Nat]
  /\ content \in Seq(Nat) /\ Len(content) = elements

\* A thread is in the pool only while it is where the code calls it.
PoolUsers ==
  /\ pc["feed"] \notin {"idle", "refused"} => pc["driver"] = "reading"
  /\ pc["server"] \notin {"serving", "sending", "senderr"} => wpc["server"] = "out"
  /\ pc["server"] \in {"sending", "senderr"} => wpc["server"] = "has"
  /\ pc["driver"] \in {"open", "pool"} => ~valid /\ fed = 0 /\ out = 0

\* Only the feeder creates buffers, one at a time, and in a pool that is there.
PoolWork ==
  /\ \A t \in Threads : hold[t] # 0 <=> wpc[t] = "has"
  /\ wpc["server"] # "create"
  /\ wpc["feed"] = "create" => elements < MaxElements
  /\ wpc["feed"] \notin {"out", "none"} => valid

\* The buffers are those that were created.
PoolHeld ==
  /\ \A i \in Ids : \A n \in 1 .. Len(queues[i]) : queues[i][n] <= elements
  /\ valid => \A t \in Threads : hold[t] <= elements
  /\ ~valid => elements = 0 /\ \A i \in Ids : queues[i] = <<>>

\* What has been fed and not yet sent, in the order of the queue.
Serves == IF wpc["server"] = "has" THEN 1 ELSE 0

PoolOrder ==
  valid =>
    /\ fed = out + Serves + Len(queues[1])
    /\ wpc["server"] = "has" => content[hold["server"]] = out + 1
    /\ \A n \in 1 .. Len(queues[1]) : content[queues[1][n]] = out + Serves + n

PInv == PoolTypes /\ PoolUsers /\ PoolWork /\ PoolHeld /\ OnePlace /\ PoolOrder

-----------------------------------------------------------------------------
(* The device: without a failure only closedcb ends the stream.            *)

DInv ==
  /\ failures \in Nat
  /\ dev \in {"null", "set", "closed"} /\ stream \in {"off", "running", "cancel", "failed"}
  /\ failures = 0 => stream # "failed"
  /\ stream = "cancel" => closed > 0
  /\ dev = "closed" \/ pc["driver"] = "close" => stream \in {"cancel", "failed"}
  /\ pc["command"] = "set" => dev # "null"

=============================================================================
