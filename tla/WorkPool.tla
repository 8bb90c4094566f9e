------------------------------ MODULE WorkPool ------------------------------
(***************************************************************************)
(* workpool.c: a ring of queues through which a bounded number of buffers  *)
(* circulates.  The thread of stage i takes a buffer from queue i and      *)
(* hands it to queue i + 1; the last stage empties the buffer and returns  *)
(* it to queue 0.  The queues are the first-in first-out queues of Fifo    *)
(* and every access to one is made under its mutex, so one step here.      *)
(***************************************************************************)
EXTENDS Naturals, Sequences

CONSTANTS
  MaxElements,  \* max_elements: the number of buffers the pool may create
  LastId,       \* max_ids - 1: the last stage
  Threads,      \* the threads that use the pool
  StageOf,      \* the queue each of them takes its buffers from
  MaxFed        \* bound of the model: how many buffers are filled

Ids == 0 .. LastId

ASSUME PoolAssumption ==
  /\ MaxElements \in Nat \ {0}
  /\ LastId \in Nat \ {0}
  /\ StageOf \in [Threads -> Ids]
  /\ MaxFed \in Nat

VARIABLES
  queues,    \* queues[i]: the buffers waiting for stage i
  elements,  \* the number of buffers created so far: buffer b is the b-th
  valid,     \* pool->valid
  wpc,       \* wpc[t]: where thread t is in pool_get_wait_lock
  hold,      \* hold[t]: the buffer thread t has taken, 0 for none
  content,   \* content[b]: what buffer b carries, numbered as it was fed
  fed,       \* the number of buffers filled by stage 0
  out        \* the content of the buffer the last stage finished last

poolVars == <<queues, elements, valid, wpc, hold, content, fed, out>>

Buffers == 1 .. elements

\* Before pool_init and pool_set_threads, which only make the pool valid.
PoolInit ==
  /\ queues = [i \in Ids |-> <<>>]
  /\ elements = 0
  /\ valid = FALSE
  /\ wpc = [t \in Threads |-> "out"]
  /\ hold = [t \in Threads |-> 0]
  /\ content = <<>>
  /\ fed = 0
  /\ out = 0

-----------------------------------------------------------------------------
(* pool_get_wait_lock(pool, id, 1)                                         *)

PoolGoto(t, to) == wpc' = [wpc EXCEPT ![t] = to]

\* queue_pop under the mutex: the head, or on to the given place.
Take(t, otherwise) ==
  LET id == StageOf[t] IN
  \/ /\ queues[id] # <<>>
     /\ queues' = [queues EXCEPT ![id] = Tail(@)]
     /\ hold' = [hold EXCEPT ![t] = Head(queues[id])]
     /\ PoolGoto(t, "has")
  \/ /\ queues[id] = <<>>
     /\ PoolGoto(t, otherwise)
     /\ UNCHANGED <<queues, hold>>

\* A pool that has been freed answers NULL.
Refuse(t) == ~valid /\ PoolGoto(t, "none") /\ UNCHANGED <<queues, hold>>

Get(t) ==
  /\ wpc[t] = "out"
  /\ (valid /\ Take(t, "miss")) \/ Refuse(t)
  /\ UNCHANGED <<elements, valid, content, fed, out>>

MayCreate(t) == StageOf[t] = 0 /\ elements < MaxElements

\* The counter is read here and incremented in the next step, under no mutex.
SeesRoom(t) ==
  /\ wpc[t] = "miss"
  /\ MayCreate(t)
  /\ PoolGoto(t, "create")
  /\ UNCHANGED <<queues, elements, valid, hold, content, fed, out>>

Create(t) ==
  /\ wpc[t] = "create"
  /\ elements' = elements + 1
  /\ hold' = [hold EXCEPT ![t] = elements + 1]
  /\ content' = Append(content, 0)
  /\ PoolGoto(t, "has")
  /\ UNCHANGED <<queues, valid, fed, out>>

\* The blocking pop: once more under the mutex, then pthread_cond_timedwait.
Block(t) ==
  /\ wpc[t] = "miss"
  /\ ~MayCreate(t)
  /\ (valid /\ Take(t, "wait")) \/ Refuse(t)
  /\ UNCHANGED <<elements, valid, content, fed, out>>

\* The broadcast of add, the timeout of one second or a spurious wake-up: one
\* more queue_pop, and no loop around it.
WakeUp(t) ==
  /\ wpc[t] = "wait"
  /\ Take(t, "none")
  /\ UNCHANGED <<elements, valid, content, fed, out>>

\* The caller got NULL: sdrtcp_feed drops its samples, serveClient tries again.
GiveUp(t) ==
  /\ wpc[t] = "none"
  /\ PoolGoto(t, "out")
  /\ UNCHANGED <<queues, elements, valid, hold, content, fed, out>>

-----------------------------------------------------------------------------
(* pool_get_unlock                                                         *)

\* A mutant of NextId: off by one, the last stage gets nothing.
NextIdSkips(id) == IF id + 1 = LastId THEN 0 ELSE id + 1

NextId(id) == IF id = LastId THEN 0 ELSE id + 1

\* A mutant of Added: the newest buffer is served first.
AddedInFront(id, b) == [queues EXCEPT ![id] = <<b>> \o @]

\* queue_add at the end of queue id
Added(id, b) == [queues EXCEPT ![id] = Append(@, b)]

\* What the thread has done with its buffer: stage 0 fills it, the last stage
\* delivers and empties it.
Work(t) ==
  LET b == hold[t] IN
  IF StageOf[t] = 0
    THEN content' = [content EXCEPT ![b] = fed + 1] /\ fed' = fed + 1 /\ UNCHANGED out
  ELSE IF StageOf[t] = LastId
    THEN content' = [content EXCEPT ![b] = 0] /\ out' = content[b] /\ UNCHANGED fed
  ELSE UNCHANGED <<content, fed, out>>

\* A mutant of Put: the thread forgets that the buffer is no longer its own.
PutKeeps(t) ==
  /\ wpc[t] = "has"
  /\ StageOf[t] = 0 => fed < MaxFed
  /\ Work(t)
  /\ queues' = Added(NextId(StageOf[t]), hold[t])
  /\ UNCHANGED <<elements, valid, wpc, hold>>

Put(t) ==
  /\ wpc[t] = "has"
  /\ StageOf[t] = 0 => fed < MaxFed
  /\ IF valid
       THEN Work(t) /\ queues' = Added(NextId(StageOf[t]), hold[t])
       ELSE UNCHANGED <<queues, content, fed, out>>     \* the buffer is leaked
  /\ hold' = [hold EXCEPT ![t] = 0]
  /\ PoolGoto(t, "out")
  /\ UNCHANGED <<elements, valid>>

\* What thread t does with the pool.
Step(t) == \/ Get(t) \/ SeesRoom(t) \/ Create(t) \/ Block(t) \/ WakeUp(t)
           \/ GiveUp(t) \/ Put(t)

-----------------------------------------------------------------------------
(* Properties                                                              *)

\* Every buffer is in exactly one place: waiting in one queue, once, or held by
\* one thread.  A buffer in two places is sent while it is being filled; one in
\* no place is lost to the pool (workpool.c's "memory leak" warning, line 135).  And
\* there are never more than the pool was made for, though they are counted under
\* no mutex.
OnePlace ==
  /\ elements <= MaxElements
  /\ \A b \in Buffers :
       \/ \E i \in Ids : \E n \in 1 .. Len(queues[i]) : queues[i][n] = b
       \/ \E t \in Threads : hold[t] = b
  /\ \A i, j \in Ids : \A n \in 1 .. Len(queues[i]), m \in 1 .. Len(queues[j]) :
       queues[i][n] = queues[j][m] => i = j /\ n = m
  /\ \A t \in Threads : \A i \in Ids : \A n \in 1 .. Len(queues[i]) : queues[i][n] # hold[t]
  /\ \A t, u \in Threads : hold[t] = hold[u] /\ t # u => hold[t] = 0

=============================================================================
