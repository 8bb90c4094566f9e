---------------------------- MODULE LinkedQueue ----------------------------
(***************************************************************************)
(* queue.c: a doubly linked list in which only the first element knows the *)
(* last one.  Memory is explicit: malloc hands out any cell that is not    *)
(* allocated, free takes one back, and a freed cell keeps its contents.    *)
(***************************************************************************)
EXTENDS Sequences, Naturals

CONSTANTS
  Payload,   \* the pointers that are queued
  NULL,      \* the null pointer
  Cells      \* the addresses malloc can hand out for a queue_element_t

ASSUME NullAssumption == NULL \notin Payload \union Cells

VARIABLES
  head,      \* *queue: the first element
  cell,      \* cell[c]: the fields of the element at address c
  live,      \* the cells that are allocated
  popped,    \* what the last queue_pop returned
  chain      \* auxiliary: the cells of the queue in order

vars == <<head, cell, live, popped, chain>>

Pointer == Cells \union {NULL}

Element == [next : Pointer, prev : Pointer, last : Pointer, payload : Payload \union {NULL}]

TypeOK ==
  /\ head \in Pointer
  /\ cell \in [Cells -> Element]
  /\ live \in SUBSET Cells
  /\ popped \in Payload \union {NULL}
  /\ chain \in Seq(Cells)

Init ==
  /\ head = NULL
  /\ cell = [c \in Cells |-> [next |-> NULL, prev |-> NULL, last |-> NULL, payload |-> NULL]]
  /\ live = {}
  /\ popped = NULL
  /\ chain = <<>>

-----------------------------------------------------------------------------

AddFirst(p, c) ==
  /\ head = NULL
  /\ cell' = [cell EXCEPT ![c] = [last |-> c, next |-> NULL, prev |-> NULL, payload |-> p]]
  /\ head' = c

\* A mutant of AddLast: the head does not learn the new last element.
AddLastForgets(p, c) ==
  /\ head # NULL
  /\ LET tail == cell[head].last IN
     cell' = [cell EXCEPT
       ![c] = [last |-> NULL, next |-> NULL, prev |-> tail, payload |-> p],
       ![tail].next = c]
  /\ UNCHANGED head

AddLast(p, c) ==
  /\ head # NULL
  /\ LET tail == cell[head].last IN
     cell' = [cell EXCEPT
       ![c] = [last |-> NULL, next |-> NULL, prev |-> tail, payload |-> p],
       ![tail].next = c,
       ![head].last = c]
  /\ UNCHANGED head

\* queue_add, with malloc's choice of the new cell; malloc does not fail.
Add(p) ==
  \E c \in Cells \ live :
    /\ AddFirst(p, c) \/ AddLast(p, c)
    /\ live' = live \union {c}
    /\ chain' = Append(chain, c)
    /\ UNCHANGED popped

PopNothing ==
  /\ head = NULL
  /\ popped' = NULL
  /\ UNCHANGED <<head, cell, live, chain>>

\* The second element takes over what only the head knows.
Promote(second) ==
  [cell EXCEPT ![second].prev = NULL, ![second].last = cell[head].last]

\* queue_pop
Pop ==
  /\ head # NULL
  /\ LET second == cell[head].next IN
     /\ cell' = IF second = NULL THEN cell ELSE Promote(second)
     /\ head' = second
  /\ popped' = cell[head].payload
  /\ live' = live \ {head}
  /\ chain' = Tail(chain)

Next == (\E p \in Payload : Add(p)) \/ Pop \/ PopNothing

Spec == Init /\ [][Next]_vars

-----------------------------------------------------------------------------
(* The shape of the list.                                                  *)

\* The chain holds every allocated cell once: no element leaks, none is freed
\* while it is linked.
ChainIsLive ==
  /\ \A i \in 1 .. Len(chain) : chain[i] \in live
  /\ \A c \in live : \E i \in 1 .. Len(chain) : chain[i] = c
  /\ \A i, j \in 1 .. Len(chain) : chain[i] = chain[j] => i = j

\* The pointers of the elements say what the chain says.
Linked ==
  /\ \A i \in 1 .. Len(chain) :
       i < Len(chain) => /\ cell[chain[i]].next = chain[i + 1]
                         /\ cell[chain[i + 1]].prev = chain[i]
  /\ chain = <<>> => head = NULL
  /\ chain # <<>> => /\ head = chain[1]
                     /\ cell[head].prev = NULL
                     /\ cell[head].last = chain[Len(chain)]
                     /\ cell[chain[Len(chain)]].next = NULL

\* The list in memory is well formed after every call of queue_add and
\* queue_pop: the elements are linked both ways without a cycle, the head knows
\* the last one, and exactly the linked elements are allocated.
WellFormed == ChainIsLive /\ Linked

\* The elements carry payloads, never NULL, so that a NULL answer of queue_pop
\* means an empty queue (pool_free and the pool's pop rely on it).
Loaded == \A i \in 1 .. Len(chain) : cell[chain[i]].payload \in Payload

-----------------------------------------------------------------------------
(* The refinement: the payloads along the chain are the queue.             *)

Contents == [i \in 1 .. Len(chain) |-> cell[chain[i]].payload]

Abstract == INSTANCE Fifo WITH contents <- Contents

\* queue.c implements a first-in first-out queue (the usage note of queue.c,
\* lines 73-91, which prints 1 3 12 18).
ImplementsFifo == Abstract!Spec

=============================================================================
