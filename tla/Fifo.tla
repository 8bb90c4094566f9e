-------------------------------- MODULE Fifo --------------------------------
(***************************************************************************)
(* What queue.c promises its callers: a first-in first-out queue without a *)
(* bound, whose pop answers NULL when there is nothing to pop (the usage   *)
(* note at the end of queue.c).                                            *)
(***************************************************************************)
EXTENDS Sequences

CONSTANTS
  Payload,   \* what is queued
  NULL       \* the answer of a pop from an empty queue

VARIABLES
  contents,  \* the payloads in the queue, oldest first
  popped     \* the answer of the last pop

Init == contents = <<>> /\ popped = NULL

Add(p) == contents' = Append(contents, p) /\ UNCHANGED popped

Pop ==
  /\ contents # <<>>
  /\ popped' = Head(contents)
  /\ contents' = Tail(contents)

PopNothing == contents = <<>> /\ popped' = NULL /\ UNCHANGED contents

Next == (\E p \in Payload : Add(p)) \/ Pop \/ PopNothing

Spec == Init /\ [][Next]_<<contents, popped>>

=============================================================================
