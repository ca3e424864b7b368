---------------------------- MODULE BoundedFifo ----------------------------
(***************************************************************************)
(* What the queues between the threads promise: a first-in first-out queue *)
(* of at most Bound items.  A push that reports "full" and a pop that      *)
(* reports "empty" change nothing, and may happen at any time.             *)
(***************************************************************************)
EXTENDS Naturals, Sequences

CONSTANTS Item, Bound, NoItem

VARIABLES
  queue,  \* pushed and not yet popped, oldest first
  got     \* the item the last successful pop returned

vars == <<queue, got>>

Init == queue = <<>> /\ got = NoItem

Push(x) ==
  /\ Len(queue) < Bound
  /\ queue' = Append(queue, x)
  /\ UNCHANGED got

Pop ==
  /\ queue # <<>>
  /\ got' = Head(queue)
  /\ queue' = Tail(queue)

Next == (\E x \in Item : Push(x)) \/ Pop

Spec == Init /\ [][Next]_vars
=============================================================================
