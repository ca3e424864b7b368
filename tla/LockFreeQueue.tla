--------------------------- MODULE LockFreeQueue ---------------------------
(***************************************************************************)
(* The ring buffers between the threads (include/LockFreeQueue.h), one     *)
(* step for each access to shared memory.  With Locked this is MPSCQueue,  *)
(* whose producers take turns with a spin lock; without it SPSCQueue.      *)
(*                                                                         *)
(* An acquire load of the other side's index may return an old value, but  *)
(* never one older than a load before it returned: headSeen and tailSeen   *)
(* are the latest values read.  Producers share headSeen because the lock  *)
(* orders their loads.  The acquire/release pairs on head_ and tail_ order *)
(* the plain accesses to buffer_, so those are single steps.               *)
(***************************************************************************)
EXTENDS Integers, Sequences

CONSTANTS
  Capacity,  \* a power of two
  Producer,  \* threads that push
  Locked,    \* whether push takes producerLock_
  Item,
  NoItem     \* content of a slot nothing was written to
  
ASSUME QueueAssumption ==
  /\ Capacity \in Nat \ {0}
  /\ Locked \in BOOLEAN
  /\ Locked \/ \A p, q \in Producer : p = q
  /\ NoItem \notin Item

ASSUME PowerOfTwo == \E k \in 0 .. Capacity : Capacity = 2 ^ k

Slot == 0 .. Capacity - 1

VARIABLES
  head, tail,   \* head_ and tail_
  buffer,
  producerLock,
  headSeen,     \* last value of head_ a producer has read
  tailSeen,     \* last value of tail_ the consumer has read
  pushPc,       \* where each producer is in push
  item,         \* its argument
  currentTail,  \* its local copy of tail_
  popPc,        \* where the consumer is in pop
  moved,        \* the item pop has moved out of the buffer
  got           \* the item the last successful pop returned

pushVars == <<tail, producerLock, headSeen, pushPc, item, currentTail>>
popVars  == <<head, tailSeen, popPc, moved, got>>
vars     == <<pushVars, popVars, buffer>>

\* Mutant: the index does not wrap around.
IncNoWrap(i) == i + 1

\* (i + 1) & (Capacity - 1)
Inc(i) == (i + 1) % Capacity

\* Steps from index i to index j around the ring.
Distance(i, j) == (j - i + Capacity) % Capacity

\* The values a load may return when it last returned `seen` and the current
\* value is `now`: everything stored in between.
Visible(seen, now) == {i \in Slot : Distance(seen, i) <= Distance(seen, now)}

Init ==
  /\ head = 0 /\ tail = 0
  /\ buffer = [i \in Slot |-> NoItem]
  /\ producerLock = FALSE
  /\ headSeen = 0 /\ tailSeen = 0
  /\ pushPc = [p \in Producer |-> "idle"]
  /\ item = [p \in Producer |-> NoItem]
  /\ currentTail = [p \in Producer |-> 0]
  /\ popPc = "idle"
  /\ moved = NoItem
  /\ got = NoItem

----------------------------------------------------------------------------
(* push *)

\* Mutant: a producer does not wait for the lock.
PushBeginUnlocked(p, x) ==
  /\ pushPc[p] = "idle"
  /\ producerLock' = Locked
  /\ item' = [item EXCEPT ![p] = x]
  /\ pushPc' = [pushPc EXCEPT ![p] = "check"]
  /\ UNCHANGED <<popVars, tail, headSeen, currentTail, buffer>>

\* The exchange that finds the lock free ends the spinning.
PushBegin(p, x) ==
  /\ pushPc[p] = "idle"
  /\ Locked => ~producerLock
  /\ producerLock' = Locked
  /\ item' = [item EXCEPT ![p] = x]
  /\ pushPc' = [pushPc EXCEPT ![p] = "check"]
  /\ UNCHANGED <<popVars, tail, headSeen, currentTail, buffer>>

\* Mutant: the full queue is not recognised.
PushCheckNoFull(p) ==
  /\ pushPc[p] = "check"
  /\ \E h \in Visible(headSeen, head) : headSeen' = h
  /\ pushPc' = [pushPc EXCEPT ![p] = "write"]
  /\ currentTail' = [currentTail EXCEPT ![p] = tail]
  /\ UNCHANGED <<popVars, tail, producerLock, item, buffer>>

PushCheck(p) ==
  /\ pushPc[p] = "check"
  /\ \E h \in Visible(headSeen, head) :
       /\ headSeen' = h
       /\ pushPc' = [pushPc EXCEPT ![p] = IF Inc(tail) = h THEN "return" ELSE "write"]
  /\ currentTail' = [currentTail EXCEPT ![p] = tail]
  /\ UNCHANGED <<popVars, tail, producerLock, item, buffer>>

PushWrite(p) ==
  /\ pushPc[p] = "write"
  /\ buffer' = [buffer EXCEPT ![currentTail[p]] = item[p]]
  /\ pushPc' = [pushPc EXCEPT ![p] = "publish"]
  /\ UNCHANGED <<popVars, tail, producerLock, headSeen, item, currentTail>>

PushPublish(p) ==
  /\ pushPc[p] = "publish"
  /\ tail' = Inc(currentTail[p])
  /\ pushPc' = [pushPc EXCEPT ![p] = "return"]
  /\ UNCHANGED <<popVars, producerLock, headSeen, item, currentTail, buffer>>

\* Mutant: push returns with the lock held.
PushReturnLocked(p) ==
  /\ pushPc[p] = "return"
  /\ pushPc' = [pushPc EXCEPT ![p] = "idle"]
  /\ UNCHANGED <<popVars, tail, producerLock, headSeen, item, currentTail, buffer>>

PushReturn(p) ==
  /\ pushPc[p] = "return"
  /\ producerLock' = FALSE
  /\ pushPc' = [pushPc EXCEPT ![p] = "idle"]
  /\ UNCHANGED <<popVars, tail, headSeen, item, currentTail, buffer>>

Push(p) ==
  \/ \E x \in Item : PushBegin(p, x)
  \/ PushCheck(p)
  \/ PushWrite(p)
  \/ PushPublish(p)
  \/ PushReturn(p)

----------------------------------------------------------------------------
(* pop *)

\* Mutant: the consumer relies on the tail it read before.
PopCheckCached(t) ==
  /\ popPc = "idle"
  /\ t \in Visible(tailSeen, tail)
  /\ tailSeen' = IF head = tailSeen THEN tailSeen ELSE t
  /\ popPc' = IF head = tailSeen THEN "idle" ELSE "move"
  /\ UNCHANGED <<pushVars, head, moved, got, buffer>>

\* The load of tail_ returns t; the queue looks empty when that is the head.
PopCheck(t) ==
  /\ popPc = "idle"
  /\ t \in Visible(tailSeen, tail)
  /\ tailSeen' = t
  /\ popPc' = IF head = t THEN "idle" ELSE "move"
  /\ UNCHANGED <<pushVars, head, moved, got, buffer>>

PopMove ==
  /\ popPc = "move"
  /\ moved' = buffer[head]
  /\ popPc' = "advance"
  /\ UNCHANGED <<pushVars, head, tailSeen, got, buffer>>

PopAdvance ==
  /\ popPc = "advance"
  /\ head' = Inc(head)
  /\ got' = moved
  /\ popPc' = "idle"
  /\ UNCHANGED <<pushVars, tailSeen, moved, buffer>>

Pop == (\E t \in Slot : PopCheck(t)) \/ PopMove \/ PopAdvance

Next == Pop \/ \E p \in Producer : Push(p)

Spec == Init /\ [][Next]_vars

\* The consumer polls for ever, and stores become visible to it in the end.
\* A producer in push is scheduled, but nothing makes it push.
Fairness ==
  /\ WF_vars(PopCheck(tail)) /\ WF_vars(PopMove \/ PopAdvance)
  /\ \A p \in Producer :
       WF_vars(PushCheck(p) \/ PushWrite(p) \/ PushPublish(p) \/ PushReturn(p))

FairSpec == Spec /\ Fairness

----------------------------------------------------------------------------
(* Properties *)

\* size()
Size == Distance(head, tail)

\* The items between head_ and tail_.
Contents == [i \in 1 .. Size |-> buffer[(head + i - 1) % Capacity]]

Fifo == INSTANCE BoundedFifo WITH queue <- Contents, Bound <- Capacity - 1

\* Every variable has its type; both indices stay inside the buffer.
TypeOK ==
  /\ head \in Slot /\ tail \in Slot /\ headSeen \in Slot /\ tailSeen \in Slot
  /\ buffer \in [Slot -> Item \cup {NoItem}]
  /\ producerLock \in BOOLEAN
  /\ pushPc \in [Producer -> {"idle", "check", "write", "publish", "return"}]
  /\ item \in [Producer -> Item \cup {NoItem}]
  /\ currentTail \in [Producer -> Slot]
  /\ popPc \in {"idle", "move", "advance"}
  /\ moved \in Item \cup {NoItem} /\ got \in Item \cup {NoItem}

\* The ring buffer is a FIFO queue of at most Capacity - 1 items: each item
\* whose push succeeded is popped once, in the order of the pushes, however the
\* threads interleave and however old the indices are that they read.
FifoSpec == Fifo!Spec

\* Plain accesses to buffer_ never race: a producer about to write a slot and
\* the consumer about to move out of one are at different slots, and no two
\* producers are about to write at once.
NoDataRace ==
  \A p \in Producer : pushPc[p] = "write" =>
    /\ popPc = "move" => currentTail[p] # head
    /\ \A q \in Producer : pushPc[q] = "write" => q = p

\* What has been pushed is popped in the end: the queue is empty time and again,
\* or the consumer goes on popping for ever.
Drains == []<>(head = tail) \/ []<><<head' # head>>_vars

\* No producer keeps the lock for ever.
LockReleased == producerLock ~> ~producerLock
=============================================================================
