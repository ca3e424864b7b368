------------------------ MODULE LockFreeQueueProofs ------------------------
(***************************************************************************)
(* For every capacity, every set of producers and every set of items: the  *)
(* ring buffers are free of data races and implement a bounded FIFO queue. *)
(***************************************************************************)
EXTENDS LockFreeQueue, SequenceTheorems, TLAPS

\* Going round the ring one meets, in this order, the head a producer has read,
\* the head, the tail the consumer has read and the tail.
RingOrder ==
  /\ Distance(headSeen, head) + Distance(head, tail) = Distance(headSeen, tail)
  /\ Distance(head, tailSeen) + Distance(tailSeen, tail) = Distance(head, tail)

\* At most one producer is past the lock.
OneProducer ==
  /\ \A p, q \in Producer : pushPc[p] # "idle" /\ pushPc[q] # "idle" => p = q
  /\ Locked /\ ~producerLock => \A p \in Producer : pushPc[p] = "idle"

\* A producer that has found room still has it, and publishes what it was given.
PushInProgress ==
  \A p \in Producer :
    /\ pushPc[p] # "idle" => item[p] \in Item
    /\ pushPc[p] \in {"write", "publish"} =>
         currentTail[p] = tail /\ Inc(tail) # headSeen
    /\ pushPc[p] = "publish" => buffer[tail] = item[p]

\* A consumer that has found an item still has it at the head.
PopInProgress ==
  /\ popPc # "idle" => head # tailSeen
  /\ popPc = "advance" => moved = buffer[head]

QueueInvariant ==
  TypeOK /\ RingOrder /\ OneProducer /\ PushInProgress /\ PopInProgress

----------------------------------------------------------------------------
(* Arithmetic on the ring, without % *)

\* The mask is the remainder, so an index wraps to 0 after the last slot.
LEMMA IncValue ==
  ASSUME NEW i \in Slot
  PROVE  /\ Inc(i) \in Slot
         /\ Inc(i) = IF i + 1 = Capacity THEN 0 ELSE i + 1
<1>1. CASE i + 1 = Capacity
  <2>1. Capacity % Capacity = 0
    BY QueueAssumption
  <2>. QED
    BY <1>1, <2>1, QueueAssumption DEF Inc, Slot
<1>2. CASE i + 1 # Capacity
  BY <1>2, QueueAssumption DEF Inc, Slot
<1>. QED
  BY <1>1, <1>2

\* size() counts the slots from i up to j, through the wrap when j is below i.
LEMMA DistanceValue ==
  ASSUME NEW i \in Slot, NEW j \in Slot
  PROVE  /\ Distance(i, j) \in Slot
         /\ Distance(i, j) = IF i <= j THEN j - i ELSE j - i + Capacity
<1>1. CASE i <= j
  <2>1. (j - i + Capacity) % Capacity = j - i
    BY <1>1, QueueAssumption DEF Slot
  <2>. QED
    BY <1>1, <2>1, QueueAssumption DEF Distance, Slot
<1>2. CASE i > j
  BY <1>2, QueueAssumption DEF Distance, Slot
<1>. QED
  BY <1>1, <1>2 DEF Slot

\* The k-th slot after the head.
LEMMA SlotAfter ==
  ASSUME NEW h \in Slot, NEW k \in Slot
  PROVE  /\ (h + k) % Capacity \in Slot
         /\ (h + k) % Capacity = IF h + k < Capacity THEN h + k ELSE h + k - Capacity
<1>1. CASE h + k < Capacity
  BY <1>1, QueueAssumption DEF Slot
<1>2. CASE h + k >= Capacity
  BY <1>2, QueueAssumption DEF Slot
<1>. QED
  BY <1>1, <1>2, QueueAssumption DEF Slot


\* Slots are the integers below the capacity.
LEMMA SlotBounds ==
  /\ Capacity \in Int /\ Capacity >= 1
  /\ \A i : i \in Slot <=> i \in Int /\ 0 <= i /\ i < Capacity
BY QueueAssumption DEF Slot

\* Only equal indices are no step apart.
LEMMA DistanceZero ==
  ASSUME NEW i \in Slot, NEW j \in Slot
  PROVE  Distance(i, j) = 0 <=> i = j
<1>1. Distance(i, j) = IF i <= j THEN j - i ELSE j - i + Capacity
  BY DistanceValue
<1>. QED
  BY <1>1, SlotBounds

\* Advancing the far index adds a step, unless it runs into the near one.
LEMMA FarAdvances ==
  ASSUME NEW i \in Slot, NEW j \in Slot
  PROVE  /\ Inc(j) # i => Distance(i, Inc(j)) = Distance(i, j) + 1
         /\ Inc(j) # i <=> Distance(i, j) + 1 < Capacity
<1>1. Distance(i, j) = IF i <= j THEN j - i ELSE j - i + Capacity
  BY DistanceValue
<1>2. Inc(j) \in Slot /\ Inc(j) = IF j + 1 = Capacity THEN 0 ELSE j + 1
  BY IncValue
<1>3. Distance(i, Inc(j)) = IF i <= Inc(j) THEN Inc(j) - i ELSE Inc(j) - i + Capacity
  BY <1>2, DistanceValue
<1>. QED
  BY <1>1, <1>2, <1>3, SlotBounds

\* Advancing the near index takes a step away, unless the two were equal.
LEMMA NearAdvances ==
  ASSUME NEW i \in Slot, NEW j \in Slot, i # j
  PROVE  Distance(Inc(i), j) = Distance(i, j) - 1
<1>1. Distance(i, j) = IF i <= j THEN j - i ELSE j - i + Capacity
  BY DistanceValue
<1>2. Inc(i) \in Slot /\ Inc(i) = IF i + 1 = Capacity THEN 0 ELSE i + 1
  BY IncValue
<1>3. Distance(Inc(i), j) = IF Inc(i) <= j THEN j - Inc(i) ELSE j - Inc(i) + Capacity
  BY <1>2, DistanceValue
<1>. QED
  BY <1>1, <1>2, <1>3, SlotBounds

\* What a slot between i and j splits the way into.
LEMMA Between ==
  ASSUME NEW i \in Slot, NEW k \in Slot, NEW j \in Slot
  PROVE  Distance(i, k) <= Distance(i, j) <=> Distance(i, k) + Distance(k, j) = Distance(i, j)
<1>1. /\ Distance(i, k) = IF i <= k THEN k - i ELSE k - i + Capacity
      /\ Distance(k, j) = IF k <= j THEN j - k ELSE j - k + Capacity
      /\ Distance(i, j) = IF i <= j THEN j - i ELSE j - i + Capacity
  BY DistanceValue
<1>. QED
  BY <1>1, SlotBounds

\* The same seen from the far end.
LEMMA BetweenBack ==
  ASSUME NEW i \in Slot, NEW k \in Slot, NEW j \in Slot
  PROVE  Distance(k, j) <= Distance(i, j) <=> Distance(i, k) + Distance(k, j) = Distance(i, j)
<1>1. /\ Distance(i, k) = IF i <= k THEN k - i ELSE k - i + Capacity
      /\ Distance(k, j) = IF k <= j THEN j - k ELSE j - k + Capacity
      /\ Distance(i, j) = IF i <= j THEN j - i ELSE j - i + Capacity
  BY DistanceValue
<1>. QED
  BY <1>1, SlotBounds

\* Distances are integers of the range of a slot.
LEMMA DistanceInt ==
  ASSUME NEW i \in Slot, NEW j \in Slot
  PROVE  Distance(i, j) \in Int /\ 0 <= Distance(i, j) /\ Distance(i, j) < Capacity
<1>1. Distance(i, j) \in Slot
  BY DistanceValue
<1>. QED
  BY <1>1, SlotBounds

----------------------------------------------------------------------------
(* The invariant *)

\* The empty queue satisfies the invariant.
LEMMA InitInvariant == Init => QueueInvariant
<1>. SUFFICES ASSUME Init PROVE QueueInvariant
  OBVIOUS
<1>1. 0 \in Slot
  BY QueueAssumption DEF Slot
<1>2. TypeOK
  BY <1>1 DEF Init, TypeOK
<1>3. RingOrder
  BY <1>1, DistanceValue DEF Init, RingOrder
<1>. QED
  BY <1>2, <1>3 DEF Init, QueueInvariant, OneProducer, PushInProgress, PopInProgress

\* A value that was visible lies between the last one read and the current one.
LEMMA VisibleOrder ==
  ASSUME NEW seen \in Slot, NEW now \in Slot, NEW h \in Visible(seen, now)
  PROVE  h \in Slot /\ Distance(seen, h) <= Distance(seen, now)
BY DEF Visible

\* push: taking the lock.
LEMMA PushBeginInvariant ==
  ASSUME QueueInvariant, NEW p \in Producer, NEW x \in Item, PushBegin(p, x)
  PROVE  QueueInvariant'
<1>. USE DEF QueueInvariant, PushBegin, popVars
<1>1. TypeOK'
  BY QueueAssumption DEF TypeOK
<1>2. RingOrder'
  BY DEF RingOrder, Distance
<1>3. OneProducer'
  BY QueueAssumption DEF TypeOK, OneProducer
<1>4. PushInProgress'
  BY DEF TypeOK, PushInProgress, Inc
<1>5. PopInProgress'
  BY DEF PopInProgress
<1>. QED
  BY <1>1, <1>2, <1>3, <1>4, <1>5

\* push: reading the head, possibly an old value of it.
LEMMA PushCheckInvariant ==
  ASSUME QueueInvariant, NEW p \in Producer, PushCheck(p)
  PROVE  QueueInvariant'
<1>. USE DEF QueueInvariant, PushCheck, popVars
<1>1. PICK h \in Visible(headSeen, head) :
        /\ headSeen' = h
        /\ pushPc' = [pushPc EXCEPT ![p] = IF Inc(tail) = h THEN "return" ELSE "write"]
  OBVIOUS
<1>2. h \in Slot /\ Distance(headSeen, h) <= Distance(headSeen, head)
  BY VisibleOrder DEF TypeOK
<1>3. TypeOK'
  BY <1>1, <1>2 DEF TypeOK
<1>4. RingOrder'
  <2>1. Distance(h, head) + Distance(head, tail) = Distance(h, tail)
    <3>1. /\ Distance(headSeen, h) + Distance(h, head) = Distance(headSeen, head)
          /\ Distance(headSeen, head) + Distance(head, tail) = Distance(headSeen, tail)
      BY <1>2, Between DEF TypeOK, RingOrder
    <3>2. Distance(headSeen, h) <= Distance(headSeen, tail)
      BY <1>2, <3>1, DistanceInt DEF TypeOK
    <3>3. Distance(headSeen, h) + Distance(h, tail) = Distance(headSeen, tail)
      BY <1>2, <3>2, Between DEF TypeOK
    <3>. QED
      BY <1>2, <3>1, <3>3, DistanceInt DEF TypeOK
  <2>. QED
    BY <2>1, <1>1 DEF RingOrder, Distance
<1>5. OneProducer'
  BY <1>1, QueueAssumption DEF TypeOK, OneProducer
<1>6. PushInProgress'
  BY <1>1 DEF TypeOK, OneProducer, PushInProgress, Inc
<1>7. PopInProgress'
  BY DEF PopInProgress
<1>. QED
  BY <1>3, <1>4, <1>5, <1>6, <1>7

\* There is room between the tail and the head for a producer that found some.
LEMMA RoomForPush ==
  ASSUME QueueInvariant, NEW p \in Producer, pushPc[p] \in {"write", "publish"}
  PROVE  /\ currentTail[p] = tail
         /\ Inc(tail) # head
         /\ Size + 1 < Capacity
<1>1. currentTail[p] = tail /\ Inc(tail) # headSeen
  BY DEF QueueInvariant, PushInProgress
<1>2. Distance(headSeen, tail) + 1 < Capacity
  BY <1>1, FarAdvances DEF QueueInvariant, TypeOK
<1>3. Distance(head, tail) + 1 < Capacity
  BY <1>2, DistanceInt, SlotBounds DEF QueueInvariant, TypeOK, RingOrder
<1>4. Inc(tail) # head
  BY <1>3, FarAdvances DEF QueueInvariant, TypeOK
<1>. QED
  BY <1>1, <1>3, <1>4 DEF Size

\* A queue in which the consumer has found an item is not empty.
LEMMA ItemForPop ==
  ASSUME QueueInvariant, popPc # "idle"
  PROVE  head # tail
<1>1. Distance(head, tailSeen) # 0
  BY DistanceZero DEF QueueInvariant, TypeOK, PopInProgress
<1>2. Distance(head, tail) # 0
  BY <1>1, DistanceInt DEF QueueInvariant, TypeOK, RingOrder
<1>. QED
  BY <1>2, DistanceZero DEF QueueInvariant, TypeOK

\* push: writing the slot at the tail.
LEMMA PushWriteInvariant ==
  ASSUME QueueInvariant, NEW p \in Producer, PushWrite(p)
  PROVE  QueueInvariant'
<1>. USE DEF QueueInvariant, PushWrite, popVars
<1>0. currentTail[p] = tail
  BY RoomForPush
<1>1. TypeOK'
  BY DEF TypeOK
<1>2. RingOrder'
  BY DEF RingOrder, Distance
<1>3. OneProducer'
  BY DEF TypeOK, OneProducer
<1>4. PushInProgress'
  BY <1>0 DEF TypeOK, OneProducer, PushInProgress, Inc
<1>5. PopInProgress'
  <2>1. popPc # "idle" => head # tail
    BY ItemForPop
  <2>. QED
    BY <1>0, <2>1 DEF TypeOK, PopInProgress
<1>. QED
  BY <1>1, <1>2, <1>3, <1>4, <1>5

\* push: publishing the new tail.
LEMMA PushPublishInvariant ==
  ASSUME QueueInvariant, NEW p \in Producer, PushPublish(p)
  PROVE  QueueInvariant'
<1>. USE DEF QueueInvariant, PushPublish, popVars
<1>0. /\ currentTail[p] = tail
      /\ Inc(tail) # head
      /\ Inc(tail) # headSeen
  BY RoomForPush DEF PushInProgress
<1>1. TypeOK'
  BY <1>0, IncValue DEF TypeOK
<1>2. RingOrder'
  <2>1. /\ Distance(headSeen, head) + Distance(head, Inc(tail)) = Distance(headSeen, Inc(tail))
        /\ Distance(head, tailSeen) + Distance(tailSeen, Inc(tail)) = Distance(head, Inc(tail))
    <3>1. Inc(tail) # tailSeen
      <4>1. Distance(head, tail) + 1 < Capacity
        BY <1>0, FarAdvances DEF TypeOK
      <4>2. /\ Distance(head, tailSeen) \in Int /\ 0 <= Distance(head, tailSeen)
            /\ Distance(tailSeen, tail) \in Int
            /\ Distance(head, tailSeen) + Distance(tailSeen, tail) = Distance(head, tail)
        BY DistanceInt DEF TypeOK, RingOrder
      <4>3. Distance(tailSeen, tail) + 1 < Capacity
        BY <4>1, <4>2, SlotBounds
      <4>. QED
        BY <4>3, FarAdvances DEF TypeOK
    <3>2. /\ Distance(headSeen, Inc(tail)) = Distance(headSeen, tail) + 1
          /\ Distance(head, Inc(tail)) = Distance(head, tail) + 1
          /\ Distance(tailSeen, Inc(tail)) = Distance(tailSeen, tail) + 1
      BY <1>0, <3>1, FarAdvances DEF TypeOK
    <3>. QED
      BY <3>2, DistanceInt DEF TypeOK, RingOrder
  <2>. QED
    BY <1>0, <2>1 DEF RingOrder, Distance
<1>3. OneProducer'
  BY DEF TypeOK, OneProducer
<1>4. PushInProgress'
  BY DEF TypeOK, OneProducer, PushInProgress, Inc
<1>5. PopInProgress'
  BY DEF PopInProgress
<1>. QED
  BY <1>1, <1>2, <1>3, <1>4, <1>5

\* push: giving the lock back.
LEMMA PushReturnInvariant ==
  ASSUME QueueInvariant, NEW p \in Producer, PushReturn(p)
  PROVE  QueueInvariant'
<1>. USE DEF QueueInvariant, PushReturn, popVars
<1>1. TypeOK'
  BY DEF TypeOK
<1>2. RingOrder'
  BY DEF RingOrder, Distance
<1>3. OneProducer'
  BY DEF TypeOK, OneProducer
<1>4. PushInProgress'
  BY DEF TypeOK, OneProducer, PushInProgress, Inc
<1>5. PopInProgress'
  BY DEF PopInProgress
<1>. QED
  BY <1>1, <1>2, <1>3, <1>4, <1>5

\* pop: reading the tail, possibly an old value of it.
LEMMA PopCheckInvariant ==
  ASSUME QueueInvariant, NEW t \in Slot, PopCheck(t)
  PROVE  QueueInvariant'
<1>. USE DEF QueueInvariant, PopCheck, pushVars
<1>1. TypeOK'
  BY DEF TypeOK
<1>2. RingOrder'
  <2>1. Distance(tailSeen, t) <= Distance(tailSeen, tail)
    BY VisibleOrder DEF TypeOK
  <2>2. Distance(head, t) + Distance(t, tail) = Distance(head, tail)
    <3>1. Distance(tailSeen, t) + Distance(t, tail) = Distance(tailSeen, tail)
      BY <2>1, Between DEF TypeOK
    <3>2. Distance(t, tail) <= Distance(head, tail)
      BY <3>1, DistanceInt DEF TypeOK, RingOrder
    <3>. QED
      BY <3>2, BetweenBack DEF TypeOK
  <2>. QED
    BY <2>2 DEF RingOrder, Distance
<1>3. OneProducer'
  BY DEF OneProducer
<1>4. PushInProgress'
  BY DEF PushInProgress, Inc
<1>5. PopInProgress'
  BY DEF PopInProgress
<1>. QED
  BY <1>1, <1>2, <1>3, <1>4, <1>5

\* pop: moving the item out.
LEMMA PopMoveInvariant ==
  ASSUME QueueInvariant, PopMove
  PROVE  QueueInvariant'
<1>. USE DEF QueueInvariant, PopMove, pushVars
<1>1. TypeOK'
  BY DEF TypeOK
<1>2. RingOrder'
  BY DEF RingOrder, Distance
<1>3. OneProducer' /\ PushInProgress'
  BY DEF OneProducer, PushInProgress, Inc
<1>4. PopInProgress'
  BY DEF PopInProgress
<1>. QED
  BY <1>1, <1>2, <1>3, <1>4

\* pop: giving the slot back to the producers.
LEMMA PopAdvanceInvariant ==
  ASSUME QueueInvariant, PopAdvance
  PROVE  QueueInvariant'
<1>. USE DEF QueueInvariant, PopAdvance, pushVars
<1>1. TypeOK'
  BY IncValue DEF TypeOK
<1>2. RingOrder'
  <2>1. head # tailSeen
    BY DEF PopInProgress
  <2>2. /\ Distance(headSeen, Inc(head)) + Distance(Inc(head), tail) = Distance(headSeen, tail)
        /\ Distance(Inc(head), tailSeen) + Distance(tailSeen, tail) = Distance(Inc(head), tail)
    <3>1. head # tail
      BY ItemForPop
    <3>2. Inc(head) # headSeen
      <4>1. /\ Distance(headSeen, head) \in Int
            /\ Distance(head, tail) \in Int /\ 0 <= Distance(head, tail)
            /\ Distance(headSeen, tail) < Capacity
            /\ Distance(headSeen, head) + Distance(head, tail) = Distance(headSeen, tail)
        BY DistanceInt DEF TypeOK, RingOrder
      <4>2. Distance(head, tail) # 0
        BY <3>1, DistanceZero DEF TypeOK
      <4>3. Distance(headSeen, head) + 1 < Capacity
        BY <4>1, <4>2, SlotBounds
      <4>. QED
        BY <4>3, FarAdvances DEF TypeOK
    <3>3. /\ Distance(headSeen, Inc(head)) = Distance(headSeen, head) + 1
          /\ Distance(Inc(head), tail) = Distance(head, tail) - 1
          /\ Distance(Inc(head), tailSeen) = Distance(head, tailSeen) - 1
      BY <2>1, <3>1, <3>2, FarAdvances, NearAdvances DEF TypeOK
    <3>. QED
      BY <3>3, DistanceInt DEF TypeOK, RingOrder
  <2>. QED
    BY <2>2 DEF RingOrder, Distance
<1>3. OneProducer' /\ PushInProgress'
  BY DEF OneProducer, PushInProgress, Inc
<1>4. PopInProgress'
  BY DEF PopInProgress
<1>. QED
  BY <1>1, <1>2, <1>3, <1>4

\* Every step of every thread keeps the invariant.
LEMMA NextInvariant == QueueInvariant /\ [Next]_vars => QueueInvariant'
<1>. SUFFICES ASSUME QueueInvariant, [Next]_vars
              PROVE  QueueInvariant'
  OBVIOUS
<1>1. CASE Pop
  BY <1>1, PopCheckInvariant, PopMoveInvariant, PopAdvanceInvariant DEF Pop
<1>2. ASSUME NEW p \in Producer, Push(p)
      PROVE  QueueInvariant'
  BY <1>2, PushBeginInvariant, PushCheckInvariant, PushWriteInvariant,
     PushPublishInvariant, PushReturnInvariant DEF Push
<1>3. CASE UNCHANGED vars
  BY <1>3 DEF vars, pushVars, popVars, QueueInvariant, TypeOK, RingOrder, OneProducer,
              PushInProgress, PopInProgress, Distance, Inc
<1>. QED
  BY <1>1, <1>2, <1>3 DEF Next

\* The inductive invariant holds in every behaviour of the ring buffer.
THEOREM QueueInvariantHolds == Spec => []QueueInvariant
<1>. QED
  BY InitInvariant, NextInvariant, PTL DEF Spec

\* head_ and tail_ stay inside the buffer whatever its capacity.
THEOREM QueueTypeCorrect == Spec => []TypeOK
<1>1. QueueInvariant => TypeOK
  BY DEF QueueInvariant
<1>. QED
  BY <1>1, QueueInvariantHolds, PTL

\* The plain accesses of push and pop to buffer_ never race.
THEOREM DataRaceFree == Spec => []NoDataRace
<1>1. QueueInvariant => NoDataRace
  <2>. SUFFICES ASSUME QueueInvariant, NEW p \in Producer, pushPc[p] = "write"
                PROVE  /\ popPc = "move" => currentTail[p] # head
                       /\ \A q \in Producer : pushPc[q] = "write" => q = p
    BY DEF NoDataRace
  <2>1. currentTail[p] = tail
    BY RoomForPush
  <2>2. popPc = "move" => head # tail
    BY ItemForPop
  <2>. QED
    BY <2>1, <2>2 DEF QueueInvariant, OneProducer
<1>. QED
  BY <1>1, QueueInvariantHolds, PTL


----------------------------------------------------------------------------
(* The refinement *)

\* The slots that hold the contents, counted from the head, never include the
\* tail, which is the slot behind them.
LEMMA SlotsInUse ==
  ASSUME NEW h \in Slot, NEW t \in Slot
  PROVE  /\ \A i \in 1 .. Distance(h, t) :
              /\ (h + i - 1) % Capacity \in Slot
              /\ (h + i - 1) % Capacity # t
         /\ (h + Distance(h, t)) % Capacity = t
<1>0. /\ Distance(h, t) = IF h <= t THEN t - h ELSE t - h + Capacity
      /\ Distance(h, t) \in Slot
  BY DistanceValue
<1>1. ASSUME NEW i \in 1 .. Distance(h, t)
      PROVE  /\ (h + i - 1) % Capacity \in Slot
             /\ (h + i - 1) % Capacity # t
  <2>1. i - 1 \in Slot /\ h + i - 1 = h + (i - 1)
    BY <1>0, SlotBounds
  <2>2. /\ (h + (i - 1)) % Capacity \in Slot
        /\ (h + (i - 1)) % Capacity = IF h + (i - 1) < Capacity THEN h + (i - 1)
                                      ELSE h + (i - 1) - Capacity
    BY <2>1, SlotAfter
  <2>. QED
    BY <1>0, <2>1, <2>2, SlotBounds
<1>2. (h + Distance(h, t)) % Capacity = t
  <2>1. (h + Distance(h, t)) % Capacity
          = IF h + Distance(h, t) < Capacity THEN h + Distance(h, t)
            ELSE h + Distance(h, t) - Capacity
    BY <1>0, SlotAfter
  <2>. QED
    BY <1>0, <2>1, SlotBounds
<1>. QED
  BY <1>1, <1>2

\* Counting from the next slot is counting one further.
LEMMA NextSlots ==
  ASSUME NEW h \in Slot, NEW t \in Slot, h # t
  PROVE  \A i \in 1 .. Distance(h, t) - 1 :
           (Inc(h) + i - 1) % Capacity = (h + (i + 1) - 1) % Capacity
<1>0. /\ Distance(h, t) \in Int /\ 0 <= Distance(h, t) /\ Distance(h, t) < Capacity
      /\ Inc(h) \in Slot
      /\ Inc(h) = IF h + 1 = Capacity THEN 0 ELSE h + 1
  BY DistanceInt, IncValue
<1>1. SUFFICES ASSUME NEW i \in 1 .. Distance(h, t) - 1
               PROVE  (Inc(h) + i - 1) % Capacity = (h + (i + 1) - 1) % Capacity
  OBVIOUS
<1>2. /\ i \in Slot /\ i - 1 \in Slot
      /\ Inc(h) + i - 1 = Inc(h) + (i - 1) /\ h + (i + 1) - 1 = h + i
  BY <1>0, SlotBounds
<1>3. /\ (h + i) % Capacity = IF h + i < Capacity THEN h + i ELSE h + i - Capacity
      /\ (Inc(h) + (i - 1)) % Capacity = IF Inc(h) + (i - 1) < Capacity THEN Inc(h) + (i - 1)
                                         ELSE Inc(h) + (i - 1) - Capacity
  BY <1>0, <1>2, SlotAfter
<1>4. (h + i) % Capacity = (Inc(h) + (i - 1)) % Capacity
  BY <1>0, <1>2, <1>3, SlotBounds
<1>. QED
  BY <1>2, <1>4

\* The contents are a sequence as long as size() says.
LEMMA ContentsType ==
  ASSUME TypeOK
  PROVE  /\ Size \in Nat
         /\ Contents \in Seq(Item \cup {NoItem})
         /\ Len(Contents) = Size
<1>1. Size \in Nat
  BY DistanceInt, SlotBounds DEF TypeOK, Size
<1>2. \A i \in 1 .. Size : (head + i - 1) % Capacity \in Slot
  BY SlotsInUse DEF TypeOK, Size
<1>. QED
  BY <1>1, <1>2 DEF TypeOK, Contents

\* A step that keeps both indices, and every slot but the one at the tail,
\* keeps the contents.
LEMMA ContentsKept ==
  ASSUME TypeOK, head' = head, tail' = tail,
         \A i \in Slot : i # tail => buffer'[i] = buffer[i]
  PROVE  Contents' = Contents
<1>1. Size' = Size
  BY DEF Size, Distance
<1>2. \A i \in 1 .. Size :
        buffer'[(head + i - 1) % Capacity] = buffer[(head + i - 1) % Capacity]
  BY SlotsInUse DEF TypeOK, Size
<1>. QED
  BY <1>1, <1>2 DEF Contents

\* Publishing the tail appends the item to the contents.
LEMMA PublishAppends ==
  ASSUME QueueInvariant, NEW p \in Producer, PushPublish(p)
  PROVE  Fifo!Push(item[p])
<1>0. /\ TypeOK
      /\ pushPc[p] = "publish"
      /\ tail' = Inc(tail) /\ head' = head /\ buffer' = buffer /\ got' = got
      /\ Inc(tail) # head /\ Size + 1 < Capacity
      /\ buffer[tail] = item[p]
  BY RoomForPush DEF QueueInvariant, PushPublish, PushInProgress, popVars
<1>1. Size' = Size + 1
  BY <1>0, FarAdvances DEF TypeOK, Size, Distance
<1>2. /\ Size \in Nat
      /\ Contents \in Seq(Item \cup {NoItem})
      /\ Len(Contents) = Size
  BY <1>0, ContentsType
<1>3. buffer[(head + (Size + 1) - 1) % Capacity] = item[p]
  <2>1. (head + Size) % Capacity = tail
    BY <1>0, SlotsInUse DEF TypeOK, Size
  <2>2. head + (Size + 1) - 1 = head + Size
    BY <1>0, <1>2, SlotBounds DEF TypeOK
  <2>. QED
    BY <1>0, <2>1, <2>2
<1>4. Contents' = [i \in 1 .. Size + 1 |-> buffer[(head + i - 1) % Capacity]]
  BY <1>0, <1>1 DEF Contents
<1>5. Append(Contents, item[p])
        = [i \in 1 .. Size + 1 |-> IF i <= Size THEN Contents[i] ELSE item[p]]
  BY <1>2
<1>6. \A i \in 1 .. Size + 1 :
        buffer[(head + i - 1) % Capacity] = IF i <= Size THEN Contents[i] ELSE item[p]
  BY <1>2, <1>3 DEF Contents
<1>7. Contents' = Append(Contents, item[p])
  BY <1>4, <1>5, <1>6
<1>8. Len(Contents) < Capacity - 1
  BY <1>0, <1>2, SlotBounds
<1>. QED
  BY <1>0, <1>7, <1>8 DEF Fifo!Push

\* Advancing the head takes the first item off the contents.
LEMMA AdvancePops ==
  ASSUME QueueInvariant, PopAdvance
  PROVE  Fifo!Pop
<1>0. /\ TypeOK
      /\ head' = Inc(head) /\ tail' = tail /\ buffer' = buffer /\ got' = buffer[head]
      /\ head # tail
  BY ItemForPop DEF QueueInvariant, PopAdvance, PopInProgress, pushVars
<1>1. Size' = Size - 1
  BY <1>0, NearAdvances DEF TypeOK, Size, Distance
<1>2. /\ Size \in Nat /\ Size # 0
      /\ Contents \in Seq(Item \cup {NoItem})
      /\ Len(Contents) = Size
  BY <1>0, ContentsType, DistanceZero DEF TypeOK, Size
<1>3. Head(Contents) = buffer[head]
  <2>1. (head + 0) % Capacity = head
    BY <1>0, SlotAfter, SlotBounds DEF TypeOK
  <2>2. head + 1 - 1 = head /\ head + 0 = head
    BY <1>0, SlotBounds DEF TypeOK
  <2>. QED
    BY <1>2, <2>1, <2>2 DEF Contents
<1>4. Contents' = [i \in 1 .. Size - 1 |-> buffer[(Inc(head) + i - 1) % Capacity]]
  BY <1>0, <1>1 DEF Contents
<1>5. /\ Tail(Contents) \in Seq(Item \cup {NoItem})
      /\ Len(Tail(Contents)) = Size - 1
      /\ \A i \in 1 .. Size - 1 : Tail(Contents)[i] = Contents[i + 1]
  BY <1>2, HeadTailProperties
<1>6. \A i \in 1 .. Size - 1 :
        /\ i + 1 \in 1 .. Size
        /\ buffer[(Inc(head) + i - 1) % Capacity] = Contents[i + 1]
  BY <1>0, <1>2, NextSlots DEF TypeOK, Contents, Size
<1>7. Contents' = Tail(Contents)
  <2>1. /\ Contents' \in Seq(Item \cup {NoItem})
        /\ Len(Contents') = Size - 1
        /\ \A i \in 1 .. Size - 1 : Contents'[i] = Contents[i + 1]
    BY <1>2, <1>4, <1>5, <1>6
  <2>. QED
    BY <1>5, <2>1, SeqEqual
<1>. QED
  BY <1>0, <1>2, <1>3, <1>7 DEF Fifo!Pop

\* Every step is a push, a pop or invisible to the abstract queue.
LEMMA StepRefines ==
  ASSUME QueueInvariant, [Next]_vars
  PROVE  [Fifo!Next]_(Fifo!vars)
<1>0. TypeOK
  BY DEF QueueInvariant
<1>1. CASE Pop
  <2>1. CASE PopAdvance
    BY <2>1, AdvancePops DEF Fifo!Next
  <2>2. CASE PopMove \/ \E t \in Slot : PopCheck(t)
    <3>1. Contents' = Contents
      BY <1>0, <2>2, ContentsKept DEF PopMove, PopCheck, pushVars
    <3>. QED
      BY <2>2, <3>1 DEF PopMove, PopCheck, Fifo!vars
  <2>. QED
    BY <1>1, <2>1, <2>2 DEF Pop
<1>2. ASSUME NEW p \in Producer, Push(p)
      PROVE  [Fifo!Next]_(Fifo!vars)
  <2>1. CASE PushPublish(p)
    BY <2>1, PublishAppends DEF Fifo!Next, QueueInvariant, PushInProgress, PushPublish
  <2>2. CASE PushWrite(p)
    <3>1. Contents' = Contents
      BY <1>0, <2>2, ContentsKept, RoomForPush DEF PushWrite, popVars, TypeOK
    <3>. QED
      BY <2>2, <3>1 DEF PushWrite, popVars, Fifo!vars
  <2>3. CASE PushCheck(p) \/ PushReturn(p) \/ \E x \in Item : PushBegin(p, x)
    <3>1. Contents' = Contents
      BY <1>0, <2>3, ContentsKept DEF PushCheck, PushReturn, PushBegin, popVars
    <3>. QED
      BY <2>3, <3>1 DEF PushCheck, PushReturn, PushBegin, popVars, Fifo!vars
  <2>. QED
    BY <1>2, <2>1, <2>2, <2>3 DEF Push
<1>3. CASE UNCHANGED vars
  <2>1. Contents' = Contents
    BY <1>0, <1>3, ContentsKept DEF vars, pushVars, popVars
  <2>. QED
    BY <1>3, <2>1 DEF vars, popVars, Fifo!vars
<1>. QED
  BY <1>1, <1>2, <1>3 DEF Next

\* The ring buffer implements the bounded FIFO queue: pushes take effect when
\* the tail is published, pops when the head is.
THEOREM ImplementsFifo == Spec => FifoSpec
<1>1. Init => Fifo!Init
  <2>. SUFFICES ASSUME Init PROVE Fifo!Init
    OBVIOUS
  <2>1. TypeOK /\ head = tail /\ got = NoItem
    BY InitInvariant DEF QueueInvariant, Init
  <2>2. Size = 0
    BY <2>1, DistanceZero DEF TypeOK, Size
  <2>3. Contents = <<>>
    BY <2>2 DEF Contents
  <2>. QED
    BY <2>1, <2>3 DEF Fifo!Init
<1>. QED
  BY <1>1, QueueInvariantHolds, StepRefines, PTL DEF Spec, FifoSpec, Fifo!Spec
=============================================================================
