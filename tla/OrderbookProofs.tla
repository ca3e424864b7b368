-------------------------- MODULE OrderbookProofs --------------------------
(***************************************************************************)
(* Theorems about the order book, for every set of orders, prices and      *)
(* quantities.  The inductive invariant adds to the published invariants   *)
(* what is known of the order whose addToBook call is in progress.  On top *)
(* of it, the sums the book keeps are shown to be exact.                   *)
(***************************************************************************)
EXTENDS Orderbook, SumProofs, SequenceTheorems, TLAPS

\* The order whose call is in progress is open, and it still has an entry in
\* orders_ only when it came in by ModifyOrder, so only when it is a LIMIT order.
CallInProgress ==
  incoming # None =>
    /\ heap[incoming].price \in Price
    /\ heap[incoming].side \in Side
    /\ heap[incoming].type \in OrderType
    /\ heap[incoming].status \in {"NEW", "MODIFY"}
    /\ incoming \in orders => heap[incoming].type = "LIMIT"

BookInvariant == TypeOK /\ BookIndexed /\ Uncrossed /\ CallInProgress

----------------------------------------------------------------------------
(* Queues *)

NoRepeat(s) == \A i, j \in DOMAIN s : s[i] = s[j] => i = j

\* Removing an order that is queued once moves the orders behind it forward.
LEMMA RemoveFirstAt ==
  ASSUME NEW S, NEW s \in Seq(S), NoRepeat(s),
         NEW k \in DOMAIN s
  PROVE  LET r == RemoveFirst(s, s[k]) IN
         /\ r \in Seq(S) /\ Len(r) = Len(s) - 1 /\ DOMAIN r = 1 .. Len(s) - 1
         /\ \A j \in 1 .. Len(s) - 1 : r[j] = IF j < k THEN s[j] ELSE s[j + 1]
<1> DEFINE I == {i \in 1 .. Len(s) : s[i] = s[k]}
           a == SubSeq(s, 1, k - 1)
           b == SubSeq(s, k + 1, Len(s))
           r == RemoveFirst(s, s[k])
<1>1. /\ DOMAIN s = 1 .. Len(s) /\ Len(s) \in Nat /\ k \in 1 .. Len(s)
      /\ \A i \in 1 .. Len(s) : s[i] \in S
  BY LenProperties
<1>2. I = {k}
  BY <1>1 DEF NoRepeat
<1>3. Min(I) = k
  BY <1>1, <1>2 DEF Min
<1>4. SelectInSeq(s, LAMBDA v : v = s[k]) = k
  BY <1>2, <1>3 DEF SelectInSeq
<1>5. r = a \o b
  BY <1>1, <1>4 DEF RemoveFirst, RemoveAt
<1>6. /\ a \in Seq(S) /\ Len(a) = k - 1
      /\ \A i \in 1 .. k - 1 : a[i] = s[i]
  <2>1. \A i \in 1 .. k - 1 : s[i] \in S
    BY <1>1
  <2>2. /\ a \in Seq(S)
        /\ Len(a) = IF 1 <= k - 1 THEN (k - 1) - 1 + 1 ELSE 0
        /\ \A i \in 1 .. (k - 1) - 1 + 1 : a[i] = s[1 + i - 1]
    BY <1>1, <2>1, SubSeqProperties
  <2> QED BY <1>1, <2>2
<1>7. /\ b \in Seq(S) /\ Len(b) = Len(s) - k
      /\ \A i \in 1 .. Len(s) - k : b[i] = s[k + i]
  <2>1. \A i \in k + 1 .. Len(s) : s[i] \in S
    BY <1>1
  <2>2. /\ b \in Seq(S)
        /\ Len(b) = IF k + 1 <= Len(s) THEN Len(s) - (k + 1) + 1 ELSE 0
        /\ \A i \in 1 .. Len(s) - (k + 1) + 1 : b[i] = s[(k + 1) + i - 1]
    BY <1>1, <2>1, SubSeqProperties
  <2> HIDE DEF b
  <2>3. ASSUME NEW i \in 1 .. Len(s) - k
        PROVE  b[i] = s[k + i]
    <3>1. i \in 1 .. Len(s) - (k + 1) + 1 /\ (k + 1) + i - 1 = k + i
      BY <1>1
    <3> QED BY <2>2, <3>1
  <2> QED BY <1>1, <2>2, <2>3
<1>8. /\ r \in Seq(S) /\ Len(r) = Len(s) - 1 /\ DOMAIN r = 1 .. Len(s) - 1
      /\ \A j \in 1 .. Len(s) - 1 : r[j] = IF j < k THEN s[j] ELSE s[j + 1]
  <2>1. /\ a \o b \in Seq(S)
        /\ Len(a \o b) = Len(a) + Len(b)
        /\ \A i \in 1 .. Len(a) + Len(b) : (a \o b)[i] =
             IF i <= Len(a) THEN a[i] ELSE b[i - Len(a)]
    BY <1>6, <1>7, ConcatProperties
  <2>2. \A j \in 1 .. Len(s) - 1 : r[j] = IF j < k THEN s[j] ELSE s[j + 1]
    <3> HIDE DEF a, b, r
    <3> SUFFICES ASSUME NEW j \in 1 .. Len(s) - 1
                 PROVE  r[j] = IF j < k THEN s[j] ELSE s[j + 1]
      OBVIOUS
    <3>1. j \in 1 .. Len(a) + Len(b) /\ Len(a) = k - 1
      BY <1>1, <1>6, <1>7
    <3>2. r[j] = IF j <= k - 1 THEN a[j] ELSE b[j - (k - 1)]
      BY <1>5, <2>1, <3>1
    <3>3. CASE j < k
      BY <1>1, <1>6, <3>2, <3>3
    <3>4. CASE ~(j < k)
      <4>1. j - (k - 1) \in 1 .. Len(s) - k /\ k + (j - (k - 1)) = j + 1
        BY <1>1, <3>4
      <4>2. b[j - (k - 1)] = s[j + 1]
        BY <1>7, <4>1
      <4> QED BY <1>1, <3>2, <3>4, <4>2
    <3> QED BY <3>3, <3>4
  <2> HIDE DEF a, b, r
  <2>3. r \in Seq(S) /\ Len(r) = Len(s) - 1
    BY <1>1, <1>5, <1>6, <1>7, <2>1
  <2> QED BY <2>2, <2>3, LenProperties
<1> QED BY <1>8

\* Removing an order that is queued once leaves exactly the other orders, each
\* still once (the loop of removeOrderFromBook).
LEMMA RemoveFirstOnce ==
  ASSUME NEW S, NEW s \in Seq(S), NoRepeat(s),
         NEW k \in DOMAIN s
  PROVE  LET r == RemoveFirst(s, s[k]) IN
         /\ r \in Seq(S)
         /\ NoRepeat(r)
         /\ \A j \in DOMAIN r : r[j] # s[k] /\ \E i \in DOMAIN s : r[j] = s[i]
         /\ \A i \in DOMAIN s : i # k => \E j \in DOMAIN r : r[j] = s[i]
<1> DEFINE r == RemoveFirst(s, s[k])
<1>1. DOMAIN s = 1 .. Len(s) /\ Len(s) \in Nat /\ k \in 1 .. Len(s)
  BY LenProperties
<1> HIDE DEF r
<1>2. /\ r \in Seq(S) /\ Len(r) = Len(s) - 1 /\ DOMAIN r = 1 .. Len(s) - 1
      /\ \A j \in 1 .. Len(s) - 1 : r[j] = IF j < k THEN s[j] ELSE s[j + 1]
  BY RemoveFirstAt, Zenon DEF r
<1>3. NoRepeat(r)
  <2> SUFFICES ASSUME NEW i \in DOMAIN r, NEW j \in DOMAIN r, r[i] = r[j]
               PROVE  i = j
    BY DEF NoRepeat
  <2> DEFINE m == IF i < k THEN i ELSE i + 1
             n == IF j < k THEN j ELSE j + 1
  <2>1. m \in DOMAIN s /\ n \in DOMAIN s
    BY <1>1, <1>2
  <2>2. r[i] = s[m] /\ r[j] = s[n]
    BY <1>2
  <2>3. m = n
    <3> HIDE DEF m, n
    <3> QED BY <2>1, <2>2 DEF NoRepeat
  <2> QED BY <1>1, <1>2, <2>3
<1>4. \A j \in DOMAIN r : r[j] # s[k] /\ \E i \in DOMAIN s : r[j] = s[i]
  BY <1>1, <1>2 DEF NoRepeat
<1>5. ASSUME NEW i \in DOMAIN s, i # k
       PROVE  \E j \in DOMAIN r : r[j] = s[i]
  <2>1. CASE i < k
    BY <1>1, <1>2, <2>1
  <2>2. CASE i > k
    <3>1. i - 1 \in DOMAIN r /\ r[i - 1] = s[i]
      BY <1>1, <1>2, <2>2
    <3> QED BY <3>1
  <2> QED BY <1>1, <1>5, <2>1, <2>2
<1> QED BY <1>2, <1>3, <1>4, <1>5 DEF r

\* Popping the front of a queue leaves exactly the orders behind it.
LEMMA TailOnce ==
  ASSUME NEW S, NEW s \in Seq(S), NoRepeat(s), s # <<>>
  PROVE  /\ Head(s) \in S /\ 1 \in DOMAIN s /\ Head(s) = s[1]
         /\ Tail(s) \in Seq(S)
         /\ NoRepeat(Tail(s))
         /\ \A j \in DOMAIN Tail(s) :
              Tail(s)[j] # Head(s) /\ \E i \in DOMAIN s : Tail(s)[j] = s[i]
         /\ \A i \in DOMAIN s : i # 1 => \E j \in DOMAIN Tail(s) : Tail(s)[j] = s[i]
<1>1. /\ DOMAIN s = 1 .. Len(s) /\ Len(s) \in Nat \ {0}
  BY LenProperties, EmptySeq
<1>2. /\ Head(s) \in S /\ Head(s) = s[1]
      /\ Tail(s) \in Seq(S) /\ Len(Tail(s)) = Len(s) - 1
      /\ DOMAIN Tail(s) = 1 .. Len(s) - 1
      /\ \A i \in 1 .. Len(s) - 1 : Tail(s)[i] = s[i + 1]
  BY <1>1, HeadTailProperties, LenProperties
<1>3. ASSUME NEW i \in DOMAIN s, i # 1
      PROVE  \E j \in DOMAIN Tail(s) : Tail(s)[j] = s[i]
  <2>1. i - 1 \in DOMAIN Tail(s) /\ Tail(s)[i - 1] = s[i]
    BY <1>1, <1>2, <1>3
  <2> QED BY <2>1
<1> DEFINE t == Tail(s)
<1>4. NoRepeat(t)
  <2> HIDE DEF t
  <2> SUFFICES ASSUME NEW i \in DOMAIN t, NEW j \in DOMAIN t, t[i] = t[j]
               PROVE  i = j
    BY DEF NoRepeat
  <2>1. i + 1 \in DOMAIN s /\ j + 1 \in DOMAIN s /\ s[i + 1] = s[j + 1]
    BY <1>1, <1>2 DEF t
  <2> QED BY <1>2, <2>1 DEF NoRepeat, t
<1>5. ASSUME NEW j \in DOMAIN t
      PROVE  t[j] # Head(s) /\ \E i \in DOMAIN s : t[j] = s[i]
  <2>1. j + 1 \in DOMAIN s /\ 1 \in DOMAIN s /\ t[j] = s[j + 1] /\ j + 1 # 1
    BY <1>1, <1>2
  <2> QED BY <1>2, <2>1 DEF NoRepeat
<1> QED BY <1>1, <1>2, <1>3, <1>4, <1>5

\* push_back of an order that is not in the queue.
LEMMA PushBackOnce ==
  ASSUME NEW S, NEW s \in Seq(S), NoRepeat(s), NEW e \in S,
         \A i \in DOMAIN s : s[i] # e
  PROVE  LET r == Append(s, e) IN
         /\ r \in Seq(S) /\ r # <<>>
         /\ NoRepeat(r)
         /\ \A j \in DOMAIN r : r[j] = e \/ \E i \in DOMAIN s : r[j] = s[i]
         /\ \A i \in DOMAIN s : \E j \in DOMAIN r : r[j] = s[i]
         /\ \E j \in DOMAIN r : r[j] = e
<1> DEFINE r == Append(s, e)
<1>1. /\ DOMAIN s = 1 .. Len(s) /\ Len(s) \in Nat
      /\ r \in Seq(S) /\ r # <<>> /\ DOMAIN r = 1 .. Len(s) + 1
      /\ \A i \in 1 .. Len(s) : r[i] = s[i]
      /\ r[Len(s) + 1] = e
  BY LenProperties, AppendProperties
<1> HIDE DEF r
<1>2. NoRepeat(r)
  BY <1>1 DEF NoRepeat
<1> QED BY <1>1, <1>2 DEF r

----------------------------------------------------------------------------
(* The two price maps *)

BookShape(b) ==
  /\ b = [s \in Side |-> b[s]]
  /\ \A s \in Side : IsMap(b[s], Price, Seq(OrderId))

GoodBook(b) ==
  /\ BookShape(b)
  /\ \A s \in Side : \A p \in DOMAIN b[s] : NoRepeat(b[s][p]) /\ b[s][p] # <<>>

\* Order id is queued in b at price p of side s.
At(b, s, p, id) ==
  p \in DOMAIN b[s] /\ \E i \in DOMAIN b[s][p] : b[s][p][i] = id

\* b after the level at price p of side s got the queue q.
SetLevel(b, s, p, q) == [b EXCEPT ![s] = WithQueue(@, p, q)]

\* b after removeOrderFromBook for an order filed under side s and price p.
RemoveOrder(b, s, p, id) == [b EXCEPT ![s] = removeOrderFromBook(@, p, id)]

\* Giving one level a new queue changes that level only.
LEMMA WithQueueStep ==
  ASSUME NEW b, BookShape(b), NEW s0 \in Side, NEW p0 \in Price,
         NEW q \in Seq(OrderId),
         NEW c, c = SetLevel(b, s0, p0, q)
  PROVE  /\ BookShape(c)
         /\ \A s \in Side : \A p : p \in DOMAIN c[s] <=>
              IF s = s0 /\ p = p0 THEN q # <<>> ELSE p \in DOMAIN b[s]
         /\ \A s \in Side : \A p \in DOMAIN c[s] :
              c[s][p] = IF s = s0 /\ p = p0 THEN q ELSE b[s][p]
<1>1. /\ c = [s \in Side |-> c[s]]
      /\ c[s0] = WithQueue(b[s0], p0, q)
      /\ \A s \in Side : s # s0 => c[s] = b[s]
  BY DEF BookShape, SetLevel
<1>2. /\ \A p : p \in DOMAIN c[s0] <=>
           IF p = p0 THEN q # <<>> ELSE p \in DOMAIN b[s0]
      /\ \A p \in DOMAIN c[s0] : c[s0][p] = IF p = p0 THEN q ELSE b[s0][p]
  <2>1. CASE q = <<>>
    BY <1>1, <2>1 DEF WithQueue, Restrict
  <2>2. CASE q # <<>>
    BY <1>1, <2>2 DEF WithQueue
  <2> QED BY <2>1, <2>2
<1>3. IsMap(c[s0], Price, Seq(OrderId))
  <2>1. DOMAIN b[s0] \subseteq Price /\ \A p \in DOMAIN b[s0] : b[s0][p] \in Seq(OrderId)
    BY DEF BookShape, IsMap
  <2>2. DOMAIN c[s0] \subseteq Price /\ \A p \in DOMAIN c[s0] : c[s0][p] \in Seq(OrderId)
    BY <1>2, <2>1
  <2>3. c[s0] = [p \in DOMAIN c[s0] |-> c[s0][p]]
    BY <1>1 DEF WithQueue, Restrict
  <2> QED BY <2>2, <2>3 DEF IsMap
<1> QED BY <1>1, <1>2, <1>3 DEF BookShape

\* removeOrderFromBook takes the order out and keeps all others queued.
LEMMA RemoveStep ==
  ASSUME NEW b, GoodBook(b), NEW s0 \in Side, NEW p0, NEW id, At(b, s0, p0, id),
         NEW c, c = RemoveOrder(b, s0, p0, id)
  PROVE  /\ GoodBook(c)
         /\ \A s \in Side : DOMAIN c[s] \subseteq DOMAIN b[s]
         /\ \A s \in Side : \A p, x :
              At(c, s, p, x) <=> At(b, s, p, x) /\ ~(s = s0 /\ p = p0 /\ x = id)
<1> DEFINE q == b[s0][p0]
           r == RemoveFirst(q, id)
<1>1. /\ BookShape(b) /\ p0 \in DOMAIN b[s0] /\ p0 \in Price
      /\ q \in Seq(OrderId) /\ NoRepeat(q)
  BY DEF GoodBook, BookShape, IsMap, At
<1>2. PICK k \in DOMAIN q : q[k] = id
  BY DEF At
<1>3. /\ r \in Seq(OrderId) /\ NoRepeat(r)
      /\ \A j \in DOMAIN r : r[j] # id /\ \E i \in DOMAIN q : r[j] = q[i]
      /\ \A i \in DOMAIN q : i # k => \E j \in DOMAIN r : r[j] = q[i]
  BY <1>1, <1>2, RemoveFirstOnce
<1>4. c = SetLevel(b, s0, p0, r)
  BY <1>1 DEF removeOrderFromBook, RemoveOrder, SetLevel
<1> HIDE DEF r
<1>5. /\ BookShape(c)
      /\ \A s \in Side : \A p : p \in DOMAIN c[s] <=>
           IF s = s0 /\ p = p0 THEN r # <<>> ELSE p \in DOMAIN b[s]
      /\ \A s \in Side : \A p \in DOMAIN c[s] :
           c[s][p] = IF s = s0 /\ p = p0 THEN r ELSE b[s][p]
  BY <1>1, <1>3, <1>4, WithQueueStep
<1>6. GoodBook(c) /\ \A s \in Side : DOMAIN c[s] \subseteq DOMAIN b[s]
  <2>1. ASSUME NEW s \in Side, NEW p \in DOMAIN c[s]
        PROVE  p \in DOMAIN b[s] /\ NoRepeat(c[s][p]) /\ c[s][p] # <<>>
    <3>1. CASE s = s0 /\ p = p0
      <4>1. r # <<>> /\ c[s][p] = r
        BY <1>5, <3>1
      <4> QED BY <1>1, <1>3, <3>1, <4>1
    <3>2. CASE ~(s = s0 /\ p = p0)
      <4>1. p \in DOMAIN b[s] /\ c[s][p] = b[s][p]
        BY <1>5, <3>2
      <4> QED BY <4>1 DEF GoodBook
    <3> QED BY <3>1, <3>2
  <2> QED BY <1>5, <2>1 DEF GoodBook
<1>7. ASSUME NEW s \in Side, NEW p, NEW x
      PROVE  At(c, s, p, x) <=> At(b, s, p, x) /\ ~(s = s0 /\ p = p0 /\ x = id)
  <2>1. CASE s = s0 /\ p = p0
    <3>1. At(b, s, p, x) <=> \E i \in DOMAIN q : q[i] = x
      BY <1>1, <2>1 DEF At
    <3>2. At(c, s, p, x) <=> \E j \in DOMAIN r : r[j] = x
      <4>1. CASE r = <<>>
        <5>1. DOMAIN r = {}
          BY <4>1
        <5> QED BY <1>5, <2>1, <4>1, <5>1 DEF At
      <4>2. CASE r # <<>>
        BY <1>5, <2>1, <4>2 DEF At
      <4> QED BY <4>1, <4>2
    <3> HIDE DEF q
    <3> QED BY <1>2, <1>3, <2>1, <3>1, <3>2
  <2>2. CASE ~(s = s0 /\ p = p0)
    BY <1>5, <2>2 DEF At
  <2> QED BY <2>1, <2>2
<1> QED BY <1>6, <1>7

\* Erasing the front of a level takes that order out and keeps all others.
LEMMA PopStep ==
  ASSUME NEW b, GoodBook(b), NEW s0 \in Side, NEW p0 \in DOMAIN b[s0],
         NEW c, c = SetLevel(b, s0, p0, Tail(b[s0][p0]))
  PROVE  /\ GoodBook(c)
         /\ \A s \in Side : DOMAIN c[s] \subseteq DOMAIN b[s]
         /\ \A s \in Side : \A p, x : At(c, s, p, x) <=>
              At(b, s, p, x) /\ ~(s = s0 /\ p = p0 /\ x = Head(b[s0][p0]))
<1> DEFINE q == b[s0][p0]
           r == Tail(q)
<1>1. /\ BookShape(b) /\ p0 \in Price
      /\ q \in Seq(OrderId) /\ NoRepeat(q) /\ q # <<>>
  BY DEF GoodBook, BookShape, IsMap
<1>3. /\ 1 \in DOMAIN q /\ Head(q) = q[1]
      /\ r \in Seq(OrderId) /\ NoRepeat(r)
      /\ \A j \in DOMAIN r : r[j] # Head(q) /\ \E i \in DOMAIN q : r[j] = q[i]
      /\ \A i \in DOMAIN q : i # 1 => \E j \in DOMAIN r : r[j] = q[i]
  BY <1>1, TailOnce
<1>4. c = SetLevel(b, s0, p0, r)
  BY DEF SetLevel
<1> HIDE DEF r
<1>5. /\ BookShape(c)
      /\ \A s \in Side : \A p : p \in DOMAIN c[s] <=>
           IF s = s0 /\ p = p0 THEN r # <<>> ELSE p \in DOMAIN b[s]
      /\ \A s \in Side : \A p \in DOMAIN c[s] :
           c[s][p] = IF s = s0 /\ p = p0 THEN r ELSE b[s][p]
  BY <1>1, <1>3, <1>4, WithQueueStep
<1>6. GoodBook(c) /\ \A s \in Side : DOMAIN c[s] \subseteq DOMAIN b[s]
  <2>1. ASSUME NEW s \in Side, NEW p \in DOMAIN c[s]
        PROVE  p \in DOMAIN b[s] /\ NoRepeat(c[s][p]) /\ c[s][p] # <<>>
    <3>1. CASE s = s0 /\ p = p0
      <4>1. r # <<>> /\ c[s][p] = r
        BY <1>5, <3>1
      <4> QED BY <1>1, <1>3, <3>1, <4>1
    <3>2. CASE ~(s = s0 /\ p = p0)
      <4>1. p \in DOMAIN b[s] /\ c[s][p] = b[s][p]
        BY <1>5, <3>2
      <4> QED BY <4>1 DEF GoodBook
    <3> QED BY <3>1, <3>2
  <2> QED BY <1>5, <2>1 DEF GoodBook
<1>7. ASSUME NEW s \in Side, NEW p, NEW x
      PROVE  At(c, s, p, x) <=>
               At(b, s, p, x) /\ ~(s = s0 /\ p = p0 /\ x = Head(q))
  <2>1. CASE s = s0 /\ p = p0
    <3>1. At(b, s, p, x) <=> \E i \in DOMAIN q : q[i] = x
      BY <1>1, <2>1 DEF At
    <3>2. At(c, s, p, x) <=> \E j \in DOMAIN r : r[j] = x
      <4>1. CASE r = <<>>
        <5>1. DOMAIN r = {}
          BY <4>1
        <5> QED BY <1>5, <2>1, <4>1, <5>1 DEF At
      <4>2. CASE r # <<>>
        BY <1>5, <2>1, <4>2 DEF At
      <4> QED BY <4>1, <4>2
    <3> HIDE DEF q
    <3> QED BY <1>3, <2>1, <3>1, <3>2
  <2>2. CASE ~(s = s0 /\ p = p0)
    BY <1>5, <2>2 DEF At
  <2> QED BY <2>1, <2>2
<1> QED BY <1>6, <1>7

\* Booking an order that is queued nowhere adds exactly that order.
LEMMA PushStep ==
  ASSUME NEW b, GoodBook(b), NEW s0 \in Side, NEW p0 \in Price,
         NEW id \in OrderId, ~At(b, s0, p0, id),
         NEW c, c = SetLevel(b, s0, p0, PushBack(QueueAt(b[s0], p0), id))
  PROVE  /\ GoodBook(c)
         /\ \A s \in Side : \A p : p \in DOMAIN c[s] <=>
              p \in DOMAIN b[s] \/ (s = s0 /\ p = p0)
         /\ \A s \in Side : \A p, x : At(c, s, p, x) <=>
              At(b, s, p, x) \/ (s = s0 /\ p = p0 /\ x = id)
<1> DEFINE q == QueueAt(b[s0], p0)
           r == PushBack(q, id)
<1>1. BookShape(b) /\ q \in Seq(OrderId) /\ NoRepeat(q)
  <2>1. CASE p0 \in DOMAIN b[s0]
    BY <2>1 DEF GoodBook, BookShape, IsMap, QueueAt
  <2>2. CASE p0 \notin DOMAIN b[s0]
    BY <2>2 DEF GoodBook, QueueAt, NoRepeat
  <2> QED BY <2>1, <2>2
<1>2. \A x : At(b, s0, p0, x) <=> \E i \in DOMAIN q : q[i] = x
  <2>1. CASE p0 \in DOMAIN b[s0]
    BY <2>1 DEF QueueAt, At
  <2>2. CASE p0 \notin DOMAIN b[s0]
    <3>1. DOMAIN q = {}
      BY <2>2 DEF QueueAt
    <3> QED BY <2>2, <3>1 DEF At
  <2> QED BY <2>1, <2>2
<1> HIDE DEF q
<1>3. /\ r \in Seq(OrderId) /\ r # <<>> /\ NoRepeat(r)
      /\ \A j \in DOMAIN r : r[j] = id \/ \E i \in DOMAIN q : r[j] = q[i]
      /\ \A i \in DOMAIN q : \E j \in DOMAIN r : r[j] = q[i]
      /\ \E j \in DOMAIN r : r[j] = id
  <2>1. \A i \in DOMAIN q : q[i] # id
    BY <1>2
  <2> QED BY <1>1, <2>1, PushBackOnce DEF PushBack
<1>4. c = SetLevel(b, s0, p0, r)
  BY DEF SetLevel, q
<1> HIDE DEF r
<1>5. /\ BookShape(c)
      /\ \A s \in Side : \A p : p \in DOMAIN c[s] <=>
           IF s = s0 /\ p = p0 THEN r # <<>> ELSE p \in DOMAIN b[s]
      /\ \A s \in Side : \A p \in DOMAIN c[s] :
           c[s][p] = IF s = s0 /\ p = p0 THEN r ELSE b[s][p]
  BY <1>1, <1>3, <1>4, WithQueueStep
<1>6. /\ GoodBook(c)
      /\ \A s \in Side : \A p : p \in DOMAIN c[s] <=>
           p \in DOMAIN b[s] \/ (s = s0 /\ p = p0)
  BY <1>3, <1>5 DEF GoodBook
<1>7. ASSUME NEW s \in Side, NEW p, NEW x
      PROVE  At(c, s, p, x) <=> At(b, s, p, x) \/ (s = s0 /\ p = p0 /\ x = id)
  <2>1. CASE s = s0 /\ p = p0
    <3>1. At(c, s, p, x) <=> \E j \in DOMAIN r : r[j] = x
      BY <1>3, <1>5, <2>1 DEF At
    <3> QED BY <1>2, <1>3, <2>1, <3>1
  <2>2. CASE ~(s = s0 /\ p = p0)
    BY <1>5, <2>2 DEF At
  <2> QED BY <2>1, <2>2
<1> QED BY <1>6, <1>7

----------------------------------------------------------------------------
(* Level aggregates *)

\* The aggregates keep their type when an order is booked.
LEMMA LevelAddType ==
  ASSUME NEW data, IsMap(data, Price, LevelData), NEW p \in Price,
         NEW qty \in Quantity
  PROVE  IsMap(updateLevelOnAdd(data, p, qty), Price, LevelData)
<1> DEFINE old == IF p \in DOMAIN data THEN data[p]
                  ELSE [totalQuantity |-> 0, numberOfOrders |-> 0]
<1>1. old \in LevelData
  BY BookAssumption DEF IsMap, LevelData, Quantity
<1>2. (old.totalQuantity + qty) % QMod \in Quantity
  BY <1>1, BookAssumption DEF LevelData, Quantity
<1>3. [totalQuantity  |-> (old.totalQuantity + qty) % QMod,
       numberOfOrders |-> old.numberOfOrders + 1] \in LevelData
  BY <1>1, <1>2 DEF LevelData
<1> QED BY <1>3 DEF IsMap, updateLevelOnAdd

\* The aggregates keep their type when quantity leaves a level.
LEMMA LevelFillType ==
  ASSUME NEW data, IsMap(data, Price, LevelData), NEW p,
         NEW qty \in Quantity, NEW closed \in BOOLEAN
  PROVE  IsMap(updateLevelOnFill(data, p, qty, closed), Price, LevelData)
<1>1. CASE qty = 0 \/ p \notin DOMAIN data
  BY <1>1 DEF updateLevelOnFill
<1>2. CASE ~(qty = 0 \/ p \notin DOMAIN data)
  <2> DEFINE total  == IF data[p].totalQuantity <= qty THEN 0
                       ELSE data[p].totalQuantity - qty
             number == IF closed /\ data[p].numberOfOrders > 0
                         THEN data[p].numberOfOrders - 1
                         ELSE data[p].numberOfOrders
  <2>1. data[p] \in LevelData
    BY <1>2 DEF IsMap
  <2>2. total \in Quantity
    BY <2>1, BookAssumption DEF LevelData, Quantity
  <2>3. number \in Nat
    BY <2>1 DEF LevelData
  <2>4. [totalQuantity |-> total, numberOfOrders |-> number] \in LevelData
    BY <2>2, <2>3 DEF LevelData
  <2>5. updateLevelOnFill(data, p, qty, closed) =
          IF total = 0 \/ number = 0
            THEN Restrict(data, DOMAIN data \ {p})
            ELSE [data EXCEPT ![p] = [totalQuantity  |-> total,
                                      numberOfOrders |-> number]]
    BY <1>2 DEF updateLevelOnFill
  <2> HIDE DEF total, number
  <2> QED BY <2>4, <2>5 DEF IsMap, Restrict
<1> QED BY <1>1, <1>2

----------------------------------------------------------------------------
(* What BookIndexed says about single orders *)

OpenAt(id, s, p) ==
  /\ id \in orders /\ id # incoming
  /\ heap[id].side = s /\ heap[id].price = p
  /\ heap[id].quantity > 0 /\ heap[id].type = "LIMIT"
  /\ heap[id].status \in {"NEW", "MODIFY"}

\* What the index says of one order: it rests iff it is queued, once, at its price.
LEMMA IndexedFacts ==
  ASSUME TypeOK, BookIndexed
  PROVE  /\ GoodBook(book)
         /\ \A s \in Side : \A p, id : At(book, s, p, id) => OpenAt(id, s, p)
         /\ \A id \in orders : id # incoming =>
              At(book, heap[id].side, heap[id].price, id)
                /\ heap[id].side \in Side
                /\ OpenAt(id, heap[id].side, heap[id].price)
<1>1. GoodBook(book)
  BY DEF TypeOK, BookIndexed, GoodBook, BookShape, NoOrderQueuedTwice,
         NoEmptyLevel, NoRepeat
<1>2. \A s \in Side : \A p, id : At(book, s, p, id) => OpenAt(id, s, p)
  BY DEF BookIndexed, QueuedOrdersAreLive, At, OpenAt
<1>3. ASSUME NEW id \in orders, id # incoming
      PROVE  /\ At(book, heap[id].side, heap[id].price, id)
             /\ heap[id].side \in Side
             /\ OpenAt(id, heap[id].side, heap[id].price)
  <2>1. PICK s \in Side : \E p : At(book, s, p, id)
    BY <1>3 DEF BookIndexed, LiveOrdersAreQueued, Queued, At
  <2>2. PICK p : At(book, s, p, id)
    BY <2>1
  <2>3. OpenAt(id, s, p)
    BY <1>2, <2>2
  <2> QED BY <2>2, <2>3 DEF OpenAt
<1> QED BY <1>1, <1>2, <1>3

\* The index in the next state, from the queues and orders_ of that state.
LEMMA IndexedNext ==
  ASSUME GoodBook(book'),
         \A s \in Side : \A p, id : At(book', s, p, id) => OpenAt(id, s, p)',
         \A id \in orders' : id # incoming' =>
           \E s \in Side : \E p : At(book', s, p, id)
  PROVE  BookIndexed'
<1>1. QueuedOrdersAreLive'
  BY DEF QueuedOrdersAreLive, At, OpenAt
<1>2. LiveOrdersAreQueued'
  BY DEF LiveOrdersAreQueued, Queued, At
<1>3. NoOrderQueuedTwice'
  BY DEF GoodBook, NoRepeat, NoOrderQueuedTwice
<1>4. NoEmptyLevel'
  BY DEF GoodBook, NoEmptyLevel
<1> QED BY <1>1, <1>2, <1>3, <1>4 DEF BookIndexed

\* A step that opens no new level keeps the book uncrossed.
LEMMA FewerLevels ==
  ASSUME Uncrossed, \A s \in Side : DOMAIN book'[s] \subseteq DOMAIN book[s]
  PROVE  Uncrossed'
BY DEF Uncrossed, Side

----------------------------------------------------------------------------
(* The operations *)

\* Zero is a quantity whatever the width.
LEMMA ZeroQuantity == 0 \in Quantity
BY BookAssumption DEF Quantity

\* The empty book satisfies the invariant.
LEMMA InitInvariant == Init => BookInvariant
<1> SUFFICES ASSUME Init PROVE BookInvariant
  OBVIOUS
<1>1. TypeOK
  BY BookAssumption DEF Init, TypeOK, IsMap, Order, Quantity, Side, LevelData
<1>2. BookIndexed
  BY DEF Init, BookIndexed, QueuedOrdersAreLive, LiveOrdersAreQueued,
         NoOrderQueuedTwice, NoEmptyLevel
<1>3. Uncrossed /\ CallInProgress
  BY DEF Init, Uncrossed, CallInProgress, Side
<1> QED BY <1>1, <1>2, <1>3 DEF BookInvariant

\* AddOrder starts a call of addToBook with an order that is queued nowhere.
LEMMA AddOrderInvariant ==
  ASSUME BookInvariant, NEW id \in OrderId, NEW side \in Side,
         NEW type \in OrderType, NEW price \in Price, NEW qty \in RequestQty,
         AddOrder(id, side, type, price, qty)
  PROVE  BookInvariant'
<1> USE DEF BookInvariant
<1> DEFINE new == [price |-> price, quantity |-> qty, type |-> type,
                   side |-> side, status |-> "NEW"]
<1>1. /\ incoming = None /\ heap[id].status = "DEFAULT"
      /\ heap' = [heap EXCEPT ![id] = new]
      /\ trades' = <<>> /\ incoming' = id /\ remaining' = qty
      /\ originalQuantity' = qty
      /\ UNCHANGED <<book, orders, levelData>>
  BY DEF AddOrder, addToBook
<1>2. new \in Order /\ qty \in Quantity
  BY BookAssumption DEF Order, Quantity
<1> HIDE DEF new
<1>3. TypeOK'
  <2>1. heap' \in [OrderId -> Order]
    BY <1>1, <1>2 DEF TypeOK
  <2> QED BY <1>1, <1>2, <2>1 DEF TypeOK
<1>4. /\ GoodBook(book)
      /\ \A s \in Side : \A p, x : At(book, s, p, x) => OpenAt(x, s, p)
      /\ \A x \in orders : At(book, heap[x].side, heap[x].price, x)
           /\ heap[x].side \in Side /\ OpenAt(x, heap[x].side, heap[x].price)
  BY <1>1, IndexedFacts, BookAssumption DEF TypeOK
<1>5. id \notin orders
  BY <1>1, <1>4 DEF OpenAt
<1>6. \A x \in orders : x # id /\ x \in OrderId /\ heap'[x] = heap[x]
  BY <1>1, <1>5 DEF TypeOK
<1>7. BookIndexed'
  <2>1. \A s \in Side : \A p, x : At(book', s, p, x) => OpenAt(x, s, p)'
    BY <1>1, <1>4, <1>6 DEF OpenAt
  <2>2. \A x \in orders' : \E s \in Side : \E p : At(book', s, p, x)
    BY <1>1, <1>4
  <2> QED BY <1>1, <1>4, <2>1, <2>2, IndexedNext
<1>8. Uncrossed'
  BY <1>1 DEF Uncrossed
<1>9. CallInProgress'
  BY <1>1, <1>5 DEF CallInProgress, TypeOK, new
<1> QED BY <1>3, <1>7, <1>8, <1>9

\* CancelOrder and the first half of ModifyOrder take the order out of its
\* level; what they write into the order keeps the invariant.
LEMMA RemoveInvariant ==
  ASSUME BookInvariant, incoming = None, NEW id \in orders,
         levelData' = updateLevelOnFill(levelData, heap[id].price,
                                        heap[id].quantity, TRUE),
         book' = RemoveOrder(book, heap[id].side, heap[id].price, id),
         NEW o \in Order, heap' = [heap EXCEPT ![id] = o],
         orders' = orders \ {id} \/ (orders' = orders /\ incoming' = id),
         incoming' \in {None, id}
  PROVE  /\ heap' \in [OrderId -> Order]
         /\ (IsMap(levelData, Price, LevelData))'
         /\ BookShape(book')
         /\ BookIndexed'
         /\ Uncrossed'
<1> USE DEF BookInvariant
<1>1. /\ GoodBook(book)
      /\ \A s \in Side : \A p, x : At(book, s, p, x) => OpenAt(x, s, p)
      /\ \A x \in orders : At(book, heap[x].side, heap[x].price, x)
           /\ heap[x].side \in Side /\ OpenAt(x, heap[x].side, heap[x].price)
  BY IndexedFacts, BookAssumption DEF TypeOK
<1>2. /\ GoodBook(book')
      /\ \A s \in Side : DOMAIN book'[s] \subseteq DOMAIN book[s]
      /\ \A s \in Side : \A p, x : At(book', s, p, x) <=>
           At(book, s, p, x) /\ ~(s = heap[id].side /\ p = heap[id].price /\ x = id)
  BY <1>1, RemoveStep
<1>3. id \in OrderId /\ \A x \in OrderId : x # id => heap'[x] = heap[x]
  BY DEF TypeOK
<1>4. \A s \in Side : \A p, x : At(book', s, p, x) =>
        /\ At(book, s, p, x) /\ x # id /\ x \in orders'
        /\ heap'[x] = heap[x]
  <2> SUFFICES ASSUME NEW s \in Side, NEW p, NEW x, At(book', s, p, x)
               PROVE  /\ At(book, s, p, x) /\ x # id /\ x \in orders'
                      /\ heap'[x] = heap[x]
    OBVIOUS
  <2>1. At(book, s, p, x) /\ ~(s = heap[id].side /\ p = heap[id].price /\ x = id)
    BY <1>2
  <2>2. OpenAt(x, s, p)
    BY <1>1, <2>1
  <2>3. x # id /\ x \in orders
    BY <2>1, <2>2 DEF OpenAt
  <2> QED BY <1>3, <2>1, <2>3 DEF TypeOK
<1>5. BookIndexed'
  <2>1. ASSUME NEW s \in Side, NEW p, NEW x, At(book', s, p, x)
        PROVE  OpenAt(x, s, p)'
    <3>1. OpenAt(x, s, p) /\ x # id /\ x \in orders' /\ heap'[x] = heap[x]
      BY <1>1, <1>4, <2>1
    <3>2. x # incoming'
      BY <3>1, BookAssumption DEF TypeOK
    <3> QED BY <3>1, <3>2 DEF OpenAt
  <2>2. ASSUME NEW x \in orders', x # incoming'
        PROVE  \E s \in Side : \E p : At(book', s, p, x)
    <3>1. x \in orders /\ x # id
      BY <2>2
    <3> QED BY <1>1, <1>2, <3>1
  <2> QED BY <1>2, <2>1, <2>2, IndexedNext
<1>6. Uncrossed'
  BY <1>2, FewerLevels
<1>7. (IsMap(levelData, Price, LevelData))'
  <2>1. heap[id].quantity \in Quantity
    BY DEF TypeOK, Order
  <2> QED BY <2>1, LevelFillType DEF TypeOK
<1>8. heap' \in [OrderId -> Order]
  BY DEF TypeOK
<1> QED BY <1>2, <1>5, <1>6, <1>7, <1>8 DEF GoodBook

\* ModifyOrder takes the order out of its old level before it matches it again.
LEMMA ModifyOrderInvariant ==
  ASSUME BookInvariant, NEW id \in OrderId, NEW newPrice \in Price,
         NEW newQuantity \in RequestQty, ModifyOrder(id, newPrice, newQuantity)
  PROVE  BookInvariant'
<1> DEFINE o == [heap[id] EXCEPT !.price = newPrice, !.quantity = newQuantity,
                                 !.status = "MODIFY"]
<1>1. /\ incoming = None /\ id \in orders /\ newQuantity \in Quantity
      /\ heap' = [heap EXCEPT ![id] = o]
      /\ trades' = <<>> /\ incoming' = id /\ remaining' = newQuantity
      /\ originalQuantity' = newQuantity /\ orders' = orders
  BY BookAssumption DEF ModifyOrder, addToBook, Quantity
<1>2. OpenAt(id, heap[id].side, heap[id].price) /\ heap[id].side \in Side
  BY <1>1, IndexedFacts, BookAssumption DEF BookInvariant, TypeOK
<1>3. /\ o \in Order /\ o.price = newPrice /\ o.side = heap[id].side
      /\ o.type = "LIMIT" /\ o.status = "MODIFY"
  <2>1. heap[id] \in Order
    BY DEF BookInvariant, TypeOK
  <2>2. newPrice \in Int
    BY BookAssumption
  <2> QED BY <1>1, <1>2, <2>1, <2>2 DEF Order, OpenAt
<1> HIDE DEF o
<1>4. /\ heap' \in [OrderId -> Order]
      /\ (IsMap(levelData, Price, LevelData))'
      /\ BookShape(book') /\ BookIndexed' /\ Uncrossed'
  <2>1. /\ levelData' = updateLevelOnFill(levelData, heap[id].price,
                                           heap[id].quantity, TRUE)
        /\ book' = RemoveOrder(book, heap[id].side, heap[id].price, id)
    BY DEF ModifyOrder, RemoveOrder
  <2> QED BY <1>1, <1>3, <2>1, RemoveInvariant
<1>5. TypeOK'
  BY <1>1, <1>4 DEF TypeOK, BookShape, BookInvariant
<1>6. heap'[id] = o
  BY <1>1 DEF BookInvariant, TypeOK
<1>7. CallInProgress'
  BY <1>1, <1>2, <1>3, <1>6 DEF CallInProgress, OrderType
<1> QED BY <1>4, <1>5, <1>7 DEF BookInvariant

\* CancelOrder takes the order out of its level and out of orders_ together.
LEMMA CancelOrderInvariant ==
  ASSUME BookInvariant, NEW id \in OrderId, CancelOrder(id)
  PROVE  BookInvariant'
<1> DEFINE o == [heap[id] EXCEPT !.quantity = 0, !.status = "CANCELLED"]
<1>1. /\ incoming = None /\ id \in orders
      /\ heap' = [heap EXCEPT ![id] = o] /\ orders' = orders \ {id}
      /\ UNCHANGED <<trades, incoming, remaining, originalQuantity>>
  BY DEF CancelOrder
<1>2. o \in Order
  <2>1. heap[id] \in Order
    BY DEF BookInvariant, TypeOK
  <2>2. 0 \in Quantity
    BY BookAssumption DEF Quantity
  <2> QED BY <2>1, <2>2 DEF Order
<1> HIDE DEF o
<1>4. /\ heap' \in [OrderId -> Order]
      /\ (IsMap(levelData, Price, LevelData))'
      /\ BookShape(book') /\ BookIndexed' /\ Uncrossed'
  <2>1. /\ levelData' = updateLevelOnFill(levelData, heap[id].price,
                                           heap[id].quantity, TRUE)
        /\ book' = RemoveOrder(book, heap[id].side, heap[id].price, id)
    BY DEF CancelOrder, RemoveOrder
  <2> QED BY <1>1, <1>2, <2>1, RemoveInvariant
<1>5. TypeOK'
  BY <1>1, <1>4 DEF TypeOK, BookShape, BookInvariant
<1>6. CallInProgress'
  BY <1>1 DEF CallInProgress
<1> QED BY <1>4, <1>5, <1>6 DEF BookInvariant

\* No more is executed than rests, so the clamp of reduceQuantity never acts.
LEMMA ReduceExecuted ==
  ASSUME NEW m \in Nat, NEW n \in Nat
  PROVE  /\ Executed(m, n) \in Nat /\ Executed(m, n) <= m /\ Executed(m, n) <= n
         /\ reduceQuantity(n, Executed(m, n)) = n - Executed(m, n)
BY DEF Executed, reduceQuantity

\* One fill keeps the invariant: a filled order leaves its level and orders_
\* together, a partly filled one stays where it is.
LEMMA MatchInvariant ==
  ASSUME BookInvariant, matchAgainst
  PROVE  BookInvariant'
<1> DEFINE contra == Contra(heap[incoming].side)
<1>1. incoming # None /\ incoming \in OrderId /\ heap[incoming].side \in Side
      /\ contra \in Side
  BY DEF matchAgainst, BookInvariant, TypeOK, CallInProgress, Contra, Side
<1>2. PICK p \in DOMAIN book[contra] :
        Execute(incoming, p, Head(book[contra][p]))
  BY DEF matchAgainst
<1> DEFINE resting  == Head(book[contra][p])
           executed == Executed(remaining, heap[resting].quantity)
           left     == reduceQuantity(heap[resting].quantity, executed)
           closed   == left = 0
           new == [heap[resting] EXCEPT
                     !.quantity = left,
                     !.status = IF closed THEN "TRADED" ELSE "MODIFY"]
           trade == [buyOrderId  |-> IF heap[incoming].side = "BUY"
                                       THEN incoming ELSE resting,
                     sellOrderId |-> IF heap[incoming].side = "SELL"
                                       THEN incoming ELSE resting,
                     price       |-> p,
                     quantity    |-> executed,
                     tradeType   |-> IF closed /\ remaining' = 0
                                       THEN "FULL" ELSE "PARTIAL"]
<1>3. /\ GoodBook(book)
      /\ \A s \in Side : \A q, x : At(book, s, q, x) => OpenAt(x, s, q)
      /\ \A x \in orders : x # incoming =>
           At(book, heap[x].side, heap[x].price, x)
             /\ heap[x].side \in Side
             /\ OpenAt(x, heap[x].side, heap[x].price)
  BY IndexedFacts DEF BookInvariant
<1>4. /\ p \in Price /\ resting \in OrderId /\ At(book, contra, p, resting)
  <2>1. /\ p \in Price /\ book[contra][p] \in Seq(OrderId)
        /\ NoRepeat(book[contra][p]) /\ book[contra][p] # <<>>
    BY <1>1, <1>3 DEF GoodBook, BookShape, IsMap
  <2> QED BY <2>1, TailOnce DEF At
<1>5. /\ resting \in orders /\ resting # incoming
      /\ heap[resting].side = contra /\ heap[resting].price = p
      /\ heap[resting].quantity > 0 /\ heap[resting].type = "LIMIT"
  BY <1>1, <1>3, <1>4 DEF OpenAt
<1>6. /\ remaining' = remaining - executed
      /\ heap' = [heap EXCEPT ![resting] = new]
      /\ levelData' = updateLevelOnFill(levelData, p, executed, closed)
      /\ trades' = Append(trades, trade)
      /\ incoming' = incoming /\ originalQuantity' = originalQuantity
  <2>1. remaining' = remaining - executed
    BY <1>2 DEF Execute
  <2>2. heap' = [heap EXCEPT ![resting] = new]
    BY <1>2 DEF Execute
  <2>3. levelData' = updateLevelOnFill(levelData, p, executed, closed)
    BY <1>2 DEF Execute
  <2>4. trades' = Append(trades, trade)
    BY <1>2 DEF Execute
  <2>5. incoming' = incoming /\ originalQuantity' = originalQuantity
    BY <1>2 DEF Execute
  <2> QED BY <2>1, <2>2, <2>3, <2>4, <2>5
<1>7. IF closed
        THEN /\ book' = SetLevel(book, contra, p, Tail(book[contra][p]))
             /\ orders' = orders \ {resting}
        ELSE book' = book /\ orders' = orders
  BY <1>2 DEF Execute, SetLevel
<1> HIDE DEF resting
<1>8. /\ heap[resting] \in Order /\ heap[resting].quantity \in Quantity
      /\ remaining \in Quantity
  BY <1>4 DEF BookInvariant, TypeOK, Order
<1>9. /\ executed \in Quantity /\ executed <= remaining
      /\ executed <= heap[resting].quantity
      /\ remaining - executed \in Quantity
      /\ left \in Quantity
      /\ ~closed => left > 0
  <2>1. remaining \in Nat /\ heap[resting].quantity \in Nat
    BY <1>8, BookAssumption DEF Quantity
  <2>2. /\ executed \in Nat /\ executed <= remaining /\ executed <= heap[resting].quantity
        /\ left = heap[resting].quantity - executed
    BY <2>1, ReduceExecuted
  <2> HIDE DEF executed, left
  <2> QED BY <1>8, <2>1, <2>2, BookAssumption DEF Quantity
<1> HIDE DEF executed, left
<1>10. /\ new \in Order /\ new.side = contra /\ new.price = p
       /\ new.type = "LIMIT"
       /\ ~closed => new.quantity > 0 /\ new.status = "MODIFY"
  BY <1>5, <1>8, <1>9 DEF Order
<1>11. trade \in Trade
  BY <1>1, <1>4, <1>9, BookAssumption DEF Trade
<1> HIDE DEF new, trade
<1>12. \A x \in OrderId : heap'[x] = IF x = resting THEN new ELSE heap[x]
  BY <1>6 DEF BookInvariant, TypeOK
<1>13. /\ GoodBook(book')
       /\ \A s \in Side : DOMAIN book'[s] \subseteq DOMAIN book[s]
       /\ closed => \A s \in Side : \A q, x : At(book', s, q, x) <=>
            At(book, s, q, x) /\ ~(s = contra /\ q = p /\ x = resting)
  <2>1. CASE closed
    <3>1. book' = SetLevel(book, contra, p, Tail(book[contra][p]))
      BY <1>7, <2>1
    <3> QED BY <1>1, <1>3, <3>1, PopStep DEF resting
  <2>2. CASE ~closed
    BY <1>3, <1>7, <2>2
  <2> QED BY <2>1, <2>2
<1>14. TypeOK'
  <2>1. heap' \in [OrderId -> Order]
    BY <1>6, <1>10 DEF BookInvariant, TypeOK
  <2>2. (IsMap(levelData, Price, LevelData))'
    <3>1. closed \in BOOLEAN
      OBVIOUS
    <3> QED BY <1>6, <1>9, <3>1, LevelFillType DEF BookInvariant, TypeOK
  <2>3. trades' \in Seq(Trade)
    BY <1>6, <1>11, AppendProperties DEF BookInvariant, TypeOK
  <2>4. orders' \in SUBSET OrderId
    BY <1>7 DEF BookInvariant, TypeOK
  <2>5. BookShape(book')
    BY <1>13 DEF GoodBook
  <2> QED BY <1>6, <1>9, <2>1, <2>2, <2>3, <2>4, <2>5
        DEF TypeOK, BookShape, BookInvariant
<1>15. BookIndexed'
  <2>1. ASSUME NEW s \in Side, NEW q, NEW x, At(book', s, q, x)
        PROVE  OpenAt(x, s, q)'
    <3>1. At(book, s, q, x) /\ OpenAt(x, s, q) /\ x \in OrderId
      <4>1. At(book, s, q, x)
        BY <1>7, <1>13, <2>1
      <4>2. OpenAt(x, s, q)
        BY <1>3, <4>1
      <4> QED BY <4>1, <4>2 DEF OpenAt, BookInvariant, TypeOK
    <3>2. CASE x = resting
      <4>1. s = contra /\ q = p
        BY <1>5, <3>1, <3>2 DEF OpenAt
      <4>2. ~closed
        BY <1>13, <2>1, <3>2, <4>1
      <4> QED BY <1>5, <1>6, <1>7, <1>10, <1>12, <3>1, <3>2, <4>1, <4>2 DEF OpenAt
    <3>3. CASE x # resting
      BY <1>6, <1>7, <1>12, <3>1, <3>3 DEF OpenAt
    <3> QED BY <3>2, <3>3
  <2>2. ASSUME NEW x \in orders', x # incoming'
        PROVE  \E s \in Side : \E q : At(book', s, q, x)
    <3>1. x \in orders /\ x # incoming /\ (closed => x # resting)
      BY <1>6, <1>7, <2>2
    <3>2. At(book, heap[x].side, heap[x].price, x) /\ heap[x].side \in Side
      BY <1>3, <3>1
    <3> QED BY <1>7, <1>13, <3>1, <3>2
  <2> QED BY <1>13, <2>1, <2>2, IndexedNext
<1>16. Uncrossed'
  BY <1>13, FewerLevels DEF BookInvariant
<1>17. CallInProgress'
  BY <1>1, <1>5, <1>6, <1>7, <1>12 DEF CallInProgress, BookInvariant
<1> QED BY <1>14, <1>15, <1>16, <1>17 DEF BookInvariant

\* The end of addToBook keeps the invariant when the rest of the order is not
\* booked: the order is closed, and no entry of orders_ is left without a queue.
LEMMA FinishClosedInvariant ==
  ASSUME BookInvariant, FinishTraded \/ FinishCancelled
  PROVE  BookInvariant'
<1>1. /\ incoming \in OrderId /\ incoming' = None /\ remaining' = 0
      /\ originalQuantity' = 0 /\ UNCHANGED <<trades, book, levelData>>
      /\ orders' = orders \ {incoming}
  <2>1. incoming \in OrderId
    BY DEF FinishTraded, FinishCancelled, BookInvariant, TypeOK
  <2>2. CASE FinishTraded
    BY <2>1, <2>2 DEF FinishTraded, Return
  <2>3. CASE FinishCancelled
    <3>1. incoming \notin orders
      BY <2>3 DEF FinishCancelled, BookInvariant, CallInProgress
    <3> QED BY <2>1, <2>3, <3>1 DEF FinishCancelled, Return
  <2> QED BY <2>2, <2>3
<1>2. PICK o \in Order : heap' = [heap EXCEPT ![incoming] = o]
  <2>1. heap[incoming] \in Order /\ 0 \in Quantity
    BY <1>1, BookAssumption DEF BookInvariant, TypeOK, Quantity
  <2>2. \A st \in {"TRADED", "CANCELLED"} :
          [heap[incoming] EXCEPT !.quantity = 0, !.status = st] \in Order
    BY <2>1 DEF Order
  <2> QED BY <2>2 DEF FinishTraded, FinishCancelled
<1>3. /\ GoodBook(book)
      /\ \A s \in Side : \A p, x : At(book, s, p, x) => OpenAt(x, s, p)
      /\ \A x \in orders : x # incoming =>
           At(book, heap[x].side, heap[x].price, x) /\ heap[x].side \in Side
  BY IndexedFacts DEF BookInvariant
<1>4. TypeOK'
  <2>1. heap' \in [OrderId -> Order]
    BY <1>1, <1>2 DEF BookInvariant, TypeOK
  <2> QED BY <1>1, <2>1, ZeroQuantity DEF BookInvariant, TypeOK
<1>5. BookIndexed'
  <2>1. ASSUME NEW s \in Side, NEW p, NEW x, At(book', s, p, x)
        PROVE  OpenAt(x, s, p)'
    <3>1. OpenAt(x, s, p) /\ x \in OrderId
      BY <1>1, <1>3, <2>1 DEF OpenAt, BookInvariant, TypeOK
    <3>2. heap'[x] = heap[x] /\ x # None
      BY <1>2, <3>1, BookAssumption DEF OpenAt, BookInvariant, TypeOK
    <3> QED BY <1>1, <3>1, <3>2 DEF OpenAt
  <2>2. \A x \in orders' : \E s \in Side : \E p : At(book', s, p, x)
    BY <1>1, <1>3
  <2> QED BY <1>1, <1>3, <2>1, <2>2, IndexedNext
<1>6. Uncrossed' /\ CallInProgress'
  BY <1>1 DEF Uncrossed, CallInProgress, BookInvariant
<1> QED BY <1>4, <1>5, <1>6 DEF BookInvariant

\* Booking the rest of an order keeps the invariant; the book stays uncrossed
\* because the matching loop ended at a price that does not cross.
LEMMA FinishBookedInvariant ==
  ASSUME BookInvariant, FinishBooked
  PROVE  BookInvariant'
<1> DEFINE side  == heap[incoming].side
           price == heap[incoming].price
           new == [heap[incoming] EXCEPT
                     !.quantity = remaining,
                     !.status = IF remaining < originalQuantity
                                  THEN "MODIFY" ELSE heap[incoming].status]
<1>1. /\ incoming # None /\ incoming \in OrderId /\ remaining \in Quantity
      /\ remaining > 0 /\ LoopDone
      /\ side \in Side /\ price \in Price /\ heap[incoming] \in Order
      /\ heap[incoming].status \in {"NEW", "MODIFY"}
      /\ heap[incoming].type = "LIMIT"
  BY DEF FinishBooked, BookInvariant, TypeOK, CallInProgress, OrderType
<1>2. /\ incoming' = None /\ remaining' = 0 /\ originalQuantity' = 0
      /\ trades' = trades /\ orders' = orders \cup {incoming}
      /\ heap' = [heap EXCEPT ![incoming] = new]
      /\ levelData' = updateLevelOnAdd(levelData, price, remaining)
  BY DEF FinishBooked, Return
<1>3. book' = SetLevel(book, side, price, PushBack(QueueAt(book[side], price), incoming))
  BY DEF FinishBooked, SetLevel
<1>4. /\ new \in Order /\ new.side = side /\ new.price = price
      /\ new.quantity > 0 /\ new.type = "LIMIT" /\ new.status \in {"NEW", "MODIFY"}
  BY <1>1 DEF Order
<1>e. LoopDone <=>
        \/ remaining = 0 \/ DOMAIN book[Contra(side)] = {}
        \/ \E p \in DOMAIN book[Contra(side)] : IsBest(Contra(side), p) /\
             ~priceCrossed(price, p, side, heap[incoming].type)
  BY DEF LoopDone
<1> HIDE DEF new, side, price
<1>5. /\ GoodBook(book)
      /\ \A s \in Side : \A p, x : At(book, s, p, x) => OpenAt(x, s, p)
      /\ \A x \in orders : x # incoming =>
           At(book, heap[x].side, heap[x].price, x) /\ heap[x].side \in Side
  BY IndexedFacts DEF BookInvariant
<1>6. /\ GoodBook(book')
      /\ \A s \in Side : \A p : p \in DOMAIN book'[s] <=>
           p \in DOMAIN book[s] \/ (s = side /\ p = price)
      /\ \A s \in Side : \A p, x : At(book', s, p, x) <=>
           At(book, s, p, x) \/ (s = side /\ p = price /\ x = incoming)
  <2>1. ~At(book, side, price, incoming)
    BY <1>1, <1>5 DEF OpenAt
  <2> QED BY <1>1, <1>3, <1>5, <2>1, PushStep
<1>7. \A x \in OrderId : heap'[x] = IF x = incoming THEN new ELSE heap[x]
  BY <1>2 DEF BookInvariant, TypeOK
<1>8. TypeOK'
  <2>1. heap' \in [OrderId -> Order]
    BY <1>1, <1>2, <1>4 DEF BookInvariant, TypeOK
  <2>2. (IsMap(levelData, Price, LevelData))'
    BY <1>1, <1>2, LevelAddType DEF BookInvariant, TypeOK
  <2>3. BookShape(book')
    BY <1>6 DEF GoodBook
  <2> QED BY <1>1, <1>2, <2>1, <2>2, <2>3, ZeroQuantity
        DEF BookInvariant, TypeOK, BookShape
<1>9. BookIndexed'
  <2>1. ASSUME NEW s \in Side, NEW p, NEW x, At(book', s, p, x)
        PROVE  OpenAt(x, s, p)'
    <3>1. CASE s = side /\ p = price /\ x = incoming
      BY <1>1, <1>2, <1>4, <1>7, <3>1 DEF OpenAt
    <3>2. CASE At(book, s, p, x)
      <4>1. OpenAt(x, s, p) /\ x \in OrderId
        BY <1>5, <3>2 DEF OpenAt, BookInvariant, TypeOK
      <4>2. heap'[x] = heap[x] /\ x # None
        BY <1>7, <4>1, BookAssumption DEF OpenAt
      <4> QED BY <1>2, <4>1, <4>2 DEF OpenAt
    <3> QED BY <1>6, <2>1, <3>1, <3>2
  <2>2. ASSUME NEW x \in orders'
        PROVE  \E s \in Side : \E p : At(book', s, p, x)
    BY <1>1, <1>2, <1>5, <1>6
  <2> QED BY <1>6, <2>1, <2>2, IndexedNext
<1>10. Uncrossed'
  <2>1. \A s \in Side : \A p \in DOMAIN book[s] : p \in Int
    BY <1>5, BookAssumption DEF GoodBook, BookShape, IsMap
  <2>2. price \in Int /\ Contra(side) \in Side
    BY <1>1, BookAssumption DEF Contra, Side
  <2>3. \A p \in DOMAIN book[Contra(side)] : ~priceCrossed(price, p, side, "LIMIT")
    <3>1. CASE DOMAIN book[Contra(side)] = {}
      BY <3>1
    <3>2. ASSUME NEW p \in DOMAIN book[Contra(side)], IsBest(Contra(side), p),
                 ~priceCrossed(price, p, side, "LIMIT"),
                 NEW q \in DOMAIN book[Contra(side)]
          PROVE  ~priceCrossed(price, q, side, "LIMIT")
      <4>1. p \in Int /\ q \in Int /\ ~Better(Contra(side), q, p)
        BY <2>1, <2>2, <3>2 DEF IsBest
      <4>2. CASE side = "BUY"
        BY <2>2, <3>2, <4>1, <4>2 DEF Better, Contra, priceCrossed
      <4>3. CASE side = "SELL"
        BY <2>2, <3>2, <4>1, <4>3 DEF Better, Contra, priceCrossed
      <4> QED BY <1>1, <4>2, <4>3 DEF Side
    <3> QED BY <1>1, <1>e, <3>1, <3>2
  <2>4. CASE side = "BUY"
    <3>1. \A a \in DOMAIN book["SELL"] : price < a
      BY <2>1, <2>2, <2>3, <2>4 DEF priceCrossed, Contra, Side
    <3> QED BY <1>6, <2>4, <3>1 DEF Uncrossed, BookInvariant, Side
  <2>5. CASE side = "SELL"
    <3>1. \A b \in DOMAIN book["BUY"] : b < price
      BY <2>1, <2>2, <2>3, <2>5 DEF priceCrossed, Contra, Side
    <3> QED BY <1>6, <2>5, <3>1 DEF Uncrossed, BookInvariant, Side
  <2> QED BY <1>1, <2>4, <2>5 DEF Side
<1>11. CallInProgress'
  BY <1>2 DEF CallInProgress
<1> QED BY <1>8, <1>9, <1>10, <1>11 DEF BookInvariant

----------------------------------------------------------------------------
(* Theorems *)

\* The inductive invariant holds in every state of the book.
THEOREM BookInvariantHolds == Spec => []BookInvariant
<1>1. BookInvariant /\ [Next]_vars => BookInvariant'
  <2> SUFFICES ASSUME BookInvariant, [Next]_vars
               PROVE  BookInvariant'
    OBVIOUS
  <2>1. CASE \E id \in OrderId, side \in Side, type \in OrderType,
                price \in Price, qty \in RequestQty :
               AddOrder(id, side, type, price, qty)
    BY <2>1, AddOrderInvariant
  <2>2. CASE \E id \in OrderId, price \in Price, qty \in RequestQty :
               ModifyOrder(id, price, qty)
    BY <2>2, ModifyOrderInvariant
  <2>3. CASE \E id \in OrderId : CancelOrder(id)
    BY <2>3, CancelOrderInvariant
  <2>4. CASE matchAgainst
    BY <2>4, MatchInvariant
  <2>5. CASE Finish
    BY <2>5, FinishClosedInvariant, FinishBookedInvariant DEF Finish
  <2>6. CASE UNCHANGED vars
    <3> USE <2>6 DEF vars
    <3>1. TypeOK'
      BY DEF BookInvariant, TypeOK, IsMap
    <3>2. BookIndexed'
      BY DEF BookInvariant, BookIndexed, QueuedOrdersAreLive, LiveOrdersAreQueued,
             Queued, NoOrderQueuedTwice, NoEmptyLevel
    <3>3. Uncrossed' /\ CallInProgress'
      BY DEF BookInvariant, Uncrossed, CallInProgress
    <3> QED BY <3>1, <3>2, <3>3 DEF BookInvariant
  <2> QED BY <2>1, <2>2, <2>3, <2>4, <2>5, <2>6 DEF Next
<1> QED BY InitInvariant, <1>1, PTL DEF Spec

\* Every variable of the book keeps its type: no quantity becomes negative or
\* leaves the range of uint32_t, in particular not by reduceQuantity.
THEOREM TypeCorrect == Spec => []TypeOK
<1>1. BookInvariant => TypeOK
  BY DEF BookInvariant
<1> QED BY <1>1, BookInvariantHolds, PTL

\* orders_, bids_ and asks_ always describe the same set of resting orders.
THEOREM BookIsIndexed == Spec => []BookIndexed
<1>1. BookInvariant => BookIndexed
  BY DEF BookInvariant
<1> QED BY <1>1, BookInvariantHolds, PTL

\* The best bid is always below the best ask.
THEOREM BookIsUncrossed == Spec => []Uncrossed
<1>1. BookInvariant => Uncrossed
  BY DEF BookInvariant
<1> QED BY <1>1, BookInvariantHolds, PTL

----------------------------------------------------------------------------
(* What a step may never do *)

\* A fill changes one order: the open order at the front of the best contra
\* level, whose price the incoming order accepts.
LEMMA MatchFacts ==
  ASSUME BookInvariant, matchAgainst
  PROVE  LET contra == Contra(heap[incoming].side) IN
         /\ incoming \in OrderId /\ contra \in Side /\ heap[incoming].side \in Side
         /\ \E p \in DOMAIN book[contra] :
              /\ IsBest(contra, p)
              /\ priceCrossed(heap[incoming].price, p, heap[incoming].side,
                              heap[incoming].type)
              /\ OpenAt(Head(book[contra][p]), contra, p)
              /\ \A x \in OrderId : x # Head(book[contra][p]) => heap'[x] = heap[x]
              /\ \E t \in Trade : /\ t.price = p /\ trades' = Append(trades, t)
                                  /\ remaining' = remaining - t.quantity
              /\ \A other : ~Ahead(other, Head(book[contra][p]))
<1> DEFINE contra == Contra(heap[incoming].side)
<1>1. incoming # None /\ incoming \in OrderId /\ heap[incoming].side \in Side
      /\ contra \in Side
  BY DEF matchAgainst, BookInvariant, TypeOK, CallInProgress, Contra, Side
<1>2. PICK p \in DOMAIN book[contra] :
        /\ IsBest(contra, p)
        /\ priceCrossed(heap[incoming].price, p, heap[incoming].side,
                        heap[incoming].type)
        /\ Execute(incoming, p, Head(book[contra][p]))
  BY DEF matchAgainst
<1> DEFINE q == book[contra][p]
           resting == Head(q)
<1>3. /\ GoodBook(book)
      /\ \A s \in Side : \A r, x : At(book, s, r, x) => OpenAt(x, s, r)
  BY IndexedFacts DEF BookInvariant
<1>4. p \in Price /\ q \in Seq(OrderId) /\ NoRepeat(q) /\ q # <<>>
  BY <1>1, <1>3 DEF GoodBook, BookShape, IsMap
<1>5. resting \in OrderId /\ 1 \in DOMAIN q /\ resting = q[1]
  BY <1>4, TailOnce
<1>6. OpenAt(resting, contra, p)
  BY <1>1, <1>3, <1>5 DEF At
<1>7. \A x \in OrderId : x # resting => heap'[x] = heap[x]
  BY <1>2 DEF Execute, BookInvariant, TypeOK
<1>8. \E t \in Trade : /\ t.price = p /\ trades' = Append(trades, t)
                       /\ remaining' = remaining - t.quantity
  <2> DEFINE executed == Executed(remaining, heap[resting].quantity)
             t == [buyOrderId  |-> IF heap[incoming].side = "BUY"
                                     THEN incoming ELSE resting,
                   sellOrderId |-> IF heap[incoming].side = "SELL"
                                     THEN incoming ELSE resting,
                   price       |-> p,
                   quantity    |-> executed,
                   tradeType   |-> IF reduceQuantity(heap[resting].quantity, executed) = 0
                                      /\ remaining' = 0
                                     THEN "FULL" ELSE "PARTIAL"]
  <2>1. trades' = Append(trades, t) /\ remaining' = remaining - executed
    BY <1>2 DEF Execute
  <2> HIDE DEF resting
  <2>2. executed \in Quantity
    BY <1>5 DEF Executed, BookInvariant, TypeOK, Order
  <2> HIDE DEF executed
  <2>3. t \in Trade /\ t.price = p /\ t.quantity = executed
    BY <1>1, <1>4, <1>5, <2>2, BookAssumption DEF Trade
  <2> QED BY <2>1, <2>3
<1>9. ASSUME NEW other, Ahead(other, resting)
      PROVE  FALSE
  <2>1. PICK s \in Side : \E r \in DOMAIN book[s] : \E i, j \in DOMAIN book[s][r] :
          i < j /\ book[s][r][i] = other /\ book[s][r][j] = resting
    BY <1>9 DEF Ahead
  <2>2. PICK r \in DOMAIN book[s] : \E i, j \in DOMAIN book[s][r] :
          i < j /\ book[s][r][i] = other /\ book[s][r][j] = resting
    BY <2>1
  <2>3. PICK i \in DOMAIN book[s][r], j \in DOMAIN book[s][r] :
          i < j /\ book[s][r][j] = resting
    BY <2>2
  <2>4. OpenAt(resting, s, r)
    BY <1>3, <2>3 DEF At
  <2>5. s = contra /\ r = p
    BY <1>6, <2>4 DEF OpenAt
  <2>6. j = 1 /\ i \in Nat \ {0}
    BY <1>4, <1>5, <2>3, <2>5, LenProperties DEF NoRepeat
  <2> QED BY <2>3, <2>6
<1> QED BY <1>1, <1>2, <1>6, <1>7, <1>8, <1>9

\* Only a matchAgainst step records a trade while a call is in progress, and
\* only it changes an order other than the incoming one.
LEMMA OtherSteps ==
  ASSUME BookInvariant, [Next]_vars, incoming # None, ~matchAgainst
  PROVE  /\ trades' = trades
         /\ \A x \in OrderId \ {incoming} : heap'[x] = heap[x]
<1>1. CASE Finish
  BY <1>1 DEF Finish, FinishTraded, FinishCancelled, FinishBooked, Return,
              BookInvariant, TypeOK
<1>2. CASE UNCHANGED vars
  BY <1>2 DEF vars
<1> QED BY <1>1, <1>2 DEF Next, AddOrder, ModifyOrder, CancelOrder

\* A limit order never trades at a price worse than its limit.
THEOREM LimitIsRespected == Spec => LimitRespected
<1>1. BookInvariant /\ [Next]_vars =>
        (incoming # None /\ heap[incoming].type = "LIMIT"
           /\ Len(trades') > Len(trades) =>
             ~Better(Contra(heap[incoming].side), heap[incoming].price,
                     Last(trades').price))
  <2> SUFFICES ASSUME BookInvariant, [Next]_vars, incoming # None,
                      heap[incoming].type = "LIMIT", Len(trades') > Len(trades)
               PROVE  ~Better(Contra(heap[incoming].side), heap[incoming].price,
                              Last(trades').price)
    OBVIOUS
  <2>1. trades \in Seq(Trade) /\ Len(trades) \in Nat
    BY LenProperties DEF BookInvariant, TypeOK
  <2>2. CASE ~matchAgainst
    BY <2>1, <2>2, OtherSteps
  <2>3. CASE matchAgainst
    <3> DEFINE contra == Contra(heap[incoming].side)
    <3>1. PICK p \in DOMAIN book[contra], t \in Trade :
            /\ priceCrossed(heap[incoming].price, p, heap[incoming].side, "LIMIT")
            /\ t.price = p /\ trades' = Append(trades, t)
      BY <2>3, MatchFacts
    <3>2. Last(trades') = t
      BY <2>1, <3>1, AppendProperties DEF Last
    <3>3. heap[incoming].side \in Side /\ heap[incoming].price \in Int /\ p \in Int
      <4>1. incoming \in OrderId /\ heap[incoming].side \in Side
        BY <2>3, MatchFacts
      <4>2. heap[incoming].price \in Int
        BY <4>1 DEF BookInvariant, TypeOK, Order
      <4>3. p \in Int
        BY <3>1 DEF Trade
      <4> QED BY <4>1, <4>2, <4>3
    <3>4. CASE heap[incoming].side = "BUY"
      BY <3>1, <3>2, <3>3, <3>4 DEF priceCrossed, Better, Contra
    <3>5. CASE heap[incoming].side = "SELL"
      BY <3>1, <3>2, <3>3, <3>5 DEF priceCrossed, Better, Contra
    <3> QED BY <3>3, <3>4, <3>5 DEF Side
  <2> QED BY <2>2, <2>3
<1> QED BY <1>1, BookInvariantHolds, PTL DEF Spec, LimitRespected

\* Fills follow price-time priority.
THEOREM PriorityIsRespected == Spec => FillsFollowPriority
<1>1. BookInvariant /\ [Next]_vars =>
        \A id \in OrderId \ {incoming} :
          incoming # None /\ heap'[id].quantity < heap[id].quantity =>
            /\ \A p \in DOMAIN book[heap[id].side] :
                 ~Better(heap[id].side, p, heap[id].price)
            /\ ~\E other \in OrderId : Ahead(other, id)
  <2> SUFFICES ASSUME BookInvariant, [Next]_vars, NEW id \in OrderId \ {incoming},
                      incoming # None, heap'[id].quantity < heap[id].quantity
               PROVE  /\ \A p \in DOMAIN book[heap[id].side] :
                           ~Better(heap[id].side, p, heap[id].price)
                      /\ ~\E other \in OrderId : Ahead(other, id)
    OBVIOUS
  <2>1. heap[id].quantity \in Int
    BY DEF BookInvariant, TypeOK, Order, Quantity
  <2>2. CASE ~matchAgainst
    BY <2>1, <2>2, OtherSteps
  <2>3. CASE matchAgainst
    <3> DEFINE contra == Contra(heap[incoming].side)
    <3>1. PICK p \in DOMAIN book[contra] :
            /\ IsBest(contra, p)
            /\ OpenAt(Head(book[contra][p]), contra, p)
            /\ \A x \in OrderId : x # Head(book[contra][p]) => heap'[x] = heap[x]
            /\ \A other : ~Ahead(other, Head(book[contra][p]))
      BY <2>3, MatchFacts
    <3>2. id = Head(book[contra][p])
      BY <2>1, <3>1
    <3> QED BY <3>1, <3>2 DEF OpenAt, IsBest
  <2> QED BY <2>2, <2>3
<1> QED BY <1>1, BookInvariantHolds, PTL DEF Spec, FillsFollowPriority

\* A closed order is never touched again.
THEOREM ClosedStaysClosed == Spec => ClosedIsFinal
<1>1. BookInvariant /\ [Next]_vars =>
        \A id \in OrderId :
          heap[id].status \in {"TRADED", "CANCELLED"} => heap'[id] = heap[id]
  <2> SUFFICES ASSUME BookInvariant, [Next]_vars, NEW id \in OrderId,
                      heap[id].status \in {"TRADED", "CANCELLED"}
               PROVE  heap'[id] = heap[id]
    OBVIOUS
  <2>1. id # incoming
    BY BookAssumption DEF BookInvariant, CallInProgress
  <2>2. id \notin orders
    BY <2>1, IndexedFacts DEF BookInvariant, OpenAt
  <2>3. CASE incoming # None
    <3>1. CASE matchAgainst
      <4>1. PICK x : OpenAt(x, heap[x].side, heap[x].price) /\
                     \A y \in OrderId : y # x => heap'[y] = heap[y]
        BY <3>1, MatchFacts DEF OpenAt
      <4> QED BY <2>2, <4>1 DEF OpenAt
    <3> QED BY <2>1, <2>3, <3>1, OtherSteps
  <2>4. CASE incoming = None
    <3>1. CASE UNCHANGED vars
      BY <3>1 DEF vars
    <3>2. ASSUME NEW x \in OrderId, NEW side \in Side, NEW type \in OrderType,
                 NEW price \in Price, NEW qty \in RequestQty,
                 AddOrder(x, side, type, price, qty)
          PROVE  heap'[id] = heap[id]
      BY <3>2 DEF AddOrder, BookInvariant, TypeOK
    <3>3. ASSUME NEW x \in OrderId, NEW price \in Price, NEW qty \in RequestQty,
                 ModifyOrder(x, price, qty)
          PROVE  heap'[id] = heap[id]
      BY <2>2, <3>3 DEF ModifyOrder, BookInvariant, TypeOK
    <3>4. ASSUME NEW x \in OrderId, CancelOrder(x)
          PROVE  heap'[id] = heap[id]
      BY <2>2, <3>4 DEF CancelOrder, BookInvariant, TypeOK
    <3> QED BY <2>4, <3>1, <3>2, <3>3, <3>4
          DEF Next, matchAgainst, Finish, FinishTraded, FinishCancelled, FinishBooked
  <2> QED BY <2>3, <2>4
<1> QED BY <1>1, BookInvariantHolds, PTL DEF Spec, ClosedIsFinal

----------------------------------------------------------------------------
(* Time priority *)

AheadIn(q, x, y) == \E i, j \in DOMAIN q : i < j /\ q[i] = x /\ q[j] = y

\* x is ahead of y in some queue of b.
AheadOf(b, x, y) == \E s \in Side : \E p \in DOMAIN b[s] : AheadIn(b[s][p], x, y)

\* Removing one order does not reorder the others.
LEMMA RemoveFirstOrder ==
  ASSUME NEW S, NEW s \in Seq(S), NoRepeat(s), NEW k \in DOMAIN s, NEW x, NEW y,
         AheadIn(RemoveFirst(s, s[k]), x, y)
  PROVE  AheadIn(s, x, y)
<1> DEFINE r == RemoveFirst(s, s[k])
<1> HIDE DEF r
<1>1. DOMAIN s = 1 .. Len(s) /\ Len(s) \in Nat /\ k \in 1 .. Len(s)
  BY LenProperties
<1>2. /\ DOMAIN r = 1 .. Len(s) - 1
      /\ \A j \in 1 .. Len(s) - 1 : r[j] = IF j < k THEN s[j] ELSE s[j + 1]
  BY RemoveFirstAt, Zenon DEF r
<1>3. PICK i, j \in DOMAIN r : i < j /\ r[i] = x /\ r[j] = y
  BY DEF AheadIn, r
<1> DEFINE m == IF i < k THEN i ELSE i + 1
           n == IF j < k THEN j ELSE j + 1
<1>4. m \in DOMAIN s /\ n \in DOMAIN s /\ m < n
  BY <1>1, <1>2, <1>3
<1>5. s[m] = x /\ s[n] = y
  BY <1>1, <1>2, <1>3
<1> HIDE DEF m, n
<1> QED BY <1>4, <1>5 DEF AheadIn

\* Popping the front of a queue does not reorder the others.
LEMMA TailOrder ==
  ASSUME NEW S, NEW s \in Seq(S), s # <<>>, NEW x, NEW y, AheadIn(Tail(s), x, y)
  PROVE  AheadIn(s, x, y)
<1>1. DOMAIN s = 1 .. Len(s) /\ Len(s) \in Nat
  BY LenProperties
<1>2. /\ DOMAIN Tail(s) = 1 .. Len(s) - 1
      /\ \A i \in 1 .. Len(s) - 1 : Tail(s)[i] = s[i + 1]
  BY <1>1, HeadTailProperties, LenProperties
<1>3. PICK i, j \in DOMAIN Tail(s) : i < j /\ Tail(s)[i] = x /\ Tail(s)[j] = y
  BY DEF AheadIn
<1>4. i + 1 \in DOMAIN s /\ j + 1 \in DOMAIN s /\ i + 1 < j + 1
  BY <1>1, <1>2, <1>3
<1>5. s[i + 1] = x /\ s[j + 1] = y
  BY <1>2, <1>3
<1> QED BY <1>4, <1>5 DEF AheadIn

\* push_back puts the new order behind the others and leaves them as they are.
LEMMA PushBackOrder ==
  ASSUME NEW S, NEW s \in Seq(S), NEW e \in S, NEW x, NEW y, y # e,
         AheadIn(PushBack(s, e), x, y)
  PROVE  AheadIn(s, x, y)
<1> DEFINE r == Append(s, e)
<1> HIDE DEF r
<1>1. /\ DOMAIN s = 1 .. Len(s) /\ Len(s) \in Nat
      /\ DOMAIN r = 1 .. Len(s) + 1
      /\ \A i \in 1 .. Len(s) : r[i] = s[i]
      /\ r[Len(s) + 1] = e
  BY LenProperties, AppendProperties DEF r
<1>2. PICK i, j \in DOMAIN r : i < j /\ r[i] = x /\ r[j] = y
  BY DEF AheadIn, PushBack, r
<1>3. j # Len(s) + 1
  BY <1>1, <1>2
<1>4. i \in DOMAIN s /\ j \in DOMAIN s
  BY <1>1, <1>2, <1>3
<1> QED BY <1>1, <1>2, <1>4 DEF AheadIn

\* A level whose new queue orders x before y only if the old one did puts x
\* ahead of y nowhere else.
LEMMA LevelOrder ==
  ASSUME NEW b, BookShape(b), NEW s0 \in Side, NEW p0 \in Price,
         NEW q \in Seq(OrderId), NEW x, NEW y,
         AheadIn(q, x, y) => p0 \in DOMAIN b[s0] /\ AheadIn(b[s0][p0], x, y),
         AheadOf(SetLevel(b, s0, p0, q), x, y)
  PROVE  AheadOf(b, x, y)
<1> DEFINE c == SetLevel(b, s0, p0, q)
<1> HIDE DEF c
<1>1. /\ \A s \in Side : \A p : p \in DOMAIN c[s] <=>
           IF s = s0 /\ p = p0 THEN q # <<>> ELSE p \in DOMAIN b[s]
      /\ \A s \in Side : \A p \in DOMAIN c[s] :
           c[s][p] = IF s = s0 /\ p = p0 THEN q ELSE b[s][p]
  BY WithQueueStep DEF c
<1>2. PICK s \in Side : \E p \in DOMAIN c[s] : AheadIn(c[s][p], x, y)
  BY DEF AheadOf, c
<1>3. PICK p \in DOMAIN c[s] : AheadIn(c[s][p], x, y)
  BY <1>2
<1>4. CASE s = s0 /\ p = p0
  BY <1>1, <1>3, <1>4 DEF AheadOf
<1>5. CASE ~(s = s0 /\ p = p0)
  BY <1>1, <1>3, <1>5 DEF AheadOf
<1> QED BY <1>4, <1>5

\* Ahead, seen as a relation of the two maps.
LEMMA AheadIsAheadOf ==
  ASSUME NEW x, NEW y
  PROVE  /\ Ahead(x, y) <=> AheadOf(book, x, y)
         /\ Ahead(x, y)' <=> AheadOf(book', x, y)
BY DEF Ahead, AheadOf, AheadIn

\* Taking an order out of its level reorders nothing (ModifyOrder, CancelOrder).
LEMMA RemoveOrderOrder ==
  ASSUME BookInvariant, incoming = None, NEW id \in orders, NEW x, NEW y,
         AheadOf(RemoveOrder(book, heap[id].side, heap[id].price, id), x, y)
  PROVE  AheadOf(book, x, y)
<1> DEFINE s0 == heap[id].side
           p0 == heap[id].price
<1>1. GoodBook(book) /\ s0 \in Side /\ At(book, s0, p0, id)
  BY IndexedFacts, BookAssumption DEF BookInvariant, TypeOK
<1> HIDE DEF s0, p0
<1> DEFINE q == book[s0][p0]
<1>2. /\ BookShape(book) /\ p0 \in DOMAIN book[s0] /\ p0 \in Price
      /\ q \in Seq(OrderId) /\ NoRepeat(q)
  BY <1>1 DEF GoodBook, BookShape, IsMap, At
<1>3. PICK k \in DOMAIN q : q[k] = id
  BY <1>1 DEF At
<1> DEFINE r == RemoveFirst(q, id)
<1>4. RemoveOrder(book, s0, p0, id) = SetLevel(book, s0, p0, r)
  BY <1>2 DEF removeOrderFromBook, RemoveOrder, SetLevel
<1>5. r \in Seq(OrderId)
  BY <1>2, <1>3, RemoveFirstOnce
<1>6. AheadIn(r, x, y) => AheadIn(q, x, y)
  BY <1>2, <1>3, RemoveFirstOrder
<1> HIDE DEF r
<1> QED BY <1>1, <1>2, <1>4, <1>5, <1>6, LevelOrder DEF s0, p0

\* No step puts an order ahead of one that was queued before it.
LEMMA StepKeepsOrder ==
  ASSUME BookInvariant, [Next]_vars, NEW x \in OrderId, NEW y \in OrderId,
         Queued(y), AheadOf(book', x, y)
  PROVE  AheadOf(book, x, y)
<1> USE DEF BookInvariant
<1>1. CASE book' = book
  BY <1>1
<1>2. ASSUME NEW id \in OrderId, NEW price \in Price, NEW qty \in RequestQty,
             ModifyOrder(id, price, qty)
      PROVE  AheadOf(book, x, y)
  <2>1. /\ incoming = None /\ id \in orders
        /\ book' = RemoveOrder(book, heap[id].side, heap[id].price, id)
    BY <1>2 DEF ModifyOrder, RemoveOrder
  <2> QED BY <2>1, RemoveOrderOrder
<1>3. ASSUME NEW id \in OrderId, CancelOrder(id)
      PROVE  AheadOf(book, x, y)
  <2>1. /\ incoming = None /\ id \in orders
        /\ book' = RemoveOrder(book, heap[id].side, heap[id].price, id)
    BY <1>3 DEF CancelOrder, RemoveOrder
  <2> QED BY <2>1, RemoveOrderOrder
<1>4. CASE matchAgainst
  <2> DEFINE contra == Contra(heap[incoming].side)
  <2>1. contra \in Side /\ GoodBook(book)
    BY <1>4, IndexedFacts DEF Contra, Side
  <2> HIDE DEF contra
  <2>2. PICK p \in DOMAIN book[contra] :
          Execute(incoming, p, Head(book[contra][p]))
    BY <1>4 DEF matchAgainst, contra
  <2> DEFINE q == book[contra][p]
  <2>3. /\ BookShape(book) /\ p \in Price
        /\ q \in Seq(OrderId) /\ q # <<>>
    BY <2>1 DEF GoodBook, BookShape, IsMap
  <2>4. book' = book \/ book' = SetLevel(book, contra, p, Tail(q))
    BY <2>2 DEF Execute, SetLevel, contra
  <2>5. Tail(q) \in Seq(OrderId)
    BY <2>3, HeadTailProperties
  <2>6. AheadIn(Tail(q), x, y) => AheadIn(q, x, y)
    BY <2>3, TailOrder
  <2>7. CASE book' = SetLevel(book, contra, p, Tail(q))
    BY <2>1, <2>3, <2>5, <2>6, <2>7, LevelOrder
  <2> QED BY <1>1, <2>4, <2>7
<1>5. CASE FinishBooked
  <2> DEFINE s0 == heap[incoming].side
             p0 == heap[incoming].price
             q  == QueueAt(book[s0], p0)
             r  == PushBack(q, incoming)
  <2>1. /\ incoming \in OrderId /\ s0 \in Side /\ p0 \in Price
        /\ BookShape(book) /\ y # incoming
    <3>1. incoming # None
      BY <1>5 DEF FinishBooked
    <3>2. y # incoming
      BY DEF BookIndexed, QueuedOrdersAreLive, Queued
    <3>3. BookShape(book)
      BY IndexedFacts DEF GoodBook
    <3> QED BY <3>1, <3>2, <3>3 DEF TypeOK, CallInProgress
  <2>2. book' = SetLevel(book, s0, p0, r)
    BY <1>5 DEF FinishBooked, SetLevel
  <2> HIDE DEF s0, p0
  <2>3. q \in Seq(OrderId)
    BY <2>1 DEF BookShape, IsMap, QueueAt
  <2>4. AheadIn(r, x, y) => AheadIn(q, x, y)
    <3> HIDE DEF q
    <3> QED BY <2>1, <2>3, PushBackOrder
  <2>5. AheadIn(q, x, y) => p0 \in DOMAIN book[s0] /\ AheadIn(book[s0][p0], x, y)
    <3>1. CASE p0 \in DOMAIN book[s0]
      BY <3>1 DEF QueueAt
    <3>2. CASE p0 \notin DOMAIN book[s0]
      BY <3>2 DEF QueueAt, AheadIn
    <3> QED BY <3>1, <3>2
  <2> HIDE DEF q
  <2>6. r \in Seq(OrderId)
    BY <2>1, <2>3, AppendProperties DEF PushBack
  <2> HIDE DEF r
  <2> QED BY <2>1, <2>2, <2>4, <2>5, <2>6, LevelOrder
<1> QED BY <1>1, <1>2, <1>3, <1>4, <1>5
      DEF Next, AddOrder, Finish, FinishTraded, FinishCancelled, vars

\* Orders that stay queued keep their order; a newcomer enters behind them.
THEOREM TimePriorityIsKept == Spec => TimePriorityKept
<1>1. BookInvariant /\ [Next]_vars =>
        \A a, b \in OrderId : Queued(b) /\ Ahead(a, b)' => Ahead(a, b)
  BY StepKeepsOrder, AheadIsAheadOf
<1> QED BY <1>1, BookInvariantHolds, PTL DEF Spec, TimePriorityKept

----------------------------------------------------------------------------
(* The quantity of a queue *)

Members(q) == {q[i] : i \in DOMAIN q}

QuantityIn(h) == [id \in OrderId |-> h[id].quantity]

\* The quantity in the queue q, for the order objects h.
QueueSum(h, q) == SumFunction([i \in DOMAIN q |-> h[q[i]].quantity])

\* QueuedQuantity, for the order objects h.
RunningTotal(h, q) ==
  LET total[i \in 0 .. Len(q)] == IF i = 0 THEN 0 ELSE total[i - 1] + h[q[i]].quantity
  IN  total[Len(q)]

\* What the loop of GetBestBid and GetBestAsk adds up is the sum.
LEMMA RunningTotalIsSum ==
  ASSUME NEW h \in [OrderId -> Order], NEW q \in Seq(OrderId)
  PROVE  RunningTotal(h, q) = QueueSum(h, q)
<1> DEFINE n == Len(q)
           f == [i \in DOMAIN q |-> h[q[i]].quantity]
           sum(i) == SumFunctionOnSet(f, 1 .. i)
           Totals(g) == g = [i \in 0 .. n |-> IF i = 0 THEN 0
                                             ELSE g[i - 1] + h[q[i]].quantity]
           g1 == [i \in 0 .. n |-> sum(i)]
           total == CHOOSE g : Totals(g)
<1>1. /\ n \in Nat /\ DOMAIN q = 1 .. n
      /\ \A i \in 1 .. n : f[i] = h[q[i]].quantity /\ f[i] \in Int
  BY LenProperties, ElementOfSeq, BookAssumption DEF Order, Quantity
<1>2. RunningTotal(h, q) = total[n]
  BY DEF RunningTotal
<1>3. QueueSum(h, q) = sum(n)
  BY <1>1 DEF QueueSum, SumFunction
<1>4. sum(0) = 0
  <2>1. 1 .. 0 = {}
    OBVIOUS
  <2> QED BY <2>1, SumEmpty
<1>5. ASSUME NEW i \in 1 .. n PROVE sum(i) = sum(i - 1) + h[q[i]].quantity
  <2> HIDE DEF f, n
  <2>1. i \in Int /\ i - 1 \in Int
    BY <1>1
  <2>2. 1 .. i = (1 .. i - 1) \cup {i} /\ i \notin 1 .. i - 1
    BY <1>1
  <2>3. IsFiniteSet(1 .. i - 1)
    BY <2>1, FS_Interval
  <2>4. \A x \in (1 .. i - 1) \cup {i} : f[x] \in Int
    BY <1>1
  <2>5. SumFunctionOnSet(f, (1 .. i - 1) \cup {i}) = f[i] + SumFunctionOnSet(f, 1 .. i - 1)
    BY <2>2, <2>3, <2>4, SumAdd
  <2>6. \A x \in 1 .. i - 1 : f[x] \in Int
    BY <1>1
  <2>7. SumFunctionOnSet(f, 1 .. i - 1) \in Int
    BY <2>3, <2>6, SumType
  <2>8. f[i] = h[q[i]].quantity /\ f[i] \in Int
    BY <1>1
  <2>9. sum(i) = f[i] + sum(i - 1)
    BY <2>2, <2>5
  <2> HIDE DEF sum
  <2>10. sum(i - 1) \in Int
    BY <2>7 DEF sum
  <2> QED BY <2>8, <2>9, <2>10
<1> HIDE DEF f, n, sum
<1>6. Totals(g1)
  BY <1>1, <1>4, <1>5
<1>7. Totals(total)
  <2> HIDE DEF Totals
  <2> QED BY <1>6
<1> HIDE DEF total, g1
<1> DEFINE G == {i \in 0 .. n : total[i] = sum(i)}
<1>8. 0 \in G
  BY <1>1, <1>4, <1>7
<1>9. ASSUME NEW i \in 0 .. n - 1, i \in G PROVE i + 1 \in G
  <2>1. i + 1 \in 1 .. n /\ (i + 1) - 1 = i
    BY <1>1
  <2>2. sum(i + 1) = sum(i) + h[q[i + 1]].quantity
    BY <1>5, <2>1
  <2>3. total[i + 1] = total[i] + h[q[i + 1]].quantity
    BY <1>1, <1>7, <2>1
  <2> QED BY <1>1, <1>9, <2>1, <2>2, <2>3
<1>10. n \in G
  <2> HIDE DEF G
  <2>1. \A i \in 0 .. n : i \in G
    BY <1>1, <1>8, <1>9, Counting
  <2> QED BY <1>1, <2>1
<1> QED BY <1>2, <1>3, <1>10

\* So the quantity queued at a level is the sum, before and after a step.
LEMMA QueuedIsSum ==
  /\ TypeOK => \A s \in Side : \A p \in DOMAIN book[s] :
                 QueuedQuantity(book[s][p]) = QueueSum(heap, book[s][p])
  /\ TypeOK' => \A s \in Side : \A p \in DOMAIN book'[s] :
                  QueuedQuantity(book[s][p])' = QueueSum(heap', book'[s][p])
<1>1. ASSUME TypeOK, NEW s \in Side, NEW p \in DOMAIN book[s]
      PROVE  QueuedQuantity(book[s][p]) = QueueSum(heap, book[s][p])
  <2>1. heap \in [OrderId -> Order] /\ book[s][p] \in Seq(OrderId)
    BY <1>1 DEF TypeOK, IsMap
  <2>2. QueuedQuantity(book[s][p]) = RunningTotal(heap, book[s][p])
    BY Zenon DEF QueuedQuantity, RunningTotal
  <2> QED BY <2>1, <2>2, RunningTotalIsSum
<1>2. ASSUME TypeOK', NEW s \in Side, NEW p \in DOMAIN book'[s]
      PROVE  QueuedQuantity(book[s][p])' = QueueSum(heap', book'[s][p])
  <2>1. heap' \in [OrderId -> Order] /\ book'[s][p] \in Seq(OrderId)
    BY <1>2 DEF TypeOK, IsMap
  <2>2. QueuedQuantity(book[s][p])' = RunningTotal(heap', book'[s][p])
    BY Zenon DEF QueuedQuantity, RunningTotal
  <2> QED BY <2>1, <2>2, RunningTotalIsSum
<1> QED BY <1>1, <1>2

\* The sum over a queue that holds each order once is the sum over its orders.
LEMMA QueueSumOfMembers ==
  ASSUME NEW h \in [OrderId -> Order], NEW q \in Seq(OrderId), NoRepeat(q)
  PROVE  /\ IsFiniteSet(Members(q)) /\ Members(q) \subseteq OrderId
         /\ \A x \in Members(q) : QuantityIn(h)[x] \in Nat
         /\ QueueSum(h, q) = SumFunctionOnSet(QuantityIn(h), Members(q))
         /\ QueueSum(h, q) \in Nat
<1> DEFINE g == [i \in DOMAIN q |-> h[q[i]].quantity]
           f == QuantityIn(h)
<1>1. DOMAIN q = 1 .. Len(q) /\ Len(q) \in Nat /\ \A i \in DOMAIN q : q[i] \in OrderId
  BY LenProperties, ElementOfSeq
<1>2. IsFiniteSet(DOMAIN q)
  BY <1>1, FS_Interval
<1>3. \A x \in OrderId : f[x] = h[x].quantity /\ f[x] \in Nat
  BY BookAssumption DEF QuantityIn, Order, Quantity
<1>4. \A i \in DOMAIN q : f[q[i]] \in Int /\ g[i] = f[q[i]]
  BY <1>1, <1>3
<1>5. \A i, j \in DOMAIN q : q[i] = q[j] => i = j
  BY DEF NoRepeat
<1>6. QueueSum(h, q) = SumFunctionOnSet(g, DOMAIN q)
  BY DEF QueueSum, SumFunction
<1> HIDE DEF f, g
<1>7. IsFiniteSet(Members(q)) /\ SumFunctionOnSet(g, DOMAIN q) = SumFunctionOnSet(f, Members(q))
  <2>1. \A y : y \in Members(q) <=> \E i \in DOMAIN q : y = q[i]
    BY DEF Members
  <2>2. Renames(q, DOMAIN q, Members(q), g, f)
    BY <1>2, <1>4, <1>5, <2>1 DEF Renames
  <2> QED BY <2>2, SumImage
<1>8. Members(q) \subseteq OrderId
  BY <1>1 DEF Members
<1>9. \A x \in Members(q) : f[x] \in Nat
  BY <1>3, <1>8
<1>10. SumFunctionOnSet(f, Members(q)) \in Nat
  BY <1>7, <1>9, SumType
<1> QED BY <1>6, <1>7, <1>8, <1>9, <1>10 DEF f

\* Taking one order out of a queue takes its quantity out of the sum.
LEMMA QueueSumWithout ==
  ASSUME NEW h \in [OrderId -> Order],
         NEW q \in Seq(OrderId), NoRepeat(q), NEW r \in Seq(OrderId), NoRepeat(r),
         NEW x \in Members(q), Members(r) = Members(q) \ {x}
  PROVE  QueueSum(h, q) = h[x].quantity + QueueSum(h, r)
<1> DEFINE f == QuantityIn(h)
<1>1. /\ IsFiniteSet(Members(q)) /\ Members(q) \subseteq OrderId
      /\ \A y \in Members(q) : f[y] \in Nat
      /\ QueueSum(h, q) = SumFunctionOnSet(f, Members(q))
  BY QueueSumOfMembers
<1>2. QueueSum(h, r) = SumFunctionOnSet(f, Members(q) \ {x})
  BY QueueSumOfMembers
<1>3. f[x] = h[x].quantity
  BY <1>1 DEF QuantityIn
<1> HIDE DEF f
<1>4. \A y \in Members(q) : f[y] \in Int
  BY <1>1
<1>5. SumFunctionOnSet(f, Members(q)) = f[x] + SumFunctionOnSet(f, Members(q) \ {x})
  BY <1>1, <1>4, SumRemove
<1> QED BY <1>1, <1>2, <1>3, <1>5

\* What changes in an order of the queue changes in the sum.
LEMMA QueueSumChanged ==
  ASSUME NEW h \in [OrderId -> Order], NEW k \in [OrderId -> Order],
         NEW q \in Seq(OrderId), NoRepeat(q),
         NEW x, \A y \in OrderId : y # x => k[y] = h[y]
  PROVE  /\ x \notin Members(q) => QueueSum(k, q) = QueueSum(h, q)
         /\ x \in Members(q) =>
              QueueSum(k, q) = QueueSum(h, q) - h[x].quantity + k[x].quantity
<1> DEFINE f == QuantityIn(h)
           g == QuantityIn(k)
<1>1. /\ IsFiniteSet(Members(q)) /\ Members(q) \subseteq OrderId
      /\ \A y \in Members(q) : f[y] \in Nat /\ g[y] \in Nat
      /\ QueueSum(h, q) = SumFunctionOnSet(f, Members(q))
      /\ QueueSum(k, q) = SumFunctionOnSet(g, Members(q))
  BY QueueSumOfMembers
<1>2. \A y \in OrderId : f[y] = h[y].quantity /\ g[y] = k[y].quantity
  BY DEF QuantityIn
<1> HIDE DEF f, g
<1>3. \A y \in Members(q) : y # x => g[y] = f[y]
  BY <1>1, <1>2
<1>4. CASE x \notin Members(q)
  <2>1. \A y \in Members(q) : g[y] = f[y]
    BY <1>3, <1>4
  <2> QED BY <1>1, <1>4, <2>1, SumEqual
<1>5. CASE x \in Members(q)
  <2>1. \A y \in Members(q) : f[y] \in Int /\ g[y] \in Int
    BY <1>1
  <2>2. SumFunctionOnSet(g, Members(q)) = SumFunctionOnSet(f, Members(q)) - f[x] + g[x]
    BY <1>1, <1>3, <1>5, <2>1, SumChange
  <2> QED BY <1>1, <1>2, <1>5, <2>2
<1> QED BY <1>4, <1>5

\* A queue holds at least what each of its orders holds.
LEMMA QueueSumAtLeast ==
  ASSUME NEW h \in [OrderId -> Order], NEW q \in Seq(OrderId), NoRepeat(q),
         NEW x \in Members(q)
  PROVE  h[x].quantity \in Nat /\ h[x].quantity <= QueueSum(h, q)
<1> DEFINE f == QuantityIn(h)
<1>1. /\ IsFiniteSet(Members(q)) /\ Members(q) \subseteq OrderId
      /\ \A y \in Members(q) : f[y] \in Nat
      /\ QueueSum(h, q) = SumFunctionOnSet(f, Members(q))
  BY QueueSumOfMembers
<1>2. f[x] = h[x].quantity
  BY <1>1 DEF QuantityIn
<1> HIDE DEF f
<1>3. f[x] <= SumFunctionOnSet(f, Members(q))
  BY <1>1, SumAtLeast
<1> QED BY <1>1, <1>2, <1>3

----------------------------------------------------------------------------
(* The trades of a call *)

TradeSum(ts) == SumFunction([i \in DOMAIN ts |-> ts[i].quantity])

\* One more trade adds its quantity.
LEMMA TradeSumAppend ==
  ASSUME NEW ts \in Seq(Trade), NEW t \in Trade
  PROVE  TradeSum(Append(ts, t)) = TradeSum(ts) + t.quantity /\ TradeSum(ts) \in Int
<1> DEFINE us == Append(ts, t)
           n  == Len(ts)
           f  == [i \in DOMAIN ts |-> ts[i].quantity]
           g  == [i \in DOMAIN us |-> us[i].quantity]
<1>1. /\ n \in Nat /\ DOMAIN ts = 1 .. n /\ DOMAIN us = 1 .. n + 1
      /\ \A i \in 1 .. n : us[i] = ts[i] /\ ts[i] \in Trade
      /\ us[n + 1] = t
  BY LenProperties, AppendProperties, ElementOfSeq
<1> HIDE DEF us, n
<1>2. IsFiniteSet(1 .. n) /\ n + 1 \notin 1 .. n /\ 1 .. n + 1 = (1 .. n) \cup {n + 1}
  <2>1. IsFiniteSet(1 .. n)
    BY <1>1, FS_Interval
  <2>2. \A i : i \in 1 .. n + 1 <=> i \in (1 .. n) \cup {n + 1}
    BY <1>1
  <2> QED BY <1>1, <2>1, <2>2
<1>3. \A x \in Trade : x.quantity \in Int
  BY DEF Trade, Quantity
<1>4. \A i \in 1 .. n : f[i] \in Int /\ g[i] = f[i]
  BY <1>1, <1>3
<1>5. g[n + 1] = t.quantity /\ g[n + 1] \in Int
  BY <1>1, <1>3
<1>6. TradeSum(ts) = SumFunctionOnSet(f, 1 .. n)
  BY <1>1 DEF TradeSum, SumFunction
<1>7. TradeSum(us) = SumFunctionOnSet(g, 1 .. n + 1)
  BY <1>1 DEF TradeSum, SumFunction
<1> HIDE DEF f, g
<1>8. SumFunctionOnSet(g, (1 .. n) \cup {n + 1}) = g[n + 1] + SumFunctionOnSet(g, 1 .. n)
  <2>1. \A i \in (1 .. n) \cup {n + 1} : g[i] \in Int
    BY <1>4, <1>5
  <2> QED BY <1>2, <2>1, SumAdd
<1>9. SumFunctionOnSet(g, 1 .. n) = SumFunctionOnSet(f, 1 .. n)
  BY <1>2, <1>4, SumEqual
<1>10. SumFunctionOnSet(f, 1 .. n) \in Int
  BY <1>2, <1>4, SumType
<1>11. TradeSum(us) = t.quantity + TradeSum(ts)
  BY <1>2, <1>5, <1>6, <1>7, <1>8, <1>9
<1> QED BY <1>5, <1>6, <1>10, <1>11 DEF us

\* A fill records a trade for what the incoming order loses.
LEMMA MatchRecordsFill ==
  ASSUME BookInvariant, matchAgainst
  PROVE  \E t \in Trade : trades' = Append(trades, t) /\ remaining' = remaining - t.quantity
BY MatchFacts

\* The trades of a call add up to what the incoming order has lost so far.
THEOREM TradesAddUp == Spec => []TradesAccountForFill
<1>1. Init => TradesAccountForFill
  BY DEF Init, TradesAccountForFill
<1>2. BookInvariant /\ TradesAccountForFill /\ [Next]_vars => TradesAccountForFill'
  <2> SUFFICES ASSUME BookInvariant, TradesAccountForFill, [Next]_vars, incoming' # None
               PROVE  TradeSum(trades') = originalQuantity' - remaining'
    BY DEF TradesAccountForFill, TradeSum
  <2>1. CASE matchAgainst
    <3>1. PICK t \in Trade : trades' = Append(trades, t) /\ remaining' = remaining - t.quantity
      BY <2>1, MatchRecordsFill
    <3>2. incoming # None /\ originalQuantity' = originalQuantity
      BY <2>1 DEF matchAgainst, Execute
    <3>3. /\ trades \in Seq(Trade) /\ t.quantity \in Int
          /\ originalQuantity \in Int /\ remaining \in Int
      BY DEF BookInvariant, TypeOK, Trade, Quantity
    <3>4. TradeSum(trades') = TradeSum(trades) + t.quantity /\ TradeSum(trades) \in Int
      BY <3>1, <3>3, TradeSumAppend
    <3>5. TradeSum(trades) = originalQuantity - remaining
      BY <3>2 DEF TradesAccountForFill, TradeSum
    <3> QED BY <3>1, <3>2, <3>3, <3>4, <3>5
  <2>2. CASE trades' = <<>> /\ originalQuantity' = remaining' /\ remaining' \in RequestQty
    <3>1. TradeSum(<<>>) = 0
      <4>1. DOMAIN [i \in DOMAIN <<>> |-> <<>>[i].quantity] = {}
        OBVIOUS
      <4> QED BY <4>1, SumEmpty DEF TradeSum, SumFunction
    <3> QED BY <2>2, <3>1, BookAssumption
  <2>3. CASE UNCHANGED <<trades, incoming, originalQuantity, remaining>>
    BY <2>3 DEF TradesAccountForFill, TradeSum
  <2>4. CASE Finish
    BY <2>4 DEF Finish, FinishTraded, FinishCancelled, FinishBooked, Return
  <2>5. ASSUME NEW id \in OrderId, NEW side \in Side, NEW type \in OrderType,
               NEW price \in Price, NEW qty \in RequestQty,
               AddOrder(id, side, type, price, qty)
        PROVE  trades' = <<>> /\ originalQuantity' = remaining' /\ remaining' \in RequestQty
    BY <2>5 DEF AddOrder, addToBook
  <2>6. ASSUME NEW id \in OrderId, NEW price \in Price, NEW qty \in RequestQty,
               ModifyOrder(id, price, qty)
        PROVE  trades' = <<>> /\ originalQuantity' = remaining' /\ remaining' \in RequestQty
    BY <2>6 DEF ModifyOrder, addToBook
  <2>7. ASSUME NEW id \in OrderId, CancelOrder(id)
        PROVE  UNCHANGED <<trades, incoming, originalQuantity, remaining>>
    BY <2>7 DEF CancelOrder
  <2> QED BY <2>1, <2>2, <2>3, <2>4, <2>5, <2>6, <2>7 DEF Next, vars
<1> QED BY <1>1, <1>2, BookInvariantHolds, PTL DEF Spec

----------------------------------------------------------------------------
(* price_to_leveldata_ *)

\* LevelDataExact for order objects h, price maps b and level data d.
LevelsExact(h, b, d) ==
  /\ DOMAIN d = DOMAIN b["BUY"] \cup DOMAIN b["SELL"]
  /\ \A s \in Side : \A p \in DOMAIN b[s] :
       /\ d[p].totalQuantity = QueueSum(h, b[s][p])
       /\ d[p].numberOfOrders = Len(b[s][p])

\* The entry of d for price p describes the queue q.
EntryFor(h, d, p, q) ==
  IF q = <<>> THEN p \notin DOMAIN d
  ELSE /\ p \in DOMAIN d
       /\ d[p].totalQuantity = QueueSum(h, q)
       /\ d[p].numberOfOrders = Len(q)

\* e is d except for the entry of price p.
SameBut(d, e, p) ==
  /\ DOMAIN e \ {p} = DOMAIN d \ {p}
  /\ \A x \in DOMAIN d \ {p} : e[x] = d[x]

\* c is b except that side s has the queue q at price p.
NewQueue(b, c, s0, p0, q) ==
  /\ \A s \in Side : \A p : p \in DOMAIN c[s] <=>
       IF s = s0 /\ p = p0 THEN q # <<>> ELSE p \in DOMAIN b[s]
  /\ \A s \in Side : \A p \in DOMAIN c[s] :
       c[s][p] = IF s = s0 /\ p = p0 THEN q ELSE b[s][p]

\* The queues of b other than the one of side s0 at price p0 weigh the same.
OthersSame(h, k, b, s0, p0) ==
  \A s \in Side : \A p \in DOMAIN b[s] : ~(s = s0 /\ p = p0) =>
    QueueSum(k, b[s][p]) = QueueSum(h, b[s][p])

\* The map stays exact when one level changes and its entry follows.
LEMMA OneLevelExact ==
  ASSUME NEW h, NEW b, NEW d, LevelsExact(h, b, d),
         NEW s0 \in Side, NEW p0, p0 \notin DOMAIN b[Contra(s0)],
         NEW q, NEW c, NewQueue(b, c, s0, p0, q),
         NEW e, SameBut(d, e, p0), NEW k, EntryFor(k, e, p0, q),
         OthersSame(h, k, b, s0, p0)
  PROVE  LevelsExact(k, c, e)
<1>1. \A p : p # p0 => (p \in DOMAIN e <=> p \in DOMAIN d)
  BY DEF SameBut
<1>2. \A s \in Side : \A p : p # p0 => (p \in DOMAIN c[s] <=> p \in DOMAIN b[s])
  BY DEF NewQueue
<1>3. p0 \in DOMAIN e <=> q # <<>>
  BY DEF EntryFor
<1>4. p0 \in DOMAIN c["BUY"] \cup DOMAIN c["SELL"] <=> q # <<>>
  <2>1. CASE s0 = "BUY"
    BY <2>1 DEF NewQueue, Contra, Side
  <2>2. CASE s0 = "SELL"
    BY <2>2 DEF NewQueue, Contra, Side
  <2> QED BY <2>1, <2>2 DEF Side
<1>5. DOMAIN e = DOMAIN c["BUY"] \cup DOMAIN c["SELL"]
  <2>1. \A p : p # p0 =>
          (p \in DOMAIN e <=> p \in DOMAIN c["BUY"] \cup DOMAIN c["SELL"])
    BY <1>1, <1>2 DEF LevelsExact, Side
  <2> QED BY <1>3, <1>4, <2>1
<1>6. ASSUME NEW s \in Side, NEW p \in DOMAIN c[s]
      PROVE  /\ e[p].totalQuantity = QueueSum(k, c[s][p])
             /\ e[p].numberOfOrders = Len(c[s][p])
  <2>1. CASE s = s0 /\ p = p0
    BY <2>1 DEF NewQueue, EntryFor
  <2>2. CASE ~(s = s0 /\ p = p0)
    <3>1. p \in DOMAIN b[s] /\ c[s][p] = b[s][p]
      BY <2>2 DEF NewQueue
    <3>2. p # p0
      <4>1. s # s0 => s = Contra(s0)
        BY DEF Contra, Side
      <4> QED BY <2>2, <3>1, <4>1
    <3>3. p \in DOMAIN d \ {p0}
      BY <3>1, <3>2 DEF LevelsExact, Side
    <3> QED BY <2>2, <3>1, <3>3 DEF LevelsExact, SameBut, OthersSame
  <2> QED BY <2>1, <2>2
<1> QED BY <1>5, <1>6 DEF LevelsExact

\* A queue of open orders is empty iff its quantity is zero iff its length is.
LEMMA QueueSumZero ==
  ASSUME NEW h \in [OrderId -> Order], NEW q \in Seq(OrderId), NoRepeat(q),
         \A x \in Members(q) : h[x].quantity > 0
  PROVE  /\ q = <<>> <=> QueueSum(h, q) = 0
         /\ q = <<>> <=> Len(q) = 0
<1>1. Len(q) \in Nat /\ (q = <<>> <=> Len(q) = 0) /\ DOMAIN q = 1 .. Len(q)
  BY LenProperties, EmptySeq
<1>2. CASE q = <<>>
  <2>1. Members(q) = {}
    BY <1>2 DEF Members
  <2> QED BY <1>1, <1>2, <2>1, QueueSumOfMembers, SumEmpty
<1>3. CASE q # <<>>
  <2>1. q[1] \in Members(q)
    BY <1>1, <1>3 DEF Members
  <2>2. h[q[1]].quantity \in Nat /\ h[q[1]].quantity > 0
        /\ h[q[1]].quantity <= QueueSum(h, q)
    BY <2>1, QueueSumAtLeast
  <2>3. QueueSum(h, q) \in Nat
    BY QueueSumOfMembers
  <2> QED BY <1>1, <1>3, <2>2, <2>3
<1> QED BY <1>2, <1>3

\* updateLevelOnFill keeps the entry of the level exact.
LEMMA FillEntry ==
  ASSUME NEW d, IsMap(d, Price, LevelData), NEW h \in [OrderId -> Order],
         NEW k \in [OrderId -> Order], NEW p,
         NEW q \in Seq(OrderId), NoRepeat(q), q # <<>>, EntryFor(h, d, p, q),
         NEW r \in Seq(OrderId), NoRepeat(r), \A x \in Members(r) : k[x].quantity > 0,
         NEW qty \in Nat \ {0}, QueueSum(k, r) = QueueSum(h, q) - qty,
         NEW closed \in BOOLEAN, Len(r) = IF closed THEN Len(q) - 1 ELSE Len(q)
  PROVE  /\ SameBut(d, updateLevelOnFill(d, p, qty, closed), p)
         /\ EntryFor(k, updateLevelOnFill(d, p, qty, closed), p, r)
<1> DEFINE total  == IF d[p].totalQuantity <= qty THEN 0
                     ELSE d[p].totalQuantity - qty
           number == IF closed /\ d[p].numberOfOrders > 0
                       THEN d[p].numberOfOrders - 1
                       ELSE d[p].numberOfOrders
           e == updateLevelOnFill(d, p, qty, closed)
<1>1. /\ p \in DOMAIN d /\ d[p].totalQuantity = QueueSum(h, q)
      /\ d[p].numberOfOrders = Len(q) /\ d = [x \in DOMAIN d |-> d[x]]
  BY DEF EntryFor, IsMap
<1>2. e = IF total = 0 \/ number = 0
            THEN Restrict(d, DOMAIN d \ {p})
            ELSE [d EXCEPT ![p] = [totalQuantity  |-> total,
                                   numberOfOrders |-> number]]
  BY <1>1 DEF updateLevelOnFill
<1>3. /\ QueueSum(h, q) \in Nat /\ QueueSum(k, r) \in Nat /\ Len(q) \in Nat /\ Len(r) \in Nat
      /\ Len(q) # 0
  <2>1. QueueSum(h, q) \in Nat /\ QueueSum(k, r) \in Nat
    BY QueueSumOfMembers
  <2> QED BY <2>1, LenProperties, EmptySeq
<1>4. (r = <<>> <=> QueueSum(k, r) = 0) /\ (r = <<>> <=> Len(r) = 0)
  BY QueueSumZero
<1>5. total = QueueSum(k, r)
  BY <1>1, <1>3
<1>6. number = Len(r)
  BY <1>1, <1>3
<1> HIDE DEF total, number, e
<1>7. CASE r = <<>>
  <2>1. e = Restrict(d, DOMAIN d \ {p})
    BY <1>2, <1>4, <1>5, <1>7
  <2> QED BY <1>7, <2>1 DEF Restrict, SameBut, EntryFor, e
<1>8. CASE r # <<>>
  <2>1. e = [d EXCEPT ![p] = [totalQuantity |-> total, numberOfOrders |-> number]]
    BY <1>2, <1>4, <1>5, <1>6, <1>8
  <2>2. DOMAIN e = DOMAIN d /\ \A x \in DOMAIN d : x # p => e[x] = d[x]
    BY <1>1, <2>1
  <2>3. e[p].totalQuantity = total /\ e[p].numberOfOrders = number
    BY <1>1, <2>1
  <2> QED BY <1>1, <1>5, <1>6, <1>8, <2>2, <2>3 DEF SameBut, EntryFor, e
<1> QED BY <1>7, <1>8

\* updateLevelOnAdd keeps the entry exact as long as the total fits the width.
LEMMA AddEntry ==
  ASSUME NEW d, IsMap(d, Price, LevelData), NEW h, NEW k, NEW p,
         NEW q \in Seq(OrderId), EntryFor(h, d, p, q),
         q = <<>> => QueueSum(h, q) = 0, QueueSum(h, q) \in Nat,
         NEW r, r # <<>>, Len(r) = Len(q) + 1,
         NEW qty \in Nat, QueueSum(k, r) = QueueSum(h, q) + qty,
         QueueSum(k, r) < QMod
  PROVE  /\ SameBut(d, updateLevelOnAdd(d, p, qty), p)
         /\ EntryFor(k, updateLevelOnAdd(d, p, qty), p, r)
<1> DEFINE old == IF p \in DOMAIN d THEN d[p]
                  ELSE [totalQuantity |-> 0, numberOfOrders |-> 0]
           e == updateLevelOnAdd(d, p, qty)
           entry == [totalQuantity  |-> (old.totalQuantity + qty) % QMod,
                     numberOfOrders |-> old.numberOfOrders + 1]
<1>1. e = [x \in DOMAIN d \cup {p} |-> IF x = p THEN entry ELSE d[x]]
  BY DEF updateLevelOnAdd
<1>2. old.totalQuantity = QueueSum(h, q) /\ old.numberOfOrders = Len(q)
  <2>1. CASE q = <<>>
    <3>1. p \notin DOMAIN d /\ QueueSum(h, q) = 0 /\ Len(q) = 0
      BY <2>1 DEF EntryFor
    <3> QED BY <3>1
  <2>2. CASE q # <<>>
    BY <2>2 DEF EntryFor
  <2> QED BY <2>1, <2>2
<1> HIDE DEF old
<1>3. entry.totalQuantity = QueueSum(k, r) /\ entry.numberOfOrders = Len(r)
  <2>1. old.totalQuantity + qty = QueueSum(k, r) /\ QueueSum(k, r) \in Nat
    BY <1>2
  <2>2. \A n \in Nat : n < QMod => n % QMod = n
    BY BookAssumption
  <2>3. (old.totalQuantity + qty) % QMod = QueueSum(k, r)
    BY <2>1, <2>2
  <2> QED BY <1>2, <2>3
<1> HIDE DEF entry
<1> QED BY <1>1, <1>3 DEF SameBut, EntryFor

\* k is h except for the order x.
ChangesOnly(h, k, x) ==
  /\ h \in [OrderId -> Order] /\ k \in [OrderId -> Order]
  /\ \A y \in OrderId : y # x => k[y] = h[y]

\* An order that is not queued at a level does not matter to its sum.
LEMMA OtherLevelSum ==
  ASSUME NEW b, GoodBook(b), NEW h, NEW k, NEW x, ChangesOnly(h, k, x),
         NEW s \in Side, NEW p \in DOMAIN b[s], ~At(b, s, p, x)
  PROVE  QueueSum(k, b[s][p]) = QueueSum(h, b[s][p])
<1>1. b[s][p] \in Seq(OrderId) /\ NoRepeat(b[s][p])
  BY DEF GoodBook, BookShape, IsMap
<1>2. x \notin Members(b[s][p])
  BY DEF At, Members
<1> QED BY <1>1, <1>2, QueueSumChanged DEF ChangesOnly

\* Changing an order that is not queued keeps the level data exact.
LEMMA HeapOnlyExact ==
  ASSUME NEW b, GoodBook(b), NEW h, NEW k, NEW x, ChangesOnly(h, k, x),
         \A s \in Side : \A p : ~At(b, s, p, x),
         NEW d, LevelsExact(h, b, d)
  PROVE  LevelsExact(k, b, d)
<1>1. ASSUME NEW s \in Side, NEW p \in DOMAIN b[s]
      PROVE  QueueSum(k, b[s][p]) = QueueSum(h, b[s][p])
  BY OtherLevelSum
<1> QED BY <1>1 DEF LevelsExact

\* The prices of the two sides are disjoint.
LEMMA SidesDisjoint ==
  ASSUME TypeOK, Uncrossed, NEW s \in Side, NEW p \in DOMAIN book[s]
  PROVE  p \notin DOMAIN book[Contra(s)]
<1>1. p \in Int
  BY BookAssumption DEF TypeOK, IsMap
<1> QED BY <1>1 DEF Uncrossed, Contra, Side

\* An order leaves its level: CancelOrder, the first half of ModifyOrder, and a
\* fill that closes the resting order.
LEMMA RemovalExact ==
  ASSUME BookInvariant, LevelsExact(heap, book, levelData),
         NEW s0 \in Side, NEW p0 \in DOMAIN book[s0],
         NEW id, At(book, s0, p0, id),
         NEW r \in Seq(OrderId), NoRepeat(r),
         Members(r) = Members(book[s0][p0]) \ {id},
         Len(r) = Len(book[s0][p0]) - 1,
         book' = SetLevel(book, s0, p0, r),
         ChangesOnly(heap, heap', id),
         levelData' = updateLevelOnFill(levelData, p0, heap[id].quantity, TRUE)
  PROVE  LevelsExact(heap', book', levelData')
<1> DEFINE q == book[s0][p0]
<1>1. /\ GoodBook(book)
      /\ \A s \in Side : \A p, x : At(book, s, p, x) => OpenAt(x, s, p)
      /\ heap \in [OrderId -> Order] /\ heap' \in [OrderId -> Order]
      /\ IsMap(levelData, Price, LevelData)
  BY IndexedFacts DEF BookInvariant, TypeOK, ChangesOnly
<1>2. p0 \in Price /\ q \in Seq(OrderId) /\ NoRepeat(q) /\ q # <<>>
  BY <1>1 DEF GoodBook, BookShape, IsMap
<1>3. id \in Members(q) /\ Members(q) \subseteq OrderId
  BY <1>2, QueueSumOfMembers, <1>1 DEF At, Members
<1>4. heap[id].quantity \in Nat \ {0} /\ heap[id].side = s0 /\ heap[id].price = p0
  <2>1. OpenAt(id, s0, p0)
    BY <1>1
  <2> QED BY <1>1, <1>3, <2>1, BookAssumption DEF OpenAt, Order, Quantity
<1>5. QueueSum(heap, q) = heap[id].quantity + QueueSum(heap, r)
  BY <1>1, <1>2, <1>3, QueueSumWithout
<1>6. QueueSum(heap', r) = QueueSum(heap, r)
  BY <1>1, QueueSumChanged DEF ChangesOnly
<1>7. QueueSum(heap', r) = QueueSum(heap, q) - heap[id].quantity
  <2>1. QueueSum(heap, r) \in Nat
    BY <1>1, QueueSumOfMembers
  <2> QED BY <1>4, <1>5, <1>6, <2>1
<1>8. \A x \in Members(r) : heap'[x].quantity > 0
  <2> SUFFICES ASSUME NEW x \in Members(r) PROVE heap'[x].quantity > 0
    OBVIOUS
  <2>1. x \in Members(q) /\ x # id /\ x \in OrderId
    BY <1>3
  <2>2. At(book, s0, p0, x)
    BY <2>1 DEF At, Members
  <2>3. OpenAt(x, s0, p0) /\ heap'[x] = heap[x]
    BY <1>1, <2>1, <2>2 DEF ChangesOnly
  <2> QED BY <2>3 DEF OpenAt
<1>9. EntryFor(heap, levelData, p0, q)
  BY <1>2 DEF LevelsExact, EntryFor, Side
<1>10. SameBut(levelData, levelData', p0) /\ EntryFor(heap', levelData', p0, r)
  <2> DEFINE n == heap[id].quantity
  <2>1. Len(r) = IF TRUE THEN Len(q) - 1 ELSE Len(q)
    OBVIOUS
  <2>2. /\ SameBut(levelData, updateLevelOnFill(levelData, p0, n, TRUE), p0)
        /\ EntryFor(heap', updateLevelOnFill(levelData, p0, n, TRUE), p0, r)
    <3> HIDE DEF q, n
    <3> QED BY <1>1, <1>2, <1>4, <1>7, <1>8, <1>9, <2>1, FillEntry DEF n
  <2> QED BY <2>2
<1>11. NewQueue(book, book', s0, p0, r)
  BY <1>1, <1>2, WithQueueStep DEF NewQueue, GoodBook
<1>12. p0 \notin DOMAIN book[Contra(s0)]
  BY SidesDisjoint DEF BookInvariant
<1>13. OthersSame(heap, heap', book, s0, p0)
  <2>1. \A s \in Side : \A p : ~(s = s0 /\ p = p0) => ~At(book, s, p, id)
    BY <1>1, <1>4 DEF OpenAt
  <2> SUFFICES ASSUME NEW s \in Side, NEW p \in DOMAIN book[s], ~(s = s0 /\ p = p0)
               PROVE  QueueSum(heap', book[s][p]) = QueueSum(heap, book[s][p])
    BY DEF OthersSame
  <2>2. ~At(book, s, p, id)
    BY <2>1
  <2> QED BY <1>1, <2>2, OtherLevelSum
<1> QED BY <1>10, <1>11, <1>12, <1>13, OneLevelExact

\* removeOrderFromBook for a resting order keeps the level data exact, with the
\* updateLevelOnFill call that precedes it.
LEMMA RemoveOrderExact ==
  ASSUME BookInvariant, LevelsExact(heap, book, levelData), incoming = None,
         NEW id \in orders, ChangesOnly(heap, heap', id),
         book' = RemoveOrder(book, heap[id].side, heap[id].price, id),
         levelData' = updateLevelOnFill(levelData, heap[id].price, heap[id].quantity, TRUE)
  PROVE  LevelsExact(heap', book', levelData')
<1> DEFINE s0 == heap[id].side
           p0 == heap[id].price
           q == book[s0][p0]
           r == RemoveFirst(q, id)
<1>1. GoodBook(book) /\ s0 \in Side /\ At(book, s0, p0, id)
  BY IndexedFacts, BookAssumption DEF BookInvariant, TypeOK
<1>2. /\ p0 \in DOMAIN book[s0] /\ q \in Seq(OrderId) /\ NoRepeat(q)
  BY <1>1 DEF GoodBook, BookShape, IsMap, At
<1>3. PICK k \in DOMAIN q : q[k] = id
  BY <1>1 DEF At
<1>4. r \in Seq(OrderId) /\ NoRepeat(r) /\ Len(r) = Len(q) - 1
  <2> HIDE DEF q
  <2>1. RemoveFirst(q, q[k]) \in Seq(OrderId) /\ NoRepeat(RemoveFirst(q, q[k]))
    BY <1>2, RemoveFirstOnce, Zenon
  <2>2. Len(RemoveFirst(q, q[k])) = Len(q) - 1
    BY <1>2, RemoveFirstAt, Zenon
  <2> QED BY <1>3, <2>1, <2>2
<1>5. /\ \A j \in DOMAIN r : r[j] # id /\ \E i \in DOMAIN q : r[j] = q[i]
      /\ \A i \in DOMAIN q : i # k => \E j \in DOMAIN r : r[j] = q[i]
  <2> HIDE DEF q
  <2> DEFINE t == RemoveFirst(q, q[k])
  <2>1. /\ \A j \in DOMAIN t : t[j] # q[k] /\ \E i \in DOMAIN q : t[j] = q[i]
        /\ \A i \in DOMAIN q : i # k => \E j \in DOMAIN t : t[j] = q[i]
    BY <1>2, RemoveFirstOnce
  <2>2. t = r
    BY <1>3
  <2> HIDE DEF t, r
  <2> QED BY <1>3, <2>1, <2>2
<1>6. book' = SetLevel(book, s0, p0, r)
  BY <1>2 DEF removeOrderFromBook, RemoveOrder, SetLevel
<1> HIDE DEF r
<1>7. Members(r) = Members(q) \ {id}
  <2> HIDE DEF q
  <2> QED BY <1>3, <1>5 DEF Members
<1> HIDE DEF s0, p0
<1> QED BY <1>1, <1>2, <1>4, <1>6, <1>7, RemovalExact DEF s0, p0

\* What a fill does to the order at the front of the best contra level.
FillOf(s0, p0, executed) ==
  LET resting == Head(book[s0][p0])
      closed  == heap[resting].quantity = executed
  IN  /\ heap'[resting].quantity = heap[resting].quantity - executed
      /\ levelData' = updateLevelOnFill(levelData, p0, executed, closed)
      /\ book' = IF closed THEN SetLevel(book, s0, p0, Tail(book[s0][p0])) ELSE book

\* A matchAgainst step is such a fill.
LEMMA MatchFill ==
  ASSUME BookInvariant, matchAgainst
  PROVE  \E s0 \in Side : \E p0 \in DOMAIN book[s0] : \E executed \in Nat \ {0} :
           /\ executed <= heap[Head(book[s0][p0])].quantity
           /\ ChangesOnly(heap, heap', Head(book[s0][p0]))
           /\ FillOf(s0, p0, executed)
<1> DEFINE s0 == Contra(heap[incoming].side)
<1>1. s0 \in Side /\ remaining > 0 /\ remaining \in Nat
  BY BookAssumption DEF matchAgainst, Contra, Side, BookInvariant, TypeOK, Quantity
<1>2. PICK p0 \in DOMAIN book[s0] : Execute(incoming, p0, Head(book[s0][p0]))
  BY DEF matchAgainst
<1> DEFINE resting == Head(book[s0][p0])
           executed == Executed(remaining, heap[resting].quantity)
<1>3. /\ GoodBook(book) /\ heap \in [OrderId -> Order]
      /\ \A s \in Side : \A p, x : At(book, s, p, x) => OpenAt(x, s, p)
  BY IndexedFacts DEF BookInvariant, TypeOK
<1>4. OpenAt(resting, s0, p0) /\ resting \in OrderId
  <2>1. /\ book[s0][p0] \in Seq(OrderId) /\ NoRepeat(book[s0][p0])
        /\ book[s0][p0] # <<>>
    BY <1>1, <1>3 DEF GoodBook, BookShape, IsMap
  <2>2. resting \in OrderId /\ 1 \in DOMAIN book[s0][p0] /\ resting = book[s0][p0][1]
    BY <2>1, TailOnce
  <2> QED BY <1>1, <1>3, <2>2 DEF At
<1> DEFINE left == reduceQuantity(heap[resting].quantity, executed)
<1>5. /\ heap' = [heap EXCEPT
                ![resting].quantity = left,
                ![resting].status = IF left = 0 THEN "TRADED" ELSE "MODIFY"]
      /\ levelData' = updateLevelOnFill(levelData, p0, executed, left = 0)
      /\ book' = IF left = 0
                   THEN SetLevel(book, s0, p0, Tail(book[s0][p0])) ELSE book
  BY <1>2 DEF Execute, SetLevel
<1>6. heap' \in [OrderId -> Order]
  BY MatchInvariant DEF BookInvariant, TypeOK
<1> HIDE DEF resting, executed, left
<1>7. heap[resting].quantity \in Nat /\ heap[resting].quantity > 0
  BY <1>3, <1>4, BookAssumption DEF Order, Quantity, OpenAt
<1>8. /\ executed \in Nat \ {0} /\ executed <= heap[resting].quantity
      /\ left = heap[resting].quantity - executed
      /\ (left = 0) = (heap[resting].quantity = executed)
  <2>1. /\ executed \in Nat /\ executed <= heap[resting].quantity
        /\ left = heap[resting].quantity - executed
    BY <1>1, <1>7, ReduceExecuted DEF executed, left
  <2>2. executed # 0
    BY <1>1, <1>7 DEF executed, Executed
  <2> QED BY <1>7, <2>1, <2>2
<1>9. ChangesOnly(heap, heap', resting)
  BY <1>3, <1>4, <1>5, <1>6 DEF ChangesOnly
<1>10. heap'[resting].quantity = heap[resting].quantity - executed
  BY <1>3, <1>4, <1>5, <1>8 DEF Order
<1>11. FillOf(s0, p0, executed)
  BY <1>5, <1>8, <1>10 DEF FillOf, resting
<1> HIDE DEF s0
<1> QED BY <1>1, <1>8, <1>9, <1>11 DEF resting

\* A fill keeps the level data exact.
LEMMA FillExact ==
  ASSUME BookInvariant, LevelsExact(heap, book, levelData), matchAgainst
  PROVE  LevelsExact(heap', book', levelData')
<1>0. PICK s0 \in Side :
        \E p0 \in DOMAIN book[s0] : \E executed \in Nat \ {0} :
           /\ executed <= heap[Head(book[s0][p0])].quantity
           /\ ChangesOnly(heap, heap', Head(book[s0][p0]))
           /\ FillOf(s0, p0, executed)
  BY MatchFill
<1>1. PICK p0 \in DOMAIN book[s0], executed \in Nat \ {0} :
        /\ executed <= heap[Head(book[s0][p0])].quantity
        /\ ChangesOnly(heap, heap', Head(book[s0][p0]))
        /\ FillOf(s0, p0, executed)
  BY <1>0
<1> DEFINE q == book[s0][p0]
           id == Head(q)
<1>2. /\ GoodBook(book)
      /\ \A s \in Side : \A p, x : At(book, s, p, x) => OpenAt(x, s, p)
      /\ heap \in [OrderId -> Order] /\ heap' \in [OrderId -> Order]
      /\ IsMap(levelData, Price, LevelData)
  BY <1>1, IndexedFacts DEF BookInvariant, TypeOK, ChangesOnly
<1>3. p0 \in Price /\ q \in Seq(OrderId) /\ NoRepeat(q) /\ q # <<>>
  BY <1>2 DEF GoodBook, BookShape, IsMap
<1>4. /\ id \in OrderId /\ 1 \in DOMAIN q /\ id = q[1]
      /\ Tail(q) \in Seq(OrderId) /\ NoRepeat(Tail(q))
      /\ \A j \in DOMAIN Tail(q) :
           Tail(q)[j] # id /\ \E i \in DOMAIN q : Tail(q)[j] = q[i]
      /\ \A i \in DOMAIN q : i # 1 => \E j \in DOMAIN Tail(q) : Tail(q)[j] = q[i]
  BY <1>3, TailOnce
<1>5. At(book, s0, p0, id) /\ id \in Members(q)
  BY <1>4 DEF At, Members
<1>6. CASE heap[id].quantity = executed
  <2>1. /\ levelData' = updateLevelOnFill(levelData, p0, heap[id].quantity, TRUE)
        /\ book' = SetLevel(book, s0, p0, Tail(q))
    BY <1>1, <1>6 DEF FillOf
  <2>2. Len(Tail(q)) = Len(q) - 1
    BY <1>3, HeadTailProperties
  <2>3. Members(Tail(q)) = Members(q) \ {id}
    <3> DEFINE t == Tail(q)
    <3> HIDE DEF q, t, id
    <3> QED BY <1>4 DEF Members, t
  <2> HIDE DEF id
  <2> QED BY <1>1, <1>4, <1>5, <2>1, <2>2, <2>3, RemovalExact DEF id
<1>7. CASE heap[id].quantity # executed
  <2>1. /\ levelData' = updateLevelOnFill(levelData, p0, executed, FALSE)
        /\ book' = book
        /\ heap'[id].quantity = heap[id].quantity - executed
    BY <1>1, <1>7 DEF FillOf
  <2>2. heap[id].quantity \in Nat /\ heap'[id].quantity \in Nat \ {0}
    <3> HIDE DEF id
    <3>1. heap[id].quantity \in Nat
      BY <1>2, <1>4, BookAssumption DEF Order, Quantity
    <3> QED BY <1>1, <1>7, <2>1, <3>1 DEF id
  <2>3. QueueSum(heap', q) = QueueSum(heap, q) - executed
    <3>1. QueueSum(heap', q) = QueueSum(heap, q) - heap[id].quantity + heap'[id].quantity
      <4> HIDE DEF id, q
      <4> QED BY <1>1, <1>2, <1>3, <1>5, QueueSumChanged DEF ChangesOnly, id, q
    <3>2. QueueSum(heap, q) \in Nat
      BY <1>2, <1>3, QueueSumOfMembers
    <3> QED BY <2>1, <2>2, <3>1, <3>2
  <2>4. \A x \in Members(q) : heap'[x].quantity > 0
    <3> SUFFICES ASSUME NEW x \in Members(q) PROVE heap'[x].quantity > 0
      OBVIOUS
    <3>1. At(book, s0, p0, x) /\ x \in OrderId
      BY <1>2, <1>3, QueueSumOfMembers DEF At, Members
    <3>2. heap[x].quantity > 0
      BY <1>2, <3>1 DEF OpenAt
    <3> QED BY <1>1, <2>2, <3>1, <3>2 DEF ChangesOnly
  <2>5. EntryFor(heap, levelData, p0, q)
    BY <1>3 DEF LevelsExact, EntryFor, Side
  <2>6. SameBut(levelData, levelData', p0) /\ EntryFor(heap', levelData', p0, q)
    <3>1. Len(q) = IF FALSE THEN Len(q) - 1 ELSE Len(q)
      OBVIOUS
    <3>2. /\ SameBut(levelData, updateLevelOnFill(levelData, p0, executed, FALSE), p0)
          /\ EntryFor(heap', updateLevelOnFill(levelData, p0, executed, FALSE), p0, q)
      <4> HIDE DEF q
      <4> QED BY <1>2, <1>3, <2>3, <2>4, <2>5, <3>1, FillEntry
    <3> QED BY <2>1, <3>2
  <2>7. NewQueue(book, book', s0, p0, q)
    BY <1>3, <2>1 DEF NewQueue
  <2>8. p0 \notin DOMAIN book[Contra(s0)]
    BY SidesDisjoint DEF BookInvariant
  <2>9. OthersSame(heap, heap', book, s0, p0)
    <3> SUFFICES ASSUME NEW s \in Side, NEW p \in DOMAIN book[s], ~(s = s0 /\ p = p0)
                 PROVE  QueueSum(heap', book[s][p]) = QueueSum(heap, book[s][p])
      BY DEF OthersSame
    <3>1. ~At(book, s, p, id)
      BY <1>2, <1>5 DEF OpenAt
    <3> HIDE DEF id
    <3> QED BY <1>1, <1>2, <3>1, OtherLevelSum DEF id
  <2> HIDE DEF q
  <2> QED BY <2>6, <2>7, <2>8, <2>9, OneLevelExact
<1> QED BY <1>6, <1>7

\* As long as no level's quantity reaches the width of totalQuantity.
NoLevelWraps ==
  \A s \in Side : \A p \in DOMAIN book[s] : QueuedQuantity(book[s][p]) < QMod

\* Booking the rest of an order keeps the level data exact.
LEMMA BookedExact ==
  ASSUME BookInvariant, LevelsExact(heap, book, levelData), FinishBooked,
         NoLevelWraps'
  PROVE  LevelsExact(heap', book', levelData')
<1> DEFINE s0 == heap[incoming].side
           p0 == heap[incoming].price
           q == QueueAt(book[s0], p0)
           r == PushBack(q, incoming)
<1>1. /\ GoodBook(book)
      /\ \A s \in Side : \A p, x : At(book, s, p, x) => OpenAt(x, s, p)
      /\ heap \in [OrderId -> Order] /\ heap' \in [OrderId -> Order]
      /\ IsMap(levelData, Price, LevelData)
      /\ Uncrossed' /\ TypeOK'
  BY IndexedFacts, FinishBookedInvariant DEF BookInvariant, TypeOK
<1>2. /\ incoming \in OrderId /\ s0 \in Side /\ p0 \in Price
      /\ remaining \in Nat /\ heap'[incoming].quantity = remaining
  BY BookAssumption DEF FinishBooked, BookInvariant, TypeOK, CallInProgress, Quantity, Order
<1>3. /\ ChangesOnly(heap, heap', incoming)
      /\ book' = SetLevel(book, s0, p0, r)
      /\ levelData' = updateLevelOnAdd(levelData, p0, remaining)
  BY <1>1 DEF FinishBooked, SetLevel, ChangesOnly
<1>4. \A s \in Side : \A p : ~At(book, s, p, incoming)
  BY <1>1 DEF OpenAt
<1> HIDE DEF s0, p0
<1>5. q \in Seq(OrderId) /\ NoRepeat(q) /\ \A i \in DOMAIN q : q[i] # incoming
  BY <1>1, <1>2, <1>4 DEF GoodBook, BookShape, IsMap, QueueAt, NoRepeat, At
<1> HIDE DEF q
<1>6. /\ r \in Seq(OrderId) /\ NoRepeat(r) /\ r # <<>>
      /\ Members(r) \ {incoming} = Members(q) /\ incoming \in Members(r)
      /\ Len(r) = Len(q) + 1
  <2>1. /\ r \in Seq(OrderId) /\ r # <<>> /\ NoRepeat(r)
        /\ \A j \in DOMAIN r : r[j] = incoming \/ \E i \in DOMAIN q : r[j] = q[i]
        /\ \A i \in DOMAIN q : \E j \in DOMAIN r : r[j] = q[i]
        /\ \E j \in DOMAIN r : r[j] = incoming
    BY <1>2, <1>5, PushBackOnce DEF PushBack
  <2>2. Len(r) = Len(q) + 1
    BY <1>2, <1>5, AppendProperties DEF PushBack
  <2> HIDE DEF r
  <2> QED BY <1>5, <2>1, <2>2 DEF Members
<1> HIDE DEF r
<1>7. NewQueue(book, book', s0, p0, r)
  BY <1>1, <1>2, <1>3, <1>6, WithQueueStep DEF NewQueue, GoodBook
<1>8. p0 \in DOMAIN book'[s0] /\ book'[s0][p0] = r
  BY <1>2, <1>6, <1>7 DEF NewQueue
<1>9. p0 \notin DOMAIN book[Contra(s0)]
  <2>1. Contra(s0) \in Side /\ Contra(s0) # s0
    BY <1>2 DEF Contra, Side
  <2>2. DOMAIN book[Contra(s0)] = DOMAIN book'[Contra(s0)]
    BY <1>7, <2>1 DEF NewQueue
  <2>3. p0 \in Int
    BY <1>2, BookAssumption
  <2> QED BY <1>1, <1>2, <1>8, <2>2, <2>3 DEF Uncrossed, Contra, Side
<1>10. QueueSum(heap', r) = QueueSum(heap, q) + remaining
  <2>1. QueueSum(heap', r) = heap'[incoming].quantity + QueueSum(heap', q)
    BY <1>1, <1>5, <1>6, QueueSumWithout
  <2>2. incoming \notin Members(q)
    BY <1>6
  <2>3. QueueSum(heap', q) = QueueSum(heap, q)
    BY <1>3, <1>5, <2>2, QueueSumChanged DEF ChangesOnly
  <2>4. QueueSum(heap, q) \in Nat
    BY <1>1, <1>5, QueueSumOfMembers
  <2> QED BY <1>2, <2>1, <2>3, <2>4
<1>11. QueueSum(heap', r) < QMod
  BY <1>1, <1>2, <1>8, QueuedIsSum DEF NoLevelWraps
<1>12. EntryFor(heap, levelData, p0, q)
  <2>1. CASE p0 \in DOMAIN book[s0]
    <3>1. q = book[s0][p0] /\ q # <<>> /\ p0 \in DOMAIN levelData
      BY <1>1, <1>2, <2>1 DEF q, QueueAt, GoodBook, LevelsExact, Side
    <3> QED BY <1>2, <2>1, <3>1 DEF EntryFor, LevelsExact
  <2>2. CASE p0 \notin DOMAIN book[s0]
    <3>1. q = <<>>
      BY <2>2 DEF q, QueueAt
    <3>2. p0 \notin DOMAIN levelData
      BY <1>2, <1>9, <2>2 DEF LevelsExact, Contra, Side
    <3> QED BY <3>1, <3>2 DEF EntryFor
  <2> QED BY <2>1, <2>2
<1>13. QueueSum(heap, q) \in Nat /\ (q = <<>> => QueueSum(heap, q) = 0)
  <2>1. QueueSum(heap, q) \in Nat /\ QueueSum(heap, q) = SumFunctionOnSet(QuantityIn(heap), Members(q))
    BY <1>1, <1>5, QueueSumOfMembers
  <2>2. q = <<>> => Members(q) = {}
    BY DEF Members
  <2> QED BY <2>1, <2>2, SumEmpty
<1>14. SameBut(levelData, levelData', p0) /\ EntryFor(heap', levelData', p0, r)
  BY <1>1, <1>2, <1>3, <1>5, <1>6, <1>10, <1>11, <1>12, <1>13, AddEntry
<1>15. OthersSame(heap, heap', book, s0, p0)
  BY <1>1, <1>3, <1>4, OtherLevelSum DEF OthersSame
<1> QED BY <1>2, <1>7, <1>9, <1>14, <1>15, OneLevelExact

\* LevelDataExact in the two states of a step.
LEMMA LevelsExactIs ==
  ASSUME TypeOK, TypeOK'
  PROVE  /\ LevelDataExact <=> LevelsExact(heap, book, levelData)
         /\ LevelDataExact' <=> LevelsExact(heap', book', levelData')
BY QueuedIsSum DEF LevelDataExact, LevelsExact

\* price_to_leveldata_ is exact in every state as long as no level has reached
\* the width of totalQuantity.
THEOREM LevelDataIsExact == Spec /\ []NoLevelWraps => []LevelDataExact
<1>1. Init => LevelDataExact
  BY DEF Init, LevelDataExact, Side
<1>2. BookInvariant /\ BookInvariant' /\ LevelDataExact /\ NoLevelWraps' /\ [Next]_vars
        => LevelDataExact'
  <2> SUFFICES ASSUME BookInvariant, LevelsExact(heap, book, levelData),
                      NoLevelWraps', [Next]_vars
               PROVE  LevelsExact(heap', book', levelData')
    BY LevelsExactIs DEF BookInvariant
  <2>1. /\ GoodBook(book) /\ heap \in [OrderId -> Order]
        /\ \A s \in Side : \A p, x : At(book, s, p, x) => OpenAt(x, s, p)
    BY IndexedFacts DEF BookInvariant, TypeOK
  <2>2. ASSUME NEW id \in OrderId, NEW side \in Side, NEW type \in OrderType,
               NEW price \in Price, NEW qty \in RequestQty,
               AddOrder(id, side, type, price, qty)
        PROVE  LevelsExact(heap', book', levelData')
    <3>1. book' = book /\ levelData' = levelData /\ heap[id].status = "DEFAULT"
      BY <2>2 DEF AddOrder
    <3>2. ChangesOnly(heap, heap', id)
      <4>1. heap' \in [OrderId -> Order]
        BY <2>2, AddOrderInvariant DEF BookInvariant, TypeOK
      <4> QED BY <2>1, <2>2, <4>1 DEF AddOrder, ChangesOnly
    <3>3. \A s \in Side : \A p : ~At(book, s, p, id)
      BY <2>1, <3>1 DEF OpenAt
    <3> QED BY <2>1, <3>1, <3>2, <3>3, HeapOnlyExact
  <2>3. ASSUME NEW id \in OrderId, NEW price \in Price, NEW qty \in RequestQty,
               ModifyOrder(id, price, qty)
        PROVE  LevelsExact(heap', book', levelData')
    <3>1. /\ incoming = None /\ id \in orders
          /\ book' = RemoveOrder(book, heap[id].side, heap[id].price, id)
          /\ levelData' = updateLevelOnFill(levelData, heap[id].price,
                                            heap[id].quantity, TRUE)
      BY <2>3 DEF ModifyOrder, RemoveOrder
    <3>2. ChangesOnly(heap, heap', id)
      <4>1. heap' \in [OrderId -> Order]
        BY <2>3, ModifyOrderInvariant DEF BookInvariant, TypeOK
      <4> QED BY <2>1, <2>3, <4>1 DEF ModifyOrder, ChangesOnly
    <3> QED BY <3>1, <3>2, RemoveOrderExact
  <2>4. ASSUME NEW id \in OrderId, CancelOrder(id)
        PROVE  LevelsExact(heap', book', levelData')
    <3>1. /\ incoming = None /\ id \in orders
          /\ book' = RemoveOrder(book, heap[id].side, heap[id].price, id)
          /\ levelData' = updateLevelOnFill(levelData, heap[id].price,
                                            heap[id].quantity, TRUE)
      BY <2>4 DEF CancelOrder, RemoveOrder
    <3>2. ChangesOnly(heap, heap', id)
      <4>1. heap' \in [OrderId -> Order]
        BY <2>4, CancelOrderInvariant DEF BookInvariant, TypeOK
      <4> QED BY <2>1, <2>4, <4>1 DEF CancelOrder, ChangesOnly
    <3> QED BY <3>1, <3>2, RemoveOrderExact
  <2>5. CASE matchAgainst
    BY <2>5, FillExact
  <2>6. CASE FinishTraded \/ FinishCancelled
    <3>1. book' = book /\ levelData' = levelData
      BY <2>6 DEF FinishTraded, FinishCancelled
    <3>2. ChangesOnly(heap, heap', incoming)
      <4>1. heap' \in [OrderId -> Order]
        BY <2>6, FinishClosedInvariant DEF BookInvariant, TypeOK
      <4> QED BY <2>1, <2>6, <4>1 DEF FinishTraded, FinishCancelled, ChangesOnly
    <3>3. \A s \in Side : \A p : ~At(book, s, p, incoming)
      BY <2>1 DEF OpenAt
    <3> QED BY <2>1, <3>1, <3>2, <3>3, HeapOnlyExact
  <2>7. CASE FinishBooked
    BY <2>7, BookedExact
  <2>8. CASE UNCHANGED vars
    BY <2>8 DEF vars
  <2> QED BY <2>2, <2>3, <2>4, <2>5, <2>6, <2>7, <2>8 DEF Next, Finish
<1> QED BY <1>1, <1>2, BookInvariantHolds, PTL DEF Spec

----------------------------------------------------------------------------
(* The quotes *)

FiniteLevels == \A s \in Side : IsFiniteSet(DOMAIN book[s])

\* A step opens at most one level.
LEMMA OneMoreLevel ==
  ASSUME BookInvariant, [Next]_vars
  PROVE  \E p : \A s \in Side : DOMAIN book'[s] \subseteq DOMAIN book[s] \cup {p}
<1>1. /\ GoodBook(book)
      /\ \A s \in Side : \A p, x : At(book, s, p, x) => OpenAt(x, s, p)
  BY IndexedFacts DEF BookInvariant
<1>2. CASE book' = book
  BY <1>2
<1>3. ASSUME NEW id \in orders, incoming = None,
             book' = RemoveOrder(book, heap[id].side, heap[id].price, id)
      PROVE  \A s \in Side : DOMAIN book'[s] \subseteq DOMAIN book[s]
  <2>1. heap[id].side \in Side /\ At(book, heap[id].side, heap[id].price, id)
    BY <1>3, IndexedFacts, BookAssumption DEF BookInvariant, TypeOK
  <2> QED BY <1>1, <1>3, <2>1, RemoveStep
<1>4. CASE \E id \in OrderId, price \in Price, qty \in RequestQty :
             ModifyOrder(id, price, qty)
  BY <1>3, <1>4 DEF ModifyOrder, RemoveOrder
<1>5. CASE \E id \in OrderId : CancelOrder(id)
  BY <1>3, <1>5 DEF CancelOrder, RemoveOrder
<1>6. CASE matchAgainst
  <2>1. PICK s0 \in Side :
          \E p0 \in DOMAIN book[s0] : \E executed \in Nat \ {0} : FillOf(s0, p0, executed)
    BY <1>6, MatchFill
  <2>2. PICK p0 \in DOMAIN book[s0], executed \in Nat \ {0} : FillOf(s0, p0, executed)
    BY <2>1
  <2>3. CASE book' = SetLevel(book, s0, p0, Tail(book[s0][p0]))
    <3>1. \A s \in Side : DOMAIN book'[s] \subseteq DOMAIN book[s]
      BY <1>1, <2>3, PopStep
    <3> QED BY <3>1
  <2> QED BY <1>2, <2>2, <2>3 DEF FillOf
<1>7. CASE FinishBooked
  <2> DEFINE s0 == heap[incoming].side
             p0 == heap[incoming].price
  <2>1. /\ incoming \in OrderId /\ s0 \in Side /\ p0 \in Price
        /\ book' = SetLevel(book, s0, p0, PushBack(QueueAt(book[s0], p0), incoming))
    BY <1>7 DEF FinishBooked, SetLevel, BookInvariant, TypeOK, CallInProgress
  <2>2. ~At(book, s0, p0, incoming)
    BY <1>1, <2>1 DEF OpenAt
  <2> HIDE DEF s0, p0
  <2>3. \A s \in Side : \A p : p \in DOMAIN book'[s] <=>
          p \in DOMAIN book[s] \/ (s = s0 /\ p = p0)
    BY <1>1, <2>1, <2>2, PushStep
  <2> QED BY <2>3
<1> QED BY <1>2, <1>4, <1>5, <1>6, <1>7
      DEF Next, AddOrder, Finish, FinishTraded, FinishCancelled, vars

\* The price maps stay finite.
LEMMA LevelsFinite == Spec => []FiniteLevels
<1>1. Init => FiniteLevels
  BY FS_EmptySet DEF Init, FiniteLevels
<1>2. BookInvariant /\ FiniteLevels /\ [Next]_vars => FiniteLevels'
  <2> SUFFICES ASSUME BookInvariant, FiniteLevels, [Next]_vars, NEW s \in Side
               PROVE  IsFiniteSet(DOMAIN book'[s])
    BY DEF FiniteLevels
  <2>1. PICK p : DOMAIN book'[s] \subseteq DOMAIN book[s] \cup {p}
    BY OneMoreLevel
  <2>2. IsFiniteSet(DOMAIN book[s] \cup {p})
    BY FS_AddElement DEF FiniteLevels
  <2> QED BY <2>1, <2>2, FS_Subset
<1> QED BY <1>1, <1>2, BookInvariantHolds, PTL DEF Spec

\* A side with a level has a best one.
LEMMA BestExists ==
  ASSUME BookInvariant, FiniteLevels, NEW s \in Side, DOMAIN book[s] # {}
  PROVE  \E p \in DOMAIN book[s] : IsBest(s, p)
<1> DEFINE D == DOMAIN book[s]
<1>1. D \in SUBSET Int /\ IsFiniteSet(D) /\ D # {}
  BY BookAssumption DEF BookInvariant, TypeOK, IsMap, FiniteLevels
<1>2. PICK hi \in D : \A x \in D : x <= hi
  <2> HIDE DEF D
  <2> QED BY <1>1, Extremes
<1>3. PICK lo \in D : \A x \in D : lo <= x
  <2> HIDE DEF D
  <2> QED BY <1>1, Extremes
<1>4. CASE s = "BUY"
  <2>1. \A x \in D : ~(x > hi)
    BY <1>1, <1>2
  <2> QED BY <1>4, <2>1 DEF IsBest, Better
<1>5. CASE s = "SELL"
  <2>1. \A x \in D : ~(x < lo)
    BY <1>1, <1>3
  <2> QED BY <1>5, <2>1 DEF IsBest, Better
<1> QED BY <1>4, <1>5 DEF Side

\* The orders with the best price of a side are those queued at its best level.
LEMMA BestRestingQueued ==
  ASSUME BookInvariant, NEW s \in Side, NEW p \in DOMAIN book[s], IsBest(s, p)
  PROVE  /\ BestResting(s) = Members(book[s][p])
         /\ \A id \in BestResting(s) : heap[id].price = p
<1>1. /\ GoodBook(book)
      /\ \A t \in Side : \A q, x : At(book, t, q, x) => OpenAt(x, t, q)
      /\ \A x \in orders : x # incoming => At(book, heap[x].side, heap[x].price, x)
  BY IndexedFacts DEF BookInvariant
<1>2. \A x : x \in Members(book[s][p]) <=> At(book, s, p, x)
  BY DEF At, Members
<1>3. \A q \in DOMAIN book[s] : q \in Int
  BY BookAssumption DEF BookInvariant, TypeOK, IsMap
<1>4. \A x \in Resting(s) : At(book, s, heap[x].price, x) /\ heap[x].price \in DOMAIN book[s]
  BY <1>1 DEF Resting, At
<1>5. \A q, x : At(book, s, q, x) => x \in Resting(s) /\ heap[x].price = q
  BY <1>1 DEF Resting, OpenAt
<1>6. ASSUME NEW x, At(book, s, p, x)
      PROVE  x \in BestResting(s)
  BY <1>4, <1>5, <1>6 DEF BestResting, IsBest
<1>7. ASSUME NEW x \in BestResting(s)
      PROVE  heap[x].price = p
  <2>1. PICK y : At(book, s, p, y)
    <3>1. book[s][p] \in Seq(OrderId) /\ book[s][p] # <<>>
      BY <1>1 DEF GoodBook, BookShape, IsMap
    <3>2. 1 \in DOMAIN book[s][p]
      BY <3>1
    <3> QED BY <3>2 DEF At
  <2>2. y \in Resting(s) /\ heap[y].price = p
    BY <1>5, <2>1
  <2>3. x \in Resting(s) /\ heap[x].price \in DOMAIN book[s]
    BY <1>4 DEF BestResting
  <2>4. ~Better(s, p, heap[x].price) /\ ~Better(s, heap[x].price, p)
    BY <2>2, <2>3 DEF BestResting, IsBest
  <2>5. p \in Int /\ heap[x].price \in Int
    BY <1>3, <2>3
  <2> QED BY <2>4, <2>5 DEF Better
<1>8. \A x \in BestResting(s) : At(book, s, p, x)
  BY <1>4, <1>7 DEF BestResting
<1> QED BY <1>2, <1>6, <1>7, <1>8

\* QuoteExact, side by side.
QuoteOf(s) ==
  LET q == GetBest(s)
  IN  /\ q.found <=> Resting(s) # {}
      /\ q.found => /\ q.qty = SumFunctionOnSet(QuantityIn(heap), BestResting(s))
                    /\ \A id \in BestResting(s) : heap[id].price = q.price

\* GetBestBid and GetBestAsk find a quote exactly when the side has an order,
\* and it is the best price with all that rests there, in every state up to
\* which no level has reached the width of a quantity.
THEOREM QuotesAreExact == Spec /\ []NoLevelWraps => []QuoteExact
<1>1. BookInvariant /\ FiniteLevels /\ NoLevelWraps => QuoteExact
  <2> SUFFICES ASSUME BookInvariant, FiniteLevels, NoLevelWraps, NEW s \in Side
               PROVE  QuoteOf(s)
    BY DEF QuoteExact, QuoteOf, QuantityIn
  <2>1. /\ GoodBook(book) /\ heap \in [OrderId -> Order]
        /\ \A t \in Side : \A q, x : At(book, t, q, x) => OpenAt(x, t, q)
        /\ \A x \in orders : x # incoming =>
             At(book, heap[x].side, heap[x].price, x) /\ heap[x].side \in Side
    BY IndexedFacts DEF BookInvariant, TypeOK
  <2>2. CASE DOMAIN book[s] = {}
    <3>1. Resting(s) = {}
      BY <2>1, <2>2 DEF Resting, At
    <3>2. GetBest(s).found = FALSE
      BY <2>2 DEF GetBest
    <3> QED BY <3>1, <3>2 DEF QuoteOf
  <2>3. CASE DOMAIN book[s] # {}
    <3> DEFINE p == CHOOSE x \in DOMAIN book[s] : IsBest(s, x)
               n == QueueSum(heap, book[s][p])
    <3>1. p \in DOMAIN book[s] /\ IsBest(s, p)
      BY <2>3, BestExists
    <3>2. /\ QueuedQuantity(book[s][p]) = n
          /\ GetBest(s) = [found |-> n % QMod > 0, price |-> p, qty |-> n % QMod]
      <4>1. QueuedQuantity(book[s][p]) = n
        BY <3>1, QueuedIsSum DEF BookInvariant
      <4> QED BY <2>3, <4>1 DEF GetBest
    <3> HIDE DEF p
    <3>3. /\ BestResting(s) = Members(book[s][p])
          /\ \A id \in BestResting(s) : heap[id].price = p
      BY <3>1, BestRestingQueued
    <3>4. book[s][p] \in Seq(OrderId) /\ NoRepeat(book[s][p]) /\ book[s][p] # <<>>
      BY <2>1, <3>1 DEF GoodBook, BookShape, IsMap
    <3>5. PICK id \in Members(book[s][p]) : heap[id].quantity > 0 /\ id \in Resting(s)
      <4>1. 1 \in DOMAIN book[s][p]
        BY <3>4
      <4>2. PICK id : id = book[s][p][1]
        OBVIOUS
      <4>3. id \in Members(book[s][p]) /\ At(book, s, p, id)
        BY <3>1, <4>1, <4>2 DEF Members, At
      <4> QED BY <2>1, <4>3 DEF OpenAt, Resting
    <3>6. n = SumFunctionOnSet(QuantityIn(heap), BestResting(s)) /\ n \in Nat
      BY <2>1, <3>3, <3>4, QueueSumOfMembers
    <3>7. n < QMod /\ n > 0
      <4>1. n < QMod
        BY <3>1, <3>2 DEF NoLevelWraps
      <4>2. heap[id].quantity \in Nat /\ heap[id].quantity <= n
        BY <2>1, <3>4, <3>5, QueueSumAtLeast, BookAssumption DEF Order, Quantity
      <4> HIDE DEF n
      <4> QED BY <3>5, <3>6, <4>1, <4>2
    <3> HIDE DEF n
    <3>8. n % QMod = n /\ (n > 0) = TRUE
      BY <3>6, <3>7, BookAssumption
    <3>9. GetBest(s) = [found |-> TRUE, price |-> p, qty |-> n]
      BY <3>2, <3>8
    <3> QED BY <3>3, <3>5, <3>6, <3>9 DEF QuoteOf
  <2> QED BY <2>2, <2>3
<1> QED BY <1>1, BookInvariantHolds, LevelsFinite, PTL
=============================================================================
