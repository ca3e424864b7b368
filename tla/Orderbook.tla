----------------------------- MODULE Orderbook -----------------------------
(***************************************************************************)
(* The central limit order book (include/Orderbook.h, src/Orderbook.cpp):  *)
(* two price-sorted maps of FIFO queues, an index of live orders and the   *)
(* per-price aggregates.                                                   *)
(*                                                                         *)
(* Only the matching thread touches the book.  A call of addToBook is one  *)
(* start step (AddOrder or ModifyOrder), one matchAgainst step for each    *)
(* iteration of the inner matching loop, and one Finish step; no other     *)
(* operation can start in between because `incoming` names the order whose *)
(* call is in progress.                                                    *)
(***************************************************************************)
EXTENDS Integers, Sequences, SequencesExt

CONSTANTS
  OrderId,   \* ids the matching engine hands out
  Price,     \* prices a request may carry (int32 in the code, may be <= 0)
  QMod,      \* 2^32 in the code: Quantity is an unsigned integer below it
  RequestQty, \* quantities of the orders that reach the book: the engine
             \* rejects a request for zero
  None       \* no call in progress

ASSUME BookAssumption ==
  /\ Price \subseteq Int
  /\ QMod \in Nat \ {0}
  /\ RequestQty \subseteq 1 .. QMod - 1
  /\ None \notin OrderId

Quantity == 0 .. QMod - 1
Side     == {"BUY", "SELL"}
OrderType == {"LIMIT", "IOC", "MARKET"}

Order == [price: Int, quantity: Quantity, type: OrderType \cup {"DEFAULT"},
          side: Side \cup {"DEFAULT"},
          status: {"DEFAULT", "NEW", "MODIFY", "TRADED", "CANCELLED"}]

Trade == [buyOrderId: OrderId, sellOrderId: OrderId, price: Int,
          quantity: Quantity, tradeType: {"PARTIAL", "FULL"}]

LevelData == [totalQuantity: Quantity, numberOfOrders: Nat]

\* f is a C++ map from K to V: a function on the keys that are present.
IsMap(f, K, V) == DOMAIN f \subseteq K /\ f \in [DOMAIN f -> V]

VARIABLES
  heap,         \* the Order objects, by id (status DEFAULT: not created yet)
  book,         \* book["BUY"] is bids_, book["SELL"] is asks_
  orders,       \* keys of orders_
  levelData,    \* price_to_leveldata_, shared by both sides
  trades,       \* trades of the last AddOrder/ModifyOrder
  incoming,     \* the order addToBook is working on, or None
  remaining,    \* addToBook's local `remaining`
  originalQuantity

vars == <<heap, book, orders, levelData, trades, incoming, remaining,
          originalQuantity>>

----------------------------------------------------------------------------
(* Price levels *)

Contra(side) == IF side = "BUY" THEN "SELL" ELSE "BUY"

\* The maps' comparators: std::greater for bids_, std::less for asks_.
Better(side, p, q) == IF side = "BUY" THEN p > q ELSE p < q

\* Mutant: the key at rbegin().
IsWorst(side, p) ==
  /\ p \in DOMAIN book[side]
  /\ \A q \in DOMAIN book[side] : ~Better(side, p, q)

\* p is the key at begin() of the side's map.
IsBest(side, p) ==
  /\ p \in DOMAIN book[side]
  /\ \A q \in DOMAIN book[side] : ~Better(side, q, p)

\* Mutant: equal prices do not trade.
priceCrossedStrict(incomingPrice, restingPrice, side, type) ==
  \/ type \in {"MARKET", "IOC"}
  \/ side = "BUY" /\ incomingPrice > restingPrice
  \/ side = "SELL" /\ incomingPrice < restingPrice

\* Mutant: the limit is compared the same way for both sides.
priceCrossedOneSided(incomingPrice, restingPrice, side, type) ==
  type \in {"MARKET", "IOC"} \/ incomingPrice >= restingPrice

priceCrossed(incomingPrice, restingPrice, side, type) ==
  \/ type \in {"MARKET", "IOC"}
  \/ side = "BUY" /\ incomingPrice >= restingPrice
  \/ side = "SELL" /\ incomingPrice <= restingPrice

QueueAt(levels, p) == IF p \in DOMAIN levels THEN levels[p] ELSE <<>>

\* Mutant: a level whose queue runs empty stays in the map.
WithQueueKept(levels, p, q) ==
  [x \in DOMAIN levels \cup {p} |-> IF x = p THEN q ELSE levels[x]]

\* The level at p gets the queue q; a level whose queue runs empty is erased.
WithQueue(levels, p, q) ==
  IF q = <<>>
    THEN Restrict(levels, DOMAIN levels \ {p})
    ELSE [x \in DOMAIN levels \cup {p} |-> IF x = p THEN q ELSE levels[x]]

updateLevelOnAdd(data, p, qty) ==
  LET old == IF p \in DOMAIN data THEN data[p]
             ELSE [totalQuantity |-> 0, numberOfOrders |-> 0]
  IN  [x \in DOMAIN data \cup {p} |->
         IF x = p
           THEN [totalQuantity  |-> (old.totalQuantity + qty) % QMod,
                 numberOfOrders |-> old.numberOfOrders + 1]
           ELSE data[x]]

\* Mutant: the count of orders is left alone.
updateLevelOnFillSumOnly(data, p, qty, orderClosed) ==
  IF p \notin DOMAIN data THEN data
  ELSE IF data[p].totalQuantity <= qty
    THEN Restrict(data, DOMAIN data \ {p})
    ELSE [data EXCEPT ![p].totalQuantity = @ - qty]

updateLevelOnFill(data, p, qty, orderClosed) ==
  IF qty = 0 \/ p \notin DOMAIN data THEN data
  ELSE LET total  == IF data[p].totalQuantity <= qty THEN 0
                     ELSE data[p].totalQuantity - qty
           number == IF orderClosed /\ data[p].numberOfOrders > 0
                       THEN data[p].numberOfOrders - 1
                       ELSE data[p].numberOfOrders
       IN  IF total = 0 \/ number = 0
             THEN Restrict(data, DOMAIN data \ {p})
             ELSE [data EXCEPT ![p] = [totalQuantity  |-> total,
                                       numberOfOrders |-> number]]

removeOrderFromBook(levels, p, id) ==
  IF p \in DOMAIN levels
    THEN WithQueue(levels, p, RemoveFirst(levels[p], id))
    ELSE levels

----------------------------------------------------------------------------
(* Operations *)

Init ==
  /\ heap = [id \in OrderId |-> [price |-> 0, quantity |-> 0,
                                 type |-> "DEFAULT", side |-> "DEFAULT",
                                 status |-> "DEFAULT"]]
  /\ book = [s \in Side |-> [p \in {} |-> <<>>]]
  /\ orders = {}
  /\ levelData = [p \in {} |-> <<>>]
  /\ trades = <<>>
  /\ incoming = None
  /\ remaining = 0
  /\ originalQuantity = 0

\* Mutant: the trades of the previous call stay.
addToBookKeepTrades(id, qty) ==
  /\ incoming' = id
  /\ remaining' = qty
  /\ originalQuantity' = qty
  /\ UNCHANGED trades

\* Entry of addToBook: trades.clear() and the two local quantities.
addToBook(id, qty) ==
  /\ trades' = <<>>
  /\ incoming' = id
  /\ remaining' = qty
  /\ originalQuantity' = qty

\* A new order object is handed to the book.
AddOrder(id, side, type, price, qty) ==
  /\ incoming = None
  /\ heap[id].status = "DEFAULT"
  /\ heap' = [heap EXCEPT ![id] = [price |-> price, quantity |-> qty,
                                   type |-> type, side |-> side,
                                   status |-> "NEW"]]
  /\ addToBook(id, qty)
  /\ UNCHANGED <<book, orders, levelData>>

\* The order leaves its level but keeps its entry in orders_ while it is
\* matched again.  For an id that is not in orders_, and for an unchanged price
\* and quantity, the code returns early and nothing changes.
ModifyOrder(id, newPrice, newQuantity) ==
  LET o == heap[id] IN
  /\ incoming = None
  /\ id \in orders
  /\ o.price # newPrice \/ o.quantity # newQuantity
  /\ levelData' = updateLevelOnFill(levelData, o.price, o.quantity, TRUE)
  /\ book' = [book EXCEPT ![o.side] = removeOrderFromBook(@, o.price, id)]
  /\ heap' = [heap EXCEPT ![id] = [o EXCEPT !.price = newPrice,
                                            !.quantity = newQuantity,
                                            !.status = "MODIFY"]]
  /\ addToBook(id, newQuantity)
  /\ UNCHANGED orders

\* Mutant: the order keeps its entry in orders_.
CancelOrderKeepIndex(id) ==
  LET o == heap[id] IN
  /\ incoming = None
  /\ id \in orders
  /\ levelData' = updateLevelOnFill(levelData, o.price, o.quantity, TRUE)
  /\ book' = [book EXCEPT ![o.side] = removeOrderFromBook(@, o.price, id)]
  /\ heap' = [heap EXCEPT ![id] = [o EXCEPT !.quantity = 0,
                                            !.status = "CANCELLED"]]
  /\ UNCHANGED <<orders, trades, incoming, remaining, originalQuantity>>

CancelOrder(id) ==
  LET o == heap[id] IN
  /\ incoming = None
  /\ id \in orders
  /\ levelData' = updateLevelOnFill(levelData, o.price, o.quantity, TRUE)
  /\ book' = [book EXCEPT ![o.side] = removeOrderFromBook(@, o.price, id)]
  /\ heap' = [heap EXCEPT ![id] = [o EXCEPT !.quantity = 0,
                                            !.status = "CANCELLED"]]
  /\ orders' = orders \ {id}
  /\ UNCHANGED <<trades, incoming, remaining, originalQuantity>>

\* Mutant: all that rests is executed, however little comes in.
ExecutedAll(incomingQty, restingQty) == restingQty

\* std::min of the two quantities.
Executed(incomingQty, restingQty) ==
  IF incomingQty <= restingQty THEN incomingQty ELSE restingQty

\* What Order::reduceQuantity leaves of a quantity: it takes off no more than
\* there is.
reduceQuantity(quantity, delta) ==
  quantity - (IF quantity <= delta THEN quantity ELSE delta)

\* One fill: the order at the front of the best contra level trades at its
\* own price, and leaves the book when it is filled.
Execute(id, p, resting) ==
  LET side     == heap[id].side
      contra   == Contra(side)
      executed == Executed(remaining, heap[resting].quantity)
      left     == reduceQuantity(heap[resting].quantity, executed)
      closed   == left = 0
  IN
  /\ remaining' = remaining - executed
  /\ heap' = [heap EXCEPT
                ![resting].quantity = left,
                ![resting].status = IF closed THEN "TRADED" ELSE "MODIFY"]
  /\ levelData' = updateLevelOnFill(levelData, p, executed, closed)
  /\ trades' = Append(trades,
       [buyOrderId  |-> IF side = "BUY" THEN id ELSE resting,
        sellOrderId |-> IF side = "SELL" THEN id ELSE resting,
        price       |-> p,
        quantity    |-> executed,
        tradeType   |-> IF closed /\ remaining' = 0 THEN "FULL" ELSE "PARTIAL"])
  /\ IF closed
       THEN /\ book' = [book EXCEPT ![contra] = WithQueue(@, p, Tail(@[p]))]
            /\ orders' = orders \ {resting}
       ELSE UNCHANGED <<book, orders>>
  /\ UNCHANGED <<incoming, originalQuantity>>

matchAgainst ==
  /\ incoming # None
  /\ remaining > 0
  /\ LET o == heap[incoming] IN
     \E p \in DOMAIN book[Contra(o.side)] :
       /\ IsBest(Contra(o.side), p)
       /\ priceCrossed(o.price, p, o.side, o.type)
       /\ Execute(incoming, p, Head(book[Contra(o.side)][p]))

\* The matching loop is left: nothing remains, the contra side is empty, or
\* its best price does not cross.
LoopDone ==
  LET o == heap[incoming]
      contra == Contra(o.side)
  IN  \/ remaining = 0
      \/ DOMAIN book[contra] = {}
      \/ \E p \in DOMAIN book[contra] :
           IsBest(contra, p) /\ ~priceCrossed(o.price, p, o.side, o.type)

\* Mutant: push_front instead of push_back.
PushFront(queue, id) == <<id>> \o queue

\* push_back of a booked order.
PushBack(queue, id) == Append(queue, id)

Return ==
  /\ incoming' = None
  /\ remaining' = 0
  /\ originalQuantity' = 0
  /\ UNCHANGED trades

FinishTraded ==
  /\ incoming # None
  /\ LoopDone
  /\ remaining = 0
  /\ heap' = [heap EXCEPT ![incoming] = [@ EXCEPT !.quantity = 0,
                                                  !.status = "TRADED"]]
  /\ orders' = orders \ {incoming}
  /\ Return
  /\ UNCHANGED <<book, levelData>>

\* isAggressiveOrder: what a MARKET or IOC order could not trade is dropped.
FinishCancelled ==
  /\ incoming # None
  /\ LoopDone
  /\ remaining > 0
  /\ heap[incoming].type \in {"MARKET", "IOC"}
  /\ heap' = [heap EXCEPT ![incoming] = [@ EXCEPT !.quantity = 0,
                                                  !.status = "CANCELLED"]]
  /\ Return
  /\ UNCHANGED <<book, orders, levelData>>

FinishBooked ==
  LET o == heap[incoming] IN
  /\ incoming # None
  /\ LoopDone
  /\ remaining > 0
  /\ o.type \notin {"MARKET", "IOC"}
  /\ heap' = [heap EXCEPT ![incoming] =
                [o EXCEPT !.quantity = remaining,
                          !.status = IF remaining < originalQuantity
                                       THEN "MODIFY" ELSE @]]
  /\ book' = [book EXCEPT ![o.side] =
                WithQueue(@, o.price, PushBack(QueueAt(@, o.price), incoming))]
  /\ levelData' = updateLevelOnAdd(levelData, o.price, remaining)
  /\ orders' = orders \cup {incoming}
  /\ Return

Finish == FinishTraded \/ FinishCancelled \/ FinishBooked

Next ==
  \/ \E id \in OrderId, side \in Side, type \in OrderType, price \in Price,
        qty \in RequestQty : AddOrder(id, side, type, price, qty)
  \/ \E id \in OrderId, price \in Price, qty \in RequestQty :
        ModifyOrder(id, price, qty)
  \/ \E id \in OrderId : CancelOrder(id)
  \/ matchAgainst
  \/ Finish

Spec == Init /\ [][Next]_vars

----------------------------------------------------------------------------
(* Queries *)

\* Sum of the quantities queued at a level, as the code adds them up
\* (unsigned arithmetic wraps around at QMod).
QueuedQuantity(queue) ==
  LET total[i \in 0 .. Len(queue)] ==
        IF i = 0 THEN 0 ELSE total[i - 1] + heap[queue[i]].quantity
  IN  total[Len(queue)]

\* Mutant: the worst level is quoted.
GetBestRbegin(side) ==
  IF DOMAIN book[side] = {}
    THEN [found |-> FALSE, price |-> 0, qty |-> 0]
    ELSE LET p   == CHOOSE x \in DOMAIN book[side] : IsWorst(side, x)
             qty == QueuedQuantity(book[side][p]) % QMod
         IN  [found |-> qty > 0, price |-> p, qty |-> qty]

\* GetBestBid / GetBestAsk: `found` is the returned flag.
GetBest(side) ==
  IF DOMAIN book[side] = {}
    THEN [found |-> FALSE, price |-> 0, qty |-> 0]
    ELSE LET p   == CHOOSE x \in DOMAIN book[side] : IsBest(side, x)
             qty == QueuedQuantity(book[side][p]) % QMod
         IN  [found |-> qty > 0, price |-> p, qty |-> qty]

----------------------------------------------------------------------------
(* Properties *)

\* Every variable has its type; in particular no quantity ever leaves the
\* range of an unsigned integer when fills are subtracted.
TypeOK ==
  /\ heap \in [OrderId -> Order]
  /\ book = [s \in Side |-> book[s]]
  /\ \A s \in Side : IsMap(book[s], Price, Seq(OrderId))
  /\ orders \in SUBSET OrderId
  /\ IsMap(levelData, Price, LevelData)
  /\ trades \in Seq(Trade)
  /\ incoming \in OrderId \cup {None}
  /\ remaining \in Quantity
  /\ originalQuantity \in Quantity

\* The order rests in some queue.
Queued(id) ==
  \E s \in Side : \E p \in DOMAIN book[s] : \E i \in DOMAIN book[s][p] :
    book[s][p][i] = id

QueuedOrdersAreLive ==
  \A s \in Side : \A p \in DOMAIN book[s] : \A i \in DOMAIN book[s][p] :
    LET id == book[s][p][i] IN
      /\ id \in orders /\ id # incoming
      /\ heap[id].side = s /\ heap[id].price = p
      /\ heap[id].quantity > 0 /\ heap[id].type = "LIMIT"
      /\ heap[id].status \in {"NEW", "MODIFY"}

LiveOrdersAreQueued ==
  \A id \in orders : id = incoming \/ Queued(id)

NoOrderQueuedTwice ==
  \A s \in Side : \A p \in DOMAIN book[s] :
    \A i, j \in DOMAIN book[s][p] : book[s][p][i] = book[s][p][j] => i = j

NoEmptyLevel ==
  \A s \in Side : \A p \in DOMAIN book[s] : book[s][p] # <<>>

\* orders_ and the two price maps describe the same set of resting orders:
\* every queued order is indexed, open and filed under its own side and price,
\* every indexed order is queued exactly once, and no level is empty.  All of
\* matchAgainst, ModifyOrder and CancelOrder must keep the containers in step.
BookIndexed ==
  /\ QueuedOrdersAreLive
  /\ LiveOrdersAreQueued
  /\ NoOrderQueuedTwice
  /\ NoEmptyLevel

\* The book is never crossed or locked, not even in the middle of a matching
\* loop: the best bid stays below the best ask (addToBook matches before it
\* books).
Uncrossed ==
  \A b \in DOMAIN book["BUY"], a \in DOMAIN book["SELL"] : b < a

\* price_to_leveldata_, one map for both sides and maintained incrementally,
\* agrees with the queues: it has an entry exactly where a queue is, with the
\* queue's total quantity and length.  (True as long as no sum reaches QMod:
\* updateLevelOnFill erases the entry of a level whose wrapped total is no more
\* than the fill.)
LevelDataExact ==
  /\ DOMAIN levelData = DOMAIN book["BUY"] \cup DOMAIN book["SELL"]
  /\ \A s \in Side : \A p \in DOMAIN book[s] :
       /\ levelData[p].totalQuantity = QueuedQuantity(book[s][p])
       /\ levelData[p].numberOfOrders = Len(book[s][p])

\* While addToBook runs, the trades it has recorded account for exactly the
\* quantity the incoming order has lost; trades of an earlier call are gone.
TradesAccountForFill ==
  incoming # None =>
    SumFunction([i \in DOMAIN trades |-> trades[i].quantity])
      = originalQuantity - remaining

\* Orders that rest on a side, and those of them at its best price.
Resting(s) == {id \in orders : id # incoming /\ heap[id].side = s}

BestResting(s) ==
  {id \in Resting(s) : \A other \in Resting(s) : ~Better(s, heap[other].price, heap[id].price)}

\* GetBestBid and GetBestAsk return true exactly when the side has an order
\* (include/Orderbook.h:118, :124), and then the best price with the whole
\* quantity that rests there, whatever history led to the book.  Like
\* LevelDataExact, this is true as long as no sum reaches QMod.
QuoteExact ==
  \A s \in Side :
    LET q == GetBest(s) IN
    /\ q.found <=> Resting(s) # {}
    /\ q.found =>
         /\ q.qty = SumFunctionOnSet([id \in OrderId |-> heap[id].quantity], BestResting(s))
         /\ \A id \in BestResting(s) : heap[id].price = q.price

\* What include/Orderbook.h:118 and :124 say of the returned flag without a
\* condition: it is true if a bid, or an ask, exists.
QuoteWhenOrderExists ==
  \A s \in Side : Resting(s) # {} => GetBest(s).found

\* The price of an IOC order is a limit: include/Orderbook.h:36 lets only a
\* market order match at any price, and the client asks for a price for limit
\* and IOC orders (cpp_client/src/main.cpp:46).
IocPriceRespected ==
  incoming # None /\ heap[incoming].type = "IOC" =>
    \A i \in DOMAIN trades :
      ~Better(Contra(heap[incoming].side), heap[incoming].price, trades[i].price)

\* a is ahead of b in the queue of one level.
Ahead(a, b) ==
  \E s \in Side : \E p \in DOMAIN book[s] : \E i, j \in DOMAIN book[s][p] :
    i < j /\ book[s][p][i] = a /\ book[s][p][j] = b

\* Time priority survives every operation: orders that stay queued keep their
\* relative order, and an order that enters a level enters behind all others.
TimePriorityKept ==
  [][\A a, b \in OrderId :
       Queued(b) /\ Ahead(a, b)' => Ahead(a, b)]_vars

\* Price-time priority of fills: when a resting order loses quantity to an
\* incoming one, no order of its side rests at a better price, and none at
\* the same price is ahead of it.
FillsFollowPriority ==
  [][\A id \in OrderId \ {incoming} :
       incoming # None /\ heap'[id].quantity < heap[id].quantity =>
         /\ \A p \in DOMAIN book[heap[id].side] :
              ~Better(heap[id].side, p, heap[id].price)
         /\ ~\E other \in OrderId : Ahead(other, id)]_vars

\* An order that is TRADED or CANCELLED is never traded, modified or cancelled
\* again, and never comes back to the book.
ClosedIsFinal ==
  [][\A id \in OrderId :
       heap[id].status \in {"TRADED", "CANCELLED"} => heap'[id] = heap[id]]_vars

\* A limit order trades only at its own limit or better, whether it came in by
\* AddOrder or by ModifyOrder.
LimitRespected ==
  [][incoming # None /\ heap[incoming].type = "LIMIT"
       /\ Len(trades') > Len(trades) =>
         ~Better(Contra(heap[incoming].side), heap[incoming].price,
                 Last(trades').price)]_vars
=============================================================================
