--------------------------- MODULE MatchingEngine ---------------------------
(***************************************************************************)
(* The matching engine (include/MatchingEngine.h, src/MatchingEngine.cpp)  *)
(* on top of the order book: validation, order ownership, responses to the *)
(* outbound queue and market data to the feed queue.                       *)
(*                                                                         *)
(* The matching thread pops one request at a time.  A handler that does    *)
(* not match is one step.  A handler that calls addToBook is the step that *)
(* starts the call, the book's matching steps, and one step that ends the  *)
(* call and runs the rest of the handler; `request` is the request being   *)
(* handled in between.  orderToClientOrderId_ is left out: it is written   *)
(* and erased together with orderToSession_ and never read.  So are the    *)
(* statistics ordersProcessed_ and tradesExecuted_.                        *)
(***************************************************************************)
EXTENDS Integers, Sequences, SequencesExt

CONSTANTS
  MaxOrders,        \* bound: orders accepted in a behaviour
  Session,          \* sessions that send requests
  DUMMY_SESSION_ID, \* the session of the dummy generator, one of Session
  RequestSide, RequestType, RequestPrice, RequestQuantity,
                    \* field values of requests, invalid ones included
  QMod,             \* 2^32 in the code
  None

OrderId == 1 .. MaxOrders
Request == [type: {"NEW", "MODIFY"}, session: Session, id: OrderId]

ASSUME EngineAssumption ==
  /\ MaxOrders \in Nat
  /\ DUMMY_SESSION_ID \in Session
  /\ RequestPrice \subseteq Int
  /\ QMod \in Nat \ {0}
  /\ RequestQuantity \subseteq 0 .. QMod - 1
  /\ None \notin OrderId \cup Request

VARIABLES
  heap, book, orders, levelData, trades, incoming, remaining, originalQuantity,
  nextOrderId, nextTradeId,
  orderToSession,  \* tracked orders and their owners
  sessionOrders,   \* the same relation by session
  lastTrade,       \* lastTradePrice_ and lastTradeQty_
  request,         \* the new-order or modify request in progress, or None
  out,             \* responses pushed by the last handler
  feed             \* market data pushed by the last handler that published any

bookVars == <<heap, book, orders, levelData, trades, incoming, remaining,
              originalQuantity>>
trackVars == <<nextOrderId, orderToSession, sessionOrders>>
vars == <<bookVars, trackVars, nextTradeId, lastTrade, request, out, feed>>

\* orderbook_.  Only quantities that pass validation may reach it.
OB == INSTANCE Orderbook WITH Price <- RequestPrice,
                              RequestQty <- RequestQuantity \ {0}

Init ==
  /\ OB!Init
  /\ nextOrderId = 1
  /\ nextTradeId = 1
  /\ orderToSession = [id \in {} |-> DUMMY_SESSION_ID]
  /\ sessionOrders = [s \in Session |-> {}]
  /\ lastTrade = [price |-> 0, qty |-> 0]
  /\ request = None
  /\ out = <<>>
  /\ feed = <<>>

----------------------------------------------------------------------------
(* Messages.  Fields that only echo the request are left out. *)

OrderReject(s, reason) ==
  [type |-> "ORDER_REJECT", session |-> s, reason |-> reason]
OrderAck(s, id, status) ==
  [type |-> "ORDER_ACK", session |-> s, orderId |-> id, status |-> status]
CancelReject(s, reason) ==
  [type |-> "CANCEL_REJECT", session |-> s, reason |-> reason]
CancelAck(s, id) ==
  [type |-> "CANCEL_ACK", session |-> s, orderId |-> id]
ModifyReject(s, reason) ==
  [type |-> "MODIFY_REJECT", session |-> s, reason |-> reason]
ModifyAck(s, id) ==
  [type |-> "MODIFY_ACK", session |-> s, orderId |-> id]
ExecutionReport(s, id, tradeId, price, qty, leaves, side) ==
  [type |-> "EXECUTION_REPORT", session |-> s, orderId |-> id,
   tradeId |-> tradeId, execPrice |-> price, execQty |-> qty,
   leavesQty |-> leaves, side |-> side]
TradeUpdate(tradeId, t, side) ==
  [type |-> "TRADE_UPDATE", tradeId |-> tradeId, price |-> t.price,
   quantity |-> t.quantity, aggressorSide |-> side]

\* GetBestBidAsk clears price and quantity of a side without a quote.
TickUpdate ==
  LET quote(side) == IF OB!GetBest(side).found THEN OB!GetBest(side)
                     ELSE [found |-> FALSE, price |-> 0, qty |-> 0]
  IN  [type |-> "TICK_UPDATE", lastPrice |-> lastTrade.price, lastQty |-> lastTrade.qty,
       bidPrice |-> quote("BUY").price, bidQty |-> quote("BUY").qty,
       askPrice |-> quote("SELL").price, askQty |-> quote("SELL").qty]

\* lastTradePrice_ and lastTradeQty_ after a handler went through `trades`.
LastTradeOf(ts) ==
  IF ts = <<>> THEN lastTrade
  ELSE [price |-> Last(ts).price, qty |-> Last(ts).quantity]

----------------------------------------------------------------------------
(* Tracking *)

Track(s, id) ==
  /\ sessionOrders' = [sessionOrders EXCEPT ![s] = @ \cup {id}]
  /\ orderToSession' = [x \in DOMAIN orderToSession \cup {id} |->
                          IF x = id THEN s ELSE orderToSession[x]]

Untrack(s, id) ==
  /\ sessionOrders' = [sessionOrders EXCEPT ![s] = @ \ {id}]
  /\ orderToSession' = Restrict(orderToSession, DOMAIN orderToSession \ {id})

\* Mutant: any session may cancel and modify any tracked order.
OwnsAny(s, id) == id \in DOMAIN orderToSession

\* The caller of a cancel or modify request may touch the order.
Owns(s, id) ==
  /\ id \in DOMAIN orderToSession
  /\ orderToSession[id] = s \/ s = DUMMY_SESSION_ID

----------------------------------------------------------------------------
(* handleNewOrder *)

\* Mutant: the quantity is not checked.
NewOrderCheckNoQuantity(side, type, price, qty) ==
  IF side \notin {"BUY", "SELL"} THEN "INVALID_SIDE"
  ELSE IF type \notin {"LIMIT", "MARKET", "IOC"} THEN "INVALID_ORDER_TYPE"
  ELSE IF type = "LIMIT" /\ price <= 0 THEN "INVALID_PRICE"
  ELSE "NONE"

\* The first failed check decides the reason; NONE when the request is valid.
NewOrderCheck(side, type, price, qty) ==
  IF side \notin {"BUY", "SELL"} THEN "INVALID_SIDE"
  ELSE IF type \notin {"LIMIT", "MARKET", "IOC"} THEN "INVALID_ORDER_TYPE"
  ELSE IF qty = 0 THEN "INVALID_QUANTITY"
  ELSE IF type = "LIMIT" /\ price <= 0 THEN "INVALID_PRICE"
  ELSE "NONE"

RejectNewOrder(s, side, type, price, qty) ==
  /\ request = None
  /\ NewOrderCheck(side, type, price, qty) # "NONE"
  /\ out' = <<OrderReject(s, NewOrderCheck(side, type, price, qty))>>
  /\ UNCHANGED <<bookVars, trackVars, nextTradeId, lastTrade, request, feed>>

\* Mutant: the order is tracked under the id of the next one.
BeginNewOrderPreIncrement(s, side, type, price, qty) ==
  /\ request = None
  /\ NewOrderCheck(side, type, price, qty) = "NONE"
  /\ nextOrderId <= MaxOrders
  /\ nextOrderId' = nextOrderId + 1
  /\ Track(s, nextOrderId')
  /\ OB!AddOrder(nextOrderId, side, type, price, qty)
  /\ request' = [type |-> "NEW", session |-> s, id |-> nextOrderId]
  /\ out' = <<>>
  /\ UNCHANGED <<nextTradeId, lastTrade, feed>>

BeginNewOrder(s, side, type, price, qty) ==
  /\ request = None
  /\ NewOrderCheck(side, type, price, qty) = "NONE"
  /\ nextOrderId <= MaxOrders
  /\ nextOrderId' = nextOrderId + 1
  /\ Track(s, nextOrderId)
  /\ OB!AddOrder(nextOrderId, side, type, price, qty)
  /\ request' = [type |-> "NEW", session |-> s, id |-> nextOrderId]
  /\ out' = <<>>
  /\ UNCHANGED <<nextTradeId, lastTrade, feed>>

\* Mutant: the two sides of the trade are mixed up.
PassiveOrderIdSwapped(side, t) ==
  IF side = "BUY" THEN t.buyOrderId ELSE t.sellOrderId

PassiveOrderId(side, t) == IF side = "BUY" THEN t.sellOrderId ELSE t.buyOrderId

\* What one trade adds to the messages of the handler: a TradeUpdate with the
\* trade id that the aggressor's report takes next, then the two reports, each
\* with an id of its own.
PublishTrade(acc, t, side, leaves) ==
  LET passive == PassiveOrderId(side, t)
      report  == ExecutionReport(request.session, request.id, acc.tradeId,
                                 t.price, t.quantity, leaves, side)
  IN  IF passive \in DOMAIN orderToSession
        THEN [tradeId |-> acc.tradeId + 2,
              feed |-> Append(acc.feed, TradeUpdate(acc.tradeId, t, side)),
              out  |-> acc.out \o
                <<report, ExecutionReport(orderToSession[passive], passive,
                            acc.tradeId + 1, t.price, t.quantity, 0,
                            OB!Contra(side))>>]
        ELSE [tradeId |-> acc.tradeId + 1,
              feed |-> Append(acc.feed, TradeUpdate(acc.tradeId, t, side)),
              out  |-> Append(acc.out, report)]

\* Mutant: the cancelled rest of an IOC or MARKET order is forgotten.
ClosedByTrade(o) == o.status = "TRADED"

\* The order is done: filled, or cancelled because it may not rest.
Closed(o) == o.quantity = 0 \/ o.status = "CANCELLED"

\* The trade loop of the handler: Published(side, leaves)[i] are the next trade
\* id and the messages after the first i trades.
Published(side, leaves) ==
  LET pub[i \in 0 .. Len(trades)] ==
        IF i = 0 THEN [tradeId |-> nextTradeId, feed |-> <<>>, out |-> <<>>]
        ELSE PublishTrade(pub[i - 1], trades[i], side, leaves)
  IN  pub

EndNewOrder ==
  /\ request # None
  /\ request.type = "NEW"
  /\ OB!Finish
  /\ LET o   == heap'[request.id]
         pub == Published(o.side, o.quantity)[Len(trades)]
     IN  /\ nextTradeId' = pub.tradeId
         /\ lastTrade' = LastTradeOf(trades)
         /\ out' = Append(pub.out, OrderAck(request.session, request.id, o.status))
         /\ IF Closed(o) THEN Untrack(request.session, request.id)
            ELSE UNCHANGED <<sessionOrders, orderToSession>>
         /\ feed' = Append(pub.feed, TickUpdate')
  /\ request' = None
  /\ UNCHANGED nextOrderId

----------------------------------------------------------------------------
(* handleCancelOrder *)

RejectCancelOrder(s, id) ==
  /\ request = None
  /\ ~Owns(s, id)
  /\ out' = <<CancelReject(s, "ORDER_NOT_FOUND")>>
  /\ UNCHANGED <<bookVars, trackVars, nextTradeId, lastTrade, request, feed>>

\* Mutant: the tick is built before the order leaves the book.
AcceptCancelOrderStaleTick(s, id) ==
  /\ request = None
  /\ Owns(s, id)
  /\ IF id \in orders THEN OB!CancelOrder(id) ELSE UNCHANGED bookVars
  /\ Untrack(orderToSession[id], id)
  /\ out' = <<CancelAck(s, id)>>
  /\ feed' = <<TickUpdate>>
  /\ UNCHANGED <<nextOrderId, nextTradeId, lastTrade, request>>

\* Mutant: the order is taken from the caller's set instead of its owner's.
AcceptCancelOrderOfCaller(s, id) ==
  /\ request = None
  /\ Owns(s, id)
  /\ IF id \in orders THEN OB!CancelOrder(id) ELSE UNCHANGED bookVars
  /\ Untrack(s, id)
  /\ out' = <<CancelAck(s, id)>>
  /\ UNCHANGED <<nextOrderId, nextTradeId, lastTrade, request>>
  /\ feed' = <<TickUpdate'>>

\* The book ignores an id that is not in orders_; the handler goes on.
AcceptCancelOrder(s, id) ==
  /\ request = None
  /\ Owns(s, id)
  /\ IF id \in orders THEN OB!CancelOrder(id) ELSE UNCHANGED bookVars
  /\ Untrack(orderToSession[id], id)
  /\ out' = <<CancelAck(s, id)>>
  /\ UNCHANGED <<nextOrderId, nextTradeId, lastTrade, request>>
  /\ feed' = <<TickUpdate'>>

----------------------------------------------------------------------------
(* handleModifyOrder *)

ModifyCheck(s, id, newPrice, newQuantity) ==
  IF ~Owns(s, id) THEN "ORDER_NOT_FOUND"
  ELSE IF newPrice <= 0 THEN "INVALID_PRICE"
  ELSE IF newQuantity = 0 THEN "INVALID_QUANTITY"
  ELSE "NONE"

RejectModifyOrder(s, id, newPrice, newQuantity) ==
  /\ request = None
  /\ ModifyCheck(s, id, newPrice, newQuantity) # "NONE"
  /\ out' = <<ModifyReject(s, ModifyCheck(s, id, newPrice, newQuantity))>>
  /\ UNCHANGED <<bookVars, trackVars, nextTradeId, lastTrade, request, feed>>

BeginModifyOrder(s, id, newPrice, newQuantity) ==
  /\ request = None
  /\ ModifyCheck(s, id, newPrice, newQuantity) = "NONE"
  /\ OB!ModifyOrder(id, newPrice, newQuantity)
  /\ request' = [type |-> "MODIFY", session |-> s, id |-> id]
  /\ out' = <<>>
  /\ UNCHANGED <<trackVars, nextTradeId, lastTrade, feed>>

\* The trades of a modify are published one by one with the current trade id,
\* and no execution report is sent.
ModifyTradeUpdates(id) ==
  [i \in DOMAIN trades |->
     TradeUpdate(nextTradeId, trades[i],
                 IF trades[i].buyOrderId = id THEN "BUY" ELSE "SELL")]

\* Mutant: no acknowledgment is sent.
EndModifyOrderSilent ==
  /\ request # None
  /\ request.type = "MODIFY"
  /\ OB!Finish
  /\ lastTrade' = LastTradeOf(trades)
  /\ feed' = Append(ModifyTradeUpdates(request.id), TickUpdate')
  /\ request' = None
  /\ UNCHANGED <<trackVars, nextTradeId, out>>

EndModifyOrder ==
  /\ request # None
  /\ request.type = "MODIFY"
  /\ OB!Finish
  /\ lastTrade' = LastTradeOf(trades)
  /\ out' = <<ModifyAck(request.session, request.id)>>
  /\ feed' = Append(ModifyTradeUpdates(request.id), TickUpdate')
  /\ request' = None
  /\ UNCHANGED <<trackVars, nextTradeId>>

\* The book returns early and leaves the trades of its previous call in place;
\* the handler goes through them again.
ModifyOrderUnchanged(s, id, newPrice, newQuantity) ==
  /\ request = None
  /\ ModifyCheck(s, id, newPrice, newQuantity) = "NONE"
  /\ \/ id \notin orders
     \/ heap[id].price = newPrice /\ heap[id].quantity = newQuantity
  /\ lastTrade' = LastTradeOf(trades)
  /\ out' = <<ModifyAck(s, id)>>
  /\ UNCHANGED <<bookVars, trackVars, nextTradeId, request>>
  /\ feed' = Append(ModifyTradeUpdates(id), TickUpdate')

----------------------------------------------------------------------------
Match ==
  /\ request # None
  /\ OB!matchAgainst
  /\ UNCHANGED <<trackVars, nextTradeId, lastTrade, request, out, feed>>

\* processInboundMessage on a message popped from the inbound queue.
HandleRequest(s) ==
  \/ \E side \in RequestSide, type \in RequestType, price \in RequestPrice,
        qty \in RequestQuantity :
       \/ RejectNewOrder(s, side, type, price, qty)
       \/ BeginNewOrder(s, side, type, price, qty)
  \/ \E id \in OrderId : RejectCancelOrder(s, id) \/ AcceptCancelOrder(s, id)
  \/ \E id \in OrderId, price \in RequestPrice, qty \in RequestQuantity :
       \/ RejectModifyOrder(s, id, price, qty)
       \/ BeginModifyOrder(s, id, price, qty)
       \/ ModifyOrderUnchanged(s, id, price, qty)

Next ==
  \/ \E s \in Session : HandleRequest(s)
  \/ Match
  \/ EndNewOrder
  \/ EndModifyOrder

Spec == Init /\ [][Next]_vars

\* The matching thread finishes the request it works on.
FairSpec == Spec /\ WF_vars(Match \/ EndNewOrder \/ EndModifyOrder)
----------------------------------------------------------------------------
(* Properties *)

\* The book keeps its types under the engine, trade and order ids only count
\* up to what was handed out, and both ownership maps are over known ids.
TypeOK ==
  /\ OB!TypeOK
  /\ nextOrderId \in 1 .. MaxOrders + 1
  /\ nextTradeId \in Nat \ {0}
  /\ DOMAIN orderToSession \subseteq 1 .. nextOrderId - 1
  /\ orderToSession \in [DOMAIN orderToSession -> Session]
  /\ sessionOrders \in [Session -> SUBSET OrderId]
  /\ request \in Request \cup {None}
  /\ request # None <=> incoming # None

\* The engine is a correct client of the book: between them, the handlers call
\* it with new ids, valid sides and types and positive quantities only, one
\* call at a time, and never change it otherwise.
BookSpec == OB!Spec

\* Every order in the book has exactly one owner, and sessionOrders_ and
\* orderToSession_ are the same relation.  A live order that is not tracked
\* could not be cancelled, and its fills would be reported to nobody.
LiveOrdersTracked ==
  /\ orders \subseteq DOMAIN orderToSession
  /\ \A s \in Session :
       sessionOrders[s] = {id \in DOMAIN orderToSession : orderToSession[id] = s}

\* After an OrderAck the client knows the state of its order: the status sent
\* is the order's, the order rests in the book exactly when that status is NEW
\* or MODIFY, and only then may it still be cancelled or modified.
AckMatchesBook ==
  out # <<>> /\ Last(out).type = "ORDER_ACK" =>
    LET id == Last(out).orderId IN
    /\ Last(out).status = heap[id].status
    /\ id \in orders <=> Last(out).status \in {"NEW", "MODIFY"}
    /\ id \in orders <=> id \in DOMAIN orderToSession

\* Between requests the last tick on the feed is the current best bid and ask
\* with the last trade: whatever changed the book was followed by a tick.
TickIsCurrent ==
  request = None =>
    IF feed = <<>> THEN orders = {} ELSE Last(feed) = TickUpdate

\* A resting order is changed between matches only on behalf of its owner or
\* of the dummy generator.
OwnerOnly ==
  [][\A id \in orders :
       request = None /\ heap'[id] # heap[id] =>
         LET s == IF request' # None THEN request'.session ELSE Last(out').session
         IN  s \in {orderToSession[id], DUMMY_SESSION_ID}]_vars

TradesOf(id) ==
  {i \in DOMAIN trades : trades[i].buyOrderId = id \/ trades[i].sellOrderId = id}
ReportsOf(msgs, id) ==
  {k \in DOMAIN msgs : msgs[k].type = "EXECUTION_REPORT" /\ msgs[k].orderId = id}

\* The messages report the order's trades, each once and in order, to the
\* order's owner.
ReportsTrades(msgs, id) ==
  LET own == TradesOf(id) IN
  \E f \in Bijection(own, ReportsOf(msgs, id)) :
    \A i \in own :
      /\ \A j \in own : i < j => f[i] < f[j]
      /\ msgs[f[i]].session = orderToSession[id]
      /\ msgs[f[i]].execPrice = trades[i].price
      /\ msgs[f[i]].execQty = trades[i].quantity

\* When a new order has been matched, every order involved, the incoming one
\* and each resting one, has had exactly its own fills reported to its owner.
FillsReported ==
  [][request # None /\ request' = None /\ request.type = "NEW" =>
       \A id \in OrderId : ReportsTrades(out', id)]_vars

\* Every request that starts a match is answered to its sender.
RequestAnswered ==
  \A s \in Session, id \in OrderId :
    (request # None /\ request.session = s /\ request.id = id)
      ~> (/\ out # <<>> /\ Last(out).type \in {"ORDER_ACK", "MODIFY_ACK"}
          /\ Last(out).session = s /\ Last(out).orderId = id)

----------------------------------------------------------------------------
(* What comments and documentation say, and the code does not do *)

\* README.md: a CancelAck means "Cancel confirmed".
CancelAckMeansCancelled ==
  out # <<>> /\ Last(out).type = "CANCEL_ACK" =>
    heap[Last(out).orderId].status = "CANCELLED"

\* include/Orderbook.h:107: after a modify, the recent trades are the ones that
\* modify generated, so each of them involves the modified order.
ModifyTradesAreOwn ==
  out # <<>> /\ Last(out).type = "MODIFY_ACK" =>
    TradesOf(Last(out).orderId) = DOMAIN trades

\* include/MatchingEngine.h:46: an ExecutionReport is sent for any fill, also
\* for the fills of a modify request.
AllFillsReported ==
  [][request # None /\ request' = None =>
       \A id \in OrderId : ReportsTrades(out', id)]_vars

\* include/MatchingEngine.h:45 and :46, the lifecycle of an order: first its
\* OrderAck is sent, then the ExecutionReports of its fills.
AckBeforeReports ==
  \A k, j \in DOMAIN out :
    /\ out[k].type = "ORDER_ACK" /\ out[j].type = "EXECUTION_REPORT"
    /\ out[k].orderId = out[j].orderId
    => k < j

\* include/FeedHandler.h:91: the trade id of a TradeUpdate is unique, already
\* among the updates of one handler.
TradeIdsUnique ==
  LET updates == {i \in DOMAIN feed : feed[i].type = "TRADE_UPDATE"} IN
  \A i, j \in updates : feed[i].tradeId = feed[j].tradeId => i = j
=============================================================================
