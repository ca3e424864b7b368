------------------------ MODULE MatchingEngineProofs ------------------------
(***************************************************************************)
(* For every set of sessions and requests and any number of orders: the    *)
(* engine uses the order book as its specification allows, so that what is *)
(* proved of the book holds in it; it keeps track of the owner of every    *)
(* live order and lets nobody else change it; and its acknowledgments,     *)
(* reports and ticks say what happened.                                    *)
(***************************************************************************)
EXTENDS MatchingEngine, SumProofs, SequenceTheorems, TLAPS

\* The constants of the engine are fit for the book.
LEMMA FitForBook ==
  /\ RequestPrice \subseteq Int
  /\ QMod \in Nat \ {0}
  /\ RequestQuantity \ {0} \subseteq 1 .. QMod - 1
  /\ None \notin OrderId
BY EngineAssumption

\* Ids are handed out in order, and only an id that was handed out is tracked.
TrackedIds ==
  /\ nextOrderId \in 1 .. MaxOrders + 1
  /\ DOMAIN orderToSession \subseteq 1 .. nextOrderId - 1
  /\ orderToSession \in [DOMAIN orderToSession -> Session]
  /\ sessionOrders = [s \in Session |-> sessionOrders[s]]

\* The fields of an order that its end is decided by.
OrderFields ==
  /\ DOMAIN heap = OrderId
  /\ \A id \in OrderId : {"quantity", "status"} \subseteq DOMAIN heap[id]

\* The order of the request in progress is tracked; a new one is tracked for
\* its sender and not in the book yet, and was not cancelled before its end.
CallTracked ==
  request # None =>
    /\ incoming = request.id
    /\ request.id \in DOMAIN orderToSession
    /\ request.type = "NEW" =>
         /\ orderToSession[request.id] = request.session
         /\ request.id \notin orders
         /\ heap[request.id].status # "CANCELLED"

Tracking == TrackedIds /\ OrderFields /\ CallTracked /\ LiveOrdersTracked

LEMMA TrackingInit == Init => Tracking
<1> SUFFICES ASSUME Init PROVE Tracking
  OBVIOUS
<1>1. /\ orders = {}
      /\ heap = [id \in OrderId |-> [price |-> 0, quantity |-> 0, type |-> "DEFAULT",
                                     side |-> "DEFAULT", status |-> "DEFAULT"]]
  BY DEF Init, OB!Init
<1>2. TrackedIds
  BY EngineAssumption DEF Init, TrackedIds
<1>3. OrderFields
  BY <1>1 DEF OrderFields
<1>4. CallTracked /\ LiveOrdersTracked
  BY <1>1 DEF Init, CallTracked, LiveOrdersTracked
<1> QED BY <1>2, <1>3, <1>4 DEF Tracking

----------------------------------------------------------------------------
(* What the steps of the book do to the orders in it *)

\* An order is entered under a new id.
LEMMA AddStep ==
  ASSUME OrderFields, NEW id \in OrderId, NEW side, NEW type, NEW price, NEW qty,
         OB!AddOrder(id, side, type, price, qty)
  PROVE  /\ OrderFields' /\ orders' = orders /\ incoming' = id
         /\ heap'[id].status = "NEW"
         /\ \A x \in OrderId \ {id} : heap'[x] = heap[x]
BY DEF OB!AddOrder, OB!addToBook, OrderFields

LEMMA ModifyStep ==
  ASSUME OrderFields, NEW id \in OrderId, NEW price, NEW qty,
         OB!ModifyOrder(id, price, qty)
  PROVE  /\ OrderFields' /\ orders' = orders /\ incoming' = id
         /\ \A x \in OrderId \ {id} : heap'[x] = heap[x]
BY DEF OB!ModifyOrder, OB!addToBook, OrderFields

LEMMA CancelStep ==
  ASSUME OrderFields, NEW id \in OrderId, OB!CancelOrder(id)
  PROVE  /\ OrderFields' /\ orders' = orders \ {id}
         /\ \A x \in OrderId \ {id} : heap'[x] = heap[x]
BY DEF OB!CancelOrder, OrderFields

LEMMA MatchStep ==
  ASSUME OrderFields, OB!matchAgainst
  PROVE  /\ OrderFields' /\ orders' \subseteq orders /\ incoming' = incoming
         /\ \A x \in OrderId : heap[x].status # "CANCELLED" => heap'[x].status # "CANCELLED"
<1>1. PICK p, resting : OB!Execute(incoming, p, resting)
  BY DEF OB!matchAgainst
<1>2. \E q, s : /\ heap' = [heap EXCEPT ![resting].quantity = q, ![resting].status = s]
                /\ s \in {"TRADED", "MODIFY"}
  BY <1>1 DEF OB!Execute
<1>3. orders' \subseteq orders /\ incoming' = incoming
  BY <1>1 DEF OB!Execute
<1> QED BY <1>2, <1>3 DEF OrderFields

\* The call ends: a new order that is closed is not in the book.
LEMMA FinishStep ==
  ASSUME OrderFields, OB!Finish, incoming \in OrderId
  PROVE  /\ OrderFields'
         /\ orders' \in {orders \ {incoming}, orders, orders \cup {incoming}}
         /\ incoming \notin orders /\ heap[incoming].status # "CANCELLED" =>
              (Closed(heap'[incoming]) => incoming \notin orders')
<1> USE DEF OrderFields, Closed, OB!Return
<1>1. CASE OB!FinishTraded
  BY <1>1 DEF OB!FinishTraded
<1>2. CASE OB!FinishCancelled
  BY <1>2 DEF OB!FinishCancelled
<1>3. CASE OB!FinishBooked
  BY <1>3 DEF OB!FinishBooked
<1> QED BY <1>1, <1>2, <1>3 DEF OB!Finish

----------------------------------------------------------------------------
(* The engine is a correct client of the book *)

\* A request that passes the checks carries what the book expects.
LEMMA CheckedRequest ==
  ASSUME NEW side, NEW type, NEW price, NEW qty,
         NewOrderCheck(side, type, price, qty) = "NONE"
  PROVE  side \in OB!Side /\ type \in OB!OrderType /\ qty # 0
BY DEF NewOrderCheck, OB!Side, OB!OrderType

\* A step of the engine is a step of the book or leaves the book alone.
LEMMA StepUsesBook ==
  ASSUME TrackedIds, [Next]_vars
  PROVE  [OB!Next]_(OB!vars)
<1> USE DEF OB!vars, bookVars
<1>1. ASSUME NEW s \in Session, NEW side \in RequestSide, NEW type \in RequestType,
             NEW price \in RequestPrice, NEW qty \in RequestQuantity,
             BeginNewOrder(s, side, type, price, qty)
      PROVE  OB!Next
  <2>1. nextOrderId \in OrderId
    BY <1>1, EngineAssumption DEF BeginNewOrder, TrackedIds, OrderId
  <2>2. OB!AddOrder(nextOrderId, side, type, price, qty)
    BY <1>1 DEF BeginNewOrder
  <2>3. side \in OB!Side /\ type \in OB!OrderType /\ qty \in RequestQuantity \ {0}
    BY <1>1, CheckedRequest DEF BeginNewOrder
  <2> QED BY <2>1, <2>2, <2>3 DEF OB!Next
<1>2. ASSUME NEW s \in Session, NEW id \in OrderId, AcceptCancelOrder(s, id)
      PROVE  [OB!Next]_(OB!vars)
  BY <1>2 DEF AcceptCancelOrder, OB!Next
<1>3. ASSUME NEW s \in Session, NEW id \in OrderId, NEW price \in RequestPrice,
             NEW qty \in RequestQuantity, BeginModifyOrder(s, id, price, qty)
      PROVE  OB!Next
  <2>1. qty \in RequestQuantity \ {0}
    BY <1>3 DEF BeginModifyOrder, ModifyCheck
  <2> QED BY <1>3, <2>1 DEF BeginModifyOrder, OB!Next
<1>4. CASE Match
  BY <1>4 DEF Match, OB!Next
<1>5. CASE EndNewOrder \/ EndModifyOrder
  BY <1>5 DEF EndNewOrder, EndModifyOrder, OB!Next
<1>6. CASE UNCHANGED vars
  BY <1>6 DEF vars
<1>7. CASE \E s \in Session : HandleRequest(s)
  <2> SUFFICES ASSUME NEW s \in Session, HandleRequest(s) PROVE [OB!Next]_(OB!vars)
    BY <1>7
  <2>1. \/ \E side \in RequestSide, type \in RequestType, price \in RequestPrice,
             qty \in RequestQuantity :
             \/ RejectNewOrder(s, side, type, price, qty)
             \/ BeginNewOrder(s, side, type, price, qty)
        \/ \E id \in OrderId : RejectCancelOrder(s, id) \/ AcceptCancelOrder(s, id)
        \/ \E id \in OrderId, price \in RequestPrice, qty \in RequestQuantity :
             \/ RejectModifyOrder(s, id, price, qty)
             \/ BeginModifyOrder(s, id, price, qty)
             \/ ModifyOrderUnchanged(s, id, price, qty)
    BY DEF HandleRequest
  <2>2. ASSUME NEW side, NEW type, NEW price, NEW qty,
               RejectNewOrder(s, side, type, price, qty)
        PROVE  UNCHANGED OB!vars
    BY <2>2 DEF RejectNewOrder
  <2>3. ASSUME NEW id, RejectCancelOrder(s, id) PROVE UNCHANGED OB!vars
    BY <2>3 DEF RejectCancelOrder
  <2>4. ASSUME NEW id, NEW price, NEW qty,
               RejectModifyOrder(s, id, price, qty) \/ ModifyOrderUnchanged(s, id, price, qty)
        PROVE  UNCHANGED OB!vars
    BY <2>4 DEF RejectModifyOrder, ModifyOrderUnchanged
  <2> QED BY <1>1, <1>2, <1>3, <2>1, <2>2, <2>3, <2>4
<1> QED BY <1>4, <1>5, <1>6, <1>7 DEF Next

----------------------------------------------------------------------------
(* Orders are tracked from their entry to their end *)

LEMMA TrackStep ==
  ASSUME TrackedIds, LiveOrdersTracked, NEW s \in Session, nextOrderId <= MaxOrders,
         nextOrderId' = nextOrderId + 1, Track(s, nextOrderId), orders' = orders
  PROVE  /\ TrackedIds' /\ LiveOrdersTracked'
         /\ nextOrderId \in OrderId \ orders
         /\ nextOrderId \in DOMAIN orderToSession'
         /\ orderToSession'[nextOrderId] = s
<1> DEFINE id == nextOrderId
<1>1. /\ id \in OrderId /\ id \notin DOMAIN orderToSession
      /\ id' \in 1 .. MaxOrders + 1 /\ 1 .. id' - 1 = (1 .. id - 1) \cup {id}
  BY EngineAssumption DEF TrackedIds, OrderId
<1>2. /\ DOMAIN orderToSession' = DOMAIN orderToSession \cup {id}
      /\ orderToSession'[id] = s
      /\ \A x \in DOMAIN orderToSession : orderToSession'[x] = orderToSession[x]
  BY <1>1 DEF Track
<1>3. sessionOrders' = [sessionOrders EXCEPT ![s] = @ \cup {id}]
  BY DEF Track
<1>4. sessionOrders' = [x \in Session |-> sessionOrders'[x]]
  BY <1>3 DEF TrackedIds
<1>5. TrackedIds'
  <2>1. orderToSession' \in [DOMAIN orderToSession' -> Session]
    BY <1>1 DEF Track, TrackedIds
  <2> QED BY <1>1, <1>2, <1>4, <2>1 DEF TrackedIds
<1>6. \A x \in Session : sessionOrders'[x] = IF x = s THEN sessionOrders[x] \cup {id}
                                             ELSE sessionOrders[x]
  BY <1>3 DEF TrackedIds
<1>7. ASSUME NEW x \in Session
      PROVE  sessionOrders'[x] = {i \in DOMAIN orderToSession' : orderToSession'[i] = x}
  <2>1. sessionOrders[x] = {i \in DOMAIN orderToSession : orderToSession[i] = x}
    BY DEF LiveOrdersTracked
  <2>2. CASE x = s
    BY <1>2, <1>6, <2>1, <2>2
  <2>3. CASE x # s
    BY <1>1, <1>2, <1>6, <2>1, <2>3
  <2> QED BY <2>2, <2>3
<1>8. LiveOrdersTracked'
  BY <1>2, <1>7 DEF LiveOrdersTracked
<1> QED BY <1>1, <1>2, <1>5, <1>8 DEF LiveOrdersTracked

LEMMA UntrackStep ==
  ASSUME TrackedIds, LiveOrdersTracked, NEW id \in DOMAIN orderToSession,
         Untrack(orderToSession[id], id), nextOrderId' = nextOrderId,
         orders' \subseteq orders \ {id}
  PROVE  TrackedIds' /\ LiveOrdersTracked'
<1>1. orderToSession' = [x \in DOMAIN orderToSession \ {id} |-> orderToSession[x]]
  BY DEF Untrack, Restrict
<1>2. /\ DOMAIN orderToSession' = DOMAIN orderToSession \ {id}
      /\ \A x \in DOMAIN orderToSession' : orderToSession'[x] = orderToSession[x]
  BY <1>1
<1>3. sessionOrders' = [sessionOrders EXCEPT ![orderToSession[id]] = @ \ {id}]
  BY DEF Untrack
<1>4. sessionOrders' = [x \in Session |-> sessionOrders'[x]]
  BY <1>3 DEF TrackedIds
<1>5. TrackedIds'
  <2>1. orderToSession' \in [DOMAIN orderToSession' -> Session]
    BY <1>1, <1>2 DEF TrackedIds
  <2> QED BY <1>2, <1>4, <2>1 DEF TrackedIds
<1>6. \A x \in Session : sessionOrders'[x] = IF x = orderToSession[id]
                                             THEN sessionOrders[x] \ {id}
                                             ELSE sessionOrders[x]
  BY <1>3 DEF TrackedIds
<1>7. ASSUME NEW x \in Session
      PROVE  sessionOrders'[x] = {i \in DOMAIN orderToSession' : orderToSession'[i] = x}
  <2>1. sessionOrders[x] = {i \in DOMAIN orderToSession : orderToSession[i] = x}
    BY DEF LiveOrdersTracked
  <2>2. CASE x = orderToSession[id]
    BY <1>2, <1>6, <2>1, <2>2
  <2>3. CASE x # orderToSession[id]
    BY <1>2, <1>6, <2>1, <2>3
  <2> QED BY <2>2, <2>3
<1> QED BY <1>2, <1>5, <1>7 DEF LiveOrdersTracked

\* Nothing is tracked or untracked, and only tracked orders enter the book.
LEMMA TrackedAlike ==
  ASSUME TrackedIds, LiveOrdersTracked, UNCHANGED trackVars,
         orders' \subseteq orders \cup DOMAIN orderToSession
  PROVE  TrackedIds' /\ LiveOrdersTracked'
BY DEF TrackedIds, LiveOrdersTracked, trackVars

LEMMA BeginNewOrderStep ==
  ASSUME Tracking, NEW s \in Session, NEW side, NEW type, NEW price, NEW qty,
         BeginNewOrder(s, side, type, price, qty)
  PROVE  /\ Tracking'
         /\ \A x \in orders : heap'[x] = heap[x]
<1> USE DEF Tracking
<1>1. nextOrderId \in OrderId
  BY EngineAssumption DEF BeginNewOrder, TrackedIds, OrderId
<1>2. /\ OrderFields' /\ orders' = orders /\ incoming' = nextOrderId
      /\ heap'[nextOrderId].status = "NEW"
      /\ \A x \in OrderId \ {nextOrderId} : heap'[x] = heap[x]
  BY <1>1, AddStep DEF BeginNewOrder
<1>3. /\ TrackedIds' /\ LiveOrdersTracked'
      /\ nextOrderId \notin orders
      /\ nextOrderId \in DOMAIN orderToSession'
      /\ orderToSession'[nextOrderId] = s
  BY <1>2, TrackStep DEF BeginNewOrder
<1>4. request' = [type |-> "NEW", session |-> s, id |-> nextOrderId]
  BY DEF BeginNewOrder
<1>5. CallTracked'
  BY <1>2, <1>3, <1>4 DEF CallTracked
<1>6. orders \subseteq OrderId
  BY EngineAssumption DEF LiveOrdersTracked, TrackedIds, OrderId
<1> QED BY <1>2, <1>3, <1>5, <1>6

LEMMA AcceptCancelOrderStep ==
  ASSUME Tracking, NEW s \in Session, NEW id \in OrderId, AcceptCancelOrder(s, id)
  PROVE  /\ Tracking'
         /\ \A x \in orders \ {id} : heap'[x] = heap[x]
<1> USE DEF Tracking
<1>1. OrderFields' /\ orders' = orders \ {id} /\ \A x \in orders \ {id} : heap'[x] = heap[x]
  <2>1. CASE id \in orders
    <3>1. OB!CancelOrder(id)
      BY <2>1 DEF AcceptCancelOrder
    <3>2. orders \subseteq OrderId
      BY EngineAssumption DEF LiveOrdersTracked, TrackedIds, OrderId
    <3> QED BY <3>1, <3>2, CancelStep
  <2>2. CASE id \notin orders
    BY <2>2 DEF AcceptCancelOrder, bookVars, OrderFields
  <2> QED BY <2>1, <2>2
<1>2. id \in DOMAIN orderToSession /\ Untrack(orderToSession[id], id)
  BY DEF AcceptCancelOrder, Owns
<1>3. TrackedIds' /\ LiveOrdersTracked'
  BY <1>1, <1>2, UntrackStep DEF AcceptCancelOrder
<1>4. CallTracked'
  BY DEF AcceptCancelOrder, CallTracked
<1> QED BY <1>1, <1>3, <1>4

LEMMA BeginModifyOrderStep ==
  ASSUME Tracking, NEW s \in Session, NEW id \in OrderId, NEW price, NEW qty,
         BeginModifyOrder(s, id, price, qty)
  PROVE  /\ Tracking'
         /\ \A x \in orders \ {id} : heap'[x] = heap[x]
<1> USE DEF Tracking
<1>1. /\ OrderFields' /\ orders' = orders /\ incoming' = id
      /\ \A x \in OrderId \ {id} : heap'[x] = heap[x]
  BY ModifyStep DEF BeginModifyOrder
<1>2. TrackedIds' /\ LiveOrdersTracked'
  BY <1>1, TrackedAlike DEF BeginModifyOrder
<1>3. id \in DOMAIN orderToSession'
  BY DEF BeginModifyOrder, ModifyCheck, Owns, trackVars
<1>4. request' = [type |-> "MODIFY", session |-> s, id |-> id]
  BY DEF BeginModifyOrder
<1>5. CallTracked'
  BY <1>1, <1>3, <1>4 DEF CallTracked
<1>6. orders \subseteq OrderId
  BY EngineAssumption DEF LiveOrdersTracked, TrackedIds, OrderId
<1> QED BY <1>1, <1>2, <1>5, <1>6

LEMMA MatchTracked == Tracking /\ Match => Tracking'
<1> SUFFICES ASSUME Tracking, Match PROVE Tracking'
  OBVIOUS
<1> USE DEF Tracking
<1>1. /\ OrderFields' /\ orders' \subseteq orders /\ incoming' = incoming
      /\ \A x \in OrderId : heap[x].status # "CANCELLED" => heap'[x].status # "CANCELLED"
  BY MatchStep DEF Match
<1>2. TrackedIds' /\ LiveOrdersTracked'
  BY <1>1, TrackedAlike DEF Match
<1>3. DOMAIN orderToSession \subseteq OrderId
  BY EngineAssumption DEF TrackedIds, OrderId
<1>4. CallTracked'
  BY <1>1, <1>3 DEF CallTracked, Match, trackVars
<1> QED BY <1>1, <1>2, <1>4

\* The book's part of the end of a request.
LEMMA EndStep ==
  ASSUME Tracking, request # None, OB!Finish
  PROVE  /\ OrderFields'
         /\ request.id \in DOMAIN orderToSession
         /\ orders' \subseteq orders \cup {request.id}
         /\ request.type = "NEW" /\ Closed(heap'[request.id]) => request.id \notin orders'
<1>1. DOMAIN orderToSession \subseteq OrderId
  BY EngineAssumption DEF Tracking, TrackedIds, OrderId
<1>2. /\ incoming = request.id /\ request.id \in DOMAIN orderToSession
      /\ request.type = "NEW" => /\ incoming \notin orders
                                /\ heap[incoming].status # "CANCELLED"
  BY DEF Tracking, CallTracked
<1>3. incoming \in OrderId
  BY <1>1, <1>2
<1>4. /\ OrderFields'
      /\ orders' \in {orders \ {incoming}, orders, orders \cup {incoming}}
      /\ incoming \notin orders /\ heap[incoming].status # "CANCELLED" =>
           (Closed(heap'[incoming]) => incoming \notin orders')
  BY <1>3, FinishStep DEF Tracking
<1> QED BY <1>2, <1>4

LEMMA EndNewOrderTracked == Tracking /\ EndNewOrder => Tracking'
<1> SUFFICES ASSUME Tracking, EndNewOrder PROVE Tracking'
  OBVIOUS
<1>1. /\ OrderFields'
      /\ request.id \in DOMAIN orderToSession
      /\ orders' \subseteq orders \cup {request.id}
      /\ Closed(heap'[request.id]) => request.id \notin orders'
  BY EndStep DEF EndNewOrder
<1>2. orderToSession[request.id] = request.session
  BY DEF EndNewOrder, Tracking, CallTracked
<1>3. TrackedIds' /\ LiveOrdersTracked'
  <2>1. CASE Closed(heap'[request.id])
    <3>1. Untrack(orderToSession[request.id], request.id) /\ nextOrderId' = nextOrderId
      BY <1>2, <2>1 DEF EndNewOrder
    <3>2. orders' \subseteq orders \ {request.id}
      BY <1>1, <2>1
    <3> QED BY <1>1, <3>1, <3>2, UntrackStep DEF Tracking
  <2>2. CASE ~Closed(heap'[request.id])
    <3>1. UNCHANGED trackVars
      BY <2>2 DEF EndNewOrder, trackVars
    <3> QED BY <1>1, <3>1, TrackedAlike DEF Tracking
  <2> QED BY <2>1, <2>2
<1>4. CallTracked'
  BY DEF EndNewOrder, CallTracked
<1> QED BY <1>1, <1>3, <1>4 DEF Tracking

LEMMA EndModifyOrderTracked == Tracking /\ EndModifyOrder => Tracking'
<1> SUFFICES ASSUME Tracking, EndModifyOrder PROVE Tracking'
  OBVIOUS
<1>1. /\ OrderFields'
      /\ orders' \subseteq orders \cup DOMAIN orderToSession
  BY EndStep DEF EndModifyOrder
<1>2. TrackedIds' /\ LiveOrdersTracked'
  BY <1>1, TrackedAlike DEF EndModifyOrder, Tracking
<1>3. CallTracked'
  BY DEF EndModifyOrder, CallTracked
<1> QED BY <1>1, <1>2, <1>3 DEF Tracking

\* Requests that change neither the book nor what is tracked.
Harmless == UNCHANGED <<bookVars, trackVars, request>>

\* The handlers, told apart by what they change.
LEMMA HandlerCases ==
  ASSUME NEW s \in Session, HandleRequest(s)
  PROVE  \/ Harmless
         \/ \E side \in RequestSide, type \in RequestType, price \in RequestPrice,
               qty \in RequestQuantity : BeginNewOrder(s, side, type, price, qty)
         \/ \E id \in OrderId : AcceptCancelOrder(s, id)
         \/ \E id \in OrderId, price \in RequestPrice, qty \in RequestQuantity :
               BeginModifyOrder(s, id, price, qty)
<1> USE DEF Harmless
<1>1. ASSUME NEW side, NEW type, NEW price, NEW qty,
             RejectNewOrder(s, side, type, price, qty)
      PROVE  Harmless
  BY <1>1 DEF RejectNewOrder
<1>2. ASSUME NEW id, RejectCancelOrder(s, id) PROVE Harmless
  BY <1>2 DEF RejectCancelOrder
<1>3. ASSUME NEW id, NEW price, NEW qty,
             RejectModifyOrder(s, id, price, qty) \/ ModifyOrderUnchanged(s, id, price, qty)
      PROVE  Harmless
  BY <1>3 DEF RejectModifyOrder, ModifyOrderUnchanged
<1> HIDE DEF Harmless
<1> QED BY <1>1, <1>2, <1>3 DEF HandleRequest

LEMMA HarmlessTracked == Tracking /\ Harmless => Tracking'
BY DEF Harmless, Tracking, TrackedIds, OrderFields, CallTracked, LiveOrdersTracked,
       bookVars, trackVars

LEMMA TrackingNext == Tracking /\ [Next]_vars => Tracking'
<1> SUFFICES ASSUME Tracking, [Next]_vars PROVE Tracking'
  OBVIOUS
<1>1. CASE UNCHANGED vars
  BY <1>1, HarmlessTracked DEF vars, Harmless
<1>2. ASSUME NEW s \in Session, HandleRequest(s) PROVE Tracking'
  BY <1>2, HandlerCases, HarmlessTracked, BeginNewOrderStep, AcceptCancelOrderStep,
     BeginModifyOrderStep
<1> QED
  BY <1>1, <1>2, MatchTracked, EndNewOrderTracked, EndModifyOrderTracked DEF Next

LEMMA TrackingHolds == Spec => []Tracking
BY TrackingInit, TrackingNext, PTL DEF Spec

\* A resting order has an owner who can cancel it, and the two ownership maps
\* of MatchingEngine.h are the same relation, whatever is sent in whatever
\* order and however orders end.
THEOREM LiveOrdersAlwaysTracked == Spec => []LiveOrdersTracked
<1>1. Tracking => LiveOrdersTracked
  BY DEF Tracking
<1> QED BY <1>1, TrackingHolds, PTL

\* The engine calls the book with new ids, valid sides and types and positive
\* quantities only, one call at a time: the book it holds is the book of
\* Orderbook.tla.
THEOREM UsesBook == Spec => BookSpec
<1>1. Init => OB!Init
  BY DEF Init
<1>2. Tracking => TrackedIds
  BY DEF Tracking
<1>3. TrackedIds /\ [Next]_vars => [OB!Next]_(OB!vars)
  BY StepUsesBook
<1> QED BY <1>1, <1>2, <1>3, TrackingHolds, PTL DEF Spec, BookSpec, OB!Spec

\* Whose request a step between matches handles, if it changes order id.
ChangedByOwner(id) ==
  request = None /\ heap'[id] # heap[id] =>
    LET s == IF request' # None THEN request'.session ELSE Last(out').session
    IN  s \in {orderToSession[id], DUMMY_SESSION_ID}

LEMMA HandlerOwnerOnly ==
  ASSUME Tracking, NEW s \in Session, HandleRequest(s), NEW x \in orders
  PROVE  ChangedByOwner(x)
<1>1. CASE Harmless
  BY <1>1 DEF Harmless, bookVars, ChangedByOwner
<1>2. ASSUME NEW side, NEW type, NEW price, NEW qty, BeginNewOrder(s, side, type, price, qty)
      PROVE  ChangedByOwner(x)
  BY <1>2, BeginNewOrderStep DEF ChangedByOwner
<1>3. ASSUME NEW id \in OrderId, AcceptCancelOrder(s, id)
      PROVE  ChangedByOwner(x)
  <2> SUFFICES ASSUME request = None, heap'[x] # heap[x]
               PROVE  (IF request' # None THEN request'.session ELSE Last(out').session)
                        \in {orderToSession[x], DUMMY_SESSION_ID}
    BY DEF ChangedByOwner
  <2>1. x = id
    BY <1>3, AcceptCancelOrderStep
  <2>2. request' = None /\ out' = <<CancelAck(s, id)>> /\ Owns(s, id)
    BY <1>3 DEF AcceptCancelOrder
  <2>3. Last(out').session = s
    BY <2>2 DEF Last, CancelAck
  <2> QED BY <2>1, <2>2, <2>3 DEF Owns
<1>4. ASSUME NEW id \in OrderId, NEW price, NEW qty, BeginModifyOrder(s, id, price, qty)
      PROVE  ChangedByOwner(x)
  <2> SUFFICES ASSUME request = None, heap'[x] # heap[x]
               PROVE  (IF request' # None THEN request'.session ELSE Last(out').session)
                        \in {orderToSession[x], DUMMY_SESSION_ID}
    BY DEF ChangedByOwner
  <2>1. x = id
    BY <1>4, BeginModifyOrderStep
  <2>2. /\ request' = [type |-> "MODIFY", session |-> s, id |-> id]
        /\ ModifyCheck(s, id, price, qty) = "NONE"
    BY <1>4 DEF BeginModifyOrder
  <2>3. Owns(s, id)
    BY <2>2 DEF ModifyCheck
  <2>4. request' # None /\ request'.session = s
    BY <2>2, EngineAssumption DEF Request
  <2> QED BY <2>1, <2>3, <2>4 DEF Owns
<1> QED BY <1>1, <1>2, <1>3, <1>4, HandlerCases

\* Ownership: a resting order is changed between matches only for its owner or
\* for the dummy generator (handleCancelOrder, handleModifyOrder).
THEOREM OnlyOwnersChangeOrders == Spec => OwnerOnly
<1>1. ASSUME Tracking, [Next]_vars, NEW x \in orders
      PROVE  ChangedByOwner(x)
  <2>1. CASE UNCHANGED vars
    BY <2>1 DEF vars, bookVars, ChangedByOwner
  <2>2. ASSUME NEW s \in Session, HandleRequest(s) PROVE ChangedByOwner(x)
    BY <1>1, <2>2, HandlerOwnerOnly
  <2>3. CASE Match \/ EndNewOrder \/ EndModifyOrder
    BY <2>3 DEF Match, EndNewOrder, EndModifyOrder, ChangedByOwner
  <2> QED BY <1>1, <2>1, <2>2, <2>3 DEF Next
<1>2. Tracking /\ [Next]_vars =>
        [\A id \in orders :
           request = None /\ heap'[id] # heap[id] =>
             LET s == IF request' # None THEN request'.session ELSE Last(out').session
             IN  s \in {orderToSession[id], DUMMY_SESSION_ID}]_vars
  BY <1>1 DEF ChangedByOwner
<1> QED BY <1>2, TrackingHolds, PTL DEF Spec, OwnerOnly
----------------------------------------------------------------------------
(* The theorems of the order book, for the book in the engine *)

OBP == INSTANCE OrderbookProofs WITH Price <- RequestPrice,
                                     RequestQty <- RequestQuantity \ {0}

\* The operators of the two instances are the same.
LEMMA SameOperators ==
  /\ \A s : OB!Contra(s) = OBP!Contra(s)
  /\ \A s, p : OB!IsBest(s, p) <=> OBP!IsBest(s, p)
  /\ \A p, q, s, t : OB!priceCrossed(p, q, s, t) <=> OBP!priceCrossed(p, q, s, t)
  /\ \A m, n : OB!Executed(m, n) = OBP!Executed(m, n)
  /\ \A m, n : OB!reduceQuantity(m, n) = OBP!reduceQuantity(m, n)
  /\ \A b, p, q : OB!WithQueue(b, p, q) = OBP!WithQueue(b, p, q)
  /\ \A b, p : OB!QueueAt(b, p) = OBP!QueueAt(b, p)
  /\ \A q, id : OB!PushBack(q, id) = OBP!PushBack(q, id)
  /\ \A b, p, id : OB!removeOrderFromBook(b, p, id) = OBP!removeOrderFromBook(b, p, id)
  /\ \A d, p, n : OB!updateLevelOnAdd(d, p, n) = OBP!updateLevelOnAdd(d, p, n)
  /\ \A d, p, n, c : OB!updateLevelOnFill(d, p, n, c) = OBP!updateLevelOnFill(d, p, n, c)
<1>1. \A s : OB!Contra(s) = OBP!Contra(s)
  BY DEF OB!Contra, OBP!Contra
<1>2. \A s, p : OB!IsBest(s, p) <=> OBP!IsBest(s, p)
  BY DEF OB!IsBest, OBP!IsBest, OB!Better, OBP!Better
<1>3. \A p, q, s, t : OB!priceCrossed(p, q, s, t) <=> OBP!priceCrossed(p, q, s, t)
  BY DEF OB!priceCrossed, OBP!priceCrossed
<1>4. \A m, n : OB!Executed(m, n) = OBP!Executed(m, n)
  BY DEF OB!Executed, OBP!Executed
<1>11. \A m, n : OB!reduceQuantity(m, n) = OBP!reduceQuantity(m, n)
  BY DEF OB!reduceQuantity, OBP!reduceQuantity
<1>5. \A b, p, q : OB!WithQueue(b, p, q) = OBP!WithQueue(b, p, q)
  BY DEF OB!WithQueue, OBP!WithQueue, OB!Restrict, OBP!Restrict
<1>6. \A b, p : OB!QueueAt(b, p) = OBP!QueueAt(b, p)
  BY DEF OB!QueueAt, OBP!QueueAt
<1>7. \A q, id : OB!PushBack(q, id) = OBP!PushBack(q, id)
  BY DEF OB!PushBack, OBP!PushBack
<1>8. \A b, p, id : OB!removeOrderFromBook(b, p, id) = OBP!removeOrderFromBook(b, p, id)
  <2>1. \A q, id : OB!RemoveFirst(q, id) = OBP!RemoveFirst(q, id)
    <3>1. \A S : OB!Min(S) = OBP!Min(S)
      BY DEF OB!Min, OBP!Min
    <3>2. \A q, i : OB!RemoveAt(q, i) = OBP!RemoveAt(q, i)
      BY DEF OB!RemoveAt, OBP!RemoveAt
    <3> QED
      BY <3>1, <3>2 DEF OB!RemoveFirst, OBP!RemoveFirst, OB!SelectInSeq, OBP!SelectInSeq
  <2> QED BY <1>5, <2>1 DEF OB!removeOrderFromBook, OBP!removeOrderFromBook
<1>9. \A d, p, n : OB!updateLevelOnAdd(d, p, n) = OBP!updateLevelOnAdd(d, p, n)
  BY DEF OB!updateLevelOnAdd, OBP!updateLevelOnAdd
<1>10. \A d, p, n, c : OB!updateLevelOnFill(d, p, n, c) = OBP!updateLevelOnFill(d, p, n, c)
  BY DEF OB!updateLevelOnFill, OBP!updateLevelOnFill, OB!Restrict, OBP!Restrict
<1> QED BY <1>1, <1>2, <1>3, <1>4, <1>5, <1>6, <1>7, <1>8, <1>9, <1>10, <1>11

\* The steps of the two instances are the same.
LEMMA SameNext == OB!Next => OBP!Next
<1>1. ASSUME NEW id, NEW side, NEW type, NEW price, NEW qty,
             OB!AddOrder(id, side, type, price, qty)
      PROVE  OBP!AddOrder(id, side, type, price, qty)
  BY <1>1 DEF OB!AddOrder, OBP!AddOrder, OB!addToBook, OBP!addToBook
<1>2. ASSUME NEW id, NEW price, NEW qty, OB!ModifyOrder(id, price, qty)
      PROVE  OBP!ModifyOrder(id, price, qty)
  BY <1>2, SameOperators DEF OB!ModifyOrder, OBP!ModifyOrder, OB!addToBook, OBP!addToBook
<1>3. ASSUME NEW id, OB!CancelOrder(id)
      PROVE  OBP!CancelOrder(id)
  BY <1>3, SameOperators DEF OB!CancelOrder, OBP!CancelOrder
<1>4. ASSUME NEW id, NEW p, NEW resting, OB!Execute(id, p, resting)
      PROVE  OBP!Execute(id, p, resting)
  BY <1>4, SameOperators DEF OB!Execute, OBP!Execute
<1>5. OB!matchAgainst => OBP!matchAgainst
  BY <1>4, SameOperators DEF OB!matchAgainst, OBP!matchAgainst
<1>6. OB!LoopDone => OBP!LoopDone
  BY SameOperators DEF OB!LoopDone, OBP!LoopDone
<1>7. OB!Return => OBP!Return
  BY DEF OB!Return, OBP!Return
<1>8. OB!FinishTraded => OBP!FinishTraded
  BY <1>6, <1>7 DEF OB!FinishTraded, OBP!FinishTraded
<1>9. OB!FinishCancelled => OBP!FinishCancelled
  BY <1>6, <1>7 DEF OB!FinishCancelled, OBP!FinishCancelled
<1>10. OB!FinishBooked => OBP!FinishBooked
  BY <1>6, <1>7, SameOperators DEF OB!FinishBooked, OBP!FinishBooked
<1> QED
  BY <1>1, <1>2, <1>3, <1>5, <1>8, <1>9, <1>10
  DEF OB!Next, OBP!Next, OB!Finish, OBP!Finish, OB!Side, OBP!Side, OB!OrderType,
      OBP!OrderType

\* The book of the engine satisfies the book's specification, so its theorems hold.
LEMMA EngineBook == Spec => OBP!Spec /\ OBP!BookAssumption
<1>1. OBP!BookAssumption
  BY FitForBook DEF OBP!BookAssumption
<1>2. OB!Init => OBP!Init
  BY DEF OB!Init, OBP!Init, OB!Side, OBP!Side
<1>3. [OB!Next]_(OB!vars) => [OBP!Next]_(OBP!vars)
  BY SameNext DEF OB!vars, OBP!vars
<1>4. OB!Spec => OBP!Spec
  BY <1>2, <1>3, PTL DEF OB!Spec, OBP!Spec
<1> QED BY <1>1, <1>4, UsesBook, PTL DEF BookSpec

LEMMA SameType == OBP!TypeOK => OB!TypeOK
BY DEF OB!TypeOK, OBP!TypeOK, OB!Order, OBP!Order, OB!Trade, OBP!Trade, OB!LevelData,
       OBP!LevelData, OB!Quantity, OBP!Quantity, OB!Side, OBP!Side, OB!OrderType,
       OBP!OrderType, OB!IsMap, OBP!IsMap

LEMMA SameIndexed == OBP!BookIndexed => OB!BookIndexed
BY DEF OB!BookIndexed, OBP!BookIndexed, OB!QueuedOrdersAreLive, OBP!QueuedOrdersAreLive,
       OB!LiveOrdersAreQueued, OBP!LiveOrdersAreQueued, OB!Queued, OBP!Queued,
       OB!NoOrderQueuedTwice, OBP!NoOrderQueuedTwice, OB!NoEmptyLevel, OBP!NoEmptyLevel,
       OB!Side, OBP!Side

\* The inductive invariant of the book holds in the engine.
LEMMA EngineBookInvariant == Spec => []OBP!BookInvariant
<1>1. OBP!BookAssumption => (OBP!Spec => []OBP!BookInvariant)
  BY OBP!BookInvariantHolds
<1> QED BY <1>1, EngineBook, PTL

\* orders_ and the two price maps describe the same resting orders, and the book
\* is never crossed, whatever requests the engine is sent.
THEOREM EngineBookIsSound == Spec => [](OB!BookIndexed /\ OB!Uncrossed)
<1>1. OBP!BookInvariant => OB!BookIndexed /\ OB!Uncrossed
  BY SameIndexed DEF OBP!BookInvariant, OBP!Uncrossed, OB!Uncrossed
<1> QED BY <1>1, EngineBookInvariant, PTL

----------------------------------------------------------------------------
(* The trade loop *)

\* q is a sequence of n elements.
Listed(q, n) == n \in Nat /\ q = [k \in 1 .. n |-> q[k]]

\* r is q with a, and then b, at its end.
Longer(q, n, r, a) ==
  /\ Listed(r, n + 1) /\ r[n + 1] = a
  /\ \A k \in 1 .. n : r[k] = q[k]

LongerByTwo(q, n, r, a, b) ==
  /\ Listed(r, n + 2) /\ r[n + 1] = a /\ r[n + 2] = b
  /\ \A k \in 1 .. n : r[k] = q[k]

LEMMA AppendOne ==
  ASSUME NEW q, NEW n, Listed(q, n), NEW a
  PROVE  /\ Longer(q, n, Append(q, a), a)
         /\ Last(Append(q, a)) = a
         /\ Append(q, a) # <<>>
<1>1. PICK S : q \in Seq(S) /\ a \in S
  <2> DEFINE S == {q[k] : k \in 1 .. n} \cup {a}
  <2>1. q \in [1 .. n -> S] /\ n \in Nat
    BY DEF Listed
  <2>2. q \in Seq(S) /\ a \in S
    BY <2>1
  <2> HIDE DEF S
  <2> QED BY <2>2
<1>2. Len(q) = n
  BY DEF Listed
<1>3. Append(q, a) \in Seq(S) /\ Len(Append(q, a)) = n + 1
  BY <1>1, <1>2
<1> QED BY <1>1, <1>2, <1>3 DEF Listed, Longer, Last

LEMMA AppendTwo ==
  ASSUME NEW q, NEW n, Listed(q, n), NEW a, NEW b
  PROVE  LongerByTwo(q, n, q \o <<a, b>>, a, b)
<1>1. PICK S : q \in Seq(S) /\ a \in S /\ b \in S
  <2> DEFINE S == {q[k] : k \in 1 .. n} \cup {a, b}
  <2>1. q \in [1 .. n -> S] /\ n \in Nat
    BY DEF Listed
  <2>2. q \in Seq(S) /\ a \in S /\ b \in S
    BY <2>1
  <2> HIDE DEF S
  <2> QED BY <2>2
<1>2. Len(q) = n /\ <<a, b>> \in Seq(S) /\ Len(<<a, b>>) = 2
  BY <1>1 DEF Listed
<1>3. q \o <<a, b>> \in Seq(S) /\ Len(q \o <<a, b>>) = n + 2
  BY <1>1, <1>2
<1> QED BY <1>1, <1>2, <1>3 DEF Listed, LongerByTwo

\* The loop is defined: each trade adds its messages to those of the trades before.
LEMMA PublishedSteps ==
  ASSUME NEW side, NEW leaves, Len(trades) \in Nat
  PROVE  LET pub == Published(side, leaves) IN
         /\ pub[0] = [tradeId |-> nextTradeId, feed |-> <<>>, out |-> <<>>]
         /\ \A i \in 1 .. Len(trades) :
              pub[i] = PublishTrade(pub[i - 1], trades[i], side, leaves)
<1> DEFINE n == Len(trades)
           a == [tradeId |-> nextTradeId, feed |-> <<>>, out |-> <<>>]
           IsPub(g, m) == g = [i \in 0 .. m |-> IF i = 0 THEN a
                                 ELSE PublishTrade(g[i - 1], trades[i], side, leaves)]
           G == {m \in 0 .. n : \E g : IsPub(g, m)}
<1>1. 0 \in G
  <2>1. IsPub([i \in 0 .. 0 |-> a], 0)
    OBVIOUS
  <2> HIDE DEF IsPub
  <2> QED BY <2>1
<1>2. ASSUME NEW m \in 0 .. n - 1, m \in G PROVE m + 1 \in G
  <2>1. PICK g : IsPub(g, m)
    BY <1>2
  <2> DEFINE h == [i \in 0 .. m + 1 |-> IF i <= m THEN g[i]
                     ELSE PublishTrade(g[m], trades[m + 1], side, leaves)]
  <2>2. IsPub(h, m + 1)
    BY <2>1
  <2> HIDE DEF IsPub, h
  <2> QED BY <2>2
<1>3. n \in G
  <2> HIDE DEF G
  <2>1. \A m \in 0 .. n : m \in G
    BY <1>1, <1>2, Counting
  <2> QED BY <2>1
<1>4. \E g : IsPub(g, n)
  BY <1>3
<1>5. IsPub(Published(side, leaves), n)
  BY <1>4 DEF Published
<1> QED BY <1>5

\* Trade ids stay positive and each trade adds one market data message.
LEMMA PublishedShape ==
  ASSUME NEW side, NEW leaves, Len(trades) \in Nat, nextTradeId \in Nat \ {0}
  PROVE  LET pub == Published(side, leaves)[Len(trades)] IN
         /\ pub.tradeId \in Nat \ {0}
         /\ Listed(pub.feed, Len(trades))
         /\ \E m : Listed(pub.out, m)
<1> DEFINE n == Len(trades)
           pub == Published(side, leaves)
           Fine(p, i) == /\ p.tradeId \in Nat \ {0} /\ Listed(p.feed, i)
                         /\ \E m : Listed(p.out, m)
           G == {i \in 0 .. n : Fine(pub[i], i)}
<1>1. /\ pub[0] = [tradeId |-> nextTradeId, feed |-> <<>>, out |-> <<>>]
      /\ \A i \in 1 .. n : pub[i] = PublishTrade(pub[i - 1], trades[i], side, leaves)
  BY PublishedSteps
<1> HIDE DEF pub
<1>2. Fine(pub[0], 0)
  <2>1. Listed(<<>>, 0)
    BY DEF Listed
  <2> QED BY <1>1, <2>1
<1>3. ASSUME NEW p, NEW i \in Nat, Fine(p, i), NEW t
      PROVE  Fine(PublishTrade(p, t, side, leaves), i + 1)
  <2>1. PICK m : Listed(p.out, m)
    BY <1>3
  <2>2. \A u : Listed(Append(p.feed, u), i + 1)
    BY <1>3, AppendOne DEF Longer
  <2>3. \A u : Listed(Append(p.out, u), m + 1)
    BY <2>1, AppendOne DEF Longer
  <2>4. \A u, v : Listed(p.out \o <<u, v>>, m + 2)
    BY <2>1, AppendTwo DEF LongerByTwo
  <2>5. /\ p.tradeId + 1 \in Nat \ {0} /\ p.tradeId + 2 \in Nat \ {0}
    BY <1>3
  <2> QED BY <2>2, <2>3, <2>4, <2>5 DEF PublishTrade
<1> HIDE DEF Fine
<1>4. 0 \in G
  BY <1>2
<1>5. ASSUME NEW i \in 0 .. n - 1, i \in G PROVE i + 1 \in G
  <2>1. pub[i + 1] = PublishTrade(pub[i], trades[i + 1], side, leaves)
    BY <1>1
  <2>2. Fine(pub[i], i)
    BY <1>5
  <2>3. Fine(pub[i + 1], i + 1)
    BY <1>3, <2>1, <2>2
  <2> QED BY <2>3
<1> HIDE DEF G
<1>6. n \in G
  <2>1. \A i \in 0 .. n : i \in G
    BY <1>4, <1>5, Counting
  <2> QED BY <2>1
<1>7. Fine(pub[n], n)
  BY <1>6 DEF G
<1> QED BY <1>7 DEF Fine, pub

----------------------------------------------------------------------------
(* The steps of the engine, told apart by what they send *)

\* The book is in a call exactly while a request is in progress, and nothing has
\* been sent for that request yet.
EngineCall ==
  /\ nextTradeId \in Nat \ {0}
  /\ request \in Request \cup {None}
  /\ request # None <=> incoming # None
  /\ request # None => out = <<>>

\* The last message sent answers something else than a new order.
OtherAnswer == \E m : m.type # "ORDER_ACK" /\ out' = <<m>>

\* The last market data is a tick with the book as it is now.
FreshTick == \E q, n : Listed(q, n) /\ feed' = Append(q, TickUpdate')

Rejected ==
  /\ request = None /\ OtherAnswer
  /\ UNCHANGED <<bookVars, trackVars, nextTradeId, lastTrade, request, feed>>

Answered ==
  /\ request = None /\ OtherAnswer /\ FreshTick
  /\ UNCHANGED <<incoming, nextTradeId, request>>

Begun ==
  /\ request = None /\ request' \in Request /\ incoming' \in OrderId
  /\ out' = <<>> /\ UNCHANGED nextTradeId

Ended ==
  /\ request # None /\ request' = None /\ incoming' = None
  /\ nextTradeId' \in Nat \ {0} /\ FreshTick

LEMMA TickAlone == ASSUME feed' = <<TickUpdate'>> PROVE FreshTick
<1> DEFINE u == TickUpdate'
<1> HIDE DEF u
<1>1. Listed(<<>>, 0) /\ <<u>> = Append(<<>>, u)
  BY DEF Listed
<1> QED BY <1>1 DEF FreshTick, u

LEMMA TickAfterTrades ==
  ASSUME NEW id, Len(trades) \in Nat, DOMAIN trades = 1 .. Len(trades),
         feed' = Append(ModifyTradeUpdates(id), TickUpdate')
  PROVE  FreshTick
<1>1. Listed(ModifyTradeUpdates(id), Len(trades))
  BY DEF Listed, ModifyTradeUpdates
<1> QED BY <1>1 DEF FreshTick

LEMMA HandlerKinds ==
  ASSUME TrackedIds, Len(trades) \in Nat, DOMAIN trades = 1 .. Len(trades),
         NEW s \in Session, HandleRequest(s)
  PROVE  Rejected \/ Answered \/ Begun
<1>1. ASSUME NEW side, NEW type, NEW price, NEW qty,
             RejectNewOrder(s, side, type, price, qty)
      PROVE  Rejected
  BY <1>1 DEF RejectNewOrder, Rejected, OtherAnswer, OrderReject
<1>2. ASSUME NEW side, NEW type, NEW price, NEW qty,
             BeginNewOrder(s, side, type, price, qty)
      PROVE  Begun
  <2>1. nextOrderId \in OrderId
    BY <1>2, EngineAssumption DEF BeginNewOrder, TrackedIds, OrderId
  <2>2. incoming' = nextOrderId
    BY <1>2 DEF BeginNewOrder, OB!AddOrder, OB!addToBook
  <2> QED BY <1>2, <2>1, <2>2 DEF BeginNewOrder, Begun, Request
<1>3. ASSUME NEW id, RejectCancelOrder(s, id) PROVE Rejected
  BY <1>3 DEF RejectCancelOrder, Rejected, OtherAnswer, CancelReject
<1>4. ASSUME NEW id \in OrderId, AcceptCancelOrder(s, id) PROVE Answered
  <2>1. OtherAnswer
    BY <1>4 DEF AcceptCancelOrder, OtherAnswer, CancelAck
  <2>2. FreshTick
    BY <1>4, TickAlone DEF AcceptCancelOrder
  <2>3. UNCHANGED incoming
    BY <1>4 DEF AcceptCancelOrder, OB!CancelOrder, bookVars
  <2> QED BY <1>4, <2>1, <2>2, <2>3 DEF AcceptCancelOrder, Answered
<1>5. ASSUME NEW id, NEW price, NEW qty, RejectModifyOrder(s, id, price, qty)
      PROVE  Rejected
  BY <1>5 DEF RejectModifyOrder, Rejected, OtherAnswer, ModifyReject
<1>6. ASSUME NEW id \in OrderId, NEW price, NEW qty, BeginModifyOrder(s, id, price, qty)
      PROVE  Begun
  <2>1. incoming' = id
    BY <1>6 DEF BeginModifyOrder, OB!ModifyOrder, OB!addToBook
  <2> QED BY <1>6, <2>1 DEF BeginModifyOrder, Begun, Request
<1>7. ASSUME NEW id, NEW price, NEW qty, ModifyOrderUnchanged(s, id, price, qty)
      PROVE  Answered
  <2>1. OtherAnswer
    BY <1>7 DEF ModifyOrderUnchanged, OtherAnswer, ModifyAck
  <2>2. FreshTick
    BY <1>7, TickAfterTrades DEF ModifyOrderUnchanged
  <2> QED BY <1>7, <2>1, <2>2 DEF ModifyOrderUnchanged, Answered, bookVars
<1> QED BY <1>1, <1>2, <1>3, <1>4, <1>5, <1>6, <1>7 DEF HandleRequest

LEMMA FinishReturns == OB!Finish => incoming # None /\ incoming' = None /\ trades' = trades
BY DEF OB!Finish, OB!FinishTraded, OB!FinishCancelled, OB!FinishBooked, OB!Return

LEMMA EndKinds ==
  ASSUME EngineCall, Len(trades) \in Nat, DOMAIN trades = 1 .. Len(trades)
  PROVE  /\ EndNewOrder => /\ Ended
                           /\ \E q, n : /\ Listed(q, n)
                                         /\ out' = Append(q, OrderAck(request.session,
                                               request.id, heap'[request.id].status))
         /\ EndModifyOrder => Ended /\ OtherAnswer
<1>1. ASSUME EndNewOrder
      PROVE  /\ Ended
             /\ \E q, n : /\ Listed(q, n)
                           /\ out' = Append(q, OrderAck(request.session, request.id,
                                                        heap'[request.id].status))
  <2> DEFINE o   == heap'[request.id]
             pub == Published(o.side, o.quantity)[Len(trades)]
  <2>1. /\ nextTradeId' = pub.tradeId
        /\ out' = Append(pub.out, OrderAck(request.session, request.id, o.status))
        /\ feed' = Append(pub.feed, TickUpdate')
        /\ request # None /\ request' = None /\ incoming' = None
    BY <1>1, FinishReturns DEF EndNewOrder
  <2>2. /\ pub.tradeId \in Nat \ {0} /\ Listed(pub.feed, Len(trades))
        /\ \E m : Listed(pub.out, m)
    BY PublishedShape DEF EngineCall
  <2> HIDE DEF pub
  <2> QED BY <2>1, <2>2 DEF Ended, FreshTick
<1>2. ASSUME EndModifyOrder PROVE Ended /\ OtherAnswer
  <2>1. OtherAnswer
    BY <1>2 DEF EndModifyOrder, OtherAnswer, ModifyAck
  <2>2. FreshTick
    BY <1>2, TickAfterTrades DEF EndModifyOrder
  <2> QED BY <1>2, <2>1, <2>2, FinishReturns DEF EndModifyOrder, Ended, EngineCall
<1> QED BY <1>1, <1>2

LEMMA EngineCallNext ==
  ASSUME Tracking, OBP!BookInvariant, EngineCall, [Next]_vars
  PROVE  EngineCall'
<1>1. Len(trades) \in Nat /\ DOMAIN trades = 1 .. Len(trades)
  BY DEF OBP!BookInvariant, OBP!TypeOK
<1>2. None \notin OrderId /\ None \notin Request
  BY EngineAssumption
<1>3. CASE UNCHANGED vars
  BY <1>3 DEF EngineCall, vars, bookVars
<1>4. CASE Rejected \/ Answered
  <2>1. UNCHANGED <<incoming, nextTradeId, request>> /\ request = None
    BY <1>4 DEF Rejected, Answered, bookVars
  <2> QED BY <2>1 DEF EngineCall
<1>5. CASE Begun
  BY <1>2, <1>5 DEF EngineCall, Begun
<1>6. CASE Match
  <2>1. UNCHANGED <<incoming, nextTradeId, request, out>>
    BY <1>6, MatchStep DEF Match, Tracking
  <2> QED BY <2>1 DEF EngineCall
<1>7. CASE Ended
  BY <1>7 DEF EngineCall, Ended
<1> QED
  BY <1>1, <1>3, <1>4, <1>5, <1>6, <1>7, HandlerKinds, EndKinds DEF Next, Tracking

LEMMA EngineCallHolds == Spec => []EngineCall
<1>1. Init => EngineCall
  BY DEF Init, EngineCall, OB!Init
<1>2. Tracking /\ OBP!BookInvariant /\ EngineCall /\ [Next]_vars => EngineCall'
  BY EngineCallNext
<1> QED BY <1>1, <1>2, TrackingHolds, EngineBookInvariant, PTL DEF Spec

\* Under any requests the book keeps its types, ids are handed out in order, the
\* ownership maps are over handed-out ids, and the book is in a call exactly
\* while the engine handles a request.
THEOREM EngineTypeCorrect == Spec => []TypeOK
<1>1. Tracking /\ OBP!BookInvariant /\ EngineCall => TypeOK
  <2> SUFFICES ASSUME Tracking, OBP!BookInvariant, EngineCall PROVE TypeOK
    OBVIOUS
  <2>1. OB!TypeOK
    BY SameType DEF OBP!BookInvariant
  <2>2. /\ nextOrderId \in 1 .. MaxOrders + 1
        /\ DOMAIN orderToSession \subseteq 1 .. nextOrderId - 1
        /\ orderToSession \in [DOMAIN orderToSession -> Session]
        /\ sessionOrders = [s \in Session |-> sessionOrders[s]]
    BY DEF Tracking, TrackedIds
  <2>3. DOMAIN orderToSession \subseteq OrderId
    BY <2>2, EngineAssumption DEF OrderId
  <2>4. sessionOrders \in [Session -> SUBSET OrderId]
    BY <2>2, <2>3 DEF Tracking, LiveOrdersTracked
  <2> QED BY <2>1, <2>2, <2>4 DEF EngineCall, TypeOK
<1> QED BY <1>1, TrackingHolds, EngineBookInvariant, EngineCallHolds, PTL

----------------------------------------------------------------------------
(* What is sent *)

LEMMA TickUnchanged ==
  ASSUME UNCHANGED <<bookVars, lastTrade>>
  PROVE  TickUpdate' = TickUpdate
<1>1. UNCHANGED <<heap, book>> /\ lastTrade' = lastTrade
  BY DEF bookVars
<1>2. \A s : OB!GetBest(s)' = OB!GetBest(s)
  BY <1>1 DEF OB!GetBest, OB!QueuedQuantity, OB!IsBest
<1> QED BY <1>1, <1>2 DEF TickUpdate

\* Subscribers are never left with an old quote: between requests the last market
\* data message is a tick with the current best bid, best ask and last trade.
THEOREM TickIsAlwaysCurrent == Spec => []TickIsCurrent
<1>1. Init => TickIsCurrent
  BY DEF Init, OB!Init, TickIsCurrent
<1>2. ASSUME FreshTick PROVE TickIsCurrent'
  <2>1. PICK q, n : Listed(q, n) /\ feed' = Append(q, TickUpdate')
    BY <1>2 DEF FreshTick
  <2>2. feed' # <<>> /\ Last(feed') = TickUpdate'
    <3> DEFINE u == TickUpdate'
    <3> HIDE DEF u
    <3>1. Append(q, u) # <<>> /\ Last(Append(q, u)) = u
      BY <2>1, AppendOne
    <3> QED BY <2>1, <3>1 DEF u
  <2> QED BY <2>2 DEF TickIsCurrent
<1>3. Tracking /\ OBP!BookInvariant /\ EngineCall /\ TickIsCurrent /\ [Next]_vars
        => TickIsCurrent'
  <2> SUFFICES ASSUME Tracking, OBP!BookInvariant, EngineCall, TickIsCurrent, [Next]_vars
               PROVE  TickIsCurrent'
    OBVIOUS
  <2>1. Len(trades) \in Nat /\ DOMAIN trades = 1 .. Len(trades)
    BY DEF OBP!BookInvariant, OBP!TypeOK
  <2>2. CASE UNCHANGED vars \/ Rejected
    <3>1. UNCHANGED <<bookVars, lastTrade, request, feed>>
      BY <2>2 DEF vars, Rejected
    <3>2. TickUpdate' = TickUpdate /\ orders' = orders
      BY <3>1, TickUnchanged DEF bookVars
    <3> QED BY <3>1, <3>2 DEF TickIsCurrent
  <2>3. CASE Answered \/ Ended
    BY <1>2, <2>3 DEF Answered, Ended
  <2>4. CASE Begun
    <3>1. request' # None
      BY <2>4, EngineAssumption DEF Begun
    <3> QED BY <3>1 DEF TickIsCurrent
  <2>5. CASE Match
    BY <2>5 DEF Match, TickIsCurrent
  <2> QED
    BY <2>1, <2>2, <2>3, <2>4, <2>5, HandlerKinds, EndKinds DEF Next, Tracking
<1> QED
  BY <1>1, <1>3, TrackingHolds, EngineBookInvariant, EngineCallHolds, PTL DEF Spec

\* The end of a new order: its status tells whether it rests.
LEMMA FinishStatus ==
  ASSUME OBP!BookInvariant, OB!Finish, incoming \notin orders
  PROVE  LET o == heap'[incoming] IN
         /\ incoming \in orders' <=> o.status \in {"NEW", "MODIFY"}
         /\ incoming \in orders' <=> ~Closed(o)
<1>1. /\ incoming \in OrderId /\ heap \in [OrderId -> OBP!Order]
      /\ heap[incoming].status \in {"NEW", "MODIFY"} /\ remaining \in Nat
  BY FinishReturns DEF OBP!BookInvariant, OBP!TypeOK, OBP!CallInProgress, OBP!Quantity
<1>2. {"price", "quantity", "type", "side", "status"} = DOMAIN heap[incoming]
  BY <1>1 DEF OBP!Order
<1> USE DEF Closed
<1>3. CASE OB!FinishTraded
  BY <1>1, <1>2, <1>3 DEF OB!FinishTraded
<1>4. CASE OB!FinishCancelled
  BY <1>1, <1>2, <1>4 DEF OB!FinishCancelled
<1>5. CASE OB!FinishBooked
  BY <1>1, <1>2, <1>5 DEF OB!FinishBooked
<1> QED BY <1>3, <1>4, <1>5 DEF OB!Finish

\* After an OrderAck the client knows its order: the status sent is the order's,
\* and the order rests, and can be cancelled, exactly when the status says so.
THEOREM AckAlwaysMatchesBook == Spec => []AckMatchesBook
<1>1. Init => AckMatchesBook
  BY DEF Init, AckMatchesBook
<1>2. ASSUME OtherAnswer PROVE AckMatchesBook'
  <2>1. PICK m : m.type # "ORDER_ACK" /\ out' = <<m>>
    BY <1>2 DEF OtherAnswer
  <2>2. Last(out').type # "ORDER_ACK"
    BY <2>1 DEF Last
  <2> QED BY <2>2 DEF AckMatchesBook
<1>3. Tracking /\ OBP!BookInvariant /\ EngineCall /\ AckMatchesBook /\ [Next]_vars
        => AckMatchesBook'
  <2> SUFFICES ASSUME Tracking, OBP!BookInvariant, EngineCall, AckMatchesBook, [Next]_vars
               PROVE  AckMatchesBook'
    OBVIOUS
  <2>1. Len(trades) \in Nat /\ DOMAIN trades = 1 .. Len(trades)
    BY DEF OBP!BookInvariant, OBP!TypeOK
  <2>2. CASE UNCHANGED vars
    BY <2>2 DEF vars, bookVars, trackVars, AckMatchesBook
  <2>3. CASE Rejected \/ Answered
    BY <1>2, <2>3 DEF Rejected, Answered
  <2>4. CASE Begun
    BY <2>4 DEF Begun, AckMatchesBook
  <2>5. CASE Match
    <3>1. out' = <<>>
      BY <2>5 DEF Match, EngineCall
    <3> QED BY <3>1 DEF AckMatchesBook
  <2>6. CASE EndModifyOrder
    BY <1>2, <2>1, <2>6, EndKinds
  <2>7. CASE EndNewOrder
    <3> DEFINE id == request.id
               o  == heap'[id]
    <3>1. PICK q, n : /\ Listed(q, n)
                      /\ out' = Append(q, OrderAck(request.session, id, o.status))
      BY <2>1, <2>7, EndKinds
    <3>2. Last(out') = OrderAck(request.session, id, o.status)
      BY <3>1, AppendOne
    <3>3. Last(out').orderId = id /\ Last(out').status = o.status
      BY <3>2 DEF OrderAck
    <3>4. incoming = id /\ id \notin orders /\ id \in DOMAIN orderToSession
      BY <2>7 DEF EndNewOrder, Tracking, CallTracked
    <3>5. /\ id \in orders' <=> o.status \in {"NEW", "MODIFY"}
          /\ id \in orders' <=> ~Closed(o)
      BY <2>7, <3>4, FinishStatus DEF EndNewOrder
    <3>6. id \in DOMAIN orderToSession' <=> ~Closed(o)
      <4>1. CASE Closed(o)
        BY <2>7, <4>1 DEF EndNewOrder, Untrack, Restrict
      <4>2. CASE ~Closed(o)
        BY <2>7, <3>4, <4>2 DEF EndNewOrder
      <4> QED BY <4>1, <4>2
    <3> QED BY <3>3, <3>5, <3>6 DEF AckMatchesBook
  <2> QED
    BY <2>1, <2>2, <2>3, <2>4, <2>5, <2>6, <2>7, HandlerKinds DEF Next, Tracking
<1> QED
  BY <1>1, <1>3, TrackingHolds, EngineBookInvariant, EngineCallHolds, PTL DEF Spec

----------------------------------------------------------------------------
(* Execution reports *)

AggressorOrderId(side, t) == IF side = "BUY" THEN t.buyOrderId ELSE t.sellOrderId

\* The trade is between the order of the request and a tracked other one.
OwnTrade(side, t) ==
  /\ AggressorOrderId(side, t) = request.id
  /\ PassiveOrderId(side, t) \in DOMAIN orderToSession \ {request.id}

\* While a new order is matched, all trades recorded are its own, each against
\* an order whose owner is known.
CallTrades ==
  request # None /\ request.type = "NEW" =>
    \A i \in DOMAIN trades : OwnTrade(heap[request.id].side, trades[i])

LEMMA MatchTrade ==
  ASSUME OBP!BookInvariant, OB!matchAgainst
  PROVE  LET side == heap[incoming].side IN
         /\ side \in {"BUY", "SELL"} /\ heap'[incoming].side = side
         /\ \E t :
              /\ trades' = Append(trades, t)
              /\ AggressorOrderId(side, t) = incoming
              /\ PassiveOrderId(side, t) \in orders \ {incoming}
<1> DEFINE side == heap[incoming].side
           contra == OB!Contra(side)
<1>1. /\ incoming \in OrderId /\ side \in {"BUY", "SELL"} /\ contra \in {"BUY", "SELL"}
      /\ heap \in [OrderId -> OBP!Order]
  BY DEF OB!matchAgainst, OBP!BookInvariant, OBP!TypeOK, OBP!CallInProgress, OBP!Side,
         OB!Contra
<1>2. PICK p \in DOMAIN book[contra] : OB!Execute(incoming, p, Head(book[contra][p]))
  BY DEF OB!matchAgainst
<1> DEFINE resting == Head(book[contra][p])
<1>3. resting \in orders \ {incoming} /\ orders \subseteq OrderId
  <2>1. book[contra][p] \in Seq(OrderId) /\ book[contra][p] # <<>>
    BY <1>1 DEF OBP!BookInvariant, OBP!TypeOK, OBP!IsMap, OBP!Side, OBP!BookIndexed,
                OBP!NoEmptyLevel
  <2>2. 1 \in DOMAIN book[contra][p] /\ resting = book[contra][p][1]
    BY <2>1
  <2> QED
    BY <1>1, <2>2 DEF OBP!BookInvariant, OBP!TypeOK, OBP!BookIndexed,
                      OBP!QueuedOrdersAreLive, OBP!Side
<1> HIDE DEF resting
<1>4. heap'[incoming].side = side
  BY <1>1, <1>2, <1>3 DEF OB!Execute, resting
<1> DEFINE t == [buyOrderId  |-> IF side = "BUY" THEN incoming ELSE resting,
                 sellOrderId |-> IF side = "SELL" THEN incoming ELSE resting,
                 price       |-> p,
                 quantity    |-> OB!Executed(remaining, heap[resting].quantity),
                 tradeType   |-> IF OB!reduceQuantity(heap[resting].quantity,
                                      OB!Executed(remaining, heap[resting].quantity)) = 0
                                    /\ remaining' = 0
                                   THEN "FULL" ELSE "PARTIAL"]
<1>5. trades' = Append(trades, t)
  BY <1>2 DEF OB!Execute, resting
<1>6. AggressorOrderId(side, t) = incoming /\ PassiveOrderId(side, t) = resting
  BY <1>1 DEF AggressorOrderId, PassiveOrderId
<1> HIDE DEF t
<1> QED BY <1>1, <1>3, <1>4, <1>5, <1>6

LEMMA CallTradesNext ==
  ASSUME Tracking, OBP!BookInvariant, EngineCall, CallTrades, [Next]_vars
  PROVE  CallTrades'
<1>1. Len(trades) \in Nat /\ DOMAIN trades = 1 .. Len(trades)
  BY DEF OBP!BookInvariant, OBP!TypeOK
<1>2. CASE UNCHANGED <<bookVars, trackVars, request>>
  BY <1>2 DEF bookVars, trackVars, CallTrades, OwnTrade, AggressorOrderId, PassiveOrderId
<1>3. CASE request' = None
  BY <1>3 DEF CallTrades
<1>4. ASSUME NEW s, NEW side, NEW type, NEW price, NEW qty,
             BeginNewOrder(s, side, type, price, qty)
      PROVE  CallTrades'
  <2>1. trades' = <<>>
    BY <1>4 DEF BeginNewOrder, OB!AddOrder, OB!addToBook
  <2> QED BY <2>1 DEF CallTrades
<1>5. ASSUME NEW s, NEW id, NEW price, NEW qty, BeginModifyOrder(s, id, price, qty)
      PROVE  CallTrades'
  BY <1>5 DEF BeginModifyOrder, CallTrades
<1>6. CASE Match
  <2> SUFFICES ASSUME request # None, request.type = "NEW",
                      NEW i \in DOMAIN trades'
               PROVE  OwnTrade(heap[request.id].side, trades'[i])
    <3>1. request' = request /\ orderToSession' = orderToSession
      BY <1>6 DEF Match, trackVars
    <3>2. request # None => heap'[request.id].side = heap[request.id].side
      BY <1>6, MatchTrade DEF Match, Tracking, CallTracked
    <3> QED BY <3>1, <3>2 DEF CallTrades, OwnTrade, AggressorOrderId, PassiveOrderId
  <2>1. incoming = request.id /\ orders \subseteq DOMAIN orderToSession
    BY DEF Tracking, CallTracked, LiveOrdersTracked
  <2>2. PICK t :
          /\ trades' = Append(trades, t)
          /\ AggressorOrderId(heap[incoming].side, t) = incoming
          /\ PassiveOrderId(heap[incoming].side, t) \in orders \ {incoming}
    BY <1>6, MatchTrade DEF Match
  <2>3. OwnTrade(heap[request.id].side, t)
    BY <2>1, <2>2 DEF OwnTrade
  <2>4. trades'[i] = t \/ (i \in DOMAIN trades /\ trades'[i] = trades[i])
    <3>1. Listed(trades, Len(trades))
      BY <1>1 DEF Listed, OBP!BookInvariant, OBP!TypeOK
    <3>2. i \in 1 .. Len(trades) + 1
      BY <2>2, <3>1, AppendOne DEF Longer, Listed
    <3>3. CASE i = Len(trades) + 1
      BY <2>2, <3>1, <3>3, AppendOne DEF Longer
    <3>4. CASE i \in 1 .. Len(trades)
      BY <1>1, <2>2, <3>1, <3>4, AppendOne DEF Longer
    <3> QED BY <1>1, <3>2, <3>3, <3>4
  <2> QED BY <2>3, <2>4 DEF CallTrades
<1>7. ASSUME NEW s \in Session, HandleRequest(s) PROVE CallTrades'
  <2>1. ASSUME NEW id \in OrderId, AcceptCancelOrder(s, id) PROVE request' = None
    BY <2>1 DEF AcceptCancelOrder
  <2> QED BY <1>2, <1>3, <1>4, <1>5, <1>7, <2>1, HandlerCases DEF Harmless
<1> QED BY <1>2, <1>3, <1>6, <1>7 DEF Next, vars, EndNewOrder, EndModifyOrder

LEMMA CallTradesHolds == Spec => []CallTrades
<1>1. Init => CallTrades
  BY DEF Init, CallTrades
<1>2. Tracking /\ OBP!BookInvariant /\ EngineCall /\ CallTrades /\ [Next]_vars => CallTrades'
  BY CallTradesNext
<1> QED
  BY <1>1, <1>2, TrackingHolds, EngineBookInvariant, EngineCallHolds, PTL DEF Spec

\* m reports trade t of order id to session s.
IsReport(m, s, id, t) ==
  /\ m.type = "EXECUTION_REPORT" /\ m.session = s /\ m.orderId = id
  /\ m.execPrice = t.price /\ m.execQty = t.quantity

\* Two messages report trade j, to the owner of the incoming and of the resting
\* order.
Reported(q, j, side) ==
  LET passive == PassiveOrderId(side, trades[j]) IN
  /\ IsReport(q[2 * j - 1], request.session, request.id, trades[j])
  /\ IsReport(q[2 * j], orderToSession[passive], passive, trades[j])

LEMMA PublishedReports ==
  ASSUME NEW side, NEW leaves, Len(trades) \in Nat,
         \A i \in 1 .. Len(trades) :
           PassiveOrderId(side, trades[i]) \in DOMAIN orderToSession
  PROVE  LET q == Published(side, leaves)[Len(trades)].out IN
         /\ Listed(q, 2 * Len(trades))
         /\ \A j \in 1 .. Len(trades) : Reported(q, j, side)
<1> DEFINE n == Len(trades)
           pub == Published(side, leaves)
           Fine(q, i) == Listed(q, 2 * i) /\ \A j \in 1 .. i : Reported(q, j, side)
           G == {i \in 0 .. n : Fine(pub[i].out, i)}
<1>1. /\ pub[0] = [tradeId |-> nextTradeId, feed |-> <<>>, out |-> <<>>]
      /\ \A i \in 1 .. n : pub[i] = PublishTrade(pub[i - 1], trades[i], side, leaves)
  BY PublishedSteps
<1> HIDE DEF pub
<1>2. Fine(pub[0].out, 0)
  BY <1>1 DEF Listed
<1>3. ASSUME NEW i \in 0 .. n - 1, NEW p, Fine(p.out, i)
      PROVE  Fine(PublishTrade(p, trades[i + 1], side, leaves).out, i + 1)
  <2> DEFINE t == trades[i + 1]
             passive == PassiveOrderId(side, t)
             a == ExecutionReport(request.session, request.id, p.tradeId, t.price,
                                  t.quantity, leaves, side)
             b == ExecutionReport(orderToSession[passive], passive, p.tradeId + 1,
                                  t.price, t.quantity, 0, OB!Contra(side))
             q == p.out
             r == q \o <<a, b>>
  <2>1. PublishTrade(p, t, side, leaves).out = r
    <3>1. i + 1 \in 1 .. n
      OBVIOUS
    <3>2. passive \in DOMAIN orderToSession
      BY <3>1
    <3> QED BY <3>2 DEF PublishTrade
  <2>2. /\ IsReport(a, request.session, request.id, t)
        /\ IsReport(b, orderToSession[passive], passive, t)
    BY DEF IsReport, ExecutionReport
  <2> HIDE DEF a, b, q
  <2>3. /\ Listed(r, 2 * i + 2) /\ r[2 * i + 1] = a /\ r[2 * i + 2] = b
        /\ \A k \in 1 .. 2 * i : r[k] = q[k]
    <3>1. PICK m : m = 2 * i
      OBVIOUS
    <3>2. Listed(q, m)
      BY <1>3, <3>1 DEF q
    <3>3. LongerByTwo(q, m, r, a, b)
      BY <3>2, AppendTwo
    <3> HIDE DEF r
    <3> QED BY <3>1, <3>3 DEF LongerByTwo
  <2> HIDE DEF r
  <2>4. ASSUME NEW j \in 1 .. i + 1 PROVE Reported(r, j, side)
    <3>1. CASE j = i + 1
      <4>1. r[2 * j - 1] = a /\ r[2 * j] = b
        <5>1. 2 * j - 1 = 2 * i + 1 /\ 2 * j = 2 * i + 2
          BY <3>1
        <5> QED BY <2>3, <5>1
      <4> QED BY <2>2, <3>1, <4>1 DEF Reported
    <3>2. CASE j \in 1 .. i
      <4>1. r[2 * j - 1] = q[2 * j - 1] /\ r[2 * j] = q[2 * j]
        <5>1. 2 * j - 1 \in 1 .. 2 * i /\ 2 * j \in 1 .. 2 * i
          BY <3>2
        <5> QED BY <2>3, <5>1
      <4>2. Reported(q, j, side)
        BY <1>3, <3>2 DEF q
      <4> QED BY <4>1, <4>2 DEF Reported
    <3> QED BY <3>1, <3>2
  <2>5. 2 * (i + 1) = 2 * i + 2
    OBVIOUS
  <2> QED BY <2>1, <2>3, <2>4, <2>5
<1> HIDE DEF Fine
<1>4. 0 \in G
  BY <1>2
<1>5. ASSUME NEW i \in 0 .. n - 1, i \in G PROVE i + 1 \in G
  <2>1. pub[i + 1] = PublishTrade(pub[i], trades[i + 1], side, leaves)
    BY <1>1
  <2>2. Fine(pub[i].out, i)
    BY <1>5
  <2>3. Fine(pub[i + 1].out, i + 1)
    BY <1>3, <2>1, <2>2
  <2> QED BY <2>3
<1> HIDE DEF G
<1>6. n \in G
  <2>1. \A i \in 0 .. n : i \in G
    BY <1>4, <1>5, Counting
  <2> QED BY <2>1
<1>7. Fine(pub[n].out, n)
  BY <1>6 DEF G
<1> QED BY <1>7 DEF Fine, pub

LEMMA OddOrEven ==
  ASSUME NEW n \in Nat, NEW k \in 1 .. 2 * n
  PROVE  \E j \in 1 .. n : k = 2 * j - 1 \/ k = 2 * j
<1> DEFINE j == (k + 1) \div 2
<1>1. j \in 1 .. n /\ (k = 2 * j - 1 \/ k = 2 * j)
  OBVIOUS
<1> QED BY <1>1

\* Trades of an order and reports to its owner at matching positions.
LEMMA ReportsMatch ==
  ASSUME NEW msgs, NEW id, NEW d \in {0, 1}, TradesOf(id) \subseteq Nat,
         \A j \in TradesOf(id) : /\ 2 * j - d \in ReportsOf(msgs, id)
                                 /\ IsReport(msgs[2 * j - d], orderToSession[id], id,
                                             trades[j]),
         \A k \in ReportsOf(msgs, id) : \E j \in TradesOf(id) : k = 2 * j - d
  PROVE  ReportsTrades(msgs, id)
<1> DEFINE T == TradesOf(id)
           R == ReportsOf(msgs, id)
           f == [j \in T |-> 2 * j - d]
<1>1. f \in [T -> R]
  OBVIOUS
<1>2. \A i, j \in T : (i < j => f[i] < f[j]) /\ (f[i] = f[j] => i = j)
  OBVIOUS
<1>3. \A k \in R : \E j \in T : f[j] = k
  OBVIOUS
<1>4. f \in Bijection(T, R)
  BY <1>1, <1>2, <1>3 DEF Bijection, Injection, Surjection, IsInjective
<1>5. \A i \in T : /\ msgs[f[i]].session = orderToSession[id]
                   /\ msgs[f[i]].execPrice = trades[i].price
                   /\ msgs[f[i]].execQty = trades[i].quantity
  BY DEF IsReport
<1> HIDE DEF f
<1> QED BY <1>2, <1>4, <1>5 DEF ReportsTrades

LEMMA EndNewOrderReports ==
  ASSUME Tracking, OBP!BookInvariant, EngineCall, CallTrades, EndNewOrder,
         NEW id \in OrderId
  PROVE  ReportsTrades(out', id)
<1> DEFINE n == Len(trades)
           o == heap'[request.id]
           side == heap[request.id].side
           ack == OrderAck(request.session, request.id, o.status)
           q == Published(o.side, o.quantity)[n].out
           msgs == Append(q, ack)
<1>1. n \in Nat /\ DOMAIN trades = 1 .. n
  BY DEF OBP!BookInvariant, OBP!TypeOK
<1>2. /\ request # None /\ request.type = "NEW" /\ OB!Finish
      /\ out' = msgs
  BY DEF EndNewOrder
<1>3. /\ incoming = request.id /\ request.id \in OrderId
      /\ orderToSession[request.id] = request.session
      /\ heap \in [OrderId -> OBP!Order]
      /\ side \in {"BUY", "SELL"}
  BY <1>2, FinishReturns DEF Tracking, CallTracked, OBP!BookInvariant, OBP!TypeOK,
     OBP!CallInProgress, OBP!Side
<1>4. o.side = side
  <2>1. "side" \in DOMAIN heap[request.id]
    BY <1>3 DEF OBP!Order
  <2>2. CASE OB!FinishTraded
    BY <1>3, <2>1, <2>2 DEF OB!FinishTraded
  <2>3. CASE OB!FinishCancelled
    BY <1>3, <2>1, <2>3 DEF OB!FinishCancelled
  <2>4. CASE OB!FinishBooked
    BY <1>3, <2>1, <2>4 DEF OB!FinishBooked
  <2> QED BY <1>2, <2>2, <2>3, <2>4 DEF OB!Finish
<1>5. \A i \in 1 .. n : OwnTrade(side, trades[i])
  BY <1>1, <1>2 DEF CallTrades
<1>6. Listed(q, 2 * n) /\ \A j \in 1 .. n : Reported(q, j, side)
  <2>1. \A i \in 1 .. n : PassiveOrderId(o.side, trades[i]) \in DOMAIN orderToSession
    BY <1>4, <1>5 DEF OwnTrade
  <2>2. Listed(q, 2 * n) /\ \A j \in 1 .. n : Reported(q, j, o.side)
    BY <1>1, <2>1, PublishedReports
  <2> QED BY <1>4, <2>2
<1> HIDE DEF q, ack
<1>7. /\ DOMAIN msgs = 1 .. 2 * n + 1 /\ msgs[2 * n + 1] = ack
      /\ \A k \in 1 .. 2 * n : msgs[k] = q[k]
  <2>1. PICK m : m = 2 * n
    OBVIOUS
  <2>2. Longer(q, m, msgs, ack)
    BY <1>6, <2>1, AppendOne
  <2> HIDE DEF msgs
  <2> QED BY <2>1, <2>2 DEF Longer, Listed
<1> HIDE DEF msgs
<1>8. ack.type # "EXECUTION_REPORT"
  BY DEF ack, OrderAck
<1>9. ASSUME NEW j \in 1 .. n
      PROVE  LET passive == PassiveOrderId(side, trades[j]) IN
             /\ 2 * j - 1 \in DOMAIN msgs /\ 2 * j \in DOMAIN msgs
             /\ IsReport(msgs[2 * j - 1], request.session, request.id, trades[j])
             /\ IsReport(msgs[2 * j], orderToSession[passive], passive, trades[j])
             /\ passive # request.id
  <2>1. 2 * j - 1 \in 1 .. 2 * n /\ 2 * j \in 1 .. 2 * n
    BY <1>1
  <2>2. /\ 2 * j - 1 \in 1 .. 2 * n + 1 /\ 2 * j \in 1 .. 2 * n + 1
    BY <1>1
  <2>3. msgs[2 * j - 1] = q[2 * j - 1] /\ msgs[2 * j] = q[2 * j]
    BY <1>7, <2>1
  <2> QED BY <1>5, <1>6, <1>7, <2>2, <2>3 DEF Reported, OwnTrade
<1>10. ASSUME NEW k \in ReportsOf(msgs, id)
       PROVE  \E j \in 1 .. n : k = 2 * j - 1 \/ k = 2 * j
  <2>1. k \in 1 .. 2 * n + 1 /\ k # 2 * n + 1
    BY <1>7, <1>8 DEF ReportsOf
  <2>2. k \in 1 .. 2 * n
    BY <1>1, <2>1
  <2> QED BY <1>1, <2>2, OddOrEven
<1>11. \A j \in 1 .. n :
         j \in TradesOf(id) <=> id = request.id \/ id = PassiveOrderId(side, trades[j])
  BY <1>1, <1>3, <1>5 DEF OwnTrade, AggressorOrderId, PassiveOrderId, TradesOf
<1>12. TradesOf(id) \subseteq 1 .. n
  BY <1>1 DEF TradesOf
<1>13. CASE id = request.id
  <2>1. ASSUME NEW j \in TradesOf(id)
        PROVE  /\ 2 * j - 1 \in ReportsOf(msgs, id)
               /\ IsReport(msgs[2 * j - 1], orderToSession[id], id, trades[j])
    BY <1>3, <1>9, <1>12, <1>13 DEF ReportsOf, IsReport
  <2>2. ASSUME NEW k \in ReportsOf(msgs, id)
        PROVE  \E j \in TradesOf(id) : k = 2 * j - 1
    <3>1. PICK j \in 1 .. n : k = 2 * j - 1 \/ k = 2 * j
      BY <1>10
    <3>2. k # 2 * j
      BY <1>9, <1>13 DEF ReportsOf, IsReport
    <3> QED BY <1>11, <1>13, <3>1, <3>2
  <2>3. ReportsTrades(msgs, id)
    BY <1>1, <1>12, <2>1, <2>2, ReportsMatch
  <2> QED BY <1>2, <2>3
<1>14. CASE id # request.id
  <2>1. ASSUME NEW j \in TradesOf(id)
        PROVE  /\ 2 * j - 0 \in ReportsOf(msgs, id)
               /\ IsReport(msgs[2 * j - 0], orderToSession[id], id, trades[j])
    <3>1. j \in 1 .. n
      BY <1>12
    <3>2. id = PassiveOrderId(side, trades[j])
      BY <1>11, <1>14, <3>1
    <3>3. 2 * j - 0 = 2 * j
      BY <1>1, <3>1
    <3> QED BY <1>9, <3>1, <3>2, <3>3 DEF ReportsOf, IsReport
  <2>2. ASSUME NEW k \in ReportsOf(msgs, id)
        PROVE  \E j \in TradesOf(id) : k = 2 * j - 0
    <3>1. PICK j \in 1 .. n : k = 2 * j - 1 \/ k = 2 * j
      BY <1>10
    <3>2. k = 2 * j /\ id = PassiveOrderId(side, trades[j])
      BY <1>9, <1>14, <3>1 DEF ReportsOf, IsReport
    <3> QED BY <1>1, <1>11, <3>2
  <2>3. ReportsTrades(msgs, id)
    BY <1>1, <1>12, <2>1, <2>2, ReportsMatch
  <2> QED BY <1>2, <2>3
<1> QED BY <1>13, <1>14

\* A fill is never lost: when a new order has been matched, every order involved
\* has had each of its trades reported once and in order to its owner, however
\* many resting orders it met.
THEOREM FillsAreReported == Spec => FillsReported
<1>1. Tracking /\ OBP!BookInvariant /\ EngineCall /\ CallTrades /\ [Next]_vars =>
        [request # None /\ request' = None /\ request.type = "NEW" =>
           \A id \in OrderId : ReportsTrades(out', id)]_vars
  <2> SUFFICES ASSUME Tracking, OBP!BookInvariant, EngineCall, CallTrades, [Next]_vars,
                      request # None, request' = None, request.type = "NEW"
               PROVE  \A id \in OrderId : ReportsTrades(out', id)
    OBVIOUS
  <2>1. EndNewOrder
    <3>1. Len(trades) \in Nat /\ DOMAIN trades = 1 .. Len(trades)
      BY DEF OBP!BookInvariant, OBP!TypeOK
    <3>2. ~(Rejected \/ Answered \/ Begun \/ Match \/ EndModifyOrder \/ UNCHANGED vars)
      BY DEF Rejected, Answered, Begun, Match, EndModifyOrder, vars
    <3> QED BY <3>1, <3>2, HandlerKinds DEF Next, Tracking
  <2> QED BY <2>1, EndNewOrderReports
<1> QED
  BY <1>1, TrackingHolds, EngineBookInvariant, EngineCallHolds, CallTradesHolds, PTL
  DEF Spec, FillsReported

----------------------------------------------------------------------------
(* What the book promises, the engine keeps *)

\* Price-time priority, limit prices and the finality of closed orders hold of the
\* book under the engine, whatever requests it is sent.
THEOREM EngineKeepsPriority ==
  Spec => OBP!FillsFollowPriority /\ OBP!TimePriorityKept /\ OBP!LimitRespected
            /\ OBP!ClosedIsFinal
<1>1. OBP!BookAssumption => (OBP!Spec => OBP!FillsFollowPriority)
  BY OBP!PriorityIsRespected
<1>2. OBP!BookAssumption => (OBP!Spec => OBP!TimePriorityKept)
  BY OBP!TimePriorityIsKept
<1>3. OBP!BookAssumption => (OBP!Spec => OBP!LimitRespected)
  BY OBP!LimitIsRespected
<1>4. OBP!BookAssumption => (OBP!Spec => OBP!ClosedIsFinal)
  BY OBP!ClosedStaysClosed
<1> QED BY <1>1, <1>2, <1>3, <1>4, EngineBook, PTL
=============================================================================
