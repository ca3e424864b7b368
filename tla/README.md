# Formal models of the exchange matching engine

TLA+ models of the exchange in this repository, the TLC configurations that
check them on small instances, and TLAPS proofs of the properties that matter
most for every value of the constants. `PROJECT.json` lists components, runs,
mutants, the map from definitions to source lines, findings, hazards and
theorems. Paths below are relative to the repository root.

## The system

The exchange is one process: the owner's thread, which starts and stops it, and
four threads with three bounded queues between them.

```
 clients --ZeroMQ--> network thread --inbound (MPSC)--> matching thread
    ^                     |  ^                ^              |      |
    |                     |  |                |              |      feed (SPSC)
    |                     |  +----- outbound (SPSC) ---------+      |
    +---------------------+                   |                feed thread
                                generator's thread                  |
 clients' receiver threads <------------- UDP multicast ------------+
```

| Component | State | Operations | Interacts with | Module |
|---|---|---|---|---|
| Order book (`Orderbook.cpp/.h`, `Order.h`) | bid and ask maps of FIFO queues, `orders_`, `price_to_leveldata_`, `trades` | AddOrder, ModifyOrder, CancelOrder, GetBestBid/Ask | called by the matching thread only | `Orderbook` |
| Matching engine (`MatchingEngine.cpp/.h`) | order and trade id counters, `sessionOrders_`, `orderToSession_`, last trade | handlers for new, cancel and modify requests; start, stop | pops inbound, calls the book, pushes outbound and feed | `MatchingEngine`, `Exchange` |
| Queues (`LockFreeQueue.h`) | ring buffer, `head_`, `tail_`, `producerLock_` | push, pop | shared by two or three threads | `LockFreeQueue`, `BoundedFifo` |
| Session manager (`SessionManager.h`) | sessions by id and by identity, two queues | create, destroy, route | called by the network thread, pushes inbound, pops outbound | `ZmqServer` |
| ZeroMQ server (`ZmqServer.cpp/.h`) | two identity maps, context and socket | start, stop, event loop: one request, then all responses | calls the session manager | `ZmqServer` |
| Feed handler (`FeedHandler.cpp/.h`) and UDP publisher (`UdpMulticast.cpp/.h`) | `running_`, socket | start, stop, pops the feed queue, multicasts | consumer of the feed queue | `Exchange` |
| Dummy generator (`DummyGenerator.cpp/.h`) | current price, schedule | start, stop, random orders at a fixed rate | second producer of the inbound queue | `DummyGenerator`, `ZmqServer`, `Exchange` |
| Exchange (`Exchange.cpp/.h`) | running and shutdown flags | start, stop, signals | owns everything above | `Exchange` |
| Client (`cpp_client/src/main.cpp`) | socket | one command, one response | the ZeroMQ server | `Client` |
| Multicast receiver (`UdpMulticastReceiver.cpp`) | `running_`, `socketFd_`, a detached thread | start, stop, receive loop | the client's main thread | `Client` |
| Main program (`src/main.cpp`) | | option parsing | the exchange | not modelled |

What is hard here: the book is sequential, but its containers are redundant
(an order is in a queue, in `orders_`, and counted in `price_to_leveldata_`)
and every operation has to keep all of them in step over long histories. The
engine keeps a second, separate account of the same orders, and tells clients
about them along different paths for new and for modified orders. The network
thread keeps the same table of clients four times. The queues are real
shared-memory concurrency with relaxed and acquire/release accesses, and every
push to a full one is silently lost. Start has to undo itself when a part fails;
stop joins the threads one after the other while messages are in flight. The
client reads one message per command from an exchange that sends several, and
its receiver thread is never joined. `hazards` in `PROJECT.json` lists each of
these at its line.

What makes each component correct:

* order book: the containers agree, the book is never crossed, fills follow
  price-time priority and limit prices, closed orders stay closed, quantities
  add up;
* matching engine: it uses the book only in ways the book allows, live orders
  are tracked with their owner, only owners change orders, responses say what
  happened, every fill is reported, the tick is current, requests are answered;
* queues: FIFO, nothing lost or duplicated, no data race, no lock kept;
* network: the tables agree, a response reaches its own client or nobody;
* life cycle: nothing is left running, requests and market data are drained from
  their queues, sockets outlive their threads, start and stop
  come to an end;
* generator: orders are an interval apart on average and come in no long burst,
  prices keep to their band, stop does not wait long;
* client: how far its answers lag behind its commands, when a wait ends, what
  the receiver thread may still do after stop.

## Modules

| Module | Models | Role |
|---|---|---|
| `Orderbook`, `OrderbookProofs` | order book | component, theorems |
| `MatchingEngine`, `MatchingEngineProofs` | matching engine; INSTANCE of `Orderbook` | composition, theorems |
| `BoundedFifo` | what a queue promises | abstract specification |
| `LockFreeQueue`, `LockFreeQueueProofs` | MPSCQueue and SPSCQueue; INSTANCE of `BoundedFifo` | component, refinement, theorems |
| `ZmqServer`, `ZmqServerProofs` | network thread with session manager | component, theorems |
| `Exchange`, `ExchangeProofs` | all threads with start and stop; INSTANCE of `ZmqServer` | composition, theorems |
| `DummyGenerator`, `DummyGeneratorProofs` | the generator's thread | component, theorems |
| `Client`, `ClientProofs` | command loop and multicast receiver | component, theorems |
| `SumProofs` | sums over finite sets and functions | induction and lemmas for the other proofs |
| `MC...` | | instances for TLC |

Operators named after a mistake (`priceCrossedStrict`, `PushCheckNoFull`, ...)
are mutants: plausible bugs in the definition that follows them. No
specification uses them; substituting one for its definition must break the
property it is paired with in `PROJECT.json`.

### Orderbook

`book["BUY"]` and `book["SELL"]` are `bids_` and `asks_`, functions from the
prices that are present to sequences of order ids; `heap` holds the `Order`
objects by id; `orders` is the key set of `orders_`; `levelData` is
`price_to_leveldata_`; `trades` is the vector of recent trades. A call of
`addToBook` is a start step (`AddOrder` or `ModifyOrder`), one `matchAgainst`
step per iteration of the inner matching loop, and one `Finish` step;
`incoming` names the order of the call in progress, `remaining` and
`originalQuantity` are its local variables. Invariants are therefore checked
in the middle of the loop too. The clamp inside `Order::reduceQuantity` is kept,
although the loop never asks for more than there is. The erasure of an empty level, which the code
does after the inner loop, is part of the step that empties it: no code
between the two looks at the map. Quantities live below `QMod`, 2^32 in the
code; sums of a level wrap there as in the code. Left out: timestamps (never
read), `PrintOrderbook`, the null-pointer branches (no null order is stored),
and the `price` field of the aggregates (equal to the key).

### MatchingEngine

The state of the book is the state of an instance of `Orderbook`; added are the
id counters, the two ownership maps, the last trade, the request in progress,
and the messages of the last handler: `out` (to the outbound queue) and `feed`
(to the feed queue). Handlers that reject or cancel are one step; handlers that
match are `BeginNewOrder`/`BeginModifyOrder`, `Match` steps, and
`EndNewOrder`/`EndModifyOrder`, which contains everything the handler does after
`orderbook_` returns, in order: trade updates and reports for each trade,
the acknowledgment, the clean-up of the maps, the tick. `ModifyOrderUnchanged`
is the handler when the book returns early. Message fields that only echo the
request are left out, as are `orderToClientOrderId_` (written with
`orderToSession_`, never read) and the statistics counters. The capacity of the
queues is not part of this module: `out` and `feed` are what the handler pushes.

### LockFreeQueue and BoundedFifo

Each access to shared memory is a step. Acquire loads of the other side's index
may return any value stored since the last one read (`Visible`), which covers
every execution the release/acquire pairs allow; `headSeen` is shared by the
producers because the lock orders them. Taking the lock is the exchange that
succeeds; failed exchanges change nothing. With `Locked = FALSE` and one
producer the module is SPSCQueue. `Contents`, the items between `head_` and
`tail_`, is the refinement mapping to `BoundedFifo`: a push takes effect at the
store of `tail_`, a pop at the store of `head_`, and a queue of capacity N holds
N - 1 items.

### ZmqServer

The network thread with the maps of `ZmqServer` (`identityToSession`,
`sessionToIdentity`) and of `SessionManager` (`sessions`, `identityOfManager`),
the session counter, and the inbound and outbound queues as the bounded FIFO
queues that `LockFreeQueue` implements. The maps are used by one thread at a
time (stop destroys sessions only after the join), so one iteration of
`processIncoming` and one of `processOutbound` are one step each. A message is a
record of the session it carries and of the client its contents belong to; that
ghost field lets `OwnResponses` say that a response left over from before a
restart does not reach somebody else. A malformed request opens a session and is
dropped; a request for a full queue is dropped without an answer; a response
whose session is gone is dropped. The frames of a request (identity, delimiter,
message) are read in one step; a client that sends no delimiter, so that the reads
take its frames for one another (`ZmqServer.cpp:110-127`), is not modelled. The engine is an environment that responds, at
any later time and any number of times, to sessions whose requests it has taken:
a resting order is reported to its owner long after its request. `StartFails`
leaves nothing, or the context and the socket when bind throws; the next start
would wait for that socket for ever, so none is possible in the model.

### Exchange

The life cycle. `main` and `left` are the position of the owner's thread in
`start` or `stop`: the components it still has to deal with, in the order of the
code. Starting a component is one step; stopping one is two, the store of
`running_` and the return of the join. A start that fails at the ZeroMQ server
unwinds with the same steps (`UnwindSequence`). Signals set `shutdownRequested`
at any time. The network thread and its tables are an instance of `ZmqServer`.
A handler of the matching engine is reduced to the pushes it makes, in order,
and to whose orders rest in the book; each push is a step, so that threads can be
stopped between any two. The outer and inner loops of the matching and the feed
thread become "pop while there is something, end when not running and empty",
which has the same behaviours because `running_` does not become true again in
the life of a thread. `EnableDummyGenerator` is the option: `TRUE` in the run
`exchange`, `FALSE`, the default of the program, in the
configurations whose property fails. `OrdersPerSecond` matters only by being 0 or not: without a rate the
generator's thread returns at once, which no run has and the proofs cover. A
handler is reduced to at most one trade, after which the rest of the incoming order
does not rest; no property depends on it. The feed queue is the number of its messages; its contents matter to no property.

### DummyGenerator

The thread against a clock that advances between any two of its steps: the
schedule (`nextOrderTime`), the reading of `running_`, the sleep that cannot be
interrupted, and the orders. Random numbers are choices: a number scaled and
truncated to an integer is any integer it can be truncated to. Division truncates
as in C++. `started`, `sent` and `before` record the history that `Paced` and
`RateKept` speak of: the instants at which orders are sent, which may be any time
after the reading of the clock they are scheduled by. `Interval` is the truncated
quotient of the code. With a rate of zero the thread ends at once.

### Client

The command loop of the C++ client next to its detached receiver thread. The
exchange is the environment: it answers a request with the reports of its fills
and then the answer, reports fills of resting orders at any time, and may lose a
request or an answer. A message is its ZeroMQ frames, because `zmqRecvPayload`
picks one of them. The receiver's descriptor is closed while the thread may be
waiting in it, and what the thread then gets is a choice. The model ends with
`main()`: the destruction of the receiver under a thread that still uses it, its
descriptor field and its handler (`UdpMulticastReceiver.cpp:17`, `:70`) is not
modelled. UDP contents are not
modelled.

## Runs

| Run | Instance | Distinct states | Shows |
|---|---|---|---|
| `book` | 4 orders, prices 1-2, quantities 1-2, all types | 391,666 | the ten safety properties of the book |
| `engine` | 3 orders, 2 clients and the generator's session, one price, invalid sides | 198,919 | tracking, acknowledgments, ownership, reports |
| `engine_requests` | 2 orders, 2 prices, invalid prices and quantities | 42,661 | the engine implements a client of the book's specification; the last tick is current; requests are acknowledged |
| `mpsc` | capacity 4, 2 producers, 2 items | 433,037 | FIFO refinement, race freedom, items are popped, the lock is released |
| `network` | 2 clients, 3 sessions, queues of 2 | 100,324 | the tables agree, responses reach their client, across restarts |
| `exchange` | 1 client, 1 session, queues of 1, 2 starts | 184,445 | what is started is taken down, what is queued is drained, sockets outlive threads, start and stop return |
| `generator` | base 12, range 1, tick 2, 2 orders per 5 ticks, 7 ticks | 711,312 | pace, sleep and price band |
| `client` | 4 requests, 4 reports | 7,926 | how far answers lag, when a wait ends, late datagrams |
| `book_quote`, `engine_cancel_ack`, `engine_stale_trades`, `exchange_disconnect` | the smallest instance that shows it | | violations, see Findings |

**Bounds.** Four orders are two resting orders at one level, an order at another
level or side, and an incoming one: enough for a fill that goes through a level
into the next, a partial fill, and a modify or cancel of an order before, at or
behind another. Two prices give better, equal and worse; quantities 1 and 2 give
exact, partial and excess fills. Order ids are given out once, so `MaxOrders`
bounds a behaviour; cancels and modifies of live orders are not bounded. The
engine run uses one price because two sides at one price already match; runs with
two prices use fewer orders. An invalid order type is not among the requests
that are checked; its check stands between two that are. A ring of four slots
wraps, fills up and runs empty with two producers; the proofs remove this bound
and cover SPSCQueue, whose behaviours are those of the locked queue with a single
producer. `QMod` is 16 in the run `book`, so that no sum of a level wraps:
`LevelDataExact` and `QuoteExact` hold only while none does. `book_quote` has `QMod`
4, where sums wrap, and shows what becomes of the quote then.
Three sessions for two clients let one client come back after a restart with a
new id while the other does not. Queues of one or two items fill up and overflow
within a handler. Two starts let a stopped exchange, or one whose start failed
before the socket, start again; `main.cpp` makes one. The generator's clock runs
long enough for four orders in a row and for a delay of more than one interval; its
tick does not divide its prices, so that rounding and adjustment both show. The client's four
requests and four reports let it fall behind, catch nothing up, and lose an
answer. The proofs remove all these bounds.

**Symmetry.** Producers and items are interchangeable, and so are the sessions
other than the generator's, and the clients of the network run. Order ids are
interchangeable in the book, which never compares two of them, but not in the
engine, which counts them up. Runs with liveness or a refinement under fairness
use no symmetry.

**Deadlock** is checked where the system can always go on (the engine rejects,
the consumer polls, the network server can be started and stopped). The book may
run out of order ids, the exchange out of starts, the generator out of time and
the client ends, so those runs do not check it.

**Fairness.** `MatchingEngine!FairSpec` assumes weak fairness of the steps of a
request in progress: the matching thread does not block anywhere inside a
handler. Nothing is assumed about requests arriving. The queue run assumes that
the consumer polls for ever (both consumers loop while running), that a store
becomes visible in the end, and that a thread inside `push` past the lock is
scheduled; it does not assume that a spinning producer ever gets the lock, which
the code does not guarantee. `Exchange!FairSpec` assumes that each thread is
scheduled and nothing more: nobody has to call start, send a request, raise a
signal or disconnect, and within a thread no alternative is favoured over
another, so clients and generator may keep the engine busy for ever.
`Client!FairSpec` assumes that a message that has arrived is read and that the
exchange answers what it has not lost; the user need not type and the receiver
thread need not run.

## Findings

Twelve statements of comments and documentation do not hold, and a counterexample
shows each. Four are runs of `PROJECT.json`, which quotes the statements:

1. `engine_cancel_ack` - resting orders that are filled stay in
   `orderToSession_`; cancelling one is acknowledged (`MatchingEngine.cpp:174`,
   `:199`).
2. `engine_stale_trades` - `ModifyOrder` returns early without clearing `trades`,
   and the handler publishes the old ones again (`Orderbook.cpp:30`, `:40`).
3. `book_quote` - a level whose 32-bit sum wraps to zero has no quote, although
   `Orderbook.h:118` promises one when the side has an order (`Orderbook.cpp:328`,
   `:344`).
4. `exchange_disconnect` - orders of a client that disconnects are not cancelled:
   nothing calls `handleClientDisconnect`, and nothing fills `activeOrders`
   (`ZmqServer.cpp:277`).

The others are local to a few lines of code. Their properties and configurations are
kept for the day the code is changed; TLC finds each violated in seconds
(`tlc -config <file>.cfg <module>`):

| Configuration, module | Property | The code | The statement |
|---|---|---|---|
| `MCMatchingEngineModify`, `MCMatchingEngine` | `AllFillsReported` | fills of a modify are reported to nobody (`MatchingEngine.cpp:243`) | `MatchingEngine.h:46` "6. Send ExecutionReport for any fills" |
| `MCMatchingEngineAck`, `MCMatchingEngine` | `AckBeforeReports` | the reports of a new order's fills are sent before its acknowledgment (`MatchingEngine.cpp:153`, `:171`) | `MatchingEngine.h:45-46` lists the acknowledgment as step 5 and the reports as step 6 |
| `MCMatchingEngineTradeIds`, `MCMatchingEngine` | `TradeIdsUnique` | a trade update carries the id that the aggressor's report takes next; a modify sends no report, so the counter stands still and all its updates share one id (`MatchingEngine.cpp:313`, `:391`). The updates of the trace are the stale trades of finding 2; a modify that matches two orders does the same | `FeedHandler.h:91` "Unique trade identifier" |
| `MCOrderbookIoc`, `MCOrderbook` | `IocPriceRespected` | an IOC order trades at any price (`Orderbook.cpp:125`) | `Orderbook.h:36` gives "Match at any price" to MARKET only; `cpp_client/src/main.cpp:46` "Demo price (limit/ioc)" |
| `MCExchangeOutbound`, `MCExchange` | `ResponsesDrained` | the network thread is joined before the engine drains the inbound queue, so the responses to those requests stay in the outbound queue (`Exchange.cpp:124`); after another start they are dropped (`OwnResponses`) | `Exchange.h:102-103` "to ensure proper cleanup and message draining" |
| `MCExchangeFull`, `MCExchange` | `ResponsesSent` | the result of the push is ignored, and a response for a full outbound queue is lost (`MatchingEngine.cpp:287` and the six other pushes) | `MatchingEngine.h:45` "5. Send OrderAck/OrderReject to outbound queue" |
| `MCClientLost`, `MCClient` | `EveryCommandReturns` | a client whose request or answer was lost waits for ever; the branch for a missing response is reached on an error only (`cpp_client/src/main.cpp:342`) | `cpp_client/src/main.cpp:341` "Read 1 response synchronously", and "[ZMQ] No response" in `:345` |
| `MCDummyGeneratorRate`, `MCDummyGenerator` | `RateKept` | the interval is truncated: a rate that does not divide 1000000 is exceeded, by up to a factor of nearly two, and above 1000000 the interval is zero (`DummyGenerator.cpp:54`) | `README.md:86` "Dummy orders per second" |

Noted without a run:

* a level whose wrapped total is no more than a fill loses its aggregate
  (`Orderbook.cpp:263-274`);
* the report of a resting order always says that nothing is left of it, also when it
  was partly filled, although `Protocol.h:149` calls the field the remaining quantity
  (`MatchingEngine.cpp:165`);
* the side adjustment follows the clamp and the rounding, so prices leave
  base +/- range by up to four ticks, which `PriceBand` bounds
  (`DummyGenerator.cpp:101`);
* a start after one that failed to bind does not return (`ZmqServer.cpp:23`);
  `StartAndStopReturn` excepts it;
* statistics printed after stop count no sessions, because stop has destroyed
  them;
* the client's receiver thread may outlive the object it uses
  (`UdpMulticastReceiver.cpp:70`).

## Proofs

All theorems hold for every value of the constants that satisfies the module's
`ASSUME`: for the book, prices are integers, quantities of requests are positive
and below `QMod`, and `None` is not an order id; for the engine, the same of its
requests (zero quantities and prices included) and `None` is no request; for the
queue, a positive capacity, and one producer if there is no lock (that the
capacity is a power of two is needed only to read `& (Capacity - 1)` as a
remainder, and no proof uses it); for the network, the generator's session id is
none the counter hands out; for the exchange, the same, and bounds that are natural
numbers; for the generator, a positive tick and no negative range.

Every safety property that a passing run checks is proved, `LevelDataExact` and
`QuoteExact` on the condition that no total wraps; what is left to TLC is liveness.

**Induction and sums** (`SumProofs`). The library's induction theorems take an
operator, which the provers cannot instantiate. Here a property is the set of the
values that have it, and the principle is derived from the well-foundedness of strict
inclusion (`SubsetInduction`) and of the order of the natural numbers (`Counting`).
With it, `SumFunctionOnSet`, which picks one element after the other, is shown to be
the sum in any order: what removing, adding or changing one element does to it
(`SumRemove`, `SumAdd`, `SumChange`), and that
renaming the elements leaves it alone (`SumImage`).

**Order book** (`OrderbookProofs`). The inductive invariant is

    BookInvariant == TypeOK /\ BookIndexed /\ Uncrossed /\ CallInProgress

`BookIndexed` alone is not inductive: while an order is modified it is in
`orders_` but in no queue, so one has to know what the call in progress may
assume (`CallInProgress`: the incoming order is open, has a side, a type and a
price of a request, and is still indexed only if it is a limit order; that it is
queued nowhere is part of `BookIndexed`). `Uncrossed` needs `BookIndexed`, because
it is preserved when a level is opened only if the loop ended at the best contra
price, and that level exists. The argument goes through lemmas about one level
(`RemoveFirstOnce`, `TailOnce`, `PushBackOnce`), about one side of the book
(`WithQueueStep`, `RemoveStep`, `PopStep`, `PushStep`), then one lemma per action.
From the invariant follow `TypeCorrect`, `BookIsIndexed`, `BookIsUncrossed`, and
the action properties `LimitIsRespected`, `PriorityIsRespected`, `ClosedStaysClosed`
and `TimePriorityIsKept`. The last rests on what removing, popping and pushing do to
the order of one queue (`RemoveFirstOrder`, `TailOrder`, `PushBackOrder`) and on
`LevelOrder`, which lifts that to the book.

Three theorems are about quantities. `TradesAddUp`: a fill appends a trade for what the
incoming order loses. `LevelDataIsExact`: a queue holds each order once, so its total
is the sum over its orders (`RunningTotalIsSum`, `QueueSumOfMembers`), and each
operation changes that sum and the entry of the level by the same amount
(`RemovalExact`, `FillExact`, `BookedExact`); because both sides of the book share one map of aggregates, it needs
`Uncrossed`. It cannot hold without a condition: the total wraps at the width of the
field. The theorem is therefore `Spec /\ []NoLevelWraps => []LevelDataExact`, where
`NoLevelWraps` is a condition on the behaviour: the code bounds neither the number of
orders nor their quantities below the width, so nothing implies it. `QuotesAreExact`
has the same condition, without which a side may have orders and no quote (finding 3).
That a side
with an order has a best level needs that its levels are finitely many (`LevelsFinite`).

**Matching engine** (`MatchingEngineProofs`). The inductive invariant is

    Tracking == TrackedIds /\ OrderFields /\ CallTracked /\ LiveOrdersTracked

An order is tracked before it is in the book and may be tracked after it has left,
so `LiveOrdersTracked` needs `CallTracked`: the order of the request in progress is
tracked, and a new one is tracked for its sender, is not in the book yet, and has
not been cancelled. `FinishStep` is the crux: a new order that is closed when its
call ends is not in the book, so it may be forgotten. `TrackedIds` says that only
ids that were handed out are tracked, so that a new order never takes over an old
entry. The theorems are `LiveOrdersAlwaysTracked`, `OnlyOwnersChangeOrders`, and
`UsesBook`: the engine implements `OB!Spec`. With `FitForBook`, which gives the
assumption of `Orderbook` from that of the engine, the theorems of `OrderbookProofs`
hold for the book in the engine. `OBP` is the instance of that module through which
they are cited; the definitions of `OB` and `OBP` are the same text, which
`SameOperators` and `SameNext` tell the prover. `EngineBookIsSound` and
`EngineKeepsPriority` restate the book's theorems for the engine, and its other
theorems use the book's invariant.

What the engine sends is the result of its trade loop, `Published`, a recursive
function of the number of trades. `PublishedSteps` gives its two equations,
`PublishedShape` what it leaves in the two queues, and `PublishedReports`, by
`Counting`, that trade `j` is reported by messages `2j - 1` and `2j`, to the owners of
the incoming and of the resting order. The invariants are `EngineCall` (the book is in
a call exactly while a request is in progress, and nothing has been sent for it yet)
and `CallTrades` (while a new order is matched, all recorded trades are its own, each
against another order whose owner is known; without this a report might look up an
order nobody owns). From them follow `EngineTypeCorrect`, `TickIsAlwaysCurrent`,
`AckAlwaysMatchesBook` and `FillsAreReported`. The last gives the bijection between the
trades of an order and the reports about it, which is one index for the incoming
order and one for each resting one, because a trade is never between an order and
itself. `CallTrades` says nothing of a modify, whose trades may be old ones: finding 2.

**Queues** (`LockFreeQueueProofs`). The inductive invariant is

    QueueInvariant == TypeOK /\ RingOrder /\ OneProducer /\ PushInProgress /\ PopInProgress

`RingOrder` is the heart: going round the ring one meets the head last read by a
producer, the head, the tail last read by the consumer, and the tail, in this
order, so that a stale index can make the queue look fuller or emptier than it is
but never the other way round. `%` is eliminated once, by `IncValue`,
`DistanceValue` and `SlotAfter`; the rest is linear arithmetic on distances
(`FarAdvances`, `NearAdvances`, `Between`). The invariant gives `DataRaceFree`;
with `PublishAppends` and `AdvancePops`, which say what the stores of `tail_` and
`head_` do to `Contents`, it gives the refinement `ImplementsFifo`.

**Network** (`ZmqServerProofs`). The inductive invariant is

    ServerInvariant == TypeOK /\ TablesAgree /\ IdsUsed /\ \A m \in InTransit : Own(m)

`OwnResponses` is not inductive: a response comes from a request in the inbound
queue, or from one taken long ago. `Own` is said of everything in transit, and adds
that the session id of a message has been handed out, so that a session created
later never has it (`IdsUsed`, and the counter is not reset by stop).

**Exchange** (`ExchangeProofs`). The lemma `UsesServer`, by the way the exchange
is put together, lets the server's theorems be used. The invariant `Lifecycle` relates the position in `start` and `stop` to
what runs: components still to be started are down, those not yet stopped are up,
the one being stopped is in between (`Phase`, `Threads`, `Server`), and a thread that
has left its loops has left nothing in its queue (`Quiet`). That its producers are
down by then is what the order of stop gives; it is why the queues stay empty after
their consumer has gone. From it follow `AllIsTakenDown`, `QueuesAreDrained` and
`SocketsStayOpen`. Through the instance `NetP` of `ZmqServerProofs` the server's
theorems are cited: `ExchangeServesSessions` restates them for the exchange, and
`ExchangeTypeCorrect` adds the types of the rest (`EngineTypes`: what the engine has
yet to answer, and whose orders rest in its book, comes from requests it has taken).

**Generator** (`DummyGeneratorProofs`). `GeneratorInvariant` adds to the properties the
`Schedule`: when the next order is due, as many intervals as orders have gone by
since the start; it is due no more than one interval after the last reading of the
clock, and no sooner than the reading before the last order, which is after the order
before that was sent. Hence the burst is bounded by three orders and not two. From it
follow `OrdersArePaced`, `SleepIsBounded`, `GeneratorTypeCorrect` and
`PricesStayInBand`, the last through lemmas about truncation and rounding.
`TruncatedInterval` is why the rate is exceeded by less than a factor of two; for a
rate of more than one order a tick `OrdersArePaced` says nothing.

**Client** (`ClientProofs`). The inductive invariant is

    ClientInvariant == Types /\ Places /\ Conserved /\ Balance /\ Lateness

`AnswersBehind` speaks of the prompt only; `Balance` is what holds everywhere: the
answers still to be read, or lost, are the reports that were read plus one while the
client waits. That a message which is read is an answer or a report, and changes the
count accordingly, needs lemmas about the cardinality of the answers in a sequence
(`CountAppend`, `CountReports`, `CountTail`). `Lateness` says that a thread past its
test of `running_` has handled no late datagram yet. `Conserved` bounds the counters:
reports read and under way are the reports sent, and requests, answers under way and
losses are no more than the requests sent. `Places` are the positions of the two
threads. The theorems are `ClientFallsBehind`, `AtMostOneLateDatagram` and
`ClientTypeCorrect`.

**Only model-checked.** Liveness (`RequestAnswered`, `Drains`, `LockReleased`,
`StartAndStopReturn`, `ReceiveReturns`): the prover does not reason about fairness
and ENABLED. That the statements under Findings fail is shown by the
counterexamples of their runs.

## Not modelled

* `cancelSessionOrders`, `handleClientDisconnect`, `addOrderToSession`,
  `removeOrderFromSession`, `isSessionActive`, `getIdentity`, `publishTick`,
  `publishTrade`: no path of the program reaches them. What follows from that is
  the finding of `exchange_disconnect`.
* Statistics counters and what prints them; they are read by nothing else.
* The byte layout of messages, ZeroMQ's own buffering and reconnection, and what UDP
  loses: library and wire I/O. A message is what its receiver does with it.
* Option parsing and console output of the programs (`main.cpp`, `cpp_client`).
* The full engine inside `Exchange`: its handlers there are their pushes, because
  `MatchingEngine` already has what they contain and the product is too large to
  check.

## Plan

1. A run of `Exchange` with two clients, when the state space allows it.
