--------------------------- MODULE DummyGenerator ---------------------------
(***************************************************************************)
(* The dummy generator (src/DummyGenerator.cpp): the pace at which its     *)
(* thread sends orders, and the prices it gives them.                      *)
(*                                                                         *)
(* Random numbers are nondeterministic choices.  A number drawn from       *)
(* [0, 1) and scaled to an integer is any value it can be truncated to.    *)
(* Time is a clock that advances between any two steps of the thread, so   *)
(* the thread may be held up anywhere.  What becomes of an order at the    *)
(* inbound queue is in module ZmqServer.                                   *)
(***************************************************************************)
EXTENDS Integers

CONSTANTS
  BasePrice, PriceRange, TickSize, MinQuantity, MaxQuantity,
  OrdersPerSecond,
  Second,           \* clock ticks, microseconds in the code
  MaxTime           \* bound: time passes up to here

ASSUME ConfigAssumption ==
  /\ BasePrice \in Int /\ PriceRange \in Nat /\ TickSize \in Nat \ {0}
  /\ MinQuantity \in Nat /\ MaxQuantity \in Nat
  /\ OrdersPerSecond \in Nat /\ Second \in Nat /\ MaxTime \in Nat

VARIABLES
  running,        \* running_
  thread,         \* where the generator thread is
  clock,          \* steady_clock
  now,            \* the thread's last reading of it
  nextOrderTime,
  currentPrice,   \* currentPrice_
  request,        \* the last order
  started,        \* when the thread started
  sent,           \* orders generated since
  before          \* when the last three of them were sent, the earliest first

timeVars == <<clock, now, nextOrderTime, started>>
orderVars == <<currentPrice, request, sent, before>>
vars == <<running, thread, timeVars, orderVars>>

NoRequest == [side |-> "DEFAULT", type |-> "DEFAULT", price |-> 0, quantity |-> 0]

Init ==
  /\ running = FALSE
  /\ thread = "none"
  /\ clock = 0 /\ now = 0 /\ nextOrderTime = 0 /\ started = 0
  /\ currentPrice = BasePrice
  /\ request = NoRequest
  /\ sent = 0
  /\ before = <<0, 0, 0>>

\* Truncated, to 0 when the rate exceeds Second.  Only evaluated when
\* OrdersPerSecond is not 0.
Interval == Second \div OrdersPerSecond

----------------------------------------------------------------------------
(* Prices *)

\* Integer division of C++, which truncates.
Quotient(a, b) == IF a >= 0 THEN a \div b ELSE -((-a) \div b)

MinPrice == BasePrice - PriceRange
MaxPrice == BasePrice + PriceRange

\* Mutant: the walk is bounded below only.
ClampBelow(price) == IF price < MinPrice THEN MinPrice ELSE price

Clamp(price) ==
  IF price < MinPrice THEN MinPrice ELSE IF price > MaxPrice THEN MaxPrice ELSE price

\* (u - 0.5) * 2 * tickSize * 3, truncated, for u in [0, 1).
PriceChange == -3 * TickSize .. 3 * TickSize - 1

\* The price generatePrice returns for the new current price.
RoundToTick(price) ==
  LET rounded == Quotient(price, TickSize) * TickSize
  IN  IF rounded < 1 THEN TickSize ELSE rounded

\* Mutant: rounded up instead of truncated.
AdjustmentRoundedUp == 0 .. 5

\* u * 5, truncated, for u in [0, 1).
Adjustment == 0 .. 4

\* Buyers bid a little lower, sellers ask a little higher.
RequestPrice(side, price, steps) ==
  IF side = "BUY" THEN price - steps * TickSize ELSE price + steps * TickSize

Request(side, type, price, quantity) ==
  [side |-> side, type |-> type, price |-> price, quantity |-> quantity]

\* generateOrder.  A market order has price 0 and does not move the walk.
GenerateOrder ==
  \E side \in {"BUY", "SELL"}, quantity \in MinQuantity .. MaxQuantity :
    \/ /\ request' = Request(side, "MARKET", 0, quantity)
       /\ UNCHANGED currentPrice
    \/ \E type \in {"LIMIT", "IOC"}, change \in PriceChange, steps \in Adjustment :
         /\ currentPrice' = Clamp(currentPrice + change)
         /\ request' = Request(side, type,
                               RequestPrice(side, RoundToTick(currentPrice'), steps),
                               quantity)

----------------------------------------------------------------------------
(* The thread *)

Start ==
  /\ ~running /\ thread = "none"
  /\ running' = TRUE
  /\ currentPrice' = BasePrice
  /\ thread' = "begin"
  /\ UNCHANGED <<timeVars, request, sent, before>>

\* generatorLoop up to the loop; without a rate it returns.
Begin ==
  /\ thread = "begin"
  /\ thread' = IF OrdersPerSecond = 0 THEN "ended" ELSE "check"
  /\ now' = clock /\ nextOrderTime' = clock /\ started' = clock
  /\ request' = NoRequest
  /\ sent' = 0
  /\ before' = <<clock, clock, clock>>
  /\ UNCHANGED <<running, clock, currentPrice>>

\* The loop reads running_ and then the clock; in between nothing happens that
\* the other threads can see.
Check ==
  /\ thread = "check"
  /\ IF running
     THEN /\ now' = clock
          /\ thread' = IF clock >= nextOrderTime THEN "generate" ELSE "sleep"
     ELSE /\ thread' = "ended"
          /\ UNCHANGED now
  /\ UNCHANGED <<running, clock, nextOrderTime, started, orderVars>>

\* Mutant: a thread that has been held up makes up for the orders it missed.
NextOrderTimeCatchUp == nextOrderTime + Interval

\* Mutant: after a delay the interval is added once more.
NextOrderTimeTwice ==
  IF nextOrderTime + Interval < now THEN now + 2 * Interval ELSE nextOrderTime + Interval

\* The next order is due one interval after this one was; a thread that has
\* fallen behind by more than that starts a new schedule.
NextOrderTime ==
  IF nextOrderTime + Interval < now THEN now + Interval ELSE nextOrderTime + Interval

Generate ==
  /\ thread = "generate"
  /\ GenerateOrder
  /\ nextOrderTime' = NextOrderTime
  /\ sent' = sent + 1
  /\ before' = <<before[2], before[3], clock>>
  /\ thread' = "check"
  /\ UNCHANGED <<running, clock, now, started>>

\* sleep_until(nextOrderTime)
Wake ==
  /\ thread = "sleep" /\ clock >= nextOrderTime
  /\ thread' = "check"
  /\ UNCHANGED <<running, timeVars, orderVars>>

Tick ==
  /\ clock < MaxTime
  /\ clock' = clock + 1
  /\ UNCHANGED <<running, thread, now, nextOrderTime, started, orderVars>>

StopBegin ==
  /\ running
  /\ running' = FALSE
  /\ UNCHANGED <<thread, timeVars, orderVars>>

\* The thread is joined.
StopEnd ==
  /\ ~running /\ thread = "ended"
  /\ thread' = "none"
  /\ UNCHANGED <<running, timeVars, orderVars>>

Next ==
  \/ Start \/ StopBegin \/ StopEnd
  \/ Begin \/ Check \/ Generate \/ Wake
  \/ Tick

Spec == Init /\ [][Next]_vars
----------------------------------------------------------------------------
(* Properties *)

\* Every variable has its type; the walk stays in the configured range.
TypeOK ==
  /\ running \in BOOLEAN
  /\ thread \in {"none", "begin", "check", "generate", "sleep", "ended"}
  /\ clock \in Nat /\ now \in 0 .. clock /\ started \in 0 .. clock
  /\ nextOrderTime \in Nat
  /\ currentPrice \in MinPrice .. MaxPrice
  /\ request.quantity \in {0} \cup MinQuantity .. MaxQuantity
  /\ request.price \in Int
  /\ sent \in Nat
  /\ before[1] \in Nat /\ before[2] \in Nat /\ before[3] \in 0 .. clock

\* However the thread is held up, and whenever the orders leave it: n + 1 orders
\* take at least n intervals, which for a rate of at most one order a tick is
\* less than twice that rate, and a thread that has fallen behind does not flood
\* the engine: of four orders in a row, the last is sent at least one interval
\* after the first.  (Three may be sent at the same time, when the thread is
\* held up between reading the clock and sending.)  At a higher rate the
\* interval is 0, and nothing is bounded.
Paced ==
  /\ sent > 0 => (sent - 1) * Interval <= before[3] - started
  /\ sent > 0 /\ OrdersPerSecond <= Second =>
       (sent - 1) * Second <= 2 * OrdersPerSecond * (before[3] - started)
  /\ thread = "generate" /\ sent > 2 => before[1] + Interval <= now

\* README.md:86: the rate is that of the configuration, so that n + 1 orders
\* take the time n orders have at it.  The interval is truncated.
RateKept ==
  sent > 0 => (sent - 1) * Second <= OrdersPerSecond * (before[3] - started)

\* stop() waits for a sleeping thread for one interval at most.
SleepBounded == thread = "sleep" => nextOrderTime - now <= Interval

\* Prices are multiples of the tick, and leave the range by no more than the
\* adjustment and the rounding.  So a range that stays five ticks clear of zero,
\* as in main.cpp, gives no order a price the engine rejects.
PriceBand ==
  request.type \in {"LIMIT", "IOC"} =>
    /\ request.price % TickSize = 0
    /\ request.price <= (IF MaxPrice > TickSize THEN MaxPrice ELSE TickSize) + 4 * TickSize
    /\ MinPrice - 5 * TickSize < request.price
=============================================================================
