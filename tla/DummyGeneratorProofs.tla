------------------------ MODULE DummyGeneratorProofs ------------------------
(***************************************************************************)
(* For every configuration of the dummy generator: the pace of its orders, *)
(* the time stop() waits for it, and the range of its prices.              *)
(***************************************************************************)
EXTENDS DummyGenerator, TLAPS

----------------------------------------------------------------------------
(* Prices *)

LEMMA Multiple ==
  ASSUME NEW k \in Int
  PROVE  (k * TickSize) % TickSize = 0
<1>1. TickSize \in Nat \ {0}
  BY ConfigAssumption
<1> QED BY <1>1

\* generatePrice truncates towards zero to a multiple of the tick.
LEMMA TruncatedPrice ==
  ASSUME NEW price \in Int
  PROVE  \E k \in Int :
           /\ Quotient(price, TickSize) = k
           /\ price >= 0 => k * TickSize <= price /\ price < k * TickSize + TickSize
           /\ price < 0 => k * TickSize <= 0
<1>1. TickSize \in Nat \ {0}
  BY ConfigAssumption
<1> QED BY <1>1 DEF Quotient

\* What generatePrice returns for a price of the walk.
LEMMA RoundedPrice ==
  ASSUME NEW price \in MinPrice .. MaxPrice
  PROVE  /\ \E k \in Int : RoundToTick(price) = k * TickSize
         /\ RoundToTick(price) <= (IF MaxPrice > TickSize THEN MaxPrice ELSE TickSize)
         /\ MinPrice - TickSize < RoundToTick(price)
<1>1. /\ TickSize \in Nat \ {0} /\ price \in Int /\ MinPrice \in Int /\ MaxPrice \in Int
      /\ MinPrice <= price /\ price <= MaxPrice
  BY ConfigAssumption DEF MinPrice, MaxPrice
<1>2. PICK k \in Int :
        /\ Quotient(price, TickSize) = k
        /\ price >= 0 => k * TickSize <= price /\ price < k * TickSize + TickSize
        /\ price < 0 => k * TickSize <= 0
  BY <1>1, TruncatedPrice
<1>3. PICK r \in Int : r = k * TickSize
  BY <1>1
<1>4. CASE r < 1
  <2>1. RoundToTick(price) = TickSize
    BY <1>2, <1>3, <1>4 DEF RoundToTick
  <2>2. TickSize = 1 * TickSize
    BY <1>1
  <2> QED BY <1>1, <1>2, <1>3, <1>4, <2>1, <2>2
<1>5. CASE ~(r < 1)
  <2>1. RoundToTick(price) = r
    BY <1>2, <1>3, <1>5 DEF RoundToTick
  <2> QED BY <1>1, <1>2, <1>3, <1>5, <2>1
<1> QED BY <1>4, <1>5

\* The price of a limit or IOC order.
LEMMA AdjustedPrice ==
  ASSUME NEW price \in MinPrice .. MaxPrice, NEW side, NEW steps \in Adjustment
  PROVE  LET p == RequestPrice(side, RoundToTick(price), steps) IN
         /\ p \in Int /\ p % TickSize = 0
         /\ p <= (IF MaxPrice > TickSize THEN MaxPrice ELSE TickSize) + 4 * TickSize
         /\ MinPrice - 5 * TickSize < p
<1> DEFINE p == RequestPrice(side, RoundToTick(price), steps)
<1>1. /\ TickSize \in Nat \ {0} /\ MinPrice \in Int /\ MaxPrice \in Int
      /\ steps \in 0 .. 4
  BY ConfigAssumption DEF MinPrice, MaxPrice, Adjustment
<1>2. PICK k \in Int : RoundToTick(price) = k * TickSize
  BY RoundedPrice
<1>3. PICK r \in Int :
        /\ RoundToTick(price) = r
        /\ r <= (IF MaxPrice > TickSize THEN MaxPrice ELSE TickSize)
        /\ MinPrice - TickSize < r
  BY <1>1, <1>2, RoundedPrice
<1>4. PICK d \in 0 .. 4 * TickSize : d = steps * TickSize
  BY <1>1
<1>5. p = IF side = "BUY" THEN r - d ELSE r + d
  BY <1>3, <1>4 DEF RequestPrice
<1>6. /\ p \in Int
      /\ p <= (IF MaxPrice > TickSize THEN MaxPrice ELSE TickSize) + 4 * TickSize
      /\ MinPrice - 5 * TickSize < p
  <2> HIDE DEF p
  <2> QED BY <1>1, <1>3, <1>4, <1>5
<1>7. p % TickSize = 0
  <2>1. CASE side = "BUY"
    <3>1. p = (k - steps) * TickSize
      BY <1>1, <1>2, <1>3, <1>4, <1>5, <2>1
    <3> QED BY <1>1, <3>1, Multiple
  <2>2. CASE side # "BUY"
    <3>1. p = (k + steps) * TickSize
      BY <1>1, <1>2, <1>3, <1>4, <1>5, <2>2
    <3> QED BY <1>1, <3>1, Multiple
  <2> QED BY <2>1, <2>2
<1> QED BY <1>6, <1>7

----------------------------------------------------------------------------
(* The inductive invariant *)

\* The schedule: as many intervals as orders have gone by since the start when
\* the next order is due.  It is due no sooner than the clock was read for the
\* last one, and so than the one before that was sent.
Schedule ==
  /\ OrdersPerSecond = 0 => sent = 0 /\ thread \in {"none", "begin", "ended"}
  /\ OrdersPerSecond # 0 =>
       /\ sent * Interval <= nextOrderTime - started
       /\ sent > 1 => before[2] <= nextOrderTime
       /\ sent > 2 => before[1] + Interval <= nextOrderTime
       /\ thread = "generate" => nextOrderTime <= now /\ (sent > 0 => before[3] <= now)
       /\ thread \in {"check", "generate", "sleep"} => nextOrderTime <= now + Interval
       /\ sent > 0 => (sent - 1) * Interval <= before[3] - started

GeneratorInvariant ==
  /\ TypeOK /\ started <= now /\ before \in Nat \X Nat \X Nat
  /\ Schedule /\ PriceBand

LEMMA IntervalType == OrdersPerSecond # 0 => Interval \in Nat
BY ConfigAssumption DEF Interval

LEMMA InvariantInit == Init => GeneratorInvariant
<1> SUFFICES ASSUME Init PROVE GeneratorInvariant
  OBVIOUS
<1>1. TypeOK /\ started <= now /\ before \in Nat \X Nat \X Nat
  <2>1. currentPrice \in MinPrice .. MaxPrice
    BY ConfigAssumption DEF Init, MinPrice, MaxPrice
  <2>2. request.quantity = 0 /\ request.price = 0
    BY DEF Init, NoRequest
  <2>3. /\ before \in Nat \X Nat \X Nat /\ before[1] \in Nat /\ before[2] \in Nat
        /\ before[3] \in 0 .. clock
    BY DEF Init
  <2>4. /\ running \in BOOLEAN
        /\ thread \in {"none", "begin", "check", "generate", "sleep", "ended"}
    BY DEF Init
  <2>5. /\ clock \in Nat /\ now \in 0 .. clock /\ started \in 0 .. clock
        /\ nextOrderTime \in Nat /\ sent \in Nat /\ started <= now
    BY DEF Init
  <2> QED BY <2>1, <2>2, <2>3, <2>4, <2>5 DEF TypeOK
<1>2. Schedule
  BY IntervalType DEF Init, Schedule
<1>3. PriceBand
  BY DEF Init, PriceBand, NoRequest
<1> QED BY <1>1, <1>2, <1>3 DEF GeneratorInvariant

\* generateOrder
LEMMA GenerateOrderStep ==
  ASSUME TypeOK, GenerateOrder, PriceBand
  PROVE  /\ currentPrice' \in MinPrice .. MaxPrice
         /\ request'.quantity \in {0} \cup MinQuantity .. MaxQuantity
         /\ request'.price \in Int
         /\ PriceBand'
<1>1. /\ MinPrice \in Int /\ MaxPrice \in Int /\ MinPrice <= MaxPrice
      /\ currentPrice \in MinPrice .. MaxPrice /\ TickSize \in Nat \ {0}
  BY ConfigAssumption DEF MinPrice, MaxPrice, TypeOK
<1>2. PICK side \in {"BUY", "SELL"}, quantity \in MinQuantity .. MaxQuantity :
        \/ /\ request' = Request(side, "MARKET", 0, quantity)
           /\ UNCHANGED currentPrice
        \/ \E type \in {"LIMIT", "IOC"}, change \in PriceChange, steps \in Adjustment :
             /\ currentPrice' = Clamp(currentPrice + change)
             /\ request' = Request(side, type,
                             RequestPrice(side, RoundToTick(currentPrice'), steps), quantity)
  BY DEF GenerateOrder
<1>3. CASE request' = Request(side, "MARKET", 0, quantity) /\ UNCHANGED currentPrice
  BY <1>1, <1>3 DEF Request, PriceBand
<1>4. ASSUME NEW type \in {"LIMIT", "IOC"}, NEW change \in PriceChange, NEW steps \in Adjustment,
             currentPrice' = Clamp(currentPrice + change),
             request' = Request(side, type,
                          RequestPrice(side, RoundToTick(currentPrice'), steps), quantity)
      PROVE  /\ currentPrice' \in MinPrice .. MaxPrice
             /\ request'.quantity \in {0} \cup MinQuantity .. MaxQuantity
             /\ request'.price \in Int
             /\ PriceBand'
  <2>1. currentPrice + change \in Int
    BY <1>1, <1>4 DEF PriceChange
  <2>2. currentPrice' \in MinPrice .. MaxPrice
    BY <1>1, <1>4, <2>1 DEF Clamp
  <2>3. PICK price \in MinPrice .. MaxPrice : price = currentPrice'
    BY <2>2
  <2>4. /\ request'.price = RequestPrice(side, RoundToTick(price), steps)
        /\ request'.quantity = quantity
    BY <1>4, <2>3 DEF Request
  <2> QED
    BY <2>2, <2>4, AdjustedPrice DEF PriceBand
<1> QED BY <1>2, <1>3, <1>4

\* One more interval for one more order.
LEMMA OneMore ==
  ASSUME NEW n \in Nat, NEW i \in Nat
  PROVE  (n + 1) * i = n * i + i /\ n * i \in Nat
OBVIOUS

\* What is due within an interval of an instant is so for every later one.
LEMMA LaterStill ==
  ASSUME NEW due \in Nat, NEW a \in Nat, NEW b \in Nat, NEW i \in Nat, due <= a + i, a <= b
  PROVE  due <= b + i
OBVIOUS

LEMMA GenerateStep ==
  ASSUME GeneratorInvariant, Generate
  PROVE  GeneratorInvariant'
<1> USE DEF GeneratorInvariant
<1>1. /\ thread = "generate" /\ thread' = "check"
      /\ nextOrderTime' = NextOrderTime
      /\ sent' = sent + 1 /\ before' = <<before[2], before[3], clock>>
      /\ UNCHANGED <<running, clock, now, started>>
  BY DEF Generate
<1>2. OrdersPerSecond # 0 /\ Interval \in Nat
  BY <1>1, IntervalType DEF Schedule
<1>3. /\ clock \in Nat /\ now \in Nat /\ now <= clock /\ started \in Nat /\ started <= now
      /\ nextOrderTime \in Nat /\ sent \in Nat /\ before[1] \in Nat /\ before[2] \in Nat
      /\ before[3] \in Nat /\ before[3] <= clock
  BY DEF TypeOK
<1>4. /\ nextOrderTime' \in Nat
      /\ nextOrderTime + Interval <= nextOrderTime'
      /\ nextOrderTime' <= now + Interval
      /\ now <= nextOrderTime'
  BY <1>1, <1>2, <1>3 DEF NextOrderTime, Schedule
<1>5. sent' * Interval = sent * Interval + Interval /\ sent * Interval \in Nat
  BY <1>1, <1>2, <1>3, OneMore
<1>6. /\ before' \in Nat \X Nat \X Nat
      /\ before'[1] = before[2] /\ before'[2] = before[3] /\ before'[3] = clock
  BY <1>1, <1>3
<1>7. TypeOK' /\ PriceBand'
  <2>1. GenerateOrder
    BY DEF Generate
  <2> QED BY <1>1, <1>3, <1>4, <1>6, <2>1, GenerateOrderStep DEF TypeOK
<1>8. /\ sent' * Interval <= nextOrderTime' - started'
      /\ (sent' - 1) * Interval <= before'[3] - started'
  <2>1. sent * Interval <= nextOrderTime - started /\ nextOrderTime <= now
    BY <1>1, <1>2 DEF Schedule
  <2>2. sent' - 1 = sent
    BY <1>1, <1>3
  <2> QED BY <1>1, <1>2, <1>3, <1>4, <1>5, <1>6, <2>1, <2>2
<1>9. /\ sent' > 1 => before'[2] <= nextOrderTime'
      /\ sent' > 2 => before'[1] + Interval <= nextOrderTime'
      /\ nextOrderTime' <= now' + Interval
  <2>1. /\ sent > 1 => before[2] <= nextOrderTime
        /\ sent > 0 => before[3] <= now
    BY <1>1, <1>2 DEF Schedule
  <2> QED BY <1>1, <1>2, <1>3, <1>4, <1>6, <2>1
<1>10. Schedule'
  BY <1>1, <1>2, <1>8, <1>9 DEF Schedule
<1> QED BY <1>1, <1>3, <1>6, <1>7, <1>10

LEMMA InvariantStep == GeneratorInvariant /\ [Next]_vars => GeneratorInvariant'
<1> SUFFICES ASSUME GeneratorInvariant, [Next]_vars PROVE GeneratorInvariant'
  OBVIOUS
<1> USE DEF GeneratorInvariant, timeVars, orderVars
<1>1. /\ clock \in Nat /\ now \in Nat /\ now <= clock /\ started \in Nat /\ started <= now
      /\ nextOrderTime \in Nat /\ sent \in Nat /\ before[1] \in Nat /\ before[2] \in Nat
      /\ before[3] \in Nat /\ before[3] <= clock
      /\ TickSize \in Nat \ {0} /\ PriceRange \in Nat /\ BasePrice \in Int
  BY ConfigAssumption DEF TypeOK
<1>2. CASE Start
  <2>1. currentPrice' \in MinPrice .. MaxPrice
    BY <1>1, <1>2 DEF Start, MinPrice, MaxPrice
  <2>2. /\ thread = "none" /\ thread' = "begin" /\ running' = TRUE
        /\ UNCHANGED <<clock, now, nextOrderTime, started, request, sent, before>>
    BY <1>2 DEF Start
  <2>3. TypeOK' /\ PriceBand'
    BY <2>1, <2>2 DEF TypeOK, PriceBand
  <2>4. Schedule'
    BY <2>2 DEF Schedule
  <2> QED BY <2>2, <2>3, <2>4
<1>3. CASE StopBegin \/ StopEnd \/ UNCHANGED vars
  <2>1. /\ UNCHANGED <<clock, now, nextOrderTime, started, currentPrice, request, sent, before>>
        /\ running' \in BOOLEAN
        /\ thread' = thread \/ thread' = "none"
    BY <1>3 DEF StopBegin, StopEnd, vars, TypeOK
  <2>2. TypeOK' /\ PriceBand'
    BY <2>1 DEF TypeOK, PriceBand
  <2>3. Schedule'
    BY <2>1 DEF Schedule
  <2> QED BY <2>1, <2>2, <2>3
<1>4. CASE Begin
  <2>1. 0 * Interval = 0 \/ OrdersPerSecond = 0
    BY IntervalType
  <2>2. /\ TypeOK' /\ started' <= now' /\ before' \in Nat \X Nat \X Nat /\ PriceBand'
    BY <1>1, <1>4 DEF Begin, TypeOK, PriceBand, NoRequest
  <2>3. Schedule'
    BY <1>1, <1>4, <2>1, IntervalType DEF Begin, Schedule
  <2> QED BY <2>2, <2>3
<1>5. CASE Check
  <2>1. /\ TypeOK' /\ started' <= now' /\ PriceBand'
    BY <1>1, <1>5 DEF Check, TypeOK, PriceBand
  <2>2. UNCHANGED <<nextOrderTime, started, sent, before>> /\ now <= now' /\ now' \in Nat
    BY <1>1, <1>5 DEF Check
  <2>3. Schedule'
    <3>1. CASE OrdersPerSecond = 0
      BY <1>5, <3>1 DEF Check, Schedule
    <3>2. CASE OrdersPerSecond # 0
      <4>1. Interval \in Nat
        BY <3>2, IntervalType
      <4>2. /\ thread' = "generate" => nextOrderTime <= now' /\ now' = clock
            /\ thread' \in {"generate", "sleep", "ended"}
        BY <1>5 DEF Check
      <4>3. nextOrderTime <= now' + Interval
        <5>1. nextOrderTime <= now + Interval
          BY <1>5, <3>2 DEF Check, Schedule
        <5> QED BY <1>1, <2>2, <4>1, <5>1, LaterStill
      <4> QED BY <1>1, <2>2, <3>2, <4>2, <4>3 DEF Schedule
    <3> QED BY <3>1, <3>2
  <2> QED BY <2>1, <2>2, <2>3
<1>6. CASE Generate
  BY <1>6, GenerateStep
<1>7. CASE Wake
  <2>1. /\ thread = "sleep" /\ thread' = "check"
        /\ UNCHANGED <<running, clock, now, nextOrderTime, started, currentPrice, request,
                       sent, before>>
    BY <1>7 DEF Wake
  <2>2. TypeOK' /\ PriceBand'
    BY <2>1 DEF TypeOK, PriceBand
  <2>3. Schedule'
    BY <2>1 DEF Schedule
  <2> QED BY <2>1, <2>2, <2>3
<1>8. CASE Tick
  <2>1. /\ clock' = clock + 1
        /\ UNCHANGED <<running, thread, now, nextOrderTime, started, currentPrice, request,
                       sent, before>>
    BY <1>8 DEF Tick
  <2>2. TypeOK' /\ PriceBand'
    BY <1>1, <2>1 DEF TypeOK, PriceBand
  <2>3. Schedule'
    BY <2>1 DEF Schedule
  <2> QED BY <2>1, <2>2, <2>3
<1> QED BY <1>2, <1>3, <1>4, <1>5, <1>6, <1>7, <1>8 DEF Next

LEMMA InvariantHolds == Spec => []GeneratorInvariant
BY InvariantInit, InvariantStep, PTL DEF Spec

----------------------------------------------------------------------------
(* Theorems *)

\* The walk of currentPrice_ stays in the configured range, and the clock is
\* read in order.
THEOREM GeneratorTypeCorrect == Spec => []TypeOK
<1>1. GeneratorInvariant => TypeOK
  BY DEF GeneratorInvariant
<1> QED BY <1>1, InvariantHolds, PTL

\* The interval falls short of the exact one by less than a tick.
LEMMA TruncatedInterval ==
  ASSUME OrdersPerSecond # 0, OrdersPerSecond <= Second
  PROVE  Second <= 2 * OrdersPerSecond * Interval
<1>1. OrdersPerSecond \in Nat /\ OrdersPerSecond > 0 /\ Second \in Nat
  BY ConfigAssumption
<1>2. PICK i \in Nat : i = Interval
  BY <1>1, IntervalType
<1>3. OrdersPerSecond * i <= Second /\ Second < OrdersPerSecond * (i + 1)
  BY <1>1, <1>2 DEF Interval
<1>4. i > 0
  BY <1>1, <1>2, <1>3
<1>5. OrdersPerSecond * (i + 1) = OrdersPerSecond * i + OrdersPerSecond
  BY <1>1
<1>6. PICK p \in Nat : p = OrdersPerSecond * i /\ OrdersPerSecond <= p
  BY <1>1, <1>4
<1>7. 2 * OrdersPerSecond * i = 2 * p
  BY <1>1, <1>6
<1> QED BY <1>1, <1>2, <1>3, <1>5, <1>6, <1>7

LEMMA Monotone ==
  ASSUME NEW n \in Nat, NEW a \in Nat, NEW b \in Nat, a <= b
  PROVE  n * a \in Nat /\ n * b \in Nat /\ n * a <= n * b
<1>1. PICK d \in Nat : b = a + d
  OBVIOUS
<1>2. n * b = n * a + n * d /\ n * a \in Nat /\ n * d \in Nat
  BY <1>1
<1> QED BY <1>2

\* n intervals have the time n orders take at twice the configured rate.
LEMMA TwiceTheRate ==
  ASSUME OrdersPerSecond # 0, OrdersPerSecond <= Second,
         NEW n \in Nat, NEW t \in Nat, n * Interval <= t
  PROVE  n * Second <= 2 * OrdersPerSecond * t
<1>1. OrdersPerSecond \in Nat /\ Second \in Nat /\ Second <= 2 * OrdersPerSecond * Interval
  BY ConfigAssumption, TruncatedInterval
<1>2. PICK i \in Nat : i = Interval
  BY IntervalType
<1>3. PICK r \in Nat : r = 2 * OrdersPerSecond
  BY <1>1
<1>4. n * Second <= n * (r * i)
  BY <1>1, <1>2, <1>3, Monotone
<1>5. r * (n * i) <= r * t
  BY <1>2, Monotone
<1>6. n * (r * i) = r * (n * i)
  OBVIOUS
<1> QED BY <1>1, <1>3, <1>4, <1>5, <1>6

\* Orders leave the generator at no more than twice the configured rate, as far
\* as the clock resolves it, and a thread that was held up does not make up for
\* the orders it missed.
THEOREM OrdersArePaced == Spec => []Paced
<1>1. GeneratorInvariant => Paced
  <2>1. SUFFICES ASSUME GeneratorInvariant PROVE Paced
    OBVIOUS
  <2>2. CASE OrdersPerSecond = 0
    BY <2>1, <2>2 DEF GeneratorInvariant, Schedule, Paced
  <2>3. CASE OrdersPerSecond # 0
    <3>1. Interval \in Nat
      BY <2>3, IntervalType
    <3>2. /\ sent > 0 => (sent - 1) * Interval <= before[3] - started
          /\ sent > 2 => before[1] + Interval <= nextOrderTime
          /\ thread = "generate" => nextOrderTime <= now
      BY <2>1, <2>3 DEF GeneratorInvariant, Schedule
    <3>3. /\ before[1] \in Nat /\ before[3] \in Nat /\ nextOrderTime \in Nat
          /\ now \in Nat /\ started \in Nat /\ sent \in Nat
      BY <2>1 DEF GeneratorInvariant, TypeOK
    <3>4. ASSUME sent > 0, OrdersPerSecond <= Second
          PROVE  (sent - 1) * Second <= 2 * OrdersPerSecond * (before[3] - started)
      <4>1. PICK n \in Nat : n = sent - 1
        BY <3>3, <3>4
      <4>2. n * Interval \in Nat /\ n * Interval <= before[3] - started
        BY <3>1, <3>2, <3>4, <4>1
      <4>3. PICK t \in Nat : t = before[3] - started
        BY <3>3, <4>2
      <4> QED BY <2>3, <3>4, <4>1, <4>2, <4>3, TwiceTheRate
    <3> QED BY <3>1, <3>2, <3>3, <3>4 DEF Paced
  <2> QED BY <2>2, <2>3
<1> QED BY <1>1, InvariantHolds, PTL

\* stop() joins a sleeping thread after one interval at most.
THEOREM SleepIsBounded == Spec => []SleepBounded
<1>1. GeneratorInvariant => SleepBounded
  <2>1. SUFFICES ASSUME GeneratorInvariant, thread = "sleep"
        PROVE  nextOrderTime - now <= Interval
    BY DEF SleepBounded
  <2>2. OrdersPerSecond # 0 /\ nextOrderTime <= now + Interval
    BY <2>1 DEF GeneratorInvariant, Schedule
  <2>3. Interval \in Nat /\ nextOrderTime \in Nat /\ now \in Nat
    BY <2>1, <2>2, IntervalType DEF GeneratorInvariant, TypeOK
  <2> QED BY <2>2, <2>3
<1> QED BY <1>1, InvariantHolds, PTL

\* Every limit and IOC price is a multiple of the tick, at most four ticks and
\* the rounding outside the range.
THEOREM PricesStayInBand == Spec => []PriceBand
<1>1. GeneratorInvariant => PriceBand
  BY DEF GeneratorInvariant
<1> QED BY <1>1, InvariantHolds, PTL
=============================================================================
