SPECIFICATION Spec
CONSTANTS
  BasePrice = 12
  PriceRange = 1
  TickSize = 2
  MinQuantity = 1
  MaxQuantity = 1
  OrdersPerSecond = 2
  Second = 5
  MaxTime = 7
INVARIANTS
  TypeOK
  Paced
  SleepBounded
  PriceBand
CHECK_DEADLOCK FALSE
