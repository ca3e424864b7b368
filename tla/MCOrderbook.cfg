SPECIFICATION Spec
CONSTANTS
  OrderId = {o1, o2, o3, o4}
  Price = {1, 2}
  RequestQty = {1, 2}
  QMod = 16
  None = None
SYMMETRY OrderIdSymmetry
INVARIANTS
  TypeOK
  BookIndexed
  Uncrossed
  LevelDataExact
  TradesAccountForFill
  QuoteExact
PROPERTIES
  TimePriorityKept
  FillsFollowPriority
  ClosedIsFinal
  LimitRespected
CHECK_DEADLOCK FALSE
