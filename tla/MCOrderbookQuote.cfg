SPECIFICATION Spec
CONSTANTS
  OrderId = {o1, o2}
  Price = {1}
  RequestQty = {1, 2, 3}
  QMod = 4
  None = None
INVARIANT QuoteWhenOrderExists
CHECK_DEADLOCK FALSE
