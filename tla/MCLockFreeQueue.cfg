SPECIFICATION FairSpec
CONSTANTS
  Capacity = 4
  Producer = {p1, p2}
  Locked = TRUE
  Item = {x, y}
  NoItem = NoItem
INVARIANTS
  TypeOK
  NoDataRace
PROPERTIES
  FifoSpec
  Drains
  LockReleased
