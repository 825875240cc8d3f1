SPECIFICATION CapitalSpec
CONSTANTS
  Ids = {i1}
  Workers = {w1}
  JournalCapacity = 1
  MaxEpoch = 1
  MaxLots = 1
  Slots = 1
INVARIANT DoubtIsHeld
CHECK_DEADLOCK FALSE
