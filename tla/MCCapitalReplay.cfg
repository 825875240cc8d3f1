SPECIFICATION CapitalSpec
CONSTANTS
  Ids = {i1}
  Workers = {w1, w2}
  JournalCapacity = 1
  MaxEpoch = 1
  MaxLots = 1
  Slots = 2
PROPERTY CallReleasesOnlyUnsent
CHECK_DEADLOCK FALSE
