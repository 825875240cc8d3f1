SPECIFICATION MCSpec
CONSTANTS
  Ids = {i1, i2}
  Workers = {w1, w2}
  JournalCapacity = 2
  MaxEpoch = 2
  MaxLots = 1
  Slots = 1
SYMMETRY Symmetry
INVARIANTS
  ApprovedBeforeSend
  CapacityRespected
  UnknownHeldWasFenced
  
 
CHECK_DEADLOCK FALSE
