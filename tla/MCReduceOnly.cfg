SPECIFICATION AdmissionSpec
CONSTANTS
  Orders = {"o1", "o2"}
  LotSize = 2
  Policies <- PoliciesValue
  Commands <- CommandsValue
  LotLimits = {2}
  Positions <- PositionsValue
  MaxRevision = 2
  LotBound = 4
PROPERTIES
  ReduceOnlyAddsNothing
CHECK_DEADLOCK FALSE
