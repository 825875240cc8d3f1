SPECIFICATION RiskSpec
CONSTANTS
  Ids = {i1, i2}
  Callers = {c1, c2}
  MaxLots = 2
  OrderLots <- OrderLotsValue
  Orders = {"o1", "o2"}
  LotSize = 2
  Policies <- PoliciesValue
  Commands <- CommandsValue
  Positions <- PositionsValue
  LotLimits = {2}
  MaxRevision = 2
  LotBound = 4
  Cases <- CasesValue
  Submissions <- SubmissionsValue
  Uuids = {"u", "o2"}
  OpenLots <- OpenLotsValue
INVARIANTS
  MarketOrdersGoOut
CHECK_DEADLOCK FALSE
