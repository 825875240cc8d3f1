SPECIFICATION Spec
CONSTANTS
  Kinds = {"capital", "unfamiliar"}
  Tasks = {t1}
  StoreFails = FALSE
  Gaps = 0
  MaxVersion = 2
INVARIANT GateReflectsAccount
CHECK_DEADLOCK FALSE
