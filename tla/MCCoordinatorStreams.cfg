SPECIFICATION Spec
CONSTANTS
  Kinds = {"capital", "unfamiliar"}
  Tasks = {t1, t2}
  StoreFails = TRUE
  Gaps = 1
  MaxVersion = 2
INVARIANTS
  
  OneReconciliation
SYMMETRY Symmetry
CHECK_DEADLOCK FALSE
