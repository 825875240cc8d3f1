SPECIFICATION FairSpec
CONSTANTS
  Kinds = {"capital"}
  Tasks = {t1, t2}
  StoreFails = FALSE
  Gaps = 0
  MaxVersion = 2

  
  
PROPERTIES
  
  
  ReadyOpens
CHECK_DEADLOCK FALSE
