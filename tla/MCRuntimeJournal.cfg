SPECIFICATION MCSpec
CONSTANTS
  Ids = {i1, i2, i3}
  Workers = {w1, w2}
  Caller = w1
  Foreign = f
  JournalCapacity = 2
  MaxEpoch = 2
  Accounts = {"Open"}
  Quantities = {0}
  Jobs <- MCJobs
  MaxPages = 3
  Histories = {1, 2, 3, 4}
  MaxTime = 4
  Spans = {1, 2, 3}
SYMMETRY Symmetry
INVARIANTS
  AtMostOneSend
  FencedBeforeSend
  OutcomeFaithful
  HistoryIsWhole
  EvidenceIsSound
PROPERTY ImplementsContract
CHECK_DEADLOCK FALSE
