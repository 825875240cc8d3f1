SPECIFICATION StreamsSpec
CONSTANTS
  Instances = {1, 2}
  MaxAttempts = 2
  Capacity = 2
  MaxVersion = 2
  MaxBreaks = 2
  Capital = {"portfolio"}
  Desired = {"book", "trade"}
  Books = {"book"}
  MaxReconnects = 1
  MaxConnections = 2
  Times = {1, 2}
  Prints = {1, 2}
  Acks = {"trades", "info"}
  MaxFailures = 3
  MaxChanges = 2
  MaxForced = 1
  CommandCapacity = 2
  Calls = {1, 2}
  Jobs <- MCJobs
  Codes = {"Ok", "InvalidArgument", "DeadlineExceeded", "Unavailable", "Internal", "Http4xx", "Http5xx", "Timeout", "ResponseBody", "ResponseDecode"}
  ReadAttempts = 2
  FirstDelay = 1
  MaxDelay = 2
  Headers <- MCHeaders
  Now = 2
INVARIANT ConfirmedHere
INVARIANT VerdictIsSound
 
PROPERTY BreakIsNoticed
 
PROPERTY FeedMovesForward
PROPERTY RefreshTakesEffect
PROPERTY CallsEnd
CHECK_DEADLOCK FALSE
