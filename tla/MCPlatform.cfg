SPECIFICATION PlatformSpec
CONSTANTS
  c1 = c1
  c2 = c2
  Calls = {c1, c2}
  Boot = boot
  Operations <- MCOperations
  Answers = {"absent", "orders"}
  ProviderErrors = {"WrongEnvironment"}
  MaxCredential = 2
  MaxRevision = 3
  MaxCrashes = 1
  MaxFaults = 1
  Users = {"u1", "u2"}
  PermissionSets <- MCPermissionSets
  Requests = {1}
  MaxTime = 2
  Bodies = {1, 2}
  MaxPublished = 3
  MaxRequests = 3
  BusCapacity = 1
  QueueCapacity = 3
INVARIANTS
  DisableIsFinal
  RuntimeFollowsAcknowledgement
  
PROPERTIES
  RecoveredIsConsistent
  RevisionsOnlyGrow
  
  AdministrationStaysClosed
  NoHoleUnderSequence
CHECK_DEADLOCK FALSE
