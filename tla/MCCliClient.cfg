CONSTANTS
  Clients = {1, 2}
  Nothing = Nothing
  Torn = Torn
  Mixed = Mixed
  Ids = {"7", "8"}
  LocalFiles = {"note"}
  Policies <- MCPolicies
  Lines <- MCLines

SPECIFICATION CSpec

INVARIANTS
  ClientTypeOK
  AppliedOnce
  CacheIsOnlyAHint
  BinaryIsNotPrinted
  LatestOnlyUnnamed

PROPERTIES
  CacheWorked
  EveryInvocationEnds
