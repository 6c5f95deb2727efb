SPECIFICATION LiveSpec
CONSTANTS
  h2 = h2
  h1 = h1
  Handler = {h1, h2}
  Operations = {"create", "restart", "stop", "open", "delete", "suspend", "recover", "refresh"}
  None = None
  MaxRequests = 3
  MaxCrashes = 1
  MaxFaults = 0
  MaxLate = 1
INVARIANTS
  RevocationsReachEverything
PROPERTIES
  OperationsEnd
  OwnerDecides
  RecoveryFollowsIntent
CHECK_DEADLOCK FALSE
