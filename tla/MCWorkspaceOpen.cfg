SPECIFICATION Spec
CONSTANTS
  h2 = h2
  h1 = h1
  Handler = {h1, h2}
  Operations = {"create", "restart", "stop", "suspend", "open", "delete", "recover", "refresh"}
  None = None
  MaxRequests = 4
  MaxCrashes = 0
  MaxFaults = 1
  MaxLate = 0
SYMMETRY Symmetry
PROPERTIES
  OwnerDecides
  RecoveryFollowsIntent
CHECK_DEADLOCK FALSE
