SPECIFICATION Spec
CONSTANTS
  h2 = h2
  h1 = h1
  Handler = {h1, h2}
  Operations = {"create", "restart", "stop", "recover", "refresh"}
  None = None
  MaxRequests = 3
  MaxCrashes = 1
  MaxFaults = 1
  MaxLate = 1
SYMMETRY Symmetry
INVARIANTS
  TypeOK
  FinishedRuntimeIsCurrent
PROPERTIES
  ReplacementKeepsGrants
CHECK_DEADLOCK FALSE
