SPECIFICATION Spec
CONSTANTS
  h2 = h2
  h1 = h1
  Handler = {h1, h2}
  Operations = {"create", "open", "suspend", "recover", "refresh"}
  None = None
  MaxRequests = 4
  MaxCrashes = 0
  MaxFaults = 0
  MaxLate = 0
SYMMETRY Symmetry
PROPERTIES
  StoppedStayStopped
CHECK_DEADLOCK FALSE
