SPECIFICATION Spec
CONSTANTS
  h2 = h2
  h1 = h1
  Handler = {h1, h2}
  Operations = {"create", "open", "stop"}
  None = None
  MaxRequests = 3
  MaxCrashes = 0
  MaxFaults = 0
  MaxLate = 0
SYMMETRY Symmetry
PROPERTIES
  OwnerAloneDecides
CHECK_DEADLOCK FALSE
