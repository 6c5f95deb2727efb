SPECIFICATION Spec
CONSTANTS
  Attempts = {a1, a2}
  Callers = {c1, c2}
  small = small
  blind = blind
  None = None
  Unbilled = Unbilled
  Unpriced = Unpriced
  Facts <- MCFacts
  Price <- MCPrice
  Length <- MCLength
  Budgets <- MCBudgets
  Raises <- MCRaises
  Threshold = 50
  MaxVersions = 1
  MaxOverrides = 1
  MaxTime = 1
INVARIANTS TypeOK DispatchedAsAdmitted CrossedThresholdsAlerted
PROPERTIES AdmissionsFit
SYMMETRY MCSymmetry
CHECK_DEADLOCK FALSE
