SPECIFICATION Spec
CONSTANTS
  Member = {f, a}
  Founder = f
  Followed = {a}
  Role = {r}
  GrantSets <- MCGrantSets
  Changes <- MCChanges
  Handler = {h1, h2}
  MaxVersions = 2
  MaxDeliveries = 2
  MaxContexts = 1
  MaxRequests = 5
  MaxAssigning = 1
INVARIANT AuthorityIsUnion
SYMMETRY MCSymmetry
CHECK_DEADLOCK FALSE
