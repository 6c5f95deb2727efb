SPECIFICATION FairSpec
CONSTANTS
  Turns = {t1}
  Handlers = {"executor", "channel"}
  Uploads = {u1, u2}
  Conversations = {c1, c2}
  Workspaces = {w1}
  TTL = 1
  MaxTime = 1
  MaxFaults = 1
  None = None
INVARIANTS TypeOK ReferencesReadable FinalObjectsNamed
PROPERTIES TurnsEndOnce UploadsSettle
CHECK_DEADLOCK FALSE
