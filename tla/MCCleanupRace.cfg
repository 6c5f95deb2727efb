SPECIFICATION Spec
CONSTANTS
  Turns = {t1}
  Handlers = {"executor"}
  Uploads = {u1}
  Conversations = {c1}
  Workspaces = {w1}
  TTL = 1
  MaxTime = 1
  MaxFaults = 0
  None = None
INVARIANT ShownFilesKeepBytes
CHECK_DEADLOCK FALSE
