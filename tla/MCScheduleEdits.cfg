SPECIFICATION Spec
CONSTANTS
    s1 = s1
    e1 = e1
    e2 = e2
    Schedule = {s1}
    Cron = {1, 2}
    Editor = {e1, e2}
    MaxTime = 2
    MaxManual = 0
    ClaimLimit = 1
    LeaseTime = 1
    RetryDelay = 1
    ReapAfter = 0
    TurnTimeout = 0
    AccessBound = 0
SYMMETRY Editors
INVARIANTS
    MissedOccurrencesSkipped
CHECK_DEADLOCK FALSE
