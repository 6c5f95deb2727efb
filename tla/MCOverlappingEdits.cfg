SPECIFICATION Spec
CONSTANTS
    s1 = s1
    e1 = e1
    e2 = e2
    Schedule = {s1}
    Cron = {1, 2}
    Editor = {e1, e2}
    MaxTime = 3
    MaxManual = 0
    ClaimLimit = 2
    LeaseTime = 1
    RetryDelay = 1
    ReapAfter = 1
    TurnTimeout = 1
    AccessBound = 0
INVARIANTS
    DowntimeIsSkipped
CHECK_DEADLOCK FALSE
