SPECIFICATION FairSpec
CONSTANTS
    s1 = s1
    e1 = e1
    e2 = e2
    Schedule = {s1}
    Cron = {2}
    Editor = {}
    MaxTime = 4
    MaxManual = 1
    ClaimLimit = 2
    LeaseTime = 1
    RetryDelay = 1
    ReapAfter = 1
    TurnTimeout = 1
    AccessBound = 0
INVARIANTS
    TypeOK
    OneTurnPerOccurrence
    TurnOwnsRun
    NoOverlappingCronTurns
PROPERTIES
    RunsFollowLifecycle
    AbandonedRunsEnd
CHECK_DEADLOCK FALSE
