\* One URL, a clock of 8 units, every kind of answer and of contribution.
SPECIFICATION Spec
CONSTANTS
    BrokenThreshold = 2
    MinAttempts = 2
    RecheckIntervals <- MCRecheckIntervals
    BrokenRecheckInterval = 3
    BlockedRecheckInterval = 1
    FreshnessTtl = 4
    ServerCodes = {0, 404, 503}
    ContributedCodes = {0, 200, 403, 404}
    PromptRecheck = TRUE
    MaxTime = 8
    MaxAttempts = 4
\* The clock stops at MaxTime.
CHECK_DEADLOCK FALSE
INVARIANTS
    TypeOK
    StreakIsHistory
    BrokenIsEarned
    FailingIsOpen
    UnhealthyIsScheduled
    RecheckIsNear
    HealsInTime
    RotIsNoticed
PROPERTIES
    OffScheduleIsNeutral
