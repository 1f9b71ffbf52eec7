\* Two consumers and the job, and a fault, a contribution, a forced recheck or
\* a second check that shares the URL.
SPECIFICATION Spec
CONSTANTS
    BrokenThreshold = 1
    MinAttempts = 2
    RecheckIntervals <- MCRecheckIntervals
    BrokenRecheckInterval = 1
    BlockedRecheckInterval = 1
    FreshnessTtl = 1
    Urls = {u1}
    UnsupportedUrls = {}
    Checks = {c1, c2}
    Workers = {w1, w2}
    Client = client
    Job = job
    NoCheck = none
    CheckRetention = 1
    Submissions <- BuildsAndEmpty
    Answers <- UpOrDown
    ContributedCodes = {200}
    MaxTime = 2
    MaxOpen = 1
    MaxTransactions = 2
    MaxOffSchedule = 1
    MaxFaults = 1
SYMMETRY Symmetry
CONSTRAINT OneComplication
\* Everything may have been submitted, checked and purged, the clock at its end.
CHECK_DEADLOCK FALSE
INVARIANTS
    TypeOK
    NoCheckIsForgotten
    PublishedIsVisible
    CompleteIsSettled
PROPERTIES
    KeepsPromise
    ExecutionsDoNotOverlap
