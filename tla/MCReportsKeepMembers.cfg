\* The job against a submission; no fault.
SPECIFICATION Spec
CONSTANTS
    BrokenThreshold = 1
    MinAttempts = 2
    RecheckIntervals <- MCRecheckIntervals
    BrokenRecheckInterval = 1
    BlockedRecheckInterval = 1
    FreshnessTtl = 1
    Urls = {u1}
    UnsupportedUrls = {}
    Checks = {c1, c2}
    Workers = {w1}
    Client = client
    Job = job
    NoCheck = none
    CheckRetention = 1
    Submissions <- Builds
    Answers <- UpOrDown
    ContributedCodes = {200}
    MaxTime = 2
    MaxOpen = 1
    MaxTransactions = 2
    MaxOffSchedule = 1
    MaxFaults = 0
SYMMETRY Symmetry
CHECK_DEADLOCK FALSE
PROPERTY
    ReportsKeepMembers
