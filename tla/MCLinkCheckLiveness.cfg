\* One check, two consumers, one fault; liveness forbids symmetry.
SPECIFICATION FairSpec
CONSTANTS
    BrokenThreshold = 1
    MinAttempts = 2
    RecheckIntervals <- MCRecheckIntervals
    BrokenRecheckInterval = 1
    BlockedRecheckInterval = 1
    FreshnessTtl = 1
    Urls = {u1}
    UnsupportedUrls = {}
    Checks = {c1}
    Workers = {w1, w2}
    Client = client
    Job = job
    NoCheck = none
    CheckRetention = 0
    Submissions <- BuildsAndEmpty
    Answers <- FewAnswers
    ContributedCodes = {200}
    MaxTime = 1
    MaxOpen = 1
    MaxTransactions = 2
    MaxOffSchedule = 0
    MaxFaults = 1
CHECK_DEADLOCK FALSE
PROPERTIES
    EveryCheckEnds
    DueIsRechecked
