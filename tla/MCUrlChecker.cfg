\* Two URLs on two hosts, one connection, chains of one redirect, and
\* delays on both sides of the cap.
SPECIFICATION Spec
CONSTANTS
    Tasks = {k1, k2}
    Hosts = {h1, h2}
    MaxConcurrency = 1
    HostInterval = 1
    MaxRedirects = 1
    RetryAfter = {1, 3}
    RetryCap = 2
INVARIANTS
    TypeOK
    PinMatchesHost
PROPERTIES
    RateLimitIsHonoured
    EveryUrlIsJudged
