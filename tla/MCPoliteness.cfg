\* Two URLs on one host, one connection.
SPECIFICATION WatchedSpec
CONSTANTS
    Tasks = {k1, k2}
    Hosts = {h1}
    MaxConcurrency = 1
    HostInterval = 1
    MaxRedirects = 0
    RetryAfter = {1}
    RetryCap = 1
PROPERTY
    PoliteToHosts
