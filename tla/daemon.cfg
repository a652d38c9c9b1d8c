CONSTANTS
    a = a
    b = b
    bad = bad
    Null = Null
    Nothing = Nothing
    Content <- MCContent
    Corrupt <- MCCorrupt
    Failure <- MCFailure
    MaxHistory = 3
    MaxFaults = 1
    Faults = {"open", "apply", "list", "prune", "version", "read", "write", "crash"}
    FirstVersion = {0, 1}
    Heartbeat = 2
    Stall = 3
    SweepEvery = 1
SPECIFICATION MCSpec
INVARIANTS FreshAfterGoodPoll NoResultOverwritten
PROPERTIES FeedKept ExternalCommitsReachTheBoard StallAloneNeverReports PaseoSweepKeepsRunning
