SPECIFICATION FairSpec
CONSTANTS
    r1 = r1
    r2 = r2
    r3 = r3
    Async = Async
    Sync = Sync
    None = None
    Requests <- MCRequests
    Caches <- MCCaches
    Callers <- MCCallers
    Loops <- MCLoops
    Deployments <- MCDeployments
    MaxVersion = 2
    MaxFailures = 1
    RateLimit = 2
    Slots = 2
    MaxPanics = 1
CHECK_DEADLOCK FALSE
INVARIANTS TypeOK WorkIsAllowed
PROPERTIES AnswersOnlyAdvance AllGoOn
