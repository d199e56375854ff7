SPECIFICATION FairFirehose
CONSTANTS
    e1 = e1
    e2 = e2
    e3 = e3
    r1 = r1
    r2 = r2
    FirehoseRelays = {r1, r2}
    Events <- MCEvents
    CreatedAt <- MCCreatedAt
    Carries <- MCCarries
    Window = 4
    Overlap = 1
    FutureSlack = 2
    Late = 1
    Ahead = 3
    CacheSize = 1
    QueueSize = 1
    StartNow = 6
    MaxNow = 7
    MaxDrops = 1
    MaxCrashes = 1
    None = None
CHECK_DEADLOCK FALSE
INVARIANTS ReconnectSkipsNothing
PROPERTIES PublishedIsConsumed
