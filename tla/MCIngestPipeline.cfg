SPECIFICATION FairSpec
CONSTANTS
    a1 = a1
    p1 = p1
    p2 = p2
    e1 = e1
    Authors <- MCAuthors
    Events <- MCEvents
    Posts <- MCPosts
    AuthorOf <- MCAuthorOf
    Follows <- MCFollows
    Limit = 1
    CapEntries = 1
    MaxDay = 2
    MaxRestarts = 1
    None = None
    Misshapen = {}
    Forged <- MCForged
    VerifyEvents = TRUE
    Workers = 1
    BatchSize = 1
    QueueSize = 1
    LastTable = 2
    MaxFailures = 1
CHECK_DEADLOCK FALSE
INVARIANTS NothingHalfStored CapPerProcess DropsOnlyOverCap
PROPERTIES DeliveredIsStored
