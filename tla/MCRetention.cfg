SPECIFICATION FairRetention
CONSTANTS
    p1 = p1
    p2 = p2
    a1 = a1
    a2 = a2
    post = post
    like = like
    reply = reply
    author = author
    x = x
    y = y
    Events <- MCEvents
    KindOf <- MCKindOf
    AuthorOf <- MCAuthorOf
    CreatedAt <- MCCreatedAt
    DTagOf <- MCDTagOf
    TargetOf <- MCTargetOf
    PartOf <- MCPartOf
    Runners = {r1, r2}
    MinRows = 1
    MaxAge = 1
    RecentWindow = 1
    StartNow = 2
    MaxNow = 3
    MaxInserts = 1
    MaxMishaps = 1
    None = None
CHECK_DEADLOCK FALSE
INVARIANTS OneMutationEach 
PROPERTIES EngagedKept RetentionConverges
