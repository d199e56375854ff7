CONSTANTS
    None = None
    a = a
    b = b
    c = c
    Users <- MCUsers
    Events <- MCEvents
    Author <- MCAuthor
    Kind <- MCKind
    At <- MCAt
    ETags <- MCETags
    PTags <- MCPTags
    QTags <- MCQTags
    Height <- MCHeight
    Followers <- MCFollowers
    Score <- MCScore
    Scored <- MCScored
    Sinces <- MCSinces
    Modes <- MCModes
    Deploy <- MCDeploy
    MaxLimit = 4
    DefaultLimit = 2
    ThreadDepth = 3
    ThreadBatch = 2
    ThreadMax = 5
    ThreadDefault = 4
    ChainMax = 3
    ChainDefault = 2
    MaxTargets = 2
    NoticeMax = 4
    NoticeDefault = 3
    LegacyMin = 8
    LegacyMax = 20
    FeedMin = 6
    Overfetch = 2
    WindowMin = 5
    WindowMax = 8
    WindowFactor = 3
    FollowWindow = 2
    FeedMax = 2
    FeedDefault = 2
    DmMax = 4
    DmDefault = 2
    RootHops = 2
    PoolDepth = 3
    PoolMax = 1
    RankedMax = 3
    RankedDefault = 2
    GroupMax = 5
    GroupDefault = 3
    Log1p <- MCLog1p
    Clients = {p, q}
    RefLimit = 2
SPECIFICATION Spec
INVARIANT HasNextIsTold
CHECK_DEADLOCK FALSE
