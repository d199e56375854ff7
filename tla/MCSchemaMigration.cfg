SPECIFICATION FairSpec
CONSTANTS
    v1 = v1
    v2 = v2
    v3 = v3
    f1 = f1
    f2 = f2
    f3 = f3
    f4 = f4
    raw = raw
    old = old
    feed = feed
    extra = extra
    mv = mv
    a = a
    b = b
    Procs = {p1}
    Builds <- MCBuilds
    FilesOf <- MCFilesOf
    Stmts <- MCStmts
    Columns = {a, b}
    Tables <- MCTables
    Views = {mv}
    Protected = {raw}
    Mode = "on"
    Deployable <- Forward
    FirstBuild = v1
    MaxDeploys = 2
    MaxFaults = 3
CHECK_DEADLOCK FALSE
INVARIANTS SchemaMatchesBuild
PROPERTIES ProtectedSurvives ComesUp
