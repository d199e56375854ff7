SPECIFICATION FairSpec
CONSTANTS
    Apis = {a1}
    Requests = {r1, r2}
    FreshTTL = 1
    StaleFor = 1
    MaxCompute = 1
    MaxGet = 0
    None = None
CHECK_DEADLOCK FALSE
INVARIANTS AnswersAreBounded
PROPERTIES EveryRequestAnswered
