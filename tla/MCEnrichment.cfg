SPECIFICATION FairEnrichment
CONSTANTS
    api = api
    enricher = enricher
    e1 = e1
    e2 = e2
    e3 = e3
    Runners <- MCRunners
    TaskEvents <- MCEvents
    Rank <- MCRank
    Yields <- MCYields
    Unusable <- MCUnusable
    Skew <- MCSkew
    BatchSize = 2
    MaxClock = 1
    MaxFailures = 1
INVARIANTS NothingSkipped
PROPERTIES KeepsWatermark EventuallyEnriched
