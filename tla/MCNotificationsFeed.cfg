SPECIFICATION FairSpec
CONSTANTS
    Slice = 2
    Overlap = 1
    History = 6
    ReadyLag = 1
    ReadyHistory = 5
    ReadyCacheTTL = 1
    StartNow = 8
    MaxNow = 11
    Stamps <- MCStamps
INVARIANTS CoverageIsContiguous ReadyMeansServable
PROPERTIES EventuallyCaughtUp
