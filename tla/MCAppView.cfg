SPECIFICATION TablesSpec
CONSTANTS
    like = like
    zap = zap
    note = note
    profile = profile
    w1 = w1
    Events <- MCEvents
    KindOf <- MCKindOf
    Configured = {0, 7, 9735}
    InProcess = TRUE
    OnDemand = FALSE
    Writers = {w1}
    MaxAdds = 2
    MaxBoots = 2
    None = None
CHECK_DEADLOCK FALSE
INVARIANT RemovedKindsGoTogether
PROPERTIES StartCompletes
