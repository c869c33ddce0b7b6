SPECIFICATION ReadersSpec
CONSTANTS
    a = a
    b = b
    caps = caps
    r = r
    Subject = {a, b, caps}
    Capabilities = caps
    Retain = {1, 2}
    Unvouched = {0, 1}
    EventSize <- Sizes
    MaxEvents = 3
    MaxRevision = 2
    MaxEpochs = 3
    MaxStarts = 3
    Reader = {r}
    Sees <- SeesSome
    Wants <- WantsAll
    Budget <- Enough
    Limit = {1, 5}
CHECK_DEADLOCK FALSE
INVARIANTS ReadsAreWhole PositionsHold
