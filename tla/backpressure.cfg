SPECIFICATION FairSpec
CONSTANTS
    a = a
    b = b
    caps = caps
    r1 = r1
    r2 = r2
    Subject = {a, b, caps}
    Capabilities = caps
    Retain = {1}
    Unvouched = {1}
    EventSize <- Sizes
    MaxEvents = 1
    MaxRevision = 1
    MaxEpochs = 1
    MaxStarts = 1
    Reader = {r1, r2}
    Sees <- SeesAll
    Wants <- WantsAll
    Budget <- Receives
    Granted = {r2}
    Bound = 2
    Page = 9
    MaxConnects = 1
    MaxPlain = 1
CHECK_DEADLOCK FALSE
INVARIANTS OutputOrderly NothingAfterLapse
PROPERTY FollowerCatchesUp
