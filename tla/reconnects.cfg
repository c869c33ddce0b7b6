SPECIFICATION Spec
CONSTANTS
    a = a
    b = b
    caps = caps
    r1 = r1
    r2 = r2
    Subject = {a, b, caps}
    Capabilities = caps
    Retain = {1}
    Unvouched = {1}
    EventSize <- Sizes
    MaxEvents = 2
    MaxRevision = 2
    MaxEpochs = 2
    MaxStarts = 2
    Reader = {r1}
    Sees <- SeesAll
    Wants <- WantsAll
    Budget <- Receives
    Granted = {r1}
    Bound = 2
    Page = 9
    MaxConnects = 2
    MaxPlain = 0
CHECK_DEADLOCK FALSE
INVARIANT FollowsStream
