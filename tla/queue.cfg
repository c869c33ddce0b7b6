SPECIFICATION FairSpec
CONSTANTS
    Session = {s1, s2, s3}
    NoSession = NoSession
    MaxFrames = 2
    MaxPolls = 1
    MaxStalls = 1
CHECK_DEADLOCK FALSE
INVARIANT NoTurnLost
PROPERTIES GivesTurnsInOrder RequestsServed
