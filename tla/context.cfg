SPECIFICATION MCSpec
CONSTANTS
    Request = {"r1", "r2", "r3", "s1", "s2", "t1", "t2", "t3"}
    Ask <- MCAsk
    Want <- MCWant
    Launch <- MCLaunch
    Launches = {"compiled", "contended", "sent", "scripted", "alone"}
    SmallCapacity = FALSE
    Taken = {}
    Outcomes = {"finished", "spoilt"}
    Resubmitted = {}
    Bound = 2
    MaxNow = 1
    MaxFaults = 1
CHECK_DEADLOCK FALSE
INVARIANTS PublicationSound InvestigationKept PacketsTrue
PROPERTY RequestsEnd
