SPECIFICATION MCSpec
CONSTANTS
    Artifact <- MCArtifact
    Hold = {"h"}
    Digest = {"d", "e", "list"}
    Size <- MCSize
    Children <- MCChildren
    Principal = {"root", "q", "r"}
    Authority = {"root"}
    Rights <- MCRights
    TickRow <- MCTickRow
    Config <- Times
    Over = {"sealed"}
    Limit = 1
    MaxChunk = 2
    MaxNow = 2
    MaxCrashes = 1
    Scenarios = {"shared"}
INVARIANT HeldIsKept
