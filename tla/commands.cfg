SPECIFICATION MCSpec
CONSTANTS
    Authority <- MCAuthority
    Request <- MCRequest
    Envelope <- MCEnvelope
    Key <- MCKey
    NewEffect <- MCNewEffect
    Instant = {0, 1, 2}
    Retain = 2
    MaxGeneration = 3
    MaxRevision = 5
INVARIANTS AppliedOnce DelegatesNoMore RefusalTellsNothing OverdueOnce
PROPERTY EndedStaysEnded
