SPECIFICATION MCSpec
CONSTANTS
    Claim = {"c1", "c2"}
    Scope = {"s", "z"}
    Principal = {"a", "b"}
    Draft <- MCDraft
    Writes <- MCWrites
    Owner = {"a"}
    May <- MCMay
    Target <- MCTarget
    Kinds = {"repository_tree"}
    Uses = {"binding", "reference"}
    Remote <- MCRemote
    Wanted = {"binding", "hypothesis"}
    MaxRevisions = 2
    MaxEpoch = 2
    MaxDecisions = 3
    MaxEvaluations = 3
    MaxConflicts = 1
    UnitBytes = 2
    BlockLines = 6
    PartBytes = 8
    PartUnits = 3
    MaxParts = 5
    ProjectionBytes = 15
    MaxExcerpts = 2
    CandidateFrame = 1
    Header = 1
    ExcerptFrame = 1
    Shorter = 0
    Longer = 1
    ModelLabel = 1
    CutLine = 1
    Investigation = 2
    Texts <- MCTexts
    Contents <- MCContents
    Supports <- MCSupports
CHECK_DEADLOCK FALSE
INVARIANTS DecisionsSound GroundedApplicability ReadTimeAgrees ProjectionAccounts ModelOnlyAdds SupportSound
PROPERTY ApartStaysApart
