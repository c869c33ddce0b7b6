SPECIFICATION Spec
CONSTANTS
    Job = {j1, j2}
    Worker = {w1, w2}
    NoWorker = NoWorker
    NoCeiling = NoCeiling
    PerRequest = 9
    PerJob = 10
    WindowTokens = 10
    WindowLen = 1
    MonthTokens = 14
    MonthLen = 2
    RunCeiling = 14
    Local = 2
    Generation = 1
    Instruction = 1
    Margin = 1
    Floor = 1
    Countings = {"always","could_admit"}
    HasCount = TRUE
    Bills = {2, 6}
    Inputs = {3}
    Counts = {3}
    Outcomes = {"completed","counted","exhausted","not_sent","failed"}
    Readings = {"usable","unstructured"}
    MaxQuestions = 2
    MaxFaults = 0
    MaxCrashes = 0
    MaxClock = 1
SYMMETRY Symmetry
INVARIANTS QuestionsPriced CeilingsHold
