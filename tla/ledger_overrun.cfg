SPECIFICATION FairSpec
CONSTANTS
    Job = {j1}
    Worker = {w1, w2}
    NoWorker = NoWorker
    NoCeiling = NoCeiling
    PerRequest = 9
    PerJob = 99
    WindowTokens = 99
    WindowLen = 2
    MonthTokens = 99
    MonthLen = 3
    RunCeiling = NoCeiling
    Local = 1
    Generation = 1
    Instruction = 1
    Margin = 0
    Floor = 0
    Countings = {"could_admit"}
    HasCount = FALSE
    Bills = {1, 3}
    Inputs = {}
    Counts = {1}
    Outcomes = {"completed"}
    Readings = {"usable"}
    MaxQuestions = 3
    MaxFaults = 2
    MaxCrashes = 1
    MaxClock = 0
INVARIANT TypeOK
INVARIANT OverrunRowPerBill
INVARIANT SpendCounted
INVARIANT ChargedAgrees
PROPERTIES NoGrantAfterOverrun QuestionsEnd
