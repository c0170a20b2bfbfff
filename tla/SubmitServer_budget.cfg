CONSTANTS
    Calls = {c1, c2}
    Sims = {champsim}
    Designs = {d1, d2}
    MaxSubmissions = 1
    AttemptFactor = 1
    AttemptFloor = 2
    SharedStaging = FALSE
    DiskMayFail = FALSE
    NoCall = NoCall
    NoSim = NoSim
    NoPrefix = NoPrefix
    NoFiles = NoFiles
    NoReport = NoReport
SPECIFICATION Spec
ACTION_CONSTRAINT OneFailure
CHECK_DEADLOCK FALSE
SYMMETRY Symmetry
ACTION_CONSTRAINT FireAndForget
INVARIANT BudgetRespected
