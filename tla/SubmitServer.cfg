CONSTANTS
    Calls = {c1, c2, c3}
    Sims = {dramsys, timeloop}
    Designs = {d1, d2}
    MaxSubmissions = 1
    AttemptFactor = 1
    AttemptFloor = 2
    SharedStaging = FALSE
    DiskMayFail = FALSE
    NoCall = NoCall
    NoSim = NoSim
    NoPrefix = NoPrefix
    NoFiles = NoFiles
    NoReport = NoReport
SPECIFICATION Spec
CHECK_DEADLOCK FALSE
ACTION_CONSTRAINT OneFailure FireAndForget EditsOnce Prompt
SYMMETRY Symmetry
INVARIANT UnmarkedIsRecorded
INVARIANT IdNamesItsSubmission
INVARIANT CountersSound
PROPERTY ImplementsService
