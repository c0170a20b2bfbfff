CONSTANTS
    Calls = {1, 2}
    Sims = {champsim}
    Designs = {d1}
    MaxSubmissions = 1
    AttemptFactor = 1
    AttemptFloor = 2
    SharedStaging = TRUE
    DiskMayFail = TRUE
    NoCall = NoCall
    NoSim = NoSim
    NoPrefix = NoPrefix
    NoFiles = NoFiles
    NoReport = NoReport
SPECIFICATION FairSpec
ACTION_CONSTRAINT OneFailure EndsLast InOrder DiskFailsOnce PollsFirst
CHECK_DEADLOCK FALSE
INVARIANT DoneReplyIsComplete
PROPERTY EverySubmissionEnds
PROPERTY LoopIsReleased
