CONSTANTS
    Sims = {dramsys, ramulator}
    NoSim = NoSim
    Tools = {"submit", "submit_and_wait", "check_submission", "session_end"}
    Subs = {x1, x2}
    MaxTurns = 3
    MaxSubmits = 2
    NudgeLimit = 2
    CallsPerTurn = 2
SPECIFICATION FairSpec
CHECK_DEADLOCK FALSE
INVARIANT SeveralSims
PROPERTY LoopTerminates
