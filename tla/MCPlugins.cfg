CONSTANTS
    Subs = {x1, x2, x3}
    MaxTurns = 4
    MaxSubmits = 2
    NudgeLimit = 2
    CallsPerTurn = 2

    Plugins = {"timeloop", "gem5", "dramsys", "ramulator", "scalesim", "mnsim",
               "astrasim"}
    Jobs = {s1, s2}
    Nobody = Nobody
SPECIFICATION EndsSpec
SYMMETRY Symmetry
CHECK_DEADLOCK FALSE
PROPERTY GateCovers
INVARIANT OwnVerdict
