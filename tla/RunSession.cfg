CONSTANTS
    Calls = {c1, c2}
    Extras = {x1, x2}
    UsesProxy = TRUE
    ReportsExit = TRUE
    Sim = sim
    Agent = agent
SPECIFICATION FairSpec
CHECK_DEADLOCK FALSE
INVARIANT OneOrphanAtMost
INVARIANT JudgedIsFinal
INVARIANT ServedWhileUsed
PROPERTY NothingCutShort
PROPERTY SessionEnds
