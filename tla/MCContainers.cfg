CONSTANTS
    Containers = {c1, c2, c3}
    Procs = {p1, p2}
    p1 = p1
    p2 = p2
    d1 = d1
    d2 = d2
    Digests = {d1, d2}
    NoImage = NoImage
    WrongTag = WrongTag
    NoProc = NoProc
    Requests <- Mixed
SPECIFICATION MCSpec
CHECK_DEADLOCK FALSE
INVARIANT RegistryExact
INVARIANT OnlyTransitOrphans
INVARIANT PlainUndisturbed
INVARIANT ForcedIsFresh
PROPERTY SigtermEnds
PROPERTY CallersEnd
