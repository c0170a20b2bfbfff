CONSTANTS
    Sims = {s1, s2}
    Challenges <- Mixed
    NoMetric = NoMetric
    NoValue = NoValue
    Sentinel = 9
    MaxSubs = 2
SPECIFICATION Spec
CHECK_DEADLOCK FALSE
INVARIANT GradedOnItsRow
INVARIANT NoRetrofit
INVARIANT BestIsOne
INVARIANT FinalIsLatest
