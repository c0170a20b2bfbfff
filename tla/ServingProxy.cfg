CONSTANTS
    Clients = {c1}
    NoClient = NoClient
    Urls = {u1, u2}
    NoUrl = NoUrl
    Missing = Missing
    ClientTimeout = 1
    UpstreamTimeout = 2
    GatewayTimeout = 1
    Waits = 2
    Ttl = 1
    MinAttempts = 2
    ApiKeys = 1
SPECIFICATION FairProxySpec
CHECK_DEADLOCK FALSE
INVARIANT PileUpBounded
PROPERTY FreshUrl
PROPERTY CallEnds
