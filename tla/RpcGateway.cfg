CONSTANTS
    e1 = e1
    e2 = e2
    k1 = k1
    k2 = k2
    Endpoints = {e1, e2}
    Callers = {k1, k2}
    FailureThreshold = 2
    SuccessThreshold = 2
    ResetTimeout = 1
    MaxInflight = 1
    MaxBad = 4
SPECIFICATION FairSpec
INVARIANTS
    
    PermitsBalance
    BreakerMatchesCounters
PROPERTIES
    TrippedStaysOpen
    GatewayRecovers
