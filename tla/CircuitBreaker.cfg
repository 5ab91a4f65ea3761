\* Three overlapping callers, late results in every state, and recovery.
SPECIFICATION BreakerFairSpec
CONSTANTS
    Caller = {c1, c2, c3}
    MaxFailures = 3
    HalfOpenMax = 2
    OpenTimeout = 2
PROPERTIES
    OpensAfterFailuresInARow
    ClosesAfterSuccessesInARow
    StaysOpen
    RecoversWhenCallsSucceed
