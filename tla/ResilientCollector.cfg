\* Retries, deadlines, cancellation and the breaker together.
SPECIFICATION FairSpec
CONSTANTS
    Caller = {p}
    MaxFailures = 2
    HalfOpenMax = 2
    OpenTimeout = 2
    RetryAttempts = 3
    RetryDelay = 1
    CycleBudget = 4
INVARIANTS
    NoContactWhileOpen
    OutageBudget
PROPERTIES
    KeepsProbing
