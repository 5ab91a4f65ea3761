\* A status request and any other.
SPECIFICATION FairSpec
CONSTANTS
    Request = {r1, r2}
    ClusterId = {c1}
    Sim = {s1, s2, s3}
    Table = Table
    None = None
    Bodies <- MCBodies
    DefaultServers = 1
    ServerLimit = 1
PROPERTIES
    StatusAnswered
CHECK_DEADLOCK FALSE
