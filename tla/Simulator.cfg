\* Every kind of request.
SPECIFICATION FairSpec
CONSTANTS
    Request = {r1, r2}
    ClusterId = {c1}
    Sim = {s1, s2, s3}
    Table = Table
    None = None
    Bodies <- MCBodies
    DefaultServers = 1
    ServerLimit = 1
PROPERTIES
    ReadersSeeOneState
    RunningSpikeKept
    OnlyStatusHangs
\* Two requests that wait for each other in Status stop the simulator.
CHECK_DEADLOCK FALSE
