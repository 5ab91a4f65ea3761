\* Overlapping creations, updates, deletions and shutdowns, crashes and restarts.
SPECIFICATION ConsistencySpec
CONSTANTS
    Cluster = {c1, c2}
    Request = {r1, r2}
INVARIANTS
    DeletionStopsLoop
    
    OnlyLateStartsSurviveStop
PROPERTIES
    DeletedStaysDeleted
    RequestsComplete
    ShutdownCompletes
