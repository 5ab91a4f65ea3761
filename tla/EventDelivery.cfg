\* One cluster, two publishers, one connection, small channels, and the shutdown.
SPECIFICATION FairSpec
CONSTANTS
    Cluster = {c1}
    Alarm = {a1}
    Client = {k1}
    BufferSize = 1
    ClientBuffer = 1
    MaxEvents = 1
    NoCluster = NoCluster
    NoClient = NoClient
    NoEvent = NoEvent
INVARIANTS
    NoSendOnClosed
    InOrder
    AtMostOneStale
PROPERTIES
    BridgeKeepsUp
    ClientsLeave
CHECK_DEADLOCK FALSE
