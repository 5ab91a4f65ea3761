\* The loop with oversleeping goroutines and emergencies.
SPECIFICATION Spec
CONSTANTS
    s1 = s1
    Server = {s1, s2, s3, s4, s5}
    InitialServers <- OneServer
    MinServers = 1
    MaxServers = 3
    MaxScaleStep = 2
    TargetCPU = 30
    CPUHighThreshold = 80
    CPULowThreshold = 30
    EmergencyCPUThreshold = 95
    CooldownPeriod = 3
    ScaleDownCooldownPeriod = 2
    SustainedHighDuration = 2
    SustainedLowDuration = 1
    ProvisionTime = 1
    DrainTime = 1
    NotifyTimeout = 2
    TimelyWakeups = FALSE
    CollectInterval = 2
    OneSecond = 1
    CPULevels <- MCCPULevels
    ServerCounts = {0}
    MaxRequest = 3
    Samples <- AllSamples
INVARIANTS
    MinServersKept
    VictimsStayActive
PROPERTIES
    ScalingsAreSpaced
    NothingAfterStop
    KeepsPromise
SYMMETRY ServerSymmetry
