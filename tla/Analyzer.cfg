\* Every order of samples, empty answers, failed collections and scalings.
SPECIFICATION Spec
CONSTANTS
    MinServers = 1
    MaxServers = 2
    MaxScaleStep = 1
    TargetCPU = 70
    CPUHighThreshold = 80
    CPULowThreshold = 30
    EmergencyCPUThreshold = 95
    CooldownPeriod = 2
    ScaleDownCooldownPeriod = 1
    SustainedHighDuration = 3
    SustainedLowDuration = 2
    CPULevels <- MCCPULevels
    ServerCounts = {1, 2}
    MaxHistoryLength = 5
    TrendWindow = 3
    Minute = 2
    SpikeThreshold = 50
    SourceLag <- MCSourceLag
    Horizon = 4
INVARIANTS
    SamplesFitEngine
    BoundIsInvisible
    StreaksAreBacked
    SurgeScaleUpsBounded
