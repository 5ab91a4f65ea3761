\* Every input against every pair of cooldown ages, with the default thresholds
\* and the scale step of configs/config.prod.yaml.
SPECIFICATION EngineSpec
CONSTANTS
    MinServers = 2
    MaxServers = 26
    MaxScaleStep = 5
    TargetCPU = 70
    CPUHighThreshold = 80
    CPULowThreshold = 30
    EmergencyCPUThreshold = 95
    CooldownPeriod = 10
    ScaleDownCooldownPeriod = 9
    SustainedHighDuration = 1
    SustainedLowDuration = 1
    CPULevels <- MCCPULevels
    ServerCounts <- MCServerCounts
INVARIANTS
    OrdinaryDecisionsAreBounded
    NoReversal
    MoreLoadNeverTargetsLess
