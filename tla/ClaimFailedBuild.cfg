SPECIFICATION Spec
CONSTANTS
    Words <- MCWords
    Hardware <- MCHardware
    Chassis <- OneSwitch
    SwitchDomain <- MCSwitchDomain
    ServerIDs <- OneServer
    Pipeline <- ServePipeline
    Records <- NoRecords
    PositiveInterval = TRUE
    MaxTime = 2
    MaxCycles = 0
INVARIANT
    FailedBuildNeverSaved
