SPECIFICATION Spec
CONSTANTS
    Words <- MCWords
    Hardware <- MCHardware
    Chassis <- MCChassis
    SwitchDomain <- MCSwitchDomain
    ServerIDs <- OneServer
    Pipeline <- ServePipeline
    Records <- MCRecords
    PositiveInterval = TRUE
    MaxTime = 1
    MaxCycles = 0
INVARIANTS
    TypeOK
    FirstCollectorWins
    NoTornRecord
    HealthyHasEvidence
    ViewsTellOneStory
