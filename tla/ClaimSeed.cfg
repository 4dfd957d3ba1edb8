SPECIFICATION ServeSpec
CONSTANTS
    Words <- MCWords
    Hardware <- MCHardware
    Chassis <- MCChassis
    SwitchDomain <- MCSwitchDomain
    ServerIDs <- OneServer
    Pipeline <- StorePipeline
    Records <- MCRecords
    PositiveInterval = TRUE
    MaxTime = 1
    MaxCycles = 0
    Clients = {c1}
    Reliable = TRUE
    MaxBoots = 1
PROPERTY
    SeedOnlyFillsGap
