SPECIFICATION ServeFairSpec
CONSTANTS
    Words <- MCWords
    Hardware <- MCHardware
    Chassis <- MCChassis
    SwitchDomain <- MCSwitchDomain
    ServerIDs <- OneServer
    Pipeline <- StorePipeline
    Records <- DemoRecords
    PositiveInterval = TRUE
    MaxTime = 2
    MaxCycles = 0
    Clients = {c1}
    Reliable = FALSE
    MaxBoots = 2
PROPERTIES
    ImplementsFactsService
    RowsOutliveProcess
    RequestsNeverWaitForCollection
    SignalEndsProcess
