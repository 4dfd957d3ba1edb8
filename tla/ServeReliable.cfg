SPECIFICATION HistorySpec
CONSTANTS
    Words <- MCWords
    Hardware <- MCHardware
    Chassis <- MCChassis
    SwitchDomain <- MCSwitchDomain
    ServerIDs <- OneServer
    Pipeline <- StorePipeline
    Records <- DemoRecords
    PositiveInterval = TRUE
    MaxTime = 2
    MaxCycles = 1
    Clients = {c1, c2}
    Reliable = TRUE
    MaxBoots = 1
SYMMETRY Symmetry
INVARIANT
    AnswersNeverGoBack
PROPERTIES
    ImplementsFactsService
