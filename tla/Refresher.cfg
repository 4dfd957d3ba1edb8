SPECIFICATION FairSpec
CONSTANTS
    Words <- MCWords
    Hardware <- MCHardware
    Chassis <- OneSwitch
    SwitchDomain <- MCSwitchDomain
    ServerIDs <- TwoServers
    Pipeline <- LivePipeline
    Records <- NoRecords
    PositiveInterval = TRUE
    MaxTime = 2
    MaxCycles = 1
INVARIANTS
    NoRowCollectedAfterCancel
    WholeBatchAttempted
    QueriesAgree
PROPERTIES
    CancelStopsRefresher
    TickAnswered
