SPECIFICATION Spec
CONSTANTS
    Words <- MCWords
    Hardware <- MCHardware
    Chassis <- OneSwitch
    SwitchDomain <- MCSwitchDomain
    ServerIDs <- OneServer
    Pipeline <- DomainPipeline
    Records <- OneRecord
    PositiveInterval = TRUE
    MaxTime = 1
    MaxCycles = 0
INVARIANT
    ProvisioningBeatsHint
