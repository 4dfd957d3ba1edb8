SPECIFICATION FairSpec
CONSTANTS
    Words <- MCWords
    Pipelines <- MCPipelines
    Relevant <- MCRelevant
    Outages <- MCOutages
    MaxChanges = 2
INVARIANTS
    CapabilitiesWereThere
    NothingMissed
PROPERTY
    RecordCatchesUp
