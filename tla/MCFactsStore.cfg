SPECIFICATION Spec
CONSTANTS
    Servers = {s1, s2}
    Records = {r1}
    NoRecord = none
    Words <- MCWords
    Payloads <- MCPayloads
    MaxTime = 3
    MaxRows = 3
INVARIANTS
    StoreTypeOK
    OneAnswer
    QueriesAgreeInOrder
    FleetAddsUp
PROPERTY
    ServedNeverGoesBack
