SPECIFICATION FairSpec
CONSTANTS
    a1 = a1
    a2 = a2
    inc = inc
    Alerts <- TwoAlerts
    Incidents <- OneInc
    IncidentOf <- AllOfInc
    Requests <- RequestsSmall
    Slots = 1
    AgentTimeout = 1
    ManualTimeout = 1
    ReanalyzeCooldown = 1
    RetryCooldown = 1
    BackfillBatch = 0
    MaxAttempts = 2
    MaxCorrections = 0
    MaxFaults = 1
INVARIANTS
    OneRunPerTarget
    FlagsNested
    AnalyzingIsDriven
PROPERTIES
    RunsEnd
    FlagsClear
CHECK_DEADLOCK FALSE
