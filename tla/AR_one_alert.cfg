SPECIFICATION Spec
CONSTANTS
    a1 = a1
    a2 = a2
    inc = inc
    Alerts <- OneAlert
    Incidents <- OneInc
    IncidentOf <- AllOfInc
    Requests <- RequestsAll
    Slots = 1
    AgentTimeout = 1
    ManualTimeout = 1
    ReanalyzeCooldown = 1
    RetryCooldown = 1
    BackfillBatch = 1
    MaxAttempts = 3
    MaxCorrections = 1
    MaxFaults = 1
VIEW RankView
INVARIANTS
    SlotsAccounted
PROPERTIES
    LastGoodKept
    PinnedUntouched
CHECK_DEADLOCK FALSE
