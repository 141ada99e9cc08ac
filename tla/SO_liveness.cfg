SPECIFICATION FairSpec
CONSTANTS
    r1 = r1
    r2 = r2
    i1 = i1
    i2 = i2
    Rows <- OneRow
    Incidents <- OneInc
    IncidentOf <- AllOfOne
    Batch = 1
    OutboxCap = 32
    StartSeqs <- NewIncidents
    MaxAttempts = 2
    MaxResolutions = 0
    MaxDisruptions = 1
PROPERTY DeliveriesSettle
CHECK_DEADLOCK FALSE
