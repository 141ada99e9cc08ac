SPECIFICATION Spec
CONSTANTS
    r1 = r1
    r2 = r2
    i1 = i1
    i2 = i2
    Rows <- TwoRows
    Incidents <- OneInc
    IncidentOf <- AllOfOne
    Batch = 2
    OutboxCap = 32
    StartSeqs <- LegacyIncidents
    MaxAttempts = 2
    MaxResolutions = 0
    MaxDisruptions = 2
SYMMETRY RowSymmetry
VIEW SettledView
INVARIANTS
    PostedInOrder
    NumberedInThread
    DeliveredNotReposted
CHECK_DEADLOCK FALSE
