SPECIFICATION Spec
CONSTANTS
    r1 = r1
    r2 = r2
    i1 = i1
    i2 = i2
    Rows <- OneRow
    Incidents <- OneInc
    IncidentOf <- AllOfOne
    Batch = 1
    OutboxCap = 1
    StartSeqs <- AnyIncidents
    MaxAttempts = 2
    MaxResolutions = 2
    MaxDisruptions = 0
VIEW SettledView
INVARIANTS
    AutoFollowUpsSilent
    NoticedOnce
    ResolutionNoticed
CHECK_DEADLOCK FALSE
