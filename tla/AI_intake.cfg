SPECIFICATION Spec
CONSTANTS
    f1 = f1
    f2 = f2
    k1 = k1
    k2 = k2
    Fingerprints <- OneFinger
    Keys <- OneKey
    KeyOf <- AllOfOne
    FlapKeys <- OneKey
    Window = 0
    TrashRetention = 0
    EpisodeRetention = 0
    MaxTime = 2
    MaxIncidents = 2
    MaxAlerts = 2
    MaxOrders = 2
    MaxDisruptions = 1
INVARIANTS
    RowsAgree
    GoneForGood
PROPERTIES
    LastPurgedStaysGone
CHECK_DEADLOCK FALSE
