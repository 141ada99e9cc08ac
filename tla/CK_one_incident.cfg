SPECIFICATION Spec
CONSTANTS
    i1 = i1
    i2 = i2
    c1 = c1
    c2 = c2
    f1 = f1
    x1 = x1
    n1 = n1
    x2 = x2
    r1 = r1
    r2 = r2
    NoCase = NoCase
    NoCand = NoCand
    Incidents <- OneInc
    Cases <- TwoHashes
    IncidentOf <- OfOne
    Candidates <- OwnCands
    Eligible <- OwnEligible
    Compile <- OwnCompile
    Fingerprint <- OwnPrint
    Reviewers = {r1}
    ReviewKinds = {"confirm", "novel"}
    MaxFaults = 0
    MaxCalls = 1
    Curators = {}
    MaxRuns = 2
    MaxReviews = 3
INVARIANTS
    OneActivePackage
    LiveIsConfirmed
    ApprovalIsCurrent
    StatusMatchesRow
CHECK_DEADLOCK FALSE
