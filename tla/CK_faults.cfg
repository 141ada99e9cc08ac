SPECIFICATION Spec
CONSTANTS
    i1 = i1
    i2 = i2
    c1 = c1
    c2 = c2
    f1 = f1
    x1 = x1
    n1 = n1
    x2 = x2
    r1 = r1
    r2 = r2
    NoCase = NoCase
    NoCand = NoCand
    Incidents <- OneInc
    Cases <- TwoHashes
    IncidentOf <- OfOne
    Candidates <- FewCands
    Eligible <- FewEligible
    Compile <- FewCompile
    Fingerprint <- FewPrint
    Reviewers = {r1}
    ReviewKinds = {"veto", "confirm", "operator"}
    MaxFaults = 1
    MaxCalls = 1
    Curators = {"human", "llm"}
    MaxRuns = 2
    MaxReviews = 2
PROPERTIES
    HumanEditWins
    ReplacedOnRecord
CHECK_DEADLOCK FALSE
