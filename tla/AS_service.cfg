SPECIFICATION Spec
CONSTANTS
    Requests <- MCRequests
    RunIds <- MCRunIds
    Targets <- MCTargets
    Confs <- MCConfs
    Revisions = 3
    Packages = {"p", "q"}
    Content <- MCContent
    Mode = "assist"
INVARIANTS
    ChangeReadInOwnTime
    CitationKeepsItsCard
    RankedOnSyncedKnowledge
PROPERTIES
    Implements
    EveryRequestAnswered
CHECK_DEADLOCK FALSE
