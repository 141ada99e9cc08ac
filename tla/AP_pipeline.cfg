SPECIFICATION Spec
CONSTANTS
    Catalog <- MCCatalog
    Rule <- MCRule
    Group <- MCGroup
    Issues <- MCIssues
    Symptoms <- MCSymptoms
    Settings <- MCSettings
    Boards <- MCBoards
    Finds <- MCFinds
    Hypotheses <- MCHypotheses
    Opinions <- MCOpinions
    MaxRepairs = 2
INVARIANTS
    PublishedIsGrounded
    RefutedNeverSynthesizedInTime
