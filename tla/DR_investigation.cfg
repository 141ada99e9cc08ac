\* Two collectors, two rounds of the model, two agents and one re-analysis.
SPECIFICATION Spec
CONSTANTS
  MaxAttempts = 2
  Names <- MCNames
  Kubernetes = "kubernetes"
  Scopes <- MCScopes
  Whole = "whole"
  Effective <- MCEffective
  Queries <- MCQueries
  Covers <- MCCovers
  Hypotheses <- MCHypotheses
  Planned = {"h1"}
  Facts <- MCFacts
  Plane <- MCPlane
  For <- MCFor
  Against <- MCAgainst
  Alone = {"oom"}
  Eligible <- MCEligible
  Typed = {"oom"}
  Results <- MCResults
  Answers <- MCAnswers
  Reflections <- MCReflections
  RoundLimit <- MCRounds
  HistoryCap = 8
  Targets = {"named", "wide"}
  Registry = {"kubernetes", "loki"}
  Declared <- MCDeclared
  About <- MCAbout
  Optional <- MCOptional
  DrillLimit = 1
INVARIANTS
  NothingSkippedUngrounded
  
  EveryProbeIsAssessed
PROPERTIES
  ReadsAreBounded
  InvestigationEnds
