\* One collector, or the resolution of the target, at a time; it ends when it
\* has answered.
SPECIFICATION MCSpec
CONSTANTS
  Prelude = 3
  Epilogue = 5
  FiringSpan = 10
  Now = 40
  EventCap = 1
  DescribeCap = 2
  LineCap = 2
  Scrapes = {2, 12, 15, 18, 25, 30}
  Step = 1
  Lookback = 6
  ChangeCap = 1
  RowCap = 2
  TableCap = 2
  NodeCap = 2
INVARIANTS
  SupportIsOfItsEntity
  SupportPredatesResolution
  AbsenceIsComplete
  TargetStaysTheAlerts
CHECK_DEADLOCK FALSE
