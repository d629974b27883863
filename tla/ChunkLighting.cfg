SPECIFICATION FairSpec
CONSTANTS
  Line = 3
  Start = {1, 2}
  Cells = 2
  Budget = 3
  MaxEvents = 2
INVARIANTS TypeOK StageTruth
PROPERTIES NoStaleField Settles
CHECK_DEADLOCK FALSE
