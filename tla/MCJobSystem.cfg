SPECIFICATION Spec
CONSTANTS
  w1 = w1
  w2 = w2
  c1 = c1
  Workers = {w1, w2}
  Callers = {c1}
  Resubmitters = {}
  FirstJobId = 1
  LastJobId = 3
  Priorities = {1, 2}
  CancelReasons = {"requested"}
  MaxPending = 2
  MaxCompleted = 1
  AgingDispatches = 1
SYMMETRY MCSymmetry
INVARIANTS TypeOK AccountingExact CancelHonoured VerdictExplained BypassBound
PROPERTIES ImplementsContract
CHECK_DEADLOCK FALSE
