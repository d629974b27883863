SPECIFICATION FairSpec
CONSTANTS
  w1 = w1
  w2 = w2
  c1 = c1
  Workers = {w1, w2}
  Callers = {c1}
  Resubmitters = {w1}
  FirstJobId = 1
  LastJobId = 2
  Priorities = {0}
  CancelReasons = {"requested"}
  MaxPending = 2
  MaxCompleted = 1
  AgingDispatches = 1
PROPERTIES QueuedMarkHolds EveryJobResolved JoinsUnlessBlocked
CHECK_DEADLOCK FALSE
