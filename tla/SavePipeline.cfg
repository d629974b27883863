CONSTANTS
  Roots = {home}
  Databases = {home}
  Sizes = {1, 2}
  LastRequestId = 3
  MaxConcurrent = 2
  MaxResults = 2
  MaxRequestBytes = 2
  MaxReservedBytes = 3
  InitialDelay = 2
  MaximumDelay = 3
  MaxAttempts = 2
  MaxDeferred = 1
SPECIFICATION FairSpec
INVARIANTS TypeOK ReservationCovers EveryRequestAnswered CheckpointOwed
PROPERTIES NewestSnapshotWins ExitSaveDurable DeferredSettled ShutdownEnds
CHECK_DEADLOCK FALSE
