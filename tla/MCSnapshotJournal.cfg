SPECIFICATION Spec
CONSTANTS
  MaxEntries = 2
  LastSequence = 2
  LastGeneration = 3
  LastSnapshot = 2
  Keeps = {0, 1}
  ErrorsAt = {"appended", "compact", "published", "manifest", "checkpoint", "removing",
              "pruning"}
INVARIANTS TypeOK AcceptedSurvives
PROPERTIES ImplementsStore
CHECK_DEADLOCK FALSE
