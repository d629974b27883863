SPECIFICATION FairSpec
CONSTANTS
  c1 = c1
  c2 = c2
  c3 = c3
  Chunks = {c1, c2, c3}
  Views <- MCViews
  Editable = {c1}
  WorkerCount = 1
  MaxRequests = 2
  MaxCompleted = 2
  MaxPublications = 2
  MaxSubmissions = 1
  MaxSpeculative = 2
  Reserved = 1
  MaxEvictions = 1
  Target = 2
INVARIANTS TypeOK NeverMismatched
PROPERTIES OnlyWantedPublished RequiredLoaded
CHECK_DEADLOCK FALSE
