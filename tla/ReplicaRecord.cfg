SPECIFICATION FairSpec
CONSTANTS
  c1 = c1
  c2 = c2
  Chunks = {c1, c2}
  Places <- MCPlaces
  Start <- Between
  MaxSubscribed = 2
  MaxAdditions = 1
  MaxRemovals = 1
  Slices = 2
  MaxBacklog = 4
  MaxEvents = 1
  FrameSlices = 20

PROPERTIES RecordArrives
CHECK_DEADLOCK FALSE
