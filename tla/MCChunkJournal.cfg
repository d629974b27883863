SPECIFICATION Spec
CONSTANTS
  wa = wa
  wb = wb
  ra = ra
  ca = ca
  cb = cb
  none = none
  Coords = {ca, cb}
  Writers = {wa, wb}
  Readers = {ra}
  NoOne = none
  LastSequence = 2
  LastJournal = 2
  LastValue = 3
  LastGeneration = 1
  ErrorsAt = {"renamed", "displaced", "promote", "promoted", "discard"}
SYMMETRY MCSymmetry
INVARIANTS TypeOK AcceptedSurvives PinnedViewsHold
PROPERTIES MaintenanceInvisible
CHECK_DEADLOCK FALSE
