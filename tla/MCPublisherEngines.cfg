SPECIFICATION Spec
CONSTANTS
  r1 = r1
  r2 = r2
  w1 = w1
  w2 = w2
  NoRow = NoRow
  Rows <- OneRow
  AsyncRows <- OneRow
  BrokenRows <- NoRows
  Workers <- TwoWorkers
  MAX_RETRIES = 0
  Overtaking = FALSE
  WriteErrors = TRUE
  MaxSchedules = 2
  MaxUploads = 3
  MaxCrashes = 1
CHECK_DEADLOCK FALSE
SYMMETRY WorkerSymmetry
INVARIANTS
  NoSilentDoublePost
PROPERTIES
  PublishedNeverFails
