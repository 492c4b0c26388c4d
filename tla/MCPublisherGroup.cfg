SPECIFICATION Spec
CONSTANTS
  r1 = r1
  r2 = r2
  w1 = w1
  w2 = w2
  NoRow = NoRow
  Rows <- TwoRows
  AsyncRows <- OneRow
  BrokenRows <- NoRows
  Workers <- OneWorker
  MAX_RETRIES = 0
  Overtaking = FALSE
  WriteErrors = FALSE
  MaxSchedules = 1
  MaxUploads = 1
  MaxCrashes = 0
CHECK_DEADLOCK FALSE
PROPERTIES
  GroupNeverClaimsHeldPost
