SPECIFICATION Spec
CONSTANTS
  r1 = r1
  r2 = r2
  w1 = w1
  w2 = w2
  NoRow = NoRow
  Rows <- OneRow
  AsyncRows <- OneRow
  BrokenRows <- NoRows
  Workers <- OneWorker
  MAX_RETRIES = 1
  Overtaking = FALSE
  WriteErrors = FALSE
  MaxSchedules = 2
  MaxUploads = 3
  MaxCrashes = 1
CHECK_DEADLOCK FALSE
INVARIANTS
  TypeOK
  NoSilentDoublePost
  RetryBudget
PROPERTIES
  SweepConfirmsThisSchedule
  BackoffIsRespected
