SPECIFICATION Spec
CONSTANTS
  Cycles = {c1}
  Lookback = 0
  CommentPages = 1
  DeepPages = 1
  DeepSweepTime = 0
  StoreFails = TRUE
  Past = {1, 2}
  MaxComments = 3
  MaxTime = 4
CHECK_DEADLOCK FALSE
INVARIANTS
  FirstImportIsComplete
