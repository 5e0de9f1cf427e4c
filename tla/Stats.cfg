SPECIFICATION FairSpec
CONSTANTS
  BucketSize = 3
  Starts = {3, 5}
  MaxTime = 13
  MaxLate = 1
  SlowStart = FALSE
  Responses = {r1, r2, r3}
  Tag <- MCTag
  LogProviders = TRUE
  MaxUpdates = 1
  r1 = r1
  r2 = r2
  r3 = r3
INVARIANTS TypeOK NoPanic CountedOnce FileIsAccurate
PROPERTIES CountsInTime SummaryComes
CHECK_DEADLOCK FALSE
