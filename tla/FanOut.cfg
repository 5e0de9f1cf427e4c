SPECIFICATION FairSpec
CONSTANTS
  N = 4
  MaxParallel = 3
  Blocking = {p, q}
  Lengths = {0, 1, 2}
  Limits = {1, 2}
  Ceiling = 3
INVARIANTS TypeOK NeverOverLimit EndsWhenAllDone SleepsWithReason
PROPERTIES EndpointEnds
CHECK_DEADLOCK FALSE
