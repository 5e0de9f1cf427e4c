SPECIFICATION Spec
CONSTANTS
  Files <- MCFiles
  KB8 = 3
  QueueMax = 2
INVARIANTS ValuesAsWritten
PROPERTIES ReaderServes
