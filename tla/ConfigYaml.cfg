SPECIFICATION Spec
CONSTANTS
  Inputs <- MCFiles
  Scalars <- MCScalars
INVARIANTS NothingForward ReadAsWritten
CHECK_DEADLOCK FALSE
