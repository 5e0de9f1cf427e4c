SPECIFICATION Spec
CONSTANTS
  Patterns <- MCPatterns
  PeakLoads <- MCPeakLoads
  StartAts = {0, 300, 1500}
  Second = 100
  MaxHits = 60
  Delays = {0, 250}
INVARIANTS NoExtraLoad
PROPERTIES PatternEnds
CHECK_DEADLOCK FALSE
