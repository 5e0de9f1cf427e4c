SPECIFICATION Spec
CONSTANTS
  Files <- MCFiles
  Names <- MCNames
  HeaderNames <- MCHeaderNames
  Specials <- MCSpecials
INVARIANTS NamesResolve NothingUnpaced
CHECK_DEADLOCK FALSE
