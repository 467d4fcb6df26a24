SPECIFICATION SearchSpec
CONSTANTS
  Byte <- MCByte
  Pattern <- MCPattern
  DumpSize = 8
  PageSize = 4
INVARIANTS AllHitsPrinted PageSplitExact
PROPERTY Terminates
CHECK_DEADLOCK FALSE
