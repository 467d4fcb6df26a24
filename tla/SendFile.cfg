SPECIFICATION Spec
CONSTANTS
  Sizes = {1, 2, 3, 4, 5, 6, 7, 8, 9, 10, 11, 12}
  StringLen = 2
  RecordLen = 3
  Overhead = 1
  Room = 10
INVARIANTS
  PrintedSizes
  EndsOnlyIfItFits
PROPERTIES
  EndsIfItFits
CHECK_DEADLOCK FALSE
