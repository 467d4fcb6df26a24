SPECIFICATION MCSpec
CONSTANTS
  Page = {pg1, pg2}
  Frag = {f1, f2}
  MaxTrace = 6
  MaxLines = 3
  MaxTokens = 2
INVARIANTS
  ReportsDoubleZeroing
  CountsTrue
  FieldsOwn
  
CHECK_DEADLOCK FALSE
SYMMETRY Symmetry
