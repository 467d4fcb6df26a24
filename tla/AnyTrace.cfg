SPECIFICATION Spec
CONSTANTS
  Ptr = {p1}
  Page = {pg1}
  PageOf <- MCPageOf
  Skb = {s1}
  Loc = {l1}
  None = None
  MaxTime = 2
  MaxFrags = 2
INVARIANTS
  TypeOK
  PageAssertionsHold
  
PROPERTY
  KeptUntilReported
CHECK_DEADLOCK FALSE
