SPECIFICATION Spec
CONSTANTS
  Ctx = {c1, c2}
  Skb = {s1, s2}
  Kmem = {h1, h2}
  Frag = {f1, f2}
  Page = {pg}
  PageOf <- MCPageOf
  Loc = {l1, l2}
  None = None
  MaxTime = 2
  MaxFrags = 2
  Kernels <- AllKernels
INVARIANTS
  FailureExplained
  LocationsFresh
PROPERTIES
  MeterSpec
CHECK_DEADLOCK FALSE
SYMMETRY Symmetry
