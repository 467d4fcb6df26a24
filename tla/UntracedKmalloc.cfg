SPECIFICATION Spec
CONSTANTS
  Ctx = {c1, c2}
  Skb = {s1}
  Kmem = {h1}
  Frag = {}
  Page = {pg}
  PageOf <- MCPageOf
  Loc = {l1}
  None = None
  MaxTime = 2
  MaxFrags = 2
  Kernels <- UntracedKmallocKernel
INVARIANTS
  HeadReuseSeen
CHECK_DEADLOCK FALSE
