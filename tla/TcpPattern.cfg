SPECIFICATION Spec
CONSTANTS
  Client = {c1, c2}
  ClientBufSize = 3
  ServerBufSize = 2
  packets = 2
  MaxZeroed = 1
  None = None
INVARIANTS
  TypeOK
  ReportsExact
  NothingUnread
PROPERTY
  EveryoneServed
CHECK_DEADLOCK FALSE
