SPECIFICATION Spec
CONSTANTS
  Client = {c1}
  Random = {5, 63}
  MaxBufSize = 128
  RecordMax = 32
  SockBuf = 48
  packets = 3
  None = None
INVARIANT ServerKeepsRunning
CHECK_DEADLOCK FALSE
