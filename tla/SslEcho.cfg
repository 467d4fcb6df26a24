SPECIFICATION Spec
CONSTANTS
  Client = {c1, c2}
  Random = {5, 63}
  MaxBufSize = 128
  RecordMax = 32
  SockBuf = 48
  packets = 3
  None = None
INVARIANTS TypeOK NothingVanishes EchoComplete NoFalseErrors
 
CHECK_DEADLOCK FALSE
