SPECIFICATION UdpSpec
CONSTANTS
  ClientBufSize = 5
  ServerBufSize = 3
  packets = 2
  MaxReceived = 3
INVARIANTS
  NeverUndercounts
  ExactAfterResync
CHECK_DEADLOCK FALSE
