SPECIFICATION Spec
CONSTANTS
  Key = {"rc", "sh", "um", "sw"}
  Pid = {1, 2, 3}
  Inittabs <- MCInittabs
  MaxForkFails = 1
  MaxStops = 1
  MaxSignals = 2
INVARIANTS
  TypeOK
  OneProcessPerEntry
  AwaitedAlone
  PidExplained
  ListFollowsInittab
PROPERTIES
  Respawned
  GoesDown
CHECK_DEADLOCK FALSE
