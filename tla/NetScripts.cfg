SPECIFICATION NetSpec
CONSTANTS
  Shell = {z1, z2}
  MaxBreaks = 3
  MaxTries = 5
INVARIANTS
  SetupComplete
  DeleteClean
  RepairedUnlessTrapped
PROPERTIES
  RouteFromKernel
  TogglesInvert
