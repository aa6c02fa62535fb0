SPECIFICATION Spec
CONSTANTS
  Axis      <- OneAxis
  Button    = {L, X}
  HidButton = {L}
  ClampMax  = 1
  Delta     <- Deltas
  MaxTotal  = 2
  Host      = {A, B}
  Backlog   = 1
  MaxInputs = 2
  MaxFaults = 2
INVARIANTS
  TypeOK
  MotionAccounted
  HostInStep
PROPERTIES
  InputReachesHost
  ShutdownOutsideWait
  Reconnects
