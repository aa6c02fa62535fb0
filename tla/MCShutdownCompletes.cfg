SPECIFICATION Spec
CONSTANTS
  Axis      <- OneAxis
  Button    = {L}
  HidButton = {L}
  ClampMax  = 1
  Delta     <- Deltas
  MaxTotal  = 2
  Host      = {A}
  Backlog   = 1
  MaxInputs = 1
  MaxFaults = 2
PROPERTIES
  ShutdownCompletes
