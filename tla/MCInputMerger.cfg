SPECIFICATION Spec
CONSTANTS
  Axis     <- BothAxes
  Button   = {L}
  ClampMax = 2
  Delta    <- Deltas
  MaxTotal = 5
INVARIANTS
  TypeOK
  Conservation
PROPERTIES
  NeverReverses
