SPECIFICATION Spec
CONSTANTS
  Button   = {L}
  ClampMax = 1
  Delta    <- Deltas
  MaxTotal = 2
INVARIANTS
  TypeOK
  OwnedWhileInside
PROPERTIES
  ThreadSafe
