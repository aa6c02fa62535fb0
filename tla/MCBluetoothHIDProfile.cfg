SPECIFICATION PairSpec
CONSTANTS
  Host      = {A, B, C}
  Button    = {L, X}
  HidButton = {L}
  Backlog   = 2
SYMMETRY HostSymmetry
INVARIANTS
  TypeOK
  ConnectedOnBoth
  SameDevice
PROPERTIES
  NoStaleAccept
