SPECIFICATION Spec
CONSTANTS
  Point     = {0, 4}
  Button    = {L}
  Limit     = 8
  SeqValues = 4
  Inbox     = 1
  MaxEvents = 3
  MaxFaults = 2
INVARIANTS
  TypeOK
  MotionAccounted
  NetworkFollowsApp
PROPERTIES
  NewestHeals
  StopEnds
