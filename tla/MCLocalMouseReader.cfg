SPECIFICATION Spec
CONSTANTS
  Mouse     = {A, B}
  Button    = {L}
  Queue     = 2
  MaxEvents = 4
  MaxFaults = 2
INVARIANTS
  TypeOK
  MotionAccounted
  MaskFollows
PROPERTIES
  MouseFollowed
  StopEnds
