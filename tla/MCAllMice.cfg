SPECIFICATION Spec
CONSTANTS
  Mouse     = {A, B}
  Button    = {L}
  Queue     = 2
  MaxEvents = 3
  MaxFaults = 2
INVARIANTS
  AllMiceAggregated
