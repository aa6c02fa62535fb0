SPECIFICATION Spec
CONSTANTS
  Handle    = {h1, h2, h3, h4, h5}
  Null      = Null
  MaxFaults = 2
INVARIANTS
  TornDown
