SPECIFICATION Spec
CONSTANTS
  Lanes = 2
  Keys = 2
  Budget = 1
  Eager = {1}
  MaxCalls = 1
  MaxFaults = 1
INVARIANTS WakePromised
CHECK_DEADLOCK FALSE
