SPECIFICATION Spec
CONSTANTS
  p1 = p1  p2 = p2  s1 = s1
  Calls = {1, 2, 3}
  Ordered = {}
  Postings = {p1}
  Subjects = {}
  Touches <- Everything
  Fit = 2
  Moves = 0
  Budget = FALSE
  Pressure = FALSE
  MaxUpgrades = 0
  MaxFaults = 1
INVARIANTS Converged
CHECK_DEADLOCK FALSE
