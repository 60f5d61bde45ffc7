SPECIFICATION FairSpec
CONSTANTS
  p1 = p1  p2 = p2  s1 = s1
  Calls = {1, 2, 3}
  Ordered = {3}
  Postings = {p1, p2}
  Subjects = {s1}
  Touches <- OneEach
  Fit = 2
  Moves = 1
  Budget = TRUE
  Pressure = TRUE
  MaxUpgrades = 1
  MaxFaults = 1
INVARIANTS TypeOK NothingLost IndexBarrier NewestVectorKept NoLostWake
PROPERTIES QueuesDrain
CHECK_DEADLOCK FALSE
