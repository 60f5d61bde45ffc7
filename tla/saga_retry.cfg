SPECIFICATION Spec
CONSTANTS
  m1 = m1  m2 = m2  s1 = s1  s2 = s2  c1 = c1  c2 = c2  c3 = c3
  Recovery = Recovery
  Mutations = {m1}
  Shards = {s1, s2}
  Targets <- BothAndFirst
  Calls = {c1, c2}
  KeyOf <- RetryOfFirst
  Plans = 1
  Suspends = {}
  Hot = {m1}
  Counts = {1, 2}
  PageLimit = 1
  MaxFaults = 2
SYMMETRY Attempts
INVARIANTS TypeOK AnsweredMeansDone ExactlyOnce
CHECK_DEADLOCK FALSE
