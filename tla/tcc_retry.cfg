SPECIFICATION Spec
CONSTANTS
  i1 = i1  i2 = i2  x1 = x1  v1 = v1  v2 = v2  s1 = s1  s2 = s2
  c1 = c1  c2 = c2  c3 = c3  c4 = c4  d1 = d1  d2 = d2
  None = None
  Inserts = {i1}
  Deletes = {}
  Values = {v1}
  Shards = {s1, s2}
  Calls = {c1, c4}
  Drivers = {d1, d2}
  MaxGen = 2
  MaxFaults = 2
  Claims <- SameValue
  Home <- TwoShards
  KeyOf <- RetryFirst
INVARIANTS TypeOK SlotsExact NoneIsNonCommit IInv
PROPERTIES NoWriteAfterFailure
CHECK_DEADLOCK FALSE
SYMMETRY Passes
