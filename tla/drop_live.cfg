SPECIFICATION FairSpec
CONSTANTS
  v1 = v1  c1 = c1  c2 = c2  c3 = c3
  None = None
  Inserts = {2, 3}
  Deletes = {1}
  Values = {v1}
  Value <- OneValue
  Label <- LastIsNew
  Calls = {c1, c2, c3}
  KeyOf <- InOrder
  Incarnations = 2
  MaxDrops = 1
  ProbePage = 2
  MaxFaults = 1
INVARIANTS TypeOK ReusedIdIsClean LiveIsReserved NoOrphanAcquire
PROPERTIES DropCompletes
CHECK_DEADLOCK FALSE
