SPECIFICATION FairSpec
CONSTANTS
  m1 = m1  m2 = m2  s1 = s1  s2 = s2  c1 = c1  c2 = c2  c3 = c3
  Recovery = Recovery
  Mutations = {m1, m2}
  Shards = {s1, s2}
  Targets <- BothAndFirst
  Calls = {c1, c3}
  KeyOf <- RetryOfFirst
  Plans = 1
  Suspends = {m2}
  Hot = {}
  Counts = {1}
  PageLimit = 1
  MaxFaults = 1
INVARIANTS StatsExact OnlyCallsFail
PROPERTIES CommittedRollsForward OutcomeSpec
CHECK_DEADLOCK FALSE
