SPECIFICATION FairSpec
CONSTANTS
  Cpus = {c1, c2, c3}
  Nobody = Nobody
  Empty = Empty
  Unlocks = {"release", "store_fence"}
  MaxRounds = 3
  c1 = c1
  c2 = c2
  c3 = c3
CHECK_DEADLOCK FALSE
INVARIANTS MutualExclusion NoLostUpdate
PROPERTIES ImplementsLock Progress
