SPECIFICATION FairSpec
CONSTANTS
  VIRTQ_SIZE = 3
  Cpus = {c1, c2}
  Blocks = {k1, k2}
  None = None
  Handler = "excluded"
  Disturbed = {TRUE, FALSE}
  c1 = c1
  c2 = c2
  k1 = k1
  k2 = k2
CHECK_DEADLOCK FALSE
INVARIANTS Conserved DeviceBlocksLive PutAssertHolds AbortOnlyWhenFull
PROPERTY UsedIsReaped
