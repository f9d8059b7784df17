SPECIFICATION Spec
CONSTANTS
  VIRTQ_SIZE = 2
  Cpus = {c1}
  Blocks = {k1, k2}
  None = None
  Handler = "smp"
  Disturbed = {FALSE}
  c1 = c1
  c2 = c2
  k1 = k1
  k2 = k2
CHECK_DEADLOCK FALSE
INVARIANT PutAssertHolds
