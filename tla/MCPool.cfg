SPECIFICATION Spec
CONSTANTS
  PoolSize = 8
  VIRTQ_SIZE = 3
  MaxLen = 5
INVARIANTS NoResidue IdlePoolServes SharedOnlyErased
