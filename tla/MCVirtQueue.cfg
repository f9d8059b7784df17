SPECIFICATION FairSpec
CONSTANTS
  VIRTQ_SIZE = 2
  IDX_WRAP = 4
  Buffers = {b1, b2}
  NoBuffer = none
  b1 = b1
  b2 = b2
  none = none
INVARIANTS
  FreeListOK
  AvailWindowOK
  UsedWindowOK
PROPERTIES
  LifeCycle
  ChannelSpec
  OfferedReturns
