SPECIFICATION FairSpec
CONSTANTS
  NumCpus = 3
  Platforms <- MCPlatforms
  Nobody = Nobody
  MaxEvents = 2
CHECK_DEADLOCK FALSE
INVARIANTS ContextRestored WaveInOrder
PROPERTIES UartServed WaveReachesAll
