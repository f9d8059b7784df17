SPECIFICATION ConsoleFairSpec
CONSTANTS
  Features <- MCFeatures
  OtherFeatures <- MCOtherFeatures
  VIRTQ_SIZE = 3
  PoolSize = 9
  RX_BUFFER_SIZE = 3
  RX_CONSOLE_SIZE = 7
  RX_BUFFERS = 3
  Chars = {a}
  Nul = Nul
  Junk = Junk
  MaxSend = 3
  MaxTx = 1
  Preempt = FALSE
  Disturbed = {TRUE, FALSE}
  a = a
CHECK_DEADLOCK FALSE
INVARIANTS DriverOkMeansConfigured ResultMatchesStatus NullFits PrintsWholeMessage
PROPERTIES HandlerReturns TxReaped InputTaken
