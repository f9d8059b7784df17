SPECIFICATION RxFairSpec
CONSTANTS
  RX_BUFFER_SIZE = 4
  RX_CONSOLE_SIZE = 16
  RX_BUFFERS = 2
  Chars = {a}
  Nul = Nul
  Junk = Junk
  MaxSend = 3
  MaxTx = 1
  Preempt = FALSE
  Disturbed = {FALSE}
  a = a
CHECK_DEADLOCK FALSE
PROPERTY AllInputReceived
