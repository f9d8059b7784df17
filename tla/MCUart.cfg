SPECIFICATION FairSpec
CONSTANTS
  DRIVERS = {"pl011", "zynq", "8250", "nxp"}
  POLLED = {"pl011", "zynq", "8250", "nxp"}
  NumCpus = 2
  FIFO = 2
  MAX_RX = 3
  MAX_TX = 2
CHECK_DEADLOCK FALSE
INVARIANTS StrandedOnlyByRace CharLostOnlyByRace Getc8250OnlyByRace
PROPERTIES ReceiverDrains
