SPECIFICATION GicSpec
CONSTANTS
  NumCpus = 1
  IDS = {0, 33, 160}
  CALL_IDS = {0}
  ITLN = 5
  PRIOS = {128}
  MAX_CALLS = 1
CHECK_DEADLOCK FALSE
INVARIANT AllInterruptsReset
