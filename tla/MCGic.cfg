SPECIFICATION GicSpec
CONSTANTS
  NumCpus = 2
  IDS = {0, 32, 33, 34, 160}
  CALL_IDS = {0, 32, 33, 34}
  ITLN = 5
  PRIOS = {0, 128}
  MAX_CALLS = 2
CHECK_DEADLOCK FALSE
INVARIANTS FlagsAsAsked FieldsAsAsked ResetV2 DistributorStaysOn
