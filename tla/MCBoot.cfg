SPECIFICATION FairSpec
CONSTANTS
  NumCpus = 4
  Machines <- MCMachines
  Nobody = Nobody
  Junk = Junk
INVARIANTS BssClearBeforeC OutputInOrder
PROPERTY AllUp
