\* The guest may have made all its writes.
SPECIFICATION Qcow2FairSpec
CONSTANTS
  Reqs = {1, 2, 3}
  GC = 2
  CS = 2
  HC = 9
  Ranges <- MCRanges
  Layouts <- MCLayouts
  Envs <- MCEnvs
  MaxCmds = 2
  MaxCrash = 1
CHECK_DEADLOCK FALSE
INVARIANTS GuestReads ImageReads RefsRight
PROPERTIES WritesEnd
