\* Lists of bottom halves under nested contexts.
SPECIFICATION FairSpec
CONSTANTS
  d1 = d1
  r3 = r3
  r1 = r1
  r2 = r2
  Devs = {d1}
  IdleDevs = {d1}
  Reqs = {r1, r2, r3}
  NoBh = NoBh
  MaxDepth = 2
  MaxOps = 3
INVARIANTS BhSafe
PROPERTIES ScheduledRuns
