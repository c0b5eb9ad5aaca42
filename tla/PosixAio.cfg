\* The thread pool, its requests, and nested event loops.
SPECIFICATION FairSpec
CONSTANTS
  a1 = a1
  a2 = a2
  t1 = t1
  t2 = t2
  NoAcb = NoAcb
  Acbs = {a1, a2}
  Threads = {t1, t2}
  MaxDepth = 2
  Setups <- MCSetups
INVARIANTS PoolConsistent NoLostWakeup OwnContext
PROPERTIES FlushDrains ImplementsAioSpec Returns
