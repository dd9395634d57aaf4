CONSTANTS
  t1 = t1
  t2 = t2
  t3 = t3
  NoThread = NoThread
  Threads <- MCThreads
  PoolQueries = FALSE
SPECIFICATION AllSpec
INVARIANTS  ReadinessIsRight
PROPERTIES  StopReturnsUnlessRestarted
